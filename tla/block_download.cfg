SPECIFICATION Spec
CONSTANTS
    out = out
    in = in
    NoPeer = NoPeer
    Peers <- MCPeers
    Outbound <- MCOutbound
    Clients <- MCClients
    MaxHeight = 3
    MaxSubmits = 1
    Window = 1
    PerPeer = 1
INVARIANT InFlightExact
PROPERTY MissingAsked
CHECK_DEADLOCK FALSE
