-------------------------- MODULE MCBlockDownload --------------------------
(* A peer the node connected to and one that connected to it, which may be *)
(* asked for blocks while no other is there.                               *)
EXTENDS BlockDownload

CONSTANTS out, in

MCPeers    == {out, in}
MCOutbound == {out}
MCClients  == {}
=============================================================================
