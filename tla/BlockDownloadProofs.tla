------------------------ MODULE BlockDownloadProofs ------------------------
(***************************************************************************)
(* The map of blocks in flight, the lists of the peers and the two counters *)
(* of BlockDownload agree, for every set of peers, chain and limit.         *)
(***************************************************************************)
EXTENDS BlockDownload, FiniteSetTheorems, TLAPS

\* A peer without a CNodeState counts for nothing, and one whose version has
\* not come is not preferred.
Idle ==
    /\ \A p \in Peers : ~HasState(p) => node[p] = Fresh
    /\ \A p \in Peers : conn[p] = "init" => ~node[p].preferred

IInv == InFlightExact /\ Idle

Syncing   == {p \in Peers : node[p].sync}
Preferred == {p \in Peers : node[p].preferred}

-----------------------------------------------------------------------------

LEMMA FreshTyped == Fresh \in CNodeState
BY LimitsAssumption DEF Fresh, CNodeState, None, Height, Blocks

\* What one member more or less does to a number of peers.
LEMMA CountOne ==
    ASSUME NEW S \in SUBSET Peers, NEW p \in Peers
    PROVE  /\ Cardinality(S) \in Nat
           /\ p \notin S => Cardinality(S \cup {p}) = Cardinality(S) + 1
           /\ p \in S => Cardinality(S \ {p}) = Cardinality(S) - 1
           /\ p \in S => Cardinality(S) > 0
<1>1. IsFiniteSet(S)
  BY FS_Subset, PeersAssumption
<1>2. Cardinality(S) \in Nat
  BY <1>1, FS_CardinalityType
<1>3. p \notin S => Cardinality(S \cup {p}) = Cardinality(S) + 1
  BY <1>1, FS_AddElement
<1>4. p \in S => Cardinality(S \ {p}) = Cardinality(S) - 1
  BY <1>1, FS_RemoveElement
<1>5. p \in S => Cardinality(S) # 0
  BY <1>1, FS_EmptySet
<1> QED
  BY <1>2, <1>3, <1>4, <1>5

LEMMA AvailabilityKeeps ==
    ASSUME NEW s \in CNodeState, TypeOK
    PROVE  /\ ProcessBlockAvailability(s) \in CNodeState
           /\ ProcessBlockAvailability(s).asked = s.asked
           /\ ProcessBlockAvailability(s).sync = s.sync
           /\ ProcessBlockAvailability(s).preferred = s.preferred
<1>1. CASE s.unknown # None /\ s.unknown <= known
  <2> DEFINE h == Higher(s.best, s.unknown)
  <2>1. h \in Height
    BY <1>1, LimitsAssumption DEF CNodeState, Higher, Height, Blocks, None
  <2>2. ProcessBlockAvailability(s) = [s EXCEPT !.best = h, !.unknown = None]
    BY <1>1 DEF ProcessBlockAvailability
  <2> HIDE DEF h
  <2> QED
    BY <2>1, <2>2 DEF CNodeState
<1>2. CASE ~(s.unknown # None /\ s.unknown <= known)
  BY <1>2 DEF ProcessBlockAvailability
<1> QED
  BY <1>1, <1>2

-----------------------------------------------------------------------------
\* What a call of SendMessages does to the states of the peers: it asks p, whose
\* sync flag becomes y, for the blocks F, none of which is in flight.
Asks(p, F, y) ==
    /\ F \in SUBSET Blocks /\ \A b \in F : flight[b] = NoPeer
    /\ flight' = [b \in Blocks |-> IF b \in F THEN p ELSE flight[b]]
    /\ node' \in [Peers -> CNodeState]
    /\ node'[p].asked = node[p].asked \cup F
    /\ node'[p].sync = y
    /\ node'[p].preferred = node[p].preferred
    /\ \A r \in Peers \ {p} :
          /\ node'[r].asked = node[r].asked
          /\ node'[r].sync = node[r].sync
          /\ node'[r].preferred = node[r].preferred
          /\ node'[r] = node[r] \/ HasState(r)

\* A state of p before the blocks are looked for.
Looks(p, s, y) ==
    /\ s \in CNodeState /\ s.asked = node[p].asked /\ s.sync = y
    /\ s.preferred = node[p].preferred

LEMMA KeepAsks ==
    ASSUME IInv, NEW p \in Peers, NEW y, NEW s, Looks(p, s, y),
           node' = [node EXCEPT ![p] = s], UNCHANGED flight
    PROVE  Asks(p, {}, y)
<1>1. flight' = [b \in Blocks |-> IF b \in {} THEN p ELSE flight[b]]
  BY DEF IInv, InFlightExact, TypeOK
<1>2. node' \in [Peers -> CNodeState] /\ node'[p] = s
  BY DEF IInv, InFlightExact, TypeOK, Looks
<1>3. \A r \in Peers \ {p} : node'[r] = node[r]
  BY DEF IInv, InFlightExact, TypeOK
<1> QED
  BY <1>1, <1>2, <1>3 DEF Asks, Looks

LEMMA WalkAsks ==
    ASSUME IInv, NEW p \in Peers, NEW y, NEW s, Looks(p, s, y),
           s.best # None, NEW c \in Height, Walk(p, s, c)
    PROVE  \E F : Asks(p, F, y)
<1>1. PICK F \in {ToFetch(s, c, PerPeer - Cardinality(s.asked))}, W \in {Stallers(s, c)} :
        /\ flight' = [b \in Blocks |-> IF b \in F THEN p ELSE flight[b]]
        /\ node' = [r \in Peers |->
              IF r = p
              THEN [s EXCEPT !.common = Higher(c, Lower(linked, Lower(s.best, c + Window + 1))),
                             !.asked = @ \cup F]
              ELSE IF r \in W /\ s.asked \cup F = {} /\ node[r].stalling = "no"
              THEN [node[r] EXCEPT !.stalling = "since"]
              ELSE node[r]]
  BY DEF Walk
<1>2. F \in SUBSET Blocks /\ \A b \in F : flight[b] = NoPeer
  BY <1>1 DEF ToFetch, Ahead
<1>3. \A r \in W \cap Peers : HasState(r)
  <2>1. \A r \in W : \E b \in Blocks : r = flight[b]
    BY <1>1 DEF Stallers, Ahead
  <2> QED
    BY <2>1, PeersAssumption DEF IInv, InFlightExact, FlightExact
<1>4. Higher(c, Lower(linked, Lower(s.best, c + Window + 1))) \in Height
  BY LimitsAssumption
     DEF Higher, Lower, IInv, InFlightExact, TypeOK, Looks, CNodeState, Height, None
<1>5. /\ node'[p] \in CNodeState
      /\ node'[p].asked = s.asked \cup F
      /\ node'[p].sync = s.sync /\ node'[p].preferred = s.preferred
  BY <1>1, <1>2, <1>4 DEF Looks, CNodeState
<1>6. ASSUME NEW r \in Peers \ {p}
      PROVE  /\ node'[r] \in CNodeState
             /\ node'[r].asked = node[r].asked
             /\ node'[r].sync = node[r].sync
             /\ node'[r].preferred = node[r].preferred
             /\ node'[r] = node[r] \/ HasState(r)
  <2>1. node[r] \in CNodeState
    BY DEF IInv, InFlightExact, TypeOK
  <2>2. CASE r \in W /\ s.asked \cup F = {} /\ node[r].stalling = "no"
    <3>1. node'[r] = [node[r] EXCEPT !.stalling = "since"]
      BY <1>1, <2>2
    <3> QED
      BY <3>1, <2>1, <2>2, <1>3 DEF CNodeState
  <2>3. CASE ~(r \in W /\ s.asked \cup F = {} /\ node[r].stalling = "no")
    <3>1. node'[r] = node[r]
      BY <1>1, <2>3
    <3> QED
      BY <3>1, <2>1
  <2> QED
    BY <2>2, <2>3
<1>7. node' \in [Peers -> CNodeState]
  BY <1>1, <1>5, <1>6
<1> QED
  BY <1>1, <1>2, <1>5, <1>6, <1>7 DEF Asks, Looks

LEMMA AskForBlocksAsks ==
    ASSUME IInv, NEW p \in Peers, NEW y, NEW s, Looks(p, s, y), AskForBlocks(p, s)
    PROVE  \E F : Asks(p, F, y)
<1>1. CASE NothingInteresting(s)
  BY <1>1, KeepAsks DEF AskForBlocks
<1>2. CASE ~NothingInteresting(s)
  <2> DEFINE c == LastCommonAncestor(s)
  <2>1. s.best \in Height
    BY <1>2 DEF NothingInteresting, Looks, CNodeState
  <2>2. c \in Height
    BY <2>1, LimitsAssumption
       DEF LastCommonAncestor, Lower, IInv, InFlightExact, TypeOK, Looks, CNodeState, Height, None
  <2>3. CASE c = s.best
    <3>1. Looks(p, [s EXCEPT !.common = c], y)
      BY <2>2 DEF Looks, CNodeState
    <3>2. node' = [node EXCEPT ![p] = [s EXCEPT !.common = c]] /\ UNCHANGED flight
      BY <1>2, <2>3 DEF AskForBlocks
    <3> QED
      BY <3>1, <3>2, KeepAsks
  <2>4. CASE c # s.best
    <3>1. Walk(p, s, c)
      BY <1>2, <2>4 DEF AskForBlocks
    <3>2. s.best # None
      BY <1>2 DEF NothingInteresting
    <3> QED
      BY <3>1, <3>2, <2>2, WalkAsks
  <2> QED
    BY <2>3, <2>4
<1> QED
  BY <1>1, <1>2

LEMMA SendMessagesAsks ==
    ASSUME IInv, NEW p \in Peers, NEW recent \in BOOLEAN, SendMessages(p, recent)
    PROVE  \E F : Asks(p, F, node[p].sync \/ StartsSync(p, recent))
<1> DEFINE y == node[p].sync \/ StartsSync(p, recent)
           s == [node[p] EXCEPT !.sync = y]
<1>1. node[p] \in CNodeState
  BY DEF IInv, InFlightExact, TypeOK
<1>2. y \in BOOLEAN
  BY <1>1 DEF CNodeState, StartsSync
<1>3. Looks(p, s, y)
  <2> HIDE DEF y
  <2> QED
    BY <1>1, <1>2 DEF Looks, CNodeState
<1>4. Looks(p, ProcessBlockAvailability(s), y)
  <2> HIDE DEF y, s
  <2> QED
    BY <1>3, AvailabilityKeeps DEF Looks, IInv, InFlightExact
<1>5. AskForBlocks(p, ProcessBlockAvailability(s)) \/ (node' = [node EXCEPT ![p] = s] /\ UNCHANGED flight)
  BY DEF SendMessages
<1>6. CASE AskForBlocks(p, ProcessBlockAvailability(s))
  <2> HIDE DEF y, s
  <2>1. \E F : Asks(p, F, y)
    BY <1>4, <1>6, AskForBlocksAsks
  <2> QED
    BY <2>1 DEF y
<1>7. CASE node' = [node EXCEPT ![p] = s] /\ UNCHANGED flight
  <2> HIDE DEF y, s
  <2>1. Asks(p, {}, y)
    BY <1>3, <1>7, KeepAsks
  <2> QED
    BY <2>1 DEF y
<1> QED
  BY <1>5, <1>6, <1>7

-----------------------------------------------------------------------------

LEMMA CountsKept ==
    ASSUME IInv, UNCHANGED counters,
           \A r \in Peers : /\ node'[r].sync = node[r].sync
                            /\ node'[r].preferred = node[r].preferred
    PROVE  CountsExact'
<1>1. {r \in Peers : node'[r].sync} = {r \in Peers : node[r].sync}
  OBVIOUS
<1>2. {r \in Peers : node'[r].preferred} = {r \in Peers : node[r].preferred}
  OBVIOUS
<1> QED
  BY <1>1, <1>2 DEF CountsExact, IInv, InFlightExact, counters

\* Asking keeps the map and the lists equal, and the counters exact.
LEMMA AsksExact ==
    ASSUME IInv, NEW p \in Peers, conn[p] = "open", NEW y \in BOOLEAN,
           node[p].sync => y, NEW F, Asks(p, F, y), conn' = conn,
           nSyncStarted' = nSyncStarted + (IF y /\ ~node[p].sync THEN 1 ELSE 0),
           nPreferredDownload' = nPreferredDownload
    PROVE  FlightExact' /\ CountsExact' /\ Idle'
<1>0. HasState(p) /\ p # NoPeer
  BY PeersAssumption DEF HasState
<1>t. \A r \in Peers : node[r] \in CNodeState
  BY DEF IInv, InFlightExact, TypeOK
<1>f. /\ \A b \in Blocks : flight'[b] = IF b \in F THEN p ELSE flight[b]
      /\ F \in SUBSET Blocks /\ \A b \in F : flight[b] = NoPeer
  BY DEF Asks
<1>1. ASSUME NEW r \in Peers PROVE node'[r].asked = {b \in Blocks : flight'[b] = r}
  <2>1. node[r].asked = {b \in Blocks : flight[b] = r}
    BY DEF IInv, InFlightExact, FlightExact
  <2>n. r # NoPeer
    BY PeersAssumption
  <2>2. CASE r = p
    <3>1. node'[r].asked = node[r].asked \cup F
      BY <2>2 DEF Asks
    <3> QED
      BY <3>1, <2>1, <2>2, <1>f
  <2>3. CASE r # p
    <3>1. node'[r].asked = node[r].asked
      BY <2>3 DEF Asks
    <3> QED
      BY <3>1, <2>1, <2>3, <2>n, <1>f
  <2> QED
    BY <2>2, <2>3
<1>2. ASSUME NEW b \in Blocks, flight'[b] # NoPeer
      PROVE  conn'[flight'[b]] \in {"init", "open"}
  BY <1>0, <1>2, <1>f DEF HasState, IInv, InFlightExact, FlightExact
<1>3. FlightExact'
  BY <1>1, <1>2 DEF FlightExact, HasState
<1>4. nSyncStarted' = Cardinality({r \in Peers : node'[r].sync})
  <2>1. nSyncStarted = Cardinality(Syncing) /\ Syncing \in SUBSET Peers
    BY DEF IInv, InFlightExact, CountsExact, Syncing
  <2>2. CASE y /\ ~node[p].sync
    <3>1. node'[p].sync /\ \A r \in Peers \ {p} : node'[r].sync = node[r].sync
      BY <2>2 DEF Asks
    <3>2. {r \in Peers : node'[r].sync} = Syncing \cup {p}
      BY <3>1, Zenon DEF Syncing
    <3>3. p \notin Syncing
      BY <2>2 DEF Syncing
    <3>4. Cardinality(Syncing \cup {p}) = Cardinality(Syncing) + 1
      BY <3>3, <2>1, CountOne
    <3>5. nSyncStarted' = nSyncStarted + 1
      BY <2>2
    <3> QED
      BY <3>2, <3>4, <3>5, <2>1
  <2>3. CASE ~(y /\ ~node[p].sync)
    <3>0. node[p].sync \in BOOLEAN
      BY <1>t DEF CNodeState
    <3>1. node'[p].sync = node[p].sync
      BY <2>3, <3>0 DEF Asks
    <3>2. {r \in Peers : node'[r].sync} = Syncing
      BY <3>1 DEF Asks, Syncing
    <3>3. nSyncStarted' = nSyncStarted
      BY <2>3 DEF IInv, InFlightExact, TypeOK
    <3> QED
      BY <3>2, <3>3, <2>1
  <2> QED
    BY <2>2, <2>3
<1>5. {r \in Peers : node'[r].preferred} = {r \in Peers : node[r].preferred}
  BY DEF Asks
<1>6. CountsExact'
  BY <1>4, <1>5 DEF CountsExact, IInv, InFlightExact
<1>7. Idle'
  BY <1>0 DEF Asks, Idle, IInv, HasState
<1> QED
  BY <1>3, <1>6, <1>7

\* A block that comes leaves the map and the list of whoever was asked.
LEMMA ReceivedExact ==
    ASSUME IInv, NEW b \in Blocks, MarkBlockAsReceived(b), conn' = conn,
           UNCHANGED counters
    PROVE  /\ node' \in [Peers -> CNodeState]
           /\ flight' \in [Blocks -> Peers \cup {NoPeer}]
           /\ late' \in [Peers -> BOOLEAN]
           /\ FlightExact' /\ CountsExact' /\ Idle'
<1> DEFINE q == flight[b]
<1>t. TypeOK /\ FlightExact /\ CountsExact /\ Idle
  BY DEF IInv, InFlightExact
<1>1. CASE q = NoPeer
  <2>1. UNCHANGED <<flight, node, late>>
    BY <1>1 DEF MarkBlockAsReceived
  <2> QED
    BY <2>1, <1>t DEF TypeOK, FlightExact, CountsExact, Idle, counters, HasState
<1>2. CASE q # NoPeer
  <2>1. q \in Peers /\ HasState(q)
    BY <1>2, <1>t DEF TypeOK, FlightExact
  <2>2. flight' = [flight EXCEPT ![b] = NoPeer]
    BY <1>2 DEF MarkBlockAsReceived
  <2>3. node' = [node EXCEPT ![q].asked = @ \ {b}, ![q].stalling = "no"]
    BY <1>2 DEF MarkBlockAsReceived
  <2>4. late' = [late EXCEPT ![q] = FALSE]
    BY <1>2 DEF MarkBlockAsReceived
  <2>5. node[q] \in CNodeState
    BY <2>1, <1>t DEF TypeOK
  <2> DEFINE n == [node[q] EXCEPT !.asked = @ \ {b}, !.stalling = "no"]
  <2>6. /\ n \in CNodeState /\ n.asked = node[q].asked \ {b}
        /\ n.sync = node[q].sync /\ n.preferred = node[q].preferred
    BY <2>5 DEF CNodeState
  <2>7. node' = [node EXCEPT ![q] = n]
    BY <2>3, <2>1, <1>t DEF TypeOK
  <2> HIDE DEF n
  <2>8. /\ node' \in [Peers -> CNodeState] /\ node'[q] = n
        /\ \A r \in Peers \ {q} : node'[r] = node[r]
    BY <2>7, <2>6, <2>1, <1>t DEF TypeOK
  <2>9. ASSUME NEW r \in Peers PROVE node'[r].asked = {a \in Blocks : flight'[a] = r}
    <3>1. node[r].asked = {a \in Blocks : flight[a] = r}
      BY <1>t DEF FlightExact
    <3>2. r # NoPeer
      BY PeersAssumption
    <3>3. \A a \in Blocks : flight'[a] = IF a = b THEN NoPeer ELSE flight[a]
      BY <2>2, <1>t DEF TypeOK
    <3>4. CASE r = q
      BY <3>1, <3>2, <3>3, <3>4, <2>6, <2>8
    <3>5. CASE r # q
      BY <3>1, <3>2, <3>3, <3>5, <2>8
    <3> QED
      BY <3>4, <3>5
  <2>10. FlightExact'
    BY <2>2, <2>9, <1>t DEF FlightExact, TypeOK, HasState
  <2>11. CountsExact'
    BY <2>6, <2>8, CountsKept
  <2>12. Idle'
    BY <2>6, <2>8, <2>1, <1>t DEF Idle, HasState
  <2> QED
    BY <2>2, <2>4, <2>8, <2>10, <2>11, <2>12, <1>t DEF TypeOK
<1> QED
  BY <1>1, <1>2

-----------------------------------------------------------------------------

LEMMA InitInv == Init => IInv
<1> SUFFICES ASSUME Init PROVE IInv
  OBVIOUS
<1>1. TypeOK
  BY FreshTyped, LimitsAssumption DEF Init, TypeOK, Height
<1>2. FlightExact
  BY PeersAssumption DEF Init, FlightExact, Fresh
<1>3. CountsExact
  <2>1. {p \in Peers : node[p].sync} = {} /\ {p \in Peers : node[p].preferred} = {}
    BY DEF Init, Fresh
  <2> QED
    BY <2>1, FS_EmptySet DEF Init, CountsExact
<1>4. Idle
  BY DEF Init, Idle, HasState
<1> QED
  BY <1>1, <1>2, <1>3, <1>4 DEF IInv, InFlightExact

LEMMA InitializeNodeInv ==
    ASSUME IInv, NEW p \in Peers, InitializeNode(p)
    PROVE  IInv'
<1>t. TypeOK /\ FlightExact /\ CountsExact /\ Idle
  BY DEF IInv, InFlightExact
<1>1. node' = node
  BY <1>t DEF InitializeNode, Idle, HasState, TypeOK
<1>2. TypeOK'
  BY <1>1, <1>t DEF InitializeNode, TypeOK, chain, counters
<1>3. FlightExact'
  BY <1>1, <1>t DEF InitializeNode, FlightExact, HasState, TypeOK
<1>4. CountsExact'
  BY <1>1, CountsKept DEF InitializeNode
<1>5. Idle'
  <2>1. node[p] = Fresh
    BY <1>t DEF InitializeNode, Idle, HasState
  <2>2. ~node[p].preferred
    BY <2>1 DEF Fresh
  <2> QED
    BY <1>1, <2>2, <1>t DEF InitializeNode, Idle, HasState, TypeOK
<1> QED
  BY <1>2, <1>3, <1>4, <1>5 DEF IInv, InFlightExact

LEMMA UpdatePreferredDownloadInv ==
    ASSUME IInv, NEW p \in Peers, UpdatePreferredDownload(p)
    PROVE  IInv'
<1> DEFINE n == [node[p] EXCEPT !.preferred = p \in Outbound]
<1>t. TypeOK /\ FlightExact /\ CountsExact /\ Idle
  BY DEF IInv, InFlightExact
<1>1. /\ n \in CNodeState /\ n.asked = node[p].asked
      /\ n.sync = node[p].sync /\ n.preferred = (p \in Outbound)
  <2>1. node[p] \in CNodeState
    BY <1>t DEF TypeOK
  <2> DEFINE o == p \in Outbound
  <2>2. o \in BOOLEAN
    OBVIOUS
  <2>3. n = [node[p] EXCEPT !.preferred = o]
    OBVIOUS
  <2> HIDE DEF o, n
  <2>4. /\ n \in CNodeState /\ n.asked = node[p].asked
        /\ n.sync = node[p].sync /\ n.preferred = o
    BY <2>1, <2>2, <2>3 DEF CNodeState
  <2> QED
    BY <2>4 DEF o
<1>2. node' = [node EXCEPT ![p] = n]
  BY DEF UpdatePreferredDownload
<1> HIDE DEF n
<1>3. /\ node' \in [Peers -> CNodeState] /\ node'[p] = n
      /\ \A r \in Peers \ {p} : node'[r] = node[r]
  BY <1>1, <1>2, <1>t DEF TypeOK
<1>4. conn' = [conn EXCEPT ![p] = "open"] /\ conn[p] = "init" /\ ~node[p].preferred
  BY <1>t DEF UpdatePreferredDownload, Idle
<1>5. TypeOK'
  BY <1>3, <1>4, <1>t DEF UpdatePreferredDownload, TypeOK, chain
<1>6. FlightExact'
  <2>1. \A r \in Peers : node'[r].asked = node[r].asked
    BY <1>1, <1>3
  <2> QED
    BY <2>1, <1>4, <1>t DEF UpdatePreferredDownload, FlightExact, HasState, TypeOK
<1>7. CountsExact'
  <2>1. {r \in Peers : node'[r].sync} = {r \in Peers : node[r].sync}
    BY <1>1, <1>3
  <2>2. nPreferredDownload' = Cardinality({r \in Peers : node'[r].preferred})
    <3>0. nPreferredDownload = Cardinality(Preferred) /\ Preferred \in SUBSET Peers
      BY <1>t DEF CountsExact, Preferred
    <3>1. CASE p \in Outbound
      <4>1. {r \in Peers : node'[r].preferred} = Preferred \cup {p}
        BY <1>1, <1>3, <3>1, Zenon DEF Preferred
      <4>2. p \notin Preferred
        BY <1>4 DEF Preferred
      <4>3. nPreferredDownload' = nPreferredDownload + 1
        BY <3>1 DEF UpdatePreferredDownload
      <4>4. Cardinality(Preferred \cup {p}) = Cardinality(Preferred) + 1
        BY <4>2, <3>0, CountOne
      <4> QED
        BY <4>1, <4>3, <4>4, <3>0
    <3>2. CASE p \notin Outbound
      <4>1. ~n.preferred
        BY <1>1, <3>2
      <4>2. {r \in Peers : node'[r].preferred} = Preferred
        BY <4>1, <1>3, <1>4, Zenon DEF Preferred
      <4>3. nPreferredDownload' = nPreferredDownload
        BY <3>2, <1>t DEF UpdatePreferredDownload, TypeOK
      <4> QED
        BY <4>2, <4>3, <3>0
    <3> QED
      BY <3>1, <3>2
  <2> QED
    BY <2>1, <2>2, <1>t DEF CountsExact, UpdatePreferredDownload
<1>8. Idle'
  BY <1>3, <1>4, <1>t DEF Idle, HasState, TypeOK
<1> QED
  BY <1>5, <1>6, <1>7, <1>8 DEF IInv, InFlightExact

\* What a deleted CNode leaves behind: nothing of it is counted.
LEMMA FinalizeNodeInv ==
    ASSUME IInv, NEW p \in Peers, FinalizeNode(p)
    PROVE  IInv'
<1>t. TypeOK /\ FlightExact /\ CountsExact /\ Idle
  BY DEF IInv, InFlightExact
<1>f. ~Fresh.sync /\ ~Fresh.preferred /\ Fresh.asked = {}
  BY DEF Fresh
<1>1. /\ node' \in [Peers -> CNodeState] /\ node'[p] = Fresh
      /\ \A r \in Peers \ {p} : node'[r] = node[r]
  BY FreshTyped, <1>t DEF FinalizeNode, TypeOK
<1>2. conn' = [conn EXCEPT ![p] = "gone"]
  BY DEF FinalizeNode
<1>3. /\ \A b \in Blocks : flight'[b] = IF b \in node[p].asked THEN NoPeer ELSE flight[b]
      /\ node[p].asked = {b \in Blocks : flight[b] = p}
      /\ flight' \in [Blocks -> Peers \cup {NoPeer}]
  BY <1>t DEF FinalizeNode, FlightExact, TypeOK
<1>4. FlightExact'
  <2>1. ASSUME NEW r \in Peers PROVE node'[r].asked = {b \in Blocks : flight'[b] = r}
    <3>1. r # NoPeer /\ node[r].asked = {b \in Blocks : flight[b] = r}
      BY PeersAssumption, <1>t DEF FlightExact
    <3>2. CASE r = p
      BY <1>f, <1>1, <1>3, <3>1, <3>2
    <3>3. CASE r # p
      BY <1>1, <1>3, <3>1, <3>3
    <3> QED
      BY <3>2, <3>3
  <2>2. ASSUME NEW b \in Blocks, flight'[b] # NoPeer
        PROVE  conn'[flight'[b]] \in {"init", "open"}
    <3>1. flight'[b] = flight[b] /\ flight[b] # p /\ flight[b] \in Peers
      BY <1>3, <2>2, <1>t DEF TypeOK
    <3>2. conn'[flight[b]] = conn[flight[b]]
      BY <3>1, <1>2, <1>t DEF TypeOK
    <3> QED
      BY <3>1, <3>2, <2>2, <1>t DEF FlightExact, HasState
  <2> QED
    BY <2>1, <2>2 DEF FlightExact, HasState
<1>5. nSyncStarted' = Cardinality({r \in Peers : node'[r].sync}) /\ nSyncStarted' \in Nat
  <2>0. nSyncStarted = Cardinality(Syncing) /\ Syncing \in SUBSET Peers
    BY <1>t DEF CountsExact, Syncing
  <2>1. {r \in Peers : node'[r].sync} = Syncing \ {p}
    BY <1>1, <1>f, Zenon DEF Syncing
  <2>c. SUFFICES nSyncStarted' = Cardinality(Syncing \ {p}) /\ nSyncStarted' \in Nat
    BY <2>1
  <2> DEFINE k == Cardinality(Syncing)
  <2>k. k \in Nat /\ nSyncStarted = k
    BY <2>0, CountOne
  <2>2. CASE node[p].sync
    <3>1. p \in Syncing
      BY <2>2 DEF Syncing
    <3>2. nSyncStarted' = nSyncStarted - 1
      BY <2>2 DEF FinalizeNode
    <3>3. Cardinality(Syncing \ {p}) = k - 1 /\ k > 0
      BY <3>1, <2>0, CountOne
    <3> HIDE DEF k
    <3> QED
      BY <2>k, <3>2, <3>3
  <2>3. CASE ~node[p].sync
    <3>0. p \notin Syncing
      BY <2>3 DEF Syncing
    <3>1. Syncing \ {p} = Syncing
      BY <3>0, Zenon
    <3>2. nSyncStarted' = nSyncStarted - 0 /\ nSyncStarted \in Nat
      BY <2>3, <1>t DEF FinalizeNode, TypeOK
    <3>3. Cardinality(Syncing \ {p}) = k
      BY <3>1
    <3> HIDE DEF k
    <3> QED
      BY <2>k, <3>2, <3>3
  <2> QED
    BY <2>2, <2>3
<1>6. nPreferredDownload' = Cardinality({r \in Peers : node'[r].preferred}) /\ nPreferredDownload' \in Nat
  <2>0. nPreferredDownload = Cardinality(Preferred) /\ Preferred \in SUBSET Peers
    BY <1>t DEF CountsExact, Preferred
  <2>1. {r \in Peers : node'[r].preferred} = Preferred \ {p}
    BY <1>1, <1>f, Zenon DEF Preferred
  <2>c. SUFFICES nPreferredDownload' = Cardinality(Preferred \ {p}) /\ nPreferredDownload' \in Nat
    BY <2>1
  <2> DEFINE k == Cardinality(Preferred)
  <2>k. k \in Nat /\ nPreferredDownload = k
    BY <2>0, CountOne
  <2>2. CASE node[p].preferred
    <3>1. p \in Preferred
      BY <2>2 DEF Preferred
    <3>2. nPreferredDownload' = nPreferredDownload - 1
      BY <2>2 DEF FinalizeNode
    <3>3. Cardinality(Preferred \ {p}) = k - 1 /\ k > 0
      BY <3>1, <2>0, CountOne
    <3> HIDE DEF k
    <3> QED
      BY <2>k, <3>2, <3>3
  <2>3. CASE ~node[p].preferred
    <3>0. p \notin Preferred
      BY <2>3 DEF Preferred
    <3>1. Preferred \ {p} = Preferred
      BY <3>0, Zenon
    <3>2. nPreferredDownload' = nPreferredDownload - 0 /\ nPreferredDownload \in Nat
      BY <2>3, <1>t DEF FinalizeNode, TypeOK
    <3>3. Cardinality(Preferred \ {p}) = k
      BY <3>1
    <3> HIDE DEF k
    <3> QED
      BY <2>k, <3>2, <3>3
  <2> QED
    BY <2>2, <2>3
<1>7. TypeOK'
  BY <1>1, <1>2, <1>3, <1>5, <1>6, <1>t DEF FinalizeNode, TypeOK, chain
<1>8. Idle'
  BY <1>1, <1>2, <1>t DEF Idle, HasState, TypeOK
<1> QED
  BY <1>4, <1>5, <1>6, <1>7, <1>8 DEF IInv, InFlightExact, CountsExact

LEMMA UpdateBlockAvailabilityInv ==
    ASSUME IInv, NEW p \in Peers, NEW b \in Blocks, UpdateBlockAvailability(p, b)
    PROVE  IInv'
<1> DEFINE s == ProcessBlockAvailability(node[p])
           n == IF b <= known THEN [s EXCEPT !.best = Higher(@, b)]
                ELSE [s EXCEPT !.unknown = b]
<1>t. TypeOK /\ FlightExact /\ CountsExact /\ Idle
  BY DEF IInv, InFlightExact
<1>1. /\ s \in CNodeState /\ s.asked = node[p].asked
      /\ s.sync = node[p].sync /\ s.preferred = node[p].preferred
  BY <1>t, AvailabilityKeeps DEF TypeOK
<1>2. node' = [node EXCEPT ![p] = n]
  BY DEF UpdateBlockAvailability
<1> HIDE DEF s
<1>3. /\ n \in CNodeState /\ n.asked = node[p].asked
      /\ n.sync = node[p].sync /\ n.preferred = node[p].preferred
  <2>1. Higher(s.best, b) \in Height
    BY <1>1, LimitsAssumption DEF Higher, CNodeState, Height, Blocks, None
  <2>2. CASE b <= known
    <3> DEFINE h == Higher(s.best, b)
    <3>1. n = [s EXCEPT !.best = h]
      BY <2>2
    <3> HIDE DEF h, n
    <3>2. h \in Height
      BY <2>1 DEF h
    <3> QED
      BY <1>1, <3>1, <3>2 DEF CNodeState
  <2>3. CASE ~(b <= known)
    <3>1. n = [s EXCEPT !.unknown = b]
      BY <2>3
    <3> HIDE DEF n
    <3> QED
      BY <1>1, <3>1 DEF CNodeState
  <2> QED
    BY <2>2, <2>3
<1> HIDE DEF n
<1>4. /\ node' \in [Peers -> CNodeState]
      /\ \A r \in Peers : /\ node'[r].asked = node[r].asked
                          /\ node'[r].sync = node[r].sync
                          /\ node'[r].preferred = node[r].preferred
      /\ \A r \in Peers \ {p} : node'[r] = node[r]
  BY <1>2, <1>3, <1>t DEF TypeOK
<1>5. TypeOK'
  BY <1>4, <1>t DEF UpdateBlockAvailability, TypeOK, chain, counters
<1>6. FlightExact'
  BY <1>4, <1>t DEF UpdateBlockAvailability, FlightExact, HasState
<1>7. CountsExact'
  BY <1>4, CountsKept DEF UpdateBlockAvailability
<1>8. Idle'
  BY <1>4, <1>t DEF UpdateBlockAvailability, Idle, HasState
<1> QED
  BY <1>5, <1>6, <1>7, <1>8 DEF IInv, InFlightExact

LEMMA BlockComesInv ==
    ASSUME IInv, NEW b \in Blocks, linked < b, MarkBlockAsReceived(b), AcceptBlock(b),
           UNCHANGED <<conn, fDisconnect, counters>>, submits' \in 0..MaxSubmits
    PROVE  IInv'
<1>1. /\ node' \in [Peers -> CNodeState]
      /\ flight' \in [Blocks -> Peers \cup {NoPeer}]
      /\ late' \in [Peers -> BOOLEAN]
      /\ FlightExact' /\ CountsExact' /\ Idle'
  BY ReceivedExact
<1>2. known' \in Height /\ linked' \in 0..known'
  BY LimitsAssumption
     DEF AcceptBlock, Higher, IInv, InFlightExact, TypeOK, Height, Blocks
<1>3. TypeOK'
  BY <1>1, <1>2 DEF IInv, InFlightExact, TypeOK, counters
<1> QED
  BY <1>1, <1>3 DEF IInv, InFlightExact

LEMMA TimePassesInv ==
    ASSUME IInv, NEW p \in Peers, TimePasses(p)
    PROVE  IInv'
<1>t. TypeOK /\ FlightExact /\ CountsExact /\ Idle
  BY DEF IInv, InFlightExact
<1>1. /\ node' \in [Peers -> CNodeState]
      /\ \A r \in Peers : /\ node'[r].asked = node[r].asked
                          /\ node'[r].sync = node[r].sync
                          /\ node'[r].preferred = node[r].preferred
      /\ \A r \in Peers \ {p} : node'[r] = node[r]
  <2>1. CASE node' = node
    BY <2>1, <1>t DEF TypeOK
  <2>2. CASE node' = [node EXCEPT ![p].stalling = "late"]
    <3> DEFINE n == [node[p] EXCEPT !.stalling = "late"]
    <3>1. node[p] \in CNodeState
      BY <1>t DEF TypeOK
    <3>2. /\ n \in CNodeState /\ n.asked = node[p].asked
          /\ n.sync = node[p].sync /\ n.preferred = node[p].preferred
      BY <3>1 DEF CNodeState
    <3>3. node' = [node EXCEPT ![p] = n]
      BY <2>2
    <3> HIDE DEF n
    <3> QED
      BY <3>2, <3>3, <1>t DEF TypeOK
  <2> QED
    BY <2>1, <2>2 DEF TimePasses
<1>2. late' \in [Peers -> BOOLEAN]
  BY <1>t DEF TimePasses, TypeOK
<1>3. TypeOK'
  BY <1>1, <1>2, <1>t DEF TimePasses, TypeOK, chain, counters
<1>4. FlightExact'
  BY <1>1, <1>t DEF TimePasses, FlightExact, HasState
<1>5. CountsExact'
  BY <1>1, CountsKept DEF TimePasses
<1>6. Idle'
  <2>1. HasState(p) /\ conn[p] # "init" /\ conn' = conn
    BY DEF TimePasses, HasState
  <2> QED
    BY <2>1, <1>1, <1>t DEF Idle, HasState
<1> QED
  BY <1>3, <1>4, <1>5, <1>6 DEF IInv, InFlightExact

LEMMA SendMessagesInv ==
    ASSUME IInv, NEW p \in Peers, NEW recent \in BOOLEAN, SendMessages(p, recent)
    PROVE  IInv'
<1> DEFINE y == node[p].sync \/ StartsSync(p, recent)
<1>t. TypeOK /\ FlightExact /\ CountsExact /\ Idle
  BY DEF IInv, InFlightExact
<1>1. PICK F : Asks(p, F, y)
  BY SendMessagesAsks
<1>2. y \in BOOLEAN /\ (node[p].sync => y)
  BY <1>t DEF TypeOK, CNodeState, StartsSync
<1>3. nSyncStarted' = nSyncStarted + (IF y /\ ~node[p].sync THEN 1 ELSE 0)
  BY DEF SendMessages, StartsSync
<1>4. conn[p] = "open" /\ conn' = conn /\ nPreferredDownload' = nPreferredDownload
  BY DEF SendMessages
<1> HIDE DEF y
<1>5. FlightExact' /\ CountsExact' /\ Idle'
  BY <1>1, <1>2, <1>3, <1>4, AsksExact
<1>6. TypeOK'
  <2>1. nSyncStarted' \in Nat
    BY <1>3, <1>t DEF TypeOK
  <2>2. node' \in [Peers -> CNodeState]
    BY <1>1 DEF Asks
  <2>3. flight' \in [Blocks -> Peers \cup {NoPeer}]
    BY <1>1, <1>t DEF Asks, TypeOK
  <2>4. fDisconnect' \in [Peers -> BOOLEAN]
    <3> DEFINE d == fDisconnect[p] \/ TimedOut(p)
    <3>1. d \in BOOLEAN
      BY <1>t DEF TypeOK, TimedOut
    <3>2. fDisconnect' = [fDisconnect EXCEPT ![p] = d]
      BY DEF SendMessages
    <3> HIDE DEF d
    <3> QED
      BY <3>1, <3>2, <1>t DEF TypeOK
  <2>5. UNCHANGED <<known, linked, conn, late, nPreferredDownload, submits>>
    BY DEF SendMessages, chain
  <2> QED
    BY <2>1, <2>2, <2>3, <2>4, <2>5, <1>t DEF TypeOK
<1> QED
  BY <1>5, <1>6 DEF IInv, InFlightExact

LEMMA NextInv == IInv /\ [Next]_vars => IInv'
<1> SUFFICES ASSUME IInv, [Next]_vars PROVE IInv'
  OBVIOUS
<1>1. ASSUME NEW p \in Peers, InitializeNode(p) PROVE IInv'
  BY <1>1, InitializeNodeInv
<1>2. ASSUME NEW p \in Peers, UpdatePreferredDownload(p) PROVE IInv'
  BY <1>2, UpdatePreferredDownloadInv
<1>3. ASSUME NEW p \in Peers, Disconnect(p) PROVE IInv'
  BY <1>3 DEF Disconnect, chain, counters, IInv, InFlightExact, TypeOK, FlightExact,
              CountsExact, Idle, HasState
<1>4. ASSUME NEW p \in Peers, FinalizeNode(p) PROVE IInv'
  BY <1>4, FinalizeNodeInv
<1>5. ASSUME NEW p \in Peers, NEW b \in Blocks, UpdateBlockAvailability(p, b) PROVE IInv'
  BY <1>5, UpdateBlockAvailabilityInv
<1>6. ASSUME NEW p \in Peers, BlockMessage(p) PROVE IInv'
  <2>1. known + 1 \in Blocks /\ linked < known + 1
    BY <1>6, LimitsAssumption DEF BlockMessage, IInv, InFlightExact, TypeOK, Height, Blocks
  <2>2. /\ MarkBlockAsReceived(known + 1) /\ AcceptBlock(known + 1)
        /\ UNCHANGED <<conn, fDisconnect, counters>> /\ submits' \in 0..MaxSubmits
    BY <1>6 DEF BlockMessage, IInv, InFlightExact, TypeOK
  <2> QED
    BY <2>1, <2>2, BlockComesInv
<1>7. ASSUME NEW p \in Peers, TimePasses(p) PROVE IInv'
  BY <1>7, TimePassesInv
<1>8. ASSUME NEW p \in Peers, NEW recent \in BOOLEAN, SendMessages(p, recent) PROVE IInv'
  BY <1>8, SendMessagesInv
<1>9. ASSUME NEW b \in Blocks, SubmitBlock(b) PROVE IInv'
  <2>1. submits' \in 0..MaxSubmits
    BY <1>9, LimitsAssumption DEF SubmitBlock, IInv, InFlightExact, TypeOK
  <2> QED
    BY <1>9, <2>1, BlockComesInv DEF SubmitBlock
<1>10. CASE UNCHANGED vars
  BY <1>10 DEF vars, chain, counters, IInv, InFlightExact, TypeOK, FlightExact,
               CountsExact, Idle, HasState
<1> QED
  BY <1>1, <1>2, <1>3, <1>4, <1>5, <1>6, <1>7, <1>8, <1>9, <1>10 DEF Next

\* In every order in which peers come, announce, are asked, stall, time out and
\* go, the map of the blocks in flight, the lists of the peers and the counters
\* of preferred and syncing peers agree: FinalizeNode (src/src/main.cpp:310)
\* and MarkBlockAsReceived (331) leave nothing behind.
THEOREM InFlightAlways == Spec => []InFlightExact
<1>1. Init => IInv
  BY InitInv
<1>2. IInv /\ [Next]_vars => IInv'
  BY NextInv
<1>3. IInv => InFlightExact
  BY DEF IInv
<1> QED
  BY <1>1, <1>2, <1>3, PTL DEF Spec
=============================================================================
