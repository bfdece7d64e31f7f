--------------------------- MODULE BlockDownload ---------------------------
(***************************************************************************)
(* The download of blocks (src/src/main.cpp): what the node remembers of   *)
(* each peer in mapNodeState, which block it has asked from which peer in  *)
(* mapBlocksInFlight and in the peers' vBlocksInFlight, and how            *)
(* SendMessages asks for blocks, notices a peer that holds the others up   *)
(* and drops a peer that does not answer.                                  *)
(*                                                                         *)
(* Blocks are the heights of one chain of stakes: 1..known are the headers *)
(* in mapBlockIndex, 1..linked those whose data is stored and connected    *)
(* (AcceptBlock refuses a stake whose parent off the active chain is not   *)
(* on disk, so the stored part is a prefix).  Forks and invalid headers    *)
(* are left out: the last common ancestor of two blocks is the lower one.  *)
(* vBlocksInFlight is the set of its hashes; its order, read only by the   *)
(* timeout of its front, is in the flag late.                              *)
(***************************************************************************)
EXTENDS Integers, FiniteSets

CONSTANTS
    Peers,        \* the connections that may be made
    NoPeer,       \* "not in flight", NodeId -1
    Outbound,     \* peers for which fPreferredDownload becomes true
    Clients,      \* peers that announce no NODE_NETWORK service
    MaxHeight,    \* bound: headers of the chain
    MaxSubmits,   \* bound: blocks handed over by submitblock
    Window,       \* BLOCK_DOWNLOAD_WINDOW
    PerPeer       \* MAX_BLOCKS_IN_TRANSIT_PER_PEER

ASSUME PeersAssumption ==
    /\ IsFiniteSet(Peers)
    /\ NoPeer \notin Peers
    /\ Outbound \subseteq Peers /\ Clients \subseteq Peers
    /\ Outbound \cap Clients = {}      \* !fClient in UpdatePreferredDownload

ASSUME LimitsAssumption ==
    /\ MaxHeight \in Nat /\ MaxSubmits \in Nat
    /\ Window \in Nat \ {0} /\ PerPeer \in Nat \ {0}

VARIABLES
    known,               \* headers in mapBlockIndex
    linked,              \* of them with data: the height of the active tip
    conn,                \* has the peer a CNode, and has its version come?
    fDisconnect,
    node,                \* mapNodeState
    late,                \* is the front of vBlocksInFlight past its limit?
    flight,              \* mapBlocksInFlight: who was asked for the block
    nSyncStarted,
    nPreferredDownload,
    submits              \* bounds SubmitBlock

chain    == <<known, linked>>
counters == <<nSyncStarted, nPreferredDownload>>
vars     == <<chain, conn, fDisconnect, node, late, flight, counters, submits>>

Blocks == 1..MaxHeight
None   == -1                           \* a NULL index entry, a zero hash
Height == 0..MaxHeight

CNodeState ==
    [best      : Height \cup {None},   \* pindexBestKnownBlock
     unknown   : Blocks \cup {None},   \* hashLastUnknownBlock
     common    : Height \cup {None},   \* pindexLastCommonBlock
     sync      : BOOLEAN,              \* fSyncStarted
     stalling  : {"no", "since", "late"},    \* nStallingSince, and its limit
     asked     : SUBSET Blocks,        \* vBlocksInFlight
     preferred : BOOLEAN]              \* fPreferredDownload

Fresh ==
    [best |-> None, unknown |-> None, common |-> None, sync |-> FALSE,
     stalling |-> "no", asked |-> {}, preferred |-> FALSE]

HasState(p) == conn[p] \in {"init", "open"}

Lower(a, b)  == IF a < b THEN a ELSE b
Higher(a, b) == IF a < b THEN b ELSE a

Init ==
    /\ known = 0 /\ linked = 0
    /\ conn = [p \in Peers |-> "none"]
    /\ fDisconnect = [p \in Peers |-> FALSE]
    /\ node = [p \in Peers |-> Fresh]
    /\ late = [p \in Peers |-> FALSE]
    /\ flight = [b \in Blocks |-> NoPeer]
    /\ nSyncStarted = 0 /\ nPreferredDownload = 0
    /\ submits = 0

-----------------------------------------------------------------------------
(* A connection: its CNode is made, its version message comes, it is        *)
(* closed, and its CNode is deleted.                                        *)

InitializeNode(p) ==
    /\ conn[p] = "none"
    /\ conn' = [conn EXCEPT ![p] = "init"]
    /\ node' = [node EXCEPT ![p] = Fresh]
    /\ UNCHANGED <<chain, fDisconnect, late, flight, counters, submits>>

UpdatePreferredDownload(p) ==
    /\ conn[p] = "init"                \* only one version message counts
    /\ conn' = [conn EXCEPT ![p] = "open"]
    /\ node' = [node EXCEPT ![p].preferred = p \in Outbound]
    /\ nPreferredDownload' = nPreferredDownload + (IF p \in Outbound THEN 1 ELSE 0)
    /\ UNCHANGED <<chain, fDisconnect, late, flight, nSyncStarted, submits>>

\* The socket fails, a message is malformed, the user or a ban ends it.
Disconnect(p) ==
    /\ HasState(p) /\ ~fDisconnect[p]
    /\ fDisconnect' = [fDisconnect EXCEPT ![p] = TRUE]
    /\ UNCHANGED <<chain, conn, node, late, flight, counters, submits>>

\* mutant: the blocks the peer was asked for stay in the map.
FinalizeNodeLeaves(p) ==
    /\ HasState(p) /\ fDisconnect[p]
    /\ conn' = [conn EXCEPT ![p] = "gone"]
    /\ nSyncStarted' = nSyncStarted - (IF node[p].sync THEN 1 ELSE 0)
    /\ nPreferredDownload' = nPreferredDownload - (IF node[p].preferred THEN 1 ELSE 0)
    /\ node' = [node EXCEPT ![p] = Fresh]
    /\ late' = [late EXCEPT ![p] = FALSE]
    /\ UNCHANGED <<chain, fDisconnect, flight, submits>>

FinalizeNode(p) ==
    /\ HasState(p) /\ fDisconnect[p]
    /\ conn' = [conn EXCEPT ![p] = "gone"]
    /\ nSyncStarted' = nSyncStarted - (IF node[p].sync THEN 1 ELSE 0)
    /\ nPreferredDownload' = nPreferredDownload - (IF node[p].preferred THEN 1 ELSE 0)
    /\ flight' = [b \in Blocks |-> IF b \in node[p].asked THEN NoPeer ELSE flight[b]]
    /\ node' = [node EXCEPT ![p] = Fresh]
    /\ late' = [late EXCEPT ![p] = FALSE]
    /\ UNCHANGED <<chain, fDisconnect, submits>>

-----------------------------------------------------------------------------
(* What a peer announces and what it delivers.                              *)

\* The state of a peer once the last block it announced is in the index.
ProcessBlockAvailability(s) ==
    IF s.unknown # None /\ s.unknown <= known
    THEN [s EXCEPT !.best = Higher(@, s.unknown), !.unknown = None]
    ELSE s

\* inv: the getdata it may answer with leaves no trace, MarkBlockAsInFlight
\* is not called here.
UpdateBlockAvailability(p, b) ==
    /\ conn[p] = "open"
    /\ LET s == ProcessBlockAvailability(node[p]) IN
       node' = [node EXCEPT ![p] = IF b <= known
                                   THEN [s EXCEPT !.best = Higher(@, b)]
                                   ELSE [s EXCEPT !.unknown = b]]
    /\ UNCHANGED <<chain, conn, fDisconnect, late, flight, counters, submits>>

\* Someone was asked for the block: it leaves the map and the peer's list.
MarkBlockAsReceived(b) ==
    LET q == flight[b] IN
    IF q = NoPeer THEN UNCHANGED <<flight, node, late>>
    ELSE /\ flight' = [flight EXCEPT ![b] = NoPeer]
         /\ node' = [node EXCEPT ![q].asked = @ \ {b}, ![q].stalling = "no"]
         /\ late' = [late EXCEPT ![q] = FALSE]

\* AcceptBlock stores the block, or refuses its stake after its header is in
\* the index.
AcceptBlock(b) ==
    /\ known' = Higher(known, b)
    /\ \/ linked' = linked
       \/ linked = b - 1 /\ linked' = b

\* block: with its parent in the index and itself not, which is every block
\* that was not asked for by FindNextBlocksToDownload.  A block whose header is
\* in the index already is skipped, and nothing changes.
BlockMessage(p) ==
    /\ conn[p] = "open" /\ known < MaxHeight
    /\ MarkBlockAsReceived(known + 1)
    /\ AcceptBlock(known + 1)
    /\ UNCHANGED <<conn, fDisconnect, counters, submits>>

\* submitblock: a block mined here or handed over by RPC, which may be one
\* whose header is in the index already.
SubmitBlock(b) ==
    /\ linked < b /\ b <= known + 1
    /\ MarkBlockAsReceived(b)
    /\ AcceptBlock(b)
    /\ submits < MaxSubmits /\ submits' = submits + 1
    /\ UNCHANGED <<conn, fDisconnect, counters>>

-----------------------------------------------------------------------------
(* SendMessages, called for one peer after the other by the message thread. *)

\* The clock: the front of the list, or the stalling, is older than its limit.
TimePasses(p) ==
    /\ conn[p] = "open"
    /\ \/ /\ node[p].asked # {} /\ ~late[p]
          /\ late' = [late EXCEPT ![p] = TRUE]
          /\ UNCHANGED node
       \/ /\ node[p].stalling = "since"
          /\ node' = [node EXCEPT ![p].stalling = "late"]
          /\ UNCHANGED late
    /\ UNCHANGED <<chain, conn, fDisconnect, flight, counters, submits>>

\* A download peer, or any full node when there is none.
FFetch(p) ==
    node[p].preferred \/ (nPreferredDownload = 0 /\ p \notin Clients)

\* "recent": the best header is less than six hours old.
StartsSync(p, recent) ==
    /\ ~node[p].sync /\ p \notin Clients /\ FFetch(p)
    /\ nSyncStarted = 0 \/ recent

\* FindNextBlocksToDownload: a peer with state s has nothing interesting, or
\* its last common block is its best one, or the walk from the common block c
\* towards its best one finds up to count blocks to ask for and moves the
\* common block over those that are linked.
NothingInteresting(s) == s.best = None \/ s.best < linked

LastCommonAncestor(s) ==
    IF s.common = None THEN Lower(linked, s.best) ELSE Lower(s.common, s.best)

\* The blocks between common and best without data, one of them past the window.
Ahead(s, c) == {b \in Blocks : c < b /\ linked < b /\ b <= s.best /\ b <= c + Window + 1}

ToFetch(s, c, count) ==
    LET free == {b \in Ahead(s, c) : b <= c + Window /\ flight[b] = NoPeer}
    IN  {b \in free : Cardinality({a \in free : a < b}) < count}

\* Nothing can be asked for, but the first block past the window could be: the
\* peer that was asked for the first block of the window holds it.
Stallers(s, c) ==
    LET window == {b \in Ahead(s, c) : b <= c + Window}
        past   == Ahead(s, c) \ window
    IN  {flight[b] : b \in {a \in window :
            /\ \A x \in window : a <= x /\ flight[x] # NoPeer
            /\ \E x \in past : flight[x] = NoPeer}}

\* getdata: the blocks found are asked for and marked, and a peer that keeps
\* this idle one from asking is noted.
Walk(p, s, c) ==
    \E fetch \in {ToFetch(s, c, PerPeer - Cardinality(s.asked))}, stallers \in {Stallers(s, c)} :
        /\ flight' = [b \in Blocks |-> IF b \in fetch THEN p ELSE flight[b]]
        /\ node' = [r \in Peers |->
              IF r = p
              THEN [s EXCEPT !.common = Higher(c, Lower(linked, Lower(s.best, c + Window + 1))),
                             !.asked = @ \cup fetch]
              ELSE IF r \in stallers /\ s.asked \cup fetch = {} /\ node[r].stalling = "no"
              THEN [node[r] EXCEPT !.stalling = "since"]
              ELSE node[r]]

AskForBlocks(p, s) ==
    IF NothingInteresting(s)
    THEN node' = [node EXCEPT ![p] = s] /\ UNCHANGED flight
    ELSE \E c \in {LastCommonAncestor(s)} :
            IF c = s.best
            THEN node' = [node EXCEPT ![p] = [s EXCEPT !.common = c]] /\ UNCHANGED flight
            ELSE Walk(p, s, c)

\* mutant: only a stalling peer is dropped.
TimedOutStalling(p) == node[p].stalling = "late"

\* It is stalling the others, or does not answer.
TimedOut(p) == node[p].stalling = "late" \/ (node[p].asked # {} /\ late[p])

SendMessages(p, recent) ==
    /\ conn[p] = "open"
    /\ LET s == [node[p] EXCEPT !.sync = @ \/ StartsSync(p, recent)] IN
       /\ nSyncStarted' = nSyncStarted + (IF StartsSync(p, recent) THEN 1 ELSE 0)
       /\ fDisconnect' = [fDisconnect EXCEPT ![p] = @ \/ TimedOut(p)]
       /\ IF /\ ~fDisconnect'[p] /\ p \notin Clients /\ FFetch(p)
             /\ Cardinality(s.asked) < PerPeer
          THEN AskForBlocks(p, ProcessBlockAvailability(s))
          ELSE node' = [node EXCEPT ![p] = s] /\ UNCHANGED flight
    /\ UNCHANGED <<chain, conn, late, nPreferredDownload, submits>>

Next ==
    \/ \E p \in Peers :
          \/ InitializeNode(p)
          \/ UpdatePreferredDownload(p)
          \/ Disconnect(p)
          \/ FinalizeNode(p)
          \/ \E b \in Blocks : UpdateBlockAvailability(p, b)
          \/ BlockMessage(p)
          \/ TimePasses(p)
          \/ \E recent \in BOOLEAN : SendMessages(p, recent)
    \/ \E b \in Blocks : SubmitBlock(b)

(* The message thread comes to every connected peer again and again, the     *)
(* socket thread deletes the closed ones, and the clock runs.                *)
Fairness ==
    \A p \in Peers :
        /\ WF_vars(FinalizeNode(p))
        /\ WF_vars(TimePasses(p))
        /\ WF_vars(\E recent \in BOOLEAN : SendMessages(p, recent))

Spec == Init /\ [][Next]_vars /\ Fairness

-----------------------------------------------------------------------------
TypeOK ==
    /\ known \in Height /\ linked \in 0..known
    /\ conn \in [Peers -> {"none", "init", "open", "gone"}]
    /\ fDisconnect \in [Peers -> BOOLEAN]
    /\ node \in [Peers -> CNodeState]
    /\ late \in [Peers -> BOOLEAN]
    /\ flight \in [Blocks -> Peers \cup {NoPeer}]
    /\ nSyncStarted \in Nat /\ nPreferredDownload \in Nat
    /\ submits \in 0..MaxSubmits

\* The map and the lists say the same: a peer's list holds the blocks the map
\* gives it, and a peer the map names has a state (State(...) is never NULL
\* when MarkBlockAsReceived or the stall detection reads it).
FlightExact ==
    /\ \A p \in Peers : node[p].asked = {b \in Blocks : flight[b] = p}
    /\ \A b \in Blocks : flight[b] # NoPeer => HasState(flight[b])

\* The two counters count the states that say so.
CountsExact ==
    /\ nSyncStarted = Cardinality({p \in Peers : node[p].sync})
    /\ nPreferredDownload = Cardinality({p \in Peers : node[p].preferred})

\* mapBlocksInFlight, the lists of the peers and the counters of mapNodeState
\* agree whatever the order in which peers come, ask, deliver, stall and go:
\* FinalizeNode takes back everything its peer is counted in.
InFlightExact == TypeOK /\ FlightExact /\ CountsExact

\* A preferred peer that has announced a block (or a later one) of which only the
\* header is here does not wait for ever while another peer holds the window: the
\* block is asked for from someone, or comes, or the peer itself is dropped.  (That
\* the block comes in the end is not said; the other peers may not be asked at all.)
MissingAsked ==
    \A p \in Peers, b \in Blocks :
        (/\ conn[p] = "open" /\ ~fDisconnect[p] /\ node[p].preferred
         /\ linked < b /\ b <= known /\ b <= node[p].best)
        ~> (flight[b] # NoPeer \/ b <= linked \/ fDisconnect[p])
=============================================================================
