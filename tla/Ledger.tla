------------------------------- MODULE Ledger -------------------------------
(***************************************************************************)
(* What a block does to the records of the node: ConnectBlock and          *)
(* DisconnectBlock (main.cpp) on the unspent outputs, the undo data, the   *)
(* zerocoin database, the transaction index and mapStakeSpent, the         *)
(* flushes between them, crashes, and CVerifyDB at startup and by RPC.     *)
(*                                                                         *)
(* The coins are flushed from time to time; the zerocoin database and the  *)
(* transaction index are written at once.  Which chain is active is left   *)
(* open (ChainState.tla): any valid child may be connected and the tip may *)
(* be disconnected at any time.  The layers of caches are CoinsCache.tla's.*)
(***************************************************************************)
EXTENDS Integers, Sequences, FiniteSets, SequencesExt

CONSTANTS
    Blocks, Genesis,
    Prev,           \* hashPrevBlock, [Blocks \ {Genesis} -> Blocks]
    Txs,            \* transactions
    Contents,       \* vtx, [Blocks -> Seq(Txs)]
    In,             \* vin, [Txs -> Seq(Outpoints)]; <<>> for coinbases and zerocoin spends
    Out,            \* vout, [Txs -> SUBSET Positions]
    Base, Stakes,   \* the coinbases, the coinstakes
    Serial,         \* serials a zerocoin spend reveals, [Txs -> SUBSET Serials]
    Mint,           \* pubcoins a transaction mints, [Txs -> SUBSET Pubcoins]
    Positions, Serials, Pubcoins,
    MintsChecked,   \* Zerocoin_Block_V2_Start is below all blocks, and not TESTNET
    None,
    Maturity,       \* COINBASE_MATURITY
    MaxReorg,       \* MaxReorganizationDepth
    StartDepth,     \* -checkblocks at startup
    RpcDepth,       \* the depth of the verifychain RPC
    CacheFits,      \* whether the blocks VerifyDB undoes fit in nCoinCacheSize
    MaxVerify,      \* bound: calls of verifychain
    MaxStops        \* bound: crashes and shutdowns

Outpoints == Txs \X Positions
ZerocoinSpends == {t \in Txs : Serial[t] # {}}

Closed(S) == \A x \in S \ {Genesis} : Prev[x] \in S
\* The chain that ends in b, without the genesis block, whose transactions are
\* never connected; chainActive when b is its tip.  The smallest set that is closed
\* under Prev, which the provers can reason about.
Path ==
    [b \in Blocks |->
        {c \in Blocks \ {Genesis} : \A S \in SUBSET Blocks : b \in S /\ Closed(S) => c \in S}]
Height(b) == Cardinality(Path[b])
TxsOf(b) == ToSet(Contents[b])
ChainTxs(b) == UNION {TxsOf(c) : c \in Path[b]}

\* Every block descends from the genesis block (AcceptBlockHeader asks for the parent).
ASSUME TreeAssumption ==
    /\ Genesis \in Blocks
    /\ Prev \in [Blocks \ {Genesis} -> Blocks]
    /\ \A S \in SUBSET Blocks :
          /\ Genesis \in S
          /\ \A b \in Blocks \ {Genesis} : Prev[b] \in S => b \in S
          => S = Blocks
\* CheckTransaction: no output is spent twice (main.cpp:1140), there are inputs and
\* outputs (1086); a transaction none of whose outputs can be spent is left out.
ASSUME TxsAssumption ==
    /\ In \in [Txs -> Seq(Outpoints)]
    /\ \A t \in Txs : IsInjective(In[t])
    /\ \A t \in Txs : In[t] = <<>> => t \in Base \/ Serial[t] # {}
    /\ Out \in [Txs -> (SUBSET Positions) \ {{}}]
    /\ Serial \in [Txs -> SUBSET Serials]
    /\ Mint \in [Txs -> SUBSET Pubcoins]
    /\ None \notin Txs /\ None \notin Blocks
\* CheckBlock: one coinbase and no serial twice (4288, 4371); ContextualCheckBlock: the
\* coinbase holds the height, once blocks of version 2 are the majority (4512).
ASSUME BlocksAssumption ==
    /\ Contents \in [Blocks -> Seq(Txs)]
    /\ \A b \in Blocks : \A i, j \in DOMAIN Contents[b] : i # j =>
          /\ Serial[Contents[b][i]] \cap Serial[Contents[b][j]] = {}
          /\ ~({Contents[b][i], Contents[b][j]} \subseteq Base)
    /\ \A b, c \in Blocks : TxsOf(b) \cap TxsOf(c) \cap Base # {} => Height(b) = Height(c)
ASSUME LimitsAssumption ==
    /\ {Maturity, MaxReorg, StartDepth, RpcDepth, MaxVerify, MaxStops} \subseteq Nat
    /\ {CacheFits, MintsChecked} \subseteq BOOLEAN

VARIABLES
    tip,        \* chainActive.Tip(), the best block of pcoinsTip
    coins,      \* pcoinsTip
    stored,     \* the coins database, [best, coins]
    undo,       \* rev*.dat: the undo data of each block, or None
    spends,     \* zerocoinDB: the transaction of each serial, or None
    mints,      \* zerocoinDB: the transaction of each pubcoin, or None
    txIndex,    \* the block each transaction was last written for, or None
    stakeSpent, \* mapStakeSpent: the height each output was spent at, or 0
    step,       \* how far the holder of cs_main is
    work,       \* the view it works in, [best, coins]
    depth,      \* nCheckDepth of the VerifyDB under way
    verifies, stops

records == <<spends, mints, txIndex, stakeSpent>>
bounds == <<verifies, stops>>
vars == <<tip, coins, stored, undo, records, step, work, depth, bounds>>

\* "up": cs_main is free; "mints", "index", "commit": ConnectTip before the write
\* of the mints, of the transaction index and of the coins; "undone": DisconnectTip
\* before its flush; "down", "reconnect": the two loops of VerifyDB; "failed":
\* DisconnectTip or VerifyDB has found the databases inconsistent.
Steps == {"up", "mints", "index", "commit", "undone", "down", "reconnect", "failed"}
Verifying == step \in {"down", "reconnect"}

-----------------------------------------------------------------------------
(* CCoins and its undo.                                                    *)

CCoins == [outs : SUBSET Positions, base : BOOLEAN, stake : BOOLEAN, height : Nat]
Pruned == [outs |-> {}, base |-> FALSE, stake |-> FALSE, height |-> 0]

FromTx(t, h) ==
    [outs |-> Out[t], base |-> t \in Base, stake |-> t \in Stakes, height |-> h]

\* mutant: the output stays
SpentNothing(c, n) == c
\* CCoins::Spend: the coins left ...
Spent(c, n) == IF c.outs = {n} THEN Pruned ELSE [c EXCEPT !.outs = @ \ {n}]
\* ... and the CTxInUndo; its metadata only if this was the last output
UndoOf(c, n) ==
    IF c.outs = {n} THEN [base |-> c.base, stake |-> c.stake, height |-> c.height]
    ELSE [base |-> FALSE, stake |-> FALSE, height |-> 0]

\* One input in UpdateCoins; acc holds the coins and the undo so far
SpendInput(acc, in) ==
    [coins |-> [acc.coins EXCEPT ![in[1]] = Spent(@, in[2])],
     undo  |-> Append(acc.undo, UndoOf(acc.coins[in[1]], in[2]))]

\* UpdateCoins, the transaction at height h
UpdateCoins(c, t, h) ==
    LET spent == FoldLeft(SpendInput, [coins |-> c, undo |-> <<>>], In[t])
    IN  [spent EXCEPT !.coins[t] = FromTx(t, h)]

\* The inputs loop of DisconnectBlock, one input.  fCoinStake is not restored.
RestoreInput(acc, in, u) ==
    LET c    == acc.coins[in[1]]
        base == IF u.height # 0
                THEN [Pruned EXCEPT !.base = u.base, !.height = u.height]
                ELSE c
    IN  [coins |-> [acc.coins EXCEPT ![in[1]] = [base EXCEPT !.outs = @ \cup {in[2]}]],
         clean |-> /\ acc.clean
                   /\ (u.height # 0) = (c.outs = {})
                   /\ in[2] \notin base.outs]

\* mutant: the inputs in the order of the transaction
RestoreForward(acc, t, us) ==
    LET Restore(a, j) == RestoreInput(a, In[t][j], us[j])
    IN  FoldLeftDomain(Restore, acc, us)
RestoreInputs(acc, t, us) ==
    LET Restore(j, a) == RestoreInput(a, In[t][j], us[j])
    IN  FoldRightDomain(Restore, us, acc)

\* One transaction of DisconnectBlock: its outputs are compared and removed, its
\* inputs restored
UndoTx(acc, t, h, us) ==
    RestoreInputs(
        [coins |-> [acc.coins EXCEPT ![t] = Pruned],
         clean |-> acc.clean /\ acc.coins[t] = FromTx(t, h)],
        t, us)

\* DisconnectBlock on the coins c: the coins, and fClean
UndoBlock(b, c) ==
    LET Undo(i, acc) == UndoTx(acc, Contents[b][i], Height(b), undo[b][i])
    IN  FoldRightDomain(Undo, Contents[b], [coins |-> c, clean |-> TRUE])

-----------------------------------------------------------------------------
(* The checks of ConnectBlock that read the records.                       *)

\* IsTransactionInChain: what the index says, if that block is active
IsTransactionInChain(t) == txIndex[t] # None /\ txIndex[t] \in Path[tip]

\* IsSerialInBlockchain and ContextualCheckZerocoinMint
SerialKnown(s) == spends[s] # None /\ IsTransactionInChain(spends[s])
MintKnown(p) == mints[p] # None /\ IsTransactionInChain(mints[p])

\* mutant: serials are not looked up
MintsOk(t, b) == MintsChecked => \A p \in Mint[t] : ~MintKnown(p)
\* While verifying, a transaction may be in the chain already, in that very block
ZerocoinOk(t, b) ==
    /\ t \in ZerocoinSpends /\ IsTransactionInChain(t)
          => Verifying /\ Height(b) <= Height(txIndex[t])
    /\ \A s \in Serial[t] : ~SerialKnown(s)
    /\ MintsChecked => \A p \in Mint[t] : ~MintKnown(p)

\* HaveInputs and the maturity rule of CheckInputs
InputsOk(t, c, h) ==
    \A i \in DOMAIN In[t] :
        LET from == c[In[t][i][1]]
        IN  /\ In[t][i][2] \in from.outs
            /\ from.base \/ from.stake => h - from.height >= Maturity

\* The transactions of b one after the other; acc holds the coins, the undo data
\* and whether all are valid
ApplyTx(acc, t, h) ==
    LET u == UpdateCoins(acc.coins, t, h)
    IN  [coins |-> u.coins, undo |-> Append(acc.undo, u.undo),
         ok |-> acc.ok /\ InputsOk(t, acc.coins, h)]
ApplyBlock(b, c) ==
    LET Apply(acc, t) == ApplyTx(acc, t, Height(b))
    IN  FoldLeft(Apply, [coins |-> c, undo |-> <<>>, ok |-> TRUE], Contents[b])

\* BIP30: nothing overwrites a transaction that still has outputs
Valid(b, c) ==
    /\ \A t \in TxsOf(b) : c[t].outs = {}
    /\ \A t \in TxsOf(b) : ZerocoinOk(t, b)
    /\ ApplyBlock(b, c).ok

-----------------------------------------------------------------------------
(* The writes of ConnectBlock and the erasures of DisconnectBlock.         *)

TxOfSerial(b, s) == CHOOSE t \in TxsOf(b) : s \in Serial[t]
TxOfMint(b, p) == CHOOSE t \in TxsOf(b) : p \in Mint[t]
SerialsOf(b) == UNION {Serial[t] : t \in TxsOf(b)}
MintsOf(b) == UNION {Mint[t] : t \in TxsOf(b)}
SpentBy(b) == UNION {ToSet(In[t]) : t \in TxsOf(b)}

\* mutant: without the undo data of the last transaction
UndoShort(b, c) ==
    undo' = IF undo[b] = None THEN [undo EXCEPT ![b] = Front(ApplyBlock(b, c).undo)] ELSE undo
\* Written once: the position of the undo data stays in the block index
WriteUndo(b, c) ==
    undo' = IF undo[b] = None THEN [undo EXCEPT ![b] = ApplyBlock(b, c).undo] ELSE undo
WriteCoinSpendBatch(b) ==
    spends' = [s \in Serials |-> IF s \in SerialsOf(b) THEN TxOfSerial(b, s) ELSE spends[s]]
WriteCoinMintBatch(b) ==
    mints' = [p \in Pubcoins |-> IF p \in MintsOf(b) THEN TxOfMint(b, p) ELSE mints[p]]
WriteTxIndex(b) ==
    txIndex' = [t \in Txs |-> IF t \in TxsOf(b) THEN b ELSE txIndex[t]]
\* insert leaves an entry that is there alone; then the old entries are deleted
AddStakeSpent(b) ==
    stakeSpent' = [o \in Outpoints |->
        LET h == IF o \in SpentBy(b) /\ stakeSpent[o] = 0 THEN Height(b) ELSE stakeSpent[o]
        IN  IF h < Height(b) - MaxReorg THEN 0 ELSE h]

\* mutant: mapStakeSpent keeps the spends of disconnected blocks
EraseButStakes(b) ==
    /\ spends' = [s \in Serials |-> IF s \in SerialsOf(b) THEN None ELSE spends[s]]
    /\ mints' = [p \in Pubcoins |-> IF p \in MintsOf(b) THEN None ELSE mints[p]]
    /\ UNCHANGED <<stakeSpent, txIndex>>
\* The transaction index is left alone
EraseRecords(b) ==
    /\ spends' = [s \in Serials |-> IF s \in SerialsOf(b) THEN None ELSE spends[s]]
    /\ mints' = [p \in Pubcoins |-> IF p \in MintsOf(b) THEN None ELSE mints[p]]
    /\ stakeSpent' = [o \in Outpoints |-> IF o \in SpentBy(b) THEN 0 ELSE stakeSpent[o]]
    /\ UNCHANGED txIndex

-----------------------------------------------------------------------------
Init ==
    /\ tip = Genesis
    /\ coins = [t \in Txs |-> Pruned]
    /\ stored = [best |-> tip, coins |-> coins]
    /\ undo = [b \in Blocks |-> None]
    /\ spends = [s \in Serials |-> None]
    /\ mints = [p \in Pubcoins |-> None]
    /\ txIndex = [t \in Txs |-> None]
    /\ stakeSpent = [o \in Outpoints |-> 0]
    /\ step = "up"
    /\ work = stored
    /\ depth = 0
    /\ verifies = 0
    /\ stops = 0

View == [best |-> tip, coins |-> coins]

\* mutant: the best block only
FlushBest == stored' = [stored EXCEPT !.best = tip']
\* pcoinsTip->Flush()
Flush == stored' = [best |-> tip', coins |-> coins']

(* ConnectTip.  A block that is not valid changes nothing.                 *)
ConnectBlock(b) ==
    /\ step = "up" /\ b # Genesis /\ Prev[b] = tip
    /\ Valid(b, coins)
    /\ work' = [best |-> b, coins |-> ApplyBlock(b, coins).coins]
    /\ WriteUndo(b, coins)
    /\ WriteCoinSpendBatch(b)
    /\ step' = "mints"
    /\ UNCHANGED <<tip, coins, stored, mints, txIndex, stakeSpent, depth, bounds>>

ConnectMints ==
    /\ step = "mints"
    /\ WriteCoinMintBatch(work.best)
    /\ step' = "index"
    /\ UNCHANGED <<tip, coins, stored, undo, spends, txIndex, stakeSpent, work, depth,
                   bounds>>

ConnectIndex ==
    /\ step = "index"
    /\ WriteTxIndex(work.best)
    /\ AddStakeSpent(work.best)
    /\ step' = "commit"
    /\ UNCHANGED <<tip, coins, stored, undo, spends, mints, work, depth, bounds>>

\* view.Flush(), FLUSH_STATE_IF_NEEDED, UpdateTip
ConnectCommit ==
    /\ step = "commit"
    /\ tip' = work.best /\ coins' = work.coins
    /\ Flush \/ UNCHANGED stored
    /\ step' = "up"
    /\ UNCHANGED <<undo, records, work, depth, bounds>>

(* DisconnectTip.  If DisconnectBlock is not clean the view is dropped, but *)
(* not what it has erased.                                                  *)
DisconnectBlock ==
    /\ step = "up" /\ tip # Genesis
    /\ LET u == UndoBlock(tip, coins)
       IN  /\ work' = [best |-> Prev[tip], coins |-> u.coins]
           /\ step' = IF u.clean THEN "undone" ELSE "failed"
    /\ EraseRecords(tip)
    /\ UNCHANGED <<tip, coins, stored, undo, depth, bounds>>

\* view.Flush(), FLUSH_STATE_ALWAYS, UpdateTip
DisconnectCommit ==
    /\ step = "undone"
    /\ tip' = work.best /\ coins' = work.coins
    /\ Flush
    /\ step' = "up"
    /\ UNCHANGED <<undo, records, work, depth, bounds>>

(* CVerifyDB::VerifyDB at level 4: blocks are disconnected in a view of its *)
(* own, then connected again in it.                                        *)
VerifyChain ==
    /\ step = "up" /\ verifies < MaxVerify
    /\ verifies' = verifies + 1
    /\ step' = "down"
    /\ work' = View
    /\ depth' = RpcDepth
    /\ UNCHANGED <<tip, coins, stored, undo, records, stops>>

VerifyDisconnect ==
    /\ step = "down"
    /\ work.best # Genesis /\ Height(work.best) >= Height(tip) - depth
    /\ LET u == UndoBlock(work.best, work.coins)
       IN  /\ work' = [best |-> Prev[work.best], coins |-> u.coins]
           /\ step' = IF u.clean THEN "down" ELSE "failed"
    /\ EraseRecords(work.best)
    /\ UNCHANGED <<tip, coins, stored, undo, depth, bounds>>

\* The loop is over, or the caches are full and nothing more is disconnected
VerifyTurn ==
    /\ step = "down"
    /\ CacheFits => work.best = Genesis \/ Height(work.best) < Height(tip) - depth
    /\ step' = "reconnect"
    /\ UNCHANGED <<tip, coins, stored, undo, records, work, depth, bounds>>

VerifyReconnect(b) ==
    /\ step = "reconnect" /\ b \in Path[tip] /\ Prev[b] = work.best
    /\ IF Valid(b, work.coins)
       THEN /\ work' = [best |-> b, coins |-> ApplyBlock(b, work.coins).coins]
            /\ WriteCoinSpendBatch(b)
            /\ WriteCoinMintBatch(b)
            /\ WriteTxIndex(b)
            /\ AddStakeSpent(b)
            /\ UNCHANGED step
       ELSE /\ step' = "failed"
            /\ UNCHANGED <<work, records>>
    /\ UNCHANGED <<tip, coins, stored, undo, depth, bounds>>

VerifyEnd ==
    /\ step = "reconnect" /\ work.best = tip
    /\ step' = "up"
    /\ UNCHANGED <<tip, coins, stored, undo, records, work, depth, bounds>>

(* The node stops and starts again: AppInit2 verifies the last blocks.     *)
RestartUnverified(from) ==                               \* mutant
    /\ stops < MaxStops /\ stops' = stops + 1
    /\ stored' = from
    /\ tip' = from.best /\ coins' = from.coins /\ work' = from
    /\ stakeSpent' = [o \in Outpoints |-> 0]
    /\ step' = "up"
    /\ depth' = StartDepth
    /\ UNCHANGED <<undo, spends, mints, txIndex, verifies>>
Restart(from) ==
    /\ stops < MaxStops /\ stops' = stops + 1
    /\ stored' = from
    /\ tip' = from.best /\ coins' = from.coins /\ work' = from
    /\ stakeSpent' = [o \in Outpoints |-> 0]
    /\ step' = "down"
    /\ depth' = StartDepth
    /\ UNCHANGED <<undo, spends, mints, txIndex, verifies>>

Crash == step # "failed" /\ Restart(stored)

\* PrepareShutdown, with cs_main: also between two blocks of VerifyDB's first loop,
\* which returns true when a shutdown is requested
Shutdown == step \in {"up", "down"} /\ Restart(View)

\* A flush of FlushStateToDisk in between: at the end of ActivateBestChain, or in a
\* block that is connected when the cache is full
FlushState ==
    /\ step = "up"
    /\ UNCHANGED <<tip, coins>>
    /\ Flush
    /\ UNCHANGED <<undo, records, step, work, depth, bounds>>

Next ==
    \/ \E b \in Blocks : ConnectBlock(b) \/ VerifyReconnect(b)
    \/ ConnectMints \/ ConnectIndex \/ ConnectCommit
    \/ DisconnectBlock \/ DisconnectCommit
    \/ VerifyChain \/ VerifyDisconnect \/ VerifyTurn \/ VerifyEnd
    \/ Crash \/ Shutdown \/ FlushState

Spec == Init /\ [][Next]_vars

-----------------------------------------------------------------------------
(* Properties                                                              *)

\* The undo data of a block has one element for each transaction
\* ("block and undo data inconsistent", main.cpp:2658).
TypeOK ==
    /\ tip \in Blocks
    /\ coins \in [Txs -> CCoins]
    /\ stored.best \in Blocks /\ stored.coins \in [Txs -> CCoins]
    /\ work.best \in Blocks /\ work.coins \in [Txs -> CCoins]
    /\ \A b \in Blocks : undo[b] = None \/ Len(undo[b]) = Len(Contents[b])
    /\ spends \in [Serials -> Txs \cup {None}]
    /\ mints \in [Pubcoins -> Txs \cup {None}]
    /\ txIndex \in [Txs -> Blocks \cup {None}]
    /\ stakeSpent \in [Outpoints -> Nat]
    /\ step \in Steps
    /\ depth \in Nat
    /\ verifies \in 0 .. MaxVerify /\ stops \in 0 .. MaxStops

\* The coins of a chain, from its transactions alone: an output is unspent when it
\* was created and no transaction of the chain spends it.
Unspent(b, t) ==
    {n \in Out[t] : \A c \in Path[b] : <<t, n>> \notin SpentBy(c)}
LedgerOf(b) ==
    [t \in Txs |->
        IF t \notin ChainTxs(b) \/ Unspent(b, t) = {} THEN Pruned
        ELSE LET c == CHOOSE c \in Path[b] : t \in TxsOf(c)
             IN  [FromTx(t, Height(c)) EXCEPT !.outs = Unspent(b, t)]]

\* However often blocks are connected and disconnected, pcoinsTip is what the
\* active chain makes of it ...
LedgerExact == coins = LedgerOf(tip)
\* ... and the database what the chain of its own best block makes of it, wherever
\* the node is stopped.  (A write that fails breaks it: see FlushTipFails in CoinsCache.)
StoredExact == stored.coins = LedgerOf(stored.best)

\* Pubcoins of which the record is to be relied on.  Where a second mint is not
\* refused it takes the place of the first in the database, and goes with its block.
MintedTwice ==
    {p \in Pubcoins : \E d \in Blocks : \E b, c \in Path[d] : b # c /\ p \in MintsOf(b) \cap MintsOf(c)}
Tracked == IF MintsChecked THEN Pubcoins ELSE Pubcoins \ MintedTwice

\* While the node runs, every serial of the active chain is on record, and every pubcoin
\* that is minted in one of its blocks, under a transaction the index places in that
\* chain: only then does ConnectBlock notice a second use.  (One block may mint a
\* pubcoin twice.)
ZerocoinsRecorded ==
    step = "up" =>
        \A t \in ChainTxs(tip) :
            /\ IsTransactionInChain(t)
            /\ \A s \in Serial[t] : spends[s] = t
            /\ \A p \in Mint[t] \cap Tracked : mints[p] \in {u \in ChainTxs(tip) : p \in Mint[u]}

\* "Reject serial's that are already in the blockchain" (main.cpp:983): no serial
\* is revealed twice in a chain.
NoSerialTwice ==
    \A b, c \in Path[tip] : \A t \in TxsOf(b), u \in TxsOf(c) :
        Serial[t] \cap Serial[u] # {} => b = c /\ t = u

\* mapStakeSpent holds only what the active chain spends, at the right height, and
\* all that its last blocks spend (those within MaxReorg of the longest chain).
Recent(b) == \A c \in Blocks : Height(c) - MaxReorg <= Height(b)
StakeSpentExact ==
    step = "up" =>
        \A o \in Outpoints :
            /\ stakeSpent[o] # 0 =>
                  \E b \in Path[tip] : stakeSpent[o] = Height(b) /\ o \in SpentBy(b)
            /\ \A b \in Path[tip] :
                  Recent(b) /\ o \in SpentBy(b) => stakeSpent[o] = Height(b)

\* "Check that all outputs are available and match the outputs in the block itself
\* exactly" (main.cpp:2707): what ConnectBlock wrote, DisconnectBlock finds, after
\* any history; a node never calls its own databases corrupted.
UndoIsClean == step # "failed"
=============================================================================
