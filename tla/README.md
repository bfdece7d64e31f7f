# Divitae in TLA+

Divitae is a proof-of-stake full node of the PIVX family (C++, one process, many
threads): a Bitcoin-style chain with zerocoin mints and spends, masternodes and
"prosperitynodes", budgets, SwiftTX locks, sporks and a mixing service. This
directory holds TLA+ modules for the part of the node that everything else
stands on, the path a block takes from the peer it is asked from to the disk,
with the memory pool and the transaction locks beside it and the work queue of
the RPC server, the TLC models that check them, and theorems about them that
TLAPS proves.

Paths below are relative to `src/src/`.

## What is here

| module | what it is |
|---|---|
| `ScriptVerdict` | abstract: a set of script checks is handed over, one answer comes back |
| `CheckQueue` | `checkqueue.h`: the threads that verify scripts; implements `ScriptVerdict` |
| `CheckQueueProofs` | theorems about `CheckQueue` |
| `ChainState` | `main.cpp`, `chain.h`: the block index, its candidates and the active chain |
| `ChainStateProofs` | theorems about `ChainState`: those that hold always, and, until an operator intervenes, that the best chain wins |
| `CoinsMap` | abstract: three versions of the unspent outputs, no cache |
| `CoinsCache` | `coins.cpp`, `txdb.cpp`: the layered caches; implements `CoinsMap` |
| `CoinsCacheProofs` | theorems about `CoinsCache` |
| `Ledger` | `main.cpp`, `undo.h`, `zvitchain.cpp`: what a block does to the records, `VerifyDB`, restarts |
| `LedgerProofs` | theorems about `Ledger` |
| `TxMemPool` | `txmempool.cpp`, `main.cpp`: the memory pool and what feeds and prunes it |
| `SwiftTX` | `swifttx.cpp`: transaction locks, on top of `TxMemPool` |
| `SwiftTXProofs` | theorems about `TxMemPool` and `SwiftTX` |
| `FoldTheorems` | induction over the folds of `SequencesExt` and over iterated steps |
| `BlockDownload` | `main.cpp`: which block is asked from which peer |
| `BlockDownloadProofs` | a theorem about `BlockDownload` |
| `WorkQueue` | `httpserver.cpp`: the queue between the event thread and the RPC workers, and its shutdown |
| `WorkQueueProofs` | theorems about `WorkQueue` |
| `MC*` and `*.cfg` | small instances for TLC |

Definitions keep the names of the source. A definition marked `mutant` stands
just before the one it is a wrong version of; no specification uses it. It shows
that the property it is paired with in `PROJECT.json` does depend on that code.

## Inventory of the system

For each component: the state it keeps; its operations; whom it talks to; what
makes it hard; what makes it correct.

**Block index and active chain** (`main.cpp`, `chain.h`). `mapBlockIndex` with the
`nStatus`, `nChainTx`, `nSequenceId` of each entry, `setBlockIndexCandidates`,
`mapBlocksUnlinked`, `setDirtyBlockIndex`, `chainActive`. AcceptBlock,
ReceivedBlockTransactions, FindMostWorkChain, ActivateBestChain(Step),
InvalidateBlock, ReconsiderBlock, ReprocessBlocks, FlushStateToDisk,
LoadBlockIndexDB. Called by the message thread, the staking thread, RPC threads,
SwiftTX. Hard: `cs_main` is released between two iterations of
ActivateBestChain; block data arrive in any order; a reorganisation may fail in
the middle; a crash may fall between the writes of a flush. Correct: the best
valid chain is active when nobody works on it, the sets of the index say exactly
what the entries say, every call returns, the disk never refers to what it does
not hold. *Modelled.*

**Script check queue** (`checkqueue.h`). A queue, three counters, a result and two
condition variables under one mutex. Add, Wait, the workers' loop. Used by
ConnectBlock. Hard: lost wake-ups, a result that is copied under the mutex and
used after it, a result reset by one thread only. Correct: Wait returns, with
the conjunction of all checks, and no check outlives it. *Modelled.*

**Coins database and caches** (`coins.cpp`, `txdb.cpp`). Maps with DIRTY and FRESH
flags in two or three layers over LevelDB. Fetch, Modify, BatchWrite, Flush.
Used by everything that validates. Hard: the flags are an optimisation whose
mistakes appear only after a flush, layers later. Correct: the layers behave as
plain maps; coins and best block reach the disk together. *Modelled.*

**Ledger** (ConnectBlock, DisconnectBlock, ConnectTip, DisconnectTip, `CVerifyDB`;
`undo.h`, `zvitchain.cpp`). The coins, `rev*.dat`, `zerocoinDB`, the transaction
index, `mapStakeSpent`. Hard: five records that change at different moments, of
which only the coins are transactional; undo; a verification that writes.
Correct: the coins are those of the chain; a serial of the chain is never
forgotten. *Modelled in part* (no scripts, amounts, accumulators, supply).

**Memory pool** (`txmempool.cpp`, AcceptToMemoryPool). `mapTx`, `mapNextTx`, priority
deltas. Accept, remove, removeForBlock, removeConflicts, removeCoinbaseSpends,
DisconnectTip's resurrection of transactions before UpdateTip. Correct: no two
entries spend the same output; each entry's inputs are coins of the tip or
outputs of other entries; nothing is dropped without a cause. *Modelled in part*
(no fees, priorities, orphan transactions).

**Block download and messages** (ProcessMessages, SendMessages, CNodeState).
`mapBlocksInFlight`, `mapBlockSource`, orphans, ban scores. Hard: peers that stall,
answer late, or disconnect; counters kept in two places. Correct: a block in
flight is asked of one peer; a block that is wanted is eventually asked of
somebody; counters equal what they count. *Modelled in part*: the blocks in
flight, not the other messages.

**Network threads and connections** (`net.cpp`). `vNodes`, reference counts, the
outbound semaphore, send and receive queues. Correct: no node is freed while in
use, no slot is lost. *Not modelled.* **Address manager** (`addrman.cpp`): new and
tried tables with reference counts; correct: tables, counts and `vRandom` agree.
*Not modelled.*

**SwiftTX** (`swifttx.cpp`). Requests, rejected requests, votes, locks, locked
inputs, unlocked by any mutex of their own. Votes of ten service nodes lock the
inputs of a transaction; locks expire; conflicting blocks are undone by
ReprocessBlocks. Hard: requests, votes and expiry in any order; a request that
the pool refuses; a block checked before a lock is complete. Correct: a node
votes once; a transaction that holds its locks is not mined over; only a complete
lock refuses a block (it does not hold, see below). *Modelled in part.*

**Sporks** (`spork.cpp`). Active sporks by name, replaced by later signatures; the
one that orders ReprocessBlocks. *Not modelled*, except ReprocessBlocks (`ChainState`, `SwiftTX`).

**Masternode and prosperitynode lists** (`masternodeman.cpp`, `prosperitynodeman.cpp`
and the nodes themselves). Entries with a state derived from the age of pings
and collateral, maps of what was seen and asked for. Hard: broadcasts and pings
out of order and twice, cleaning with iterators. Correct: newer broadcasts win,
what was seen is remembered as long as its node, an entry is removed only when
expired or spent. **Payments** (`*-payments.cpp`): votes per height; correct:
one vote per node and height, six votes decide. **Budgets** (`*-budget.cpp`):
proposals, finalized budgets, votes, orphan votes; correct: a node's latest vote
counts, and once. **Synchronisation** (`*-sync.cpp`): an automaton driven by
timeouts and counts; correct: it ends, and never skips an asset it waits for.
**Active node** (`active*.cpp`): the local node's state and pings. *Not
modelled*; the masternode files are the same machines as the prosperitynode ones.

**Obfuscation** (`obfuscation.cpp`). A client and a server automaton of seven
states with timeouts and collateral. Correct: a session never signs a
transaction other than the one its entries make. *Not modelled.*

**Wallet** (`wallet.cpp`, `walletdb.cpp`, `crypter.cpp`), **zerocoin wallet**
(`zvittracker.cpp`, `zvitwallet.cpp`, `mintpool.cpp`). Listeners of the chain with
state of their own: transactions, spent outpoints, mints and their pending
spends. Correct: what the wallet believes spent is what the chain or the pool
spends. *Not modelled.*

**HTTP work queue, scheduler** (`httpserver.cpp`, `scheduler.cpp`). A bounded queue
with worker threads and a shutdown; tasks ordered by time. Hard: workers and the
stopping thread sleep on one condition variable. Correct: what is accepted is
answered, shutdown ends and has waited for the workers. *The queue is modelled,
the scheduler is not.*

**Not to be modelled**: the script interpreter, signatures, hashes, `libzerocoin`,
kernel hashes and difficulty (computations on data, represented by an outcome),
chain parameters (constants of the modules), ZMQ, Tor control, the Qt interface,
RPC formatting (input and output), LevelDB, secp256k1, univalue (libraries:
LevelDB is assumed to apply a batch whole or not at all, and writes in order),
tests and build files.

How the modelled parts meet: AcceptBlock puts a block into the index
(`ChainState`); ActivateBestChain decides which blocks to connect and disconnect
(`ChainState`), each of which changes the records (`Ledger`) in a view over
`pcoinsTip` (`CoinsCache`), its scripts being verified by the worker threads
(`CheckQueue`). In `ChainState` connecting a block is one step with an outcome
of its own; in `Ledger` the choice of the chain is left open; in both the flush
of the coins is the atomic write that `CoinsMap` promises, taken not to fail.
`ScriptVerdict` is why the scripts of a block pass or fail whatever the threads do.
The outcome of a block is not a fact about the block alone for all that: a block
read from disk goes through CheckBlock again (ConnectTip clears `fAlreadyChecked`),
and that depends on the inputs locked, the payees and the sporks of the moment. In
`ChainState` the blocks of `Fickle` may pass once and fail the next time; the lock
filter itself is in `SwiftTX`.
`BlockDownload` stands before AcceptBlock, whose result is an outcome there.
`TxMemPool` takes `pcoinsTip` for the coins of the active chain, which `Ledger`
shows it to be, and leaves open which blocks come; `SwiftTX` extends it, since the
two share `mapLockedInputs`: the pool and CheckBlock read it, the locks write it,
and a request enters the pool through AcceptToMemoryPool.

## The modules and the code

### CheckQueue

One critical section of `mutex` is one action: `Enter` (a thread comes into
`Loop`), `Clean` (a batch was executed, its results are put back), `Wake`
(`cond.wait` returned); each continues with `LoopHead`, which takes a batch, goes
to wait or returns. `Open` and `Add` are the constructor of `CCheckQueueControl`
and its `Add`; `SpuriousWakeup` is what a condition variable may do. The two
condition variables are the sets of workers and the master in `"wait"`. A batch
is executed without the mutex on private data, and is part of the `Clean` that
follows. The queue is a set, since the code says its order does not matter.
`fQuit` is left out: nothing sets it. `added` and `verdict` are history.

### ChainState

`Blocks` is the set of all blocks that will ever exist, with their header tree and
work. `fault`, chosen once, says whether a block fails in ContextualCheckBlock,
in ConnectBlock or not by itself; a block of `Fickle` may fail whenever it is
connected, also after it has been active (`StepConnectFails`). `status` holds the bits of `nStatus` (`{}` when the
entry does not exist), `linked` the entries with `nChainTx`, `seq` the sequence
ids, `lowFirst` how the addresses of entries, the last criterion of
CBlockIndexWorkComparator, happen to be ordered. Each thread goes `idle`,
`loop` (take `cs_main`, FindMostWorkChain), `step` (the steps of
ActivateBestChainStep, `cs_main` held), `test` (the loop condition, read without
`cs_main`), `done` (CheckBlockIndex and the periodic flush). `lock` is `cs_main`
where it is held across steps. FindMostWorkChain is one action, its loop written
as what it does to all the candidates it passes. A flush is one action, because
only a crash can see its middle: `Crash(S)` restarts the node with the entries
`S` of the dirty set written and the coins not. An iteration of InvalidateBlock is
two actions, the mark of the tip (`InvalidateMark`) and its disconnection with the
flush (`InvalidateTip`): a crash between the writes of that flush stores the mark of
the tip without that of the block, or the other way round, and not the coins.
`LoadBlockIndex` is the startup.
Left out: the exception for a failed parent that is a checkpoint, `-reindex`,
`pindexBestHeader` and `pindexBestInvalid`; block files and index records that do not
read as they were written (a failure with CorruptionPossible is not marked, and the
loop would meet the block again); and system errors and failed writes, after which
the node shuts down, the flush of that shutdown included.

What "the best chain is active" can mean follows from blocks that fail on the way
back. PruneBlockIndexCandidates drops whatever is worse than the tip. When a
reorganisation then fails, and the old branch does not connect again either, the node
ends at the fork, and a chain between the two, valid and better than the tip, is no
candidate any more. `Lost(d)` is a block that was connected once and has since been
found invalid, or an ancestor has. `BestChainActive` and `CandidatesAtRest` say that
only blocks worse than a lost one may be missed; `BestChainAlways`, without that
exception, is false of the code and holds when nothing is in `Fickle` (see the proofs).
`PruneLeavesOne` is the assertion of PruneBlockIndexCandidates: it can fail at a startup
after a crash in InvalidateBlock that stored a mark of the stored tip itself.

`Ancestors` is defined without recursion, as the smallest set closed under
`Prev`, so that the provers can use it.

### CoinsCache

The coins of a transaction are the set of its unspent output positions, `{}` for
a pruned record. `db`, `tip` and `view` are the database, `pcoinsTip` and the view
of the block being (dis)connected. `ReadTip`, `ReadView`, `ReadBestBlock` fill the
caches; `Modify` is ModifyCoins with the destructor of CCoinsModifier;
`FlushView` and `FlushTip` are Flush with BatchWrite into the layer below;
`DiscardView` is a view destroyed without a flush; `Crash` loses both caches.

`FlushTipFails` is a batch that cannot be written. CCoinsViewDB::BatchWrite has emptied
the map of the caller when WriteBatch throws, FlushStateToDisk catches that and asks
for a shutdown, and `hashBlock` is kept. So the coins fall back to those of the
database while the best block does not (`LoseChanges` of `CoinsMap`), and the flush of
PrepareShutdown may then store that best block over them (`FlushTip`). `CoinsMap`
promises no more than this; `ChainState` and `Ledger` are about nodes whose writes
succeed.

### Ledger

`Path` is the chain of a block, the smallest set that is closed under `Prev`, and
`Height` the number of its blocks (no recursion, so that the provers can use it).
`Contents` gives each block its transactions, `In` and `Out` their inputs and
outputs, `Serial` and `Mint` the zerocoin serials a transaction reveals and the
coins it mints. `MintsChecked` says whether ConnectBlock refuses a coin that was
minted before: only from Zerocoin_Block_V2_Start on, and not on the test network. The
parameters here put that block at 999999999 (`chainparams.cpp:146`, 302), so the runs
have it `FALSE`; the theorems hold for both. `coins` is `pcoinsTip` seen as a map, `stored` the coins database;
`spends` and `mints` are `zerocoinDB`. `CCoins`, `Spent`, `UndoOf`, `RestoreInput`
follow `CCoins::Spend`, `CTxInUndo` and the loop of DisconnectBlock. ConnectTip is
cut where a crash makes a difference: after the write of the spends
(`ConnectBlock`), of the mints (`ConnectMints`), of the index and the memory map
(`ConnectIndex`), then the coins (`ConnectCommit`). `DisconnectBlock` erases,
`DisconnectCommit` flushes. `VerifyChain`, `VerifyDisconnect`, `VerifyTurn`,
`VerifyReconnect`, `VerifyEnd` are `CVerifyDB::VerifyDB` at level 4, entered by
`Restart` or by the RPC. Undo data count as durable when written (FlushStateToDisk
writes them before the coins that need them), the erasures of one block as one
step, the memory-pool branch of GetTransaction is left out (it never finds a
block), and a VerifyDB that finds an inconsistency stops at once.

The assumptions on the constants are what is checked before the records are
touched: every block descends from the genesis block; CheckTransaction (no output
is spent twice, there are inputs and outputs); CheckBlock and
ContextualCheckBlock (one coinbase, no serial twice in a block, the coinbase holds
its height once blocks of version 2 are the majority).

### TxMemPool and SwiftTX

`chain` holds the transactions of the blocks above the old ones and `pool` the keys
of `mapTx` with `mapNextTx`. `AcceptToMemoryPool` may refuse for policy whatever
`CanAccept` allows. `ConnectTip` removes what the block mined and what conflicts
with it (`RemoveForBlock`, `RemoveConflicts`); `DisconnectTip` offers the block's
transactions to the pool again while the coins of the old tip are still there
(`Resurrect`), then removes spends of coins that became immature
(`RemoveCoinbaseSpends`). `CheckNewBlock` is the first half of ProcessNewBlock: the
block is checked, its filter against `lockedInputs` included, before `cs_main` is
taken; it joins `checked`, from which `ConnectTip` takes it whatever has been locked
since.

In `SwiftTX`, `txLockReq`, `rejected`, `txLockVote`, `txLocks` are the maps of
`swifttx.cpp`; `byExpiration` is the order in which the locks expire. One action is
the handler of one message, or the call of one user: `LockRequest` and
`LockRequestRejected` (the branches of "ix"), `TxLockVote` ("txlvote"),
`SendRawTransaction`, `RelayWalletTransaction`, `CleanTransactionLocksList`. The maps
are passed as one record through the operators that the functions of the source
became (`CreateNewLock`, `CountVote`, `CancelBoth`, `LockInputs`), in the order of the
calls. `CancelBoth` sets the expiry of two locks to now: they go before all that
expire later and after the `k` that have expired already. The validity of a vote (rank, signature) is an input.

### BlockDownload

The state of a peer is `node[p]` with the fields of CNodeState; `conn` says whether
it has one and whether its version has come. Blocks are the heights of one chain
of stakes: 1 to `known` are in `mapBlockIndex`, 1 to `linked` have data. A peer
announces by inv (`UpdateBlockAvailability`), delivers by block (`BlockMessage`), and
is served by `SendMessages`: sync start, stall and timeout, then
FindNextBlocksToDownload (`NothingInteresting`, `LastCommonAncestor`, `Ahead`,
`ToFetch`, `Stallers`) and MarkBlockAsInFlight (`Walk`). `TimePasses` is the clock:
`late` says that the front of the list has passed its limit, `stalling = "late"`
that the stall has.

With headers-first synchronisation off on every network, a header without data
comes only from a stake that AcceptBlock refuses after AcceptBlockHeader. What
FindNextBlocksToDownload asks for is always such a block, and a block message
whose hash is in the index is not processed; so it leaves the map by
`SubmitBlock`, or with its peer.

### WorkQueue

`at` is the line of Run a worker is on, `waiting` are the sleepers on `cond`,
workers and the thread in WaitExit alike. `Dispatch` and `Enqueue` are
http_request_cb, cut before the lock of the queue; `SetReject`, `Interrupt`,
`WaitExit`, `Delete` are InterruptHTTPServer and StopHTTPServer. `running` is read
without the lock at the head of the loop: the worker may see it late.

## The runs

| run | asks |
|---|---|
| `check_queue` | with two workers, three checks (one failing) and spurious wake-ups: `NoCheckOutlives`, `AssertIdle`, `WaitReturns`, `ImplementsVerdict` |
| `chain_net` | two threads, two branches of six blocks, block 4 possibly invalid, block 1 perhaps failing when it is returned to: `BestChainActive` and `CandidatesAtRest` whenever nobody is inside, `FailureHasCause`, `CallsReturn` |
| `chain_faults` | the same blocks, one thread, one manual intervention, one crash or shutdown anywhere: `LinkedExact`, `UnlinkedExact`, `NoStaleCandidate`, `ActiveChainSound`, `StoredChainComplete`, `PruneLeavesOne` |
| `coins_cache` | two transactions of two outputs, two blocks, writes that fail: `FreshSound`, `CleanEqualsParent`, `BatchWriteAsserts`, `ImplementsMap` |
| `ledger` | two branches with a coinstake, a coin minted once and one minted twice, and two spends of one serial, two verifychain calls, three crashes or shutdowns: `LedgerExact`, `StoredExact`, `ZerocoinsRecorded`, `NoSerialTwice`, `StakeSpentExact`, `UndoIsClean` |
| `pool_locks` | a coinstake, two transactions for one coin, their children and a zerocoin spend; requests, the votes of two nodes, expiry, blocks and reorganisations: `PoolConsistent`, `DroppedForCause`, `OneVotePerNode`, `LockedStays` |
| `block_download` | an outgoing and an incoming peer, three blocks: `InFlightExact`, `MissingAsked` |
| `work_queue` | three workers, three requests, a queue of two, a shutdown at any time: `OneOwner`, `ExitWhenStopped`, `QueuedAnswered`, `ShutdownEnds` |
| `chain_reconsider`, `ledger_undo`, `ledger_verifychain`, `swift_rejected` | each shows where the code departs from what it says of itself (see below) |

Every passing run also checks a type invariant, except `chain_net`, whose module
is typed by `chain_faults` (and by a theorem); in `block_download` the types are part
of `InFlightExact`.

Deadlock is checked, except in the `chain_*`, `pool_locks`, `swift_rejected`,
`block_download` and `work_queue` runs: there the node may come to rest when every
block, request or peer has come and gone and the bounds are used up.

### Bounds, and why they suffice

*check_queue.* Three checks with batches of at most two make every relation
between queue and batch: several batches, one batch, an empty queue with work
outstanding. Two workers and the master give a worker that finishes last, one
that is late, and one that sleeps. Controls are opened again and again.

*chain_net, chain_faults.* The tree 1–2 and 3–4–5 over the genesis block has a
branch that overtakes another from behind, an equal-work tie, an invalid block in
the middle of the better branch with one below and one above it, and a block that
is worse but valid to fall back to. `Fickle` is block 1, the root of the first branch:
a reorganisation to 3–4–5 that fails at 4 may fail again when it returns to it. With
block 3 between the two, this reaches the lost chains. Two threads suffice to enter between two
iterations of the other. `MaxReorg = 2` lets some forks be refused.
`MaxManual` and `MaxCrashes` bound interventions and crashes; they are 0 and 0 in
`chain_net`, 1 and 1 in `chain_faults`. Bounding them is needed to keep the
instance finite in practice, and one of each meets all steps of the other.
`chain_net` has 317 thousand distinct states and `chain_faults` 2.3 million.

*coins_cache.* The operations act on one transaction at a time and on two layers
at a time, so two of each suffice to see one entry move while another stays; no
bound other than the sets: 21 thousand states, with a failed write at any time. The
symmetry is that of unordered model values.

*ledger.* Chains of four blocks and a fork at height 2: a transaction that is in
both branches at different heights, outputs that are spent singly and together,
a coinstake, a serial used again in the block after its first use, a coin minted once
and one that two blocks of a chain mint. `MaxReorg` is
1 and the depth of a startup 2, so that entries do leave `mapStakeSpent`; the
depth of the RPC is at most that of the startup here (see `ledger_verifychain`).
`CacheFits` says that the blocks VerifyDB undoes fit in the coins cache, as a
hundred do with the default `-dbcache`; when they do not, VerifyDB stops early
and `mapStakeSpent` is not filled. `MaxVerify` and `MaxStops` bound the calls of
verifychain and the stops.

*pool_locks.* One coin that two transactions want, one of them with a child; a
coinstake with a child that becomes immature; two blocks, the second with a
zerocoin spend, which has an output; `b` spends that and one of `a`. Requests to
lock a zerocoin spend are left out. Two nodes of which both must vote, each at two heights (a vote
names its height), one of them this node. `MaxHeight` bounds the chain and
`MaxVotes` the times a vote is counted, `ReprocessDepth` the blocks that
DisconnectBlocksAndReprocess undoes (the whole chain here; the code says 15 and,
by its `<=`, undoes 16). `swift_rejected` is the same instance.

*block_download.* A window of one block and one block in transit make every
limit bite: with three blocks, one peer holds the window while the other has the
next block. The incoming peer is asked only while no preferred one is there.
`MaxSubmits` bounds submitblock: without it a user who submits a refused block
again and again, always before the timeout, keeps the window closed for ever.

*work_queue.* Three workers give one that works, one that sleeps and one that has
not entered; a queue of two with three requests is full, is refused and is left
with requests at the shutdown.

### Fairness

`CheckQueue`: weak fairness of the master's steps and of the `Clean` and `Wake` of
each worker. The threads are scheduled by the system and `boost::mutex` is
released after every critical section; the owner of a control reaches Wait()
because its destructor calls it. Nothing is assumed of workers that have not
entered, so that WaitReturns also holds when no worker ever starts. `ChainState`
(`LiveSpec`): weak fairness of the steps of a thread that is inside validation,
each of which holds `cs_main` or takes it. No fairness is assumed of the arrival
of blocks, of crashes or of interventions. `BlockDownload`: the message thread comes
to each connected peer again and again (ThreadMessageHandler; it skips a peer whose
lock is taken, which the holders release), a closed CNode is deleted, the clock
runs; nothing is assumed of peers and users. `WorkQueue`: threads that can run do,
handlers return, a shutdown that has begun goes on; nobody has to send a request
or to shut down. The other specifications state no liveness and assume none.

## Where the code departs from what it says

Each is a run that must find a violation, with the quoted sentence in
`PROJECT.json` under `findings`.

1. `chain_reconsider`: ReconsiderBlock clears the failure flags of ancestors but
   puts only the block and its descendants back among the candidates. After
   invalidating the tip and reconsidering a header above it, the former tip is
   valid, complete and better than the active one, and stays inactive.
2. `ledger_undo`: DisconnectBlock restores fCoinBase, height and version of a
   fully spent transaction but not fCoinStake, although the undo data hold it.
   A coinstake of which all outputs were spent, its empty first output too,
   looks corrupted when its own block is disconnected. Wallets do not spend that
   output; the consensus rules do not forbid it.
3. `ledger_verifychain`: VerifyDB erases zerocoin spends in the database while it
   "disconnects in memory", and a shutdown in between ends it without putting
   them back. verifychain goes 288 blocks deep by default, a startup 100, so the
   older serials stay unknown and may be revealed again.

4. `swift_rejected`: ProcessMessageSwiftTX puts the inputs of a request that the
   pool refuses into `mapLockedInputs` at once (`swifttx.cpp:109`). In the run the pool
   is empty and refuses `c` for its policy; a valid block with `a`, which spends the
   same coin, is then refused by CheckBlock, though no node has voted; the comment
   there speaks of "complete consensus". A refusal for a conflict does the same. As the refused request is not
   in `mapTxLockReq`, the inputs stay locked when its lock expires.

Lesser ones, without a run of their own:

- `BestChainAlways` (`ChainState`): PruneBlockIndexCandidates keeps the tip "as we may
  need to return to it later in case a reorganization to a better block fails"
  (`main.cpp:3806`). The return may fail too, since ConnectBlock checks the block again;
  what is left of the candidates then need not hold the best valid chain. Name it as an
  invariant in `chain_net.cfg` to see it.
- `coins.h` says of GetBestBlock that it retrieves "the block hash whose state this
  CCoinsView currently represents". After a batch that could not be written `pcoinsTip`
  has the coins of the database and the hash of the tip, and the flush at the shutdown
  that follows stores the two together if that write succeeds (`LoseChanges`).
- A coin minted twice below Zerocoin_Block_V2_Start: the second mint replaces the record
  of the first, and when its block is disconnected the coin of the first is not known
  any more, though it is in the chain. `ZerocoinsRecorded` leaves such coins out.
- `CandidatesForCallers` (`ChainState`): the assertion of CheckBlockIndex that every
  good enough block is a candidate fails for a second thread that enters while a
  reorganisation has met an invalid block and released `cs_main`. Name it as an
  invariant in `chain_net.cfg` to see it.
- `OneRoot` (`ChainState`): index entries are written one at a time; a crash between a
  child and its parent leaves an entry whose parent is made up at startup with no
  height, work or status. Name it in `chain_faults.cfg` to see it.
- A block whose header is in the index is skipped when it is delivered
  (`main.cpp:6502`), yet only such blocks are asked for by FindNextBlocksToDownload:
  each peer that has announced one delivers it, is not heard, and is dropped by the
  timeout as if it had not answered.
- FinalizeNode does not take the blocks in flight of its peer off
  `nQueuedValidatedHeaders`; the counter only grows, and with it the timeout of every
  later request (`main.cpp:7059`).
- A worker thread that has not yet come to its ThreadCounter is not waited for by
  WaitExit, and may lock a queue that is gone; so may http_request_cb, when it was
  past the check of the callback at the interrupt. `ExitWhenStopped` says what is
  guaranteed: the counted threads are out. The model stops such a thread.
- `removeCoinbaseSpends` looks for the null input of a zerocoin spend among the coins,
  does not find it, and drops the spend: DisconnectTip empties the pool of
  zerocoin spends. `DroppedForCause` makes that exception. Two spends of one serial
  may be in the pool together, since `mapNextTx` does not know serials.
- A vote of this node is recorded and relayed but not counted in its own lock; an
  invalid vote stays recorded and a valid one from the same node is then not heard.

## What is proved

The proofs hold for all values of the constants that satisfy the named
assumptions of the modules (finite sets, disjoint names, a header tree whose work
grows from parent to child; what CheckTransaction and CheckBlock leave of
transactions and blocks). They do not depend on the instances of TLC.

*CheckQueueProofs.* `IInv` is the typing and four parts: `Partition` (the queue and
the batches are disjoint), `Counters` (`nTodo` is the number of checks queued or in
batches, `nTotal` and `nIdle` count the threads in `Loop` and in a wait), `Batches`
(a thread executes exactly when it has a batch, and its copy `ok` is false only if
`fAllOk` is) and `Status` (with no control open nothing is left and `fAllOk` is true;
with one open, `fAllOk` is true exactly if no completed check of this control
fails). `Batches` and `Status` together are what makes skipping a batch sound.
Theorems: `TypeCorrect`, `NoCheckOutlivesControl`, `ConstructorAssertion` and
`Refinement` (every step of the queue is a step of `ScriptVerdict` or none).

*ChainStateProofs.* `IInv` adds to the typing: `DataInTree`, `Linkage` (an entry is
linked exactly when all its ancestors have data, and waits exactly when it has
data and is not linked), `Candidacy` (candidates are linked and no worse than the
tip, at every step and not only when `cs_main` is free), `Holding` (a thread in the
middle of a step, an invalidation or a replay holds `cs_main`, and a step works
towards a linked block), `ActiveChain`, and `Storage` (disk and memory differ in the
dirty entries only, and the disk holds the chain of its best block). `Storage` is
why the order of the two writes of a flush and the dirty marks matter. The
lemmas about `Ancestors` are proved from its definition as a smallest closed set.
Theorems: `TypeCorrect`, `StoredChain`, `LinkageIsExact`, `WaitingIsExact`,
`CandidatesNotStale`. For `ActiveChainIsSound` and `PruneKeepsOne` (the assertion of
PruneBlockIndexCandidates, without any condition) a second invariant, `MInv`, in three
parts. `Unmarked`: as long as there was no crash, or no intervention, failure marks are
on the active chain only at and above the block that a thread is invalidating, and
nowhere on the chain a step works towards. The marks FindMostWorkChain adds keep it,
since each is above a marked block that is not active. `Behind`: the best block of the
coins on disk is on the active chain, so that a restart comes back to a block below.
`Intact`: without an intervention no mark is taken back, so the marks on disk are among
those in memory.

The second half of the module: "Make the best chain active", for any tree, any blocks
that fail each time or now and then, any arrival order, any number of threads and any
crashes and restarts, as long as nobody intervenes (`BestChainActive` fails after
reconsiderblock, see the findings). It is not enough to follow the candidates better
than the tip: a reorganisation disconnects the tip below blocks that have long been
pruned, may then find its goal invalid, and may find the old branch invalid on the way
back, which leaves the candidates incomplete with `cs_main` free. What remains true is
`Covered`: a linked block without failure marks that is missing from the candidates is
worse than some block that was connected once. `Chosen` (no candidate without marks
beats what a step works towards) and `Pending` (while a better candidate exists, some
thread will look again, also when another thread has moved the tip between two holds of
`cs_main`) then give `BestChainWins` and `CandidatesReady`, both up to the blocks that
are `Lost` in this way. `BestChainWinsAlways` is the promise without that exception,
for a node none of whose blocks changes its outcome (`Fickle = {}`); its invariant
`Verdicts` says that a marked block has something wrong below it and a connected
one nothing. `FailuresHaveCauses` holds until the first intervention or restart only,
since a crash may store one mark without the other.

*CoinsCacheProofs.* `IInv` is the typing and `Layers`: an entry that is not DIRTY
equals what the layer below shows, an entry that is FRESH has nothing below it,
and an entry of the view that `pcoinsTip` lacks is FRESH (`Loaded`). The last part
is needed for the assertion of BatchWrite and is not visible in any single
operation. Theorems: `TypeCorrect`, `FreshIsSound`, `CleanIsEqual`,
`BatchWriteAssertion`, `Refinement` (of `CoinsMap`, where a write of the tip that fails
has lost the coins and kept the best block; what it leaves on disk is in the abstract
specification too, so the theorem does not claim more for such a node).

*WorkQueueProofs.* `IInv` is the typing and: the number of threads is that of the
workers inside Run, a worker has an item exactly while it works, an item is
reachable from one place and unanswered, and once WaitExit has returned nobody is
inside. Theorems: `ExitInvariant`, `TypeCorrect`, `OneOwnerAlways`,
`ExitsWhenStopped` (an action property: the count that WaitExit reads under the
lock is the number of workers inside).

*BlockDownloadProofs.* `InFlightAlways`: the map, the lists and the two counters
agree. The invariant adds `Idle`: a peer without a CNodeState counts for nothing, and
one whose version has not come is not preferred, without which
UpdatePreferredDownload could count a peer twice. What SendMessages does is proved
once (`Asks`: it asks for blocks that are in flight from nobody and touches other
peers only to note a stall of one that has a state), through the cases of
FindNextBlocksToDownload.

*LedgerProofs.* The ledger of a chain is given by three things: which outputs were
made, which were spent, and at which height each transaction was included;
`CoinsOf(M, S, H)` is the map of coins that belongs to them. By the folds of
`FoldTheorems`, ConnectBlock takes the ledger of a chain to that of the chain with
one block more, and with the undo data it writes DisconnectBlock takes it back:
`ConnectLedger` and `DisconnectLedger`, for any chain and any block.
`CoinsInv`, for the coins: `pcoinsTip`, the database and the view somebody works in
are the ledgers of the chains of their best blocks, the database's block is on the
active chain, and every block of these chains has the undo data that belongs to it.
It gives `CoinsOfTheChain` and `CoinsOnDisk`; the typing, `LedgerTypes`, is proved
without it. `IndexInv`: the transactions of the active chain are indexed at the block
they are in. `ZeroInv`, for the
zerocoins: every serial of the active chain, and every coin that one block of it
mints, is on record, but for the
blocks that VerifyDB has undone and not put back, or a step is about to undo;
what is below the depth of VerifyDB is always on record; and that depth is at most
the one a startup goes back, so that the VerifyDB of the next startup puts back what
a shutdown has left erased. It gives `ZerocoinsOnRecord`, `SerialsOnce` and
`NeverCorrupted`. `StakeInv` relates `mapStakeSpent` to the blocks above its horizon
and gives `StakesFollowTheChain`.

Three hypotheses stand in these theorems and not among the assumptions of `Ledger`,
since there are nodes and chains for which they fail, and the findings show what
happens then:

- `MarkersUnspent` (all but the typing): each coinstake has an output that no
  transaction spends, its empty first one. Without it DisconnectBlock does not give
  the old coins back (`ledger_undo`).
- `VerifyDeep` (the zerocoins): the blocks VerifyDB undoes fit in the coins cache, and
  verifychain goes no deeper than a startup or is not called. A node with the default
  depths, 288 and 100, satisfies it only as long as nobody calls verifychain
  (`ledger_verifychain`).
- `StakesVerified` (`mapStakeSpent`): they fit in the cache, and a startup goes back
  as far as the longest reorganisation (both are 100 by default).

The instance of the run `ledger` satisfies all three.

*FoldTheorems.* The operators of `TxMemPool`, `SwiftTX` and `Ledger` are folds over
sequences of transactions, of inputs, of blocks. What a fold computes for every
sequence needs induction, and a theorem with the step and the property as
parameters cannot be used by the provers. Here both are constants of a module
(`op`, `Inv`), which each use instantiates with a step and a property of its own;
what they need to know besides is their first argument. `FoldLeftInduction`,
`FoldRightInduction` and `IterateInduction`, lemmas about the library and not about
the node, say that what holds at first and is kept
by every step holds at the end. They are proved from the definitions of the
library, with the least element of a set of numbers.

*SwiftTXProofs.* Five theorems.
`PoolAgrees`: the pool agrees with the chain (`PoolConsistent`), after any
blocks, reorganisations and arrivals. The invariant adds to it that the chain
itself is a ledger (`ChainOk`: what a block spends is there, once) and that every
input of the pool is a coin of the chain or an output of another entry that will
be mature in the next block (`PoolOk`). The work is in `DisconnectTip`: the
resurrected transactions are accepted while the coins of the old tip are still
there, and what rests on them then goes with removeCoinbaseSpends and with the
descendants of what is not accepted again (`ReturnOk`, `SweepOk`).
`NothingLost`: a step that drops an entry has one of the causes of
`DroppedForCause`. The converse of the above: of what is still possible, nothing
goes. It rests on what `Descendants` is, the least set closed under children
(`DescendantsOk`).
`LocksHold`: a transaction that holds the locks of all its inputs is not mined
over (`LockedStays`).
`VotesCountOnce`: a lock counts a node once. The invariant is that a
counted vote is on record; the point is CleanTransactionLocksList, which forgets
votes only together with the locks that counted them. `SwiftTypes` is the typing;
it needs that `byExpiration` holds every lock exactly once.

*Only model-checked*: the liveness properties (the prover has no rules for
fairness and ENABLED), `MissingAsked` of `BlockDownload` among them. `BestChainActive`
and `CandidatesAtRest` are checked and proved up to the first intervention, restarts
included; `FailureHasCause` up to the first intervention or restart. In `ChainState`
and `Ledger` a write of a database happens or the node stops; what a write that fails
does to the coins is in `CoinsCache` only.

## Not modelled, and what comes next

The whole is kept to a dozen runs, so that it stays quick to check. What is left,
in the order of its worth:

1. `Ledger`: a failed write of the coins between the other databases, and the
   accumulator checkpoints.
2. The prosperitynode services: the synchronisation as an automaton with late
   answers, the lists with broadcasts, pings and cleaning, payments, budgets. Two
   defects are plain in the code and need no model: every CheckAndRemove of
   `prosperitynode-budget.cpp` (526) swaps the maps with empty ones, since the code that
   fills them is commented out; `prosperitynodeman.cpp` (322) advances the iterator of
   an expired broadcast before it is used to erase.
3. `Connections` (reference counts, the outbound semaphore), `AddrMan`, the
   scheduler.
4. `Obfuscation`, and the wallets as listeners of `Ledger`.

Out of reach, or not worth a model: scripts, signatures, hashes, zerocoin proofs and
kernel hashes (computations on data), the Qt interface, RPC formatting, ZMQ and Tor
control (input and output), the vendored libraries (`leveldb`, `secp256k1`, `univalue`,
`crypto`, `libzerocoin`), generated tables (`invalid_outpoints.json.h`).

`PROJECT.json` lists the hazards that each of these is for, at their lines.
