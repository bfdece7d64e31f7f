---------------------------- MODULE LedgerProofs ----------------------------
(***************************************************************************)
(* Proofs about Ledger.                                                    *)
(*                                                                         *)
(* The coins a chain leaves are CoinsOf(M, S, H): the transactions M were  *)
(* made, at the heights H, and the outputs S were spent.  ConnectBlock and *)
(* DisconnectBlock are folds over transactions and inputs; by the          *)
(* inductions of FoldTheorems, each step of the one moves from one such    *)
(* state to the next, and each step of the other moves back.  The three    *)
(* invariants are built on that.                                           *)
(*                                                                         *)
(* MarkersUnspent, VerifyDeep and StakesVerified are hypotheses of the     *)
(* theorems and not assumptions of the module: the runs ledger_undo and    *)
(* ledger_verifychain show nodes where they do not hold, and what goes     *)
(* wrong there.                                                            *)
(***************************************************************************)
EXTENDS Ledger, FiniteSetTheorems, SequenceTheorems, TLAPS

-----------------------------------------------------------------------------
(* Chains: the smallest set of blocks closed under Prev.                   *)

\* Nothing but the genesis block is left of its own chain.
LEMMA PathGenesis == Path[Genesis] = {} /\ Height(Genesis) = 0
<1>1. Genesis \in Blocks
  BY TreeAssumption
<1>2. {Genesis} \in SUBSET Blocks /\ Closed({Genesis})
  BY <1>1 DEF Closed
<1>3. \A c \in Path[Genesis] : c \in {Genesis} /\ c # Genesis
  BY <1>1, <1>2 DEF Path
<1>4. Path[Genesis] = {}
  BY <1>3
<1> QED BY <1>4, FS_EmptySet DEF Height

\* What a chain is a part of.
LEMMA PathLeast ==
  ASSUME NEW b \in Blocks
  PROVE  /\ Path[b] \subseteq Blocks \ {Genesis}
         /\ \A S \in SUBSET Blocks : b \in S /\ Closed(S) => Path[b] \subseteq S
BY DEF Path

\* A chain holds the parents of its blocks.
LEMMA PathClosed ==
  ASSUME NEW b \in Blocks, NEW c \in Path[b]
  PROVE  Prev[c] \in Path[b] \cup {Genesis}
<1>1. c \in Blocks \ {Genesis} /\ Prev[c] \in Blocks
  BY PathLeast, TreeAssumption
<1>2. SUFFICES ASSUME Prev[c] # Genesis PROVE Prev[c] \in Path[b]
  OBVIOUS
<1>3. ASSUME NEW S \in SUBSET Blocks, b \in S, Closed(S) PROVE Prev[c] \in S
  <2>1. c \in S
    BY <1>3, PathLeast
  <2> QED BY <1>1, <1>3, <2>1 DEF Closed
<1> QED BY <1>1, <1>2, <1>3 DEF Path

\* The chain of a block is that of its parent and the block.
LEMMA PathIs ==
  ASSUME NEW b \in Blocks \ {Genesis}
  PROVE  Prev[b] \in Blocks /\ Path[b] = Path[Prev[b]] \cup {b}
<1>1. Prev[b] \in Blocks /\ b \in Blocks
  BY TreeAssumption
<1>2. b \in Path[b]
  BY DEF Path
<1>3. Path[Prev[b]] \subseteq Path[b]
  <2>1. /\ Path[b] \cup {Genesis} \in SUBSET Blocks
        /\ Prev[b] \in Path[b] \cup {Genesis}
    BY <1>1, <1>2, PathLeast, PathClosed, TreeAssumption
  <2>2. Closed(Path[b] \cup {Genesis})
    BY <1>1, PathClosed DEF Closed
  <2> QED BY <1>1, <2>1, <2>2, PathLeast
<1>4. Path[b] \subseteq Path[Prev[b]] \cup {b}
  <2> DEFINE S == Path[Prev[b]] \cup {b, Genesis}
  <2>1. Prev[b] \in S
    <3>1. Prev[b] \in Path[Prev[b]] \/ Prev[b] = Genesis
      BY <1>1 DEF Path
    <3> QED BY <3>1
  <2>2. S \in SUBSET Blocks /\ b \in S
    BY <1>1, PathLeast, TreeAssumption
  <2>3. Closed(S)
    BY <1>1, <2>1, PathClosed DEF Closed
  <2>4. Path[b] \subseteq S
    BY <1>1, <2>2, <2>3, PathLeast
  <2> QED BY <1>1, <2>4, PathLeast
<1> QED BY <1>1, <1>2, <1>3, <1>4

\* What holds of the genesis block, and of a block where it holds of its parent,
\* holds of every block (the tree has no loop and one root).
LEMMA TreeInduction ==
  ASSUME NEW S \in SUBSET Blocks, Genesis \in S,
         \A b \in Blocks \ {Genesis} : Prev[b] \in S => b \in S
  PROVE  S = Blocks
BY TreeAssumption

\* A block is on the chain of no block below it, and chains are finite.
LEMMA PathNoLoop ==
  ASSUME NEW b \in Blocks \ {Genesis}
  PROVE  b \notin Path[Prev[b]] /\ IsFiniteSet(Path[b])
<1> DEFINE S == {x \in Blocks : IsFiniteSet(Path[x]) /\ \A c \in Path[x] : c \notin Path[Prev[c]]}
<1>1. Genesis \in S
  BY PathGenesis, TreeAssumption, FS_EmptySet
<1>2. ASSUME NEW x \in Blocks \ {Genesis}, Prev[x] \in S PROVE x \in S
  <2>1. Path[x] = Path[Prev[x]] \cup {x}
    BY PathIs
  <2>2. IsFiniteSet(Path[x])
    BY <1>2, <2>1, FS_AddElement
  <2>3. x \notin Path[Prev[x]]
    BY <1>2
  <2> QED BY <1>2, <2>1, <2>2, <2>3
<1>3. S = Blocks
  <2>1. S \in SUBSET Blocks
    OBVIOUS
  <2> HIDE DEF S
  <2> QED BY <1>1, <1>2, <2>1, TreeInduction
<1>4. b \in S /\ b \in Path[b]
  BY <1>3, PathIs
<1> QED BY <1>4

\* A chain is one block higher than that of the parent of its last block.
LEMMA HeightIs ==
  ASSUME NEW b \in Blocks \ {Genesis}
  PROVE  Height(b) = Height(Prev[b]) + 1
<1>1. Prev[b] \in Blocks /\ Path[b] = Path[Prev[b]] \cup {b}
  BY PathIs
<1>2. b \notin Path[Prev[b]] /\ IsFiniteSet(Path[b])
  BY PathNoLoop
<1>3. IsFiniteSet(Path[Prev[b]])
  BY <1>1, <1>2, FS_Subset
<1> QED BY <1>1, <1>2, <1>3, FS_AddElement DEF Height

\* Heights are natural numbers, and a part of a chain is no higher.
LEMMA HeightOk ==
  ASSUME NEW b \in Blocks
  PROVE  /\ IsFiniteSet(Path[b]) /\ Height(b) \in Nat
         /\ \A c \in Blocks : Path[c] \subseteq Path[b] => Height(c) <= Height(b)
<1>1. IsFiniteSet(Path[b])
  BY PathGenesis, PathNoLoop, FS_EmptySet
<1> QED BY <1>1, FS_CardinalityType, FS_Subset DEF Height

\* The blocks of a chain have their own chains in it, and are lower the earlier they come.
LEMMA PathPart ==
  ASSUME NEW b \in Blocks, NEW c \in Path[b]
  PROVE  /\ c \in Blocks \ {Genesis} /\ Prev[c] \in Blocks /\ c \in Path[c]
         /\ Path[c] \subseteq Path[b]
         /\ Height(c) \in Nat \ {0} /\ Height(c) <= Height(b)
         /\ c # b => c \in Path[Prev[b]]
<1>1. c \in Blocks \ {Genesis} /\ Prev[c] \in Blocks /\ c \in Path[c]
  BY PathLeast, PathIs
<1>2. Path[c] \subseteq Path[b]
  <2>1. Path[b] \cup {Genesis} \in SUBSET Blocks /\ Closed(Path[b] \cup {Genesis})
    BY PathLeast, PathClosed, TreeAssumption DEF Closed
  <2> QED BY <1>1, <2>1, PathLeast
<1>3. Height(c) \in Nat \ {0}
  BY <1>1, HeightIs, HeightOk
<1>4. c # b => c \in Path[Prev[b]]
  BY PathGenesis, PathIs
<1> QED BY <1>1, <1>2, <1>3, <1>4, HeightOk

-----------------------------------------------------------------------------
(* Coins as a function of what a chain makes and spends.                   *)

\* The outputs of t that are not in S
Left(t, S) == {n \in Out[t] : <<t, n>> \notin S}
Coin(o, b, s, h) == [outs |-> o, base |-> b, stake |-> s, height |-> h]
AddOut(c, n) == [c EXCEPT !.outs = @ \cup {n}]
\* The coins when the transactions M were made, at the heights H, and S was spent
CoinOf(t, M, S, H) ==
  IF t \notin M \/ Left(t, S) = {} THEN Pruned
  ELSE Coin(Left(t, S), t \in Base, t \in Stakes, H[t])
CoinsOf(M, S, H) == [t \in Txs |-> CoinOf(t, M, S, H)]

Undos == [base : BOOLEAN, stake : BOOLEAN, height : Nat]

\* A coinstake keeps an output that nothing spends
MarkersUnspent == \A t \in Stakes : \E n \in Out[t] : \A u \in Txs : <<t, n>> \notin ToSet(In[u])

\* The coins have the shape of CCoins.
LEMMA CoinTyped ==
  ASSUME NEW t \in Txs, NEW M, NEW S, NEW H \in [Txs -> Nat]
  PROVE  CoinOf(t, M, S, H) \in CCoins
<1>1. Left(t, S) \in SUBSET Positions
  BY TxsAssumption DEF Left
<1> QED BY <1>1 DEF CoinOf, CCoins, Pruned, Coin

\* An output comes back to a coin.
LEMMA CoinGrows ==
  ASSUME NEW o, NEW b, NEW s, NEW h, NEW n
  PROVE  AddOut(Coin(o, b, s, h), n) = Coin(o \cup {n}, b, s, h)
<1>1. Coin(o, b, s, h).outs = o
  BY DEF Coin
<1>2. [Coin(o, b, s, h) EXCEPT !.outs = o \cup {n}] = Coin(o \cup {n}, b, s, h)
  BY DEF Coin
<1> QED BY <1>1, <1>2 DEF AddOut

\* Pruned coins get the metadata of the undo data.
LEMMA CoinReturns ==
  ASSUME NEW b, NEW h
  PROVE  [Pruned EXCEPT !.base = b, !.height = h] = Coin({}, b, FALSE, h)
<1> DEFINE k == [Pruned EXCEPT !.base = b, !.height = h]
<1>1. k.outs = {} /\ k.base = b /\ k.stake = FALSE /\ k.height = h
  BY DEF Pruned
<1>2. k = [x \in {"outs", "base", "stake", "height"} |-> k[x]]
  BY DEF Pruned
<1> HIDE DEF k
<1>3. k = [outs |-> k.outs, base |-> k.base, stake |-> k.stake, height |-> k.height]
  BY <1>2
<1>4. k = Coin({}, b, FALSE, h)
  BY <1>1, <1>3 DEF Coin
<1> QED BY <1>4 DEF k

\* To spend an output takes it out of what is left.
LEMMA SpendOne ==
  ASSUME NEW M, NEW S, NEW H \in [Txs -> Nat], NEW u \in M \cap Txs, NEW n \in Left(u, S)
  PROVE  [CoinsOf(M, S, H) EXCEPT ![u] = Spent(@, n)] = CoinsOf(M, S \cup {<<u, n>>}, H)
<1> DEFINE T == S \cup {<<u, n>>}
<1>1. Left(u, T) = Left(u, S) \ {n}
  BY DEF Left
<1>2. \A t \in Txs : t # u => Left(t, T) = Left(t, S)
  BY DEF Left
<1> HIDE DEF T
<1>3. Spent(CoinOf(u, M, S, H), n) = CoinOf(u, M, T, H)
  <2>1. CASE Left(u, S) = {n}
    BY <1>1, <2>1 DEF Spent, CoinOf, Coin, Pruned
  <2>2. CASE Left(u, S) # {n}
    <3>1. Left(u, T) # {}
      BY <1>1, <2>2
    <3> QED BY <1>1, <2>2, <3>1 DEF Spent, CoinOf, Coin
  <2> QED BY <2>1, <2>2
<1>4. \A t \in Txs : t # u => CoinOf(t, M, T, H) = CoinOf(t, M, S, H)
  BY <1>2 DEF CoinOf
<1> HIDE DEF CoinOf
<1>5. [CoinsOf(M, S, H) EXCEPT ![u] = Spent(@, n)] = CoinsOf(M, T, H)
  <2> HIDE DEF Spent
  <2> QED BY <1>3, <1>4 DEF CoinsOf
<1> QED BY <1>5 DEF T

\* What one input puts into the undo data brings the output back.
LEMMA RestoreOne ==
  ASSUME NEW M, NEW S, NEW H \in [Txs -> Nat], NEW u \in M \cap Txs, NEW n \in Left(u, S),
         H[u] # 0, u \in Stakes => Left(u, S) # {n},
         NEW acc, acc.coins = CoinsOf(M, S \cup {<<u, n>>}, H), acc.clean = TRUE
  PROVE  LET r == RestoreInput(acc, <<u, n>>, UndoOf(CoinOf(u, M, S, H), n))
         IN  r.coins = CoinsOf(M, S, H) /\ r.clean = TRUE
<1> DEFINE T == S \cup {<<u, n>>}
           w == UndoOf(CoinOf(u, M, S, H), n)
           c == CoinOf(u, M, T, H)
           base == IF w.height # 0
                   THEN [Pruned EXCEPT !.base = w.base, !.height = w.height] ELSE c
<1>1. Left(u, T) = Left(u, S) \ {n} /\ n \in Left(u, S)
  BY DEF Left
<1>2. \A t \in Txs : t # u => Left(t, T) = Left(t, S)
  BY DEF Left
<1>3. acc.coins[u] = c
  BY DEF CoinsOf
<1> HIDE DEF T
<1>4. \A t \in Txs : t # u => CoinOf(t, M, T, H) = CoinOf(t, M, S, H)
  BY <1>2 DEF CoinOf
<1>5. /\ AddOut(base, n) = CoinOf(u, M, S, H)
      /\ (w.height # 0) = (c.outs = {})
      /\ n \notin base.outs
  <2>1. CASE Left(u, S) = {n}
    <3>1. CoinOf(u, M, S, H) = Coin({n}, u \in Base, u \in Stakes, H[u])
      BY <2>1 DEF CoinOf
    <3>2. c = Pruned /\ u \notin Stakes
      BY <1>1, <2>1 DEF CoinOf
    <3>3. w.height = H[u] /\ w.base = (u \in Base)
      BY <3>1 DEF UndoOf, Coin
    <3>4. base = [Pruned EXCEPT !.base = w.base, !.height = w.height] /\ w.height # 0 /\ c.outs = {}
      BY <3>2, <3>3 DEF Pruned
    <3>5. (u \in Stakes) = FALSE
      BY <3>2
    <3>6. CoinOf(u, M, S, H) = Coin({n}, u \in Base, FALSE, H[u])
      BY <3>1, <3>5, Zenon
    <3> HIDE DEF base, w, c
    <3>7. base = Coin({}, w.base, FALSE, w.height) /\ n \notin base.outs
      BY <3>4, CoinReturns DEF Coin
    <3>a. AddOut(base, n) = Coin({} \cup {n}, w.base, FALSE, w.height)
      <4>1. \A f : AddOut(Coin({}, w.base, f, w.height), n) = Coin({} \cup {n}, w.base, f, w.height)
        BY CoinGrows
      <4> QED BY <3>7, <4>1, Zenon
    <3>8. (w.height # 0) = (c.outs = {})
      BY <3>4
    <3>9. AddOut(base, n) = CoinOf(u, M, S, H)
      BY <3>3, <3>6, <3>a
    <3> QED BY <3>7, <3>8, <3>9
  <2>2. CASE Left(u, S) # {n}
    <3>1. CoinOf(u, M, S, H) = Coin(Left(u, S), u \in Base, u \in Stakes, H[u])
      BY <1>1 DEF CoinOf
    <3>2. c = Coin(Left(u, S) \ {n}, u \in Base, u \in Stakes, H[u])
      BY <1>1, <2>2 DEF CoinOf
    <3>3. w.height = 0
      BY <2>2, <3>1 DEF UndoOf, Coin
    <3>4. base = c
      BY <3>3
    <3>5. Left(u, S) \ {n} # {} /\ (Left(u, S) \ {n}) \cup {n} = Left(u, S)
      BY <1>1, <2>2
    <3> HIDE DEF base, w, c
    <3>6. c.outs = Left(u, S) \ {n}
      BY <3>2 DEF Coin
    <3>7. (w.height # 0) = (c.outs = {})
      BY <3>3, <3>5, <3>6
    <3>8. AddOut(base, n) = Coin((Left(u, S) \ {n}) \cup {n}, u \in Base, u \in Stakes, H[u])
      BY <3>2, <3>4, CoinGrows
    <3>9. AddOut(base, n) = CoinOf(u, M, S, H)
      BY <3>1, <3>5, <3>8, Zenon
    <3> QED BY <3>4, <3>6, <3>7, <3>9
  <2> QED BY <2>1, <2>2
<1> HIDE DEF w, c, base, CoinOf
<1>6. /\ RestoreInput(acc, <<u, n>>, w).coins
            = [acc.coins EXCEPT ![u] = AddOut(base, n)]
      /\ RestoreInput(acc, <<u, n>>, w).clean
            = (acc.clean /\ (w.height # 0) = (acc.coins[u].outs = {}) /\ n \notin base.outs)
  BY <1>3 DEF RestoreInput, base, AddOut
<1>7. RestoreInput(acc, <<u, n>>, w).coins = CoinsOf(M, S, H)
  <2>1. [acc.coins EXCEPT ![u] = CoinOf(u, M, S, H)] = CoinsOf(M, S, H)
    BY <1>4 DEF CoinsOf, T
  <2> QED BY <1>5, <1>6, <2>1, Zenon
<1>8. RestoreInput(acc, <<u, n>>, w).clean = TRUE
  BY <1>3, <1>5, <1>6, Zenon
<1> QED BY <1>7, <1>8 DEF w

-----------------------------------------------------------------------------
(* UpdateCoins, input by input.                                            *)

\* The first i elements of s
First(s, i) == {s[j] : j \in 1 .. i}

\* The elements of a sequence, one by one.
LEMMA FirstIs ==
  ASSUME NEW s, NEW n \in Nat, DOMAIN s = 1 .. n
  PROVE  /\ First(s, 0) = {} /\ First(s, n) = ToSet(s)
         /\ \A i \in 1 .. n : First(s, i) = First(s, i - 1) \cup {s[i]}
         /\ \A i \in 1 .. n : \A j \in 1 .. i - 1 : s[j] \in First(s, i - 1)
         /\ \A i \in 0 .. n : \A x \in First(s, i) : \E j \in 1 .. i : j \in 1 .. n /\ x = s[j]
<1>1. First(s, 0) = {}
  BY DEF First
<1>2. First(s, n) = ToSet(s)
  BY DEF First, ToSet
<1>3. ASSUME NEW i \in 1 .. n PROVE First(s, i) = First(s, i - 1) \cup {s[i]}
  <2>1. 1 .. i = (1 .. i - 1) \cup {i}
    OBVIOUS
  <2> QED BY <2>1 DEF First
<1>4. \A i \in 1 .. n : \A j \in 1 .. i - 1 : s[j] \in First(s, i - 1)
  BY DEF First
<1>5. \A i \in 0 .. n : \A x \in First(s, i) : \E j \in 1 .. i : j \in 1 .. n /\ x = s[j]
  BY DEF First
<1> QED BY <1>1, <1>2, <1>3, <1>4, <1>5

\* Inputs are a sequence of outpoints without repetition.
LEMMA InIs ==
  ASSUME NEW t \in Txs
  PROVE  /\ Len(In[t]) \in Nat /\ DOMAIN In[t] = 1 .. Len(In[t])
         /\ \A j \in 1 .. Len(In[t]) :
               In[t][j] \in Outpoints /\ In[t][j][1] \in Txs /\ In[t][j] = <<In[t][j][1], In[t][j][2]>>
         /\ \A i, j \in 1 .. Len(In[t]) : In[t][i] = In[t][j] => i = j
<1>1. In[t] \in Seq(Outpoints) /\ IsInjective(In[t])
  BY TxsAssumption
<1>2. Len(In[t]) \in Nat /\ DOMAIN In[t] = 1 .. Len(In[t]) /\ \A j \in 1 .. Len(In[t]) : In[t][j] \in Outpoints
  BY <1>1
<1>3. \A o \in Outpoints : o[1] \in Txs /\ o = <<o[1], o[2]>>
  BY DEF Outpoints
<1> QED BY <1>1, <1>2, <1>3 DEF IsInjective

\* The inputs of t are outputs of M that are not in S
Available(t, M, S) ==
  \A j \in 1 .. Len(In[t]) : In[t][j][1] \in M /\ In[t][j][2] \in Left(In[t][j][1], S)
\* The undo data of the input j of t
InputUndo(t, M, S, H, j) ==
  UndoOf(CoinOf(In[t][j][1], M, S \cup First(In[t], j - 1), H), In[t][j][2])
TxUndo(t, M, S, H) == [j \in 1 .. Len(In[t]) |-> InputUndo(t, M, S, H, j)]

\* An input is still there when those before it are spent.
LEMMA StillLeft ==
  ASSUME NEW t \in Txs, NEW M, NEW S, Available(t, M, S), NEW j \in 1 .. Len(In[t])
  PROVE  In[t][j][2] \in Left(In[t][j][1], S \cup First(In[t], j - 1))
<1>1. In[t][j] = <<In[t][j][1], In[t][j][2]>>
  BY InIs
<1>2. In[t][j] \notin First(In[t], j - 1)
  <2>1. \A k \in 1 .. j - 1 : In[t][k] # In[t][j]
    BY InIs
  <2> QED BY <2>1 DEF First
<1>3. In[t][j][2] \in Left(In[t][j][1], S)
  BY DEF Available
<1> QED BY <1>1, <1>2, <1>3 DEF Left

SpendStep(ctx, a, in) == SpendInput(a, in)
SpendInv(ctx, i, a) ==
  /\ a = [coins |-> a.coins, undo |-> a.undo]
  /\ a.coins = CoinsOf(ctx.made, ctx.spent \cup First(In[ctx.tx], i), ctx.heights)
  /\ a.undo \in Seq(Undos) /\ Len(a.undo) = i
  /\ \A j \in 1 .. i : a.undo[j] = InputUndo(ctx.tx, ctx.made, ctx.spent, ctx.heights, j)
Spending == INSTANCE FoldTheorems WITH op <- SpendStep, Inv <- SpendInv

\* The undo data of a coin has the shape of CTxInUndo.
LEMMA UndoTyped ==
  ASSUME NEW c \in CCoins, NEW n
  PROVE  UndoOf(c, n) \in Undos
BY DEF UndoOf, CCoins, Undos

\* UpdateCoins spends the inputs of a transaction and adds its outputs.
LEMMA UpdateOk ==
  ASSUME NEW t \in Txs, NEW M, NEW S, NEW H \in [Txs -> Nat], NEW h \in Nat,
         Available(t, M, S), t \notin M, \A o \in S : o[1] # t
  PROVE  LET u == UpdateCoins(CoinsOf(M, S, H), t, h)
         IN  /\ u.coins = CoinsOf(M \cup {t}, S \cup ToSet(In[t]), [H EXCEPT ![t] = h])
             /\ u.undo = TxUndo(t, M, S, H) /\ u.undo \in Seq(Undos)
<1> DEFINE ctx == [made |-> M, spent |-> S, heights |-> H, tx |-> t]
           base == [coins |-> CoinsOf(M, S, H), undo |-> <<>>]
           n == Len(In[t])
           f == Spending!LeftFold(ctx, base, In[t])
<1>n. n \in Nat /\ DOMAIN In[t] = 1 .. n
  BY InIs
<1>1. SpendInv(ctx, 0, base)
  <2>1. First(In[t], 0) = {}
    BY DEF First
  <2>2. S \cup {} = S
    OBVIOUS
  <2>3. <<>> \in Seq(Undos) /\ Len(<<>>) = 0
    OBVIOUS
  <2>4. CoinsOf(ctx.made, ctx.spent \cup First(In[ctx.tx], 0), ctx.heights) = CoinsOf(M, S, H)
    BY <2>1, <2>2
  <2> QED BY <2>3, <2>4 DEF SpendInv
<1>2. ASSUME NEW i \in 1 .. n, NEW a, SpendInv(ctx, i - 1, a)
      PROVE  SpendInv(ctx, i, SpendStep(ctx, a, In[t][i]))
  <2> DEFINE T == S \cup First(In[t], i - 1)
             u == In[t][i][1]
             k == In[t][i][2]
             r == SpendInput(a, In[t][i])
  <2>1. /\ a.coins = CoinsOf(M, T, H) /\ a.undo \in Seq(Undos) /\ Len(a.undo) = i - 1
        /\ \A j \in 1 .. i - 1 : a.undo[j] = InputUndo(t, M, S, H, j)
    BY <1>2 DEF SpendInv
  <2>2. u \in Txs /\ u \in M /\ k \in Left(u, T) /\ In[t][i] = <<u, k>>
    BY StillLeft, InIs DEF Available
  <2>3. T \cup {<<u, k>>} = S \cup First(In[t], i)
    <3>1. First(In[t], i) = First(In[t], i - 1) \cup {In[t][i]}
      BY <1>n, FirstIs
    <3> QED BY <2>2, <3>1
  <2>4. r = [coins |-> [a.coins EXCEPT ![u] = Spent(@, k)], undo |-> Append(a.undo, UndoOf(a.coins[u], k))]
    BY DEF SpendInput
  <2>5. r.coins = CoinsOf(M, S \cup First(In[t], i), H)
    <3>1. [CoinsOf(M, T, H) EXCEPT ![u] = Spent(@, k)] = CoinsOf(M, T \cup {<<u, k>>}, H)
      <4> HIDE DEF T, u, k
      <4> QED BY <2>2, SpendOne
    <3>2. r.coins = [CoinsOf(M, T, H) EXCEPT ![u] = Spent(@, k)]
      BY <2>1, <2>4
    <3> QED BY <2>3, <3>1, <3>2
  <2>6. UndoOf(a.coins[u], k) = InputUndo(t, M, S, H, i)
    <3>1. a.coins[u] = CoinOf(u, M, T, H)
      BY <2>1, <2>2 DEF CoinsOf
    <3> QED BY <3>1 DEF InputUndo
  <2>7. InputUndo(t, M, S, H, i) \in Undos
    <3>1. CoinOf(u, M, T, H) \in CCoins
      BY <2>2, CoinTyped
    <3> QED BY <3>1, UndoTyped DEF InputUndo
  <2>8. r.undo = Append(a.undo, InputUndo(t, M, S, H, i))
    BY <2>4, <2>6
  <2> HIDE DEF r, T, u, k
  <2>9. r.undo \in Seq(Undos) /\ Len(r.undo) = i
    BY <2>1, <2>7, <2>8
  <2>10. \A j \in 1 .. i : r.undo[j] = InputUndo(t, M, S, H, j)
    <3> SUFFICES ASSUME NEW j \in 1 .. i PROVE r.undo[j] = InputUndo(t, M, S, H, j)
      OBVIOUS
    <3>1. CASE j = i
      BY <2>1, <2>7, <2>8, <3>1
    <3>2. CASE j \in 1 .. i - 1
      BY <2>1, <2>7, <2>8, <3>2
    <3> QED BY <3>1, <3>2
  <2>11. r = [coins |-> r.coins, undo |-> r.undo]
    BY <2>4
  <2>12. SpendInv(ctx, i, r)
    BY <2>5, <2>9, <2>10, <2>11 DEF SpendInv
  <2> QED BY <2>12 DEF SpendStep, r
<1>3. SpendInv(ctx, n, f)
  <2> HIDE DEF ctx, base, n
  <2> QED BY <1>n, <1>1, <1>2, Spending!FoldLeftInduction
<1>4. FoldLeft(SpendInput, base, In[t]) = f
  BY DEF Spending!LeftFold, SpendStep, FoldLeft, MapThenFoldSet, Max, Spending!FoldLeft,
         Spending!MapThenFoldSet, Spending!Max
<1> HIDE DEF f
<1>5. /\ f = [coins |-> f.coins, undo |-> f.undo]
      /\ f.coins = CoinsOf(M, S \cup ToSet(In[t]), H)
      /\ f.undo \in Seq(Undos) /\ Len(f.undo) = n
      /\ \A j \in 1 .. n : f.undo[j] = InputUndo(t, M, S, H, j)
  BY <1>3, <1>n, FirstIs DEF SpendInv
<1>6. UpdateCoins(CoinsOf(M, S, H), t, h) = [f EXCEPT !.coins[t] = FromTx(t, h)]
  BY <1>4 DEF UpdateCoins
<1>7. UpdateCoins(CoinsOf(M, S, H), t, h) = [coins |-> [f.coins EXCEPT ![t] = FromTx(t, h)], undo |-> f.undo]
  BY <1>5, <1>6
<1>8. f.undo = TxUndo(t, M, S, H)
  <2>1. f.undo = [j \in 1 .. n |-> f.undo[j]]
    BY <1>5
  <2> QED BY <1>5, <2>1 DEF TxUndo
<1> DEFINE G == [H EXCEPT ![t] = h]
           T == S \cup ToSet(In[t])
<1>9. [f.coins EXCEPT ![t] = FromTx(t, h)] = CoinsOf(M \cup {t}, T, G)
  <2>1. \A u \in Txs : u # t => CoinOf(u, M \cup {t}, T, G) = CoinOf(u, M, T, H)
    BY DEF CoinOf
  <2>2. CoinOf(t, M \cup {t}, T, G) = FromTx(t, h)
    <3>1. \A j \in 1 .. n : In[t][j][1] # t
      BY DEF Available
    <3>2. \A o \in T : o[1] # t
      BY <1>n, <3>1 DEF ToSet
    <3>3. Left(t, T) = Out[t] /\ Out[t] # {}
      <4> HIDE DEF T
      <4>1. \A m \in Out[t] : <<t, m>> \notin T
        BY <3>2
      <4> QED BY <4>1, TxsAssumption DEF Left
    <3>4. G[t] = h
      OBVIOUS
    <3> HIDE DEF G, T
    <3> QED BY <3>3, <3>4 DEF CoinOf, FromTx, Coin
  <2> HIDE DEF G, CoinOf, FromTx, T
  <2>3. f.coins = CoinsOf(M, T, H)
    BY <1>5 DEF T
  <2> QED BY <2>1, <2>2, <2>3 DEF CoinsOf
<1> QED BY <1>5, <1>7, <1>8, <1>9

-----------------------------------------------------------------------------
(* The inputs loop of DisconnectBlock takes that back.                     *)

\* The inputs of a transaction, one by one.
LEMMA InFirst ==
  ASSUME NEW t \in Txs, NEW i \in 1 .. Len(In[t])
  PROVE  First(In[t], i) = First(In[t], i - 1) \cup {In[t][i]}
BY InIs, FirstIs

RestoreStep(ctx, a, j) == RestoreInput(a, In[ctx.tx][j], ctx.undos[j])
RestoreInv(ctx, i, a) ==
  /\ a.coins = CoinsOf(ctx.made, ctx.spent \cup First(In[ctx.tx], i - 1), ctx.heights)
  /\ a.clean = TRUE
Restoring == INSTANCE FoldTheorems WITH op <- RestoreStep, Inv <- RestoreInv

\* What some transaction spends
Spendable == UNION {ToSet(In[u]) : u \in Txs}

\* The coin of a coinstake is never used up.
LEMMA MarkerLeft ==
  ASSUME MarkersUnspent, NEW t \in Txs, NEW j \in 1 .. Len(In[t]), NEW S, S \subseteq Spendable,
         In[t][j][1] \in Stakes
  PROVE  Left(In[t][j][1], S) # {In[t][j][2]}
<1> DEFINE u == In[t][j][1]
<1>1. PICK n \in Out[u] : \A v \in Txs : <<u, n>> \notin ToSet(In[v])
  BY DEF MarkersUnspent
<1>2. <<u, n>> \notin S
  BY <1>1 DEF Spendable
<1>3. <<u, In[t][j][2]>> \in ToSet(In[t])
  BY InIs DEF ToSet
<1>4. n # In[t][j][2]
  BY <1>1, <1>3
<1> QED BY <1>2, <1>4 DEF Left

\* The loop of DisconnectBlock over the inputs undoes UpdateCoins.
LEMMA RestoreOk ==
  ASSUME MarkersUnspent, NEW t \in Txs, NEW M, NEW S, NEW H \in [Txs -> Nat],
         Available(t, M, S), S \subseteq Spendable, \A u \in M \cap Txs : H[u] # 0,
         NEW acc, acc.coins = CoinsOf(M, S \cup ToSet(In[t]), H), acc.clean = TRUE
  PROVE  LET r == RestoreInputs(acc, t, TxUndo(t, M, S, H))
         IN  r.coins = CoinsOf(M, S, H) /\ r.clean = TRUE
<1> DEFINE us == TxUndo(t, M, S, H)
           ctx == [made |-> M, spent |-> S, heights |-> H, tx |-> t, undos |-> us]
           n == Len(In[t])
           s == [i \in DOMAIN us |-> i]
           f == Restoring!RightFold(ctx, acc, s)
<1>n. n \in Nat /\ DOMAIN In[t] = 1 .. n
  BY InIs
<1>s. DOMAIN s = 1 .. n /\ \A i \in 1 .. n : s[i] = i
  BY DEF TxUndo
<1>1. RestoreInv(ctx, n + 1, acc)
  <2>1. First(In[t], n) = ToSet(In[t]) /\ n + 1 - 1 = n
    BY <1>n, FirstIs
  <2>2. CoinsOf(ctx.made, ctx.spent \cup First(In[ctx.tx], n + 1 - 1), ctx.heights) = acc.coins
    BY <2>1
  <2> QED BY <2>2 DEF RestoreInv
<1>2. ASSUME NEW i \in 1 .. n, NEW a, RestoreInv(ctx, i + 1, a)
      PROVE  RestoreInv(ctx, i, RestoreStep(ctx, a, s[i]))
  <2> DEFINE T == S \cup First(In[t], i - 1)
             u == In[t][i][1]
             k == In[t][i][2]
             r == RestoreInput(a, <<u, k>>, UndoOf(CoinOf(u, M, T, H), k))
  <2>1. a.coins = CoinsOf(M, S \cup First(In[t], i + 1 - 1), H) /\ a.clean = TRUE
    BY <1>2 DEF RestoreInv
  <2>2. u \in Txs /\ u \in M /\ k \in Left(u, T) /\ In[t][i] = <<u, k>>
    BY StillLeft, InIs DEF Available
  <2>3. T \cup {<<u, k>>} = S \cup First(In[t], i + 1 - 1)
    <3>1. First(In[t], i) = First(In[t], i - 1) \cup {In[t][i]}
      BY InFirst
    <3>2. i + 1 - 1 = i
      OBVIOUS
    <3> QED BY <2>2, <3>1, <3>2
  <2>4. T \subseteq Spendable
    <3>1. \A j \in 1 .. i - 1 : In[t][j] \in ToSet(In[t])
      BY <1>n DEF ToSet
    <3> QED BY <3>1 DEF First, Spendable
  <2>5. u \in Stakes => Left(u, T) # {k}
    BY <2>4, MarkerLeft
  <2>6. us[i] = UndoOf(CoinOf(u, M, T, H), k)
    BY DEF TxUndo, InputUndo
  <2>7. RestoreStep(ctx, a, s[i]) = r
    <3>1. ctx.tx = t /\ ctx.undos = us /\ s[i] = i
      BY <1>s
    <3> HIDE DEF ctx, us, s, T, u, k
    <3> QED BY <2>2, <2>6, <3>1 DEF RestoreStep
  <2>8. a.coins = CoinsOf(M, T \cup {<<u, k>>}, H)
    BY <2>1, <2>3
  <2>9. H[u] # 0
    BY <2>2
  <2>10. r.coins = CoinsOf(M, T, H) /\ r.clean = TRUE
    <3> HIDE DEF T, u, k
    <3> QED BY <2>1, <2>2, <2>5, <2>8, <2>9, RestoreOne
  <2> HIDE DEF r
  <2>11. RestoreInv(ctx, i, r)
    BY <2>10 DEF RestoreInv
  <2> QED BY <2>7, <2>11
<1>3. RestoreInv(ctx, 1, f)
  <2> HIDE DEF ctx, n, s
  <2> QED BY <1>n, <1>s, <1>1, <1>2, Restoring!FoldRightInduction
<1>4. RestoreInputs(acc, t, us) = f
  <2> HIDE DEF us
  <2> QED BY DEF RestoreInputs, FoldRightDomain, Restoring!RightFold, RestoreStep, FoldRight, MapThenFoldSet, Min,
         Restoring!FoldRight, Restoring!MapThenFoldSet, Restoring!Min
<1> HIDE DEF f
<1>5. First(In[t], 1 - 1) = {} /\ S \cup {} = S
  BY DEF First
<1>6. f.coins = CoinsOf(M, S, H) /\ f.clean = TRUE
  BY <1>3, <1>5 DEF RestoreInv
<1> QED BY <1>4, <1>6

\* DisconnectBlock finds the outputs of a transaction as they were made, and takes
\* back what it did.
LEMMA UndoTxOk ==
  ASSUME MarkersUnspent, NEW t \in Txs, NEW M, NEW S, NEW H \in [Txs -> Nat], NEW h \in Nat,
         Available(t, M, S), S \subseteq Spendable, \A u \in M \cap Txs : H[u] # 0,
         t \notin M, \A o \in S : o[1] # t,
         NEW acc, acc.clean = TRUE,
         acc.coins = CoinsOf(M \cup {t}, S \cup ToSet(In[t]), [H EXCEPT ![t] = h])
  PROVE  LET r == UndoTx(acc, t, h, TxUndo(t, M, S, H))
         IN  r.coins = CoinsOf(M, S, H) /\ r.clean = TRUE
<1> DEFINE T == S \cup ToSet(In[t])
           G == [H EXCEPT ![t] = h]
           acc2 == [coins |-> [acc.coins EXCEPT ![t] = Pruned],
                    clean |-> acc.clean /\ acc.coins[t] = FromTx(t, h)]
<1>1. \A o \in T : o[1] # t
  <2>1. \A j \in 1 .. Len(In[t]) : In[t][j][1] # t
    BY DEF Available
  <2> QED BY <2>1, InIs DEF ToSet
<1>2. Left(t, T) = Out[t] /\ Out[t] # {}
  <2> HIDE DEF T
  <2>1. \A n \in Out[t] : <<t, n>> \notin T
    BY <1>1
  <2> QED BY <2>1, TxsAssumption DEF Left
<1>3. CoinOf(t, M \cup {t}, T, G) = FromTx(t, h)
  <2>1. G[t] = h
    OBVIOUS
  <2> HIDE DEF G, T
  <2> QED BY <1>2, <2>1 DEF CoinOf, FromTx, Coin
<1>4. \A u \in Txs : u # t => CoinOf(u, M \cup {t}, T, G) = CoinOf(u, M, T, H)
  BY DEF CoinOf
<1>5. CoinOf(t, M, T, H) = Pruned
  BY DEF CoinOf
<1>6. acc.coins = CoinsOf(M \cup {t}, T, G)
  OBVIOUS
<1> HIDE DEF T, G
<1>7. acc2.coins = CoinsOf(M, T, H)
  <2> HIDE DEF CoinOf, FromTx, Pruned
  <2> QED BY <1>4, <1>5, <1>6 DEF CoinsOf
<1>8. acc2.clean = TRUE
  <2>1. acc.coins[t] = FromTx(t, h)
    BY <1>3, <1>6 DEF CoinsOf
  <2> QED BY <2>1
<1> HIDE DEF acc2
<1>9. LET r == RestoreInputs(acc2, t, TxUndo(t, M, S, H))
      IN  r.coins = CoinsOf(M, S, H) /\ r.clean = TRUE
  BY <1>7, <1>8, RestoreOk DEF T
<1> QED BY <1>9 DEF UndoTx, acc2

-----------------------------------------------------------------------------
(* Blocks, transaction by transaction.                                     *)

\* The transactions made, the outputs spent and the heights after the first i
\* transactions of b, on top of M, S and H
MadeUpTo(b, M, i) == M \cup First(Contents[b], i)
SpentUpTo(b, S, i) == S \cup UNION {ToSet(In[Contents[b][j]]) : j \in 1 .. i}
HeightsUpTo(b, H, i) == [t \in Txs |-> IF t \in First(Contents[b], i) THEN Height(b) ELSE H[t]]
\* The transaction i of b is new and its inputs are there
Fits(b, M, S, i) ==
  /\ Contents[b][i] \notin MadeUpTo(b, M, i - 1)
  /\ Available(Contents[b][i], MadeUpTo(b, M, i - 1), SpentUpTo(b, S, i - 1))
UndoAt(b, M, S, H, i) ==
  TxUndo(Contents[b][i], MadeUpTo(b, M, i - 1), SpentUpTo(b, S, i - 1), HeightsUpTo(b, H, i - 1))
\* What was spent was made, and what was made has spent its inputs
Ledgerly(M, S) ==
  /\ M \subseteq Txs /\ S \subseteq Spendable
  /\ \A o \in S : o[1] \in M
  /\ \A t \in M : ToSet(In[t]) \subseteq S

\* The transactions of a block.
LEMMA VtxIs ==
  ASSUME NEW b \in Blocks
  PROVE  /\ Len(Contents[b]) \in Nat /\ DOMAIN Contents[b] = 1 .. Len(Contents[b])
         /\ \A i \in 1 .. Len(Contents[b]) : Contents[b][i] \in Txs
         /\ First(Contents[b], Len(Contents[b])) = TxsOf(b)
         /\ First(Contents[b], 0) = {}
         /\ \A t \in TxsOf(b) : \E i \in 1 .. Len(Contents[b]) : t = Contents[b][i]
<1>1. Contents[b] \in Seq(Txs)
  BY BlocksAssumption
<1>2. /\ Len(Contents[b]) \in Nat /\ DOMAIN Contents[b] = 1 .. Len(Contents[b])
      /\ \A i \in 1 .. Len(Contents[b]) : Contents[b][i] \in Txs
  BY <1>1
<1>3. First(Contents[b], Len(Contents[b])) = TxsOf(b) /\ First(Contents[b], 0) = {}
  BY <1>2, FirstIs DEF TxsOf
<1>4. \A t \in TxsOf(b) : \E i \in 1 .. Len(Contents[b]) : t = Contents[b][i]
  BY <1>2 DEF TxsOf, ToSet
<1> QED BY <1>2, <1>3, <1>4

\* One transaction more is made ...
LEMMA MadeStep ==
  ASSUME NEW b \in Blocks, NEW M, NEW i \in 1 .. Len(Contents[b])
  PROVE  MadeUpTo(b, M, i) = MadeUpTo(b, M, i - 1) \cup {Contents[b][i]}
<1>1. First(Contents[b], i) = First(Contents[b], i - 1) \cup {Contents[b][i]}
  BY VtxIs, FirstIs
<1> QED BY <1>1 DEF MadeUpTo

\* ... its inputs are spent ...
LEMMA SpentStep ==
  ASSUME NEW b \in Blocks, NEW S, NEW i \in 1 .. Len(Contents[b])
  PROVE  SpentUpTo(b, S, i) = SpentUpTo(b, S, i - 1) \cup ToSet(In[Contents[b][i]])
<1>1. 1 .. i = (1 .. i - 1) \cup {i}
  BY VtxIs
<1> QED BY <1>1 DEF SpentUpTo

\* ... and its height is that of the block.
LEMMA HeightsStep ==
  ASSUME NEW b \in Blocks, NEW H, NEW i \in 1 .. Len(Contents[b])
  PROVE  HeightsUpTo(b, H, i) = [HeightsUpTo(b, H, i - 1) EXCEPT ![Contents[b][i]] = Height(b)]
<1> DEFINE t == Contents[b][i]
<1>1. First(Contents[b], i) = First(Contents[b], i - 1) \cup {t} /\ t \in Txs
  BY VtxIs, FirstIs
<1>2. HeightsUpTo(b, H, i) = [HeightsUpTo(b, H, i - 1) EXCEPT ![t] = Height(b)]
  <2> HIDE DEF t
  <2> QED BY <1>1 DEF HeightsUpTo
<1> QED BY <1>2

\* No transaction yet.
LEMMA UpToNone ==
  ASSUME NEW b \in Blocks, NEW M, NEW S, NEW H \in [Txs -> Nat]
  PROVE  /\ MadeUpTo(b, M, 0) = M
         /\ SpentUpTo(b, S, 0) = S
         /\ HeightsUpTo(b, H, 0) = H
<1>1. MadeUpTo(b, M, 0) = M
  BY VtxIs DEF MadeUpTo
<1>2. SpentUpTo(b, S, 0) = S
  BY DEF SpentUpTo
<1>3. HeightsUpTo(b, H, 0) = H
  BY VtxIs DEF HeightsUpTo
<1> QED BY <1>1, <1>2, <1>3

\* Heights stay natural numbers.
LEMMA HeightsTyped ==
  ASSUME NEW b \in Blocks, NEW H \in [Txs -> Nat], NEW i
  PROVE  HeightsUpTo(b, H, i) \in [Txs -> Nat]
BY HeightOk DEF HeightsUpTo

\* The ledger stays one, transaction by transaction.
LEMMA PrefixLedgerly ==
  ASSUME NEW b \in Blocks, NEW M, NEW S, Ledgerly(M, S), NEW i \in 0 .. Len(Contents[b]),
         \A j \in 1 .. i : Fits(b, M, S, j)
  PROVE  Ledgerly(MadeUpTo(b, M, i), SpentUpTo(b, S, i))
<1> DEFINE n == Len(Contents[b])
<1>0. n \in Nat /\ \A j \in 1 .. i : j \in 1 .. n /\ Contents[b][j] \in Txs
  BY VtxIs
<1>1. \A x \in First(Contents[b], i) : \E j \in 1 .. i : x = Contents[b][j]
  BY DEF First
<1>2. MadeUpTo(b, M, i) \subseteq Txs
  BY <1>0, <1>1 DEF MadeUpTo, Ledgerly
<1>3. SpentUpTo(b, S, i) \subseteq Spendable
  BY <1>0 DEF SpentUpTo, Ledgerly, Spendable
<1>4. ASSUME NEW o \in SpentUpTo(b, S, i) PROVE o[1] \in MadeUpTo(b, M, i)
  <2>1. CASE o \in S
    BY <2>1 DEF Ledgerly, MadeUpTo
  <2>2. ASSUME NEW j \in 1 .. i, o \in ToSet(In[Contents[b][j]]) PROVE o[1] \in MadeUpTo(b, M, i)
    <3>1. PICK k \in 1 .. Len(In[Contents[b][j]]) : o = In[Contents[b][j]][k]
      BY <1>0, <2>2, InIs DEF ToSet
    <3>2. o[1] \in MadeUpTo(b, M, j - 1)
      BY <3>1 DEF Fits, Available
    <3>3. First(Contents[b], j - 1) \subseteq First(Contents[b], i)
      BY DEF First
    <3> QED BY <3>2, <3>3 DEF MadeUpTo
  <2> QED BY <2>1, <2>2 DEF SpentUpTo
<1>5. ASSUME NEW t \in MadeUpTo(b, M, i) PROVE ToSet(In[t]) \subseteq SpentUpTo(b, S, i)
  BY <1>1 DEF MadeUpTo, SpentUpTo, Ledgerly
<1> QED BY <1>2, <1>3, <1>4, <1>5 DEF Ledgerly

\* HaveInputs sees what was made and is left.
LEMMA InputsThere ==
  ASSUME NEW t \in Txs, NEW M, NEW S, NEW H, NEW h, InputsOk(t, CoinsOf(M, S, H), h)
  PROVE  Available(t, M, S)
<1> SUFFICES ASSUME NEW j \in 1 .. Len(In[t])
             PROVE  In[t][j][1] \in M /\ In[t][j][2] \in Left(In[t][j][1], S)
  BY DEF Available
<1> DEFINE u == In[t][j][1]
<1>1. u \in Txs /\ j \in DOMAIN In[t]
  BY InIs
<1>2. In[t][j][2] \in CoinsOf(M, S, H)[u].outs
  BY <1>1 DEF InputsOk
<1>3. CoinsOf(M, S, H)[u] = CoinOf(u, M, S, H)
  BY <1>1 DEF CoinsOf
<1>4. In[t][j][2] \in CoinOf(u, M, S, H).outs
  BY <1>2, <1>3
<1> HIDE DEF u
<1>5. u \in M /\ In[t][j][2] \in Left(u, S)
  BY <1>4 DEF CoinOf, Pruned, Coin
<1> QED BY <1>5 DEF u

\* A transaction whose inputs are there is new: one that was made before has spent them,
\* and no block holds twice what has no inputs.
LEMMA NewTx ==
  ASSUME NEW b \in Blocks, NEW M, NEW S, Ledgerly(M, S), NEW i \in 1 .. Len(Contents[b]),
         \A j \in 1 .. i - 1 : Fits(b, M, S, j),
         In[Contents[b][i]] = <<>> => Contents[b][i] \notin M,
         Available(Contents[b][i], MadeUpTo(b, M, i - 1), SpentUpTo(b, S, i - 1))
  PROVE  Fits(b, M, S, i)
<1> DEFINE t == Contents[b][i]
<1>0. t \in Txs /\ i - 1 \in 0 .. Len(Contents[b])
  BY VtxIs
<1>1. Ledgerly(MadeUpTo(b, M, i - 1), SpentUpTo(b, S, i - 1))
  BY <1>0, PrefixLedgerly
<1>2. CASE In[t] # <<>>
  <2>1. 1 \in 1 .. Len(In[t])
    <3>1. In[t] \in Seq(Outpoints)
      BY <1>0, TxsAssumption
    <3> QED BY <1>2, <3>1
  <2>2. In[t][1] \in ToSet(In[t]) /\ In[t][1] = <<In[t][1][1], In[t][1][2]>>
    BY <1>0, <2>1, InIs DEF ToSet
  <2>3. In[t][1] \notin SpentUpTo(b, S, i - 1)
    BY <2>1, <2>2 DEF Available, Left
  <2>4. t \notin MadeUpTo(b, M, i - 1)
    BY <1>1, <2>2, <2>3 DEF Ledgerly
  <2> QED BY <2>4 DEF Fits
<1>3. CASE In[t] = <<>>
  <2>1. \A j \in 1 .. i - 1 : Contents[b][j] # t
    <3> SUFFICES ASSUME NEW j \in 1 .. i - 1, Contents[b][j] = t PROVE FALSE
      OBVIOUS
    <3>1. i \in DOMAIN Contents[b] /\ j \in DOMAIN Contents[b] /\ i # j
      BY VtxIs
    <3>2. Serial[t] \cap Serial[t] = {} /\ ~({t, t} \subseteq Base)
      BY <3>1, BlocksAssumption
    <3> QED BY <1>0, <1>3, <3>2, TxsAssumption
  <2>2. t \notin MadeUpTo(b, M, i - 1)
    BY <1>3, <2>1 DEF MadeUpTo, First
  <2> QED BY <2>2 DEF Fits
<1> QED BY <1>2, <1>3

-----------------------------------------------------------------------------
(* ConnectBlock and DisconnectBlock on such coins.                         *)

ApplyStep(ctx, a, t) == ApplyTx(a, t, Height(ctx.block))
ApplyInv(ctx, i, a) ==
  a.ok =>
    /\ a.coins = CoinsOf(MadeUpTo(ctx.block, ctx.made, i), SpentUpTo(ctx.block, ctx.spent, i),
                         HeightsUpTo(ctx.block, ctx.heights, i))
    /\ a.undo \in Seq(Seq(Undos)) /\ Len(a.undo) = i
    /\ \A j \in 1 .. i : a.undo[j] = UndoAt(ctx.block, ctx.made, ctx.spent, ctx.heights, j)
    /\ \A j \in 1 .. i : Fits(ctx.block, ctx.made, ctx.spent, j)
Applying == INSTANCE FoldTheorems WITH op <- ApplyStep, Inv <- ApplyInv

\* A block that is valid, with no coinbase and no zerocoin spend of the chain, makes
\* of the coins what its transactions say.
LEMMA ApplyOk ==
  ASSUME NEW b \in Blocks, NEW M, NEW S, Ledgerly(M, S), NEW H \in [Txs -> Nat],
         \A t \in TxsOf(b) : In[t] = <<>> => t \notin M,
         ApplyBlock(b, CoinsOf(M, S, H)).ok
  PROVE  LET r == ApplyBlock(b, CoinsOf(M, S, H))
             n == Len(Contents[b])
         IN  /\ r.coins = CoinsOf(MadeUpTo(b, M, n), SpentUpTo(b, S, n), HeightsUpTo(b, H, n))
             /\ r.undo \in Seq(Seq(Undos)) /\ Len(r.undo) = n
             /\ \A j \in 1 .. n : r.undo[j] = UndoAt(b, M, S, H, j)
             /\ \A j \in 1 .. n : Fits(b, M, S, j)
<1> DEFINE ctx == [block |-> b, made |-> M, spent |-> S, heights |-> H]
           base == [coins |-> CoinsOf(M, S, H), undo |-> <<>>, ok |-> TRUE]
           vtx == Contents[b]
           n == Len(vtx)
           f == Applying!LeftFold(ctx, base, vtx)
<1>n. n \in Nat /\ DOMAIN vtx = 1 .. n
  BY VtxIs
<1>1. ApplyInv(ctx, 0, base)
  <2>1. <<>> \in Seq(Seq(Undos)) /\ Len(<<>>) = 0
    OBVIOUS
  <2> QED BY <2>1, UpToNone DEF ApplyInv
<1>2. ASSUME NEW i \in 1 .. n, NEW a, ApplyInv(ctx, i - 1, a)
      PROVE  ApplyInv(ctx, i, ApplyStep(ctx, a, vtx[i]))
  <2> DEFINE t == vtx[i]
             h == Height(b)
             MM == MadeUpTo(b, M, i - 1)
             SS == SpentUpTo(b, S, i - 1)
             HH == HeightsUpTo(b, H, i - 1)
             u == UpdateCoins(CoinsOf(MM, SS, HH), t, h)
             r == ApplyTx(a, t, h)
  <2> SUFFICES ASSUME r.ok PROVE ApplyInv(ctx, i, r)
    BY DEF ApplyStep, ApplyInv
  <2>1. a.ok /\ InputsOk(t, a.coins, h)
    BY DEF ApplyTx
  <2>2. /\ a.coins = CoinsOf(MM, SS, HH)
        /\ a.undo \in Seq(Seq(Undos)) /\ Len(a.undo) = i - 1
        /\ \A j \in 1 .. i - 1 : a.undo[j] = UndoAt(b, M, S, H, j)
        /\ \A j \in 1 .. i - 1 : Fits(b, M, S, j)
    BY <1>2, <2>1 DEF ApplyInv
  <2>3. t \in Txs /\ t \in TxsOf(b) /\ h \in Nat /\ HH \in [Txs -> Nat] /\ i - 1 \in 0 .. n
    <3>1. t \in Txs /\ t \in TxsOf(b)
      BY VtxIs DEF TxsOf, ToSet
    <3>2. i - 1 \in 0 .. n
      BY <1>n
    <3> QED BY <3>1, <3>2, HeightOk, HeightsTyped
  <2>4. Available(t, MM, SS)
    <3> HIDE DEF MM, SS, HH
    <3> QED BY <2>1, <2>2, <2>3, InputsThere
  <2>5. Fits(b, M, S, i)
    BY <2>2, <2>3, <2>4, NewTx
  <2>6. t \notin MM /\ \A o \in SS : o[1] # t
    <3>1. t \notin MM
      BY <2>5 DEF Fits
    <3>2. Ledgerly(MM, SS)
      BY <2>2, <2>3, PrefixLedgerly
    <3> QED BY <3>1, <3>2 DEF Ledgerly
  <2>7. /\ u.coins = CoinsOf(MM \cup {t}, SS \cup ToSet(In[t]), [HH EXCEPT ![t] = h])
        /\ u.undo = TxUndo(t, MM, SS, HH) /\ u.undo \in Seq(Undos)
    <3> HIDE DEF MM, SS, HH, t, h
    <3> QED BY <2>3, <2>4, <2>6, UpdateOk
  <2>8. r.coins = u.coins /\ r.undo = Append(a.undo, u.undo)
    BY <2>2 DEF ApplyTx
  <2>9. r.coins = CoinsOf(MadeUpTo(b, M, i), SpentUpTo(b, S, i), HeightsUpTo(b, H, i))
    <3>1. /\ MadeUpTo(b, M, i) = MM \cup {t}
          /\ SpentUpTo(b, S, i) = SS \cup ToSet(In[t])
          /\ HeightsUpTo(b, H, i) = [HH EXCEPT ![t] = h]
      BY MadeStep, SpentStep, HeightsStep
    <3> HIDE DEF MM, SS, HH, t, h, u, r
    <3> QED BY <2>7, <2>8, <3>1
  <2>10. u.undo = UndoAt(b, M, S, H, i)
    BY <2>7 DEF UndoAt
  <2> HIDE DEF u, r, t, MM, SS, HH, h
  <2>11. r.undo \in Seq(Seq(Undos)) /\ Len(r.undo) = i
    BY <2>2, <2>7, <2>8
  <2>12. ASSUME NEW j \in 1 .. i PROVE r.undo[j] = UndoAt(b, M, S, H, j) /\ Fits(b, M, S, j)
    <3>1. CASE j = i
      BY <2>2, <2>5, <2>7, <2>8, <2>10, <3>1
    <3>2. CASE j \in 1 .. i - 1
      BY <2>2, <2>7, <2>8, <3>2
    <3> QED BY <3>1, <3>2
  <2> QED BY <2>9, <2>11, <2>12 DEF ApplyInv
<1>3. ApplyInv(ctx, n, f)
  <2> HIDE DEF ctx, base, n
  <2> QED BY <1>n, <1>1, <1>2, Applying!FoldLeftInduction
<1>4. ApplyBlock(b, CoinsOf(M, S, H)) = f
  BY DEF ApplyBlock, Applying!LeftFold, ApplyStep, FoldLeft, MapThenFoldSet, Max, Applying!FoldLeft,
         Applying!MapThenFoldSet, Applying!Max
<1> HIDE DEF f
<1>5. f.ok
  BY <1>4
<1> QED BY <1>3, <1>4, <1>5 DEF ApplyInv

UndoStep(ctx, a, i) == UndoTx(a, Contents[ctx.block][i], Height(ctx.block), ctx.undos[i])
UndoInv(ctx, i, a) ==
  /\ a.coins = CoinsOf(MadeUpTo(ctx.block, ctx.made, i - 1), SpentUpTo(ctx.block, ctx.spent, i - 1),
                       HeightsUpTo(ctx.block, ctx.heights, i - 1))
  /\ a.clean = TRUE
Undoing == INSTANCE FoldTheorems WITH op <- UndoStep, Inv <- UndoInv

\* DisconnectBlock takes back what ConnectBlock did, and finds nothing wrong.
LEMMA UndoBlockOk ==
  ASSUME MarkersUnspent, NEW b \in Blocks, b # Genesis, NEW M, NEW S, Ledgerly(M, S),
         NEW H \in [Txs -> Nat], \A u \in M : H[u] # 0,
         \A j \in 1 .. Len(Contents[b]) : Fits(b, M, S, j),
         \A j \in 1 .. Len(Contents[b]) : undo[b][j] = UndoAt(b, M, S, H, j),
         NEW c, c = CoinsOf(MadeUpTo(b, M, Len(Contents[b])), SpentUpTo(b, S, Len(Contents[b])),
                            HeightsUpTo(b, H, Len(Contents[b])))
  PROVE  LET r == UndoBlock(b, c)
         IN  r.coins = CoinsOf(M, S, H) /\ r.clean = TRUE
<1> DEFINE ctx == [block |-> b, made |-> M, spent |-> S, heights |-> H, undos |-> undo[b]]
           base == [coins |-> c, clean |-> TRUE]
           vtx == Contents[b]
           n == Len(vtx)
           s == [i \in DOMAIN vtx |-> i]
           f == Undoing!RightFold(ctx, base, s)
<1>n. n \in Nat /\ DOMAIN s = 1 .. n /\ \A i \in 1 .. n : s[i] = i
  BY VtxIs
<1>1. UndoInv(ctx, n + 1, base)
  <2>1. n + 1 - 1 = n
    BY <1>n
  <2>2. base.coins = CoinsOf(MadeUpTo(b, M, n + 1 - 1), SpentUpTo(b, S, n + 1 - 1), HeightsUpTo(b, H, n + 1 - 1))
    BY <2>1
  <2> QED BY <2>2 DEF UndoInv
<1>2. ASSUME NEW i \in 1 .. n, NEW a, UndoInv(ctx, i + 1, a)
      PROVE  UndoInv(ctx, i, UndoStep(ctx, a, s[i]))
  <2> DEFINE t == vtx[i]
             h == Height(b)
             MM == MadeUpTo(b, M, i - 1)
             SS == SpentUpTo(b, S, i - 1)
             HH == HeightsUpTo(b, H, i - 1)
             r == UndoTx(a, t, h, TxUndo(t, MM, SS, HH))
  <2>1. /\ a.coins = CoinsOf(MadeUpTo(b, M, i + 1 - 1), SpentUpTo(b, S, i + 1 - 1), HeightsUpTo(b, H, i + 1 - 1))
        /\ a.clean = TRUE
    BY <1>2 DEF UndoInv
  <2>2. i + 1 - 1 = i
    OBVIOUS
  <2>3. a.coins = CoinsOf(MM \cup {t}, SS \cup ToSet(In[t]), [HH EXCEPT ![t] = h])
    <3>1. /\ MadeUpTo(b, M, i) = MM \cup {t}
          /\ SpentUpTo(b, S, i) = SS \cup ToSet(In[t])
          /\ HeightsUpTo(b, H, i) = [HH EXCEPT ![t] = h]
      BY MadeStep, SpentStep, HeightsStep
    <3> HIDE DEF MM, SS, HH, t, h
    <3> QED BY <2>1, <2>2, <3>1
  <2>4. t \in Txs /\ h \in Nat /\ HH \in [Txs -> Nat] /\ i - 1 \in 0 .. n
    BY <1>n, VtxIs, HeightOk, HeightsTyped
  <2>5. t \notin MM /\ Available(t, MM, SS)
    BY DEF Fits
  <2>6. Ledgerly(MM, SS)
    <3>1. \A j \in 1 .. i - 1 : Fits(b, M, S, j)
      BY <1>n
    <3> QED BY <2>4, <3>1, PrefixLedgerly
  <2>7. SS \subseteq Spendable /\ \A o \in SS : o[1] # t
    BY <2>5, <2>6 DEF Ledgerly
  <2>8. \A u \in MM \cap Txs : HH[u] # 0
    <3>1. h # 0
      BY HeightIs, HeightOk, TreeAssumption
    <3> QED BY <3>1 DEF MadeUpTo, HeightsUpTo
  <2>9. undo[b][i] = TxUndo(t, MM, SS, HH)
    BY DEF UndoAt
  <2>10. UndoStep(ctx, a, s[i]) = r
    <3>1. s[i] = i /\ ctx.block = b /\ ctx.undos = undo[b]
      BY <1>n
    <3> HIDE DEF ctx, s, MM, SS, HH, h
    <3> QED BY <2>9, <3>1 DEF UndoStep, h
  <2>11. r.coins = CoinsOf(MM, SS, HH) /\ r.clean = TRUE
    <3> HIDE DEF t, h, MM, SS, HH
    <3> QED BY <2>1, <2>3, <2>4, <2>5, <2>7, <2>8, UndoTxOk
  <2> HIDE DEF r
  <2>12. UndoInv(ctx, i, r)
    BY <2>11 DEF UndoInv
  <2> QED BY <2>10, <2>12
<1>3. UndoInv(ctx, 1, f)
  <2> HIDE DEF ctx, base, n, s
  <2> QED BY <1>n, <1>1, <1>2, Undoing!FoldRightInduction
<1>4. UndoBlock(b, c) = f
  BY DEF UndoBlock, FoldRightDomain, Undoing!RightFold, UndoStep, FoldRight, MapThenFoldSet, Min,
         Undoing!FoldRight, Undoing!MapThenFoldSet, Undoing!Min
<1> HIDE DEF f
<1>5. CoinsOf(MadeUpTo(b, M, 1 - 1), SpentUpTo(b, S, 1 - 1), HeightsUpTo(b, H, 1 - 1)) = CoinsOf(M, S, H)
  BY UpToNone
<1>6. f.coins = CoinsOf(M, S, H) /\ f.clean = TRUE
  BY <1>3, <1>5 DEF UndoInv
<1> QED BY <1>4, <1>6

-----------------------------------------------------------------------------
(* The ledger of a chain is such coins.                                    *)

SpentIn(b) == UNION {SpentBy(c) : c \in Path[b]}
HeightsIn(b) ==
  [t \in Txs |-> IF t \in ChainTxs(b) THEN Height(CHOOSE c \in Path[b] : t \in TxsOf(c)) ELSE 0]

\* What ConnectBlock writes for b
UndoFor(b) == ApplyBlock(b, LedgerOf(Prev[b])).undo
\* The transactions of b are valid on top of its parent, and new
Connects(b) ==
  /\ ApplyBlock(b, LedgerOf(Prev[b])).ok
  /\ TxsOf(b) \cap ChainTxs(Prev[b]) = {}
Good(b) == b \in Blocks /\ \A c \in Path[b] : Connects(c)

\* The chain of the genesis block is good, and so is every part of a good chain.
LEMMA GoodPart ==
  /\ Good(Genesis)
  /\ \A b : Good(b) => \A c \in Path[b] : Good(c) /\ Good(Prev[c]) /\ Connects(c)
  /\ \A b \in Blocks \ {Genesis} : Good(Prev[b]) /\ Connects(b) => Good(b)
<1>1. Good(Genesis)
  BY PathGenesis, TreeAssumption DEF Good
<1>2. ASSUME NEW b, Good(b), NEW c \in Path[b] PROVE Good(c) /\ Good(Prev[c]) /\ Connects(c)
  <2>1. b \in Blocks /\ c \in Blocks \ {Genesis} /\ Prev[c] \in Blocks /\ Path[c] \subseteq Path[b]
    BY <1>2, PathPart DEF Good
  <2>2. Path[Prev[c]] \subseteq Path[c]
    BY <2>1, PathIs
  <2> QED BY <1>2, <2>1, <2>2 DEF Good
<1>3. ASSUME NEW b \in Blocks \ {Genesis}, Good(Prev[b]), Connects(b) PROVE Good(b)
  BY <1>3, PathIs DEF Good
<1> QED BY <1>1, <1>2, <1>3

\* The transactions of a chain are those of its parent and of its last block.
LEMMA ChainStep ==
  ASSUME NEW b \in Blocks \ {Genesis}
  PROVE  /\ ChainTxs(b) = ChainTxs(Prev[b]) \cup TxsOf(b)
         /\ SpentIn(b) = SpentIn(Prev[b]) \cup SpentBy(b)
<1>1. Path[b] = Path[Prev[b]] \cup {b}
  BY PathIs
<1> QED BY <1>1 DEF ChainTxs, SpentIn

\* A block of a chain adds its transactions to it.
LEMMA InChain ==
  ASSUME NEW b \in Blocks, NEW c \in Path[b]
  PROVE  TxsOf(c) \subseteq ChainTxs(b) /\ SpentBy(c) \subseteq SpentIn(b)
BY DEF ChainTxs, SpentIn

\* In a good chain a transaction is in one block.
LEMMA OneHome ==
  ASSUME NEW b, Good(b), NEW c \in Path[b], NEW d \in Path[b], NEW t \in TxsOf(c), t \in TxsOf(d)
  PROVE  c = d
<1> DEFINE S == {x \in Blocks : Good(x) =>
                    \A y, z \in Path[x] : TxsOf(y) \cap TxsOf(z) # {} => y = z}
<1>1. Genesis \in S
  BY PathGenesis, TreeAssumption
<1>2. ASSUME NEW x \in Blocks \ {Genesis}, Prev[x] \in S PROVE x \in S
  <2> SUFFICES ASSUME Good(x), NEW y \in Path[x], NEW z \in Path[x], NEW u \in TxsOf(y), u \in TxsOf(z)
               PROVE  y = z
    OBVIOUS
  <2>1. Path[x] = Path[Prev[x]] \cup {x} /\ Prev[x] \in Blocks
    BY PathIs
  <2>2. Good(Prev[x]) /\ TxsOf(x) \cap ChainTxs(Prev[x]) = {}
    BY <2>1, GoodPart DEF Connects
  <2>3. \A w \in Path[Prev[x]] : TxsOf(w) \subseteq ChainTxs(Prev[x])
    BY <2>1, InChain
  <2> HIDE DEF S
  <2>4. \A v, w \in Path[Prev[x]] : TxsOf(v) \cap TxsOf(w) # {} => v = w
    BY <1>2, <2>2 DEF S
  <2> QED BY <2>1, <2>2, <2>3, <2>4
<1>3. S = Blocks
  <2>1. S \in SUBSET Blocks
    OBVIOUS
  <2> HIDE DEF S
  <2> QED BY <1>1, <1>2, <2>1, TreeInduction
<1>4. b \in S
  BY <1>3 DEF Good
<1> QED BY <1>4

\* The ledger of a chain in terms of what it makes and spends.
LEMMA LedgerOfIs ==
  ASSUME NEW b \in Blocks
  PROVE  LedgerOf(b) = CoinsOf(ChainTxs(b), SpentIn(b), HeightsIn(b))
<1>1. ASSUME NEW t \in Txs PROVE LedgerOf(b)[t] = CoinOf(t, ChainTxs(b), SpentIn(b), HeightsIn(b))
  <2>1. Unspent(b, t) = Left(t, SpentIn(b))
    BY DEF Unspent, Left, SpentIn
  <2> DEFINE c == CHOOSE c \in Path[b] : t \in TxsOf(c)
  <2>2. t \in ChainTxs(b) => HeightsIn(b)[t] = Height(c)
    BY DEF HeightsIn
  <2>3. LedgerOf(b)[t] = IF t \notin ChainTxs(b) \/ Unspent(b, t) = {} THEN Pruned
                         ELSE [FromTx(t, Height(c)) EXCEPT !.outs = Unspent(b, t)]
    BY DEF LedgerOf
  <2> HIDE DEF c
  <2>4. ASSUME NEW h, NEW o PROVE [FromTx(t, h) EXCEPT !.outs = o] = Coin(o, t \in Base, t \in Stakes, h)
    BY DEF FromTx, Coin
  <2>5. [FromTx(t, Height(c)) EXCEPT !.outs = Unspent(b, t)]
          = Coin(Unspent(b, t), t \in Base, t \in Stakes, Height(c))
    BY <2>4
  <2> QED BY <2>1, <2>2, <2>3, <2>5 DEF CoinOf
<1>2. LedgerOf(b) = [t \in Txs |-> LedgerOf(b)[t]]
  BY DEF LedgerOf
<1> HIDE DEF LedgerOf
<1> QED BY <1>1, <1>2 DEF CoinsOf

\* A block of b is where it was made, and the height is its own.
LEMMA HeightsAre ==
  ASSUME NEW b, Good(b)
  PROVE  /\ HeightsIn(b) \in [Txs -> Nat]
         /\ \A c \in Path[b] : \A t \in TxsOf(c) \cap Txs : HeightsIn(b)[t] = Height(c)
         /\ \A t \in ChainTxs(b) \cap Txs : HeightsIn(b)[t] # 0
<1>0. b \in Blocks
  BY DEF Good
<1>1. ASSUME NEW c \in Path[b], NEW t \in TxsOf(c), t \in Txs PROVE HeightsIn(b)[t] = Height(c)
  <2>1. t \in ChainTxs(b)
    BY <1>1 DEF ChainTxs
  <2>2. (CHOOSE d \in Path[b] : t \in TxsOf(d)) = c
    BY <1>1, OneHome
  <2> QED BY <1>1, <2>1, <2>2 DEF HeightsIn
<1>2. ASSUME NEW t \in Txs, t \in ChainTxs(b) PROVE HeightsIn(b)[t] \in Nat \ {0}
  <2>1. PICK c \in Path[b] : t \in TxsOf(c)
    BY <1>2 DEF ChainTxs
  <2>2. HeightsIn(b)[t] = Height(c)
    BY <1>1, <1>2, <2>1
  <2> QED BY <1>0, <2>2, PathPart
<1>3. ASSUME NEW t \in Txs PROVE HeightsIn(b)[t] \in Nat
  <2>1. CASE t \in ChainTxs(b)
    BY <1>2, <2>1
  <2>2. CASE t \notin ChainTxs(b)
    BY <2>2 DEF HeightsIn
  <2> QED BY <2>1, <2>2
<1>4. HeightsIn(b) = [t \in Txs |-> HeightsIn(b)[t]]
  BY DEF HeightsIn
<1>5. HeightsIn(b) \in [Txs -> Nat]
  <2> HIDE DEF HeightsIn
  <2> QED BY <1>3, <1>4
<1> QED BY <1>1, <1>2, <1>5

-----------------------------------------------------------------------------
(* ConnectBlock and DisconnectBlock on the ledger of a chain.              *)

\* After the last transaction of b, its chain is complete.
LEMMA UpToAll ==
  ASSUME NEW b \in Blocks \ {Genesis}
  PROVE  /\ MadeUpTo(b, ChainTxs(Prev[b]), Len(Contents[b])) = ChainTxs(b)
         /\ SpentUpTo(b, SpentIn(Prev[b]), Len(Contents[b])) = SpentIn(b)
<1>1. First(Contents[b], Len(Contents[b])) = TxsOf(b)
  BY VtxIs
<1>2. MadeUpTo(b, ChainTxs(Prev[b]), Len(Contents[b])) = ChainTxs(b)
  BY <1>1, ChainStep DEF MadeUpTo
<1>3. UNION {ToSet(In[Contents[b][j]]) : j \in 1 .. Len(Contents[b])} = SpentBy(b)
  <2>1. \A t \in TxsOf(b) : \E j \in 1 .. Len(Contents[b]) : t = Contents[b][j]
    BY VtxIs
  <2>2. \A j \in 1 .. Len(Contents[b]) : Contents[b][j] \in TxsOf(b)
    BY VtxIs DEF TxsOf, ToSet
  <2> QED BY <2>1, <2>2 DEF SpentBy
<1>4. SpentUpTo(b, SpentIn(Prev[b]), Len(Contents[b])) = SpentIn(b)
  BY <1>3, ChainStep DEF SpentUpTo
<1> QED BY <1>2, <1>4

\* Only the heights of what was made matter.
LEMMA SameCoins ==
  ASSUME NEW M, NEW S, NEW H, NEW G, \A t \in M \cap Txs : H[t] = G[t]
  PROVE  CoinsOf(M, S, H) = CoinsOf(M, S, G)
BY DEF CoinsOf, CoinOf

\* The heights of a chain are those of its parent, and that of its last block.
LEMMA LedgerUpTo ==
  ASSUME NEW b \in Blocks \ {Genesis}, Good(b)
  PROVE  CoinsOf(ChainTxs(b), SpentIn(b), HeightsUpTo(b, HeightsIn(Prev[b]), Len(Contents[b])))
           = LedgerOf(b)
<1> DEFINE H == HeightsUpTo(b, HeightsIn(Prev[b]), Len(Contents[b]))
<1>1. Path[b] = Path[Prev[b]] \cup {b} /\ Prev[b] \in Blocks /\ b \in Path[b]
  BY PathIs
<1>2. Good(Prev[b])
  BY <1>1, GoodPart
<1>3. First(Contents[b], Len(Contents[b])) = TxsOf(b)
  BY VtxIs
<1>4. ASSUME NEW t \in ChainTxs(b) \cap Txs PROVE H[t] = HeightsIn(b)[t]
  <2>1. PICK c \in Path[b] : t \in TxsOf(c)
    BY DEF ChainTxs
  <2>2. HeightsIn(b)[t] = Height(c)
    BY <2>1, HeightsAre
  <2>3. CASE t \in TxsOf(b)
    <3>1. c = b
      BY <1>1, <2>1, <2>3, OneHome
    <3> QED BY <1>3, <2>2, <2>3, <3>1 DEF HeightsUpTo
  <2>4. CASE t \notin TxsOf(b)
    <3>1. c \in Path[Prev[b]]
      BY <1>1, <2>1, <2>4
    <3>2. HeightsIn(Prev[b])[t] = Height(c)
      BY <1>2, <2>1, <3>1, HeightsAre
    <3> QED BY <1>3, <2>2, <2>4, <3>2 DEF HeightsUpTo
  <2> QED BY <2>3, <2>4
<1> HIDE DEF H
<1>5. CoinsOf(ChainTxs(b), SpentIn(b), H) = CoinsOf(ChainTxs(b), SpentIn(b), HeightsIn(b))
  BY <1>4, SameCoins
<1> QED BY <1>5, LedgerOfIs DEF H

\* A good chain is made of transactions whose inputs were there.
LEMMA GoodLedgerly ==
  ASSUME NEW b, Good(b)
  PROVE  /\ Ledgerly(ChainTxs(b), SpentIn(b))
         /\ b # Genesis => \A j \in 1 .. Len(Contents[b]) : Fits(b, ChainTxs(Prev[b]), SpentIn(Prev[b]), j)
<1> DEFINE S == {x \in Blocks : Good(x) => Ledgerly(ChainTxs(x), SpentIn(x))}
<1>1. Genesis \in S
  <2>1. ChainTxs(Genesis) = {} /\ SpentIn(Genesis) = {}
    BY PathGenesis DEF ChainTxs, SpentIn
  <2> QED BY <2>1, TreeAssumption DEF Ledgerly
<1>2. ASSUME NEW x \in Blocks \ {Genesis}, Good(x), Ledgerly(ChainTxs(Prev[x]), SpentIn(Prev[x]))
      PROVE  \A j \in 1 .. Len(Contents[x]) : Fits(x, ChainTxs(Prev[x]), SpentIn(Prev[x]), j)
  <2>1. Prev[x] \in Blocks /\ Good(Prev[x]) /\ Connects(x)
    BY <1>2, GoodPart, PathIs
  <2>2. HeightsIn(Prev[x]) \in [Txs -> Nat]
    BY <2>1, HeightsAre
  <2>3. ApplyBlock(x, CoinsOf(ChainTxs(Prev[x]), SpentIn(Prev[x]), HeightsIn(Prev[x]))).ok
    BY <2>1, LedgerOfIs DEF Connects
  <2>4. \A t \in TxsOf(x) : In[t] = <<>> => t \notin ChainTxs(Prev[x])
    BY <2>1 DEF Connects
  <2> QED BY <1>2, <2>2, <2>3, <2>4, ApplyOk
<1>3. ASSUME NEW x \in Blocks \ {Genesis}, Prev[x] \in S PROVE x \in S
  <2> SUFFICES ASSUME Good(x) PROVE Ledgerly(ChainTxs(x), SpentIn(x))
    OBVIOUS
  <2>1. Good(Prev[x])
    BY GoodPart, PathIs
  <2>2. Ledgerly(ChainTxs(Prev[x]), SpentIn(Prev[x]))
    BY <1>3, <2>1
  <2>3. \A j \in 1 .. Len(Contents[x]) : Fits(x, ChainTxs(Prev[x]), SpentIn(Prev[x]), j)
    BY <1>2, <2>2
  <2>4. Len(Contents[x]) \in 0 .. Len(Contents[x])
    BY VtxIs
  <2>5. Ledgerly(MadeUpTo(x, ChainTxs(Prev[x]), Len(Contents[x])),
                 SpentUpTo(x, SpentIn(Prev[x]), Len(Contents[x])))
    BY <2>2, <2>3, <2>4, PrefixLedgerly
  <2> QED BY <2>5, UpToAll
<1>4. S = Blocks
  <2>1. S \in SUBSET Blocks
    OBVIOUS
  <2> HIDE DEF S
  <2> QED BY <1>1, <1>3, <2>1, TreeInduction
<1>5. \A x \in Blocks : Good(x) => Ledgerly(ChainTxs(x), SpentIn(x))
  BY <1>4
<1>6. b \in Blocks /\ (b # Genesis => Good(Prev[b]))
  <2>1. b \in Blocks
    BY DEF Good
  <2> QED BY <2>1, GoodPart, PathIs
<1>7. b # Genesis => Ledgerly(ChainTxs(Prev[b]), SpentIn(Prev[b])) /\ Prev[b] \in Blocks
  BY <1>5, <1>6 DEF Good
<1> QED BY <1>2, <1>5, <1>6, <1>7

\* ConnectBlock turns the ledger of the parent into that of the block, and its undo data
\* are the metadata of the outputs that were the last of their transactions.
THEOREM ConnectLedger ==
  ASSUME NEW b \in Blocks \ {Genesis}, Good(b)
  PROVE  /\ ApplyBlock(b, LedgerOf(Prev[b])).coins = LedgerOf(b)
         /\ Len(UndoFor(b)) = Len(Contents[b])
         /\ \A j \in 1 .. Len(Contents[b]) :
               UndoFor(b)[j] = UndoAt(b, ChainTxs(Prev[b]), SpentIn(Prev[b]), HeightsIn(Prev[b]), j)
<1>1. Prev[b] \in Blocks /\ Good(Prev[b]) /\ Connects(b)
  BY GoodPart, PathIs
<1>2. HeightsIn(Prev[b]) \in [Txs -> Nat]
  BY <1>1, HeightsAre
<1>3. LedgerOf(Prev[b]) = CoinsOf(ChainTxs(Prev[b]), SpentIn(Prev[b]), HeightsIn(Prev[b]))
  BY <1>1, LedgerOfIs
<1>4. \A t \in TxsOf(b) : In[t] = <<>> => t \notin ChainTxs(Prev[b])
  BY <1>1 DEF Connects
<1>5. Ledgerly(ChainTxs(Prev[b]), SpentIn(Prev[b]))
  BY <1>1, GoodLedgerly
<1>6. ApplyBlock(b, CoinsOf(ChainTxs(Prev[b]), SpentIn(Prev[b]), HeightsIn(Prev[b]))).ok
  BY <1>1, <1>3 DEF Connects
<1> DEFINE r == ApplyBlock(b, CoinsOf(ChainTxs(Prev[b]), SpentIn(Prev[b]), HeightsIn(Prev[b])))
<1>7. /\ r.coins = CoinsOf(MadeUpTo(b, ChainTxs(Prev[b]), Len(Contents[b])),
                           SpentUpTo(b, SpentIn(Prev[b]), Len(Contents[b])),
                           HeightsUpTo(b, HeightsIn(Prev[b]), Len(Contents[b])))
      /\ Len(r.undo) = Len(Contents[b])
      /\ \A j \in 1 .. Len(Contents[b]) :
            r.undo[j] = UndoAt(b, ChainTxs(Prev[b]), SpentIn(Prev[b]), HeightsIn(Prev[b]), j)
  BY <1>2, <1>4, <1>5, <1>6, ApplyOk
<1>8. r.coins = LedgerOf(b)
  BY <1>7, UpToAll, LedgerUpTo
<1>9. r = ApplyBlock(b, LedgerOf(Prev[b]))
  BY <1>3
<1> HIDE DEF r
<1> QED BY <1>7, <1>8, <1>9 DEF UndoFor

\* DisconnectBlock turns it back, with the undo data ConnectBlock wrote, and finds the
\* outputs of the block as they should be.
THEOREM DisconnectLedger ==
  ASSUME MarkersUnspent, NEW b \in Blocks \ {Genesis}, Good(b), undo[b] = UndoFor(b)
  PROVE  /\ UndoBlock(b, LedgerOf(b)).coins = LedgerOf(Prev[b])
         /\ UndoBlock(b, LedgerOf(b)).clean = TRUE
<1>1. Prev[b] \in Blocks /\ Good(Prev[b])
  BY GoodPart, PathIs
<1> DEFINE M == ChainTxs(Prev[b])
           S == SpentIn(Prev[b])
           H == HeightsIn(Prev[b])
<1>2. H \in [Txs -> Nat] /\ \A u \in M \cap Txs : H[u] # 0
  BY <1>1, HeightsAre
<1>3. Ledgerly(M, S)
  BY <1>1, GoodLedgerly
<1>4. \A j \in 1 .. Len(Contents[b]) : Fits(b, M, S, j)
  BY GoodLedgerly
<1>5. \A j \in 1 .. Len(Contents[b]) : undo[b][j] = UndoAt(b, M, S, H, j)
  BY ConnectLedger
<1>6. LedgerOf(b) = CoinsOf(MadeUpTo(b, M, Len(Contents[b])), SpentUpTo(b, S, Len(Contents[b])),
                            HeightsUpTo(b, H, Len(Contents[b])))
  BY UpToAll, LedgerUpTo
<1>7. LedgerOf(Prev[b]) = CoinsOf(M, S, H)
  BY <1>1, LedgerOfIs
<1>8. \A u \in M : H[u] # 0
  BY <1>2, <1>3 DEF Ledgerly
<1> HIDE DEF M, S, H
<1>9. ASSUME NEW c, c = LedgerOf(b) PROVE UndoBlock(b, c).coins = CoinsOf(M, S, H) /\ UndoBlock(b, c).clean = TRUE
  <2>1. c = CoinsOf(MadeUpTo(b, M, Len(Contents[b])), SpentUpTo(b, S, Len(Contents[b])),
                    HeightsUpTo(b, H, Len(Contents[b])))
    BY <1>6, <1>9
  <2>2. b \in Blocks /\ b # Genesis
    OBVIOUS
  <2> QED BY ONLY MarkersUnspent, <1>2, <1>3, <1>4, <1>5, <1>8, <2>1, <2>2, UndoBlockOk, ZenonT(60)
<1> QED BY <1>7, <1>9

-----------------------------------------------------------------------------
(* Coins stay coins.                                                       *)

Ledgers == [Txs -> CCoins]
\* The undo data u has one element for each transaction of b, and in it one for each input
UndoShape(b, u) ==
  /\ u \in Seq(Seq(Undos)) /\ Len(u) = Len(Contents[b])
  /\ \A i \in 1 .. Len(Contents[b]) : Len(u[i]) = Len(In[Contents[b][i]])

\* Coins stay coins when an output is spent or comes back.
LEMMA CoinSteps ==
  ASSUME NEW c \in CCoins
  PROVE  /\ \A n : Spent(c, n) \in CCoins
         /\ \A n \in Positions : [c EXCEPT !.outs = @ \cup {n}] \in CCoins
         /\ Pruned \in CCoins
<1>1. Pruned \in CCoins
  BY DEF Pruned, CCoins
<1>2. ASSUME NEW n PROVE Spent(c, n) \in CCoins
  BY <1>1 DEF Spent, CCoins
<1>3. ASSUME NEW n \in Positions PROVE [c EXCEPT !.outs = @ \cup {n}] \in CCoins
  BY DEF CCoins
<1> QED BY <1>1, <1>2, <1>3

\* The outputs of a transaction.
LEMMA FromTyped ==
  ASSUME NEW t \in Txs, NEW h \in Nat
  PROVE  FromTx(t, h) \in CCoins
<1>1. Out[t] \in SUBSET Positions
  BY TxsAssumption
<1> QED BY <1>1 DEF FromTx, CCoins

SpendTypes(ctx, i, a) ==
  /\ a = [coins |-> a.coins, undo |-> a.undo]
  /\ a.coins \in Ledgers /\ a.undo \in Seq(Undos) /\ Len(a.undo) = i
SpendingTypes == INSTANCE FoldTheorems WITH op <- SpendStep, Inv <- SpendTypes

\* UpdateCoins leaves coins, and an undo for each input.
LEMMA UpdateTyped ==
  ASSUME NEW t \in Txs, NEW c \in Ledgers, NEW h \in Nat
  PROVE  LET u == UpdateCoins(c, t, h)
         IN  u.coins \in Ledgers /\ u.undo \in Seq(Undos) /\ Len(u.undo) = Len(In[t])
<1> DEFINE ctx == [tx |-> t]
           base == [coins |-> c, undo |-> <<>>]
           n == Len(In[t])
           f == SpendingTypes!LeftFold(ctx, base, In[t])
<1>n. n \in Nat /\ DOMAIN In[t] = 1 .. n
  BY InIs
<1>1. SpendTypes(ctx, 0, base)
  BY DEF SpendTypes
<1>2. ASSUME NEW i \in 1 .. n, NEW a, SpendTypes(ctx, i - 1, a)
      PROVE  SpendTypes(ctx, i, SpendStep(ctx, a, In[t][i]))
  <2> DEFINE u == In[t][i][1]
             k == In[t][i][2]
  <2>1. a.coins \in Ledgers /\ a.undo \in Seq(Undos) /\ Len(a.undo) = i - 1
    BY <1>2 DEF SpendTypes
  <2>2. u \in Txs
    BY InIs
  <2>3. a.coins[u] \in CCoins
    BY <2>1, <2>2 DEF Ledgers
  <2> HIDE DEF u, k
  <2>4. Spent(a.coins[u], k) \in CCoins /\ UndoOf(a.coins[u], k) \in Undos
    BY <2>3, CoinSteps, UndoTyped
  <2>5. [a.coins EXCEPT ![u] = Spent(@, k)] \in Ledgers
    BY <2>1, <2>4 DEF Ledgers
  <2>6. Append(a.undo, UndoOf(a.coins[u], k)) \in Seq(Undos) /\ Len(Append(a.undo, UndoOf(a.coins[u], k))) = i
    BY <2>1, <2>4
  <2>7. SpendStep(ctx, a, In[t][i]) = [coins |-> [a.coins EXCEPT ![u] = Spent(@, k)],
                                       undo |-> Append(a.undo, UndoOf(a.coins[u], k))]
    BY DEF SpendStep, SpendInput, u, k
  <2> DEFINE r == SpendStep(ctx, a, In[t][i])
  <2>8. r.coins = [a.coins EXCEPT ![u] = Spent(@, k)] /\ r.undo = Append(a.undo, UndoOf(a.coins[u], k))
    BY <2>7
  <2>9. r = [coins |-> r.coins, undo |-> r.undo]
    BY <2>7
  <2> HIDE DEF r
  <2>10. SpendTypes(ctx, i, r)
    BY <2>5, <2>6, <2>8, <2>9 DEF SpendTypes
  <2> QED BY <2>10 DEF r
<1>3. SpendTypes(ctx, n, f)
  <2> HIDE DEF ctx, base, n
  <2> QED BY <1>n, <1>1, <1>2, SpendingTypes!FoldLeftInduction
<1>4. UpdateCoins(c, t, h) = [f EXCEPT !.coins[t] = FromTx(t, h)]
  BY DEF UpdateCoins, SpendingTypes!LeftFold, SpendStep, FoldLeft, MapThenFoldSet, Max,
         SpendingTypes!FoldLeft, SpendingTypes!MapThenFoldSet, SpendingTypes!Max
<1> HIDE DEF f
<1>5. UpdateCoins(c, t, h) = [coins |-> [f.coins EXCEPT ![t] = FromTx(t, h)], undo |-> f.undo]
  BY <1>3, <1>4 DEF SpendTypes
<1>6. [f.coins EXCEPT ![t] = FromTx(t, h)] \in Ledgers
  BY <1>3, FromTyped DEF SpendTypes, Ledgers
<1> QED BY <1>3, <1>5, <1>6 DEF SpendTypes

ApplyTypes(ctx, i, a) ==
  /\ a.coins \in Ledgers /\ a.undo \in Seq(Seq(Undos)) /\ Len(a.undo) = i
  /\ \A j \in 1 .. i : Len(a.undo[j]) = Len(In[Contents[ctx.block][j]])
ApplyingTypes == INSTANCE FoldTheorems WITH op <- ApplyStep, Inv <- ApplyTypes

\* ConnectBlock leaves coins, and undo data of the shape of the block, valid or not.
LEMMA ApplyTyped ==
  ASSUME NEW b \in Blocks, NEW c \in Ledgers
  PROVE  ApplyBlock(b, c).coins \in Ledgers /\ UndoShape(b, ApplyBlock(b, c).undo)
<1> DEFINE ctx == [block |-> b]
           base == [coins |-> c, undo |-> <<>>, ok |-> TRUE]
           vtx == Contents[b]
           n == Len(vtx)
           f == ApplyingTypes!LeftFold(ctx, base, vtx)
<1>n. n \in Nat /\ DOMAIN vtx = 1 .. n
  BY VtxIs
<1>1. ApplyTypes(ctx, 0, base)
  BY DEF ApplyTypes
<1>2. ASSUME NEW i \in 1 .. n, NEW a, ApplyTypes(ctx, i - 1, a)
      PROVE  ApplyTypes(ctx, i, ApplyStep(ctx, a, vtx[i]))
  <2> DEFINE t == vtx[i]
             h == Height(b)
             u == UpdateCoins(a.coins, t, h)
             r == ApplyTx(a, t, h)
  <2>1. /\ a.coins \in Ledgers /\ a.undo \in Seq(Seq(Undos)) /\ Len(a.undo) = i - 1
        /\ \A j \in 1 .. i - 1 : Len(a.undo[j]) = Len(In[Contents[b][j]])
    BY <1>2 DEF ApplyTypes
  <2>2. t \in Txs /\ h \in Nat
    BY VtxIs, HeightOk
  <2>3. u.coins \in Ledgers /\ u.undo \in Seq(Undos) /\ Len(u.undo) = Len(In[t])
    <3> HIDE DEF t, h
    <3> QED BY <2>1, <2>2, UpdateTyped
  <2>4. r.coins = u.coins /\ r.undo = Append(a.undo, u.undo)
    BY DEF ApplyTx
  <2> HIDE DEF u, r, h
  <2>5. r.undo \in Seq(Seq(Undos)) /\ Len(r.undo) = i
    BY <2>1, <2>3, <2>4
  <2>6. ASSUME NEW j \in 1 .. i PROVE Len(r.undo[j]) = Len(In[Contents[b][j]])
    <3>1. CASE j = i
      <4>1. r.undo[j] = u.undo
        BY <2>1, <2>3, <2>4, <3>1
      <4> QED BY <2>3, <3>1, <4>1
    <3>2. CASE j \in 1 .. i - 1
      <4>1. r.undo[j] = a.undo[j]
        BY <2>1, <2>3, <2>4, <3>2
      <4> QED BY <2>1, <3>2, <4>1
    <3> QED BY <3>1, <3>2
  <2>7. ApplyStep(ctx, a, vtx[i]) = r
    BY DEF ApplyStep, r, h
  <2>8. ApplyTypes(ctx, i, r)
    BY <2>3, <2>4, <2>5, <2>6 DEF ApplyTypes
  <2> QED BY <2>7, <2>8
<1>3. ApplyTypes(ctx, n, f)
  <2> HIDE DEF ctx, base, n
  <2> QED BY <1>n, <1>1, <1>2, ApplyingTypes!FoldLeftInduction
<1>4. ApplyBlock(b, c) = f
  BY DEF ApplyBlock, ApplyingTypes!LeftFold, ApplyStep, FoldLeft, MapThenFoldSet, Max,
         ApplyingTypes!FoldLeft, ApplyingTypes!MapThenFoldSet, ApplyingTypes!Max
<1> HIDE DEF f
<1> QED BY <1>3, <1>4 DEF ApplyTypes, UndoShape

RestoreTypes(ctx, i, a) == a.coins \in Ledgers
RestoringTypes == INSTANCE FoldTheorems WITH op <- RestoreStep, Inv <- RestoreTypes

\* One input comes back.
LEMMA RestoreInputTyped ==
  ASSUME NEW acc, acc.coins \in Ledgers, NEW in \in Outpoints, NEW u \in Undos
  PROVE  RestoreInput(acc, in, u).coins \in Ledgers
<1> DEFINE c == acc.coins[in[1]]
           base == IF u.height # 0 THEN [Pruned EXCEPT !.base = u.base, !.height = u.height] ELSE c
<1>1. in[1] \in Txs /\ in[2] \in Positions
  BY DEF Outpoints
<1>2. c \in CCoins
  BY <1>1 DEF Ledgers
<1>3. [Pruned EXCEPT !.base = u.base, !.height = u.height] \in CCoins
  <2>1. u.base \in BOOLEAN /\ u.height \in Nat
    BY DEF Undos
  <2> QED BY <2>1 DEF Pruned, CCoins
<1>4. base \in CCoins
  BY <1>2, <1>3
<1> HIDE DEF base, c
<1>5. [base EXCEPT !.outs = @ \cup {in[2]}] \in CCoins
  BY <1>1, <1>4, CoinSteps
<1>6. RestoreInput(acc, in, u).coins = [acc.coins EXCEPT ![in[1]] = [base EXCEPT !.outs = @ \cup {in[2]}]]
  BY DEF RestoreInput, base, c
<1> QED BY <1>5, <1>6 DEF Ledgers

\* The inputs of a transaction come back.
LEMMA RestoreTyped ==
  ASSUME NEW t \in Txs, NEW us \in Seq(Undos), Len(us) = Len(In[t]), NEW acc, acc.coins \in Ledgers
  PROVE  RestoreInputs(acc, t, us).coins \in Ledgers
<1> DEFINE ctx == [tx |-> t, undos |-> us]
           n == Len(us)
           s == [i \in DOMAIN us |-> i]
           f == RestoringTypes!RightFold(ctx, acc, s)
<1>n. n \in Nat /\ DOMAIN s = 1 .. n /\ \A i \in 1 .. n : s[i] = i
  OBVIOUS
<1>1. RestoreTypes(ctx, n + 1, acc)
  BY DEF RestoreTypes
<1>2. ASSUME NEW i \in 1 .. n, NEW a, RestoreTypes(ctx, i + 1, a)
      PROVE  RestoreTypes(ctx, i, RestoreStep(ctx, a, s[i]))
  <2>1. a.coins \in Ledgers
    BY <1>2 DEF RestoreTypes
  <2>2. In[t][i] \in Outpoints /\ us[i] \in Undos
    BY InIs
  <2>3. RestoreInput(a, In[t][i], us[i]).coins \in Ledgers
    BY <2>1, <2>2, RestoreInputTyped
  <2>4. RestoreStep(ctx, a, s[i]) = RestoreInput(a, In[t][i], us[i])
    BY <1>n DEF RestoreStep
  <2> QED BY <2>3, <2>4 DEF RestoreTypes
<1>3. RestoreTypes(ctx, 1, f)
  <2> HIDE DEF ctx, n, s
  <2> QED BY <1>n, <1>1, <1>2, RestoringTypes!FoldRightInduction
<1>4. RestoreInputs(acc, t, us) = f
  BY DEF RestoreInputs, FoldRightDomain, RestoringTypes!RightFold, RestoreStep, FoldRight, MapThenFoldSet, Min,
         RestoringTypes!FoldRight, RestoringTypes!MapThenFoldSet, RestoringTypes!Min
<1> HIDE DEF f
<1> QED BY <1>3, <1>4 DEF RestoreTypes

UndoTypes(ctx, i, a) == a.coins \in Ledgers
UndoingTypes == INSTANCE FoldTheorems WITH op <- UndoStep, Inv <- UndoTypes

\* DisconnectBlock leaves coins, whatever the undo data of the block's shape say.
LEMMA UndoBlockTyped ==
  ASSUME NEW b \in Blocks, NEW c \in Ledgers, UndoShape(b, undo[b])
  PROVE  UndoBlock(b, c).coins \in Ledgers
<1> DEFINE ctx == [block |-> b, undos |-> undo[b]]
           base == [coins |-> c, clean |-> TRUE]
           vtx == Contents[b]
           n == Len(vtx)
           s == [i \in DOMAIN vtx |-> i]
           f == UndoingTypes!RightFold(ctx, base, s)
<1>n. n \in Nat /\ DOMAIN s = 1 .. n /\ \A i \in 1 .. n : s[i] = i
  BY VtxIs
<1>1. UndoTypes(ctx, n + 1, base)
  BY DEF UndoTypes
<1>2. ASSUME NEW i \in 1 .. n, NEW a, UndoTypes(ctx, i + 1, a)
      PROVE  UndoTypes(ctx, i, UndoStep(ctx, a, s[i]))
  <2> DEFINE t == vtx[i]
             h == Height(b)
             us == undo[b][i]
             acc == [coins |-> [a.coins EXCEPT ![t] = Pruned],
                     clean |-> a.clean /\ a.coins[t] = FromTx(t, h)]
  <2>1. a.coins \in Ledgers
    BY <1>2 DEF UndoTypes
  <2>2. t \in Txs /\ us \in Seq(Undos) /\ Len(us) = Len(In[t])
    BY VtxIs DEF UndoShape
  <2>3. acc.coins \in Ledgers
    <3>1. Pruned \in CCoins
      BY DEF Pruned, CCoins
    <3> QED BY <2>1, <2>2, <3>1 DEF Ledgers
  <2>4. UndoStep(ctx, a, s[i]) = RestoreInputs(acc, t, us)
    BY <1>n DEF UndoStep, UndoTx
  <2>5. RestoreInputs(acc, t, us).coins \in Ledgers
    <3> HIDE DEF acc, t, us
    <3> QED BY <2>2, <2>3, RestoreTyped
  <2> QED BY <2>4, <2>5 DEF UndoTypes
<1>3. UndoTypes(ctx, 1, f)
  <2> HIDE DEF ctx, base, n, s
  <2> QED BY <1>n, <1>1, <1>2, UndoingTypes!FoldRightInduction
<1>4. UndoBlock(b, c) = f
  BY DEF UndoBlock, FoldRightDomain, UndoingTypes!RightFold, UndoStep, FoldRight, MapThenFoldSet, Min,
         UndoingTypes!FoldRight, UndoingTypes!MapThenFoldSet, UndoingTypes!Min
<1> HIDE DEF f
<1> QED BY <1>3, <1>4 DEF UndoTypes

-----------------------------------------------------------------------------
(* The coins and the transaction index: the invariant.                     *)

\* The height in a coinbase keeps it out of the chain below its block.
LEMMA BaseNew ==
  ASSUME NEW b \in Blocks \ {Genesis}, NEW t \in TxsOf(b) \cap Base
  PROVE  t \notin ChainTxs(Prev[b])
<1> SUFFICES ASSUME NEW c \in Path[Prev[b]], t \in TxsOf(c) PROVE FALSE
  BY DEF ChainTxs
<1>1. Prev[b] \in Blocks /\ Height(b) = Height(Prev[b]) + 1
  BY PathIs, HeightIs
<1>2. c \in Blocks /\ Height(c) \in Nat /\ Height(c) <= Height(Prev[b]) /\ Height(Prev[b]) \in Nat
  BY <1>1, PathPart, HeightOk
<1>3. Height(b) = Height(c)
  BY <1>2, BlocksAssumption
<1> QED BY <1>1, <1>2, <1>3

\* A valid block is new to the chain if its zerocoin spends are.
LEMMA ConnectsOk ==
  ASSUME NEW b \in Blocks \ {Genesis}, Good(Prev[b]), ApplyBlock(b, LedgerOf(Prev[b])).ok,
         \A t \in TxsOf(b) : Serial[t] # {} => t \notin ChainTxs(Prev[b])
  PROVE  Connects(b) /\ Good(b)
<1> DEFINE M == ChainTxs(Prev[b])
           S == SpentIn(Prev[b])
           H == HeightsIn(Prev[b])
<1>0. Prev[b] \in Blocks
  BY PathIs
<1>1. Ledgerly(M, S) /\ H \in [Txs -> Nat]
  BY GoodLedgerly, HeightsAre
<1>2. \A t \in TxsOf(b) : In[t] = <<>> => t \notin M
  BY BaseNew, VtxIs, TxsAssumption
<1>3. ApplyBlock(b, CoinsOf(M, S, H)).ok
  BY <1>0, LedgerOfIs
<1>4. \A j \in 1 .. Len(Contents[b]) : Fits(b, M, S, j)
  <2> HIDE DEF M, S, H
  <2> QED BY <1>1, <1>2, <1>3, ApplyOk
<1>5. \A t \in TxsOf(b) : t \notin M
  <2> SUFFICES ASSUME NEW j \in 1 .. Len(Contents[b]) PROVE Contents[b][j] \notin M
    BY VtxIs
  <2> QED BY <1>4 DEF Fits, MadeUpTo
<1>6. Connects(b)
  BY <1>5 DEF Connects
<1> QED BY <1>6, GoodPart

ViewOf(b) == [best |-> b, coins |-> LedgerOf(b)]
Connecting == step \in {"mints", "index", "commit"}

\* The coins are those of the chain they belong to: the active one, that of the
\* database (a part of it) and that of the view at work; and every block of these
\* chains has its undo data.
CoinsInv ==
  /\ Good(tip) /\ coins = LedgerOf(tip)
  /\ stored.best \in Blocks /\ Path[stored.best] \subseteq Path[tip] /\ stored = ViewOf(stored.best)
  /\ Good(work.best) /\ work = ViewOf(work.best)
  /\ step = "up" => work.best = tip
  /\ Connecting => work.best # Genesis /\ Prev[work.best] = tip
  /\ step = "undone" => tip # Genesis /\ work.best = Prev[tip]
  /\ Verifying => Path[work.best] \subseteq Path[tip]
  /\ undo = [b \in Blocks |-> undo[b]]
  /\ \A b \in Blocks : undo[b] = None \/ (b # Genesis /\ Good(b) /\ undo[b] = UndoFor(b))
  /\ \A b \in Path[tip] \cup Path[work.best] : undo[b] = UndoFor(b)

\* The index has the blocks of the active chain.
Indexed(b) == \A t \in TxsOf(b) : txIndex[t] = b
IndexInv ==
  /\ txIndex \in [Txs -> Blocks \cup {None}]
  /\ \A b \in Path[tip] : Indexed(b)
  /\ step = "commit" => Indexed(work.best)

\* The transactions of a block are transactions.
LEMMA TxsOfIn ==
  ASSUME NEW b \in Blocks
  PROVE  TxsOf(b) \subseteq Txs
BY VtxIs

\* The chain of the active chain's tip is indexed.
LEMMA InChainIndexed ==
  ASSUME IndexInv, tip \in Blocks
  PROVE  \A t \in ChainTxs(tip) : t \in Txs /\ IsTransactionInChain(t)
<1> SUFFICES ASSUME NEW c \in Path[tip], NEW t \in TxsOf(c) PROVE t \in Txs /\ IsTransactionInChain(t)
  BY DEF ChainTxs
<1>1. c \in Blocks
  BY PathPart
<1>2. txIndex[t] = c
  BY DEF IndexInv, Indexed
<1> QED BY <1>1, <1>2, TxsOfIn, TxsAssumption DEF IsTransactionInChain

\* To write the index for a block leaves that of the blocks with other transactions.
LEMMA WriteIndex ==
  ASSUME NEW b \in Blocks, WriteTxIndex(b), txIndex \in [Txs -> Blocks \cup {None}]
  PROVE  /\ txIndex' \in [Txs -> Blocks \cup {None}]
         /\ Indexed(b)'
         /\ \A c \in Blocks : TxsOf(c) \cap TxsOf(b) = {} /\ Indexed(c) => Indexed(c)'
<1>1. txIndex' = [t \in Txs |-> IF t \in TxsOf(b) THEN b ELSE txIndex[t]]
  BY DEF WriteTxIndex
<1>2. txIndex' \in [Txs -> Blocks \cup {None}]
  BY <1>1
<1>3. Indexed(b)'
  BY <1>1, TxsOfIn DEF Indexed
<1>4. ASSUME NEW c \in Blocks, TxsOf(c) \cap TxsOf(b) = {}, Indexed(c) PROVE Indexed(c)'
  BY <1>1, <1>4, TxsOfIn DEF Indexed
<1> QED BY <1>2, <1>3, <1>4

\* A block that ConnectBlock finds valid is good.
LEMMA ConnectGood ==
  ASSUME CoinsInv, IndexInv, NEW b \in Blocks, ConnectBlock(b)
  PROVE  Good(b) /\ b # Genesis
<1>1. b \in Blocks \ {Genesis} /\ Prev[b] = tip /\ Valid(b, coins) /\ step = "up"
  BY DEF ConnectBlock
<1>2. Good(tip) /\ coins = LedgerOf(tip) /\ tip \in Blocks
  BY DEF CoinsInv, Good
<1>3. ASSUME NEW t \in TxsOf(b), Serial[t] # {} PROVE t \notin ChainTxs(tip)
  <2>1. t \in ZerocoinSpends
    BY <1>1, <1>3, TxsOfIn DEF ZerocoinSpends
  <2>2. ~IsTransactionInChain(t)
    BY <1>1, <2>1 DEF Valid, ZerocoinOk, Verifying
  <2> QED BY <1>2, <2>2, InChainIndexed
<1>4. ApplyBlock(b, LedgerOf(Prev[b])).ok
  BY <1>1, <1>2 DEF Valid
<1> QED BY <1>1, <1>2, <1>3, <1>4, ConnectsOk

-----------------------------------------------------------------------------
(* Every step keeps it.                                                    *)

\* What the invariant says of the chains.
LEMMA InvChains ==
  ASSUME CoinsInv
  PROVE  /\ tip \in Blocks /\ work.best \in Blocks /\ stored.best \in Blocks
         /\ coins = LedgerOf(tip) /\ work.coins = LedgerOf(work.best)
         /\ work = ViewOf(work.best) /\ stored = ViewOf(stored.best) /\ View = ViewOf(tip)
BY DEF CoinsInv, Good, ViewOf, View

\* Before the coins are written, the block at work is the next of the active chain.
LEMMA InvConnecting ==
  ASSUME CoinsInv, Connecting
  PROVE  /\ work.best \in Blocks \ {Genesis} /\ Path[work.best] = Path[tip] \cup {work.best}
         /\ TxsOf(work.best) \cap ChainTxs(tip) = {}
<1>1. work.best \in Blocks \ {Genesis} /\ Prev[work.best] = tip /\ Good(work.best)
  BY InvChains DEF CoinsInv
<1>2. work.best \in Path[work.best]
  BY <1>1, PathIs
<1>3. Connects(work.best)
  BY <1>1, <1>2, GoodPart
<1> QED BY <1>1, <1>3, PathIs DEF Connects

\* ConnectBlock leaves the ledger of the block in the view, and its undo data on disk.
LEMMA CoinsConnect ==
  ASSUME CoinsInv, IndexInv, NEW b \in Blocks, ConnectBlock(b)
  PROVE  CoinsInv'
<1>1. /\ Good(b) /\ b \in Blocks \ {Genesis} /\ Prev[b] = tip /\ step = "up" /\ step' = "mints"
      /\ work' = [best |-> b, coins |-> ApplyBlock(b, coins).coins]
      /\ tip' = tip /\ coins' = coins /\ stored' = stored
  BY ConnectGood DEF ConnectBlock
<1>2. work' = ViewOf(b) /\ work'.best = b
  BY <1>1, ConnectLedger DEF CoinsInv, ViewOf
<1>3. undo' = IF undo[b] = None THEN [undo EXCEPT ![b] = UndoFor(b)] ELSE undo
  BY <1>1 DEF ConnectBlock, WriteUndo, UndoFor, CoinsInv
<1>4. /\ undo = [c \in Blocks |-> undo[c]]
      /\ \A c \in Blocks : undo[c] = None \/ (c # Genesis /\ Good(c) /\ undo[c] = UndoFor(c))
      /\ \A c \in Path[tip] : undo[c] = UndoFor(c)
  BY DEF CoinsInv
<1>5. /\ undo'[b] = UndoFor(b)
      /\ \A c \in Blocks \ {b} : undo'[c] = undo[c]
      /\ undo' = [c \in Blocks |-> undo'[c]]
  BY <1>1, <1>3, <1>4
<1>6. Path[b] = Path[tip] \cup {b} /\ Path[tip] \subseteq Blocks
  BY <1>1, PathIs, PathPart
<1>7. \A c \in Blocks : undo'[c] = None \/ (c # Genesis /\ Good(c) /\ undo'[c] = UndoFor(c))
  BY <1>1, <1>4, <1>5
<1>8. \A c \in Path[tip] \cup Path[b] : undo'[c] = UndoFor(c)
  BY <1>4, <1>5, <1>6
<1> QED BY <1>1, <1>2, <1>5, <1>7, <1>8 DEF CoinsInv, Connecting, Verifying

\* ConnectTip ends with the coins of the new tip, in the database too if they are flushed.
LEMMA CoinsCommit ==
  ASSUME CoinsInv, ConnectCommit
  PROVE  CoinsInv'
<1>1. /\ step = "commit" /\ step' = "up" /\ tip' = work.best /\ coins' = work.coins
      /\ work' = work /\ undo' = undo
      /\ stored' = [best |-> tip', coins |-> coins'] \/ stored' = stored
  BY DEF ConnectCommit, Flush
<1>2. Path[work.best] = Path[tip] \cup {work.best}
  BY <1>1, InvConnecting DEF Connecting
<1>3. /\ stored'.best \in Blocks /\ stored' = ViewOf(stored'.best)
      /\ Path[stored'.best] \subseteq Path[work.best]
  <2>1. CASE stored' = stored
    BY <1>2, <2>1 DEF CoinsInv
  <2>2. CASE stored' = [best |-> tip', coins |-> coins']
    <3>1. stored' = ViewOf(work.best) /\ stored'.best = work.best
      BY <1>1, <2>2, InvChains DEF ViewOf
    <3> QED BY <3>1, InvChains
  <2> QED BY <1>1, <2>1, <2>2
<1>4. Good(work.best) /\ work = ViewOf(work.best) /\ work.coins = LedgerOf(work.best)
  BY InvChains DEF CoinsInv
<1> QED BY <1>1, <1>2, <1>3, <1>4 DEF CoinsInv, Connecting, Verifying

\* DisconnectBlock leaves the ledger of the parent in the view.
LEMMA CoinsDisconnect ==
  ASSUME MarkersUnspent, CoinsInv, DisconnectBlock
  PROVE  CoinsInv' /\ step' = "undone"
<1>1. /\ tip \in Blocks \ {Genesis} /\ Good(tip) /\ coins = LedgerOf(tip)
      /\ undo' = undo /\ tip' = tip /\ coins' = coins /\ stored' = stored
      /\ work' = [best |-> Prev[tip], coins |-> UndoBlock(tip, coins).coins]
      /\ step' = IF UndoBlock(tip, coins).clean THEN "undone" ELSE "failed"
  BY InvChains DEF CoinsInv, DisconnectBlock
<1>2. tip \in Path[tip] /\ Path[Prev[tip]] \subseteq Path[tip] /\ Prev[tip] \in Blocks
  BY <1>1, PathIs
<1>3. undo[tip] = UndoFor(tip)
  BY <1>2 DEF CoinsInv
<1>4. UndoBlock(tip, coins).coins = LedgerOf(Prev[tip]) /\ UndoBlock(tip, coins).clean = TRUE
  BY <1>1, <1>3, DisconnectLedger
<1>5. work' = ViewOf(Prev[tip]) /\ work'.best = Prev[tip] /\ step' = "undone"
  BY <1>1, <1>4 DEF ViewOf
<1>6. Good(Prev[tip])
  BY <1>1, <1>2, GoodPart
<1> QED BY <1>1, <1>2, <1>5, <1>6 DEF CoinsInv, Connecting, Verifying

\* DisconnectTip ends with the coins of the parent, in the database too.
LEMMA CoinsDisconnected ==
  ASSUME CoinsInv, DisconnectCommit
  PROVE  CoinsInv'
<1>1. /\ step = "undone" /\ step' = "up" /\ tip' = work.best /\ coins' = work.coins
      /\ work' = work /\ undo' = undo /\ stored' = [best |-> tip', coins |-> coins']
  BY DEF DisconnectCommit, Flush
<1>2. stored' = ViewOf(work.best) /\ stored'.best = work.best
  BY <1>1, InvChains DEF ViewOf
<1>3. Good(work.best) /\ work = ViewOf(work.best) /\ work.coins = LedgerOf(work.best) /\ work.best \in Blocks
  BY InvChains DEF CoinsInv
<1> QED BY <1>1, <1>2, <1>3 DEF CoinsInv, Connecting, Verifying

\* VerifyDB takes a block back in its view ...
LEMMA CoinsVerifyDown ==
  ASSUME MarkersUnspent, CoinsInv, VerifyDisconnect
  PROVE  CoinsInv' /\ step' = "down"
<1> DEFINE b == work.best
<1>1. /\ b \in Blocks \ {Genesis} /\ Good(b) /\ work.coins = LedgerOf(b)
      /\ undo' = undo /\ tip' = tip /\ coins' = coins /\ stored' = stored
      /\ work' = [best |-> Prev[b], coins |-> UndoBlock(b, work.coins).coins]
      /\ step' = IF UndoBlock(b, work.coins).clean THEN "down" ELSE "failed"
      /\ Path[b] \subseteq Path[tip]
  BY InvChains DEF CoinsInv, VerifyDisconnect, Verifying
<1>2. b \in Path[b] /\ Path[Prev[b]] \subseteq Path[b] /\ Prev[b] \in Blocks
  BY <1>1, PathIs
<1>3. undo[b] = UndoFor(b)
  BY <1>2 DEF CoinsInv
<1> HIDE DEF b
<1>4. UndoBlock(b, work.coins).coins = LedgerOf(Prev[b]) /\ UndoBlock(b, work.coins).clean = TRUE
  BY <1>1, <1>3, DisconnectLedger
<1>5. work' = ViewOf(Prev[b]) /\ work'.best = Prev[b] /\ step' = "down"
  BY <1>1, <1>4 DEF ViewOf
<1>6. Good(Prev[b])
  BY <1>1, <1>2, GoodPart
<1> QED BY <1>1, <1>2, <1>5, <1>6 DEF CoinsInv, Connecting, Verifying, b

\* ... and connects it again.
LEMMA CoinsVerifyUp ==
  ASSUME CoinsInv, NEW b \in Blocks, VerifyReconnect(b)
  PROVE  CoinsInv'
<1>1. /\ undo' = undo /\ tip' = tip /\ coins' = coins /\ stored' = stored
      /\ step = "reconnect" /\ b \in Path[tip] /\ Prev[b] = work.best
      /\ \/ step' = "reconnect" /\ work' = [best |-> b, coins |-> ApplyBlock(b, work.coins).coins]
         \/ step' = "failed" /\ work' = work
  BY DEF VerifyReconnect
<1>2. b \in Blocks \ {Genesis} /\ Good(b) /\ Path[b] \subseteq Path[tip]
  BY <1>1, InvChains, PathPart, GoodPart DEF CoinsInv
<1>3. CASE step' = "failed" /\ work' = work
  BY <1>1, <1>3 DEF CoinsInv, Connecting, Verifying
<1>4. CASE step' = "reconnect" /\ work' = [best |-> b, coins |-> ApplyBlock(b, work.coins).coins]
  <2>1. work' = ViewOf(b) /\ work'.best = b
    BY <1>1, <1>2, <1>4, ConnectLedger, InvChains DEF ViewOf
  <2> QED BY <1>1, <1>2, <1>4, <2>1 DEF CoinsInv, Connecting, Verifying
<1> QED BY <1>1, <1>3, <1>4

\* A restart begins with the chain of the database, a part of the active one.
LEMMA CoinsRestart ==
  ASSUME CoinsInv, NEW from \in {stored, View}, Restart(from)
  PROVE  CoinsInv' /\ Path[tip'] \subseteq Path[tip] /\ tip' = from.best
<1>1. /\ stored' = from /\ tip' = from.best /\ coins' = from.coins /\ work' = from
      /\ step' = "down" /\ undo' = undo
  BY DEF Restart
<1>2. from.best \in Blocks /\ from = ViewOf(from.best) /\ Path[from.best] \subseteq Path[tip] /\ Good(from.best)
  <2>1. from.best \in Blocks /\ from = ViewOf(from.best) /\ Path[from.best] \subseteq Path[tip]
    <3>1. View.best = tip
      BY DEF View
    <3> QED BY <3>1, InvChains DEF CoinsInv
  <2>2. Good(tip)
    BY DEF CoinsInv
  <2>3. Good(from.best)
    BY <2>1, <2>2, GoodPart DEF Good
  <2> QED BY <2>1, <2>3
<1>3. from.coins = LedgerOf(from.best)
  BY <1>2 DEF ViewOf
<1> QED BY <1>1, <1>2, <1>3 DEF CoinsInv, Connecting, Verifying

\* No step breaks it.
LEMMA CoinsInvStep ==
  ASSUME MarkersUnspent, CoinsInv, IndexInv, [Next]_vars
  PROVE  CoinsInv'
<1>1. CASE \E b \in Blocks : ConnectBlock(b)
  BY <1>1, CoinsConnect
<1>2. CASE \E b \in Blocks : VerifyReconnect(b)
  BY <1>2, CoinsVerifyUp
<1>3. CASE ConnectMints
  BY <1>3 DEF ConnectMints, CoinsInv, Connecting, Verifying
<1>4. CASE ConnectIndex
  BY <1>4 DEF ConnectIndex, CoinsInv, Connecting, Verifying
<1>5. CASE ConnectCommit
  BY <1>5, CoinsCommit
<1>6. CASE DisconnectBlock
  BY <1>6, CoinsDisconnect
<1>7. CASE DisconnectCommit
  BY <1>7, CoinsDisconnected
<1>8. CASE VerifyChain
  <2>1. /\ work' = View /\ step' = "down" /\ tip' = tip /\ coins' = coins /\ stored' = stored /\ undo' = undo
    BY <1>8 DEF VerifyChain
  <2>2. work' = ViewOf(tip) /\ work'.best = tip
    BY <2>1, InvChains DEF ViewOf
  <2> QED BY <2>1, <2>2 DEF CoinsInv, Connecting, Verifying
<1>9. CASE VerifyDisconnect
  BY <1>9, CoinsVerifyDown
<1>10. CASE VerifyTurn
  BY <1>10 DEF VerifyTurn, CoinsInv, Connecting, Verifying
<1>11. CASE VerifyEnd
  BY <1>11 DEF VerifyEnd, CoinsInv, Connecting, Verifying
<1>12. CASE Crash \/ Shutdown
  BY <1>12, CoinsRestart DEF Crash, Shutdown
<1>13. CASE FlushState
  <2>1. /\ stored' = [best |-> tip', coins |-> coins'] /\ step' = step /\ tip' = tip /\ coins' = coins
        /\ work' = work /\ undo' = undo
    BY <1>13 DEF FlushState, Flush
  <2>2. stored' = ViewOf(tip) /\ stored'.best = tip
    BY <2>1, InvChains DEF ViewOf
  <2> QED BY <2>1, <2>2, InvChains DEF CoinsInv, Connecting, Verifying
<1>14. CASE UNCHANGED vars
  BY <1>14 DEF vars, CoinsInv, Connecting, Verifying
<1> QED BY <1>1, <1>2, <1>3, <1>4, <1>5, <1>6, <1>7, <1>8, <1>9, <1>10, <1>11, <1>12, <1>13, <1>14 DEF Next

\* The index changes with the block it is written for.
LEMMA IndexInvStep ==
  ASSUME MarkersUnspent, CoinsInv, IndexInv, [Next]_vars
  PROVE  IndexInv'
<1>0. CoinsInv' /\ tip \in Blocks
  BY CoinsInvStep, InvChains
<1>1. CASE \E b \in Blocks : ConnectBlock(b)
  BY <1>1 DEF ConnectBlock, IndexInv, Indexed
<1>2. ASSUME NEW b \in Blocks, VerifyReconnect(b) PROVE IndexInv'
  <2>1. b \in Path[tip] /\ tip' = tip /\ step' # "commit"
    BY <1>2 DEF VerifyReconnect
  <2>2. CASE UNCHANGED records
    BY <2>1, <2>2 DEF records, IndexInv, Indexed
  <2>3. CASE WriteTxIndex(b)
    <3>1. \A c \in Path[tip] : c \in Blocks /\ (c = b \/ TxsOf(c) \cap TxsOf(b) = {})
      BY <1>0, <2>1, PathPart, OneHome DEF CoinsInv
    <3> QED BY <2>1, <2>3, <3>1, WriteIndex DEF IndexInv
  <2> QED BY <1>2, <2>2, <2>3 DEF VerifyReconnect
<1>3. CASE ConnectMints
  BY <1>3 DEF ConnectMints, IndexInv, Indexed
<1>4. CASE ConnectIndex
  <2>1. step = "index" /\ WriteTxIndex(work.best) /\ tip' = tip /\ work' = work
    BY <1>4 DEF ConnectIndex
  <2>2. work.best \in Blocks /\ TxsOf(work.best) \cap ChainTxs(tip) = {}
    BY <2>1, InvConnecting DEF Connecting
  <2>3. \A c \in Path[tip] : c \in Blocks /\ TxsOf(c) \cap TxsOf(work.best) = {}
    BY <1>0, <2>2, PathPart, InChain
  <2> QED BY <2>1, <2>2, <2>3, WriteIndex DEF IndexInv, Indexed
<1>5. CASE ConnectCommit
  <2>1. step = "commit" /\ tip' = work.best /\ txIndex' = txIndex /\ step' = "up"
    BY <1>5 DEF ConnectCommit, records
  <2>2. Path[work.best] = Path[tip] \cup {work.best}
    BY <2>1, InvConnecting DEF Connecting
  <2> QED BY <2>1, <2>2 DEF IndexInv, Indexed
<1>6. CASE DisconnectBlock
  BY <1>6 DEF DisconnectBlock, EraseRecords, IndexInv, Indexed
<1>7. CASE DisconnectCommit
  <2>1. tip \in Blocks \ {Genesis} /\ tip' = Prev[tip] /\ txIndex' = txIndex /\ step' = "up"
    BY <1>0, <1>7 DEF DisconnectCommit, CoinsInv, records
  <2> QED BY <2>1, PathIs DEF IndexInv, Indexed
<1>8. CASE VerifyChain
  BY <1>8 DEF VerifyChain, records, IndexInv, Indexed
<1>9. CASE VerifyDisconnect
  BY <1>9 DEF VerifyDisconnect, EraseRecords, IndexInv, Indexed
<1>10. CASE VerifyTurn \/ VerifyEnd
  BY <1>10 DEF VerifyTurn, VerifyEnd, records, IndexInv, Indexed
<1>11. CASE Crash \/ Shutdown
  <2>1. Path[tip'] \subseteq Path[tip]
    BY <1>11, CoinsRestart DEF Crash, Shutdown
  <2>2. txIndex' = txIndex /\ step' = "down"
    BY <1>11 DEF Crash, Shutdown, Restart
  <2> QED BY <2>1, <2>2 DEF IndexInv, Indexed
<1>12. CASE FlushState \/ UNCHANGED vars
  BY <1>12 DEF FlushState, vars, records, IndexInv, Indexed
<1> QED BY <1>1, <1>2, <1>3, <1>4, <1>5, <1>6, <1>7, <1>8, <1>9, <1>10, <1>11, <1>12 DEF Next

-----------------------------------------------------------------------------
(* What follows: LedgerExact and StoredExact.                              *)

\* The empty node has the ledger of the genesis block.
LEMMA EmptyLedger == LedgerOf(Genesis) = [t \in Txs |-> Pruned]
BY PathGenesis DEF LedgerOf, ChainTxs

\* The invariant holds at the start ...
LEMMA CoinsInit ==
  ASSUME Init
  PROVE  CoinsInv /\ IndexInv
<1>1. Genesis \in Blocks /\ Path[Genesis] = {} /\ Good(Genesis)
  BY PathGenesis, GoodPart, TreeAssumption
<1>2. tip = Genesis /\ coins = LedgerOf(Genesis) /\ stored = [best |-> tip, coins |-> coins] /\ work = stored
  BY EmptyLedger DEF Init
<1>3. stored = ViewOf(Genesis) /\ stored.best = Genesis /\ work.best = Genesis
  BY <1>2 DEF ViewOf
<1>4. CoinsInv
  BY <1>1, <1>2, <1>3 DEF Init, CoinsInv, Connecting, Verifying
<1>5. IndexInv
  BY <1>1, <1>2 DEF Init, IndexInv
<1> QED BY <1>4, <1>5

\* ... and in every state.
LEMMA CoinsInvariant ==
  ASSUME MarkersUnspent
  PROVE  Spec => [](CoinsInv /\ IndexInv)
<1>1. Init => CoinsInv /\ IndexInv
  BY CoinsInit
<1>2. CoinsInv /\ IndexInv /\ [Next]_vars => (CoinsInv /\ IndexInv)'
  BY CoinsInvStep, IndexInvStep
<1> QED BY <1>1, <1>2, PTL DEF Spec

\* pcoinsTip is what the active chain makes of it, after any history of connected and
\* disconnected blocks, crashes, flushes and verifications.
THEOREM CoinsOfTheChain ==
  ASSUME MarkersUnspent
  PROVE  Spec => []LedgerExact
<1>1. CoinsInv => LedgerExact
  BY DEF CoinsInv, LedgerExact
<1> QED BY <1>1, CoinsInvariant, PTL

\* The database is what the chain of its best block makes of it, wherever the node stops.
THEOREM CoinsOnDisk ==
  ASSUME MarkersUnspent
  PROVE  Spec => []StoredExact
<1>1. CoinsInv => StoredExact
  BY DEF CoinsInv, StoredExact, ViewOf
<1> QED BY <1>1, CoinsInvariant, PTL

-----------------------------------------------------------------------------
(* Types.                                                                  *)

\* The types of the records, of the step and of the bounds.
RecordsTyped ==
  /\ spends \in [Serials -> Txs \cup {None}]
  /\ mints \in [Pubcoins -> Txs \cup {None}]
  /\ txIndex \in [Txs -> Blocks \cup {None}]
  /\ stakeSpent \in [Outpoints -> Nat]
  /\ step \in Steps
  /\ depth \in Nat
  /\ verifies \in 0 .. MaxVerify /\ stops \in 0 .. MaxStops

\* What is written for a block keeps its type.
LEMMA WritesTyped ==
  ASSUME RecordsTyped, NEW b \in Blocks
  PROVE  /\ WriteCoinSpendBatch(b) => spends' \in [Serials -> Txs \cup {None}]
         /\ WriteCoinMintBatch(b) => mints' \in [Pubcoins -> Txs \cup {None}]
         /\ WriteTxIndex(b) => txIndex' \in [Txs -> Blocks \cup {None}]
         /\ AddStakeSpent(b) => stakeSpent' \in [Outpoints -> Nat]
         /\ EraseRecords(b) => /\ spends' \in [Serials -> Txs \cup {None}]
                               /\ mints' \in [Pubcoins -> Txs \cup {None}]
                               /\ stakeSpent' \in [Outpoints -> Nat] /\ txIndex' = txIndex
<1>1. \A s \in SerialsOf(b) : TxOfSerial(b, s) \in Txs
  <2> SUFFICES ASSUME NEW s \in SerialsOf(b) PROVE TxOfSerial(b, s) \in Txs
    OBVIOUS
  <2>1. TxOfSerial(b, s) \in TxsOf(b)
    BY DEF SerialsOf, TxOfSerial
  <2> QED BY <2>1, TxsOfIn
<1>2. \A p \in MintsOf(b) : TxOfMint(b, p) \in Txs
  <2> SUFFICES ASSUME NEW p \in MintsOf(b) PROVE TxOfMint(b, p) \in Txs
    OBVIOUS
  <2>1. TxOfMint(b, p) \in TxsOf(b)
    BY DEF MintsOf, TxOfMint
  <2> QED BY <2>1, TxsOfIn
<1>3. WriteCoinSpendBatch(b) => spends' \in [Serials -> Txs \cup {None}]
  BY <1>1 DEF WriteCoinSpendBatch, RecordsTyped
<1>4. WriteCoinMintBatch(b) => mints' \in [Pubcoins -> Txs \cup {None}]
  BY <1>2 DEF WriteCoinMintBatch, RecordsTyped
<1>5. WriteTxIndex(b) => txIndex' \in [Txs -> Blocks \cup {None}]
  BY DEF WriteTxIndex, RecordsTyped
<1>6. AddStakeSpent(b) => stakeSpent' \in [Outpoints -> Nat]
  BY HeightOk, LimitsAssumption DEF AddStakeSpent, RecordsTyped
<1>7. EraseRecords(b) => /\ spends' \in [Serials -> Txs \cup {None}]
                         /\ mints' \in [Pubcoins -> Txs \cup {None}]
                         /\ stakeSpent' \in [Outpoints -> Nat] /\ txIndex' = txIndex
  BY DEF EraseRecords, RecordsTyped
<1> QED BY <1>3, <1>4, <1>5, <1>6, <1>7

\* The types hold at the start ...
LEMMA RecordsInit ==
  ASSUME Init
  PROVE  RecordsTyped
BY LimitsAssumption DEF Init, RecordsTyped, Steps

\* ... and in every step.
LEMMA RecordsTypedStep ==
  ASSUME tip \in Blocks, work.best \in Blocks, RecordsTyped, [Next]_vars
  PROVE  RecordsTyped'
<1>0. tip \in Blocks /\ work.best \in Blocks /\ MaxVerify \in Nat /\ MaxStops \in Nat /\ RpcDepth \in Nat /\ StartDepth \in Nat
  BY LimitsAssumption
<1>1. ASSUME NEW b \in Blocks, ConnectBlock(b) PROVE RecordsTyped'
  BY <1>1, WritesTyped DEF ConnectBlock, RecordsTyped, Steps, bounds
<1>2. ASSUME NEW b \in Blocks, VerifyReconnect(b) PROVE RecordsTyped'
  BY <1>2, WritesTyped DEF VerifyReconnect, RecordsTyped, Steps, bounds, records
<1>3. CASE ConnectMints
  BY <1>0, <1>3, WritesTyped DEF ConnectMints, RecordsTyped, Steps, bounds
<1>4. CASE ConnectIndex
  BY <1>0, <1>4, WritesTyped DEF ConnectIndex, RecordsTyped, Steps, bounds
<1>5. CASE ConnectCommit \/ DisconnectCommit
  BY <1>5 DEF ConnectCommit, DisconnectCommit, RecordsTyped, Steps, bounds, records
<1>6. CASE DisconnectBlock
  BY <1>0, <1>6, WritesTyped DEF DisconnectBlock, RecordsTyped, Steps, bounds
<1>7. CASE VerifyChain
  BY <1>0, <1>7 DEF VerifyChain, RecordsTyped, Steps, records
<1>8. CASE VerifyDisconnect
  BY <1>0, <1>8, WritesTyped DEF VerifyDisconnect, RecordsTyped, Steps, bounds
<1>9. CASE VerifyTurn \/ VerifyEnd
  BY <1>9 DEF VerifyTurn, VerifyEnd, RecordsTyped, Steps, bounds, records
<1>10. ASSUME NEW from, Restart(from) PROVE RecordsTyped'
  BY <1>0, <1>10 DEF Restart, RecordsTyped, Steps
<1>11. CASE Crash \/ Shutdown
  BY <1>10, <1>11 DEF Crash, Shutdown
<1>12. CASE FlushState
  BY <1>12 DEF FlushState, RecordsTyped, Steps, bounds, records
<1>13. CASE UNCHANGED vars
  BY <1>13 DEF vars, RecordsTyped, Steps, bounds, records
<1> QED BY <1>1, <1>2, <1>3, <1>4, <1>5, <1>6, <1>7, <1>8, <1>9, <1>11, <1>12, <1>13 DEF Next

\* The types of the coins, and what they rest on: the blocks that are disconnected have
\* undo data.  Nothing here asks for hypotheses on the transactions.
ChainTypes ==
  /\ tip \in Blocks /\ coins \in Ledgers
  /\ work.best \in Blocks /\ work.coins \in Ledgers
  /\ stored.best \in Blocks /\ stored.coins \in Ledgers /\ Path[stored.best] \subseteq Path[tip]
  /\ Connecting => /\ work.best # Genesis /\ Prev[work.best] = tip
                   /\ UndoShape(work.best, undo[work.best])
  /\ step = "undone" => tip # Genesis /\ work.best = Prev[tip]
  /\ Verifying => Path[work.best] \subseteq Path[tip]
  /\ undo = [b \in Blocks |-> undo[b]]
  /\ \A b \in Blocks : undo[b] = None \/ UndoShape(b, undo[b])
  /\ \A b \in Path[tip] : UndoShape(b, undo[b])

\* It holds at the start.
LEMMA ChainTypesInit ==
  ASSUME Init
  PROVE  ChainTypes
<1>1. [t \in Txs |-> Pruned] \in Ledgers
  BY DEF Pruned, CCoins, Ledgers
<1> QED BY <1>1, PathGenesis, TreeAssumption DEF Init, ChainTypes, Connecting, Verifying

\* No step breaks it.
LEMMA ChainTypesStep ==
  ASSUME ChainTypes, [Next]_vars
  PROVE  ChainTypes'
<1>1. ASSUME NEW b \in Blocks, ConnectBlock(b) PROVE ChainTypes'
  <2>1. /\ b # Genesis /\ Prev[b] = tip /\ step' = "mints"
        /\ work'.best = b /\ work'.coins = ApplyBlock(b, coins).coins
        /\ tip' = tip /\ coins' = coins /\ stored' = stored
        /\ undo' = IF undo[b] = None THEN [undo EXCEPT ![b] = ApplyBlock(b, coins).undo] ELSE undo
    BY <1>1 DEF ConnectBlock, WriteUndo
  <2>2. ApplyBlock(b, coins).coins \in Ledgers /\ UndoShape(b, ApplyBlock(b, coins).undo)
    BY ApplyTyped DEF ChainTypes
  <2>3. /\ undo = [c \in Blocks |-> undo[c]] /\ Path[tip] \subseteq Blocks
        /\ \A c \in Blocks : undo[c] = None \/ UndoShape(c, undo[c])
        /\ \A c \in Path[tip] : UndoShape(c, undo[c])
    BY PathPart DEF ChainTypes
  <2>4. /\ undo' = [c \in Blocks |-> undo'[c]] /\ UndoShape(b, undo'[b])
        /\ \A c \in Blocks \ {b} : undo'[c] = undo[c]
    BY <2>1, <2>2, <2>3
  <2>5. /\ \A c \in Blocks : undo'[c] = None \/ UndoShape(c, undo'[c])
        /\ \A c \in Path[tip] : UndoShape(c, undo'[c])
    BY <2>3, <2>4
  <2> QED BY <2>1, <2>2, <2>4, <2>5 DEF ChainTypes, Connecting, Verifying
<1>2. ASSUME NEW b \in Blocks, VerifyReconnect(b) PROVE ChainTypes'
  <2>1. b \in Path[tip] /\ step = "reconnect" /\ UNCHANGED <<tip, coins, stored, undo>>
    BY <1>2 DEF VerifyReconnect
  <2>2. CASE step' = "failed" /\ work' = work
    BY <2>1, <2>2 DEF ChainTypes, Connecting, Verifying
  <2>3. CASE step' = step /\ work' = [best |-> b, coins |-> ApplyBlock(b, work.coins).coins]
    <3>1. ApplyBlock(b, work.coins).coins \in Ledgers
      BY ApplyTyped DEF ChainTypes
    <3>2. Path[b] \subseteq Path[tip]
      BY <2>1, PathPart DEF ChainTypes
    <3>3. work'.best = b /\ work'.coins \in Ledgers
      BY <2>3, <3>1
    <3> QED BY <2>1, <2>3, <3>2, <3>3 DEF ChainTypes, Connecting, Verifying
  <2> QED BY <1>2, <2>2, <2>3 DEF VerifyReconnect
<1>3. CASE ConnectMints
  BY <1>3 DEF ConnectMints, ChainTypes, Connecting, Verifying
<1>4. CASE ConnectIndex
  BY <1>4 DEF ConnectIndex, ChainTypes, Connecting, Verifying
<1>5. CASE ConnectCommit
  <2>1. /\ step = "commit" /\ step' = "up" /\ tip' = work.best /\ coins' = work.coins
        /\ work' = work /\ undo' = undo
        /\ stored' = [best |-> tip', coins |-> coins'] \/ stored' = stored
    BY <1>5 DEF ConnectCommit, Flush
  <2>2. Path[work.best] = Path[tip] \cup {work.best}
    BY <2>1, PathIs DEF ChainTypes, Connecting
  <2>3. /\ stored'.best \in Blocks /\ stored'.coins \in Ledgers
        /\ Path[stored'.best] \subseteq Path[work.best]
    BY <2>1, <2>2 DEF ChainTypes
  <2>4. \A c \in Path[work.best] : UndoShape(c, undo[c])
    BY <2>1, <2>2 DEF ChainTypes, Connecting
  <2> QED BY <2>1, <2>3, <2>4 DEF ChainTypes, Connecting, Verifying
<1>6. CASE DisconnectBlock
  <2>1. /\ tip # Genesis /\ step' \in {"undone", "failed"} /\ UNCHANGED <<tip, coins, stored, undo>>
        /\ work' = [best |-> Prev[tip], coins |-> UndoBlock(tip, coins).coins]
    BY <1>6 DEF DisconnectBlock
  <2>2. Prev[tip] \in Blocks /\ UndoShape(tip, undo[tip])
    BY <2>1, PathIs DEF ChainTypes
  <2>3. work'.best = Prev[tip] /\ work'.coins \in Ledgers
    BY <2>1, <2>2, UndoBlockTyped DEF ChainTypes
  <2> QED BY <2>1, <2>2, <2>3 DEF ChainTypes, Connecting, Verifying
<1>7. CASE DisconnectCommit
  <2>1. /\ step = "undone" /\ step' = "up" /\ tip' = work.best /\ coins' = work.coins
        /\ work' = work /\ undo' = undo /\ stored' = [best |-> tip', coins |-> coins']
    BY <1>7 DEF DisconnectCommit, Flush
  <2>2. Path[work.best] \subseteq Path[tip]
    BY <2>1, PathIs DEF ChainTypes
  <2> QED BY <2>1, <2>2 DEF ChainTypes, Connecting, Verifying
<1>8. CASE VerifyChain
  BY <1>8 DEF VerifyChain, View, ChainTypes, Connecting, Verifying
<1>9. CASE VerifyDisconnect
  <2>1. /\ work.best # Genesis /\ step = "down" /\ step' \in {"down", "failed"}
        /\ UNCHANGED <<tip, coins, stored, undo>>
        /\ work' = [best |-> Prev[work.best], coins |-> UndoBlock(work.best, work.coins).coins]
    BY <1>9 DEF VerifyDisconnect
  <2>2. /\ Path[work.best] = Path[Prev[work.best]] \cup {work.best} /\ Prev[work.best] \in Blocks
        /\ Path[work.best] \subseteq Path[tip]
    BY <2>1, PathIs DEF ChainTypes, Verifying
  <2>3. UndoShape(work.best, undo[work.best])
    BY <2>2 DEF ChainTypes
  <2>4. work'.best = Prev[work.best] /\ work'.coins \in Ledgers
    BY <2>1, <2>3, UndoBlockTyped DEF ChainTypes
  <2> QED BY <2>1, <2>2, <2>4 DEF ChainTypes, Connecting, Verifying
<1>10. CASE VerifyTurn \/ VerifyEnd
  BY <1>10 DEF VerifyTurn, VerifyEnd, ChainTypes, Connecting, Verifying
<1>11. CASE Crash \/ Shutdown
  <2>1. ASSUME NEW from, from = stored \/ from = View, Restart(from) PROVE ChainTypes'
    <3>1. /\ stored' = from /\ tip' = from.best /\ coins' = from.coins /\ work' = from
          /\ step' = "down" /\ undo' = undo
      BY <2>1 DEF Restart
    <3>2. from.best \in Blocks /\ from.coins \in Ledgers /\ Path[from.best] \subseteq Path[tip]
      BY <2>1 DEF View, ChainTypes
    <3>3. \A c \in Path[from.best] : UndoShape(c, undo[c])
      BY <3>2 DEF ChainTypes
    <3> QED BY <3>1, <3>2, <3>3 DEF ChainTypes, Connecting, Verifying
  <2> QED BY <1>11, <2>1 DEF Crash, Shutdown
<1>12. CASE FlushState
  <2>1. /\ UNCHANGED <<tip, coins, step, work, undo>> /\ stored' = [best |-> tip', coins |-> coins']
    BY <1>12 DEF FlushState, Flush
  <2> QED BY <2>1 DEF ChainTypes, Connecting, Verifying
<1>13. CASE UNCHANGED vars
  BY <1>13 DEF vars, ChainTypes, Connecting, Verifying
<1> QED BY <1>1, <1>2, <1>3, <1>4, <1>5, <1>6, <1>7, <1>8, <1>9, <1>10, <1>11, <1>12, <1>13 DEF Next

\* Types, and the undo data of a block has one element for each transaction, whatever the
\* blocks hold and however deep a verification goes.
THEOREM LedgerTypes == Spec => []TypeOK
<1>1. Init => ChainTypes /\ RecordsTyped
  BY ChainTypesInit, RecordsInit
<1>2. ChainTypes /\ RecordsTyped /\ [Next]_vars => (ChainTypes /\ RecordsTyped)'
  <2>1. ChainTypes => tip \in Blocks /\ work.best \in Blocks
    BY DEF ChainTypes
  <2> QED BY <2>1, ChainTypesStep, RecordsTypedStep
<1>3. ChainTypes /\ RecordsTyped => TypeOK
  BY DEF ChainTypes, RecordsTyped, TypeOK, Ledgers, UndoShape
<1> QED BY <1>1, <1>2, <1>3, PTL DEF Spec

-----------------------------------------------------------------------------
(* The zerocoin database: the invariant.                                   *)

\* VerifyDB undoes all it means to, and the RPC no more than the startup: hypotheses
\* that ledger_verifychain shows to be needed.
VerifyDeep == CacheFits /\ (RpcDepth <= StartDepth \/ MaxVerify = 0)

\* The zerocoin database holds the spends and the mints of b, or nothing of them.
SpendsOn(b) == \A s \in SerialsOf(b) : spends[s] = TxOfSerial(b, s)
TrackedOf(b) == MintsOf(b) \cap Tracked
MintsOn(b) == \A p \in TrackedOf(b) : mints[p] = TxOfMint(b, p)
OnRecord(b) == SpendsOn(b) /\ MintsOn(b)
Erased(b) == (\A s \in SerialsOf(b) : spends[s] = None) /\ (\A p \in TrackedOf(b) : mints[p] = None)
Disjoint(b, c) == SerialsOf(b) \cap SerialsOf(c) = {} /\ TrackedOf(b) \cap TrackedOf(c) = {}
Apart(b) == \A c, d \in Path[b] : c # d => Disjoint(c, d)

\* The blocks of the active chain are on record, but for those that VerifyDB has undone,
\* or is about to: all it leaves alone are on record.
ZeroInv ==
  /\ Apart(tip)
  /\ Connecting => Apart(work.best) /\ SpendsOn(work.best)
  /\ step \in {"index", "commit"} => MintsOn(work.best)
  /\ step = "up" \/ Connecting => \A b \in Path[tip] : OnRecord(b)
  /\ step \in {"undone", "reconnect"} => \A b \in Path[work.best] : OnRecord(b)
  /\ Verifying => /\ \A b \in Path[tip] : Height(b) < Height(tip) - depth => OnRecord(b)
                  /\ \A b \in Path[tip] \ Path[work.best] : Erased(b)
  /\ depth <= StartDepth
  /\ step # "failed"

\* The serials and the pubcoins of a block.
LEMMA ZerocoinsOf ==
  ASSUME NEW b \in Blocks
  PROVE  /\ SerialsOf(b) \subseteq Serials /\ MintsOf(b) \subseteq Pubcoins
         /\ \A s \in SerialsOf(b) : TxOfSerial(b, s) \in TxsOf(b) /\ s \in Serial[TxOfSerial(b, s)]
         /\ \A p \in MintsOf(b) : TxOfMint(b, p) \in TxsOf(b) /\ p \in Mint[TxOfMint(b, p)]
         /\ \A t \in TxsOf(b) : Serial[t] \subseteq SerialsOf(b) /\ Mint[t] \subseteq MintsOf(b)
         /\ \A p \in TrackedOf(b) : p \in MintsOf(b)
<1>1. SerialsOf(b) \subseteq Serials /\ MintsOf(b) \subseteq Pubcoins
  BY TxsOfIn, TxsAssumption DEF SerialsOf, MintsOf
<1>2. \A s \in SerialsOf(b) : TxOfSerial(b, s) \in TxsOf(b) /\ s \in Serial[TxOfSerial(b, s)]
  BY DEF SerialsOf, TxOfSerial
<1>3. \A p \in MintsOf(b) : TxOfMint(b, p) \in TxsOf(b) /\ p \in Mint[TxOfMint(b, p)]
  BY DEF MintsOf, TxOfMint
<1>4. \A t \in TxsOf(b) : Serial[t] \subseteq SerialsOf(b) /\ Mint[t] \subseteq MintsOf(b)
  BY DEF SerialsOf, MintsOf
<1>5. \A p \in TrackedOf(b) : p \in MintsOf(b)
  BY DEF TrackedOf
<1> QED BY <1>1, <1>2, <1>3, <1>4, <1>5

\* A serial is revealed by one transaction of a block.
LEMMA OneOfSerial ==
  ASSUME NEW b \in Blocks, NEW t \in TxsOf(b), NEW u \in TxsOf(b), Serial[t] \cap Serial[u] # {}
  PROVE  t = u
<1>1. PICK i \in 1 .. Len(Contents[b]) : t = Contents[b][i]
  BY VtxIs
<1>2. PICK j \in 1 .. Len(Contents[b]) : u = Contents[b][j]
  BY VtxIs
<1>3. i \in DOMAIN Contents[b] /\ j \in DOMAIN Contents[b]
  BY VtxIs
<1>4. i # j => Serial[Contents[b][i]] \cap Serial[Contents[b][j]] = {}
  BY <1>3, BlocksAssumption
<1> QED BY <1>1, <1>2, <1>4

\* To write the spends of a block ...
LEMMA SpendsWritten ==
  ASSUME NEW b \in Blocks, WriteCoinSpendBatch(b)
  PROVE  /\ SpendsOn(b)'
         /\ \A c \in Blocks : Disjoint(b, c) =>
               /\ SpendsOn(c) => SpendsOn(c)'
               /\ \A s \in SerialsOf(c) : spends'[s] = spends[s]
BY ZerocoinsOf DEF WriteCoinSpendBatch, SpendsOn, Disjoint

\* ... or its mints leaves those of other blocks alone ...
LEMMA MintsWritten ==
  ASSUME NEW b \in Blocks, WriteCoinMintBatch(b)
  PROVE  /\ MintsOn(b)'
         /\ \A c \in Blocks : Disjoint(b, c) =>
               /\ MintsOn(c) => MintsOn(c)'
               /\ \A p \in TrackedOf(c) : mints'[p] = mints[p]
BY ZerocoinsOf DEF WriteCoinMintBatch, MintsOn, Disjoint, TrackedOf

\* ... and so does to erase them.
LEMMA RecordsErased ==
  ASSUME NEW b \in Blocks, EraseRecords(b)
  PROVE  /\ Erased(b)'
         /\ \A c \in Blocks : Disjoint(b, c) => (OnRecord(c) => OnRecord(c)') /\ (Erased(c) => Erased(c)')
<1>1. /\ spends' = [s \in Serials |-> IF s \in SerialsOf(b) THEN None ELSE spends[s]]
      /\ mints' = [p \in Pubcoins |-> IF p \in MintsOf(b) THEN None ELSE mints[p]]
  BY DEF EraseRecords
<1>2. Erased(b)'
  BY <1>1, ZerocoinsOf DEF Erased
<1>3. ASSUME NEW c \in Blocks, Disjoint(b, c) PROVE (OnRecord(c) => OnRecord(c)') /\ (Erased(c) => Erased(c)')
  <2>1. \A s \in SerialsOf(c) : spends'[s] = spends[s]
    BY <1>1, <1>3, ZerocoinsOf DEF Disjoint
  <2>2. \A p \in TrackedOf(c) : mints'[p] = mints[p]
    BY <1>1, <1>3, ZerocoinsOf DEF Disjoint, TrackedOf
  <2> QED BY <2>1, <2>2 DEF OnRecord, SpendsOn, MintsOn, Erased
<1> QED BY <1>2, <1>3

\* When the blocks of the active chain are on record, ConnectBlock knows their serials
\* and, where it looks, their pubcoins: a valid block has none of them.
LEMMA NewZerocoins ==
  ASSUME CoinsInv, IndexInv, NEW b \in Blocks \ {Genesis}, Prev[b] = tip, Valid(b, coins),
         NEW c \in Path[tip], OnRecord(c)
  PROVE  Disjoint(b, c)
<1>1. c \in Blocks /\ TxsOf(c) \subseteq ChainTxs(tip) /\ tip \in Blocks
  BY InvChains, PathPart, InChain
<1>2. \A t \in TxsOf(c) : t # None /\ IsTransactionInChain(t)
  BY <1>1, InChainIndexed, TxsAssumption
<1>3. ASSUME NEW s \in SerialsOf(c) PROVE s \notin SerialsOf(b)
  <2>1. SerialKnown(s)
    BY <1>1, <1>2, ZerocoinsOf DEF SerialKnown, OnRecord, SpendsOn
  <2> QED BY <2>1 DEF SerialsOf, Valid, ZerocoinOk
<1>4. ASSUME NEW p \in TrackedOf(c) PROVE p \notin TrackedOf(b)
  <2>1. CASE MintsChecked
    <3>1. MintKnown(p)
      BY <1>1, <1>2, ZerocoinsOf DEF MintKnown, OnRecord, MintsOn
    <3> QED BY <2>1, <3>1 DEF MintsOf, TrackedOf, Valid, ZerocoinOk
  <2>2. CASE ~MintsChecked
    <3>1. b \in Path[b] /\ c \in Path[b] /\ b # c
      BY <1>1, PathIs, PathNoLoop
    <3>2. p \in MintsOf(b) => p \in MintedTwice
      BY <1>1, <3>1, ZerocoinsOf DEF MintedTwice
    <3> QED BY <2>2, <3>2 DEF Tracked, TrackedOf
  <2> QED BY <2>1, <2>2
<1> QED BY <1>3, <1>4 DEF Disjoint

\* A block that VerifyDB has undone is valid again.
LEMMA ValidAgain ==
  ASSUME CoinsInv, IndexInv, NEW b \in Path[tip], Prev[b] = work.best, Verifying, Erased(b)
  PROVE  Valid(b, work.coins)
<1>1. /\ b \in Blocks \ {Genesis} /\ Good(b) /\ Connects(b) /\ Prev[b] \in Blocks
      /\ work.coins = LedgerOf(Prev[b])
  BY InvChains, PathPart, GoodPart DEF CoinsInv
<1>2. ASSUME NEW t \in TxsOf(b) PROVE work.coins[t].outs = {}
  <2>1. t \in Txs /\ t \notin ChainTxs(Prev[b])
    BY <1>1, TxsOfIn DEF Connects
  <2>2. LedgerOf(Prev[b])[t] = Pruned
    BY <2>1 DEF LedgerOf
  <2> QED BY <1>1, <2>2 DEF Pruned
<1>3. ASSUME NEW t \in TxsOf(b) PROVE ZerocoinOk(t, b)
  <2>1. txIndex[t] = b
    BY DEF IndexInv, Indexed
  <2>2. Height(b) \in Nat
    BY <1>1, HeightOk
  <2>3. Height(b) <= Height(txIndex[t])
    BY <2>1, <2>2
  <2>4. \A s \in Serial[t] : ~SerialKnown(s)
    BY <1>1, ZerocoinsOf DEF Erased, SerialKnown
  <2>5. MintsChecked => \A p \in Mint[t] : ~MintKnown(p)
    BY <1>1, ZerocoinsOf DEF Erased, MintKnown, Tracked, TrackedOf
  <2> QED BY <2>3, <2>4, <2>5 DEF ZerocoinOk
<1> QED BY <1>1, <1>2, <1>3 DEF Valid, Connects

-----------------------------------------------------------------------------
(* Every step keeps it.                                                    *)

\* ConnectBlock finds the block apart from the chain, and writes its spends.
LEMMA ZeroConnect ==
  ASSUME CoinsInv, IndexInv, ZeroInv, NEW b \in Blocks, ConnectBlock(b)
  PROVE  ZeroInv'
<1>1. /\ b \in Blocks \ {Genesis} /\ Prev[b] = tip /\ Valid(b, coins) /\ step = "up"
      /\ step' = "mints" /\ work'.best = b /\ WriteCoinSpendBatch(b)
      /\ mints' = mints /\ tip' = tip /\ depth' = depth
  BY DEF ConnectBlock
<1>2. \A c \in Path[tip] : c \in Blocks /\ OnRecord(c) /\ Disjoint(b, c) /\ Disjoint(c, b)
  <2> SUFFICES ASSUME NEW c \in Path[tip] PROVE c \in Blocks /\ OnRecord(c) /\ Disjoint(b, c) /\ Disjoint(c, b)
    OBVIOUS
  <2>1. OnRecord(c) /\ c \in Blocks
    BY <1>1, InvChains, PathPart DEF ZeroInv
  <2>2. Disjoint(b, c)
    BY <1>1, <2>1, NewZerocoins
  <2> QED BY <2>1, <2>2 DEF Disjoint
<1>3. Path[b] = Path[tip] \cup {b}
  BY <1>1, PathIs
<1>4. Apart(tip) /\ Apart(b)
  BY <1>2, <1>3 DEF ZeroInv, Apart
<1>5. SpendsOn(b)' /\ \A c \in Path[tip] : OnRecord(c)'
  <2>1. \A c \in Path[tip] : SpendsOn(c)' /\ MintsOn(c)'
    BY <1>1, <1>2, SpendsWritten DEF OnRecord, MintsOn
  <2> QED BY <1>1, <2>1, SpendsWritten DEF OnRecord
<1> QED BY <1>1, <1>4, <1>5 DEF ZeroInv, Connecting, Verifying

\* The mints of the block at work.
LEMMA ZeroMints ==
  ASSUME CoinsInv, ZeroInv, ConnectMints
  PROVE  ZeroInv'
<1> DEFINE b == work.best
<1>1. /\ step = "mints" /\ step' = "index" /\ tip' = tip /\ work' = work /\ depth' = depth
      /\ spends' = spends /\ WriteCoinMintBatch(b)
  BY DEF ConnectMints
<1>2. b \in Blocks \ {Genesis} /\ Path[b] = Path[tip] \cup {b} /\ b \notin Path[tip]
  BY <1>1, InvConnecting, PathNoLoop DEF Connecting, CoinsInv
<1>3. Apart(b) /\ SpendsOn(b) /\ \A c \in Path[tip] : OnRecord(c)
  BY <1>1 DEF ZeroInv, Connecting
<1>4. \A c \in Path[tip] : c \in Blocks /\ Disjoint(b, c)
  BY <1>2, <1>3, PathPart, InvChains DEF Apart
<1>5. MintsOn(b)' /\ SpendsOn(b)' /\ \A c \in Path[tip] : OnRecord(c)'
  <2>1. \A c \in Path[tip] : SpendsOn(c)' /\ MintsOn(c)'
    BY <1>1, <1>2, <1>3, <1>4, MintsWritten DEF OnRecord, SpendsOn
  <2> QED BY <1>1, <1>2, <1>3, <2>1, MintsWritten DEF OnRecord, SpendsOn
<1> QED BY <1>1, <1>3, <1>5 DEF ZeroInv, Connecting, Verifying

\* ConnectTip ends with the new tip on record.
LEMMA ZeroCommit ==
  ASSUME CoinsInv, ZeroInv, ConnectCommit
  PROVE  ZeroInv'
<1>1. /\ step = "commit" /\ step' = "up" /\ tip' = work.best /\ depth' = depth
      /\ spends' = spends /\ mints' = mints
  BY DEF ConnectCommit, records
<1>2. Path[work.best] = Path[tip] \cup {work.best}
  BY <1>1, InvConnecting DEF Connecting
<1>3. Apart(work.best) /\ \A c \in Path[work.best] : OnRecord(c)
  BY <1>1, <1>2 DEF ZeroInv, Connecting, OnRecord
<1>4. Apart(tip') /\ \A c \in Path[tip'] : OnRecord(c)'
  BY <1>1, <1>3 DEF OnRecord, SpendsOn, MintsOn
<1> QED BY <1>1, <1>4 DEF ZeroInv, Connecting, Verifying

\* DisconnectTip erases the tip and nothing else.
LEMMA ZeroDisconnect ==
  ASSUME MarkersUnspent, CoinsInv, ZeroInv, DisconnectBlock
  PROVE  ZeroInv'
<1>1. /\ tip \in Blocks \ {Genesis} /\ step = "up" /\ step' = "undone" /\ work'.best = Prev[tip]
      /\ EraseRecords(tip) /\ tip' = tip /\ depth' = depth
  BY InvChains, CoinsDisconnect DEF DisconnectBlock
<1>2. Path[tip] = Path[Prev[tip]] \cup {tip} /\ tip \notin Path[Prev[tip]]
  BY <1>1, PathIs, PathNoLoop
<1>3. \A c \in Path[Prev[tip]] : c \in Blocks /\ Disjoint(tip, c) /\ OnRecord(c)
  BY <1>1, <1>2, PathPart DEF ZeroInv, Apart
<1>4. \A c \in Path[Prev[tip]] : OnRecord(c)'
  BY <1>1, <1>3, RecordsErased
<1> QED BY <1>1, <1>4 DEF ZeroInv, Connecting, Verifying

\* DisconnectTip ends with the new tip on record.
LEMMA ZeroDisconnected ==
  ASSUME CoinsInv, ZeroInv, DisconnectCommit
  PROVE  ZeroInv'
<1>1. /\ step = "undone" /\ step' = "up" /\ tip' = work.best /\ depth' = depth
      /\ spends' = spends /\ mints' = mints
  BY DEF DisconnectCommit, records
<1>2. Path[work.best] \subseteq Path[tip]
  BY <1>1, InvChains, PathIs DEF CoinsInv
<1>3. Apart(work.best) /\ \A c \in Path[work.best] : OnRecord(c)
  BY <1>1, <1>2 DEF ZeroInv, Apart
<1>4. Apart(tip') /\ \A c \in Path[tip'] : OnRecord(c)'
  BY <1>1, <1>3 DEF OnRecord, SpendsOn, MintsOn
<1> QED BY <1>1, <1>4 DEF ZeroInv, Connecting, Verifying

\* VerifyDB undoes a block of the depth it has.
LEMMA ZeroVerifyDown ==
  ASSUME MarkersUnspent, CoinsInv, ZeroInv, RecordsTyped, VerifyDisconnect
  PROVE  ZeroInv'
<1>0. PICK b \in Blocks : b = work.best
  BY InvChains
<1>1. /\ b \in Blocks \ {Genesis} /\ step = "down" /\ step' = "down" /\ work'.best = Prev[b]
      /\ ~(Height(b) < Height(tip) - depth)
      /\ EraseRecords(b) /\ tip' = tip /\ depth' = depth
  <2>1. Height(work.best) >= Height(tip) - depth
    BY DEF VerifyDisconnect
  <2>2. Height(work.best) \in Int /\ Height(tip) - depth \in Int
    BY <2>1, InvChains, HeightOk DEF RecordsTyped
  <2> QED BY <1>0, <2>1, <2>2, InvChains, CoinsVerifyDown DEF VerifyDisconnect
<1>2. Path[b] = Path[Prev[b]] \cup {b} /\ b \notin Path[Prev[b]] /\ b \in Path[tip] /\ tip \in Blocks
  BY <1>0, <1>1, InvChains, PathIs, PathNoLoop DEF CoinsInv, Verifying
<1>3. \A c \in Path[tip] \ {b} : c \in Blocks /\ Disjoint(b, c)
  BY <1>2, PathPart DEF ZeroInv, Apart
<1>4. Erased(b)' /\ \A c \in Path[tip] \ {b} : (OnRecord(c) => OnRecord(c)') /\ (Erased(c) => Erased(c)')
  BY <1>1, <1>3, RecordsErased
<1>5. /\ \A c \in Path[tip] : Height(c) < Height(tip) - depth => OnRecord(c)
      /\ \A c \in Path[tip] \ Path[b] : Erased(c)
  BY <1>0, <1>1 DEF ZeroInv, Verifying
<1>6. \A c \in Path[tip] : Height(c) < Height(tip) - depth => OnRecord(c)'
  BY <1>1, <1>4, <1>5
<1>7. \A c \in Path[tip] \ Path[Prev[b]] : Erased(c)'
  BY <1>2, <1>4, <1>5
<1> QED BY <1>1, <1>6, <1>7 DEF ZeroInv, Connecting, Verifying

\* It turns when what is left is below that depth, and so on record.
LEMMA ZeroTurn ==
  ASSUME VerifyDeep, CoinsInv, ZeroInv, VerifyTurn, RecordsTyped
  PROVE  ZeroInv'
<1>1. /\ step = "down" /\ step' = "reconnect" /\ tip' = tip /\ work' = work /\ depth' = depth
      /\ spends' = spends /\ mints' = mints
      /\ work.best = Genesis \/ Height(work.best) < Height(tip) - depth
  BY DEF VerifyTurn, records, VerifyDeep
<1>2. /\ \A c \in Path[tip] : Height(c) < Height(tip) - depth => OnRecord(c)
      /\ \A c \in Path[tip] \ Path[work.best] : Erased(c)
      /\ Path[work.best] \subseteq Path[tip]
  BY <1>1 DEF ZeroInv, CoinsInv, Verifying
<1>3. \A c \in Path[work.best] : OnRecord(c)
  <2>1. CASE work.best = Genesis
    BY <2>1, PathGenesis
  <2>2. ASSUME Height(work.best) < Height(tip) - depth, NEW c \in Path[work.best] PROVE OnRecord(c)
    <3>1. Height(c) \in Nat /\ Height(c) <= Height(work.best)
      BY InvChains, PathPart
    <3>2. Height(work.best) \in Nat /\ Height(tip) \in Nat
      BY InvChains, HeightOk
    <3>3. Height(c) < Height(tip) - depth
      BY <2>2, <3>1, <3>2 DEF RecordsTyped
    <3> QED BY <1>2, <2>2, <3>3
  <2> QED BY <1>1, <2>1, <2>2
<1>4. /\ \A c \in Path[tip] : OnRecord(c)' = OnRecord(c)
      /\ \A c \in Path[tip] : Erased(c)' = Erased(c)
  BY <1>1 DEF OnRecord, SpendsOn, MintsOn, Erased
<1>5. /\ \A c \in Path[tip] : Height(c) < Height(tip) - depth => OnRecord(c)'
      /\ \A c \in Path[tip] \ Path[work.best] : Erased(c)'
      /\ \A c \in Path[work.best] : OnRecord(c)'
  BY <1>2, <1>3, <1>4
<1> QED BY <1>1, <1>5 DEF ZeroInv, Connecting, Verifying

\* A block that was undone is valid again, and goes on record.
LEMMA ZeroVerifyUp ==
  ASSUME CoinsInv, IndexInv, ZeroInv, NEW b \in Blocks, VerifyReconnect(b)
  PROVE  ZeroInv'
<1>1. step = "reconnect" /\ b \in Path[tip] /\ Prev[b] = work.best
  BY DEF VerifyReconnect
<1>2. /\ b \in Blocks \ {Genesis} /\ Path[b] = Path[work.best] \cup {b} /\ b \notin Path[work.best]
      /\ tip \in Blocks /\ Path[work.best] \subseteq Path[tip]
  BY <1>1, InvChains, PathPart, PathIs, PathNoLoop DEF CoinsInv, Verifying
<1>3. /\ \A c \in Path[tip] : Height(c) < Height(tip) - depth => OnRecord(c)
      /\ \A c \in Path[tip] \ Path[work.best] : Erased(c)
      /\ \A c \in Path[work.best] : OnRecord(c)
  BY <1>1 DEF ZeroInv, Verifying
<1>4. Valid(b, work.coins)
  BY <1>1, <1>2, <1>3, ValidAgain DEF Verifying
<1>5. /\ work'.best = b /\ step' = step /\ WriteCoinSpendBatch(b) /\ WriteCoinMintBatch(b)
      /\ tip' = tip /\ depth' = depth
  BY <1>4 DEF VerifyReconnect
<1>6. \A c \in Path[tip] \ {b} : c \in Blocks /\ Disjoint(b, c)
  BY <1>1, <1>2, PathPart DEF ZeroInv, Apart
<1>7. OnRecord(b)'
  BY <1>2, <1>5, SpendsWritten, MintsWritten DEF OnRecord
<1>8. ASSUME NEW c \in Path[tip] \ {b} PROVE (OnRecord(c) => OnRecord(c)') /\ (Erased(c) => Erased(c)')
  <2>1. (SpendsOn(c) => SpendsOn(c)') /\ \A s \in SerialsOf(c) : spends'[s] = spends[s]
    BY <1>2, <1>5, <1>6, SpendsWritten
  <2>2. (MintsOn(c) => MintsOn(c)') /\ \A p \in TrackedOf(c) : mints'[p] = mints[p]
    BY <1>2, <1>5, <1>6, MintsWritten
  <2> QED BY <2>1, <2>2 DEF OnRecord, Erased
<1>9. /\ \A c \in Path[tip] : Height(c) < Height(tip) - depth => OnRecord(c)'
      /\ \A c \in Path[tip] \ Path[b] : Erased(c)'
      /\ \A c \in Path[b] : OnRecord(c)'
  BY <1>2, <1>3, <1>7, <1>8
<1> QED BY <1>1, <1>5, <1>9 DEF ZeroInv, Connecting, Verifying

\* What is on record when the node stops is, below the depth of the verification that
\* follows, all of the chain it starts with.
LEMMA ZeroRestart ==
  ASSUME CoinsInv, ZeroInv, RecordsTyped, NEW from \in {stored, View}, Restart(from)
  PROVE  ZeroInv'
<1>1. /\ step' = "down" /\ depth' = StartDepth /\ spends' = spends /\ mints' = mints
      /\ tip' = from.best /\ work'.best = tip'
  BY DEF Restart
<1>2. Path[tip'] \subseteq Path[tip] /\ tip' \in Blocks
  BY CoinsRestart DEF CoinsInv, Good
<1>3. StartDepth \in Nat /\ depth <= StartDepth /\ tip \in Blocks
  BY InvChains, LimitsAssumption DEF ZeroInv, RecordsTyped
<1>4. Height(tip') <= Height(tip) /\ Height(tip') \in Nat /\ Height(tip) \in Nat
  BY <1>2, <1>3, HeightOk
<1>5. ASSUME NEW c \in Path[tip'], Height(c) < Height(tip') - StartDepth PROVE OnRecord(c)
  <2>1. c \in Path[tip] /\ Height(c) \in Nat
    BY <1>2, <1>3, PathPart
  <2>2. CASE step = "up" \/ Connecting
    BY <2>1, <2>2 DEF ZeroInv
  <2>3. CASE step = "undone"
    <3>1. tip \in Blocks \ {Genesis} /\ work.best = Prev[tip]
      BY <2>3, InvChains DEF CoinsInv
    <3>2. Height(c) < Height(tip)
      BY <1>3, <1>4, <1>5, <2>1
    <3>3. c \in Path[work.best]
      BY <2>1, <3>1, <3>2, PathPart
    <3> QED BY <2>3, <3>3 DEF ZeroInv
  <2>4. CASE Verifying
    <3>1. Height(c) < Height(tip) - depth
      BY <1>3, <1>4, <1>5, <2>1 DEF RecordsTyped
    <3> QED BY <2>1, <2>4, <3>1 DEF ZeroInv
  <2>5. CASE step = "failed"
    BY <2>5 DEF ZeroInv
  <2>6. step = "up" \/ Connecting \/ step = "undone" \/ Verifying \/ step = "failed"
    BY DEF RecordsTyped, Steps, Connecting, Verifying
  <2> QED BY <2>2, <2>3, <2>4, <2>5, <2>6
<1>6. Apart(tip')
  BY <1>2 DEF ZeroInv, Apart
<1>7. \A c \in Path[tip'] : Height(c) < Height(tip') - StartDepth => OnRecord(c)'
  BY <1>1, <1>5 DEF OnRecord, SpendsOn, MintsOn
<1> QED BY <1>1, <1>3, <1>6, <1>7 DEF ZeroInv, Connecting, Verifying

-----------------------------------------------------------------------------
(* What follows: ZerocoinsRecorded, NoSerialTwice, UndoIsClean.            *)

\* No step breaks it.
LEMMA ZeroInvStep ==
  ASSUME MarkersUnspent, VerifyDeep, CoinsInv, IndexInv, RecordsTyped, ZeroInv, [Next]_vars
  PROVE  ZeroInv'
<1>1. CASE \E b \in Blocks : ConnectBlock(b)
  BY <1>1, ZeroConnect
<1>2. CASE \E b \in Blocks : VerifyReconnect(b)
  BY <1>2, ZeroVerifyUp
<1>3. CASE ConnectMints
  BY <1>3, ZeroMints
<1>4. CASE ConnectIndex
  BY <1>4 DEF ConnectIndex, ZeroInv, Connecting, Verifying, Apart, OnRecord, SpendsOn, MintsOn
<1>5. CASE ConnectCommit
  BY <1>5, ZeroCommit
<1>6. CASE DisconnectBlock
  BY <1>6, ZeroDisconnect
<1>7. CASE DisconnectCommit
  BY <1>7, ZeroDisconnected
<1>8. CASE VerifyChain
  <2>1. /\ step = "up" /\ step' = "down" /\ tip' = tip /\ work'.best = tip /\ depth' = RpcDepth
        /\ spends' = spends /\ mints' = mints /\ verifies < MaxVerify
    BY <1>8 DEF VerifyChain, View, records
  <2>2. RpcDepth <= StartDepth
    <3>1. MaxVerify # 0
      BY <2>1, LimitsAssumption DEF RecordsTyped
    <3> QED BY <3>1 DEF VerifyDeep
  <2>3. Apart(tip) /\ \A c \in Path[tip] : OnRecord(c)'
    BY <2>1 DEF ZeroInv, OnRecord, SpendsOn, MintsOn
  <2> QED BY <2>1, <2>2, <2>3 DEF ZeroInv, Connecting, Verifying
<1>9. CASE VerifyDisconnect
  BY <1>9, ZeroVerifyDown
<1>10. CASE VerifyTurn
  BY <1>10, ZeroTurn
<1>11. CASE VerifyEnd
  BY <1>11 DEF VerifyEnd, records, ZeroInv, Connecting, Verifying, Apart, OnRecord, SpendsOn, MintsOn
<1>12. CASE Crash \/ Shutdown
  BY <1>12, ZeroRestart DEF Crash, Shutdown
<1>13. CASE FlushState \/ UNCHANGED vars
  <2>1. /\ tip' = tip /\ work' = work /\ step' = step /\ depth' = depth /\ spends' = spends /\ mints' = mints
    BY <1>13 DEF FlushState, vars, records
  <2> QED BY <2>1 DEF ZeroInv, Connecting, Verifying, Apart, OnRecord, SpendsOn, MintsOn, Erased
<1> QED BY <1>1, <1>2, <1>3, <1>4, <1>5, <1>6, <1>7, <1>8, <1>9, <1>10, <1>11, <1>12, <1>13 DEF Next

\* The invariants together.
LEMMA ZeroInvariant ==
  ASSUME MarkersUnspent, VerifyDeep
  PROVE  Spec => [](CoinsInv /\ IndexInv /\ ZeroInv)
<1>1. Init => RecordsTyped /\ ZeroInv
  <2>1. Init => RecordsTyped
    BY RecordsInit
  <2>2. Init => ZeroInv
    BY PathGenesis, LimitsAssumption DEF Init, ZeroInv, Connecting, Verifying, Apart
  <2> QED BY <2>1, <2>2
<1>2. CoinsInv /\ RecordsTyped /\ [Next]_vars => RecordsTyped'
  BY InvChains, RecordsTypedStep
<1>3. CoinsInv /\ IndexInv /\ RecordsTyped /\ ZeroInv /\ [Next]_vars => ZeroInv'
  BY ZeroInvStep
<1> QED BY <1>1, <1>2, <1>3, CoinsInvariant, PTL DEF Spec

\* Every serial of the active chain, and every pubcoin that is minted in one block, is on
\* record while the node runs, so that ConnectBlock notices a second use, after any crash
\* or verification.
THEOREM ZerocoinsOnRecord ==
  ASSUME MarkersUnspent, VerifyDeep
  PROVE  Spec => []ZerocoinsRecorded
<1>1. ASSUME CoinsInv, IndexInv, ZeroInv PROVE ZerocoinsRecorded
  <2> SUFFICES ASSUME step = "up", NEW t \in ChainTxs(tip)
               PROVE  /\ IsTransactionInChain(t)
                      /\ \A s \in Serial[t] : spends[s] = t
                      /\ \A p \in Mint[t] \cap Tracked : mints[p] \in {u \in ChainTxs(tip) : p \in Mint[u]}
    BY DEF ZerocoinsRecorded
  <2>1. PICK c \in Path[tip] : t \in TxsOf(c)
    BY DEF ChainTxs
  <2>2. c \in Blocks /\ TxsOf(c) \subseteq ChainTxs(tip) /\ OnRecord(c)
    BY <1>1, InvChains, PathPart, InChain DEF ZeroInv
  <2>3. IsTransactionInChain(t)
    BY <1>1, InvChains, InChainIndexed
  <2>4. ASSUME NEW s \in Serial[t] PROVE spends[s] = t
    <3>1. spends[s] = TxOfSerial(c, s) /\ TxOfSerial(c, s) \in TxsOf(c) /\ s \in Serial[TxOfSerial(c, s)]
      BY <2>1, <2>2, ZerocoinsOf DEF OnRecord, SpendsOn
    <3> QED BY <2>1, <2>2, <3>1, OneOfSerial
  <2>5. ASSUME NEW p \in Mint[t] \cap Tracked PROVE mints[p] \in {u \in ChainTxs(tip) : p \in Mint[u]}
    BY <2>1, <2>2, ZerocoinsOf DEF OnRecord, MintsOn, TrackedOf
  <2> QED BY <2>3, <2>4, <2>5
<1> QED BY <1>1, ZeroInvariant, PTL

\* No serial is revealed twice in the active chain: no zerocoin is spent twice.
THEOREM SerialsOnce ==
  ASSUME MarkersUnspent, VerifyDeep
  PROVE  Spec => []NoSerialTwice
<1>1. ASSUME CoinsInv, ZeroInv PROVE NoSerialTwice
  <2> SUFFICES ASSUME NEW b \in Path[tip], NEW c \in Path[tip], NEW t \in TxsOf(b), NEW u \in TxsOf(c),
                      Serial[t] \cap Serial[u] # {}
               PROVE  b = c /\ t = u
    BY DEF NoSerialTwice
  <2>1. b \in Blocks /\ c \in Blocks
    BY <1>1, InvChains, PathPart
  <2>2. b = c
    <3>1. SerialsOf(b) \cap SerialsOf(c) # {}
      BY <2>1, ZerocoinsOf
    <3> QED BY <1>1, <3>1 DEF ZeroInv, Apart, Disjoint
  <2> QED BY <2>1, <2>2, OneOfSerial
<1> QED BY <1>1, ZeroInvariant, PTL

\* What ConnectBlock wrote, DisconnectBlock and VerifyDB find: the node never calls its
\* own databases corrupted.
THEOREM NeverCorrupted ==
  ASSUME MarkersUnspent, VerifyDeep
  PROVE  Spec => []UndoIsClean
<1>1. ZeroInv => UndoIsClean
  BY DEF ZeroInv, UndoIsClean
<1> QED BY <1>1, ZeroInvariant, PTL

-----------------------------------------------------------------------------
(* mapStakeSpent: the invariant.                                           *)

\* VerifyDB undoes all it means to, and what mapStakeSpent is to hold is no deeper than
\* what it restores at startup: ledger_verifychain shows a node where it is not.
StakesVerified == CacheFits /\ MaxReorg <= StartDepth

\* What mapStakeSpent has is of the chain of b, and it has all of a recent block c.
Sound(b) ==
  \A o \in Outpoints :
    stakeSpent[o] # 0 => \E c \in Path[b] : stakeSpent[o] = Height(c) /\ o \in SpentBy(c)
Filled(c) == Recent(c) => \A o \in SpentBy(c) : stakeSpent[o] = Height(c)

\* mapStakeSpent follows the active chain, and the view of VerifyDB while it works.
StakeInv ==
  /\ step \in {"up", "mints", "index"} => Sound(tip) /\ \A c \in Path[tip] : Filled(c)
  /\ step \in {"commit", "undone", "reconnect"} =>
        Sound(work.best) /\ \A c \in Path[work.best] : Filled(c)
  /\ step = "down" =>
        Sound(work.best) /\ \A c \in Path[work.best] : Height(c) < Height(tip) - depth => Filled(c)

\* What a block spends are outputs.
LEMMA SpentByIn ==
  ASSUME NEW b \in Blocks
  PROVE  SpentBy(b) \subseteq Outpoints
<1>1. \A t \in TxsOf(b) : In[t] \in Seq(Outpoints)
  BY TxsOfIn, TxsAssumption
<1> QED BY <1>1 DEF SpentBy, ToSet

\* A block of a good chain spends nothing that was spent below it ...
LEMMA SpentAbove ==
  ASSUME NEW b \in Blocks \ {Genesis}, Good(b)
  PROVE  SpentBy(b) \cap SpentIn(Prev[b]) = {}
<1> DEFINE M == ChainTxs(Prev[b])
           S == SpentIn(Prev[b])
<1> SUFFICES ASSUME NEW j \in 1 .. Len(Contents[b]), NEW o \in ToSet(In[Contents[b][j]])
             PROVE  o \notin S
  BY VtxIs DEF SpentBy
<1>1. Contents[b][j] \in Txs
  BY VtxIs
<1>2. PICK k \in 1 .. Len(In[Contents[b][j]]) : o = In[Contents[b][j]][k]
  BY <1>1, InIs DEF ToSet
<1>3. o = <<o[1], o[2]>>
  BY <1>1, <1>2, InIs
<1>4. Available(Contents[b][j], MadeUpTo(b, M, j - 1), SpentUpTo(b, S, j - 1))
  <2>1. Fits(b, M, S, j)
    BY GoodLedgerly
  <2> HIDE DEF M, S
  <2> QED BY <2>1 DEF Fits
<1>5. o \notin SpentUpTo(b, S, j - 1)
  <2> HIDE DEF M, S
  <2> QED BY <1>2, <1>3, <1>4 DEF Available, Left
<1> QED BY <1>5 DEF SpentUpTo

\* ... so that an output is spent in one block.
LEMMA SpentOnce ==
  ASSUME NEW b, Good(b), NEW c \in Path[b], NEW d \in Path[b], SpentBy(c) \cap SpentBy(d) # {}
  PROVE  c = d
<1> DEFINE S == {x \in Blocks : Good(x) =>
                    \A y, z \in Path[x] : SpentBy(y) \cap SpentBy(z) # {} => y = z}
<1>1. Genesis \in S
  BY PathGenesis, TreeAssumption
<1>2. ASSUME NEW x \in Blocks \ {Genesis}, Prev[x] \in S PROVE x \in S
  <2> SUFFICES ASSUME Good(x), NEW y \in Path[x], NEW z \in Path[x], SpentBy(y) \cap SpentBy(z) # {}
               PROVE  y = z
    OBVIOUS
  <2>1. Path[x] = Path[Prev[x]] \cup {x} /\ Prev[x] \in Blocks
    BY PathIs
  <2>2. Good(Prev[x]) /\ SpentBy(x) \cap SpentIn(Prev[x]) = {}
    BY <2>1, GoodPart, SpentAbove
  <2>3. \A w \in Path[Prev[x]] : SpentBy(w) \subseteq SpentIn(Prev[x])
    BY <2>1, InChain
  <2> HIDE DEF S
  <2>4. \A v, w \in Path[Prev[x]] : SpentBy(v) \cap SpentBy(w) # {} => v = w
    BY <1>2, <2>2 DEF S
  <2> QED BY <2>1, <2>2, <2>3, <2>4
<1>3. S = Blocks
  <2>1. S \in SUBSET Blocks
    OBVIOUS
  <2> HIDE DEF S
  <2> QED BY <1>1, <1>2, <2>1, TreeInduction
<1>4. b \in S
  BY <1>3 DEF Good
<1> QED BY <1>4

\* ConnectBlock adds what the block spends, and deletes only what is not recent.
LEMMA StakesAdded ==
  ASSUME NEW b \in Blocks \ {Genesis}, Good(b), AddStakeSpent(b), stakeSpent \in [Outpoints -> Nat],
         Sound(Prev[b]), \A c \in Path[Prev[b]] : Filled(c)
  PROVE  Sound(b)' /\ \A c \in Path[b] : Filled(c)'
<1> DEFINE h(o) == IF o \in SpentBy(b) /\ stakeSpent[o] = 0 THEN Height(b) ELSE stakeSpent[o]
<1>1. stakeSpent' = [o \in Outpoints |-> IF h(o) < Height(b) - MaxReorg THEN 0 ELSE h(o)]
  BY DEF AddStakeSpent
<1>2. Path[b] = Path[Prev[b]] \cup {b} /\ Prev[b] \in Blocks /\ b \notin Path[Prev[b]]
  BY PathIs, PathNoLoop
<1>3. \A c \in Path[b] : c \in Blocks /\ Height(c) \in Nat
  BY PathPart
<1>4. Height(b) \in Nat /\ MaxReorg \in Nat
  BY HeightOk, LimitsAssumption
<1>5. \A o \in SpentBy(b) : \A c \in Path[Prev[b]] : o \notin SpentBy(c)
  BY <1>2, SpentOnce
<1>6. \A o \in SpentBy(b) : o \in Outpoints /\ stakeSpent[o] = 0
  BY <1>5, SpentByIn DEF Sound
<1>7. \A o \in Outpoints : h(o) # 0 => \E c \in Path[b] : h(o) = Height(c) /\ o \in SpentBy(c)
  BY <1>2 DEF Sound
<1>8. ASSUME NEW c \in Path[b], Recent(c), NEW o \in SpentBy(c) PROVE o \in Outpoints /\ h(o) = Height(c)
  <2>1. CASE c = b
    BY <1>6, <2>1
  <2>2. CASE c \in Path[Prev[b]]
    <3>1. stakeSpent[o] = Height(c)
      BY <1>8, <2>2 DEF Filled
    <3>2. o \notin SpentBy(b)
      BY <1>5, <2>2
    <3> QED BY <1>3, <3>1, <3>2, SpentByIn
  <2> QED BY <1>2, <2>1, <2>2
<1> HIDE DEF h
<1>9. ASSUME NEW o \in Outpoints, stakeSpent'[o] # 0
      PROVE  \E c \in Path[b] : stakeSpent'[o] = Height(c) /\ o \in SpentBy(c)
  <2>1. stakeSpent'[o] = h(o)
    BY <1>1, <1>9
  <2> QED BY <1>7, <1>9, <2>1
<1>10. ASSUME NEW c \in Path[b], Recent(c), NEW o \in SpentBy(c) PROVE stakeSpent'[o] = Height(c)
  <2>1. ~(Height(c) < Height(b) - MaxReorg)
    BY <1>3, <1>4, <1>10 DEF Recent
  <2> QED BY <1>1, <1>8, <1>10, <2>1
<1>11. Sound(b)'
  BY <1>9 DEF Sound
<1>12. \A c \in Path[b] : Filled(c)'
  BY <1>10 DEF Filled
<1> QED BY <1>11, <1>12

\* DisconnectBlock erases what the block spends, and nothing of the blocks below.
LEMMA StakesErased ==
  ASSUME NEW b \in Blocks \ {Genesis}, Good(b), EraseRecords(b), stakeSpent \in [Outpoints -> Nat], Sound(b)
  PROVE  Sound(Prev[b])' /\ \A c \in Path[Prev[b]] : Filled(c) => Filled(c)'
<1>1. stakeSpent' = [o \in Outpoints |-> IF o \in SpentBy(b) THEN 0 ELSE stakeSpent[o]]
  BY DEF EraseRecords
<1>2. Path[b] = Path[Prev[b]] \cup {b} /\ Prev[b] \in Blocks /\ b \notin Path[Prev[b]]
  BY PathIs, PathNoLoop
<1>3. \A o \in SpentBy(b) : \A c \in Path[Prev[b]] : o \notin SpentBy(c)
  BY <1>2, SpentOnce
<1>4. ASSUME NEW o \in Outpoints, stakeSpent'[o] # 0
      PROVE  \E c \in Path[Prev[b]] : stakeSpent'[o] = Height(c) /\ o \in SpentBy(c)
  <2>1. o \notin SpentBy(b) /\ stakeSpent'[o] = stakeSpent[o]
    BY <1>1, <1>4
  <2> QED BY <1>2, <1>4, <2>1 DEF Sound
<1>5. ASSUME NEW c \in Path[Prev[b]], Filled(c), Recent(c), NEW o \in SpentBy(c)
      PROVE  stakeSpent'[o] = Height(c)
  <2>1. o \in Outpoints /\ o \notin SpentBy(b)
    BY <1>2, <1>3, SpentByIn, PathPart
  <2> QED BY <1>1, <1>5, <2>1 DEF Filled
<1>6. Sound(Prev[b])'
  BY <1>4 DEF Sound
<1>7. \A c \in Path[Prev[b]] : Filled(c) => Filled(c)'
  BY <1>5 DEF Filled
<1> QED BY <1>6, <1>7

-----------------------------------------------------------------------------
(* Every step keeps it, and StakeSpentExact follows.                       *)

\* A step that leaves mapStakeSpent alone leaves alone what it says of a chain.
LEMMA StakesStay ==
  ASSUME stakeSpent' = stakeSpent, NEW b
  PROVE  (Sound(b) => Sound(b)') /\ (Filled(b) => Filled(b)')
BY DEF Sound, Filled

\* The block at work is connected.
LEMMA StakeConnect ==
  ASSUME CoinsInv, RecordsTyped, StakeInv, ConnectIndex
  PROVE  StakeInv'
<1>0. PICK b \in Blocks : b = work.best
  BY InvChains
<1>1. /\ step = "index" /\ step' = "commit" /\ AddStakeSpent(b) /\ work' = work
      /\ b # Genesis /\ Prev[b] = tip /\ Good(b)
  BY <1>0 DEF ConnectIndex, CoinsInv, Connecting
<1>2. Sound(tip) /\ \A c \in Path[tip] : Filled(c)
  BY <1>1 DEF StakeInv
<1>3. Sound(b)' /\ \A c \in Path[b] : Filled(c)'
  <2>1. Sound(Prev[b]) /\ \A c \in Path[Prev[b]] : Filled(c)
    BY <1>1, <1>2
  <2> QED BY <1>1, <2>1, StakesAdded DEF RecordsTyped
<1> QED BY <1>0, <1>1, <1>3 DEF StakeInv, Sound

\* The tip is disconnected.
LEMMA StakeDisconnect ==
  ASSUME MarkersUnspent, CoinsInv, RecordsTyped, StakeInv, DisconnectBlock
  PROVE  StakeInv'
<1>0. PICK b \in Blocks : b = tip
  BY InvChains
<1>1. /\ step = "up" /\ step' = "undone" /\ EraseRecords(b) /\ work'.best = Prev[b]
      /\ b # Genesis /\ Good(b)
  BY <1>0, CoinsDisconnect DEF DisconnectBlock, CoinsInv
<1>2. Sound(b) /\ \A c \in Path[Prev[b]] : Filled(c)
  BY <1>0, <1>1, PathIs DEF StakeInv
<1>3. Sound(Prev[b])' /\ \A c \in Path[Prev[b]] : Filled(c)'
  BY <1>1, <1>2, StakesErased DEF RecordsTyped
<1> QED BY <1>1, <1>3 DEF StakeInv, Sound

\* VerifyDB undoes a block ...
LEMMA StakeVerifyDown ==
  ASSUME MarkersUnspent, CoinsInv, RecordsTyped, StakeInv, VerifyDisconnect
  PROVE  StakeInv'
<1>0. PICK b \in Blocks : b = work.best
  BY InvChains
<1>1. /\ step = "down" /\ step' = "down" /\ EraseRecords(b) /\ work'.best = Prev[b]
      /\ b # Genesis /\ Good(b) /\ tip' = tip /\ depth' = depth
  BY <1>0, CoinsVerifyDown DEF VerifyDisconnect, CoinsInv
<1>2. Sound(b) /\ \A c \in Path[Prev[b]] : Height(c) < Height(tip) - depth => Filled(c)
  BY <1>0, <1>1, PathIs DEF StakeInv
<1>3. Sound(Prev[b])' /\ \A c \in Path[Prev[b]] : Height(c) < Height(tip) - depth => Filled(c)'
  BY <1>1, <1>2, StakesErased DEF RecordsTyped
<1> QED BY <1>1, <1>3 DEF StakeInv, Sound

\* ... turns, when all that is left is below the depth ...
LEMMA StakeTurn ==
  ASSUME StakesVerified, CoinsInv, RecordsTyped, StakeInv, VerifyTurn
  PROVE  StakeInv'
<1>1. /\ step = "down" /\ step' = "reconnect" /\ work' = work /\ stakeSpent' = stakeSpent
      /\ work.best = Genesis \/ Height(work.best) < Height(tip) - depth
  BY DEF VerifyTurn, records, StakesVerified
<1>2. ASSUME NEW c \in Path[work.best] PROVE Filled(c)
  <2>1. work.best # Genesis
    BY PathGenesis
  <2>2. Height(c) \in Nat /\ Height(c) <= Height(work.best) /\ Height(work.best) \in Nat /\ Height(tip) \in Nat
    BY InvChains, PathPart, HeightOk
  <2>3. Height(c) < Height(tip) - depth
    BY <1>1, <2>1, <2>2 DEF RecordsTyped
  <2> QED BY <1>1, <2>3 DEF StakeInv
<1>3. Sound(work.best)
  BY <1>1 DEF StakeInv
<1> QED BY <1>1, <1>2, <1>3, StakesStay DEF StakeInv, Sound, Filled

\* ... and connects a block again.
LEMMA StakeVerifyUp ==
  ASSUME CoinsInv, RecordsTyped, StakeInv, NEW b \in Blocks, VerifyReconnect(b)
  PROVE  StakeInv'
<1>1. step = "reconnect" /\ b \in Path[tip] /\ Prev[b] = work.best
  BY DEF VerifyReconnect
<1>2. b # Genesis /\ Good(b)
  BY <1>1, InvChains, PathPart, GoodPart DEF CoinsInv
<1>3. CASE step' = "failed"
  BY <1>3 DEF StakeInv
<1>4. CASE work'.best = b /\ step' = step /\ AddStakeSpent(b)
  <2>1. Sound(Prev[b]) /\ \A c \in Path[Prev[b]] : Filled(c)
    BY <1>1 DEF StakeInv
  <2>2. Sound(b)' /\ \A c \in Path[b] : Filled(c)'
    BY <1>2, <1>4, <2>1, StakesAdded DEF RecordsTyped
  <2> QED BY <1>1, <1>4, <2>2 DEF StakeInv, Sound
<1> QED BY <1>3, <1>4 DEF VerifyReconnect

\* A restart begins with nothing, and undoes all that mapStakeSpent should have.
LEMMA StakeRestart ==
  ASSUME StakesVerified, CoinsInv, NEW from \in {stored, View}, Restart(from)
  PROVE  StakeInv'
<1>1. /\ step' = "down" /\ depth' = StartDepth /\ tip' = from.best /\ work'.best = tip'
      /\ stakeSpent' = [o \in Outpoints |-> 0]
  BY DEF Restart
<1>2. tip' \in Blocks /\ Height(tip') \in Nat
  BY CoinsRestart, HeightOk DEF CoinsInv, Good
<1>3. ASSUME NEW c \in Path[tip'], Height(c) < Height(tip') - StartDepth PROVE ~Recent(c)
  <2>1. Height(c) \in Nat /\ StartDepth \in Nat /\ MaxReorg \in Nat /\ MaxReorg <= StartDepth
    BY <1>2, PathPart, LimitsAssumption DEF StakesVerified
  <2>2. ~(Height(tip') - MaxReorg <= Height(c))
    BY <1>2, <1>3, <2>1
  <2> QED BY <1>2, <2>2 DEF Recent
<1>4. \A c \in Path[tip'] : Height(c) < Height(tip') - StartDepth => Filled(c)'
  BY <1>3 DEF Filled
<1>5. Sound(tip)'
  BY <1>1 DEF Sound
<1> QED BY <1>1, <1>4, <1>5 DEF StakeInv, Sound

\* No step breaks it.
LEMMA StakeInvStep ==
  ASSUME MarkersUnspent, StakesVerified, CoinsInv, RecordsTyped, StakeInv, [Next]_vars
  PROVE  StakeInv'
<1>1. CASE \E b \in Blocks : ConnectBlock(b)
  <2>1. step = "up" /\ step' = "mints" /\ tip' = tip /\ stakeSpent' = stakeSpent
    BY <1>1 DEF ConnectBlock
  <2> QED BY <2>1 DEF StakeInv, Sound, Filled
<1>2. CASE \E b \in Blocks : VerifyReconnect(b)
  BY <1>2, StakeVerifyUp
<1>3. CASE ConnectMints
  BY <1>3 DEF ConnectMints, StakeInv, Sound, Filled
<1>4. CASE ConnectIndex
  BY <1>4, StakeConnect
<1>5. CASE ConnectCommit \/ DisconnectCommit
  <2>1. step \in {"commit", "undone"} /\ step' = "up" /\ tip' = work.best /\ stakeSpent' = stakeSpent
    BY <1>5 DEF ConnectCommit, DisconnectCommit, records
  <2>2. Sound(work.best) /\ \A c \in Path[work.best] : Filled(c)
    BY <2>1 DEF StakeInv
  <2> QED BY <2>1, <2>2 DEF StakeInv, Sound, Filled
<1>6. CASE DisconnectBlock
  BY <1>6, StakeDisconnect
<1>7. CASE VerifyChain
  <2>1. step = "up" /\ step' = "down" /\ work'.best = tip /\ tip' = tip /\ stakeSpent' = stakeSpent
    BY <1>7 DEF VerifyChain, View, records
  <2>2. Sound(tip) /\ \A c \in Path[tip] : Filled(c)
    BY <2>1 DEF StakeInv
  <2> QED BY <2>1, <2>2 DEF StakeInv, Sound, Filled
<1>8. CASE VerifyDisconnect
  BY <1>8, StakeVerifyDown
<1>9. CASE VerifyTurn
  BY <1>9, StakeTurn
<1>10. CASE VerifyEnd
  <2>1. step = "reconnect" /\ step' = "up" /\ work.best = tip /\ tip' = tip /\ stakeSpent' = stakeSpent
    BY <1>10 DEF VerifyEnd, records
  <2>2. Sound(tip) /\ \A c \in Path[tip] : Filled(c)
    BY <2>1 DEF StakeInv
  <2> QED BY <2>1, <2>2 DEF StakeInv, Sound, Filled
<1>11. CASE Crash \/ Shutdown
  BY <1>11, StakeRestart DEF Crash, Shutdown
<1>12. CASE FlushState \/ UNCHANGED vars
  <2>1. step' = step /\ tip' = tip /\ work' = work /\ depth' = depth /\ stakeSpent' = stakeSpent
    BY <1>12 DEF FlushState, vars, records
  <2> QED BY <2>1 DEF StakeInv, Sound, Filled
<1> QED BY <1>1, <1>2, <1>3, <1>4, <1>5, <1>6, <1>7, <1>8, <1>9, <1>10, <1>11, <1>12 DEF Next

\* mapStakeSpent holds only what the active chain spends, at the right height, and all
\* that its recent blocks spend, after any reorganisation, crash or verification.
THEOREM StakesFollowTheChain ==
  ASSUME MarkersUnspent, StakesVerified
  PROVE  Spec => []StakeSpentExact
<1>1. Init => RecordsTyped /\ StakeInv
  <2>1. Init => RecordsTyped
    BY RecordsInit
  <2>2. Init => StakeInv
    BY PathGenesis DEF Init, StakeInv, Sound
  <2> QED BY <2>1, <2>2
<1>2. CoinsInv /\ RecordsTyped /\ [Next]_vars => RecordsTyped'
  BY InvChains, RecordsTypedStep
<1>3. CoinsInv /\ RecordsTyped /\ StakeInv /\ [Next]_vars => StakeInv'
  BY StakeInvStep
<1>4. ASSUME CoinsInv, StakeInv PROVE StakeSpentExact
  <2>1. step = "up" => Sound(tip) /\ \A c \in Path[tip] : Filled(c)
    BY <1>4 DEF StakeInv
  <2> QED BY <2>1 DEF StakeSpentExact, Sound, Filled
<1> QED BY <1>1, <1>2, <1>3, <1>4, CoinsInvariant, PTL DEF Spec
=============================================================================
