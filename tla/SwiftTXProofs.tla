---------------------------- MODULE SwiftTXProofs ----------------------------
(***************************************************************************)
(* The memory pool and the SwiftTX locks, for every set of transactions, of  *)
(* blocks and of service nodes: the pool agrees with the chain, a step drops *)
(* nothing that could stay, a locked transaction is not mined over, and a   *)
(* lock counts the vote of a node once.                                    *)
(***************************************************************************)
EXTENDS SwiftTX, FiniteSetTheorems, SequenceTheorems, TLAPS

-----------------------------------------------------------------------------
(* CTxMemPool: what its operations take out.                                 *)

\* mapNextTx holds the inputs of the entries and nothing else
Indexed(p) ==
  /\ p.tx \subseteq Txs
  /\ DOMAIN p.next = UNION {Inputs(t) : t \in p.tx}
  /\ \A t \in p.tx : \A o \in Inputs(t) : p.next[o] = t

\* q is p without some entries and what depends on them
Kept(p, q) ==
  /\ Indexed(q)
  /\ q.tx \subseteq p.tx
  /\ \A u \in q.tx : \A o \in Inputs(u) : o[1] \in p.tx => o[1] \in q.tx

\* One round of the search of CTxMemPool::remove for what depends on a transaction
GrowStep(ctx, S, i) == S \cup Children(ctx.pool, S)
GrowInv(ctx, i, S) ==
  /\ S \in SUBSET Txs
  /\ ctx.from \in S
  /\ Children(ctx.pool, S) \subseteq S \/ Cardinality(S) >= i + 1
  /\ \A T : ctx.from \in T /\ Children(ctx.pool, T) \subseteq T => S \subseteq T
Grow == INSTANCE FoldTheorems WITH op <- GrowStep, Inv <- GrowInv

\* What spends outputs of entries is an entry.
LEMMA ChildrenOk ==
  ASSUME NEW p, Indexed(p), NEW S
  PROVE  Children(p, S) \subseteq p.tx
BY DEF Children, Indexed

\* The search finds the least set with t that holds what spends its outputs,
\* however long the chain of entries.
LEMMA DescendantsOk ==
  ASSUME NEW p, Indexed(p), NEW t \in Txs
  PROVE  /\ t \in Descendants(p, t)
         /\ Children(p, Descendants(p, t)) \subseteq Descendants(p, t)
         /\ \A T : t \in T /\ Children(p, T) \subseteq T => Descendants(p, t) \subseteq T
<1> DEFINE ctx == [pool |-> p, from |-> t]
           N == Cardinality(Txs)
           D == Grow!Iterate(ctx, {t}, N)[N]
<1>1. N \in Nat /\ IsFiniteSet(Txs)
  BY TxsAssumption, FS_CardinalityType
<1>2. Descendants(p, t) = D
  BY DEF Descendants, Grow!Iterate, GrowStep
<1>3. GrowInv(ctx, 0, {t})
  <2>1. Cardinality({t}) = 1
    BY FS_Singleton
  <2> QED BY <2>1 DEF GrowInv
<1>4. ASSUME NEW i \in 1 .. N, NEW S, GrowInv(ctx, i - 1, S)
      PROVE  GrowInv(ctx, i, GrowStep(ctx, S, i))
  <2> DEFINE C == Children(p, S)
             R == S \cup C
  <2>0. GrowStep(ctx, S, i) = R
    BY DEF GrowStep
  <2>1. R \in SUBSET Txs /\ t \in R
    BY <1>4, ChildrenOk DEF GrowInv, Indexed
  <2>2. \A T : t \in T /\ Children(p, T) \subseteq T => R \subseteq T
    <3> SUFFICES ASSUME NEW T, t \in T, Children(p, T) \subseteq T PROVE R \subseteq T
      OBVIOUS
    <3>1. S \subseteq T
      BY <1>4 DEF GrowInv
    <3>2. Children(p, S) \subseteq Children(p, T)
      BY <3>1 DEF Children
    <3> QED BY <3>1, <3>2
  <2>3. Children(p, R) \subseteq R \/ Cardinality(R) >= i + 1
    <3>1. CASE C \subseteq S
      <4>1. R = S
        BY <3>1
      <4> QED BY <3>1, <4>1
    <3>2. CASE ~(C \subseteq S)
      <4>1. PICK x \in C : x \notin S
        BY <3>2
      <4>2. Cardinality(S) >= i - 1 + 1
        BY <1>4, <3>2 DEF GrowInv
      <4>3. IsFiniteSet(S) /\ IsFiniteSet(R)
        BY <1>1, <1>4, <2>1, FS_Subset DEF GrowInv
      <4>4. /\ IsFiniteSet(S \cup {x}) /\ Cardinality(S \cup {x}) = Cardinality(S) + 1
            /\ Cardinality(S) \in Nat /\ Cardinality(R) \in Nat
        BY <4>1, <4>3, FS_AddElement, FS_CardinalityType
      <4>5. S \cup {x} \in SUBSET R
        BY <4>1
      <4>6. Cardinality(S \cup {x}) <= Cardinality(R)
        BY <4>3, <4>5, FS_Subset
      <4> QED BY <4>2, <4>4, <4>6
    <3> QED BY <3>1, <3>2
  <2> HIDE DEF R
  <2>4. ctx.pool = p /\ ctx.from = t
    OBVIOUS
  <2> HIDE DEF ctx
  <2> QED BY <2>0, <2>1, <2>2, <2>3, <2>4 DEF GrowInv
<1>5. \A i \in 0 .. N : GrowInv(ctx, i, Grow!Iterate(ctx, {t}, N)[i])
  <2> HIDE DEF ctx, N
  <2> QED BY <1>1, <1>3, <1>4, Grow!IterateInduction
<1>6. GrowInv(ctx, N, D)
  BY <1>1, <1>5
<1> HIDE DEF D
<1>7. D \in SUBSET Txs
  BY <1>6 DEF GrowInv
<1>8. Cardinality(D) <= N /\ Cardinality(D) \in Nat
  BY <1>1, <1>7, FS_Subset, FS_CardinalityType
<1> HIDE DEF N
<1>9. ~(Cardinality(D) >= N + 1)
  BY <1>1, <1>8
<1> QED BY <1>2, <1>6, <1>9 DEF GrowInv
\* Taking out entries twice takes out entries and what depends on them.
LEMMA KeptTransitive ==
  ASSUME NEW p, NEW q, NEW r, Kept(p, q), Kept(q, r)
  PROVE  Kept(p, r)
BY DEF Kept

\* The pool as it is has lost nothing.
LEMMA KeptReflexive ==
  ASSUME NEW p, Indexed(p)
  PROVE  Kept(p, p)
BY DEF Kept

\* Taking entries out leaves an index of the others
LEMMA EraseOk ==
  ASSUME NEW p, Indexed(p), NEW gone \in SUBSET p.tx, NEW q,
         q.tx = p.tx \ gone,
         q.next = Restrict(p.next, DOMAIN p.next \ UNION {Inputs(u) : u \in gone})
  PROVE  /\ Indexed(q)
         /\ \A o \in DOMAIN q.next : o \in DOMAIN p.next /\ q.next[o] = p.next[o]
<1> DEFINE erased == UNION {Inputs(u) : u \in gone}
<1>1. /\ DOMAIN q.next = DOMAIN p.next \ erased
      /\ \A o \in DOMAIN q.next : q.next[o] = p.next[o]
  BY DEF Restrict
<1>2. \A t \in p.tx \ gone : Inputs(t) \cap erased = {}
  BY DEF Indexed
<1>3. DOMAIN q.next = UNION {Inputs(t) : t \in q.tx}
  <2>1. \A o : o \in DOMAIN q.next <=> o \in DOMAIN p.next /\ o \notin erased
    BY <1>1
  <2>2. \A o : o \in DOMAIN p.next <=> \E t \in p.tx : o \in Inputs(t)
    BY DEF Indexed
  <2>3. \A o : o \in erased <=> \E t \in gone : o \in Inputs(t)
    OBVIOUS
  <2> HIDE DEF erased
  <2>4. \A o : o \in DOMAIN q.next <=> \E t \in q.tx : o \in Inputs(t)
    BY <1>2, <2>1, <2>2, <2>3
  <2> QED BY <2>4
<1> HIDE DEF erased
<1> QED BY <1>1, <1>2, <1>3 DEF Indexed

\* CTxMemPool::remove takes out t, and what depends on it when it is told to.
LEMMA RemoveTxOk ==
  ASSUME NEW p, Indexed(p), NEW t \in Txs
  PROVE  /\ Kept(p, RemoveTx(p, t, TRUE)) /\ t \notin RemoveTx(p, t, TRUE).tx
         /\ Indexed(RemoveTx(p, t, FALSE)) /\ RemoveTx(p, t, FALSE).tx = p.tx \ {t}
<1>1. ASSUME NEW S
      PROVE  LET gone == p.tx \cap S
                 erased == UNION {Inputs(u) : u \in gone}
             IN  Indexed([tx |-> p.tx \ gone, next |-> Restrict(p.next, DOMAIN p.next \ erased)])
  <2> DEFINE gone == p.tx \cap S
             q == [tx |-> p.tx \ gone,
                   next |-> Restrict(p.next, DOMAIN p.next \ UNION {Inputs(u) : u \in gone})]
  <2>1. /\ q.tx = p.tx \ gone /\ gone \in SUBSET p.tx
        /\ q.next = Restrict(p.next, DOMAIN p.next \ UNION {Inputs(u) : u \in gone})
    OBVIOUS
  <2>2. Indexed(q)
    <3> HIDE DEF q, gone
    <3> QED BY <2>1, EraseOk
  <2> QED BY <2>2
<1>2. Indexed(RemoveTx(p, t, TRUE)) /\ Indexed(RemoveTx(p, t, FALSE))
  BY <1>1, Zenon DEF RemoveTx
<1>3. /\ RemoveTx(p, t, TRUE).tx = p.tx \ (p.tx \cap Descendants(p, t))
      /\ RemoveTx(p, t, FALSE).tx = p.tx \ (p.tx \cap {t})
  BY DEF RemoveTx
<1>4. ASSUME NEW u \in RemoveTx(p, t, TRUE).tx, NEW o \in Inputs(u), o[1] \in p.tx
      PROVE  o[1] \in RemoveTx(p, t, TRUE).tx
  <2>1. SUFFICES ASSUME o[1] \in Descendants(p, t) PROVE FALSE
    BY <1>3, <1>4
  <2>2. u \in p.tx /\ u \notin Descendants(p, t)
    BY <1>3
  <2>3. o \in DOMAIN p.next /\ p.next[o] = u
    BY <2>2 DEF Indexed
  <2>4. u \in Children(p, Descendants(p, t))
    BY <2>1, <2>3 DEF Children
  <2> QED BY <2>2, <2>4, DescendantsOk
<1> QED BY <1>2, <1>3, <1>4, DescendantsOk DEF Kept

\* M holds what its members in S spend from
ParentClosed(S, M) == \A u \in S \cap M : \A o \in Inputs(u) : o[1] \in Txs => o[1] \in M

\* Entries that do not depend on t stay.
LEMMA RemoveTxKeeps ==
  ASSUME NEW p, Indexed(p), NEW t \in Txs, NEW M, t \notin M, ParentClosed(p.tx, M)
  PROVE  p.tx \cap M \subseteq RemoveTx(p, t, TRUE).tx
<1> DEFINE T == Txs \ M
<1>1. Children(p, T) \subseteq T
  <2> SUFFICES ASSUME NEW o \in DOMAIN p.next, o[1] \in T PROVE p.next[o] \in T
    BY DEF Children
  <2>1. p.next[o] \in p.tx /\ o \in Inputs(p.next[o]) /\ p.tx \subseteq Txs
    BY DEF Indexed
  <2> QED BY <2>1 DEF ParentClosed
<1>2. Descendants(p, t) \subseteq T
  <2> HIDE DEF T
  <2>1. t \in T
    BY DEF T
  <2> QED BY <1>1, <2>1, DescendantsOk
<1>3. RemoveTx(p, t, TRUE).tx = p.tx \ (p.tx \cap Descendants(p, t))
  BY DEF RemoveTx
<1> QED BY <1>2, <1>3

\* No entry of M conflicts with a transaction of B
Spared(S, B, M) ==
  /\ ParentClosed(S, M)
  /\ \A u \in S \cap M : \A t \in B : Inputs(u) \cap Inputs(t) # {} => u = t

-----------------------------------------------------------------------------
\* The entries that spend an input of t in its stead, one input after the other
SpenderStep(ctx, q, o) ==
  IF o \in DOMAIN q.next /\ q.next[o] # ctx.tx THEN RemoveTx(q, q.next[o], TRUE) ELSE q
SpenderInv(ctx, i, q) ==
  /\ Kept(ctx.pool, q)
  /\ \A j \in 1 .. i : \A u \in q.tx : In[ctx.tx][j] \in Inputs(u) => u = ctx.tx
  /\ \A M : Spared(ctx.pool.tx, {ctx.tx}, M) => ctx.pool.tx \cap M \subseteq q.tx
Spenders == INSTANCE FoldTheorems WITH op <- SpenderStep, Inv <- SpenderInv

\* The inputs of a transaction are a sequence.
LEMMA InOk == ASSUME NEW t \in Txs PROVE Len(In[t]) \in Nat /\ DOMAIN In[t] = 1 .. Len(In[t])
BY TxsAssumption

\* removeConflicts takes out what spends an input of t, and of the others none
\* that does not depend on that.
LEMMA RemoveConflictsOk ==
  ASSUME NEW p, Indexed(p), NEW t \in Txs
  PROVE  LET q == RemoveConflicts(p, t)
         IN  /\ Kept(p, q) /\ \A u \in q.tx : Inputs(u) \cap Inputs(t) # {} => u = t
             /\ \A M : Spared(p.tx, {t}, M) => p.tx \cap M \subseteq q.tx
<1> DEFINE ctx == [pool |-> p, tx |-> t]
           q == Spenders!LeftFold(ctx, p, In[t])
           n == Len(In[t])
<1>1. RemoveConflicts(p, t) = q
  BY DEF RemoveConflicts, Spenders!LeftFold, SpenderStep, FoldLeft, MapThenFoldSet, Max,
         Spenders!FoldLeft, Spenders!MapThenFoldSet, Spenders!Max
<1>2. SpenderInv(ctx, 0, p)
  BY KeptReflexive DEF SpenderInv
<1>3. ASSUME NEW i \in 1 .. n, NEW r, SpenderInv(ctx, i - 1, r)
      PROVE  SpenderInv(ctx, i, SpenderStep(ctx, r, In[t][i]))
  <2> DEFINE o == In[t][i]
             s == SpenderStep(ctx, r, o)
  <2>1. /\ Kept(p, r) /\ \A j \in 1 .. i - 1 : \A u \in r.tx : In[t][j] \in Inputs(u) => u = t
        /\ \A M : Spared(p.tx, {t}, M) => p.tx \cap M \subseteq r.tx
    BY <1>3 DEF SpenderInv
  <2>2. /\ Kept(p, s)
        /\ s.tx \subseteq r.tx
        /\ \A u \in s.tx : o \in Inputs(u) => u = t
        /\ \A M : Spared(p.tx, {t}, M) => p.tx \cap M \subseteq s.tx
    <3>0. Indexed(r) /\ r.tx \subseteq p.tx /\ o \in Inputs(t)
      BY <2>1, InOk DEF Kept, Inputs, ToSet
    <3>1. CASE o \in DOMAIN r.next /\ r.next[o] # t
      <4>1. s = RemoveTx(r, r.next[o], TRUE)
        BY <3>1 DEF SpenderStep
      <4>2. r.next[o] \in Txs /\ \A u \in r.tx : o \in Inputs(u) => u = r.next[o]
        BY <3>0, <3>1 DEF Indexed
      <4>3. Kept(r, s) /\ r.next[o] \notin s.tx
        <5> HIDE DEF s, o
        <5> QED BY <3>0, <4>1, <4>2, RemoveTxOk
      <4> HIDE DEF s, o
      <4>4. Kept(p, s)
        BY <2>1, <4>3, KeptTransitive
      <4>5. s.tx \subseteq r.tx
        BY <4>3 DEF Kept
      <4>6. ASSUME NEW M, Spared(p.tx, {t}, M) PROVE p.tx \cap M \subseteq s.tx
        <5>1. ParentClosed(r.tx, M)
          BY <3>0, <4>6 DEF Spared, ParentClosed
        <5>2. r.next[o] \in r.tx /\ o \in Inputs(r.next[o])
          BY <3>0, <3>1 DEF Indexed
        <5>3. r.next[o] \notin M
          BY <3>0, <3>1, <4>6, <5>2 DEF Spared
        <5> QED BY <2>1, <3>0, <4>1, <4>2, <4>6, <5>1, <5>3, RemoveTxKeeps
      <4> QED BY <4>2, <4>3, <4>4, <4>5, <4>6
    <3>2. CASE ~(o \in DOMAIN r.next /\ r.next[o] # t)
      <4>1. s = r
        BY <3>2 DEF SpenderStep
      <4>2. \A u \in r.tx : o \in Inputs(u) => u = t
        BY <3>0, <3>2 DEF Indexed
      <4> HIDE DEF s, o
      <4> QED BY <2>1, <4>1, <4>2
    <3> QED BY <3>1, <3>2
  <2>3. \A j \in 1 .. i : \A u \in s.tx : In[t][j] \in Inputs(u) => u = t
    <3> HIDE DEF s
    <3>1. \A j \in 1 .. i : j \in 1 .. i - 1 \/ j = i
      OBVIOUS
    <3> QED BY <2>1, <2>2, <3>1
  <2> HIDE DEF s
  <2>4. SpenderInv(ctx, i, s)
    BY <2>2, <2>3 DEF SpenderInv
  <2> QED BY <2>4 DEF s
<1>4. SpenderInv(ctx, n, q)
  <2> HIDE DEF ctx, n
  <2>1. n \in Nat /\ DOMAIN In[t] = 1 .. n
    BY InOk DEF n
  <2> QED BY <1>2, <1>3, <2>1, Spenders!FoldLeftInduction
<1>5. \A o \in Inputs(t) : \E j \in 1 .. n : o = In[t][j]
  BY InOk DEF Inputs, ToSet
<1> HIDE DEF q, n
<1> QED BY <1>1, <1>4, <1>5 DEF SpenderInv
-----------------------------------------------------------------------------
\* The transactions of a block, one after the other
BlockStep(ctx, q, t) == RemoveConflicts(RemoveTx(q, t, FALSE), t)
BlockInv(ctx, i, q) ==
  /\ Indexed(q)
  /\ q.tx \subseteq ctx.pool.tx
  /\ \A u \in q.tx : \A o \in Inputs(u) :
        o[1] \in ctx.pool.tx => o[1] \in q.tx \/ \E j \in 1 .. i : o[1] = ctx.vtx[j]
  /\ \A j \in 1 .. i : \A u \in q.tx : u # ctx.vtx[j] /\ Inputs(u) \cap Inputs(ctx.vtx[j]) = {}
  /\ \A M : Spared(ctx.pool.tx, ToSet(ctx.vtx), M) => (ctx.pool.tx \cap M) \ ToSet(ctx.vtx) \subseteq q.tx
Mining == INSTANCE FoldTheorems WITH op <- BlockStep, Inv <- BlockInv

\* A sequence of transactions, position by position.
LEMMA SeqOk ==
  ASSUME NEW s \in Seq(Txs)
  PROVE  Len(s) \in Nat /\ DOMAIN s = 1 .. Len(s) /\ \A i \in 1 .. Len(s) : s[i] \in Txs
OBVIOUS

\* removeForBlock takes out the transactions of the block and their conflicts,
\* and nothing that conflicts with none.
LEMMA RemoveForBlockOk ==
  ASSUME NEW p, Indexed(p), NEW vtx \in Seq(Txs)
  PROVE  LET q == RemoveForBlock(p, vtx)
         IN  /\ Indexed(q)
             /\ q.tx \subseteq p.tx \ ToSet(vtx)
             /\ \A u \in q.tx : \A o \in Inputs(u) :
                    o[1] \in p.tx => o[1] \in q.tx \/ o[1] \in ToSet(vtx)
             /\ \A u \in q.tx : \A t \in ToSet(vtx) : Inputs(u) \cap Inputs(t) = {}
             /\ \A M : Spared(p.tx, ToSet(vtx), M) => (p.tx \cap M) \ ToSet(vtx) \subseteq q.tx
<1> DEFINE ctx == [pool |-> p, vtx |-> vtx]
           q == Mining!LeftFold(ctx, p, vtx)
           n == Len(vtx)
<1>1. RemoveForBlock(p, vtx) = q
  BY DEF RemoveForBlock, Mining!LeftFold, BlockStep, FoldLeft, MapThenFoldSet, Max,
         Mining!FoldLeft, Mining!MapThenFoldSet, Mining!Max
<1>2. BlockInv(ctx, 0, p)
  BY DEF BlockInv
<1>3. ASSUME NEW i \in 1 .. n, NEW r, BlockInv(ctx, i - 1, r)
      PROVE  BlockInv(ctx, i, BlockStep(ctx, r, vtx[i]))
  <2> DEFINE t == vtx[i]
             a == RemoveTx(r, t, FALSE)
             s == RemoveConflicts(a, t)
  <2>0. t \in Txs
    BY SeqOk
  <2>1. /\ Indexed(r) /\ r.tx \subseteq p.tx
        /\ \A u \in r.tx : \A o \in Inputs(u) :
               o[1] \in p.tx => o[1] \in r.tx \/ \E j \in 1 .. i - 1 : o[1] = vtx[j]
        /\ \A j \in 1 .. i - 1 : \A u \in r.tx : u # vtx[j] /\ Inputs(u) \cap Inputs(vtx[j]) = {}
        /\ \A M : Spared(p.tx, ToSet(vtx), M) => (p.tx \cap M) \ ToSet(vtx) \subseteq r.tx
    BY <1>3 DEF BlockInv
  <2>t. t \in ToSet(vtx)
    BY SeqOk DEF ToSet
  <2>2. BlockStep(ctx, r, t) = s
    BY DEF BlockStep
  <2> HIDE DEF t
  <2>3. Indexed(a) /\ a.tx = r.tx \ {t}
    BY <2>0, <2>1, RemoveTxOk
  <2> HIDE DEF a
  <2>4. /\ Kept(a, s) /\ \A u \in s.tx : Inputs(u) \cap Inputs(t) # {} => u = t
        /\ \A M : Spared(a.tx, {t}, M) => a.tx \cap M \subseteq s.tx
    BY <2>0, <2>3, RemoveConflictsOk
  <2> HIDE DEF s
  <2>m. ASSUME NEW M, Spared(p.tx, ToSet(vtx), M) PROVE (p.tx \cap M) \ ToSet(vtx) \subseteq s.tx
    <3>1. Spared(a.tx, {t}, M)
      BY <2>t, <2>1, <2>3, <2>m DEF Spared, ParentClosed
    <3> QED BY <2>t, <2>1, <2>3, <2>4, <2>m, <3>1
  <2>5. /\ Indexed(s) /\ s.tx \subseteq r.tx \ {t}
        /\ \A u \in s.tx : \A o \in Inputs(u) : o[1] \in r.tx => o[1] \in s.tx \/ o[1] = t
        /\ \A u \in s.tx : Inputs(u) \cap Inputs(t) = {}
    BY <2>3, <2>4 DEF Kept
  <2>6. i \in 1 .. i /\ \A j \in 1 .. i : j \in 1 .. i - 1 \/ j = i
    OBVIOUS
  <2>7. \A u \in s.tx : \A o \in Inputs(u) :
           o[1] \in p.tx => o[1] \in s.tx \/ \E j \in 1 .. i : o[1] = vtx[j]
    <3> SUFFICES ASSUME NEW u \in s.tx, NEW o \in Inputs(u), o[1] \in p.tx, o[1] \notin s.tx
                 PROVE  \E j \in 1 .. i : o[1] = vtx[j]
      OBVIOUS
    <3>1. CASE o[1] \in r.tx
      BY <2>5, <2>6, <3>1 DEF t
    <3>2. CASE o[1] \notin r.tx
      <4>1. PICK j \in 1 .. i - 1 : o[1] = vtx[j]
        BY <2>1, <2>5, <3>2
      <4>2. j \in 1 .. i
        OBVIOUS
      <4> QED BY <4>1, <4>2
    <3> QED BY <3>1, <3>2
  <2>8. \A j \in 1 .. i : \A u \in s.tx : u # vtx[j] /\ Inputs(u) \cap Inputs(vtx[j]) = {}
    BY <2>1, <2>5, <2>6 DEF t
  <2>9. BlockInv(ctx, i, s)
    BY <2>1, <2>5, <2>7, <2>8, <2>m DEF BlockInv
  <2> QED BY <2>2, <2>9 DEF t
<1>4. BlockInv(ctx, n, q)
  <2> HIDE DEF ctx, n
  <2>1. n \in Nat /\ DOMAIN vtx = 1 .. n
    BY SeqOk DEF n
  <2> QED BY <1>2, <1>3, <2>1, Mining!FoldLeftInduction
<1>5. \A t : t \in ToSet(vtx) <=> \E j \in 1 .. n : t = vtx[j]
  BY SeqOk DEF ToSet
<1> HIDE DEF q, n
<1>6. /\ Indexed(q) /\ q.tx \subseteq p.tx
      /\ \A u \in q.tx : \A o \in Inputs(u) :
             o[1] \in p.tx => o[1] \in q.tx \/ \E j \in 1 .. n : o[1] = vtx[j]
      /\ \A j \in 1 .. n : \A u \in q.tx : u # vtx[j] /\ Inputs(u) \cap Inputs(vtx[j]) = {}
      /\ \A M : Spared(p.tx, ToSet(vtx), M) => (p.tx \cap M) \ ToSet(vtx) \subseteq q.tx
  BY <1>4 DEF BlockInv
<1> HIDE DEF ctx
<1> QED BY <1>1, <1>5, <1>6

-----------------------------------------------------------------------------
\* The entries that spend what has become immature
SweepStep(ctx, q, t) == RemoveTx(q, t, TRUE)
SweepInv(ctx, i, q) ==
  /\ Kept(ctx.pool, q) /\ \A j \in 1 .. i : ctx.seq[j] \notin q.tx
  /\ \A M : ParentClosed(ctx.pool.tx, M) /\ M \cap ToSet(ctx.seq) = {} => ctx.pool.tx \cap M \subseteq q.tx
Sweep == INSTANCE FoldTheorems WITH op <- SweepStep, Inv <- SweepInv

\* The entries of a finite set, in some order.
LEMMA SetToSeqOk ==
  ASSUME NEW S, IsFiniteSet(S)
  PROVE  SetToSeq(S) \in Seq(S) /\ ToSet(SetToSeq(S)) = S
<1> DEFINE n == Cardinality(S)
           f == SetToSeq(S)
<1>1. n \in Nat /\ ExistsBijection(1 .. n, S)
  BY FS_CardinalityType
<1>2. \E g \in [1 .. n -> S] : IsInjective(g)
  BY <1>1 DEF ExistsBijection, Bijection, Injection, IsInjective
<1>3. f \in [1 .. n -> S] /\ IsInjective(f)
  BY <1>2 DEF SetToSeq
<1>4. f \in Injection(1 .. n, S)
  BY <1>3 DEF Injection, IsInjective
<1>5. IsFiniteSet(1 .. n) /\ Cardinality(1 .. n) = n
  BY <1>1, FS_Interval
<1> HIDE DEF f
<1>6. f \in Surjection(1 .. n, S)
  BY <1>4, <1>5, FS_Injection
<1>7. \A x \in S : \E i \in 1 .. n : f[i] = x
  BY <1>6 DEF Surjection
<1> HIDE DEF n
<1> QED BY <1>1, <1>3, <1>7 DEF f, ToSet

\* removeCoinbaseSpends takes out the entries it finds and what depends on them,
\* and nothing else.
LEMMA SweepOk ==
  ASSUME NEW p, Indexed(p), NEW c
  PROVE  LET q == RemoveCoinbaseSpends(p, c)
         IN  /\ Kept(p, q) /\ q.tx \cap CoinbaseSpends(p, c) = {}
             /\ \A M : ParentClosed(p.tx, M) /\ M \cap CoinbaseSpends(p, c) = {} => p.tx \cap M \subseteq q.tx
<1> DEFINE seq == SetToSeq(CoinbaseSpends(p, c))
           ctx == [pool |-> p, seq |-> seq]
           q == Sweep!LeftFold(ctx, p, seq)
           n == Len(seq)
<1>0. IsFiniteSet(CoinbaseSpends(p, c)) /\ CoinbaseSpends(p, c) \subseteq Txs
  <2>1. CoinbaseSpends(p, c) \in SUBSET Txs
    BY DEF CoinbaseSpends, Indexed
  <2> QED BY <2>1, TxsAssumption, FS_Subset
<1>1. seq \in Seq(Txs) /\ ToSet(seq) = CoinbaseSpends(p, c)
  BY <1>0, SetToSeqOk
<1>2. RemoveCoinbaseSpends(p, c) = q
  BY DEF RemoveCoinbaseSpends, Sweep!LeftFold, SweepStep, FoldLeft, MapThenFoldSet, Max,
         Sweep!FoldLeft, Sweep!MapThenFoldSet, Sweep!Max
<1> HIDE DEF seq
<1>3. SweepInv(ctx, 0, p)
  BY KeptReflexive DEF SweepInv
<1>4. ASSUME NEW i \in 1 .. n, NEW r, SweepInv(ctx, i - 1, r)
      PROVE  SweepInv(ctx, i, SweepStep(ctx, r, seq[i]))
  <2> DEFINE t == seq[i]
             s == RemoveTx(r, t, TRUE)
  <2>1. /\ t \in Txs /\ t \in ToSet(seq) /\ Kept(p, r) /\ \A j \in 1 .. i - 1 : seq[j] \notin r.tx
        /\ \A M : ParentClosed(p.tx, M) /\ M \cap ToSet(seq) = {} => p.tx \cap M \subseteq r.tx
    BY <1>1, <1>4, SeqOk DEF SweepInv, ToSet
  <2>2. SweepStep(ctx, r, t) = s
    BY DEF SweepStep
  <2> HIDE DEF t
  <2>3. Kept(r, s) /\ t \notin s.tx
    BY <2>1, RemoveTxOk DEF Kept
  <2>m. ASSUME NEW M, ParentClosed(p.tx, M), M \cap ToSet(seq) = {} PROVE p.tx \cap M \subseteq s.tx
    <3>1. ParentClosed(r.tx, M) /\ t \notin M /\ Indexed(r)
      BY <2>1, <2>m DEF ParentClosed, Kept
    <3>2. r.tx \cap M \subseteq s.tx
      BY <2>1, <3>1, RemoveTxKeeps
    <3> QED BY <2>1, <2>m, <3>2
  <2> HIDE DEF s
  <2>4. Kept(p, s) /\ s.tx \subseteq r.tx
    BY <2>1, <2>3, KeptTransitive DEF Kept
  <2>5. \A j \in 1 .. i : j \in 1 .. i - 1 \/ j = i
    OBVIOUS
  <2>6. \A j \in 1 .. i : seq[j] \notin s.tx
    BY <2>1, <2>3, <2>4, <2>5 DEF t
  <2>7. SweepInv(ctx, i, s)
    BY <2>4, <2>6, <2>m DEF SweepInv
  <2> QED BY <2>2, <2>7 DEF t
<1>5. SweepInv(ctx, n, q)
  <2> HIDE DEF ctx, n
  <2>1. n \in Nat /\ DOMAIN seq = 1 .. n
    BY <1>1, SeqOk DEF n
  <2> QED BY <1>3, <1>4, <2>1, Sweep!FoldLeftInduction
<1>6. \A t \in CoinbaseSpends(p, c) : \E j \in 1 .. n : t = seq[j]
  BY <1>1, SeqOk DEF ToSet
<1> HIDE DEF q, n
<1> QED BY <1>1, <1>2, <1>5, <1>6 DEF SweepInv
-----------------------------------------------------------------------------
Coins(c) == OldCoins \cup UNION {Outputs(t) : t \in Mined(c)}
SpentIn(c) == UNION {Inputs(t) : t \in Mined(c)}

ChainOk(c) ==
  /\ c \in Seq(Blocks)
  /\ \A i \in DOMAIN c : \A u \in ToSet(c[i]) : Inputs(u) \subseteq Coins(SubSeq(c, 1, i))
  /\ \A i, j \in DOMAIN c : ToSet(c[i]) \cap ToSet(c[j]) # {} => i = j
  /\ \A i \in DOMAIN c : IsInjective(c[i])

\* The coins of a chain are its outputs without what its transactions spend.
LEMMA UnspentIs == ASSUME NEW c PROVE Unspent(c) = Coins(c) \ SpentIn(c)
BY DEF Unspent, Coins, SpentIn

\* A transaction is mined when one of the blocks holds it.
LEMMA MinedIs ==
  ASSUME NEW c \in Seq(Seq(Txs))
  PROVE  /\ Mined(c) \subseteq Txs
         /\ \A t : t \in Mined(c) <=> \E i \in 1 .. Len(c) : t \in ToSet(c[i])
<1>1. DOMAIN c = 1 .. Len(c) /\ \A i \in 1 .. Len(c) : c[i] \in Seq(Txs)
  OBVIOUS
<1>2. \A i \in 1 .. Len(c) : ToSet(c[i]) \subseteq Txs
  BY <1>1, SeqOk DEF ToSet
<1> QED BY <1>1, <1>2 DEF Mined

\* A block mines its transactions.
LEMMA MinedAppend ==
  ASSUME NEW c \in Seq(Seq(Txs)), NEW v \in Seq(Txs)
  PROVE  /\ Append(c, v) \in Seq(Seq(Txs))
         /\ Mined(Append(c, v)) = Mined(c) \cup ToSet(v)
<1> DEFINE d == Append(c, v)
<1>1. /\ d \in Seq(Seq(Txs)) /\ Len(d) = Len(c) + 1 /\ Len(c) \in Nat
      /\ d[Len(c) + 1] = v /\ \A i \in 1 .. Len(c) : d[i] = c[i]
  OBVIOUS
<1> HIDE DEF d
<1>2. \A i \in 1 .. Len(d) : i \in 1 .. Len(c) \/ i = Len(c) + 1
  BY <1>1
<1>3. Len(c) + 1 \in 1 .. Len(d) /\ \A i \in 1 .. Len(c) : i \in 1 .. Len(d)
  BY <1>1
<1>4. \A t : t \in Mined(d) <=> t \in Mined(c) \/ t \in ToSet(v)
  BY <1>1, <1>2, <1>3, MinedIs
<1> QED BY <1>1, <1>4 DEF d

\* A chain with more transactions has more outputs, and spends more.
LEMMA CoinsGrow ==
  ASSUME NEW c, NEW d, Mined(c) \subseteq Mined(d)
  PROVE  Coins(c) \subseteq Coins(d) /\ SpentIn(c) \subseteq SpentIn(d)
BY DEF Coins, SpentIn

\* An outpoint names the transaction that created it
LEMMA CreatorMined ==
  ASSUME NEW c \in Seq(Seq(Txs)), NEW o \in Coins(c), o[1] \in Txs
  PROVE  o[1] \in Mined(c) /\ o \in Outputs(o[1])
<1>1. o \notin OldCoins
  BY TxsAssumption
<1>2. PICK t \in Mined(c) : o \in Outputs(t)
  BY <1>1 DEF Coins
<1>3. o[1] = t
  BY <1>2 DEF Outputs
<1> QED BY <1>2, <1>3

\* Blocks are sequences of transactions.
LEMMA BlocksOk == Seq(Blocks) \subseteq Seq(Seq(Txs)) /\ \A v \in Blocks : v \in Seq(Txs)
BY BlocksAssumption

\* The first blocks of a chain mine no more than the chain.
LEMMA PrefixMined ==
  ASSUME NEW c \in Seq(Seq(Txs)), NEW i \in 1 .. Len(c)
  PROVE  SubSeq(c, 1, i) \in Seq(Seq(Txs)) /\ Mined(SubSeq(c, 1, i)) \subseteq Mined(c)
<1> DEFINE d == SubSeq(c, 1, i)
<1>1. d \in Seq(Seq(Txs)) /\ Len(d) = i /\ \A j \in 1 .. i : d[j] = c[j] /\ j \in 1 .. Len(c)
  OBVIOUS
<1> HIDE DEF d
<1>2. \A t : t \in Mined(d) => t \in Mined(c)
  BY <1>1, MinedIs
<1> QED BY <1>1, <1>2 DEF d

\* A chain spends only its outputs.
LEMMA SpentWereCoins ==
  ASSUME NEW c, ChainOk(c)
  PROVE  SpentIn(c) \subseteq Coins(c)
<1>0. c \in Seq(Seq(Txs)) /\ DOMAIN c = 1 .. Len(c)
  BY BlocksOk DEF ChainOk
<1> SUFFICES ASSUME NEW u \in Mined(c) PROVE Inputs(u) \subseteq Coins(c)
  BY DEF SpentIn
<1>1. PICK i \in 1 .. Len(c) : u \in ToSet(c[i])
  BY <1>0, MinedIs
<1>2. Inputs(u) \subseteq Coins(SubSeq(c, 1, i))
  BY <1>0, <1>1 DEF ChainOk
<1> QED BY <1>0, <1>2, PrefixMined, CoinsGrow

\* A transaction is in one block of a chain, and that is its height.
LEMMA HeightOk ==
  ASSUME NEW c, ChainOk(c), NEW i \in 1 .. Len(c), NEW t \in ToSet(c[i])
  PROVE  HeightOf(c, t) = i
<1>0. DOMAIN c = 1 .. Len(c)
  BY DEF ChainOk
<1>1. \A j \in DOMAIN c : t \in ToSet(c[j]) => j = i
  BY <1>0 DEF ChainOk
<1> QED BY <1>0, <1>1 DEF HeightOf

\* A valid block has no transaction twice and spends no coin twice
LEMMA BlockOnce ==
  ASSUME NEW c \in Seq(Seq(Txs)), NEW vtx \in Seq(Txs), ValidBlock(c, vtx)
  PROVE  /\ IsInjective(vtx)
         /\ \A t, u \in ToSet(vtx) : Inputs(t) \cap Inputs(u) # {} => t = u
<1>1. vtx \in Seq(Txs) /\ DOMAIN vtx = 1 .. Len(vtx) /\ Len(vtx) \in Nat
  OBVIOUS
<1>2. ASSUME NEW j \in 1 .. Len(vtx), NEW i \in 1 .. j - 1
      PROVE  vtx[i] # vtx[j] /\ Inputs(vtx[i]) \cap Inputs(vtx[j]) = {}
  <2> DEFINE some == SubSeq(vtx, 1, j - 1)
             view == Append(c, some)
  <2>1. some \in Seq(Txs) /\ DOMAIN some = 1 .. j - 1 /\ some[i] = vtx[i]
    BY <1>1
  <2>2. vtx[j] \notin Mined(view) /\ \A o \in Inputs(vtx[j]) : o \in Unspent(view)
    <3>1. ValidTx(c, vtx, j)
      BY <1>1 DEF ValidBlock
    <3> QED BY <3>1 DEF ValidTx, CheckInput
  <2> HIDE DEF some
  <2>3. vtx[i] \in ToSet(some)
    BY <2>1 DEF ToSet
  <2>4. vtx[i] \in Mined(view)
    BY <2>1, <2>3, MinedAppend
  <2> HIDE DEF view
  <2>5. Inputs(vtx[i]) \subseteq SpentIn(view)
    BY <2>4 DEF SpentIn
  <2> QED BY <2>2, <2>4, <2>5, UnspentIs
<1>3. \A i, j \in 1 .. Len(vtx) : i = j \/ i \in 1 .. j - 1 \/ j \in 1 .. i - 1
  BY <1>1
<1>4. \A i, j \in 1 .. Len(vtx) : vtx[i] = vtx[j] \/ Inputs(vtx[i]) \cap Inputs(vtx[j]) # {} => i = j
  BY <1>2, <1>3
<1> QED BY <1>1, <1>4 DEF IsInjective, ToSet

\* A valid block extends the chain
LEMMA ChainGrows ==
  ASSUME NEW c, ChainOk(c), NEW vtx \in Blocks, ValidBlock(c, vtx)
  PROVE  /\ ChainOk(Append(c, vtx))
         /\ ToSet(vtx) \cap Mined(c) = {}
         /\ Len(Append(c, vtx)) = Len(c) + 1
<1> DEFINE d == Append(c, vtx)
           n == Len(c)
<1>0. c \in Seq(Blocks) /\ c \in Seq(Seq(Txs)) /\ DOMAIN c = 1 .. n /\ n \in Nat
  BY BlocksOk DEF ChainOk
<1>1. /\ d \in Seq(Blocks) /\ DOMAIN d = 1 .. n + 1 /\ Len(d) = n + 1
      /\ d[n + 1] = vtx /\ \A i \in 1 .. n : d[i] = c[i]
  BY <1>0
<1>2. SubSeq(d, 1, n + 1) = d /\ \A i \in 1 .. n : SubSeq(d, 1, i) = SubSeq(c, 1, i)
  BY <1>0
<1>3. Mined(d) = Mined(c) \cup ToSet(vtx)
  BY <1>0, BlocksOk, MinedAppend
<1>4. vtx \in Seq(Txs) /\ DOMAIN vtx = 1 .. Len(vtx) /\ Len(vtx) \in Nat
  BY BlocksOk
<1>5. ASSUME NEW t \in ToSet(vtx) PROVE t \notin Mined(c) /\ Inputs(t) \subseteq Coins(d)
  <2>1. PICK i \in 1 .. Len(vtx) : t = vtx[i]
    BY <1>4 DEF ToSet
  <2> DEFINE some == SubSeq(vtx, 1, i - 1)
             view == Append(c, some)
  <2>2. some \in Seq(Txs) /\ ToSet(some) \subseteq ToSet(vtx)
    <3>1. some \in Seq(Txs) /\ Len(some) = i - 1 /\ \A j \in 1 .. i - 1 : some[j] = vtx[j] /\ j \in 1 .. Len(vtx)
      BY <1>4
    <3>2. DOMAIN some = 1 .. i - 1
      BY <3>1
    <3> HIDE DEF some
    <3> QED BY <1>4, <3>1, <3>2 DEF ToSet
  <2>3. t \notin Mined(view) /\ \A o \in Inputs(t) : o \in Unspent(view)
    <3>1. ValidTx(c, vtx, i)
      BY <1>4 DEF ValidBlock
    <3> QED BY <2>1, <3>1 DEF ValidTx, CheckInput
  <2> HIDE DEF some
  <2>4. Mined(view) = Mined(c) \cup ToSet(some)
    BY <1>0, <2>2, MinedAppend
  <2> HIDE DEF view, d
  <2>5. Coins(view) \subseteq Coins(d)
    BY <1>3, <2>2, <2>4, CoinsGrow
  <2> QED BY <2>3, <2>4, <2>5, UnspentIs
<1>6. \A i \in 1 .. n : ToSet(c[i]) \cap ToSet(vtx) = {}
  BY <1>0, <1>5, MinedIs
<1>8. IsInjective(vtx)
  BY <1>0, <1>4, BlockOnce
<1> HIDE DEF d, n
<1>7. ChainOk(d)
  <2>1. \A i \in 1 .. n + 1 : i \in 1 .. n \/ i = n + 1
    BY <1>0
  <2>2. \A i \in DOMAIN d : \A u \in ToSet(d[i]) : Inputs(u) \subseteq Coins(SubSeq(d, 1, i))
    BY <1>0, <1>1, <1>2, <1>5, <2>1 DEF ChainOk
  <2>3. \A i, j \in DOMAIN d : ToSet(d[i]) \cap ToSet(d[j]) # {} => i = j
    BY <1>0, <1>1, <1>6, <2>1 DEF ChainOk
  <2>4. \A i \in DOMAIN d : IsInjective(d[i])
    BY <1>0, <1>1, <1>8, <2>1 DEF ChainOk
  <2> QED BY <1>1, <2>2, <2>3, <2>4 DEF ChainOk
<1> QED BY <1>1, <1>5, <1>7 DEF d, n

\* Without its tip a valid chain is a valid chain, and the tip's transactions
\* are not in it.
LEMMA ChainShrinks ==
  ASSUME NEW c, ChainOk(c), c # <<>>
  PROVE  /\ ChainOk(Front(c)) /\ Last(c) \in Blocks /\ IsInjective(Last(c))
         /\ Mined(Front(c)) \cap ToSet(Last(c)) = {}
         /\ Mined(c) = Mined(Front(c)) \cup ToSet(Last(c))
         /\ Len(Front(c)) = Len(c) - 1 /\ Len(c) \in Nat
<1> DEFINE d == Front(c)
           n == Len(c)
<1>0. c \in Seq(Blocks) /\ DOMAIN c = 1 .. n /\ n \in Nat /\ n # 0
  BY DEF ChainOk
<1>1. /\ d \in Seq(Blocks) /\ Len(d) = n - 1 /\ DOMAIN d = 1 .. n - 1
      /\ \A i \in 1 .. n - 1 : d[i] = c[i] /\ SubSeq(d, 1, i) = SubSeq(c, 1, i)
      /\ Last(c) \in Blocks
      /\ Append(d, Last(c)) = c
  BY <1>0 DEF Front, Last
<1> HIDE DEF d, n
<1>2. \A i \in 1 .. n - 1 : i \in 1 .. n
  BY <1>0
<1>3. ChainOk(d)
  <2>1. \A i \in 1 .. n - 1 : \A u \in ToSet(d[i]) : Inputs(u) \subseteq Coins(SubSeq(d, 1, i))
    <3> SUFFICES ASSUME NEW i \in 1 .. n - 1, NEW u \in ToSet(d[i])
                 PROVE  Inputs(u) \subseteq Coins(SubSeq(d, 1, i))
      OBVIOUS
    <3>1. i \in DOMAIN c /\ u \in ToSet(c[i]) /\ SubSeq(d, 1, i) = SubSeq(c, 1, i)
      BY <1>0, <1>1, <1>2
    <3>2. Inputs(u) \subseteq Coins(SubSeq(c, 1, i))
      BY <3>1 DEF ChainOk
    <3> QED BY <3>1, <3>2
  <2>2. \A i, j \in 1 .. n - 1 : ToSet(d[i]) \cap ToSet(d[j]) # {} => i = j
    <3> SUFFICES ASSUME NEW i \in 1 .. n - 1, NEW j \in 1 .. n - 1, ToSet(d[i]) \cap ToSet(d[j]) # {}
                 PROVE  i = j
      OBVIOUS
    <3>1. i \in DOMAIN c /\ j \in DOMAIN c /\ ToSet(c[i]) \cap ToSet(c[j]) # {}
      BY <1>0, <1>1, <1>2
    <3> QED BY <3>1 DEF ChainOk
  <2>3. \A i \in DOMAIN d : IsInjective(d[i])
    BY <1>0, <1>1, <1>2 DEF ChainOk
  <2> QED BY <1>1, <2>1, <2>2, <2>3 DEF ChainOk
<1>4. Mined(c) = Mined(d) \cup ToSet(Last(c))
  BY <1>1, BlocksOk, MinedAppend
<1>5. IsInjective(Last(c)) /\ Mined(d) \cap ToSet(Last(c)) = {}
  <2>1. n \in DOMAIN c /\ \A i \in 1 .. n - 1 : i # n
    BY <1>0
  <2>4. c[n] = Last(c)
    BY DEF Last, n
  <2>2. \A i \in 1 .. n - 1 : ToSet(d[i]) \cap ToSet(Last(c)) = {}
    BY <1>0, <1>1, <1>2, <2>1, <2>4 DEF ChainOk
  <2>3. d \in Seq(Seq(Txs)) /\ Len(d) = n - 1
    BY <1>1, BlocksOk
  <2> QED BY <2>1, <2>2, <2>3, <2>4, MinedIs DEF ChainOk
<1> QED BY <1>0, <1>1, <1>3, <1>4, <1>5 DEF d, n

-----------------------------------------------------------------------------
\* An input is an output of another entry, or a coin of c that the next block may spend
Funded(c, S, o) == (o[1] \in S /\ o \in Outputs(o[1])) \/ CheckInput(c, o, Len(c) + 1)

PoolOk(p, c) ==
  /\ Indexed(p)
  /\ p.tx \cap Generated = {} /\ p.tx \cap Mined(c) = {}
  /\ \A t \in p.tx : \A o \in Inputs(t) : Funded(c, p.tx, o)

PoolInv ==
  /\ ChainOk(chain) /\ Len(chain) <= MaxHeight
  /\ checked \subseteq Blocks
  /\ PoolOk(pool, chain)

\* Adding an entry whose inputs no other entry spends
LEMMA AddUncheckedOk ==
  ASSUME NEW p, Indexed(p), NEW t \in Txs, t \notin p.tx, Inputs(t) \cap DOMAIN p.next = {}
  PROVE  Indexed(AddUnchecked(p, t)) /\ AddUnchecked(p, t).tx = p.tx \cup {t}
<1> DEFINE q == AddUnchecked(p, t)
<1>1. /\ q.tx = p.tx \cup {t} /\ DOMAIN q.next = DOMAIN p.next \cup Inputs(t)
      /\ \A o \in DOMAIN q.next : q.next[o] = IF o \in Inputs(t) THEN t ELSE p.next[o]
  BY DEF AddUnchecked
<1> HIDE DEF q
<1>2. DOMAIN q.next = UNION {Inputs(u) : u \in q.tx}
  BY <1>1 DEF Indexed
<1>3. \A u \in q.tx : \A o \in Inputs(u) : q.next[o] = u
  BY <1>1, <1>2 DEF Indexed
<1> QED BY <1>1, <1>2, <1>3 DEF Indexed, q

\* What AcceptToMemoryPool demands is enough
LEMMA AcceptOk ==
  ASSUME NEW p, Indexed(p), NEW c, NEW active, NEW locked, NEW t \in Txs,
         CanAccept(c, active, p, locked, t)
  PROVE  /\ t \notin Generated \cup p.tx
         /\ Inputs(t) \cap DOMAIN p.next = {}
         /\ \A o \in Inputs(t) : Funded(c, p.tx, o)
<1>1. CASE IsZerocoinSpend(t)
  <2>1. Inputs(t) = {}
    BY <1>1, InputsAssumption DEF Inputs, ToSet
  <2> QED BY <2>1 DEF CanAccept
<1>2. CASE ~IsZerocoinSpend(t)
  BY <1>2 DEF CanAccept, Funded
<1> QED BY <1>1, <1>2

\* AcceptToMemoryPool keeps the pool consistent.
LEMMA AcceptKeepsPool ==
  ASSUME NEW t \in Txs, PoolInv, AcceptToMemoryPool(t)
  PROVE  PoolInv'
<1> DEFINE q == AddUnchecked(pool, t)
<1>1. /\ pool' = q /\ chain' = chain /\ checked' = checked
      /\ Indexed(pool) /\ CanAccept(chain, chain, pool, lockedInputs, t)
  BY DEF AcceptToMemoryPool, PoolInv, PoolOk
<1>2. /\ t \notin Generated \cup pool.tx /\ Inputs(t) \cap DOMAIN pool.next = {}
      /\ \A o \in Inputs(t) : Funded(chain, pool.tx, o)
  BY <1>1, AcceptOk
<1>3. Indexed(q) /\ q.tx = pool.tx \cup {t}
  BY <1>1, <1>2, AddUncheckedOk
<1> HIDE DEF q
<1>4. \A o : Funded(chain, pool.tx, o) => Funded(chain, q.tx, o)
  BY <1>3 DEF Funded
<1>5. t \notin Mined(chain)
  <2>1. CASE IsZerocoinSpend(t)
    BY <1>1, <2>1 DEF CanAccept
  <2>2. CASE ~IsZerocoinSpend(t)
    <3> SUFFICES ASSUME t \in Mined(chain) PROVE FALSE
      OBVIOUS
    <3>1. PICK o : o \in Inputs(t)
      <4>1. In[t] # <<>>
        BY <1>2, <2>2, InputsAssumption
      <4>2. 1 \in 1 .. Len(In[t])
        BY <4>1, TxsAssumption
      <4> QED BY <4>2, InOk DEF Inputs, ToSet
    <3>2. ChainOk(chain) /\ chain \in Seq(Seq(Txs)) /\ pool.tx \cap Mined(chain) = {} /\ pool.tx \subseteq Txs
      BY BlocksOk DEF PoolInv, ChainOk, PoolOk, Indexed
    <3>3. o \in SpentIn(chain) /\ o \in Coins(chain)
      BY <3>1, <3>2, SpentWereCoins DEF SpentIn
    <3>4. o[1] \in pool.tx
      BY <1>2, <3>1, <3>3, UnspentIs DEF Funded, CheckInput
    <3> QED BY <3>2, <3>3, <3>4, CreatorMined
  <2> QED BY <2>1, <2>2
<1>6. PoolOk(q, chain)
  BY <1>2, <1>3, <1>4, <1>5 DEF PoolOk, PoolInv
<1> QED BY <1>1, <1>6 DEF PoolInv

\* Maturity only grows while the chain does
LEMMA StaysMature ==
  ASSUME NEW c, ChainOk(c), NEW d, ChainOk(d), NEW h,
         Len(d) = Len(c) + 1, \A i \in 1 .. Len(c) : d[i] = c[i],
         h \in Generated \cap Mined(d) => h \in Mined(c),
         ~Immature(c, h, Len(c) + 1)
  PROVE  ~Immature(d, h, Len(d) + 1)
<1> SUFFICES ASSUME Immature(d, h, Len(d) + 1) PROVE FALSE
  OBVIOUS
<1>a. h \in Generated \cap Mined(d) /\ (Len(d) + 1) - HeightOf(d, h) < Maturity
  BY DEF Immature
<1>0. c \in Seq(Seq(Txs)) /\ Len(c) \in Nat /\ h \in Mined(c)
  BY <1>a, BlocksOk DEF ChainOk
<1>1. PICK i \in 1 .. Len(c) : h \in ToSet(c[i])
  BY <1>0, MinedIs
<1>2. HeightOf(c, h) = i
  BY <1>1, HeightOk
<1>3. i \in 1 .. Len(d) /\ h \in ToSet(d[i])
  BY <1>0, <1>1
<1>4. HeightOf(d, h) = i
  BY <1>3, HeightOk
<1>5. ~(Len(c) + 1 - i < Maturity)
  BY <1>a, <1>0, <1>2 DEF Immature
<1> QED BY <1>a, <1>0, <1>4, <1>5, LimitsAssumption

\* ConnectTip: what a block mines and conflicts with leaves, the rest is funded
LEMMA ConnectOk ==
  ASSUME NEW p, NEW c, ChainOk(c), PoolOk(p, c), NEW vtx \in Blocks, ValidBlock(c, vtx)
  PROVE  PoolOk(RemoveForBlock(p, vtx), Append(c, vtx))
<1> DEFINE d == Append(c, vtx)
           q == RemoveForBlock(p, vtx)
<1>1. vtx \in Seq(Txs) /\ c \in Seq(Seq(Txs)) /\ c \in Seq(Blocks) /\ Len(c) \in Nat
  BY BlocksOk DEF ChainOk
<1>2. /\ ChainOk(d) /\ ToSet(vtx) \cap Mined(c) = {} /\ Len(d) = Len(c) + 1
      /\ Mined(d) = Mined(c) \cup ToSet(vtx)
      /\ \A i \in 1 .. Len(c) : d[i] = c[i]
  BY <1>1, ChainGrows, MinedAppend
<1> HIDE DEF d
<1>3. /\ Indexed(p) /\ p.tx \cap Generated = {} /\ p.tx \cap Mined(c) = {}
      /\ \A t \in p.tx : \A o \in Inputs(t) : Funded(c, p.tx, o)
  BY DEF PoolOk
<1>4. /\ Indexed(q) /\ q.tx \subseteq p.tx \ ToSet(vtx)
      /\ \A u \in q.tx : \A o \in Inputs(u) :
             o[1] \in p.tx => o[1] \in q.tx \/ o[1] \in ToSet(vtx)
      /\ \A u \in q.tx : \A t \in ToSet(vtx) : Inputs(u) \cap Inputs(t) = {}
  BY <1>1, <1>3, RemoveForBlockOk
<1> HIDE DEF q
<1>5. SpentIn(c) \subseteq Coins(c) /\ Coins(c) \subseteq Coins(d)
  BY <1>2, SpentWereCoins, CoinsGrow
<1>6. ToSet(vtx) \subseteq Txs
  BY <1>1, SeqOk DEF ToSet
<1>7. ASSUME NEW u \in q.tx, NEW o \in Inputs(u), o \notin SpentIn(c)
      PROVE  o \notin SpentIn(d)
  BY <1>2, <1>4, <1>7 DEF SpentIn
<1>8. ASSUME NEW u \in q.tx, NEW o \in Inputs(u) PROVE Funded(d, q.tx, o)
  <2>1. Funded(c, p.tx, o) /\ u \in p.tx
    BY <1>3, <1>4
  <2>2. CASE o[1] \in p.tx /\ o \in Outputs(o[1])
    <3>1. CASE o[1] \in q.tx
      BY <2>2, <3>1 DEF Funded
    <3>2. CASE o[1] \in ToSet(vtx)
      <4>1. o \in Coins(d)
        BY <1>2, <2>2, <3>2 DEF Coins
      <4>2. o \notin Coins(c)
        <5>1. o[1] \notin Mined(c)
          BY <1>2, <3>2
        <5> QED BY <1>1, <1>6, <3>2, <5>1, CreatorMined
      <4>3. o \in Unspent(d)
        BY <1>5, <1>7, <4>1, <4>2, UnspentIs
      <4>4. ~Immature(d, o[1], Len(d) + 1)
        BY <1>3, <2>2 DEF Immature
      <4> QED BY <4>3, <4>4 DEF CheckInput, Funded
    <3> QED BY <1>4, <2>2, <3>1, <3>2
  <2>3. CASE CheckInput(c, o, Len(c) + 1)
    <3>1. o \in Unspent(c) /\ ~Immature(c, o[1], Len(c) + 1)
      BY <2>3 DEF CheckInput
    <3>2. o \in Coins(c) /\ o \notin SpentIn(c)
      BY <3>1, UnspentIs
    <3>3. o \in Unspent(d)
      BY <1>5, <1>7, <3>2, UnspentIs
    <3>4. o[1] \in Mined(d) => o[1] \in Mined(c)
      BY <1>1, <1>2, <1>6, <3>2, CreatorMined
    <3>5. ~Immature(d, o[1], Len(d) + 1)
      BY <1>2, <3>1, <3>4, StaysMature
    <3> QED BY <3>3, <3>5 DEF CheckInput, Funded
  <2> QED BY <2>1, <2>2, <2>3 DEF Funded
<1>9. PoolOk(q, d)
  BY <1>2, <1>3, <1>4, <1>8 DEF PoolOk
<1> QED BY <1>9 DEF q, d

-----------------------------------------------------------------------------
\* A transaction of a disconnected block is taken back, or goes with what depends on it
ReturnStep(ctx, q, t) ==
  IF t \notin ctx.refused /\ CanAccept(ctx.view, ctx.active, q, ctx.locked, t)
  THEN AddUnchecked(q, t)
  ELSE RemoveTx(q, t, TRUE)
\* Until the sweep, an input may be a coin that has become immature
Loose(c, d, S, o) ==
  (o[1] \in S /\ o \in Outputs(o[1])) \/ (o \in Coins(d) /\ o \notin SpentIn(c))
\* Transactions that could stay together in a pool on c, or on a chain that grows from c
Tenable(K, c) ==
  \A u \in K :
      /\ ~IsZerocoinSpend(u) /\ u \notin Generated
      /\ \A o \in Inputs(u) :
            \/ o[1] \in K /\ o \in Outputs(o[1])
            \/ o \in Coins(c) /\ ~Immature(c, o[1], Len(c) + 1)
ReturnInv(ctx, i, q) ==
  /\ Indexed(q)
  /\ q.tx \cap Generated = {}
  /\ \A u \in q.tx : \A o \in Inputs(u) :
        Loose(ctx.view, ctx.active, q.tx, o)
  /\ q.tx \subseteq ctx.pool.tx \cup {ctx.vtx[j] : j \in 1 .. i}
  /\ \A K : Tenable(K, ctx.view) /\ (\A j \in 1 .. i : ctx.vtx[j] \in K => ctx.vtx[j] \in q.tx)
              => ctx.pool.tx \cap K \subseteq q.tx
Return == INSTANCE FoldTheorems WITH op <- ReturnStep, Inv <- ReturnInv

\* Returning the transactions of the tip to the pool, one after the other,
\* leaves only inputs that the tip may have created.
LEMMA ReturnOk ==
  ASSUME NEW p, NEW active, ChainOk(active), active # <<>>, PoolOk(p, active), NEW locked, NEW refused
  PROVE  LET ctx == [pool |-> p, vtx |-> Last(active), view |-> Front(active), active |-> active,
                     locked |-> locked, refused |-> refused]
         IN  ReturnInv(ctx, Len(Last(active)), Return!LeftFold(ctx, p, Last(active)))
<1> DEFINE c == Front(active)
           vtx == Last(active)
           ctx == [pool |-> p, vtx |-> vtx, view |-> c, active |-> active, locked |-> locked, refused |-> refused]
           n == Len(vtx)
           q == Return!LeftFold(ctx, p, vtx)
<1>0. /\ ChainOk(c) /\ vtx \in Blocks /\ Mined(active) = Mined(c) \cup ToSet(vtx)
      /\ Mined(c) \cap ToSet(vtx) = {} /\ IsInjective(vtx)
  BY ChainShrinks
<1>1. vtx \in Seq(Txs) /\ n \in Nat /\ DOMAIN vtx = 1 .. n /\ \A i \in 1 .. n : vtx[i] \in Txs
  BY <1>0, BlocksOk, SeqOk
<1> HIDE DEF vtx, n, c
<1>2. SpentIn(c) \subseteq SpentIn(active) /\ Coins(c) \subseteq Coins(active)
  BY <1>0, CoinsGrow
<1>c. ctx.view = c /\ ctx.active = active /\ ctx.pool = p /\ ctx.vtx = vtx
  OBVIOUS
<1> HIDE DEF ctx
<1>v. /\ \A i \in 1 .. n : vtx[i] \in ToSet(vtx)
      /\ \A i, j \in 1 .. n : vtx[i] = vtx[j] => i = j
  BY <1>0, <1>1 DEF ToSet, IsInjective
<1>w. c \in Seq(Seq(Txs))
  BY <1>0, BlocksOk DEF ChainOk
<1>3. ReturnInv(ctx, 0, p)
  <2>1. /\ Indexed(p) /\ p.tx \cap Generated = {} /\ p.tx \cap Mined(active) = {}
        /\ \A t \in p.tx : \A o \in Inputs(t) : Funded(active, p.tx, o)
    BY DEF PoolOk
  <2>2. \A o : Funded(active, p.tx, o) => Loose(c, active, p.tx, o)
    BY <1>2, UnspentIs DEF Funded, Loose, CheckInput
  <2> QED BY <1>c, <2>1, <2>2 DEF ReturnInv
<1>4. ASSUME NEW i \in 1 .. n, NEW r, ReturnInv(ctx, i - 1, r)
      PROVE  ReturnInv(ctx, i, ReturnStep(ctx, r, vtx[i]))
  <2> DEFINE t == vtx[i]
             s == ReturnStep(ctx, r, t)
  <2>0. t \in Txs /\ t \in ToSet(vtx) /\ \A j \in 1 .. i - 1 : j \in 1 .. n /\ t # vtx[j]
    BY <1>1, <1>v
  <2>1. /\ Indexed(r) /\ r.tx \cap Generated = {}
        /\ \A u \in r.tx : \A o \in Inputs(u) : Loose(c, active, r.tx, o)
        /\ r.tx \subseteq p.tx \cup {vtx[j] : j \in 1 .. i - 1}
        /\ \A K : Tenable(K, c) /\ (\A j \in 1 .. i - 1 : vtx[j] \in K => vtx[j] \in r.tx)
                    => p.tx \cap K \subseteq r.tx
    BY <1>c, <1>4 DEF ReturnInv
  <2>i. i \in 1 .. i /\ \A j \in 1 .. i - 1 : j \in 1 .. i
    OBVIOUS
  <2>p. p.tx \cap Mined(active) = {}
    BY DEF PoolOk
  <2>d. r.tx \cap Mined(c) = {}
    BY <1>0, <1>v, <2>0, <2>1, <2>p
  <2> HIDE DEF t
  <2> SUFFICES ReturnInv(ctx, i, s)
    BY DEF t
  <2>2. CASE t \notin ctx.refused /\ CanAccept(ctx.view, ctx.active, r, ctx.locked, t)
    <3>1. s = AddUnchecked(r, t)
      BY <2>2 DEF ReturnStep
    <3> HIDE DEF s
    <3>2. /\ t \notin Generated \cup r.tx /\ Inputs(t) \cap DOMAIN r.next = {}
          /\ \A o \in Inputs(t) : Funded(c, r.tx, o)
      BY <1>c, <2>0, <2>1, <2>2, AcceptOk
    <3>3. Indexed(s) /\ s.tx = r.tx \cup {t}
      BY <2>0, <2>1, <3>1, <3>2, AddUncheckedOk
    <3>4. \A o : Funded(c, r.tx, o) \/ Loose(c, active, r.tx, o) => Loose(c, active, s.tx, o)
      BY <1>2, <3>3, UnspentIs DEF Funded, Loose, CheckInput
    <3>5. s.tx \cap Generated = {} /\ \A u \in s.tx : \A o \in Inputs(u) : Loose(c, active, s.tx, o)
      BY <2>1, <3>2, <3>3, <3>4
    <3>7. s.tx \subseteq p.tx \cup {vtx[j] : j \in 1 .. i}
      BY <2>1, <2>i, <3>3 DEF t
    <3>8. ASSUME NEW K, Tenable(K, c), \A j \in 1 .. i : vtx[j] \in K => vtx[j] \in s.tx
          PROVE  p.tx \cap K \subseteq s.tx
      <4>1. \A j \in 1 .. i - 1 : vtx[j] \in K => vtx[j] \in r.tx
        BY <2>0, <2>i, <3>3, <3>8
      <4> QED BY <2>1, <3>3, <3>8, <4>1
    <3>6. ReturnInv(ctx, i, s)
      BY <1>c, <3>3, <3>5, <3>7, <3>8 DEF ReturnInv
    <3> QED BY <3>6
  <2>3. CASE ~(t \notin ctx.refused /\ CanAccept(ctx.view, ctx.active, r, ctx.locked, t))
    <3>1. s = RemoveTx(r, t, TRUE)
      BY <2>3, Zenon DEF ReturnStep
    <3> HIDE DEF s
    <3>2. Kept(r, s)
      BY <2>0, <2>1, <3>1, RemoveTxOk
    <3>3. \A u \in s.tx : \A o \in Inputs(u) : Loose(c, active, s.tx, o)
      BY <2>1, <3>2 DEF Kept, Loose
    <3>5. s.tx \subseteq r.tx /\ Indexed(s) /\ t \notin s.tx
      BY <2>0, <2>1, <3>1, <3>2, RemoveTxOk DEF Kept
    <3>7. s.tx \subseteq p.tx \cup {vtx[j] : j \in 1 .. i}
      BY <2>1, <2>i, <3>5
    <3>8. ASSUME NEW K, Tenable(K, c), \A j \in 1 .. i : vtx[j] \in K => vtx[j] \in s.tx
          PROVE  p.tx \cap K \subseteq s.tx
      <4>1. \A j \in 1 .. i - 1 : vtx[j] \in K => vtx[j] \in r.tx
        BY <2>i, <3>5, <3>8
      <4>2. t \notin K /\ t \notin Mined(c)
        BY <1>0, <2>0, <2>i, <3>5, <3>8 DEF t
      <4>3. ParentClosed(r.tx, K \cup Mined(c))
        BY <1>w, <2>d, <3>8, CreatorMined DEF ParentClosed, Tenable
      <4>4. r.tx \cap (K \cup Mined(c)) \subseteq s.tx
        BY <2>0, <2>1, <3>1, <4>2, <4>3, RemoveTxKeeps
      <4> QED BY <2>1, <3>8, <4>1, <4>4
    <3>4. ReturnInv(ctx, i, s)
      BY <1>c, <2>1, <3>3, <3>5, <3>7, <3>8 DEF ReturnInv
    <3> QED BY <3>4
  <2> QED BY <2>2, <2>3
<1>5. ReturnInv(ctx, n, q)
  BY <1>1, <1>3, <1>4, Return!FoldLeftInduction DEF q
<1> QED BY <1>5, Zenon DEF q, ctx, c, vtx, n

\* DisconnectTip: what cannot return, and what has become immature, takes its dependants along
LEMMA ResurrectOk ==
  ASSUME NEW p, NEW active, ChainOk(active), active # <<>>, PoolOk(p, active), NEW locked, NEW refused
  PROVE  LET c == Front(active)
             s == Resurrect(p, active, locked, refused)
         IN  /\ PoolOk(s, c)
             /\ s.tx \subseteq p.tx \cup ToSet(Last(active))
             /\ \A K : Tenable(K, c) /\ K \subseteq p.tx \cup Mined(active)
                         /\ K \cap ToSet(Last(active)) \subseteq s.tx
                       => K \cap p.tx \subseteq s.tx
<1> DEFINE c == Front(active)
           ctx == [pool |-> p, vtx |-> Last(active), view |-> c, active |-> active,
                   locked |-> locked, refused |-> refused]
           q == Return!LeftFold(ctx, p, Last(active))
           s == RemoveCoinbaseSpends(q, c)
<1>1. Resurrect(p, active, locked, refused) = s
  BY DEF Resurrect, Return!LeftFold, ReturnStep, FoldLeft, MapThenFoldSet, Max,
         Return!FoldLeft, Return!MapThenFoldSet, Return!Max
<1>v. \A x : x \in ToSet(Last(active)) <=> \E j \in 1 .. Len(Last(active)) : x = Last(active)[j]
  BY ChainShrinks, BlocksOk, SeqOk DEF ToSet
<1>2. /\ Indexed(q) /\ q.tx \cap Generated = {}
      /\ \A u \in q.tx : \A o \in Inputs(u) : Loose(c, active, q.tx, o)
      /\ q.tx \subseteq p.tx \cup ToSet(Last(active))
      /\ \A K : Tenable(K, c) /\ K \cap ToSet(Last(active)) \subseteq q.tx => p.tx \cap K \subseteq q.tx
  <2>1. ReturnInv(ctx, Len(Last(active)), q)
    BY ReturnOk
  <2>2. ctx.view = c /\ ctx.active = active /\ ctx.pool = p /\ ctx.vtx = Last(active)
    OBVIOUS
  <2> HIDE DEF q, ctx, c
  <2>3. ASSUME NEW K, Tenable(K, c), K \cap ToSet(Last(active)) \subseteq q.tx
        PROVE  p.tx \cap K \subseteq q.tx
    <3>1. \A j \in 1 .. Len(Last(active)) : Last(active)[j] \in K => Last(active)[j] \in q.tx
      BY <1>v, <2>3
    <3> QED BY <2>1, <2>2, <2>3, <3>1 DEF ReturnInv
  <2>4. q.tx \subseteq p.tx \cup ToSet(Last(active))
    BY <1>v, <2>1, <2>2 DEF ReturnInv
  <2> QED BY <2>1, <2>2, <2>3, <2>4 DEF ReturnInv
<1> HIDE DEF q, ctx
<1>3. /\ Kept(q, s) /\ s.tx \cap CoinbaseSpends(q, c) = {}
      /\ \A M : ParentClosed(q.tx, M) /\ M \cap CoinbaseSpends(q, c) = {} => q.tx \cap M \subseteq s.tx
  BY <1>2, SweepOk
<1>4. /\ ChainOk(c) /\ ChainOk(active) /\ Last(active) \in Blocks
      /\ Mined(active) = Mined(c) \cup ToSet(Last(active))
      /\ Mined(c) \cap ToSet(Last(active)) = {}
  BY ChainShrinks
<1>5. c \in Seq(Seq(Txs)) /\ active \in Seq(Seq(Txs))
  BY <1>4, BlocksOk DEF ChainOk
<1>6. q.tx \subseteq Txs /\ s.tx \subseteq q.tx
  BY <1>2, <1>3 DEF Indexed, Kept
<1> HIDE DEF s, c
<1>7. ASSUME NEW u \in s.tx, NEW o \in Inputs(u) PROVE Funded(c, s.tx, o)
  <2>0. u \in q.tx /\ Loose(c, active, q.tx, o)
    BY <1>2, <1>6
  <2>1. CASE o[1] \in q.tx
    <3>1. o[1] \in s.tx
      BY <1>3, <2>1 DEF Kept
    <3>2. o \in Outputs(o[1])
      BY <1>5, <1>6, <2>0, <2>1, CreatorMined DEF Loose
    <3> QED BY <3>1, <3>2 DEF Funded
  <2>2. CASE o[1] \notin q.tx
    <3>1. HaveCoins(c, o[1]) /\ ~Immature(c, o[1], Len(c) + 1)
      BY <1>3, <2>0, <2>2 DEF CoinbaseSpends
    <3>2. o \in Coins(active) /\ o \notin SpentIn(c)
      BY <2>0, <2>2 DEF Loose
    <3>3. o \in Coins(c)
      <4>1. CASE o \in OldCoins
        BY <4>1 DEF Coins
      <4>2. CASE o \notin OldCoins
        <5>1. PICK t \in Mined(active) : o \in Outputs(t)
          BY <3>2, <4>2 DEF Coins
        <5>2. o[1] = t /\ t \in Txs
          BY <1>5, <5>1, MinedIs DEF Outputs
        <5>3. PICK x \in Unspent(c) : x[1] = o[1]
          BY <3>1 DEF HaveCoins
        <5>4. x \in Coins(c) /\ x[1] \in Txs
          BY <5>2, <5>3, UnspentIs
        <5>5. t \in Mined(c)
          BY <1>5, <5>2, <5>3, <5>4, CreatorMined
        <5> QED BY <5>1, <5>5 DEF Coins
      <4> QED BY <4>1, <4>2
    <3> QED BY <3>1, <3>2, <3>3, UnspentIs DEF Funded, CheckInput
  <2> QED BY <2>1, <2>2
<1>9. p.tx \cap Mined(active) = {} /\ q.tx \cap Mined(c) = {}
  BY <1>2, <1>4 DEF PoolOk
<1>8. PoolOk(s, c)
  BY <1>2, <1>3, <1>6, <1>7, <1>9 DEF PoolOk, Kept
<1>10. ASSUME NEW K, Tenable(K, c), K \subseteq p.tx \cup Mined(active),
              K \cap ToSet(Last(active)) \subseteq s.tx
       PROVE  K \cap p.tx \subseteq s.tx
  <2>1. p.tx \cap K \subseteq q.tx
    BY <1>2, <1>6, <1>10
  <2>2. ParentClosed(q.tx, K \cup Mined(c))
    BY <1>5, <1>9, <1>10, CreatorMined DEF ParentClosed, Tenable
  <2>3. (K \cup Mined(c)) \cap CoinbaseSpends(q, c) = {}
    <3>1. CoinbaseSpends(q, c) \subseteq q.tx
      BY DEF CoinbaseSpends
    <3> SUFFICES ASSUME NEW w \in K \cap CoinbaseSpends(q, c) PROVE FALSE
      BY <1>9, <3>1
    <3>2. PICK o \in Inputs(w) : o[1] \notin q.tx /\ (~HaveCoins(c, o[1]) \/ Immature(c, o[1], Len(c) + 1))
      BY <1>10 DEF CoinbaseSpends, Tenable
    <3>3. o \notin SpentIn(c)
      BY <1>2, <3>1, <3>2 DEF Loose
    <3>4. o \in Coins(c) => HaveCoins(c, o[1])
      BY <3>3, UnspentIs DEF HaveCoins
    <3>5. CASE o[1] \in K /\ o \in Outputs(o[1])
      <4>1. o[1] \in Mined(c)
        BY <1>4, <1>6, <1>10, <2>1, <3>2, <3>5
      <4>2. o \in Coins(c)
        BY <3>5, <4>1 DEF Coins
      <4>3. o[1] \notin Generated
        BY <1>10, <3>5 DEF Tenable
      <4> QED BY <3>2, <3>4, <4>2, <4>3 DEF Immature
    <3>6. CASE o \in Coins(c) /\ ~Immature(c, o[1], Len(c) + 1)
      BY <3>2, <3>4, <3>6
    <3> QED BY <1>10, <3>5, <3>6 DEF Tenable
  <2>4. q.tx \cap (K \cup Mined(c)) \subseteq s.tx
    BY <1>3, <2>2, <2>3
  <2> QED BY <2>1, <2>4
<1>11. s.tx \subseteq p.tx \cup ToSet(Last(active))
  BY <1>2, <1>6
<1> HIDE DEF c
<1> QED BY <1>1, <1>8, <1>10, <1>11 DEF c

-----------------------------------------------------------------------------
\* The steps of the pool, and the blocks that a lock rolls back

\* The pool is empty at first.
LEMMA InitPool == PoolInit => PoolInv
<1> SUFFICES ASSUME PoolInit PROVE PoolInv
  OBVIOUS
<1>1. chain = <<>> /\ checked = {} /\ pool.tx = {} /\ pool.next = <<>>
  BY DEF PoolInit
<1>2. ChainOk(chain) /\ Len(chain) <= MaxHeight
  BY <1>1, LimitsAssumption DEF ChainOk
<1>3. PoolOk(pool, chain)
  <2>1. DOMAIN pool.next = {}
    BY <1>1
  <2> QED BY <1>1, <2>1 DEF PoolOk, Indexed
<1> QED BY <1>1, <1>2, <1>3 DEF PoolInv

\* ConnectTip keeps the pool consistent with the longer chain.
LEMMA ConnectKeepsPool ==
  ASSUME NEW vtx \in Blocks, PoolInv, ConnectTip(vtx)
  PROVE  PoolInv'
<1>1. /\ ChainOk(chain) /\ Len(chain) <= MaxHeight /\ checked \subseteq Blocks /\ PoolOk(pool, chain)
  BY DEF PoolInv
<1>2. /\ Len(chain) < MaxHeight /\ ValidBlock(chain, vtx) /\ chain' = Append(chain, vtx)
      /\ checked' = checked \ {vtx} /\ pool' = RemoveForBlock(pool, vtx)
  BY DEF ConnectTip
<1>3. PoolOk(pool', chain')
  BY <1>1, <1>2, ConnectOk
<1>4. ChainOk(chain') /\ Len(chain') = Len(chain) + 1
  BY <1>1, <1>2, ChainGrows
<1>6. Len(chain) \in Nat
  BY <1>1 DEF ChainOk
<1>5. Len(chain') <= MaxHeight
  BY <1>2, <1>4, <1>6, LimitsAssumption
<1> QED BY <1>1, <1>2, <1>3, <1>4, <1>5 DEF PoolInv

\* A step of something else changes nothing here.
LEMMA PoolUnchanged == PoolInv /\ UNCHANGED <<chain, checked, pool>> => PoolInv'
BY DEF PoolInv

\* The invariant is the consistency that CTxMemPool::check asks for, and more.
LEMMA PoolInvConsistent == PoolInv => PoolConsistent /\ PoolTypeOK
<1> SUFFICES ASSUME PoolInv PROVE PoolConsistent /\ PoolTypeOK
  OBVIOUS
<1>1. /\ Indexed(pool) /\ \A t \in pool.tx : \A o \in Inputs(t) : Funded(chain, pool.tx, o)
  BY DEF PoolInv, PoolOk
<1>2. PoolConsistent
  BY <1>1 DEF Indexed, PoolConsistent, Funded
<1>3. \A t \in Txs : Inputs(t) \subseteq Outpoints
  BY TxsAssumption DEF Inputs, ToSet
<1>4. pool.tx \in SUBSET Txs /\ DOMAIN pool.next \subseteq Outpoints /\ \A o \in DOMAIN pool.next : pool.next[o] \in Txs
  BY <1>1, <1>3 DEF Indexed
<1>5. chain \in Seq(Blocks) /\ Len(chain) <= MaxHeight /\ checked \in SUBSET Blocks
  BY DEF PoolInv, ChainOk
<1> QED BY <1>2, <1>4, <1>5 DEF PoolTypeOK

-----------------------------------------------------------------------------
\* What could stay stays

\* What could stay after the tip is disconnected could stay before it.
LEMMA TenableGrows ==
  ASSUME NEW c, ChainOk(c), c # <<>>, NEW K, Tenable(K, Front(c))
  PROVE  Tenable(K, c)
<1> DEFINE b == Front(c)
<1>1. /\ ChainOk(b) /\ Mined(c) = Mined(b) \cup ToSet(Last(c))
      /\ Len(b) = Len(c) - 1 /\ Len(c) \in Nat
  BY ChainShrinks
<1>2. \A i \in 1 .. Len(b) : c[i] = b[i]
  BY <1>1 DEF ChainOk, Front
<1> HIDE DEF b
<1>3. Len(c) = Len(b) + 1 /\ b \in Seq(Seq(Txs)) /\ c \in Seq(Seq(Txs))
  BY <1>1, BlocksOk DEF ChainOk
<1>4. Coins(b) \subseteq Coins(c)
  BY <1>1, CoinsGrow
<1>5. ASSUME NEW o \in Coins(b), ~Immature(b, o[1], Len(b) + 1) PROVE ~Immature(c, o[1], Len(c) + 1)
  <2>1. o[1] \in Mined(c) => o[1] \in Mined(b)
    BY <1>3, MinedIs, CreatorMined
  <2> QED BY <1>1, <1>2, <1>3, <1>5, <2>1, StaysMature
<1>6. Tenable(K, b)
  BY DEF b
<1> QED BY <1>4, <1>5, <1>6 DEF Tenable

\* Blocks that are disconnected one after the other
UndoStep(ctx, s, i) ==
  IF s.chain = <<>> THEN s
  ELSE [chain |-> Front(s.chain), pool |-> Resurrect(s.pool, s.chain, ctx.locked, ctx.refused)]
UndoInv(ctx, i, s) ==
  /\ ChainOk(s.chain) /\ PoolOk(s.pool, s.chain)
  /\ Mined(s.chain) \subseteq Mined(ctx.chain)
  /\ (s.chain = ctx.chain /\ s.pool = ctx.pool) \/ Len(s.chain) < Len(ctx.chain)
  /\ s.pool.tx \subseteq ctx.pool.tx \cup (Mined(ctx.chain) \ Mined(s.chain))
  /\ \A K : Tenable(K, s.chain) /\ K \subseteq ctx.pool.tx \cup Mined(ctx.chain)
              /\ K \cap (Mined(ctx.chain) \ Mined(s.chain)) \subseteq s.pool.tx
            => K \cap ctx.pool.tx \subseteq s.pool.tx

\* Disconnecting one more block keeps the pool consistent and drops only what
\* cannot stay.
LEMMA UndoStepOk ==
  ASSUME NEW ctx, Len(ctx.chain) \in Nat, NEW i, NEW j, NEW k, NEW s, UndoInv(ctx, i, s)
  PROVE  UndoInv(ctx, j, UndoStep(ctx, s, k))
<1>1. CASE s.chain = <<>>
  BY <1>1 DEF UndoStep, UndoInv
<1>2. CASE s.chain # <<>>
  <2> DEFINE c == s.chain
             b == Front(c)
             q == Resurrect(s.pool, c, ctx.locked, ctx.refused)
             vtx == Last(c)
  <2>1. /\ ChainOk(c) /\ PoolOk(s.pool, c) /\ Mined(c) \subseteq Mined(ctx.chain)
        /\ Len(c) <= Len(ctx.chain)
        /\ s.pool.tx \subseteq ctx.pool.tx \cup (Mined(ctx.chain) \ Mined(c))
        /\ \A K : Tenable(K, c) /\ K \subseteq ctx.pool.tx \cup Mined(ctx.chain)
                    /\ K \cap (Mined(ctx.chain) \ Mined(c)) \subseteq s.pool.tx
                  => K \cap ctx.pool.tx \subseteq s.pool.tx
    <3>1. UndoInv(ctx, i, s)
      OBVIOUS
    <3>2. Len(c) <= Len(ctx.chain)
      <4>1. ChainOk(c) /\ (c = ctx.chain \/ Len(c) < Len(ctx.chain))
        BY <3>1 DEF UndoInv
      <4>2. Len(c) \in Nat
        BY <4>1 DEF ChainOk
      <4> QED BY <4>1, <4>2
    <3> QED BY <3>1, <3>2 DEF UndoInv
  <2>2. UndoStep(ctx, s, k).chain = b /\ UndoStep(ctx, s, k).pool = q
    BY <1>2 DEF UndoStep
  <2> DEFINE r == UndoStep(ctx, s, k)
  <2> HIDE DEF r, c
  <2>3. c # <<>>
    BY <1>2 DEF c
  <2>4. /\ ChainOk(b) /\ Mined(c) = Mined(b) \cup ToSet(vtx) /\ Mined(b) \cap ToSet(vtx) = {}
        /\ Len(b) = Len(c) - 1 /\ Len(c) \in Nat
    BY <2>1, <2>3, ChainShrinks
  <2>5. /\ PoolOk(q, b) /\ q.tx \subseteq s.pool.tx \cup ToSet(vtx)
        /\ \A K : Tenable(K, b) /\ K \subseteq s.pool.tx \cup Mined(c) /\ K \cap ToSet(vtx) \subseteq q.tx
                  => K \cap s.pool.tx \subseteq q.tx
    BY <2>1, <2>3, ResurrectOk
  <2>6. ASSUME NEW K, Tenable(K, b) PROVE Tenable(K, c)
    BY <2>1, <2>3, <2>6, TenableGrows
  <2> HIDE DEF b, q, vtx
  <2>7. ASSUME NEW K, Tenable(K, b), K \subseteq ctx.pool.tx \cup Mined(ctx.chain),
               K \cap (Mined(ctx.chain) \ Mined(b)) \subseteq q.tx
        PROVE  K \cap ctx.pool.tx \subseteq q.tx
    <3>1. K \cap (Mined(ctx.chain) \ Mined(c)) \subseteq s.pool.tx
      BY <2>4, <2>5, <2>7
    <3>2. K \cap ctx.pool.tx \subseteq s.pool.tx
      BY <2>1, <2>6, <2>7, <3>1
    <3>3. K \subseteq s.pool.tx \cup Mined(c)
      BY <2>7, <3>1, <3>2
    <3>4. K \cap ToSet(vtx) \subseteq q.tx
      BY <2>1, <2>4, <2>7
    <3> QED BY <2>5, <2>7, <3>2, <3>3, <3>4
  <2>8. q.tx \subseteq ctx.pool.tx \cup (Mined(ctx.chain) \ Mined(b))
    BY <2>1, <2>4, <2>5
  <2>9. Len(b) < Len(ctx.chain)
    BY <2>1, <2>4
  <2>10. r.chain = b /\ r.pool = q
    BY <2>2 DEF r
  <2>11. UndoInv(ctx, j, r)
    BY <2>1, <2>4, <2>5, <2>7, <2>8, <2>9, <2>10 DEF UndoInv
  <2> QED BY <2>11 DEF r
<1> QED BY <1>1, <1>2

\* No block is disconnected yet.
LEMMA UndoBase ==
  ASSUME PoolInv, NEW locked, NEW refused
  PROVE  UndoInv([chain |-> chain, pool |-> pool, locked |-> locked, refused |-> refused], 0,
                 [chain |-> chain, pool |-> pool])
<1> DEFINE ctx == [chain |-> chain, pool |-> pool, locked |-> locked, refused |-> refused]
           s == [chain |-> chain, pool |-> pool]
<1>1. ctx.chain = chain /\ ctx.pool = pool /\ s.chain = chain /\ s.pool = pool
  OBVIOUS
<1>2. ChainOk(chain) /\ PoolOk(pool, chain)
  BY DEF PoolInv
<1> HIDE DEF ctx, s
<1>3. UndoInv(ctx, 0, s)
  BY <1>1, <1>2 DEF UndoInv
<1> QED BY <1>3 DEF ctx, s

\* Where the chain and the pool are after some blocks are disconnected
Undone(s) ==
  UndoInv([chain |-> chain, pool |-> pool, locked |-> <<>>, refused |-> {}], 0, s)

\* What the locks and the policy refuse does not matter for what is known of the
\* result.
LEMMA UndoneIs ==
  ASSUME NEW locked, NEW refused, NEW i, NEW s,
         UndoInv([chain |-> chain, pool |-> pool, locked |-> locked, refused |-> refused], i, s)
  PROVE  Undone(s)
BY DEF Undone, UndoInv

\* A transaction could stay when some transactions with it could stay together.
LEMMA KeepableIs ==
  ASSUME NEW S, NEW c, NEW t \in Keepable(S, c)
  PROVE  \E K \in SUBSET S : t \in K /\ \A u \in K : \A o \in Inputs(u) : Funded(c, K, o)
BY DEF Keepable, Funded

\* Whatever number of blocks is disconnected, the pool agrees with the chain
\* that is left and has lost only what cannot stay.
LEMMA UndoneKeeps ==
  ASSUME PoolInv, NEW s, Undone(s), chain' = s.chain, pool' = s.pool, checked' = checked
  PROVE  /\ PoolInv'
         /\ (pool.tx \ pool'.tx) \cap Keepable(Candidates, chain') = {}
         /\ pool' = pool \/ Len(chain') < Len(chain)
<1>1. /\ ChainOk(chain') /\ PoolOk(pool', chain')
      /\ pool' = pool \/ Len(chain') < Len(chain)
      /\ pool'.tx \subseteq pool.tx \cup (Mined(chain) \ Mined(chain'))
      /\ \A K : Tenable(K, chain') /\ K \subseteq pool.tx \cup Mined(chain)
                  /\ K \cap (Mined(chain) \ Mined(chain')) \subseteq pool'.tx
                => K \cap pool.tx \subseteq pool'.tx
      /\ chain' = chain \/ Len(chain') < Len(chain)
  BY DEF Undone, UndoInv
<1>2. PoolInv'
  <2>1. Len(chain) \in Nat /\ Len(chain') \in Nat /\ Len(chain) <= MaxHeight /\ checked \subseteq Blocks
    BY <1>1 DEF PoolInv, ChainOk
  <2>2. Len(chain') <= MaxHeight
    BY <1>1, <2>1, LimitsAssumption
  <2> QED BY <1>1, <2>1, <2>2 DEF PoolInv
<1>3. SUFFICES ASSUME Len(chain') < Len(chain), NEW t \in pool.tx \ pool'.tx,
                      t \in Keepable(Candidates, chain')
               PROVE  FALSE
  BY <1>1, <1>2
<1>4. PICK K \in SUBSET Candidates :
         t \in K /\ \A u \in K : \A o \in Inputs(u) : Funded(chain', K, o)
  BY <1>3, KeepableIs
<1>5. \A u \in K : u \in pool.tx \cup pool'.tx /\ u \notin Mined(chain') /\ ~IsZerocoinSpend(u)
  BY <1>3, <1>4 DEF Candidates
<1>6. /\ pool.tx \cap Generated = {} /\ pool'.tx \cap Generated = {} /\ pool.tx \cap Mined(chain) = {}
  BY <1>1 DEF PoolInv, PoolOk
<1>7. Tenable(K, chain')
  BY <1>4, <1>5, <1>6, UnspentIs DEF Tenable, Funded, CheckInput
<1>8. K \subseteq pool.tx \cup Mined(chain) /\ K \cap (Mined(chain) \ Mined(chain')) \subseteq pool'.tx
  BY <1>1, <1>5, <1>6
<1> QED BY <1>1, <1>3, <1>4, <1>7, <1>8

\* ConnectTip drops only what the block mines or what cannot stay
LEMMA ConnectDrops ==
  ASSUME PoolInv, NEW vtx \in Blocks, ConnectTip(vtx)
  PROVE  (pool.tx \ pool'.tx) \cap Keepable(Candidates, chain') = {}
<1> DEFINE d == Append(chain, vtx)
<1>1. /\ ValidBlock(chain, vtx) /\ chain' = d /\ pool' = RemoveForBlock(pool, vtx)
      /\ ChainOk(chain) /\ PoolOk(pool, chain) /\ Indexed(pool)
      /\ pool.tx \cap Mined(chain) = {} /\ pool.tx \subseteq Txs
  BY DEF ConnectTip, PoolInv, PoolOk, Indexed
<1>2. vtx \in Seq(Txs) /\ chain \in Seq(Seq(Txs))
  BY <1>1, BlocksOk DEF ChainOk
<1>3. /\ ChainOk(d) /\ Mined(d) = Mined(chain) \cup ToSet(vtx) /\ d \in Seq(Seq(Txs))
  BY <1>1, <1>2, ChainGrows, MinedAppend
<1>4. SpentIn(d) \subseteq Coins(d)
  BY <1>3, SpentWereCoins
<1>5. \A t, u \in ToSet(vtx) : Inputs(t) \cap Inputs(u) # {} => t = u
  BY <1>1, <1>2, BlockOnce
<1> HIDE DEF d
<1> SUFFICES ASSUME NEW t \in pool.tx \ pool'.tx, t \in Keepable(Candidates, d) PROVE FALSE
  BY <1>1
<1>6. PICK K \in SUBSET Candidates :
         t \in K /\ \A u \in K : \A o \in Inputs(u) : Funded(d, K, o)
  BY KeepableIs
<1>7. K \cap Mined(d) = {}
  BY <1>1, <1>6 DEF Candidates
<1>8. \A u \in K : \A o \in Inputs(u) : (o[1] \in K /\ o \in Outputs(o[1])) \/ (o \in Coins(d) /\ o \notin SpentIn(d))
  BY <1>6, UnspentIs DEF Funded, CheckInput
<1>9. Spared(pool.tx, ToSet(vtx), K \cup Mined(d))
  <2>1. ASSUME NEW u \in pool.tx \cap (K \cup Mined(d)), NEW o \in Inputs(u), o[1] \in Txs
        PROVE  o[1] \in K \cup Mined(d)
    BY <1>3, <1>4, <1>8, <2>1, CreatorMined DEF SpentIn
  <2>2. ASSUME NEW u \in pool.tx \cap (K \cup Mined(d)), NEW w \in ToSet(vtx), NEW o \in Inputs(u) \cap Inputs(w)
        PROVE  u = w
    <3>1. o \in SpentIn(d) /\ o \in Coins(d)
      BY <1>3, <1>4 DEF SpentIn
    <3>2. CASE u \in K
      <4>1. o[1] \in K /\ K \subseteq Txs
        <5>1. o[1] \in K
          BY <1>8, <3>1, <3>2
        <5>2. pool'.tx \subseteq Txs
          BY ConnectKeepsPool DEF PoolInv, PoolOk, Indexed
        <5> QED BY <1>1, <5>1, <5>2 DEF Candidates
      <4> QED BY <1>3, <1>7, <3>1, <4>1, CreatorMined
    <3>3. CASE u \in Mined(d)
      BY <1>1, <1>3, <1>5, <3>3
    <3> QED BY <3>2, <3>3
  <2> QED BY <2>1, <2>2 DEF Spared, ParentClosed
<1>10. (pool.tx \cap (K \cup Mined(d))) \ ToSet(vtx) \subseteq pool'.tx
  BY <1>1, <1>2, <1>9, RemoveForBlockOk
<1> QED BY <1>3, <1>6, <1>7, <1>10

-----------------------------------------------------------------------------
(* The chain and the pool, whatever the locks do.                            *)

\* The blocks that ReprocessBlocks disconnects, one after the other
Undoing == INSTANCE FoldTheorems WITH op <- UndoStep, Inv <- UndoInv

\* ReprocessBlocks disconnects blocks, one after the other, and changes nothing
\* else.
LEMMA ReprocessOk ==
    ASSUME PoolInv, NEW locked, NEW refused, ReprocessBlocks(locked, refused)
    PROVE  \E s : Undone(s) /\ chain' = s.chain /\ pool' = s.pool /\ checked' = checked
<1> DEFINE ctx == [chain |-> chain, pool |-> pool, locked |-> locked, refused |-> refused]
           base == [chain |-> chain, pool |-> pool]
           steps == [i \in 1 .. ReprocessDepth |-> i]
           s == Undoing!LeftFold(ctx, base, steps)
<1>1. chain' = s.chain /\ pool' = s.pool /\ checked' = checked
  BY DEF ReprocessBlocks, Undoing!LeftFold, UndoStep, FoldLeft, MapThenFoldSet, Max,
         Undoing!FoldLeft, Undoing!MapThenFoldSet, Undoing!Max
<1>2. UndoInv(ctx, 0, base)
  BY UndoBase
<1>3. Len(ctx.chain) \in Nat
  BY DEF PoolInv, ChainOk
<1>4. ReprocessDepth \in Nat /\ DOMAIN steps = 1 .. ReprocessDepth
  BY SwiftAssumption
<1> HIDE DEF ctx, base, steps
<1>5. ASSUME NEW i \in 1 .. ReprocessDepth, NEW a, UndoInv(ctx, i - 1, a)
      PROVE  UndoInv(ctx, i, UndoStep(ctx, a, steps[i]))
  BY <1>3, <1>5, UndoStepOk
<1>6. UndoInv(ctx, ReprocessDepth, s)
  BY <1>2, <1>4, <1>5, Undoing!FoldLeftInduction
<1> HIDE DEF s
<1>7. Undone(s)
  BY <1>6, UndoneIs DEF ctx
<1> QED BY <1>1, <1>7

\* DisconnectTip disconnects one block.
LEMMA DisconnectOk ==
    ASSUME PoolInv, NEW refused, DisconnectTip(refused)
    PROVE  \E s : Undone(s) /\ chain' = s.chain /\ pool' = s.pool /\ checked' = checked
<1> DEFINE ctx == [chain |-> chain, pool |-> pool, locked |-> lockedInputs, refused |-> refused]
           base == [chain |-> chain, pool |-> pool]
           s == UndoStep(ctx, base, 1)
<1>1. chain' = s.chain /\ pool' = s.pool /\ checked' = checked
  BY DEF DisconnectTip, UndoStep
<1>2. UndoInv(ctx, 0, base) /\ Len(ctx.chain) \in Nat
  BY UndoBase DEF PoolInv, ChainOk
<1> HIDE DEF ctx, base
<1>3. UndoInv(ctx, 1, s)
  BY <1>2, UndoStepOk
<1> HIDE DEF s
<1>4. Undone(s)
  BY <1>3, UndoneIs DEF ctx
<1> QED BY <1>1, <1>4

\* What a step does to the chain and to the pool
PoolMove ==
    \/ chain' = chain /\ pool.tx \subseteq pool'.tx
    \/ \E s : Undone(s) /\ chain' = s.chain /\ pool' = s.pool /\ checked' = checked
    \/ \E vtx \in Blocks : ConnectTip(vtx)

\* Each step of the composed system keeps the pool consistent and is a move of
\* the pool.
LEMMA PoolMoves ==
    ASSUME PoolInv, [Next]_vars
    PROVE  PoolInv' /\ PoolMove
<1>1. CASE UNCHANGED <<chain, checked, pool>>
  BY <1>1, PoolUnchanged DEF PoolMove
<1>2. ASSUME NEW t \in Txs, AcceptToMemoryPool(t) PROVE PoolInv' /\ PoolMove
  BY <1>2, AcceptKeepsPool DEF PoolMove, AcceptToMemoryPool, AddUnchecked
<1>3. ASSUME NEW locked, NEW refused, ReprocessBlocks(locked, refused) PROVE PoolInv' /\ PoolMove
  BY <1>3, ReprocessOk, UndoneKeeps DEF PoolMove
<1>4. CASE PoolNext
  <2>1. ASSUME NEW vtx \in Blocks, ConnectTip(vtx) PROVE PoolInv' /\ PoolMove
    BY <2>1, ConnectKeepsPool DEF PoolMove
  <2>2. ASSUME NEW refused, DisconnectTip(refused) PROVE PoolInv' /\ PoolMove
    BY <2>2, DisconnectOk, UndoneKeeps DEF PoolMove
  <2>3. ASSUME NEW vtx \in Blocks, CheckNewBlock(vtx) PROVE PoolInv' /\ PoolMove
    <3>1. chain' = chain /\ pool' = pool /\ checked' \subseteq Blocks
      BY <2>3 DEF CheckNewBlock
    <3> QED BY <3>1 DEF PoolInv, PoolMove
  <2>4. CASE NewBlockDone
    <3>1. chain' = chain /\ pool' = pool /\ checked' \subseteq Blocks
      BY <2>4 DEF NewBlockDone
    <3> QED BY <3>1 DEF PoolInv, PoolMove
  <2> QED BY <1>2, <1>4, <2>1, <2>2, <2>3, <2>4 DEF PoolNext
<1>5. ASSUME NEW t \in Lockable,
             LockRequest(t) \/ SendRawTransaction(t) \/ RelayWalletTransaction(t)
      PROVE  PoolInv' /\ PoolMove
  <2>1. t \in Txs
    BY LockableAssumption
  <2>2. AcceptToMemoryPool(t) \/ UNCHANGED <<chain, checked, pool>>
    BY <1>5 DEF LockRequest, SendRawTransaction, RelayWalletTransaction
  <2> QED BY <1>1, <1>2, <2>1, <2>2
<1>6. ASSUME NEW t, LockRequestRejected(t) PROVE PoolInv' /\ PoolMove
  <2>1. (\E locked, refused : ReprocessBlocks(locked, refused)) \/ UNCHANGED <<chain, checked, pool>>
    BY <1>6 DEF LockRequestRejected
  <2> QED BY <1>1, <1>3, <2>1
<1>7. ASSUME NEW n, NEW t, NEW h, NEW valid, TxLockVote(n, t, h, valid) PROVE PoolInv' /\ PoolMove
  <2>1. (\E locked, refused : ReprocessBlocks(locked, refused)) \/ UNCHANGED <<chain, checked, pool>>
    BY <1>7 DEF TxLockVote
  <2> QED BY <1>1, <1>3, <2>1
<1>8. ASSUME NEW k, CleanTransactionLocksList(k) PROVE PoolInv' /\ PoolMove
  BY <1>1, <1>8 DEF CleanTransactionLocksList
<1>9. CASE UNCHANGED vars
  BY <1>1, <1>9 DEF vars
<1> QED BY <1>4, <1>5, <1>6, <1>7, <1>8, <1>9 DEF Next

\* A block that is not refused for a lock spares the transaction that holds it
LEMMA LockSpares ==
    ASSUME PoolInv, NEW vtx \in Blocks, ConnectTip(vtx), CheckBlock(lockedInputs, vtx),
           NEW t \in pool.tx, Holds(t), Inputs(t) \subseteq Unspent(chain), t \notin ToSet(vtx)
    PROVE  t \in pool'.tx
<1> DEFINE d == Append(chain, vtx)
           M == {t} \cup Mined(d)
<1>1. /\ ValidBlock(chain, vtx) /\ pool' = RemoveForBlock(pool, vtx)
      /\ ChainOk(chain) /\ Indexed(pool)
      /\ pool.tx \cap Mined(chain) = {} /\ pool.tx \subseteq Txs
  BY DEF ConnectTip, PoolInv, PoolOk, Indexed
<1>2. vtx \in Seq(Txs) /\ chain \in Seq(Seq(Txs))
  BY <1>1, BlocksOk DEF ChainOk
<1>3. ChainOk(d) /\ Mined(d) = Mined(chain) \cup ToSet(vtx) /\ d \in Seq(Seq(Txs))
  BY <1>1, <1>2, ChainGrows, MinedAppend
<1>4. SpentIn(d) \subseteq Coins(d)
  BY <1>3, SpentWereCoins
<1>5. \A u, w \in ToSet(vtx) : Inputs(u) \cap Inputs(w) # {} => u = w
  BY <1>1, <1>2, BlockOnce
<1> HIDE DEF d
<1>6. \A u \in pool.tx \cap M : u = t \/ u \in ToSet(vtx)
  BY <1>1, <1>3
<1>7. ASSUME NEW u \in pool.tx \cap M, NEW o \in Inputs(u), o[1] \in Txs PROVE o[1] \in M
  <2>1. CASE u = t
    <3>1. o \in Coins(chain)
      BY <1>7, <2>1, UnspentIs
    <3> QED BY <1>2, <1>3, <1>7, <3>1, CreatorMined
  <2>2. CASE u \in ToSet(vtx)
    <3>1. o \in Coins(d)
      BY <1>3, <1>4, <2>2 DEF SpentIn
    <3> QED BY <1>3, <1>7, <3>1, CreatorMined
  <2> QED BY <1>6, <2>1, <2>2
<1>8. ASSUME NEW u \in pool.tx \cap M, NEW w \in ToSet(vtx), NEW o \in Inputs(u) \cap Inputs(w) PROVE u = w
  <2>1. CASE u = t
    BY <2>1 DEF Holds, CheckBlock, ConflictsWithLock
  <2>2. CASE u \in ToSet(vtx)
    BY <1>5, <2>2
  <2> QED BY <1>6, <2>1, <2>2
<1>9. Spared(pool.tx, ToSet(vtx), M)
  BY <1>7, <1>8 DEF Spared, ParentClosed
<1> HIDE DEF M
<1>10. (pool.tx \cap M) \ ToSet(vtx) \subseteq pool'.tx
  BY <1>1, <1>2, <1>9, RemoveForBlockOk
<1> QED BY <1>10 DEF M

(* The memory pool is consistent with itself and with the tip                *)
(* (CTxMemPool::check) after any sequence of acceptances, blocks,            *)
(* reorganisations and rollbacks by locks: mapNextTx is exact, no two        *)
(* entries spend one output, and each input is an output of an entry or a     *)
(* mature coin.                                                              *)
THEOREM PoolAgrees == Spec => []PoolConsistent
<1>1. Init => PoolInv
  BY InitPool DEF Init
<1>2. PoolInv /\ [Next]_vars => PoolInv'
  BY PoolMoves
<1>3. PoolInv => PoolConsistent
  BY PoolInvConsistent
<1> QED BY <1>1, <1>2, <1>3, PTL DEF Spec

(* No step drops a transaction that could stay: removeForBlock,              *)
(* removeConflicts, removeCoinbaseSpends and the rollback of several blocks   *)
(* take out only what is mined, or conflicts with a mined transaction, or     *)
(* lost or cannot yet spend an input, and what depends on such a              *)
(* transaction.                                                              *)
THEOREM NothingLost == Spec => DroppedForCause
<1>1. Init => PoolInv
  BY InitPool DEF Init
<1>2. PoolInv /\ [Next]_vars => PoolInv'
  BY PoolMoves
<1>3. PoolInv /\ [Next]_vars =>
          [(pool.tx \ pool'.tx) \cap Keepable(Candidates, chain') = {}]_<<chain, checked, pool, lockedInputs>>
  <2> SUFFICES ASSUME PoolInv, PoolMove
               PROVE  (pool.tx \ pool'.tx) \cap Keepable(Candidates, chain') = {}
    BY PoolMoves
  <2> QED BY UndoneKeeps, ConnectDrops DEF PoolMove
<1> QED BY <1>1, <1>2, <1>3, PTL DEF Spec, DroppedForCause

(* A transaction that holds the lock of all its inputs, coins of the chain,   *)
(* is not mined over: CheckBlock refuses every block with a conflict, except  *)
(* one that it checked before the inputs were locked.                         *)
THEOREM LocksHold == Spec => LockedStays
<1> DEFINE Stays ==
             \A t \in pool.tx \ pool'.tx :
                 Holds(t) /\ Inputs(t) # {} /\ Inputs(t) \subseteq Unspent(chain) =>
                     \/ t \in Mined(chain')
                     \/ Len(chain') < Len(chain)
                     \/ Last(chain') \in checked
<1>1. Init => PoolInv
  BY InitPool DEF Init
<1>2. PoolInv /\ [Next]_vars => PoolInv'
  BY PoolMoves
<1>3. PoolInv /\ [Next]_vars => [Stays]_vars
  <2> SUFFICES ASSUME PoolInv, PoolMove PROVE Stays
    BY PoolMoves
  <2>1. CASE pool.tx \subseteq pool'.tx
    BY <2>1
  <2>2. ASSUME NEW s, Undone(s), chain' = s.chain, pool' = s.pool, checked' = checked PROVE Stays
    BY <2>2, UndoneKeeps
  <2>3. ASSUME NEW vtx \in Blocks, ConnectTip(vtx) PROVE Stays
    <3>1. chain \in Seq(Blocks) /\ chain' = Append(chain, vtx) /\ (vtx \in checked \/ CheckBlock(lockedInputs, vtx))
      BY <2>3 DEF ConnectTip, PoolInv, ChainOk
    <3>2. Last(chain') = vtx
      BY <3>1 DEF Last
    <3>3. ToSet(vtx) \subseteq Mined(chain')
      BY <3>1, BlocksOk, MinedAppend
    <3> QED BY <2>3, <3>1, <3>2, <3>3, LockSpares
  <2> QED BY <2>1, <2>2, <2>3 DEF PoolMove
<1> QED BY <1>1, <1>2, <1>3, PTL DEF Spec, LockedStays

-----------------------------------------------------------------------------
(* The inductive invariant: a vote that a lock counts is on record, and so   *)
(* its node is refused when it votes again.                                *)

IsLock(l) == l = [height |-> l.height, votes |-> l.votes]

\* The votes of l, a lock of t, are single and on record
Counted(l, t, recorded) ==
    /\ IsLock(l)
    /\ \A v \in DOMAIN l.votes :
           /\ l.votes[v] = 1
           /\ <<v[1], t>> \in recorded
           /\ \A w \in DOMAIN l.votes : v[1] = w[1] => v = w

OnRecord(locks, recorded) == \A t \in DOMAIN locks : Counted(locks[t], t, recorded)

VInv == OnRecord(txLocks, txLockVote)

\* The record of maps that the operators of SwiftTX hand on
IsMaps(m) == m = [req |-> m.req, locks |-> m.locks, order |-> m.order, locked |-> m.locked]
Safe(m, recorded) == IsMaps(m) /\ OnRecord(m.locks, recorded)

\* The record of maps, some of them replaced
Edited(r, l, o, k) == [req |-> r, locks |-> l, order |-> o, locked |-> k]

(* The ways in which they are replaced.                                      *)
LEMMA EditOk ==
    ASSUME NEW m, IsMaps(m), NEW x, NEW y
    PROVE  /\ [m EXCEPT !.req = x] = Edited(x, m.locks, m.order, m.locked)
           /\ [m EXCEPT !.locks = x] = Edited(m.req, x, m.order, m.locked)
           /\ [m EXCEPT !.order = x] = Edited(m.req, m.locks, x, m.locked)
           /\ [m EXCEPT !.locked = x] = Edited(m.req, m.locks, m.order, x)
           /\ [m EXCEPT !.locks = x, !.order = y] = Edited(m.req, x, y, m.locked)
<1>1. m = [req |-> m.req, locks |-> m.locks, order |-> m.order, locked |-> m.locked]
  BY DEF IsMaps
<1>2. /\ [m EXCEPT !.req = x] = Edited(x, m.locks, m.order, m.locked)
      /\ [m EXCEPT !.locks = x] = Edited(m.req, x, m.order, m.locked)
      /\ [m EXCEPT !.order = x] = Edited(m.req, m.locks, x, m.locked)
      /\ [m EXCEPT !.locked = x] = Edited(m.req, m.locks, m.order, x)
  BY <1>1 DEF Edited
<1>3. [m EXCEPT !.locks = x, !.order = y] = Edited(m.req, x, y, m.locked)
  <2> DEFINE a == [m EXCEPT !.locks = x]
  <2>1. [m EXCEPT !.locks = x, !.order = y] = [a EXCEPT !.order = y]
    OBVIOUS
  <2>2. /\ a = [req |-> a.req, locks |-> a.locks, order |-> a.order, locked |-> a.locked]
        /\ a.req = m.req /\ a.locks = x /\ a.locked = m.locked
    BY <1>2 DEF Edited
  <2> HIDE DEF a
  <2>3. [a EXCEPT !.order = y] = Edited(a.req, a.locks, y, a.locked)
    BY <2>2 DEF Edited
  <2> QED BY <2>1, <2>2, <2>3 DEF Edited
<1> QED BY <1>2, <1>3

(* Only the locks matter.                                                    *)
LEMMA EditedOk ==
    ASSUME NEW recorded, NEW r, NEW l, NEW o, NEW k, OnRecord(l, recorded)
    PROVE  Safe(Edited(r, l, o, k), recorded) /\ Edited(r, l, o, k).locks = l
BY DEF Safe, IsMaps, Edited

(* A record with the locks of another one.                                   *)
LEMMA EditedSafe ==
    ASSUME NEW recorded, NEW m, Safe(m, recorded), NEW r, NEW o, NEW k
    PROVE  Safe(Edited(r, m.locks, o, k), recorded)
BY EditedOk DEF Safe

(* A new lock has no votes.                                                  *)
LEMMA NewLockOk ==
    ASSUME NEW recorded, NEW m, Safe(m, recorded), NEW t, NEW h
    PROVE  /\ Safe(NewLock(m, t, h), recorded)
           /\ t \in DOMAIN NewLock(m, t, h).locks
           /\ t \notin DOMAIN m.locks => NewLock(m, t, h).locks[t].votes = <<>>
<1> DEFINE more == [u \in DOMAIN m.locks \cup {t} |->
                       IF u = t THEN [height |-> h, votes |-> <<>>] ELSE m.locks[u]]
<1>1. OnRecord(more, recorded)
  <2>1. Counted([height |-> h, votes |-> <<>>], t, recorded)
    BY DEF Counted, IsLock
  <2> QED BY <2>1 DEF OnRecord, Safe
<1>2. t \in DOMAIN more /\ (t \notin DOMAIN m.locks => more[t].votes = <<>>)
  OBVIOUS
<1>3. NewLock(m, t, h) = [m EXCEPT !.locks = more, !.order = Append(m.order, t)]
  BY DEF NewLock
<1> HIDE DEF more
<1>4. NewLock(m, t, h) = Edited(m.req, more, Append(m.order, t), m.locked)
  BY <1>3, EditOk DEF Safe
<1> QED BY <1>1, <1>2, <1>4, EditedOk

(* CreateNewLock adds no vote.                                               *)
LEMMA CreateOk ==
    ASSUME NEW recorded, NEW m, Safe(m, recorded), NEW t
    PROVE  Safe(CreateNewLock(m, t), recorded)
<1> DEFINE h == TipHeight - AgeOf(In[t][1]) + 4
           again == [m.locks EXCEPT ![t].height = h]
<1>1. CreateNewLock(m, t) \in {m, [m EXCEPT !.locks = again], NewLock(m, t, h)}
  BY DEF CreateNewLock, Safe, IsMaps
<1>3. [m EXCEPT !.locks = again] = Edited(m.req, again, m.order, m.locked)
  BY EditOk DEF Safe
<1>2. OnRecord(again, recorded)
  <2> HIDE DEF h
  <2>1. DOMAIN again = DOMAIN m.locks /\ OnRecord(m.locks, recorded)
    BY DEF Safe
  <2>2. ASSUME NEW u \in DOMAIN again PROVE Counted(again[u], u, recorded)
    <3>1. u \in DOMAIN m.locks /\ Counted(m.locks[u], u, recorded)
      BY <2>1, <2>2 DEF OnRecord
    <3>2. CASE u = t
      <4>1. again[u] = [m.locks[u] EXCEPT !.height = h]
        BY <3>1, <3>2
      <4>2. DOMAIN m.locks[u] = {"height", "votes"}
        BY <3>1 DEF Counted, IsLock
      <4>3. again[u] = [height |-> h, votes |-> m.locks[u].votes]
        BY <4>1, <4>2
      <4> QED BY <3>1, <4>3 DEF Counted, IsLock
    <3>3. CASE u # t
      BY <3>1, <3>3
    <3> QED BY <3>2, <3>3
  <2> QED BY <2>2 DEF OnRecord
<1> HIDE DEF again, h
<1> QED BY <1>1, <1>2, <1>3, EditedOk, NewLockOk

(* Locking inputs and bringing locks forward leaves the votes alone.          *)
LEMMA LockedOk ==
    ASSUME NEW recorded, NEW m, Safe(m, recorded), NEW vin, NEW t
    PROVE  /\ Safe(LockInputs(m, vin, t), recorded)
           /\ \A k : Safe(CancelBoth(m, vin, t, k), recorded)
<1>1. PICK x : LockInputs(m, vin, t) = [m EXCEPT !.locked = x]
  BY DEF LockInputs, Safe, IsMaps
<1>2. LockInputs(m, vin, t) = Edited(m.req, m.locks, m.order, x)
  BY <1>1, EditOk DEF Safe
<1>3. ASSUME NEW k PROVE Safe(CancelBoth(m, vin, t, k), recorded)
  <2>1. PICK y : CancelBoth(m, vin, t, k) = [m EXCEPT !.order = y]
    BY DEF CancelBoth, Safe, IsMaps
  <2>2. CancelBoth(m, vin, t, k) = Edited(m.req, m.locks, y, m.locked)
    BY <2>1, EditOk DEF Safe
  <2> QED BY <2>2, EditedOk DEF Safe
<1> QED BY <1>2, <1>3, EditedOk DEF Safe

(* A vote that is counted joins the lock: no vote of its node is counted, for  *)
(* none is on record.                                                        *)
LEMMA AddOk ==
    ASSUME NEW recorded, NEW l, NEW n, NEW t, NEW h,
           Counted(l, t, recorded), <<n, t>> \notin recorded
    PROVE  Counted(AddSignature(l, <<n, h>>), t, recorded \cup {<<n, t>>})
<1> DEFINE v0 == <<n, h>>
           more == [w \in DOMAIN l.votes \cup {v0} |->
                       (IF w \in DOMAIN l.votes THEN l.votes[w] ELSE 0) + (IF w = v0 THEN 1 ELSE 0)]
<1>1. DOMAIN l = {"height", "votes"}
  BY DEF Counted, IsLock
<1>2. AddSignature(l, v0) = [height |-> l.height, votes |-> more]
  BY <1>1 DEF AddSignature
<1>3. v0[1] = n
  OBVIOUS
<1>4. v0 \notin DOMAIN l.votes /\ \A v \in DOMAIN l.votes : v[1] # n
  BY <1>3 DEF Counted
<1>5. /\ DOMAIN more = DOMAIN l.votes \cup {v0} /\ more[v0] = 1
      /\ \A v \in DOMAIN l.votes : more[v] = 1
  <2>1. \A v \in DOMAIN l.votes : v # v0 /\ l.votes[v] = 1
    BY <1>4 DEF Counted
  <2> HIDE DEF v0
  <2> QED BY <1>4, <2>1
<1>6. AddSignature(l, v0).votes = more /\ IsLock(AddSignature(l, v0))
  BY <1>2 DEF IsLock
<1> HIDE DEF more, v0
<1>7. Counted(AddSignature(l, v0), t, recorded \cup {<<n, t>>})
  BY <1>3, <1>4, <1>5, <1>6 DEF Counted
<1> QED BY <1>7 DEF v0

(* Recording more votes changes nothing that is counted.                      *)
LEMMA MoreRecorded ==
    ASSUME NEW recorded, NEW more, recorded \subseteq more
    PROVE  /\ \A locks : OnRecord(locks, recorded) => OnRecord(locks, more)
           /\ \A m : Safe(m, recorded) => Safe(m, more)
BY DEF Safe, OnRecord, Counted

(* ProcessConsensusVote, whatever it does about conflicts.                    *)
LEMMA CountVoteOk ==
    ASSUME NEW recorded, NEW m, Safe(m, recorded), NEW n, NEW t, NEW h,
           NEW k, <<n, t>> \notin recorded
    PROVE  Safe(CountVote(m, n, t, h, k), recorded \cup {<<n, t>>})
<1> DEFINE more == recorded \cup {<<n, t>>}
           found == IF t \in DOMAIN m.locks THEN m ELSE NewLock(m, t, 0)
           locks == [found.locks EXCEPT ![t] = AddSignature(found.locks[t], <<n, h>>)]
           added == [found EXCEPT !.locks = locks]
           asked == [added EXCEPT !.req = Insert(added.req, t, FALSE)]
           vin == ReqInputs(asked, t)
<1>1. Safe(found, recorded) /\ t \in DOMAIN found.locks
  BY NewLockOk
<1>2. OnRecord(locks, more)
  <2> HIDE DEF found
  <2>1. OnRecord(found.locks, recorded)
    BY <1>1 DEF Safe
  <2>2. Counted(AddSignature(found.locks[t], <<n, h>>), t, more)
    BY <1>1, <2>1, AddOk DEF OnRecord
  <2>3. OnRecord(found.locks, more)
    BY <2>1, MoreRecorded
  <2> QED BY <1>1, <2>2, <2>3 DEF OnRecord
<1>3. CountVote(m, n, t, h, k) \in {added, CancelBoth(asked, vin, t, k), LockInputs(asked, vin, t)}
  BY DEF CountVote
<1> HIDE DEF found, locks, vin, more
<1>4. Safe(added, more)
  <2>1. added = Edited(found.req, locks, found.order, found.locked)
    BY <1>1, EditOk DEF Safe
  <2> QED BY <1>2, <2>1, EditedOk
<1> HIDE DEF added
<1>5. Safe(asked, more)
  <2>1. asked = Edited(Insert(added.req, t, FALSE), added.locks, added.order, added.locked)
    BY <1>4, EditOk DEF Safe
  <2> HIDE DEF asked
  <2> QED BY <1>4, <2>1, EditedSafe
<1> HIDE DEF asked
<1>6. Safe(CountVote(m, n, t, h, k), more)
  BY <1>3, <1>4, <1>5, LockedOk
<1> QED BY <1>6 DEF more

-----------------------------------------------------------------------------
(* Each step keeps the invariant.                                            *)

\* The maps as a step finds them.
LEMMA MapsSafe == VInv => Safe(Maps, txLockVote)
BY DEF VInv, Safe, IsMaps, Maps

(* Requests, and locks asked for by the RPC and by the wallet.                *)
LEMMA RequestOk ==
    ASSUME VInv, NEW t,
           LockRequest(t) \/ SendRawTransaction(t) \/ RelayWalletTransaction(t)
    PROVE  VInv'
<1>1. txLockVote \subseteq txLockVote'
  BY DEF LockRequest, SendRawTransaction, RelayWalletTransaction
<1>2. CASE LockRequest(t)
  <2> DEFINE m == CreateNewLock(Maps, t)
  <2>1. Safe(m, txLockVote)
    BY MapsSafe, CreateOk
  <2>2. txLocks' = [m EXCEPT !.req = Insert(m.req, t, TRUE)].locks
    BY <1>2 DEF LockRequest, SetMaps
  <2> HIDE DEF m
  <2>3. txLocks' = m.locks
    <3>1. [m EXCEPT !.req = Insert(m.req, t, TRUE)] = Edited(Insert(m.req, t, TRUE), m.locks, m.order, m.locked)
      BY <2>1, EditOk DEF Safe
    <3>2. Edited(Insert(m.req, t, TRUE), m.locks, m.order, m.locked).locks = m.locks
      BY DEF Edited
    <3> QED BY <2>2, <3>1, <3>2
  <2> QED BY <1>1, <2>1, <2>3, MoreRecorded DEF VInv, Safe
<1>3. CASE SendRawTransaction(t) \/ RelayWalletTransaction(t)
  <2> DEFINE m == [Maps EXCEPT !.req = Insert(Maps.req, t, TRUE)]
  <2>1. Safe(m, txLockVote)
    <3>1. m = Edited(Insert(Maps.req, t, TRUE), Maps.locks, Maps.order, Maps.locked)
      BY MapsSafe, EditOk DEF Safe
    <3> HIDE DEF m
    <3> QED BY <3>1, MapsSafe, EditedSafe
  <2>2. txLocks' = CreateNewLock(m, t).locks
    BY <1>3 DEF SendRawTransaction, RelayWalletTransaction, SetMaps
  <2> HIDE DEF m
  <2>3. Safe(CreateNewLock(m, t), txLockVote)
    BY <2>1, CreateOk
  <2> QED BY <1>1, <2>2, <2>3, MoreRecorded DEF VInv, Safe
<1> QED BY <1>2, <1>3

(* A request the memory pool refuses locks its inputs at once.                *)
LEMMA RejectedOk ==
    ASSUME VInv, NEW t, LockRequestRejected(t)
    PROVE  VInv'
<1> DEFINE m == LockInputs(CreateNewLock(Maps, t), In[t], t)
           known == [m EXCEPT !.req = Insert(m.req, t, TRUE)]
<1>1. Safe(m, txLockVote)
  BY MapsSafe, CreateOk, LockedOk
<1>2. \/ SetMaps(m) \/ SetMaps(known)
      \/ \E k \in 0 .. Len(byExpiration) : SetMaps(CancelBoth(m, In[t], t, k))
  BY DEF LockRequestRejected
<1>3. txLockVote' = txLockVote
  BY DEF LockRequestRejected
<1> HIDE DEF m
<1>4. Safe(known, txLockVote)
  <2>1. known = Edited(Insert(m.req, t, TRUE), m.locks, m.order, m.locked)
    BY <1>1, EditOk DEF Safe
  <2> HIDE DEF known
  <2> QED BY <1>1, <2>1, EditedSafe
<1> HIDE DEF known
<1>5. PICK set : Safe(set, txLockVote) /\ SetMaps(set)
  BY <1>1, <1>2, <1>4, LockedOk
<1> QED BY <1>3, <1>5 DEF SetMaps, Safe, VInv

(* A vote is recorded in the step that counts it.                            *)
LEMMA VoteOk ==
    ASSUME VInv, NEW n, NEW t, NEW h, NEW valid \in BOOLEAN, TxLockVote(n, t, h, valid)
    PROVE  VInv'
<1> DEFINE After(k) == IF valid THEN CountVote(Maps, n, t, h, k) ELSE Maps
<1>1. /\ <<n, t>> \notin txLockVote /\ txLockVote' = txLockVote \cup {<<n, t>>}
      /\ \E k \in 0 .. Len(byExpiration) : SetMaps(After(k))
  BY DEF TxLockVote
<1>2. ASSUME NEW k PROVE Safe(After(k), txLockVote')
  BY <1>1, MapsSafe, CountVoteOk, MoreRecorded
<1> HIDE DEF After
<1> QED BY <1>1, <1>2 DEF SetMaps, Safe, VInv

(* Expiry forgets only votes of locks that it removes.                       *)
LEMMA CleanOk ==
    ASSUME VInv, NEW k, CleanTransactionLocksList(k)
    PROVE  VInv'
<1> DEFINE gone == ToSet(SubSeq(byExpiration, 1, k))
           forgotten == UNION {{<<v[1], t>> : v \in DOMAIN txLocks[t].votes} :
                                   t \in gone \cap DOMAIN txLockReq}
<1>1. /\ txLocks' = [t \in DOMAIN txLocks \ gone |-> txLocks[t]]
      /\ txLockVote' = txLockVote \ forgotten
  BY DEF CleanTransactionLocksList, Restrict
<1>2. ASSUME NEW u \in DOMAIN txLocks \ gone PROVE Counted(txLocks[u], u, txLockVote \ forgotten)
  <2>1. Counted(txLocks[u], u, txLockVote)
    BY <1>2 DEF VInv, OnRecord
  <2>2. \A x : <<x, u>> \notin forgotten
    BY <1>2
  <2> HIDE DEF forgotten
  <2> QED BY <2>1, <2>2 DEF Counted
<1> HIDE DEF gone, forgotten
<1> QED BY <1>1, <1>2 DEF VInv, OnRecord

-----------------------------------------------------------------------------
(* The types of the maps.                                                    *)

\* Sequences without repetition
LEMMA AppendOnce ==
    ASSUME NEW T, NEW q \in Seq(T), IsInjective(q), NEW x \in T, x \notin ToSet(q)
    PROVE  /\ Append(q, x) \in Seq(T) /\ IsInjective(Append(q, x))
           /\ ToSet(Append(q, x)) = ToSet(q) \cup {x}
<1> DEFINE r == Append(q, x)
           n == Len(q)
<1>1. /\ n \in Nat /\ DOMAIN q = 1 .. n /\ DOMAIN r = 1 .. n + 1 /\ r \in Seq(T)
      /\ r[n + 1] = x /\ \A i \in 1 .. n : r[i] = q[i]
  OBVIOUS
<1>2. \A i \in 1 .. n + 1 : i \in 1 .. n \/ i = n + 1
  BY <1>1
<1>3. n + 1 \in 1 .. n + 1 /\ \A i \in 1 .. n : i \in 1 .. n + 1
  BY <1>1
<1> HIDE DEF r, n
<1>4. IsInjective(r)
  BY <1>1, <1>2 DEF IsInjective, ToSet
<1>5. ToSet(r) = ToSet(q) \cup {x}
  BY <1>1, <1>2, <1>3 DEF ToSet
<1> QED BY <1>1, <1>4, <1>5 DEF r

\* Two sequences without repetition and without common members.
LEMMA ConcatOnce ==
    ASSUME NEW T, NEW q \in Seq(T), NEW r \in Seq(T), IsInjective(q), IsInjective(r),
           ToSet(q) \cap ToSet(r) = {}
    PROVE  /\ q \o r \in Seq(T) /\ IsInjective(q \o r)
           /\ ToSet(q \o r) = ToSet(q) \cup ToSet(r)
<1> DEFINE s == q \o r
           n == Len(q)
           k == Len(r)
<1>1. /\ n \in Nat /\ k \in Nat /\ DOMAIN q = 1 .. n /\ DOMAIN r = 1 .. k /\ DOMAIN s = 1 .. n + k
      /\ s \in Seq(T)
      /\ \A i \in 1 .. n : s[i] = q[i] /\ i \in 1 .. n + k
      /\ \A i \in 1 .. k : s[n + i] = r[i] /\ n + i \in 1 .. n + k
  OBVIOUS
<1>2. \A i \in 1 .. n + k : i \in 1 .. n \/ (i - n \in 1 .. k /\ n + (i - n) = i)
  BY <1>1
<1>6. \A i, j \in 1 .. n + k : i - n = j - n => i = j
  BY <1>1
<1> HIDE DEF s, n, k
<1>3. \A i \in 1 .. n + k : (i \in 1 .. n /\ s[i] = q[i]) \/ (i - n \in 1 .. k /\ s[i] = r[i - n])
  BY <1>1, <1>2
<1>4. IsInjective(s)
  <2> SUFFICES ASSUME NEW i \in 1 .. n + k, NEW j \in 1 .. n + k, s[i] = s[j] PROVE i = j
    BY <1>1 DEF IsInjective
  <2>1. \A a \in 1 .. n : q[a] \in ToSet(q)
    BY <1>1 DEF ToSet
  <2>2. \A a \in 1 .. k : r[a] \in ToSet(r)
    BY <1>1 DEF ToSet
  <2>3. CASE i \in 1 .. n /\ s[i] = q[i]
    BY <1>1, <1>3, <2>1, <2>2, <2>3 DEF IsInjective
  <2>4. CASE i - n \in 1 .. k /\ s[i] = r[i - n]
    BY <1>1, <1>3, <1>6, <2>1, <2>2, <2>4 DEF IsInjective
  <2> QED BY <1>3, <2>3, <2>4
<1>5. ToSet(s) = ToSet(q) \cup ToSet(r)
  <2>1. \A x : x \in ToSet(s) => x \in ToSet(q) \cup ToSet(r)
    BY <1>1, <1>3 DEF ToSet
  <2>2. \A x : x \in ToSet(q) \cup ToSet(r) => x \in ToSet(s)
    BY <1>1 DEF ToSet
  <2> QED BY <2>1, <2>2
<1> QED BY <1>1, <1>4, <1>5 DEF s

\* The end of a sequence, position by position.
LEMMA SuffixIs ==
    ASSUME NEW T, NEW q \in Seq(T), NEW k \in 1 .. Len(q)
    PROVE  LET r == SubSeq(q, k + 1, Len(q))
           IN  r \in Seq(T) /\ Len(r) = Len(q) - k /\ \A i \in 1 .. Len(q) - k : r[i] = q[i + k]
<1> DEFINE n == Len(q)
           r == SubSeq(q, k + 1, n)
<1>1. n \in Nat /\ k \in Nat /\ k <= n /\ \A i \in 1 .. n : q[i] \in T
  OBVIOUS
<1> HIDE DEF n
<1>2. k + 1 \in Int /\ n \in Int /\ \A i \in k + 1 .. n : q[i] \in T
  BY <1>1
<1>3. /\ r \in Seq(T)
      /\ Len(r) = IF k + 1 <= n THEN n - (k + 1) + 1 ELSE 0
      /\ \A i \in 1 .. n - (k + 1) + 1 : r[i] = q[(k + 1) + i - 1]
  <2> HIDE DEF r
  <2> QED BY <1>2, SubSeqProperties DEF r
<1> HIDE DEF r
<1>4. Len(r) = n - k
  BY <1>1, <1>3
<1>5. \A i \in 1 .. n - k : (k + 1) + i - 1 = i + k /\ i \in 1 .. n - (k + 1) + 1
  BY <1>1
<1>6. \A i \in 1 .. n - k : r[i] = q[i + k]
  BY <1>3, <1>5
<1> QED BY <1>3, <1>4, <1>6 DEF n, r

\* The end of a sequence without repetition has the members that its beginning
\* has not.
LEMMA SuffixOnce ==
    ASSUME NEW T, NEW q \in Seq(T), IsInjective(q), NEW k \in 1 .. Len(q)
    PROVE  LET r == SubSeq(q, k + 1, Len(q))
           IN  /\ r \in Seq(T) /\ IsInjective(r)
               /\ ToSet(r) = ToSet(q) \ ToSet(SubSeq(q, 1, k))
<1> DEFINE n == Len(q)
           r == SubSeq(q, k + 1, n)
           p == SubSeq(q, 1, k)
<1>1. n \in Nat /\ k \in Nat /\ k <= n /\ DOMAIN q = 1 .. n
  OBVIOUS
<1>a. r \in Seq(T) /\ DOMAIN r = 1 .. n - k /\ \A i \in 1 .. n - k : r[i] = q[i + k]
  <2>1. Len(r) = n - k /\ r \in Seq(T) /\ \A i \in 1 .. n - k : r[i] = q[i + k]
    BY SuffixIs
  <2> HIDE DEF r, n
  <2> QED BY <1>1, <2>1
<1>b. p \in Seq(T) /\ DOMAIN p = 1 .. k /\ \A i \in 1 .. k : p[i] = q[i]
  <2>1. Len(p) = k /\ p \in Seq(T)
    BY <1>1
  <2>2. \A i \in 1 .. k : p[i] = q[i]
    BY <1>1
  <2> HIDE DEF p
  <2> QED BY <2>1, <2>2
<1> HIDE DEF n
<1>2. DOMAIN r = 1 .. n - k /\ DOMAIN p = 1 .. k
  BY <1>a, <1>b
<1> HIDE DEF r, p
<1>3. /\ \A i \in 1 .. n - k : r[i] = q[i + k] /\ i + k \in 1 .. n
      /\ \A i \in 1 .. k : p[i] = q[i] /\ i \in 1 .. n
  BY <1>1, <1>a, <1>b
<1>4. \A i \in 1 .. n : i \in 1 .. k \/ (i - k \in 1 .. n - k /\ i = (i - k) + k)
  BY <1>1
<1>5. /\ \A i, j \in 1 .. n - k : i + k = j + k => i = j
      /\ \A i \in 1 .. k : \A j \in 1 .. n - k : i # j + k
  BY <1>1
<1> HIDE DEF n, r, p
<1>6. IsInjective(r)
  <2> SUFFICES ASSUME NEW i \in 1 .. n - k, NEW j \in 1 .. n - k, r[i] = r[j] PROVE i = j
    BY <1>2 DEF IsInjective
  <2>1. i + k \in DOMAIN q /\ j + k \in DOMAIN q /\ q[i + k] = q[j + k]
    BY <1>1, <1>3
  <2> QED BY <1>5, <2>1 DEF IsInjective
<1>7. ToSet(r) = ToSet(q) \ ToSet(p)
  <2>1. ASSUME NEW x \in ToSet(r) PROVE x \in ToSet(q) \ ToSet(p)
    <3>1. PICK j \in 1 .. n - k : x = r[j]
      BY <1>2 DEF ToSet
    <3>2. x = q[j + k] /\ j + k \in 1 .. n
      BY <1>3, <3>1
    <3>3. \A i \in 1 .. k : x # p[i]
      BY <1>1, <1>3, <1>5, <3>2 DEF IsInjective
    <3> QED BY <1>1, <1>2, <3>2, <3>3 DEF ToSet
  <2>2. ASSUME NEW x \in ToSet(q) \ ToSet(p) PROVE x \in ToSet(r)
    <3>1. PICK i \in 1 .. n : x = q[i]
      BY <1>1 DEF ToSet
    <3>2. i \notin 1 .. k
      BY <1>2, <1>3, <2>2, <3>1 DEF ToSet
    <3>3. i - k \in 1 .. n - k /\ r[i - k] = q[i]
      BY <1>3, <1>4, <3>2
    <3> QED BY <1>2, <3>1, <3>3 DEF ToSet
  <2> QED BY <2>1, <2>2
<1> QED BY <1>a, <1>6, <1>7 DEF n, r, p

\* The members of a sequence that are in a set, one after the other
AmongStep(ctx, found, t) == IF t \in ctx.of THEN Append(found, t) ELSE found
AmongInv(ctx, i, found) ==
    /\ found \in Seq(ctx.all) /\ IsInjective(found)
    /\ \A x : x \in ToSet(found) <=> x \in ctx.of /\ \E j \in 1 .. i : x = ctx.seq[j]
Selecting == INSTANCE FoldTheorems WITH op <- AmongStep, Inv <- AmongInv

\* Among(q, S) has the members of q that are in S, once each.
LEMMA AmongOk ==
    ASSUME NEW T, NEW q \in Seq(T), IsInjective(q), NEW S
    PROVE  /\ Among(q, S) \in Seq(T) /\ IsInjective(Among(q, S))
           /\ ToSet(Among(q, S)) = ToSet(q) \cap S
<1> DEFINE ctx == [all |-> T, of |-> S, seq |-> q]
           n == Len(q)
           r == Selecting!LeftFold(ctx, <<>>, q)
<1>1. Among(q, S) = r
  BY DEF Among, Selecting!LeftFold, AmongStep, FoldLeft, MapThenFoldSet, Max,
         Selecting!FoldLeft, Selecting!MapThenFoldSet, Selecting!Max
<1>2. n \in Nat /\ DOMAIN q = 1 .. n /\ (\A i \in 1 .. n : q[i] \in T)
  OBVIOUS
<1>c. ctx.all = T /\ ctx.of = S /\ ctx.seq = q
  OBVIOUS
<1> HIDE DEF ctx, n
<1>3. AmongInv(ctx, 0, <<>>)
  <2>1. DOMAIN <<>> = {} /\ <<>> \in Seq(T)
    OBVIOUS
  <2> QED BY <1>c, <2>1 DEF AmongInv, IsInjective, ToSet
<1>4. ASSUME NEW i \in 1 .. n, NEW a, AmongInv(ctx, i - 1, a)
      PROVE  AmongInv(ctx, i, AmongStep(ctx, a, q[i]))
  <2> DEFINE x == q[i]
             b == AmongStep(ctx, a, x)
  <2>1. /\ a \in Seq(T) /\ IsInjective(a)
        /\ \A y : y \in ToSet(a) <=> y \in S /\ \E j \in 1 .. i - 1 : y = q[j]
    BY <1>c, <1>4 DEF AmongInv
  <2>2. x \in T /\ \A j \in 1 .. i - 1 : j \in 1 .. n /\ j # i
    BY <1>2
  <2>3. x \notin ToSet(a)
    BY <1>2, <2>1, <2>2 DEF IsInjective
  <2>4. i \in 1 .. i /\ (\A j \in 1 .. i - 1 : j \in 1 .. i) /\ (\A j \in 1 .. i : j \in 1 .. i - 1 \/ j = i)
    OBVIOUS
  <2> SUFFICES AmongInv(ctx, i, b)
    OBVIOUS
  <2> HIDE DEF x
  <2>5. CASE x \in S
    <3>1. b = Append(a, x)
      BY <1>c, <2>5 DEF AmongStep
    <3> HIDE DEF b
    <3>2. b \in Seq(T) /\ IsInjective(b) /\ ToSet(b) = ToSet(a) \cup {x}
      BY <2>1, <2>2, <2>3, <3>1, AppendOnce
    <3>3. \A y : y \in ToSet(b) <=> y \in S /\ \E j \in 1 .. i : y = q[j]
      BY <2>1, <2>4, <2>5, <3>2 DEF x
    <3> QED BY <1>c, <3>2, <3>3 DEF AmongInv
  <2>6. CASE x \notin S
    <3>1. b = a
      BY <1>c, <2>6 DEF AmongStep
    <3> HIDE DEF b
    <3>2. \A y : y \in ToSet(b) <=> y \in S /\ \E j \in 1 .. i : y = q[j]
      BY <2>1, <2>4, <2>6, <3>1 DEF x
    <3> QED BY <1>c, <2>1, <3>1, <3>2 DEF AmongInv
  <2> QED BY <2>5, <2>6
<1>5. AmongInv(ctx, n, r)
  BY <1>2, <1>3, <1>4, Selecting!FoldLeftInduction
<1>6. \A x : x \in ToSet(q) <=> \E j \in 1 .. n : x = q[j]
  BY <1>2 DEF ToSet
<1> HIDE DEF r
<1>7. r \in Seq(T) /\ IsInjective(r) /\ \A x : x \in ToSet(r) <=> x \in S /\ x \in ToSet(q)
  BY <1>c, <1>5, <1>6 DEF AmongInv
<1> QED BY <1>1, <1>7

-----------------------------------------------------------------------------
ReqOk(r) == DOMAIN r \subseteq Lockable /\ \A t \in DOMAIN r : r[t] \in BOOLEAN
LockOk(l) ==
    /\ IsLock(l)
    /\ l.height \in Nat
    /\ DOMAIN l.votes \subseteq Nodes \X VoteHeights
    /\ \A v \in DOMAIN l.votes : l.votes[v] \in Nat \ {0}
LocksOk(l) == DOMAIN l \subseteq Lockable /\ \A t \in DOMAIN l : LockOk(l[t])
OrderOk(q, S) == q \in Seq(Lockable) /\ IsInjective(q) /\ ToSet(q) = S
LockedInputsOk(k) == DOMAIN k \subseteq Outpoints /\ \A o \in DOMAIN k : k[o] \in Lockable
Typed(m) ==
    /\ IsMaps(m)
    /\ ReqOk(m.req) /\ LocksOk(m.locks) /\ OrderOk(m.order, DOMAIN m.locks) /\ LockedInputsOk(m.locked)

\* Maps of the right types make a record of the right type.
LEMMA EditedTyped ==
    ASSUME NEW r, NEW l, NEW o, NEW k, ReqOk(r), LocksOk(l), OrderOk(o, DOMAIN l), LockedInputsOk(k)
    PROVE  Typed(Edited(r, l, o, k))
BY DEF Typed, IsMaps, Edited

\* A transaction that may be locked has an input, and all its inputs are
\* outpoints.
LEMMA LockableOk ==
    ASSUME NEW t \in Lockable
    PROVE  t \in Txs /\ In[t] \in Seq(Outpoints) /\ In[t][1] \in Inputs(t) /\ Inputs(t) \subseteq Outpoints
<1>1. t \in Txs /\ In[t] # <<>>
  BY LockableAssumption
<1>2. In[t] \in Seq(Outpoints)
  BY <1>1, TxsAssumption
<1>3. DOMAIN In[t] = 1 .. Len(In[t]) /\ 1 \in 1 .. Len(In[t]) /\ \A i \in 1 .. Len(In[t]) : In[t][i] \in Outpoints
  BY <1>1, <1>2
<1> QED BY <1>1, <1>2, <1>3 DEF Inputs, ToSet

\* A lock is as high as its first input and three blocks
LEMMA LockHeightOk ==
    ASSUME PoolInv, NEW t \in Lockable, ~ \E o \in Inputs(t) : AgeOf(o) < InputAge
    PROVE  TipHeight - AgeOf(In[t][1]) + 4 \in Nat
<1> DEFINE o == In[t][1]
           x == IF o[1] \in Mined(chain) THEN InputAge + HeightOf(chain, o[1]) ELSE 1
<1>1. ~ (AgeOf(o) < InputAge)
  BY LockableOk
<1>2. ChainOk(chain) /\ chain \in Seq(Seq(Txs)) /\ Len(chain) \in Nat
  BY BlocksOk DEF PoolInv, ChainOk
<1>3. x \in Nat
  <2>1. CASE o[1] \in Mined(chain)
    <3>1. PICK i \in 1 .. Len(chain) : o[1] \in ToSet(chain[i])
      BY <1>2, <2>1, MinedIs
    <3>2. HeightOf(chain, o[1]) = i
      BY <1>2, <3>1, HeightOk
    <3> HIDE DEF o
    <3> QED BY <1>2, <2>1, <3>2, SwiftAssumption
  <2> QED BY <2>1
<1>4. AgeOf(o) = -1 \/ AgeOf(o) = TipHeight + 1 - x
  BY DEF AgeOf
<1>5. TipHeight \in Nat
  BY <1>2, SwiftAssumption DEF TipHeight
<1> HIDE DEF x, o
<1>6. AgeOf(o) # -1
  BY <1>1, SwiftAssumption
<1>7. TipHeight - AgeOf(o) + 4 = x + 3
  BY <1>3, <1>4, <1>5, <1>6
<1>8. TipHeight - AgeOf(o) + 4 \in Nat
  BY <1>3, <1>7
<1> QED BY <1>8 DEF o

\* A new lock joins the map and the list of what expires.
LEMMA NewLockTyped ==
    ASSUME NEW m, Typed(m), NEW t \in Lockable, t \notin DOMAIN m.locks, NEW h \in Nat
    PROVE  Typed(NewLock(m, t, h)) /\ t \in DOMAIN NewLock(m, t, h).locks
<1> DEFINE more == [u \in DOMAIN m.locks \cup {t} |->
                       IF u = t THEN [height |-> h, votes |-> <<>>] ELSE m.locks[u]]
           q == Append(m.order, t)
<1>1. NewLock(m, t, h) = [m EXCEPT !.locks = more, !.order = q]
  BY DEF NewLock
<1>2. LocksOk(more) /\ DOMAIN more = DOMAIN m.locks \cup {t}
  <2>1. LockOk([height |-> h, votes |-> <<>>])
    BY DEF LockOk, IsLock
  <2> QED BY <2>1 DEF LocksOk, Typed
<1>3. OrderOk(q, DOMAIN more)
  <2>1. m.order \in Seq(Lockable) /\ IsInjective(m.order) /\ ToSet(m.order) = DOMAIN m.locks
    BY DEF Typed, OrderOk
  <2> QED BY <1>2, <2>1, AppendOnce DEF OrderOk
<1> HIDE DEF more, q
<1>4. NewLock(m, t, h) = Edited(m.req, more, q, m.locked)
  BY <1>1, EditOk DEF Typed
<1>5. Typed(Edited(m.req, more, q, m.locked)) /\ Edited(m.req, more, q, m.locked).locks = more
  BY <1>2, <1>3, EditedTyped DEF Typed, Edited
<1> QED BY <1>2, <1>4, <1>5

\* CreateNewLock keeps the types.
LEMMA CreateTyped ==
    ASSUME PoolInv, NEW m, Typed(m), NEW t \in Lockable
    PROVE  Typed(CreateNewLock(m, t))
<1> DEFINE h == TipHeight - AgeOf(In[t][1]) + 4
           again == [m.locks EXCEPT ![t].height = h]
<1>1. CASE \E o \in Inputs(t) : AgeOf(o) < InputAge
  BY <1>1 DEF CreateNewLock
<1>2. CASE ~ \E o \in Inputs(t) : AgeOf(o) < InputAge
  <2>1. h \in Nat
    BY <1>2, LockHeightOk
  <2>2. CASE t \notin DOMAIN m.locks
    <3>1. CreateNewLock(m, t) = NewLock(m, t, h)
      BY <1>2, <2>2 DEF CreateNewLock
    <3> HIDE DEF h
    <3> QED BY <2>1, <2>2, <3>1, NewLockTyped
  <2>3. CASE t \in DOMAIN m.locks
    <3>1. CreateNewLock(m, t) = [m EXCEPT !.locks = again]
      BY <1>2, <2>3 DEF CreateNewLock, Typed, IsMaps
    <3>2. [m EXCEPT !.locks = again] = Edited(m.req, again, m.order, m.locked)
      BY EditOk DEF Typed
    <3> HIDE DEF h
    <3>3. DOMAIN again = DOMAIN m.locks /\ LocksOk(m.locks)
      BY DEF Typed
    <3>4. ASSUME NEW u \in DOMAIN again PROVE LockOk(again[u])
      <4>1. LockOk(m.locks[u])
        BY <3>3 DEF LocksOk
      <4>2. CASE u = t
        <5>1. DOMAIN m.locks[u] = {"height", "votes"}
          BY <4>1 DEF LockOk, IsLock
        <5>2. again[u] = [height |-> h, votes |-> m.locks[u].votes]
          BY <2>3, <4>2, <5>1
        <5> QED BY <2>1, <4>1, <5>2 DEF LockOk, IsLock
      <4>3. CASE u # t
        BY <3>3, <4>1, <4>3
      <4> QED BY <4>2, <4>3
    <3>5. LocksOk(again)
      BY <3>3, <3>4 DEF LocksOk
    <3> HIDE DEF again
    <3> QED BY <3>1, <3>2, <3>3, <3>5, EditedTyped DEF Typed
  <2> QED BY <2>2, <2>3
<1> QED BY <1>1, <1>2

\* Locking the inputs of a transaction keeps the types.
LEMMA LockInputsTyped ==
    ASSUME NEW m, Typed(m), NEW t \in Lockable, NEW vin, ToSet(vin) \subseteq Outpoints
    PROVE  Typed(LockInputs(m, vin, t))
<1> DEFINE k == [o \in DOMAIN m.locked \cup ToSet(vin) |-> IF o \in DOMAIN m.locked THEN m.locked[o] ELSE t]
<1>1. LockInputs(m, vin, t) = [m EXCEPT !.locked = k]
  BY DEF LockInputs, Typed, IsMaps
<1>2. LockedInputsOk(k)
  BY DEF Typed, LockedInputsOk
<1> HIDE DEF k
<1>3. LockInputs(m, vin, t) = Edited(m.req, m.locks, m.order, k)
  BY <1>1, EditOk DEF Typed
<1> QED BY <1>2, <1>3, EditedTyped DEF Typed

\* Bringing two locks forward keeps the list of what expires: it has the same
\* members, once each.
LEMMA CancelTyped ==
    ASSUME NEW m, Typed(m), NEW t, NEW vin, NEW k
    PROVE  Typed(CancelBoth(m, vin, t, k))
<1> DEFINE both == {t, m.locked[vin[Min(ConflictingInputs(m, vin, t))]]}
           expired == ToSet(SubSeq(m.order, 1, k)) \ both
           others == ToSet(m.order) \ (both \cup expired)
           fst == Among(m.order, expired)
           snd == Among(m.order, both)
           thd == Among(m.order, others)
           q == fst \o snd \o thd
<1>1. CancelBoth(m, vin, t, k) = [m EXCEPT !.order = q]
  BY DEF CancelBoth, Typed, IsMaps
<1>2. expired \cap both = {}
  OBVIOUS
<1> HIDE DEF both, expired
<1>3. m.order \in Seq(Lockable) /\ IsInjective(m.order) /\ ToSet(m.order) = DOMAIN m.locks
  BY DEF Typed, OrderOk
<1>4. /\ fst \in Seq(Lockable) /\ IsInjective(fst) /\ ToSet(fst) = ToSet(m.order) \cap expired
      /\ snd \in Seq(Lockable) /\ IsInjective(snd) /\ ToSet(snd) = ToSet(m.order) \cap both
  BY <1>3, AmongOk
<1>5. thd \in Seq(Lockable) /\ IsInjective(thd) /\ ToSet(thd) = ToSet(m.order) \cap others
  <2> HIDE DEF others
  <2> QED BY <1>3, AmongOk
<1> HIDE DEF fst, snd, thd
<1> DEFINE due == fst \o snd
<1>6. due \in Seq(Lockable) /\ IsInjective(due) /\ ToSet(due) = ToSet(fst) \cup ToSet(snd)
  BY <1>2, <1>4, ConcatOnce
<1>7. q = due \o thd /\ ToSet(due) \cap ToSet(thd) = {}
  BY <1>4, <1>5, <1>6
<1> HIDE DEF due, q
<1>8. q \in Seq(Lockable) /\ IsInjective(q) /\ ToSet(q) = ToSet(due) \cup ToSet(thd)
  BY <1>5, <1>6, <1>7, ConcatOnce
<1>9. OrderOk(q, DOMAIN m.locks)
  BY <1>3, <1>4, <1>5, <1>6, <1>8 DEF OrderOk
<1>10. CancelBoth(m, vin, t, k) = Edited(m.req, m.locks, q, m.locked)
  BY <1>1, EditOk DEF Typed
<1> QED BY <1>9, <1>10, EditedTyped DEF Typed

\* A vote joins a lock
LEMMA AddTyped ==
    ASSUME NEW l, LockOk(l), NEW n \in Nodes, NEW h \in VoteHeights
    PROVE  LockOk(AddSignature(l, <<n, h>>))
<1> DEFINE v0 == <<n, h>>
           more == [w \in DOMAIN l.votes \cup {v0} |->
                       (IF w \in DOMAIN l.votes THEN l.votes[w] ELSE 0) + (IF w = v0 THEN 1 ELSE 0)]
<1>1. DOMAIN l = {"height", "votes"}
  BY DEF LockOk, IsLock
<1>2. AddSignature(l, v0) = [height |-> l.height, votes |-> more]
  BY <1>1 DEF AddSignature
<1>3. v0 \in Nodes \X VoteHeights
  OBVIOUS
<1>4. \A w \in DOMAIN l.votes : l.votes[w] \in Nat \ {0}
  BY DEF LockOk
<1>5. DOMAIN more = DOMAIN l.votes \cup {v0} /\ \A w \in DOMAIN more : more[w] \in Nat \ {0}
  <2> HIDE DEF v0
  <2> QED BY <1>4
<1> HIDE DEF more, v0
<1>6. LockOk(AddSignature(l, v0))
  BY <1>2, <1>3, <1>5 DEF LockOk, IsLock
<1> QED BY <1>6 DEF v0

\* Entering a request keeps the types.
LEMMA InsertTyped ==
    ASSUME NEW m, Typed(m), NEW t \in Lockable, NEW known \in BOOLEAN
    PROVE  /\ Typed([m EXCEPT !.req = Insert(m.req, t, known)])
           /\ [m EXCEPT !.req = Insert(m.req, t, known)].locks = m.locks
<1> DEFINE r == Insert(m.req, t, known)
<1>1. ReqOk(r)
  BY DEF Insert, Typed, ReqOk
<1> HIDE DEF r
<1>2. [m EXCEPT !.req = r] = Edited(r, m.locks, m.order, m.locked)
  BY EditOk DEF Typed
<1>3. Typed(Edited(r, m.locks, m.order, m.locked)) /\ Edited(r, m.locks, m.order, m.locked).locks = m.locks
  BY <1>1, EditedTyped DEF Typed, Edited
<1>4. Typed([m EXCEPT !.req = r]) /\ [m EXCEPT !.req = r].locks = m.locks
  BY <1>2, <1>3
<1> QED BY <1>4 DEF r

\* The inputs of a request, which may be empty, are outpoints.
LEMMA ReqInputsOk ==
    ASSUME NEW m, NEW t \in Lockable
    PROVE  ToSet(ReqInputs(m, t)) \subseteq Outpoints
<1>1. ToSet(<<>>) = {}
  BY DEF ToSet
<1> QED BY <1>1, LockableOk DEF ReqInputs, Inputs

\* ProcessConsensusVote keeps the types, whatever it does about conflicts.
LEMMA CountVoteTyped ==
    ASSUME NEW m, Typed(m), NEW n \in Nodes, NEW t \in Lockable, NEW h \in VoteHeights,
           NEW k
    PROVE  Typed(CountVote(m, n, t, h, k))
<1> DEFINE found == IF t \in DOMAIN m.locks THEN m ELSE NewLock(m, t, 0)
           locks == [found.locks EXCEPT ![t] = AddSignature(found.locks[t], <<n, h>>)]
           added == [found EXCEPT !.locks = locks]
           asked == [added EXCEPT !.req = Insert(added.req, t, FALSE)]
           vin == ReqInputs(asked, t)
<1>1. Typed(found) /\ t \in DOMAIN found.locks
  BY NewLockTyped
<1>2. CountVote(m, n, t, h, k) \in {added, CancelBoth(asked, vin, t, k), LockInputs(asked, vin, t)}
  BY DEF CountVote
<1> HIDE DEF found
<1>3. LocksOk(locks) /\ DOMAIN locks = DOMAIN found.locks
  <2>1. LocksOk(found.locks)
    BY <1>1 DEF Typed
  <2>2. LockOk(AddSignature(found.locks[t], <<n, h>>))
    BY <1>1, <2>1, AddTyped DEF LocksOk
  <2> QED BY <1>1, <2>1, <2>2 DEF LocksOk
<1> HIDE DEF locks
<1>4. Typed(added)
  <2>1. added = Edited(found.req, locks, found.order, found.locked)
    BY <1>1, EditOk DEF Typed
  <2> QED BY <1>1, <1>3, <2>1, EditedTyped DEF Typed
<1> HIDE DEF added
<1>5. Typed(asked)
  BY <1>4, InsertTyped
<1> HIDE DEF asked
<1>6. ToSet(vin) \subseteq Outpoints
  BY ReqInputsOk
<1> HIDE DEF vin
<1> QED BY <1>2, <1>4, <1>5, <1>6, CancelTyped, LockInputsTyped

\* The maps beside the pool and the chain
MapsTyped == Typed(Maps) /\ rejected \subseteq Lockable /\ txLockVote \subseteq Nodes \X Lockable

\* A step that sets the maps to a record of the right type keeps their types.
LEMMA SetMapsTyped ==
    ASSUME NEW m, Typed(m), SetMaps(m)
    PROVE  Typed(Maps)'
<1>1. m = [req |-> m.req, locks |-> m.locks, order |-> m.order, locked |-> m.locked]
  BY DEF Typed, IsMaps
<1>2. Maps' = m
  BY <1>1 DEF SetMaps, Maps
<1> QED BY <1>2

\* Requests, and locks asked for by the RPC and by the wallet, keep the types.
LEMMA RequestTyped ==
    ASSUME PoolInv, MapsTyped, NEW t \in Lockable,
           LockRequest(t) \/ SendRawTransaction(t) \/ RelayWalletTransaction(t)
    PROVE  MapsTyped'
<1>1. CASE LockRequest(t)
  <2> DEFINE m == CreateNewLock(Maps, t)
             known == [m EXCEPT !.req = Insert(m.req, t, TRUE)]
  <2>1. Typed(m)
    BY CreateTyped DEF MapsTyped
  <2>2. SetMaps(known) /\ rejected' = rejected /\ txLockVote' \subseteq txLockVote \cup (Self \X {t})
    BY <1>1 DEF LockRequest
  <2> HIDE DEF m
  <2>3. Typed(known)
    BY <2>1, InsertTyped
  <2> HIDE DEF known
  <2>4. txLockVote' \subseteq Nodes \X Lockable
    BY <2>2, SwiftAssumption DEF MapsTyped
  <2> QED BY <2>2, <2>3, <2>4, SetMapsTyped DEF MapsTyped
<1>2. CASE SendRawTransaction(t) \/ RelayWalletTransaction(t)
  <2> DEFINE known == [Maps EXCEPT !.req = Insert(Maps.req, t, TRUE)]
  <2>1. Typed(known)
    BY InsertTyped DEF MapsTyped
  <2>2. SetMaps(CreateNewLock(known, t)) /\ rejected' = rejected /\ txLockVote' = txLockVote
    BY <1>2 DEF SendRawTransaction, RelayWalletTransaction
  <2> HIDE DEF known
  <2>3. Typed(CreateNewLock(known, t))
    BY <2>1, CreateTyped
  <2> QED BY <2>2, <2>3, SetMapsTyped DEF MapsTyped
<1> QED BY <1>1, <1>2

\* A request the memory pool refuses keeps the types.
LEMMA RejectedTyped ==
    ASSUME PoolInv, MapsTyped, NEW t \in Lockable, LockRequestRejected(t)
    PROVE  MapsTyped'
<1> DEFINE created == CreateNewLock(Maps, t)
           m == LockInputs(created, In[t], t)
           known == [m EXCEPT !.req = Insert(m.req, t, TRUE)]
<1>1. \/ SetMaps(m) \/ SetMaps(known)
      \/ \E k \in 0 .. Len(byExpiration) : SetMaps(CancelBoth(m, In[t], t, k))
  BY DEF LockRequestRejected
<1>2. rejected' = rejected \cup {t} /\ txLockVote' = txLockVote
  BY DEF LockRequestRejected
<1>3. Typed(created)
  BY CreateTyped DEF MapsTyped
<1> HIDE DEF created
<1>4. Typed(m)
  <2>1. ToSet(In[t]) \subseteq Outpoints
    BY LockableOk DEF Inputs
  <2> QED BY <1>3, <2>1, LockInputsTyped
<1> HIDE DEF m
<1>5. Typed(known)
  BY <1>4, InsertTyped
<1> HIDE DEF known
<1>6. Typed(Maps)'
  BY <1>1, <1>4, <1>5, CancelTyped, SetMapsTyped
<1> QED BY <1>2, <1>6 DEF MapsTyped

\* A vote keeps the types.
LEMMA VoteTyped ==
    ASSUME MapsTyped, NEW n \in Nodes, NEW t \in Lockable, NEW h \in VoteHeights, NEW valid \in BOOLEAN,
           TxLockVote(n, t, h, valid)
    PROVE  MapsTyped'
<1> DEFINE After(k) == IF valid THEN CountVote(Maps, n, t, h, k) ELSE Maps
<1>1. /\ \E k \in 0 .. Len(byExpiration) : SetMaps(After(k))
      /\ rejected' = rejected /\ txLockVote' = txLockVote \cup {<<n, t>>}
  BY DEF TxLockVote
<1>2. ASSUME NEW k PROVE Typed(After(k))
  BY CountVoteTyped DEF MapsTyped
<1> HIDE DEF After
<1>3. txLockVote' \subseteq Nodes \X Lockable
  BY <1>1 DEF MapsTyped
<1> QED BY <1>1, <1>2, <1>3, SetMapsTyped DEF MapsTyped

\* The locks that have expired go, and the others keep their order
LEMMA CleanTyped ==
    ASSUME MapsTyped, NEW k \in 1 .. Len(byExpiration), CleanTransactionLocksList(k)
    PROVE  MapsTyped'
<1> DEFINE gone == ToSet(SubSeq(byExpiration, 1, k))
           rest == SubSeq(byExpiration, k + 1, Len(byExpiration))
<1>1. /\ byExpiration' = rest /\ rejected' \subseteq rejected /\ txLockVote' \subseteq txLockVote
      /\ txLocks' = [t \in DOMAIN txLocks \ gone |-> txLocks[t]]
      /\ \E K : K \subseteq DOMAIN lockedInputs /\ lockedInputs' = [o \in K |-> lockedInputs[o]]
      /\ \E R : R \subseteq DOMAIN txLockReq /\ txLockReq' = [t \in R |-> txLockReq[t]]
  BY DEF CleanTransactionLocksList, Restrict
<1>2. /\ ReqOk(txLockReq) /\ LocksOk(txLocks) /\ LockedInputsOk(lockedInputs)
      /\ byExpiration \in Seq(Lockable) /\ IsInjective(byExpiration) /\ ToSet(byExpiration) = DOMAIN txLocks
  BY DEF MapsTyped, Typed, Maps, OrderOk
<1>3. rest \in Seq(Lockable) /\ IsInjective(rest) /\ ToSet(rest) = ToSet(byExpiration) \ gone
  BY <1>2, SuffixOnce
<1> HIDE DEF gone, rest
<1>4. ReqOk(txLockReq') /\ LockedInputsOk(lockedInputs')
  BY <1>1, <1>2 DEF ReqOk, LockedInputsOk
<1>5. LocksOk(txLocks')
  BY <1>1, <1>2 DEF LocksOk
<1>6. OrderOk(byExpiration', DOMAIN txLocks')
  BY <1>1, <1>2, <1>3 DEF OrderOk
<1>7. Typed(Maps)'
  BY <1>4, <1>5, <1>6 DEF Typed, IsMaps, Maps
<1> QED BY <1>1, <1>7 DEF MapsTyped

(* The maps of swifttx.cpp and the pool keep their types; in particular the   *)
(* list of what expires has each lock once.                                  *)
THEOREM SwiftTypes == Spec => []TypeOK
<1>1. Init => PoolInv /\ MapsTyped
  <2> SUFFICES ASSUME Init PROVE PoolInv /\ MapsTyped
    OBVIOUS
  <2>1. PoolInv
    BY InitPool DEF Init
  <2>2. /\ txLockReq = <<>> /\ txLocks = <<>> /\ byExpiration = <<>> /\ lockedInputs = <<>>
        /\ rejected = {} /\ txLockVote = {}
    BY DEF Init
  <2>3. DOMAIN <<>> = {} /\ <<>> \in Seq(Lockable)
    OBVIOUS
  <2>4. ReqOk(<<>>) /\ LocksOk(<<>>) /\ LockedInputsOk(<<>>) /\ OrderOk(<<>>, DOMAIN <<>>)
    BY <2>3 DEF ReqOk, LocksOk, LockedInputsOk, OrderOk, IsInjective, ToSet
  <2>5. Typed(Maps)
    BY <2>2, <2>4 DEF Typed, IsMaps, Maps
  <2> QED BY <2>1, <2>2, <2>5 DEF MapsTyped
<1>2. PoolInv /\ MapsTyped /\ [Next]_vars => PoolInv' /\ MapsTyped'
  <2> SUFFICES ASSUME PoolInv, MapsTyped, [Next]_vars PROVE MapsTyped'
    BY PoolMoves
  <2>1. CASE UNCHANGED swiftVars
    BY <2>1 DEF swiftVars, MapsTyped, Maps
  <2>2. ASSUME NEW t \in Lockable, NEW n \in Nodes, NEW h \in VoteHeights, NEW valid \in BOOLEAN,
               TxLockVote(n, t, h, valid)
        PROVE  MapsTyped'
    BY <2>2, VoteTyped
  <2>3. ASSUME NEW t \in Lockable,
               LockRequest(t) \/ SendRawTransaction(t) \/ RelayWalletTransaction(t) \/ LockRequestRejected(t)
        PROVE  MapsTyped'
    BY <2>3, RequestTyped, RejectedTyped
  <2>4. ASSUME NEW k \in 1 .. Len(byExpiration), CleanTransactionLocksList(k) PROVE MapsTyped'
    BY <2>4, CleanTyped
  <2>5. CASE UNCHANGED vars
    BY <2>1, <2>5 DEF vars
  <2> QED BY <2>1, <2>2, <2>3, <2>4, <2>5 DEF Next
<1>3. PoolInv /\ MapsTyped => TypeOK
  <2> SUFFICES ASSUME PoolInv, MapsTyped PROVE TypeOK
    OBVIOUS
  <2>1. PoolTypeOK
    BY PoolInvConsistent
  <2>2. /\ ReqOk(txLockReq) /\ LocksOk(txLocks) /\ LockedInputsOk(lockedInputs)
        /\ OrderOk(byExpiration, DOMAIN txLocks)
        /\ rejected \subseteq Lockable /\ txLockVote \subseteq Nodes \X Lockable
    BY DEF MapsTyped, Typed, Maps
  <2> QED BY <2>1, <2>2 DEF TypeOK, ReqOk, LocksOk, LockOk, LockedInputsOk, OrderOk
<1> QED BY <1>1, <1>2, <1>3, PTL DEF Spec

-----------------------------------------------------------------------------
(* A vote of a service node adds to the signatures of a lock at most once,    *)
(* whatever is requested, refused, mined, disconnected and expires between.   *)
THEOREM VotesCountOnce == Spec => []OneVotePerNode
<1>1. Init => VInv
  BY DEF Init, VInv, OnRecord
<1>2. ASSUME VInv, [Next]_vars PROVE VInv'
  <2>1. ASSUME NEW t \in Lockable,
               \E n \in Nodes, h \in VoteHeights, valid \in BOOLEAN : TxLockVote(n, t, h, valid)
        PROVE  VInv'
    BY <1>2, <2>1, VoteOk
  <2>2. CASE PoolNext /\ UNCHANGED swiftVars
    BY <1>2, <2>2 DEF swiftVars, VInv
  <2>3. CASE UNCHANGED vars
    BY <1>2, <2>3 DEF vars, swiftVars, VInv
  <2>4. CASE \E k \in 1 .. Len(byExpiration) : CleanTransactionLocksList(k)
    BY <1>2, <2>4, CleanOk
  <2> QED BY <1>2, <2>1, <2>2, <2>3, <2>4, RequestOk, RejectedOk DEF Next
<1>3. VInv => OneVotePerNode
  BY DEF VInv, OnRecord, Counted, OneVotePerNode
<1> QED BY <1>1, <1>2, <1>3, PTL DEF Spec
=============================================================================
