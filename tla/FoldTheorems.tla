---------------------------- MODULE FoldTheorems -----------------------------
(***************************************************************************)
(* Induction over the folds of SequencesExt and over recursive functions.  *)
(* The step and the property are constants of this module and get their    *)
(* meaning from INSTANCE ... WITH, so that no theorem has an operator for  *)
(* a parameter.  What a step or a property needs to know besides comes     *)
(* with the first argument, ctx.                                           *)
(***************************************************************************)
EXTENDS Integers, Sequences, FiniteSets, SequencesExt, WellFoundedInduction, TLAPS

CONSTANTS
    op(_, _, _),    \* op(ctx, a, x): the accumulator a after the element x
    Inv(_, _, _)    \* Inv(ctx, i, a): a is right at position i

-----------------------------------------------------------------------------

\* A set of natural numbers that is not empty has a least member.
LEMMA NatLeast ==
  ASSUME NEW T \in SUBSET Nat, T # {}
  PROVE  \E n \in T : \A m \in T : n <= m
<1> DEFINE R == OpToRel(<, Nat)
<1>1. IsWellFoundedOn(R, Nat)
  BY NatLessThanWellFounded
<1>3. \A x, y \in Nat : y < x => <<y, x>> \in R
  BY DEF OpToRel
<1>2. \E x \in T : \A y \in T : ~ (<<y, x>> \in R)
  <2> HIDE DEF R
  <2> QED BY <1>1, WFMin
<1>4. PICK x \in T : \A y \in T : ~ (<<y, x>> \in R)
  BY <1>2
<1>5. \A y \in T : ~ (y < x)
  <2> HIDE DEF R
  <2> QED BY <1>4, <1>3, Zenon
<1>6. \A y \in T : x <= y
  BY <1>5
<1> QED BY <1>6

\* What holds of 0, and of i + 1 where it holds of i, holds up to n.
LEMMA Upwards ==
  ASSUME NEW n \in Nat, NEW T, 0 \in T,
         \A i \in 0 .. n - 1 : i \in T => i + 1 \in T
  PROVE  \A i \in 0 .. n : i \in T
<1> DEFINE B == {i \in 0 .. n : i \notin T}
<1> SUFFICES ASSUME B # {} PROVE FALSE
  OBVIOUS
<1>1. B \in SUBSET Nat
  OBVIOUS
<1>2. PICK m \in B : \A k \in B : m <= k
  <2> HIDE DEF B
  <2> QED BY <1>1, NatLeast
<1>3. m # 0
  OBVIOUS
<1>4. m - 1 \in 0 .. n - 1 /\ m - 1 \notin B
  BY <1>2, <1>3
<1>5. m - 1 \in T
  BY <1>4
<1>6. m - 1 + 1 \in T
  BY <1>4, <1>5
<1> QED BY <1>6

-----------------------------------------------------------------------------
\* The fold from the left over s with the step op(ctx, _, _)
LeftFold(ctx, base, s) == FoldLeft(LAMBDA a, x : op(ctx, a, x), base, s)
\* The body of the function on sets of positions by which the library computes it
LeftBody(ctx, base, s, g, d) ==
  IF d = {} THEN base ELSE op(ctx, g[d \ {Max(d)}], s[Max(d)])

IsLeftIter(ctx, base, s, n, g) == g = [d \in SUBSET (1 .. n) |-> LeftBody(ctx, base, s, g, d)]

\* There is a function that satisfies the recursion of the fold from the left.
LEMMA LeftExists ==
  ASSUME NEW ctx, NEW s, NEW base, NEW n \in Nat
  PROVE  \E g : IsLeftIter(ctx, base, s, n, g)
<1> DEFINE Body(g, d) == LeftBody(ctx, base, s, g, d)
           Good(m, g) == IsLeftIter(ctx, base, s, m, g)
           T == {m \in 0 .. n : \E g : Good(m, g)}
<1>1. 0 \in T
  <2> DEFINE g == [d \in SUBSET (1 .. 0) |-> base]
  <2>1. 1 .. 0 = {}
    OBVIOUS
  <2>2. \A d \in SUBSET (1 .. 0) : Body(g, d) = base
    BY <2>1 DEF LeftBody
  <2>3. g = [d \in SUBSET (1 .. 0) |-> Body(g, d)]
    BY <2>2, Zenon
  <2>4. Good(0, g)
    BY <2>3 DEF IsLeftIter
  <2> HIDE DEF g, Good
  <2> QED BY <2>4
<1>2. ASSUME NEW m \in 0 .. n - 1, m \in T PROVE m + 1 \in T
  <2>1. PICK g : Good(m, g)
    BY <1>2
  <2> DEFINE h == [d \in SUBSET (1 .. m + 1) |->
                      IF m + 1 \in d THEN op(ctx, g[d \ {m + 1}], s[m + 1]) ELSE g[d]]
  <2>2. ASSUME NEW d \in SUBSET (1 .. m + 1) PROVE h[d] = Body(h, d)
    <3>1. CASE m + 1 \in d
      <4>0. \A y \in d : y \in Int /\ m + 1 >= y
        OBVIOUS
      <4>1. Max(d) = m + 1
        <5>1. \A x \in d : (\A y \in d : x >= y) => x = m + 1
          BY <3>1, <4>0
        <5>2. \E x \in d : \A y \in d : x >= y
          BY <3>1, <4>0
        <5>3. Max(d) \in d /\ \A y \in d : Max(d) >= y
          BY <5>2, Zenon DEF Max
        <5> QED BY <5>1, <5>3
      <4>2. d \ {m + 1} \in SUBSET (1 .. m)
        OBVIOUS
      <4>3. h[d \ {m + 1}] = g[d \ {m + 1}]
        BY <4>2
      <4> QED BY <3>1, <4>1, <4>3 DEF LeftBody
    <3>2. CASE m + 1 \notin d
      <4>1. d \in SUBSET (1 .. m)
        BY <3>2
      <4>2. g[d] = Body(g, d)
        <5> HIDE DEF h
        <5> QED BY <2>1, <4>1 DEF IsLeftIter
      <4>3. h[d] = g[d]
        BY <3>2
      <4>4. \A e \in SUBSET d : h[e] = g[e]
        BY <3>2
      <4>5. d \ {Max(d)} \in SUBSET d
        OBVIOUS
      <4>6. h[d \ {Max(d)}] = g[d \ {Max(d)}]
        BY <4>4, <4>5, Zenon
      <4> HIDE DEF h
      <4> QED BY <4>2, <4>3, <4>6 DEF LeftBody
    <3> QED BY <3>1, <3>2
  <2>3. Good(m + 1, h)
    <3>1. h = [d \in SUBSET (1 .. m + 1) |-> h[d]]
      OBVIOUS
    <3> HIDE DEF h
    <3>2. [d \in SUBSET (1 .. m + 1) |-> h[d]] = [d \in SUBSET (1 .. m + 1) |-> Body(h, d)]
      BY <2>2, Zenon
    <3> QED BY <3>1, <3>2, Zenon DEF IsLeftIter
  <2>4. m + 1 \in 0 .. n
    OBVIOUS
  <2> HIDE DEF h, Good
  <2> QED BY <2>3, <2>4, Zenon
<1>3. n \in T
  <2> HIDE DEF T
  <2> QED BY <1>1, <1>2, Upwards
<1> QED BY <1>3
\* f holds the values the accumulator goes through
IsLeftTrace(ctx, base, s, n, f) ==
  /\ f[0] = base
  /\ \A i \in 1 .. n : f[i] = op(ctx, f[i - 1], s[i])
  /\ LeftFold(ctx, base, s) = f[n]

\* A fold from the left goes through the values of its accumulator, one element
\* after the other.
LEMMA FoldLeftTrace ==
  ASSUME NEW ctx, NEW s, NEW base, NEW n \in Nat, DOMAIN s = 1 .. n
  PROVE  \E f : IsLeftTrace(ctx, base, s, n, f)
<1> DEFINE Body(g, d) == LeftBody(ctx, base, s, g, d)
           iter == CHOOSE g : IsLeftIter(ctx, base, s, n, g)
           f == [i \in 0 .. n |-> iter[1 .. i]]
<1>1. LeftFold(ctx, base, s) = iter[1 .. n]
  BY DEF IsLeftIter, LeftBody, LeftFold, FoldLeft, MapThenFoldSet
<1>2. \E g : IsLeftIter(ctx, base, s, n, g)
  BY LeftExists
<1>3. IsLeftIter(ctx, base, s, n, iter)
  BY <1>2
<1>4. \A d \in SUBSET (1 .. n) : iter[d] = Body(iter, d)
  <2> HIDE DEF iter
  <2> QED BY <1>3 DEF IsLeftIter
<1>5. f[0] = base
  <2>1. 1 .. 0 = {} /\ f[0] = iter[1 .. 0]
    <3> HIDE DEF iter
    <3> QED OBVIOUS
  <2> HIDE DEF iter, f
  <2> QED BY <1>4, <2>1 DEF LeftBody
<1>6. ASSUME NEW i \in 1 .. n PROVE f[i] = op(ctx, f[i - 1], s[i])
  <2>1. Max(1 .. i) = i
    <3>1. \A x \in 1 .. i : (\A y \in 1 .. i : x >= y) => x = i
      OBVIOUS
    <3>2. \E x \in 1 .. i : \A y \in 1 .. i : x >= y
      OBVIOUS
    <3>3. Max(1 .. i) \in 1 .. i /\ \A y \in 1 .. i : Max(1 .. i) >= y
      BY <3>2, Zenon DEF Max
    <3> QED BY <3>1, <3>3
  <2>2. (1 .. i) \ {i} = 1 .. (i - 1) /\ 1 .. i # {} /\ 1 .. i \in SUBSET (1 .. n)
    <3> HIDE DEF iter, f
    <3>1. (1 .. i) \ {i} = 1 .. (i - 1)
      OBVIOUS
    <3>2. i \in 1 .. i
      OBVIOUS
    <3>3. 1 .. i \in SUBSET (1 .. n)
      OBVIOUS
    <3> QED BY <3>1, <3>2, <3>3
  <2>3. f[i] = iter[1 .. i] /\ f[i - 1] = iter[1 .. i - 1]
    <3> HIDE DEF iter
    <3> QED OBVIOUS
  <2>4. iter[1 .. i] = op(ctx, iter[(1 .. i) \ {i}], s[i])
    <3> HIDE DEF iter
    <3> QED BY <1>4, <2>1, <2>2 DEF LeftBody
  <2> HIDE DEF iter, f
  <2> QED BY <2>2, <2>3, <2>4
<1>7. f[n] = iter[1 .. n]
  <2> HIDE DEF iter
  <2> QED OBVIOUS
<1> HIDE DEF iter, f
<1> QED BY <1>1, <1>5, <1>6, <1>7 DEF IsLeftTrace

\* Induction over a fold from the left: what the base satisfies and each step
\* keeps, the fold satisfies.
LEMMA FoldLeftInduction ==
  ASSUME NEW ctx, NEW s, NEW base, NEW n \in Nat, DOMAIN s = 1 .. n,
         Inv(ctx, 0, base),
         \A i \in 1 .. n : \A a : Inv(ctx, i - 1, a) => Inv(ctx, i, op(ctx, a, s[i]))
  PROVE  Inv(ctx, n, LeftFold(ctx, base, s))
<1>0. PICK f : IsLeftTrace(ctx, base, s, n, f)
  BY FoldLeftTrace, Zenon
<1>1. /\ f[0] = base
      /\ \A i \in 1 .. n : f[i] = op(ctx, f[i - 1], s[i])
      /\ LeftFold(ctx, base, s) = f[n]
  BY <1>0 DEF IsLeftTrace
<1> DEFINE T == {i \in 0 .. n : Inv(ctx, i, f[i])}
<1>2. 0 \in T
  <2>1. 0 \in 0 .. n
    OBVIOUS
  <2> QED BY <1>1, <2>1
<1>3. ASSUME NEW i \in 0 .. n - 1, i \in T PROVE i + 1 \in T
  <2>1. i + 1 \in 1 .. n /\ i + 1 \in 0 .. n /\ i + 1 - 1 = i
    OBVIOUS
  <2>2. f[i + 1] = op(ctx, f[i], s[i + 1])
    BY <1>1, <2>1
  <2>3. Inv(ctx, i, f[i])
    BY <1>3
  <2>4. Inv(ctx, i + 1, op(ctx, f[i], s[i + 1]))
    BY <2>1, <2>3
  <2> QED BY <2>1, <2>2, <2>4
<1>4. n \in T
  <2> HIDE DEF T
  <2>1. \A i \in 0 .. n : i \in T
    BY <1>2, <1>3, Upwards
  <2> QED BY <2>1
<1> QED BY <1>1, <1>4

-----------------------------------------------------------------------------
\* The fold from the right over s with the step op(ctx, _, _)
RightFold(ctx, base, s) == FoldRight(LAMBDA x, a : op(ctx, a, x), s, base)
RightBody(ctx, base, s, g, d) ==
  IF d = {} THEN base ELSE op(ctx, g[d \ {Min(d)}], s[Min(d)])
IsRightIter(ctx, base, s, k, n, g) ==
  g = [d \in SUBSET (k .. n) |-> RightBody(ctx, base, s, g, d)]

\* There is a function that satisfies the recursion of the fold from the right.
LEMMA RightExists ==
  ASSUME NEW ctx, NEW s, NEW base, NEW n \in Nat
  PROVE  \E g : IsRightIter(ctx, base, s, 1, n, g)
<1> DEFINE Body(g, d) == RightBody(ctx, base, s, g, d)
           Good(m, g) == IsRightIter(ctx, base, s, n + 1 - m, n, g)
           T == {m \in 0 .. n : \E g : Good(m, g)}
<1>1. 0 \in T
  <2> DEFINE g == [d \in SUBSET (n + 1 .. n) |-> base]
  <2>1. n + 1 .. n = {} /\ n + 1 - 0 = n + 1
    OBVIOUS
  <2>2. \A d \in SUBSET (n + 1 .. n) : Body(g, d) = base
    BY <2>1 DEF RightBody
  <2>3. g = [d \in SUBSET (n + 1 .. n) |-> Body(g, d)]
    BY <2>2, Zenon
  <2>4. Good(0, g)
    BY <2>1, <2>3 DEF IsRightIter
  <2> HIDE DEF g, Good
  <2> QED BY <2>4
<1>2. ASSUME NEW m \in 0 .. n - 1, m \in T PROVE m + 1 \in T
  <2>1. PICK g : Good(m, g)
    BY <1>2
  <2> DEFINE k == n - m
  <2>k. /\ k \in 1 .. n /\ n + 1 - m = k + 1 /\ n + 1 - (m + 1) = k
    OBVIOUS
  <2> DEFINE h == [d \in SUBSET (k .. n) |->
                      IF k \in d THEN op(ctx, g[d \ {k}], s[k]) ELSE g[d]]
  <2>2. ASSUME NEW d \in SUBSET (k .. n) PROVE h[d] = Body(h, d)
    <3> HIDE DEF k
    <3>1. CASE k \in d
      <4>0. \A y \in d : y \in Int /\ k =< y
        BY <2>k
      <4>1. Min(d) = k
        <5>1. \A x \in d : (\A y \in d : x =< y) => x = k
          BY <3>1, <4>0
        <5>2. \E x \in d : \A y \in d : x =< y
          BY <3>1, <4>0
        <5>3. Min(d) \in d /\ \A y \in d : Min(d) =< y
          BY <5>2, Zenon DEF Min
        <5> QED BY <5>1, <5>3
      <4>2. d \ {k} \in SUBSET (k + 1 .. n)
        BY <2>k
      <4>3. h[d \ {k}] = g[d \ {k}]
        BY <4>2, <2>k
      <4> QED BY <3>1, <4>1, <4>3 DEF RightBody
    <3>2. CASE k \notin d
      <4>1. d \in SUBSET (k + 1 .. n)
        BY <3>2, <2>k
      <4>2. g[d] = Body(g, d)
        <5> HIDE DEF h
        <5> QED BY <2>1, <4>1, <2>k DEF IsRightIter
      <4>3. h[d] = g[d]
        BY <3>2
      <4>4. \A e \in SUBSET d : h[e] = g[e]
        BY <3>2
      <4>5. d \ {Min(d)} \in SUBSET d
        OBVIOUS
      <4>6. h[d \ {Min(d)}] = g[d \ {Min(d)}]
        BY <4>4, <4>5, Zenon
      <4> HIDE DEF h
      <4> QED BY <4>2, <4>3, <4>6 DEF RightBody
    <3> QED BY <3>1, <3>2
  <2>3. Good(m + 1, h)
    <3>1. h = [d \in SUBSET (k .. n) |-> h[d]]
      OBVIOUS
    <3> HIDE DEF h
    <3>2. [d \in SUBSET (k .. n) |-> h[d]] = [d \in SUBSET (k .. n) |-> Body(h, d)]
      BY <2>2, Zenon
    <3>3. h = [d \in SUBSET (k .. n) |-> Body(h, d)]
      BY <3>1, <3>2, Zenon
    <3> HIDE DEF k
    <3> QED BY <2>k, <3>3 DEF IsRightIter
  <2>4. m + 1 \in 0 .. n
    OBVIOUS
  <2> HIDE DEF h, Good
  <2> QED BY <2>3, <2>4, Zenon
<1>3. n \in T
  <2> HIDE DEF T
  <2> QED BY <1>1, <1>2, Upwards
<1> HIDE DEF Good
<1>4. \E g : Good(n, g)
  BY <1>3
<1>5. n + 1 - n = 1
  OBVIOUS
<1> QED BY <1>4, <1>5 DEF Good

\* f[k] is the accumulator once the elements k .. n are taken
IsRightTrace(ctx, base, s, n, f) ==
  /\ f[n + 1] = base
  /\ \A i \in 1 .. n : f[i] = op(ctx, f[i + 1], s[i])
  /\ RightFold(ctx, base, s) = f[1]

\* A fold from the right goes through the values of its accumulator, the last
\* element first.
LEMMA FoldRightTrace ==
  ASSUME NEW ctx, NEW s, NEW base, NEW n \in Nat, DOMAIN s = 1 .. n
  PROVE  \E f : IsRightTrace(ctx, base, s, n, f)
<1> DEFINE Body(g, d) == RightBody(ctx, base, s, g, d)
           iter == CHOOSE g : IsRightIter(ctx, base, s, 1, n, g)
           f == [i \in 1 .. n + 1 |-> iter[i .. n]]
<1>1. RightFold(ctx, base, s) = iter[1 .. n]
  BY DEF IsRightIter, RightBody, RightFold, FoldRight, MapThenFoldSet
<1>2. \E g : IsRightIter(ctx, base, s, 1, n, g)
  BY RightExists
<1>3. IsRightIter(ctx, base, s, 1, n, iter)
  BY <1>2
<1>4. \A d \in SUBSET (1 .. n) : iter[d] = Body(iter, d)
  <2> HIDE DEF iter
  <2> QED BY <1>3 DEF IsRightIter
<1>5. f[n + 1] = base
  <2>1. n + 1 .. n = {} /\ f[n + 1] = iter[n + 1 .. n]
    <3> HIDE DEF iter
    <3> QED OBVIOUS
  <2> HIDE DEF iter, f
  <2> QED BY <1>4, <2>1 DEF RightBody
<1>6. ASSUME NEW i \in 1 .. n PROVE f[i] = op(ctx, f[i + 1], s[i])
  <2>1. Min(i .. n) = i
    <3>1. \A x \in i .. n : (\A y \in i .. n : x =< y) => x = i
      OBVIOUS
    <3>2. \E x \in i .. n : \A y \in i .. n : x =< y
      OBVIOUS
    <3>3. Min(i .. n) \in i .. n /\ \A y \in i .. n : Min(i .. n) =< y
      BY <3>2, Zenon DEF Min
    <3> QED BY <3>1, <3>3
  <2>2. (i .. n) \ {i} = (i + 1) .. n /\ i .. n # {} /\ i .. n \in SUBSET (1 .. n)
    <3> HIDE DEF iter, f
    <3>1. (i .. n) \ {i} = (i + 1) .. n
      OBVIOUS
    <3>2. i \in i .. n
      OBVIOUS
    <3>3. i .. n \in SUBSET (1 .. n)
      OBVIOUS
    <3> QED BY <3>1, <3>2, <3>3
  <2>3. f[i] = iter[i .. n] /\ f[i + 1] = iter[(i + 1) .. n]
    <3> HIDE DEF iter
    <3> QED OBVIOUS
  <2>4. iter[i .. n] = op(ctx, iter[(i .. n) \ {i}], s[i])
    <3> HIDE DEF iter
    <3> QED BY <1>4, <2>1, <2>2 DEF RightBody
  <2> HIDE DEF iter, f
  <2> QED BY <2>2, <2>3, <2>4
<1>7. f[1] = iter[1 .. n]
  <2> HIDE DEF iter
  <2> QED OBVIOUS
<1> HIDE DEF iter, f
<1> QED BY <1>1, <1>5, <1>6, <1>7 DEF IsRightTrace

\* Induction over a fold from the right: what the base satisfies and each step
\* keeps, the fold satisfies.
LEMMA FoldRightInduction ==
  ASSUME NEW ctx, NEW s, NEW base, NEW n \in Nat, DOMAIN s = 1 .. n,
         Inv(ctx, n + 1, base),
         \A i \in 1 .. n : \A a : Inv(ctx, i + 1, a) => Inv(ctx, i, op(ctx, a, s[i]))
  PROVE  Inv(ctx, 1, RightFold(ctx, base, s))
<1>0. PICK f : IsRightTrace(ctx, base, s, n, f)
  BY FoldRightTrace, Zenon
<1>1. /\ f[n + 1] = base
      /\ \A i \in 1 .. n : f[i] = op(ctx, f[i + 1], s[i])
      /\ RightFold(ctx, base, s) = f[1]
  BY <1>0 DEF IsRightTrace
<1> DEFINE T == {m \in 0 .. n : Inv(ctx, n + 1 - m, f[n + 1 - m])}
<1>2. 0 \in T
  <2>1. 0 \in 0 .. n /\ n + 1 - 0 = n + 1
    OBVIOUS
  <2> QED BY <1>1, <2>1
<1>3. ASSUME NEW m \in 0 .. n - 1, m \in T PROVE m + 1 \in T
  <2> DEFINE i == n - m
  <2>1. i \in 1 .. n /\ m + 1 \in 0 .. n /\ n + 1 - m = i + 1 /\ n + 1 - (m + 1) = i
    OBVIOUS
  <2> HIDE DEF i
  <2>2. f[i] = op(ctx, f[i + 1], s[i])
    BY <1>1, <2>1
  <2>3. Inv(ctx, i + 1, f[i + 1])
    BY <1>3, <2>1
  <2>4. Inv(ctx, i, op(ctx, f[i + 1], s[i]))
    BY <2>1, <2>3
  <2> QED BY <2>1, <2>2, <2>4
<1>4. n \in T
  <2> HIDE DEF T
  <2>1. \A i \in 0 .. n : i \in T
    BY <1>2, <1>3, Upwards
  <2> QED BY <2>1
<1>5. n + 1 - n = 1
  OBVIOUS
<1> QED BY <1>1, <1>4, <1>5

-----------------------------------------------------------------------------
\* The recursive function whose value at i is op(ctx, its value at i - 1, i)
IsIterate(ctx, base, n, g) ==
  g = [i \in 0 .. n |-> IF i = 0 THEN base ELSE op(ctx, g[i - 1], i)]
Iterate(ctx, base, n) ==
  LET r[i \in 0 .. n] == IF i = 0 THEN base ELSE op(ctx, r[i - 1], i) IN r

\* The recursive function starts with the base and applies op at each number.
LEMMA IterateTrace ==
  ASSUME NEW ctx, NEW base, NEW n \in Nat
  PROVE  /\ Iterate(ctx, base, n)[0] = base
         /\ \A i \in 1 .. n :
                Iterate(ctx, base, n)[i] = op(ctx, Iterate(ctx, base, n)[i - 1], i)
<1> DEFINE T == {m \in 0 .. n : \E g : IsIterate(ctx, base, m, g)}
<1>1. 0 \in T
  <2> DEFINE g == [i \in 0 .. 0 |-> base]
  <2>1. IsIterate(ctx, base, 0, g)
    <3>1. \A i \in 0 .. 0 : i = 0
      OBVIOUS
    <3> QED BY <3>1 DEF IsIterate
  <2> HIDE DEF g
  <2> QED BY <2>1
<1>2. ASSUME NEW m \in 0 .. n - 1, m \in T PROVE m + 1 \in T
  <2>1. PICK g : IsIterate(ctx, base, m, g)
    BY <1>2
  <2> DEFINE h == [i \in 0 .. m + 1 |-> IF i = m + 1 THEN op(ctx, g[m], m + 1) ELSE g[i]]
             Body(i) == IF i = 0 THEN base ELSE op(ctx, h[i - 1], i)
  <2>2. ASSUME NEW i \in 0 .. m + 1 PROVE h[i] = Body(i)
    <3>1. CASE i = m + 1
      <4>1. i # 0 /\ i - 1 = m /\ m \in 0 .. m + 1 /\ m # m + 1
        BY <3>1
      <4>2. h[i - 1] = g[m] /\ h[i] = op(ctx, g[m], i)
        BY <3>1, <4>1
      <4> HIDE DEF h
      <4> QED BY <4>1, <4>2
    <3>2. CASE i # m + 1
      <4>1. i \in 0 .. m /\ h[i] = g[i]
        BY <3>2
      <4>2. g[i] = IF i = 0 THEN base ELSE op(ctx, g[i - 1], i)
        <5> HIDE DEF h
        <5> QED BY <2>1, <4>1 DEF IsIterate
      <4>3. i # 0 => h[i - 1] = g[i - 1]
        BY <4>1
      <4> HIDE DEF h
      <4> QED BY <4>1, <4>2, <4>3
    <3> QED BY <3>1, <3>2
  <2>3. h = [i \in 0 .. m + 1 |-> h[i]]
    OBVIOUS
  <2>4. m + 1 \in 0 .. n
    OBVIOUS
  <2>5. IsIterate(ctx, base, m + 1, h)
    <3> HIDE DEF h
    <3>1. [i \in 0 .. m + 1 |-> h[i]] = [i \in 0 .. m + 1 |-> Body(i)]
      BY <2>2, Zenon
    <3>2. h = [i \in 0 .. m + 1 |-> Body(i)]
      BY <2>3, <3>1, Zenon
    <3> QED BY <3>2 DEF IsIterate
  <2> HIDE DEF h
  <2> QED BY <2>4, <2>5, Zenon
<1>3. \E g : IsIterate(ctx, base, n, g)
  <2> HIDE DEF T
  <2>1. \A i \in 0 .. n : i \in T
    BY <1>1, <1>2, Upwards
  <2>2. n \in T
    BY <2>1
  <2> QED BY <2>2 DEF T
<1> DEFINE r == CHOOSE g : IsIterate(ctx, base, n, g)
<1>4. Iterate(ctx, base, n) = r
  BY DEF Iterate, IsIterate
<1>5. IsIterate(ctx, base, n, r)
  BY <1>3
<1> HIDE DEF r
<1> QED BY <1>4, <1>5 DEF IsIterate

\* Induction over the recursive function: what the base satisfies and each step
\* keeps, its values satisfy.
LEMMA IterateInduction ==
  ASSUME NEW ctx, NEW base, NEW n \in Nat, Inv(ctx, 0, base),
         \A i \in 1 .. n : \A a : Inv(ctx, i - 1, a) => Inv(ctx, i, op(ctx, a, i))
  PROVE  \A i \in 0 .. n : Inv(ctx, i, Iterate(ctx, base, n)[i])
<1> DEFINE r == Iterate(ctx, base, n)
           T == {i \in 0 .. n : Inv(ctx, i, r[i])}
<1>1. r[0] = base /\ \A i \in 1 .. n : r[i] = op(ctx, r[i - 1], i)
  BY IterateTrace
<1> HIDE DEF r
<1>2. 0 \in T
  <2>1. 0 \in 0 .. n
    OBVIOUS
  <2> QED BY <1>1, <2>1
<1>3. ASSUME NEW i \in 0 .. n - 1, i \in T PROVE i + 1 \in T
  <2>1. i + 1 \in 1 .. n /\ i + 1 \in 0 .. n /\ i + 1 - 1 = i
    OBVIOUS
  <2>2. r[i + 1] = op(ctx, r[i], i + 1)
    BY <1>1, <2>1
  <2>3. Inv(ctx, i, r[i])
    BY <1>3
  <2>4. Inv(ctx, i + 1, op(ctx, r[i], i + 1))
    BY <2>1, <2>3
  <2> QED BY <2>1, <2>2, <2>4
<1>4. \A i \in 0 .. n : i \in T
  <2> HIDE DEF T
  <2> QED BY <1>2, <1>3, Upwards
<1> QED BY <1>4 DEF r
=============================================================================
