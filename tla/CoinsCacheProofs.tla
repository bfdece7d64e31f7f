--------------------------- MODULE CoinsCacheProofs ---------------------------
(***************************************************************************)
(* Theorems about CoinsCache, for any transactions, outputs and blocks.    *)
(***************************************************************************)
EXTENDS CoinsCache, TLAPS

(* What holds of the entry e that a cache has for a transaction whose coins  *)
(* are c in the layer below, known says whether that layer is sure to know.  *)
EntryOk(e, c) ==
    e # Absent =>
        /\ "FRESH" \in e.flags => c = {}
        /\ "DIRTY" \notin e.flags => e.coins = c

\* A view's entry that is not FRESH was loaded through pcoinsTip, and pcoinsTip
\* drops an entry only when it is flushed, with no view open.
Loaded(x) == Has(view, x) /\ ~Has(tip, x) => "FRESH" \in view[x].flags

Layers ==
    \A x \in Txids :
        /\ EntryOk(tip[x], db[x])
        /\ EntryOk(view[x], TipValue[x])
        /\ Loaded(x)

IInv == TypeOK /\ Layers

-----------------------------------------------------------------------------
(* A read through pcoinsTip changes neither its value nor what it may hold.  *)
LEMMA TipFetchedOk ==
    ASSUME TypeOK, Layers, NEW x \in Txids
    PROVE  LET t == TipFetched(x) IN
           /\ t \in [Txids -> Entry \cup {Absent}]
           /\ \A y \in Txids : EntryOk(t[y], db[y])
           /\ \A y \in Txids : Value(t, db, y) = TipValue[y]
           /\ \A y \in Txids : Has(tip, y) => Has(t, y)
           /\ IF Has(t, x) THEN t[x].coins = TipValue[x] ELSE TipValue[x] = {}
<1> DEFINE new == [coins |-> db[x], flags |-> LoadedFlags(db[x])]
<1>1. new \in Entry /\ db[x] \in Coins /\ new # Absent /\ LoadedFlags(db[x]) \subseteq {"FRESH"}
  BY NamesAssumption DEF TypeOK, Entry, LoadedFlags
<1>2. EntryOk(new, db[x])
  BY DEF EntryOk, LoadedFlags
<1>3. CASE Has(tip, x) \/ db[x] = {}
  <2>1. TipFetched(x) = tip
    BY <1>3 DEF TipFetched, Fetched
  <2> QED BY <2>1, <1>3 DEF TypeOK, Layers, TipValue, Value
<1>4. CASE ~Has(tip, x) /\ db[x] # {}
  <2>1. TipFetched(x) = [tip EXCEPT ![x] = new]
    BY <1>4 DEF TipFetched, Fetched
  <2> HIDE DEF new
  <2>2. [tip EXCEPT ![x] = new] \in [Txids -> Entry \cup {Absent}]
    BY <1>1 DEF TypeOK
  <2>3. \A y \in Txids : TipFetched(x)[y] = IF y = x THEN new ELSE tip[y]
    BY <2>1 DEF TypeOK
  <2>4. new.coins = db[x] /\ TipValue[x] = db[x]
    BY <1>4 DEF new, TipValue, Value
  <2> QED BY <2>1, <2>2, <2>3, <2>4, <1>1, <1>2 DEF Layers, TipValue, Value, Has
<1> QED BY <1>3, <1>4

(* The same when the read comes from the view.                               *)
LEMMA TipUnderViewOk ==
    ASSUME TypeOK, Layers, NEW x \in Txids
    PROVE  LET t == TipUnderView(x) IN
           /\ t \in [Txids -> Entry \cup {Absent}]
           /\ \A y \in Txids : EntryOk(t[y], db[y])
           /\ \A y \in Txids : Value(t, db, y) = TipValue[y]
           /\ \A y \in Txids : Has(tip, y) => Has(t, y)
           /\ ~Has(view, x) =>
                 IF Has(t, x) THEN t[x].coins = TipValue[x] ELSE TipValue[x] = {}
<1>1. CASE Has(view, x)
  BY <1>1 DEF TipUnderView, TypeOK, Layers, TipValue
<1>2. CASE ~Has(view, x)
  <2>1. TipUnderView(x) = TipFetched(x)
    BY <1>2 DEF TipUnderView
  <2> QED BY <2>1, TipFetchedOk
<1> QED BY <1>1, <1>2

-----------------------------------------------------------------------------
(* One lemma per action: the invariant is preserved, and what becomes of the *)
(* three versions of the coins.                                              *)
\* A step that only replaces pcoinsTip by one that reads the same
LEMMA SameTip ==
    ASSUME \A y \in Txids : Value(tip', db', y) = TipValue[y]
    PROVE  TipValue' = TipValue
BY DEF TipValue, Value, Has

LEMMA ReadTipOk ==
    ASSUME IInv, NEW x \in Txids, ReadTip(x)
    PROVE  IInv' /\ UNCHANGED <<db, TipValue, ViewValue>>
<1> USE DEF IInv
<1> DEFINE t == TipFetched(x)
<1>1. /\ t \in [Txids -> Entry \cup {Absent}]
      /\ \A y \in Txids : EntryOk(t[y], db[y])
      /\ \A y \in Txids : Value(t, db, y) = TipValue[y]
      /\ \A y \in Txids : Has(tip, y) => Has(t, y)
  BY TipFetchedOk
<1>2. tip' = t /\ UNCHANGED <<db, dbBest, tipBest, view, viewBest, open>>
  BY DEF ReadTip
<1> HIDE DEF t
<1>3. TipValue' = TipValue
  BY <1>1, <1>2, SameTip
<1>4. ViewValue' = ViewValue
  BY <1>2, <1>3 DEF ViewValue, Value, Has
<1>5. TypeOK'
  BY <1>1, <1>2 DEF TypeOK, EmptyCache
<1>6. Layers'
  <2> SUFFICES ASSUME NEW y \in Txids
               PROVE  EntryOk(tip[y], db[y])' /\ EntryOk(view[y], TipValue[y])' /\ Loaded(y)'
    BY DEF Layers
  <2>1. EntryOk(tip[y], db[y])'
    BY <1>1, <1>2 DEF EntryOk
  <2>2. EntryOk(view[y], TipValue[y])'
    BY <1>2, <1>3 DEF EntryOk, Layers
  <2>3. Loaded(y)'
    BY <1>1, <1>2 DEF Loaded, Layers, Has
  <2> QED BY <2>1, <2>2, <2>3
<1> QED BY <1>2, <1>3, <1>4, <1>5, <1>6

(* A step that loads or modifies the entry of x in the view: pcoinsTip becomes *)
(* t, the entry e.                                                             *)
LEMMA ViewStep ==
    ASSUME IInv, open, NEW x \in Txids, NEW e \in Entry \cup {Absent}, NEW c \in Coins,
           tip' = TipUnderView(x), view' = [view EXCEPT ![x] = e],
           UNCHANGED <<db, dbBest, tipBest, viewBest, open>>,
           EntryOk(e, TipValue[x]),
           e # Absent => e.coins = c /\ (Has(tip', x) \/ "FRESH" \in e.flags \/ e = view[x]),
           e = Absent => TipValue[x] = c
    PROVE  /\ IInv'
           /\ UNCHANGED <<db, TipValue>>
           /\ ViewValue' = [ViewValue EXCEPT ![x] = c]
<1> USE DEF IInv
<1>1. /\ tip' \in [Txids -> Entry \cup {Absent}]
      /\ \A y \in Txids : EntryOk(tip'[y], db[y])
      /\ \A y \in Txids : Value(tip', db, y) = TipValue[y]
      /\ \A y \in Txids : Has(tip, y) => Has(tip', y)
  BY TipUnderViewOk
<1>2. TipValue' = TipValue
  BY <1>1, SameTip
<1>3. /\ view' \in [Txids -> Entry \cup {Absent}]
      /\ \A y \in Txids : view'[y] = IF y = x THEN e ELSE view[y]
  BY DEF TypeOK
<1>4. TypeOK'
  BY <1>1, <1>3 DEF TypeOK
<1>5. ViewValue' = [ViewValue EXCEPT ![x] = c]
  BY <1>2, <1>3 DEF ViewValue, Value, Has
<1>6. Layers'
  <2> SUFFICES ASSUME NEW y \in Txids
               PROVE  EntryOk(tip[y], db[y])' /\ EntryOk(view[y], TipValue[y])' /\ Loaded(y)'
    BY DEF Layers
  <2>1. EntryOk(tip[y], db[y])'
    BY <1>1 DEF EntryOk
  <2>2. EntryOk(view[y], TipValue[y])'
    BY <1>2, <1>3 DEF EntryOk, Layers
  <2>3. Loaded(y)'
    BY <1>1, <1>3 DEF Loaded, Layers, Has
  <2> QED BY <2>1, <2>2, <2>3
<1> QED BY <1>2, <1>4, <1>5, <1>6

LEMMA ReadViewOk ==
    ASSUME IInv, NEW x \in Txids, ReadView(x)
    PROVE  IInv' /\ UNCHANGED <<db, TipValue, ViewValue>>
<1> USE DEF IInv
<1> DEFINE t == TipUnderView(x)
           new == [coins |-> t[x].coins, flags |-> LoadedFlags(t[x].coins)]
           e == IF Has(view, x) \/ ~Has(t, x) THEN view[x] ELSE new
<1>1. /\ open /\ tip' = t
      /\ view' = Fetched(view, x, Has(t, x), t[x].coins)
      /\ UNCHANGED <<db, dbBest, tipBest, viewBest, open>>
  BY DEF ReadView
<1>2. /\ t \in [Txids -> Entry \cup {Absent}]
      /\ ~Has(view, x) => IF Has(t, x) THEN t[x].coins = TipValue[x] ELSE TipValue[x] = {}
  BY TipUnderViewOk
<1>3. ViewValue[x] = IF Has(view, x) THEN view[x].coins ELSE TipValue[x]
  BY DEF ViewValue, Value
<1>4. ASSUME Has(t, x)
      PROVE  new \in Entry /\ t[x].coins \in Coins /\ EntryOk(new, t[x].coins)
  <2>1. t[x] \in Entry
    BY <1>2, <1>4 DEF Has
  <2> HIDE DEF t
  <2> QED BY <2>1 DEF Entry, LoadedFlags, EntryOk
<1>5. view' = [view EXCEPT ![x] = e]
  BY <1>1 DEF Fetched, TypeOK
<1>6. e \in Entry \cup {Absent} /\ EntryOk(e, TipValue[x])
  BY <1>2, <1>4 DEF Layers, TypeOK
<1>7. ViewValue[x] \in Coins
  <2>1. TipValue[x] \in Coins
    BY DEF TipValue, Value, TypeOK, Entry, Has
  <2> QED BY <2>1, <1>3 DEF TypeOK, Entry, Has
<1>8. e # Absent => e.coins = ViewValue[x] /\ (Has(t, x) \/ "FRESH" \in e.flags \/ e = view[x])
  BY <1>2, <1>3, <1>4 DEF Has
<1>9. e = Absent => TipValue[x] = ViewValue[x]
  BY <1>2, <1>3, <1>4, NamesAssumption DEF Has
<1> HIDE DEF t, e
<1>10. /\ IInv' /\ UNCHANGED <<db, TipValue>>
       /\ ViewValue' = [ViewValue EXCEPT ![x] = ViewValue[x]]
  BY <1>1, <1>5, <1>6, <1>7, <1>8, <1>9, ViewStep DEF t
<1>11. ViewValue' = ViewValue
  BY <1>10 DEF ViewValue
<1> QED BY <1>10, <1>11

LEMMA ModifyOk ==
    ASSUME IInv, NEW x \in Txids, NEW new \in Coins, Modify(x, new)
    PROVE  /\ IInv'
           /\ UNCHANGED <<db, TipValue>>
           /\ ViewValue' = [ViewValue EXCEPT ![x] = new]
<1> USE DEF IInv
<1> DEFINE t == TipUnderView(x)
           flags == ModifiedFlags(view, x, Has(t, x), t[x].coins)
           entry == [coins |-> new, flags |-> flags \cup {"DIRTY"}]
           e == IF "FRESH" \in flags /\ new = {} THEN Absent ELSE entry
<1>1. /\ open /\ tip' = t
      /\ view' = Modified(view, x, Has(t, x), t[x].coins, new)
      /\ UNCHANGED <<db, dbBest, tipBest, viewBest, open>>
  BY DEF Modify
<1>2. ~Has(view, x) => IF Has(t, x) THEN t[x].coins = TipValue[x] ELSE TipValue[x] = {}
  BY TipUnderViewOk
<1>3. flags \in SUBSET {"DIRTY", "FRESH"}
  BY DEF ModifiedFlags, TypeOK, Entry, Has
<1>4. "FRESH" \in flags => TipValue[x] = {}
  BY <1>2 DEF ModifiedFlags, Layers, EntryOk, Has
<1>5. Has(t, x) \/ "FRESH" \in flags
  <2>1. CASE Has(view, x)
    BY <2>1 DEF ModifiedFlags, Layers, Loaded, TipUnderView
  <2>2. CASE ~Has(view, x)
    BY <2>2 DEF ModifiedFlags
  <2> QED BY <2>1, <2>2
<1>6. view' = [view EXCEPT ![x] = e]
  BY <1>1 DEF Modified
<1> HIDE DEF flags, t
<1>7. entry \in Entry /\ entry # Absent /\ entry.coins = new /\ EntryOk(entry, TipValue[x])
  <2>1. entry \in Entry /\ entry.coins = new /\ entry.flags = flags \cup {"DIRTY"}
    BY <1>3 DEF Entry
  <2>2. "FRESH" \in entry.flags => TipValue[x] = {}
    BY <2>1, <1>4
  <2> HIDE DEF entry
  <2> QED BY <2>1, <2>2, NamesAssumption DEF EntryOk
<1>8. e \in Entry \cup {Absent} /\ EntryOk(e, TipValue[x])
  BY <1>7 DEF EntryOk
<1>9. e # Absent => e.coins = new /\ (Has(t, x) \/ "FRESH" \in e.flags \/ e = view[x])
  BY <1>5
<1>10. e = Absent => TipValue[x] = new
  BY <1>4, <1>7
<1> HIDE DEF e
<1> QED BY <1>1, <1>6, <1>8, <1>9, <1>10, ViewStep DEF t

LEMMA FlushViewOk ==
    ASSUME IInv, FlushView
    PROVE  IInv' /\ UNCHANGED db /\ TipValue' = ViewValue /\ ViewValue' = ViewValue
<1> USE DEF IInv
<1>1. /\ tip' = [x \in Txids |-> Merged(tip, view, x)]
      /\ view' = EmptyCache /\ viewBest' = None /\ open' = FALSE
      /\ tipBest' = viewBest /\ UNCHANGED <<db, dbBest>>
  BY DEF FlushView
<1>2. ASSUME NEW x \in Txids
      PROVE  /\ Merged(tip, view, x) \in Entry \cup {Absent}
             /\ EntryOk(Merged(tip, view, x), db[x])
             /\ Value(tip', db, x) = ViewValue[x]
  <2>1. /\ tip[x] \in Entry \cup {Absent} /\ view[x] \in Entry \cup {Absent}
        /\ EntryOk(tip[x], db[x]) /\ EntryOk(view[x], TipValue[x]) /\ Loaded(x)
        /\ TipValue[x] = IF Has(tip, x) THEN tip[x].coins ELSE db[x]
        /\ ViewValue[x] = IF Has(view, x) THEN view[x].coins ELSE TipValue[x]
    BY DEF TypeOK, Layers, TipValue, ViewValue, Value
  <2>2. tip'[x] = Merged(tip, view, x)
    BY <1>1
  <2>3. CASE ~Marked(view, x, "DIRTY")
    <3>1. Merged(tip, view, x) = tip[x]
      BY <2>3 DEF Merged
    <3>2. ViewValue[x] = TipValue[x]
      BY <2>1, <2>3 DEF Marked, EntryOk, Has
    <3> QED BY <2>1, <2>2, <3>1, <3>2 DEF Value, Has
  <2>4. CASE Marked(view, x, "DIRTY") /\ ~Has(tip, x)
    <3>1. "FRESH" \in view[x].flags /\ db[x] = {} /\ view[x] \in Entry
      BY <2>1, <2>4 DEF Loaded, Marked, Has, EntryOk
    <3>2. CASE view[x].coins = {}
      <4>1. Merged(tip, view, x) = Absent
        BY <2>4, <3>2 DEF Merged
      <4> QED BY <2>1, <2>2, <2>4, <3>1, <3>2, <4>1 DEF Value, Has, EntryOk, Marked
    <3>3. CASE view[x].coins # {}
      <4> DEFINE m == [coins |-> view[x].coins, flags |-> {"DIRTY", "FRESH"}]
      <4>1. Merged(tip, view, x) = m
        BY <2>4, <3>3 DEF Merged
      <4>2. m \in Entry /\ m # Absent /\ EntryOk(m, db[x]) /\ m.coins = view[x].coins
        BY <3>1, NamesAssumption DEF Entry, EntryOk
      <4> HIDE DEF m
      <4> QED BY <2>1, <2>2, <2>4, <4>1, <4>2 DEF Value, Has, Marked
    <3> QED BY <3>2, <3>3
  <2>5. CASE Marked(view, x, "DIRTY") /\ Has(tip, x)
    <3>1. view[x] \in Entry /\ tip[x] \in Entry
      BY <2>1, <2>5 DEF Marked, Has
    <3>2. CASE Marked(tip, x, "FRESH") /\ view[x].coins = {}
      <4>1. Merged(tip, view, x) = Absent
        BY <2>5, <3>2 DEF Merged
      <4> QED BY <2>1, <2>2, <2>5, <3>2, <4>1 DEF Value, Has, EntryOk, Marked
    <3>3. CASE ~(Marked(tip, x, "FRESH") /\ view[x].coins = {})
      <4> DEFINE m == [coins |-> view[x].coins, flags |-> tip[x].flags \cup {"DIRTY"}]
      <4>1. Merged(tip, view, x) = m
        BY <2>5, <3>3 DEF Merged
      <4>2. m \in Entry /\ m # Absent /\ EntryOk(m, db[x]) /\ m.coins = view[x].coins
        BY <2>1, <2>5, <3>1, NamesAssumption DEF Entry, EntryOk, Has
      <4> HIDE DEF m
      <4> QED BY <2>1, <2>2, <2>5, <4>1, <4>2 DEF Value, Has, Marked
    <3> QED BY <3>2, <3>3
  <2> QED BY <2>3, <2>4, <2>5
<1>3. TipValue' = ViewValue
  BY <1>1, <1>2 DEF TipValue, ViewValue, Value, Has
<1>4. ViewValue' = TipValue' /\ \A x \in Txids : view'[x] = Absent
  BY <1>1 DEF ViewValue, EmptyCache, Value, Has, TipValue
<1>5. TypeOK'
  BY <1>1, <1>2, <1>4 DEF TypeOK, EmptyCache
<1>6. Layers'
  BY <1>1, <1>2, <1>4 DEF Layers, EntryOk, Loaded, Has
<1> QED BY <1>1, <1>3, <1>4, <1>5, <1>6

(* A step that empties the view and leaves the layers below alone.           *)
LEMMA ViewGone ==
    ASSUME IInv, view' = EmptyCache, viewBest' = None, open' \in BOOLEAN,
           UNCHANGED <<db, dbBest, tip, tipBest>>
    PROVE  IInv' /\ UNCHANGED TipValue /\ ViewValue' = TipValue
<1> USE DEF IInv
<1>1. UNCHANGED TipValue /\ \A x \in Txids : view'[x] = Absent
  BY DEF TipValue, Value, Has, EmptyCache
<1>2. ViewValue' = TipValue
  <2>1. ViewValue' = [x \in Txids |-> TipValue[x]]
    BY <1>1 DEF ViewValue, Value, Has
  <2> QED BY <2>1 DEF TipValue
<1>3. TypeOK'
  BY NamesAssumption DEF TypeOK, EmptyCache
<1>4. Layers'
  BY <1>1 DEF Layers, EntryOk, Loaded, Has
<1> QED BY <1>1, <1>2, <1>3, <1>4

(* Without a view the working version is the current one.                    *)
LEMMA NoView ==
    ASSUME IInv, ~open
    PROVE  view = EmptyCache /\ viewBest = None /\ ViewValue = TipValue
<1>1. view = EmptyCache /\ viewBest = None
  BY DEF IInv, TypeOK
<1>2. ViewValue = [x \in Txids |-> TipValue[x]]
  BY <1>1 DEF ViewValue, Value, Has, EmptyCache
<1> QED BY <1>1, <1>2 DEF TipValue

LEMMA FlushTipOk ==
    ASSUME IInv, FlushTip
    PROVE  IInv' /\ db' = TipValue /\ UNCHANGED <<TipValue, ViewValue>>
<1> USE DEF IInv
<1>1. /\ ~open /\ tip' = EmptyCache
      /\ db' = [x \in Txids |-> IF Marked(tip, x, "DIRTY") THEN tip[x].coins ELSE db[x]]
      /\ dbBest' = IF tipBest = None THEN dbBest ELSE tipBest
      /\ UNCHANGED <<tipBest, view, viewBest, open>>
  BY DEF FlushTip
<1>2. view = EmptyCache /\ ViewValue = TipValue
  BY <1>1, NoView
<1>3. \A x \in Txids : tip'[x] = Absent /\ view'[x] = Absent
  BY <1>1, <1>2 DEF EmptyCache
<1>4. ASSUME NEW x \in Txids
      PROVE  (IF Marked(tip, x, "DIRTY") THEN tip[x].coins ELSE db[x]) = TipValue[x]
  BY DEF Layers, EntryOk, TipValue, Value, Marked, Has
<1>5. db' = TipValue
  BY <1>1, <1>4 DEF TipValue
<1>6. TipValue' = TipValue
  <2>1. TipValue' = [x \in Txids |-> db'[x]]
    BY <1>3 DEF TipValue, Value, Has
  <2> QED BY <2>1, <1>5 DEF TipValue
<1>7. ViewValue' = ViewValue
  BY <1>1, <1>2, <1>6 DEF ViewValue, Value, Has
<1>8. db' \in [Txids -> Coins]
  BY <1>5 DEF TipValue, Value, TypeOK, Entry, Has
<1>9. TypeOK'
  BY <1>1, <1>8 DEF TypeOK, EmptyCache
<1>10. Layers'
  BY <1>3 DEF Layers, EntryOk, Loaded, Has
<1> QED BY <1>5, <1>6, <1>7, <1>9, <1>10

(* With both caches empty every version of the coins is the stored one.       *)
LEMMA CachesGone ==
    ASSUME IInv, tip' = EmptyCache, view' = EmptyCache, viewBest' = None, open' \in BOOLEAN,
           tipBest' \in Blocks \cup {None}, UNCHANGED <<db, dbBest>>
    PROVE  IInv' /\ TipValue' = db /\ ViewValue' = db
<1> USE DEF IInv
<1>1. \A x \in Txids : tip'[x] = Absent /\ view'[x] = Absent
  BY DEF EmptyCache
<1>2. TipValue' = db
  <2>1. TipValue' = [x \in Txids |-> db[x]]
    BY <1>1 DEF TipValue, Value, Has
  <2> QED BY <2>1 DEF TypeOK
<1>3. ViewValue' = db
  <2>1. ViewValue' = [x \in Txids |-> TipValue'[x]]
    BY <1>1 DEF ViewValue, Value, Has
  <2> QED BY <2>1, <1>2 DEF TypeOK
<1>4. TypeOK'
  BY DEF TypeOK, EmptyCache
<1>5. Layers'
  BY <1>1 DEF Layers, EntryOk, Loaded, Has
<1> QED BY <1>2, <1>3, <1>4, <1>5

LEMMA FlushTipFailsOk ==
    ASSUME IInv, FlushTipFails
    PROVE  /\ IInv' /\ ~open /\ UNCHANGED <<db, dbBest, tipBest, viewBest, open>>
           /\ TipValue' = db /\ ViewValue' = db
<1>1. /\ ~open /\ tip' = EmptyCache
      /\ UNCHANGED <<db, dbBest, tipBest, view, viewBest, open>>
  BY DEF FlushTipFails
<1>2. view = EmptyCache /\ viewBest = None
  BY <1>1, NoView
<1>3. open \in BOOLEAN /\ tipBest \in Blocks \cup {None}
  BY DEF IInv, TypeOK
<1> QED BY <1>1, <1>2, <1>3, CachesGone

LEMMA CrashOk ==
    ASSUME IInv, Crash
    PROVE  IInv' /\ UNCHANGED db /\ TipValue' = db /\ ViewValue' = db
BY CachesGone DEF Crash

(* Best blocks only: no entry changes.                                       *)
LEMMA BestOnly ==
    ASSUME IInv, UNCHANGED <<db, tip, view>>, TypeOK'
    PROVE  IInv' /\ UNCHANGED <<TipValue, ViewValue>>
<1>1. UNCHANGED <<TipValue, ViewValue>>
  BY DEF TipValue, ViewValue, Value, Has
<1>2. Layers'
  BY <1>1 DEF IInv, Layers, EntryOk, Loaded, Has
<1> QED BY <1>1, <1>2 DEF IInv

-----------------------------------------------------------------------------
LEMMA InitOk == Init => IInv
<1> SUFFICES ASSUME Init PROVE IInv
  OBVIOUS
<1>1. TypeOK
  BY DEF Init, TypeOK, EmptyCache, Coins
<1>2. \A x \in Txids : tip[x] = Absent /\ view[x] = Absent
  BY DEF Init, EmptyCache
<1>3. Layers
  BY <1>2 DEF Layers, EntryOk, Loaded, Has
<1> QED BY <1>1, <1>3 DEF IInv

LEMMA ReadBestOk == ASSUME IInv, ReadBestBlock PROVE IInv'
<1>1. TypeOK'
  BY DEF IInv, TypeOK, ReadBestBlock, TipBestBlock, ViewBestBlock
<1> QED BY <1>1, BestOnly DEF ReadBestBlock

LEMMA SetBestOk == ASSUME IInv, NEW b \in Blocks, SetBestBlock(b) PROVE IInv'
<1>1. TypeOK'
  BY DEF IInv, TypeOK, SetBestBlock
<1> QED BY <1>1, BestOnly DEF SetBestBlock

LEMMA OpenViewOk == ASSUME IInv, OpenView PROVE IInv'
<1>1. TypeOK'
  BY DEF IInv, TypeOK, OpenView
<1> QED BY <1>1, BestOnly DEF OpenView

LEMMA DiscardViewOk ==
    ASSUME IInv, DiscardView
    PROVE  IInv' /\ UNCHANGED TipValue /\ ViewValue' = TipValue
BY ViewGone DEF DiscardView

LEMMA NextOk == IInv /\ [Next]_vars => IInv'
<1> SUFFICES ASSUME IInv, [Next]_vars PROVE IInv'
  OBVIOUS
<1>1. ASSUME NEW x \in Txids, ReadTip(x) PROVE IInv'
  BY <1>1, ReadTipOk
<1>2. ASSUME NEW x \in Txids, ReadView(x) PROVE IInv'
  BY <1>2, ReadViewOk
<1>3. ASSUME NEW x \in Txids, NEW new \in Coins, Modify(x, new) PROVE IInv'
  BY <1>3, ModifyOk
<1>4. ASSUME NEW b \in Blocks, SetBestBlock(b) PROVE IInv'
  BY <1>4, SetBestOk
<1>5. CASE ReadBestBlock
  BY <1>5, ReadBestOk
<1>6. CASE OpenView
  BY <1>6, OpenViewOk
<1>7. CASE FlushView
  BY <1>7, FlushViewOk
<1>8. CASE DiscardView
  BY <1>8, DiscardViewOk
<1>9. CASE FlushTip
  BY <1>9, FlushTipOk
<1>10. CASE Crash
  BY <1>10, CrashOk
<1>11. CASE FlushTipFails
  BY <1>11, FlushTipFailsOk
<1>12. CASE UNCHANGED vars
  <2>1. TypeOK'
    BY <1>12 DEF vars, IInv, TypeOK
  <2> QED BY <1>12, <2>1, BestOnly DEF vars
<1> QED BY <1>1, <1>2, <1>3, <1>4, <1>5, <1>6, <1>7, <1>8, <1>9, <1>10, <1>11, <1>12 DEF Next

-----------------------------------------------------------------------------
(* Whatever is read, modified, flushed and lost, the layers are consistent.  *)
THEOREM Invariance == Spec => []IInv
<1> QED BY InitOk, NextOk, PTL DEF Spec

(* Types, and nothing is left of a view that was flushed or discarded.       *)
THEOREM TypeCorrect == Spec => []TypeOK
<1>1. IInv => TypeOK
  BY DEF IInv
<1> QED BY <1>1, Invariance, PTL

(* An entry marked FRESH has no coins in the layer below, so that erasing it *)
(* loses no deletion.                                                        *)
THEOREM FreshIsSound == Spec => []FreshSound
<1>1. IInv => FreshSound
  BY DEF IInv, Layers, EntryOk, FreshSound, Marked, Has
<1> QED BY <1>1, Invariance, PTL

(* An entry that will not be written is what the layer below holds.          *)
THEOREM CleanIsEqual == Spec => []CleanEqualsParent
<1>1. IInv => CleanEqualsParent
  BY DEF IInv, Layers, EntryOk, CleanEqualsParent, Marked, Has
<1> QED BY <1>1, Invariance, PTL

(* The assertion of BatchWrite never fails.                                  *)
THEOREM BatchWriteAssertion == Spec => []BatchWriteAsserts
<1>1. IInv => BatchWriteAsserts
  BY DEF IInv, Layers, Loaded, BatchWriteAsserts, Marked, Has
<1> QED BY <1>1, Invariance, PTL

(* The three layers implement three plain versions of the coins, a write that *)
(* fails included.                                                           *)
THEOREM Refinement == Spec => ImplementsMap
<1> DEFINE stored == [coins |-> db, best |-> dbBest]
           current == [coins |-> TipValue, best |-> TipBestBlock]
           working == [coins |-> ViewValue, best |-> ViewBestBlock]
<1>1. Init => Abstract!Init
  <2> SUFFICES ASSUME Init PROVE Abstract!Init
    OBVIOUS
  <2>1. TipValue = db
    <3>1. TipValue = [x \in Txids |-> db[x]]
      BY DEF Init, TipValue, Value, Has, EmptyCache
    <3> QED BY <3>1 DEF Init
  <2>2. ViewValue = TipValue
    BY InitOk, NoView DEF Init
  <2>3. TipBestBlock = None /\ ViewBestBlock = None
    BY DEF Init, TipBestBlock, ViewBestBlock
  <2> QED BY <2>1, <2>2, <2>3 DEF Init, Abstract!Init
<1>2. IInv /\ [Next]_vars => [Abstract!Next]_Abstract!vars
  <2> SUFFICES ASSUME IInv, [Next]_vars PROVE [Abstract!Next]_Abstract!vars
    OBVIOUS
  <2>a. UNCHANGED <<db, dbBest, TipValue, TipBestBlock, ViewValue, ViewBestBlock, open>>
           => UNCHANGED Abstract!vars
    BY DEF Abstract!vars
  <2>1. ASSUME NEW x \in Txids, ReadTip(x) PROVE UNCHANGED Abstract!vars
    BY <2>1, <2>a, ReadTipOk DEF ReadTip, TipBestBlock, ViewBestBlock
  <2>2. ASSUME NEW x \in Txids, ReadView(x) PROVE UNCHANGED Abstract!vars
    BY <2>2, <2>a, ReadViewOk DEF ReadView, TipBestBlock, ViewBestBlock
  <2>3. ASSUME NEW x \in Txids, NEW new \in Coins, Modify(x, new) PROVE Abstract!Write
    <3>1. /\ open /\ UNCHANGED <<db, dbBest, TipValue, TipBestBlock, ViewBestBlock, open>>
          /\ ViewValue' = [ViewValue EXCEPT ![x] = new]
      BY <2>3, ModifyOk DEF Modify, TipBestBlock, ViewBestBlock
    <3>2. working' = [working EXCEPT !.coins = [working.coins EXCEPT ![x] = new]]
      BY <3>1
    <3> QED BY <3>1, <3>2 DEF Abstract!Write, Coins
  <2>4. ASSUME NEW b \in Blocks, SetBestBlock(b) PROVE Abstract!SetBest
    <3>1. open /\ UNCHANGED <<db, dbBest, tip, tipBest, view, open>> /\ viewBest' = b
      BY <2>4 DEF SetBestBlock
    <3>2. UNCHANGED <<TipValue, ViewValue, TipBestBlock>> /\ ViewBestBlock' = b
      BY <3>1, NamesAssumption DEF TipValue, ViewValue, Value, Has, TipBestBlock, ViewBestBlock
    <3>3. working' = [working EXCEPT !.best = b]
      BY <3>2
    <3> QED BY <3>1, <3>2, <3>3 DEF Abstract!SetBest
  <2>5. CASE ReadBestBlock
    <3>1. UNCHANGED <<db, dbBest, tip, view, open>>
      BY <2>5 DEF ReadBestBlock
    <3>2. UNCHANGED <<TipValue, ViewValue>>
      BY <3>1 DEF TipValue, ViewValue, Value, Has
    <3>3. UNCHANGED <<TipBestBlock, ViewBestBlock>>
      BY <2>5, NoView DEF ReadBestBlock, TipBestBlock, ViewBestBlock
    <3> QED BY <3>1, <3>2, <3>3, <2>a
  <2>6. CASE OpenView
    <3>1. ~open /\ open' = TRUE /\ UNCHANGED <<db, dbBest, tip, tipBest, view, viewBest>>
      BY <2>6 DEF OpenView
    <3>2. UNCHANGED <<TipValue, ViewValue, TipBestBlock, ViewBestBlock>>
      BY <3>1 DEF TipValue, ViewValue, Value, Has, TipBestBlock, ViewBestBlock
    <3> QED BY <3>1, <3>2 DEF Abstract!Next, Abstract!Open
  <2>7. CASE FlushView
    <3>1. /\ open /\ open' = FALSE /\ UNCHANGED <<db, dbBest>>
          /\ TipBestBlock' = ViewBestBlock /\ ViewBestBlock' = ViewBestBlock
      BY <2>7 DEF FlushView, TipBestBlock, ViewBestBlock
    <3> QED BY <3>1, <2>7, FlushViewOk DEF Abstract!Next, Abstract!Commit
  <2>8. CASE DiscardView
    <3>1. /\ open /\ open' = FALSE /\ UNCHANGED <<db, dbBest>>
          /\ TipBestBlock' = TipBestBlock /\ ViewBestBlock' = TipBestBlock
      BY <2>8 DEF DiscardView, TipBestBlock, ViewBestBlock
    <3> QED BY <3>1, <2>8, DiscardViewOk DEF Abstract!Next, Abstract!Discard
  <2>9. CASE FlushTip
    <3>1. /\ ~open /\ UNCHANGED open /\ dbBest' = TipBestBlock
          /\ UNCHANGED <<TipBestBlock, ViewBestBlock>>
      BY <2>9, NoView DEF FlushTip, TipBestBlock, ViewBestBlock
    <3> QED BY <3>1, <2>9, FlushTipOk DEF Abstract!Next, Abstract!Persist
  <2>10. CASE Crash
    <3>1. /\ open' = FALSE /\ UNCHANGED dbBest
          /\ TipBestBlock' = dbBest /\ ViewBestBlock' = dbBest
      BY <2>10 DEF Crash, TipBestBlock, ViewBestBlock
    <3> QED BY <3>1, <2>10, CrashOk DEF Abstract!Next, Abstract!Crash
  <2>11. CASE FlushTipFails
    <3>1. /\ ~open /\ UNCHANGED <<db, dbBest, open>>
          /\ TipValue' = db /\ ViewValue' = db
          /\ TipBestBlock' = TipBestBlock /\ ViewBestBlock' = TipBestBlock
      BY <2>11, FlushTipFailsOk, NoView DEF TipBestBlock, ViewBestBlock
    <3>2. current' = [current EXCEPT !.coins = stored.coins] /\ working' = current'
      BY <3>1
    <3> QED BY <3>1, <3>2 DEF Abstract!Next, Abstract!LoseChanges
  <2>12. CASE UNCHANGED vars
    BY <2>12, <2>a DEF vars, TipValue, ViewValue, Value, Has, TipBestBlock, ViewBestBlock
  <2> QED BY <2>1, <2>2, <2>3, <2>4, <2>5, <2>6, <2>7, <2>8, <2>9, <2>10, <2>11, <2>12
          DEF Next, Abstract!Next
<1> QED BY <1>1, <1>2, Invariance, PTL DEF Spec, ImplementsMap, Abstract!Spec
=============================================================================
