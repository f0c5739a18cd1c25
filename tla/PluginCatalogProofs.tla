--------------------------- MODULE PluginCatalogProofs ---------------------------
(* Proofs about PluginCatalog: whatever the loaders advertise, rebuildIndex()   *)
(* makes an index that describes them, and an index that is not dirty is that   *)
(* of the current loaders.                                                      *)
EXTENDS PluginCatalog, PluginFactoryProofs

-----------------------------------------------------------------------------
(* An index under construction, of the loaders at "Ls" and what is           *)
(* advertised at "As"; f[p] is the key at p.                                 *)

Indexes ==
    [loaders : Seq(Addresses), keys : Seq(Keys),
     byKey : UNION {[K -> Seq(Addresses)] : K \in SUBSET Keys}]

At(f, As, k) == {p \in As : f[p] = k}

PlacesOf(f, As, k) == {p[1] : p \in At(f, As, k)}

Said(f, As) == {f[p] : p \in As} \ {EmptyKey}

KeysInOrder(keys, f, As) ==
    \A i, j \in DOMAIN keys : i < j =>
        \E p \in At(f, As, keys[i]) : \A q \in At(f, As, keys[j]) : Earlier(p, q)

Built(b, list, f, Ls, As) ==
    /\ b \in Indexes
    /\ InOrder(b.loaders, list, Ls)
    /\ ToSet(b.keys) = Said(f, As) /\ DOMAIN b.byKey = Said(f, As)
    /\ KeysInOrder(b.keys, f, As)
    /\ \A k \in Said(f, As) : InOrder(b.byKey[k], list, PlacesOf(f, As, k))

-----------------------------------------------------------------------------
(* Sequences in the order of the list.                                       *)

LEMMA InOrderAppend ==
    ASSUME NEW s \in Seq(Addresses), NEW list, NEW Ps, InOrder(s, list, Ps),
           NEW n \in Nat, \A m \in Ps : m < n, list[n] \in Addresses
    PROVE  InOrder(Append(s, list[n]), list, Ps \cup {n})
  <1> DEFINE t == Append(s, list[n])
  <1>1. /\ t \in Seq(Addresses) /\ Len(t) = Len(s) + 1 /\ t[Len(s) + 1] = list[n]
        /\ \A i \in 1 .. Len(s) : t[i] = s[i]
    BY AppendProperties
  <1>2. /\ Len(s) \in Nat /\ DOMAIN s = 1 .. Len(s) /\ DOMAIN t = 1 .. Len(s) + 1
    BY <1>1, LenProperties
  <1>3. ToSet(t) = {list[m] : m \in Ps \cup {n}}
    <2>1. ToSet(t) = ToSet(s) \cup {list[n]}
      BY ToSetAppend
    <2> QED BY <2>1 DEF InOrder
  <1>4. ASSUME NEW i \in DOMAIN t, NEW j \in DOMAIN t, i < j
        PROVE  \E l, m \in Ps \cup {n} : l < m /\ t[i] = list[l] /\ t[j] = list[m]
    <2>1. i \in 1 .. Len(s) /\ t[i] = s[i]
      BY <1>1, <1>2, <1>4
    <2>2. CASE j \in 1 .. Len(s)
      <3>1. \E l, m \in Ps : l < m /\ s[i] = list[l] /\ s[j] = list[m]
        BY <1>2, <1>4, <2>1, <2>2 DEF InOrder
      <3> QED BY <1>1, <2>1, <2>2, <3>1
    <2>3. CASE j = Len(s) + 1
      <3>1. s[i] \in ToSet(s)
        BY <1>2, <2>1 DEF ToSet
      <3>2. PICK l \in Ps : s[i] = list[l]
        BY <3>1 DEF InOrder
      <3> QED BY <1>1, <2>1, <2>3, <3>2
    <2> QED BY <1>2, <2>2, <2>3
  <1> HIDE DEF t
  <1> QED BY <1>3, <1>4 DEF InOrder, t

LEMMA InOrderMore ==
    ASSUME NEW s, NEW list, NEW Ps, InOrder(s, list, Ps), NEW n, list[n] \in ToSet(s)
    PROVE  InOrder(s, list, Ps \cup {n})
BY DEF InOrder

-----------------------------------------------------------------------------
(* One key.                                                                  *)

\* The parts of an index.
LEMMA IndexParts ==
    ASSUME NEW b \in Indexes
    PROVE  /\ b.loaders \in Seq(Addresses) /\ b.keys \in Seq(Keys)
           /\ DOMAIN b.byKey \subseteq Keys
           /\ b.byKey = [k \in DOMAIN b.byKey |-> b.byKey[k]]
           /\ \A k \in DOMAIN b.byKey : b.byKey[k] \in Seq(Addresses)
BY DEF Indexes

\* What changes when one more place is looked at.
LEMMA OneMore ==
    ASSUME NEW f, NEW As, NEW p
    PROVE  /\ Said(f, As \cup {p}) = IF f[p] = EmptyKey THEN Said(f, As) ELSE Said(f, As) \cup {f[p]}
           /\ \A k : At(f, As \cup {p}, k) = IF f[p] = k THEN At(f, As, k) \cup {p} ELSE At(f, As, k)
  <1>1. Said(f, As \cup {p}) = IF f[p] = EmptyKey THEN Said(f, As) ELSE Said(f, As) \cup {f[p]}
    BY DEF Said
  <1>2. \A k : At(f, As \cup {p}, k) = IF f[p] = k THEN At(f, As, k) \cup {p} ELSE At(f, As, k)
    BY DEF At
  <1> QED BY <1>1, <1>2

\* The keys stay in order when a key is seen again, later.
LEMMA KeysStayInOrder ==
    ASSUME NEW keys, NEW f, NEW As, NEW p, KeysInOrder(keys, f, As),
           \A q \in As : Earlier(q, p)
    PROVE  KeysInOrder(keys, f, As \cup {p})
  <1> SUFFICES ASSUME NEW i \in DOMAIN keys, NEW j \in DOMAIN keys, i < j
               PROVE  \E r \in At(f, As \cup {p}, keys[i]) :
                          \A q \in At(f, As \cup {p}, keys[j]) : Earlier(r, q)
    BY DEF KeysInOrder
  <1>1. PICK r \in At(f, As, keys[i]) : \A q \in At(f, As, keys[j]) : Earlier(r, q)
    BY DEF KeysInOrder
  <1>2. r \in As /\ r \in At(f, As \cup {p}, keys[i])
    BY <1>1 DEF At
  <1>3. \A q \in At(f, As \cup {p}, keys[j]) : q \in At(f, As, keys[j]) \/ q = p
    BY DEF At
  <1>4. \A q \in At(f, As \cup {p}, keys[j]) : Earlier(r, q)
    BY <1>1, <1>2, <1>3
  <1> QED BY <1>2, <1>4

\* And when a new key is appended.
LEMMA KeysAppendInOrder ==
    ASSUME NEW keys \in Seq(Keys), NEW f, NEW As, NEW p, KeysInOrder(keys, f, As),
           \A q \in As : Earlier(q, p),
           ToSet(keys) = Said(f, As), f[p] \notin Said(f, As), f[p] \in Keys \ {EmptyKey}
    PROVE  KeysInOrder(Append(keys, f[p]), f, As \cup {p})
  <1> DEFINE t == Append(keys, f[p])
  <1>1. /\ t \in Seq(Keys) /\ Len(t) = Len(keys) + 1 /\ t[Len(keys) + 1] = f[p]
        /\ \A i \in 1 .. Len(keys) : t[i] = keys[i]
    BY AppendProperties
  <1>2. /\ Len(keys) \in Nat /\ DOMAIN keys = 1 .. Len(keys) /\ DOMAIN t = 1 .. Len(keys) + 1
    BY <1>1, LenProperties
  <1> HIDE DEF t
  <1> SUFFICES ASSUME NEW i \in DOMAIN t, NEW j \in DOMAIN t, i < j
               PROVE  \E r \in At(f, As \cup {p}, t[i]) :
                          \A q \in At(f, As \cup {p}, t[j]) : Earlier(r, q)
    BY DEF KeysInOrder, t
  <1>3. i \in 1 .. Len(keys) /\ t[i] = keys[i] /\ i \in DOMAIN keys
    BY <1>1, <1>2
  <1>4. CASE j \in 1 .. Len(keys)
    <2>1. KeysInOrder(keys, f, As \cup {p})
      BY KeysStayInOrder
    <2> QED BY <1>1, <1>2, <1>3, <1>4, <2>1 DEF KeysInOrder
  <1>5. CASE j = Len(keys) + 1
    <2>1. keys[i] \in Said(f, As)
      BY <1>3 DEF ToSet
    <2>2. PICK r \in As : f[r] = keys[i]
      BY <2>1 DEF Said
    <2>3. r \in At(f, As \cup {p}, t[i])
      BY <1>3, <2>2 DEF At
    <2>4. \A q \in At(f, As \cup {p}, f[p]) : q = p
      BY DEF At, Said
    <2>5. t[j] = f[p]
      BY <1>1, <1>5
    <2>6. Earlier(r, p)
      BY <2>2
    <2>7. \A q \in At(f, As \cup {p}, t[j]) : q = p
      BY <2>4, <2>5
    <2>8. \A q \in At(f, As \cup {p}, t[j]) : Earlier(r, q)
      BY <2>6, <2>7
    <2> QED BY <2>3, <2>8
  <1>6. j \in 1 .. Len(keys) \/ j = Len(keys) + 1
    BY <1>2
  <1> QED BY <1>4, <1>5, <1>6

-----------------------------------------------------------------------------
\* The order of entries: pairs of numbers.
LEMMA EarlierPlaces ==
    ASSUME NEW As, NEW p, p[1] \in Nat, \A q \in As : q[1] \in Nat /\ Earlier(q, p), NEW f, NEW k,
           p[1] \notin PlacesOf(f, As, k)
    PROVE  \A m \in PlacesOf(f, As, k) : m < p[1]
BY DEF Earlier, PlacesOf, At

\* The loader at n is entered under one more of its keys.
LEMMA KeyEntered ==
    ASSUME NEW b, NEW list, NEW f, NEW Ls, NEW As, Built(b, list, f, Ls, As),
           NEW p, p[1] \in Nat, list[p[1]] \in Addresses, f[p] \in Keys,
           \A q \in As : q[1] \in Nat /\ Earlier(q, p)
    PROVE  Built(EnterKey(b, list[p[1]], f[p]), list, f, Ls, As \cup {p})
  <1> DEFINE a == list[p[1]]
             k == f[p]
             c == EnterKey(b, a, k)
             Bs == As \cup {p}
  <1> SUFFICES Built(c, list, f, Ls, Bs)
    OBVIOUS
  <1>1. /\ b \in Indexes /\ InOrder(b.loaders, list, Ls)
        /\ ToSet(b.keys) = Said(f, As) /\ DOMAIN b.byKey = Said(f, As)
        /\ KeysInOrder(b.keys, f, As)
        /\ \A x \in Said(f, As) : InOrder(b.byKey[x], list, PlacesOf(f, As, x))
    BY DEF Built
  <1>2. /\ Said(f, Bs) = IF k = EmptyKey THEN Said(f, As) ELSE Said(f, As) \cup {k}
        /\ \A x : At(f, Bs, x) = IF k = x THEN At(f, As, x) \cup {p} ELSE At(f, As, x)
        /\ \A x : PlacesOf(f, Bs, x) =
                      IF k = x THEN PlacesOf(f, As, x) \cup {p[1]} ELSE PlacesOf(f, As, x)
    <2>1. Said(f, As \cup {p}) = IF f[p] = EmptyKey THEN Said(f, As) ELSE Said(f, As) \cup {f[p]}
      BY OneMore
    <2>2. \A x : At(f, As \cup {p}, x) = IF f[p] = x THEN At(f, As, x) \cup {p} ELSE At(f, As, x)
      <3> SUFFICES ASSUME NEW x
                   PROVE  At(f, As \cup {p}, x) =
                              IF f[p] = x THEN At(f, As, x) \cup {p} ELSE At(f, As, x)
        OBVIOUS
      <3>1. CASE f[p] = x
        BY <3>1 DEF At
      <3>2. CASE f[p] # x
        BY <3>2 DEF At
      <3> QED BY <3>1, <3>2
    <2>3. \A x : PlacesOf(f, As \cup {p}, x) =
                     IF f[p] = x THEN PlacesOf(f, As, x) \cup {p[1]} ELSE PlacesOf(f, As, x)
      BY <2>2 DEF PlacesOf
    <2> QED BY <2>1, <2>2, <2>3
  <1>3. KeysInOrder(b.keys, f, Bs)
    BY <1>1, KeysStayInOrder
  <1>4. /\ b.loaders \in Seq(Addresses) /\ b.keys \in Seq(Keys)
        /\ DOMAIN b.byKey \subseteq Keys
        /\ b.byKey = [x \in DOMAIN b.byKey |-> b.byKey[x]]
        /\ \A x \in DOMAIN b.byKey : b.byKey[x] \in Seq(Addresses)
    BY <1>1, IndexParts
  <1>5. b = [loaders |-> b.loaders, keys |-> b.keys, byKey |-> b.byKey]
    BY <1>1 DEF Indexes
  <1>6. EmptyKey \notin Said(f, As)
    BY DEF Said
  <1> HIDE DEF Bs
  <1>7. CASE k = EmptyKey
    <2>1. c = b
      BY <1>7 DEF EnterKey
    <2>2. Said(f, Bs) = Said(f, As)
      BY <1>2, <1>7
    <2>3. \A x \in Said(f, As) : PlacesOf(f, Bs, x) = PlacesOf(f, As, x)
      BY <1>2, <1>6, <1>7
    <2> HIDE DEF c, k
    <2> QED BY <1>1, <1>3, <2>1, <2>2, <2>3 DEF Built
  <1>8. CASE k # EmptyKey /\ k \in DOMAIN b.byKey
    <2> DEFINE places == AddToKey(b.byKey[k], a)
               by == [x \in DOMAIN b.byKey |-> IF x = k THEN places ELSE b.byKey[x]]
    <2>1. c = [loaders |-> b.loaders, keys |-> b.keys, byKey |-> [b.byKey EXCEPT ![k] = places]]
      BY <1>5, <1>8 DEF EnterKey
    <2>2. [b.byKey EXCEPT ![k] = places] = by
      BY <1>4
    <2>3. b.byKey[k] \in Seq(Addresses) /\ InOrder(b.byKey[k], list, PlacesOf(f, As, k))
      BY <1>1, <1>4, <1>8
    <2>4. places \in Seq(Addresses) /\ InOrder(places, list, PlacesOf(f, As, k) \cup {p[1]})
      <3>1. CASE a \in ToSet(b.byKey[k])
        BY <2>3, <3>1, InOrderMore DEF AddToKey
      <3>2. CASE a \notin ToSet(b.byKey[k])
        <4>1. p[1] \notin PlacesOf(f, As, k)
          BY <2>3, <3>2 DEF InOrder
        <4>2. \A m \in PlacesOf(f, As, k) : m < p[1]
          BY <4>1, EarlierPlaces
        <4>3. places = Append(b.byKey[k], a)
          BY <3>2 DEF AddToKey
        <4>4. places \in Seq(Addresses)
          BY <2>3, <4>3, AppendProperties
        <4> HIDE DEF places
        <4> QED BY <2>3, <4>2, <4>3, <4>4, InOrderAppend
      <3> QED BY <3>1, <3>2
    <2>5. Said(f, Bs) = Said(f, As) /\ DOMAIN by = Said(f, Bs)
      BY <1>1, <1>2, <1>8
    <2>6. \A x \in Said(f, Bs) : by[x] \in Seq(Addresses) /\ InOrder(by[x], list, PlacesOf(f, Bs, x))
      BY <1>1, <1>2, <1>4, <2>4, <2>5
    <2>7. by \in [Said(f, Bs) -> Seq(Addresses)] /\ Said(f, Bs) \in SUBSET Keys
      BY <1>1, <1>4, <2>5, <2>6
    <2> HIDE DEF c, k, by
    <2>8. c = [loaders |-> b.loaders, keys |-> b.keys, byKey |-> by]
      BY <2>1, <2>2
    <2>9. c \in Indexes
      BY <1>4, <2>7, <2>8 DEF Indexes
    <2> QED BY <1>1, <1>3, <2>5, <2>6, <2>8, <2>9 DEF Built
  <1>9. CASE k # EmptyKey /\ k \notin DOMAIN b.byKey
    <2> DEFINE by == [x \in DOMAIN b.byKey \cup {k} |-> IF x = k THEN <<a>> ELSE b.byKey[x]]
               keys == Append(b.keys, k)
    <2>1. c = [loaders |-> b.loaders, keys |-> keys, byKey |-> by]
      BY <1>5, <1>9 DEF EnterKey
    <2>2. keys \in Seq(Keys) /\ ToSet(keys) = Said(f, As) \cup {k}
      BY <1>1, <1>4, ToSetAppend
    <2>3. Said(f, Bs) = Said(f, As) \cup {k} /\ DOMAIN by = Said(f, Bs)
      BY <1>1, <1>2, <1>9
    <2>4. KeysInOrder(keys, f, Bs)
      BY <1>1, <1>4, <1>9, KeysAppendInOrder DEF Bs
    <2>5. PlacesOf(f, As, k) = {}
      BY <1>1, <1>9 DEF PlacesOf, At, Said
    <2>6. <<a>> \in Seq(Addresses) /\ InOrder(<<a>>, list, {p[1]})
      <3>1. <<a>> \in Seq(Addresses) /\ DOMAIN <<a>> = {1} /\ <<a>>[1] = a
        OBVIOUS
      <3>2. ToSet(<<a>>) = {a}
        BY <3>1 DEF ToSet
      <3>3. \A i, j \in {1} : ~(i < j)
        OBVIOUS
      <3> QED BY <3>1, <3>2, <3>3 DEF InOrder
    <2>7. \A x \in Said(f, Bs) : by[x] \in Seq(Addresses) /\ InOrder(by[x], list, PlacesOf(f, Bs, x))
      <3> SUFFICES ASSUME NEW x \in Said(f, Bs)
                   PROVE  by[x] \in Seq(Addresses) /\ InOrder(by[x], list, PlacesOf(f, Bs, x))
        OBVIOUS
      <3>1. CASE x = k
        <4>1. by[x] = <<a>> /\ PlacesOf(f, Bs, x) = {p[1]}
          BY <1>2, <2>5, <3>1
        <4> QED BY <2>6, <4>1
      <3>2. CASE x # k
        <4>1. x \in Said(f, As) /\ by[x] = b.byKey[x] /\ PlacesOf(f, Bs, x) = PlacesOf(f, As, x)
          BY <1>1, <1>2, <2>3, <3>2
        <4> QED BY <1>1, <1>4, <4>1
      <3> QED BY <3>1, <3>2
    <2>8. by \in [Said(f, Bs) -> Seq(Addresses)] /\ Said(f, Bs) \in SUBSET Keys
      BY <1>1, <1>4, <2>3, <2>7
    <2> HIDE DEF c, k, by, keys
    <2>9. c \in Indexes
      BY <1>4, <2>1, <2>2, <2>8 DEF Indexes
    <2> QED BY <1>1, <2>1, <2>2, <2>3, <2>4, <2>7, <2>9 DEF Built
  <1> QED BY <1>7, <1>8, <1>9

-----------------------------------------------------------------------------
(* One loader.                                                               *)

LEMMA EnterKeyTyped ==
    ASSUME NEW b \in Indexes, NEW a \in Addresses, NEW k \in Keys
    PROVE  EnterKey(b, a, k) \in Indexes
  <1>1. /\ b.loaders \in Seq(Addresses) /\ b.keys \in Seq(Keys)
        /\ DOMAIN b.byKey \subseteq Keys
        /\ b.byKey = [x \in DOMAIN b.byKey |-> b.byKey[x]]
        /\ \A x \in DOMAIN b.byKey : b.byKey[x] \in Seq(Addresses)
    BY IndexParts
  <1>2. b = [loaders |-> b.loaders, keys |-> b.keys, byKey |-> b.byKey]
    BY DEF Indexes
  <1>3. CASE k # EmptyKey /\ k \in DOMAIN b.byKey
    <2> DEFINE places == AddToKey(b.byKey[k], a)
               by == [b.byKey EXCEPT ![k] = places]
    <2>1. places \in Seq(Addresses)
      BY <1>1, <1>3, AppendProperties DEF AddToKey
    <2> HIDE DEF places
    <2>2. by \in [DOMAIN b.byKey -> Seq(Addresses)]
      BY <1>1, <2>1
    <2>3. EnterKey(b, a, k) = [loaders |-> b.loaders, keys |-> b.keys, byKey |-> by]
      BY <1>2, <1>3 DEF EnterKey, places
    <2> HIDE DEF by
    <2> QED BY <1>1, <2>2, <2>3 DEF Indexes
  <1>4. CASE k # EmptyKey /\ k \notin DOMAIN b.byKey
    <2> DEFINE by == [x \in DOMAIN b.byKey \cup {k} |-> IF x = k THEN <<a>> ELSE b.byKey[x]]
               keys == Append(b.keys, k)
    <2>1. by \in [DOMAIN b.byKey \cup {k} -> Seq(Addresses)]
      BY <1>1
    <2>2. keys \in Seq(Keys)
      BY <1>1, AppendProperties
    <2>3. EnterKey(b, a, k) = [loaders |-> b.loaders, keys |-> keys, byKey |-> by]
      BY <1>2, <1>4 DEF EnterKey
    <2> HIDE DEF by, keys
    <2>4. DOMAIN b.byKey \cup {k} \in SUBSET Keys
      BY <1>1
    <2>5. by \in UNION {[K -> Seq(Addresses)] : K \in SUBSET Keys}
      BY <2>1, <2>4
    <2> QED BY <1>1, <2>2, <2>3, <2>5 DEF Indexes
  <1> QED BY <1>3, <1>4 DEF EnterKey

\* The index with a loader that has no keys yet.
WithLoader(b, a) == [b EXCEPT !.loaders = Append(@, a)]

LEMMA WithLoaderParts ==
    ASSUME NEW b \in Indexes, NEW a \in Addresses
    PROVE  /\ WithLoader(b, a) \in Indexes
           /\ WithLoader(b, a).loaders = Append(b.loaders, a)
           /\ WithLoader(b, a).keys = b.keys /\ WithLoader(b, a).byKey = b.byKey
  <1>1. b = [loaders |-> b.loaders, keys |-> b.keys, byKey |-> b.byKey]
    BY DEF Indexes
  <1>2. WithLoader(b, a) = [loaders |-> Append(b.loaders, a), keys |-> b.keys, byKey |-> b.byKey]
    BY <1>1 DEF WithLoader
  <1>3. Append(b.loaders, a) \in Seq(Addresses)
    BY AppendProperties DEF Indexes
  <1> QED BY <1>2, <1>3 DEF Indexes

\* The recursion of EnterLoader.
EnteredTo(e, b, a, keys) ==
    /\ e[0] = WithLoader(b, a)
    /\ \A m \in 1 .. Len(keys) : e[m] = EnterKey(e[m - 1], a, keys[m])

LEMMA EnterLoaderDefined ==
    ASSUME NEW b \in Indexes, NEW a \in Addresses, NEW keys \in Seq(Keys)
    PROVE  \E e : /\ EnteredTo(e, b, a, keys) /\ e \in [0 .. Len(keys) -> Indexes]
                  /\ EnterLoader(b, a, keys) = e[Len(keys)]
  <1>1. Len(keys) \in Nat /\ \A m \in 1 .. Len(keys) : keys[m] \in Keys
    BY ToSetOf
  <1> DEFINE N == Len(keys)
             V == Indexes
             v0 == WithLoader(b, a)
             step == [m \in 1 .. N |-> [v \in V |-> EnterKey(v, a, keys[m])]]
             Body(g) == [m \in 0 .. N |->
                            IF m = 0 THEN WithLoader(b, a) ELSE EnterKey(g[m - 1], a, keys[m])]
  <1>2. step \in [1 .. N -> [V -> V]]
    <2>1. \A m \in 1 .. N : \A v \in V : EnterKey(v, a, keys[m]) \in V
      BY <1>1, EnterKeyTyped
    <2> QED BY <2>1
  <1>3. v0 \in V
    BY WithLoaderParts
  <1>4. PICK e \in [0 .. N -> V] : e[0] = v0 /\ \A m \in 1 .. N : e[m] = step[m][e[m - 1]]
    <2>1. N \in Nat /\ v0 \in V /\ IsStep(step, N, V)
      BY <1>1, <1>2, <1>3 DEF IsStep
    <2> HIDE DEF N, step, V, v0
    <2>2. \E g : Iteration(g, N, V, v0, step)
      BY <2>1, Iterated
    <2> QED BY <2>2 DEF Iteration
  <1>5. \A m \in 1 .. N : e[m] = EnterKey(e[m - 1], a, keys[m])
    <2> SUFFICES ASSUME NEW m \in 1 .. N
                 PROVE  e[m] = EnterKey(e[m - 1], a, keys[m])
      OBVIOUS
    <2>1. m - 1 \in 0 .. N
      BY <1>1
    <2>2. e[m - 1] \in V
      BY <1>4, <2>1
    <2> QED BY <1>4, <2>2
  <1>6. e = Body(e)
    <2>1. e = [m \in 0 .. N |-> e[m]]
      BY <1>4
    <2>2. \A m \in 0 .. N : e[m] = IF m = 0 THEN WithLoader(b, a) ELSE EnterKey(e[m - 1], a, keys[m])
      BY <1>1, <1>4, <1>5
    <2> HIDE DEF N
    <2> QED BY <2>1, <2>2
  <1> DEFINE h == CHOOSE g : g = Body(g)
  <1>7. h = Body(h)
    BY <1>6
  <1>8. EnterLoader(b, a, keys) = h[Len(keys)]
    BY DEF EnterLoader, WithLoader
  <1> HIDE DEF h
  <1>9. h[0] = WithLoader(b, a) /\ \A m \in 1 .. N : h[m] = EnterKey(h[m - 1], a, keys[m])
    BY <1>1, <1>7
  <1>10. h \in [0 .. Len(keys) -> Indexes]
    <2> DEFINE P == {m \in 0 .. N : h[m] \in Indexes}
    <2>1. 0 \in P
      BY <1>1, <1>3, <1>9
    <2>2. \A m \in 1 .. N : m - 1 \in P => m \in P
      BY <1>1, <1>9, EnterKeyTyped
    <2> HIDE DEF P
    <2>3. \A m \in 0 .. N : m \in P
      BY <1>1, <2>1, <2>2, Stepwise
    <2>4. \A m \in 0 .. N : h[m] \in Indexes
      BY <2>3 DEF P
    <2>5. h = [m \in 0 .. N |-> h[m]]
      BY <1>7
    <2> QED BY <2>4, <2>5
  <1> QED BY <1>8, <1>9, <1>10 DEF EnteredTo

LEMMA EnterLoaderTyped ==
    ASSUME NEW b \in Indexes, NEW a \in Addresses, NEW keys \in Seq(Keys)
    PROVE  EnterLoader(b, a, keys) \in Indexes
  <1>1. PICK e : e \in [0 .. Len(keys) -> Indexes] /\ EnterLoader(b, a, keys) = e[Len(keys)]
    BY EnterLoaderDefined
  <1>2. Len(keys) \in 0 .. Len(keys)
    BY ToSetOf
  <1> QED BY <1>1, <1>2

\* The places of the n-th loader's keys.
PlacesAt(n, keys) == {<<n, i>> : i \in DOMAIN keys}

\* A loader with all its keys.
LEMMA LoaderEntered ==
    ASSUME NEW b, NEW list, NEW f, NEW Ls, NEW As, Built(b, list, f, Ls, As),
           NEW n \in Nat, list[n] \in Addresses, \A m \in Ls : m < n,
           \A q \in As : q[1] \in Nat /\ q[1] < n,
           NEW keys \in Seq(Keys), \A i \in DOMAIN keys : f[<<n, i>>] = keys[i]
    PROVE  Built(EnterLoader(b, list[n], keys), list, f, Ls \cup {n}, As \cup PlacesAt(n, keys))
  <1> DEFINE a == list[n]
             Ms == Ls \cup {n}
             Upto(m) == As \cup {<<n, i>> : i \in 1 .. m}
  <1>1. Len(keys) \in Nat /\ DOMAIN keys = 1 .. Len(keys) /\ \A m \in 1 .. Len(keys) : keys[m] \in Keys
    BY ToSetOf
  <1>2. b \in Indexes
    BY DEF Built
  <1>3. PICK e : /\ EnteredTo(e, b, a, keys)
                 /\ EnterLoader(b, a, keys) = e[Len(keys)]
    BY <1>2, EnterLoaderDefined
  <1> DEFINE P == {m \in 0 .. Len(keys) : Built(e[m], list, f, Ms, Upto(m))}
  <1>4. 0 \in P
    <2>1. Upto(0) = As
      OBVIOUS
    <2>2. e[0] = WithLoader(b, a)
      BY <1>3 DEF EnteredTo
    <2>3. /\ WithLoader(b, a) \in Indexes
          /\ WithLoader(b, a).loaders = Append(b.loaders, a)
          /\ WithLoader(b, a).keys = b.keys /\ WithLoader(b, a).byKey = b.byKey
      BY <1>2, WithLoaderParts
    <2>4. InOrder(Append(b.loaders, a), list, Ms)
      BY <1>2, IndexParts, InOrderAppend DEF Built
    <2> HIDE DEF Ms, Upto
    <2>5. Built(e[0], list, f, Ms, As)
      BY <2>2, <2>3, <2>4 DEF Built
    <2> QED BY <1>1, <2>1, <2>5
  <1>5. ASSUME NEW m \in 1 .. Len(keys), m - 1 \in P
        PROVE  m \in P
    <2> DEFINE p == <<n, m>>
               c == e[m - 1]
               Bs == Upto(m - 1)
    <2>1. Built(c, list, f, Ms, Bs)
      BY <1>5
    <2>2. p[1] = n /\ p[2] = m /\ p[1] \in Nat /\ list[p[1]] = a /\ f[p] = keys[m] /\ f[p] \in Keys
      BY <1>1
    <2>3. \A q \in Bs : q[1] \in Nat /\ Earlier(q, p)
      <3>1. \A i \in 1 .. m - 1 : i < m
        BY <1>1
      <3> QED BY <1>1, <3>1 DEF Earlier
    <2>4. Upto(m) = Bs \cup {p}
      <3>1. 1 .. m = (1 .. m - 1) \cup {m}
        BY <1>1
      <3> QED BY <3>1
    <2>5. e[m] = EnterKey(c, a, keys[m])
      BY <1>3 DEF EnteredTo
    <2> HIDE DEF p, c, Bs, Upto, Ms
    <2>6. Built(EnterKey(c, list[p[1]], f[p]), list, f, Ms, Bs \cup {p})
      BY <2>1, <2>2, <2>3, KeyEntered
    <2>7. Built(e[m], list, f, Ms, Upto(m))
      BY <2>2, <2>4, <2>5, <2>6
    <2> QED BY <1>1, <2>7
  <1> HIDE DEF P
  <1>6. \A m \in 0 .. Len(keys) : m \in P
    BY <1>1, <1>4, <1>5, Stepwise
  <1>7. Len(keys) \in 0 .. Len(keys)
    BY <1>1
  <1>8. Built(e[Len(keys)], list, f, Ms, Upto(Len(keys)))
    BY <1>6, <1>7 DEF P
  <1> QED BY <1>1, <1>3, <1>8 DEF PlacesAt

-----------------------------------------------------------------------------
(* All loaders.                                                              *)

\* A list whose loaders have keys, and the catalog's IID or none.
Listable(list, heap) ==
    \A n \in 1 .. Len(list) :
        KeysOf(heap[list[n]]) \in Seq(Keys) /\ heap[list[n]].iid \in {CatalogIid, NoIid}

Table(list, heap) == [p \in Adverts(list, heap) |-> KeyAt(list, heap, p)]

UsableTo(list, heap, n) == {m \in Usable(list, heap) : m <= n}

AdvertsTo(list, heap, n) == {p \in Adverts(list, heap) : p[1] <= n}

\* The places of adverts are pairs of numbers.
LEMMA AdvertPairs ==
    ASSUME NEW list \in Seq(Addresses), NEW heap, Listable(list, heap)
    PROVE  /\ Usable(list, heap) \subseteq 1 .. Len(list)
           /\ \A p \in Adverts(list, heap) : p[1] \in Usable(list, heap) /\ p[1] \in Nat
  <1>1. DOMAIN list = 1 .. Len(list) /\ Len(list) \in Nat
    BY LenProperties
  <1> QED BY <1>1 DEF Usable, Adverts

\* What the n-th loader adds.
LEMMA NextLoader ==
    ASSUME NEW list \in Seq(Addresses), NEW heap, Listable(list, heap), NEW n \in 1 .. Len(list)
    PROVE  IF heap[list[n]].iid # CatalogIid
           THEN /\ UsableTo(list, heap, n) = UsableTo(list, heap, n - 1)
                /\ AdvertsTo(list, heap, n) = AdvertsTo(list, heap, n - 1)
           ELSE /\ UsableTo(list, heap, n) = UsableTo(list, heap, n - 1) \cup {n}
                /\ AdvertsTo(list, heap, n) =
                       AdvertsTo(list, heap, n - 1)
                           \cup PlacesAt(n, KeysOf(heap[list[n]]))
  <1> DEFINE U == Usable(list, heap)
             A == Adverts(list, heap)
             mine == {<<n, i>> : i \in DOMAIN KeysOf(heap[list[n]])}
  <1>1. DOMAIN list = 1 .. Len(list) /\ Len(list) \in Nat /\ n \in Nat
    BY LenProperties
  <1>2. U \subseteq 1 .. Len(list) /\ \A p \in A : p[1] \in U /\ p[1] \in Nat
    BY AdvertPairs
  <1>3. n \in U <=> heap[list[n]].iid = CatalogIid
    BY <1>1, KeyAssumption, FileAssumption DEF Usable, Listable
  <1>4. \A p \in A : p[1] = n <=> p \in mine /\ n \in U
    BY DEF Adverts
  <1>5. n \in U => mine \subseteq A
    BY DEF Adverts
  <1>6. \A p \in mine : p[1] = n
    OBVIOUS
  <1> HIDE DEF U, A, mine
  <1>7. \A m \in U : m <= n <=> m <= n - 1 \/ m = n
    BY <1>1, <1>2
  <1>8. \A p \in A : p[1] <= n <=> p[1] <= n - 1 \/ p[1] = n
    BY <1>1, <1>2
  <1>9. /\ UsableTo(list, heap, n) = {m \in U : m <= n}
        /\ UsableTo(list, heap, n - 1) = {m \in U : m <= n - 1}
        /\ AdvertsTo(list, heap, n) = {p \in A : p[1] <= n}
        /\ AdvertsTo(list, heap, n - 1) = {p \in A : p[1] <= n - 1}
    BY DEF UsableTo, AdvertsTo, U, A
  <1>10. CASE n \notin U
    <2>1. UsableTo(list, heap, n) = UsableTo(list, heap, n - 1)
      BY <1>7, <1>9, <1>10
    <2>2. AdvertsTo(list, heap, n) = AdvertsTo(list, heap, n - 1)
      BY <1>4, <1>8, <1>9, <1>10
    <2> QED BY <1>3, <1>10, <2>1, <2>2
  <1>11. CASE n \in U
    <2>1. UsableTo(list, heap, n) = UsableTo(list, heap, n - 1) \cup {n}
      BY <1>7, <1>9, <1>11
    <2>2. AdvertsTo(list, heap, n) = AdvertsTo(list, heap, n - 1) \cup mine
      BY <1>4, <1>5, <1>6, <1>8, <1>9, <1>11
    <2> QED BY <1>3, <1>11, <2>1, <2>2 DEF mine, PlacesAt
  <1> QED BY <1>10, <1>11

LEMMA EmptyBuilt ==
    ASSUME NEW list, NEW f
    PROVE  EmptyIndex \in Indexes /\ Built(EmptyIndex, list, f, {}, {})
  <1>1. /\ EmptyIndex.loaders = <<>> /\ EmptyIndex.keys = <<>>
        /\ EmptyIndex.byKey = [k \in {} |-> <<>>]
    BY DEF EmptyIndex
  <1>2. [k \in {} |-> <<>>] \in [{} -> Seq(Addresses)] /\ DOMAIN [k \in {} |-> <<>>] = {}
    OBVIOUS
  <1>3. <<>> \in Seq(Addresses) /\ <<>> \in Seq(Keys) /\ DOMAIN <<>> = {} /\ ToSet(<<>>) = {}
    BY DEF ToSet
  <1>4. EmptyIndex \in Indexes
    <2> DEFINE none == [k \in {} |-> <<>>]
    <2>1. none \in UNION {[K -> Seq(Addresses)] : K \in SUBSET Keys}
      BY <1>2
    <2> HIDE DEF none
    <2>2. EmptyIndex = [loaders |-> <<>>, keys |-> <<>>, byKey |-> none]
      BY DEF EmptyIndex, none
    <2> QED BY <1>3, <2>1, <2>2 DEF Indexes
  <1>5. Said(f, {}) = {}
    BY DEF Said
  <1> QED BY <1>1, <1>2, <1>3, <1>4, <1>5 DEF Built, InOrder, KeysInOrder

\* The recursion of Rebuild.
Turn(b, list, heap, n) ==
    IF heap[list[n]].iid # CatalogIid THEN b
    ELSE EnterLoader(b, list[n], KeysOf(heap[list[n]]))

RebuiltTo(e, list, heap) ==
    /\ e[0] = EmptyIndex
    /\ \A n \in 1 .. Len(list) : e[n] = Turn(e[n - 1], list, heap, n)

LEMMA TurnTyped ==
    ASSUME NEW list \in Seq(Addresses), NEW heap, Listable(list, heap),
           NEW n \in 1 .. Len(list), NEW b \in Indexes
    PROVE  Turn(b, list, heap, n) \in Indexes
  <1>1. list[n] \in Addresses /\ KeysOf(heap[list[n]]) \in Seq(Keys)
    BY ToSetOf DEF Listable
  <1>2. EnterLoader(b, list[n], KeysOf(heap[list[n]])) \in Indexes
    BY <1>1, EnterLoaderTyped
  <1> QED BY <1>2 DEF Turn

LEMMA RebuildDefined ==
    ASSUME NEW list \in Seq(Addresses), NEW heap, Listable(list, heap)
    PROVE  \E e : RebuiltTo(e, list, heap) /\ Rebuild(list, heap) = e[Len(list)]
  <1>1. Len(list) \in Nat
    BY ToSetOf
  <1> DEFINE N == Len(list)
             V == Indexes
             v0 == EmptyIndex
             step == [n \in 1 .. N |-> [v \in V |-> Turn(v, list, heap, n)]]
             Body(g) == [n \in 0 .. N |->
                            IF n = 0 THEN EmptyIndex
                            ELSE IF heap[list[n]].iid # CatalogIid THEN g[n - 1]
                            ELSE EnterLoader(g[n - 1], list[n], KeysOf(heap[list[n]]))]
  <1>2. step \in [1 .. N -> [V -> V]]
    <2>1. \A n \in 1 .. N : \A v \in V : Turn(v, list, heap, n) \in V
      BY TurnTyped
    <2> QED BY <2>1
  <1>3. v0 \in V
    BY EmptyBuilt
  <1>4. PICK e \in [0 .. N -> V] : e[0] = v0 /\ \A n \in 1 .. N : e[n] = step[n][e[n - 1]]
    <2>1. N \in Nat /\ v0 \in V /\ IsStep(step, N, V)
      BY <1>1, <1>2, <1>3 DEF IsStep
    <2> HIDE DEF N, step, V, v0
    <2>2. \E g : Iteration(g, N, V, v0, step)
      BY <2>1, Iterated
    <2> QED BY <2>2 DEF Iteration
  <1>5. \A n \in 1 .. N : e[n] = Turn(e[n - 1], list, heap, n)
    <2> SUFFICES ASSUME NEW n \in 1 .. N
                 PROVE  e[n] = Turn(e[n - 1], list, heap, n)
      OBVIOUS
    <2>1. n - 1 \in 0 .. N
      BY <1>1
    <2>2. e[n - 1] \in V
      BY <1>4, <2>1
    <2> QED BY <1>4, <2>2
  <1>6. e = Body(e)
    <2>1. e = [n \in 0 .. N |-> e[n]]
      BY <1>4
    <2>2. \A n \in 0 .. N :
              e[n] = IF n = 0 THEN EmptyIndex
                     ELSE IF heap[list[n]].iid # CatalogIid THEN e[n - 1]
                     ELSE EnterLoader(e[n - 1], list[n], KeysOf(heap[list[n]]))
      BY <1>1, <1>4, <1>5 DEF Turn
    <2> HIDE DEF N
    <2> QED BY <2>1, <2>2
  <1> DEFINE h == CHOOSE g : g = Body(g)
  <1>7. h = Body(h)
    BY <1>6
  <1>8. Rebuild(list, heap) = h[Len(list)]
    BY DEF Rebuild
  <1> HIDE DEF h
  <1>9. h[0] = EmptyIndex /\ \A n \in 1 .. N : h[n] = Turn(h[n - 1], list, heap, n)
    BY <1>1, <1>7 DEF Turn
  <1> QED BY <1>8, <1>9 DEF RebuiltTo

\* What was built of all adverts describes the list.
LEMMA BuiltDescribes ==
    ASSUME NEW list, NEW heap, NEW x,
           Built(x, list, Table(list, heap), Usable(list, heap), Adverts(list, heap))
    PROVE  Describes(x, list, heap)
  <1> DEFINE f == Table(list, heap)
             As == Adverts(list, heap)
             said == {KeyAt(list, heap, p) : p \in As} \ {EmptyKey}
             Of(k) == {p \in As : KeyAt(list, heap, p) = k}
  <1>1. \A p \in As : f[p] = KeyAt(list, heap, p)
    BY DEF Table
  <1>2. Said(f, As) = said
    BY <1>1 DEF Said
  <1>3. \A k : At(f, As, k) = Of(k)
    BY <1>1 DEF At
  <1>4. \A k : PlacesOf(f, As, k) = {p[1] : p \in Of(k)}
    BY <1>3 DEF PlacesOf
  <1> HIDE DEF f
  <1>5. /\ InOrder(x.loaders, list, Usable(list, heap))
        /\ ToSet(x.keys) = said /\ DOMAIN x.byKey = said
        /\ \A k \in said : InOrder(x.byKey[k], list, {p[1] : p \in Of(k)})
    BY <1>2, <1>4 DEF Built, f
  <1>6. \A i, j \in DOMAIN x.keys : i < j =>
            \E p \in Of(x.keys[i]) : \A q \in Of(x.keys[j]) : Earlier(p, q)
    <2>1. KeysInOrder(x.keys, f, As)
      BY DEF Built, f
    <2> HIDE DEF As, Of
    <2> QED BY <1>3, <2>1 DEF KeysInOrder
  <1> QED BY <1>5, <1>6, Zenon DEF Describes

\* The loops make of any list the index that describes it.
LEMMA RebuildDescribes ==
    ASSUME NEW list \in Seq(Addresses), NEW heap, Listable(list, heap)
    PROVE  Describes(Rebuild(list, heap), list, heap)
  <1> DEFINE f == Table(list, heap)
             Us(n) == UsableTo(list, heap, n)
             As(n) == AdvertsTo(list, heap, n)
  <1>1. /\ Len(list) \in Nat /\ DOMAIN list = 1 .. Len(list)
        /\ \A n \in 1 .. Len(list) : list[n] \in Addresses
    BY ToSetOf
  <1>2. /\ Usable(list, heap) \subseteq 1 .. Len(list)
        /\ \A p \in Adverts(list, heap) : p[1] \in Usable(list, heap) /\ p[1] \in Nat
    BY AdvertPairs
  <1>3. PICK e : RebuiltTo(e, list, heap) /\ Rebuild(list, heap) = e[Len(list)]
    BY RebuildDefined
  <1> DEFINE P == {n \in 0 .. Len(list) : Built(e[n], list, f, Us(n), As(n))}
  <1>4. 0 \in P
    <2>1. Us(0) = {} /\ As(0) = {}
      BY <1>1, <1>2 DEF UsableTo, AdvertsTo
    <2>2. e[0] = EmptyIndex
      BY <1>3 DEF RebuiltTo
    <2> HIDE DEF f, Us, As
    <2>3. Built(e[0], list, f, Us(0), As(0))
      BY <2>1, <2>2, EmptyBuilt
    <2> QED BY <1>1, <2>3
  <1>5. ASSUME NEW n \in 1 .. Len(list), n - 1 \in P
        PROVE  n \in P
    <2> DEFINE keys == KeysOf(heap[list[n]])
               c == e[n - 1]
    <2>1. Built(c, list, f, Us(n - 1), As(n - 1)) /\ n \in Nat /\ list[n] \in Addresses
      BY <1>1, <1>5
    <2>2. e[n] = Turn(c, list, heap, n)
      BY <1>3 DEF RebuiltTo
    <2>3. CASE heap[list[n]].iid # CatalogIid
      <3>1. Us(n) = Us(n - 1) /\ As(n) = As(n - 1)
        BY <2>3, NextLoader
      <3>2. e[n] = c
        BY <2>2, <2>3 DEF Turn
      <3> HIDE DEF c, f, Us, As
      <3>3. Built(e[n], list, f, Us(n), As(n))
        BY <2>1, <3>1, <3>2
      <3> QED BY <1>1, <3>3
    <2>4. CASE heap[list[n]].iid = CatalogIid
      <3>1. Us(n) = Us(n - 1) \cup {n} /\ As(n) = As(n - 1) \cup PlacesAt(n, keys)
        BY <2>4, NextLoader
      <3>2. e[n] = EnterLoader(c, list[n], keys)
        BY <2>2, <2>4 DEF Turn
      <3>3. keys \in Seq(Keys)
        BY DEF Listable
      <3>4. \A i \in DOMAIN keys : f[<<n, i>>] = keys[i]
        <4>1. \A i \in DOMAIN keys : <<n, i>> \in Adverts(list, heap)
          BY <1>1, <2>4, KeyAssumption, FileAssumption DEF Adverts, Usable
        <4>2. \A i \in DOMAIN keys : KeyAt(list, heap, <<n, i>>) = keys[i]
          BY DEF KeyAt
        <4> HIDE DEF keys
        <4> QED BY <4>1, <4>2 DEF Table
      <3>5. \A m \in Us(n - 1) : m < n
        BY <1>1, <1>2 DEF UsableTo
      <3>6. \A q \in As(n - 1) : q[1] \in Nat /\ q[1] < n
        BY <1>1, <1>2 DEF AdvertsTo
      <3> DEFINE Ls == Us(n - 1)
                 Bs == As(n - 1)
      <3>7. /\ Built(c, list, f, Ls, Bs)
            /\ \A m \in Ls : m < n
            /\ \A q \in Bs : q[1] \in Nat /\ q[1] < n
        BY <2>1, <3>5, <3>6
      <3> HIDE DEF c, f, keys, Ls, Bs
      <3>8. Built(EnterLoader(c, list[n], keys), list, f, Ls \cup {n}, Bs \cup PlacesAt(n, keys))
        BY <2>1, <3>3, <3>4, <3>7, LoaderEntered
      <3>9. Built(e[n], list, f, Us(n), As(n))
        BY <3>1, <3>2, <3>8 DEF Ls, Bs
      <3> QED BY <1>1, <3>9
    <2> QED BY <2>3, <2>4
  <1> HIDE DEF P
  <1>6. \A n \in 0 .. Len(list) : n \in P
    BY <1>1, <1>4, <1>5, Stepwise
  <1>7. Len(list) \in 0 .. Len(list)
    BY <1>1
  <1>8. Built(e[Len(list)], list, f, Us(Len(list)), As(Len(list)))
    BY <1>6, <1>7 DEF P
  <1>9. Us(Len(list)) = Usable(list, heap) /\ As(Len(list)) = Adverts(list, heap)
    BY <1>1, <1>2 DEF UsableTo, AdvertsTo
  <1>10. Built(e[Len(list)], list, f, Usable(list, heap), Adverts(list, heap))
    BY <1>8, <1>9
  <1> HIDE DEF Us, As
  <1> QED BY <1>3, <1>10, BuiltDescribes

-----------------------------------------------------------------------------
(* Steps that leave the catalog's list alone.                                *)

LEMMA KeptAll ==
    ASSUME NEW X, NEW s \in Seq(X), NEW S, ToSet(s) \subseteq S
    PROVE  Kept(s, S) = s
  <1>1. PICK kept : KeptTo(kept, s, S) /\ Kept(s, S) = kept[Len(s)]
    BY KeptDefined
  <1>2. /\ Len(s) \in Nat /\ DOMAIN s = 1 .. Len(s)
        /\ \A i \in 1 .. Len(s) : s[i] \in X /\ s[i] \in S
    BY ToSetOf
  <1> DEFINE Good(n) == /\ kept[n] \in Seq(X) /\ Len(kept[n]) = n
                        /\ \A i \in 1 .. n : kept[n][i] = s[i]
             P == {n \in 0 .. Len(s) : Good(n)}
  <1>3. 0 \in P
    <2>1. kept[0] = <<>>
      BY <1>1 DEF KeptTo
    <2>2. <<>> \in Seq(X) /\ Len(<<>>) = 0 /\ \A i \in 1 .. 0 : FALSE
      OBVIOUS
    <2>3. kept[0] \in Seq(X) /\ Len(kept[0]) = 0
      BY <2>1, <2>2
    <2>4. Good(0) /\ 0 \in 0 .. Len(s)
      BY <1>2, <2>2, <2>3
    <2> QED BY <2>4
  <1>4. ASSUME NEW n \in 1 .. Len(s), n - 1 \in P
        PROVE  n \in P
    <2> DEFINE t == kept[n - 1]
    <2>1. t \in Seq(X) /\ Len(t) = n - 1 /\ \A i \in 1 .. n - 1 : t[i] = s[i]
      BY <1>4
    <2>2. kept[n] = Append(t, s[n])
      BY <1>1, <1>2 DEF KeptTo
    <2> HIDE DEF t
    <2>3. /\ kept[n] \in Seq(X) /\ Len(kept[n]) = n /\ kept[n][n] = s[n]
          /\ \A i \in 1 .. n - 1 : kept[n][i] = t[i]
      BY <1>2, <2>1, <2>2, AppendProperties
    <2>4. \A i \in 1 .. n : i \in 1 .. n - 1 \/ i = n
      BY <1>2
    <2>5. Good(n)
      BY <2>1, <2>3, <2>4
    <2> QED BY <1>2, <2>5
  <1> HIDE DEF P
  <1>5. \A n \in 0 .. Len(s) : n \in P
    BY <1>2, <1>3, <1>4, Stepwise
  <1>6. Good(Len(s))
    BY <1>2, <1>5 DEF P
  <1> DEFINE k == kept[Len(s)]
  <1>7. k \in Seq(X) /\ Len(k) = Len(s) /\ \A i \in 1 .. Len(s) : k[i] = s[i]
    BY <1>6
  <1> HIDE DEF k
  <1>8. k = s
    BY <1>2, <1>7, SeqEqual
  <1> QED BY <1>1, <1>8 DEF k

\* A step keeps the catalog's list, and of its loaders what an index is made of.
ListKept ==
    /\ loaders'[CatalogIid] = loaders[CatalogIid]
    /\ \A a \in ToSet(loaders[CatalogIid]) :
           /\ loader'[a].origin = loader[a].origin
           /\ loader'[a].file = loader[a].file
           /\ loader'[a].iid = loader[a].iid

LEMMA SameDescription ==
    ASSUME NEW list \in Seq(Addresses), NEW heap, NEW heap2,
           \A a \in ToSet(list) : /\ heap2[a].origin = heap[a].origin
                                  /\ heap2[a].file = heap[a].file
                                  /\ heap2[a].iid = heap[a].iid,
           NEW x, Describes(x, list, heap)
    PROVE  Describes(x, list, heap2)
  <1>1. \A n \in DOMAIN list : list[n] \in ToSet(list)
    BY DEF ToSet
  <1>2. Usable(list, heap2) = Usable(list, heap)
    BY <1>1 DEF Usable
  <1>3. \A n \in DOMAIN list : KeysOf(heap2[list[n]]) = KeysOf(heap[list[n]])
    BY <1>1 DEF KeysOf
  <1>4. Adverts(list, heap2) = Adverts(list, heap)
    <2>1. \A n \in Usable(list, heap) : KeysOf(heap2[list[n]]) = KeysOf(heap[list[n]])
      BY <1>3 DEF Usable
    <2> QED BY <1>2, <2>1 DEF Adverts
  <1>5. \A p \in Adverts(list, heap) : KeyAt(list, heap2, p) = KeyAt(list, heap, p)
    <2>1. \A p \in Adverts(list, heap) : p[1] \in DOMAIN list
      BY DEF Adverts, Usable
    <2> QED BY <1>3, <2>1 DEF KeyAt
  <1> DEFINE Us == Usable(list, heap)
             As == Adverts(list, heap)
             At1(k) == {p \in As : KeyAt(list, heap, p) = k}
             At2(k) == {p \in As : KeyAt(list, heap2, p) = k}
             Said1 == {KeyAt(list, heap, p) : p \in As} \ {EmptyKey}
             Said2 == {KeyAt(list, heap2, p) : p \in As} \ {EmptyKey}
  <1>6. Said2 = Said1 /\ \A k : At2(k) = At1(k)
    BY <1>5
  <1>7. /\ InOrder(x.loaders, list, Us) /\ ToSet(x.keys) = Said1 /\ DOMAIN x.byKey = Said1
        /\ \A i, j \in DOMAIN x.keys : i < j =>
               \E p \in At1(x.keys[i]) : \A q \in At1(x.keys[j]) : Earlier(p, q)
        /\ \A k \in Said1 : InOrder(x.byKey[k], list, {p[1] : p \in At1(k)})
    BY Zenon DEF Describes
  <1> HIDE DEF At1, At2, Said1, Said2
  <1>8. /\ InOrder(x.loaders, list, Us) /\ ToSet(x.keys) = Said2 /\ DOMAIN x.byKey = Said2
        /\ \A i, j \in DOMAIN x.keys : i < j =>
               \E p \in At2(x.keys[i]) : \A q \in At2(x.keys[j]) : Earlier(p, q)
        /\ \A k \in Said2 : InOrder(x.byKey[k], list, {p[1] : p \in At2(k)})
    BY <1>6, <1>7
  <1> QED BY <1>2, <1>4, <1>8, Zenon DEF Describes, At2, Said2

LEMMA ScanKeepsList ==
    ASSUME Tracking, NEW iid \in Iids, ScanIfNeeded(iid), iid # CatalogIid \/ loaders' = loaders
    PROVE  ListKept
  <1>1. ToSet(loaders[CatalogIid]) \subseteq Live
    BY KeyAssumption DEF Tracking, Heap
  <1>2. CASE NeedsScan(iid)
    <2>1. PICK fault \in Faults : \E places \in Places(Len(NewFiles(iid, fault))) :
              Allocate(iid, "FileSystem", NewFiles(iid, fault), places)
      BY <1>2 DEF ScanIfNeeded, Scan
    <2> DEFINE new == NewFiles(iid, fault)
               n == Len(new)
    <2>2. PICK places \in Places(n) : Allocate(iid, "FileSystem", new, places)
      BY <2>1
    <2>3. n \in Nat
      <3>1. Candidates(iid, fault) \in Seq(Files)
        BY CandidatesElements DEF Tracking, Heap
      <3>2. new \in Seq(Files)
        BY <3>1, NewFilesElements
      <3> QED BY <3>2, LenProperties
    <2> HIDE DEF new, n
    <2>4. /\ \A a \in Live : loader'[a] = loader[a]
          /\ \A jid \in Iids : jid # iid => loaders'[jid] = loaders[jid]
      BY <2>2, <2>3, Allocated
    <2> QED BY <1>1, <2>4, KeyAssumption DEF ListKept
  <1>3. CASE ~NeedsScan(iid)
    BY <1>3 DEF ScanIfNeeded, ListKept
  <1> QED BY <1>2, <1>3

\* New paths of another IID discard none of the catalog's loaders.
LEMMA PathsKeepList ==
    ASSUME Tracking, Flags, NEW iid \in Iids, NEW paths, SetPluginPaths(iid, paths),
           ~dirty'[CatalogIid]
    PROVE  ~dirty[CatalogIid] /\ ListKept
  <1> DEFINE gone == Discarded(iid)
             list == loaders[CatalogIid]
             changed == gone # {}
  <1>1. /\ loaders' = [loaders EXCEPT ![iid] = Without(iid, gone)]
        /\ loader' = [a \in Live \ gone |-> loader[a]]
        /\ dirty' = Notified(iid, changed)
    BY DEF SetPluginPaths
  <1>2. /\ loaders \in [Iids -> Seq(Addresses)] /\ list \in Seq(Addresses)
        /\ ToSet(list) \subseteq Live /\ Live \subseteq Addresses
        /\ \A a \in ToSet(list) : AtHome(a, CatalogIid)
    BY KeyAssumption DEF Tracking, Heap, Homed
  <1>3. \A a \in gone : a \in ToSet(loaders[iid])
    BY DEF Discarded
  <1>4. dirty \in [Iids -> BOOLEAN] /\ changed \in BOOLEAN
    BY DEF Flags
  <1> HIDE DEF gone
  <1>5. ~dirty[CatalogIid] /\ (iid = CatalogIid => gone = {})
    <2>1. CASE iid = CatalogIid
      BY <1>1, <1>4, <2>1 DEF Notified
    <2>2. CASE iid # CatalogIid
      BY <1>1, <1>4, <2>2 DEF Notified
    <2> QED BY <2>1, <2>2
  <1>6. ToSet(list) \cap gone = {}
    BY <1>2, <1>3, <1>5 DEF AtHome
  <1>7. \A a \in ToSet(list) : loader'[a] = loader[a]
    BY <1>1, <1>2, <1>6
  <1>8. loaders'[CatalogIid] = list
    <2>1. CASE iid = CatalogIid
      <3>1. Without(iid, gone) = Kept(list, Addresses)
        <4>1. Addresses \ gone = Addresses
          BY <1>5, <2>1
        <4> QED BY <2>1, <4>1 DEF Without
      <3>2. Kept(list, Addresses) = list
        <4> DEFINE S == Addresses
        <4>1. ToSet(list) \subseteq S
          BY <1>2
        <4> HIDE DEF S
        <4>2. Kept(list, S) = list
          BY <1>2, <4>1, KeptAll
        <4> QED BY <4>2 DEF S
      <3> QED BY <1>1, <1>2, <2>1, <3>1, <3>2
    <2>2. CASE iid # CatalogIid
      BY <1>1, <1>2, <2>2, KeyAssumption
    <2> QED BY <2>1, <2>2
  <1> HIDE DEF list
  <1> QED BY <1>5, <1>7, <1>8 DEF ListKept, list

\* New plugins of another IID join another list.
LEMMA PluginsKeepList ==
    ASSUME Tracking, Flags, NEW iid \in Iids, NEW origin, NEW n \in Nat, AddPlugins(iid, origin, n),
           ~dirty'[CatalogIid]
    PROVE  ~dirty[CatalogIid] /\ ListKept
  <1> DEFINE files == [i \in 1 .. n |-> NoFile]
  <1>1. /\ \E places \in Places(n) : Allocate(iid, origin, files, places)
        /\ dirty' = Notified(iid, TRUE)
    BY DEF AddPlugins
  <1> HIDE DEF files
  <1>2. PICK places \in Places(n) : Allocate(iid, origin, files, places)
    BY <1>1
  <1>3. dirty \in [Iids -> BOOLEAN] /\ CatalogIid \in Iids
    BY KeyAssumption DEF Flags
  <1>4. iid # CatalogIid /\ ~dirty[CatalogIid]
    BY <1>1, <1>3 DEF Notified
  <1>5. /\ \A a \in Live : loader'[a] = loader[a]
        /\ \A jid \in Iids : jid # iid => loaders'[jid] = loaders[jid]
    BY <1>2, Allocated
  <1>6. ToSet(loaders[CatalogIid]) \subseteq Live
    BY <1>3 DEF Tracking, Heap
  <1> QED BY <1>3, <1>4, <1>5, <1>6 DEF ListKept

\* Loading and unloading leave the metadata alone.
LEMMA UseKeepsList ==
    ASSUME Tracking, Use
    PROVE  ListKept /\ dirty' = dirty
  <1>1. PICK a \in Live, b \in BOOLEAN : /\ loader' = [loader EXCEPT ![a].loaded = b]
                                         /\ loaders' = loaders /\ dirty' = dirty
    BY DEF Use, Load, Unload
  <1>2. \A c \in Live : loader[c] \in Loader
    BY DEF Tracking, Heap
  <1>3. \A c \in Live : /\ loader'[c].origin = loader[c].origin
                        /\ loader'[c].file = loader[c].file /\ loader'[c].iid = loader[c].iid
    BY <1>1, <1>2 DEF Live, Loader
  <1>4. ToSet(loaders[CatalogIid]) \subseteq Live
    BY KeyAssumption DEF Tracking, Heap
  <1> QED BY <1>1, <1>3, <1>4 DEF ListKept

\* A step of the factory that leaves the flag down keeps the list.
LEMMA QuietStep ==
    ASSUME Tracking, Flags, FactoryNext, ~dirty'[CatalogIid]
    PROVE  ~dirty[CatalogIid] /\ ListKept
  <1>1. dirty \in [Iids -> BOOLEAN] /\ CatalogIid \in Iids
    BY KeyAssumption DEF Flags
  <1>2. CASE Query
    <2>1. PICK t \in Threads : QueryExclusive(t) \/ \E iid \in Iids : QueryShared(t, iid)
      BY <1>2 DEF Query
    <2>2. CASE QueryExclusive(t)
      <3> DEFINE iid == query[t]
                 changed == loaders' # loaders
      <3>1. iid \in Iids /\ ScanIfNeeded(iid) /\ dirty' = Notified(iid, changed)
        BY <2>2 DEF QueryExclusive, Flags
      <3>2. changed \in BOOLEAN
        OBVIOUS
      <3> HIDE DEF iid, changed
      <3>3. ~dirty[CatalogIid] /\ (iid = CatalogIid => ~changed)
        <4>1. CASE iid = CatalogIid
          BY <1>1, <3>1, <3>2, <4>1 DEF Notified
        <4>2. CASE iid # CatalogIid
          BY <1>1, <3>1, <4>2 DEF Notified
        <4> QED BY <4>1, <4>2
      <3>4. iid # CatalogIid \/ loaders' = loaders
        BY <3>3 DEF changed
      <3> QED BY <3>1, <3>3, <3>4, ScanKeepsList
    <2>3. CASE \E iid \in Iids : QueryShared(t, iid)
      BY <2>3 DEF QueryShared, ListKept
    <2> QED BY <2>1, <2>2, <2>3
  <1>3. CASE Use
    BY <1>3, UseKeepsList
  <1>4. CASE Configure
    <2>1. PICK iid \in Iids :
              \/ \E paths \in PathSequences : SetPluginPaths(iid, paths)
              \/ \E directory \in Directories : AddPluginPath(iid, directory)
              \/ AddRuntimePlugin(iid) \/ AddStaticPlugins(iid)
      BY <1>4 DEF Configure
    <2>2. CASE \E paths \in PathSequences : SetPluginPaths(iid, paths)
      BY <2>2, PathsKeepList
    <2>3. CASE \E directory \in Directories : AddPluginPath(iid, directory)
      BY <2>3 DEF AddPluginPath, ListKept
    <2>4. CASE AddRuntimePlugin(iid) \/ AddStaticPlugins(iid)
      <3>1. StaticPlugins[iid] \in Nat /\ 1 \in Nat
        BY FactoryAssumption
      <3>2. AddPlugins(iid, "Runtime", 1) \/ AddPlugins(iid, "Static", StaticPlugins[iid])
        BY <2>4 DEF AddRuntimePlugin, AddStaticPlugins
      <3> QED BY <3>1, <3>2, PluginsKeepList
    <2> QED BY <2>1, <2>2, <2>3, <2>4
  <1> QED BY <1>2, <1>3, <1>4 DEF FactoryNext

-----------------------------------------------------------------------------
(* The invariant.                                                            *)

\* The index describes the loaders of "list" and "heap".
Current == Describes(index, loaders[CatalogIid], loader)

\* An index whose flag is down is current, and so is one that was just given.
Coherent ==
    /\ ~dirty[CatalogIid] => Current
    /\ answer # <<>> => answer = <<index>> /\ Current

CatalogInv == Tracking /\ Flags /\ Coherent

LEMMA CatalogInitInv == CatalogInit => CatalogInv
  <1> SUFFICES ASSUME CatalogInit PROVE CatalogInv
    OBVIOUS
  <1>1. Tracking /\ Flags
    BY FactoryInitTracking DEF CatalogInit
  <1>2. dirty[CatalogIid] /\ answer = <<>>
    BY KeyAssumption DEF CatalogInit, FactoryInit
  <1> QED BY <1>1, <1>2 DEF CatalogInv, Coherent

LEMMA KeptCurrent ==
    ASSUME Tracking, ListKept, Current, index' = index
    PROVE  Current'
  <1>1. loaders[CatalogIid] \in Seq(Addresses)
    BY KeyAssumption DEF Tracking, Heap
  <1>2. Describes(index, loaders[CatalogIid], loader')
    BY <1>1, SameDescription DEF ListKept, Current
  <1> QED BY <1>2 DEF Current, ListKept

LEMMA UseFactoryInv ==
    ASSUME CatalogInv, UseFactory
    PROVE  CatalogInv'
  <1>1. FactoryNext /\ answer' = <<>> /\ index' = index
    BY DEF UseFactory
  <1>2. Tracking' /\ Flags'
    BY <1>1, FactoryStep DEF CatalogInv
  <1>3. ~dirty'[CatalogIid] => Current'
    BY <1>1, QuietStep, KeptCurrent DEF CatalogInv, Coherent
  <1> QED BY <1>1, <1>2, <1>3 DEF CatalogInv, Coherent

LEMMA ReadSharedInv ==
    ASSUME CatalogInv, NEW t, ReadShared(t) \/ ReadWaits(t)
    PROVE  CatalogInv'
  <1>1. UNCHANGED factoryVars /\ index' = index
    BY DEF ReadShared, ReadWaits
  <1>2. Tracking' /\ Flags'
    BY <1>1, FactoryStep DEF CatalogInv
  <1>3. loaders' = loaders /\ loader' = loader /\ dirty' = dirty
    BY <1>1 DEF factoryVars
  <1>4. Current' <=> Current
    BY <1>1, <1>3 DEF Current
  <1>5. answer' = answer \/ (answer' = <<index>> /\ ~dirty[CatalogIid])
    BY DEF ReadShared, ReadWaits, IndexCurrent
  <1> QED BY <1>1, <1>2, <1>3, <1>4, <1>5 DEF CatalogInv, Coherent

\* The loaders of an extension point make a list that can be indexed.
ListIsListable ==
    loaders[CatalogIid] \in Seq(Addresses) /\ Listable(loaders[CatalogIid], loader)

LEMMA TrackedListable == Tracking => ListIsListable
  <1> SUFFICES ASSUME Tracking PROVE ListIsListable
    OBVIOUS
  <1>1. /\ loaders[CatalogIid] \in Seq(Addresses)
        /\ \A a \in ToSet(loaders[CatalogIid]) : AtHome(a, CatalogIid)
    BY KeyAssumption DEF Tracking, Heap, Homed
  <1>2. \A a \in ToSet(loaders[CatalogIid]) :
            KeysOf(loader[a]) \in Seq(Keys) /\ loader[a].iid \in {CatalogIid, NoIid}
    BY <1>1, KeyAssumption DEF AtHome, KeysOf
  <1> QED BY <1>1, <1>2, ToSetOf DEF Listable, ListIsListable

LEMMA ReadExclusiveInv ==
    ASSUME CatalogInv, NEW t, ReadExclusive(t)
    PROVE  CatalogInv'
  <1> DEFINE changed == loaders' # loaders
  <1>1. /\ ScanIfNeeded(CatalogIid) /\ CatalogIid \in Iids
        /\ index' = IF RebuildDue THEN Rebuild(loaders'[CatalogIid], loader') ELSE index
        /\ dirty' = [dirty EXCEPT ![CatalogIid] = FALSE] /\ query' = query
        /\ answer' = <<index'>>
    BY KeyAssumption DEF ReadExclusive
  <1>2. Tracking'
    BY <1>1, ScanIfNeededTracking DEF CatalogInv
  <1>3. Flags'
    BY <1>1 DEF CatalogInv, Flags
  <1>4. changed \in BOOLEAN /\ dirty \in [Iids -> BOOLEAN]
    BY DEF CatalogInv, Flags
  <1>5. RebuildDue <=> dirty[CatalogIid] \/ changed
    <2> HIDE DEF changed
    <2>1. Notified(CatalogIid, changed)[CatalogIid] = (dirty[CatalogIid] \/ changed)
      BY <1>1, <1>4 DEF Notified
    <2>2. RebuildDue = Notified(CatalogIid, changed)[CatalogIid]
      BY DEF RebuildDue, changed
    <2> QED BY <2>1, <2>2
  <1>6. Current'
    <2>1. CASE RebuildDue
      <3>1. index' = Rebuild(loaders'[CatalogIid], loader')
        BY <1>1, <2>1
      <3>2. ListIsListable'
        BY <1>2, TrackedListable, PTL
      <3>3. loaders'[CatalogIid] \in Seq(Addresses) /\ Listable(loaders'[CatalogIid], loader')
        BY <3>2 DEF ListIsListable
      <3>4. Describes(Rebuild(loaders'[CatalogIid], loader'), loaders'[CatalogIid], loader')
        BY <3>3, RebuildDescribes
      <3> QED BY <3>1, <3>4 DEF Current
    <2>2. CASE ~RebuildDue
      <3>1. ~dirty[CatalogIid] /\ loaders' = loaders /\ index' = index
        BY <1>1, <1>5, <2>2
      <3>2. ListKept
        BY <1>1, <3>1, ScanKeepsList DEF CatalogInv
      <3> QED BY <3>1, <3>2, KeptCurrent DEF CatalogInv, Coherent
    <2> QED BY <2>1, <2>2
  <1> QED BY <1>1, <1>2, <1>3, <1>6 DEF CatalogInv, Coherent

LEMMA CatalogNextInv == CatalogInv /\ [CatalogNext]_catalogVars => CatalogInv'
  <1> SUFFICES ASSUME CatalogInv, [CatalogNext]_catalogVars PROVE CatalogInv'
    OBVIOUS
  <1>1. CASE UNCHANGED catalogVars
    <2>1. UNCHANGED factoryVars /\ index' = index /\ answer' = answer
      BY <1>1 DEF catalogVars
    <2>2. Tracking' /\ Flags'
      BY <2>1, FactoryStep DEF CatalogInv
    <2>3. loaders' = loaders /\ loader' = loader /\ dirty' = dirty
      BY <2>1 DEF factoryVars
    <2> QED BY <2>1, <2>2, <2>3 DEF CatalogInv, Coherent, Current
  <1>2. CASE UseFactory
    BY <1>2, UseFactoryInv
  <1>3. CASE \E t \in Threads : AnswerQuery(t)
    BY <1>3, ReadSharedInv, ReadExclusiveInv DEF AnswerQuery
  <1> QED BY <1>1, <1>2, <1>3 DEF CatalogNext

\* Whatever threads query, configure, load and unload at the same time, a catalog
\* answers from an index that describes the loaders of that moment.
THEOREM AnswersAlwaysExact == CatalogSpec => []AnswersExact
  <1>1. CatalogInv => AnswersExact
    <2> SUFFICES ASSUME CatalogInv, NEW i \in DOMAIN answer
                 PROVE  Describes(answer[i], loaders[CatalogIid], loader)
      BY DEF AnswersExact
    <2>1. answer # <<>>
      OBVIOUS
    <2>2. answer = <<index>> /\ Current
      BY <2>1 DEF CatalogInv, Coherent
    <2>3. answer[i] = index
      BY <2>2
    <2> QED BY <2>2, <2>3 DEF Current
  <1> QED BY CatalogInitInv, CatalogNextInv, <1>1, PTL DEF CatalogSpec

=============================================================================
