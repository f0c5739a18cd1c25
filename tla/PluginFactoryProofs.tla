-------------------------- MODULE PluginFactoryProofs --------------------------
(* Proofs about PluginFactory, for any extension points, directories, files,   *)
(* faults and threads, and lemmas about the sequences it builds.               *)
EXTENDS PluginFactory, SequenceTheorems, NaturalsInduction, WellFoundedInduction, TLAPS

-----------------------------------------------------------------------------
(* Recursion over an interval.                                             *)

\* Every nonempty set of natural numbers has a least element.
LEMMA LeastNumber ==
    ASSUME NEW T, T \subseteq Nat, T # {}
    PROVE  \E x \in T : \A y \in T : ~(y < x)
  <1>1. IsWellFoundedOn(OpToRel(<,Nat), Nat)
    BY NatLessThanWellFounded
  <1>2. \E x \in T : \A y \in T : ~(<<y, x>> \in OpToRel(<,Nat))
    BY <1>1, WFMin
  <1> QED BY <1>2 DEF OpToRel

\* A set that holds 0, and n with n - 1, is the whole interval.
LEMMA Stepwise ==
    ASSUME NEW N \in Nat, NEW P, 0 \in P,
           \A n \in 1 .. N : n - 1 \in P => n \in P
    PROVE  \A n \in 0 .. N : n \in P
  <1> SUFFICES ASSUME NEW n \in 0 .. N, n \notin P PROVE FALSE
    OBVIOUS
  <1> DEFINE T == {m \in 0 .. N : m \notin P}
  <1>1. T \subseteq Nat /\ T # {}
    OBVIOUS
  <1>2. PICK x \in T : \A y \in T : ~(y < x)
    BY <1>1, LeastNumber
  <1>3. x \in 0 .. N /\ x \notin P /\ x # 0
    OBVIOUS
  <1>4. x \in 1 .. N /\ x - 1 \in 0 .. N /\ x - 1 < x
    BY <1>3
  <1>5. x - 1 \in P
    BY <1>2, <1>4
  <1> QED BY <1>3, <1>4, <1>5

\* What a step makes of the value before it, from a first value on.
IsStep(step, N, V) == step \in [1 .. N -> [V -> V]]

Iteration(f, N, V, v0, step) ==
    /\ f \in [0 .. N -> V] /\ f[0] = v0
    /\ \A n \in 1 .. N : f[n] = step[n][f[n - 1]]

LEMMA Iterated ==
    ASSUME NEW N \in Nat, NEW V, NEW v0 \in V, NEW step, IsStep(step, N, V)
    PROVE  \E f : Iteration(f, N, V, v0, step)
  <1> USE DEF IsStep
  <1> DEFINE Upto(f, m) == /\ f \in [0 .. m -> V] /\ f[0] = v0
                           /\ \A n \in 1 .. m : f[n] = step[n][f[n - 1]]
             P == {m \in 0 .. N : \E f : Upto(f, m)}
  <1>1. 0 \in P
    <2> DEFINE f == [i \in 0 .. 0 |-> v0]
    <2>1. f \in [0 .. 0 -> V] /\ f[0] = v0
      OBVIOUS
    <2>2. 1 .. 0 = {}
      OBVIOUS
    <2> HIDE DEF f
    <2>3. Upto(f, 0)
      BY <2>1, <2>2
    <2> QED BY <2>3
  <1>2. ASSUME NEW n \in 1 .. N, n - 1 \in P
        PROVE  n \in P
    <2>1. PICK f : Upto(f, n - 1)
      BY <1>2
    <2> DEFINE g == [i \in 0 .. n |-> IF i = n THEN step[n][f[n - 1]] ELSE f[i]]
    <2>2. n - 1 \in 0 .. n - 1 /\ f[n - 1] \in V
      BY <2>1
    <2>3. step[n][f[n - 1]] \in V
      BY <2>2
    <2>4. g \in [0 .. n -> V] /\ g[0] = v0
      BY <2>1, <2>3
    <2>5. ASSUME NEW i \in 1 .. n
          PROVE  g[i] = step[i][g[i - 1]]
      <3>1. CASE i = n
        <4>1. g[n] = step[n][f[n - 1]] /\ g[n - 1] = f[n - 1]
          OBVIOUS
        <4> QED BY <3>1, <4>1
      <3>2. CASE i # n
        <4>1. i \in 1 .. n - 1 /\ g[i] = f[i] /\ g[i - 1] = f[i - 1]
          BY <3>2
        <4> QED BY <2>1, <4>1
      <3> QED BY <3>1, <3>2
    <2> HIDE DEF g
    <2>6. Upto(g, n) /\ n \in 0 .. N
      BY <2>4, <2>5
    <2> QED BY <2>6
  <1>3. N \in P
    <2> HIDE DEF P
    <2>1. \A n \in 0 .. N : n \in P
      BY <1>1, <1>2, Stepwise
    <2> QED BY <2>1
  <1> QED BY <1>3 DEF Iteration

-----------------------------------------------------------------------------
(* Sequences.                                                              *)

\* The elements among the first n.
FirstOf(s, n) == {s[i] : i \in 1 .. n}

LEMMA ToSetOf ==
    ASSUME NEW X, NEW s \in Seq(X)
    PROVE  /\ ToSet(s) = FirstOf(s, Len(s)) /\ ToSet(s) \subseteq X
           /\ Len(s) \in Nat /\ DOMAIN s = 1 .. Len(s)
           /\ \A i \in 1 .. Len(s) : s[i] \in X /\ s[i] \in ToSet(s)
  <1>1. Len(s) \in Nat /\ DOMAIN s = 1 .. Len(s)
    BY LenProperties
  <1>2. \A i \in 1 .. Len(s) : s[i] \in X
    BY ElementOfSeq
  <1> QED BY <1>1, <1>2 DEF ToSet, FirstOf

LEMMA ToSetAppend ==
    ASSUME NEW X, NEW s \in Seq(X), NEW x \in X
    PROVE  /\ Append(s, x) \in Seq(X) /\ ToSet(Append(s, x)) = ToSet(s) \cup {x}
           /\ Len(Append(s, x)) = Len(s) + 1
  <1>1. /\ Append(s, x) \in Seq(X) /\ Len(Append(s, x)) = Len(s) + 1
        /\ \A i \in 1 .. Len(s) : Append(s, x)[i] = s[i]
        /\ Append(s, x)[Len(s) + 1] = x
    BY AppendProperties
  <1>2. /\ Len(s) \in Nat /\ DOMAIN s = 1 .. Len(s)
        /\ DOMAIN Append(s, x) = 1 .. Len(s) + 1
    BY <1>1, ToSetOf
  <1>3. ASSUME NEW y PROVE y \in ToSet(Append(s, x)) <=> y \in ToSet(s) \cup {x}
    <2>1. ASSUME y \in ToSet(Append(s, x)) PROVE y \in ToSet(s) \cup {x}
      <3>1. PICK i \in 1 .. Len(s) + 1 : y = Append(s, x)[i]
        BY <1>2, <2>1 DEF ToSet
      <3>2. CASE i = Len(s) + 1
        BY <1>1, <3>1, <3>2
      <3>3. CASE i # Len(s) + 1
        <4>1. i \in 1 .. Len(s)
          BY <1>2, <3>3
        <4> QED BY <1>1, <1>2, <3>1, <4>1 DEF ToSet
      <3> QED BY <3>2, <3>3
    <2>2. ASSUME y \in ToSet(s) PROVE y \in ToSet(Append(s, x))
      <3>1. PICK i \in 1 .. Len(s) : y = s[i]
        BY <1>2, <2>2 DEF ToSet
      <3>2. i \in 1 .. Len(s) + 1 /\ y = Append(s, x)[i]
        BY <1>1, <1>2, <3>1
      <3> QED BY <1>2, <3>2 DEF ToSet
    <2>3. x \in ToSet(Append(s, x))
      <3>1. Len(s) + 1 \in 1 .. Len(s) + 1
        BY <1>2
      <3> QED BY <1>1, <1>2, <3>1 DEF ToSet
    <2> QED BY <2>1, <2>2, <2>3
  <1> QED BY <1>1, <1>3

LEMMA InjectiveAppend ==
    ASSUME NEW X, NEW s \in Seq(X), NEW x \in X, IsInjective(s), x \notin ToSet(s)
    PROVE  IsInjective(Append(s, x))
  <1>1. /\ Append(s, x) \in Seq(X) /\ Len(Append(s, x)) = Len(s) + 1
        /\ \A i \in 1 .. Len(s) : Append(s, x)[i] = s[i]
        /\ Append(s, x)[Len(s) + 1] = x
    BY AppendProperties
  <1>2. /\ Len(s) \in Nat /\ DOMAIN s = 1 .. Len(s)
        /\ DOMAIN Append(s, x) = 1 .. Len(s) + 1
        /\ \A i \in 1 .. Len(s) : s[i] \in ToSet(s)
    BY <1>1, ToSetOf
  <1> SUFFICES ASSUME NEW i \in 1 .. Len(s) + 1, NEW j \in 1 .. Len(s) + 1,
                      Append(s, x)[i] = Append(s, x)[j]
               PROVE  i = j
    BY <1>2 DEF IsInjective
  <1>3. CASE i = Len(s) + 1 /\ j = Len(s) + 1
    BY <1>3
  <1>4. CASE i # Len(s) + 1 /\ j = Len(s) + 1
    <2>1. i \in 1 .. Len(s)
      BY <1>2, <1>4
    <2> QED BY <1>1, <1>2, <1>4, <2>1
  <1>5. CASE i = Len(s) + 1 /\ j # Len(s) + 1
    <2>1. j \in 1 .. Len(s)
      BY <1>2, <1>5
    <2> QED BY <1>1, <1>2, <1>5, <2>1
  <1>6. CASE i # Len(s) + 1 /\ j # Len(s) + 1
    <2>1. i \in 1 .. Len(s) /\ j \in 1 .. Len(s)
      BY <1>2, <1>6
    <2> QED BY <1>1, <1>2, <2>1 DEF IsInjective
  <1> QED BY <1>3, <1>4, <1>5, <1>6

LEMMA ToSetConcat ==
    ASSUME NEW X, NEW s \in Seq(X), NEW t \in Seq(X)
    PROVE  /\ s \o t \in Seq(X) /\ ToSet(s \o t) = ToSet(s) \cup ToSet(t)
           /\ Len(s \o t) = Len(s) + Len(t)
           /\ \A i \in 1 .. Len(s) : (s \o t)[i] = s[i]
           /\ \A i \in 1 .. Len(t) : (s \o t)[Len(s) + i] = t[i]
  <1>1. /\ s \o t \in Seq(X) /\ Len(s \o t) = Len(s) + Len(t)
        /\ \A i \in 1 .. Len(s) + Len(t) :
               (s \o t)[i] = IF i <= Len(s) THEN s[i] ELSE t[i - Len(s)]
    BY ConcatProperties
  <1>2. /\ Len(s) \in Nat /\ DOMAIN s = 1 .. Len(s) /\ Len(t) \in Nat /\ DOMAIN t = 1 .. Len(t)
        /\ DOMAIN (s \o t) = 1 .. Len(s) + Len(t)
    BY <1>1, ToSetOf
  <1>3. \A i \in 1 .. Len(s) : i \in 1 .. Len(s) + Len(t) /\ (s \o t)[i] = s[i]
    BY <1>1, <1>2
  <1>4. \A i \in 1 .. Len(t) : Len(s) + i \in 1 .. Len(s) + Len(t) /\ (s \o t)[Len(s) + i] = t[i]
    BY <1>1, <1>2
  <1>5. ASSUME NEW y PROVE y \in ToSet(s \o t) <=> y \in ToSet(s) \cup ToSet(t)
    <2>1. ASSUME y \in ToSet(s \o t) PROVE y \in ToSet(s) \cup ToSet(t)
      <3>1. PICK i \in 1 .. Len(s) + Len(t) : y = (s \o t)[i]
        BY <1>2, <2>1 DEF ToSet
      <3>2. CASE i <= Len(s)
        <4>1. i \in 1 .. Len(s)
          BY <1>2, <3>2
        <4> QED BY <1>2, <1>3, <3>1, <4>1 DEF ToSet
      <3>3. CASE ~(i <= Len(s))
        <4>1. i - Len(s) \in 1 .. Len(t) /\ y = t[i - Len(s)]
          BY <1>1, <1>2, <3>1, <3>3
        <4> QED BY <1>2, <4>1 DEF ToSet
      <3> QED BY <3>2, <3>3
    <2>2. ASSUME y \in ToSet(s) PROVE y \in ToSet(s \o t)
      <3>1. PICK i \in 1 .. Len(s) : y = s[i]
        BY <1>2, <2>2 DEF ToSet
      <3> QED BY <1>2, <1>3, <3>1 DEF ToSet
    <2>3. ASSUME y \in ToSet(t) PROVE y \in ToSet(s \o t)
      <3>1. PICK i \in 1 .. Len(t) : y = t[i]
        BY <1>2, <2>3 DEF ToSet
      <3> QED BY <1>2, <1>4, <3>1 DEF ToSet
    <2> QED BY <2>1, <2>2, <2>3
  <1> QED BY <1>1, <1>3, <1>4, <1>5

LEMMA InjectiveConcat ==
    ASSUME NEW X, NEW s \in Seq(X), NEW t \in Seq(X), IsInjective(s), IsInjective(t),
           ToSet(s) \cap ToSet(t) = {}
    PROVE  IsInjective(s \o t)
  <1>1. /\ s \o t \in Seq(X) /\ Len(s \o t) = Len(s) + Len(t)
        /\ \A i \in 1 .. Len(s) : (s \o t)[i] = s[i]
        /\ \A i \in 1 .. Len(t) : (s \o t)[Len(s) + i] = t[i]
    BY ToSetConcat
  <1>2. /\ Len(s) \in Nat /\ DOMAIN s = 1 .. Len(s) /\ Len(t) \in Nat /\ DOMAIN t = 1 .. Len(t)
        /\ DOMAIN (s \o t) = 1 .. Len(s) + Len(t)
        /\ \A i \in 1 .. Len(s) : s[i] \in ToSet(s)
        /\ \A i \in 1 .. Len(t) : t[i] \in ToSet(t)
    BY <1>1, ToSetOf
  <1> SUFFICES ASSUME NEW i \in 1 .. Len(s) + Len(t), NEW j \in 1 .. Len(s) + Len(t),
                      (s \o t)[i] = (s \o t)[j]
               PROVE  i = j
    BY <1>2 DEF IsInjective
  <1> DEFINE Right(k) == k \in 1 .. Len(s) + Len(t) /\ ~(k <= Len(s))
  <1>3. \A k \in 1 .. Len(s) + Len(t) : k <= Len(s) => k \in 1 .. Len(s) /\ (s \o t)[k] = s[k]
    BY <1>1, <1>2
  <1>4. ASSUME NEW k \in 1 .. Len(s) + Len(t), ~(k <= Len(s))
        PROVE  k - Len(s) \in 1 .. Len(t) /\ (s \o t)[k] = t[k - Len(s)]
    <2>1. k - Len(s) \in 1 .. Len(t) /\ Len(s) + (k - Len(s)) = k
      BY <1>2, <1>4
    <2> QED BY <1>1, <2>1
  <1>5. CASE i <= Len(s) /\ j <= Len(s)
    BY <1>2, <1>3, <1>5 DEF IsInjective
  <1>6. CASE i <= Len(s) /\ ~(j <= Len(s))
    BY <1>2, <1>3, <1>4, <1>6
  <1>7. CASE ~(i <= Len(s)) /\ j <= Len(s)
    BY <1>2, <1>3, <1>4, <1>7
  <1>8. CASE ~(i <= Len(s)) /\ ~(j <= Len(s))
    <2>1. i - Len(s) = j - Len(s)
      BY <1>2, <1>4, <1>8 DEF IsInjective
    <2> QED BY <1>2, <2>1
  <1> QED BY <1>5, <1>6, <1>7, <1>8

-----------------------------------------------------------------------------
(* What filters, searches and scans find.                                  *)

\* The recursion of Kept.
KeptTo(kept, s, S) ==
    /\ kept[0] = <<>>
    /\ \A n \in 1 .. Len(s) :
           kept[n] = IF s[n] \in S THEN Append(kept[n - 1], s[n]) ELSE kept[n - 1]

LEMMA KeptDefined ==
    ASSUME NEW X, NEW s \in Seq(X), NEW S
    PROVE  \E kept : KeptTo(kept, s, S) /\ Kept(s, S) = kept[Len(s)]
  <1>1. Len(s) \in Nat /\ \A i \in 1 .. Len(s) : s[i] \in X
    BY ToSetOf
  <1> DEFINE N == Len(s)
             V == Seq(X)
             step == [n \in 1 .. N |-> [v \in V |-> IF s[n] \in S THEN Append(v, s[n]) ELSE v]]
             Body(g) == [n \in 0 .. N |->
                            IF n = 0 THEN <<>>
                            ELSE IF s[n] \in S THEN Append(g[n - 1], s[n]) ELSE g[n - 1]]
  <1>2. step \in [1 .. N -> [V -> V]]
    <2>1. \A n \in 1 .. N : \A v \in V : Append(v, s[n]) \in V
      BY <1>1, AppendProperties
    <2> QED BY <2>1
  <1>3. <<>> \in V
    OBVIOUS
  <1>4. PICK f \in [0 .. N -> V] : f[0] = <<>> /\ \A n \in 1 .. N : f[n] = step[n][f[n - 1]]
    <2> DEFINE v0 == <<>>
    <2>1. N \in Nat /\ v0 \in V /\ IsStep(step, N, V)
      BY <1>1, <1>2, <1>3 DEF IsStep
    <2> HIDE DEF N, step, V, v0
    <2>2. \E f : Iteration(f, N, V, v0, step)
      BY <2>1, Iterated
    <2> QED BY <2>2 DEF v0, Iteration
  <1>5. \A n \in 1 .. N : f[n] = IF s[n] \in S THEN Append(f[n - 1], s[n]) ELSE f[n - 1]
    <2> SUFFICES ASSUME NEW n \in 1 .. N
                 PROVE  f[n] = IF s[n] \in S THEN Append(f[n - 1], s[n]) ELSE f[n - 1]
      OBVIOUS
    <2>1. n - 1 \in 0 .. N
      BY <1>1
    <2>2. f[n - 1] \in V
      BY <1>4, <2>1
    <2>3. step[n][f[n - 1]] = IF s[n] \in S THEN Append(f[n - 1], s[n]) ELSE f[n - 1]
      BY <2>2
    <2> QED BY <1>4, <2>3
  <1>6. f = Body(f)
    <2>1. ASSUME NEW n \in 0 .. N
          PROVE  f[n] = Body(f)[n]
      <3>1. CASE n = 0
        BY <1>4, <3>1
      <3>2. CASE n # 0
        <4>1. n \in 1 .. N
          BY <1>1, <3>2
        <4>2. Body(f)[n] = IF s[n] \in S THEN Append(f[n - 1], s[n]) ELSE f[n - 1]
          BY <3>2
        <4> QED BY <1>5, <4>1, <4>2
      <3> QED BY <3>1, <3>2
    <2>2. DOMAIN f = 0 .. N /\ f = [n \in 0 .. N |-> f[n]]
      BY <1>4
    <2> QED BY <2>1, <2>2
  <1> DEFINE kept == CHOOSE g : g = Body(g)
  <1>7. kept = Body(kept)
    BY <1>6
  <1>8. Kept(s, S) = kept[N]
    BY DEF Kept
  <1> HIDE DEF kept
  <1>9. /\ kept[0] = <<>>
        /\ \A n \in 1 .. N :
               kept[n] = IF s[n] \in S THEN Append(kept[n - 1], s[n]) ELSE kept[n - 1]
    <2>1. kept[0] = Body(kept)[0] /\ \A n \in 1 .. N : kept[n] = Body(kept)[n]
      BY <1>7
    <2>2. Body(kept)[0] = <<>>
      BY <1>1
    <2>3. \A n \in 1 .. N :
              Body(kept)[n] = IF s[n] \in S THEN Append(kept[n - 1], s[n]) ELSE kept[n - 1]
      BY <1>1
    <2> QED BY <2>1, <2>2, <2>3
  <1> QED BY <1>8, <1>9 DEF KeptTo

LEMMA FirstOfNext ==
    ASSUME NEW s, NEW n \in Nat \ {0}
    PROVE  FirstOf(s, n) = FirstOf(s, n - 1) \cup {s[n]}
  <1>1. 1 .. n = (1 .. n - 1) \cup {n}
    OBVIOUS
  <1> QED BY <1>1 DEF FirstOf

LEMMA FirstOfNone ==
    ASSUME NEW s
    PROVE  FirstOf(s, 0) = {}
BY DEF FirstOf

\* A filter keeps what is in S, and does not repeat what is not repeated.
LEMMA KeptElements ==
    ASSUME NEW X, NEW s \in Seq(X), NEW S
    PROVE  /\ Kept(s, S) \in Seq(X) /\ ToSet(Kept(s, S)) = ToSet(s) \cap S
           /\ IsInjective(s) => IsInjective(Kept(s, S))
  <1>1. PICK kept : KeptTo(kept, s, S) /\ Kept(s, S) = kept[Len(s)]
    BY KeptDefined
  <1>2. /\ Len(s) \in Nat /\ DOMAIN s = 1 .. Len(s) /\ ToSet(s) = FirstOf(s, Len(s))
        /\ \A i \in 1 .. Len(s) : s[i] \in X
    BY ToSetOf
  <1> DEFINE Good(n) == /\ kept[n] \in Seq(X) /\ ToSet(kept[n]) = FirstOf(s, n) \cap S
                        /\ IsInjective(s) => IsInjective(kept[n])
             P == {n \in 0 .. Len(s) : Good(n)}
  <1>3. 0 \in P
    <2>1. kept[0] = <<>>
      BY <1>1 DEF KeptTo
    <2>2. <<>> \in Seq(X) /\ ToSet(<<>>) = {} /\ IsInjective(<<>>)
      <3>1. <<>> \in Seq(X) /\ DOMAIN <<>> = {}
        OBVIOUS
      <3> QED BY <3>1 DEF ToSet, IsInjective
    <2>3. ToSet(kept[0]) = FirstOf(s, 0) \cap S
      BY <2>1, <2>2, FirstOfNone
    <2>4. Good(0) /\ 0 \in 0 .. Len(s)
      BY <1>2, <2>1, <2>2, <2>3
    <2> QED BY <2>4
  <1>4. ASSUME NEW n \in 1 .. Len(s), n - 1 \in P
        PROVE  n \in P
    <2>1. Good(n - 1) /\ n \in Nat \ {0} /\ n \in 0 .. Len(s) /\ s[n] \in X
      BY <1>2, <1>4
    <2>2. FirstOf(s, n) = FirstOf(s, n - 1) \cup {s[n]}
      BY <2>1, FirstOfNext
    <2>3. CASE s[n] \in S
      <3>1. kept[n] = Append(kept[n - 1], s[n])
        BY <1>1, <2>3 DEF KeptTo
      <3>2. kept[n] \in Seq(X) /\ ToSet(kept[n]) = ToSet(kept[n - 1]) \cup {s[n]}
        BY <2>1, <3>1, ToSetAppend
      <3>3. ToSet(kept[n]) = FirstOf(s, n) \cap S
        BY <2>1, <2>2, <2>3, <3>2
      <3>4. ASSUME IsInjective(s) PROVE IsInjective(kept[n])
        <4>1. s[n] \notin FirstOf(s, n - 1)
          <5> SUFFICES ASSUME NEW i \in 1 .. n - 1, s[i] = s[n] PROVE FALSE
            BY DEF FirstOf
          <5>1. i \in 1 .. Len(s) /\ i # n
            BY <1>2, <2>1
          <5> QED BY <1>2, <3>4, <5>1 DEF IsInjective
        <4> QED BY <2>1, <3>1, <3>4, <4>1, InjectiveAppend
      <3> QED BY <2>1, <3>2, <3>3, <3>4
    <2>4. CASE s[n] \notin S
      <3>1. kept[n] = kept[n - 1]
        BY <1>1, <2>4 DEF KeptTo
      <3> QED BY <2>1, <2>2, <2>4, <3>1
    <2> QED BY <2>3, <2>4
  <1>5. Good(Len(s))
    <2>1. \A n \in 0 .. Len(s) : n \in P
      <3> HIDE DEF P
      <3> QED BY <1>2, <1>3, <1>4, Stepwise
    <2>2. Len(s) \in 0 .. Len(s)
      BY <1>2
    <2> QED BY <2>1, <2>2
  <1> QED BY <1>1, <1>2, <1>5

LEMMA ListedElements ==
    ASSUME NEW iid, NEW directory \in Directories, NEW fault
    PROVE  /\ Listed(iid, directory, fault) \in Seq(Files)
           /\ \A f \in ToSet(FilesIn[directory]) :
                  ReadIid(f, fault) = iid => f \in ToSet(Listed(iid, directory, fault))
  <1>1. FilesIn[directory] \in Seq(Files)
    BY FileAssumption
  <1>2. ToSet(FilesIn[directory]) \subseteq Files
    BY <1>1, ToSetOf
  <1>3. CASE Flat
    <2> DEFINE S == {f \in Files : ReadIid(f, fault) = iid}
    <2>1. Listed(iid, directory, fault) = Kept(FilesIn[directory], S)
      BY <1>3 DEF Listed
    <2>2. /\ Kept(FilesIn[directory], S) \in Seq(Files)
          /\ ToSet(Kept(FilesIn[directory], S)) = ToSet(FilesIn[directory]) \cap S
      BY <1>1, KeptElements
    <2> QED BY <1>2, <2>1, <2>2
  <1>4. CASE ~Flat
    BY <1>1, <1>4 DEF Listed
  <1> QED BY <1>3, <1>4

\* What one search path adds to the candidates.
Part(iid, fault, directory) ==
    IF directory \in fault.noticed THEN <<>> ELSE Listed(iid, directory, fault)

FoundTo(found, iid, fault, paths) ==
    /\ found[0] = <<>>
    /\ \A n \in 1 .. Len(paths) : found[n] = found[n - 1] \o Part(iid, fault, paths[n])

LEMMA PartElements ==
    ASSUME NEW iid, NEW fault, NEW directory \in Directories
    PROVE  Part(iid, fault, directory) \in Seq(Files)
  <1>1. <<>> \in Seq(Files)
    OBVIOUS
  <1> QED BY <1>1, ListedElements DEF Part

LEMMA CandidatesDefined ==
    ASSUME NEW iid, NEW fault, pluginPaths[iid] \in Seq(Directories)
    PROVE  \E found : /\ FoundTo(found, iid, fault, pluginPaths[iid])
                      /\ Candidates(iid, fault) = found[Len(pluginPaths[iid])]
  <1> DEFINE paths == pluginPaths[iid]
             N == Len(paths)
             V == Seq(Files)
             step == [n \in 1 .. N |-> [v \in V |-> v \o Part(iid, fault, paths[n])]]
             Body(g) == [n \in 0 .. N |->
                            IF n = 0 THEN <<>>
                            ELSE g[n - 1] \o (IF paths[n] \in fault.noticed THEN <<>>
                                              ELSE Listed(iid, paths[n], fault))]
  <1>1. N \in Nat /\ \A i \in 1 .. N : paths[i] \in Directories
    BY ToSetOf
  <1>2. step \in [1 .. N -> [V -> V]]
    <2>1. \A n \in 1 .. N : \A v \in V : v \o Part(iid, fault, paths[n]) \in V
      BY <1>1, PartElements, ConcatProperties
    <2> QED BY <2>1
  <1>3. <<>> \in V
    OBVIOUS
  <1>4. PICK f \in [0 .. N -> V] : f[0] = <<>> /\ \A n \in 1 .. N : f[n] = step[n][f[n - 1]]
    <2> DEFINE v0 == <<>>
    <2>1. N \in Nat /\ v0 \in V /\ IsStep(step, N, V)
      BY <1>1, <1>2, <1>3 DEF IsStep
    <2> HIDE DEF N, step, V, v0
    <2>2. \E f : Iteration(f, N, V, v0, step)
      BY <2>1, Iterated
    <2> QED BY <2>2 DEF v0, Iteration
  <1>5. ASSUME NEW n \in 1 .. N
        PROVE  f[n] = f[n - 1] \o Part(iid, fault, paths[n])
    <2>1. n - 1 \in 0 .. N
      BY <1>1
    <2>2. f[n - 1] \in V
      BY <1>4, <2>1
    <2>3. step[n][f[n - 1]] = f[n - 1] \o Part(iid, fault, paths[n])
      BY <2>2
    <2> QED BY <1>4, <2>3
  <1>6. f = Body(f)
    <2>1. ASSUME NEW n \in 0 .. N
          PROVE  f[n] = Body(f)[n]
      <3>1. CASE n = 0
        BY <1>4, <3>1
      <3>2. CASE n # 0
        <4>1. n \in 1 .. N
          BY <1>1, <3>2
        <4>2. Body(f)[n] = f[n - 1] \o Part(iid, fault, paths[n])
          BY <3>2 DEF Part
        <4> QED BY <1>5, <4>1, <4>2
      <3> QED BY <3>1, <3>2
    <2>2. DOMAIN f = 0 .. N /\ f = [n \in 0 .. N |-> f[n]]
      BY <1>4
    <2> QED BY <2>1, <2>2
  <1> DEFINE found == CHOOSE g : g = Body(g)
  <1>7. found = Body(found)
    BY <1>6
  <1>8. Candidates(iid, fault) = found[N]
    BY DEF Candidates
  <1> HIDE DEF found
  <1>9. found[0] = <<>> /\ \A n \in 1 .. N : found[n] = found[n - 1] \o Part(iid, fault, paths[n])
    <2>1. found[0] = Body(found)[0] /\ \A n \in 1 .. N : found[n] = Body(found)[n]
      BY <1>7
    <2>2. Body(found)[0] = <<>>
      BY <1>1
    <2>3. ASSUME NEW n \in 1 .. N
          PROVE  Body(found)[n] = found[n - 1] \o Part(iid, fault, paths[n])
      <3>1. n \in 0 .. N /\ n # 0
        BY <1>1
      <3>2. Body(found)[n] = found[n - 1] \o (IF paths[n] \in fault.noticed THEN <<>>
                                              ELSE Listed(iid, paths[n], fault))
        BY <3>1
      <3> QED BY <3>2 DEF Part
    <2> QED BY <2>1, <2>2, <2>3
  <1> QED BY <1>8, <1>9 DEF FoundTo

\* The candidates are files, and among them is what each accessible search path
\* holds for the IID.
LEMMA CandidatesElements ==
    ASSUME NEW iid, NEW fault, pluginPaths[iid] \in Seq(Directories)
    PROVE  /\ Candidates(iid, fault) \in Seq(Files)
           /\ \A i \in DOMAIN pluginPaths[iid] : pluginPaths[iid][i] \notin fault.noticed =>
                  \A f \in ToSet(FilesIn[pluginPaths[iid][i]]) :
                      ReadIid(f, fault) = iid => f \in ToSet(Candidates(iid, fault))
  <1> DEFINE paths == pluginPaths[iid]
             N == Len(paths)
             Wanted(i) == IF paths[i] \in fault.noticed THEN {}
                          ELSE {f \in ToSet(FilesIn[paths[i]]) : ReadIid(f, fault) = iid}
  <1>1. N \in Nat /\ DOMAIN paths = 1 .. N /\ \A i \in 1 .. N : paths[i] \in Directories
    BY ToSetOf
  <1>2. PICK found : FoundTo(found, iid, fault, paths) /\ Candidates(iid, fault) = found[N]
    BY CandidatesDefined
  <1>3. \A i \in 1 .. N : Part(iid, fault, paths[i]) \in Seq(Files)
                          /\ Wanted(i) \subseteq ToSet(Part(iid, fault, paths[i]))
    <2> SUFFICES ASSUME NEW i \in 1 .. N
                 PROVE  Part(iid, fault, paths[i]) \in Seq(Files)
                        /\ Wanted(i) \subseteq ToSet(Part(iid, fault, paths[i]))
      OBVIOUS
    <2>1. paths[i] \in Directories
      BY <1>1
    <2>2. CASE paths[i] \in fault.noticed
      BY <2>1, <2>2, PartElements
    <2>3. CASE paths[i] \notin fault.noticed
      BY <2>1, <2>3, PartElements, ListedElements DEF Part
    <2> QED BY <2>2, <2>3
  <1> DEFINE Good(n) == found[n] \in Seq(Files) /\ \A i \in 1 .. n : Wanted(i) \subseteq ToSet(found[n])
             P == {n \in 0 .. N : Good(n)}
  <1> HIDE DEF Wanted
  <1>4. 0 \in P
    <2>1. found[0] = <<>> /\ <<>> \in Seq(Files) /\ 1 .. 0 = {} /\ 0 \in 0 .. N
      BY <1>1, <1>2 DEF FoundTo
    <2> QED BY <2>1
  <1>5. ASSUME NEW n \in 1 .. N, n - 1 \in P
        PROVE  n \in P
    <2>1. Good(n - 1) /\ n \in 0 .. N
      BY <1>1, <1>5
    <2>2. found[n] = found[n - 1] \o Part(iid, fault, paths[n])
      BY <1>2 DEF FoundTo
    <2>3. /\ found[n] \in Seq(Files)
          /\ ToSet(found[n]) = ToSet(found[n - 1]) \cup ToSet(Part(iid, fault, paths[n]))
      BY <1>3, <2>1, <2>2, ToSetConcat
    <2>4. ASSUME NEW i \in 1 .. n
          PROVE  Wanted(i) \subseteq ToSet(found[n])
      <3>1. CASE i = n
        BY <1>3, <2>3, <3>1
      <3>2. CASE i # n
        <4>1. i \in 1 .. n - 1
          BY <1>1, <3>2
        <4> QED BY <2>1, <2>3, <4>1
      <3> QED BY <3>1, <3>2
    <2> QED BY <2>1, <2>3, <2>4
  <1>6. Good(N)
    <2>1. \A n \in 0 .. N : n \in P
      <3> HIDE DEF P
      <3> QED BY <1>1, <1>4, <1>5, Stepwise
    <2>2. N \in 0 .. N
      BY <1>1
    <2> QED BY <2>1, <2>2
  <1> QED BY <1>1, <1>2, <1>6 DEF Wanted

\* What a scan does with one candidate.
Visited(iid, fault, found, f) ==
    IF f \in fault.noticed \/ f \in Read(found) \/ ReadIid(f, fault) # iid
    THEN found ELSE Append(found, f)

VisitedTo(visited, iid, fault, candidates) ==
    /\ visited[0] = <<>>
    /\ \A n \in 1 .. Len(candidates) :
           visited[n] = Visited(iid, fault, visited[n - 1], candidates[n])

LEMMA NewFilesDefined ==
    ASSUME NEW iid, NEW fault, Candidates(iid, fault) \in Seq(Files)
    PROVE  \E visited : /\ VisitedTo(visited, iid, fault, Candidates(iid, fault))
                        /\ NewFiles(iid, fault) = visited[Len(Candidates(iid, fault))]
  <1> DEFINE candidates == Candidates(iid, fault)
             N == Len(candidates)
             V == Seq(Files)
             step == [n \in 1 .. N |-> [v \in V |-> Visited(iid, fault, v, candidates[n])]]
             Body(g) == [n \in 0 .. N |->
                            IF n = 0 THEN <<>> ELSE Visited(iid, fault, g[n - 1], candidates[n])]
  <1>1. N \in Nat /\ \A i \in 1 .. N : candidates[i] \in Files
    BY ToSetOf
  <1>2. step \in [1 .. N -> [V -> V]]
    <2>1. \A n \in 1 .. N : \A v \in V : Visited(iid, fault, v, candidates[n]) \in V
      BY <1>1, AppendProperties DEF Visited
    <2> QED BY <2>1
  <1>3. <<>> \in V
    OBVIOUS
  <1>4. PICK f \in [0 .. N -> V] : f[0] = <<>> /\ \A n \in 1 .. N : f[n] = step[n][f[n - 1]]
    <2> DEFINE v0 == <<>>
    <2>1. N \in Nat /\ v0 \in V /\ IsStep(step, N, V)
      BY <1>1, <1>2, <1>3 DEF IsStep
    <2> HIDE DEF N, step, V, v0
    <2>2. \E f : Iteration(f, N, V, v0, step)
      BY <2>1, Iterated
    <2> QED BY <2>2 DEF v0, Iteration
  <1>5. ASSUME NEW n \in 1 .. N
        PROVE  f[n] = Visited(iid, fault, f[n - 1], candidates[n])
    <2>1. n - 1 \in 0 .. N
      BY <1>1
    <2>2. f[n - 1] \in V
      BY <1>4, <2>1
    <2>3. step[n][f[n - 1]] = Visited(iid, fault, f[n - 1], candidates[n])
      BY <2>2
    <2> QED BY <1>4, <2>3
  <1>6. f = Body(f)
    <2>1. ASSUME NEW n \in 0 .. N
          PROVE  f[n] = Body(f)[n]
      <3>1. CASE n = 0
        BY <1>4, <3>1
      <3>2. CASE n # 0
        <4>1. n \in 1 .. N
          BY <1>1, <3>2
        <4>2. Body(f)[n] = Visited(iid, fault, f[n - 1], candidates[n])
          BY <3>2
        <4> QED BY <1>5, <4>1, <4>2
      <3> QED BY <3>1, <3>2
    <2>2. DOMAIN f = 0 .. N /\ f = [n \in 0 .. N |-> f[n]]
      BY <1>4
    <2> QED BY <2>1, <2>2
  <1> DEFINE visited == CHOOSE g : g = Body(g)
  <1>7. visited = Body(visited)
    BY <1>6
  <1>8. NewFiles(iid, fault) = visited[N]
    BY DEF NewFiles, Visited
  <1> HIDE DEF visited
  <1>9. /\ visited[0] = <<>>
        /\ \A n \in 1 .. N : visited[n] = Visited(iid, fault, visited[n - 1], candidates[n])
    <2>1. visited[0] = Body(visited)[0] /\ \A n \in 1 .. N : visited[n] = Body(visited)[n]
      BY <1>7
    <2>2. Body(visited)[0] = <<>>
      BY <1>1
    <2>3. ASSUME NEW n \in 1 .. N
          PROVE  Body(visited)[n] = Visited(iid, fault, visited[n - 1], candidates[n])
      <3>1. n \in 0 .. N /\ n # 0
        BY <1>1
      <3> QED BY <3>1
    <2> QED BY <2>1, <2>2, <2>3
  <1> QED BY <1>8, <1>9 DEF VisitedTo

\* A scan takes each file once, none that is read already, all of them of the IID,
\* and leaves out no candidate of the IID that it can access.
LEMMA NewFilesElements ==
    ASSUME NEW iid \in Iids, NEW fault, Candidates(iid, fault) \in Seq(Files)
    PROVE  /\ NewFiles(iid, fault) \in Seq(Files) /\ IsInjective(NewFiles(iid, fault))
           /\ \A f \in ToSet(NewFiles(iid, fault)) : f \notin readPluginFiles /\ IidOf[f] = iid
           /\ \A f \in ToSet(Candidates(iid, fault)) :
                  f \notin fault.noticed /\ ReadIid(f, fault) = iid =>
                      f \in readPluginFiles \cup ToSet(NewFiles(iid, fault))
  <1> DEFINE candidates == Candidates(iid, fault)
             N == Len(candidates)
  <1>1. /\ N \in Nat /\ ToSet(candidates) = FirstOf(candidates, N)
        /\ \A i \in 1 .. N : candidates[i] \in Files
    BY ToSetOf
  <1>2. PICK visited : /\ VisitedTo(visited, iid, fault, candidates)
                       /\ NewFiles(iid, fault) = visited[N]
    BY NewFilesDefined
  <1> DEFINE Good(v, n) ==
                 /\ v \in Seq(Files) /\ IsInjective(v)
                 /\ \A f \in ToSet(v) : f \notin readPluginFiles /\ IidOf[f] = iid
                 /\ \A f \in FirstOf(candidates, n) :
                        f \notin fault.noticed /\ ReadIid(f, fault) = iid =>
                            f \in readPluginFiles \cup ToSet(v)
             P == {n \in 0 .. N : Good(visited[n], n)}
  <1>3. 0 \in P
    <2>1. visited[0] = <<>> /\ 0 \in 0 .. N
      BY <1>1, <1>2 DEF VisitedTo
    <2>2. <<>> \in Seq(Files) /\ ToSet(<<>>) = {} /\ IsInjective(<<>>)
      <3>1. <<>> \in Seq(Files) /\ DOMAIN <<>> = {}
        OBVIOUS
      <3> QED BY <3>1 DEF ToSet, IsInjective
    <2>3. Good(<<>>, 0)
      BY <2>2, FirstOfNone
    <2> QED BY <2>1, <2>3
  <1>4. ASSUME NEW n \in 1 .. N, n - 1 \in P
        PROVE  n \in P
    <2> DEFINE v == visited[n - 1]
               f == candidates[n]
    <2>1. Good(v, n - 1) /\ n \in 0 .. N /\ n \in Nat \ {0} /\ f \in Files
      BY <1>1, <1>4
    <2>2. visited[n] = Visited(iid, fault, v, f)
      BY <1>2 DEF VisitedTo
    <2>3. FirstOf(candidates, n) = FirstOf(candidates, n - 1) \cup {f}
      BY <2>1, FirstOfNext
    <2>4. Read(v) = readPluginFiles \cup ToSet(v)
      BY DEF Read
    <2> HIDE DEF v, f
    <2>5. CASE f \in fault.noticed \/ f \in Read(v) \/ ReadIid(f, fault) # iid
      <3>1. visited[n] = v
        BY <2>2, <2>5 DEF Visited
      <3>2. Good(v, n)
        BY <2>1, <2>3, <2>4, <2>5
      <3> QED BY <2>1, <3>1, <3>2
    <2>6. CASE ~(f \in fault.noticed \/ f \in Read(v) \/ ReadIid(f, fault) # iid)
      <3>1. visited[n] = Append(v, f)
        BY <2>2, <2>6 DEF Visited
      <3>2. Append(v, f) \in Seq(Files) /\ ToSet(Append(v, f)) = ToSet(v) \cup {f}
        BY <2>1, ToSetAppend
      <3>3. IsInjective(Append(v, f))
        BY <2>1, <2>4, <2>6, InjectiveAppend
      <3>4. IidOf[f] = iid
        BY <2>6, FileAssumption DEF ReadIid
      <3>5. Good(Append(v, f), n)
        BY <2>1, <2>3, <2>4, <2>6, <3>2, <3>3, <3>4
      <3> QED BY <2>1, <3>1, <3>5
    <2> QED BY <2>5, <2>6
  <1>5. Good(visited[N], N)
    <2>1. \A n \in 0 .. N : n \in P
      <3> HIDE DEF P
      <3> QED BY <1>1, <1>3, <1>4, Stepwise
    <2>2. N \in 0 .. N
      BY <1>1
    <2> QED BY <2>1, <2>2
  <1> QED BY <1>1, <1>2, <1>5

-----------------------------------------------------------------------------
(* The invariant.                                                          *)

\* What is left of the types when observers and queries are left out.
Heap ==
    /\ pluginPaths \in [Iids -> Seq(Directories)]
    /\ loaders \in [Iids -> Seq(Addresses)]
    /\ Live \subseteq Addresses /\ \A a \in Live : loader[a] \in Loader
    /\ \A iid \in Iids : ToSet(loaders[iid]) \subseteq Live
    /\ readPluginFiles \subseteq Files /\ pendingScans \subseteq Iids

\* The loader at a is where the list of the IID says.
AtHome(a, iid) ==
    /\ \A jid \in Iids : a \in ToSet(loaders[jid]) => jid = iid
    /\ loader[a].origin = "FileSystem" => loader[a].file \in Files /\ IidOf[loader[a].file] = iid
    /\ loader[a].loaded \/ loader[a].origin # "FileSystem" => loader[a].iid = iid
    /\ loader[a].iid \in {iid, NoIid}

\* Every loader is in one list, once.
Homed ==
    /\ \A iid \in Iids : IsInjective(loaders[iid]) /\ \A a \in ToSet(loaders[iid]) : AtHome(a, iid)
    /\ \A a \in Live : \E iid \in Iids : a \in ToSet(loaders[iid])

\* ScanComplete, path by path.
FilesFound ==
    \A iid \in Iids \ pendingScans :
        \A i \in DOMAIN pluginPaths[iid] : \A f \in ToSet(FilesIn[pluginPaths[iid][i]]) :
            IidOf[f] = iid => f \in skipped \/ \E a \in FileLoaders : loader[a].file = f

Tracking == Heap /\ Homed /\ FilesTracked /\ FilesFound

Flags == dirty \in [Iids -> BOOLEAN] /\ query \in [Threads -> Iids \cup {NoIid}]

\* What LivePluginsKept says of a step.
PointersKept ==
    \A a \in Live : loader[a].loaded \/ loader[a].origin # "FileSystem" =>
        /\ a \in DOMAIN loader'
        /\ loader'[a].file = loader[a].file
        /\ a \in ToSet(loaders'[loader[a].iid])

LEMMA HomeOf ==
    ASSUME Tracking, NEW a \in Live
    PROVE  \E iid \in Iids : a \in ToSet(loaders[iid]) /\ AtHome(a, iid)
BY DEF Tracking, Homed

LEMMA Placed ==
    ASSUME Tracking, NEW n \in Nat, NEW places \in Places(n)
    PROVE  /\ places \in Seq(Addresses) /\ Len(places) = n /\ DOMAIN places = 1 .. n
           /\ IsInjective(places)
           /\ ToSet(places) \subseteq Addresses /\ ToSet(places) \cap Live = {}
  <1>1. places \in [1 .. n -> FreeAddresses] /\ IsInjective(places)
    BY DEF Places
  <1>2. FreeAddresses \subseteq Addresses /\ FreeAddresses \cap Live = {}
    BY DEF FreeAddresses
  <1>3. places \in [1 .. n -> Addresses]
    BY <1>1, <1>2
  <1>4. places \in Seq(Addresses) /\ Len(places) = n /\ DOMAIN places = 1 .. n
    <2>1. places \in Seq(Addresses)
      BY <1>3, SeqDef
    <2>2. DOMAIN places = 1 .. n /\ DOMAIN places = 1 .. Len(places) /\ Len(places) \in Nat
      BY <1>3, <2>1, LenProperties
    <2> QED BY <2>1, <2>2
  <1>5. ToSet(places) \subseteq FreeAddresses
    BY <1>1 DEF ToSet
  <1> QED BY <1>1, <1>2, <1>4, <1>5

\* What an allocation changes: loaders for the files, at the end of one list.
LEMMA Allocated ==
    ASSUME Tracking, NEW iid \in Iids, NEW origin, NEW files, NEW n \in Nat,
           NEW places \in Places(n), Allocate(iid, origin, files, places)
    PROVE  /\ Live' = Live \cup ToSet(places)
           /\ \A a \in Live : loader'[a] = loader[a]
           /\ \A k \in 1 .. n : loader'[places[k]] = NewLoader(origin, files[k], iid)
           /\ loaders' \in [Iids -> Seq(Addresses)]
           /\ ToSet(loaders'[iid]) = ToSet(loaders[iid]) \cup ToSet(places)
           /\ IsInjective(loaders'[iid])
           /\ \A jid \in Iids : jid # iid => loaders'[jid] = loaders[jid]
  <1>1. /\ places \in Seq(Addresses) /\ Len(places) = n /\ DOMAIN places = 1 .. n
        /\ IsInjective(places)
        /\ ToSet(places) \subseteq Addresses /\ ToSet(places) \cap Live = {}
    BY Placed
  <1> DEFINE Index(a) == CHOOSE i \in DOMAIN places : places[i] = a
  <1>2. /\ loader' = [a \in Live \cup ToSet(places) |->
                         IF a \in Live THEN loader[a]
                                       ELSE NewLoader(origin, files[Index(a)], iid)]
        /\ loaders' = [loaders EXCEPT ![iid] = @ \o places]
    BY DEF Allocate
  <1>3. ASSUME NEW k \in 1 .. n
        PROVE  loader'[places[k]] = NewLoader(origin, files[k], iid)
    <2>1. places[k] \in ToSet(places) /\ places[k] \notin Live
      BY <1>1 DEF ToSet
    <2>2. Index(places[k]) = k
      BY <1>1 DEF IsInjective
    <2> HIDE DEF Index
    <2> QED BY <1>2, <2>1, <2>2
  <1>4. loaders \in [Iids -> Seq(Addresses)] /\ loaders[iid] \in Seq(Addresses)
        /\ IsInjective(loaders[iid]) /\ ToSet(loaders[iid]) \subseteq Live
    BY DEF Tracking, Heap, Homed
  <1>5. /\ loaders[iid] \o places \in Seq(Addresses)
        /\ ToSet(loaders[iid] \o places) = ToSet(loaders[iid]) \cup ToSet(places)
    BY <1>1, <1>4, ToSetConcat
  <1>6. IsInjective(loaders[iid] \o places)
    <2>1. ToSet(loaders[iid]) \cap ToSet(places) = {}
      BY <1>1, <1>4
    <2> QED BY <1>1, <1>4, <2>1, InjectiveConcat
  <1>7. /\ loaders'[iid] = loaders[iid] \o places
        /\ \A jid \in Iids : jid # iid => loaders'[jid] = loaders[jid]
        /\ loaders' \in [Iids -> Seq(Addresses)]
    BY <1>2, <1>4, <1>5
  <1>8. Live' = Live \cup ToSet(places) /\ \A a \in Live : loader'[a] = loader[a]
    <2> HIDE DEF Index
    <2> QED BY <1>2 DEF Live
  <1> QED BY <1>3, <1>5, <1>6, <1>7, <1>8

LEMMA NewLoaderTyped ==
    ASSUME NEW origin \in Origins, NEW file \in Files \cup {NoFile}, NEW iid \in Iids
    PROVE  /\ NewLoader(origin, file, iid) \in Loader
           /\ NewLoader(origin, file, iid).origin = origin
           /\ NewLoader(origin, file, iid).file = file
           /\ file = NoFile => NewLoader(origin, file, iid).iid = iid
           /\ NewLoader(origin, file, iid).iid \in {iid, NoIid}
           /\ origin = "FileSystem" => ~NewLoader(origin, file, iid).loaded
  <1>1. NoFile \notin Unusable
    BY FileAssumption, FactoryAssumption
  <1> QED BY <1>1 DEF NewLoader, Loader

\* Loaders that are allocated for files, or for other plugins, are at home.
LEMMA AllocationHomed ==
    ASSUME Tracking, NEW iid \in Iids, NEW origin \in Origins, NEW n \in Nat,
           NEW files \in [1 .. n -> Files \cup {NoFile}], NEW places \in Places(n),
           Allocate(iid, origin, files, places),
           \A k \in 1 .. n : IF origin = "FileSystem" THEN files[k] \in Files /\ IidOf[files[k]] = iid
                             ELSE files[k] = NoFile,
           pluginPaths' \in [Iids -> Seq(Directories)],
           readPluginFiles' \subseteq Files, pendingScans' \subseteq Iids
    PROVE  Heap' /\ Homed' /\ PointersKept
  <1>1. /\ Live' = Live \cup ToSet(places)
        /\ \A a \in Live : loader'[a] = loader[a]
        /\ \A k \in 1 .. n : loader'[places[k]] = NewLoader(origin, files[k], iid)
        /\ loaders' \in [Iids -> Seq(Addresses)]
        /\ ToSet(loaders'[iid]) = ToSet(loaders[iid]) \cup ToSet(places)
        /\ IsInjective(loaders'[iid])
        /\ \A jid \in Iids : jid # iid => loaders'[jid] = loaders[jid]
    BY Allocated
  <1>2. /\ DOMAIN places = 1 .. n
        /\ ToSet(places) \subseteq Addresses /\ ToSet(places) \cap Live = {}
    BY Placed
  <1>3. ASSUME NEW a \in ToSet(places)
        PROVE  /\ loader'[a] \in Loader
               /\ loader'[a].origin = "FileSystem" =>
                      loader'[a].file \in Files /\ IidOf[loader'[a].file] = iid
               /\ loader'[a].loaded \/ loader'[a].origin # "FileSystem" => loader'[a].iid = iid
               /\ loader'[a].iid \in {iid, NoIid}
    <2>1. PICK k \in 1 .. n : a = places[k]
      BY <1>2 DEF ToSet
    <2>2. loader'[a] = NewLoader(origin, files[k], iid) /\ files[k] \in Files \cup {NoFile}
      BY <1>1, <2>1
    <2> DEFINE file == files[k]
    <2>3. /\ NewLoader(origin, file, iid) \in Loader
          /\ NewLoader(origin, file, iid).origin = origin
          /\ NewLoader(origin, file, iid).file = file
          /\ file = NoFile => NewLoader(origin, file, iid).iid = iid
          /\ NewLoader(origin, file, iid).iid \in {iid, NoIid}
          /\ origin = "FileSystem" => ~NewLoader(origin, file, iid).loaded
      <3>1. file \in Files \cup {NoFile}
        BY <2>2
      <3> HIDE DEF file
      <3> QED BY <3>1, NewLoaderTyped
    <2>4. CASE origin = "FileSystem"
      BY <2>2, <2>3, <2>4
    <2>5. CASE origin # "FileSystem"
      BY <2>2, <2>3, <2>5
    <2> QED BY <2>4, <2>5
  <1>4. \A jid \in Iids : ToSet(loaders[jid]) \subseteq Live
    BY DEF Tracking, Heap
  <1>5. \A jid \in Iids : ToSet(loaders[jid]) \subseteq ToSet(loaders'[jid])
    BY <1>1
  <1>6. Heap'
    <2>1. Live' \subseteq Addresses
      BY <1>1, <1>2 DEF Tracking, Heap
    <2>2. \A a \in Live' : loader'[a] \in Loader
      BY <1>1, <1>3 DEF Tracking, Heap
    <2>3. \A jid \in Iids : ToSet(loaders'[jid]) \subseteq Live'
      BY <1>1, <1>4
    <2> QED BY <1>1, <2>1, <2>2, <2>3 DEF Heap
  <1>7. ASSUME NEW jid \in Iids, NEW a \in ToSet(loaders'[jid])
        PROVE  AtHome(a, jid)'
    <2>1. CASE a \in Live
      <3>1. a \in ToSet(loaders[jid])
        BY <1>1, <1>2, <2>1
      <3>2. AtHome(a, jid)
        BY <3>1 DEF Tracking, Homed
      <3>3. \A kid \in Iids : a \in ToSet(loaders'[kid]) => kid = jid
        BY <1>1, <1>2, <2>1, <3>2 DEF AtHome
      <3>4. loader'[a] = loader[a]
        BY <1>1, <2>1
      <3> QED BY <3>2, <3>3, <3>4 DEF AtHome
    <2>2. CASE a \notin Live
      <3>1. a \in ToSet(places) /\ jid = iid
        BY <1>1, <1>4, <2>2
      <3>2. \A kid \in Iids : a \in ToSet(loaders'[kid]) => kid = iid
        BY <1>1, <1>4, <2>2
      <3> QED BY <1>3, <3>1, <3>2 DEF AtHome
    <2> QED BY <2>1, <2>2
  <1>8. Homed'
    <2>1. \A jid \in Iids : IsInjective(loaders'[jid])
      BY <1>1 DEF Tracking, Homed
    <2>2. ASSUME NEW a \in Live'
          PROVE  \E jid \in Iids : a \in ToSet(loaders'[jid])
      <3>1. CASE a \in Live
        BY <1>5, <3>1 DEF Tracking, Homed
      <3>2. CASE a \notin Live
        BY <1>1, <3>2
      <3> QED BY <3>1, <3>2
    <2> QED BY <1>7, <2>1, <2>2 DEF Homed
  <1>9. PointersKept
    <2> SUFFICES ASSUME NEW a \in Live, loader[a].loaded \/ loader[a].origin # "FileSystem"
                 PROVE  /\ a \in DOMAIN loader' /\ loader'[a].file = loader[a].file
                        /\ a \in ToSet(loaders'[loader[a].iid])
      BY DEF PointersKept
    <2>1. PICK jid \in Iids : a \in ToSet(loaders[jid]) /\ AtHome(a, jid)
      BY HomeOf
    <2>2. loader[a].iid = jid
      BY <2>1 DEF AtHome
    <2> QED BY <1>1, <1>5, <2>1, <2>2 DEF Live
  <1> QED BY <1>6, <1>8, <1>9

-----------------------------------------------------------------------------
(* Each call keeps it.                                                     *)

LEMMA HeapTypes ==
    ASSUME Tracking
    PROVE  /\ \A iid \in Iids : pluginPaths[iid] \in Seq(Directories)
           /\ \A iid \in Iids : loaders[iid] \in Seq(Addresses)
           /\ \A a \in FileLoaders : a \in Live /\ loader[a].file \in Files
BY HomeOf DEF Tracking, Heap, AtHome, FileLoaders

\* A scan adds a loader for every file of the IID that it can access and has not
\* read, and is over only when there was no other.
LEMMA ScanTracking ==
    ASSUME Tracking, NEW iid \in Iids, NeedsScan(iid), Scan(iid)
    PROVE  Tracking' /\ PointersKept
  <1>1. PICK fault \in Faults : \E places \in Places(Len(NewFiles(iid, fault))) :
            /\ Allocate(iid, "FileSystem", NewFiles(iid, fault), places)
            /\ readPluginFiles' = readPluginFiles \cup ToSet(NewFiles(iid, fault))
            /\ pendingScans' = IF ScanSucceeds(iid, fault) THEN pendingScans \ {iid}
                               ELSE pendingScans
            /\ skipped' = {f \in skipped : IidOf[f] # iid} \cup PassedOver(iid, fault)
            /\ UNCHANGED pluginPaths
    BY DEF Scan
  <1> DEFINE new == NewFiles(iid, fault)
             n == Len(new)
  <1>2. PICK places \in Places(n) :
            /\ Allocate(iid, "FileSystem", new, places)
            /\ readPluginFiles' = readPluginFiles \cup ToSet(new)
            /\ pendingScans' = IF ScanSucceeds(iid, fault) THEN pendingScans \ {iid}
                               ELSE pendingScans
            /\ skipped' = {f \in skipped : IidOf[f] # iid} \cup PassedOver(iid, fault)
            /\ UNCHANGED pluginPaths
    BY <1>1
  <1>3. /\ Candidates(iid, fault) \in Seq(Files)
        /\ \A i \in DOMAIN pluginPaths[iid] : pluginPaths[iid][i] \notin fault.noticed =>
               \A f \in ToSet(FilesIn[pluginPaths[iid][i]]) :
                   ReadIid(f, fault) = iid => f \in ToSet(Candidates(iid, fault))
    BY HeapTypes, CandidatesElements
  <1>4. /\ new \in Seq(Files) /\ IsInjective(new)
        /\ \A f \in ToSet(new) : f \notin readPluginFiles /\ IidOf[f] = iid
        /\ \A f \in ToSet(Candidates(iid, fault)) :
               f \notin fault.noticed /\ ReadIid(f, fault) = iid =>
                   f \in readPluginFiles \cup ToSet(new)
    BY <1>3, NewFilesElements
  <1> HIDE DEF new
  <1>5. /\ n \in Nat /\ DOMAIN new = 1 .. n /\ ToSet(new) \subseteq Files
        /\ \A k \in 1 .. n : new[k] \in Files /\ new[k] \in ToSet(new)
    BY <1>4, ToSetOf
  <1>6. Heap' /\ Homed' /\ PointersKept
    <2>1. /\ "FileSystem" \in Origins
          /\ pluginPaths' \in [Iids -> Seq(Directories)]
          /\ readPluginFiles' \subseteq Files /\ pendingScans' \subseteq Iids
      BY <1>2, <1>5 DEF Origins, Tracking, Heap
    <2>2. new \in [1 .. n -> Files \cup {NoFile}]
      <3>1. new = [k \in 1 .. n |-> new[k]]
        BY <1>4, <1>5
      <3> HIDE DEF n
      <3> QED BY <1>5, <3>1
    <2>3. \A k \in 1 .. n : IF "FileSystem" = "FileSystem"
                            THEN new[k] \in Files /\ IidOf[new[k]] = iid ELSE new[k] = NoFile
      BY <1>4, <1>5
    <2> HIDE DEF n
    <2> QED BY <1>2, <1>5, <2>1, <2>2, <2>3, AllocationHomed
  <1>7. /\ Live' = Live \cup ToSet(places)
        /\ \A a \in Live : loader'[a] = loader[a]
        /\ \A k \in 1 .. n : loader'[places[k]] = NewLoader("FileSystem", new[k], iid)
    <2> DEFINE origin == "FileSystem"
    <2>1. n \in Nat /\ Allocate(iid, origin, new, places)
      BY <1>2, <1>5
    <2> HIDE DEF n, origin
    <2>2. /\ Live' = Live \cup ToSet(places)
          /\ \A a \in Live : loader'[a] = loader[a]
          /\ \A k \in 1 .. n : loader'[places[k]] = NewLoader(origin, new[k], iid)
          /\ loaders' \in [Iids -> Seq(Addresses)]
          /\ ToSet(loaders'[iid]) = ToSet(loaders[iid]) \cup ToSet(places)
          /\ IsInjective(loaders'[iid])
          /\ \A jid \in Iids : jid # iid => loaders'[jid] = loaders[jid]
      BY <2>1, Allocated
    <2> QED BY <2>2 DEF origin
  <1>8. /\ DOMAIN places = 1 .. n /\ IsInjective(places) /\ ToSet(places) \cap Live = {}
    <2> HIDE DEF n
    <2> QED BY <1>2, <1>5, Placed
  <1>9. ASSUME NEW k \in 1 .. n
        PROVE  /\ places[k] \in ToSet(places) /\ places[k] \in FileLoaders'
               /\ loader'[places[k]].file = new[k]
    <2>1. places[k] \in ToSet(places)
      BY <1>8 DEF ToSet
    <2>2. loader'[places[k]] = NewLoader("FileSystem", new[k], iid)
      BY <1>7
    <2>3. /\ NewLoader("FileSystem", new[k], iid).origin = "FileSystem"
          /\ NewLoader("FileSystem", new[k], iid).file = new[k]
      BY DEF NewLoader
    <2> HIDE DEF n
    <2> QED BY <1>7, <2>1, <2>2, <2>3 DEF FileLoaders
  <1>10. \A a \in FileLoaders : a \in FileLoaders' /\ loader'[a] = loader[a]
    BY <1>7 DEF FileLoaders
  <1>11. ASSUME NEW a \in FileLoaders'
         PROVE  \/ a \in FileLoaders /\ loader'[a] = loader[a]
                \/ \E k \in 1 .. n : a = places[k]
    <2>1. a \in Live \cup ToSet(places) /\ loader'[a].origin = "FileSystem"
      BY <1>7 DEF FileLoaders
    <2>2. CASE a \in Live
      BY <1>7, <2>1, <2>2 DEF FileLoaders
    <2>3. CASE a \in ToSet(places)
      BY <1>8, <2>3 DEF ToSet
    <2> QED BY <2>1, <2>2, <2>3
  <1>12. FilesTracked'
    <2>1. readPluginFiles = {loader[a].file : a \in FileLoaders}
          /\ \A a, b \in FileLoaders : loader[a].file = loader[b].file => a = b
      BY DEF Tracking, FilesTracked
    <2>2. \A f \in ToSet(new) : \E k \in 1 .. n : f = new[k]
      BY <1>5 DEF ToSet
    <2>3. ASSUME NEW f
          PROVE  f \in readPluginFiles' <=> \E a \in FileLoaders' : f = loader'[a].file
      <3>1. ASSUME f \in readPluginFiles PROVE \E a \in FileLoaders' : f = loader'[a].file
        BY <1>10, <2>1, <3>1
      <3>2. ASSUME f \in ToSet(new) PROVE \E a \in FileLoaders' : f = loader'[a].file
        BY <1>9, <2>2, <3>2
      <3>3. ASSUME NEW a \in FileLoaders' PROVE loader'[a].file \in readPluginFiles'
        <4>1. CASE a \in FileLoaders /\ loader'[a] = loader[a]
          BY <1>2, <2>1, <4>1
        <4>2. CASE \E k \in 1 .. n : a = places[k]
          <5>1. PICK k \in 1 .. n : a = places[k]
            BY <4>2
          <5> QED BY <1>2, <1>5, <1>9, <5>1
        <4> QED BY <1>11, <4>1, <4>2
      <3> QED BY <1>2, <3>1, <3>2, <3>3
    <2>4. ASSUME NEW a \in FileLoaders', NEW b \in FileLoaders', loader'[a].file = loader'[b].file
          PROVE  a = b
      <3>1. CASE a \in FileLoaders /\ b \in FileLoaders
        BY <1>10, <2>1, <2>4, <3>1
      <3>2. CASE a \in FileLoaders /\ \E k \in 1 .. n : b = places[k]
        <4>1. PICK k \in 1 .. n : b = places[k]
          BY <3>2
        <4>2. loader'[a].file \in readPluginFiles /\ loader'[b].file = new[k]
              /\ new[k] \notin readPluginFiles
          BY <1>4, <1>5, <1>9, <1>10, <2>1, <3>2, <4>1
        <4> QED BY <2>4, <4>2
      <3>3. CASE b \in FileLoaders /\ \E k \in 1 .. n : a = places[k]
        <4>1. PICK k \in 1 .. n : a = places[k]
          BY <3>3
        <4>2. loader'[b].file \in readPluginFiles /\ loader'[a].file = new[k]
              /\ new[k] \notin readPluginFiles
          BY <1>4, <1>5, <1>9, <1>10, <2>1, <3>3, <4>1
        <4> QED BY <2>4, <4>2
      <3>4. CASE (\E k \in 1 .. n : a = places[k]) /\ \E k \in 1 .. n : b = places[k]
        <4>1. PICK k \in 1 .. n : a = places[k]
          BY <3>4
        <4>2. PICK l \in 1 .. n : b = places[l]
          BY <3>4
        <4>3. new[k] = new[l]
          BY <1>9, <2>4, <4>1, <4>2
        <4>4. k = l
          BY <1>4, <1>5, <4>3 DEF IsInjective
        <4> QED BY <4>1, <4>2, <4>4
      <3> QED BY <1>11, <3>1, <3>2, <3>3, <3>4
    <2> QED BY <2>3, <2>4 DEF FilesTracked
  <1>13. FilesFound'
    <2> SUFFICES ASSUME NEW jid \in Iids \ pendingScans', NEW i \in DOMAIN pluginPaths[jid],
                        NEW f \in ToSet(FilesIn[pluginPaths[jid][i]]), IidOf[f] = jid
                 PROVE  f \in skipped' \/ \E a \in FileLoaders' : loader'[a].file = f
      BY <1>2 DEF FilesFound
    <2>1. CASE jid \notin pendingScans
      <3>1. f \in skipped \/ \E a \in FileLoaders : loader[a].file = f
        BY <2>1 DEF Tracking, FilesFound
      <3>2. jid # iid
        BY <2>1 DEF NeedsScan
      <3> QED BY <1>2, <1>10, <3>1, <3>2
    <2>2. CASE jid \in pendingScans
      <3>1. jid = iid /\ ScanSucceeds(iid, fault)
        BY <1>2, <2>2
      <3>2. pluginPaths[iid][i] \in ToSet(pluginPaths[iid])
        BY <3>1 DEF ToSet
      <3>3. pluginPaths[iid][i] \notin fault.noticed
        BY <3>1, <3>2 DEF ScanSucceeds
      <3>4. CASE ReadIid(f, fault) = iid
        <4>1. f \in ToSet(Candidates(iid, fault)) /\ f \notin fault.noticed
          BY <1>3, <3>1, <3>3, <3>4 DEF ScanSucceeds
        <4>2. f \in readPluginFiles'
          BY <1>2, <1>4, <3>1, <3>4, <4>1
        <4> QED BY <1>12, <4>2 DEF FilesTracked
      <3>5. CASE ReadIid(f, fault) # iid
        <4>1. f \in fault.unread
          BY <3>1, <3>5 DEF ReadIid
        <4>2. CASE f \in readPluginFiles
          <5>1. PICK a \in FileLoaders : loader[a].file = f
            BY <4>2 DEF Tracking, FilesTracked
          <5> QED BY <1>10, <5>1
        <4>3. CASE f \notin readPluginFiles
          BY <1>2, <3>1, <4>1, <4>3 DEF PassedOver
        <4> QED BY <4>2, <4>3
      <3> QED BY <3>4, <3>5
    <2> QED BY <2>1, <2>2
  <1> QED BY <1>6, <1>12, <1>13 DEF Tracking

LEMMA SameHeap ==
    ASSUME Tracking, UNCHANGED <<pluginPaths, loaders, loader, readPluginFiles, pendingScans, skipped>>
    PROVE  Tracking' /\ PointersKept
  <1>1. Heap' /\ FilesTracked' /\ FilesFound'
    BY DEF Tracking, Heap, FilesTracked, FilesFound, Live, FileLoaders
  <1>2. Homed'
    BY DEF Tracking, Homed, AtHome, Live
  <1>3. PointersKept
    <2> SUFFICES ASSUME NEW a \in Live, loader[a].loaded \/ loader[a].origin # "FileSystem"
                 PROVE  a \in ToSet(loaders[loader[a].iid])
      BY DEF PointersKept, Live
    <2>1. PICK jid \in Iids : a \in ToSet(loaders[jid]) /\ AtHome(a, jid)
      BY HomeOf
    <2> QED BY <2>1 DEF AtHome
  <1> QED BY <1>1, <1>2, <1>3 DEF Tracking

LEMMA ScanIfNeededTracking ==
    ASSUME Tracking, NEW iid \in Iids, ScanIfNeeded(iid)
    PROVE  Tracking' /\ PointersKept
  <1>1. CASE NeedsScan(iid)
    BY <1>1, ScanTracking DEF ScanIfNeeded
  <1>2. CASE ~NeedsScan(iid)
    <2>1. UNCHANGED <<pluginPaths, loaders, loader, readPluginFiles, pendingScans, skipped>>
      BY <1>2 DEF ScanIfNeeded
    <2> QED BY <2>1, SameHeap
  <1> QED BY <1>1, <1>2

\* New search paths discard loaders of the IID that no live instance needs, and with
\* them the record that their files were read.
LEMMA SetPluginPathsTracking ==
    ASSUME Tracking, NEW iid \in Iids, NEW paths \in Seq(Directories), SetPluginPaths(iid, paths)
    PROVE  Tracking' /\ PointersKept
  <1> DEFINE gone == Discarded(iid)
  <1>1. /\ loaders' = [loaders EXCEPT ![iid] = Without(iid, gone)]
        /\ loader' = [a \in Live \ gone |-> loader[a]]
        /\ readPluginFiles' = readPluginFiles \ {loader[a].file : a \in gone}
        /\ pluginPaths' = [pluginPaths EXCEPT ![iid] = paths]
        /\ pendingScans' = pendingScans \cup {iid}
    BY DEF SetPluginPaths
  <1>2. \A a \in gone : a \in ToSet(loaders[iid]) /\ a \in FileLoaders /\ ~loader[a].loaded
    BY DEF Discarded
  <1> HIDE DEF gone
  <1>3. /\ loaders[iid] \in Seq(Addresses) /\ IsInjective(loaders[iid])
        /\ \A jid \in Iids : \A a \in ToSet(loaders[jid]) : a \in Live /\ AtHome(a, jid)
        /\ loaders \in [Iids -> Seq(Addresses)] /\ Live \subseteq Addresses
    BY HeapTypes DEF Tracking, Heap, Homed
  <1>4. /\ Without(iid, gone) \in Seq(Addresses)
        /\ ToSet(Without(iid, gone)) = ToSet(loaders[iid]) \cap (Addresses \ gone)
        /\ IsInjective(Without(iid, gone))
    <2> DEFINE S == Addresses \ gone
               s == loaders[iid]
    <2> HIDE DEF S, s
    <2>1. s \in Seq(Addresses) /\ IsInjective(s)
      BY <1>3 DEF s
    <2>2. /\ Kept(s, S) \in Seq(Addresses) /\ ToSet(Kept(s, S)) = ToSet(s) \cap S
          /\ IsInjective(s) => IsInjective(Kept(s, S))
      BY <2>1, KeptElements
    <2>3. Without(iid, gone) = Kept(s, S)
      BY DEF Without, s, S
    <2> QED BY <2>1, <2>2, <2>3 DEF s, S
  <1>5. /\ loaders'[iid] = Without(iid, gone)
        /\ \A jid \in Iids : jid # iid => loaders'[jid] = loaders[jid]
        /\ loaders' \in [Iids -> Seq(Addresses)]
    BY <1>1, <1>3, <1>4
  <1>6. Live' = Live \ gone /\ \A a \in Live \ gone : loader'[a] = loader[a]
    BY <1>1 DEF Live
  <1>7. /\ pluginPaths' \in [Iids -> Seq(Directories)]
        /\ \A jid \in Iids : jid # iid => pluginPaths'[jid] = pluginPaths[jid]
    BY <1>1 DEF Tracking, Heap
  <1>8. ASSUME NEW jid \in Iids
        PROVE  ToSet(loaders'[jid]) = ToSet(loaders[jid]) \ gone
    <2>1. CASE jid = iid
      <3>1. ToSet(loaders[iid]) \subseteq Addresses
        BY <1>3
      <3> QED BY <1>4, <1>5, <2>1, <3>1
    <2>2. CASE jid # iid
      <3>1. \A a \in gone : a \notin ToSet(loaders[jid])
        BY <1>2, <1>3, <2>2 DEF AtHome
      <3> QED BY <1>5, <2>2, <3>1
    <2> QED BY <2>1, <2>2
  <1>9. Heap'
    <2>1. Live' \subseteq Addresses /\ \A a \in Live' : loader'[a] \in Loader
      BY <1>3, <1>6 DEF Tracking, Heap
    <2>2. \A jid \in Iids : ToSet(loaders'[jid]) \subseteq Live'
      BY <1>3, <1>6, <1>8
    <2>3. readPluginFiles' \subseteq Files /\ pendingScans' \subseteq Iids
      BY <1>1 DEF Tracking, Heap
    <2> QED BY <1>5, <1>7, <2>1, <2>2, <2>3 DEF Heap
  <1>10. Homed'
    <2>1. \A jid \in Iids : IsInjective(loaders'[jid])
      BY <1>4, <1>5 DEF Tracking, Homed
    <2>2. ASSUME NEW jid \in Iids, NEW a \in ToSet(loaders'[jid])
          PROVE  AtHome(a, jid)'
      <3>1. AtHome(a, jid) /\ loader'[a] = loader[a]
        BY <1>3, <1>6, <1>8
      <3>2. \A kid \in Iids : a \in ToSet(loaders'[kid]) => a \in ToSet(loaders[kid])
        BY <1>8
      <3> QED BY <3>1, <3>2 DEF AtHome
    <2>3. ASSUME NEW a \in Live'
          PROVE  \E jid \in Iids : a \in ToSet(loaders'[jid])
      BY <1>6, <1>8 DEF Tracking, Homed
    <2> QED BY <2>1, <2>2, <2>3 DEF Homed
  <1>11. FileLoaders' = FileLoaders \ gone
    BY <1>6 DEF FileLoaders
  <1>12. FilesTracked'
    <2>1. /\ readPluginFiles = {loader[a].file : a \in FileLoaders}
          /\ \A a, b \in FileLoaders : loader[a].file = loader[b].file => a = b
      BY DEF Tracking, FilesTracked
    <2>2. \A a \in FileLoaders' : loader'[a] = loader[a]
      BY <1>6, <1>11 DEF FileLoaders
    <2>3. \A f : f \in readPluginFiles' <=> \E a \in FileLoaders \ gone : f = loader[a].file
      BY <1>1, <1>2, <2>1
    <2>4. \A f : f \in readPluginFiles' <=> \E a \in FileLoaders' : f = loader'[a].file
      BY <1>11, <2>2, <2>3
    <2>5. \A a, b \in FileLoaders' : loader'[a].file = loader'[b].file => a = b
      BY <1>11, <2>1, <2>2
    <2> QED BY <2>4, <2>5 DEF FilesTracked
  <1>13. FilesFound'
    <2> SUFFICES ASSUME NEW jid \in Iids \ pendingScans', NEW i \in DOMAIN pluginPaths'[jid],
                        NEW f \in ToSet(FilesIn[pluginPaths'[jid][i]]), IidOf[f] = jid
                 PROVE  f \in skipped' \/ \E a \in FileLoaders' : loader'[a].file = f
      BY DEF FilesFound
    <2>1. jid # iid /\ jid \notin pendingScans /\ pluginPaths'[jid] = pluginPaths[jid]
      BY <1>1, <1>7
    <2>2. CASE f \in skipped
      BY <2>2 DEF SetPluginPaths
    <2>3. CASE f \notin skipped
      <3>1. PICK a \in FileLoaders : loader[a].file = f
        BY <2>1, <2>3 DEF Tracking, FilesFound
      <3>2. a \notin gone
        BY <1>2, <1>3, <2>1, <3>1 DEF AtHome, FileLoaders
      <3> QED BY <1>6, <1>11, <3>1, <3>2 DEF FileLoaders
    <2> QED BY <2>2, <2>3
  <1>14. PointersKept
    <2> SUFFICES ASSUME NEW a \in Live, loader[a].loaded \/ loader[a].origin # "FileSystem"
                 PROVE  /\ a \in DOMAIN loader' /\ loader'[a].file = loader[a].file
                        /\ a \in ToSet(loaders'[loader[a].iid])
      BY DEF PointersKept
    <2>1. PICK jid \in Iids : a \in ToSet(loaders[jid]) /\ AtHome(a, jid)
      BY HomeOf
    <2>2. loader[a].iid = jid /\ a \notin gone
      BY <1>2, <2>1 DEF AtHome, FileLoaders
    <2> QED BY <1>6, <1>8, <2>1, <2>2 DEF Live
  <1> QED BY <1>9, <1>10, <1>12, <1>13, <1>14 DEF Tracking

LEMMA AddPluginPathTracking ==
    ASSUME Tracking, NEW iid \in Iids, NEW directory \in Directories, AddPluginPath(iid, directory)
    PROVE  Tracking' /\ PointersKept
  <1>1. /\ pluginPaths' = [pluginPaths EXCEPT ![iid] = Append(@, directory)]
        /\ pendingScans' = pendingScans \cup {iid}
        /\ UNCHANGED <<loaders, loader, readPluginFiles, skipped>>
    BY DEF AddPluginPath
  <1>2. Heap'
    <2>1. pluginPaths[iid] \in Seq(Directories)
      BY HeapTypes
    <2>2. Append(pluginPaths[iid], directory) \in Seq(Directories)
      BY <2>1, AppendProperties
    <2>3. pluginPaths' \in [Iids -> Seq(Directories)]
      BY <1>1, <2>2 DEF Tracking, Heap
    <2> QED BY <1>1, <2>3 DEF Tracking, Heap, Live
  <1>3. Homed' /\ FilesTracked'
    BY <1>1 DEF Tracking, Homed, AtHome, FilesTracked, Live, FileLoaders
  <1>4. FilesFound'
    <2> SUFFICES ASSUME NEW jid \in Iids \ pendingScans', NEW i \in DOMAIN pluginPaths'[jid],
                        NEW f \in ToSet(FilesIn[pluginPaths'[jid][i]]), IidOf[f] = jid
                 PROVE  f \in skipped' \/ \E a \in FileLoaders' : loader'[a].file = f
      BY DEF FilesFound
    <2>1. jid # iid /\ jid \notin pendingScans
      BY <1>1
    <2>2. pluginPaths'[jid] = pluginPaths[jid]
      BY <1>1, <2>1 DEF Tracking, Heap
    <2> QED BY <1>1, <2>1, <2>2 DEF Tracking, FilesFound, FileLoaders, Live
  <1>5. PointersKept
    <2> SUFFICES ASSUME NEW a \in Live, loader[a].loaded \/ loader[a].origin # "FileSystem"
                 PROVE  a \in ToSet(loaders[loader[a].iid])
      BY <1>1 DEF PointersKept, Live
    <2>1. PICK jid \in Iids : a \in ToSet(loaders[jid]) /\ AtHome(a, jid)
      BY HomeOf
    <2> QED BY <2>1 DEF AtHome
  <1> QED BY <1>2, <1>3, <1>4, <1>5 DEF Tracking

\* Plugins that are not of the filesystem leave the record of the files alone.
LEMMA AddPluginsTracking ==
    ASSUME Tracking, NEW iid \in Iids, NEW origin \in {"Static", "Runtime"}, NEW n \in Nat,
           AddPlugins(iid, origin, n)
    PROVE  Tracking' /\ PointersKept
  <1> DEFINE files == [i \in 1 .. n |-> NoFile]
  <1>1. /\ \E places \in Places(n) : Allocate(iid, origin, files, places)
        /\ UNCHANGED <<pluginPaths, readPluginFiles, pendingScans, skipped>>
    BY DEF AddPlugins
  <1>2. files \in [1 .. n -> Files \cup {NoFile}] /\ \A k \in 1 .. n : files[k] = NoFile
    OBVIOUS
  <1>3. origin \in Origins /\ origin # "FileSystem"
    BY DEF Origins
  <1> HIDE DEF files
  <1>4. PICK places \in Places(n) : Allocate(iid, origin, files, places)
    BY <1>1
  <1>5. Heap' /\ Homed' /\ PointersKept
    <2>1. \A k \in 1 .. n : IF origin = "FileSystem" THEN files[k] \in Files /\ IidOf[files[k]] = iid
                            ELSE files[k] = NoFile
      BY <1>2, <1>3
    <2>2. /\ pluginPaths' \in [Iids -> Seq(Directories)]
          /\ readPluginFiles' \subseteq Files /\ pendingScans' \subseteq Iids
      BY <1>1 DEF Tracking, Heap
    <2> QED BY <1>2, <1>3, <1>4, <2>1, <2>2, AllocationHomed
  <1>6. /\ Live' = Live \cup ToSet(places)
        /\ \A a \in Live : loader'[a] = loader[a]
        /\ \A k \in 1 .. n : loader'[places[k]] = NewLoader(origin, files[k], iid)
        /\ loaders' \in [Iids -> Seq(Addresses)]
        /\ ToSet(loaders'[iid]) = ToSet(loaders[iid]) \cup ToSet(places)
        /\ IsInjective(loaders'[iid])
        /\ \A jid \in Iids : jid # iid => loaders'[jid] = loaders[jid]
    BY <1>4, Allocated
  <1>7. DOMAIN places = 1 .. n /\ ToSet(places) \cap Live = {}
    BY Placed
  <1>8. ASSUME NEW a \in ToSet(places)
        PROVE  loader'[a].origin # "FileSystem"
    <2>1. PICK k \in 1 .. n : a = places[k]
      BY <1>7 DEF ToSet
    <2>2. loader'[a] = NewLoader(origin, files[k], iid)
      BY <1>6, <2>1
    <2>3. NewLoader(origin, files[k], iid).origin = origin
      BY DEF NewLoader
    <2> QED BY <1>3, <2>2, <2>3
  <1>9. FileLoaders' = FileLoaders /\ \A a \in FileLoaders : loader'[a] = loader[a]
    BY <1>6, <1>8 DEF FileLoaders
  <1>10. FilesTracked' /\ FilesFound'
    BY <1>1, <1>9 DEF Tracking, FilesTracked, FilesFound
  <1> QED BY <1>5, <1>10 DEF Tracking

\* A plugin whose loader has an IID is loaded, or one is unloaded.
LEMMA LoadedTracking ==
    ASSUME Tracking, NEW a \in Live, NEW b \in BOOLEAN, b => loader[a].iid # NoIid,
           loader' = [loader EXCEPT ![a].loaded = b],
           UNCHANGED <<pluginPaths, loaders, readPluginFiles, pendingScans, skipped>>
    PROVE  Tracking' /\ PointersKept
  <1>1. \A c \in Live : loader[c] \in Loader
    BY DEF Tracking, Heap
  <1>2. Live' = Live
    BY DEF Live
  <1>3. ASSUME NEW c \in Live
        PROVE  /\ loader'[c] \in Loader /\ loader'[c].origin = loader[c].origin
               /\ loader'[c].file = loader[c].file /\ loader'[c].iid = loader[c].iid
               /\ c # a => loader'[c].loaded = loader[c].loaded
               /\ c = a => loader'[c].loaded = b
    BY <1>1 DEF Live, Loader
  <1>4. FileLoaders' = FileLoaders
    BY <1>2, <1>3 DEF FileLoaders
  <1>5. Heap' /\ FilesTracked' /\ FilesFound'
    <2>1. \A c \in FileLoaders : loader'[c].file = loader[c].file
      BY <1>3 DEF FileLoaders
    <2>2. FilesTracked' /\ FilesFound'
      BY <1>4, <2>1 DEF Tracking, FilesTracked, FilesFound
    <2>3. Heap'
      BY <1>2, <1>3 DEF Tracking, Heap
    <2> QED BY <2>2, <2>3
  <1>6. Homed'
    <2>1. ASSUME NEW jid \in Iids, NEW c \in ToSet(loaders[jid])
          PROVE  AtHome(c, jid)'
      <3>1. AtHome(c, jid) /\ c \in Live
        BY DEF Tracking, Homed, Heap
      <3>2. jid # NoIid
        BY FileAssumption
      <3>3. CASE c = a
        BY <1>3, <3>1, <3>2, <3>3 DEF AtHome
      <3>4. CASE c # a
        BY <1>3, <3>1, <3>4 DEF AtHome
      <3> QED BY <3>3, <3>4
    <2> QED BY <1>2, <2>1 DEF Tracking, Homed
  <1>7. PointersKept
    <2> SUFFICES ASSUME NEW c \in Live, loader[c].loaded \/ loader[c].origin # "FileSystem"
                 PROVE  /\ c \in DOMAIN loader' /\ loader'[c].file = loader[c].file
                        /\ c \in ToSet(loaders[loader[c].iid])
      BY DEF PointersKept
    <2>1. PICK jid \in Iids : c \in ToSet(loaders[jid]) /\ AtHome(c, jid)
      BY HomeOf
    <2> QED BY <1>2, <1>3, <2>1 DEF AtHome, Live
  <1> QED BY <1>5, <1>6, <1>7 DEF Tracking

LEMMA UseTracking ==
    ASSUME Tracking, Use
    PROVE  Tracking' /\ PointersKept
  <1>1. PICK a \in Live : Load(a) \/ Unload(a)
    BY DEF Use
  <1>2. CASE Load(a)
    <2>1. /\ loader[a].iid # NoIid /\ loader' = [loader EXCEPT ![a].loaded = TRUE]
          /\ UNCHANGED <<pluginPaths, loaders, readPluginFiles, pendingScans, skipped>>
      BY <1>2 DEF Load
    <2> QED BY <2>1, LoadedTracking
  <1>3. CASE Unload(a)
    <2>1. /\ loader' = [loader EXCEPT ![a].loaded = FALSE]
          /\ UNCHANGED <<pluginPaths, loaders, readPluginFiles, pendingScans, skipped>>
      BY <1>3 DEF Unload
    <2> QED BY <2>1, LoadedTracking
  <1> QED BY <1>1, <1>2, <1>3

LEMMA PathsTyped ==
    ASSUME NEW paths \in PathSequences
    PROVE  paths \in Seq(Directories)
  <1>1. PICK m \in 0 .. MaxPaths : paths \in [1 .. m -> Directories]
    BY DEF PathSequences, SeqOf
  <1> QED BY <1>1, FactoryAssumption, SeqDef

LEMMA ConfigureTracking ==
    ASSUME Tracking, Configure
    PROVE  Tracking' /\ PointersKept
  <1>1. PICK iid \in Iids :
            \/ \E paths \in PathSequences : SetPluginPaths(iid, paths)
            \/ \E directory \in Directories : AddPluginPath(iid, directory)
            \/ AddRuntimePlugin(iid) \/ AddStaticPlugins(iid)
    BY DEF Configure
  <1>2. CASE \E paths \in PathSequences : SetPluginPaths(iid, paths)
    <2>1. PICK paths \in PathSequences : SetPluginPaths(iid, paths)
      BY <1>2
    <2>2. paths \in Seq(Directories)
      BY PathsTyped
    <2> QED BY <2>1, <2>2, SetPluginPathsTracking
  <1>3. CASE \E directory \in Directories : AddPluginPath(iid, directory)
    BY <1>3, AddPluginPathTracking
  <1>4. CASE AddRuntimePlugin(iid)
    BY <1>4, AddPluginsTracking DEF AddRuntimePlugin
  <1>5. CASE AddStaticPlugins(iid)
    <2>1. StaticPlugins[iid] \in Nat
      BY FactoryAssumption
    <2> QED BY <1>5, <2>1, AddPluginsTracking DEF AddStaticPlugins
  <1> QED BY <1>1, <1>2, <1>3, <1>4, <1>5

LEMMA QueryTracking ==
    ASSUME Tracking, Flags, Query
    PROVE  Tracking' /\ PointersKept
  <1>1. PICK t \in Threads : QueryExclusive(t) \/ \E iid \in Iids : QueryShared(t, iid)
    BY DEF Query
  <1>2. CASE QueryExclusive(t)
    <2>1. query[t] \in Iids /\ ScanIfNeeded(query[t])
      BY <1>2 DEF QueryExclusive, Flags
    <2> QED BY <2>1, ScanIfNeededTracking
  <1>3. CASE \E iid \in Iids : QueryShared(t, iid)
    BY <1>3, SameHeap DEF QueryShared
  <1> QED BY <1>1, <1>2, <1>3

LEMMA FactoryInitTracking ==
    ASSUME FactoryInit
    PROVE  Tracking /\ Flags
  <1>1. Live = {} /\ FileLoaders = {}
    BY DEF FactoryInit, Live, FileLoaders
  <1>2. \A iid \in Iids : loaders[iid] = <<>> /\ pluginPaths[iid] = <<>>
    BY DEF FactoryInit
  <1>3. ToSet(<<>>) = {} /\ IsInjective(<<>>) /\ DOMAIN <<>> = {}
    <2>1. DOMAIN <<>> = {}
      OBVIOUS
    <2> QED BY <2>1 DEF ToSet, IsInjective
  <1>4. Heap
    <2>1. <<>> \in Seq(Directories) /\ <<>> \in Seq(Addresses)
      OBVIOUS
    <2>2. pluginPaths \in [Iids -> Seq(Directories)] /\ loaders \in [Iids -> Seq(Addresses)]
      BY <2>1 DEF FactoryInit
    <2> QED BY <1>1, <1>2, <1>3, <2>2 DEF Heap, FactoryInit
  <1>5. Homed
    BY <1>1, <1>2, <1>3 DEF Homed
  <1>6. FilesTracked
    BY <1>1 DEF FilesTracked, FactoryInit
  <1>7. FilesFound
    BY <1>2, <1>3 DEF FilesFound
  <1>8. Flags
    BY DEF FactoryInit, Flags
  <1> QED BY <1>4, <1>5, <1>6, <1>7, <1>8 DEF Tracking

LEMMA NotifiedFlags ==
    ASSUME dirty \in [Iids -> BOOLEAN], NEW iid, NEW changed \in BOOLEAN
    PROVE  Notified(iid, changed) \in [Iids -> BOOLEAN]
BY DEF Notified

LEMMA FactoryNextFlags ==
    ASSUME Flags, FactoryNext
    PROVE  Flags'
  <1>1. CASE Query
    <2>1. PICK t \in Threads : QueryExclusive(t) \/ \E iid \in Iids : QueryShared(t, iid)
      BY <1>1 DEF Query
    <2>2. CASE QueryExclusive(t)
      <3>1. dirty' = Notified(query[t], loaders' # loaders) /\ query' = [query EXCEPT ![t] = NoIid]
        BY <2>2 DEF QueryExclusive
      <3> DEFINE changed == loaders' # loaders
      <3>2. changed \in BOOLEAN /\ dirty' = Notified(query[t], changed)
        BY <3>1
      <3> HIDE DEF changed
      <3>3. dirty' \in [Iids -> BOOLEAN]
        BY <3>2, NotifiedFlags DEF Flags
      <3> QED BY <3>1, <3>3 DEF Flags
    <2>3. CASE \E iid \in Iids : QueryShared(t, iid)
      BY <2>3 DEF QueryShared, Flags
    <2> QED BY <2>1, <2>2, <2>3
  <1>2. CASE Use /\ UNCHANGED query
    BY <1>2 DEF Use, Load, Unload, Flags
  <1>3. CASE Configure /\ UNCHANGED query
    <2>1. PICK iid \in Iids :
              \/ \E paths \in PathSequences : SetPluginPaths(iid, paths)
              \/ \E directory \in Directories : AddPluginPath(iid, directory)
              \/ AddRuntimePlugin(iid) \/ AddStaticPlugins(iid)
      BY <1>3 DEF Configure
    <2>2. dirty' = dirty \/ \E changed \in BOOLEAN : dirty' = Notified(iid, changed)
      <3>1. CASE \E paths \in PathSequences : SetPluginPaths(iid, paths)
        <4> DEFINE changed == Discarded(iid) # {}
        <4>1. changed \in BOOLEAN /\ dirty' = Notified(iid, changed)
          BY <3>1 DEF SetPluginPaths
        <4> HIDE DEF changed
        <4> QED BY <4>1
      <3>2. CASE \E directory \in Directories : AddPluginPath(iid, directory)
        BY <3>2 DEF AddPluginPath
      <3>3. CASE AddRuntimePlugin(iid) \/ AddStaticPlugins(iid)
        BY <3>3 DEF AddRuntimePlugin, AddStaticPlugins, AddPlugins
      <3> QED BY <2>1, <3>1, <3>2, <3>3
    <2>3. dirty' \in [Iids -> BOOLEAN]
      BY <2>2, NotifiedFlags DEF Flags
    <2> QED BY <1>3, <2>3 DEF Flags
  <1> QED BY <1>1, <1>2, <1>3 DEF FactoryNext

\* Steps of the factory, and steps that leave it alone.
LEMMA FactoryStep ==
    ASSUME Tracking /\ Flags, [FactoryNext]_factoryVars
    PROVE  (Tracking /\ Flags)' /\ PointersKept
  <1>1. CASE FactoryNext
    <2>1. Flags'
      BY <1>1, FactoryNextFlags
    <2>2. CASE Query
      BY <2>1, <2>2, QueryTracking
    <2>3. CASE Configure
      BY <2>1, <2>3, ConfigureTracking
    <2>4. CASE Use
      BY <2>1, <2>4, UseTracking
    <2> QED BY <1>1, <2>2, <2>3, <2>4 DEF FactoryNext
  <1>2. CASE UNCHANGED factoryVars
    <2>1. UNCHANGED <<pluginPaths, loaders, loader, readPluginFiles, pendingScans, skipped>>
          /\ UNCHANGED <<dirty, query>>
      BY <1>2 DEF factoryVars
    <2>2. Flags'
      BY <2>1 DEF Flags
    <2> QED BY <2>1, <2>2, SameHeap
  <1> QED BY <1>1, <1>2

LEMMA TypesOfTracking ==
    ASSUME Tracking /\ Flags
    PROVE  FactoryTypeOK
BY DEF Tracking, Flags, Heap, FactoryTypeOK

\* The lists that plugins() hands out hold only loaders that exist, whatever the
\* factory is asked to load, unload, add, scan and discard, and in any order.
THEOREM FactoryTypesHold == FactorySpec => []FactoryTypeOK
  <1>1. FactoryInit => Tracking /\ Flags
    BY FactoryInitTracking
  <1>2. (Tracking /\ Flags) /\ [FactoryNext]_factoryVars => (Tracking /\ Flags)'
    BY FactoryStep
  <1>3. Tracking /\ Flags => FactoryTypeOK
    BY TypesOfTracking
  <1> QED BY <1>1, <1>2, <1>3, PTL DEF FactorySpec

\* The record of the files that were read is exact: over every discard and scan a
\* file has a loader if and only if it is in the record, and then one.
THEOREM FilesAlwaysTracked == FactorySpec => []FilesTracked
  <1>1. FactoryInit => Tracking /\ Flags
    BY FactoryInitTracking
  <1>2. (Tracking /\ Flags) /\ [FactoryNext]_factoryVars => (Tracking /\ Flags)'
    BY FactoryStep
  <1>3. Tracking /\ Flags => FilesTracked
    BY DEF Tracking
  <1> QED BY <1>1, <1>2, <1>3, PTL DEF FactorySpec

\* When no scan of an IID is pending, each of its files in the search paths has a
\* loader or is one that the last scan could not read: what a scan that failed left
\* out, or a discard took away, leaves the scan pending.
THEOREM ScansComplete == FactorySpec => []ScanComplete
  <1>1. FactoryInit => Tracking /\ Flags
    BY FactoryInitTracking
  <1>2. (Tracking /\ Flags) /\ [FactoryNext]_factoryVars => (Tracking /\ Flags)'
    BY FactoryStep
  <1>3. Tracking /\ Flags => ScanComplete
    BY DEF Tracking, FilesFound, ScanComplete, Missing
  <1> QED BY <1>1, <1>2, <1>3, PTL DEF FactorySpec

\* No call discards a loader whose instance is live or that is not of the filesystem,
\* or takes it out of the list of its IID: the pointers that plugins() gave out to it
\* stay good.
THEOREM PointersStayValid == FactorySpec => LivePluginsKept
  <1>1. FactoryInit => Tracking /\ Flags
    BY FactoryInitTracking
  <1>2. (Tracking /\ Flags) /\ [FactoryNext]_factoryVars => (Tracking /\ Flags)'
    BY FactoryStep
  <1>3. (Tracking /\ Flags) /\ [FactoryNext]_factoryVars =>
            [\A a \in Live : loader[a].loaded \/ loader[a].origin # "FileSystem" =>
                 /\ a \in DOMAIN loader'
                 /\ loader'[a].file = loader[a].file
                 /\ a \in ToSet(loaders'[loader[a].iid])]_factoryVars
    BY FactoryStep DEF PointersKept
  <1> QED BY <1>1, <1>2, <1>3, PTL DEF FactorySpec, LivePluginsKept

=============================================================================
