---------------------------- MODULE Manifest_proof ----------------------------
(***************************************************************************)
(* Proofs about the reconciliation of the copies of one path (Reconcile,   *)
(* ManifestWalk) and about the compaction that acts on it (VaultSync), for *)
(* any number of devices, copies, records, clocks and stamps.              *)
(* What a recursive function computes is proved by induction over the      *)
(* prefixes of a list, in the form of a least counterexample.              *)
(***************************************************************************)
EXTENDS ManifestWalk, VaultSync, FiniteSetTheorems, NaturalsInduction, SequenceTheorems, TLAPS
--------------------------------------------------------------------------------
(* Induction over 0..N. *)

LEMMA LeastOf ==
    ASSUME NEW S, S \subseteq Nat, S # {}
    PROVE  \E j \in S : \A k \in S : j <= k
<1>1. IsWellFoundedOn(OpToRel(<, Nat), Nat)
  BY NatLessThanWellFounded
<1>2. PICK j \in S : \A k \in S : ~(<<k, j>> \in OpToRel(<, Nat))
  BY <1>1, WFMin, Zenon
<1>3. \A k \in S : ~(k < j)
  BY <1>2 DEF OpToRel
<1>4. \A k \in S : j \in Nat /\ k \in Nat
  OBVIOUS
<1> QED
  BY <1>3, <1>4

LEMMA PrefixInduction ==
    ASSUME NEW N \in Nat, NEW S, 0 \in S,
           \A n \in 0 .. N - 1 : n \in S => n + 1 \in S
    PROVE  0 .. N \subseteq S
<1> DEFINE bad == 0 .. N \ S
<1> SUFFICES ASSUME bad # {} PROVE FALSE
  OBVIOUS
<1>1. bad \subseteq Nat
  OBVIOUS
<1>2. PICK j \in bad : \A k \in bad : j <= k
  BY <1>1, LeastOf
<1>3. j # 0 /\ j - 1 \in 0 .. N - 1 /\ j - 1 \notin bad /\ (j - 1) + 1 = j
  BY <1>2
<1>4. j - 1 \in S
  BY <1>3
<1> QED
  BY <1>2, <1>3, <1>4
--------------------------------------------------------------------------------
(* Filter. *)

IsFilter(f, s, S, N) ==
    f = [n \in 0 .. N |->
           IF n = 0 THEN <<>>
           ELSE IF s[n] \in S THEN Append(f[n - 1], s[n]) ELSE f[n - 1]]

LEMMA FilterExists ==
    ASSUME NEW s, NEW S, NEW N \in Nat
    PROVE  \E f : IsFilter(f, s, S, N)
<1> DEFINE T == {n \in 0 .. N : \E f : IsFilter(f, s, S, n)}
<1>1. 0 \in T
  <2>1. IsFilter([n \in 0 .. 0 |-> <<>>], s, S, 0)
    BY DEF IsFilter
  <2> QED
    BY <2>1
<1>2. ASSUME NEW n \in 0 .. N - 1, n \in T PROVE n + 1 \in T
  <2>1. PICK f : IsFilter(f, s, S, n)
    BY <1>2
  <2> DEFINE e == IF s[n + 1] \in S THEN Append(f[n], s[n + 1]) ELSE f[n]
             g == [i \in 0 .. n + 1 |-> IF i = n + 1 THEN e ELSE f[i]]
  <2>2. ASSUME NEW i \in 0 .. n + 1
        PROVE  g[i] = IF i = 0 THEN <<>>
                      ELSE IF s[i] \in S THEN Append(g[i - 1], s[i]) ELSE g[i - 1]
    <3> HIDE DEF e
    <3>1. CASE i = n + 1
      <4>1. g[i] = e /\ g[i - 1] = f[n] /\ i # 0
        BY <3>1
      <4> QED
        BY <3>1, <4>1 DEF e
    <3>2. CASE i \in 0 .. n
      <4>1. g[i] = f[i] /\ (i # 0 => g[i - 1] = f[i - 1])
        BY <3>2
      <4>2. f[i] = IF i = 0 THEN <<>>
                   ELSE IF s[i] \in S THEN Append(f[i - 1], s[i]) ELSE f[i - 1]
        BY <2>1, <3>2 DEF IsFilter
      <4> HIDE DEF g
      <4> QED
        BY <4>1, <4>2
    <3> QED
      BY <3>1, <3>2
  <2> HIDE DEF e
  <2>3. g = [i \in 0 .. n + 1 |-> g[i]]
    OBVIOUS
  <2> HIDE DEF g
  <2>4. IsFilter(g, s, S, n + 1)
    BY <2>2, <2>3 DEF IsFilter
  <2>5. n + 1 \in 0 .. N
    OBVIOUS
  <2> QED
    BY <2>4, <2>5
<1> HIDE DEF T
<1>3. 0 .. N \subseteq T
  BY <1>1, <1>2, PrefixInduction
<1> QED
  BY <1>3 DEF T

LEMMA FilterUnfold ==
    ASSUME NEW s, NEW S, Len(s) \in Nat
    PROVE  \E f : IsFilter(f, s, S, Len(s)) /\ Filter(s, S) = f[Len(s)]
<1> DEFINE f == CHOOSE f : IsFilter(f, s, S, Len(s))
<1>1. IsFilter(f, s, S, Len(s))
  BY FilterExists
<1>2. Filter(s, S) = f[Len(s)]
  BY DEF Filter, IsFilter
<1> QED
  BY <1>1, <1>2

Distinct(s) == \A i, j \in DOMAIN s : s[i] = s[j] => i = j

LEMMA AppendFacts ==
    ASSUME NEW C, NEW t \in Seq(C), NEW e \in C
    PROVE  /\ Append(t, e) \in Seq(C)
           /\ Len(Append(t, e)) = Len(t) + 1
           /\ SetOf(Append(t, e)) = SetOf(t) \cup {e}
           /\ Distinct(t) /\ e \notin SetOf(t) => Distinct(Append(t, e))
<1> DEFINE u == Append(t, e)
<1>1. /\ u \in Seq(C) /\ Len(u) = Len(t) + 1 /\ u[Len(t) + 1] = e
      /\ \A i \in 1 .. Len(t) : u[i] = t[i]
  BY AppendProperties
<1>2. Len(t) \in Nat /\ DOMAIN t = 1 .. Len(t) /\ DOMAIN u = 1 .. Len(t) + 1
  BY <1>1, LenProperties
<1> HIDE DEF u
<1>3. SetOf(u) = SetOf(t) \cup {e}
  <2>1. ASSUME NEW i \in DOMAIN u PROVE u[i] \in SetOf(t) \cup {e}
    BY <1>1, <1>2 DEF SetOf
  <2>2. ASSUME NEW i \in DOMAIN t PROVE t[i] \in SetOf(u)
    <3>1. i \in DOMAIN u /\ u[i] = t[i]
      BY <1>1, <1>2
    <3> QED
      BY <3>1 DEF SetOf
  <2>3. e \in SetOf(u)
    <3>1. Len(t) + 1 \in DOMAIN u
      BY <1>2
    <3> QED
      BY <1>1, <3>1 DEF SetOf
  <2> QED
    BY <2>1, <2>2, <2>3 DEF SetOf
<1>4. ASSUME Distinct(t), e \notin SetOf(t) PROVE Distinct(u)
  <2>1. \A i \in DOMAIN t : t[i] # e
    BY <1>4 DEF SetOf
  <2> SUFFICES ASSUME NEW i \in DOMAIN u, NEW j \in DOMAIN u, u[i] = u[j] PROVE i = j
    BY DEF Distinct
  <2> QED
    BY <1>1, <1>2, <1>4, <2>1 DEF Distinct
<1> QED
  BY <1>1, <1>3, <1>4 DEF u

LEMMA FilterFacts ==
    ASSUME NEW C, NEW s \in Seq(C), NEW S
    PROVE  /\ Filter(s, S) \in Seq(C)
           /\ SetOf(Filter(s, S)) = SetOf(s) \cap S
           /\ Distinct(s) => Distinct(Filter(s, S))
<1>1. Len(s) \in Nat /\ DOMAIN s = 1 .. Len(s) /\ \A i \in 1 .. Len(s) : s[i] \in C
  BY LenProperties, ElementOfSeq
<1>2. PICK f : IsFilter(f, s, S, Len(s)) /\ Filter(s, S) = f[Len(s)]
  BY <1>1, FilterUnfold
<1>3. f[0] = <<>>
  BY <1>1, <1>2 DEF IsFilter
<1>4. \A n \in 0 .. Len(s) - 1 :
         f[n + 1] = IF s[n + 1] \in S THEN Append(f[n], s[n + 1]) ELSE f[n]
  <2> TAKE n \in 0 .. Len(s) - 1
  <2>1. n + 1 \in 0 .. Len(s) /\ n + 1 # 0 /\ (n + 1) - 1 = n
    BY <1>1
  <2>2. \A m \in 0 .. Len(s) : m # 0 =>
           f[m] = IF s[m] \in S THEN Append(f[m - 1], s[m]) ELSE f[m - 1]
    BY <1>2 DEF IsFilter
  <2> QED
    BY <2>1, <2>2
<1> DEFINE P(n) == /\ f[n] \in Seq(C)
                   /\ SetOf(f[n]) = {s[i] : i \in 1 .. n} \cap S
                   /\ Distinct(s) => Distinct(f[n])
           T == {n \in 0 .. Len(s) : P(n)}
<1>5. 0 \in T
  <2>1. f[0] \in Seq(C) /\ SetOf(f[0]) = {} /\ Distinct(f[0])
    BY <1>3 DEF SetOf, Distinct
  <2>2. {s[i] : i \in 1 .. 0} = {}
    OBVIOUS
  <2> QED
    BY <1>1, <2>1, <2>2
<1>6. ASSUME NEW n \in 0 .. Len(s) - 1, n \in T PROVE n + 1 \in T
  <2>1. P(n) /\ n + 1 \in 1 .. Len(s) /\ n + 1 \in 0 .. Len(s)
    BY <1>1, <1>6
  <2>2. {s[i] : i \in 1 .. n + 1} = {s[i] : i \in 1 .. n} \cup {s[n + 1]}
    <3>1. 1 .. n + 1 = (1 .. n) \cup {n + 1}
      BY <1>1
    <3> QED
      BY <3>1
  <2>3. CASE s[n + 1] \in S
    <3>1. f[n + 1] = Append(f[n], s[n + 1]) /\ s[n + 1] \in C
      BY <1>1, <1>4, <2>1, <2>3
    <3>2. Distinct(s) => s[n + 1] \notin {s[i] : i \in 1 .. n}
      BY <1>1, <2>1 DEF Distinct
    <3>3. f[n + 1] \in Seq(C) /\ SetOf(f[n + 1]) = SetOf(f[n]) \cup {s[n + 1]}
      BY <2>1, <3>1, AppendFacts
    <3>4. Distinct(s) => Distinct(f[n + 1])
      BY <2>1, <3>1, <3>2, AppendFacts
    <3> QED
      BY <2>1, <2>2, <2>3, <3>3, <3>4
  <2>4. CASE s[n + 1] \notin S
    <3>1. f[n + 1] = f[n]
      BY <1>4, <2>4
    <3> QED
      BY <2>1, <2>2, <2>4, <3>1
  <2> QED
    BY <2>3, <2>4
<1> HIDE DEF T
<1>7. 0 .. Len(s) \subseteq T
  BY <1>1, <1>5, <1>6, PrefixInduction
<1>8. P(Len(s))
  <2>1. Len(s) \in 0 .. Len(s)
    BY <1>1
  <2>2. Len(s) \in T
    BY <1>7, <2>1
  <2> HIDE DEF P
  <2> QED
    BY <2>2 DEF T
<1>9. SetOf(s) = {s[i] : i \in 1 .. Len(s)}
  BY <1>1 DEF SetOf
<1> QED
  BY <1>2, <1>8, <1>9
--------------------------------------------------------------------------------
(* Place and sliceStable. *)

LEMMA GreatestOf ==
    ASSUME NEW N \in Nat, NEW S, S \subseteq 0 .. N, S # {}
    PROVE  \E j \in S : \A k \in S : k <= j
<1> DEFINE T == {N - k : k \in S}
<1>1. T \subseteq Nat /\ T # {}
  <2>1. \A k \in S : N - k \in Nat
    <3> TAKE k \in S
    <3>1. k \in 0 .. N
      OBVIOUS
    <3> QED
      BY <3>1
  <2> QED
    BY <2>1
<1>2. PICK m \in T : \A k \in T : m <= k
  BY <1>1, LeastOf
<1>3. PICK j \in S : m = N - j
  BY <1>2
<1>4. \A k \in S : N - j <= N - k
  BY <1>2, <1>3
<1>5. \A k \in S : k <= j
  <2> TAKE k \in S
  <2>1. k \in 0 .. N /\ j \in 0 .. N /\ N - j <= N - k
    BY <1>4
  <2> QED
    BY <2>1
<1> QED
  BY <1>5

(* An element is placed behind the first p it does not come before. *)
PlacedAt(u, C, t, c, p) ==
    /\ p = 0 => \A j \in 1 .. Len(t) : ~(candidateCompare(c, t[j]) <= 0)
    /\ p > 0 => candidateCompare(c, t[p]) <= 0
    /\ u \in Seq(C)
    /\ Len(u) = Len(t) + 1
    /\ \A i \in 1 .. p : u[i] = t[i]
    /\ u[p + 1] = c
    /\ \A i \in p + 1 .. Len(t) : u[i + 1] = t[i]

LEMMA PlaceFacts ==
    ASSUME NEW C, NEW t \in Seq(C), NEW c \in C
    PROVE  \E p \in 0 .. Len(t) : PlacedAt(Place(t, c), C, t, c, p)
<1> DEFINE stops == {0} \cup {j \in 1 .. Len(t) : candidateCompare(c, t[j]) <= 0}
           p == CHOOSE i \in stops : \A j \in stops : j <= i
           a == SubSeq(t, 1, p)
           b == SubSeq(t, p + 1, Len(t))
           u == a \o <<c>> \o b
<1>1. Len(t) \in Nat /\ \A i \in 1 .. Len(t) : t[i] \in C
  BY LenProperties, ElementOfSeq
<1>2. Place(t, c) = u
  BY DEF Place
<1>3. stops \subseteq 0 .. Len(t) /\ stops # {}
  BY <1>1
<1>4. p \in stops /\ \A j \in stops : j <= p
  <2>1. \E i \in stops : \A j \in stops : j <= i
    BY <1>1, <1>3, GreatestOf
  <2> HIDE DEF stops
  <2> QED
    BY <2>1
<1>5. /\ p \in 0 .. Len(t)
      /\ p > 0 => candidateCompare(c, t[p]) <= 0
      /\ p = 0 => \A j \in 1 .. Len(t) : ~(candidateCompare(c, t[j]) <= 0)
  <2> HIDE DEF p
  <2> QED
    BY <1>1, <1>3, <1>4
<1> HIDE DEF p, stops
<1>6. a \in Seq(C) /\ Len(a) = p /\ \A i \in 1 .. p : a[i] = t[i]
  <2>1. 1 \in Int /\ p \in Int /\ \A i \in 1 .. p : t[i] \in C
    BY <1>1, <1>5
  <2>2. /\ a \in Seq(C)
        /\ Len(a) = IF 1 <= p THEN p - 1 + 1 ELSE 0
        /\ \A i \in 1 .. p - 1 + 1 : a[i] = t[1 + i - 1]
    BY <2>1, SubSeqProperties
  <2> HIDE DEF a
  <2>3. Len(a) = p
    BY <1>1, <1>5, <2>2
  <2>4. \A i \in 1 .. p : i \in 1 .. p - 1 + 1 /\ 1 + i - 1 = i
    BY <1>1, <1>5
  <2> QED
    BY <2>2, <2>3, <2>4
<1>7. b \in Seq(C) /\ Len(b) = Len(t) - p /\ \A i \in 1 .. Len(t) - p : b[i] = t[p + i]
  <2>1. p + 1 \in Int /\ Len(t) \in Int /\ \A i \in p + 1 .. Len(t) : t[i] \in C
    BY <1>1, <1>5
  <2>2. /\ b \in Seq(C)
        /\ Len(b) = IF p + 1 <= Len(t) THEN Len(t) - (p + 1) + 1 ELSE 0
        /\ \A i \in 1 .. Len(t) - (p + 1) + 1 : b[i] = t[(p + 1) + i - 1]
    BY <2>1, SubSeqProperties
  <2> HIDE DEF b
  <2>3. Len(b) = Len(t) - p
    BY <1>1, <1>5, <2>2
  <2>4. \A i \in 1 .. Len(t) - p : i \in 1 .. Len(t) - (p + 1) + 1 /\ (p + 1) + i - 1 = p + i
    BY <1>1, <1>5
  <2> QED
    BY <2>2, <2>3, <2>4
<1> HIDE DEF a, b
<1> DEFINE m == a \o <<c>>
<1>8. m \in Seq(C) /\ Len(m) = p + 1 /\ (\A i \in 1 .. p : m[i] = t[i]) /\ m[p + 1] = c
  <2>1. <<c>> \in Seq(C) /\ Len(<<c>>) = 1 /\ <<c>>[1] = c
    OBVIOUS
  <2>2. /\ m \in Seq(C) /\ Len(m) = Len(a) + Len(<<c>>)
        /\ \A i \in 1 .. Len(a) + Len(<<c>>) :
              m[i] = IF i <= Len(a) THEN a[i] ELSE <<c>>[i - Len(a)]
    BY <1>6, <2>1, ConcatProperties
  <2> HIDE DEF m
  <2>3. Len(m) = p + 1
    BY <1>6, <2>1, <2>2
  <2>4. \A i \in 1 .. p : m[i] = t[i]
    BY <1>5, <1>6, <2>1, <2>2
  <2>5. m[p + 1] = <<c>>[1]
    BY <1>5, <1>6, <2>1, <2>2
  <2> QED
    BY <2>1, <2>2, <2>3, <2>4, <2>5
<1>9. u = m \o b
  OBVIOUS
<1> HIDE DEF m, u
<1>10. /\ u \in Seq(C) /\ Len(u) = Len(m) + Len(b)
       /\ \A i \in 1 .. Len(m) + Len(b) : u[i] = IF i <= Len(m) THEN m[i] ELSE b[i - Len(m)]
  BY <1>7, <1>8, <1>9, ConcatProperties
<1>11. Len(u) = Len(t) + 1
  BY <1>1, <1>5, <1>7, <1>8, <1>10
<1>12. (\A i \in 1 .. p : u[i] = t[i]) /\ u[p + 1] = c
  <2>1. \A i \in 1 .. p + 1 : i \in 1 .. Len(m) + Len(b) /\ i <= Len(m)
    BY <1>1, <1>5, <1>7, <1>8
  <2>2. \A i \in 1 .. p + 1 : u[i] = m[i]
    BY <1>10, <2>1
  <2>3. p + 1 \in 1 .. p + 1 /\ \A i \in 1 .. p : i \in 1 .. p + 1
    BY <1>5
  <2> QED
    BY <1>8, <2>2, <2>3
<1>13. \A i \in p + 1 .. Len(t) : u[i + 1] = t[i]
  <2> TAKE i \in p + 1 .. Len(t)
  <2>1. /\ i + 1 \in 1 .. Len(m) + Len(b) /\ ~(i + 1 <= Len(m)) /\ (i + 1) - Len(m) = i - p
        /\ i - p \in 1 .. Len(t) - p /\ p + (i - p) = i
    BY <1>1, <1>5, <1>7, <1>8
  <2>2. u[i + 1] = b[i - p]
    BY <1>10, <2>1
  <2> QED
    BY <1>7, <2>1, <2>2
<1> QED
  BY <1>2, <1>5, <1>10, <1>11, <1>12, <1>13 DEF PlacedAt

(* The comparison is an order of the candidates in A: total and transitive. *)
Ordered(A) ==
    /\ \A a, b \in A : candidateCompare(a, b) <= 0 \/ candidateCompare(b, a) <= 0
    /\ \A a, b, c \in A :
          candidateCompare(a, b) <= 0 /\ candidateCompare(b, c) <= 0 => candidateCompare(a, c) <= 0

(* No candidate in A comes before the first of t. *)
FirstIsMaximal(t, A) == \A a \in A : candidateCompare(a, t[1]) <= 0

LEMMA PlaceSet ==
    ASSUME NEW C, NEW t \in Seq(C), NEW c \in C
    PROVE  /\ Place(t, c) \in Seq(C) /\ Len(Place(t, c)) = Len(t) + 1
           /\ SetOf(Place(t, c)) = SetOf(t) \cup {c}
           /\ Distinct(t) /\ c \notin SetOf(t) => Distinct(Place(t, c))
<1> DEFINE u == Place(t, c)
<1>0. PICK p \in 0 .. Len(t) : PlacedAt(u, C, t, c, p)
  BY PlaceFacts
<1>1. /\ p = 0 => \A j \in 1 .. Len(t) : ~(candidateCompare(c, t[j]) <= 0)
      /\ p > 0 => candidateCompare(c, t[p]) <= 0
      /\ u \in Seq(C)
      /\ Len(u) = Len(t) + 1
      /\ \A i \in 1 .. p : u[i] = t[i]
      /\ u[p + 1] = c
      /\ \A i \in p + 1 .. Len(t) : u[i + 1] = t[i]
  BY <1>0 DEF PlacedAt
<1>2. Len(t) \in Nat /\ DOMAIN t = 1 .. Len(t) /\ DOMAIN u = 1 .. Len(t) + 1
  BY <1>1, LenProperties
<1> HIDE DEF u
<1>3. ASSUME NEW i \in DOMAIN u
      PROVE  \/ i \in 1 .. p /\ u[i] = t[i]
             \/ i = p + 1 /\ u[i] = c
             \/ i - 1 \in p + 1 .. Len(t) /\ u[i] = t[i - 1]
  <2>1. CASE i \in 1 .. p
    BY <1>1, <2>1
  <2>2. CASE i = p + 1
    BY <1>1, <2>2
  <2>3. CASE i \in p + 2 .. Len(t) + 1
    <3>1. i - 1 \in p + 1 .. Len(t) /\ (i - 1) + 1 = i
      BY <1>2, <2>3
    <3> QED
      BY <1>1, <3>1
  <2> QED
    BY <1>2, <2>1, <2>2, <2>3
<1>4. SetOf(u) = SetOf(t) \cup {c}
  <2>1. ASSUME NEW i \in DOMAIN u PROVE u[i] \in SetOf(t) \cup {c}
    <3>1. 1 .. p \subseteq DOMAIN t /\ p + 1 .. Len(t) \subseteq DOMAIN t
      BY <1>2
    <3> QED
      BY <1>3, <3>1 DEF SetOf
  <2>2. ASSUME NEW i \in DOMAIN t PROVE t[i] \in SetOf(u)
    <3>1. CASE i \in 1 .. p
      <4>1. i \in DOMAIN u /\ u[i] = t[i]
        BY <1>1, <1>2, <3>1
      <4> QED
        BY <4>1 DEF SetOf
    <3>2. CASE i \in p + 1 .. Len(t)
      <4>1. i + 1 \in DOMAIN u /\ u[i + 1] = t[i]
        BY <1>1, <1>2, <3>2
      <4> QED
        BY <4>1 DEF SetOf
    <3> QED
      BY <1>2, <3>1, <3>2
  <2>3. c \in SetOf(u)
    <3>1. p + 1 \in DOMAIN u
      BY <1>2
    <3> QED
      BY <1>1, <3>1 DEF SetOf
  <2> QED
    BY <2>1, <2>2, <2>3 DEF SetOf
<1>5. ASSUME Distinct(t), c \notin SetOf(t) PROVE Distinct(u)
  <2>1. \A i \in 1 .. Len(t) : t[i] # c
    BY <1>2, <1>5 DEF SetOf
  <2>2. \A i, j \in 1 .. Len(t) : t[i] = t[j] => i = j
    BY <1>2, <1>5 DEF Distinct
  <2> SUFFICES ASSUME NEW i \in DOMAIN u, NEW j \in DOMAIN u, u[i] = u[j] PROVE i = j
    BY DEF Distinct
  <2>3. i \in Nat /\ j \in Nat /\ p \in Nat
    BY <1>2
  <2>4. \/ i \in 1 .. p /\ u[i] = t[i]
        \/ i = p + 1 /\ u[i] = c
        \/ i - 1 \in p + 1 .. Len(t) /\ u[i] = t[i - 1]
    BY <1>3
  <2>5. \/ j \in 1 .. p /\ u[j] = t[j]
        \/ j = p + 1 /\ u[j] = c
        \/ j - 1 \in p + 1 .. Len(t) /\ u[j] = t[j - 1]
    BY <1>3
  <2> QED
    BY <1>2, <2>1, <2>2, <2>3, <2>4, <2>5
<1> QED
  BY <1>1, <1>4, <1>5 DEF u

LEMMA PlaceFirst ==
    ASSUME NEW C, NEW t \in Seq(C), NEW c \in C, Ordered(SetOf(t) \cup {c}),
           t # <<>> => FirstIsMaximal(t, SetOf(t))
    PROVE  FirstIsMaximal(Place(t, c), SetOf(t) \cup {c})
<1> DEFINE u == Place(t, c)
           A == SetOf(t) \cup {c}
<1>0. PICK p \in 0 .. Len(t) : PlacedAt(u, C, t, c, p)
  BY PlaceFacts
<1>1. /\ p = 0 => \A j \in 1 .. Len(t) : ~(candidateCompare(c, t[j]) <= 0)
      /\ p > 0 => candidateCompare(c, t[p]) <= 0
      /\ u \in Seq(C)
      /\ Len(u) = Len(t) + 1
      /\ \A i \in 1 .. p : u[i] = t[i]
      /\ u[p + 1] = c
      /\ \A i \in p + 1 .. Len(t) : u[i + 1] = t[i]
  BY <1>0 DEF PlacedAt
<1>2. Len(t) \in Nat /\ DOMAIN t = 1 .. Len(t) /\ \A i \in 1 .. Len(t) : t[i] \in SetOf(t)
  BY LenProperties DEF SetOf
<1> HIDE DEF u
<1>3. CASE p = 0
  <2>1. u[1] = c
    BY <1>1, <1>3
  <2>2. candidateCompare(c, c) <= 0
    BY DEF Ordered
  <2>3. ASSUME NEW a \in SetOf(t) PROVE candidateCompare(a, c) <= 0
    <3>1. PICK j \in 1 .. Len(t) : a = t[j]
      BY <1>2 DEF SetOf
    <3>2. ~(candidateCompare(c, a) <= 0)
      BY <1>1, <1>3, <3>1
    <3> QED
      BY <3>2 DEF Ordered
  <2> QED
    BY <2>1, <2>2, <2>3 DEF FirstIsMaximal, u
<1>4. CASE p > 0
  <2>1. 1 \in 1 .. p /\ p \in 1 .. Len(t) /\ 1 \in 1 .. Len(t)
    BY <1>2, <1>4
  <2>2. u[1] = t[1] /\ t[1] \in A /\ t[p] \in A
    BY <1>1, <1>2, <2>1
  <2>3. t # <<>>
    BY <1>2, <2>1
  <2>4. \A a \in SetOf(t) : candidateCompare(a, t[1]) <= 0
    BY <2>3 DEF FirstIsMaximal
  <2>5. candidateCompare(t[p], t[1]) <= 0
    BY <1>2, <2>1, <2>4
  <2>6. candidateCompare(c, t[1]) <= 0
    BY <1>1, <1>4, <2>2, <2>5 DEF Ordered
  <2> QED
    BY <2>2, <2>4, <2>6 DEF FirstIsMaximal, u
<1> QED
  BY <1>2, <1>3, <1>4

IsSort(f, s, N) == f = [n \in 0 .. N |-> IF n = 0 THEN <<>> ELSE Place(f[n - 1], s[n])]

LEMMA SortExists ==
    ASSUME NEW s, NEW N \in Nat
    PROVE  \E f : IsSort(f, s, N)
<1> DEFINE T == {n \in 0 .. N : \E f : IsSort(f, s, n)}
<1>1. 0 \in T
  <2>1. IsSort([n \in 0 .. 0 |-> <<>>], s, 0)
    BY DEF IsSort
  <2> QED
    BY <2>1
<1>2. ASSUME NEW n \in 0 .. N - 1, n \in T PROVE n + 1 \in T
  <2>1. PICK f : IsSort(f, s, n)
    BY <1>2
  <2> DEFINE e == Place(f[n], s[n + 1])
             g == [i \in 0 .. n + 1 |-> IF i = n + 1 THEN e ELSE f[i]]
  <2>2. ASSUME NEW i \in 0 .. n + 1
        PROVE  g[i] = IF i = 0 THEN <<>> ELSE Place(g[i - 1], s[i])
    <3> HIDE DEF e
    <3>1. CASE i = n + 1
      <4>1. g[i] = e /\ g[i - 1] = f[n] /\ i # 0
        BY <3>1
      <4> QED
        BY <3>1, <4>1 DEF e
    <3>2. CASE i \in 0 .. n
      <4>1. g[i] = f[i] /\ (i # 0 => g[i - 1] = f[i - 1])
        BY <3>2
      <4>2. f[i] = IF i = 0 THEN <<>> ELSE Place(f[i - 1], s[i])
        BY <2>1, <3>2 DEF IsSort
      <4> HIDE DEF g
      <4> QED
        BY <4>1, <4>2
    <3> QED
      BY <3>1, <3>2
  <2> HIDE DEF e
  <2>3. g = [i \in 0 .. n + 1 |-> g[i]]
    OBVIOUS
  <2> HIDE DEF g
  <2>4. IsSort(g, s, n + 1)
    BY <2>2, <2>3 DEF IsSort
  <2>5. n + 1 \in 0 .. N
    OBVIOUS
  <2> QED
    BY <2>4, <2>5
<1> HIDE DEF T
<1>3. 0 .. N \subseteq T
  BY <1>1, <1>2, PrefixInduction
<1> QED
  BY <1>3 DEF T

(* The sort keeps every copy, and a copy no other comes before is first. *)
LEMMA SortFacts ==
    ASSUME NEW C, NEW s \in Seq(C)
    PROVE  /\ sliceStable(s) \in Seq(C) /\ Len(sliceStable(s)) = Len(s)
           /\ SetOf(sliceStable(s)) = SetOf(s)
           /\ Distinct(s) => Distinct(sliceStable(s))
           /\ s # <<>> /\ Ordered(SetOf(s)) => FirstIsMaximal(sliceStable(s), SetOf(s))
<1>1. Len(s) \in Nat /\ DOMAIN s = 1 .. Len(s) /\ \A i \in 1 .. Len(s) : s[i] \in C
  BY LenProperties, ElementOfSeq
<1> DEFINE f == CHOOSE f : IsSort(f, s, Len(s))
<1>2. IsSort(f, s, Len(s))
  BY <1>1, SortExists
<1>3. sliceStable(s) = f[Len(s)]
  BY DEF sliceStable, IsSort
<1> HIDE DEF f
<1>4. f[0] = <<>>
  BY <1>1, <1>2 DEF IsSort
<1>5. \A n \in 0 .. Len(s) - 1 : f[n + 1] = Place(f[n], s[n + 1])
  <2> TAKE n \in 0 .. Len(s) - 1
  <2>1. n + 1 \in 0 .. Len(s) /\ n + 1 # 0 /\ (n + 1) - 1 = n
    BY <1>1
  <2>2. \A m \in 0 .. Len(s) : m # 0 => f[m] = Place(f[m - 1], s[m])
    BY <1>2 DEF IsSort
  <2> QED
    BY <2>1, <2>2
<1> DEFINE Read(n) == {s[i] : i \in 1 .. n}
           P(n) == /\ f[n] \in Seq(C) /\ Len(f[n]) = n
                   /\ SetOf(f[n]) = Read(n)
                   /\ Distinct(s) => Distinct(f[n])
                   /\ n > 0 /\ Ordered(SetOf(s)) => FirstIsMaximal(f[n], Read(n))
           T == {n \in 0 .. Len(s) : P(n)}
<1>6. SetOf(s) = Read(Len(s)) /\ \A n \in 0 .. Len(s) : Read(n) \subseteq SetOf(s)
  BY <1>1 DEF SetOf
<1>7. 0 \in T
  <2>1. f[0] \in Seq(C) /\ Len(f[0]) = 0 /\ SetOf(f[0]) = {} /\ Distinct(f[0])
    BY <1>4 DEF SetOf, Distinct
  <2>2. Read(0) = {}
    OBVIOUS
  <2> QED
    BY <1>1, <2>1, <2>2
<1>8. ASSUME NEW n \in 0 .. Len(s) - 1, n \in T PROVE n + 1 \in T
  <2>1. P(n) /\ n + 1 \in 1 .. Len(s) /\ n + 1 \in 0 .. Len(s)
    BY <1>1, <1>8
  <2>2. Read(n + 1) = Read(n) \cup {s[n + 1]}
    <3>1. 1 .. n + 1 = (1 .. n) \cup {n + 1}
      BY <1>1
    <3> QED
      BY <3>1
  <2>3. f[n + 1] = Place(f[n], s[n + 1]) /\ s[n + 1] \in C
    BY <1>1, <1>5, <2>1
  <2>4. Distinct(s) => s[n + 1] \notin Read(n)
    BY <1>1, <2>1 DEF Distinct
  <2>5. Read(n + 1) \subseteq SetOf(s)
    BY <1>6, <2>1
  <2> HIDE DEF Read
  <2>6. f[n + 1] \in Seq(C) /\ Len(f[n + 1]) = n + 1 /\ SetOf(f[n + 1]) = Read(n + 1)
    <3>1. f[n] \in Seq(C) /\ Len(f[n]) = n /\ SetOf(f[n]) = Read(n)
      BY <2>1
    <3> DEFINE t == f[n]
               c == s[n + 1]
    <3>2. t \in Seq(C) /\ c \in C
      BY <2>3, <3>1
    <3> HIDE DEF t, c
    <3>3. /\ Place(t, c) \in Seq(C) /\ Len(Place(t, c)) = Len(t) + 1
          /\ SetOf(Place(t, c)) = SetOf(t) \cup {c}
      BY <3>2, PlaceSet
    <3> QED
      BY <2>2, <2>3, <3>1, <3>3 DEF t, c
  <2>7. Distinct(s) => Distinct(f[n + 1])
    BY <2>1, <2>3, <2>4, PlaceSet
  <2>8. ASSUME Ordered(SetOf(s)) PROVE FirstIsMaximal(f[n + 1], Read(n + 1))
    <3>1. Ordered(Read(n + 1))
      BY <2>5, <2>8 DEF Ordered
    <3>2. f[n] # <<>> => n > 0
      BY <1>4
    <3>3. f[n] # <<>> => FirstIsMaximal(f[n], SetOf(f[n]))
      BY <2>1, <2>8, <3>2
    <3> QED
      BY <2>1, <2>2, <2>3, <3>1, <3>3, PlaceFirst
  <2> QED
    BY <2>1, <2>6, <2>7, <2>8
<1> HIDE DEF T
<1>9. 0 .. Len(s) \subseteq T
  BY <1>1, <1>7, <1>8, PrefixInduction
<1>10. P(Len(s))
  <2>1. Len(s) \in 0 .. Len(s)
    BY <1>1
  <2>2. Len(s) \in T
    BY <1>9, <2>1
  <2> HIDE DEF P
  <2> QED
    BY <2>2 DEF T
<1>11. s # <<>> => Len(s) > 0
  BY <1>1, EmptySeq
<1> HIDE DEF Read
<1> QED
  BY <1>3, <1>6, <1>10, <1>11
--------------------------------------------------------------------------------
(* Candidates and their clocks. *)

CandidateSet == [src : Nat, del : BOOLEAN, body : Bodies \cup {0}, gen : Nat, upd : Nat,
                 delGen : Nat, clock : Clock, key : Nat]

LEMMA CandidateFacts ==
    ASSUME NEW a \in CandidateSet
    PROVE  /\ a.src \in Nat /\ a.del \in BOOLEAN /\ a.gen \in Nat /\ a.upd \in Nat
           /\ a.delGen \in Nat /\ a.clock \in Clock /\ a.key \in Nat
BY DEF CandidateSet

(* Domination is a strict order. *)
LEMMA DominationOrder ==
    ASSUME NEW a \in Clock, NEW b \in Clock, NEW c \in Clock
    PROVE  /\ ~clockDominates(a, a)
           /\ clockDominates(a, b) /\ clockDominates(b, c) => clockDominates(a, c)
<1>1. \A d \in Devices : a[d] \in Nat /\ b[d] \in Nat /\ c[d] \in Nat
  BY DEF Clock
<1>2. ~clockDominates(a, a)
  BY <1>1 DEF clockDominates
<1>3. ASSUME clockDominates(a, b), clockDominates(b, c) PROVE clockDominates(a, c)
  <2>1. Clocked(a) /\ Clocked(c)
    BY <1>3 DEF clockDominates
  <2>2. \A d \in Devices : a[d] >= b[d] /\ b[d] >= c[d]
    BY <1>3 DEF clockDominates
  <2>3. PICK d \in Devices : a[d] > b[d]
    BY <1>3 DEF clockDominates
  <2>4. \A e \in Devices : a[e] >= c[e]
    BY <1>1, <2>2
  <2>5. a[d] > c[d]
    BY <1>1, <2>2, <2>3
  <2> QED
    BY <2>1, <2>4, <2>5 DEF clockDominates
<1> QED
  BY <1>2, <1>3

(* A dominated copy is dominated by one that nothing dominates: a list is      *)
(* finite.                                                                     *)
LEMMA MaximalDominator ==
    ASSUME NEW C, \A o \in C : o.clock \in Clock, NEW l \in Seq(C), NEW c \in C,
           \E o \in SetOf(l) : clockDominates(o.clock, c.clock)
    PROVE  \E o \in SetOf(l) \ Dominated(l) : clockDominates(o.clock, c.clock)
<1>1. Len(l) \in Nat /\ DOMAIN l = 1 .. Len(l) /\ \A i \in 1 .. Len(l) : l[i] \in C
  BY LenProperties, ElementOfSeq
<1> DEFINE D == {i \in 1 .. Len(l) : clockDominates(l[i].clock, c.clock)}
           Top(n) == \E i \in D \cap 1 .. n :
                        \A j \in D \cap 1 .. n : ~clockDominates(l[j].clock, l[i].clock)
           T == {n \in 0 .. Len(l) : D \cap 1 .. n # {} => Top(n)}
<1>2. 0 \in T
  <2>1. D \cap 1 .. 0 = {}
    OBVIOUS
  <2> QED
    BY <1>1, <2>1
<1>3. ASSUME NEW n \in 0 .. Len(l) - 1, n \in T PROVE n + 1 \in T
  <2>1. n + 1 \in 0 .. Len(l) /\ n + 1 \in 1 .. Len(l) /\ 1 .. n + 1 = (1 .. n) \cup {n + 1}
    BY <1>1
  <2> SUFFICES ASSUME D \cap 1 .. n + 1 # {} PROVE Top(n + 1)
    BY <2>1
  <2>2. \A i \in D : l[i].clock \in Clock
    BY <1>1
  <2> HIDE DEF D
  <2>3. CASE n + 1 \notin D
    <3>1. D \cap 1 .. n + 1 = D \cap 1 .. n
      BY <2>1, <2>3
    <3> QED
      BY <1>3, <3>1
  <2>4. CASE n + 1 \in D /\ D \cap 1 .. n = {}
    <3>1. D \cap 1 .. n + 1 = {n + 1}
      BY <2>1, <2>4
    <3>2. ~clockDominates(l[n + 1].clock, l[n + 1].clock)
      BY <2>2, <2>4, DominationOrder
    <3> QED
      BY <3>1, <3>2
  <2>5. CASE n + 1 \in D /\ D \cap 1 .. n # {}
    <3>1. PICK i \in D \cap 1 .. n :
             \A j \in D \cap 1 .. n : ~clockDominates(l[j].clock, l[i].clock)
      BY <1>3, <2>5
    <3>2. D \cap 1 .. n + 1 = (D \cap 1 .. n) \cup {n + 1}
      BY <2>1, <2>5
    <3>3. CASE ~clockDominates(l[n + 1].clock, l[i].clock)
      <4>1. \A j \in D \cap 1 .. n + 1 : ~clockDominates(l[j].clock, l[i].clock)
        BY <3>1, <3>2, <3>3
      <4>2. i \in D \cap 1 .. n + 1
        BY <3>1, <3>2
      <4> QED
        BY <4>1, <4>2
    <3>4. CASE clockDominates(l[n + 1].clock, l[i].clock)
      <4>1. \A j \in D \cap 1 .. n + 1 : ~clockDominates(l[j].clock, l[n + 1].clock)
        <5> TAKE j \in D \cap 1 .. n + 1
        <5>1. l[j].clock \in Clock /\ l[n + 1].clock \in Clock /\ l[i].clock \in Clock
          BY <2>2, <2>5, <3>1
        <5>2. CASE j = n + 1
          BY <5>1, <5>2, DominationOrder
        <5>3. CASE j \in D \cap 1 .. n
          <6>1. ~clockDominates(l[j].clock, l[i].clock)
            BY <3>1, <5>3
          <6> QED
            BY <3>4, <5>1, <6>1, DominationOrder
        <5> QED
          BY <3>2, <5>2, <5>3
      <4>2. n + 1 \in D \cap 1 .. n + 1
        BY <2>5, <3>2
      <4> QED
        BY <4>1, <4>2
    <3> QED
      BY <3>3, <3>4
  <2> QED
    BY <2>3, <2>4, <2>5
<1> HIDE DEF T
<1>4. 0 .. Len(l) \subseteq T
  BY <1>1, <1>2, <1>3, PrefixInduction
<1>5. D \cap 1 .. Len(l) # {}
  BY <1>1 DEF SetOf
<1>6. Top(Len(l))
  <2>1. Len(l) \in T
    BY <1>1, <1>4
  <2> HIDE DEF D
  <2> QED
    BY <1>5, <2>1 DEF T
<1>7. PICK i \in D : \A j \in D : ~clockDominates(l[j].clock, l[i].clock)
  BY <1>6
<1>8. l[i] \in SetOf(l) /\ clockDominates(l[i].clock, c.clock)
  BY <1>1, <1>7 DEF SetOf
<1>9. \A o \in SetOf(l) : ~clockDominates(o.clock, l[i].clock)
  <2> SUFFICES ASSUME NEW o \in SetOf(l), clockDominates(o.clock, l[i].clock) PROVE FALSE
    OBVIOUS
  <2>1. PICK j \in 1 .. Len(l) : o = l[j]
    BY <1>1 DEF SetOf
  <2>2. o.clock \in Clock /\ l[i].clock \in Clock /\ c.clock \in Clock
    BY <1>1, <2>1
  <2>3. clockDominates(o.clock, c.clock)
    BY <1>8, <2>2, DominationOrder
  <2>4. j \in D
    BY <2>1, <2>3
  <2> QED
    BY <1>7, <2>1, <2>4
<1>10. l[i] \notin Dominated(l)
  BY <1>9 DEF Dominated, isCausallyDominated
<1> QED
  BY <1>8, <1>10
--------------------------------------------------------------------------------
(* The comparison of two copies. *)

LEMMA LexicographicFacts ==
    ASSUME NEW x, NEW y, NEW z
    PROVE  Lexicographic(<<x, y, z>>) = IF x # 0 THEN x ELSE IF y # 0 THEN y ELSE z
<1> DEFINE s == <<x, y, z>>
           Is(i) == s[i] # 0 /\ \A j \in 1 .. i - 1 : s[j] = 0
<1>1. DOMAIN s = {1, 2, 3} /\ s[1] = x /\ s[2] = y /\ s[3] = z
  OBVIOUS
<1> HIDE DEF s
<1>2. CASE x = 0 /\ y = 0 /\ z = 0
  BY <1>1, <1>2 DEF Lexicographic, s
<1>3. CASE x # 0
  <2>1. Is(1) /\ \A i \in DOMAIN s : Is(i) => i = 1
    BY <1>1, <1>3
  <2> HIDE DEF Is
  <2>2. (CHOOSE i \in DOMAIN s : Is(i)) = 1
    BY <1>1, <2>1
  <2> QED
    BY <1>1, <1>3, <2>2 DEF Lexicographic, s, Is
<1>4. CASE x = 0 /\ y # 0
  <2>1. Is(2) /\ \A i \in DOMAIN s : Is(i) => i = 2
    BY <1>1, <1>4
  <2> HIDE DEF Is
  <2>2. (CHOOSE i \in DOMAIN s : Is(i)) = 2
    BY <1>1, <2>1
  <2> QED
    BY <1>1, <1>4, <2>2 DEF Lexicographic, s, Is
<1>5. CASE x = 0 /\ y = 0 /\ z # 0
  <2>1. Is(3) /\ \A i \in DOMAIN s : Is(i) => i = 3
    BY <1>1, <1>5
  <2> HIDE DEF Is
  <2>2. (CHOOSE i \in DOMAIN s : Is(i)) = 3
    BY <1>1, <2>1
  <2> QED
    BY <1>1, <1>5, <2>2 DEF Lexicographic, s, Is
<1> QED
  BY <1>2, <1>3, <1>4, <1>5

(* Two copies of one write agree in everything but the file. *)
SameWrite(a, b) == a = [b EXCEPT !.src = a.src]

LEMMA SameWriteFacts ==
    ASSUME NEW a \in CandidateSet, NEW b \in CandidateSet
    PROVE  SameWrite(a, b) <=>
              /\ a.del = b.del /\ a.body = b.body /\ a.gen = b.gen /\ a.upd = b.upd
              /\ a.delGen = b.delGen /\ a.clock = b.clock /\ a.key = b.key
<1> DEFINE u == [b EXCEPT !.src = a.src]
<1>1. /\ u \in CandidateSet /\ u.src = a.src /\ u.del = b.del /\ u.body = b.body /\ u.gen = b.gen
      /\ u.upd = b.upd /\ u.delGen = b.delGen /\ u.clock = b.clock /\ u.key = b.key
  BY DEF CandidateSet
<1> HIDE DEF u
<1>2. ASSUME a.del = u.del, a.body = u.body, a.gen = u.gen, a.upd = u.upd, a.src = u.src,
             a.delGen = u.delGen, a.clock = u.clock, a.key = u.key
      PROVE  a = u
  BY <1>1, <1>2 DEF CandidateSet
<1>3. SameWrite(a, b) <=> a = u
  BY DEF SameWrite, u
<1> QED
  BY <1>1, <1>2, <1>3

(* The copies of one path: each file once, and any two copies of one write or  *)
(* of two.                                                                     *)
Family(A) ==
    /\ A \subseteq CandidateSet
    /\ \A a, b \in A : (a.src = b.src => a = b) /\ OneWriteOrTwo(a, b)

Uniform(A) == \A a, b \in A : Clocked(a.clock) <=> Clocked(b.clock)

Undominated(A) == \A a, b \in A : ~clockDominates(a.clock, b.clock)

(* A tombstone is 1, a file 0. *)
DelRank(a) == IF a.del THEN 1 ELSE 0

LEMMA SignFacts ==
    ASSUME NEW n \in Int
    PROVE  (Sign(n) = 0 <=> n = 0) /\ (Sign(n) <= 0 <=> n <= 0) /\ Sign(n) \in Int
BY DEF Sign

LEMMA DelFirstFacts ==
    ASSUME NEW a, NEW b, a.del \in BOOLEAN, b.del \in BOOLEAN
    PROVE  /\ DelRank(a) \in {0, 1} /\ DelRank(b) \in {0, 1}
           /\ DelFirst(a, b) = Sign(DelRank(a) - DelRank(b))
           /\ DelFirst(a, b) \in Int
<1>1. a.del \in BOOLEAN /\ b.del \in BOOLEAN
  OBVIOUS
<1>2. DelFirst(a, b) = Sign(DelRank(a) - DelRank(b))
  <2>1. CASE a.del = TRUE /\ b.del = TRUE
    <3>1. DelFirst(a, b) = 0
      BY <2>1, Zenon DEF DelFirst
    <3>2. DelRank(a) = 1 /\ DelRank(b) = 1
      BY <2>1 DEF DelRank
    <3> QED
      BY <3>1, <3>2 DEF Sign
  <2>2. CASE a.del = TRUE /\ b.del = FALSE
    BY <2>2 DEF DelFirst, DelRank, Sign
  <2>3. CASE a.del = FALSE /\ b.del = TRUE
    BY <2>3 DEF DelFirst, DelRank, Sign
  <2>4. CASE a.del = FALSE /\ b.del = FALSE
    <3>1. DelFirst(a, b) = 0
      BY <2>4, Zenon DEF DelFirst
    <3>2. DelRank(a) = 0 /\ DelRank(b) = 0
      BY <2>4 DEF DelRank
    <3> QED
      BY <3>1, <3>2 DEF Sign
  <2> QED
    BY <1>1, <2>1, <2>2, <2>3, <2>4, Zenon
<1>3. DelRank(a) \in {0, 1} /\ DelRank(b) \in {0, 1}
  BY DEF DelRank
<1>4. DelFirst(a, b) \in Int
  BY <1>2, <1>3, SignFacts
<1> QED
  BY <1>2, <1>3, <1>4

(* Among clocked copies of which none dominates another: tombstones first,     *)
(* then the larger content key.                                                *)
LEMMA ClockedCompare ==
    ASSUME NEW a, NEW b, a.del \in BOOLEAN, b.del \in BOOLEAN, a.key \in Nat, b.key \in Nat,
           a.key = b.key => a.clock = b.clock,
           Clocked(a.clock), Clocked(b.clock),
           ~clockDominates(a.clock, b.clock), ~clockDominates(b.clock, a.clock)
    PROVE  /\ candidateCompare(a, b) \in Int
           /\ candidateCompare(a, b) <= 0 <=>
                 \/ DelRank(a) < DelRank(b)
                 \/ DelRank(a) = DelRank(b) /\ a.key <= b.key
<1> DEFINE x == DelFirst(a, b)
           y == Sign(a.key - b.key)
           z == clockStringCompare(a.clock, b.clock)
<1>1. candidateCompare(a, b) = IF x # 0 THEN x ELSE IF y # 0 THEN y ELSE z
  BY LexicographicFacts DEF candidateCompare, bothClocked, concurrentTiebreak
<1>2. a.key \in Nat /\ b.key \in Nat
  OBVIOUS
<1>3. a.key = b.key => z = 0
  BY DEF clockStringCompare
<1>5. a.key - b.key \in Int
  BY <1>2
<1>6. /\ x \in Int /\ (x = 0 <=> DelRank(a) = DelRank(b)) /\ (x <= 0 <=> DelRank(a) <= DelRank(b))
      /\ DelRank(a) \in {0, 1} /\ DelRank(b) \in {0, 1}
  <2>1. DelRank(a) \in {0, 1} /\ DelRank(b) \in {0, 1} /\ x = Sign(DelRank(a) - DelRank(b)) /\ x \in Int
    BY DelFirstFacts
  <2> HIDE DEF x
  <2>2. DelRank(a) - DelRank(b) \in Int
    BY <2>1
  <2>3. (x = 0 <=> DelRank(a) - DelRank(b) = 0) /\ (x <= 0 <=> DelRank(a) - DelRank(b) <= 0)
    BY <2>1, <2>2, SignFacts
  <2> QED
    BY <2>1, <2>3
<1>7. y \in Int /\ (y = 0 <=> a.key = b.key) /\ (y <= 0 <=> a.key <= b.key)
  <2>1. y \in Int /\ (y = 0 <=> a.key - b.key = 0) /\ (y <= 0 <=> a.key - b.key <= 0)
    BY <1>5, SignFacts
  <2> HIDE DEF y
  <2> QED
    BY <1>2, <2>1
<1> HIDE DEF x, y, z
<1> QED
  BY <1>1, <1>2, <1>3, <1>6, <1>7

(* Clocked copies of which none dominates another are ordered, and two that   *)
(* tie have one content key.                                                   *)
LEMMA OrderedByKey ==
    ASSUME NEW A, Undominated(A),
           \A a \in A : a.del \in BOOLEAN /\ a.key \in Nat /\ Clocked(a.clock),
           \A a, b \in A : a.key = b.key => a.clock = b.clock
    PROVE  /\ Ordered(A)
           /\ \A a, b \in A : candidateCompare(a, b) \in Int
           /\ \A a, b \in A : candidateCompare(a, b) <= 0 /\ candidateCompare(b, a) <= 0
                                 => a.key = b.key
<1>1. \A a \in A : DelRank(a) \in {0, 1} /\ a.key \in Nat
  BY DEF DelRank
<1>2. ASSUME NEW a \in A, NEW b \in A
      PROVE  /\ candidateCompare(a, b) \in Int
             /\ candidateCompare(a, b) <= 0 <=>
                   \/ DelRank(a) < DelRank(b)
                   \/ DelRank(a) = DelRank(b) /\ a.key <= b.key
  <2>1. ~clockDominates(a.clock, b.clock) /\ ~clockDominates(b.clock, a.clock)
    BY DEF Undominated
  <2>2. a.del \in BOOLEAN /\ b.del \in BOOLEAN
    OBVIOUS
  <2>3. /\ a.key \in Nat /\ b.key \in Nat /\ Clocked(a.clock) /\ Clocked(b.clock)
        /\ a.key = b.key => a.clock = b.clock
    OBVIOUS
  <2> QED
    BY <2>1, <2>2, <2>3, ClockedCompare
<1>3. \A a, b \in A : candidateCompare(a, b) <= 0 \/ candidateCompare(b, a) <= 0
  BY <1>1, <1>2
<1>4. \A a, b, c \in A :
         candidateCompare(a, b) <= 0 /\ candidateCompare(b, c) <= 0 => candidateCompare(a, c) <= 0
  BY <1>1, <1>2
<1>5. \A a, b \in A : candidateCompare(a, b) <= 0 /\ candidateCompare(b, a) <= 0 => a.key = b.key
  BY <1>1, <1>2
<1> QED
  BY <1>2, <1>3, <1>4, <1>5 DEF Ordered

(* Among copies without clocks: the larger generation, then the later write. *)
LEMMA UnclockedCompare ==
    ASSUME NEW a \in CandidateSet, NEW b \in CandidateSet, OneWriteOrTwo(a, b),
           ~Clocked(a.clock), ~Clocked(b.clock)
    PROVE  /\ candidateCompare(a, b) \in Int
           /\ candidateCompare(a, b) <= 0 <=>
                 a.gen < b.gen \/ (a.gen = b.gen /\ a.upd <= b.upd)
           /\ a.upd = b.upd => SameWrite(a, b)
<1> DEFINE x == Sign(a.gen - b.gen)
           y == Sign(a.upd - b.upd)
           z == DelFirst(a, b)
<1>1. candidateCompare(a, b) = IF x # 0 THEN x ELSE IF y # 0 THEN y ELSE z
  BY LexicographicFacts DEF candidateCompare, bothClocked, generationCompare
<1>2. a.gen \in Nat /\ b.gen \in Nat /\ a.upd \in Nat /\ b.upd \in Nat
  BY CandidateFacts
<1>3. a.upd = b.upd => SameWrite(a, b)
  BY DEF OneWriteOrTwo, SameWrite
<1>4. SameWrite(a, b) => z = 0
  <2>1. SameWrite(a, b) => a.del = b.del
    BY SameWriteFacts
  <2> QED
    BY <2>1 DEF DelFirst
<1>5. a.gen - b.gen \in Int /\ a.upd - b.upd \in Int
  BY <1>2
<1>6. x \in Int /\ (x = 0 <=> a.gen = b.gen) /\ (x <= 0 <=> a.gen <= b.gen)
  <2>1. x \in Int /\ (x = 0 <=> a.gen - b.gen = 0) /\ (x <= 0 <=> a.gen - b.gen <= 0)
    BY <1>5, SignFacts
  <2> HIDE DEF x
  <2> QED
    BY <1>2, <2>1
<1>7. y \in Int /\ (y = 0 <=> a.upd = b.upd) /\ (y <= 0 <=> a.upd <= b.upd)
  <2>1. y \in Int /\ (y = 0 <=> a.upd - b.upd = 0) /\ (y <= 0 <=> a.upd - b.upd <= 0)
    BY <1>5, SignFacts
  <2> HIDE DEF y
  <2> QED
    BY <1>2, <2>1
<1> HIDE DEF x, y, z
<1> QED
  BY <1>1, <1>2, <1>3, <1>4, <1>6, <1>7

(* Where no copy dominates another, the comparison orders the writes. *)
LEMMA CompareOrders ==
    ASSUME NEW A, Family(A), Uniform(A), Undominated(A)
    PROVE  /\ Ordered(A)
           /\ \A a, b \in A : candidateCompare(a, b) \in Int
           /\ \A a, b \in A : candidateCompare(a, b) <= 0 /\ candidateCompare(b, a) <= 0
                                 => SameWrite(a, b)
<1>1. \A a \in A : /\ a \in CandidateSet /\ DelRank(a) \in {0, 1}
                   /\ a.key \in Nat /\ a.gen \in Nat /\ a.upd \in Nat
  BY CandidateFacts DEF Family, DelRank
<1>2. CASE \E o \in A : Clocked(o.clock)
  <2>1. \A a \in A : a.del \in BOOLEAN /\ a.key \in Nat /\ Clocked(a.clock)
    BY <1>1, <1>2, CandidateFacts DEF Uniform
  <2>2. \A a, b \in A : a.key = b.key => SameWrite(a, b)
    BY DEF Family, OneWriteOrTwo, SameWrite
  <2>3. \A a, b \in A : a.key = b.key => a.clock = b.clock
    BY <1>1, <2>2, SameWriteFacts
  <2> QED
    BY <2>1, <2>2, <2>3, OrderedByKey
<1>3. CASE \A o \in A : ~Clocked(o.clock)
  <2>1. ASSUME NEW a \in A, NEW b \in A
        PROVE  /\ candidateCompare(a, b) \in Int
               /\ candidateCompare(a, b) <= 0 <=>
                     a.gen < b.gen \/ (a.gen = b.gen /\ a.upd <= b.upd)
               /\ a.upd = b.upd => SameWrite(a, b)
    <3>1. OneWriteOrTwo(a, b)
      BY DEF Family
    <3> QED
      BY <1>1, <1>3, <3>1, UnclockedCompare
  <2>2. \A a, b \in A : candidateCompare(a, b) <= 0 \/ candidateCompare(b, a) <= 0
    BY <1>1, <2>1
  <2>3. \A a, b, c \in A :
           candidateCompare(a, b) <= 0 /\ candidateCompare(b, c) <= 0 => candidateCompare(a, c) <= 0
    BY <1>1, <2>1
  <2>4. \A a, b \in A : candidateCompare(a, b) <= 0 /\ candidateCompare(b, a) <= 0 => SameWrite(a, b)
    <3> TAKE a, b \in A
    <3>1. candidateCompare(a, b) <= 0 /\ candidateCompare(b, a) <= 0 => a.upd = b.upd
      BY <1>1, <2>1
    <3> QED
      BY <2>1, <3>1
  <2> QED
    BY <2>1, <2>2, <2>3, <2>4 DEF Ordered
<1> QED
  BY <1>2, <1>3
--------------------------------------------------------------------------------
(* Verdicts. *)

LEMMA TailFacts ==
    ASSUME NEW C, NEW s \in Seq(C), s # <<>>, Distinct(s)
    PROVE  /\ s[1] \in SetOf(s) /\ Tail(s) \in Seq(C) /\ Distinct(Tail(s))
           /\ SetOf(Tail(s)) = SetOf(s) \ {s[1]}
<1> DEFINE t == Tail(s)
<1>1. Len(s) \in Nat /\ DOMAIN s = 1 .. Len(s)
  BY LenProperties
<1>2. t \in Seq(C) /\ Len(t) = Len(s) - 1 /\ \A i \in 1 .. Len(t) : t[i] = s[i + 1]
  BY HeadTailProperties
<1>3. Len(s) >= 1 /\ DOMAIN t = 1 .. Len(s) - 1
  <2>1. Len(s) # 0
    BY EmptySeq
  <2> QED
    BY <1>1, <1>2, <2>1, LenProperties
<1> HIDE DEF t
<1>4. \A i \in DOMAIN t : i + 1 \in DOMAIN s /\ t[i] = s[i + 1] /\ i + 1 # 1 /\ i \in Nat
  BY <1>1, <1>2, <1>3
<1>5. 1 \in DOMAIN s
  BY <1>1, <1>3
<1>6. s[1] \in SetOf(s)
  BY <1>5 DEF SetOf
<1>7. SetOf(t) \subseteq SetOf(s) \ {s[1]}
  <2> SUFFICES ASSUME NEW i \in DOMAIN t PROVE t[i] \in SetOf(s) /\ t[i] # s[1]
    BY DEF SetOf
  <2> QED
    BY <1>4, <1>5 DEF SetOf, Distinct
<1>8. SetOf(s) \ {s[1]} \subseteq SetOf(t)
  <2> SUFFICES ASSUME NEW i \in DOMAIN s, s[i] # s[1] PROVE s[i] \in SetOf(t)
    BY DEF SetOf
  <2>1. i - 1 \in DOMAIN t /\ (i - 1) + 1 = i
    BY <1>1, <1>3
  <2> QED
    BY <1>4, <2>1 DEF SetOf
<1>9. Distinct(t)
  <2> SUFFICES ASSUME NEW i \in DOMAIN t, NEW j \in DOMAIN t, t[i] = t[j] PROVE i = j
    BY DEF Distinct
  <2>1. i + 1 = j + 1
    BY <1>4 DEF Distinct
  <2> QED
    BY <1>4, <2>1
<1> QED
  BY <1>2, <1>6, <1>7, <1>8, <1>9 DEF t

LEMMA ConcatFacts ==
    ASSUME NEW C, NEW s \in Seq(C), NEW t \in Seq(C)
    PROVE  /\ s \o t \in Seq(C)
           /\ SetOf(s \o t) = SetOf(s) \cup SetOf(t)
           /\ Distinct(s) /\ Distinct(t) /\ SetOf(s) \cap SetOf(t) = {} => Distinct(s \o t)
<1> DEFINE u == s \o t
<1>1. /\ u \in Seq(C) /\ Len(u) = Len(s) + Len(t)
      /\ \A i \in 1 .. Len(s) + Len(t) : u[i] = IF i <= Len(s) THEN s[i] ELSE t[i - Len(s)]
  BY ConcatProperties
<1>2. /\ Len(s) \in Nat /\ DOMAIN s = 1 .. Len(s) /\ Len(t) \in Nat /\ DOMAIN t = 1 .. Len(t)
      /\ DOMAIN u = 1 .. Len(s) + Len(t)
  BY <1>1, LenProperties
<1> HIDE DEF u
<1>3. ASSUME NEW i \in DOMAIN u
      PROVE  \/ i \in DOMAIN s /\ u[i] = s[i]
             \/ i - Len(s) \in DOMAIN t /\ u[i] = t[i - Len(s)]
  BY <1>1, <1>2
<1>4. ASSUME NEW i \in DOMAIN s PROVE i \in DOMAIN u /\ u[i] = s[i]
  BY <1>1, <1>2
<1>5. ASSUME NEW i \in DOMAIN t PROVE Len(s) + i \in DOMAIN u /\ u[Len(s) + i] = t[i]
  <2>1. Len(s) + i \in 1 .. Len(s) + Len(t) /\ ~(Len(s) + i <= Len(s)) /\ (Len(s) + i) - Len(s) = i
    BY <1>2
  <2> QED
    BY <1>1, <1>2, <2>1
<1>6. SetOf(u) = SetOf(s) \cup SetOf(t)
  <2>1. SetOf(u) \subseteq SetOf(s) \cup SetOf(t)
    BY <1>3 DEF SetOf
  <2>2. SetOf(s) \subseteq SetOf(u)
    BY <1>4 DEF SetOf
  <2>3. SetOf(t) \subseteq SetOf(u)
    BY <1>5 DEF SetOf
  <2> QED
    BY <2>1, <2>2, <2>3
<1>7. ASSUME Distinct(s), Distinct(t), SetOf(s) \cap SetOf(t) = {} PROVE Distinct(u)
  <2>1. \A i \in DOMAIN s, j \in DOMAIN t : s[i] # t[j]
    BY <1>7 DEF SetOf
  <2> SUFFICES ASSUME NEW i \in DOMAIN u, NEW j \in DOMAIN u, u[i] = u[j] PROVE i = j
    BY DEF Distinct
  <2>2. i \in Nat /\ j \in Nat
    BY <1>2
  <2>3. \/ i \in DOMAIN s /\ u[i] = s[i]
        \/ i - Len(s) \in DOMAIN t /\ u[i] = t[i - Len(s)]
    BY <1>3
  <2>4. \/ j \in DOMAIN s /\ u[j] = s[j]
        \/ j - Len(s) \in DOMAIN t /\ u[j] = t[j - Len(s)]
    BY <1>3
  <2>5. i = j \/ i - Len(s) = j - Len(s)
    BY <1>7, <2>1, <2>3, <2>4 DEF Distinct
  <2> QED
    BY <1>2, <2>2, <2>5
<1> QED
  BY <1>1, <1>6, <1>7 DEF u

LEMMA DistinctLen ==
    ASSUME NEW C, NEW s \in Seq(C), Distinct(s)
    PROVE  IsFiniteSet(SetOf(s)) /\ Cardinality(SetOf(s)) = Len(s)
<1>1. Len(s) \in Nat /\ DOMAIN s = 1 .. Len(s)
  BY LenProperties
<1> DEFINE f == [i \in 1 .. Len(s) |-> s[i]]
<1>2. f \in Bijection(1 .. Len(s), SetOf(s))
  <2>1. f \in [1 .. Len(s) -> SetOf(s)]
    BY <1>1 DEF SetOf
  <2>2. \A i, j \in 1 .. Len(s) : f[i] = f[j] => i = j
    BY <1>1 DEF Distinct
  <2>3. \A x \in SetOf(s) : \E i \in 1 .. Len(s) : f[i] = x
    BY <1>1 DEF SetOf
  <2> QED
    BY <2>1, <2>2, <2>3 DEF Bijection, Injection, Surjection, IsInjective
<1>3. ExistsBijection(1 .. Len(s), SetOf(s))
  BY <1>2 DEF ExistsBijection
<1>4. IsFiniteSet(SetOf(s))
  BY <1>1, <1>3, FS_NatBijection
<1> QED
  BY <1>1, <1>3, <1>4, FS_CountingElements

(* What a reconciliation decides, as sets: the winner is a copy that nothing   *)
(* dominates and none of those comes before; the others are conflicts unless   *)
(* redundant; the dominated and the redundant ones are removed, each once.     *)
LEMMA ReconcileFacts ==
    ASSUME NEW C, \A c \in C : c.clock \in Clock,
           NEW l \in Seq(C), l # <<>>, Distinct(l)
    PROVE  LET A == SetOf(l) \ Dominated(l)
               r == reconcilePathCandidates(l)
               gone == Dominated(l) \cup {c \in A : c # r.winner /\ Redundant(c, r.winner)}
           IN  /\ r.winner \in A
               /\ Ordered(A) => \A a \in A : candidateCompare(a, r.winner) <= 0
               /\ SetOf(r.conflicts) = {c \in A : c # r.winner /\ ~Redundant(c, r.winner)}
               /\ SetOf(r.removes) = gone
               /\ IsFiniteSet(gone) /\ Cardinality(gone) = Len(r.removes)
               /\ r.conflicts \in Seq(C) /\ r.removes \in Seq(C)
<1> DEFINE B == SetOf(l)
           A == B \ Dominated(l)
           s == sliceStable(antichain(l))
           w == s[1]
           p == Filter(l, Dominated(l))
           R == {c \in SetOf(s) : Redundant(c, w)}
           k == Filter(Tail(s), SetOf(s) \ R)
           q == Filter(Tail(s), R)
           r == reconcilePathCandidates(l)
<1>1. Dominated(l) \subseteq B
  BY DEF Dominated
<1>2. antichain(l) \in Seq(C) /\ SetOf(antichain(l)) = A /\ Distinct(antichain(l))
  <2>1. /\ antichain(l) \in Seq(C) /\ SetOf(antichain(l)) = SetOf(l) \cap A
        /\ Distinct(antichain(l))
    BY FilterFacts DEF antichain
  <2> QED
    BY <2>1
<1>3. A # {}
  <2>1. Len(l) \in Nat /\ DOMAIN l = 1 .. Len(l) /\ Len(l) # 0
    BY LenProperties, EmptySeq
  <2>2. 1 \in DOMAIN l /\ l[1] \in B
    BY <2>1 DEF SetOf
  <2>3. CASE l[1] \notin Dominated(l)
    BY <2>2, <2>3
  <2>4. CASE l[1] \in Dominated(l)
    <3>1. \E o \in SetOf(l) : clockDominates(o.clock, l[1].clock)
      BY <2>4 DEF Dominated, isCausallyDominated
    <3>2. l[1] \in C
      BY <2>1, <2>2, ElementOfSeq
    <3> QED
      BY <3>1, <3>2, MaximalDominator
  <2> QED
    BY <2>3, <2>4
<1>4. antichain(l) # <<>>
  BY <1>2, <1>3 DEF SetOf
<1>5. s \in Seq(C) /\ Len(s) = Len(antichain(l)) /\ SetOf(s) = A /\ Distinct(s)
  BY <1>2, SortFacts
<1>6. Ordered(A) => FirstIsMaximal(s, A)
  BY <1>2, <1>4, SortFacts
<1>7. s # <<>>
  BY <1>3, <1>5 DEF SetOf
<1>8. r = [winner |-> w, conflicts |-> k, removes |-> p \o q]
  BY DEF reconcilePathCandidates, Verdict
<1> HIDE DEF s
<1>9. w \in A /\ Tail(s) \in Seq(C) /\ Distinct(Tail(s)) /\ SetOf(Tail(s)) = A \ {w}
  BY <1>5, <1>7, TailFacts
<1> HIDE DEF w
<1>10. R \subseteq A
  BY <1>5
<1>11. k \in Seq(C) /\ SetOf(k) = {c \in A : c # w /\ ~Redundant(c, w)}
  <2>1. k \in Seq(C) /\ SetOf(k) = SetOf(Tail(s)) \cap (SetOf(s) \ R)
    BY <1>9, FilterFacts
  <2> HIDE DEF k
  <2> QED
    BY <1>5, <1>9, <2>1
<1>12. q \in Seq(C) /\ SetOf(q) = {c \in A : c # w /\ Redundant(c, w)} /\ Distinct(q)
  <2>1. q \in Seq(C) /\ SetOf(q) = SetOf(Tail(s)) \cap R /\ Distinct(q)
    BY <1>9, FilterFacts
  <2> HIDE DEF q
  <2> QED
    BY <1>5, <1>9, <2>1
<1>13. p \in Seq(C) /\ SetOf(p) = Dominated(l) /\ Distinct(p)
  <2>1. p \in Seq(C) /\ SetOf(p) = SetOf(l) \cap Dominated(l) /\ Distinct(p)
    BY FilterFacts
  <2> HIDE DEF p
  <2> QED
    BY <1>1, <2>1
<1> HIDE DEF k, p, q, R
<1> DEFINE gone == Dominated(l) \cup {c \in A : c # w /\ Redundant(c, w)}
<1>14. SetOf(p) \cap SetOf(q) = {}
  BY <1>12, <1>13
<1>15. p \o q \in Seq(C) /\ SetOf(p \o q) = gone /\ Distinct(p \o q)
  BY <1>12, <1>13, <1>14, ConcatFacts
<1>16. IsFiniteSet(gone) /\ Cardinality(gone) = Len(p \o q)
  BY <1>15, DistinctLen
<1>17. r.winner = w /\ r.conflicts = k /\ r.removes = p \o q
  BY <1>8
<1>18. Ordered(A) => \A a \in A : candidateCompare(a, w) <= 0
  BY <1>6 DEF FirstIsMaximal, w
<1> HIDE DEF A, r
<1> QED
  BY <1>9, <1>11, <1>15, <1>16, <1>17, <1>18 DEF A, r
--------------------------------------------------------------------------------
(* The walk. *)

WalkInv ==
    /\ list \in Seq(CandidateSet)
    /\ \A i \in DOMAIN list : list[i].src = i
    /\ \A i, j \in DOMAIN list :
          /\ OneWriteOrTwo(list[i], list[j])
          /\ Mixed \/ (Clocked(list[i].clock) <=> Clocked(list[j].clock))

LEMMA WriteIsSymmetric ==
    ASSUME NEW a \in CandidateSet, NEW b \in CandidateSet
    PROVE  OneWriteOrTwo(a, a) /\ (OneWriteOrTwo(a, b) => OneWriteOrTwo(b, a))
<1>1. SameWrite(a, a) /\ (SameWrite(a, b) => SameWrite(b, a))
  BY SameWriteFacts
<1>2. bothClocked(b, a) => bothClocked(a, b)
  BY DEF bothClocked
<1> QED
  BY <1>1, <1>2 DEF OneWriteOrTwo, SameWrite

LEMMA WalkStep ==
    ASSUME WalkInv, [WalkNext]_list
    PROVE  WalkInv'
<1>1. CASE UNCHANGED list
  BY <1>1 DEF WalkInv
<1>2. ASSUME NEW c \in Candidates, ReadManifest(c) PROVE WalkInv'
  <2> DEFINE n == Len(list)
             l == Append(list, c)
  <2>1. n \in Nat /\ DOMAIN list = 1 .. n /\ \A i \in 1 .. n : list[i] \in CandidateSet
    BY LenProperties, ElementOfSeq DEF WalkInv
  <2>2. c \in CandidateSet /\ c.src = n + 1
    <3>1. PICK body \in Bodies \cup {0}, t \in Stamps, key \in KeyRanks,
               clock \in [Devices -> 0 .. MaxClock] : c = Copy(body, t, key, clock)
      BY DEF Candidates
    <3>2. t[1] \in Nat /\ t[2] \in Nat /\ t[3] \in Nat /\ key \in Nat
      BY WalkAssumption
    <3>3. clock \in Clock
      BY WalkAssumption DEF Clock
    <3> DEFINE del == body = 0
               delGen == IF body = 0 THEN t[3] ELSE 0
    <3>4. del \in BOOLEAN /\ delGen \in Nat
      BY <3>2
    <3>5. c = [src |-> n + 1, del |-> del, body |-> body, gen |-> t[1], upd |-> t[2],
               delGen |-> delGen, clock |-> clock, key |-> key]
      BY <3>1 DEF Copy
    <3> HIDE DEF n, del, delGen
    <3>6. n + 1 \in Nat
      BY <2>1
    <3> QED
      BY <3>2, <3>3, <3>4, <3>5, <3>6 DEF CandidateSet
  <2>3. /\ l \in Seq(CandidateSet) /\ Len(l) = n + 1 /\ l[n + 1] = c
        /\ \A i \in 1 .. n : l[i] = list[i]
    BY <2>2, AppendProperties DEF WalkInv
  <2>4. DOMAIN l = 1 .. n + 1
    BY <2>3, LenProperties
  <2>5. list' = l
    BY <1>2 DEF ReadManifest
  <2>6. \A i \in 1 .. n : /\ OneWriteOrTwo(c, list[i])
                          /\ Mixed \/ (Clocked(c.clock) <=> Clocked(list[i].clock))
    <3>1. \A i \in DOMAIN list : /\ OneWriteOrTwo(c, list[i])
                                 /\ Mixed \/ (Clocked(c.clock) <=> Clocked(list[i].clock))
      BY <1>2, Zenon DEF ReadManifest
    <3> HIDE DEF n
    <3> QED
      BY <2>1, <3>1, Zenon
  <2> HIDE DEF l, n
  <2>7. \A i \in 1 .. n + 1 : i \in 1 .. n \/ i = n + 1
    BY <2>1
  <2>8. ASSUME NEW i \in DOMAIN l PROVE l[i].src = i
    BY <2>1, <2>2, <2>3, <2>4, <2>7 DEF WalkInv
  <2>9. ASSUME NEW i \in DOMAIN l, NEW j \in DOMAIN l
        PROVE  /\ OneWriteOrTwo(l[i], l[j])
               /\ Mixed \/ (Clocked(l[i].clock) <=> Clocked(l[j].clock))
    <3>1. CASE i \in 1 .. n /\ j \in 1 .. n
      BY <2>1, <2>3, <3>1 DEF WalkInv
    <3>2. CASE i = n + 1 /\ j \in 1 .. n
      BY <2>3, <2>6, <3>2
    <3>3. CASE i \in 1 .. n /\ j = n + 1
      BY <2>1, <2>2, <2>3, <2>6, <3>3, WriteIsSymmetric
    <3>4. CASE i = n + 1 /\ j = n + 1
      BY <2>2, <2>3, <3>4, WriteIsSymmetric
    <3> QED
      BY <2>4, <2>7, <3>1, <3>2, <3>3, <3>4
  <2> QED
    BY <2>3, <2>5, <2>8, <2>9 DEF WalkInv
<1> QED
  BY <1>1, <1>2 DEF WalkNext

LEMMA WalkInvariant == WalkSpec => []WalkInv
<1>1. WalkInit => WalkInv
  BY DEF WalkInit, WalkInv
<1>2. WalkInv /\ [WalkNext]_list => WalkInv'
  BY WalkStep
<1> QED
  BY <1>1, <1>2, PTL DEF WalkSpec

(* The copies of the walk, and those that nothing dominates. *)
LEMMA WalkFacts ==
    ASSUME WalkInv
    PROVE  /\ list \in Seq(CandidateSet) /\ Distinct(list) /\ Family(SetOf(list))
           /\ ~Mixed => Uniform(SetOf(list))
<1>1. \A i \in DOMAIN list : list[i] \in CandidateSet
  BY LenProperties, ElementOfSeq DEF WalkInv
<1>2. Distinct(list)
  BY DEF Distinct, WalkInv
<1>3. Family(SetOf(list))
  <2>1. SetOf(list) \subseteq CandidateSet
    BY <1>1 DEF SetOf
  <2>2. \A a, b \in SetOf(list) : (a.src = b.src => a = b) /\ OneWriteOrTwo(a, b)
    BY DEF SetOf, WalkInv
  <2> QED
    BY <2>1, <2>2 DEF Family
<1>4. ~Mixed => Uniform(SetOf(list))
  BY DEF SetOf, Uniform, WalkInv
<1> QED
  BY <1>2, <1>3, <1>4 DEF WalkInv

LEMMA AntichainOrdered ==
    ASSUME NEW l, Family(SetOf(l)), Uniform(SetOf(l))
    PROVE  LET A == SetOf(l) \ Dominated(l)
           IN  /\ Ordered(A) /\ Family(A)
               /\ \A a, b \in A : candidateCompare(a, b) <= 0 /\ candidateCompare(b, a) <= 0
                                     => SameWrite(a, b)
<1> DEFINE A == SetOf(l) \ Dominated(l)
<1>1. A \subseteq SetOf(l)
  OBVIOUS
<1>2. Undominated(A)
  <2> SUFFICES ASSUME NEW a \in A, NEW b \in A, clockDominates(a.clock, b.clock) PROVE FALSE
    BY DEF Undominated
  <2>1. a.src = b.src
    BY DEF Dominated, isCausallyDominated
  <2>2. a = b
    BY <2>1 DEF Family
  <2>3. a.clock \in Clock
    BY CandidateFacts DEF Family
  <2> QED
    BY <2>2, <2>3, DominationOrder
<1> HIDE DEF A
<1>3. Family(A) /\ Uniform(A)
  BY <1>1 DEF Family, Uniform
<1>4. /\ Ordered(A)
      /\ \A a, b \in A : candidateCompare(a, b) <= 0 /\ candidateCompare(b, a) <= 0
                            => SameWrite(a, b)
  BY <1>2, <1>3, CompareOrders
<1> QED
  BY <1>3, <1>4 DEF A

(* WinnerFound.  The winner reconcilePathCandidates picks (manifest.go:370)    *)
(* is dominated by no copy of the path and loses to none that is not dominated *)
(* itself, for every number of copies: the insertion sort by candidateCompare  *)
(* brings a maximum to the front although the comparison is a case distinction *)
(* that is an order only among the copies of which none dominates another.     *)
THEOREM WinnerFound == ASSUME ~Mixed PROVE WalkSpec => []WinnerIsMaximal
<1>1. WalkInv => WinnerIsMaximal
  <2> SUFFICES ASSUME WalkInv, list # <<>>,
                      NEW c \in SetOf(list),
                      candidateCompare(c, reconcilePathCandidates(list).winner) = 1
               PROVE  \E o \in SetOf(list) : clockDominates(o.clock, c.clock)
    BY DEF WinnerIsMaximal
  <2> DEFINE A == SetOf(list) \ Dominated(list)
             w == reconcilePathCandidates(list).winner
  <2>1. /\ list \in Seq(CandidateSet) /\ Distinct(list) /\ Family(SetOf(list))
        /\ Uniform(SetOf(list))
    BY WalkFacts
  <2>2. Ordered(A)
    BY <2>1, AntichainOrdered
  <2>3. \A x \in CandidateSet : x.clock \in Clock
    BY CandidateFacts
  <2>4. \A a \in A : candidateCompare(a, w) <= 0
    BY <2>1, <2>2, <2>3, ReconcileFacts
  <2>5. c \notin A
    BY <2>4
  <2> QED
    BY <2>5 DEF Dominated, isCausallyDominated
<1> QED
  BY <1>1, WalkInvariant, PTL

(* EveryEditKept.  Of any copies whatever, with and without clocks, no edit    *)
(* vanishes in a reconciliation (manifest.go:340-417): its body is live or in  *)
(* a conflict copy, or it was overwritten by a copy that dominates it and is   *)
(* in the antichain, or, without clocks, deleted by a tombstone that names its *)
(* generation or a later one.                                                  *)
THEOREM EveryEditKept == WalkSpec => []NothingDropped
<1>1. WalkInv => NothingDropped
  <2> SUFFICES ASSUME WalkInv, list # <<>> PROVE NothingDropped
    BY DEF NothingDropped
  <2> DEFINE A == SetOf(list) \ Dominated(list)
             r == reconcilePathCandidates(list)
  <2>1. list \in Seq(CandidateSet) /\ Distinct(list) /\ Family(SetOf(list))
    BY WalkFacts
  <2>2. \A x \in CandidateSet : x.clock \in Clock
    BY CandidateFacts
  <2>3. /\ r.winner \in A
        /\ SetOf(r.conflicts) = {c \in A : c # r.winner /\ ~Redundant(c, r.winner)}
    BY <2>1, <2>2, ReconcileFacts
  <2>4. SetOf(antichain(list)) = A
    <3>1. SetOf(antichain(list)) = SetOf(list) \cap A
      BY <2>1, FilterFacts DEF antichain
    <3> QED
      BY <3>1
  <2> HIDE DEF r
  <2>5. ASSUME NEW c \in SetOf(list)
        PROVE  \/ c.del
               \/ \E k \in {r.winner} \cup SetOf(r.conflicts) : ~k.del /\ k.body = c.body
               \/ \E o \in SetOf(antichain(list)) : clockDominates(o.clock, c.clock)
               \/ r.winner.del /\ ~bothClocked(c, r.winner) /\ c.gen <= r.winner.delGen
    <3>1. CASE c \in Dominated(list)
      <4>1. \E o \in SetOf(list) : clockDominates(o.clock, c.clock)
        BY <3>1 DEF Dominated, isCausallyDominated
      <4>2. c \in CandidateSet
        BY <2>1 DEF Family
      <4>3. \E o \in A : clockDominates(o.clock, c.clock)
        BY <2>1, <2>2, <4>1, <4>2, MaximalDominator
      <4> QED
        BY <2>4, <4>3
    <3>2. CASE c = r.winner
      BY <3>2
    <3>3. CASE c \in A /\ c # r.winner /\ ~Redundant(c, r.winner)
      <4>1. c \in SetOf(r.conflicts)
        BY <2>3, <3>3
      <4> QED
        BY <4>1
    <3>4. CASE Redundant(c, r.winner)
      <4>1. \/ c.del = r.winner.del /\ c.body = r.winner.body
            \/ c.del
            \/ r.winner.del /\ ~bothClocked(r.winner, c) /\ c.gen <= r.winner.delGen
        BY <3>4 DEF Redundant
      <4>2. bothClocked(c, r.winner) => bothClocked(r.winner, c)
        BY DEF bothClocked
      <4> QED
        BY <4>1, <4>2
    <3> QED
      BY <3>1, <3>2, <3>3, <3>4
  <2> QED
    BY <2>5 DEF NothingDropped, r
<1> QED
  BY <1>1, WalkInvariant, PTL

(* Removing from every copy of a write the name of its file leaves one record. *)
LEMMA SameRecord ==
    ASSUME NEW a \in CandidateSet, NEW b \in CandidateSet, SameWrite(a, b)
    PROVE  [a EXCEPT !.src = 0] = [b EXCEPT !.src = 0]
<1> DEFINE u == [a EXCEPT !.src = 0]
           v == [b EXCEPT !.src = 0]
<1>1. /\ u \in CandidateSet /\ u.src = 0 /\ u.del = a.del /\ u.body = a.body /\ u.gen = a.gen
      /\ u.upd = a.upd /\ u.delGen = a.delGen /\ u.clock = a.clock /\ u.key = a.key
  BY DEF CandidateSet
<1>2. /\ v \in CandidateSet /\ v.src = 0 /\ v.del = b.del /\ v.body = b.body /\ v.gen = b.gen
      /\ v.upd = b.upd /\ v.delGen = b.delGen /\ v.clock = b.clock /\ v.key = b.key
  BY DEF CandidateSet
<1> HIDE DEF u, v
<1>3. u = [v EXCEPT !.src = u.src]
  BY <1>1, <1>2, SameWriteFacts DEF SameWrite
<1>4. [v EXCEPT !.src = u.src] = v
  BY <1>1, <1>2 DEF CandidateSet
<1>5. u = v
  BY <1>3, <1>4
<1> QED
  BY <1>5 DEF u, v

(* What is redundant beside a winner does not depend on which copy of the      *)
(* winning write the winner is, and the winner is so itself.                   *)
LEMMA RedundantBeside ==
    ASSUME NEW c, NEW a \in CandidateSet, NEW b \in CandidateSet, SameWrite(a, b)
    PROVE  (Redundant(c, a) <=> Redundant(c, b)) /\ Redundant(a, a)
<1>1. a.del = b.del /\ a.body = b.body /\ a.delGen = b.delGen /\ a.clock = b.clock
  BY SameWriteFacts
<1> QED
  BY <1>1, Zenon DEF Redundant, bothClocked

(* The outcome in terms of the set of copies and the winner alone. *)
LEMMA OutcomeFacts ==
    ASSUME NEW l \in Seq(CandidateSet), l # <<>>, Distinct(l)
    PROVE  LET A == SetOf(l) \ Dominated(l)
               r == reconcilePathCandidates(l)
               G == Dominated(l) \cup {c \in A : Redundant(c, r.winner)}
           IN  /\ r.winner \in A
               /\ SetOf(r.conflicts) = {c \in A : ~Redundant(c, r.winner)}
               /\ Len(r.removes) = Cardinality(G) - 1
<1> DEFINE A == SetOf(l) \ Dominated(l)
           r == reconcilePathCandidates(l)
           w == r.winner
           G == Dominated(l) \cup {c \in A : Redundant(c, w)}
           gone == Dominated(l) \cup {c \in A : c # w /\ Redundant(c, w)}
<1>1. \A x \in CandidateSet : x.clock \in Clock
  BY CandidateFacts
<1>2. /\ w \in A
      /\ SetOf(r.conflicts) = {c \in A : c # w /\ ~Redundant(c, w)}
      /\ IsFiniteSet(gone) /\ Cardinality(gone) = Len(r.removes)
  BY <1>1, ReconcileFacts
<1>3. Redundant(w, w)
  BY Zenon DEF Redundant
<1> HIDE DEF r
<1>4. SetOf(r.conflicts) = {c \in A : ~Redundant(c, w)}
  BY <1>2, <1>3
<1>5. G = gone \cup {w} /\ w \notin gone
  BY <1>2, <1>3
<1> HIDE DEF G, gone
<1>6. Cardinality(G) = Cardinality(gone) + 1 /\ Cardinality(gone) \in Nat
  BY <1>2, <1>5, FS_AddElement, FS_CardinalityType
<1>7. Len(r.removes) = Cardinality(G) - 1
  BY <1>2, <1>6
<1> QED
  BY <1>2, <1>4, <1>7 DEF r, G

(* Two lists of the same copies have one outcome. *)
LEMMA OutcomeOfSet ==
    ASSUME NEW l \in Seq(CandidateSet), l # <<>>, Distinct(l),
           NEW m \in Seq(CandidateSet), m # <<>>, Distinct(m),
           SetOf(l) = SetOf(m), Family(SetOf(l)), Uniform(SetOf(l))
    PROVE  Outcome(l) = Outcome(m)
<1> DEFINE A == SetOf(l) \ Dominated(l)
           B == SetOf(m) \ Dominated(m)
           r == reconcilePathCandidates(l)
           q == reconcilePathCandidates(m)
           w == r.winner
           v == q.winner
<1>1. Dominated(l) = Dominated(m)
  BY DEF Dominated
<1>2. A = B
  BY <1>1
<1>3. /\ Ordered(A) /\ Family(A)
      /\ \A a, b \in A : candidateCompare(a, b) <= 0 /\ candidateCompare(b, a) <= 0
                            => SameWrite(a, b)
  BY AntichainOrdered
<1>4. \A x \in CandidateSet : x.clock \in Clock
  BY CandidateFacts
<1>5. w \in A /\ \A a \in A : candidateCompare(a, w) <= 0
  BY <1>3, <1>4, ReconcileFacts
<1>6. v \in B /\ \A b \in B : candidateCompare(b, v) <= 0
  BY <1>2, <1>3, <1>4, ReconcileFacts
<1>7. /\ SetOf(r.conflicts) = {c \in A : ~Redundant(c, w)}
      /\ Len(r.removes) = Cardinality(Dominated(l) \cup {c \in A : Redundant(c, w)}) - 1
  BY OutcomeFacts
<1>8. /\ SetOf(q.conflicts) = {c \in B : ~Redundant(c, v)}
      /\ Len(q.removes) = Cardinality(Dominated(m) \cup {c \in B : Redundant(c, v)}) - 1
  BY OutcomeFacts
<1> HIDE DEF A, B, r, q
<1>9. SameWrite(w, v)
  BY <1>2, <1>3, <1>5, <1>6
<1>10. w \in CandidateSet /\ v \in CandidateSet
  BY <1>2, <1>3, <1>5, <1>6 DEF Family
<1>11. [w EXCEPT !.src = 0] = [v EXCEPT !.src = 0]
  BY <1>9, <1>10, SameRecord
<1>12. \A c : Redundant(c, w) <=> Redundant(c, v)
  BY <1>9, <1>10, RedundantBeside
<1>13. SetOf(r.conflicts) = SetOf(q.conflicts)
  BY <1>2, <1>7, <1>8, <1>12
<1>14. {c \in A : Redundant(c, w)} = {c \in B : Redundant(c, v)}
  BY <1>2, <1>12
<1>15. Len(r.removes) = Len(q.removes)
  BY <1>1, <1>7, <1>8, <1>14
<1>16. {conflictName(c) : c \in SetOf(r.conflicts)} = {conflictName(c) : c \in SetOf(q.conflicts)}
  BY <1>13
<1> QED
  BY <1>11, <1>15, <1>16 DEF Outcome, r, q

(* Neighbours swapped: the same copies. *)
LEMMA SwappedFacts ==
    ASSUME list \in Seq(CandidateSet), Distinct(list), NEW i \in 1 .. Len(list) - 1
    PROVE  /\ Swapped(i) \in Seq(CandidateSet) /\ Swapped(i) # <<>> /\ list # <<>>
           /\ Distinct(Swapped(i)) /\ SetOf(Swapped(i)) = SetOf(list)
<1> DEFINE n == Len(list)
           m == Swapped(i)
           p(j) == IF j = i THEN i + 1 ELSE IF j = i + 1 THEN i ELSE j
<1>1. n \in Nat /\ DOMAIN list = 1 .. n /\ \A j \in 1 .. n : list[j] \in CandidateSet
  BY LenProperties, ElementOfSeq
<1> HIDE DEF n
<1>2. i \in 1 .. n /\ i + 1 \in 1 .. n /\ i # i + 1
  BY <1>1 DEF n
<1>3. DOMAIN m = 1 .. n
  BY <1>1 DEF Swapped
<1>4. \A j \in 1 .. n : p(j) \in 1 .. n /\ p(p(j)) = j
  BY <1>2
<1>5. \A j \in 1 .. n : m[j] = list[p(j)]
  BY <1>1, <1>2 DEF Swapped
<1>6. m = [j \in 1 .. n |-> m[j]]
  BY <1>1, <1>3 DEF Swapped
<1> HIDE DEF m, p
<1>7. \A j \in 1 .. n : m[j] \in CandidateSet
  BY <1>1, <1>4, <1>5
<1>8. m \in [1 .. n -> CandidateSet]
  BY <1>6, <1>7
<1>9. m \in Seq(CandidateSet)
  BY <1>1, <1>8, SeqDef
<1>10. m # <<>> /\ list # <<>>
  BY <1>1, <1>2, <1>3
<1>11. Distinct(m)
  BY <1>1, <1>3, <1>4, <1>5 DEF Distinct
<1>12. SetOf(m) = SetOf(list)
  BY <1>1, <1>3, <1>4, <1>5 DEF SetOf
<1> QED
  BY <1>9, <1>10, <1>11, <1>12 DEF m

(* OneOutcome.  Every device decides alike: the winning record, the conflict   *)
(* names and the number of files to remove are the same for every order in     *)
(* which the walk lists the copies (manifest.go:302-308), for every number of  *)
(* copies, of which all have a clock or none has.                              *)
THEOREM OneOutcome == ASSUME ~Mixed PROVE WalkSpec => []OrderIndependent
<1>1. WalkInv => OrderIndependent
  <2> SUFFICES ASSUME WalkInv, NEW i \in 1 .. Len(list) - 1
               PROVE  Outcome(Swapped(i)) = Outcome(list)
    BY DEF OrderIndependent
  <2>1. /\ list \in Seq(CandidateSet) /\ Distinct(list) /\ Family(SetOf(list))
        /\ Uniform(SetOf(list))
    BY WalkFacts
  <2>2. /\ Swapped(i) \in Seq(CandidateSet) /\ Swapped(i) # <<>> /\ list # <<>>
        /\ Distinct(Swapped(i)) /\ SetOf(Swapped(i)) = SetOf(list)
    BY <2>1, SwappedFacts
  <2> DEFINE m == Swapped(i)
  <2> HIDE DEF m
  <2>3. Outcome(m) = Outcome(list)
    BY <2>1, <2>2, OutcomeOfSet DEF m
  <2> QED
    BY <2>3 DEF m
<1> QED
  BY <1>1, WalkInvariant, PTL
--------------------------------------------------------------------------------
(* VaultSync.  The manifest files of a device and what a load makes of them. *)

LogRecord == [path : Paths, del : BOOLEAN, body : Nat, gen : Nat, upd : Nat, delGen : Nat,
              clock : Clock, age : Clock, key : Nat]

(* A candidate that was read from a file of the model. *)
FileCopy == [src : Name, id : 1 .. MaxWrites, del : BOOLEAN, body : Nat, gen : Nat, upd : Nat,
             delGen : Nat, clock : Clock, key : Nat]

LogOK == log \in Seq(LogRecord) /\ Len(log) <= MaxWrites

(* Files that hold records of the log. *)
Held(fs) == fs \in Files /\ \A n \in Name : fs[n] <= Len(log)

Present(fs, p) == {n \in SetOf(Names(p)) : fs[n] # None}

LEMMA NamesFacts ==
    ASSUME NEW p \in Paths
    PROVE  /\ Names(p) \in Seq(Name) /\ Distinct(Names(p)) /\ SetOf(Names(p)) \subseteq Name
           /\ <<p, 0>> \in SetOf(Names(p))
           /\ \A n \in SetOf(Names(p)) : n[1] = p
           /\ p # Main => SetOf(Names(p)) = {<<p, 0>>}
           /\ p = Main => SetOf(Names(p)) = {<<p, c>> : c \in 0 .. Copies}
<1> DEFINE s == Names(p)
<1>1. SetOf(s) \subseteq Name
  BY DEF Name
<1>2. CASE p = Main
  <2>1. s = [c \in 1 .. Copies + 1 |-> <<p, c - 1>>]
    BY <1>2 DEF Names
  <2> HIDE DEF s
  <2>2. DOMAIN s = 1 .. Copies + 1 /\ Copies \in Nat
    BY <2>1, VaultSyncAssumption
  <2>3. \A c \in DOMAIN s : s[c] = <<p, c - 1>> /\ s[c] \in Name
    BY <1>1, <2>1 DEF SetOf
  <2>4. s \in Seq(Name)
    <3>1. s \in [1 .. Copies + 1 -> Name] /\ Copies + 1 \in Nat
      BY <2>1, <2>2, <2>3
    <3> QED
      BY <3>1, SeqDef
  <2>5. Distinct(s)
    BY <2>2, <2>3 DEF Distinct
  <2>6. SetOf(s) = {<<p, c>> : c \in 0 .. Copies}
    <3>1. \A c \in 0 .. Copies : c + 1 \in DOMAIN s /\ s[c + 1] = <<p, c>>
      BY <2>2, <2>3
    <3>2. \A c \in DOMAIN s : c - 1 \in 0 .. Copies
      BY <2>2
    <3> QED
      BY <2>3, <3>1, <3>2 DEF SetOf
  <2>7. 0 \in 0 .. Copies
    BY <2>2
  <2> QED
    BY <1>1, <1>2, <2>4, <2>5, <2>6, <2>7 DEF s
<1>3. CASE p # Main
  <2>1. s = << <<p, 0>> >>
    BY <1>3 DEF Names
  <2> HIDE DEF s
  <2>2. DOMAIN s = {1} /\ s[1] = <<p, 0>>
    BY <2>1
  <2>3. SetOf(s) = {<<p, 0>>}
    BY <2>2 DEF SetOf
  <2>4. s \in Seq(Name)
    BY <1>1, <2>1, <2>3 DEF s
  <2>5. Distinct(s)
    BY <2>2 DEF Distinct
  <2> QED
    BY <1>1, <1>3, <2>3, <2>4, <2>5 DEF s
<1> QED
  BY <1>2, <1>3

LEMMA MainFacts == Main \in Paths /\ 1 .. MaxWrites \subseteq Paths /\ MaxWrites \in Nat
                   /\ \A p \in Paths : p # Main => p \in 1 .. MaxWrites
BY VaultSyncAssumption DEF Main, Paths

LEMMA CandidateOf ==
    ASSUME LogOK, NEW fs, Held(fs), NEW n \in Name, fs[n] # None
    PROVE  /\ Candidate(fs, n) \in FileCopy
           /\ Candidate(fs, n).src = n /\ Candidate(fs, n).id = fs[n]
           /\ Candidate(fs, n).del = log[fs[n]].del /\ Candidate(fs, n).key = log[fs[n]].key
           /\ Candidate(fs, n).clock = log[fs[n]].clock
           /\ Candidate(fs, n).body = log[fs[n]].body
           /\ fs[n] \in DOMAIN log /\ log[fs[n]] \in LogRecord
<1> DEFINE i == fs[n]
           r == log[i]
<1>1. i \in 1 .. MaxWrites /\ i \in 1 .. Len(log) /\ Len(log) \in Nat
  BY VaultSyncAssumption, LenProperties DEF Held, Files, None, LogOK
<1>2. i \in DOMAIN log /\ r \in LogRecord
  BY <1>1, LenProperties, ElementOfSeq DEF LogOK
<1>3. Candidate(fs, n) = [src |-> n, id |-> i, del |-> r.del, body |-> r.body, gen |-> r.gen,
                          upd |-> r.upd, delGen |-> r.delGen, clock |-> r.clock, key |-> r.key]
  BY DEF Candidate
<1> HIDE DEF i, r
<1>4. /\ r.del \in BOOLEAN /\ r.body \in Nat /\ r.gen \in Nat /\ r.upd \in Nat /\ r.delGen \in Nat
      /\ r.clock \in Clock /\ r.key \in Nat
  BY <1>2 DEF LogRecord
<1>5. Candidate(fs, n) \in FileCopy
  BY <1>1, <1>3, <1>4 DEF FileCopy
<1> QED
  BY <1>2, <1>3, <1>5 DEF i, r

LEMMA GroupFacts ==
    ASSUME LogOK, NEW fs, Held(fs), NEW p \in Paths
    PROVE  /\ Group(fs, p) \in Seq(FileCopy) /\ Distinct(Group(fs, p))
           /\ SetOf(Group(fs, p)) = {Candidate(fs, n) : n \in Present(fs, p)}
           /\ Group(fs, p) # <<>> <=> Present(fs, p) # {}
           /\ HasGroup(fs, p) <=> Present(fs, p) # {}
           /\ Present(fs, p) \subseteq Name
<1> DEFINE f == Filter(Names(p), Present(fs, p))
           g == Group(fs, p)
<1>1. /\ f \in Seq(Name) /\ SetOf(f) = SetOf(Names(p)) \cap Present(fs, p) /\ Distinct(f)
  BY NamesFacts, FilterFacts
<1>2. g = [i \in DOMAIN f |-> Candidate(fs, f[i])]
  BY DEF Group, Present
<1> HIDE DEF f, g
<1>3. SetOf(f) = Present(fs, p) /\ Present(fs, p) \subseteq Name
  BY <1>1, NamesFacts DEF Present
<1>4. Len(f) \in Nat /\ DOMAIN f = 1 .. Len(f)
  BY <1>1, LenProperties
<1>5. \A i \in DOMAIN f : f[i] \in Present(fs, p) /\ f[i] \in Name /\ fs[f[i]] # None
  BY <1>3 DEF SetOf, Present
<1>6. \A i \in DOMAIN f : g[i] = Candidate(fs, f[i]) /\ g[i] \in FileCopy /\ g[i].src = f[i]
  BY <1>2, <1>5, CandidateOf
<1>7. DOMAIN g = 1 .. Len(f)
  BY <1>2, <1>4
<1>8. g \in Seq(FileCopy)
  <2>1. g = [i \in 1 .. Len(f) |-> g[i]]
    BY <1>2, <1>4, <1>7
  <2>2. g \in [1 .. Len(f) -> FileCopy]
    BY <1>4, <1>6, <2>1
  <2> QED
    BY <1>4, <2>2, SeqDef
<1>9. Distinct(g)
  BY <1>1, <1>4, <1>6, <1>7 DEF Distinct
<1>10. SetOf(g) = {Candidate(fs, n) : n \in Present(fs, p)}
  <2>1. SetOf(g) = {Candidate(fs, f[i]) : i \in DOMAIN f}
    BY <1>4, <1>6, <1>7 DEF SetOf
  <2>2. Present(fs, p) = {f[i] : i \in DOMAIN f}
    BY <1>3 DEF SetOf
  <2> QED
    BY <2>1, <2>2
<1>11. g # <<>> <=> Present(fs, p) # {}
  <2>1. g = <<>> <=> SetOf(g) = {}
    <3>1. Len(g) \in Nat /\ DOMAIN g = 1 .. Len(g)
      BY <1>8, LenProperties
    <3>2. g = <<>> <=> Len(g) = 0
      BY <1>8, EmptySeq
    <3>3. Len(g) # 0 => 1 \in DOMAIN g
      BY <3>1
    <3>4. Len(g) # 0 => g[1] \in SetOf(g)
      BY <3>3 DEF SetOf
    <3>5. Len(g) = 0 => DOMAIN g = {}
      BY <3>1
    <3>6. Len(g) = 0 => SetOf(g) = {}
      BY <3>5 DEF SetOf
    <3> QED
      BY <3>2, <3>4, <3>6
  <2> QED
    BY <1>10, <2>1
<1>12. HasGroup(fs, p) <=> Present(fs, p) # {}
  BY DEF HasGroup, Present
<1> QED
  BY <1>3, <1>8, <1>9, <1>10, <1>11, <1>12 DEF g

(* The copies of a path on a device, and those another copy dominates. *)
CopiesOf(fs, p) == {Candidate(fs, n) : n \in Present(fs, p)}
Pruned(B) == {c \in B : isCausallyDominated(c, B)}

(* The verdict on the files of one path, as sets. *)
VerdictOn(r, B) ==
    LET A == B \ Pruned(B)
    IN  /\ r.winner \in A
        /\ Ordered(A) => \A a \in A : candidateCompare(a, r.winner) <= 0
        /\ SetOf(r.conflicts) = {c \in A : c # r.winner /\ ~Redundant(c, r.winner)}
        /\ SetOf(r.removes) = Pruned(B) \cup {c \in A : c # r.winner /\ Redundant(c, r.winner)}
        /\ r.conflicts \in Seq(FileCopy) /\ r.removes \in Seq(FileCopy)

LEMMA SettledDomain ==
    ASSUME LogOK, NEW fs, Held(fs)
    PROVE  DOMAIN Settled(fs) = {p \in Paths : Present(fs, p) # {}}
BY GroupFacts DEF Settled

LEMMA SettledFacts ==
    ASSUME LogOK, NEW fs, Held(fs), NEW p \in Paths, Present(fs, p) # {}
    PROVE  VerdictOn(Settled(fs)[p], CopiesOf(fs, p))
<1> DEFINE l == Group(fs, p)
           r == reconcilePathCandidates(l)
<1>1. /\ l \in Seq(FileCopy) /\ Distinct(l) /\ l # <<>>
      /\ SetOf(l) = CopiesOf(fs, p)
  BY GroupFacts DEF CopiesOf
<1>2. \A c \in FileCopy : c.clock \in Clock
  BY DEF FileCopy
<1>3. Settled(fs)[p] = r
  BY GroupFacts DEF Settled
<1>4. Dominated(l) = Pruned(SetOf(l))
  BY DEF Dominated, Pruned
<1> HIDE DEF l
<1> DEFINE A == SetOf(l) \ Dominated(l)
           gone == Dominated(l) \cup {c \in A : c # r.winner /\ Redundant(c, r.winner)}
<1>5. /\ r.winner \in A
      /\ Ordered(A) => \A a \in A : candidateCompare(a, r.winner) <= 0
      /\ SetOf(r.conflicts) = {c \in A : c # r.winner /\ ~Redundant(c, r.winner)}
      /\ SetOf(r.removes) = gone
      /\ r.conflicts \in Seq(FileCopy) /\ r.removes \in Seq(FileCopy)
  BY <1>1, <1>2, ReconcileFacts
<1> HIDE DEF r
<1> QED
  BY <1>1, <1>3, <1>4, <1>5 DEF VerdictOn

LEMMA CopiesOfFacts ==
    ASSUME LogOK, NEW fs, Held(fs), NEW p \in Paths
    PROVE  \A c \in CopiesOf(fs, p) :
              /\ c \in FileCopy /\ c.src \in Present(fs, p) /\ c.src \in Name
              /\ c.id = fs[c.src] /\ c.id \in DOMAIN log /\ c.id <= Len(log)
              /\ c = Candidate(fs, c.src)
              /\ c.del = log[c.id].del /\ c.key = log[c.id].key /\ c.clock = log[c.id].clock
              /\ c.body = log[c.id].body
              /\ c.key \in Nat /\ c.del \in BOOLEAN
<1> TAKE c \in CopiesOf(fs, p)
<1>1. PICK n \in Present(fs, p) : c = Candidate(fs, n)
  BY DEF CopiesOf
<1>2. n \in Name /\ fs[n] # None /\ fs[n] <= Len(log)
  BY GroupFacts DEF Present, Held
<1>3. /\ c \in FileCopy /\ c.src = n /\ c.id = fs[n] /\ c.del = log[fs[n]].del
      /\ c.key = log[fs[n]].key /\ c.clock = log[fs[n]].clock /\ c.body = log[fs[n]].body
      /\ fs[n] \in DOMAIN log
  BY <1>1, <1>2, CandidateOf
<1>4. c.key \in Nat /\ c.del \in BOOLEAN
  BY <1>3 DEF FileCopy
<1> QED
  BY <1>1, <1>2, <1>3, <1>4, Zenon

(* The losers that are shown and planned. *)
LEMMA ConflictsFacts ==
    ASSUME LogOK, NEW fs, Held(fs)
    PROVE  /\ Conflicts(Settled(fs)) \in Seq(FileCopy)
           /\ Present(fs, Main) = {} => SetOf(Conflicts(Settled(fs))) = {}
           /\ Present(fs, Main) # {} =>
                 SetOf(Conflicts(Settled(fs))) =
                    {c \in SetOf(Settled(fs)[Main].conflicts) : Present(fs, c.id) = {}}
           /\ \A c \in SetOf(Conflicts(Settled(fs))) : c \in CopiesOf(fs, Main)
<1> DEFINE D == DOMAIN Settled(fs)
<1>1. D = {p \in Paths : Present(fs, p) # {}} /\ Main \in Paths
  BY SettledDomain, MainFacts
<1>2. CASE Present(fs, Main) = {}
  <2>1. Conflicts(Settled(fs)) = <<>>
    BY <1>1, <1>2 DEF Conflicts
  <2>2. SetOf(Conflicts(Settled(fs))) = {}
    BY <2>1 DEF SetOf
  <2> QED
    BY <1>2, <2>1, <2>2
<1>3. CASE Present(fs, Main) # {}
  <2> DEFINE k == Settled(fs)[Main].conflicts
             S == {c \in SetOf(k) : c.id \notin D}
             w == Settled(fs)[Main].winner
             B == CopiesOf(fs, Main)
  <2>1. /\ k \in Seq(FileCopy)
        /\ SetOf(k) = {c \in B \ Pruned(B) : c # w /\ ~Redundant(c, w)}
    BY <1>1, <1>3, SettledFacts DEF VerdictOn
  <2>2. Conflicts(Settled(fs)) = Filter(k, S)
    BY <1>1, <1>3 DEF Conflicts
  <2> HIDE DEF k
  <2>3. Filter(k, S) \in Seq(FileCopy) /\ SetOf(Filter(k, S)) = SetOf(k) \cap S
    BY <2>1, FilterFacts
  <2>4. \A c \in SetOf(k) : c.id \in Paths
    <3>1. \A c \in SetOf(k) : c \in FileCopy
      BY <1>1, <2>1, CopiesOfFacts
    <3> QED
      BY <3>1, MainFacts DEF FileCopy
  <2>5. S = {c \in SetOf(k) : Present(fs, c.id) = {}}
    BY <1>1, <2>4
  <2> HIDE DEF S, B, w
  <2>6. SetOf(Conflicts(Settled(fs))) = S /\ S \subseteq B
    <3>1. S \subseteq SetOf(k)
      BY <2>5
    <3> QED
      BY <2>1, <2>2, <2>3, <3>1
  <2> QED
    BY <1>3, <2>2, <2>3, <2>5, <2>6 DEF k, B
<1> QED
  BY <1>2, <1>3

(* The index: what is shown is a record of the log. *)
LEMMA LoadFacts ==
    ASSUME LogOK, NEW fs, Held(fs)
    PROVE  /\ Load(fs) \in Index
           /\ \A p \in Paths : Load(fs)[p] <= Len(log)
           /\ \A p \in Paths :
                 /\ Present(fs, p) # {} =>
                       Load(fs)[p] = IF Settled(fs)[p].winner.del THEN 0 ELSE Settled(fs)[p].winner.id
                 /\ Present(fs, p) = {} =>
                       Load(fs)[p] = IF \E c \in SetOf(Conflicts(Settled(fs))) : c.id = p
                                     THEN p ELSE 0
<1> DEFINE D == DOMAIN Settled(fs)
           K == SetOf(Conflicts(Settled(fs)))
           W(p) == Settled(fs)[p].winner
<1>1. D = {p \in Paths : Present(fs, p) # {}} /\ Main \in Paths
  BY SettledDomain, MainFacts
<1>2. Load(fs) = [p \in Paths |->
                     IF p \in D THEN IF W(p).del THEN 0 ELSE W(p).id
                     ELSE IF \E c \in K : c.id = p THEN p ELSE 0]
  BY DEF Load, IndexOf
<1>3. \A p \in Paths : Present(fs, p) # {} => W(p).id \in 1 .. MaxWrites /\ W(p).id <= Len(log)
  <2> TAKE p \in Paths
  <2> SUFFICES ASSUME Present(fs, p) # {} PROVE W(p).id \in 1 .. MaxWrites /\ W(p).id <= Len(log)
    OBVIOUS
  <2>1. W(p) \in CopiesOf(fs, p)
    BY SettledFacts DEF VerdictOn
  <2> HIDE DEF W
  <2>2. W(p) \in FileCopy /\ W(p).id <= Len(log)
    BY <2>1, CopiesOfFacts
  <2> QED
    BY <2>2 DEF FileCopy
<1>4. \A c \in K : c.id <= Len(log)
  BY <1>1, ConflictsFacts, CopiesOfFacts
<1>5. Len(log) \in Nat /\ MaxWrites \in Nat
  BY LenProperties, MainFacts DEF LogOK
<1> HIDE DEF K, W, D
<1>6. \A p \in Paths : Load(fs)[p] \in 0 .. MaxWrites /\ Load(fs)[p] <= Len(log)
  <2> TAKE p \in Paths
  <2>1. CASE p \in D
    BY <1>1, <1>2, <1>3, <1>5, <2>1
  <2>2. CASE p \notin D
    BY <1>2, <1>4, <1>5, <2>2 DEF Paths
  <2> QED
    BY <2>1, <2>2
<1>7. Load(fs) \in Index
  BY <1>2, <1>6 DEF Index
<1> QED
  BY <1>1, <1>2, <1>6, <1>7 DEF K, W
--------------------------------------------------------------------------------
(* VaultSync.  The record of a local write. *)

LEMMA MaxOfFacts ==
    ASSUME NEW N \in Nat, NEW S, S \subseteq 0 .. N, S # {}
    PROVE  MaxOf(S) \in S /\ MaxOf(S) \in Nat /\ \A n \in S : n <= MaxOf(S)
<1>1. \E j \in S : \A k \in S : k <= j
  BY GreatestOf
<1>2. MaxOf(S) \in S /\ \A n \in S : n <= MaxOf(S)
  BY <1>1 DEF MaxOf
<1>3. \A n \in S : n \in Nat
  OBVIOUS
<1> QED
  BY <1>2, <1>3, Zenon

LEMMA MaxOfTwo ==
    ASSUME NEW a \in Nat, NEW b \in Nat
    PROVE  MaxOf({a, b}) \in Nat /\ MaxOf({a, b}) >= a /\ MaxOf({a, b}) >= b
<1> DEFINE m == MaxOf({a, b})
<1>1. {a, b} \subseteq 0 .. a + b /\ a + b \in Nat /\ {a, b} # {}
  OBVIOUS
<1>2. m \in Nat /\ \A n \in {a, b} : n <= m
  BY <1>1, MaxOfFacts
<1> HIDE DEF m
<1>3. m \in Nat /\ m >= a /\ m >= b
  BY <1>2
<1> QED
  BY <1>3 DEF m

LEMMA GenerationsBounded ==
    ASSUME LogOK
    PROVE  \E N \in Nat : \A i \in DOMAIN log : log[i].gen \in 0 .. N
<1>1. /\ Len(log) \in Nat /\ DOMAIN log = 1 .. Len(log)
      /\ \A i \in 1 .. Len(log) : log[i] \in LogRecord
  BY LenProperties, ElementOfSeq DEF LogOK
<1>2. \A i \in 1 .. Len(log) : log[i].gen \in Nat
  BY <1>1 DEF LogRecord
<1> DEFINE T == {n \in 0 .. Len(log) : \E N \in Nat : \A i \in 1 .. n : log[i].gen \in 0 .. N}
<1>3. 0 \in T
  <2>1. 0 \in 0 .. Len(log) /\ 0 \in Nat /\ \A i \in 1 .. 0 : log[i].gen \in 0 .. 0
    BY <1>1
  <2> QED
    BY <2>1
<1>4. ASSUME NEW n \in 0 .. Len(log) - 1, n \in T PROVE n + 1 \in T
  <2>1. PICK N \in Nat : \A i \in 1 .. n : log[i].gen \in 0 .. N
    BY <1>4
  <2>2. n + 1 \in 1 .. Len(log) /\ n + 1 \in 0 .. Len(log)
    BY <1>1
  <2> DEFINE g == log[n + 1].gen
  <2>3. g \in Nat
    BY <1>2, <2>2
  <2>4. \A i \in 1 .. n + 1 : i \in 1 .. n \/ i = n + 1
    BY <1>1
  <2>5. \A i \in 1 .. n + 1 : log[i].gen \in 0 .. N \/ log[i].gen = g
    BY <2>1, <2>4
  <2> HIDE DEF g
  <2>6. N + g \in Nat /\ \A x \in 0 .. N : x \in 0 .. N + g
    BY <2>3
  <2>7. g \in 0 .. N + g
    BY <2>3
  <2>8. \A i \in 1 .. n + 1 : log[i].gen \in 0 .. N + g
    BY <2>5, <2>6, <2>7
  <2> QED
    BY <2>2, <2>6, <2>8
<1> HIDE DEF T
<1>5. 0 .. Len(log) \subseteq T
  BY <1>1, <1>3, <1>4, PrefixInduction
<1>6. Len(log) \in T
  BY <1>1, <1>5
<1> QED
  BY <1>1, <1>6 DEF T

(* Folding the generations a load observes into the largest one seen. *)
LEMMA ObservedFacts ==
    ASSUME LogOK, NEW fs, Held(fs), NEW g \in Nat
    PROVE  MaxOf(Observed(fs) \cup {g}) \in Nat
<1>1. PICK N \in Nat : \A i \in DOMAIN log : log[i].gen \in 0 .. N
  BY GenerationsBounded
<1>2. Observed(fs) \subseteq 0 .. N
  <2> SUFFICES ASSUME NEW n \in Name, fs[n] # None PROVE log[fs[n]].gen \in 0 .. N
    BY DEF Observed
  <2>1. fs[n] \in DOMAIN log
    BY CandidateOf
  <2> QED
    BY <1>1, <2>1
<1> DEFINE S == Observed(fs) \cup {g}
<1>3. 0 .. N \subseteq 0 .. N + g /\ g \in 0 .. N + g /\ N + g \in Nat
  OBVIOUS
<1>4. S \subseteq 0 .. N + g /\ S # {}
  BY <1>2, <1>3
<1> HIDE DEF S
<1>5. MaxOf(S) \in Nat
  BY <1>3, <1>4, MaxOfFacts
<1> QED
  BY <1>5 DEF S

LEMMA ClockOfWrite ==
    ASSUME LogOK, NEW d \in Devices, NEW snap \in 0 .. Len(log)
    PROVE  /\ wallNano(d) \in Nat
           /\ advanceClock(d, snap) \in Clock /\ nextRecordClock(d, snap) \in Clock
           /\ nextClockAge(d, snap) \in Clock /\ NoClock \in Clock
           /\ d \notin NoDeviceID =>
                 Clocked(advanceClock(d, snap)) /\ Clocked(nextRecordClock(d, snap))
<1> DEFINE b == BaseClock(snap)
           g == BaseAge(snap)
           w == wallNano(d)
<1>1. Len(log) \in Nat /\ DOMAIN log = 1 .. Len(log)
  BY LenProperties DEF LogOK
<1>2. NoClock \in Clock
  BY DEF NoClock, Clock
<1>3. b \in Clock /\ g \in Clock
  <2>1. CASE snap = 0
    BY <1>2, <2>1 DEF BaseClock, BaseAge
  <2>2. CASE snap # 0
    <3>1. snap \in 1 .. Len(log)
      BY <1>1, <2>2
    <3>2. log[snap] \in LogRecord
      BY <3>1, ElementOfSeq DEF LogOK
    <3> QED
      BY <2>2, <3>2 DEF BaseClock, BaseAge, LogRecord
  <2> QED
    BY <2>1, <2>2
<1>4. w \in Nat
  BY <1>1, VaultSyncAssumption DEF wallNano
<1> HIDE DEF b, g, w
<1> DEFINE m == MaxOf({b[d], w}) + 1
<1>5. m \in Nat /\ m > 0
  <2>1. b[d] \in Nat
    BY <1>3 DEF Clock
  <2> QED
    BY <1>4, <2>1, MaxOfTwo
<1> DEFINE a == advanceClock(d, snap)
<1>6. a = IF d \in NoDeviceID THEN NoClock ELSE [b EXCEPT ![d] = m]
  BY DEF advanceClock, b, w
<1> HIDE DEF m, a
<1>7. a \in Clock /\ (d \notin NoDeviceID => a[d] > 0)
  BY <1>2, <1>3, <1>5, <1>6 DEF Clock
<1>8. \A e \in AgedOut(d, snap) : e # d
  BY DEF AgedOut
<1> DEFINE r == nextRecordClock(d, snap)
<1>9. r = [e \in Devices |-> IF e \in AgedOut(d, snap) THEN 0 ELSE a[e]]
  BY DEF nextRecordClock, a
<1> HIDE DEF r
<1>10. r \in Clock /\ (d \notin NoDeviceID => r[d] > 0)
  BY <1>7, <1>8, <1>9 DEF Clock
<1>11. nextClockAge(d, snap) \in Clock
  <2>1. \A e \in Devices : g[e] \in Nat
    BY <1>3 DEF Clock
  <2>2. \A e \in Devices : g[e] + 1 \in Nat
    BY <2>1
  <2> QED
    BY <2>2 DEF nextClockAge, Clock, g
<1>12. d \notin NoDeviceID => Clocked(a) /\ Clocked(r)
  BY <1>7, <1>10 DEF Clocked
<1> QED
  BY <1>2, <1>4, <1>7, <1>10, <1>11, <1>12 DEF a, r, w

LEMMA RecordOfPut ==
    ASSUME LogOK, maxGen \in [Devices -> Nat], NEW d \in Devices, NEW snap \in 0 .. Len(log),
           NEW key \in Keys
    PROVE  LET r == PutRecord(d, snap, key)
           IN  /\ r \in LogRecord /\ r.path = Main /\ r.key = key /\ r.gen \in Nat
               /\ d \notin NoDeviceID => Clocked(r.clock)
<1> DEFINE g == nextGeneration(d)
           w == wallNano(d)
           c == nextRecordClock(d, snap)
           a == nextClockAge(d, snap)
           b == Len(log) + 1
<1>1. w \in Nat /\ c \in Clock /\ a \in Clock /\ (d \notin NoDeviceID => Clocked(c))
  BY ClockOfWrite
<1>2. g \in Nat
  <2>1. maxGen[d] + 1 \in Nat
    OBVIOUS
  <2> QED
    BY <1>1, <2>1, MaxOfTwo DEF nextGeneration
<1>3. b \in Nat /\ key \in Nat /\ Main \in Paths
  BY LenProperties, VaultSyncAssumption, MainFacts DEF LogOK
<1> DEFINE r == PutRecord(d, snap, key)
<1>4. r = [path |-> Main, del |-> FALSE, body |-> b, gen |-> g, upd |-> w, delGen |-> 0,
           clock |-> c, age |-> a, key |-> key]
  BY DEF PutRecord
<1> HIDE DEF g, w, c, a, b, r
<1>5. /\ r \in LogRecord /\ r.path = Main /\ r.key = key /\ r.gen = g /\ r.clock = c
  BY <1>1, <1>2, <1>3, <1>4 DEF LogRecord
<1> QED
  BY <1>1, <1>2, <1>5 DEF r

LEMMA RecordOfRemove ==
    ASSUME LogOK, maxGen \in [Devices -> Nat], NEW d \in Devices, NEW p \in Paths,
           NEW snap \in 1 .. Len(log), NEW key \in Keys
    PROVE  LET r == Tombstone(d, p, snap, key)
           IN  /\ r \in LogRecord /\ r.path = p /\ r.key = key /\ r.gen \in Nat
               /\ d \notin NoDeviceID => Clocked(r.clock)
<1> DEFINE g == nextGeneration(d)
           w == wallNano(d)
           c == advanceClock(d, snap)
           e == log[snap].gen
<1>0. snap \in 0 .. Len(log) /\ Len(log) \in Nat
  BY LenProperties DEF LogOK
<1>1. w \in Nat /\ c \in Clock /\ NoClock \in Clock /\ (d \notin NoDeviceID => Clocked(c))
  BY <1>0, ClockOfWrite
<1>2. g \in Nat
  <2>1. maxGen[d] + 1 \in Nat
    OBVIOUS
  <2> QED
    BY <1>1, <2>1, MaxOfTwo DEF nextGeneration
<1>3. e \in Nat /\ key \in Nat
  <2>1. log[snap] \in LogRecord
    BY ElementOfSeq DEF LogOK
  <2> QED
    BY <2>1, VaultSyncAssumption DEF LogRecord
<1> DEFINE r == Tombstone(d, p, snap, key)
<1>4. r = [path |-> p, del |-> TRUE, body |-> 0, gen |-> g, upd |-> w, delGen |-> e,
           clock |-> c, age |-> NoClock, key |-> key]
  BY DEF Tombstone
<1> HIDE DEF g, w, c, e, r
<1>5. /\ r \in LogRecord /\ r.path = p /\ r.key = key /\ r.gen = g /\ r.clock = c
  BY <1>1, <1>2, <1>3, <1>4 DEF LogRecord
<1> QED
  BY <1>1, <1>2, <1>5 DEF r
--------------------------------------------------------------------------------
(* VaultSync.  Types: every number that stands for a record is in the log. *)

Puts == [kind : {"put"}, path : {Main}, snap : 0 .. MaxWrites]
Removals == [kind : {"remove"}, path : Paths, snap : 1 .. MaxWrites]
RemoveLists == UNION {[P -> Seq(FileCopy)] : P \in SUBSET Paths}
Compactions == [kind : {"compact"}, conflicts : Seq(FileCopy), loser : SUBSET Name,
                removes : RemoveLists, changed : BOOLEAN, errors : BOOLEAN, shown : Index]
Ops == {NoOp} \cup Puts \cup Removals \cup Compactions

OpKnown(o) ==
    /\ o.kind \in {"put", "remove"} => o.snap <= Len(log)
    /\ o.kind = "compact" => \A c \in SetOf(o.conflicts) : c.id <= Len(log)

LogInv ==
    /\ LogOK
    /\ \A i \in DOMAIN log : log[i].key \in Keys
    /\ \A i, j \in DOMAIN log : log[i].key = log[j].key => i = j

FilesInv ==
    /\ disk \in [Devices -> Files]
    /\ \A d \in Devices : Held(disk[d]) /\ HoldOwnRecords(disk[d])
    /\ Held(server) /\ HoldOwnRecords(server)
    /\ base \in [Devices -> Files]

CacheInv ==
    /\ cache \in [Devices -> Index \cup {Nil}]
    /\ \A d \in Devices : cache[d] # Nil => \A p \in Paths : cache[d][p] <= Len(log)
    /\ maxGen \in [Devices -> Nat]

OpInv == op \in [Devices -> Ops] /\ \A d \in Devices : OpKnown(op[d])

Room == Len(log) + Cardinality(Writing) <= MaxWrites

SyncInv == LogInv /\ FilesInv /\ CacheInv /\ OpInv /\ Room /\ sup \subseteq DOMAIN log

LEMMA OpKinds ==
    ASSUME NEW o \in Ops
    PROVE  /\ o.kind \in {"none", "put", "remove", "compact"}
           /\ o.kind = "none" => o = NoOp
           /\ o.kind = "put" => o \in Puts
           /\ o.kind = "remove" => o \in Removals
           /\ o.kind = "compact" => o \in Compactions
BY DEF Ops, NoOp, Puts, Removals, Compactions

(* One file changes. *)
LEMMA OneFile ==
    ASSUME NEW fs, Held(fs), HoldOwnRecords(fs), NEW n \in Name, NEW v \in 0 .. MaxWrites,
           v <= Len(log), v # None => v = n[1] \/ log[v].path = n[1]
    PROVE  Held([fs EXCEPT ![n] = v]) /\ HoldOwnRecords([fs EXCEPT ![n] = v])
<1> DEFINE g == [fs EXCEPT ![n] = v]
<1>1. fs \in [Name -> 0 .. MaxWrites] /\ \A m \in Name : fs[m] <= Len(log)
  BY DEF Held, Files
<1>2. /\ g \in [Name -> 0 .. MaxWrites] /\ g[n] = v
      /\ \A m \in Name : m # n => g[m] = fs[m]
  BY <1>1
<1> HIDE DEF g
<1>3. Held(g)
  BY <1>1, <1>2 DEF Held, Files
<1>4. HoldOwnRecords(g)
  BY <1>2 DEF HoldOwnRecords
<1> QED
  BY <1>3, <1>4 DEF g

(* The files of one device change and the log does not. *)
LEMMA OneDisk ==
    ASSUME FilesInv, UNCHANGED <<log, server>>, base' \in [Devices -> Files],
           NEW d \in Devices, NEW g, Held(g), HoldOwnRecords(g), disk' = [disk EXCEPT ![d] = g]
    PROVE  FilesInv'
<1>1. g \in Files
  BY DEF Held
<1>2. disk' \in [Devices -> Files]
  BY <1>1 DEF FilesInv
<1>3. \A e \in Devices : disk'[e] = g \/ disk'[e] = disk[e]
  BY DEF FilesInv
<1>4. \A e \in Devices : Held(disk'[e]) /\ HoldOwnRecords(disk'[e])
  BY <1>3 DEF FilesInv
<1>5. \A e \in Devices : (Held(disk[e]) /\ HoldOwnRecords(disk[e]))'
  BY <1>4 DEF Held, HoldOwnRecords
<1>6. (Held(server) /\ HoldOwnRecords(server))'
  BY DEF FilesInv, Held, HoldOwnRecords
<1> QED
  BY <1>2, <1>5, <1>6 DEF FilesInv

LEMMA SameFiles ==
    ASSUME FilesInv, UNCHANGED <<log, disk, server>>, base' \in [Devices -> Files]
    PROVE  FilesInv'
BY DEF FilesInv, Held, HoldOwnRecords

(* Who is writing. *)
LEMMA WritingFacts ==
    ASSUME op \in [Devices -> Ops]
    PROVE  IsFiniteSet(Writing) /\ Cardinality(Writing) \in Nat
<1>1. Writing \subseteq Devices
  BY DEF Writing
<1>2. IsFiniteSet(Writing)
  BY <1>1, DevicesAssumption, FS_Subset
<1> QED
  BY <1>2, FS_CardinalityType

(* One operation changes: a write begins or ends, or a compaction goes on. *)
LEMMA OneOp ==
    ASSUME op \in [Devices -> Ops], NEW d \in Devices, NEW o \in Ops,
           op' = [op EXCEPT ![d] = o]
    PROVE  /\ op' \in [Devices -> Ops] /\ op'[d] = o
           /\ \A e \in Devices : e # d => op'[e] = op[e]
           /\ d \notin Writing /\ o.kind \in {"put", "remove"} =>
                 Cardinality(Writing') = Cardinality(Writing) + 1
           /\ d \in Writing /\ o.kind \notin {"put", "remove"} =>
                 Cardinality(Writing') = Cardinality(Writing) - 1
           /\ d \notin Writing /\ o.kind \notin {"put", "remove"} => Writing' = Writing
<1>1. op' \in [Devices -> Ops] /\ op'[d] = o /\ \A e \in Devices : e # d => op'[e] = op[e]
  OBVIOUS
<1>2. IsFiniteSet(Writing) /\ Cardinality(Writing) \in Nat
  BY WritingFacts
<1>3. Writing' = {e \in Devices : op'[e].kind \in {"put", "remove"}}
  BY DEF Writing
<1>4. ASSUME d \notin Writing, o.kind \in {"put", "remove"}
      PROVE  Cardinality(Writing') = Cardinality(Writing) + 1
  <2>1. Writing' = Writing \cup {d}
    BY <1>1, <1>3, <1>4 DEF Writing
  <2> QED
    BY <1>2, <1>4, <2>1, FS_AddElement
<1>5. ASSUME d \in Writing, o.kind \notin {"put", "remove"}
      PROVE  Cardinality(Writing') = Cardinality(Writing) - 1
  <2>1. Writing' = Writing \ {d}
    BY <1>1, <1>3, <1>5 DEF Writing
  <2> QED
    BY <1>2, <1>5, <2>1, FS_RemoveElement
<1>6. ASSUME d \notin Writing, o.kind \notin {"put", "remove"} PROVE Writing' = Writing
  BY <1>1, <1>3, <1>6 DEF Writing
<1> QED
  BY <1>1, <1>4, <1>5, <1>6

LEMMA OneOpKnown ==
    ASSUME OpInv, NEW d \in Devices, NEW o \in Ops, op' = [op EXCEPT ![d] = o],
           UNCHANGED log, OpKnown(o)
    PROVE  OpInv'
<1>1. /\ op' \in [Devices -> Ops] /\ op'[d] = o
      /\ \A e \in Devices : e # d => op'[e] = op[e]
  BY OneOp DEF OpInv
<1>2. \A e \in Devices : OpKnown(op'[e])
  BY <1>1 DEF OpInv
<1>3. \A e \in Devices : OpKnown(op[e])'
  BY <1>2 DEF OpKnown
<1> QED
  BY <1>1, <1>3 DEF OpInv

LEMMA BeginStep ==
    ASSUME SyncInv, NEW d \in Devices, NEW kind, NEW p \in Paths,
           (kind = "put" /\ p = Main) \/ kind = "remove",
           BeginWrite(d, kind, p, Load(disk[d]))
    PROVE  SyncInv'
<1> DEFINE fs == disk[d]
           ix == Cached(d, Load(fs))
           o == [kind |-> kind, path |-> p, snap |-> ix[p]]
<1>1. LogOK /\ Held(fs)
  BY DEF SyncInv, LogInv, FilesInv
<1>2. Load(fs) \in Index /\ \A q \in Paths : Load(fs)[q] <= Len(log)
  BY <1>1, LoadFacts
<1>3. ix \in Index /\ \A q \in Paths : ix[q] <= Len(log)
  BY <1>2 DEF Cached, SyncInv, CacheInv
<1>4. /\ cache' = [cache EXCEPT ![d] = ix] /\ maxGen' = [maxGen EXCEPT ![d] = GenSeen(d)]
      /\ op' = [op EXCEPT ![d] = o] /\ op[d] = NoOp
      /\ Len(log) + Cardinality(Writing) < MaxWrites
      /\ UNCHANGED <<log, disk, server, base, sup>>
      /\ kind = "remove" => ix[p] # 0
  BY DEF BeginWrite, syncVars, history
<1>5. GenSeen(d) \in Nat
  <2>1. maxGen[d] \in Nat
    BY DEF SyncInv, CacheInv
  <2> QED
    BY <1>1, <2>1, ObservedFacts DEF GenSeen
<1> HIDE DEF ix
<1>6. ix[p] \in 0 .. MaxWrites
  BY <1>3 DEF Index
<1>7. o \in Ops /\ OpKnown(o) /\ o.kind \in {"put", "remove"}
  <2>1. CASE kind = "put" /\ p = Main
    BY <1>3, <1>6, <2>1 DEF Ops, Puts, OpKnown
  <2>2. CASE kind = "remove"
    <3>1. ix[p] \in 1 .. MaxWrites
      BY <1>4, <1>6, <2>2
    <3> QED
      BY <1>3, <2>2, <3>1 DEF Ops, Removals, OpKnown
  <2> QED
    BY <2>1, <2>2
<1> HIDE DEF o
<1>8. OpInv'
  BY <1>4, <1>7, OneOpKnown DEF SyncInv
<1>9. CacheInv'
  <2>1. cache' \in [Devices -> Index \cup {Nil}] /\ maxGen' \in [Devices -> Nat]
    BY <1>3, <1>4, <1>5 DEF SyncInv, CacheInv
  <2>2. \A e \in Devices : cache'[e] = ix \/ cache'[e] = cache[e]
    BY <1>4 DEF SyncInv, CacheInv
  <2>3. \A e \in Devices : cache'[e] # Nil => \A q \in Paths : cache'[e][q] <= Len(log')
    BY <1>3, <1>4, <2>2 DEF SyncInv, CacheInv
  <2> QED
    BY <2>1, <2>3 DEF CacheInv
<1>10. Room'
  <2>1. d \notin Writing
    BY <1>4 DEF Writing, NoOp
  <2>2. Cardinality(Writing') = Cardinality(Writing) + 1
    BY <1>4, <1>7, <2>1, OneOp DEF SyncInv, OpInv
  <2>3. Cardinality(Writing) \in Nat /\ Len(log) \in Nat /\ MaxWrites \in Nat
    BY <1>1, WritingFacts, LenProperties, MainFacts DEF SyncInv, OpInv, LogOK
  <2>4. Len(log') = Len(log)
    BY <1>4
  <2> QED
    BY <1>4, <2>2, <2>3, <2>4 DEF Room
<1>11. FilesInv'
  BY <1>4, SameFiles DEF SyncInv, FilesInv
<1>12. LogInv' /\ (sup \subseteq DOMAIN log)'
  BY <1>4 DEF SyncInv, LogInv, LogOK
<1> QED
  BY <1>8, <1>9, <1>10, <1>11, <1>12 DEF SyncInv

(* A step that leaves the log, the server and what was replaced alone, and     *)
(* begins no write.                                                            *)
LEMMA QuietStep ==
    ASSUME SyncInv, UNCHANGED <<log, sup>>, FilesInv', OpInv', CacheInv',
           Cardinality(Writing') <= Cardinality(Writing)
    PROVE  SyncInv'
<1>1. LogInv' /\ (sup \subseteq DOMAIN log)'
  BY DEF SyncInv, LogInv, LogOK
<1>2. Cardinality(Writing) \in Nat /\ Cardinality(Writing') \in Nat /\ Len(log) \in Nat /\ MaxWrites \in Nat
  <2>1. Cardinality(Writing) \in Nat /\ Len(log) \in Nat /\ MaxWrites \in Nat
    BY WritingFacts, LenProperties, MainFacts DEF SyncInv, OpInv, LogInv, LogOK
  <2>2. Writing' \subseteq Devices
    BY DEF Writing
  <2>3. Cardinality(Writing') \in Nat
    BY <2>2, DevicesAssumption, FS_Subset, FS_CardinalityType
  <2> QED
    BY <2>1, <2>3
<1>3. Room'
  BY <1>2 DEF SyncInv, Room
<1> QED
  BY <1>1, <1>3 DEF SyncInv

LEMMA WritingEnds ==
    ASSUME SyncInv, NEW d \in Devices, NEW o \in Ops, op' = [op EXCEPT ![d] = o],
           o.kind \notin {"put", "remove"}
    PROVE  Cardinality(Writing') <= Cardinality(Writing)
<1>1. Cardinality(Writing) \in Nat
  BY WritingFacts DEF SyncInv, OpInv
<1>2. CASE d \in Writing
  <2>1. Cardinality(Writing') = Cardinality(Writing) - 1
    BY <1>2, OneOp DEF SyncInv, OpInv
  <2> QED
    BY <1>1, <2>1
<1>3. CASE d \notin Writing
  <2>1. Writing' = Writing
    BY <1>3, OneOp DEF SyncInv, OpInv
  <2> QED
    BY <1>1, <2>1
<1> QED
  BY <1>2, <1>3

LEMMA NoOpFacts == NoOp \in Ops /\ OpKnown(NoOp) /\ NoOp.kind = "none"
BY DEF Ops, NoOp, OpKnown

LEMMA AbandonStep ==
    ASSUME SyncInv, NEW d \in Devices, AbandonWrite(d)
    PROVE  SyncInv'
<1>1. op' = [op EXCEPT ![d] = NoOp] /\ UNCHANGED <<log, disk, server, base, cache, maxGen, sup>>
  BY DEF AbandonWrite, syncVars, history
<1>2. OpInv'
  BY <1>1, NoOpFacts, OneOpKnown DEF SyncInv
<1>3. FilesInv'
  BY <1>1, SameFiles DEF SyncInv, FilesInv
<1>4. CacheInv'
  BY <1>1 DEF SyncInv, CacheInv
<1>5. Cardinality(Writing') <= Cardinality(Writing)
  BY <1>1, NoOpFacts, WritingEnds
<1> QED
  BY <1>1, <1>2, <1>3, <1>4, <1>5, QuietStep

(* A step that touches only caches. *)
LEMMA SameOps ==
    ASSUME SyncInv, UNCHANGED <<log, op>>
    PROVE  OpInv' /\ Cardinality(Writing') <= Cardinality(Writing)
<1>1. Cardinality(Writing) \in Nat /\ Writing' = Writing
  BY WritingFacts DEF SyncInv, OpInv, Writing
<1> QED
  BY <1>1 DEF SyncInv, OpInv, OpKnown

LEMMA OneCache ==
    ASSUME SyncInv, UNCHANGED log, maxGen' \in [Devices -> Nat], NEW d \in Devices, NEW ix,
           ix = Nil \/ (ix \in Index /\ \A p \in Paths : ix[p] <= Len(log)),
           cache' = [cache EXCEPT ![d] = ix]
    PROVE  CacheInv'
<1>1. cache' \in [Devices -> Index \cup {Nil}]
  BY DEF SyncInv, CacheInv
<1>2. \A e \in Devices : cache'[e] = ix \/ cache'[e] = cache[e]
  BY DEF SyncInv, CacheInv
<1>3. \A e \in Devices : cache'[e] # Nil => \A p \in Paths : cache'[e][p] <= Len(log')
  BY <1>2 DEF SyncInv, CacheInv
<1> QED
  BY <1>1, <1>3 DEF CacheInv

LEMMA ReloadStep ==
    ASSUME SyncInv, NEW d \in Devices, Reload(d)
    PROVE  SyncInv'
<1>1. LogOK /\ Held(disk[d]) /\ maxGen \in [Devices -> Nat]
  BY DEF SyncInv, LogInv, FilesInv, CacheInv
<1>2. /\ cache' = [cache EXCEPT ![d] = Load(disk[d])]
      /\ maxGen' = [maxGen EXCEPT ![d] = MaxOf(Observed(disk[d]) \cup {maxGen[d]})]
      /\ UNCHANGED <<log, disk, server, base, op, sup>>
  BY <1>1 DEF Reload, syncVars, history
<1>3. Load(disk[d]) \in Index /\ \A p \in Paths : Load(disk[d])[p] <= Len(log)
  BY <1>1, LoadFacts
<1>4. maxGen' \in [Devices -> Nat]
  <2>1. MaxOf(Observed(disk[d]) \cup {maxGen[d]}) \in Nat
    BY <1>1, ObservedFacts
  <2> QED
    BY <1>1, <1>2, <2>1
<1>5. CacheInv'
  BY <1>2, <1>3, <1>4, OneCache
<1>6. OpInv' /\ Cardinality(Writing') <= Cardinality(Writing)
  BY <1>2, SameOps
<1>7. FilesInv'
  BY <1>2, SameFiles DEF SyncInv, FilesInv
<1> QED
  BY <1>2, <1>5, <1>6, <1>7, QuietStep

LEMMA PlanFacts ==
    ASSUME LogOK, NEW fs, Held(fs)
    PROVE  Plan(Settled(fs)) \in Compactions /\ OpKnown(Plan(Settled(fs)))
<1> DEFINE st == Settled(fs)
           k == Conflicts(st)
           rm == [p \in DOMAIN st |-> st[p].removes]
           ix == IndexOf(st)
           o == Plan(st)
<1>1. DOMAIN st \subseteq Paths /\ \A p \in DOMAIN st : p \in Paths /\ Present(fs, p) # {}
  BY SettledDomain
<1>2. \A p \in DOMAIN st : st[p].removes \in Seq(FileCopy)
  BY <1>1, SettledFacts DEF VerdictOn
<1>3. k \in Seq(FileCopy) /\ \A c \in SetOf(k) : c.id <= Len(log)
  BY MainFacts, ConflictsFacts, CopiesOfFacts
<1>4. ix \in Index
  BY LoadFacts DEF Load
<1>5. o = [kind |-> "compact", conflicts |-> k, loser |-> {}, removes |-> rm, changed |-> FALSE,
           errors |-> FALSE, shown |-> ix]
  BY DEF Plan
<1> HIDE DEF st
<1>6. rm \in RemoveLists
  BY <1>1, <1>2 DEF RemoveLists
<1> HIDE DEF k, rm, ix, o
<1>7. o \in Compactions /\ o.conflicts = k
  BY <1>3, <1>4, <1>5, <1>6 DEF Compactions
<1>8. OpKnown(o)
  BY <1>3, <1>7 DEF OpKnown, Compactions
<1> QED
  BY <1>7, <1>8 DEF o, st

LEMMA CompactBeginStep ==
    ASSUME SyncInv, NEW d \in Devices, CompactBegin(d)
    PROVE  SyncInv'
<1> DEFINE o == Plan(Settled(disk[d]))
<1>1. LogOK /\ Held(disk[d]) /\ maxGen \in [Devices -> Nat]
  BY DEF SyncInv, LogInv, FilesInv, CacheInv
<1>2. /\ op' = [op EXCEPT ![d] = o]
      /\ maxGen' = [maxGen EXCEPT ![d] = MaxOf(Observed(disk[d]) \cup {maxGen[d]})]
      /\ UNCHANGED <<log, disk, server, base, cache, sup>>
  BY <1>1 DEF CompactBegin, syncVars
<1>3. o \in Compactions /\ OpKnown(o)
  BY <1>1, PlanFacts
<1> HIDE DEF o
<1>4. o \in Ops /\ o.kind = "compact"
  BY <1>3 DEF Ops, Compactions
<1>5. OpInv'
  BY <1>2, <1>3, <1>4, OneOpKnown DEF SyncInv
<1>6. Cardinality(Writing') <= Cardinality(Writing)
  <2>1. o.kind \notin {"put", "remove"}
    BY <1>4
  <2> QED
    BY <1>2, <1>4, <2>1, WritingEnds
<1>7. CacheInv'
  <2>1. MaxOf(Observed(disk[d]) \cup {maxGen[d]}) \in Nat
    BY <1>1, ObservedFacts
  <2>2. maxGen' \in [Devices -> Nat]
    BY <1>1, <1>2, <2>1
  <2> QED
    BY <1>2, <2>2 DEF SyncInv, CacheInv
<1>8. FilesInv'
  BY <1>2, SameFiles DEF SyncInv, FilesInv
<1> QED
  BY <1>2, <1>5, <1>6, <1>7, <1>8, QuietStep

(* A step of a compaction: its record and the files of its device change. *)
LEMMA CompactionStep ==
    ASSUME SyncInv, NEW d \in Devices, NEW o \in Compactions, OpKnown(o), NEW g,
           Held(g), HoldOwnRecords(g), disk' = [disk EXCEPT ![d] = g],
           op' = [op EXCEPT ![d] = o], UNCHANGED <<log, syncVars, cache, maxGen, sup>>
    PROVE  SyncInv'
<1>1. UNCHANGED <<log, server, base, cache, maxGen, sup>>
  BY DEF syncVars
<1>2. o \in Ops /\ o.kind = "compact"
  BY DEF Ops, Compactions
<1>3. OpInv'
  BY <1>1, <1>2, OneOpKnown DEF SyncInv
<1>4. Cardinality(Writing') <= Cardinality(Writing)
  <2>1. o.kind \notin {"put", "remove"}
    BY <1>2
  <2> QED
    BY <1>2, <2>1, WritingEnds
<1>5. CacheInv'
  BY <1>1 DEF SyncInv, CacheInv
<1>6. FilesInv'
  BY <1>1, OneDisk DEF SyncInv, FilesInv
<1> QED
  BY <1>1, <1>3, <1>4, <1>5, <1>6, QuietStep

LEMMA SameDisk ==
    ASSUME SyncInv, NEW d \in Devices, UNCHANGED disk
    PROVE  disk' = [disk EXCEPT ![d] = disk[d]] /\ Held(disk[d]) /\ HoldOwnRecords(disk[d])
BY DEF SyncInv, FilesInv

(* The steps of a compaction on its own record: o after writing, and after     *)
(* failing to write, the manifest of its first conflict.                       *)
Wrote(o) == [o EXCEPT !.conflicts = Tail(o.conflicts), !.loser = {Head(o.conflicts).src},
                      !.changed = TRUE]
WriteFailed(o) == [o EXCEPT !.conflicts = Tail(o.conflicts), !.errors = TRUE]

LEMMA WroteFacts ==
    ASSUME NEW o \in Compactions, OpKnown(o), o.conflicts # <<>>
    PROVE  LET c == Head(o.conflicts)
           IN  /\ c \in FileCopy /\ c \in SetOf(o.conflicts) /\ c.id <= Len(log)
               /\ SetOf(o.conflicts) = SetOf(Tail(o.conflicts)) \cup {c}
               /\ Wrote(o) \in Compactions /\ OpKnown(Wrote(o))
               /\ Wrote(o).conflicts = Tail(o.conflicts) /\ Wrote(o).loser = {c.src}
               /\ Wrote(o).removes = o.removes /\ Wrote(o).errors = o.errors
               /\ Wrote(o).shown = o.shown
               /\ WriteFailed(o) \in Compactions /\ OpKnown(WriteFailed(o))
               /\ WriteFailed(o).errors = TRUE /\ WriteFailed(o).removes = o.removes
               /\ WriteFailed(o).conflicts = Tail(o.conflicts) /\ WriteFailed(o).loser = o.loser
               /\ WriteFailed(o).shown = o.shown
<1> DEFINE s == o.conflicts
           c == Head(s)
           t == Tail(s)
<1>1. s \in Seq(FileCopy) /\ o.kind = "compact"
  BY DEF Compactions
<1> HIDE DEF s
<1>2. /\ Len(s) \in Nat /\ DOMAIN s = 1 .. Len(s) /\ Len(s) # 0
      /\ \A i \in 1 .. Len(s) : s[i] \in FileCopy
  BY <1>1, LenProperties, ElementOfSeq, EmptySeq DEF s
<1>3. c = s[1] /\ 1 \in DOMAIN s
  BY <1>1, <1>2
<1>4. c \in FileCopy /\ c \in SetOf(s)
  BY <1>2, <1>3 DEF SetOf
<1>5. /\ t \in Seq(FileCopy) /\ Len(t) = Len(s) - 1 /\ DOMAIN t = 1 .. Len(s) - 1
      /\ \A i \in 1 .. Len(s) - 1 : t[i] = s[i + 1]
  <2>1. t \in Seq(FileCopy) /\ Len(t) = Len(s) - 1 /\ \A i \in 1 .. Len(t) : t[i] = s[i + 1]
    BY <1>1, <1>2, HeadTailProperties
  <2> QED
    BY <2>1, LenProperties
<1>6. SetOf(s) = SetOf(t) \cup {c}
  <2>1. \A i \in DOMAIN s : i = 1 \/ (i - 1 \in DOMAIN t /\ s[i] = t[i - 1])
    BY <1>2, <1>5
  <2>2. \A i \in DOMAIN t : i + 1 \in DOMAIN s /\ t[i] = s[i + 1]
    BY <1>2, <1>5
  <2> QED
    BY <1>3, <2>1, <2>2 DEF SetOf
<1>7. \A x \in SetOf(s) : x.id <= Len(log)
  BY <1>1 DEF OpKnown, s
<1>8. c.src \in Name
  BY <1>4 DEF FileCopy
<1> HIDE DEF c, t
<1> DEFINE u == [o EXCEPT !.conflicts = t, !.loser = {c.src}, !.changed = TRUE]
           v == [o EXCEPT !.conflicts = t, !.errors = TRUE]
<1>9. /\ u \in Compactions /\ u.conflicts = t /\ u.loser = {c.src} /\ u.removes = o.removes
      /\ u.errors = o.errors /\ u.shown = o.shown
  BY <1>5, <1>8 DEF Compactions
<1>10. /\ v \in Compactions /\ v.conflicts = t /\ v.loser = o.loser /\ v.removes = o.removes
       /\ v.errors = TRUE /\ v.shown = o.shown
  BY <1>5 DEF Compactions
<1>11. u = Wrote(o) /\ v = WriteFailed(o)
  BY DEF Wrote, WriteFailed, s, c, t
<1> HIDE DEF u, v
<1>12. OpKnown(u) /\ OpKnown(v)
  BY <1>6, <1>7, <1>9, <1>10 DEF OpKnown, Compactions
<1> QED
  BY <1>4, <1>6, <1>7, <1>9, <1>10, <1>11, <1>12 DEF s, c, t

LEMMA MaterialiseCases ==
    ASSUME SyncInv, NEW d \in Devices, CompactMaterialise(d)
    PROVE  /\ op[d] \in Compactions /\ OpKnown(op[d]) /\ op[d].conflicts # <<>> /\ op[d].loser = {}
           /\ UNCHANGED <<log, syncVars, cache, maxGen, sup, blind>>
           /\ \/ LET i == Head(op[d].conflicts).id
                 IN  /\ disk' = [disk EXCEPT ![d] = [disk[d] EXCEPT ![<<i, 0>>] = i]]
                     /\ left' = [left EXCEPT ![d] = [left[d] EXCEPT ![<<i, 0>>] = i]]
                     /\ op' = [op EXCEPT ![d] = Wrote(op[d])]
              \/ /\ CompactFaults /\ UNCHANGED <<disk, left>>
                 /\ op' = [op EXCEPT ![d] = WriteFailed(op[d])]
<1> DEFINE o == op[d]
           c == Head(o.conflicts)
           rest == [o EXCEPT !.conflicts = Tail(@)]
<1>1. o \in Ops /\ OpKnown(o) /\ o.kind = "compact" /\ o.conflicts # <<>> /\ o.loser = {}
  BY DEF SyncInv, OpInv, CompactMaterialise
<1>2. o \in Compactions
  BY <1>1, OpKinds
<1>3. UNCHANGED <<log, syncVars, cache, maxGen, sup, blind>>
  BY DEF CompactMaterialise
<1>4. \/ /\ disk' = [disk EXCEPT ![d][<<c.id, 0>>] = c.id]
         /\ left' = [left EXCEPT ![d][<<c.id, 0>>] = c.id]
         /\ op' = [op EXCEPT ![d] = [rest EXCEPT !.loser = {c.src}, !.changed = TRUE]]
      \/ /\ CompactFaults
         /\ op' = [op EXCEPT ![d] = [rest EXCEPT !.errors = TRUE]]
         /\ UNCHANGED <<disk, left>>
  BY DEF CompactMaterialise
<1>5. /\ [rest EXCEPT !.loser = {c.src}, !.changed = TRUE] = Wrote(o)
      /\ [rest EXCEPT !.errors = TRUE] = WriteFailed(o)
  BY <1>2 DEF Wrote, WriteFailed, Compactions
<1>6. /\ [disk EXCEPT ![d][<<c.id, 0>>] = c.id] = [disk EXCEPT ![d] = [disk[d] EXCEPT ![<<c.id, 0>>] = c.id]]
      /\ [left EXCEPT ![d][<<c.id, 0>>] = c.id] = [left EXCEPT ![d] = [left[d] EXCEPT ![<<c.id, 0>>] = c.id]]
  BY DEF SyncInv, FilesInv
<1> QED
  BY <1>1, <1>2, <1>3, <1>4, <1>5, <1>6

LEMMA MaterialiseStep ==
    ASSUME SyncInv, NEW d \in Devices, CompactMaterialise(d)
    PROVE  SyncInv'
<1> DEFINE o == op[d]
           c == Head(o.conflicts)
           g == [disk[d] EXCEPT ![<<c.id, 0>>] = c.id]
<1>1. o \in Compactions /\ OpKnown(o) /\ o.conflicts # <<>>
      /\ UNCHANGED <<log, syncVars, cache, maxGen, sup>>
  BY MaterialiseCases
<1>2. /\ c \in FileCopy /\ c.id <= Len(log)
      /\ Wrote(o) \in Compactions /\ OpKnown(Wrote(o))
      /\ WriteFailed(o) \in Compactions /\ OpKnown(WriteFailed(o))
  BY <1>1, WroteFacts
<1>3. c.id \in 1 .. MaxWrites /\ <<c.id, 0>> \in Name
  <2>1. c.id \in 1 .. MaxWrites /\ c.id \in Paths
    BY <1>2, MainFacts DEF FileCopy
  <2> HIDE DEF c
  <2>2. <<c.id, 0>> \in SetOf(Names(c.id)) /\ SetOf(Names(c.id)) \subseteq Name
    BY <2>1, NamesFacts
  <2> QED
    BY <2>1, <2>2
<1> HIDE DEF c
<1>4. Held(g) /\ HoldOwnRecords(g)
  <2>1. Held(disk[d]) /\ HoldOwnRecords(disk[d])
    BY DEF SyncInv, FilesInv
  <2>2. c.id \in 0 .. MaxWrites /\ <<c.id, 0>>[1] = c.id
    BY <1>3
  <2> QED
    BY <1>2, <1>3, <2>1, <2>2, OneFile
<1>5. CASE disk' = [disk EXCEPT ![d] = g] /\ op' = [op EXCEPT ![d] = Wrote(o)]
  BY <1>1, <1>2, <1>4, <1>5, CompactionStep
<1>6. CASE UNCHANGED disk /\ op' = [op EXCEPT ![d] = WriteFailed(o)]
  BY <1>1, <1>2, <1>6, SameDisk, CompactionStep
<1> QED
  BY <1>5, <1>6, MaterialiseCases DEF c

(* The removal of a file: done, or recorded as an error. *)
Removed(o) == [o EXCEPT !.changed = TRUE]
RemoveFailed(o) == [o EXCEPT !.errors = TRUE]

LEMMA RemovedFacts ==
    ASSUME NEW o \in Compactions, OpKnown(o)
    PROVE  /\ Removed(o) \in Compactions /\ OpKnown(Removed(o))
           /\ Removed(o).conflicts = o.conflicts /\ Removed(o).loser = o.loser
           /\ Removed(o).removes = o.removes /\ Removed(o).shown = o.shown
           /\ Removed(o).errors = o.errors
           /\ RemoveFailed(o) \in Compactions /\ OpKnown(RemoveFailed(o))
           /\ RemoveFailed(o).conflicts = o.conflicts /\ RemoveFailed(o).loser = o.loser
           /\ RemoveFailed(o).removes = o.removes /\ RemoveFailed(o).shown = o.shown
           /\ RemoveFailed(o).errors = TRUE
<1> DEFINE u == Removed(o)
           v == RemoveFailed(o)
<1>1. /\ u \in Compactions /\ u.conflicts = o.conflicts /\ u.loser = o.loser
      /\ u.removes = o.removes /\ u.shown = o.shown /\ u.errors = o.errors
  BY DEF Removed, Compactions
<1>2. /\ v \in Compactions /\ v.conflicts = o.conflicts /\ v.loser = o.loser
      /\ v.removes = o.removes /\ v.shown = o.shown /\ v.errors = TRUE
  BY DEF RemoveFailed, Compactions
<1> HIDE DEF u, v
<1>3. OpKnown(u) /\ OpKnown(v)
  BY <1>1, <1>2 DEF OpKnown, Compactions
<1> QED
  BY <1>1, <1>2, <1>3 DEF u, v

LEMMA RemoveFileStep ==
    ASSUME SyncInv, NEW d \in Devices, NEW n \in Name, NEW rest \in Compactions, OpKnown(rest),
           RemoveFile(d, n, rest)
    PROVE  /\ SyncInv'
           /\ UNCHANGED <<log, syncVars, cache, maxGen, sup>>
           /\ \/ /\ disk' = [disk EXCEPT ![d] = [disk[d] EXCEPT ![n] = None]]
                 /\ left' = [left EXCEPT ![d] = [left[d] EXCEPT ![n] = None]]
                 /\ blind' = blind \cup ({disk[d][n]} \ {left[d][n], None})
                 /\ op' = [op EXCEPT ![d] = Removed(rest)]
              \/ /\ UNCHANGED <<disk, left, blind>> /\ CompactFaults
                 /\ op' = [op EXCEPT ![d] = RemoveFailed(rest)]
<1> DEFINE g == [disk[d] EXCEPT ![n] = None]
<1>1. UNCHANGED <<log, syncVars, cache, maxGen, sup>>
  BY DEF RemoveFile
<1>2. \/ /\ disk' = [disk EXCEPT ![d] = g] /\ op' = [op EXCEPT ![d] = Removed(rest)]
         /\ left' = [left EXCEPT ![d] = [left[d] EXCEPT ![n] = None]]
         /\ blind' = blind \cup ({disk[d][n]} \ {left[d][n], None})
      \/ /\ UNCHANGED <<disk, left, blind>> /\ CompactFaults
         /\ op' = [op EXCEPT ![d] = RemoveFailed(rest)]
  BY DEF RemoveFile, SyncInv, FilesInv, Removed, RemoveFailed
<1>3. Held(g) /\ HoldOwnRecords(g)
  <2>1. Held(disk[d]) /\ HoldOwnRecords(disk[d])
    BY DEF SyncInv, FilesInv
  <2>2. None \in 0 .. MaxWrites /\ None <= Len(log)
    BY MainFacts, LenProperties DEF None, SyncInv, LogInv, LogOK
  <2> QED
    BY <2>1, <2>2, OneFile
<1> HIDE DEF g
<1>4. ASSUME disk' = [disk EXCEPT ![d] = g], op' = [op EXCEPT ![d] = Removed(rest)]
      PROVE  SyncInv'
  BY <1>1, <1>3, <1>4, RemovedFacts, CompactionStep
<1>5. ASSUME UNCHANGED disk, op' = [op EXCEPT ![d] = RemoveFailed(rest)]
      PROVE  SyncInv'
  BY <1>1, <1>5, RemovedFacts, SameDisk, CompactionStep
<1>6. SyncInv'
  BY <1>2, <1>4, <1>5
<1> QED
  BY <1>1, <1>2, <1>6 DEF g

(* A compaction without its loser, and with one file less to remove of p. *)
LoserGone(o) == [o EXCEPT !.loser = {}]
Shortened(o, p) == [o EXCEPT !.removes[p] = Tail(o.removes[p])]

LEMMA LoserGoneFacts ==
    ASSUME NEW o \in Compactions, OpKnown(o)
    PROVE  /\ LoserGone(o) \in Compactions /\ OpKnown(LoserGone(o))
           /\ LoserGone(o).loser = {} /\ LoserGone(o).conflicts = o.conflicts
           /\ LoserGone(o).removes = o.removes /\ LoserGone(o).shown = o.shown
           /\ LoserGone(o).errors = o.errors
<1> DEFINE u == LoserGone(o)
<1>1. /\ u \in Compactions /\ u.conflicts = o.conflicts /\ u.loser = {}
      /\ u.removes = o.removes /\ u.shown = o.shown /\ u.errors = o.errors
  BY DEF LoserGone, Compactions
<1> HIDE DEF u
<1>2. OpKnown(u)
  BY <1>1 DEF OpKnown, Compactions
<1> QED
  BY <1>1, <1>2 DEF u

LEMMA SeqHeadTail ==
    ASSUME NEW C, NEW s \in Seq(C), s # <<>>
    PROVE  /\ Head(s) \in C /\ Head(s) \in SetOf(s) /\ Tail(s) \in Seq(C)
           /\ SetOf(s) = SetOf(Tail(s)) \cup {Head(s)}
<1> DEFINE c == Head(s)
           t == Tail(s)
<1>1. /\ Len(s) \in Nat /\ DOMAIN s = 1 .. Len(s) /\ Len(s) # 0
      /\ \A i \in 1 .. Len(s) : s[i] \in C
  BY LenProperties, ElementOfSeq, EmptySeq
<1>2. c = s[1] /\ 1 \in DOMAIN s
  BY <1>1
<1>3. c \in C /\ c \in SetOf(s)
  BY <1>1, <1>2 DEF SetOf
<1>4. /\ t \in Seq(C) /\ DOMAIN t = 1 .. Len(s) - 1
      /\ \A i \in 1 .. Len(s) - 1 : t[i] = s[i + 1]
  <2>1. t \in Seq(C) /\ Len(t) = Len(s) - 1 /\ \A i \in 1 .. Len(t) : t[i] = s[i + 1]
    BY <1>1, HeadTailProperties
  <2> QED
    BY <2>1, LenProperties
<1> HIDE DEF c, t
<1>5. SetOf(s) = SetOf(t) \cup {c}
  <2>1. \A i \in DOMAIN s : i = 1 \/ (i - 1 \in DOMAIN t /\ s[i] = t[i - 1])
    BY <1>1, <1>4
  <2>2. \A i \in DOMAIN t : i + 1 \in DOMAIN s /\ t[i] = s[i + 1]
    BY <1>1, <1>4
  <2> QED
    BY <1>2, <2>1, <2>2 DEF SetOf
<1> QED
  BY <1>3, <1>4, <1>5 DEF c, t

LEMMA RemoveListFacts ==
    ASSUME NEW rm \in RemoveLists
    PROVE  DOMAIN rm \subseteq Paths /\ \A p \in DOMAIN rm : rm[p] \in Seq(FileCopy)
BY DEF RemoveLists

LEMMA ShortenedFacts ==
    ASSUME NEW o \in Compactions, OpKnown(o), NEW p \in DOMAIN o.removes, o.removes[p] # <<>>
    PROVE  LET c == Head(o.removes[p])
               u == Shortened(o, p)
           IN  /\ c \in FileCopy /\ c \in SetOf(o.removes[p]) /\ c.src \in Name
               /\ SetOf(o.removes[p]) = SetOf(Tail(o.removes[p])) \cup {c}
               /\ u \in Compactions /\ OpKnown(u)
               /\ u.conflicts = o.conflicts /\ u.loser = o.loser /\ u.shown = o.shown
               /\ u.errors = o.errors /\ DOMAIN u.removes = DOMAIN o.removes
               /\ \A q \in DOMAIN o.removes :
                     u.removes[q] = IF q = p THEN Tail(o.removes[p]) ELSE o.removes[q]
<1> DEFINE rm == o.removes
           s == rm[p]
           c == Head(s)
           t == Tail(s)
           nm == [rm EXCEPT ![p] = t]
           u == Shortened(o, p)
<1>1. rm \in RemoveLists
  BY DEF Compactions
<1> HIDE DEF rm
<1>2. DOMAIN rm \subseteq Paths /\ \A q \in DOMAIN rm : rm[q] \in Seq(FileCopy)
  BY <1>1, RemoveListFacts
<1>3. s \in Seq(FileCopy) /\ s # <<>> /\ p \in DOMAIN rm
  BY <1>2 DEF rm
<1>4. c \in FileCopy /\ c \in SetOf(s) /\ t \in Seq(FileCopy) /\ SetOf(s) = SetOf(t) \cup {c}
  BY <1>3, SeqHeadTail
<1>5. c.src \in Name
  BY <1>4 DEF FileCopy
<1> HIDE DEF s, c, t
<1>6. rm \in [DOMAIN rm -> Seq(FileCopy)]
  BY <1>1, <1>2 DEF RemoveLists
<1>7. nm \in [DOMAIN rm -> Seq(FileCopy)] /\ \A q \in DOMAIN rm : nm[q] = IF q = p THEN t ELSE rm[q]
  BY <1>3, <1>4, <1>6
<1>8. nm \in RemoveLists
  BY <1>2, <1>7 DEF RemoveLists
<1>9. u = [o EXCEPT !.removes = nm]
  BY DEF Shortened, Compactions, rm, s, t
<1> HIDE DEF u, nm
<1>10. /\ u \in Compactions /\ u.conflicts = o.conflicts /\ u.loser = o.loser
       /\ u.removes = nm /\ u.shown = o.shown /\ u.errors = o.errors
  BY <1>8, <1>9 DEF Compactions
<1>11. OpKnown(u)
  BY <1>10 DEF OpKnown, Compactions
<1>12. DOMAIN u.removes = DOMAIN o.removes
  BY <1>7, <1>10 DEF rm
<1> QED
  BY <1>4, <1>5, <1>7, <1>10, <1>11, <1>12 DEF rm, s, c, t, u

LEMMA RemoveLoserCases ==
    ASSUME SyncInv, NEW d \in Devices, CompactRemoveLoser(d)
    PROVE  /\ op[d] \in Compactions /\ OpKnown(op[d])
           /\ \E n \in op[d].loser : n \in Name /\ RemoveFile(d, n, LoserGone(op[d]))
<1>1. op[d] \in Ops /\ OpKnown(op[d]) /\ op[d].kind = "compact"
  BY DEF SyncInv, OpInv, CompactRemoveLoser
<1>2. op[d] \in Compactions
  BY <1>1, OpKinds
<1>3. \A n \in op[d].loser : n \in Name
  BY <1>2 DEF Compactions
<1> QED
  BY <1>1, <1>2, <1>3 DEF CompactRemoveLoser, LoserGone

LEMMA RemoveCases ==
    ASSUME SyncInv, NEW d \in Devices, NEW p, CompactRemove(d, p)
    PROVE  /\ op[d] \in Compactions /\ OpKnown(op[d]) /\ op[d].loser = {} /\ op[d].conflicts = <<>>
           /\ p \in DOMAIN op[d].removes /\ op[d].removes[p] # <<>>
           /\ RemoveFile(d, Head(op[d].removes[p]).src, Shortened(op[d], p))
<1>1. /\ op[d] \in Ops /\ OpKnown(op[d]) /\ op[d].kind = "compact" /\ op[d].loser = {}
      /\ op[d].conflicts = <<>> /\ p \in DOMAIN op[d].removes /\ op[d].removes[p] # <<>>
      /\ RemoveFile(d, Head(op[d].removes[p]).src, [op[d] EXCEPT !.removes[p] = Tail(@)])
  BY DEF SyncInv, OpInv, CompactRemove
<1>2. op[d] \in Compactions
  BY <1>1, OpKinds
<1>3. [op[d] EXCEPT !.removes[p] = Tail(@)] = Shortened(op[d], p)
  BY <1>2 DEF Shortened, Compactions
<1> QED
  BY <1>1, <1>2, <1>3

LEMMA RemoveSteps ==
    ASSUME SyncInv, NEW d \in Devices,
           CompactRemoveLoser(d) \/ \E p \in Paths : CompactRemove(d, p)
    PROVE  SyncInv'
<1>1. CASE CompactRemoveLoser(d)
  <2>1. PICK n \in op[d].loser : n \in Name /\ RemoveFile(d, n, LoserGone(op[d]))
    BY <1>1, RemoveLoserCases
  <2>2. LoserGone(op[d]) \in Compactions /\ OpKnown(LoserGone(op[d]))
    BY <1>1, RemoveLoserCases, LoserGoneFacts
  <2> QED
    BY <2>1, <2>2, RemoveFileStep
<1>2. ASSUME NEW p \in Paths, CompactRemove(d, p) PROVE SyncInv'
  <2> DEFINE o == op[d]
             n == Head(o.removes[p]).src
  <2>1. /\ o \in Compactions /\ OpKnown(o) /\ p \in DOMAIN o.removes /\ o.removes[p] # <<>>
        /\ RemoveFile(d, n, Shortened(o, p))
    BY <1>2, RemoveCases
  <2>2. n \in Name /\ Shortened(o, p) \in Compactions /\ OpKnown(Shortened(o, p))
    BY <2>1, ShortenedFacts
  <2> HIDE DEF o, n
  <2> QED
    BY <2>1, <2>2, RemoveFileStep
<1> QED
  BY <1>1, <1>2

LEMMA CompactLeaves ==
    ASSUME SyncInv, NEW d \in Devices, CompactEnd(d) \/ CompactCrash(d)
    PROVE  SyncInv'
<1>1. op' = [op EXCEPT ![d] = NoOp] /\ UNCHANGED <<log, disk, server, base, sup>>
  BY DEF CompactEnd, CompactCrash, syncVars
<1>2. OpInv'
  BY <1>1, NoOpFacts, OneOpKnown DEF SyncInv
<1>3. Cardinality(Writing') <= Cardinality(Writing)
  BY <1>1, NoOpFacts, WritingEnds
<1>4. FilesInv'
  BY <1>1, SameFiles DEF SyncInv, FilesInv
<1>5. CacheInv'
  <2>1. cache' = [cache EXCEPT ![d] = Nil] \/ cache' = [cache EXCEPT ![d] = cache[d]]
    BY DEF CompactEnd, CompactCrash
  <2>2. maxGen' \in [Devices -> Nat]
    BY DEF CompactEnd, CompactCrash, SyncInv, CacheInv
  <2>3. cache[d] = Nil \/ (cache[d] \in Index /\ \A p \in Paths : cache[d][p] <= Len(log))
    BY DEF SyncInv, CacheInv
  <2> QED
    BY <1>1, <2>1, <2>2, <2>3, OneCache
<1> QED
  BY <1>1, <1>2, <1>3, <1>4, <1>5, QuietStep

(* The log grows by one record. *)
LEMMA LogGrows ==
    ASSUME LogInv, Len(log) < MaxWrites, NEW r \in LogRecord, r.key \in FreshKeys,
           log' = Append(log, r)
    PROVE  /\ LogInv' /\ Len(log') = Len(log) + 1 /\ log'[Len(log) + 1] = r
           /\ \A i \in 1 .. Len(log) : log'[i] = log[i]
           /\ Len(log) \in Nat /\ DOMAIN log = 1 .. Len(log) /\ DOMAIN log' = 1 .. Len(log) + 1
<1> DEFINE N == Len(log)
<1>1. log \in Seq(LogRecord) /\ N \in Nat /\ DOMAIN log = 1 .. N
  BY LenProperties DEF LogInv, LogOK
<1>2. /\ log' \in Seq(LogRecord) /\ Len(log') = N + 1 /\ log'[N + 1] = r
      /\ \A i \in 1 .. N : log'[i] = log[i]
  BY <1>1, AppendProperties
<1>3. DOMAIN log' = 1 .. N + 1
  BY <1>2, LenProperties
<1> HIDE DEF N
<1>4. N < MaxWrites /\ MaxWrites \in Nat
  BY MainFacts DEF N
<1>5. (Len(log) <= MaxWrites)'
  BY <1>1, <1>2, <1>4
<1>6. r.key \in Keys /\ \A i \in 1 .. N : log[i].key # r.key
  BY <1>1 DEF FreshKeys
<1>7. \A i \in 1 .. N + 1 : i \in 1 .. N \/ i = N + 1
  BY <1>1
<1>8. \A i \in 1 .. N + 1 : log'[i].key \in Keys
  BY <1>1, <1>2, <1>6, <1>7 DEF LogInv
<1>9. \A i, j \in 1 .. N + 1 : log'[i].key = log'[j].key => i = j
  BY <1>1, <1>2, <1>6, <1>7 DEF LogInv
<1>10. LogInv'
  BY <1>2, <1>3, <1>5, <1>8, <1>9 DEF LogInv, LogOK
<1> QED
  BY <1>1, <1>2, <1>3, <1>10 DEF N

LEMMA CommitStep ==
    ASSUME SyncInv, NEW d \in Devices, NEW r \in LogRecord, r.key \in FreshKeys,
           op[d] \in Puts \cup Removals, r.path = op[d].path, CommitWrite(d, r)
    PROVE  SyncInv'
<1> DEFINE o == op[d]
           N == Len(log)
           n == <<o.path, 0>>
           g == [disk[d] EXCEPT ![n] = N + 1]
<1>1. /\ log' = Append(log, r) /\ disk' = [disk EXCEPT ![d][n] = N + 1]
      /\ cache' = [cache EXCEPT ![d] = IF @ = Nil THEN Nil
                                       ELSE [@ EXCEPT ![o.path] = IF r.del THEN 0 ELSE N + 1]]
      /\ maxGen' = [maxGen EXCEPT ![d] = r.gen] /\ op' = [op EXCEPT ![d] = NoOp]
      /\ sup' = sup \cup ({o.snap} \ {0}) /\ UNCHANGED <<server, base>>
  BY DEF CommitWrite, syncVars, None
<1>2. /\ o.kind \in {"put", "remove"} /\ o.path \in Paths /\ o.snap \in 0 .. MaxWrites
      /\ o.snap <= N
  <2>1. o.kind \in {"put", "remove"} /\ o.path \in Paths /\ o.snap \in 0 .. MaxWrites
    BY MainFacts DEF Puts, Removals
  <2>2. OpKnown(o)
    BY DEF SyncInv, OpInv
  <2> QED
    BY <2>1, <2>2 DEF OpKnown
<1>3. Cardinality(Writing) \in Nat /\ Cardinality(Writing') = Cardinality(Writing) - 1
      /\ Cardinality(Writing') \in Nat
  <2>1. d \in Writing
    BY <1>2 DEF Writing
  <2>2. Cardinality(Writing') = Cardinality(Writing) - 1 /\ op' \in [Devices -> Ops]
    BY <1>1, <2>1, NoOpFacts, OneOp DEF SyncInv, OpInv
  <2>3. Writing' \subseteq Devices
    BY DEF Writing
  <2>4. Cardinality(Writing') \in Nat
    BY <2>3, DevicesAssumption, FS_Subset, FS_CardinalityType
  <2> QED
    BY <2>2, <2>4, WritingFacts DEF SyncInv, OpInv
<1>4. N \in Nat /\ MaxWrites \in Nat /\ N < MaxWrites
  <2>1. N \in Nat /\ MaxWrites \in Nat
    BY LenProperties, MainFacts DEF SyncInv, LogInv, LogOK
  <2> QED
    BY <1>3, <2>1 DEF SyncInv, Room
<1>5. /\ LogInv' /\ Len(log') = N + 1 /\ log'[N + 1] = r
      /\ \A i \in 1 .. N : log'[i] = log[i]
      /\ DOMAIN log = 1 .. N /\ DOMAIN log' = 1 .. N + 1
  BY <1>1, <1>4, LogGrows DEF SyncInv
<1> HIDE DEF N, o
<1>6. Room'
  BY <1>3, <1>4, <1>5 DEF SyncInv, Room, N
<1>7. (sup \subseteq DOMAIN log)'
  <2>1. sup \subseteq 1 .. N
    BY <1>5 DEF SyncInv
  <2>2. {o.snap} \ {0} \subseteq 1 .. N + 1 /\ 1 .. N \subseteq 1 .. N + 1
    BY <1>2, <1>4
  <2> QED
    BY <1>1, <1>5, <2>1, <2>2
<1>8. \A fs : Held(fs) /\ HoldOwnRecords(fs) =>
         /\ fs \in Files /\ (\A m \in Name : fs[m] <= N + 1)
         /\ \A m \in Name : fs[m] # None => fs[m] = m[1] \/ log'[fs[m]].path = m[1]
  <2> TAKE fs
  <2> HAVE Held(fs) /\ HoldOwnRecords(fs)
  <2>1. fs \in [Name -> 0 .. MaxWrites] /\ \A m \in Name : fs[m] <= N
    BY DEF Held, Files, N
  <2>2. \A m \in Name : fs[m] <= N + 1 /\ (fs[m] # None => fs[m] \in 1 .. N)
    BY <1>4, <2>1 DEF None
  <2>3. \A m \in Name : fs[m] # None => log'[fs[m]] = log[fs[m]]
    BY <1>5, <2>2
  <2> QED
    BY <2>1, <2>2, <2>3 DEF HoldOwnRecords, Files
<1>9. n \in Name /\ n[1] = o.path
  BY <1>2, NamesFacts
<1>10. FilesInv'
  <2> DEFINE Fits2(fs) == /\ fs \in Files /\ (\A m \in Name : fs[m] <= N + 1)
                          /\ \A m \in Name : fs[m] # None => fs[m] = m[1] \/ log'[fs[m]].path = m[1]
  <2>1. \A e \in Devices : Fits2(disk[e])
    BY <1>8 DEF SyncInv, FilesInv
  <2>2. Fits2(server)
    BY <1>8 DEF SyncInv, FilesInv
  <2>3. Fits2(g)
    <3>1. disk[d] \in [Name -> 0 .. MaxWrites] /\ N + 1 \in 0 .. MaxWrites
      BY <1>4, <2>1 DEF Files
    <3>2. g \in [Name -> 0 .. MaxWrites] /\ g[n] = N + 1 /\ \A m \in Name : m # n => g[m] = disk[d][m]
      BY <1>9, <3>1
    <3>3. g[n] <= N + 1 /\ log'[g[n]].path = n[1]
      BY <1>4, <1>5, <1>9, <3>2 DEF o
    <3> HIDE DEF g, n
    <3> QED
      BY <2>1, <3>2, <3>3 DEF Files
  <2>4. disk' \in [Devices -> Files] /\ \A e \in Devices : disk'[e] = g \/ disk'[e] = disk[e]
    BY <1>1, <2>3 DEF SyncInv, FilesInv
  <2> HIDE DEF g, Fits2
  <2>5. \A e \in Devices : Fits2(disk'[e])
    <3> TAKE e \in Devices
    <3>1. CASE disk'[e] = g
      BY <2>3, <3>1
    <3>2. CASE disk'[e] = disk[e]
      BY <2>1, <3>2
    <3> QED
      BY <2>4, <3>1, <3>2
  <2>6. Fits2(server') /\ base' \in [Devices -> Files]
    BY <1>1, <2>2 DEF SyncInv, FilesInv
  <2> QED
    BY <1>5, <2>4, <2>5, <2>6 DEF FilesInv, Held, HoldOwnRecords, Fits2
<1>11. CacheInv'
  <2> DEFINE v == IF r.del THEN 0 ELSE N + 1
             ix == IF cache[d] = Nil THEN Nil ELSE [cache[d] EXCEPT ![o.path] = v]
  <2>1. v \in 0 .. MaxWrites /\ v <= N + 1
    BY <1>4
  <2>2. cache' = [cache EXCEPT ![d] = ix]
    BY <1>1 DEF SyncInv, CacheInv
  <2> HIDE DEF v
  <2>3. ix = Nil \/ (ix \in Index /\ \A p \in Paths : ix[p] <= N + 1)
    <3> SUFFICES ASSUME cache[d] # Nil PROVE ix \in Index /\ \A p \in Paths : ix[p] <= N + 1
      OBVIOUS
    <3>1. cache[d] \in [Paths -> 0 .. MaxWrites] /\ \A p \in Paths : cache[d][p] <= N
      BY DEF SyncInv, CacheInv, Index, N
    <3>2. \A p \in Paths : cache[d][p] <= N + 1
      BY <1>4, <3>1
    <3>3. /\ ix \in [Paths -> 0 .. MaxWrites]
          /\ \A p \in Paths : ix[p] = v \/ ix[p] = cache[d][p]
      BY <1>2, <2>1, <3>1
    <3> QED
      BY <2>1, <3>2, <3>3 DEF Index
  <2> HIDE DEF ix
  <2>4. cache' \in [Devices -> Index \cup {Nil}]
    BY <2>2, <2>3 DEF SyncInv, CacheInv
  <2>5. \A e \in Devices : cache'[e] = ix \/ cache'[e] = cache[e]
    BY <2>2 DEF SyncInv, CacheInv
  <2>6. \A e \in Devices : cache[e] # Nil => \A p \in Paths : cache[e][p] <= N + 1
    <3> SUFFICES ASSUME NEW e \in Devices, cache[e] # Nil, NEW p \in Paths PROVE cache[e][p] <= N + 1
      OBVIOUS
    <3>1. cache[e][p] \in 0 .. MaxWrites /\ cache[e][p] <= N
      BY DEF SyncInv, CacheInv, Index, N
    <3> QED
      BY <1>4, <3>1
  <2>7. \A e \in Devices : cache'[e] # Nil => \A p \in Paths : cache'[e][p] <= N + 1
    BY <2>3, <2>5, <2>6
  <2>8. maxGen' \in [Devices -> Nat]
    BY <1>1 DEF SyncInv, CacheInv, LogRecord
  <2> QED
    BY <1>5, <2>4, <2>7, <2>8 DEF CacheInv
<1>12. OpInv'
  <2>1. op' \in [Devices -> Ops] /\ \A e \in Devices : op'[e] = NoOp \/ op'[e] = op[e]
    BY <1>1, NoOpFacts DEF SyncInv, OpInv
  <2>2. \A e \in Devices : op[e] \in Ops /\ OpKnown(op[e])
    BY DEF SyncInv, OpInv
  <2>3. ASSUME NEW e \in Devices PROVE OpKnown(op[e])'
    <3>1. CASE op'[e] = NoOp
      BY <3>1 DEF OpKnown, NoOp
    <3>2. CASE op'[e] = op[e]
      <4>1. op[e].kind \in {"put", "remove"} => op[e].snap \in Nat /\ op[e].snap <= N
        <5>1. op[e].kind \in {"put", "remove"} => op[e] \in Puts \cup Removals
          BY <2>2, OpKinds
        <5> QED
          BY <2>2, <5>1 DEF OpKnown, Puts, Removals, N
      <4>2. op[e].kind = "compact" => \A c \in SetOf(op[e].conflicts) : c.id \in Nat /\ c.id <= N
        <5> SUFFICES ASSUME op[e].kind = "compact", NEW c \in SetOf(op[e].conflicts)
                     PROVE  c.id \in Nat /\ c.id <= N
          OBVIOUS
        <5>1. op[e].conflicts \in Seq(FileCopy)
          BY <2>2, OpKinds DEF Compactions
        <5>2. c \in FileCopy
          BY <5>1, LenProperties, ElementOfSeq DEF SetOf
        <5> QED
          BY <2>2, <5>2 DEF OpKnown, FileCopy, N
      <4>3. \A x \in Nat : x <= N => x <= N + 1
        BY <1>4
      <4> QED
        BY <1>5, <3>2, <4>1, <4>2, <4>3 DEF OpKnown
    <3> QED
      BY <2>1, <3>1, <3>2
  <2> QED
    BY <2>1, <2>3 DEF OpInv
<1> QED
  BY <1>5, <1>6, <1>7, <1>10, <1>11, <1>12 DEF SyncInv

LEMMA CommitSteps ==
    ASSUME SyncInv, NEW d \in Devices, CommitPut(d) \/ CommitRemove(d)
    PROVE  SyncInv'
<1>1. /\ op[d] \in Ops /\ OpKnown(op[d]) /\ LogOK /\ maxGen \in [Devices -> Nat]
      /\ Len(log) \in Nat /\ FreshKeys \subseteq Keys
  BY LenProperties DEF SyncInv, OpInv, CacheInv, LogInv, LogOK, FreshKeys
<1>2. CASE CommitPut(d)
  <2>1. op[d] \in Puts /\ op[d].kind = "put"
    BY <1>1, <1>2, OpKinds DEF CommitPut
  <2>2. op[d].snap \in 0 .. Len(log) /\ op[d].path = Main
    BY <1>1, <2>1 DEF OpKnown, Puts
  <2>3. PICK key \in FreshKeys : CommitWrite(d, PutRecord(d, op[d].snap, key))
    BY <1>2 DEF CommitPut
  <2> DEFINE r == PutRecord(d, op[d].snap, key)
  <2>4. r \in LogRecord /\ r.path = op[d].path /\ r.key \in FreshKeys
    BY <1>1, <2>2, <2>3, RecordOfPut
  <2> HIDE DEF r
  <2>5. CommitWrite(d, r)
    BY <2>3 DEF r
  <2> QED
    BY <2>1, <2>4, <2>5, CommitStep
<1>3. CASE CommitRemove(d)
  <2>1. op[d] \in Removals /\ op[d].kind = "remove"
    BY <1>1, <1>3, OpKinds DEF CommitRemove
  <2>2. op[d].snap \in 1 .. Len(log) /\ op[d].path \in Paths
    BY <1>1, <2>1 DEF OpKnown, Removals
  <2>3. PICK key \in FreshKeys : CommitWrite(d, Tombstone(d, op[d].path, op[d].snap, key))
    BY <1>3 DEF CommitRemove
  <2> DEFINE r == Tombstone(d, op[d].path, op[d].snap, key)
  <2>4. r \in LogRecord /\ r.path = op[d].path /\ r.key \in FreshKeys
    BY <1>1, <2>2, <2>3, RecordOfRemove
  <2> HIDE DEF r
  <2>5. CommitWrite(d, r)
    BY <2>3 DEF r
  <2> QED
    BY <2>1, <2>4, <2>5, CommitStep
<1> QED
  BY <1>2, <1>3

(* What the sync client carries is a record of the path it carries it to. *)
LEMMA Carried ==
    ASSUME NEW fs, Held(fs), HoldOwnRecords(fs), NEW n \in Name
    PROVE  /\ fs[n] \in 0 .. MaxWrites /\ fs[n] <= Len(log)
           /\ \A m : m[1] = n[1] /\ fs[n] # None => fs[n] = m[1] \/ log[fs[n]].path = m[1]
  BY DEF Held, HoldOwnRecords, Files

LEMMA SyncStep ==
    ASSUME SyncInv, Sync
    PROVE  SyncInv'
<1>1. PICK d \in Devices, n \in Name :
         Upload(d, n) \/ Download(d, n) \/ KeepEdited(d, n) \/ \E m \in Name : ConflictCopy(d, n, m)
  BY DEF Sync
<1>2. /\ Held(disk[d]) /\ HoldOwnRecords(disk[d]) /\ Held(server) /\ HoldOwnRecords(server)
      /\ FilesInv /\ base \in [Devices -> [Name -> 0 .. MaxWrites]] /\ disk \in [Devices -> Files]
      /\ \A e \in Devices : Held(disk[e]) /\ HoldOwnRecords(disk[e])
      /\ 0 \in 0 .. MaxWrites
  BY MainFacts DEF SyncInv, FilesInv, Files
<1>3. /\ server[n] \in 0 .. MaxWrites /\ disk[d][n] \in 0 .. MaxWrites
      /\ server[n] <= Len(log) /\ disk[d][n] <= Len(log)
      /\ \A m : m[1] = n[1] /\ server[n] # None => server[n] = m[1] \/ log[server[n]].path = m[1]
      /\ \A m : m[1] = n[1] /\ disk[d][n] # None => disk[d][n] = m[1] \/ log[disk[d][n]].path = m[1]
  BY <1>2, Carried
<1>4. UNCHANGED <<log, op, sup, maxGen, cache>>
  BY <1>1 DEF Upload, Download, KeepEdited, ConflictCopy, history
<1>5. /\ OpInv' /\ Cardinality(Writing') <= Cardinality(Writing) /\ CacheInv'
  BY <1>4, SameOps DEF SyncInv, CacheInv
<1>6. base' \in [Devices -> Files]
  <2>1. \E v \in 0 .. MaxWrites : base' = [base EXCEPT ![d][n] = v]
    <3>1. CASE Upload(d, n)
      BY <1>3, <3>1 DEF Upload
    <3>2. CASE Download(d, n) \/ \E m \in Name : ConflictCopy(d, n, m)
      BY <1>3, <3>2 DEF Download, ConflictCopy
    <3>3. CASE KeepEdited(d, n)
      BY <1>2, <3>3 DEF KeepEdited, None
    <3> QED
      BY <1>1, <3>1, <3>2, <3>3
  <2>2. PICK v \in 0 .. MaxWrites : base' = [base EXCEPT ![d][n] = v]
    BY <2>1
  <2>3. [base[d] EXCEPT ![n] = v] \in Files
    BY <1>2 DEF Files
  <2> QED
    BY <1>2, <2>2, <2>3 DEF Files
<1>7. FilesInv'
  <2>1. CASE Upload(d, n)
    <3> DEFINE g == [server EXCEPT ![n] = disk[d][n]]
    <3>1. Held(g) /\ HoldOwnRecords(g)
      BY <1>2, <1>3, OneFile
    <3>2. server' = g /\ UNCHANGED <<log, disk>>
      BY <2>1 DEF Upload
    <3> HIDE DEF g
    <3> QED
      BY <1>2, <1>6, <3>1, <3>2 DEF FilesInv, Held, HoldOwnRecords
  <2>2. CASE Download(d, n)
    <3> DEFINE g == [disk[d] EXCEPT ![n] = server[n]]
    <3>1. Held(g) /\ HoldOwnRecords(g)
      BY <1>2, <1>3, OneFile
    <3>2. disk' = [disk EXCEPT ![d] = g] /\ UNCHANGED <<log, server>>
      BY <1>2, <2>2 DEF Download
    <3> HIDE DEF g
    <3> QED
      BY <1>2, <1>6, <3>1, <3>2, OneDisk
  <2>3. CASE KeepEdited(d, n)
    BY <1>2, <1>6, <2>3, SameFiles DEF KeepEdited
  <2>4. CASE \E m \in Name : ConflictCopy(d, n, m)
    <3>1. PICK m \in Name : ConflictCopy(d, n, m)
      BY <2>4
    <3> DEFINE h == [disk[d] EXCEPT ![m] = disk[d][n]]
               g == [h EXCEPT ![n] = server[n]]
    <3>2. m[1] = n[1]
      BY <3>1 DEF ConflictCopy
    <3>3. Held(h) /\ HoldOwnRecords(h)
      BY <1>2, <1>3, <3>2, OneFile
    <3>4. disk' = [disk EXCEPT ![d] = g] /\ UNCHANGED <<log, server>>
      BY <1>2, <3>1 DEF ConflictCopy
    <3> HIDE DEF h
    <3>5. Held(g) /\ HoldOwnRecords(g)
      BY <1>3, <3>3, OneFile
    <3> HIDE DEF g
    <3> QED
      BY <1>2, <1>6, <3>4, <3>5, OneDisk
  <2> QED
    BY <1>1, <2>1, <2>2, <2>3, <2>4
<1> QED
  BY <1>4, <1>5, <1>7, QuietStep

LEMMA LocalStep ==
    ASSUME SyncInv, NEW d \in Devices, Local(d)
    PROVE  SyncInv'
<1>1. CASE BeginPut(d)
  BY <1>1, BeginStep, MainFacts DEF BeginPut
<1>2. CASE \E p \in Paths : BeginRemove(d, p)
  BY <1>2, BeginStep DEF BeginRemove
<1>3. CASE CommitPut(d) \/ CommitRemove(d)
  BY <1>3, CommitSteps
<1>4. CASE AbandonWrite(d)
  BY <1>4, AbandonStep
<1>5. CASE Reload(d)
  BY <1>5, ReloadStep
<1>6. CASE cmdCompact(d)
  BY <1>6, CompactBeginStep DEF cmdCompact
<1>7. CASE CompactMaterialise(d)
  BY <1>7, MaterialiseStep
<1>8. CASE CompactRemoveLoser(d) \/ \E p \in Paths : CompactRemove(d, p)
  BY <1>8, RemoveSteps
<1>9. CASE CompactEnd(d) \/ CompactCrash(d)
  BY <1>9, CompactLeaves
<1> QED
  BY <1>1, <1>2, <1>3, <1>4, <1>5, <1>6, <1>7, <1>8, <1>9 DEF Local

LEMMA SyncInitially == Init => SyncInv
<1> SUFFICES ASSUME Init PROVE SyncInv
  OBVIOUS
<1> USE DEF Init
<1>1. log = <<>> /\ Len(log) = 0 /\ DOMAIN log = {} /\ log \in Seq(LogRecord)
  OBVIOUS
<1>2. LogInv /\ sup \subseteq DOMAIN log
  BY <1>1, MainFacts DEF LogInv, LogOK
<1>3. FilesInv
  <2> DEFINE f == NoFiles
  <2>1. f \in Files /\ (\A n \in Name : f[n] = 0)
    BY MainFacts DEF NoFiles, Files, None
  <2>2. Held(f) /\ HoldOwnRecords(f)
    BY <1>1, <2>1 DEF Held, HoldOwnRecords, None
  <2>3. /\ disk = [d \in Devices |-> f] /\ server = f /\ base = [d \in Devices |-> f]
    OBVIOUS
  <2> HIDE DEF f
  <2> QED
    BY <2>1, <2>2, <2>3 DEF FilesInv
<1>4. CacheInv
  BY DEF CacheInv
<1>5. OpInv
  BY NoOpFacts DEF OpInv
<1>6. Room
  <2>1. Writing = {}
    BY DEF Writing, NoOp
  <2> QED
    BY <1>1, <2>1, MainFacts, FS_EmptySet DEF Room
<1> QED
  BY <1>2, <1>3, <1>4, <1>5, <1>6 DEF SyncInv

LEMMA SyncInvariant == Spec => []SyncInv
<1>1. SyncInv /\ [Next]_vars => SyncInv'
  <2> SUFFICES ASSUME SyncInv, [Next]_vars PROVE SyncInv'
    OBVIOUS
  <2>1. CASE Sync
    BY <2>1, SyncStep
  <2>2. CASE \E d \in Devices : Local(d)
    BY <2>2, LocalStep
  <2>3. CASE UNCHANGED vars
    <3>1. FilesInv' /\ CacheInv'
      BY <2>3 DEF vars, SyncInv, FilesInv, CacheInv, Held, HoldOwnRecords
    <3> QED
      BY <2>3, <3>1, SameOps, QuietStep DEF vars
  <2> QED
    BY <2>1, <2>2, <2>3 DEF Next
<1> QED
  BY <1>1, SyncInitially, PTL DEF Spec

(* The history variables: a compaction knows records of the log, and what was  *)
(* overrun unseen is in the log.                                               *)
HistInv ==
    /\ left \in [Devices -> Files] /\ \A d \in Devices : Held(left[d])
    /\ blind \subseteq DOMAIN log

LEMMA OneHeld ==
    ASSUME NEW fs, Held(fs), NEW n \in Name, NEW v \in 0 .. MaxWrites, v <= Len(log)
    PROVE  Held([fs EXCEPT ![n] = v])
<1>1. fs \in [Name -> 0 .. MaxWrites] /\ \A m \in Name : fs[m] <= Len(log)
  BY DEF Held, Files
<1> QED
  BY <1>1 DEF Held, Files

(* The knowledge of one device changes and the log does not. *)
LEMMA OneLeft ==
    ASSUME HistInv, UNCHANGED log, NEW d \in Devices, NEW g, Held(g),
           left' = [left EXCEPT ![d] = g], blind' \subseteq DOMAIN log
    PROVE  HistInv'
<1>1. left' \in [Devices -> Files] /\ \A e \in Devices : left'[e] = g \/ left'[e] = left[e]
  BY DEF HistInv, Held
<1>2. \A e \in Devices : Held(left[e])'
  BY <1>1 DEF HistInv, Held
<1> QED
  BY <1>1, <1>2 DEF HistInv

LEMMA SameLeft ==
    ASSUME HistInv, UNCHANGED <<log, left>>, blind' \subseteq DOMAIN log
    PROVE  HistInv'
BY DEF HistInv, Held

LEMMA HistRemoved ==
    ASSUME SyncInv, HistInv, NEW d \in Devices, NEW n \in Name, NEW rest \in Compactions,
           OpKnown(rest), RemoveFile(d, n, rest)
    PROVE  HistInv'
<1>1. /\ Held(disk[d]) /\ Held(left[d]) /\ blind \subseteq DOMAIN log
      /\ DOMAIN log = 1 .. Len(log) /\ Len(log) \in Nat
  BY LenProperties DEF SyncInv, FilesInv, HistInv, LogInv, LogOK
<1>2. UNCHANGED log
  BY RemoveFileStep
<1>3. disk[d][n] \in 0 .. MaxWrites /\ disk[d][n] <= Len(log)
  BY <1>1 DEF Held, Files
<1>4. CASE /\ left' = [left EXCEPT ![d] = [left[d] EXCEPT ![n] = None]]
           /\ blind' = blind \cup ({disk[d][n]} \ {left[d][n], None})
  <2>1. blind' \subseteq DOMAIN log
    BY <1>1, <1>3, <1>4 DEF None
  <2>2. Held([left[d] EXCEPT ![n] = None])
    BY <1>1, OneHeld, MainFacts DEF None
  <2> QED
    BY <1>2, <1>4, <2>1, <2>2, OneLeft
<1>5. CASE UNCHANGED <<left, blind>>
  BY <1>1, <1>2, <1>5, SameLeft
<1> QED
  BY <1>4, <1>5, RemoveFileStep

LEMMA HistCommitted ==
    ASSUME SyncInv, HistInv, NEW d \in Devices, NEW r, op[d] \in Puts \cup Removals, CommitWrite(d, r)
    PROVE  HistInv'
<1> DEFINE o == op[d]
           N == Len(log)
<1>1. /\ log' = Append(log, r) /\ left' = left /\ blind' = blind \cup Unseen(d, o, r)
  BY DEF CommitWrite
<1>2. /\ N \in Nat /\ DOMAIN log = 1 .. N /\ Len(log') = N + 1 /\ DOMAIN log' = 1 .. N + 1
  <2>1. log \in Seq(LogRecord)
    BY DEF SyncInv, LogInv, LogOK
  <2> QED
    BY <1>1, <2>1, LenProperties
<1>3. <<o.path, 0>> \in Name
  <2>1. o.path \in Paths
    BY MainFacts DEF Puts, Removals
  <2> QED
    BY <2>1, NamesFacts
<1>4. disk[d][<<o.path, 0>>] \in 0 .. N
  BY <1>2, <1>3 DEF SyncInv, FilesInv, Held, Files
<1>5. Unseen(d, o, r) \subseteq 1 .. N
  <2> DEFINE there == disk[d][<<o.path, 0>>]
             dominated == {j \in DOMAIN log : log[j].path = o.path
                                                /\ clockDominates(r.clock, log[j].clock)}
  <2>1. Unseen(d, o, r) = ({there} \cup dominated) \ (sup \cup {o.snap, None})
    BY DEF Unseen
  <2>2. dominated \subseteq 1 .. N /\ (there # None => there \in 1 .. N)
    BY <1>2, <1>4 DEF None
  <2> HIDE DEF there, dominated
  <2> QED
    BY <2>1, <2>2
<1>6. (blind \subseteq DOMAIN log)'
  BY <1>1, <1>2, <1>5 DEF HistInv
<1>7. \A e \in Devices : Held(left[e])'
  <2> SUFFICES ASSUME NEW e \in Devices, NEW n \in Name PROVE left[e][n] <= N + 1
    BY <1>1, <1>2 DEF Held, HistInv
  <2>1. left[e][n] \in 0 .. MaxWrites /\ left[e][n] <= N
    BY DEF HistInv, Held, Files
  <2> QED
    BY <1>2, <2>1
<1> QED
  BY <1>1, <1>6, <1>7 DEF HistInv

LEMMA HistStep ==
    ASSUME SyncInv, HistInv, [Next]_vars
    PROVE  HistInv'
<1>0. blind \subseteq DOMAIN log /\ \A d \in Devices : Held(disk[d]) /\ Held(left[d])
  BY DEF SyncInv, FilesInv, HistInv
<1>1. CASE Sync
  <2>1. PICK e \in Devices, n \in Name :
           Upload(e, n) \/ Download(e, n) \/ KeepEdited(e, n) \/ \E m \in Name : ConflictCopy(e, n, m)
    BY <1>1 DEF Sync
  <2>2. UNCHANGED <<log, left, blind>>
    BY <2>1 DEF Upload, Download, KeepEdited, ConflictCopy, history
  <2> QED
    BY <1>0, <2>2, SameLeft
<1>2. ASSUME NEW d \in Devices, Local(d) PROVE HistInv'
  <2>1. CASE CommitPut(d)
    <3>1. op[d] \in Puts
      BY <2>1, OpKinds DEF CommitPut, SyncInv, OpInv
    <3> QED
      BY <2>1, <3>1, HistCommitted DEF CommitPut
  <2>2. CASE CommitRemove(d)
    <3>1. op[d] \in Removals
      BY <2>2, OpKinds DEF CommitRemove, SyncInv, OpInv
    <3> QED
      BY <2>2, <3>1, HistCommitted DEF CommitRemove
  <2>3. CASE BeginPut(d) \/ \E p \in Paths : BeginRemove(d, p)
    <3>1. UNCHANGED <<log, left, blind>>
      BY <2>3 DEF BeginPut, BeginRemove, BeginWrite, history
    <3> QED
      BY <1>0, <3>1, SameLeft
  <2>4. CASE AbandonWrite(d) \/ Reload(d)
    <3>1. UNCHANGED <<log, left, blind>>
      BY <2>4 DEF AbandonWrite, Reload, history
    <3> QED
      BY <1>0, <3>1, SameLeft
  <2>5. CASE cmdCompact(d)
    <3>1. left' = [left EXCEPT ![d] = disk[d]] /\ UNCHANGED <<log, blind>>
      BY <2>5 DEF cmdCompact, CompactBegin
    <3> QED
      BY <1>0, <3>1, OneLeft
  <2>6. CASE CompactMaterialise(d)
    <3> DEFINE c == Head(op[d].conflicts)
    <3>1. /\ op[d] \in Compactions /\ OpKnown(op[d]) /\ op[d].conflicts # <<>>
          /\ UNCHANGED <<log, blind>>
          /\ \/ left' = [left EXCEPT ![d] = [left[d] EXCEPT ![<<c.id, 0>>] = c.id]]
             \/ UNCHANGED left
      BY <2>6, MaterialiseCases
    <3>2. c \in FileCopy /\ c.id <= Len(log)
      BY <3>1, WroteFacts
    <3>3. c.id \in 0 .. MaxWrites /\ c.id \in Paths
      BY <3>2, MainFacts DEF FileCopy
    <3> HIDE DEF c
    <3>4. <<c.id, 0>> \in Name
      BY <3>3, NamesFacts
    <3>5. Held([left[d] EXCEPT ![<<c.id, 0>>] = c.id])
      BY <1>0, <3>2, <3>3, <3>4, OneHeld
    <3> QED
      BY <1>0, <3>1, <3>5, OneLeft, SameLeft
  <2>7. CASE CompactRemoveLoser(d)
    <3>1. PICK n \in op[d].loser : n \in Name /\ RemoveFile(d, n, LoserGone(op[d]))
      BY <2>7, RemoveLoserCases
    <3>2. LoserGone(op[d]) \in Compactions /\ OpKnown(LoserGone(op[d]))
      BY <2>7, RemoveLoserCases, LoserGoneFacts
    <3> QED
      BY <3>1, <3>2, HistRemoved
  <2>8. ASSUME NEW p \in Paths, CompactRemove(d, p) PROVE HistInv'
    <3> DEFINE o == op[d]
               n == Head(o.removes[p]).src
    <3>1. /\ o \in Compactions /\ OpKnown(o) /\ p \in DOMAIN o.removes /\ o.removes[p] # <<>>
          /\ RemoveFile(d, n, Shortened(o, p))
      BY <2>8, RemoveCases
    <3>2. n \in Name /\ Shortened(o, p) \in Compactions /\ OpKnown(Shortened(o, p))
      BY <3>1, ShortenedFacts
    <3> HIDE DEF o, n
    <3> QED
      BY <3>1, <3>2, HistRemoved
  <2>9. CASE CompactEnd(d) \/ CompactCrash(d)
    <3>1. left' = [left EXCEPT ![d] = NoFiles] /\ UNCHANGED <<log, blind>>
      BY <2>9 DEF CompactEnd, CompactCrash
    <3>2. Held(NoFiles)
      <4>1. Len(log) \in Nat
        BY LenProperties DEF SyncInv, LogInv, LogOK
      <4> QED
        BY <4>1, MainFacts DEF Held, Files, NoFiles, None
    <3> QED
      BY <1>0, <3>1, <3>2, OneLeft
  <2> QED
    BY <1>2, <2>1, <2>2, <2>3, <2>4, <2>5, <2>6, <2>7, <2>8, <2>9 DEF Local
<1>3. CASE UNCHANGED vars
  BY <1>0, <1>3, SameLeft DEF vars
<1> QED
  BY <1>1, <1>2, <1>3 DEF Next

LEMMA HistInvariant == Spec => [](SyncInv /\ HistInv)
<1>1. Init => HistInv
  <2> SUFFICES ASSUME Init PROVE HistInv
    OBVIOUS
  <2>1. /\ Len(log) = 0 /\ blind = {} /\ left = [d \in Devices |-> NoFiles]
    BY DEF Init
  <2>2. Held(NoFiles)
    BY <2>1, MainFacts DEF Held, Files, NoFiles, None
  <2> QED
    BY <2>1, <2>2 DEF HistInv, Held
<1>2. SyncInv /\ HistInv /\ [Next]_vars => HistInv'
  BY HistStep
<1> QED
  BY <1>1, <1>2, SyncInvariant, PTL DEF Spec

(* Type correctness of the vault core, for any number of devices, records and  *)
(* copies and every setting of the environment: every number that stands for a *)
(* record names one that was written, and a manifest file only ever holds a    *)
(* record of its own path or the loser its conflict path is named after.       *)
THEOREM SyncTypeCorrect == Spec => []TypeOK
<1>1. SyncInv /\ HistInv => TypeOK
  <2> SUFFICES ASSUME SyncInv, HistInv PROVE TypeOK
    OBVIOUS
  <2>1. \A i \in DOMAIN log : log[i].clock \in Clock /\ log[i].gen \in Nat /\ log[i].key \in Keys
    <3> TAKE i \in DOMAIN log
    <3>1. log[i] \in LogRecord
      BY LenProperties, ElementOfSeq DEF SyncInv, LogInv, LogOK
    <3> QED
      BY <3>1 DEF LogRecord, SyncInv, LogInv
  <2>2. \A d \in Devices : op[d].kind \in {"none", "put", "remove", "compact"}
    BY OpKinds DEF SyncInv, OpInv
  <2>3. server \in Files /\ \A d \in Devices : cache[d] = Nil \/ cache[d] \in Index
    BY DEF SyncInv, FilesInv, Held, CacheInv
  <2> QED
    BY <2>1, <2>2, <2>3 DEF TypeOK, SyncInv, HistInv, LogInv, LogOK, FilesInv, CacheInv
<1> QED
  BY <1>1, HistInvariant, PTL

--------------------------------------------------------------------------------
(* VaultSync.  Compaction, when every device has its id, on the files as it    *)
(* knows them (left), which are those of the disk unless the sync client came  *)
(* between.  What follows speaks of the log as an argument, so that a step     *)
(* that leaves the log alone carries it over.                                  *)

(* Every record has a clock, and a record of a file is told by its body. *)
RecordsInv == \A i \in DOMAIN log : Clocked(log[i].clock) /\ (~log[i].del => log[i].body = i)

CopyIn(lg, fs, n) ==
    [src |-> n, id |-> fs[n], del |-> lg[fs[n]].del, body |-> lg[fs[n]].body,
     gen |-> lg[fs[n]].gen, upd |-> lg[fs[n]].upd, delGen |-> lg[fs[n]].delGen,
     clock |-> lg[fs[n]].clock, key |-> lg[fs[n]].key]

CopiesIn(lg, fs, N) == {CopyIn(lg, fs, n) : n \in N}

(* w is a copy that may be elected from B, and the others that are shown beside it. *)
Elected(w, B) ==
    /\ w \in B /\ ~isCausallyDominated(w, B)
    /\ \A c \in B : c = w \/ isCausallyDominated(c, B) \/ candidateCompare(c, w) <= 0
Losers(B, w) == {c \in B : ~isCausallyDominated(c, B) /\ ~c.del /\ c.id # w.id}

(* The files a compaction has still to remove. *)
Pending(o) ==
    {c.src : c \in SetOf(o.conflicts)} \cup o.loser
        \cup UNION {{c.src : c \in SetOf(o.removes[p])} : p \in DOMAIN o.removes}

(* What a load shows of the file of a conflict path, or of a copy in S without one. *)
ShownAt(lg, fs, S, p) ==
    IF fs[<<p, 0>>] # None THEN IF lg[fs[<<p, 0>>]].del THEN 0 ELSE fs[<<p, 0>>]
    ELSE IF \E c \in S : c.id = p THEN p ELSE 0

ShownOf(w) == IF w.del THEN 0 ELSE w.id

(* The files of the path that stay. *)
Kept(o, fs) == Present(fs, Main) \ Pending(o)

(* A compaction that met no error: of the files that stay one is elected and   *)
(* the others are losers that have their conflict files; those files and the   *)
(* conflicts still to write are what the start showed.                         *)
OnCourse(lg, o, fs) ==
    /\ \A n \in Pending(o) : n \in SetOf(Names(Main))
    /\ \A m, n \in o.loser : m = n
    /\ \A c \in SetOf(o.conflicts) : ~lg[c.id].del /\ fs[<<c.id, 0>>] \in {None, c.id}
    /\ o.errors = FALSE =>
          /\ \E w \in CopiesIn(lg, fs, Kept(o, fs)) :
                /\ Elected(w, CopiesIn(lg, fs, Kept(o, fs))) /\ o.shown[Main] = ShownOf(w)
                /\ \A c \in CopiesIn(lg, fs, Kept(o, fs)) :
                      c = w \/ ( /\ c \in Losers(CopiesIn(lg, fs, Kept(o, fs)), w)
                                 /\ fs[<<c.id, 0>>] # None)
          /\ \A p \in Paths \ {Main} : o.shown[p] = ShownAt(lg, fs, SetOf(o.conflicts), p)

CourseInv == \A d \in Devices : op[d].kind = "compact" => OnCourse(log, op[d], left[d])

LEMMA CopyInFacts ==
    /\ \A fs, n : CopyIn(log, fs, n) = Candidate(fs, n)
    /\ \A fs : CopiesIn(log, fs, Present(fs, Main)) = CopiesOf(fs, Main)
    /\ \A lg, fs, n : CopyIn(lg, fs, n).src = n /\ CopyIn(lg, fs, n).id = fs[n]
<1>1. \A fs, n : CopyIn(log, fs, n) = Candidate(fs, n)
  BY DEF CopyIn, Candidate
<1>2. \A fs : CopiesIn(log, fs, Present(fs, Main)) = CopiesOf(fs, Main)
  BY <1>1 DEF CopiesIn, CopiesOf
<1>3. \A lg, fs, n : CopyIn(lg, fs, n).src = n /\ CopyIn(lg, fs, n).id = fs[n]
  BY DEF CopyIn
<1> QED
  BY <1>1, <1>2, <1>3

(* Two copies of one record, and a copy that is redundant beside another. *)
LEMMA SameRecordOf ==
    ASSUME LogInv, RecordsInv, NEW fs, Held(fs), NEW a \in CopiesOf(fs, Main), NEW b \in CopiesOf(fs, Main)
    PROVE  /\ a.key = b.key => a.id = b.id
           /\ a.id = b.id => a.clock = b.clock /\ a.del = b.del
           /\ a.src = b.src => a = b
           /\ Redundant(a, b) <=> a.del \/ a.id = b.id
           /\ Clocked(a.clock)
<1> USE MainFacts
<1>1. LogOK
  BY DEF LogInv
<1>2. /\ a.id \in DOMAIN log /\ b.id \in DOMAIN log /\ a.del \in BOOLEAN /\ b.del \in BOOLEAN
      /\ a = Candidate(fs, a.src) /\ b = Candidate(fs, b.src)
      /\ a.key = log[a.id].key /\ b.key = log[b.id].key
      /\ a.clock = log[a.id].clock /\ b.clock = log[b.id].clock
      /\ a.del = log[a.id].del /\ b.del = log[b.id].del
      /\ a.body = log[a.id].body /\ b.body = log[b.id].body
  BY <1>1, CopiesOfFacts
<1>3. a.key = b.key => a.id = b.id
  BY <1>2 DEF LogInv
<1>4. a.id = b.id => a.clock = b.clock /\ a.del = b.del /\ a.body = b.body
  BY <1>2
<1>5. a.src = b.src => a = b
  BY <1>2
<1>6. Clocked(a.clock) /\ Clocked(b.clock)
  BY <1>2 DEF RecordsInv
<1>7. (~a.del => a.body = a.id) /\ (~b.del => b.body = b.id)
  BY <1>2 DEF RecordsInv
<1>8. Redundant(a, b) <=> a.del \/ a.id = b.id
  <2>1. bothClocked(b, a)
    BY <1>6 DEF bothClocked
  <2>2. Redundant(a, b) <=> (a.del = b.del /\ a.body = b.body) \/ a.del
    BY <2>1 DEF Redundant
  <2>3. ASSUME ~a.del, a.del = b.del, a.body = b.body PROVE a.id = b.id
    <3>1. ~b.del
      BY <2>3
    <3> QED
      BY <1>7, <2>3, <3>1
  <2> QED
    BY <1>4, <2>2, <2>3, Zenon
<1> QED
  BY <1>3, <1>4, <1>5, <1>6, <1>8

(* The copies of which none dominates another are ordered. *)
LEMMA CopiesOrdered ==
    ASSUME LogInv, RecordsInv, NEW fs, Held(fs), NEW A, A \subseteq CopiesOf(fs, Main),
           \A c \in A : ~isCausallyDominated(c, A)
    PROVE  /\ Ordered(A)
           /\ \A a, b \in A : candidateCompare(a, b) <= 0 /\ candidateCompare(b, a) <= 0 => a.id = b.id
           /\ \A a \in A : candidateCompare(a, a) <= 0
<1>1. LogOK /\ Main \in Paths
  BY MainFacts DEF LogInv
<1>2. \A c \in A : c.clock \in Clock /\ c.del \in BOOLEAN /\ c.key \in Nat /\ Clocked(c.clock)
  BY <1>1, CopiesOfFacts, SameRecordOf DEF FileCopy
<1>3. \A a, b \in A : (a.key = b.key => a.id = b.id /\ a.clock = b.clock) /\ (a.src = b.src => a = b)
  BY SameRecordOf
<1>4. Undominated(A)
  <2> SUFFICES ASSUME NEW a \in A, NEW b \in A, clockDominates(a.clock, b.clock) PROVE FALSE
    BY DEF Undominated
  <2>1. CASE a.src = b.src
    BY <1>2, <1>3, <2>1, DominationOrder
  <2>2. CASE a.src # b.src
    BY <2>2 DEF isCausallyDominated
  <2> QED
    BY <2>1, <2>2
<1>5. /\ Ordered(A) /\ \A a, b \in A : candidateCompare(a, b) <= 0 /\ candidateCompare(b, a) <= 0
                                 => a.key = b.key
  BY <1>2, <1>3, <1>4, OrderedByKey
<1> QED
  BY <1>3, <1>5 DEF Ordered

(* The verdict on the path, of clocked copies. *)
LEMMA VerdictFacts ==
    ASSUME LogInv, RecordsInv, NEW fs, Held(fs), Present(fs, Main) # {}
    PROVE  LET B == CopiesOf(fs, Main)
               r == Settled(fs)[Main]
           IN  /\ Elected(r.winner, B) /\ r.winner \in B
               /\ SetOf(r.conflicts) = Losers(B, r.winner)
               /\ SetOf(r.removes) = {c \in B : c # r.winner /\ c \notin Losers(B, r.winner)}
               /\ r.conflicts \in Seq(FileCopy) /\ r.removes \in Seq(FileCopy)
<1> DEFINE B == CopiesOf(fs, Main)
           r == Settled(fs)[Main]
           A == B \ Pruned(B)
<1>1. LogOK /\ Main \in Paths
  BY MainFacts DEF LogInv
<1>2. VerdictOn(r, B)
  BY <1>1, SettledFacts
<1>3. /\ r.winner \in A
      /\ Ordered(A) => \A a \in A : candidateCompare(a, r.winner) <= 0
      /\ SetOf(r.conflicts) = {c \in A : c # r.winner /\ ~Redundant(c, r.winner)}
      /\ SetOf(r.removes) = Pruned(B) \cup {c \in A : c # r.winner /\ Redundant(c, r.winner)}
      /\ r.conflicts \in Seq(FileCopy) /\ r.removes \in Seq(FileCopy)
  BY <1>2 DEF VerdictOn
<1>4. \A c \in B : c \in A <=> ~isCausallyDominated(c, B)
  BY DEF Pruned
<1>5. \A c \in A : ~isCausallyDominated(c, A)
  BY <1>4 DEF isCausallyDominated
<1>6. \A c \in B : Redundant(c, r.winner) <=> c.del \/ c.id = r.winner.id
  BY <1>3, SameRecordOf
<1> HIDE DEF r, B
<1>7. Ordered(A)
  BY <1>5, CopiesOrdered DEF B
<1>8. Elected(r.winner, B)
  BY <1>3, <1>4, <1>7 DEF Elected
<1>9. SetOf(r.conflicts) = Losers(B, r.winner)
  BY <1>3, <1>4, <1>6, Zenon DEF Losers
<1>10. SetOf(r.removes) = {c \in B : c # r.winner /\ c \notin Losers(B, r.winner)}
  <2>1. Pruned(B) \subseteq B
    BY DEF Pruned
  <2>2. \A c \in SetOf(r.removes) : c \in B /\ c # r.winner /\ c \notin Losers(B, r.winner)
    BY <1>3, <1>4, <1>6, <2>1 DEF Losers
  <2>3. \A c \in B : c # r.winner /\ c \notin Losers(B, r.winner) => c \in SetOf(r.removes)
    BY <1>3, <1>4, <1>6, <2>1 DEF Losers
  <2> QED
    BY <2>2, <2>3, Zenon
<1> QED
  BY <1>3, <1>8, <1>9, <1>10 DEF r, B

(* The copy that may be elected decides what a load shows. *)
LEMMA ElectedShown ==
    ASSUME LogInv, RecordsInv, NEW fs, Held(fs), NEW w, Elected(w, CopiesOf(fs, Main))
    PROVE  LET B == CopiesOf(fs, Main)
               v == Settled(fs)[Main].winner
           IN  /\ Present(fs, Main) # {} /\ v.id = w.id /\ v.del = w.del
               /\ Losers(B, v) = Losers(B, w)
<1> DEFINE B == CopiesOf(fs, Main)
           v == Settled(fs)[Main].winner
           A == {c \in B : ~isCausallyDominated(c, B)}
<1>1. w \in B /\ Present(fs, Main) # {}
  BY DEF Elected, CopiesOf
<1>2. Elected(v, B) /\ v \in B
  BY <1>1, VerdictFacts
<1>3. v \in A /\ w \in A
  BY <1>2 DEF Elected
<1>4. A \subseteq B /\ \A c \in A : ~isCausallyDominated(c, A)
  BY DEF isCausallyDominated
<1>5. /\ \A a, b \in A : candidateCompare(a, b) <= 0 /\ candidateCompare(b, a) <= 0 => a.id = b.id
      /\ \A a \in A : candidateCompare(a, a) <= 0
  BY <1>4, CopiesOrdered
<1>6. candidateCompare(v, w) <= 0 /\ candidateCompare(w, v) <= 0
  BY <1>2, <1>3, <1>5 DEF Elected
<1>7. v.id = w.id
  BY <1>3, <1>5, <1>6
<1>8. v.del = w.del
  BY <1>1, <1>2, <1>7, SameRecordOf
<1> QED
  BY <1>1, <1>7, <1>8 DEF Losers

(* A conflict path has one file, and nothing to remove. *)
LEMMA OneFilePath ==
    ASSUME LogOK, NEW fs, Held(fs), NEW p \in Paths, p # Main
    PROVE  /\ Present(fs, p) # {} <=> fs[<<p, 0>>] # None
           /\ fs[<<p, 0>>] # None => /\ Settled(fs)[p].winner = Candidate(fs, <<p, 0>>)
                                     /\ Settled(fs)[p].removes = <<>>
<1> DEFINE n == <<p, 0>>
           r == Settled(fs)[p]
           B == CopiesOf(fs, p)
<1>1. SetOf(Names(p)) = {n}
  BY NamesFacts
<1>2. Present(fs, p) # {} <=> fs[n] # None
  BY <1>1 DEF Present
<1> SUFFICES ASSUME fs[n] # None PROVE r.winner = Candidate(fs, n) /\ r.removes = <<>>
  BY <1>2
<1>3. Present(fs, p) = {n} /\ B = {Candidate(fs, n)}
  BY <1>1 DEF Present, CopiesOf
<1>4. VerdictOn(r, B)
  BY <1>3, SettledFacts
<1>5. Pruned(B) = {}
  BY <1>3 DEF Pruned, isCausallyDominated
<1> HIDE DEF r, B
<1>6. r.winner = Candidate(fs, n) /\ SetOf(r.removes) = {} /\ r.removes \in Seq(FileCopy)
  BY <1>3, <1>4, <1>5 DEF VerdictOn
<1>7. r.removes = <<>>
  BY <1>6, SeqHeadTail
<1> QED
  BY <1>6, <1>7

LEMMA ShownByFiles ==
    ASSUME LogInv, RecordsInv, NEW fs, Held(fs), NEW w, Elected(w, CopiesOf(fs, Main))
    PROVE  /\ Load(fs)[Main] = ShownOf(w)
           /\ \A p \in Paths \ {Main} :
                 Load(fs)[p] = ShownAt(log, fs, Losers(CopiesOf(fs, Main), w), p)
           /\ Load(fs) \in [Paths -> 0 .. MaxWrites]
<1> DEFINE B == CopiesOf(fs, Main)
           v == Settled(fs)[Main].winner
<1>1. LogOK /\ Main \in Paths
  BY MainFacts DEF LogInv
<1>2. Present(fs, Main) # {} /\ v.id = w.id /\ v.del = w.del /\ Losers(B, v) = Losers(B, w)
  BY ElectedShown
<1>3. SetOf(Settled(fs)[Main].conflicts) = Losers(B, v)
  BY <1>2, VerdictFacts
<1>4. SetOf(Conflicts(Settled(fs))) = {c \in Losers(B, w) : Present(fs, c.id) = {}}
  BY <1>1, <1>2, <1>3, ConflictsFacts
<1> HIDE DEF v, B
<1>5. Load(fs)[Main] = ShownOf(w)
  BY <1>1, <1>2, LoadFacts DEF ShownOf, v
<1>6. ASSUME NEW p \in Paths \ {Main} PROVE Load(fs)[p] = ShownAt(log, fs, Losers(B, w), p)
  <2>1. CASE fs[<<p, 0>>] # None
    <3>1. Present(fs, p) # {} /\ Settled(fs)[p].winner = Candidate(fs, <<p, 0>>)
      BY <1>1, <2>1, OneFilePath
    <3>2. Candidate(fs, <<p, 0>>).del = log[fs[<<p, 0>>]].del /\ Candidate(fs, <<p, 0>>).id = fs[<<p, 0>>]
      BY DEF Candidate
    <3> QED
      BY <1>1, <2>1, <3>1, <3>2, LoadFacts DEF ShownAt
  <2>2. CASE fs[<<p, 0>>] = None
    <3>1. Present(fs, p) = {}
      BY <1>1, <2>2, OneFilePath
    <3>2. (\E c \in SetOf(Conflicts(Settled(fs))) : c.id = p) <=> \E c \in Losers(B, w) : c.id = p
      BY <1>4, <3>1
    <3> QED
      BY <1>1, <2>2, <3>1, <3>2, LoadFacts DEF ShownAt
  <2> QED
    BY <2>1, <2>2
<1> QED
  BY <1>1, <1>5, <1>6, LoadFacts DEF B, Index

(* Which files are still to go, after each step of a compaction. *)
LEMMA PendingFacts ==
    ASSUME NEW o \in Compactions, OpKnown(o)
    PROVE  /\ Pending(Removed(o)) = Pending(o) /\ Pending(RemoveFailed(o)) = Pending(o)
           /\ Pending(o) = Pending(LoserGone(o)) \cup o.loser
           /\ o.conflicts # <<>> =>
                 /\ Head(o.conflicts).src \in Pending(o)
                 /\ o.loser = {} => Pending(Wrote(o)) = Pending(o)
                 /\ Pending(WriteFailed(o)) \subseteq Pending(o)
           /\ \A p \in DOMAIN o.removes : o.removes[p] # <<>> =>
                 Pending(o) = Pending(Shortened(o, p)) \cup {Head(o.removes[p]).src}
<1>1. Pending(Removed(o)) = Pending(o) /\ Pending(RemoveFailed(o)) = Pending(o)
  <2>1. /\ Removed(o).conflicts = o.conflicts /\ Removed(o).loser = o.loser
        /\ Removed(o).removes = o.removes
        /\ RemoveFailed(o).conflicts = o.conflicts /\ RemoveFailed(o).loser = o.loser
        /\ RemoveFailed(o).removes = o.removes
    BY RemovedFacts
  <2> QED
    BY <2>1 DEF Pending
<1>2. Pending(o) = Pending(LoserGone(o)) \cup o.loser
  <2>1. /\ LoserGone(o).conflicts = o.conflicts /\ LoserGone(o).loser = {}
        /\ LoserGone(o).removes = o.removes
    BY LoserGoneFacts
  <2> QED
    BY <2>1 DEF Pending
<1>3. ASSUME o.conflicts # <<>>
      PROVE  /\ Head(o.conflicts).src \in Pending(o)
             /\ o.loser = {} => Pending(Wrote(o)) = Pending(o)
             /\ Pending(WriteFailed(o)) \subseteq Pending(o)
  <2> DEFINE c == Head(o.conflicts)
             S == SetOf(Tail(o.conflicts))
  <2>1. /\ c \in SetOf(o.conflicts) /\ SetOf(o.conflicts) = S \cup {c}
        /\ Wrote(o).conflicts = Tail(o.conflicts) /\ Wrote(o).loser = {c.src}
        /\ Wrote(o).removes = o.removes
        /\ WriteFailed(o).conflicts = Tail(o.conflicts) /\ WriteFailed(o).loser = o.loser
        /\ WriteFailed(o).removes = o.removes
    BY <1>3, WroteFacts
  <2> HIDE DEF c, S
  <2>2. c.src \in Pending(o)
    BY <2>1 DEF Pending
  <2>3. {x.src : x \in SetOf(o.conflicts)} = {x.src : x \in S} \cup {c.src}
    BY <2>1
  <2>4. ASSUME o.loser = {} PROVE Pending(Wrote(o)) = Pending(o)
    BY <2>1, <2>3, <2>4 DEF Pending, S
  <2>5. Pending(WriteFailed(o)) \subseteq Pending(o)
    BY <2>1, <2>3 DEF Pending, S
  <2> QED
    BY <2>2, <2>4, <2>5 DEF c
<1>4. ASSUME NEW p \in DOMAIN o.removes, o.removes[p] # <<>>
      PROVE  Pending(o) = Pending(Shortened(o, p)) \cup {Head(o.removes[p]).src}
  <2> DEFINE u == Shortened(o, p)
             c == Head(o.removes[p])
             S == SetOf(Tail(o.removes[p]))
  <2>1. /\ SetOf(o.removes[p]) = S \cup {c}
        /\ u.conflicts = o.conflicts /\ u.loser = o.loser /\ DOMAIN u.removes = DOMAIN o.removes
        /\ SetOf(u.removes[p]) = S
        /\ \A q \in DOMAIN o.removes : q # p => u.removes[q] = o.removes[q]
    BY <1>4, ShortenedFacts
  <2> HIDE DEF u, c, S
  <2>2. ASSUME NEW n \in Pending(o) PROVE n \in Pending(u) \cup {c.src}
    <3>1. CASE n \in {x.src : x \in SetOf(o.conflicts)} \cup o.loser
      BY <2>1, <3>1 DEF Pending
    <3>2. CASE \E q \in DOMAIN o.removes : \E x \in SetOf(o.removes[q]) : n = x.src
      <4>0. PICK q \in DOMAIN o.removes : \E x \in SetOf(o.removes[q]) : n = x.src
        BY <3>2
      <4>1. PICK x \in SetOf(o.removes[q]) : n = x.src
        BY <4>0
      <4>2. x = c \/ x \in SetOf(u.removes[q])
        BY <2>1, <4>1
      <4> QED
        BY <2>1, <4>1, <4>2 DEF Pending
    <3> QED
      BY <3>1, <3>2 DEF Pending
  <2>3. ASSUME NEW n \in Pending(u) PROVE n \in Pending(o)
    <3>1. CASE n \in {x.src : x \in SetOf(u.conflicts)} \cup u.loser
      BY <2>1, <3>1 DEF Pending
    <3>2. CASE \E q \in DOMAIN u.removes : \E x \in SetOf(u.removes[q]) : n = x.src
      <4>0. PICK q \in DOMAIN u.removes : \E x \in SetOf(u.removes[q]) : n = x.src
        BY <3>2
      <4>1. PICK x \in SetOf(u.removes[q]) : n = x.src
        BY <4>0
      <4>2. x \in SetOf(o.removes[q])
        BY <2>1, <4>1
      <4> QED
        BY <2>1, <4>1, <4>2 DEF Pending
    <3> QED
      BY <3>1, <3>2 DEF Pending
  <2>4. c.src \in Pending(o)
    BY <2>1 DEF Pending
  <2> QED
    BY <2>2, <2>3, <2>4 DEF u, c
<1> QED
  BY <1>1, <1>2, <1>3, <1>4

(* A file of a conflict path is no file of the path, and the other way round. *)
LEMMA PathsApart ==
    ASSUME NEW i \in 1 .. MaxWrites
    PROVE  /\ i \in Paths /\ i # Main /\ <<i, 0>> \in Name /\ <<i, 0>> \notin SetOf(Names(Main))
           /\ \A j : <<i, 0>> = <<j, 0>> <=> i = j
<1>1. i \in Paths /\ i # Main
  BY MainFacts DEF Main
<1>2. <<i, 0>> \in Name
  BY <1>1, NamesFacts
<1>3. \A n \in SetOf(Names(Main)) : n[1] = Main
  BY MainFacts, NamesFacts
<1> QED
  BY <1>1, <1>2, <1>3

(* The copies depend on the files named only. *)
LEMMA SameCopies ==
    ASSUME NEW lg, NEW fs, NEW g, NEW N, \A n \in N : g[n] = fs[n]
    PROVE  CopiesIn(lg, g, N) = CopiesIn(lg, fs, N)
<1>1. \A n \in N : CopyIn(lg, g, n) = CopyIn(lg, fs, n)
  BY DEF CopyIn
<1> QED
  BY <1>1 DEF CopiesIn

(* Writing the conflict file of i leaves the files of the path alone. *)
LEMMA MaterialisedFiles ==
    ASSUME NEW fs, Held(fs), NEW i \in 1 .. MaxWrites
    PROVE  LET g == [fs EXCEPT ![<<i, 0>>] = i]
           IN  /\ \A n \in SetOf(Names(Main)) : g[n] = fs[n]
               /\ Present(g, Main) = Present(fs, Main)
               /\ g[<<i, 0>>] = i /\ i # None
               /\ \A p \in Paths : p # i => g[<<p, 0>>] = fs[<<p, 0>>]
<1> DEFINE g == [fs EXCEPT ![<<i, 0>>] = i]
<1>1. fs \in [Name -> 0 .. MaxWrites]
  BY DEF Held, Files
<1>2. SetOf(Names(Main)) \subseteq Name /\ \A p \in Paths : <<p, 0>> \in Name
  BY MainFacts, NamesFacts
<1>3. \A n \in SetOf(Names(Main)) : g[n] = fs[n]
  BY <1>1, <1>2, PathsApart
<1>4. g[<<i, 0>>] = i /\ \A p \in Paths : p # i => g[<<p, 0>>] = fs[<<p, 0>>]
  BY <1>1, <1>2, PathsApart
<1>5. i # None
  BY DEF None
<1> HIDE DEF g
<1>6. Present(g, Main) = Present(fs, Main)
  BY <1>3 DEF Present
<1> QED
  BY <1>3, <1>4, <1>5, <1>6 DEF g

(* Removing a file of the path leaves the conflict files alone. *)
LEMMA RemovedFiles ==
    ASSUME NEW fs, Held(fs), NEW n \in SetOf(Names(Main))
    PROVE  LET g == [fs EXCEPT ![n] = None]
           IN  /\ \A m \in SetOf(Names(Main)) : m # n => g[m] = fs[m]
               /\ g[n] = None /\ Present(g, Main) = Present(fs, Main) \ {n}
               /\ \A i \in 1 .. MaxWrites : g[<<i, 0>>] = fs[<<i, 0>>]
<1> DEFINE g == [fs EXCEPT ![n] = None]
<1>1. fs \in [Name -> 0 .. MaxWrites]
  BY DEF Held, Files
<1>2. SetOf(Names(Main)) \subseteq Name /\ \A i \in 1 .. MaxWrites : <<i, 0>> \in Name /\ <<i, 0>> # n
  BY MainFacts, NamesFacts, PathsApart
<1>3. /\ \A m \in SetOf(Names(Main)) : m # n => g[m] = fs[m]
      /\ g[n] = None /\ \A i \in 1 .. MaxWrites : g[<<i, 0>>] = fs[<<i, 0>>]
  BY <1>1, <1>2
<1> HIDE DEF g
<1>4. Present(g, Main) = Present(fs, Main) \ {n}
  BY <1>3 DEF Present
<1> QED
  BY <1>3, <1>4 DEF g

LEMMA ConflictIds ==
    ASSUME NEW o \in Compactions
    PROVE  \A c \in SetOf(o.conflicts) : c \in FileCopy /\ c.id \in 1 .. MaxWrites /\ c.src \in Name
<1>1. o.conflicts \in Seq(FileCopy)
  BY DEF Compactions
<1>2. \A c \in SetOf(o.conflicts) : c \in FileCopy
  BY <1>1, LenProperties, ElementOfSeq DEF SetOf
<1> QED
  BY <1>2 DEF FileCopy

LEMMA CourseWrote ==
    ASSUME NEW o \in Compactions, OpKnown(o), o.conflicts # <<>>, o.loser = {}, NEW fs, Held(fs),
           OnCourse(log, o, fs)
    PROVE  LET i == Head(o.conflicts).id
           IN  /\ OnCourse(log, Wrote(o), [fs EXCEPT ![<<i, 0>>] = i])
               /\ OnCourse(log, WriteFailed(o), fs)
<1> DEFINE c == Head(o.conflicts)
           i == c.id
           g == [fs EXCEPT ![<<i, 0>>] = i]
           u == Wrote(o)
           z == WriteFailed(o)
<1>1. /\ c \in SetOf(o.conflicts) /\ SetOf(o.conflicts) = SetOf(Tail(o.conflicts)) \cup {c}
      /\ u.conflicts = Tail(o.conflicts) /\ u.loser = {c.src} /\ u.errors = o.errors
      /\ u.shown = o.shown
      /\ z.errors = TRUE /\ z.conflicts = Tail(o.conflicts) /\ z.loser = o.loser
  BY WroteFacts
<1>2. Pending(u) = Pending(o) /\ Pending(z) \subseteq Pending(o)
  BY PendingFacts
<1>3. \A x \in SetOf(o.conflicts) : x.id \in 1 .. MaxWrites
  BY ConflictIds
<1>4. /\ \A n \in SetOf(Names(Main)) : g[n] = fs[n]
      /\ Present(g, Main) = Present(fs, Main)
      /\ g[<<i, 0>>] = i /\ i # None
      /\ \A p \in Paths : p # i => g[<<p, 0>>] = fs[<<p, 0>>]
  BY <1>1, <1>3, MaterialisedFiles
<1> HIDE DEF c, g, u, z
<1>5. Kept(u, g) = Kept(o, fs)
  BY <1>2, <1>4 DEF Kept
<1>6. CopiesIn(log, g, Kept(u, g)) = CopiesIn(log, fs, Kept(o, fs))
  <2>1. \A n \in Kept(o, fs) : g[n] = fs[n]
    BY <1>4 DEF Kept, Present
  <2> QED
    BY <1>5, <2>1, SameCopies
<1>7. \A x \in SetOf(u.conflicts) : ~log[x.id].del /\ g[<<x.id, 0>>] \in {None, x.id}
  <2> SUFFICES ASSUME NEW x \in SetOf(u.conflicts)
               PROVE  ~log[x.id].del /\ g[<<x.id, 0>>] \in {None, x.id}
    BY Zenon
  <2>1. x \in SetOf(o.conflicts) /\ x.id \in Paths
    BY <1>1, <1>3, MainFacts
  <2>2. ~log[x.id].del /\ fs[<<x.id, 0>>] \in {None, x.id}
    BY <2>1 DEF OnCourse
  <2> QED
    BY <1>4, <2>1, <2>2
<1>8. ASSUME u.errors = FALSE, NEW p \in Paths \ {Main}
      PROVE  u.shown[p] = ShownAt(log, g, SetOf(u.conflicts), p)
  <2>1. o.shown[p] = ShownAt(log, fs, SetOf(o.conflicts), p)
    BY <1>1, <1>8 DEF OnCourse
  <2>2. CASE p = i
    <3>1. ~log[i].del /\ fs[<<i, 0>>] \in {None, i}
      BY <1>1 DEF OnCourse
    <3>2. ShownAt(log, fs, SetOf(o.conflicts), p) = i
      BY <1>1, <1>4, <2>2, <3>1 DEF ShownAt
    <3>3. ShownAt(log, g, SetOf(u.conflicts), p) = i
      BY <1>4, <2>2, <3>1 DEF ShownAt
    <3> QED
      BY <1>1, <2>1, <3>2, <3>3
  <2>3. CASE p # i
    <3>1. g[<<p, 0>>] = fs[<<p, 0>>]
      BY <1>4, <2>3
    <3>2. (\E x \in SetOf(o.conflicts) : x.id = p) <=> \E x \in SetOf(u.conflicts) : x.id = p
      BY <1>1, <2>3
    <3> QED
      BY <1>1, <2>1, <3>1, <3>2 DEF ShownAt
  <2> QED
    BY <2>2, <2>3
<1>9. ASSUME u.errors = FALSE
      PROVE  \E w \in CopiesIn(log, g, Kept(u, g)) :
                /\ Elected(w, CopiesIn(log, g, Kept(u, g))) /\ u.shown[Main] = ShownOf(w)
                /\ \A x \in CopiesIn(log, g, Kept(u, g)) :
                      x = w \/ ( /\ x \in Losers(CopiesIn(log, g, Kept(u, g)), w)
                                 /\ g[<<x.id, 0>>] # None)
  <2> DEFINE K == CopiesIn(log, fs, Kept(o, fs))
  <2>1. PICK w \in K :
           /\ Elected(w, K) /\ o.shown[Main] = ShownOf(w)
           /\ \A x \in K : x = w \/ (x \in Losers(K, w) /\ fs[<<x.id, 0>>] # None)
    BY <1>1, <1>9 DEF OnCourse
  <2>2. \A x \in K : x.id \in Paths
    <3>1. \A n \in Kept(o, fs) : fs[n] \in Paths
      BY NamesFacts, MainFacts DEF Kept, Present, Held, Files, Paths
    <3> QED
      BY <3>1, CopyInFacts DEF CopiesIn
  <2>3. \A x \in K : fs[<<x.id, 0>>] # None => g[<<x.id, 0>>] # None
    BY <1>4, <2>2
  <2> HIDE DEF K
  <2> QED
    BY <1>1, <1>6, <2>1, <2>3 DEF K
<1>10. OnCourse(log, u, g)
  <2>1. \A n \in Pending(u) : n \in SetOf(Names(Main))
    BY <1>2 DEF OnCourse
  <2>2. \A m, n \in u.loser : m = n
    BY <1>1
  <2> QED
    BY <1>7, <1>8, <1>9, <2>1, <2>2 DEF OnCourse
<1>11. OnCourse(log, z, fs)
  <2>1. z.errors # FALSE
    BY <1>1
  <2>2. \A n \in Pending(z) : n \in SetOf(Names(Main))
    BY <1>2 DEF OnCourse
  <2>3. \A x \in SetOf(z.conflicts) : ~log[x.id].del /\ fs[<<x.id, 0>>] \in {None, x.id}
    <3>1. \A x \in SetOf(z.conflicts) : x \in SetOf(o.conflicts)
      BY <1>1
    <3> QED
      BY <3>1, Zenon DEF OnCourse
  <2>4. \A m, n \in z.loser : m = n
    BY <1>1
  <2> QED
    BY <2>1, <2>2, <2>3, <2>4 DEF OnCourse
<1> QED
  BY <1>10, <1>11 DEF c, g, u, z

LEMMA CourseRemoved ==
    ASSUME NEW o \in Compactions, OpKnown(o), NEW u \in Compactions, OpKnown(u), NEW fs, Held(fs),
           OnCourse(log, o, fs), NEW n, Pending(o) = Pending(u) \cup {n},
           u.conflicts = o.conflicts, u.shown = o.shown, u.errors = o.errors, u.loser = {}
    PROVE  /\ OnCourse(log, Removed(u), [fs EXCEPT ![n] = None])
           /\ OnCourse(log, RemoveFailed(u), fs)
<1> DEFINE g == [fs EXCEPT ![n] = None]
           y == Removed(u)
           z == RemoveFailed(u)
           S == SetOf(o.conflicts)
<1>1. /\ y.conflicts = o.conflicts /\ y.loser = {} /\ y.shown = o.shown /\ y.errors = o.errors
      /\ z.conflicts = o.conflicts /\ z.loser = {} /\ z.errors = TRUE
  BY RemovedFacts
<1>2. Pending(y) = Pending(u) /\ Pending(z) = Pending(u)
  BY PendingFacts
<1>3. n \in SetOf(Names(Main))
  BY DEF OnCourse
<1>4. /\ \A m \in SetOf(Names(Main)) : m # n => g[m] = fs[m]
      /\ g[n] = None /\ Present(g, Main) = Present(fs, Main) \ {n}
      /\ \A i \in 1 .. MaxWrites : g[<<i, 0>>] = fs[<<i, 0>>]
  BY <1>3, RemovedFiles
<1>5. \A x \in S : x.id \in 1 .. MaxWrites
  BY ConflictIds
<1> HIDE DEF g, y, z
<1>6. Kept(y, g) = Kept(o, fs)
  BY <1>2, <1>4 DEF Kept
<1>7. CopiesIn(log, g, Kept(y, g)) = CopiesIn(log, fs, Kept(o, fs))
  <2>1. \A m \in Kept(o, fs) : g[m] = fs[m]
    BY <1>4 DEF Kept, Present
  <2> QED
    BY <1>6, <2>1, SameCopies
<1>8. \A x \in S : ~log[x.id].del /\ fs[<<x.id, 0>>] \in {None, x.id}
  BY Zenon DEF OnCourse
<1>9. \A x \in S : g[<<x.id, 0>>] = fs[<<x.id, 0>>]
  BY <1>4, <1>5
<1>10. \A m \in Pending(u) : m \in SetOf(Names(Main))
  BY DEF OnCourse
<1>11. ASSUME y.errors = FALSE
       PROVE  \A p \in Paths \ {Main} : y.shown[p] = ShownAt(log, g, S, p)
  <2> SUFFICES ASSUME NEW p \in Paths \ {Main} PROVE y.shown[p] = ShownAt(log, g, S, p)
    OBVIOUS
  <2>1. p \in 1 .. MaxWrites
    BY MainFacts
  <2>2. g[<<p, 0>>] = fs[<<p, 0>>]
    BY <1>4, <2>1
  <2>3. o.shown[p] = ShownAt(log, fs, S, p)
    BY <1>1, <1>11 DEF OnCourse
  <2> QED
    BY <1>1, <2>2, <2>3 DEF ShownAt
<1>12. ASSUME y.errors = FALSE
       PROVE  \E w \in CopiesIn(log, g, Kept(y, g)) :
                /\ Elected(w, CopiesIn(log, g, Kept(y, g))) /\ y.shown[Main] = ShownOf(w)
                /\ \A x \in CopiesIn(log, g, Kept(y, g)) :
                      x = w \/ ( /\ x \in Losers(CopiesIn(log, g, Kept(y, g)), w)
                                 /\ g[<<x.id, 0>>] # None)
  <2> DEFINE K == CopiesIn(log, fs, Kept(o, fs))
  <2>1. PICK w \in K :
           /\ Elected(w, K) /\ o.shown[Main] = ShownOf(w)
           /\ \A x \in K : x = w \/ (x \in Losers(K, w) /\ fs[<<x.id, 0>>] # None)
    BY <1>1, <1>12 DEF OnCourse
  <2>2. \A x \in K : x.id \in 1 .. MaxWrites
    <3>1. \A m \in Kept(o, fs) : m \in Name /\ fs[m] # 0
      BY NamesFacts, MainFacts DEF Kept, Present, None
    <3>2. \A m \in Name : fs[m] \in 0 .. MaxWrites
      BY DEF Held, Files
    <3>3. \A m \in Kept(o, fs) : fs[m] \in 1 .. MaxWrites
      BY <3>1, <3>2, MainFacts
    <3> QED
      BY <3>3, CopyInFacts DEF CopiesIn
  <2>3. \A x \in K : g[<<x.id, 0>>] = fs[<<x.id, 0>>]
    BY <1>4, <2>2
  <2> HIDE DEF K
  <2> QED
    BY <1>1, <1>7, <2>1, <2>3 DEF K
<1>13. OnCourse(log, y, g)
  <2>1. \A m \in Pending(y) : m \in SetOf(Names(Main))
    BY <1>2, <1>10
  <2>2. \A x \in SetOf(y.conflicts) : ~log[x.id].del /\ g[<<x.id, 0>>] \in {None, x.id}
    <3>1. \A x \in S : ~log[x.id].del /\ g[<<x.id, 0>>] \in {None, x.id}
      BY <1>8, <1>9, Zenon
    <3> QED
      BY <1>1, <3>1, Zenon
  <2>3. \A m, k \in y.loser : m = k
    BY <1>1
  <2>4. y.errors = FALSE => \A p \in Paths \ {Main} : y.shown[p] = ShownAt(log, g, SetOf(y.conflicts), p)
    BY <1>1, <1>11
  <2> QED
    BY <1>12, <2>1, <2>2, <2>3, <2>4 DEF OnCourse
<1>14. OnCourse(log, z, fs)
  <2>1. z.errors # FALSE
    BY <1>1
  <2>2. \A m \in Pending(z) : m \in SetOf(Names(Main))
    BY <1>2, <1>10
  <2>3. \A x \in SetOf(z.conflicts) : ~log[x.id].del /\ fs[<<x.id, 0>>] \in {None, x.id}
    BY <1>1, <1>8, Zenon
  <2>4. \A m, k \in z.loser : m = k
    BY <1>1
  <2> QED
    BY <2>1, <2>2, <2>3, <2>4 DEF OnCourse
<1> QED
  BY <1>13, <1>14 DEF g, y, z

(* The plan of a compaction, as sets. *)
LEMMA PlanOf ==
    ASSUME LogInv, RecordsInv, NEW fs, Held(fs), ~Applied(Plan(Settled(fs)))
    PROVE  LET o == Plan(Settled(fs))
               B == CopiesOf(fs, Main)
               w == Settled(fs)[Main].winner
           IN  /\ o.kind = "compact" /\ o.loser = {} /\ o.errors = FALSE
               /\ Elected(w, B) /\ w \in B
               /\ SetOf(o.conflicts) = {c \in Losers(B, w) : fs[<<c.id, 0>>] = None}
               /\ DOMAIN o.removes \subseteq Paths
               /\ \A p \in DOMAIN o.removes : p # Main => o.removes[p] = <<>>
               /\ Main \in DOMAIN o.removes /\ o.removes[Main] \in Seq(FileCopy)
               /\ SetOf(o.removes[Main]) = {c \in B : c # w /\ c \notin Losers(B, w)}
               /\ o.shown[Main] = ShownOf(w)
               /\ \A p \in Paths \ {Main} : o.shown[p] = ShownAt(log, fs, Losers(B, w), p)
<1> DEFINE o == Plan(Settled(fs))
           B == CopiesOf(fs, Main)
           r == Settled(fs)[Main]
           w == r.winner
<1>1. LogOK /\ Main \in Paths
  BY MainFacts DEF LogInv
<1>2. /\ o.kind = "compact" /\ o.loser = {} /\ o.errors = FALSE
      /\ o.conflicts = Conflicts(Settled(fs)) /\ o.shown = Load(fs)
      /\ DOMAIN o.removes = DOMAIN Settled(fs)
      /\ \A p \in DOMAIN Settled(fs) : o.removes[p] = Settled(fs)[p].removes
  BY DEF Plan, Load
<1>3. DOMAIN Settled(fs) = {p \in Paths : Present(fs, p) # {}}
  BY <1>1, SettledDomain
<1>4. \A p \in DOMAIN o.removes : p # Main => o.removes[p] = <<>>
  BY <1>1, <1>2, <1>3, OneFilePath
<1>5. o.conflicts \in Seq(FileCopy)
  BY <1>1, <1>2, ConflictsFacts
<1>6. ASSUME Present(fs, Main) = {} PROVE FALSE
  <2>1. SetOf(o.conflicts) = {}
    BY <1>1, <1>2, <1>6, ConflictsFacts
  <2>2. o.conflicts = <<>>
    BY <1>5, <2>1, SeqHeadTail
  <2>3. Main \notin DOMAIN o.removes
    BY <1>2, <1>3, <1>6
  <2> QED
    BY <1>2, <1>4, <2>2, <2>3 DEF Applied
<1>7. /\ Elected(w, B) /\ w \in B /\ SetOf(r.conflicts) = Losers(B, w)
      /\ SetOf(r.removes) = {c \in B : c # w /\ c \notin Losers(B, w)}
      /\ r.removes \in Seq(FileCopy)
  BY <1>6, VerdictFacts
<1>8. SetOf(o.conflicts) = {c \in Losers(B, w) : Present(fs, c.id) = {}}
  BY <1>1, <1>2, <1>6, <1>7, ConflictsFacts
<1>9. \A c \in Losers(B, w) : Present(fs, c.id) = {} <=> fs[<<c.id, 0>>] = None
  <2>1. \A c \in B : c.id \in 1 .. MaxWrites
    BY <1>1, CopiesOfFacts DEF FileCopy
  <2>2. \A c \in B : c.id \in Paths /\ c.id # Main
    BY <2>1, PathsApart
  <2> QED
    BY <1>1, <2>2, OneFilePath DEF Losers
<1>10. Main \in DOMAIN o.removes /\ o.removes[Main] = r.removes
  BY <1>1, <1>2, <1>3, <1>6
<1>11. /\ o.shown[Main] = ShownOf(w)
       /\ \A p \in Paths \ {Main} : o.shown[p] = ShownAt(log, fs, Losers(B, w), p)
  BY <1>2, <1>7, ShownByFiles
<1> HIDE DEF o, B, r
<1>12. SetOf(o.conflicts) = {c \in Losers(B, w) : fs[<<c.id, 0>>] = None}
  BY <1>8, <1>9
<1> QED
  BY <1>2, <1>3, <1>4, <1>7, <1>10, <1>11, <1>12 DEF o, B, r

LEMMA CourseBegins ==
    ASSUME LogInv, RecordsInv, NEW fs, Held(fs), ~Applied(Plan(Settled(fs)))
    PROVE  OnCourse(log, Plan(Settled(fs)), fs)
<1> DEFINE o == Plan(Settled(fs))
           B == CopiesOf(fs, Main)
           w == Settled(fs)[Main].winner
           K == CopiesIn(log, fs, Kept(o, fs))
<1>1. /\ o.loser = {} /\ o.errors = FALSE /\ Elected(w, B) /\ w \in B
      /\ SetOf(o.conflicts) = {c \in Losers(B, w) : fs[<<c.id, 0>>] = None}
      /\ \A p \in DOMAIN o.removes : p # Main => o.removes[p] = <<>>
      /\ Main \in DOMAIN o.removes
      /\ SetOf(o.removes[Main]) = {c \in B : c # w /\ c \notin Losers(B, w)}
      /\ o.shown[Main] = ShownOf(w)
      /\ \A p \in Paths \ {Main} : o.shown[p] = ShownAt(log, fs, Losers(B, w), p)
  BY PlanOf
<1>2. LogOK /\ Main \in Paths
  BY MainFacts DEF LogInv
<1>3. \A c \in B : /\ c.src \in Present(fs, Main) /\ c.del = log[c.id].del
                   /\ c = Candidate(fs, c.src)
  BY <1>2, CopiesOfFacts
<1>4. B = {Candidate(fs, n) : n \in Present(fs, Main)} /\ K = {Candidate(fs, n) : n \in Kept(o, fs)}
  BY CopyInFacts DEF CopiesOf, CopiesIn
<1>5. \A n : Candidate(fs, n).src = n
  BY DEF Candidate
<1>6. Losers(B, w) \subseteq B
  BY DEF Losers
<1> HIDE DEF o, B, w, K
<1>7. Pending(o) = {c.src : c \in SetOf(o.conflicts)} \cup {c.src : c \in SetOf(o.removes[Main])}
  <2>1. \A p \in DOMAIN o.removes : p # Main => SetOf(o.removes[p]) = {}
    BY <1>1 DEF SetOf
  <2>2. UNION {{c.src : c \in SetOf(o.removes[p])} : p \in DOMAIN o.removes}
           = {c.src : c \in SetOf(o.removes[Main])}
    <3>1. ASSUME NEW n, n \in UNION {{c.src : c \in SetOf(o.removes[p])} : p \in DOMAIN o.removes}
          PROVE  n \in {c.src : c \in SetOf(o.removes[Main])}
      <4>1. PICK p \in DOMAIN o.removes : \E c \in SetOf(o.removes[p]) : n = c.src
        BY <3>1
      <4> QED
        BY <2>1, <4>1
    <3>2. {c.src : c \in SetOf(o.removes[Main])}
             \subseteq UNION {{c.src : c \in SetOf(o.removes[p])} : p \in DOMAIN o.removes}
      BY <1>1
    <3> QED
      BY <3>1, <3>2
  <2> QED
    BY <1>1, <2>2 DEF Pending
<1>8. \A n \in Pending(o) : n \in Present(fs, Main)
  BY <1>1, <1>3, <1>6, <1>7
<1>9. K \subseteq B /\ \A c \in K : c.src \notin Pending(o)
  BY <1>4, <1>5 DEF Kept
<1>10. \A c \in B : c.src \notin Pending(o) => c \in K
  BY <1>3, <1>4 DEF Kept
<1>11. w \in K
  <2>1. w \notin Losers(B, w)
    BY DEF Losers
  <2>2. w.src \notin Pending(o)
    <3> SUFFICES ASSUME w.src \in Pending(o) PROVE FALSE
      OBVIOUS
    <3>1. PICK c \in B : c.src = w.src /\ (c \in SetOf(o.conflicts) \/ c \in SetOf(o.removes[Main]))
      BY <1>1, <1>6, <1>7
    <3>2. c = w
      BY <1>1, <1>3, <3>1
    <3> QED
      BY <1>1, <2>1, <3>1, <3>2
  <2> QED
    BY <1>1, <1>10, <2>2
<1>12. \A c \in K : c = w \/ (c \in Losers(B, w) /\ fs[<<c.id, 0>>] # None)
  <2>1. \A c \in K : c \in B /\ c \notin SetOf(o.conflicts) /\ c \notin SetOf(o.removes[Main])
    BY <1>7, <1>9
  <2>2. \A c \in K : c # w => c \in Losers(B, w)
    BY <1>1, <2>1
  <2>3. \A c \in K : c \in Losers(B, w) => fs[<<c.id, 0>>] # None
    BY <1>1, <2>1
  <2> QED
    BY <2>2, <2>3, Zenon
<1>13. \A c \in K : isCausallyDominated(c, K) => isCausallyDominated(c, B)
  BY <1>9 DEF isCausallyDominated
<1>14. \A c \in K : c = w \/ (c \in Losers(K, w) /\ fs[<<c.id, 0>>] # None)
  <2>1. \A c \in K : c \in Losers(B, w) => c \in Losers(K, w)
    BY <1>13, Zenon DEF Losers
  <2> QED
    BY <1>12, <2>1, Zenon
<1>15. Elected(w, K)
  <2>1. ~isCausallyDominated(w, B) /\ ~isCausallyDominated(w, K)
    BY <1>1, <1>11, <1>13 DEF Elected
  <2>2. \A c \in K : c = w \/ candidateCompare(c, w) <= 0
    BY <1>1, <1>9, <1>12 DEF Elected, Losers
  <2> QED
    BY <1>11, <2>1, <2>2 DEF Elected
<1>16. \A p \in Paths \ {Main} : o.shown[p] = ShownAt(log, fs, SetOf(o.conflicts), p)
  <2> SUFFICES ASSUME NEW p \in Paths \ {Main}
               PROVE  ShownAt(log, fs, Losers(B, w), p) = ShownAt(log, fs, SetOf(o.conflicts), p)
    BY <1>1
  <2>1. fs[<<p, 0>>] = None =>
           ((\E c \in Losers(B, w) : c.id = p) <=> \E c \in SetOf(o.conflicts) : c.id = p)
    BY <1>1
  <2> QED
    BY <2>1 DEF ShownAt
<1>17. \A c \in SetOf(o.conflicts) : ~log[c.id].del /\ fs[<<c.id, 0>>] \in {None, c.id}
  <2>1. \A c \in SetOf(o.conflicts) : c \in B /\ ~c.del /\ fs[<<c.id, 0>>] = None
    BY <1>1, Zenon DEF Losers
  <2> QED
    BY <1>3, <2>1, Zenon
<1>18. \A n \in Pending(o) : n \in SetOf(Names(Main))
  BY <1>8 DEF Present
<1>19. \A m, n \in o.loser : m = n
  BY <1>1
<1>20. /\ \E v \in K : /\ Elected(v, K) /\ o.shown[Main] = ShownOf(v)
                       /\ \A c \in K : c = v \/ (c \in Losers(K, v) /\ fs[<<c.id, 0>>] # None)
  BY <1>1, <1>11, <1>14, <1>15
<1>21. OnCourse(log, o, fs)
  BY <1>16, <1>17, <1>18, <1>19, <1>20 DEF OnCourse, K
<1> QED
  BY <1>21 DEF o

(* Nothing is left to do. *)
LEMMA AppliedFacts ==
    ASSUME NEW o, Applied(o)
    PROVE  o.conflicts = <<>> /\ o.loser = {} /\ Pending(o) = {} /\ SetOf(o.conflicts) = {}
<1>1. o.conflicts = <<>> /\ o.loser = {} /\ \A p \in DOMAIN o.removes : o.removes[p] = <<>>
  BY DEF Applied
<1>2. SetOf(o.conflicts) = {} /\ \A p \in DOMAIN o.removes : SetOf(o.removes[p]) = {}
  BY <1>1 DEF SetOf
<1> QED
  BY <1>1, <1>2 DEF Pending

LEMMA CourseEnds ==
    ASSUME LogInv, RecordsInv, NEW fs, Held(fs), NEW o \in Compactions, OnCourse(log, o, fs),
           Applied(o), o.errors = FALSE
    PROVE  Applied(Plan(Settled(fs))) /\ Load(fs) = o.shown
<1> DEFINE B == CopiesOf(fs, Main)
           v == Settled(fs)[Main].winner
           q == Plan(Settled(fs))
<1>1. LogOK /\ Main \in Paths
  BY MainFacts DEF LogInv
<1>2. Pending(o) = {} /\ SetOf(o.conflicts) = {}
  BY AppliedFacts
<1>3. Kept(o, fs) = Present(fs, Main)
  BY <1>2 DEF Kept
<1>4. CopiesIn(log, fs, Kept(o, fs)) = B
  BY <1>3, CopyInFacts
<1> HIDE DEF B
<1>5. PICK w \in B : /\ Elected(w, B) /\ o.shown[Main] = ShownOf(w)
                     /\ \A c \in B : c = w \/ (c \in Losers(B, w) /\ fs[<<c.id, 0>>] # None)
  BY <1>4 DEF OnCourse
<1>6. Present(fs, Main) # {} /\ v.id = w.id /\ Losers(B, v) = Losers(B, w)
  BY <1>5, ElectedShown DEF B
<1>7. /\ v \in B /\ SetOf(Settled(fs)[Main].conflicts) = Losers(B, v)
      /\ SetOf(Settled(fs)[Main].removes) = {c \in B : c # v /\ c \notin Losers(B, v)}
      /\ Settled(fs)[Main].removes \in Seq(FileCopy)
  BY <1>6, VerdictFacts DEF B
<1>8. v = w
  BY <1>5, <1>6, <1>7 DEF Losers
<1>9. \A c \in Losers(B, w) : fs[<<c.id, 0>>] # None
  <2>1. w \notin Losers(B, w) /\ Losers(B, w) \subseteq B
    BY DEF Losers
  <2> QED
    BY <1>5, <2>1, Zenon
<1>10. ASSUME ~Applied(q) PROVE FALSE
  <2>1. /\ q.loser = {} /\ SetOf(q.conflicts) = {c \in Losers(B, v) : fs[<<c.id, 0>>] = None}
        /\ \A p \in DOMAIN q.removes : p # Main => q.removes[p] = <<>>
        /\ q.removes[Main] \in Seq(FileCopy)
        /\ SetOf(q.removes[Main]) = {c \in B : c # v /\ c \notin Losers(B, v)}
    BY <1>10, PlanOf DEF B
  <2>2. q.conflicts \in Seq(FileCopy)
    BY <1>1, PlanFacts DEF Compactions
  <2> HIDE DEF q, v
  <2>3. SetOf(q.conflicts) = {} /\ SetOf(q.removes[Main]) = {}
    BY <1>5, <1>8, <1>9, <2>1
  <2>4. q.conflicts = <<>> /\ q.removes[Main] = <<>>
    BY <2>1, <2>2, <2>3, SeqHeadTail
  <2> QED
    BY <1>10, <2>1, <2>4 DEF Applied
<1>11. Load(fs) = o.shown
  <2>1. /\ Load(fs)[Main] = ShownOf(w) /\ Load(fs) \in [Paths -> 0 .. MaxWrites]
        /\ \A p \in Paths \ {Main} : Load(fs)[p] = ShownAt(log, fs, Losers(B, w), p)
    BY <1>5, ShownByFiles DEF B
  <2>2. \A p \in Paths \ {Main} : o.shown[p] = ShownAt(log, fs, {}, p)
    BY <1>2 DEF OnCourse
  <2>3. \A p \in Paths \ {Main} : ShownAt(log, fs, Losers(B, w), p) = ShownAt(log, fs, {}, p)
    <3>1. \A p \in Paths : fs[<<p, 0>>] = None => ~ \E c \in Losers(B, w) : c.id = p
      BY <1>9
    <3>2. ASSUME NEW p \in Paths \ {Main}
          PROVE  ShownAt(log, fs, Losers(B, w), p) = ShownAt(log, fs, {}, p)
      <4>1. CASE fs[<<p, 0>>] # None
        BY <4>1 DEF ShownAt
      <4>2. CASE fs[<<p, 0>>] = None
        BY <3>1, <4>2 DEF ShownAt
      <4> QED
        BY <4>1, <4>2
    <3> QED
      BY <3>2
  <2>4. o.shown \in [Paths -> 0 .. MaxWrites]
    BY DEF Compactions, Index
  <2>5. \A p \in Paths : Load(fs)[p] = o.shown[p]
    BY <1>5, <2>1, <2>2, <2>3
  <2> QED
    BY <2>1, <2>4, <2>5
<1> QED
  BY <1>10, <1>11

(* A record that is written has a clock, on a device that has its id. *)
LEMMA CommitRecords ==
    ASSUME SyncInv, RecordsInv, NoDeviceID = {}, NEW d \in Devices, CommitPut(d) \/ CommitRemove(d)
    PROVE  RecordsInv'
<1>1. /\ op[d] \in Ops /\ OpKnown(op[d]) /\ LogOK /\ maxGen \in [Devices -> Nat]
      /\ Len(log) \in Nat /\ FreshKeys \subseteq Keys
  BY LenProperties DEF SyncInv, OpInv, CacheInv, LogInv, LogOK, FreshKeys
<1>2. \E r \in LogRecord : /\ log' = Append(log, r) /\ Clocked(r.clock)
                           /\ ~r.del => r.body = Len(log) + 1
  <2>1. CASE CommitPut(d)
    <3>1. op[d] \in Puts
      BY <1>1, <2>1, OpKinds DEF CommitPut
    <3>2. op[d].snap \in 0 .. Len(log)
      BY <1>1, <3>1 DEF OpKnown, Puts
    <3>3. PICK key \in FreshKeys : CommitWrite(d, PutRecord(d, op[d].snap, key))
      BY <2>1 DEF CommitPut
    <3> DEFINE r == PutRecord(d, op[d].snap, key)
    <3>4. r \in LogRecord /\ Clocked(r.clock)
      BY <1>1, <3>2, <3>3, RecordOfPut
    <3>5. r.body = Len(log) + 1 /\ log' = Append(log, r)
      BY <3>3 DEF PutRecord, CommitWrite
    <3> HIDE DEF r
    <3> QED
      BY <3>4, <3>5
  <2>2. CASE CommitRemove(d)
    <3>1. op[d] \in Removals
      BY <1>1, <2>2, OpKinds DEF CommitRemove
    <3>2. op[d].snap \in 1 .. Len(log) /\ op[d].path \in Paths
      BY <1>1, <3>1 DEF OpKnown, Removals
    <3>3. PICK key \in FreshKeys : CommitWrite(d, Tombstone(d, op[d].path, op[d].snap, key))
      BY <2>2 DEF CommitRemove
    <3> DEFINE r == Tombstone(d, op[d].path, op[d].snap, key)
    <3>4. r \in LogRecord /\ Clocked(r.clock)
      BY <1>1, <3>2, <3>3, RecordOfRemove
    <3>5. r.del = TRUE /\ log' = Append(log, r)
      BY <3>3 DEF Tombstone, CommitWrite
    <3> HIDE DEF r
    <3> QED
      BY <3>4, <3>5
  <2> QED
    BY <2>1, <2>2
<1>3. PICK r \in LogRecord : /\ log' = Append(log, r) /\ Clocked(r.clock)
                             /\ ~r.del => r.body = Len(log) + 1
  BY <1>2
<1>4. /\ DOMAIN log = 1 .. Len(log) /\ DOMAIN log' = 1 .. Len(log) + 1
      /\ log'[Len(log) + 1] = r /\ \A i \in 1 .. Len(log) : log'[i] = log[i]
  BY <1>1, <1>3, LenProperties, AppendProperties DEF LogOK
<1>5. \A i \in DOMAIN log' : i \in DOMAIN log \/ i = Len(log) + 1
  BY <1>1, <1>4
<1>6. \A i \in DOMAIN log' : Clocked(log'[i].clock) /\ (~log'[i].del => log'[i].body = i)
  <2> TAKE i \in DOMAIN log'
  <2>1. CASE i \in DOMAIN log
    <3>1. log'[i] = log[i]
      BY <1>4, <2>1
    <3> QED
      BY <2>1, <3>1, Zenon DEF RecordsInv
  <2>2. CASE i = Len(log) + 1
    BY <1>3, <1>4, <2>2, Zenon
  <2> QED
    BY <1>5, <2>1, <2>2
<1> QED
  BY <1>6, Zenon DEF RecordsInv

LEMMA SameRecords ==
    ASSUME RecordsInv, UNCHANGED log
    PROVE  RecordsInv'
  BY Zenon DEF RecordsInv

(* What the steps of the sync client and the removals leave alone. *)
LEMMA SyncLeaves ==
    ASSUME Sync
    PROVE  UNCHANGED <<log, op, left>>
<1>1. PICK e \in Devices, n \in Name :
         Upload(e, n) \/ Download(e, n) \/ KeepEdited(e, n) \/ \E m \in Name : ConflictCopy(e, n, m)
  BY DEF Sync
<1>2. CASE Upload(e, n) \/ Download(e, n)
  BY <1>2 DEF Upload, Download, history
<1>3. CASE KeepEdited(e, n) \/ \E m \in Name : ConflictCopy(e, n, m)
  BY <1>3 DEF KeepEdited, ConflictCopy, history
<1> QED
  BY <1>1, <1>2, <1>3

LEMMA RemovalLeaves ==
    ASSUME NEW d \in Devices, CompactRemoveLoser(d) \/ \E p \in Paths : CompactRemove(d, p)
    PROVE  /\ Undisturbed(d) /\ UNCHANGED log
           /\ \E o : op' = [op EXCEPT ![d] = o]
<1>1. CASE CompactRemoveLoser(d)
  <2>1. PICK n \in op[d].loser : RemoveFile(d, n, [op[d] EXCEPT !.loser = {}])
    BY <1>1 DEF CompactRemoveLoser
  <2> QED
    BY <1>1, <2>1 DEF CompactRemoveLoser, RemoveFile
<1>2. ASSUME NEW p \in Paths, CompactRemove(d, p)
      PROVE  Undisturbed(d) /\ UNCHANGED log /\ \E o : op' = [op EXCEPT ![d] = o]
  <2>1. RemoveFile(d, Head(op[d].removes[p]).src, [op[d] EXCEPT !.removes[p] = Tail(@)])
    BY <1>2 DEF CompactRemove
  <2>2. Undisturbed(d)
    BY <1>2 DEF CompactRemove
  <2> QED
    BY <2>1, <2>2 DEF RemoveFile
<1> QED
  BY <1>1, <1>2

LEMMA RecordsStep ==
    ASSUME SyncInv, RecordsInv, NoDeviceID = {}, [Next]_vars
    PROVE  RecordsInv'
<1>1. CASE Sync
  BY <1>1, SameRecords, SyncLeaves
<1>2. ASSUME NEW d \in Devices, Local(d) PROVE RecordsInv'
  <2>1. CASE CommitPut(d) \/ CommitRemove(d)
    BY <2>1, CommitRecords
  <2>2. CASE BeginPut(d) \/ \E p \in Paths : BeginRemove(d, p)
    BY <2>2, SameRecords DEF BeginPut, BeginRemove, BeginWrite
  <2>3. CASE AbandonWrite(d) \/ Reload(d) \/ cmdCompact(d)
    BY <2>3, SameRecords DEF AbandonWrite, Reload, cmdCompact, CompactBegin
  <2>4. CASE CompactMaterialise(d) \/ CompactEnd(d) \/ CompactCrash(d)
    BY <2>4, SameRecords DEF CompactMaterialise, CompactEnd, CompactCrash
  <2>5. CASE CompactRemoveLoser(d) \/ \E p \in Paths : CompactRemove(d, p)
    BY <2>5, SameRecords, RemovalLeaves
  <2> QED
    BY <1>2, <2>1, <2>2, <2>3, <2>4, <2>5 DEF Local
<1>3. CASE UNCHANGED vars
  BY <1>3, SameRecords DEF vars
<1> QED
  BY <1>1, <1>2, <1>3 DEF Next

(* A local step leaves the operations of the other devices alone, and is not   *)
(* taken while one of them runs alone.                                         *)
LEMMA LocalAlone ==
    ASSUME SyncInv, NEW e \in Devices, Local(e)
    PROVE  Undisturbed(e) /\ \A d \in Devices : d # e => op'[d] = op[d]
<1>1. op \in [Devices -> Ops]
  BY DEF SyncInv, OpInv
<1>2. CASE BeginPut(e) \/ \E p \in Paths : BeginRemove(e, p)
  BY <1>1, <1>2 DEF BeginPut, BeginRemove, BeginWrite
<1>3. CASE CommitPut(e) \/ CommitRemove(e)
  BY <1>1, <1>3 DEF CommitPut, CommitRemove, CommitWrite
<1>4. CASE AbandonWrite(e) \/ Reload(e) \/ cmdCompact(e)
  BY <1>1, <1>4 DEF AbandonWrite, Reload, cmdCompact, CompactBegin
<1>5. CASE CompactMaterialise(e)
  BY <1>1, <1>5 DEF CompactMaterialise
<1>6. CASE CompactEnd(e) \/ CompactCrash(e)
  BY <1>1, <1>6 DEF CompactEnd, CompactCrash
<1>7. CASE CompactRemoveLoser(e) \/ \E p \in Paths : CompactRemove(e, p)
  BY <1>1, <1>7, RemovalLeaves
<1> QED
  BY <1>2, <1>3, <1>4, <1>5, <1>6, <1>7 DEF Local

(* The steps after which a device is compacting: its own and the sync client's. *)
LEMMA CompactingSteps ==
    ASSUME SyncInv, Next, NEW d \in Devices, op'[d].kind = "compact"
    PROVE  \/ UNCHANGED <<log, op, left>>
           \/ CompactBegin(d)
           \/ CompactMaterialise(d)
           \/ CompactRemoveLoser(d)
           \/ \E p \in Paths : CompactRemove(d, p)
<1>1. op \in [Devices -> Ops] /\ NoOp.kind = "none"
  BY NoOpFacts DEF SyncInv, OpInv
<1>2. CASE Sync
  BY <1>2, SyncLeaves
<1>3. ASSUME NEW e \in Devices, Local(e), e # d PROVE FALSE
  <2>1. Undisturbed(e) /\ op'[d] = op[d]
    BY <1>3, LocalAlone
  <2> QED
    BY <1>3, <2>1 DEF Undisturbed
<1>4. CASE Local(d)
  <2>1. ~BeginPut(d) /\ ~ \E p \in Paths : BeginRemove(d, p)
    BY <1>1 DEF BeginPut, BeginRemove, BeginWrite
  <2>2. ~CommitPut(d) /\ ~CommitRemove(d)
    BY <1>1 DEF CommitPut, CommitRemove, CommitWrite
  <2>3. ~AbandonWrite(d) /\ ~Reload(d)
    BY <1>1 DEF AbandonWrite, Reload
  <2>4. ~CompactEnd(d) /\ ~CompactCrash(d)
    BY <1>1 DEF CompactEnd, CompactCrash
  <2> QED
    BY <1>4, <2>1, <2>2, <2>3, <2>4 DEF Local, cmdCompact
<1> QED
  BY <1>2, <1>3, <1>4 DEF Next

(* The same steps by what they do to the operation and the files. *)
LEMMA BeginFacts ==
    ASSUME SyncInv, HistInv, NEW d \in Devices, CompactBegin(d)
    PROVE  /\ UNCHANGED log /\ left'[d] = disk[d] /\ op'[d] = Plan(Settled(disk[d]))
           /\ ~Applied(Plan(Settled(disk[d])))
<1>1. op \in [Devices -> Ops] /\ left \in [Devices -> Files]
  BY DEF SyncInv, OpInv, HistInv
<1> QED
  BY <1>1 DEF CompactBegin

CompactedBy(o, fs, u, g) ==
    \/ /\ o.conflicts # <<>> /\ o.loser = {}
       /\ \/ /\ u = Wrote(o)
             /\ g = [fs EXCEPT ![<<Head(o.conflicts).id, 0>>] = Head(o.conflicts).id]
          \/ u = WriteFailed(o) /\ g = fs
    \/ \E n \in o.loser : \/ u = Removed(LoserGone(o)) /\ g = [fs EXCEPT ![n] = None]
                          \/ u = RemoveFailed(LoserGone(o)) /\ g = fs
    \/ /\ o.conflicts = <<>> /\ o.loser = {}
       /\ \E p \in DOMAIN o.removes :
             /\ o.removes[p] # <<>>
             /\ \/ /\ u = Removed(Shortened(o, p)) 
                   /\ g = [fs EXCEPT ![Head(o.removes[p]).src] = None]
                \/ u = RemoveFailed(Shortened(o, p)) /\ g = fs

LEMMA CompactedFacts ==
    ASSUME SyncInv, HistInv, NEW d \in Devices,
           CompactMaterialise(d) \/ CompactRemoveLoser(d) \/ \E p \in Paths : CompactRemove(d, p)
    PROVE  /\ UNCHANGED log /\ op[d] \in Compactions /\ OpKnown(op[d])
           /\ CompactedBy(op[d], left[d], op'[d], left'[d])
<1>1. op \in [Devices -> Ops] /\ left \in [Devices -> Files]
  BY DEF SyncInv, OpInv, HistInv
<1>2. CASE CompactMaterialise(d)
  <2>1. /\ op[d] \in Compactions /\ OpKnown(op[d]) /\ op[d].conflicts # <<>> /\ op[d].loser = {}
        /\ UNCHANGED log
    BY <1>2, MaterialiseCases
  <2> DEFINE i == Head(op[d].conflicts).id
  <2>2. \/ /\ left' = [left EXCEPT ![d] = [left[d] EXCEPT ![<<i, 0>>] = i]]
           /\ op' = [op EXCEPT ![d] = Wrote(op[d])]
        \/ UNCHANGED left /\ op' = [op EXCEPT ![d] = WriteFailed(op[d])]
    BY <1>2, MaterialiseCases
  <2>3. \/ left'[d] = [left[d] EXCEPT ![<<i, 0>>] = i] /\ op'[d] = Wrote(op[d])
        \/ left'[d] = left[d] /\ op'[d] = WriteFailed(op[d])
    BY <1>1, <2>2
  <2> QED
    BY <2>1, <2>3 DEF CompactedBy
<1>3. ASSUME NEW n \in Name, NEW u \in Compactions, OpKnown(u), RemoveFile(d, n, u)
      PROVE  /\ UNCHANGED log
             /\ \/ left'[d] = [left[d] EXCEPT ![n] = None] /\ op'[d] = Removed(u)
                \/ left'[d] = left[d] /\ op'[d] = RemoveFailed(u)
  <2>1. /\ UNCHANGED log
        /\ \/ /\ left' = [left EXCEPT ![d] = [left[d] EXCEPT ![n] = None]]
              /\ op' = [op EXCEPT ![d] = Removed(u)]
           \/ UNCHANGED left /\ op' = [op EXCEPT ![d] = RemoveFailed(u)]
    BY <1>3, RemoveFileStep
  <2> QED
    BY <1>1, <2>1
<1>4. CASE CompactRemoveLoser(d)
  <2>1. op[d] \in Compactions /\ OpKnown(op[d])
    BY <1>4, RemoveLoserCases
  <2>2. PICK n \in op[d].loser : n \in Name /\ RemoveFile(d, n, LoserGone(op[d]))
    BY <1>4, RemoveLoserCases
  <2>3. LoserGone(op[d]) \in Compactions /\ OpKnown(LoserGone(op[d]))
    BY <2>1, LoserGoneFacts
  <2>4. /\ UNCHANGED log
        /\ \/ left'[d] = [left[d] EXCEPT ![n] = None] /\ op'[d] = Removed(LoserGone(op[d]))
           \/ left'[d] = left[d] /\ op'[d] = RemoveFailed(LoserGone(op[d]))
    BY <1>3, <2>2, <2>3
  <2> QED
    BY <2>1, <2>2, <2>4 DEF CompactedBy
<1>5. ASSUME NEW p \in Paths, CompactRemove(d, p)
      PROVE  /\ UNCHANGED log /\ op[d] \in Compactions /\ OpKnown(op[d])
             /\ CompactedBy(op[d], left[d], op'[d], left'[d])
  <2>1. /\ op[d] \in Compactions /\ OpKnown(op[d]) /\ op[d].loser = {} /\ op[d].conflicts = <<>>
        /\ p \in DOMAIN op[d].removes /\ op[d].removes[p] # <<>>
        /\ RemoveFile(d, Head(op[d].removes[p]).src, Shortened(op[d], p))
    BY <1>5, RemoveCases
  <2>2. /\ Shortened(op[d], p) \in Compactions /\ OpKnown(Shortened(op[d], p))
        /\ Head(op[d].removes[p]).src \in Name
    BY <2>1, ShortenedFacts
  <2>3. /\ UNCHANGED log
        /\ \/ /\ left'[d] = [left[d] EXCEPT ![Head(op[d].removes[p]).src] = None]
              /\ op'[d] = Removed(Shortened(op[d], p))
           \/ left'[d] = left[d] /\ op'[d] = RemoveFailed(Shortened(op[d], p))
    BY <1>3, <2>1, <2>2
  <2> QED
    BY <2>1, <2>3 DEF CompactedBy
<1> QED
  BY <1>2, <1>4, <1>5

LEMMA CourseStep ==
    ASSUME NEW o \in Compactions, OpKnown(o), NEW fs, Held(fs), OnCourse(log, o, fs),
           NEW u, NEW g, CompactedBy(o, fs, u, g)
    PROVE  OnCourse(log, u, g)
<1>1. CASE /\ o.conflicts # <<>> /\ o.loser = {}
           /\ \/ /\ u = Wrote(o)
                 /\ g = [fs EXCEPT ![<<Head(o.conflicts).id, 0>>] = Head(o.conflicts).id]
              \/ u = WriteFailed(o) /\ g = fs
  BY <1>1, CourseWrote
<1>2. ASSUME NEW n \in o.loser,
             \/ u = Removed(LoserGone(o)) /\ g = [fs EXCEPT ![n] = None]
             \/ u = RemoveFailed(LoserGone(o)) /\ g = fs
      PROVE  OnCourse(log, u, g)
  <2> DEFINE v == LoserGone(o)
  <2>1. /\ v \in Compactions /\ OpKnown(v) /\ v.loser = {} /\ v.conflicts = o.conflicts
        /\ v.shown = o.shown /\ v.errors = o.errors
    BY LoserGoneFacts
  <2>2. o.loser = {n}
    BY DEF OnCourse
  <2>3. Pending(o) = Pending(v) \cup {n}
    BY <2>2, PendingFacts
  <2> HIDE DEF v
  <2>4. OnCourse(log, Removed(v), [fs EXCEPT ![n] = None]) /\ OnCourse(log, RemoveFailed(v), fs)
    BY <2>1, <2>3, CourseRemoved
  <2> QED
    BY <1>2, <2>4 DEF v
<1>3. ASSUME o.conflicts = <<>>, o.loser = {}, NEW p \in DOMAIN o.removes, o.removes[p] # <<>>,
             \/ /\ u = Removed(Shortened(o, p)) 
                /\ g = [fs EXCEPT ![Head(o.removes[p]).src] = None]
             \/ u = RemoveFailed(Shortened(o, p)) /\ g = fs
      PROVE  OnCourse(log, u, g)
  <2> DEFINE v == Shortened(o, p)
             n == Head(o.removes[p]).src
  <2>1. /\ v \in Compactions /\ OpKnown(v) /\ v.loser = {} /\ v.conflicts = o.conflicts
        /\ v.shown = o.shown /\ v.errors = o.errors
    BY <1>3, ShortenedFacts
  <2>2. Pending(o) = Pending(v) \cup {n}
    BY <1>3, PendingFacts
  <2> HIDE DEF v, n
  <2>3. OnCourse(log, Removed(v), [fs EXCEPT ![n] = None]) /\ OnCourse(log, RemoveFailed(v), fs)
    BY <2>1, <2>2, CourseRemoved
  <2> QED
    BY <1>3, <2>3 DEF v, n
<1> QED
  BY <1>1, <1>2, <1>3 DEF CompactedBy

LEMMA CourseInvStep ==
    ASSUME SyncInv, HistInv, RecordsInv, CourseInv, [Next]_vars
    PROVE  CourseInv'
<1> SUFFICES ASSUME NEW d \in Devices, op'[d].kind = "compact"
             PROVE  OnCourse(log', op'[d], left'[d])
  BY DEF CourseInv
<1>1. LogInv /\ Held(disk[d]) /\ Held(left[d])
  BY DEF SyncInv, FilesInv, HistInv
<1>2. CASE UNCHANGED <<log, op, left>>
  BY <1>2 DEF CourseInv
<1>3. CASE CompactBegin(d)
  <2>1. /\ log' = log /\ left'[d] = disk[d] /\ op'[d] = Plan(Settled(disk[d]))
        /\ ~Applied(Plan(Settled(disk[d])))
    BY <1>3, BeginFacts
  <2>2. OnCourse(log, Plan(Settled(disk[d])), disk[d])
    BY <1>1, <2>1, CourseBegins
  <2> QED
    BY <2>1, <2>2
<1>4. CASE CompactMaterialise(d) \/ CompactRemoveLoser(d) \/ \E p \in Paths : CompactRemove(d, p)
  <2>1. /\ log' = log /\ op[d] \in Compactions /\ OpKnown(op[d])
        /\ CompactedBy(op[d], left[d], op'[d], left'[d])
    BY <1>4, CompactedFacts
  <2>2. op[d].kind = "compact"
    BY <2>1 DEF Compactions
  <2>3. OnCourse(log, op[d], left[d])
    BY <2>2 DEF CourseInv
  <2>4. OnCourse(log, op'[d], left'[d])
    BY <1>1, <2>1, <2>3, CourseStep
  <2> QED
    BY <2>1, <2>4
<1> QED
  BY <1>2, <1>3, <1>4, CompactingSteps DEF vars

LEMMA RecordsInitially == Init => RecordsInv /\ \A d \in Devices : op[d].kind # "compact"
  BY DEF Init, RecordsInv, NoOp

LEMMA CourseInvariant ==
    ASSUME NoDeviceID = {}
    PROVE  Spec => [](SyncInv /\ RecordsInv /\ CourseInv)
<1>1. Init => RecordsInv /\ CourseInv
  BY RecordsInitially DEF CourseInv
<1>2. SyncInv /\ HistInv /\ RecordsInv /\ CourseInv /\ [Next]_vars => RecordsInv' /\ CourseInv'
  BY RecordsStep, CourseInvStep
<1> QED
  BY <1>1, <1>2, HistInvariant, PTL DEF Spec

LEMMA CourseOfDisk ==
    ASSUME SyncInv, RecordsInv, CourseInv, NEW d \in Devices,
           op[d].kind = "compact", Applied(op[d]), ~op[d].errors, disk[d] = left[d]
    PROVE  Applied(Plan(Settled(disk[d]))) /\ Load(disk[d]) = op[d].shown
<1>1. LogInv /\ Held(disk[d]) /\ op[d] \in Compactions /\ OnCourse(log, op[d], disk[d])
  BY OpKinds DEF SyncInv, FilesInv, OpInv, CourseInv
<1>2. op[d].errors = FALSE
  BY <1>1 DEF Compactions
<1> QED
  BY <1>1, <1>2, CourseEnds

(* A compaction that reports no error, and whose files only it touched, leaves *)
(* nothing for the next one to do (CompactLocked, compact.go:47-48), for any   *)
(* number of devices, of records and of copies of the path, whatever earlier   *)
(* runs that were cut short left behind, if every device has its id.           *)
THEOREM CompactionSettles ==
    ASSUME NoDeviceID = {}
    PROVE  Spec => []CompactSettles
<1>1. SyncInv /\ RecordsInv /\ CourseInv => CompactSettles
  BY CourseOfDisk DEF CompactSettles
<1> QED
  BY <1>1, CourseInvariant, PTL

(* The same compaction changed nothing a user sees (CompactLocked,             *)
(* compact.go:61-120): it shows at its end what the device showed when it      *)
(* began, at the path and at every conflict path, for any number of copies.    *)
THEOREM CompactionUnseen ==
    ASSUME NoDeviceID = {}
    PROVE  Spec => []CompactEndsUnseen
<1>1. SyncInv /\ RecordsInv /\ CourseInv => CompactEndsUnseen
  BY CourseOfDisk DEF CompactEndsUnseen
<1> QED
  BY <1>1, CourseInvariant, PTL

--------------------------------------------------------------------------------
(* VaultSync.  What a compaction shows while it runs, error or not. *)

(* The files it has still to remove, without those it has first to write. *)
Rest(o) == o.loser \cup UNION {{c.src : c \in SetOf(o.removes[p])} : p \in DOMAIN o.removes}

(* A live copy of i among the files of the path that none of them dominates. *)
StandsAt(lg, fs, m, i) ==
    /\ m \in Present(fs, Main) /\ fs[m] = i /\ ~lg[i].del
    /\ ~isCausallyDominated(CopyIn(lg, fs, m), CopiesIn(lg, fs, Present(fs, Main)))

(* i has its conflict file, or is in one, or stands at the path and stays there *)
(* until its conflict file is written.                                          *)
InView(lg, o, fs, i) ==
    \/ fs[<<i, 0>>] # None
    \/ \E p \in Paths \ {Main} : fs[<<p, 0>>] = i /\ ~lg[i].del
    \/ \E m \in Present(fs, Main) : StandsAt(lg, fs, m, i) /\ m \notin Rest(o)

ViewKept(lg, o, fs) ==
    /\ \A c \in SetOf(o.conflicts) : fs[c.src] \in {None, c.id}
    /\ \A i \in SetOf(o.shown) \ {0} : InView(lg, o, fs, i)

ViewInv == \A d \in Devices : op[d].kind = "compact" => ViewKept(log, op[d], left[d])

LEMMA ShownIds ==
    ASSUME NEW o \in Compactions
    PROVE  SetOf(o.shown) \ {0} \subseteq 1 .. MaxWrites
<1>1. o.shown \in [Paths -> 0 .. MaxWrites]
  BY DEF Compactions, Index
<1>2. \A i \in SetOf(o.shown) : i \in 0 .. MaxWrites
  BY <1>1 DEF SetOf
<1> QED
  BY <1>2, MainFacts

LEMMA RestFacts ==
    ASSUME NEW o \in Compactions, OpKnown(o)
    PROVE  /\ Rest(Removed(o)) = Rest(o) /\ Rest(RemoveFailed(o)) = Rest(o)
           /\ Rest(LoserGone(o)) \subseteq Rest(o)
           /\ o.conflicts # <<>> => /\ Rest(Wrote(o)) \subseteq Rest(o) \cup {Head(o.conflicts).src}
                                    /\ Rest(WriteFailed(o)) = Rest(o)
           /\ \A p \in DOMAIN o.removes : o.removes[p] # <<>> =>
                 Rest(Shortened(o, p)) \subseteq Rest(o) /\ Head(o.removes[p]).src \in Rest(o)
<1>1. Rest(Removed(o)) = Rest(o) /\ Rest(RemoveFailed(o)) = Rest(o)
  <2>1. /\ Removed(o).loser = o.loser /\ Removed(o).removes = o.removes
        /\ RemoveFailed(o).loser = o.loser /\ RemoveFailed(o).removes = o.removes
    BY RemovedFacts
  <2> QED
    BY <2>1 DEF Rest
<1>2. Rest(LoserGone(o)) \subseteq Rest(o)
  <2>1. LoserGone(o).loser = {} /\ LoserGone(o).removes = o.removes
    BY LoserGoneFacts
  <2> QED
    BY <2>1 DEF Rest
<1>3. ASSUME o.conflicts # <<>>
      PROVE  /\ Rest(Wrote(o)) \subseteq Rest(o) \cup {Head(o.conflicts).src}
             /\ Rest(WriteFailed(o)) = Rest(o)
  <2>1. /\ Wrote(o).loser = {Head(o.conflicts).src} /\ Wrote(o).removes = o.removes
        /\ WriteFailed(o).loser = o.loser /\ WriteFailed(o).removes = o.removes
    BY <1>3, WroteFacts
  <2> QED
    BY <2>1 DEF Rest
<1>4. ASSUME NEW p \in DOMAIN o.removes, o.removes[p] # <<>>
      PROVE  Rest(Shortened(o, p)) \subseteq Rest(o) /\ Head(o.removes[p]).src \in Rest(o)
  <2> DEFINE u == Shortened(o, p)
             c == Head(o.removes[p])
  <2>1. /\ c \in SetOf(o.removes[p]) /\ SetOf(Tail(o.removes[p])) \subseteq SetOf(o.removes[p])
        /\ u.loser = o.loser /\ DOMAIN u.removes = DOMAIN o.removes
        /\ \A q \in DOMAIN o.removes :
              u.removes[q] = IF q = p THEN Tail(o.removes[p]) ELSE o.removes[q]
    BY <1>4, ShortenedFacts
  <2> HIDE DEF u, c
  <2>2. c.src \in Rest(o)
    BY <2>1 DEF Rest
  <2>3. \A q \in DOMAIN o.removes : SetOf(u.removes[q]) \subseteq SetOf(o.removes[q])
    BY <2>1
  <2>4. ASSUME NEW n \in Rest(u) PROVE n \in Rest(o)
    <3>1. CASE n \in u.loser
      BY <2>1, <3>1 DEF Rest
    <3>2. CASE \E q \in DOMAIN u.removes : n \in {x.src : x \in SetOf(u.removes[q])}
      <4>1. PICK q \in DOMAIN o.removes : n \in {x.src : x \in SetOf(u.removes[q])}
        BY <2>1, <3>2
      <4>2. n \in {x.src : x \in SetOf(o.removes[q])}
        BY <2>3, <4>1
      <4> QED
        BY <4>2 DEF Rest
    <3> QED
      BY <3>1, <3>2 DEF Rest
  <2> QED
    BY <2>2, <2>4 DEF u, c
<1> QED
  BY <1>1, <1>2, <1>3, <1>4

(* A copy that no other dominates is not dominated among fewer. *)
LEMMA StandsLonger ==
    ASSUME NEW lg, NEW fs, NEW g, NEW m, NEW i, StandsAt(lg, fs, m, i), m \in Present(g, Main),
           Present(g, Main) \subseteq Present(fs, Main), \A n \in Present(g, Main) : g[n] = fs[n]
    PROVE  StandsAt(lg, g, m, i)
<1> DEFINE A == CopiesIn(lg, fs, Present(fs, Main))
           K == CopiesIn(lg, g, Present(g, Main))
<1>1. K = CopiesIn(lg, fs, Present(g, Main))
  BY SameCopies
<1>2. K \subseteq A
  BY <1>1 DEF CopiesIn
<1>3. CopyIn(lg, g, m) = CopyIn(lg, fs, m)
  BY DEF CopyIn
<1>4. ~isCausallyDominated(CopyIn(lg, fs, m), K)
  BY <1>2 DEF StandsAt, isCausallyDominated
<1> QED
  BY <1>3, <1>4 DEF StandsAt

(* A file goes that was to go. *)
LEMMA ViewRemoved ==
    ASSUME NEW o \in Compactions, NEW u, NEW fs, Held(fs), ViewKept(log, o, fs),
           NEW n \in SetOf(Names(Main)), n \in Rest(o), Rest(u) \subseteq Rest(o),
           u.conflicts = o.conflicts, u.shown = o.shown
    PROVE  ViewKept(log, u, [fs EXCEPT ![n] = None]) /\ ViewKept(log, u, fs)
<1> DEFINE g == [fs EXCEPT ![n] = None]
<1>1. /\ \A m \in SetOf(Names(Main)) : m # n => g[m] = fs[m]
      /\ g[n] = None /\ Present(g, Main) = Present(fs, Main) \ {n}
      /\ \A i \in 1 .. MaxWrites : g[<<i, 0>>] = fs[<<i, 0>>]
  BY RemovedFiles
<1>2. \A m \in Name : g[m] \in {None, fs[m]}
  BY DEF Held, Files
<1>3. \A c \in SetOf(o.conflicts) : c.src \in Name
  BY ConflictIds
<1> HIDE DEF g
<1>4. \A c \in SetOf(u.conflicts) : g[c.src] \in {None, c.id} /\ fs[c.src] \in {None, c.id}
  BY <1>2, <1>3 DEF ViewKept
<1>5. ASSUME NEW i \in SetOf(u.shown) \ {0} PROVE InView(log, u, g, i) /\ InView(log, u, fs, i)
  <2>1. InView(log, o, fs, i) /\ i \in 1 .. MaxWrites
    BY ShownIds DEF ViewKept
  <2>2. CASE fs[<<i, 0>>] # None
    BY <1>1, <2>1, <2>2 DEF InView
  <2>3. CASE \E p \in Paths \ {Main} : fs[<<p, 0>>] = i /\ ~log[i].del
    <3>1. PICK p \in Paths \ {Main} : fs[<<p, 0>>] = i /\ ~log[i].del
      BY <2>3
    <3>2. p \in 1 .. MaxWrites
      BY MainFacts
    <3> QED
      BY <1>1, <3>1, <3>2 DEF InView
  <2>4. CASE \E m \in Present(fs, Main) : StandsAt(log, fs, m, i) /\ m \notin Rest(o)
    <3>1. PICK m \in Present(fs, Main) : StandsAt(log, fs, m, i) /\ m \notin Rest(o)
      BY <2>4
    <3>2. m \in Present(g, Main) /\ m \notin Rest(u) /\ \A k \in Present(g, Main) : g[k] = fs[k]
      BY <1>1, <3>1 DEF Present
    <3>3. StandsAt(log, g, m, i)
      BY <1>1, <3>1, <3>2, StandsLonger
    <3> QED
      BY <3>1, <3>2, <3>3 DEF InView
  <2> QED
    BY <2>1, <2>2, <2>3, <2>4 DEF InView
<1> QED
  BY <1>4, <1>5 DEF ViewKept, g

(* A conflict file is written, or fails to be. *)
LEMMA ViewWrote ==
    ASSUME NEW o \in Compactions, OpKnown(o), o.conflicts # <<>>, NEW fs, Held(fs),
           ViewKept(log, o, fs), OnCourse(log, o, fs)
    PROVE  LET i == Head(o.conflicts).id
           IN  /\ ViewKept(log, Wrote(o), [fs EXCEPT ![<<i, 0>>] = i])
               /\ ViewKept(log, WriteFailed(o), fs)
<1> DEFINE c == Head(o.conflicts)
           j == c.id
           g == [fs EXCEPT ![<<j, 0>>] = j]
           u == Wrote(o)
           z == WriteFailed(o)
<1>1. /\ c \in SetOf(o.conflicts) /\ SetOf(o.conflicts) = SetOf(Tail(o.conflicts)) \cup {c}
      /\ u.conflicts = Tail(o.conflicts) /\ u.shown = o.shown
      /\ z.conflicts = Tail(o.conflicts) /\ z.shown = o.shown
  BY WroteFacts DEF WriteFailed, Compactions
<1>2. Rest(u) \subseteq Rest(o) \cup {c.src} /\ Rest(z) = Rest(o)
  BY RestFacts
<1>3. \A x \in SetOf(o.conflicts) : x.id \in 1 .. MaxWrites /\ x.src \in SetOf(Names(Main))
  <2>1. \A x \in SetOf(o.conflicts) : x.src \in Pending(o)
    BY DEF Pending
  <2> QED
    BY <2>1, ConflictIds DEF OnCourse
<1>4. /\ \A n \in SetOf(Names(Main)) : g[n] = fs[n]
      /\ Present(g, Main) = Present(fs, Main)
      /\ g[<<j, 0>>] = j /\ j # None
      /\ \A p \in Paths : p # j => g[<<p, 0>>] = fs[<<p, 0>>]
  BY <1>1, <1>3, MaterialisedFiles
<1> HIDE DEF c, g, u, z
<1>5. ViewKept(log, z, fs)
  BY <1>1, <1>2 DEF ViewKept, InView
<1>6. \A x \in SetOf(u.conflicts) : g[x.src] \in {None, x.id}
  BY <1>1, <1>3, <1>4 DEF ViewKept
<1>7. ASSUME NEW i \in SetOf(u.shown) \ {0} PROVE InView(log, u, g, i)
  <2>1. InView(log, o, fs, i) /\ i \in 1 .. MaxWrites /\ i \in Paths
    BY <1>1, ShownIds, PathsApart DEF ViewKept
  <2>2. CASE i = j
    BY <1>4, <2>2 DEF InView
  <2>3. CASE i # j
    <3>1. CASE fs[<<i, 0>>] # None
      BY <1>4, <2>1, <2>3, <3>1 DEF InView
    <3>2. CASE \E p \in Paths \ {Main} : fs[<<p, 0>>] = i /\ ~log[i].del
      <4>1. PICK p \in Paths \ {Main} : fs[<<p, 0>>] = i /\ ~log[i].del
        BY <3>2
      <4>2. fs[<<j, 0>>] \in {None, j}
        BY <1>1 DEF OnCourse
      <4>3. p # j
        BY <2>1, <2>3, <4>1, <4>2 DEF None
      <4> QED
        BY <1>4, <4>1, <4>3 DEF InView
    <3>3. CASE \E m \in Present(fs, Main) : StandsAt(log, fs, m, i) /\ m \notin Rest(o)
      <4>1. PICK m \in Present(fs, Main) : StandsAt(log, fs, m, i) /\ m \notin Rest(o)
        BY <3>3
      <4>2. fs[m] = i /\ fs[c.src] \in {None, j}
        BY <1>1, <4>1 DEF StandsAt, ViewKept
      <4>3. m \notin Rest(u)
        BY <1>2, <2>1, <2>3, <4>1, <4>2 DEF None
      <4>4. \A k \in Present(g, Main) : g[k] = fs[k]
        BY <1>4 DEF Present
      <4>5. StandsAt(log, g, m, i)
        BY <1>4, <4>1, <4>4, StandsLonger
      <4> QED
        BY <1>4, <4>1, <4>3, <4>5 DEF InView
    <3> QED
      BY <2>1, <3>1, <3>2, <3>3 DEF InView
  <2> QED
    BY <2>2, <2>3
<1>8. ViewKept(log, u, g)
  BY <1>6, <1>7 DEF ViewKept
<1> QED
  BY <1>5, <1>8 DEF c, g, u, z

LEMMA ViewStep ==
    ASSUME NEW o \in Compactions, OpKnown(o), NEW fs, Held(fs), ViewKept(log, o, fs),
           OnCourse(log, o, fs), NEW u, NEW g, CompactedBy(o, fs, u, g)
    PROVE  ViewKept(log, u, g)
<1>0. ASSUME NEW v \in Compactions, OpKnown(v), NEW n, n \in Rest(o), Rest(v) \subseteq Rest(o),
             v.conflicts = o.conflicts, v.shown = o.shown
      PROVE  ViewKept(log, Removed(v), [fs EXCEPT ![n] = None]) /\ ViewKept(log, RemoveFailed(v), fs)
  <2>1. n \in SetOf(Names(Main))
    BY <1>0 DEF OnCourse, Pending, Rest
  <2>2. /\ Rest(Removed(v)) \subseteq Rest(o) /\ Rest(RemoveFailed(v)) \subseteq Rest(o)
    BY <1>0, RestFacts
  <2>3. /\ Removed(v).conflicts = o.conflicts /\ Removed(v).shown = o.shown
        /\ RemoveFailed(v).conflicts = o.conflicts /\ RemoveFailed(v).shown = o.shown
    BY <1>0, RemovedFacts
  <2> QED
    BY <1>0, <2>1, <2>2, <2>3, ViewRemoved
<1>1. CASE /\ o.conflicts # <<>> /\ o.loser = {}
           /\ \/ /\ u = Wrote(o)
                 /\ g = [fs EXCEPT ![<<Head(o.conflicts).id, 0>>] = Head(o.conflicts).id]
              \/ u = WriteFailed(o) /\ g = fs
  BY <1>1, ViewWrote
<1>2. ASSUME NEW n \in o.loser,
             \/ u = Removed(LoserGone(o)) /\ g = [fs EXCEPT ![n] = None]
             \/ u = RemoveFailed(LoserGone(o)) /\ g = fs
      PROVE  ViewKept(log, u, g)
  <2>1. /\ LoserGone(o) \in Compactions /\ OpKnown(LoserGone(o))
        /\ LoserGone(o).conflicts = o.conflicts /\ LoserGone(o).shown = o.shown
    BY LoserGoneFacts
  <2>2. Rest(LoserGone(o)) \subseteq Rest(o) /\ n \in Rest(o)
    BY RestFacts DEF Rest
  <2> QED
    BY <1>0, <1>2, <2>1, <2>2
<1>3. ASSUME NEW p \in DOMAIN o.removes, o.removes[p] # <<>>,
             \/ /\ u = Removed(Shortened(o, p))
                /\ g = [fs EXCEPT ![Head(o.removes[p]).src] = None]
             \/ u = RemoveFailed(Shortened(o, p)) /\ g = fs
      PROVE  ViewKept(log, u, g)
  <2>1. /\ Shortened(o, p) \in Compactions /\ OpKnown(Shortened(o, p))
        /\ Shortened(o, p).conflicts = o.conflicts /\ Shortened(o, p).shown = o.shown
    BY <1>3, ShortenedFacts
  <2>2. Rest(Shortened(o, p)) \subseteq Rest(o) /\ Head(o.removes[p]).src \in Rest(o)
    BY <1>3, RestFacts
  <2> QED
    BY <1>0, <1>3, <2>1, <2>2
<1> QED
  BY <1>1, <1>2, <1>3 DEF CompactedBy

(* At the start every record that is shown is in view. *)
LEMMA ViewBegins ==
    ASSUME LogInv, RecordsInv, NEW fs, Held(fs), ~Applied(Plan(Settled(fs)))
    PROVE  ViewKept(log, Plan(Settled(fs)), fs)
<1> DEFINE o == Plan(Settled(fs))
           B == CopiesOf(fs, Main)
           w == Settled(fs)[Main].winner
<1>1. /\ o.loser = {} /\ Elected(w, B) /\ w \in B
      /\ SetOf(o.conflicts) = {c \in Losers(B, w) : fs[<<c.id, 0>>] = None}
      /\ \A p \in DOMAIN o.removes : p # Main => o.removes[p] = <<>>
      /\ Main \in DOMAIN o.removes
      /\ SetOf(o.removes[Main]) = {c \in B : c # w /\ c \notin Losers(B, w)}
      /\ o.shown[Main] = ShownOf(w)
      /\ \A p \in Paths \ {Main} : o.shown[p] = ShownAt(log, fs, Losers(B, w), p)
  BY PlanOf
<1>2. LogOK /\ Main \in Paths
  BY MainFacts DEF LogInv
<1>3. \A c \in B : /\ c.src \in Present(fs, Main) /\ c.id = fs[c.src] /\ c.del = log[c.id].del
                   /\ c = CopyIn(log, fs, c.src)
  BY <1>2, CopiesOfFacts, CopyInFacts
<1>4. B = CopiesIn(log, fs, Present(fs, Main)) /\ Losers(B, w) \subseteq B
  BY CopyInFacts DEF Losers
<1>5. o.shown \in [Paths -> 0 .. MaxWrites]
  <2>1. o.shown = Load(fs)
    BY DEF Plan, Load
  <2> QED
    BY <1>2, <2>1, LoadFacts DEF Index
<1> HIDE DEF o, B, w
<1>6. \A c \in SetOf(o.conflicts) : fs[c.src] \in {None, c.id}
  BY <1>1, <1>3, <1>4
<1>7. \A n \in Rest(o) : \E c \in SetOf(o.removes[Main]) : n = c.src
  <2>1. \A p \in DOMAIN o.removes : p # Main => SetOf(o.removes[p]) = {}
    BY <1>1 DEF SetOf
  <2> QED
    BY <1>1, <2>1 DEF Rest
<1>8. ASSUME NEW c \in B, c = w \/ c \in Losers(B, w), ~c.del
      PROVE  InView(log, o, fs, c.id)
  <2>1. ~isCausallyDominated(c, B)
    BY <1>1, <1>8 DEF Elected, Losers
  <2>2. StandsAt(log, fs, c.src, c.id)
    BY <1>3, <1>4, <1>8, <2>1 DEF StandsAt
  <2>3. c.src \notin Rest(o)
    <3> SUFFICES ASSUME c.src \in Rest(o) PROVE FALSE
      OBVIOUS
    <3>1. PICK x \in SetOf(o.removes[Main]) : c.src = x.src
      BY <1>7
    <3>2. x \in B /\ x # w /\ x \notin Losers(B, w)
      BY <1>1, <3>1
    <3>3. x = c
      BY <1>3, <3>1, <3>2
    <3> QED
      BY <1>8, <3>2, <3>3
  <2> QED
    BY <1>3, <2>2, <2>3 DEF InView
<1>9. ASSUME NEW i \in SetOf(o.shown) \ {0} PROVE InView(log, o, fs, i)
  <2>1. PICK p \in Paths : i = o.shown[p]
    BY <1>5 DEF SetOf
  <2>2. CASE p = Main
    <3>1. ~w.del /\ i = w.id
      BY <1>1, <2>1, <2>2 DEF ShownOf
    <3> QED
      BY <1>1, <1>8, <3>1
  <2>3. CASE p # Main /\ fs[<<p, 0>>] # None
    <3>1. i = fs[<<p, 0>>] /\ ~log[i].del
      BY <1>1, <2>1, <2>3 DEF ShownAt
    <3> QED
      BY <2>3, <3>1 DEF InView
  <2>4. CASE p # Main /\ fs[<<p, 0>>] = None
    <3>1. PICK c \in Losers(B, w) : i = p /\ c.id = p
      BY <1>1, <2>1, <2>4 DEF ShownAt
    <3>2. c \in B /\ ~c.del
      BY <3>1, Zenon DEF Losers
    <3> QED
      BY <1>8, <3>1, <3>2
  <2> QED
    BY <2>2, <2>3, <2>4
<1>10. ViewKept(log, o, fs)
  BY <1>6, <1>9 DEF ViewKept
<1> QED
  BY <1>10 DEF o

(* What is in view is shown, unless its conflict path decides. *)
LEMMA ViewShown ==
    ASSUME LogInv, RecordsInv, NEW fs, Held(fs), NEW o, NEW i \in 1 .. MaxWrites, InView(log, o, fs, i)
    PROVE  i \in Shown(fs) \/ fs[<<i, 0>>] # None
<1> DEFINE B == CopiesOf(fs, Main)
           v == Settled(fs)[Main].winner
<1>1. LogOK /\ Main \in Paths /\ i \in Paths \ {Main}
  BY MainFacts, PathsApart DEF LogInv
<1>2. Load(fs) \in Index
  BY <1>1, LoadFacts
<1>3. (\E p \in Paths : Load(fs)[p] = i) => i \in Shown(fs)
  BY <1>2 DEF Shown, SetOf, Index
<1>4. ASSUME NEW p \in Paths \ {Main}, fs[<<p, 0>>] = i, ~log[i].del PROVE i \in Shown(fs)
  <2>1. fs[<<p, 0>>] # None
    BY <1>4 DEF None
  <2>2. Present(fs, p) # {} /\ Settled(fs)[p].winner = Candidate(fs, <<p, 0>>)
    BY <1>1, <2>1, OneFilePath
  <2>3. Candidate(fs, <<p, 0>>).del = log[i].del /\ Candidate(fs, <<p, 0>>).id = i
    BY <1>4 DEF Candidate
  <2>4. Load(fs)[p] = i
    BY <1>1, <1>4, <2>2, <2>3, LoadFacts
  <2> QED
    BY <1>3, <2>4
<1>5. ASSUME NEW m \in Present(fs, Main), StandsAt(log, fs, m, i), fs[<<i, 0>>] = None
      PROVE  i \in Shown(fs)
  <2> DEFINE x == CopyIn(log, fs, m)
  <2>1. x \in B /\ ~isCausallyDominated(x, B) /\ x.id = i /\ ~x.del
    <3>1. B = CopiesIn(log, fs, Present(fs, Main))
      BY CopyInFacts
    <3>2. x \in CopiesIn(log, fs, Present(fs, Main))
      BY DEF CopiesIn
    <3>3. fs[m] = i /\ ~log[i].del /\ ~isCausallyDominated(x, CopiesIn(log, fs, Present(fs, Main)))
      BY <1>5 DEF StandsAt
    <3>4. x.id = fs[m] /\ x.del = log[fs[m]].del
      BY DEF CopyIn
    <3> HIDE DEF x, B
    <3> QED
      BY <3>1, <3>2, <3>3, <3>4
  <2>2. Elected(v, B) /\ v \in B
    BY <1>5, VerdictFacts
  <2>3. /\ Load(fs)[Main] = ShownOf(v)
        /\ Load(fs)[i] = ShownAt(log, fs, Losers(B, v), i)
    BY <1>1, <2>2, ShownByFiles
  <2> HIDE DEF x, v
  <2>4. CASE x.id = v.id
    <3>1. v.del = x.del
      BY <2>1, <2>2, <2>4, SameRecordOf
    <3> QED
      BY <1>1, <1>3, <2>1, <2>3, <2>4, <3>1 DEF ShownOf
  <2>5. CASE x.id # v.id
    <3>1. x \in Losers(B, v)
      BY <2>1, <2>5 DEF Losers
    <3>2. Load(fs)[i] = i
      BY <1>5, <2>1, <2>3, <3>1 DEF ShownAt
    <3> QED
      BY <1>1, <1>3, <3>2
  <2> QED
    BY <2>4, <2>5
<1> QED
  BY <1>4, <1>5 DEF InView

LEMMA ViewInvStep ==
    ASSUME SyncInv, HistInv, RecordsInv, CourseInv, ViewInv, [Next]_vars
    PROVE  ViewInv'
<1> SUFFICES ASSUME NEW d \in Devices, op'[d].kind = "compact"
             PROVE  ViewKept(log', op'[d], left'[d])
  BY DEF ViewInv
<1>1. LogInv /\ Held(disk[d]) /\ Held(left[d])
  BY DEF SyncInv, FilesInv, HistInv
<1>2. CASE UNCHANGED <<log, op, left>>
  BY <1>2 DEF ViewInv
<1>3. CASE CompactBegin(d)
  <2>1. /\ log' = log /\ left'[d] = disk[d] /\ op'[d] = Plan(Settled(disk[d]))
        /\ ~Applied(Plan(Settled(disk[d])))
    BY <1>3, BeginFacts
  <2>2. ViewKept(log, Plan(Settled(disk[d])), disk[d])
    BY <1>1, <2>1, ViewBegins
  <2> QED
    BY <2>1, <2>2
<1>4. CASE CompactMaterialise(d) \/ CompactRemoveLoser(d) \/ \E p \in Paths : CompactRemove(d, p)
  <2>1. /\ log' = log /\ op[d] \in Compactions /\ OpKnown(op[d])
        /\ CompactedBy(op[d], left[d], op'[d], left'[d])
    BY <1>4, CompactedFacts
  <2>2. op[d].kind = "compact"
    BY <2>1 DEF Compactions
  <2>3. ViewKept(log, op[d], left[d]) /\ OnCourse(log, op[d], left[d])
    BY <2>2 DEF ViewInv, CourseInv
  <2>4. ViewKept(log, op'[d], left'[d])
    BY <1>1, <2>1, <2>3, ViewStep
  <2> QED
    BY <2>1, <2>4
<1> QED
  BY <1>2, <1>3, <1>4, CompactingSteps DEF vars

(* "On a write failure the loser is kept, so no edit is lost" (CompactLocked,  *)
(* compact.go:82-83), at every step of a compaction whose files only it        *)
(* touched, whatever fails and wherever it is cut short: what was shown at its *)
(* start is shown, or its conflict path has a manifest of its own.  For any    *)
(* number of devices, records and copies, if every device has its id.          *)
THEOREM CompactionHidesNothing ==
    ASSUME NoDeviceID = {}
    PROVE  Spec => []CompactHidesNothing
<1>1. Init => ViewInv
  BY RecordsInitially DEF ViewInv
<1>2. SyncInv /\ HistInv /\ RecordsInv /\ CourseInv /\ ViewInv /\ [Next]_vars => ViewInv'
  BY ViewInvStep
<1>3. SyncInv /\ RecordsInv /\ ViewInv => CompactHidesNothing
  <2> SUFFICES ASSUME SyncInv, RecordsInv, ViewInv, NEW d \in Devices, op[d].kind = "compact",
                      disk[d] = left[d], NEW i \in SetOf(op[d].shown) \ {0}
               PROVE  i \in Shown(disk[d]) \/ disk[d][<<i, 0>>] # None
    BY DEF CompactHidesNothing
  <2>1. LogInv /\ Held(disk[d]) /\ op[d] \in Compactions
    BY OpKinds DEF SyncInv, FilesInv, OpInv
  <2>2. InView(log, op[d], disk[d], i) /\ i \in 1 .. MaxWrites
    BY <2>1, ShownIds DEF ViewInv, ViewKept
  <2> QED
    BY <2>1, <2>2, ViewShown
<1> QED
  BY <1>1, <1>2, <1>3, HistInvariant, CourseInvariant, PTL DEF Spec

================================================================================
