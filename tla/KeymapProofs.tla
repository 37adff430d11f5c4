---------------------------- MODULE KeymapProofs ----------------------------
(***************************************************************************)
(* Proofs about Keymap, for every keymap and every sequence of keystrokes: *)
(* what dispatch_key and flush_dispatch answer accounts for each keystroke *)
(* held, and for the one typed.                                            *)
(*                                                                         *)
(* The code writes both as recursions over the keystrokes held.  What they *)
(* compute is proved by induction on the keystrokes left: every non-empty  *)
(* set of naturals has a least element.  They cut what was held and typed  *)
(* into pieces (Cut), whose concatenation is what was cut.                 *)
(***************************************************************************)
EXTENDS Keymap, SequenceTheorems, WellFoundedInduction, TLAPS

\* A set of natural numbers that has an element has a least one.
LEMMA Least ==
  ASSUME NEW S \in SUBSET Nat, S # {}
  PROVE  \E m \in S : \A n \in S : m <= n
<1> DEFINE R == {p \in Nat \X Nat : p[1] < p[2]}
<1>1. IsWellFoundedOn(R, Nat)
  BY Zenon, NatLessThanWellFounded DEF OpToRel
<1>2. PICK m \in S : \A n \in S : <<n, m>> \notin R
  <2> HIDE DEF R
  <2> QED
    BY Zenon, <1>1, WFMin
<1>3. ASSUME NEW n \in S PROVE m <= n
  <2>1. m \in Nat /\ n \in Nat
    BY Zenon
  <2>2. n < m => <<n, m>> \in R
    BY Zenon, <2>1
  <2> HIDE DEF R
  <2> QED
    BY <1>2, <2>1, <2>2
<1> QED
  BY Zenon, <1>3

\* The greatest of a set of natural numbers that are all below a bound.
LEMMA MaxIs ==
  ASSUME NEW S \in SUBSET Nat, S # {}, NEW bound \in Nat, \A n \in S : n <= bound
  PROVE  Max(S) \in S /\ \A n \in S : n <= Max(S)
<1> DEFINE T == {bound - n : n \in S}
<1>1. T \in SUBSET Nat
  <2>1. \A n \in S : n \in Nat /\ n <= bound
    BY Zenon
  <2>2. \A n \in S : bound - n \in Nat
    BY <2>1
  <2> QED
    BY Zenon, <2>2
<1>2. T # {}
  BY Zenon
<1>3. PICK t \in T : \A u \in T : t <= u
  BY Zenon, <1>1, <1>2, Least
<1>4. PICK m \in S : t = bound - m
  BY Zenon, <1>3
<1>5. ASSUME NEW n \in S PROVE m >= n
  <2>1. bound - m <= bound - n
    BY Zenon, <1>3, <1>4
  <2>2. m \in Nat /\ n \in Nat
    BY Zenon
  <2> QED
    BY <2>1, <2>2
<1>6. \E x \in S : \A y \in S : x >= y
  BY Zenon, <1>5
<1>7. Max(S) \in S /\ \A y \in S : Max(S) >= y
  BY Zenon, <1>6 DEF Max
<1> QED
  BY Zenon, <1>7

\* What is replayed as one begins the input, and several keystrokes only if bound.
LEMMA PrefixIs ==
  ASSUME NEW km, NEW at, NEW K, NEW had \in Seq(K), had # <<>>
  PROVE  /\ replay_prefix(km, had, at) \in 1..Len(had)
         /\ replay_prefix(km, had, at) > 1 =>
              bindings_for_input(km, Names(SubSeq(had, 1, replay_prefix(km, had, at))), at) # {}
<1> DEFINE S == {1} \cup {n \in DOMAIN had :
                            bindings_for_input(km, Names(SubSeq(had, 1, n)), at) # {}}
           p == replay_prefix(km, had, at)
<1>1. Len(had) \in Nat /\ DOMAIN had = 1..Len(had) /\ Len(had) >= 1
  BY EmptySeq, LenProperties
<1>2. S \in SUBSET Nat /\ S # {} /\ \A n \in S : n \in Nat /\ 1 <= n /\ n <= Len(had)
  BY <1>1
<1>3. p = Max(S)
  BY Zenon DEF replay_prefix
<1>4. p \in S
  <2> HIDE DEF S, p
  <2> QED
    BY Zenon, <1>1, <1>2, <1>3, MaxIs
<1>5. p \in 1..Len(had)
  <2> HIDE DEF S, p
  <2> QED
    BY <1>1, <1>2, <1>4
<1>6. p > 1 => bindings_for_input(km, Names(SubSeq(had, 1, p)), at) # {}
  <2> HIDE DEF p
  <2> QED
    BY <1>4, <1>5
<1> QED
  BY Zenon, <1>5, <1>6

\* Where the keystrokes left begin, once a prefix of those from the i-th on is replayed.
After(km, had, at, i) == i + replay_prefix(km, SubSeq(had, i, Len(had)), at)

\* What is replayed of the keystrokes from the i-th on is some of them, from the i-th on, and
\* several only as a binding's.
LEMMA AfterIs ==
  ASSUME NEW km, NEW at, NEW K, NEW had \in Seq(K), NEW i \in 1..Len(had)
  PROVE  /\ After(km, had, at, i) \in (i + 1)..(Len(had) + 1)
         /\ SubSeq(had, i, After(km, had, at, i) - 1) \in Seq(K)
         /\ Len(SubSeq(had, i, After(km, had, at, i) - 1)) = After(km, had, at, i) - i
         /\ After(km, had, at, i) - i > 1 =>
              bindings_for_input(km, Names(SubSeq(had, i, After(km, had, at, i) - 1)), at) # {}
<1> DEFINE left == SubSeq(had, i, Len(had))
           p == replay_prefix(km, left, at)
<1>1. Len(had) \in Nat /\ DOMAIN had = 1..Len(had) /\ \A j \in 1..Len(had) : had[j] \in K
  BY Zenon, LenProperties, ElementOfSeq
<1>2. \A j \in i..Len(had) : had[j] \in K
  BY <1>1
<1>3. left \in Seq(K) /\ Len(left) = Len(had) - i + 1
  BY <1>1, <1>2, SubSeqProperties
<1>4. left # <<>>
  <2>1. Len(left) # 0
    BY <1>1, <1>3
  <2> HIDE DEF left
  <2> QED
    BY <2>1
<1>5. /\ p \in 1..Len(left)
      /\ p > 1 => bindings_for_input(km, Names(SubSeq(left, 1, p)), at) # {}
  <2> HIDE DEF left
  <2> QED
    BY Zenon, <1>3, <1>4, PrefixIs
<1>6. After(km, had, at, i) = i + p
  BY Zenon DEF After
<1>7. p \in Nat /\ p >= 1 /\ i + p <= Len(had) + 1
  <2> HIDE DEF p, left
  <2> QED
    BY <1>1, <1>3, <1>5
<1>8. SubSeq(left, 1, p) = SubSeq(had, i, i + p - 1)
  <2>1. /\ i \in 1..Len(had) /\ Len(had) \in 1..Len(had)
        /\ 1 \in 1..(Len(had) - i + 1) /\ p \in 1..(Len(had) - i + 1)
    <3> HIDE DEF p, left
    <3> QED
      BY <1>1, <1>7
  <2>2. SubSeq(SubSeq(had, i, Len(had)), 1, p) = SubSeq(had, i + 1 - 1, i + p - 1)
    <3> HIDE DEF p
    <3> QED
      BY <2>1, SubSeqOfSubSeq
  <2>3. i + 1 - 1 = i
    OBVIOUS
  <2> QED
    BY Zenon, <2>2, <2>3
<1>9. \A j \in i..(i + p - 1) : had[j] \in K
  <2> HIDE DEF p, left
  <2> QED
    BY <1>1, <1>7
<1>10. /\ SubSeq(had, i, i + p - 1) \in Seq(K)
       /\ Len(SubSeq(had, i, i + p - 1)) = p
  <2> HIDE DEF p, left
  <2>1. i \in Int /\ i + p - 1 \in Int /\ i <= i + p - 1 /\ (i + p - 1) - i + 1 = p
    BY <1>7
  <2> QED
    BY Zenon, <1>9, <2>1, SubSeqProperties
<1> HIDE DEF p, left
<1>11. i + p - i = p
  BY <1>7
<1>12. p > 1 => bindings_for_input(km, Names(SubSeq(had, i, i + p - 1)), at) # {}
  BY Zenon, <1>5, <1>8
<1> QED
  BY <1>1, <1>6, <1>7, <1>10, <1>11, <1>12

\* What dispatch_key does from the i-th keystroke on, `rest` being what it does from later ones.
Dispatched(km, had, k, at, rest, i) ==
  LET all == Append(had, k)
      left == SubSeq(all, i, Len(all))
      bound == bindings_for_input(km, Names(left), at) # {}
  IN  IF pending_for_input(km, Names(left), at)
      THEN [replays |-> <<>>, pending |-> left, keys |-> <<>>, bound |-> bound]
      ELSE IF bound \/ i = Len(all)
      THEN [replays |-> <<>>, pending |-> <<>>, keys |-> left, bound |-> bound]
      ELSE [rest[After(km, had, at, i)] EXCEPT
              !.replays = <<SubSeq(had, i, After(km, had, at, i) - 1)>> \o @]

\* It looks at later ones only.
LEMMA DispatchedLooksAhead ==
  ASSUME NEW km, NEW at, NEW K, NEW had \in Seq(K), NEW k \in K, NEW i \in 1..(Len(had) + 1),
         NEW f, NEW g, \A j \in (i + 1)..(Len(had) + 1) : f[j] = g[j]
  PROVE  Dispatched(km, had, k, at, f, i) = Dispatched(km, had, k, at, g, i)
<1>1. Len(Append(had, k)) = Len(had) + 1 /\ Len(had) \in Nat
  BY Zenon, AppendProperties, LenProperties
<1>2. CASE i = Len(had) + 1
  BY Zenon, <1>1, <1>2 DEF Dispatched
<1>3. CASE i # Len(had) + 1
  <2>1. i \in 1..Len(had)
    BY <1>1, <1>3
  <2>2. f[After(km, had, at, i)] = g[After(km, had, at, i)]
    BY Zenon, <2>1, AfterIs
  <2> QED
    BY Zenon, <2>2 DEF Dispatched
<1> QED
  BY Zenon, <1>2, <1>3

\* The recursion of dispatch_key is well founded: a function from[i] that does what
\* the definition says.
LEMMA DispatchUnfolds ==
  ASSUME NEW km, NEW at, NEW K, NEW had \in Seq(K), NEW k \in K
  PROVE  \E from : /\ dispatch_key(km, had, k, at) = from[1]
                   /\ from = [i \in 1..(Len(had) + 1) |-> Dispatched(km, had, k, at, from, i)]
<1> DEFINE N == Len(had) + 1
           D(f, i) == Dispatched(km, had, k, at, f, i)
           Good(n) == \E f : \A i \in n..N : f[i] = D(f, i)
           B == {n \in 1..N : Good(n)}
<1>1. N \in Nat /\ N >= 1 /\ Len(had) \in Nat /\ DOMAIN Append(had, k) = 1..N
  BY AppendProperties, LenProperties
<1>2. N \in B
  <2> DEFINE f == [i \in 1..N |-> D(<<>>, i)]
  <2>1. \A j \in (N + 1)..(Len(had) + 1) : f[j] = (<<>>)[j]
    BY <1>1
  <2>2. D(f, N) = D(<<>>, N)
    <3> HIDE DEF f
    <3> QED
      BY <1>1, <2>1, DispatchedLooksAhead
  <2>3. f[N] = D(f, N)
    BY <1>1, <2>2
  <2>4. \A i \in N..N : f[i] = D(f, i)
    <3> HIDE DEF f, D
    <3> QED
      BY <1>1, <2>3
  <2> QED
    BY <1>1, <2>4
<1>3. PICK n \in B : \A i \in B : n <= i
  <2>1. B \in SUBSET Nat /\ B # {}
    BY <1>1, <1>2
  <2> HIDE DEF B
  <2> QED
    BY Zenon, <2>1, Least
<1>4. n \in 1..N
  BY Zenon
<1>5. PICK f : \A i \in n..N : f[i] = D(f, i)
  BY Zenon
<1>6. n = 1
  <2> SUFFICES ASSUME n # 1 PROVE FALSE
    BY Zenon
  <2> DEFINE g == [i \in 1..N |-> IF i = n - 1 THEN D(f, i) ELSE f[i]]
  <2>1. n - 1 \in 1..N /\ n - 1 < n
    BY <1>1, <1>4
  <2>2. \A i \in n..N : g[i] = f[i]
    <3> HIDE DEF D
    <3> QED
      BY <1>1, <1>4
  <2>3. ASSUME NEW i \in (n - 1)..N PROVE g[i] = D(g, i)
    <3>1. i \in 1..N /\ \A j \in (i + 1)..N : g[j] = f[j]
      <4> HIDE DEF g, D
      <4> QED
        BY <1>1, <1>4, <2>1, <2>2
    <3>2. D(g, i) = D(f, i)
      <4> HIDE DEF g
      <4> QED
        BY <1>1, <3>1, DispatchedLooksAhead
    <3>3. CASE i = n - 1
      <4> HIDE DEF D
      <4> QED
        BY Zenon, <2>1, <3>2, <3>3
    <3>4. CASE i # n - 1
      <4>1. i \in n..N
        BY <1>1, <1>4, <3>4
      <4> HIDE DEF g, D
      <4> QED
        BY Zenon, <1>5, <2>2, <3>2, <4>1
    <3> QED
      BY Zenon, <3>3, <3>4
  <2>4. Good(n - 1)
    <3> HIDE DEF g, D
    <3> QED
      BY Zenon, <2>3
  <2>5. n - 1 \in B
    BY Zenon, <2>1, <2>4
  <2> HIDE DEF B
  <2> QED
    BY <1>3, <1>4, <2>1, <2>5
<1> DEFINE from == CHOOSE h : h = [i \in 1..N |-> D(h, i)]
<1>7. \E h : h = [i \in 1..N |-> D(h, i)]
  <2> DEFINE h == [i \in 1..N |-> f[i]]
  <2>1. ASSUME NEW i \in 1..N PROVE h[i] = D(h, i)
    <3>1. \A j \in (i + 1)..N : h[j] = f[j]
      BY <1>1
    <3>2. D(h, i) = D(f, i)
      <4> HIDE DEF h
      <4> QED
        BY <1>1, <3>1, DispatchedLooksAhead
    <3>3. f[i] = D(f, i)
      <4> HIDE DEF D
      <4> QED
        BY Zenon, <1>4, <1>5, <1>6
    <3>4. h[i] = f[i]
      BY Zenon
    <3> HIDE DEF h, D
    <3> QED
      BY Zenon, <3>2, <3>3, <3>4
  <2>2. h = [i \in 1..N |-> D(h, i)]
    <3>1. h = [i \in 1..N |-> h[i]]
      BY Zenon
    <3> HIDE DEF h, D
    <3> QED
      BY Zenon, <2>1, <3>1
  <2> HIDE DEF h, D
  <2> QED
    BY Zenon, <2>2
<1>8. from = [i \in 1..N |-> D(from, i)]
  <2> HIDE DEF D, N
  <2> QED
    BY Zenon, <1>7
<1>9. dispatch_key(km, had, k, at) = from[1]
  <2>1. dispatch_key(km, had, k, at) = (CHOOSE h : h = [i \in DOMAIN Append(had, k) |-> D(h, i)])[1]
    BY Zenon DEF dispatch_key, Dispatched, After
  <2> HIDE DEF D, N
  <2> QED
    BY Zenon, <1>1, <2>1
<1> HIDE DEF from
<1> QED
  BY Zenon, <1>8, <1>9

\* `pieces` are `all` from the a-th keystroke on, up to the z-th, cut up.
Cut(all, a, z, pieces) ==
  \E b \in [1..(Len(pieces) + 1) -> 1..(Len(all) + 1)] :
    /\ b[1] = a /\ b[Len(pieces) + 1] = z
    /\ \A j \in 1..Len(pieces) : b[j] <= b[j + 1] /\ pieces[j] = SubSeq(all, b[j], b[j + 1] - 1)

\* Put together, the pieces are what was cut up.
LEMMA FlattenedCut ==
  ASSUME NEW K, NEW all \in Seq(K), NEW z \in 1..(Len(all) + 1),
         NEW pieces \in Seq(Seq(K)), Cut(all, 1, z, pieces)
  PROVE  Flatten(pieces) = SubSeq(all, 1, z - 1)
<1> DEFINE n == Len(pieces)
<1>1. PICK b \in [1..(n + 1) -> 1..(Len(all) + 1)] :
        /\ b[1] = 1 /\ b[n + 1] = z
        /\ \A j \in 1..n : b[j] <= b[j + 1] /\ pieces[j] = SubSeq(all, b[j], b[j + 1] - 1)
  BY Zenon DEF Cut
<1>2. n \in Nat /\ Len(all) \in Nat
  BY Zenon, LenProperties
<1>3. CASE n = 0
  <2>1. z = 1 /\ z - 1 = 0
    BY <1>1, <1>3
  <2>2. pieces = <<>>
    BY Zenon, <1>3, EmptySeq
  <2>3. SubSeq(all, 1, 0) = <<>>
    BY SubSeqEmpty
  <2> QED
    BY Zenon, <1>3, <2>1, <2>2, <2>3 DEF Flatten
<1>4. CASE n # 0
  <2> DEFINE F(f, i) == IF i = 1 THEN pieces[i] ELSE f[i - 1] \o pieces[i]
             whole == [i \in 1..n |-> SubSeq(all, 1, b[i + 1] - 1)]
             flat == CHOOSE f : f = [i \in 1..n |-> F(f, i)]
  <2>1. Flatten(pieces) = flat[n]
    BY <1>4 DEF Flatten
  <2>2. ASSUME NEW i \in 1..n PROVE whole[i] = F(whole, i)
    <3>1. /\ b[i] \in 1..(Len(all) + 1) /\ b[i + 1] \in 1..(Len(all) + 1) /\ b[i] <= b[i + 1]
          /\ pieces[i] = SubSeq(all, b[i], b[i + 1] - 1)
      <4>1. i \in 1..(n + 1) /\ i + 1 \in 1..(n + 1)
        BY <1>2
      <4> HIDE DEF n, F, whole, flat
      <4> QED
        BY Zenon, <1>1, <4>1
    <3>2. CASE i = 1
      BY Zenon, <1>1, <3>1, <3>2
    <3>3. CASE i # 1
      <4>1. i - 1 \in 1..n /\ (i - 1) + 1 = i
        BY <1>2, <3>3
      <4>2. whole[i - 1] = SubSeq(all, 1, b[i] - 1)
        BY Zenon, <4>1
      <4>3. /\ b[i] - 1 \in (1 - 1)..Len(all) /\ b[i + 1] - 1 \in (b[i] - 1)..Len(all)
            /\ 1 \in 1..(Len(all) + 1) /\ (b[i] - 1) + 1 = b[i]
        <5> DEFINE lo == b[i]
                   hi == b[i + 1]
        <5>1. lo \in 1..(Len(all) + 1) /\ hi \in 1..(Len(all) + 1) /\ lo <= hi
          BY Zenon, <3>1
        <5> HIDE DEF n, F, whole, flat, lo, hi
        <5>2. /\ lo - 1 \in (1 - 1)..Len(all) /\ hi - 1 \in (lo - 1)..Len(all)
              /\ 1 \in 1..(Len(all) + 1) /\ (lo - 1) + 1 = lo
          BY <1>2, <5>1
        <5> QED
          BY Zenon, <5>2 DEF lo, hi
      <4>4. SubSeq(all, 1, b[i] - 1) \o SubSeq(all, (b[i] - 1) + 1, b[i + 1] - 1)
              = SubSeq(all, 1, b[i + 1] - 1)
        BY Zenon, <4>3, ConcatAdjacentSubSeq
      <4> QED
        BY Zenon, <3>1, <3>3, <4>2, <4>3, <4>4
    <3> QED
      BY Zenon, <3>2, <3>3
  <2>3. whole = [i \in 1..n |-> F(whole, i)]
    <3>1. whole = [i \in 1..n |-> whole[i]]
      BY Zenon
    <3> HIDE DEF whole, F
    <3> QED
      BY Zenon, <2>2, <3>1
  <2>4. flat = [i \in 1..n |-> F(flat, i)]
    <3> HIDE DEF whole, F
    <3> QED
      BY Zenon, <2>3
  <2>5. ASSUME NEW i \in 1..n PROVE flat[i] = whole[i]
    <3> DEFINE wrong == {j \in 1..n : flat[j] # whole[j]}
    <3> SUFFICES ASSUME flat[i] # whole[i] PROVE FALSE
      BY Zenon
    <3> HIDE DEF flat, whole
    <3>1. wrong \in SUBSET Nat /\ wrong # {}
      <4>1. 1..n \subseteq Nat
        BY <1>2
      <4> HIDE DEF n, F
      <4> QED
        BY Zenon, <4>1
    <3>2. PICK j \in wrong : \A l \in wrong : j <= l
      <4> HIDE DEF wrong
      <4> QED
        BY Zenon, <3>1, Least
    <3>3. j \in 1..n /\ flat[j] # whole[j]
      BY Zenon, <3>2
    <3>4. flat[j] = F(flat, j) /\ whole[j] = F(whole, j)
      <4> HIDE DEF F, wrong
      <4> QED
        BY Zenon, <2>2, <2>4, <3>3
    <3>5. CASE j = 1
      BY Zenon, <3>3, <3>4, <3>5
    <3>6. CASE j # 1
      <4>1. j - 1 \in 1..n /\ ~(j <= j - 1)
        BY <1>2, <3>3, <3>6
      <4>2. flat[j - 1] = whole[j - 1]
        BY Zenon, <3>2, <4>1
      <4> QED
        BY Zenon, <3>3, <3>4, <3>6, <4>2
    <3> QED
      BY Zenon, <3>5, <3>6
  <2>6. flat[n] = whole[n] /\ whole[n] = SubSeq(all, 1, z - 1)
    <3>1. n \in 1..n
      BY <1>2, <1>4
    <3>2. whole[n] = SubSeq(all, 1, z - 1)
      BY Zenon, <1>1, <3>1
    <3> HIDE DEF flat, whole
    <3> QED
      BY Zenon, <2>5, <3>1, <3>2
  <2> QED
    BY Zenon, <2>1, <2>6
<1> QED
  BY Zenon, <1>3, <1>4

\* A piece before the others is one more.
LEMMA CutBefore ==
  ASSUME NEW K, NEW all \in Seq(K), NEW pieces \in Seq(Seq(K)), NEW z,
         NEW a \in 1..(Len(all) + 1), NEW c \in a..(Len(all) + 1), Cut(all, c, z, pieces)
  PROVE  Cut(all, a, z, <<SubSeq(all, a, c - 1)>> \o pieces)
<1> DEFINE n == Len(pieces)
           piece == SubSeq(all, a, c - 1)
           new == <<piece>> \o pieces
<1>1. PICK b \in [1..(n + 1) -> 1..(Len(all) + 1)] :
        /\ b[1] = c /\ b[n + 1] = z
        /\ \A j \in 1..n : b[j] <= b[j + 1] /\ pieces[j] = SubSeq(all, b[j], b[j + 1] - 1)
  BY Zenon DEF Cut
<1>2. n \in Nat /\ Len(all) \in Nat /\ \A j \in 1..Len(all) : all[j] \in K
  BY Zenon, LenProperties, ElementOfSeq
<1>3. piece \in Seq(K)
  <2>1. \A j \in a..(c - 1) : all[j] \in K
    BY <1>2
  <2> QED
    BY <1>2, <2>1, SubSeqProperties
<1>4. /\ Len(new) = n + 1 /\ new[1] = piece
      /\ \A j \in 2..(n + 1) : new[j] = pieces[j - 1]
  <2> HIDE DEF piece
  <2>1. <<piece>> \in Seq(Seq(K)) /\ Len(<<piece>>) = 1 /\ <<piece>>[1] = piece
    BY <1>3
  <2>2. /\ Len(new) = 1 + n
        /\ \A j \in 1..(1 + n) : new[j] = IF j <= 1 THEN <<piece>>[j] ELSE pieces[j - 1]
    BY <2>1, ConcatProperties
  <2> HIDE DEF new
  <2> QED
    BY <1>2, <2>1, <2>2
<1> DEFINE d == [j \in 1..(n + 2) |-> IF j = 1 THEN a ELSE b[j - 1]]
<1>5. d \in [1..(n + 2) -> 1..(Len(all) + 1)]
  BY <1>1, <1>2
<1>6. d[1] = a /\ d[n + 2] = z
  BY <1>1, <1>2
<1>7. ASSUME NEW j \in 1..(n + 1)
      PROVE  d[j] <= d[j + 1] /\ new[j] = SubSeq(all, d[j], d[j + 1] - 1)
  <2> HIDE DEF new
  <2>1. CASE j = 1
    <3>1. d[1] = a /\ d[2] = c
      BY <1>1, <1>2
    <3>2. d[j] = a /\ d[j + 1] = c /\ new[j] = piece
      <4> HIDE DEF d, piece
      <4> QED
        BY <1>4, <2>1, <3>1
    <3>3. a <= c
      BY <1>1, <1>2
    <3> HIDE DEF d
    <3> QED
      BY Zenon, <3>2, <3>3
  <2>2. CASE j # 1
    <3>1. j \in 2..(n + 1) /\ j - 1 \in 1..n /\ (j - 1) + 1 = j /\ (j + 1) - 1 = j
          /\ j \in 1..(n + 2) /\ j + 1 \in 1..(n + 2) /\ j + 1 # 1
      BY <1>2, <2>2
    <3>2. d[j] = b[j - 1] /\ d[j + 1] = b[j]
      BY Zenon, <2>2, <3>1
    <3> HIDE DEF d
    <3> QED
      BY Zenon, <1>1, <1>4, <3>1, <3>2
  <2> QED
    BY Zenon, <2>1, <2>2
<1>8. Len(new) + 1 = n + 2
  <2> HIDE DEF new
  <2> QED
    BY <1>2, <1>4
<1> HIDE DEF d, new
<1>9. Cut(all, a, z, new)
  BY Zenon, <1>4, <1>5, <1>6, <1>7, <1>8 DEF Cut
<1> QED
  BY Zenon, <1>9 DEF new

\* Nothing is cut up into no pieces.
LEMMA CutNone ==
  ASSUME NEW K, NEW all \in Seq(K), NEW a \in 1..(Len(all) + 1)
  PROVE  Cut(all, a, a, <<>>)
<1> DEFINE b == [j \in 1..(Len(<<>>) + 1) |-> a]
<1>1. Len(<<>>) = 0
  BY Zenon
<1>2. /\ b \in [1..(Len(<<>>) + 1) -> 1..(Len(all) + 1)]
      /\ b[1] = a /\ b[Len(<<>>) + 1] = a
      /\ \A j \in 1..Len(<<>>) : FALSE
  BY <1>1
<1> HIDE DEF b
<1> QED
  BY Zenon, <1>2 DEF Cut

\* What dispatch_key answers for the keystrokes from the i-th on: it cuts some of those held off
\* them, several as one only where they are bound, and holds the rest, which begin a binding, or
\* gives the rest to the handlers, several only where they are bound.
Answer(km, had, k, at, i, r) ==
  LET all == Append(had, k) IN
  /\ \E K \in {Range(all)} :
       r \in [replays : Seq(Seq(Range(had))), pending : Seq(K), keys : Seq(K), bound : BOOLEAN]
  /\ \A j \in DOMAIN r.replays :
       Len(r.replays[j]) > 1 => bindings_for_input(km, Names(r.replays[j]), at) # {}
  /\ \E n \in i..Len(all) :
       /\ Cut(all, i, n, r.replays)
       /\ \/ /\ r.pending = SubSeq(all, n, Len(all)) /\ r.keys = <<>>
             /\ pending_for_input(km, Names(r.pending), at)
          \/ /\ r.pending = <<>> /\ r.keys = SubSeq(all, n, Len(all))
             /\ Len(r.keys) > 1 => bindings_for_input(km, Names(r.keys), at) # {}

\* One step of the recursion answers right if the steps after it do.
LEMMA DispatchedAnswers ==
  ASSUME NEW km, NEW at, NEW K, NEW had \in Seq(K), NEW k \in K, NEW i \in 1..(Len(had) + 1),
         NEW f, \A j \in (i + 1)..(Len(had) + 1) : Answer(km, had, k, at, j, f[j])
  PROVE  Answer(km, had, k, at, i, Dispatched(km, had, k, at, f, i))
<1> DEFINE all == Append(had, k)
           N == Len(had) + 1
           H == Range(had)
           A == Range(all)
           left == SubSeq(all, i, Len(all))
           bound == bindings_for_input(km, Names(left), at) # {}
           r == Dispatched(km, had, k, at, f, i)
<1>1. /\ Len(had) \in Nat /\ all \in Seq(K) /\ Len(all) = N
      /\ i \in Int /\ N \in Int /\ i <= N
  BY AppendProperties, LenProperties
<1>2. had \in Seq(H) /\ all \in Seq(A)
  BY Zenon, <1>1, SeqOfRange
<1>3. left \in Seq(A) /\ Len(left) = N - i + 1
  <2>1. \A j \in i..N : all[j] \in A
    <3> HIDE DEF A, all
    <3>1. \A j \in 1..N : all[j] \in A
      BY Zenon, <1>1, <1>2, ElementOfSeq
    <3> QED
      BY <1>1, <3>1
  <2>2. left = SubSeq(all, i, N)
    BY Zenon, <1>1
  <2> HIDE DEF A, all, N, H, r, bound, left
  <2> QED
    BY Zenon, <1>1, <2>1, <2>2, SubSeqProperties
<1>4. Cut(all, i, i, <<>>)
  <2>1. i \in 1..(Len(all) + 1)
    BY <1>1
  <2> HIDE DEF all, A
  <2> QED
    BY Zenon, <1>2, <2>1, CutNone
<1>5. <<>> \in Seq(Seq(H)) /\ <<>> \in Seq(A) /\ DOMAIN <<>> = {} /\ i \in i..Len(all)
  <2> HIDE DEF all, H, A
  <2> QED
    BY <1>1, EmptySeq
<1>6. CASE pending_for_input(km, Names(left), at)
  <2>1. r = [replays |-> <<>>, pending |-> left, keys |-> <<>>, bound |-> bound]
    BY Zenon, <1>6 DEF Dispatched
  <2> HIDE DEF r, bound
  <2>2. bound \in BOOLEAN
    BY Zenon DEF bound
  <2>3. /\ r.replays = <<>> /\ r.pending = left /\ r.keys = <<>>
        /\ r \in [replays : Seq(Seq(H)), pending : Seq(A), keys : Seq(A), bound : BOOLEAN]
    <3> HIDE DEF H, A, left
    <3> QED
      BY Zenon, <1>3, <1>5, <2>1, <2>2
  <2>4. /\ \A j \in DOMAIN r.replays : FALSE
        /\ Cut(all, i, i, r.replays) /\ i \in i..Len(all)
        /\ r.pending = SubSeq(all, i, Len(all)) /\ r.keys = <<>>
        /\ pending_for_input(km, Names(r.pending), at)
    BY Zenon, <1>4, <1>5, <1>6, <2>3
  <2> QED
    BY Zenon, <2>3, <2>4 DEF Answer, r
<1>7. CASE ~pending_for_input(km, Names(left), at) /\ (bound \/ i = Len(all))
  <2>1. r = [replays |-> <<>>, pending |-> <<>>, keys |-> left, bound |-> bound]
    BY Zenon, <1>7 DEF Dispatched
  <2>2. Len(left) > 1 => bound
    <3> HIDE DEF left, bound, all
    <3> QED
      BY <1>1, <1>3, <1>7
  <2> HIDE DEF r
  <2>3. bound \in BOOLEAN
    BY Zenon
  <2>4. /\ r.replays = <<>> /\ r.pending = <<>> /\ r.keys = left
        /\ r \in [replays : Seq(Seq(H)), pending : Seq(A), keys : Seq(A), bound : BOOLEAN]
    <3> HIDE DEF H, A, left, bound
    <3> QED
      BY Zenon, <1>3, <1>5, <2>1, <2>3
  <2>5. /\ \A j \in DOMAIN r.replays : FALSE
        /\ Cut(all, i, i, r.replays) /\ i \in i..Len(all)
        /\ r.pending = <<>> /\ r.keys = SubSeq(all, i, Len(all))
        /\ Len(r.keys) > 1 => bindings_for_input(km, Names(r.keys), at) # {}
    BY Zenon, <1>4, <1>5, <2>2, <2>4
  <2> QED
    BY Zenon, <2>4, <2>5 DEF Answer, r
<1>8. CASE ~pending_for_input(km, Names(left), at) /\ ~bound /\ i # Len(all)
  <2> DEFINE next == After(km, had, at, i)
             piece == SubSeq(had, i, next - 1)
             rest == f[next]
  <2>1. i \in 1..Len(had)
    BY <1>1, <1>8
  <2>2. /\ next \in (i + 1)..N /\ piece \in Seq(H) /\ Len(piece) = next - i
        /\ next - i > 1 => bindings_for_input(km, Names(piece), at) # {}
    <3> HIDE DEF H
    <3> QED
      BY Zenon, <1>2, <2>1, AfterIs
  <2>3. Answer(km, had, k, at, next, rest)
    <3> HIDE DEF next
    <3> QED
      BY Zenon, <2>2
  <2>4. r = [rest EXCEPT !.replays = <<piece>> \o @]
    BY Zenon, <1>8 DEF Dispatched
  <2> HIDE DEF r, rest, next, piece
  <2>5. /\ rest \in [replays : Seq(Seq(H)), pending : Seq(A), keys : Seq(A), bound : BOOLEAN]
        /\ \A j \in DOMAIN rest.replays :
             Len(rest.replays[j]) > 1 => bindings_for_input(km, Names(rest.replays[j]), at) # {}
    BY Zenon, <2>3 DEF Answer
  <2>6. PICK n \in next..Len(all) :
          /\ Cut(all, next, n, rest.replays)
          /\ \/ /\ rest.pending = SubSeq(all, n, Len(all)) /\ rest.keys = <<>>
                /\ pending_for_input(km, Names(rest.pending), at)
             \/ /\ rest.pending = <<>> /\ rest.keys = SubSeq(all, n, Len(all))
                /\ Len(rest.keys) > 1 => bindings_for_input(km, Names(rest.keys), at) # {}
    BY Zenon, <2>3 DEF Answer
  <2> HIDE DEF left, bound
  <2>7. /\ <<piece>> \in Seq(Seq(H)) /\ Len(<<piece>>) = 1 /\ <<piece>>[1] = piece
    <3> HIDE DEF H
    <3> QED
      BY <2>2
  <2>8. /\ <<piece>> \o rest.replays \in Seq(Seq(H))
        /\ Len(<<piece>> \o rest.replays) = 1 + Len(rest.replays)
        /\ \A j \in 1..(1 + Len(rest.replays)) : (<<piece>> \o rest.replays)[j]
             = IF j <= 1 THEN <<piece>>[j] ELSE rest.replays[j - 1]
    <3> HIDE DEF H, A
    <3>1. rest.replays \in Seq(Seq(H))
      BY Zenon, <2>5
    <3> QED
      BY <2>7, <3>1, ConcatProperties
  <2>9. /\ r \in [replays : Seq(Seq(H)), pending : Seq(A), keys : Seq(A), bound : BOOLEAN]
        /\ r.replays = <<piece>> \o rest.replays
        /\ r.pending = rest.pending /\ r.keys = rest.keys
    <3> HIDE DEF H, A
    <3> QED
      BY Zenon, <2>4, <2>5, <2>8
  <2>10. ASSUME NEW j \in DOMAIN r.replays, Len(r.replays[j]) > 1
         PROVE  bindings_for_input(km, Names(r.replays[j]), at) # {}
    <3>1. /\ Len(rest.replays) \in Nat /\ DOMAIN rest.replays = 1..Len(rest.replays)
          /\ DOMAIN r.replays = 1..(1 + Len(rest.replays))
      <4> HIDE DEF H, A
      <4>1. rest.replays \in Seq(Seq(H)) /\ r.replays \in Seq(Seq(H))
        BY Zenon, <2>5, <2>9
      <4> QED
        BY Zenon, <2>8, <2>9, <4>1, LenProperties
    <3>2. CASE j = 1
      <4>1. r.replays[j] = piece
        BY <2>7, <2>8, <2>9, <3>1, <3>2
      <4> QED
        BY Zenon, <2>2, <2>10, <4>1
    <3>3. CASE j # 1
      <4>1. j - 1 \in DOMAIN rest.replays /\ ~(j <= 1) /\ j \in 1..(1 + Len(rest.replays))
        BY <3>1, <3>3
      <4>2. r.replays[j] = rest.replays[j - 1]
        BY Zenon, <2>8, <2>9, <4>1
      <4> QED
        BY Zenon, <2>5, <2>10, <4>1, <4>2
    <3> QED
      BY Zenon, <3>2, <3>3
  <2>11. piece = SubSeq(all, i, next - 1)
    <3>1. i \in 1..Len(had) /\ next - 1 \in 1..Len(had)
      BY <1>1, <2>1, <2>2
    <3>2. all = had \o <<k>> /\ <<k>> \in Seq(K)
      BY AppendIsConcat
    <3>3. SubSeq(had \o <<k>>, i, next - 1) = SubSeq(had, i, next - 1)
      BY Zenon, <3>1, <3>2, SubSeqOfConcat1
    <3> QED
      BY Zenon, <3>2, <3>3 DEF piece
  <2>12. Cut(all, i, n, r.replays)
    <3> HIDE DEF all, H, A
    <3>1. i \in 1..(Len(all) + 1) /\ next \in i..(Len(all) + 1)
      BY <1>1, <2>1, <2>2
    <3>2. rest.replays \in Seq(Seq(A))
      <4>1. H \subseteq A
        <5>1. \A j \in 1..Len(had) : all[j] = had[j]
          BY AppendProperties DEF all
        <5>2. DOMAIN had = 1..Len(had) /\ DOMAIN all = 1..N
          BY Zenon, <1>1, LenProperties
        <5>3. \A j \in 1..Len(had) : j \in 1..N
          BY <1>1
        <5> QED
          BY Zenon, <5>1, <5>2, <5>3 DEF H, A, Range
      <4>2. Seq(H) \subseteq Seq(A)
        BY Zenon, <4>1, SeqMonotonic
      <4>3. rest.replays \in Seq(Seq(H))
        BY Zenon, <2>5
      <4> QED
        BY Zenon, <4>2, <4>3, SeqMonotonic
    <3>3. Cut(all, i, n, <<SubSeq(all, i, next - 1)>> \o rest.replays)
      BY Zenon, <1>2, <2>6, <3>1, <3>2, CutBefore
    <3> QED
      BY Zenon, <2>9, <2>11, <3>3
  <2>13. n \in i..Len(all)
    <3> HIDE DEF all
    <3> QED
      BY <1>1, <2>1, <2>2, <2>6
  <2>14. \/ /\ r.pending = SubSeq(all, n, Len(all)) /\ r.keys = <<>>
            /\ pending_for_input(km, Names(r.pending), at)
         \/ /\ r.pending = <<>> /\ r.keys = SubSeq(all, n, Len(all))
            /\ Len(r.keys) > 1 => bindings_for_input(km, Names(r.keys), at) # {}
    <3> HIDE DEF all, A, H
    <3> QED
      BY Zenon, <2>6, <2>9
  <2> QED
    BY Zenon, <2>9, <2>10, <2>12, <2>13, <2>14 DEF Answer, r
<1> QED
  BY Zenon, <1>6, <1>7, <1>8

\* dispatch_key answers right, for every keymap and whatever is held.
LEMMA DispatchAnswers ==
  ASSUME NEW km, NEW at, NEW K, NEW had \in Seq(K), NEW k \in K
  PROVE  Answer(km, had, k, at, 1, dispatch_key(km, had, k, at))
<1> DEFINE N == Len(had) + 1
           Right(n, f) == \A j \in n..N : Answer(km, had, k, at, j, f[j])
<1>1. PICK f : /\ dispatch_key(km, had, k, at) = f[1]
               /\ f = [i \in 1..N |-> Dispatched(km, had, k, at, f, i)]
  BY DispatchUnfolds
<1>2. N \in Nat /\ N >= 1
  BY LenProperties
<1>3. ASSUME NEW i \in 1..N, \A j \in (i + 1)..N : Answer(km, had, k, at, j, f[j])
      PROVE  Answer(km, had, k, at, i, f[i])
  <2>1. Answer(km, had, k, at, i, Dispatched(km, had, k, at, f, i))
    BY Zenon, <1>3, DispatchedAnswers
  <2>2. f[i] = Dispatched(km, had, k, at, f, i)
    BY Zenon, <1>1
  <2> QED
    BY Zenon, <2>1, <2>2
<1> DEFINE B == {n \in 1..N : Right(n, f)}
<1>4. N \in B
  <2>1. \A j \in (N + 1)..N : FALSE
    BY <1>2
  <2>2. Answer(km, had, k, at, N, f[N])
    <3> HIDE DEF N
    <3> QED
      BY <1>2, <1>3, <2>1
  <2>3. \A j \in N..N : j = N
    BY <1>2
  <2> HIDE DEF N
  <2> QED
    BY <1>2, <2>2, <2>3
<1>5. PICK n \in B : \A i \in B : n <= i
  <2>1. B \in SUBSET Nat /\ B # {}
    BY <1>2, <1>4
  <2> HIDE DEF B
  <2> QED
    BY Zenon, <2>1, Least
<1>6. n \in 1..N /\ Right(n, f)
  BY Zenon, <1>5
<1>7. n = 1
  <2> SUFFICES ASSUME n # 1 PROVE FALSE
    BY Zenon
  <2> HIDE DEF N
  <2>1. n - 1 \in 1..N /\ (n - 1) + 1 = n /\ ~(n <= n - 1)
    BY <1>2, <1>6
  <2>2. Answer(km, had, k, at, n - 1, f[n - 1])
    BY Zenon, <1>3, <1>6, <2>1
  <2>3. \A j \in (n - 1)..N : j = n - 1 \/ j \in n..N
    BY <1>2, <1>6
  <2>4. n - 1 \in B
    BY Zenon, <1>6, <2>1, <2>2, <2>3
  <2> HIDE DEF B
  <2> QED
    BY Zenon, <1>5, <2>1, <2>4
<1>8. Answer(km, had, k, at, 1, f[1])
  <2> HIDE DEF N
  <2> QED
    BY Zenon, <1>2, <1>6, <1>7
<1> QED
  BY Zenon, <1>1, <1>8

\* What flush_dispatch does from the i-th keystroke on.
Flushed(km, had, at, rest, i) ==
  IF i > Len(had) THEN <<>>
  ELSE <<SubSeq(had, i, After(km, had, at, i) - 1)>> \o rest[After(km, had, at, i)]

\* All that is held, cut up, several as one only where they are bound.
Flushes(km, had, at, i, r) ==
  /\ r \in Seq(Seq(Range(had)))
  /\ \A j \in DOMAIN r : Len(r[j]) > 1 => bindings_for_input(km, Names(r[j]), at) # {}
  /\ Cut(had, i, Len(had) + 1, r)

\* One step of the recursion flushes right if those after it do.
LEMMA FlushedFlushes ==
  ASSUME NEW km, NEW at, NEW K, NEW had \in Seq(K), NEW i \in 1..(Len(had) + 1),
         NEW f, \A j \in (i + 1)..(Len(had) + 1) : Flushes(km, had, at, j, f[j])
  PROVE  Flushes(km, had, at, i, Flushed(km, had, at, f, i))
<1> DEFINE H == Range(had)
           r == Flushed(km, had, at, f, i)
<1>1. Len(had) \in Nat /\ had \in Seq(H)
  BY Zenon, LenProperties, SeqOfRange
<1>2. CASE i > Len(had)
  <2>1. i = Len(had) + 1 /\ r = <<>>
    BY <1>1, <1>2 DEF Flushed
  <2>2. Cut(had, i, i, <<>>)
    BY Zenon, <1>1, CutNone
  <2>3. <<>> \in Seq(Seq(H)) /\ DOMAIN <<>> = {}
    <3> HIDE DEF H
    <3> QED
      BY EmptySeq
  <2> QED
    BY Zenon, <2>1, <2>2, <2>3 DEF Flushes
<1>3. CASE ~(i > Len(had))
  <2> DEFINE next == After(km, had, at, i)
             piece == SubSeq(had, i, next - 1)
             rest == f[next]
  <2>1. i \in 1..Len(had)
    BY <1>1, <1>3
  <2>2. /\ next \in (i + 1)..(Len(had) + 1) /\ piece \in Seq(H) /\ Len(piece) = next - i
        /\ next - i > 1 => bindings_for_input(km, Names(piece), at) # {}
    <3> HIDE DEF H
    <3> QED
      BY Zenon, <1>1, <2>1, AfterIs
  <2>3. Flushes(km, had, at, next, rest)
    <3> HIDE DEF next
    <3> QED
      BY Zenon, <2>2
  <2>4. r = <<piece>> \o rest
    BY Zenon, <1>3 DEF Flushed
  <2> HIDE DEF r, rest, next
  <2>5. /\ rest \in Seq(Seq(H)) /\ Cut(had, next, Len(had) + 1, rest)
        /\ \A j \in DOMAIN rest :
             Len(rest[j]) > 1 => bindings_for_input(km, Names(rest[j]), at) # {}
    BY Zenon, <2>3 DEF Flushes
  <2>6. Cut(had, i, Len(had) + 1, r)
    <3>1. i \in 1..(Len(had) + 1) /\ next \in i..(Len(had) + 1)
      BY <1>1, <2>1, <2>2
    <3> HIDE DEF H
    <3> QED
      BY Zenon, <1>1, <2>4, <2>5, <3>1, CutBefore
  <2> HIDE DEF piece
  <2>7. <<piece>> \in Seq(Seq(H)) /\ Len(<<piece>>) = 1 /\ <<piece>>[1] = piece
    <3> HIDE DEF H
    <3> QED
      BY <2>2
  <2>8. /\ r \in Seq(Seq(H)) /\ Len(r) = 1 + Len(rest)
        /\ \A j \in 1..(1 + Len(rest)) : r[j] = IF j <= 1 THEN <<piece>>[j] ELSE rest[j - 1]
    <3> HIDE DEF H
    <3> QED
      BY <2>4, <2>5, <2>7, ConcatProperties
  <2>9. ASSUME NEW j \in DOMAIN r, Len(r[j]) > 1
        PROVE  bindings_for_input(km, Names(r[j]), at) # {}
    <3>1. /\ Len(rest) \in Nat /\ DOMAIN rest = 1..Len(rest) /\ DOMAIN r = 1..(1 + Len(rest))
      <4> HIDE DEF H
      <4> QED
        BY Zenon, <2>5, <2>8, LenProperties
    <3>2. CASE j = 1
      <4>1. r[j] = piece
        BY <2>7, <2>8, <3>1, <3>2
      <4> QED
        BY Zenon, <2>2, <2>9, <4>1
    <3>3. CASE j # 1
      <4>1. j - 1 \in DOMAIN rest /\ ~(j <= 1) /\ j \in 1..(1 + Len(rest))
        BY <3>1, <3>3
      <4>2. r[j] = rest[j - 1]
        BY Zenon, <2>8, <4>1
      <4> QED
        BY Zenon, <2>5, <2>9, <4>1, <4>2
    <3> QED
      BY Zenon, <3>2, <3>3
  <2> QED
    BY Zenon, <2>6, <2>8, <2>9 DEF Flushes, r
<1> QED
  BY Zenon, <1>2, <1>3

\* flush_dispatch flushes all that is held, in order, for every keymap and whatever is held.
LEMMA FlushDispatches ==
  ASSUME NEW km, NEW at, NEW K, NEW had \in Seq(K)
  PROVE  Flushes(km, had, at, 1, flush_dispatch(km, had, at))
<1> DEFINE N == Len(had) + 1
           D(f, i) == Flushed(km, had, at, f, i)
           Right(n, f) == \A j \in n..N : f[j] = D(f, j) /\ Flushes(km, had, at, j, f[j])
           B == {n \in 1..N : \E f : Right(n, f)}
           from == CHOOSE f : f = [i \in 1..N |-> D(f, i)]
<1>1. N \in Nat /\ N >= 1 /\ Len(had) \in Nat
  BY LenProperties
<1>2. ASSUME NEW i \in 1..N, NEW f, NEW g, \A j \in (i + 1)..N : f[j] = g[j]
      PROVE  D(f, i) = D(g, i)
  <2>1. CASE i > Len(had)
    BY Zenon, <2>1 DEF Flushed
  <2>2. CASE ~(i > Len(had))
    <3>1. i \in 1..Len(had)
      BY <1>1, <2>2
    <3>2. f[After(km, had, at, i)] = g[After(km, had, at, i)]
      BY Zenon, <1>2, <3>1, AfterIs
    <3> QED
      BY Zenon, <3>2 DEF Flushed
  <2> QED
    BY Zenon, <2>1, <2>2
<1>3. ASSUME NEW i \in 1..N, NEW f, \A j \in (i + 1)..N : Flushes(km, had, at, j, f[j])
      PROVE  Flushes(km, had, at, i, D(f, i))
  BY Zenon, <1>3, FlushedFlushes
<1> HIDE DEF D
<1>4. N \in B
  <2> DEFINE f == [i \in 1..N |-> D(<<>>, i)]
  <2>1. \A j \in (N + 1)..N : FALSE
    BY <1>1
  <2>2. D(f, N) = D(<<>>, N) /\ Flushes(km, had, at, N, D(f, N))
    <3> HIDE DEF f, N
    <3>1. N \in 1..N
      BY <1>1
    <3>2. D(f, N) = D(<<>>, N)
      BY Zenon, <1>2, <2>1, <3>1
    <3>3. Flushes(km, had, at, N, D(f, N))
      BY Zenon, <1>3, <2>1, <3>1
    <3> QED
      BY Zenon, <3>2, <3>3
  <2>3. f[N] = D(f, N)
    BY <1>1, <2>2
  <2>4. \A j \in N..N : j = N
    BY <1>1
  <2> HIDE DEF f, N
  <2>5. Right(N, f)
    BY Zenon, <2>2, <2>3, <2>4
  <2> QED
    BY <1>1, <2>5
<1>5. PICK n \in B : \A i \in B : n <= i
  <2>1. B \in SUBSET Nat /\ B # {}
    BY <1>1, <1>4
  <2> HIDE DEF B
  <2> QED
    BY Zenon, <2>1, Least
<1>6. n \in 1..N
  BY Zenon, <1>5
<1>7. PICK f : Right(n, f)
  BY Zenon, <1>5
<1>8. n = 1
  <2> SUFFICES ASSUME n # 1 PROVE FALSE
    BY Zenon
  <2> DEFINE g == [i \in 1..N |-> IF i = n - 1 THEN D(f, i) ELSE f[i]]
  <2>1. n - 1 \in 1..N /\ (n - 1) + 1 = n /\ ~(n <= n - 1)
    BY <1>1, <1>6
  <2>2. /\ \A i \in n..N : i \in 1..N /\ i # n - 1
        /\ \A i \in (n - 1)..N : i \in 1..N /\ (i = n - 1 \/ i \in n..N)
        /\ \A i \in (n - 1)..N : \A j \in (i + 1)..N : j \in n..N
    BY <1>1, <1>6
  <2>3. (\A i \in n..N : g[i] = f[i]) /\ g[n - 1] = D(f, n - 1)
    <3> HIDE DEF N
    <3> QED
      BY Zenon, <2>1, <2>2
  <2> HIDE DEF g
  <2>4. ASSUME NEW i \in (n - 1)..N
        PROVE  g[i] = D(g, i) /\ Flushes(km, had, at, i, g[i])
    <3> HIDE DEF N
    <3>1. i \in 1..N /\ \A j \in (i + 1)..N : g[j] = f[j]
      BY Zenon, <2>2, <2>3
    <3>2. D(g, i) = D(f, i)
      BY Zenon, <1>2, <3>1
    <3>3. CASE i = n - 1
      <4>1. \A j \in (i + 1)..N : Flushes(km, had, at, j, f[j])
        BY Zenon, <1>7, <2>1, <3>3
      <4>2. Flushes(km, had, at, i, D(f, i))
        BY Zenon, <1>3, <3>1, <4>1
      <4> QED
        BY Zenon, <2>3, <3>2, <3>3, <4>2
    <3>4. CASE i \in n..N
      BY Zenon, <1>7, <2>3, <3>2, <3>4
    <3> QED
      BY Zenon, <2>2, <3>3, <3>4
  <2>5. Right(n - 1, g)
    <3> HIDE DEF N
    <3> QED
      BY Zenon, <2>4
  <2>6. n - 1 \in B
    <3> HIDE DEF N
    <3> QED
      BY Zenon, <2>1, <2>5
  <2> HIDE DEF B
  <2> QED
    BY Zenon, <1>5, <2>1, <2>6
<1>9. \E h : h = [i \in 1..N |-> D(h, i)]
  <2> DEFINE h == [i \in 1..N |-> f[i]]
  <2>1. ASSUME NEW i \in 1..N PROVE h[i] = D(h, i)
    <3>1. \A j \in (i + 1)..N : h[j] = f[j]
      BY <1>1
    <3>2. h[i] = f[i]
      BY Zenon
    <3> HIDE DEF h, N
    <3> QED
      BY Zenon, <1>2, <1>7, <1>8, <3>1, <3>2
  <2>2. h = [i \in 1..N |-> h[i]]
    BY Zenon
  <2>3. h = [i \in 1..N |-> D(h, i)]
    <3> HIDE DEF h, N
    <3> QED
      BY Zenon, <2>1, <2>2
  <2> HIDE DEF h
  <2> QED
    BY Zenon, <2>3
<1>10. from = [i \in 1..N |-> D(from, i)]
  <2> HIDE DEF N
  <2> QED
    BY Zenon, <1>9
<1>11. flush_dispatch(km, had, at) = from[1]
  BY Zenon DEF flush_dispatch, D, Flushed, After
<1> HIDE DEF from
<1> DEFINE wrong == {i \in 1..N : ~Flushes(km, had, at, i, from[i])}
           last == {N - i : i \in wrong}
<1>12. ASSUME NEW i \in wrong PROVE FALSE
  <2>1. last \in SUBSET Nat /\ last # {}
    <3>1. \A j \in wrong : j \in 1..N
      BY Zenon
    <3>2. \A j \in wrong : N - j \in Nat
      <4> HIDE DEF wrong
      <4> QED
        BY <1>1, <3>1
    <3> HIDE DEF wrong, N
    <3> QED
      BY Zenon, <3>2
  <2>2. PICK l \in last : \A o \in last : l <= o
    <3> HIDE DEF last
    <3> QED
      BY Zenon, <2>1, Least
  <2>3. PICK j \in wrong : l = N - j
    BY Zenon, <2>2
  <2>4. j \in 1..N /\ ~Flushes(km, had, at, j, from[j])
    BY Zenon, <2>3
  <2>5. ASSUME NEW o \in (j + 1)..N PROVE Flushes(km, had, at, o, from[o])
    <3>1. o \in 1..N /\ ~(N - j <= N - o)
      BY <1>1, <2>4
    <3>2. o \notin wrong
      <4> HIDE DEF wrong, N
      <4> QED
        BY Zenon, <2>2, <2>3, <3>1
    <3> HIDE DEF N
    <3> QED
      BY Zenon, <3>1, <3>2
  <2>6. from[j] = D(from, j)
    <3> HIDE DEF N
    <3> QED
      BY Zenon, <1>10, <2>4
  <2> HIDE DEF N, wrong, last
  <2> QED
    BY Zenon, <1>3, <2>4, <2>5, <2>6
<1>13. Flushes(km, had, at, 1, from[1])
  <2>1. 1 \in 1..N
    BY <1>1
  <2> HIDE DEF N
  <2> QED
    BY Zenon, <1>12, <2>1
<1> QED
  BY Zenon, <1>11, <1>13

----------------------------------------------------------------------------
\* A piece after the others is one more.
LEMMA CutAfter ==
  ASSUME NEW K, NEW all \in Seq(K), NEW pieces \in Seq(Seq(K)),
         NEW a, NEW c \in 1..(Len(all) + 1), Cut(all, a, c, pieces)
  PROVE  /\ Append(pieces, SubSeq(all, c, Len(all))) \in Seq(Seq(K))
         /\ Cut(all, a, Len(all) + 1, Append(pieces, SubSeq(all, c, Len(all))))
<1> DEFINE n == Len(pieces)
           piece == SubSeq(all, c, Len(all))
           new == Append(pieces, piece)
<1>1. PICK b \in [1..(n + 1) -> 1..(Len(all) + 1)] :
        /\ b[1] = a /\ b[n + 1] = c
        /\ \A j \in 1..n : b[j] <= b[j + 1] /\ pieces[j] = SubSeq(all, b[j], b[j + 1] - 1)
  BY Zenon DEF Cut
<1>2. n \in Nat /\ Len(all) \in Nat /\ \A j \in 1..Len(all) : all[j] \in K
  BY Zenon, LenProperties, ElementOfSeq
<1>3. piece \in Seq(K)
  <2>1. \A j \in c..Len(all) : all[j] \in K
    BY <1>2
  <2> QED
    BY <1>2, <2>1, SubSeqProperties
<1>4. /\ new \in Seq(Seq(K)) /\ Len(new) = n + 1 /\ new[n + 1] = piece
      /\ \A j \in 1..n : new[j] = pieces[j]
  <2> HIDE DEF piece
  <2> QED
    BY <1>3, AppendProperties
<1> DEFINE d == [j \in 1..(n + 2) |-> IF j = n + 2 THEN Len(all) + 1 ELSE b[j]]
<1> HIDE DEF new
<1>5. d \in [1..(n + 2) -> 1..(Len(all) + 1)]
  <2>1. \A j \in 1..(n + 2) : j # n + 2 => j \in 1..(n + 1)
    BY <1>2
  <2>2. Len(all) + 1 \in 1..(Len(all) + 1)
    BY <1>2
  <2> HIDE DEF n
  <2> QED
    BY Zenon, <1>1, <2>1, <2>2
<1>6. d[1] = a /\ d[n + 2] = Len(all) + 1
  BY <1>1, <1>2
<1>7. ASSUME NEW j \in 1..(n + 1)
      PROVE  d[j] <= d[j + 1] /\ new[j] = SubSeq(all, d[j], d[j + 1] - 1)
  <2>1. CASE j = n + 1
    <3>1. d[j] = c /\ d[j + 1] = Len(all) + 1 /\ (Len(all) + 1) - 1 = Len(all)
      BY <1>1, <1>2, <2>1
    <3>2. c <= Len(all) + 1
      BY <1>2
    <3> HIDE DEF d
    <3> QED
      BY Zenon, <1>4, <2>1, <3>1, <3>2
  <2>2. CASE j # n + 1
    <3>1. /\ j \in 1..n /\ j \in 1..(n + 2) /\ j + 1 \in 1..(n + 2)
          /\ j # n + 2 /\ j + 1 # n + 2
      BY <1>2, <2>2
    <3>2. d[j] = b[j] /\ d[j + 1] = b[j + 1]
      BY Zenon, <3>1
    <3> HIDE DEF d
    <3> QED
      BY Zenon, <1>1, <1>4, <3>1, <3>2
  <2> QED
    BY Zenon, <2>1, <2>2
<1>8. Len(new) + 1 = n + 2
  BY <1>2, <1>4
<1> HIDE DEF d
<1>9. Cut(all, a, Len(all) + 1, new)
  BY Zenon, <1>4, <1>5, <1>6, <1>7, <1>8 DEF Cut
<1> QED
  BY Zenon, <1>4, <1>9 DEF new

\* What the answer of dispatch_key says of the keystrokes: all those held, and the one typed,
\* are replayed, held or given to the handlers, in their order.
Accounts(km, had, k, at, r) ==
  /\ r.replays \in Seq(Seq(Range(had)))
  /\ Range(r.pending) \subseteq Range(had) \cup {k}
  /\ Range(r.keys) \subseteq Range(had) \cup {k}
  /\ \A j \in DOMAIN r.replays :
       Len(r.replays[j]) > 1 => bindings_for_input(km, Names(r.replays[j]), at) # {}
  /\ r.pending # <<>> =>
       /\ k \in Range(r.pending) /\ pending_for_input(km, Names(r.pending), at)
       /\ Flatten(r.replays) \o r.pending = Append(had, k)
  /\ r.pending = <<>> =>
       /\ Len(r.keys) > 1 => bindings_for_input(km, Names(r.keys), at) # {}
       /\ Flatten(Append(r.replays, r.keys)) = Append(had, k)

\* The answer of dispatch_key accounts for every keystroke.
LEMMA AnswerKeeps ==
  ASSUME NEW km, NEW at, NEW K, NEW had \in Seq(K), NEW k \in K, NEW r,
         Answer(km, had, k, at, 1, r)
  PROVE  /\ r.pending \in Seq(K) /\ r.keys \in Seq(K)
         /\ Accounts(km, had, k, at, r)
<1> DEFINE all == Append(had, k)
           N == Len(had) + 1
           H == Range(had)
           A == Range(all)
<1>1. /\ all \in Seq(K) /\ Len(all) = N /\ N \in Nat /\ N >= 1 /\ all[N] = k
      /\ DOMAIN all = 1..N /\ DOMAIN had = 1..Len(had) /\ Len(had) \in Nat
      /\ \A j \in 1..Len(had) : all[j] = had[j]
  <2>1. Len(had) \in Nat /\ DOMAIN had = 1..Len(had)
    BY Zenon, LenProperties
  <2>2. /\ all \in Seq(K) /\ Len(all) = N /\ all[N] = k
        /\ \A j \in 1..Len(had) : all[j] = had[j]
    BY AppendProperties
  <2>3. DOMAIN all = 1..Len(all)
    BY Zenon, <2>2, LenProperties
  <2> HIDE DEF all
  <2> QED
    BY <2>1, <2>2, <2>3
<1>2. A = H \cup {k}
  <2>1. 1..N = 1..Len(had) \cup {N}
    BY <1>1
  <2>2. A = {all[j] : j \in 1..Len(had)} \cup {k}
    <3> HIDE DEF all, N
    <3> QED
      BY <1>1, <2>1 DEF A, Range
  <2>3. H = {had[j] : j \in 1..Len(had)}
    BY Zenon, <1>1 DEF Range
  <2>4. {all[j] : j \in 1..Len(had)} = {had[j] : j \in 1..Len(had)}
    <3> HIDE DEF all
    <3> QED
      BY Zenon, <1>1
  <2> HIDE DEF A, H, all
  <2> QED
    BY Zenon, <2>2, <2>3, <2>4
<1>3. H \subseteq K /\ A \subseteq K
  BY Zenon, <1>1, RangeOfSeq
<1>4. had \in Seq(H) /\ all \in Seq(A)
  BY Zenon, <1>1, SeqOfRange
<1>5. r \in [replays : Seq(Seq(H)), pending : Seq(A), keys : Seq(A), bound : BOOLEAN]
  BY Zenon DEF Answer
<1>6. \A j \in DOMAIN r.replays :
        Len(r.replays[j]) > 1 => bindings_for_input(km, Names(r.replays[j]), at) # {}
  BY Zenon DEF Answer
<1>7. PICK n \in 1..N :
        /\ Cut(all, 1, n, r.replays)
        /\ \/ /\ r.pending = SubSeq(all, n, N) /\ r.keys = <<>>
              /\ pending_for_input(km, Names(r.pending), at)
           \/ /\ r.pending = <<>> /\ r.keys = SubSeq(all, n, N)
              /\ Len(r.keys) > 1 => bindings_for_input(km, Names(r.keys), at) # {}
  BY Zenon, <1>1 DEF Answer
<1> HIDE DEF all, H, A
<1>8. /\ r.replays \in Seq(Seq(H)) /\ r.pending \in Seq(A) /\ r.keys \in Seq(A)
      /\ r.pending \in Seq(K) /\ r.keys \in Seq(K)
      /\ Range(r.pending) \subseteq A /\ Range(r.keys) \subseteq A
  <2>1. r.replays \in Seq(Seq(H)) /\ r.pending \in Seq(A) /\ r.keys \in Seq(A)
    BY Zenon, <1>5
  <2>2. r.pending \in Seq(K) /\ r.keys \in Seq(K)
    BY Zenon, <1>3, <2>1, SeqMonotonic
  <2>3. Range(r.pending) \in SUBSET A /\ Range(r.keys) \in SUBSET A
    BY Zenon, <2>1, RangeOfSeq
  <2> QED
    BY Zenon, <2>1, <2>2, <2>3
<1>9. r.replays \in Seq(Seq(K))
  <2>1. Seq(H) \subseteq Seq(K)
    BY Zenon, <1>3, SeqMonotonic
  <2> QED
    BY Zenon, <1>8, <2>1, SeqMonotonic
<1>10. /\ SubSeq(all, n, N) \in Seq(K) /\ Len(SubSeq(all, n, N)) = N - n + 1
       /\ SubSeq(all, n, N)[N - n + 1] = k
  <2>1. n \in Int /\ N \in Int /\ n <= N /\ N - n + 1 \in 1..(N - n + 1) /\ n + (N - n + 1) - 1 = N
    BY <1>1
  <2>2. \A j \in n..N : all[j] \in K
    <3>1. \A j \in 1..N : all[j] \in K
      BY Zenon, <1>1, ElementOfSeq
    <3> QED
      BY <1>1, <3>1
  <2> HIDE DEF N
  <2>3. /\ SubSeq(all, n, N) \in Seq(K) /\ Len(SubSeq(all, n, N)) = N - n + 1
        /\ \A j \in 1..(N - n + 1) : SubSeq(all, n, N)[j] = all[n + j - 1]
    BY <2>1, <2>2, SubSeqProperties
  <2> QED
    BY Zenon, <1>1, <2>1, <2>3
<1>11. ASSUME r.pending # <<>>
       PROVE  /\ k \in Range(r.pending) /\ pending_for_input(km, Names(r.pending), at)
              /\ Flatten(r.replays) \o r.pending = all
  <2>1. r.pending = SubSeq(all, n, N) /\ pending_for_input(km, Names(r.pending), at)
    BY Zenon, <1>7, <1>11
  <2>2. k \in Range(r.pending)
    <3>1. DOMAIN r.pending = 1..(N - n + 1) /\ N - n + 1 \in 1..(N - n + 1)
      BY <1>1, <1>8, <1>10, <2>1, LenProperties
    <3> HIDE DEF N
    <3> QED
      BY Zenon, <1>10, <2>1, <3>1 DEF Range
  <2>3. Flatten(r.replays) = SubSeq(all, 1, n - 1)
    <3>1. n \in 1..(Len(all) + 1)
      BY <1>1
    <3> QED
      BY Zenon, <1>1, <1>7, <1>9, <3>1, FlattenedCut
  <2>4. SubSeq(all, 1, n - 1) \o SubSeq(all, (n - 1) + 1, N) = SubSeq(all, 1, N)
    <3>1. 1 \in 1..(Len(all) + 1) /\ n - 1 \in (1 - 1)..Len(all) /\ N \in (n - 1)..Len(all)
      BY <1>1
    <3> QED
      BY Zenon, <1>1, <3>1, ConcatAdjacentSubSeq
  <2>5. (n - 1) + 1 = n /\ SubSeq(all, 1, N) = all
    BY <1>1, SubSeqFull
  <2> QED
    BY Zenon, <2>1, <2>2, <2>3, <2>4, <2>5
<1>12. ASSUME r.pending = <<>>
       PROVE  /\ Len(r.keys) > 1 => bindings_for_input(km, Names(r.keys), at) # {}
              /\ Flatten(Append(r.replays, r.keys)) = all
  <2>1. /\ r.keys = SubSeq(all, n, N)
        /\ Len(r.keys) > 1 => bindings_for_input(km, Names(r.keys), at) # {}
    <3>1. SubSeq(all, n, N) # <<>>
      <4>1. Len(SubSeq(all, n, N)) # 0
        BY <1>1, <1>10
      <4> HIDE DEF N
      <4> QED
        BY Zenon, <1>10, <4>1, EmptySeq
    <3> QED
      BY Zenon, <1>7, <1>12, <3>1
  <2>2. /\ Append(r.replays, r.keys) \in Seq(Seq(K))
        /\ Cut(all, 1, Len(all) + 1, Append(r.replays, r.keys))
    <3>1. n \in 1..(Len(all) + 1)
      BY <1>1
    <3>2. /\ Append(r.replays, SubSeq(all, n, Len(all))) \in Seq(Seq(K))
          /\ Cut(all, 1, Len(all) + 1, Append(r.replays, SubSeq(all, n, Len(all))))
      BY Zenon, <1>1, <1>7, <1>9, <3>1, CutAfter
    <3> QED
      BY Zenon, <1>1, <2>1, <3>2
  <2>3. Flatten(Append(r.replays, r.keys)) = SubSeq(all, 1, Len(all) + 1 - 1)
    <3> DEFINE ps == Append(r.replays, r.keys)
               z == Len(all) + 1
    <3>1. z \in 1..(Len(all) + 1) /\ ps \in Seq(Seq(K)) /\ Cut(all, 1, z, ps) /\ all \in Seq(K)
      BY <1>1, <2>2
    <3> HIDE DEF ps, z
    <3>2. Flatten(ps) = SubSeq(all, 1, z - 1)
      BY Zenon, <3>1, FlattenedCut
    <3> QED
      BY <3>2 DEF ps, z
  <2>4. Len(all) + 1 - 1 = Len(all) /\ SubSeq(all, 1, Len(all)) = all
    BY <1>1, SubSeqFull
  <2> QED
    BY Zenon, <2>1, <2>3, <2>4
<1> QED
  BY Zenon, <1>2, <1>6, <1>8, <1>11, <1>12 DEF all, H, Accounts

\* dispatch_key replays, holds or gives to the handlers every keystroke that was held and the one
\* typed, in their order; it holds only what begins a binding, and makes one of several only where
\* they are bound (DispatchTree::dispatch_key), for every keymap and whatever is held.
THEOREM DispatchAccounts ==
  ASSUME NEW km, NEW at, NEW K, NEW had \in Seq(K), NEW k \in K
  PROVE  LET r == dispatch_key(km, had, k, at) IN
         /\ r.pending \in Seq(K) /\ r.keys \in Seq(K)
         /\ Accounts(km, had, k, at, r)
<1> DEFINE r == dispatch_key(km, had, k, at)
<1>1. Answer(km, had, k, at, 1, r)
  BY Zenon, DispatchAnswers
<1> HIDE DEF r
<1>2. /\ r.pending \in Seq(K) /\ r.keys \in Seq(K)
      /\ Accounts(km, had, k, at, r)
  BY Zenon, <1>1, AnswerKeeps
<1> QED
  BY Zenon, <1>2 DEF r

\* flush_dispatch gives every keystroke that was held to the handlers, in their order, several as
\* one only where they are bound (DispatchTree::flush_dispatch), for every keymap.
THEOREM FlushAccounts ==
  ASSUME NEW km, NEW at, NEW K, NEW had \in Seq(K)
  PROVE  LET r == flush_dispatch(km, had, at) IN
         /\ r \in Seq(Seq(Range(had))) /\ Flatten(r) = had
         /\ \A i \in DOMAIN r : Len(r[i]) > 1 => bindings_for_input(km, Names(r[i]), at) # {}
<1> DEFINE r == flush_dispatch(km, had, at)
           z == Len(had) + 1
<1>1. Flushes(km, had, at, 1, r)
  BY Zenon, FlushDispatches
<1> HIDE DEF r
<1>2. /\ r \in Seq(Seq(Range(had)))
      /\ \A i \in DOMAIN r : Len(r[i]) > 1 => bindings_for_input(km, Names(r[i]), at) # {}
  BY Zenon, <1>1 DEF Flushes
<1>3. r \in Seq(Seq(K))
  <2>1. Range(had) \in SUBSET K
    BY Zenon, RangeOfSeq
  <2>2. Seq(Range(had)) \subseteq Seq(K)
    BY Zenon, <2>1, SeqMonotonic
  <2> QED
    BY Zenon, <1>2, <2>2, SeqMonotonic
<1>4. z \in 1..(Len(had) + 1) /\ Cut(had, 1, z, r) /\ z - 1 = Len(had)
  BY <1>1, LenProperties DEF Flushes
<1>5. Flatten(r) = had
  <2> HIDE DEF z
  <2>1. Flatten(r) = SubSeq(had, 1, z - 1)
    BY Zenon, <1>3, <1>4, FlattenedCut
  <2> QED
    BY Zenon, <1>4, <2>1, SubSeqFull
<1> QED
  BY Zenon, <1>2, <1>5 DEF r

=============================================================================
