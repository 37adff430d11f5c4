---------------------------- MODULE EffectsProofs ----------------------------
(***************************************************************************)
(* Proofs about Effects, for every number of windows, entities, globals    *)
(* and observers, every nesting of updates and any number of steps.        *)
(*                                                                         *)
(* What is owed to a subscriber is not inductive by itself: it has to be   *)
(* found in the queue.  The invariant says that it is the number of its    *)
(* effects queued behind its activation, and the call under way if it is   *)
(* yet to get it.                                                          *)
(***************************************************************************)
EXTENDS Effects, TLAPS

\* The positions of `x` in a sequence, and those of them behind every `a`.
Where(s, x) == {i \in DOMAIN s : s[i] = x}
Since(s, x, a) == {i \in Where(s, x) : \A j \in Where(s, a) : j < i}

\* What is at the positions left once the first is popped.
Shift(A) == {i \in Nat \ {0} : i + 1 \in A}

\* `x` is in a sequence if `key` is in `P`, and once.
Once(s, x, key, P) == /\ key \in P <=> Where(s, x) # {}
                      /\ \A i, j \in Where(s, x) : i = j

\* `A` has `c` elements.
Counted(A, c) ==
    c \in Nat /\ \E f \in [A -> 1 .. c] : /\ \A i, j \in A : f[i] = f[j] => i = j
                                         /\ \A k \in 1 .. c : \E i \in A : f[i] = k

-----------------------------------------------------------------------------
\* The length and the domain of a sequence.
LEMMA SeqIs ==
    ASSUME NEW E, NEW s \in Seq(E)
    PROVE  /\ Len(s) \in Nat /\ DOMAIN s = 1 .. Len(s)
           /\ s = <<>> <=> Len(s) = 0
OBVIOUS

\* Appending adds one at the end.
LEMMA SeqAppend ==
    ASSUME NEW E, NEW s \in Seq(E), NEW y \in E
    PROVE  /\ Append(s, y) \in Seq(E) /\ Len(Append(s, y)) = Len(s) + 1
           /\ DOMAIN Append(s, y) = 1 .. (Len(s) + 1) /\ Append(s, y)[Len(s) + 1] = y
           /\ \A i \in 1 .. Len(s) : Append(s, y)[i] = s[i]
OBVIOUS

\* Popping takes the first, and the others move up.
LEMMA SeqTail ==
    ASSUME NEW E, NEW s \in Seq(E), s # <<>>
    PROVE  /\ Tail(s) \in Seq(E) /\ Head(s) \in E /\ Head(s) = s[1] /\ Len(Tail(s)) = Len(s) - 1
           /\ \A i \in 1 .. Len(Tail(s)) : Tail(s)[i] = s[i + 1]
           /\ DOMAIN Tail(s) = 1 .. (Len(s) - 1)
<1>1. Len(s) \in Nat /\ Len(s) # 0
    OBVIOUS
<1>2. Tail(s) \in Seq(E) /\ Len(Tail(s)) = Len(s) - 1 /\ Head(s) = s[1]
    OBVIOUS
<1>3. s[1] \in E
    BY <1>1
<1>4. \A i \in 1 .. Len(Tail(s)) : Tail(s)[i] = s[i + 1]
    BY <1>1
<1>5. DOMAIN Tail(s) = 1 .. (Len(s) - 1)
    BY <1>1, <1>2
<1>. QED  BY Zenon, <1>2, <1>3, <1>4, <1>5

\* Positions are positive.
LEMMA WhereIs ==
    ASSUME NEW E, NEW s \in Seq(E), NEW x, NEW a
    PROVE  /\ Where(s, x) \subseteq 1 .. Len(s) /\ Len(s) \in Nat
           /\ Where(s, x) \subseteq Nat \ {0}
           /\ Since(s, x, a) \subseteq Where(s, x)
<1>1. Len(s) \in Nat /\ DOMAIN s = 1 .. Len(s)
    BY Zenon, SeqIs
<1>2. Where(s, x) \subseteq 1 .. Len(s)
    BY Zenon, <1>1 DEF Where
<1>3. Since(s, x, a) \subseteq Where(s, x)
    BY Zenon DEF Since
<1>4. 1 .. Len(s) \subseteq Nat \ {0}
    BY <1>1
<1>. QED  BY Zenon, <1>1, <1>2, <1>3, <1>4

\* What is appended is at the end.
LEMMA WhereAppend ==
    ASSUME NEW E, NEW s \in Seq(E), NEW y \in E, NEW x
    PROVE  /\ Where(Append(s, y), x) = IF y = x THEN Where(s, x) \cup {Len(s) + 1} ELSE Where(s, x)
           /\ Len(s) + 1 \notin Where(s, x)
<1>1. Len(s) \in Nat /\ DOMAIN s = 1 .. Len(s)
    BY Zenon, SeqIs
<1>2. /\ DOMAIN Append(s, y) = 1 .. (Len(s) + 1) /\ Append(s, y)[Len(s) + 1] = y
      /\ \A i \in 1 .. Len(s) : Append(s, y)[i] = s[i]
    BY SeqAppend, SeqIs
<1>3. 1 .. (Len(s) + 1) = 1 .. Len(s) \cup {Len(s) + 1} /\ Len(s) + 1 \notin 1 .. Len(s)
    BY <1>1
<1>4. Len(s) + 1 \notin Where(s, x)
    BY Zenon, <1>1, <1>3 DEF Where
<1>5. Where(Append(s, y), x) = IF y = x THEN Where(s, x) \cup {Len(s) + 1} ELSE Where(s, x)
    BY Zenon, <1>1, <1>2, <1>3 DEF Where
<1>. QED  BY Zenon, <1>4, <1>5

\* What is popped moves the others to the front.
LEMMA WhereTail ==
    ASSUME NEW E, NEW s \in Seq(E), s # <<>>, NEW x
    PROVE  /\ Where(Tail(s), x) = Shift(Where(s, x))
           /\ 1 \in Where(s, x) <=> Head(s) = x
           /\ Tail(s) \in Seq(E) /\ Head(s) \in E
<1>1. Len(s) \in Nat /\ DOMAIN s = 1 .. Len(s) /\ Len(s) # 0
    BY Zenon, SeqIs
<1>2. /\ Tail(s) \in Seq(E) /\ Head(s) \in E /\ Head(s) = s[1] /\ Len(Tail(s)) = Len(s) - 1
      /\ \A i \in 1 .. Len(Tail(s)) : Tail(s)[i] = s[i + 1]
    BY Zenon, SeqTail
<1>3. DOMAIN Tail(s) = 1 .. (Len(s) - 1)
    BY Zenon, <1>2, SeqIs
<1>4. \A i \in Nat \ {0} : i \in 1 .. (Len(s) - 1) <=> i + 1 \in 1 .. Len(s)
    BY <1>1
<1>5. 1 .. (Len(s) - 1) \subseteq Nat \ {0} /\ 1 \in 1 .. Len(s)
    BY <1>1
<1>6. Where(Tail(s), x) = Shift(Where(s, x))
    BY Zenon, <1>1, <1>2, <1>3, <1>4, <1>5 DEF Where, Shift
<1>. QED  BY Zenon, <1>1, <1>2, <1>5, <1>6 DEF Where

\* Nothing has no elements, and only nothing.
LEMMA CountedNone == Counted({}, 0) /\ \A c : Counted({}, c) => c = 0
<1>1. Counted({}, 0)
    <2> DEFINE f == [i \in {} |-> 0]
    <2>1. f \in [{} -> 1 .. 0] /\ 1 .. 0 = {}
        OBVIOUS
    <2>. QED  BY Zenon, <2>1 DEF Counted
<1>2. ASSUME NEW c, Counted({}, c) PROVE c = 0
    <2>1. c \in Nat /\ \A k \in 1 .. c : FALSE
        BY Zenon, <1>2 DEF Counted
    <2>. QED  BY <2>1
<1>. QED  BY Zenon, <1>1, <1>2

\* One element more is one more.
LEMMA CountedMore ==
    ASSUME NEW A, NEW c, Counted(A, c), NEW x, x \notin A
    PROVE  Counted(A \cup {x}, c + 1)
<1>1. PICK f \in [A -> 1 .. c] : /\ \A i, j \in A : f[i] = f[j] => i = j
                                 /\ \A k \in 1 .. c : \E i \in A : f[i] = k
    BY Zenon DEF Counted
<1> DEFINE B == A \cup {x}
           g == [i \in B |-> IF i = x THEN c + 1 ELSE f[i]]
<1>2. c \in Nat /\ \A k \in 1 .. (c + 1) : k = c + 1 \/ k \in 1 .. c
    BY DEF Counted
<1>3. \A i \in A : f[i] \in 1 .. c /\ f[i] # c + 1 /\ f[i] \in 1 .. (c + 1)
    BY <1>2
<1>4. g[x] = c + 1 /\ \A i \in A : g[i] = f[i]
    BY Zenon
<1>5. g \in [B -> 1 .. (c + 1)]
    BY <1>2, <1>3
<1> HIDE DEF g
<1>6. \A i, j \in B : g[i] = g[j] => i = j
    BY Zenon, <1>1, <1>3, <1>4
<1>7. \A k \in 1 .. (c + 1) : \E i \in B : g[i] = k
    BY Zenon, <1>1, <1>2, <1>4
<1>. QED  BY <1>2, <1>5, <1>6, <1>7 DEF Counted

\* As many are left, but for the one at the front.
LEMMA CountedShift ==
    ASSUME NEW A \in SUBSET (Nat \ {0}), NEW c, Counted(A, c)
    PROVE  Counted(Shift(A), c - IF 1 \in A THEN 1 ELSE 0)
<1>1. PICK f \in [A -> 1 .. c] : /\ \A i, j \in A : f[i] = f[j] => i = j
                                 /\ \A k \in 1 .. c : \E i \in A : f[i] = k
    BY Zenon DEF Counted
<1>2. c \in Nat
    BY Zenon DEF Counted
<1> DEFINE B == Shift(A)
<1>3. /\ \A i \in B : i + 1 \in A /\ i + 1 # 1
      /\ \A i \in A : i # 1 => i - 1 \in B /\ (i - 1) + 1 = i
      /\ \A i, j \in B : i + 1 = j + 1 => i = j
    BY DEF Shift
<1> HIDE DEF B
<1>4. CASE 1 \notin A
    <2> DEFINE g == [i \in B |-> f[i + 1]]
    <2>1. g \in [B -> 1 .. c]
        BY Zenon, <1>3
    <2>2. \A i, j \in B : g[i] = g[j] => i = j
        BY Zenon, <1>1, <1>3
    <2>3. ASSUME NEW k \in 1 .. c PROVE \E i \in B : g[i] = k
        <3>1. PICK i \in A : f[i] = k
            BY Zenon, <1>1
        <3>2. i - 1 \in B /\ g[i - 1] = k
            BY Zenon, <1>3, <1>4, <3>1
        <3>. QED  BY Zenon, <3>2
    <2> HIDE DEF g
    <2>4. Counted(B, c)
        BY Zenon, <1>2, <2>1, <2>2, <2>3 DEF Counted
    <2>5. c - 0 = c
        BY <1>2
    <2>. QED  BY Zenon, <1>4, <2>4, <2>5 DEF B
<1>5. CASE 1 \in A
    <2> DEFINE p == f[1]
               g == [i \in B |-> IF f[i + 1] = c THEN p ELSE f[i + 1]]
    <2>1. p \in 1 .. c /\ c - 1 \in Nat
        BY <1>2, <1>5
    <2>2. \A i \in B : f[i + 1] \in 1 .. c /\ f[i + 1] # p
        BY Zenon, <1>1, <1>3, <1>5
    <2>3. \A k \in 1 .. c : k # c => k \in 1 .. (c - 1)
        BY <1>2
    <2>4. \A i \in B : g[i] = IF f[i + 1] = c THEN p ELSE f[i + 1]
        BY Zenon
    <2>5. g \in [B -> 1 .. (c - 1)]
        <3> HIDE DEF p
        <3>. QED  BY Zenon, <2>1, <2>2, <2>3
    <2> HIDE DEF g
    <2>6. \A i, j \in B : g[i] = g[j] => i = j
        <3> HIDE DEF p
        <3>1. \A i, j \in B : g[i] = g[j] => f[i + 1] = f[j + 1]
            BY Zenon, <2>2, <2>4
        <3>2. \A i, j \in B : f[i + 1] = f[j + 1] => i + 1 = j + 1
            BY Zenon, <1>1, <1>3
        <3>. QED  BY <1>3, <3>1, <3>2
    <2>7. ASSUME NEW k \in 1 .. (c - 1) PROVE \E i \in B : g[i] = k
        <3>1. k \in 1 .. c /\ k # c /\ c \in 1 .. c
            BY <1>2, <2>1
        <3>2. CASE k = p
            <4>1. PICK i \in A : f[i] = c
                BY Zenon, <1>1, <3>1
            <4>2. i # 1
                BY Zenon, <3>1, <3>2, <4>1
            <4>3. i - 1 \in B /\ (i - 1) + 1 = i
                BY Zenon, <1>3, <4>2
            <4>4. g[i - 1] = p
                BY Zenon, <2>4, <4>1, <4>3
            <4>. QED  BY Zenon, <3>2, <4>3, <4>4
        <3>3. CASE k # p
            <4>1. PICK i \in A : f[i] = k
                BY Zenon, <1>1, <3>1
            <4>2. i # 1
                BY Zenon, <3>3, <4>1
            <4>3. i - 1 \in B /\ (i - 1) + 1 = i
                BY Zenon, <1>3, <4>2
            <4>4. g[i - 1] = k
                BY Zenon, <2>4, <3>1, <4>1, <4>3
            <4>. QED  BY Zenon, <4>3, <4>4
        <3>. QED  BY Zenon, <3>2, <3>3
    <2>8. Counted(B, c - 1)
        BY Zenon, <2>1, <2>5, <2>6, <2>7 DEF Counted
    <2>. QED  BY Zenon, <1>5, <2>8 DEF B
<1>. QED  BY Zenon, <1>4, <1>5

\* What is not there is there once when it is pushed; pushing another changes nothing.
LEMMA OnceAppend ==
    ASSUME NEW E, NEW s \in Seq(E), NEW y \in E, NEW x, NEW key, NEW P, Once(s, x, key, P), NEW Q
    PROVE  /\ y # x /\ (key \in Q <=> key \in P) => Once(Append(s, y), x, key, Q)
           /\ y = x /\ key \notin P /\ key \in Q => Once(Append(s, y), x, key, Q)
<1>1. Where(Append(s, y), x) = IF y = x THEN Where(s, x) \cup {Len(s) + 1} ELSE Where(s, x)
    BY WhereAppend
<1>. QED  BY Zenon, <1>1 DEF Once

\* What is there once is gone when it is popped, and there once when another is.
LEMMA OnceTail ==
    ASSUME NEW E, NEW s \in Seq(E), s # <<>>, NEW x, NEW key, NEW P, Once(s, x, key, P),
           NEW Q, key \in Q <=> key \in P /\ Head(s) # x
    PROVE  Once(Tail(s), x, key, Q)
<1> DEFINE A == Where(s, x)
           B == Where(Tail(s), x)
<1>1. B = Shift(A) /\ (1 \in A <=> Head(s) = x)
    BY WhereTail
<1>2. A \in SUBSET (Nat \ {0}) /\ (key \in P <=> A # {}) /\ \A i, j \in A : i = j
    BY Zenon, WhereIs DEF Once
<1> HIDE DEF A, B
<1>3. \A i \in B : i \in Nat /\ i + 1 \in A /\ i + 1 # 1
    BY <1>1 DEF Shift
<1>4. \A i \in A : i # 1 => i - 1 \in B
    BY <1>1, <1>2 DEF Shift
<1>5. \A i, j \in B : i = j
    <2>1. \A i, j \in B : i + 1 = j + 1
        BY Zenon, <1>2, <1>3
    <2>. QED  BY <1>3, <2>1
<1>6. B # {} <=> A # {} /\ 1 \notin A
    BY Zenon, <1>2, <1>3, <1>4
<1>7. key \in Q <=> B # {}
    BY Zenon, <1>1, <1>2, <1>6
<1>. QED  BY Zenon, <1>5, <1>7 DEF Once, B

\* An effect pushed is behind every activation queued; an activation pushed is behind all.
LEMMA SinceAppend ==
    ASSUME NEW E, NEW s \in Seq(E), NEW y \in E, NEW x, NEW a, x # a
    PROVE  /\ y # a => \A c : Counted(Since(s, x, a), c) =>
                         Counted(Since(Append(s, y), x, a), c + IF y = x THEN 1 ELSE 0)
           /\ y = a => Since(Append(s, y), x, a) = {}
<1> DEFINE n == Len(s) + 1
           t == Append(s, y)
<1>1. /\ Where(s, x) \subseteq 1 .. Len(s) /\ Where(s, a) \subseteq 1 .. Len(s)
      /\ Len(s) \in Nat /\ Since(s, x, a) \subseteq Where(s, x)
    BY Zenon, WhereIs
<1>2. n \notin Where(s, x) /\ n \notin Since(s, x, a)
    BY Zenon, <1>1, WhereAppend
<1>3. \A i \in 1 .. Len(s) : i < n /\ ~(n < i)
    BY <1>1
<1> HIDE DEF n
<1>4. Where(t, x) = (IF y = x THEN Where(s, x) \cup {n} ELSE Where(s, x))
      /\ Where(t, a) = (IF y = a THEN Where(s, a) \cup {n} ELSE Where(s, a))
    BY WhereAppend DEF n
<1> HIDE DEF t
<1>5. ASSUME y = a PROVE Since(t, x, a) = {}
    <2>1. Where(t, x) = Where(s, x) /\ n \in Where(t, a)
        BY Zenon, <1>4, <1>5
    <2>. QED  BY Zenon, <1>1, <1>3, <2>1 DEF Since
<1>6. ASSUME y # a, NEW c, Counted(Since(s, x, a), c)
      PROVE  Counted(Since(t, x, a), c + IF y = x THEN 1 ELSE 0)
    <2>1. CASE y = x
        <3>1. Since(t, x, a) = Since(s, x, a) \cup {n}
            BY <1>1, <1>3, <1>4, <1>6, <2>1 DEF Since
        <3>2. Counted(Since(s, x, a) \cup {n}, c + 1)
            BY Zenon, <1>2, <1>6, CountedMore
        <3>. QED  BY Zenon, <2>1, <3>1, <3>2
    <2>2. CASE y # x
        <3>1. Since(t, x, a) = Since(s, x, a)
            BY Zenon, <1>4, <1>6, <2>2 DEF Since
        <3>2. c + 0 = c
            BY <1>6 DEF Counted
        <3>. QED  BY Zenon, <1>6, <2>2, <3>1, <3>2
    <2>. QED  BY Zenon, <2>1, <2>2
<1>. QED  BY Zenon, <1>5, <1>6 DEF t

\* An effect popped is one less, unless an activation is queued behind it.
LEMMA SinceTail ==
    ASSUME NEW E, NEW s \in Seq(E), s # <<>>, NEW x, NEW a, NEW c, Counted(Since(s, x, a), c)
    PROVE  Counted(Since(Tail(s), x, a), c - IF Head(s) = x /\ Where(s, a) = {} THEN 1 ELSE 0)
<1>1. /\ Where(s, x) \subseteq Nat \ {0} /\ Where(s, a) \subseteq Nat \ {0}
      /\ Since(s, x, a) \in SUBSET (Nat \ {0})
    BY Zenon, WhereIs
<1>2. /\ Where(Tail(s), x) = Shift(Where(s, x)) /\ Where(Tail(s), a) = Shift(Where(s, a))
      /\ 1 \in Where(s, x) <=> Head(s) = x
    BY WhereTail
<1>3. Since(Tail(s), x, a) = Shift(Since(s, x, a))
    <2> DEFINE T == Since(Tail(s), x, a)
               U == Shift(Since(s, x, a))
    <2>1. ASSUME NEW i \in T PROVE i \in U
        <3>1. i \in Nat \ {0} /\ i + 1 \in Where(s, x) /\ \A j \in Shift(Where(s, a)) : j < i
            BY Zenon, <1>2 DEF Since, Shift
        <3>2. ASSUME NEW j \in Where(s, a) PROVE j < i + 1
            <4>1. CASE j = 1
                BY <3>1, <4>1
            <4>2. CASE j # 1
                <5>1. j \in Nat \ {0} /\ j - 1 \in Nat \ {0} /\ (j - 1) + 1 = j
                    BY <1>1, <4>2
                <5>2. j - 1 \in Shift(Where(s, a))
                    BY Zenon, <5>1 DEF Shift
                <5>3. j - 1 < i
                    BY Zenon, <3>1, <5>2
                <5>. QED  BY <3>1, <5>1, <5>3
            <4>. QED  BY Zenon, <4>1, <4>2
        <3>. QED  BY Zenon, <3>1, <3>2 DEF Since, Shift
    <2>2. ASSUME NEW i \in U PROVE i \in T
        <3>1. i \in Nat \ {0} /\ i + 1 \in Where(s, x) /\ \A j \in Where(s, a) : j < i + 1
            BY Zenon DEF Since, Shift
        <3>2. ASSUME NEW j \in Shift(Where(s, a)) PROVE j < i
            <4>1. j \in Nat \ {0} /\ j + 1 \in Where(s, a)
                BY Zenon DEF Shift
            <4>2. j + 1 < i + 1
                BY Zenon, <3>1, <4>1
            <4>. QED  BY <3>1, <4>1, <4>2
        <3>3. i \in Shift(Where(s, x))
            BY Zenon, <3>1 DEF Shift
        <3>. QED  BY Zenon, <1>2, <3>2, <3>3 DEF Since
    <2>. QED  BY Zenon, <2>1, <2>2
<1>4. 1 \in Since(s, x, a) <=> Head(s) = x /\ Where(s, a) = {}
    <2>1. \A j \in Where(s, a) : ~(j < 1)
        BY <1>1
    <2>. QED  BY Zenon, <1>2, <2>1 DEF Since
<1>. QED  BY Zenon, <1>1, <1>3, <1>4, CountedShift

-----------------------------------------------------------------------------
\* A subscriber registered and not dropped, what it is called for, the effect that activates
\* it, and the call under way that it is yet to get.
Here(o) == subs[o].state \in {"pending", "active"}
Awaits(o) == Effect(subs[o].kind, subs[o].key)
Activation(o) == Effect("activate", o)
Left(o) == IF calling # None /\ o \in calling.left THEN 1 ELSE 0

\* What is owed to a subscriber: the effects behind its activation, and the call under way.
Behind(o) == Since(pending_effects, Awaits(o), Activation(o))
IsOwed(o) == Counted(Behind(o), owed[o] - Left(o))

OwedInv ==
    /\ \A o \in Observers : ~Here(o) => owed[o] = 0
    /\ \A o \in Observers : Here(o) => subs[o].kind \in Kinds /\ IsOwed(o)
    /\ \A o \in Observers :
          subs[o].state \in {"none", "active"} => Where(pending_effects, Activation(o)) = {}
    /\ \A o \in Observers :
          subs[o].state = "pending" =>
            \E i \in DOMAIN pending_effects : Where(pending_effects, Activation(o)) = {i}
    /\ calling # None =>
          \A o \in calling.left : /\ subs[o].state \in {"active", "dropped"}
                                  /\ Awaits(o) = Effect(calling.kind, calling.key)
    /\ pending_updates = 0 => pending_effects = <<>> /\ calling = None

\* A view that is to be drawn has its window dirty, and a dirty window a frame scheduled once
\* the update is over.  A window an entity invalidates tracks it, also while it is released.
WindowsInv ==
    /\ \A n \in unseen : n[1] \in dirty
    /\ pending_updates = 0 => dirty \subseteq scheduled
    /\ TrackedIsInvalidated
    /\ \A e \in Entities, w \in Windows :
          w \in window_invalidators_by_entity[e] => e \in tracked_entities[w]

\* Only an update is flushed.
UpdatesInv == flushing => pending_updates # 0

\* Effects are equal when what they are and what they are for is.
LEMMA EffectIs ==
    ASSUME NEW k, NEW y, NEW l, NEW z
    PROVE  /\ Effect(k, y) = Effect(l, z) <=> k = l /\ y = z
           /\ Effect(k, y).kind = k /\ Effect(k, y).key = y
BY Zenon DEF Effect

\* An effect that is queued has its kind and key, and is what they make.
LEMMA EffectTypes ==
    ASSUME NEW x \in EffectType
    PROVE  /\ x = Effect(x.kind, x.key)
           /\ x.kind \in Kinds \cup {"activate", "defer", "refresh"}
           /\ x.kind \in {"notify", "event"} => x.key \in Entities
           /\ x.kind = "global" => x.key \in Globals
           /\ x.kind = "activate" => x.key \in Observers
BY Zenon DEF EffectType, Effect, Kinds

\* What subscribers wait for is no activation.
LEMMA AwaitsIs ==
    ASSUME OwedInv, NEW o \in Observers, Here(o)
    PROVE  Awaits(o) # Activation(o)
<1>1. subs[o].kind \in Kinds
    BY Zenon DEF OwedInv
<1>2. subs[o].kind # "activate"
    BY Zenon, <1>1 DEF Kinds
<1>. QED  BY <1>2, EffectIs DEF Awaits, Activation

\* Steps that neither queue nor deliver.
LEMMA OwedFrame ==
    ASSUME OwedInv, UNCHANGED <<pending_effects, subs, owed, calling>>,
           pending_updates' = 0 => pending_effects = <<>> /\ calling = None
    PROVE  OwedInv'
BY Zenon DEF OwedInv, Here, Awaits, Activation, Left, Behind, IsOwed

\* An effect queued is one more call for those that are owed it, and for no other.
LEMMA OwedPush ==
    ASSUME TypeOK, OwedInv, NEW kind, NEW key, Effect(kind, key) \in EffectType,
           kind # "activate",
           pending_effects' = Append(pending_effects, Effect(kind, key)),
           owed' = Owing(kind, key) \/ (kind \notin Kinds /\ owed' = owed),
           UNCHANGED <<subs, calling, pending_updates>>, pending_updates # 0
    PROVE  OwedInv'
<1>1. pending_effects \in Seq(EffectType) /\ owed \in [Observers -> Int]
    BY Zenon DEF TypeOK
<1>2. ASSUME NEW o \in Observers
      PROVE  Activation(o)' = Activation(o) /\ Here(o)' = Here(o) /\ Awaits(o)' = Awaits(o)
             /\ Left(o)' = Left(o) /\ subs'[o] = subs[o]
    BY Zenon DEF Activation, Here, Awaits, Left
<1>3. ASSUME NEW o \in Observers
      PROVE  Where(pending_effects', Activation(o)) = Where(pending_effects, Activation(o))
    <2>1. Effect(kind, key) # Activation(o)
        BY EffectIs DEF Activation
    <2>. QED  BY <1>1, <2>1, WhereAppend
<1>4. ASSUME NEW o \in Observers, Here(o)
      PROVE  Counted(Since(pending_effects', Awaits(o), Activation(o)), owed'[o] - Left(o))
    <2> DEFINE more == IF Effect(kind, key) = Awaits(o) THEN 1 ELSE 0
    <2>1. Counted(Behind(o), owed[o] - Left(o)) /\ subs[o].kind \in Kinds
        BY Zenon, <1>4 DEF OwedInv, IsOwed
    <2>2. Awaits(o) # Activation(o) /\ Effect(kind, key) # Activation(o)
        BY <1>4, AwaitsIs, EffectIs DEF Activation
    <2>3. Counted(Since(pending_effects', Awaits(o), Activation(o)), (owed[o] - Left(o)) + more)
        BY Zenon, <1>1, <2>1, <2>2, SinceAppend DEF Behind
    <2>4. Effect(kind, key) = Awaits(o) <=> Subscribed(o, kind, key)
        BY <1>4, EffectIs DEF Awaits, Subscribed, Here
    <2>5. owed[o] \in Int /\ Left(o) \in Nat /\ more \in Nat
        BY Zenon, <1>1 DEF Left
    <2>6. owed'[o] = owed[o] + more
        <3>1. CASE owed' = Owing(kind, key)
            BY <2>4, <2>5, <3>1 DEF Owing
        <3>2. CASE kind \notin Kinds /\ owed' = owed
            <4>1. ~(Effect(kind, key) = Awaits(o))
                BY Zenon, <2>1, <2>4, <3>2 DEF Subscribed
            <4>. QED  BY <2>5, <3>2, <4>1
        <3>. QED  BY Zenon, <3>1, <3>2
    <2> HIDE DEF more
    <2>7. (owed[o] - Left(o)) + more = owed'[o] - Left(o)
        BY <2>5, <2>6
    <2>. QED  BY Zenon, <2>3, <2>7
<1>5. ASSUME NEW o \in Observers, ~Here(o)
      PROVE  owed'[o] = 0
    <2>1. ~Subscribed(o, kind, key)
        BY Zenon, <1>5 DEF Here, Subscribed
    <2>. QED  BY Zenon, <1>5, <2>1 DEF OwedInv, Owing
<1>6. \A i \in DOMAIN pending_effects : i \in DOMAIN pending_effects'
    <2>1. Len(pending_effects) \in Nat
        BY Zenon, <1>1, SeqIs
    <2>2. DOMAIN pending_effects' = 1 .. (Len(pending_effects) + 1)
          /\ DOMAIN pending_effects = 1 .. Len(pending_effects)
        BY Zenon, <1>1, SeqAppend, SeqIs
    <2>. QED  BY <2>1, <2>2
<1>7. \A o \in Observers : (Here(o) => subs[o].kind \in Kinds /\ IsOwed(o))'
    BY Zenon, <1>2, <1>4 DEF OwedInv, Behind, IsOwed
<1>8. \A o \in Observers : (~Here(o) => owed[o] = 0)'
    BY Zenon, <1>2, <1>5
<1>9. \A o \in Observers :
        (subs[o].state \in {"none", "active"} => Where(pending_effects, Activation(o)) = {})'
    BY Zenon, <1>2, <1>3 DEF OwedInv
<1>10. \A o \in Observers :
        (subs[o].state = "pending" =>
           \E i \in DOMAIN pending_effects : Where(pending_effects, Activation(o)) = {i})'
    BY Zenon, <1>2, <1>3, <1>6 DEF OwedInv
<1>11. (calling # None =>
          \A o \in calling.left : /\ subs[o].state \in {"active", "dropped"}
                                  /\ Awaits(o) = Effect(calling.kind, calling.key))'
    BY Zenon DEF OwedInv, Awaits
<1>. QED  BY Zenon, <1>7, <1>8, <1>9, <1>10, <1>11 DEF OwedInv

\* A subscriber registered is owed nothing: its activation is behind all that is queued.
LEMMA OwedObserve ==
    ASSUME TypeOK, OwedInv, NEW o \in Observers, NEW kind \in Kinds, NEW key \in Entities \cup Globals,
           subs[o].state = "none",
           subs' = [subs EXCEPT ![o] = [kind |-> kind, key |-> key, state |-> "pending"]],
           pending_effects' = Append(pending_effects, Activation(o)),
           UNCHANGED <<owed, calling, pending_updates>>, pending_updates # 0
    PROVE  OwedInv'
<1> DEFINE n == Len(pending_effects) + 1
<1>1. /\ pending_effects \in Seq(EffectType) /\ Activation(o) \in EffectType
      /\ DOMAIN subs = Observers
    BY Zenon DEF TypeOK, Activation, Effect, EffectType
<1>2. /\ subs'[o] = [kind |-> kind, key |-> key, state |-> "pending"]
      /\ \A p \in Observers : p # o => subs'[p] = subs[p]
    BY Zenon, <1>1
<1>3. ASSUME NEW p \in Observers
      PROVE  /\ Activation(p)' = Activation(p) /\ Left(p)' = Left(p)
             /\ p # o => Here(p)' = Here(p) /\ Awaits(p)' = Awaits(p) /\ Activation(o) # Activation(p)
    BY <1>2, EffectIs DEF Activation, Left, Here, Awaits
<1>4. /\ Here(o)' /\ Awaits(o)' = Effect(kind, key) /\ Effect(kind, key) # Activation(o)
      /\ (subs[o].kind)' = kind /\ (subs[o].state)' = "pending"
    <2>1. kind # "activate"
        BY Zenon DEF Kinds
    <2>2. subs'[o].kind = kind /\ subs'[o].key = key /\ subs'[o].state = "pending"
        BY <1>2
    <2>. QED  BY <2>1, <2>2, EffectIs DEF Here, Awaits, Activation
<1>5. Where(pending_effects, Activation(o)) = {} /\ owed[o] = 0
    BY Zenon DEF OwedInv, Here
<1>6. Left(o) = 0
    BY Zenon DEF OwedInv, Left
<1>7. Where(pending_effects', Activation(o)) = {n} /\ n \in DOMAIN pending_effects'
    <2>1. Where(pending_effects', Activation(o)) = {n}
        BY <1>1, <1>5, WhereAppend
    <2>. QED  BY Zenon, <2>1 DEF Where
<1>8. IsOwed(o)'
    <2>1. Since(pending_effects', Effect(kind, key), Activation(o)) = {}
        BY Zenon, <1>1, <1>4, SinceAppend
    <2>2. owed'[o] - Left(o)' = 0
        BY <1>3, <1>5, <1>6
    <2>. QED  BY Zenon, <1>3, <1>4, <2>1, <2>2, CountedNone DEF Behind, IsOwed
<1>9. ASSUME NEW p \in Observers, p # o
      PROVE  Where(pending_effects', Activation(p)) = Where(pending_effects, Activation(p))
    BY <1>1, <1>3, <1>9, WhereAppend
<1>10. ASSUME NEW p \in Observers, p # o, Here(p)
       PROVE  IsOwed(p)'
    <2>1. Activation(o) # Activation(p) /\ Awaits(p) # Activation(p) /\ subs[p].kind \in Kinds
        BY Zenon, <1>3, <1>10, AwaitsIs DEF OwedInv
    <2>2. Activation(o) # Awaits(p)
        BY <2>1, EffectIs DEF Kinds, Awaits, Activation
    <2> DEFINE c == owed[p] - Left(p)
    <2>3. Counted(Behind(p), c)
        BY Zenon, <1>10 DEF OwedInv, IsOwed
    <2> HIDE DEF c
    <2>4. Counted(Since(pending_effects', Awaits(p), Activation(p)), c + 0)
        BY Zenon, <1>1, <2>1, <2>2, <2>3, SinceAppend DEF Behind
    <2>5. c + 0 = c
        BY <2>3 DEF Counted
    <2>. QED  BY Zenon, <1>3, <1>10, <2>4, <2>5 DEF Behind, IsOwed, c
<1>11. \A i \in DOMAIN pending_effects : i \in DOMAIN pending_effects'
    <2>1. Len(pending_effects) \in Nat
        BY Zenon, <1>1, SeqIs
    <2>2. DOMAIN pending_effects' = 1 .. (Len(pending_effects) + 1)
          /\ DOMAIN pending_effects = 1 .. Len(pending_effects)
        BY <1>1, SeqAppend, SeqIs
    <2>. QED  BY <2>1, <2>2
<1> HIDE DEF n
<1>12. \A p \in Observers : (Here(p) => subs[p].kind \in Kinds /\ IsOwed(p))'
    <2>. SUFFICES ASSUME NEW p \in Observers, Here(p)'
                 PROVE  (subs[p].kind \in Kinds /\ IsOwed(p))'
        BY Zenon
    <2>1. CASE p = o
        BY Zenon, <1>4, <1>5, <1>8, <2>1
    <2>2. CASE p # o
        BY Zenon, <1>2, <1>3, <1>10, <2>2 DEF OwedInv
    <2>. QED  BY Zenon, <2>1, <2>2
<1>13. \A p \in Observers : (~Here(p) => owed[p] = 0)'
    BY Zenon, <1>3, <1>4 DEF OwedInv
<1>14. \A p \in Observers :
        (subs[p].state \in {"none", "active"} => Where(pending_effects, Activation(p)) = {})'
    <2>. SUFFICES ASSUME NEW p \in Observers, subs'[p].state \in {"none", "active"}
                 PROVE  Where(pending_effects', Activation(p)) = {}
        BY Zenon, <1>3
    <2>1. p # o
        BY Zenon, <1>4
    <2>. QED  BY Zenon, <1>2, <1>9, <2>1 DEF OwedInv
<1>15. \A p \in Observers :
        (subs[p].state = "pending" =>
           \E i \in DOMAIN pending_effects : Where(pending_effects, Activation(p)) = {i})'
    <2>. SUFFICES ASSUME NEW p \in Observers, subs'[p].state = "pending"
                 PROVE  \E i \in DOMAIN pending_effects' : Where(pending_effects', Activation(p)) = {i}
        BY Zenon, <1>3
    <2>1. CASE p = o
        BY Zenon, <1>7, <2>1
    <2>2. CASE p # o
        BY Zenon, <1>2, <1>9, <1>11, <2>2 DEF OwedInv
    <2>. QED  BY Zenon, <2>1, <2>2
<1>16. (calling # None =>
          \A p \in calling.left : /\ subs[p].state \in {"active", "dropped"}
                                  /\ Awaits(p) = Effect(calling.kind, calling.key))'
    <2>. SUFFICES ASSUME calling # None, NEW p \in calling.left
                 PROVE  /\ subs'[p].state \in {"active", "dropped"}
                        /\ Awaits(p)' = Effect(calling.kind, calling.key)
        BY Zenon
    <2>1. p # o /\ p \in Observers
        BY Zenon DEF OwedInv, TypeOK, CallType
    <2>. QED  BY Zenon, <1>2, <1>3, <2>1 DEF OwedInv
<1>. QED  BY Zenon, <1>12, <1>13, <1>14, <1>15, <1>16 DEF OwedInv

\* A call under way is none other than itself.
LEMMA CallingIs ==
    ASSUME NEW kind \in Kinds \cup {"release", "defer"}, NEW key \in Entities \cup Globals \cup {None},
           NEW left \in SUBSET Observers
    PROVE  /\ Calling(kind, key, left) \in CallType /\ Calling(kind, key, left) # None
           /\ Calling(kind, key, left).left = left
           /\ Calling(kind, key, left).kind = kind /\ Calling(kind, key, left).key = key
BY EffectsAssumption DEF Calling, CallType

\* Subscribers that are gone are owed nothing, and leave the others theirs.
LEMMA OwedForget ==
    ASSUME TypeOK, OwedInv, NEW gone \in SUBSET Observers, Forget(gone),
           \A o \in gone : Here(o),
           UNCHANGED <<pending_effects, pending_updates>>, pending_updates # 0,
           \/ calling' = calling
           \/ calling = None /\ calling'.left = {}
           \/ /\ calling # None /\ calling' = [calling EXCEPT !.left = @ \ gone]
    PROVE  OwedInv'
<1>1. /\ \A o \in gone : subs'[o].state = "dropped" /\ owed'[o] = 0
      /\ \A o \in gone : subs'[o].kind = subs[o].kind /\ subs'[o].key = subs[o].key
      /\ \A o \in Observers : o \notin gone => subs'[o] = subs[o] /\ owed'[o] = owed[o]
    <2>1. subs \in [Observers -> [kind : Kinds \cup {"none"}, key : Entities \cup Globals \cup {None},
                                  state : {"none", "pending", "active", "dropped"}]]
        BY Zenon DEF TypeOK
    <2>. QED  BY Zenon, <2>1 DEF Forget
<1>2. \A o \in Observers : o \notin gone =>
         /\ Here(o)' = Here(o) /\ Awaits(o)' = Awaits(o) /\ Activation(o)' = Activation(o)
    BY Zenon, <1>1 DEF Here, Awaits, Activation
<1>3. /\ calling' # None => \A o \in calling'.left : o \in calling.left /\ calling # None
      /\ calling' # None /\ calling # None => /\ calling'.kind = calling.kind
                                              /\ calling'.key = calling.key
      /\ \A o \in Observers : o \notin gone => Left(o)' = Left(o)
    <2>1. CASE calling' = calling
        BY Zenon, <2>1 DEF Left
    <2>2. CASE calling = None /\ calling'.left = {}
        BY Zenon, <2>2 DEF Left
    <2>3. CASE calling # None /\ calling' = [calling EXCEPT !.left = @ \ gone]
        <3>1. calling \in CallType
            BY Zenon, <2>3 DEF TypeOK
        <3>2. /\ calling'.left = calling.left \ gone /\ calling'.kind = calling.kind
              /\ calling'.key = calling.key /\ calling' \in CallType
            BY Zenon, <2>3, <3>1 DEF CallType
        <3>3. calling' # None
            BY Zenon, <3>2, EffectsAssumption
        <3>. QED  BY Zenon, <2>3, <3>2, <3>3 DEF Left
    <2>. QED  BY Zenon, <2>1, <2>2, <2>3
<1>4. \A o \in gone : ~Here(o)' /\ Awaits(o)' = Awaits(o)
    BY Zenon, <1>1 DEF Here, Awaits
<1>5. \A o \in Observers : (~Here(o) => owed[o] = 0)'
    BY Zenon, <1>1, <1>2, <1>4 DEF OwedInv
<1>6. \A o \in Observers : (Here(o) => subs[o].kind \in Kinds /\ IsOwed(o))'
    <2>. SUFFICES ASSUME NEW o \in Observers, Here(o)'
                 PROVE  (subs[o].kind \in Kinds /\ IsOwed(o))'
        BY Zenon
    <2>1. o \notin gone
        BY Zenon, <1>4
    <2>2. Behind(o)' = Behind(o) /\ Left(o)' = Left(o) /\ owed'[o] = owed[o]
        BY Zenon, <1>1, <1>2, <1>3, <2>1 DEF Behind
    <2>. QED  BY Zenon, <1>1, <1>2, <2>1, <2>2 DEF OwedInv, IsOwed
<1>7. \A o \in Observers :
        (subs[o].state \in {"none", "active"} => Where(pending_effects, Activation(o)) = {})'
    <2>1. \A o \in Observers : subs'[o].state \in {"none", "active"} => o \notin gone
        BY Zenon, <1>1
    <2>. QED  BY Zenon, <1>1, <1>2, <2>1 DEF OwedInv
<1>8. \A o \in Observers :
        (subs[o].state = "pending" =>
           \E i \in DOMAIN pending_effects : Where(pending_effects, Activation(o)) = {i})'
    <2>1. \A o \in Observers : subs'[o].state = "pending" => o \notin gone
        BY Zenon, <1>1
    <2>. QED  BY Zenon, <1>1, <1>2, <2>1 DEF OwedInv
<1>9. (calling # None =>
          \A o \in calling.left : /\ subs[o].state \in {"active", "dropped"}
                                  /\ Awaits(o) = Effect(calling.kind, calling.key))'
    <2>. SUFFICES ASSUME calling' # None, NEW o \in calling'.left
                 PROVE  /\ subs'[o].state \in {"active", "dropped"}
                        /\ Awaits(o)' = Effect(calling'.kind, calling'.key)
        BY Zenon
    <2>1. calling # None /\ o \in calling.left /\ o \in Observers
        BY Zenon, <1>3 DEF TypeOK, CallType
    <2>2. subs[o].state \in {"active", "dropped"} /\ Awaits(o) = Effect(calling.kind, calling.key)
        BY Zenon, <2>1 DEF OwedInv
    <2>. QED  BY Zenon, <1>1, <1>2, <1>3, <1>4, <2>1, <2>2
<1>. QED  BY Zenon, <1>5, <1>6, <1>7, <1>8, <1>9 DEF OwedInv

\* What popping the first effect does to an activation queued.
LEMMA ActivationPopped ==
    ASSUME NEW E, NEW s \in Seq(E), s # <<>>, NEW a
    PROVE  /\ Where(s, a) = {} => Where(Tail(s), a) = {}
           /\ \A i : Where(s, a) = {i} /\ Head(s) = a => Where(Tail(s), a) = {}
           /\ \A i : Where(s, a) = {i} /\ Head(s) # a =>
                \E j \in DOMAIN Tail(s) : Where(Tail(s), a) = {j}
<1>1. Where(Tail(s), a) = Shift(Where(s, a)) /\ (1 \in Where(s, a) <=> Head(s) = a)
    BY WhereTail
<1>2. Where(s, a) \subseteq Nat \ {0}
    BY Zenon, WhereIs
<1>3. Shift({}) = {}
    BY Zenon DEF Shift
<1>4. Shift({1}) = {}
    BY DEF Shift
<1>5. ASSUME NEW i, Where(s, a) = {i}, Head(s) # a
      PROVE  \E j \in DOMAIN Tail(s) : Where(Tail(s), a) = {j}
    <2>1. i \in Nat \ {0} /\ i # 1
        BY Zenon, <1>1, <1>2, <1>5
    <2>2. Shift({i}) = {i - 1}
        BY <2>1 DEF Shift
    <2>3. i - 1 \in Where(Tail(s), a)
        BY Zenon, <1>1, <1>5, <2>2
    <2>. QED  BY Zenon, <1>1, <1>5, <2>2, <2>3 DEF Where
<1>6. ASSUME NEW i, Where(s, a) = {i}, Head(s) = a
      PROVE  Where(Tail(s), a) = {}
    BY Zenon, <1>1, <1>4, <1>6
<1>. QED  BY Zenon, <1>1, <1>3, <1>5, <1>6

\* An effect is popped: what it is for is called, its subscriber activated, or neither.
LEMMA OwedPop ==
    ASSUME TypeOK, OwedInv, Popping, pending_effects' = Tail(pending_effects),
           UNCHANGED <<owed, pending_updates>>, pending_updates # 0,
           \/ /\ popped.kind \in Kinds /\ subs' = subs
              /\ calling' = Calling(popped.kind, popped.key, Active(popped.kind, popped.key))
           \/ /\ popped.kind = "activate" /\ calling' = None
              /\ subs' = IF subs[popped.key].state = "pending"
                         THEN [subs EXCEPT ![popped.key].state = "active"] ELSE subs
           \/ /\ popped.kind \in {"defer", "refresh"} /\ subs' = subs
              /\ calling' \in {None, Calling("defer", None, {})}
    PROVE  OwedInv'
<1> DEFINE s == pending_effects
<1>1. /\ s \in Seq(EffectType) /\ s # <<>> /\ calling = None /\ s' = Tail(s)
      /\ DOMAIN subs = Observers
    BY Zenon DEF TypeOK, Popping, Flushing
<1>2. Head(s) = popped /\ popped \in EffectType
    BY Zenon, <1>1, WhereTail DEF popped
<1>3. /\ popped = Effect(popped.kind, popped.key)
      /\ popped.kind \in Kinds \cup {"activate", "defer", "refresh"}
      /\ popped.kind \in Kinds => popped.key \in Entities \cup Globals
      /\ popped.kind = "activate" => popped.key \in Observers
    BY Zenon, <1>2, EffectTypes DEF Kinds
<1> HIDE DEF s
<1>4. /\ \A o \in Observers : /\ subs'[o].kind = subs[o].kind /\ subs'[o].key = subs[o].key
                              /\ \/ subs'[o].state = subs[o].state /\
                                    ~(popped = Activation(o) /\ subs[o].state = "pending")
                                 \/ /\ subs[o].state = "pending" /\ subs'[o].state = "active"
                                    /\ popped = Activation(o)
    <2>. SUFFICES ASSUME NEW o \in Observers
                 PROVE  /\ subs'[o].kind = subs[o].kind /\ subs'[o].key = subs[o].key
                        /\ \/ subs'[o].state = subs[o].state /\
                              ~(popped = Activation(o) /\ subs[o].state = "pending")
                           \/ /\ subs[o].state = "pending" /\ subs'[o].state = "active"
                              /\ popped = Activation(o)
        BY Zenon
    <2>1. popped = Activation(o) <=> popped.kind = "activate" /\ popped.key = o
        BY <1>3, EffectIs DEF Activation
    <2>2. CASE popped.kind # "activate"
        BY Zenon, <2>1, <2>2 DEF Kinds
    <2>3. CASE popped.kind = "activate"
        <3>1. subs[o] \in [kind : Kinds \cup {"none"}, key : Entities \cup Globals \cup {None},
                           state : {"none", "pending", "active", "dropped"}]
            BY Zenon DEF TypeOK
        <3>2. subs' = IF subs[popped.key].state = "pending"
                      THEN [subs EXCEPT ![popped.key].state = "active"] ELSE subs
            BY Zenon, <2>3 DEF Kinds
        <3>. QED  BY Zenon, <1>1, <2>1, <2>3, <3>1, <3>2
    <2>. QED  BY Zenon, <2>2, <2>3
<1>5. \A o \in Observers : /\ Here(o)' = Here(o) /\ Awaits(o)' = Awaits(o)
                           /\ Activation(o)' = Activation(o)
    BY <1>4 DEF Here, Awaits, Activation
<1>6. ASSUME NEW o \in Observers, Here(o)
      PROVE  IsOwed(o)'
    <2> DEFINE less == IF popped = Awaits(o) /\ Where(s, Activation(o)) = {} THEN 1 ELSE 0
    <2>1. Counted(Since(Tail(s), Awaits(o), Activation(o)), (owed[o] - Left(o)) - less)
        <3>1. Counted(Since(s, Awaits(o), Activation(o)), owed[o] - Left(o))
            BY Zenon, <1>6 DEF OwedInv, IsOwed, Behind, s
        <3>. QED  BY Zenon, <1>1, <1>2, <3>1, SinceTail
    <2>2. Where(s, Activation(o)) = {} <=> subs[o].state = "active"
        BY Zenon, <1>6 DEF OwedInv, Here, s
    <2>3. Left(o)' = IF popped = Awaits(o) /\ subs[o].state = "active" THEN 1 ELSE 0
        <3>0. popped = Awaits(o) <=> popped.kind = subs[o].kind /\ popped.key = subs[o].key
            BY <1>3, EffectIs DEF Awaits
        <3>1. CASE popped.kind \in Kinds
            <4>1. calling' = Calling(popped.kind, popped.key, Active(popped.kind, popped.key))
                BY Zenon, <3>1 DEF Kinds
            <4>2. Active(popped.kind, popped.key) \in SUBSET Observers
                BY Zenon DEF Active
            <4>3. calling' # None /\ calling'.left = Active(popped.kind, popped.key)
                BY <1>3, <3>1, <4>1, <4>2, CallingIs
            <4>4. o \in Active(popped.kind, popped.key) <=>
                    popped = Awaits(o) /\ subs[o].state = "active"
                BY Zenon, <3>0 DEF Active, Subscribed
            <4>. QED  BY Zenon, <4>3, <4>4 DEF Left
        <3>2. CASE popped.kind \notin Kinds
            <4>1. popped # Awaits(o)
                BY Zenon, <1>6, <3>0, <3>2 DEF OwedInv
            <4>2. calling' = None \/ calling' = Calling("defer", None, {})
                BY Zenon, <3>2
            <4>3. Calling("defer", None, {}).left = {}
                BY Zenon DEF Calling
            <4>. QED  BY Zenon, <4>1, <4>2, <4>3 DEF Left
        <3>. QED  BY Zenon, <3>1, <3>2
    <2>4. Left(o) = 0
        BY Zenon, <1>1 DEF Left
    <2>5. owed[o] \in Int /\ owed' = owed
        BY Zenon DEF TypeOK
    <2>6. Left(o)' = less
        BY Zenon, <2>2, <2>3
    <2> HIDE DEF less
    <2>7. (owed[o] - Left(o)) - less = owed'[o] - Left(o)'
        BY <2>4, <2>5, <2>6
    <2>. QED  BY Zenon, <1>1, <1>5, <2>1, <2>7 DEF IsOwed, Behind, s
<1>7. \A o \in Observers : (~Here(o) => owed[o] = 0)'
    BY Zenon, <1>5 DEF OwedInv
<1>8. \A o \in Observers : (Here(o) => subs[o].kind \in Kinds /\ IsOwed(o))'
    BY Zenon, <1>4, <1>5, <1>6 DEF OwedInv
<1>9. \A o \in Observers :
        (subs[o].state \in {"none", "active"} => Where(pending_effects, Activation(o)) = {})'
    <2>. SUFFICES ASSUME NEW o \in Observers, subs'[o].state \in {"none", "active"}
                 PROVE  Where(Tail(s), Activation(o)) = {}
        BY Zenon, <1>1, <1>5 DEF s
    <2>1. CASE subs'[o].state = subs[o].state
        <3>1. Where(s, Activation(o)) = {}
            BY Zenon, <2>1 DEF OwedInv, s
        <3>. QED  BY Zenon, <1>1, <3>1, ActivationPopped
    <2>2. CASE subs[o].state = "pending" /\ popped = Activation(o)
        <3>1. \E i : Where(s, Activation(o)) = {i}
            BY Zenon, <2>2 DEF OwedInv, s
        <3>. QED  BY <1>1, <1>2, <2>2, <3>1, ActivationPopped
    <2>. QED  BY Zenon, <1>4, <2>1, <2>2
<1>10. \A o \in Observers :
        (subs[o].state = "pending" =>
           \E i \in DOMAIN pending_effects : Where(pending_effects, Activation(o)) = {i})'
    <2>. SUFFICES ASSUME NEW o \in Observers, subs'[o].state = "pending"
                 PROVE  \E i \in DOMAIN Tail(s) : Where(Tail(s), Activation(o)) = {i}
        BY Zenon, <1>1, <1>5 DEF s
    <2>1. subs[o].state = "pending" /\ popped # Activation(o)
        BY Zenon, <1>4
    <2>2. \E i : Where(s, Activation(o)) = {i}
        BY Zenon, <2>1 DEF OwedInv, s
    <2>. QED  BY Zenon, <1>1, <1>2, <2>1, <2>2, ActivationPopped
<1>11. (calling # None =>
          \A o \in calling.left : /\ subs[o].state \in {"active", "dropped"}
                                  /\ Awaits(o) = Effect(calling.kind, calling.key))'
    <2>. SUFFICES ASSUME calling' # None, NEW o \in calling'.left
                 PROVE  /\ subs'[o].state \in {"active", "dropped"}
                        /\ Awaits(o)' = Effect(calling'.kind, calling'.key)
        BY Zenon
    <2>1. CASE popped.kind \in Kinds
        <3>1. calling' = Calling(popped.kind, popped.key, Active(popped.kind, popped.key))
              /\ subs' = subs
            BY Zenon, <2>1 DEF Kinds
        <3>2. Active(popped.kind, popped.key) \in SUBSET Observers
            BY Zenon DEF Active
        <3>3. /\ calling'.left = Active(popped.kind, popped.key)
              /\ calling'.kind = popped.kind /\ calling'.key = popped.key
            BY <1>3, <2>1, <3>1, <3>2, CallingIs
        <3>. QED  BY Zenon, <3>1, <3>3 DEF Active, Subscribed, Awaits
    <2>2. CASE popped.kind \notin Kinds
        <3>1. calling' = Calling("defer", None, {})
            BY Zenon, <2>2
        <3>2. calling'.left = {}
            BY Zenon, <3>1 DEF Calling
        <3>. QED  BY Zenon, <3>2
    <2>. QED  BY Zenon, <2>1, <2>2
<1>. QED  BY Zenon, <1>7, <1>8, <1>9, <1>10, <1>11 DEF OwedInv

\* A subscriber of the effect being applied is called.
LEMMA OwedCall ==
    ASSUME TypeOK, OwedInv, NEW o \in Observers, call_subscriber(o)
    PROVE  OwedInv'
<1>1. /\ flushing /\ calling # None /\ pending_updates = 1 /\ o \in calling.left
      /\ calling' = [calling EXCEPT !.left = @ \ {o}]
      /\ UNCHANGED <<pending_effects, pending_updates>>
    BY Zenon DEF call_subscriber, effects
<1>2. calling \in CallType
    BY Zenon, <1>1 DEF TypeOK
<1>3. /\ calling'.left = calling.left \ {o} /\ calling'.kind = calling.kind
      /\ calling'.key = calling.key /\ calling' \in CallType
    BY Zenon, <1>1, <1>2 DEF CallType
<1>4. calling' # None
    BY Zenon, <1>3, EffectsAssumption
<1>5. subs[o].state \in {"active", "dropped"} /\ pending_updates # 0
    BY Zenon, <1>1 DEF OwedInv
<1>6. CASE subs[o].state = "active" /\ calling.key \in dropped
    <2>1. Forget({o})
        BY Zenon, <1>6 DEF call_subscriber
    <2>. QED  BY Zenon, <1>1, <1>5, <1>6, <2>1, OwedForget DEF Here
<1>7. CASE subs[o].state # "active" \/ calling.key \notin dropped
    <2>1. /\ subs' = subs
          /\ owed' = IF subs[o].state = "active" THEN [owed EXCEPT ![o] = @ - 1] ELSE owed
        BY Zenon, <1>7 DEF call_subscriber
    <2>2. \A p \in Observers : /\ Here(p)' = Here(p) /\ Awaits(p)' = Awaits(p)
                               /\ Activation(p)' = Activation(p) /\ subs'[p] = subs[p]
        BY Zenon, <2>1 DEF Here, Awaits, Activation
    <2>3. Left(o) = 1 /\ Left(o)' = 0 /\ \A p \in Observers : p # o => Left(p)' = Left(p)
        BY Zenon, <1>1, <1>3, <1>4 DEF Left
    <2>4. owed \in [Observers -> Int] /\ pending_effects \in Seq(EffectType)
        BY Zenon DEF TypeOK
    <2>5. ASSUME NEW p \in Observers, Here(p)
          PROVE  IsOwed(p)'
        <3>1. Behind(p)' = Behind(p) /\ Counted(Behind(p), owed[p] - Left(p)) /\ owed[p] \in Int
            BY Zenon, <1>1, <2>2, <2>4, <2>5 DEF Behind, IsOwed, OwedInv
        <3>2. owed'[p] - Left(p)' = owed[p] - Left(p)
            <4>1. CASE p = o
                <5>1. subs[o].state = "active"
                    BY Zenon, <1>5, <2>5, <4>1 DEF Here
                <5>2. owed'[o] = owed[o] - 1
                    BY Zenon, <2>1, <2>4, <5>1
                <5>. QED  BY <2>3, <3>1, <4>1, <5>2
            <4>2. CASE p # o
                <5>1. owed'[p] = owed[p]
                    BY Zenon, <2>1, <2>4, <4>2
                <5>. QED  BY Zenon, <2>3, <4>2, <5>1
            <4>. QED  BY Zenon, <4>1, <4>2
        <3>. QED  BY Zenon, <3>1, <3>2 DEF IsOwed
    <2>6. ASSUME NEW p \in Observers, ~Here(p)
          PROVE  owed'[p] = 0
        <3>1. owed[p] = 0 /\ subs[p].state # "active"
            BY Zenon, <2>6 DEF OwedInv, Here
        <3>. QED  BY Zenon, <2>1, <2>4, <3>1
    <2>7. \A p \in Observers : (Here(p) => subs[p].kind \in Kinds /\ IsOwed(p))'
        BY Zenon, <2>2, <2>5 DEF OwedInv
    <2>8. \A p \in Observers : (~Here(p) => owed[p] = 0)'
        BY Zenon, <2>2, <2>6
    <2>9. /\ \A p \in Observers :
               (subs[p].state \in {"none", "active"} => Where(pending_effects, Activation(p)) = {})'
          /\ \A p \in Observers :
               (subs[p].state = "pending" =>
                 \E i \in DOMAIN pending_effects : Where(pending_effects, Activation(p)) = {i})'
        BY Zenon, <1>1, <2>2 DEF OwedInv
    <2>10. \A p \in calling'.left : /\ subs'[p].state \in {"active", "dropped"}
                                    /\ Awaits(p)' = Effect(calling'.kind, calling'.key)
        BY Zenon, <1>1, <1>3, <2>1 DEF OwedInv, Awaits
    <2>. QED  BY Zenon, <1>1, <1>5, <2>7, <2>8, <2>9, <2>10 DEF OwedInv
<1>. QED  BY Zenon, <1>6, <1>7

-----------------------------------------------------------------------------
\* The effects pushed are effects.
LEMMA EffectIn ==
    /\ \A e \in Entities : Effect("notify", e) \in EffectType /\ Effect("event", e) \in EffectType
    /\ \A g \in Globals : Effect("global", g) \in EffectType
    /\ \A o \in Observers : Effect("activate", o) \in EffectType
    /\ Effect("defer", None) \in EffectType /\ Effect("refresh", None) \in EffectType
BY Zenon DEF Effect, EffectType

\* What subscribers are owed is integers, whatever is pushed or forgotten.
LEMMA OwedTypes ==
    ASSUME TypeOK
    PROVE  /\ \A kind, key : Owing(kind, key) \in [Observers -> Int]
           /\ \A gone \in SUBSET Observers : Forget(gone) =>
                /\ subs' \in [Observers -> [kind : Kinds \cup {"none"},
                                            key : Entities \cup Globals \cup {None},
                                            state : {"none", "pending", "active", "dropped"}]]
                /\ owed' \in [Observers -> Int] /\ muted' \subseteq Observers
<1>1. owed \in [Observers -> Int] /\ muted \subseteq Observers
    BY Zenon DEF TypeOK
<1>2. subs \in [Observers -> [kind : Kinds \cup {"none"}, key : Entities \cup Globals \cup {None},
                              state : {"none", "pending", "active", "dropped"}]]
    BY Zenon DEF TypeOK
<1>3. \A kind, key : Owing(kind, key) \in [Observers -> Int]
    BY <1>1 DEF Owing
<1>4. \A gone \in SUBSET Observers : Forget(gone) =>
        owed' \in [Observers -> Int] /\ muted' \subseteq Observers
    BY <1>1 DEF Forget
<1>5. \A gone \in SUBSET Observers : Forget(gone) =>
        subs' \in [Observers -> [kind : Kinds \cup {"none"}, key : Entities \cup Globals \cup {None},
                                 state : {"none", "pending", "active", "dropped"}]]
    BY <1>2 DEF Forget
<1>. QED  BY Zenon, <1>3, <1>4, <1>5

\* What is pushed is queued with effects.
LEMMA PushTypes ==
    ASSUME TypeOK, NEW x \in EffectType
    PROVE  Append(pending_effects, x) \in Seq(EffectType)
BY Zenon, SeqAppend DEF TypeOK

\* What is popped leaves effects, and is one.
LEMMA PoppedTypes ==
    ASSUME TypeOK, Popping
    PROVE  /\ Tail(pending_effects) \in Seq(EffectType) /\ popped \in EffectType
           /\ pending_effects \in Seq(EffectType) /\ pending_effects # <<>>
           /\ popped.kind \in Kinds => popped.key \in Entities \cup Globals
           /\ popped.kind = "activate" => popped.key \in Observers
<1>1. pending_effects \in Seq(EffectType) /\ pending_effects # <<>>
    BY Zenon DEF TypeOK, Popping
<1>2. Tail(pending_effects) \in Seq(EffectType) /\ popped \in EffectType
    BY Zenon, <1>1, WhereTail DEF popped
<1>. QED  BY Zenon, <1>1, <1>2, EffectTypes DEF Kinds

\* The types of the variables are kept.
LEMMA TypeStep ==
    ASSUME TypeOK, WindowsInv, Next
    PROVE  TypeOK'
<1>0. Step => steps' \in 0..MaxSteps
    BY EffectsAssumption DEF Step, TypeOK
<1>1. ASSUME NEW e \in Entities, notify(e) PROVE TypeOK'
    <2>1. Live(e) \subseteq open
        BY Zenon DEF Live, TypeOK
    <2>2. /\ pending_effects' \in Seq(EffectType) /\ pending_notifications' \subseteq Entities
          /\ owed' \in [Observers -> Int] /\ muted' \subseteq Observers
        <3>1. CASE PushNotify(e) /\ muted' = muted
            <4>1. CASE e \in pending_notifications
                BY Zenon, <3>1, <4>1 DEF PushNotify, TypeOK
            <4>2. CASE e \notin pending_notifications
                <5>1. Append(pending_effects, Effect("notify", e)) \in Seq(EffectType)
                    BY Zenon, PushTypes, EffectIn
                <5>2. Owing("notify", e) \in [Observers -> Int]
                    BY Zenon, OwedTypes
                <5>. QED  BY Zenon, <3>1, <4>2, <5>1, <5>2 DEF PushNotify, TypeOK
            <4>. QED  BY Zenon, <4>1, <4>2
        <3>2. CASE /\ muted' = muted \cup Active("notify", e)
                   /\ UNCHANGED <<pending_effects, pending_notifications, owed>>
            BY Zenon, <3>2 DEF TypeOK, Active
        <3>. QED  BY Zenon, <1>1, <3>1, <3>2 DEF notify
    <2>3. /\ dirty' \subseteq open /\ dirty_views' \in [Windows -> SUBSET Entities]
          /\ unseen' \subseteq Windows \X Entities
        BY Zenon, <1>1, <2>1 DEF notify, TypeOK
    <2>4. steps' \in 0..MaxSteps
        BY Zenon, <1>0, <1>1 DEF notify
    <2>. QED  BY Zenon, <1>1, <2>2, <2>3, <2>4 DEF notify, TypeOK, control, entities
<1>2. ASSUME NEW e \in Entities, emit(e) PROVE TypeOK'
    <2>1. pending_effects' \in Seq(EffectType) /\ owed' \in [Observers -> Int]
        BY <1>2, OwedTypes, EffectIn DEF emit, TypeOK
    <2>2. steps' \in 0..MaxSteps
        BY Zenon, <1>0, <1>2 DEF emit
    <2>. QED  BY Zenon, <1>2, <2>1, <2>2 DEF emit, TypeOK, windows, control, entities
<1>3. ASSUME NEW e \in Entities, drop_entity(e) PROVE TypeOK'
    <2>1. steps' \in 0..MaxSteps
        BY Zenon, <1>0, <1>3 DEF drop_entity
    <2>. QED  BY Zenon, <1>3, <2>1 DEF drop_entity, TypeOK, effects, windows, control, history
<1>4. ASSUME NEW e \in Entities, release(e) PROVE TypeOK'
    <2> DEFINE gone == {o \in Observers : Subscribed(o, "notify", e) \/ Subscribed(o, "event", e)}
    <2>1. gone \in SUBSET Observers /\ Forget(gone)
        BY Zenon, <1>4 DEF release
    <2>2. calling' \in CallType
        BY Zenon, <1>4, CallingIs DEF release
    <2> HIDE DEF gone
    <2>3. window_invalidators_by_entity' \in [Entities -> SUBSET open]
        BY Zenon, <1>4 DEF release, TypeOK
    <2>4. /\ subs' \in [Observers -> [kind : Kinds \cup {"none"},
                                      key : Entities \cup Globals \cup {None},
                                      state : {"none", "pending", "active", "dropped"}]]
          /\ owed' \in [Observers -> Int] /\ muted' \subseteq Observers
        BY Zenon, <2>1, OwedTypes
    <2>. QED  BY Zenon, <1>4, <2>2, <2>3, <2>4 DEF release, TypeOK, effects
<1>5. ASSUME NEW g \in Globals, set_global(g) \/ remove_global(g) PROVE TypeOK'
    <2>1. /\ pending_effects' \in Seq(EffectType) /\ pending_global_notifications' \subseteq Globals
          /\ owed' \in [Observers -> Int]
        <3>1. PushGlobal(g)
            BY Zenon, <1>5 DEF set_global, remove_global
        <3>2. Append(pending_effects, Effect("global", g)) \in Seq(EffectType)
            BY Zenon, PushTypes, EffectIn
        <3>3. Owing("global", g) \in [Observers -> Int]
            BY Zenon, OwedTypes
        <3>. QED  BY Zenon, <3>1, <3>2, <3>3 DEF PushGlobal, TypeOK
    <2>2. steps' \in 0..MaxSteps
        BY Zenon, <1>0, <1>5 DEF set_global, remove_global
    <2>. QED  BY Zenon, <1>5, <2>1, <2>2 DEF set_global, remove_global, TypeOK, windows, control, entities
<1>6. CASE defer \/ refresh_windows
    <2>1. pending_effects' \in Seq(EffectType)
        BY Zenon, <1>6, EffectIn, PushTypes DEF defer, refresh_windows
    <2>2. steps' \in 0..MaxSteps
        BY Zenon, <1>0, <1>6 DEF defer, refresh_windows
    <2>. QED  BY Zenon, <1>6, <2>1, <2>2
              DEF defer, refresh_windows, TypeOK, windows, control, history, entities
<1>7. ASSUME NEW o \in Observers, NEW kind \in Kinds, NEW key \in Entities \cup Globals,
             observe(o, kind, key)
      PROVE  TypeOK'
    <2>1. pending_effects' \in Seq(EffectType)
        BY <1>7, EffectIn DEF observe, TypeOK
    <2>2. steps' \in 0..MaxSteps
        BY Zenon, <1>0, <1>7 DEF observe
    <2>3. subs' \in [Observers -> [kind : Kinds \cup {"none"}, key : Entities \cup Globals \cup {None},
                                   state : {"none", "pending", "active", "dropped"}]]
        BY Zenon, <1>7 DEF observe, TypeOK
    <2>. QED  BY Zenon, <1>7, <2>1, <2>2, <2>3 DEF observe, TypeOK, windows, control, history, entities
<1>8. ASSUME NEW o \in Observers, unsubscribe(o) PROVE TypeOK'
    <2>1. {o} \in SUBSET Observers /\ Forget({o})
        BY Zenon, <1>8 DEF unsubscribe
    <2>2. /\ subs' \in [Observers -> [kind : Kinds \cup {"none"},
                                      key : Entities \cup Globals \cup {None},
                                      state : {"none", "pending", "active", "dropped"}]]
          /\ owed' \in [Observers -> Int] /\ muted' \subseteq Observers
        BY Zenon, <2>1, OwedTypes
    <2>3. steps' \in 0..MaxSteps
        BY Zenon, <1>0, <1>8 DEF unsubscribe
    <2>. QED  BY Zenon, <1>8, <2>2, <2>3 DEF unsubscribe, TypeOK, effects, windows, control, entities
<1>9. ASSUME NEW o \in Observers, call_subscriber(o) PROVE TypeOK'
    <2>1. calling \in CallType /\ calling' = [calling EXCEPT !.left = @ \ {o}]
        BY Zenon, <1>9 DEF call_subscriber, TypeOK
    <2>2. calling' \in CallType
        BY Zenon, <2>1 DEF CallType
    <2>3. {o} \in SUBSET Observers
        BY Zenon
    <2>4. /\ subs' \in [Observers -> [kind : Kinds \cup {"none"},
                                      key : Entities \cup Globals \cup {None},
                                      state : {"none", "pending", "active", "dropped"}]]
          /\ owed' \in [Observers -> Int] /\ muted' \subseteq Observers
        <3>1. CASE Forget({o})
            BY Zenon, <2>3, <3>1, OwedTypes
        <3>2. CASE ~Forget({o})
            BY <1>9, <3>2 DEF call_subscriber, TypeOK
        <3>. QED  BY Zenon, <3>1, <3>2
    <2>. QED  BY Zenon, <1>9, <2>2, <2>4 DEF call_subscriber, TypeOK, effects, windows, entities
<1>10. CASE start_update
    BY <1>10, EffectsAssumption
       DEF start_update, TypeOK, effects, windows, history, entities
<1>11. CASE finish_update
    <2>1. pending_updates' \in 0..MaxDepth
        BY <1>11, EffectsAssumption DEF finish_update, UserCode, TypeOK
    <2>2. flushing' \in BOOLEAN
        <3>1. flushing \in BOOLEAN /\ (flushing' = TRUE \/ flushing' = flushing)
            BY Zenon, <1>11 DEF finish_update, TypeOK
        <3>. QED  BY Zenon, <3>1
    <2>. QED  BY Zenon, <1>11, <2>1, <2>2 DEF finish_update, TypeOK, effects, windows, history, entities
<1>12. CASE take_dropped
    BY Zenon, <1>12 DEF take_dropped, TypeOK, effects, windows, control, history
<1>13. CASE apply_effect
    <2>1. /\ pending_effects' \in Seq(EffectType) /\ popped.kind \in Kinds
          /\ popped.key \in Entities \cup Globals
        BY Zenon, <1>13, PoppedTypes DEF apply_effect
    <2>2. Active(popped.kind, popped.key) \in SUBSET Observers
        BY Zenon DEF Active
    <2>3. calling' \in CallType
        BY Zenon, <1>13, <2>1, <2>2, CallingIs DEF apply_effect
    <2>. QED  BY Zenon, <1>13, <2>1, <2>3 DEF apply_effect, TypeOK, windows, entities
<1>14. CASE effect_applied
    BY Zenon, <1>14 DEF effect_applied, TypeOK, effects, windows, history, entities
<1>15. CASE activate
    <2>1. pending_effects' \in Seq(EffectType) /\ popped.key \in Observers
        BY Zenon, <1>15, PoppedTypes DEF activate
    <2>2. subs' \in [Observers -> [kind : Kinds \cup {"none"}, key : Entities \cup Globals \cup {None},
                                   state : {"none", "pending", "active", "dropped"}]]
        <3>1. subs \in [Observers -> [kind : Kinds \cup {"none"},
                                      key : Entities \cup Globals \cup {None},
                                      state : {"none", "pending", "active", "dropped"}]]
            BY Zenon DEF TypeOK
        <3>2. [subs[popped.key] EXCEPT !.state = "active"] \in
                [kind : Kinds \cup {"none"}, key : Entities \cup Globals \cup {None},
                 state : {"none", "pending", "active", "dropped"}]
            BY Zenon, <2>1, <3>1
        <3>3. \/ subs' = [subs EXCEPT ![popped.key] = [subs[popped.key] EXCEPT !.state = "active"]]
              \/ subs' = subs
            BY Zenon, <1>15 DEF activate
        <3>. QED  BY Zenon, <2>1, <3>1, <3>2, <3>3
    <2>. QED  BY Zenon, <1>15, <2>1, <2>2 DEF activate, TypeOK, windows, control, history, entities
<1>16. CASE apply_defer_effect
    <2>1. pending_effects' \in Seq(EffectType)
        BY Zenon, <1>16, PoppedTypes DEF apply_defer_effect
    <2>2. calling' \in CallType
        BY Zenon, <1>16 DEF apply_defer_effect, Calling, CallType
    <2>. QED  BY Zenon, <1>16, <2>1, <2>2 DEF apply_defer_effect, TypeOK, windows, history, entities
<1>17. CASE apply_refresh_effect
    <2>1. pending_effects' \in Seq(EffectType)
        BY Zenon, <1>17, PoppedTypes DEF apply_refresh_effect
    <2>. QED  BY Zenon, <1>17, <2>1 DEF apply_refresh_effect, TypeOK, control, history, entities
<1>18. CASE flush_end
    <2>1. pending_updates' \in 0..MaxDepth
        BY <1>18, EffectsAssumption DEF flush_end
    <2>2. flushing' \in BOOLEAN /\ scheduled' \subseteq open
        BY Zenon, <1>18 DEF flush_end, TypeOK
    <2>. QED  BY Zenon, <1>18, <2>1, <2>2 DEF flush_end, TypeOK, effects, history, entities
<1>19. ASSUME NEW w \in Windows, begin_draw(w) PROVE TypeOK'
    <2>1. steps' \in 0..MaxSteps /\ pending_updates' \in 0..MaxDepth
        BY <1>19, EffectsAssumption DEF begin_draw, TypeOK
    <2>2. dirty_views' \in [Windows -> SUBSET Entities]
        BY Zenon, <1>19 DEF begin_draw, TypeOK
    <2>. QED  BY Zenon, <1>19, <2>1, <2>2 DEF begin_draw, TypeOK, effects, entities
<1>20. ASSUME NEW w \in Windows, remove_window(w) PROVE TypeOK'
    <2>1. steps' \in 0..MaxSteps
        BY Zenon, <1>0, <1>20 DEF remove_window
    <2>2. /\ dirty_views' \in [Windows -> SUBSET Entities]
          /\ tracked_entities' \in [Windows -> SUBSET Entities]
        BY Zenon, <1>20 DEF remove_window, TypeOK
    <2>3. window_invalidators_by_entity' \in [Entities -> SUBSET open']
        <3>1. \A e \in Entities : w \in window_invalidators_by_entity[e] => e \in tracked_entities[w]
            BY Zenon DEF WindowsInv
        <3>2. window_invalidators_by_entity \in [Entities -> SUBSET open]
            BY Zenon DEF TypeOK
        <3>. QED  BY Zenon, <1>20, <3>1, <3>2 DEF remove_window
    <2>. QED  BY Zenon, <1>20, <2>1, <2>2, <2>3 DEF remove_window, TypeOK, effects, control, entities
<1>21. ASSUME NEW drawn \in SUBSET alive, record_entities_accessed(drawn) PROVE TypeOK'
    <2>1. drawing \in open /\ open \subseteq Windows /\ drawn \subseteq Entities
        BY Zenon, <1>21 DEF record_entities_accessed, TypeOK
    <2>2. tracked_entities' \in [Windows -> SUBSET Entities]
        BY Zenon, <1>21, <2>1 DEF record_entities_accessed, TypeOK
    <2>3. window_invalidators_by_entity' \in [Entities -> SUBSET open]
        <3>1. window_invalidators_by_entity \in [Entities -> SUBSET open]
            BY Zenon DEF TypeOK
        <3>. QED  BY Zenon, <1>21, <2>1, <3>1 DEF record_entities_accessed
    <2>. QED  BY Zenon, <1>21, <2>2, <2>3
              DEF record_entities_accessed, TypeOK, effects, control, history, entities
<1>22. {"notify", "event"} \subseteq Kinds /\ "global" \in Kinds
    BY Zenon DEF Kinds
<1>. QED  BY Zenon, <1>1, <1>2, <1>3, <1>4, <1>5, <1>6, <1>7, <1>8, <1>9, <1>10, <1>11, <1>12, <1>13,
             <1>14, <1>15, <1>16, <1>17, <1>18, <1>19, <1>20, <1>21, <1>22 DEF Next

\* Which windows an entity invalidates, and which are dirty, stays as it should be.
LEMMA WindowsStep ==
    ASSUME TypeOK, UpdatesInv, WindowsInv, Next
    PROVE  WindowsInv'
<1> DEFINE inv == window_invalidators_by_entity
           Tracks(e, w) == /\ w \in inv[e] => e \in tracked_entities[w]
                           /\ e \in alive => (w \in inv[e] <=> e \in tracked_entities[w])
<1>0. WindowsInv <=> /\ \A n \in unseen : n[1] \in dirty
                     /\ pending_updates = 0 => dirty \subseteq scheduled
                     /\ \A e \in Entities, w \in Windows : Tracks(e, w)
    <2>1. alive \subseteq Entities
        BY Zenon DEF TypeOK
    <2>. QED  BY Zenon, <2>1 DEF WindowsInv, TrackedIsInvalidated
<1>00. (/\ \A n \in unseen : n[1] \in dirty
        /\ pending_updates = 0 => dirty \subseteq scheduled
        /\ \A e \in Entities, w \in Windows : Tracks(e, w))' => WindowsInv'
    <2>1. alive' \subseteq Entities
        BY Zenon, TypeStep DEF TypeOK
    <2>. QED  BY Zenon, <2>1 DEF WindowsInv, TrackedIsInvalidated
<1>1. ASSUME UNCHANGED <<unseen, dirty, scheduled, inv, tracked_entities, alive>>,
             pending_updates' = 0 => pending_updates = 0
      PROVE  WindowsInv'
    BY Zenon, <1>0, <1>00, <1>1
<1>2. ASSUME NEW e \in Entities, notify(e) PROVE WindowsInv'
    <2>1. /\ unseen' = unseen \cup ((Live(e) \ {drawing}) \X {e})
          /\ dirty' = dirty \cup (Live(e) \ {drawing})
          /\ UNCHANGED <<inv, tracked_entities, alive, pending_updates>> /\ pending_updates # 0
        BY <1>2 DEF notify, control, entities, Step, UserCode
    <2>2. \A n \in unseen' : n[1] \in dirty'
        BY Zenon, <1>0, <2>1
    <2>. QED  BY Zenon, <1>0, <1>00, <2>1, <2>2
<1>3. ASSUME NEW e \in Entities, emit(e) \/ drop_entity(e) PROVE WindowsInv'
    BY Zenon, <1>1, <1>3 DEF emit, drop_entity, windows, control, history, entities
<1>4. ASSUME NEW e \in Entities, release(e) PROVE WindowsInv'
    <2>1. e \notin alive
        BY Zenon, <1>4 DEF release, TypeOK
    <2>2. /\ inv' = [inv EXCEPT ![e] = {}] /\ inv \in [Entities -> SUBSET open]
          /\ UNCHANGED <<unseen, dirty, scheduled, tracked_entities, alive, pending_updates>>
        BY Zenon, <1>4 DEF release, TypeOK
    <2>3. \A f \in Entities, w \in Windows : Tracks(f, w)'
        BY Zenon, <1>0, <2>1, <2>2
    <2>. QED  BY Zenon, <1>0, <1>00, <2>2, <2>3
<1>5. ASSUME NEW g \in Globals, set_global(g) \/ remove_global(g) PROVE WindowsInv'
    BY Zenon, <1>1, <1>5 DEF set_global, remove_global, windows, control, entities
<1>6. CASE defer \/ refresh_windows
    BY Zenon, <1>1, <1>6 DEF defer, refresh_windows, windows, control, history, entities
<1>7. ASSUME NEW o \in Observers, NEW kind, NEW key, observe(o, kind, key) PROVE WindowsInv'
    BY Zenon, <1>1, <1>7 DEF observe, windows, control, history, entities
<1>8. ASSUME NEW o \in Observers, unsubscribe(o) \/ call_subscriber(o) PROVE WindowsInv'
    BY Zenon, <1>1, <1>8 DEF unsubscribe, call_subscriber, windows, control, entities
<1>9. CASE start_update
    <2>1. pending_updates' # 0
        BY <1>9 DEF start_update, TypeOK
    <2>. QED  BY Zenon, <1>1, <1>9, <2>1 DEF start_update, windows, history, entities
<1>10. CASE finish_update
    <2>1. pending_updates' # 0
        BY <1>10 DEF finish_update, UserCode, TypeOK
    <2>. QED  BY Zenon, <1>1, <1>10, <2>1 DEF finish_update, windows, history, entities
<1>11. CASE take_dropped
    <2>1. /\ alive' \subseteq alive
          /\ UNCHANGED <<unseen, dirty, scheduled, inv, tracked_entities, pending_updates>>
        BY Zenon, <1>11 DEF take_dropped, windows, control, history
    <2>2. \A f \in Entities, w \in Windows : Tracks(f, w)'
        BY Zenon, <1>0, <2>1
    <2>. QED  BY Zenon, <1>0, <1>00, <2>1, <2>2
<1>12. CASE apply_effect \/ effect_applied \/ activate \/ apply_defer_effect
    BY Zenon, <1>1, <1>12
       DEF apply_effect, effect_applied, activate, apply_defer_effect, windows, control, history,
           entities
<1>13. CASE apply_refresh_effect
    <2>1. pending_updates # 0
        BY Zenon, <1>13 DEF apply_refresh_effect, Popping, Flushing, UpdatesInv
    <2>2. /\ dirty \subseteq dirty'
          /\ UNCHANGED <<unseen, scheduled, inv, tracked_entities, pending_updates, alive>>
        BY Zenon, <1>13 DEF apply_refresh_effect, control, history, entities
    <2>. QED  BY Zenon, <1>0, <1>00, <2>1, <2>2
<1>14. CASE flush_end
    <2>1. /\ scheduled' = scheduled \cup (dirty \cap open) /\ dirty \subseteq open
          /\ UNCHANGED <<unseen, dirty, inv, tracked_entities, alive>>
        BY Zenon, <1>14 DEF flush_end, history, entities, TypeOK
    <2>. QED  BY Zenon, <1>0, <1>00, <2>1
<1>15. ASSUME NEW w \in Windows, begin_draw(w) PROVE WindowsInv'
    <2>1. /\ unseen' = {n \in unseen : n[1] # w} /\ dirty' = dirty \ {w} /\ pending_updates' = 1
          /\ UNCHANGED <<inv, tracked_entities, alive>>
        BY Zenon, <1>15 DEF begin_draw, entities
    <2>2. \A n \in unseen' : n[1] \in dirty'
        BY Zenon, <1>0, <2>1
    <2>. QED  BY <1>0, <1>00, <2>1, <2>2
<1>16. ASSUME NEW w \in Windows, remove_window(w) PROVE WindowsInv'
    <2>1. /\ unseen' = {n \in unseen : n[1] # w} /\ dirty' = dirty \ {w}
          /\ pending_updates' # 0 /\ alive' = alive
          /\ inv' = [e \in Entities |-> IF e \in tracked_entities[w] THEN inv[e] \ {w} ELSE inv[e]]
          /\ tracked_entities' = [tracked_entities EXCEPT ![w] = {}]
        BY <1>16 DEF remove_window, entities, control, Step, UserCode
    <2>2. \A n \in unseen' : n[1] \in dirty'
        BY Zenon, <1>0, <2>1
    <2>3. tracked_entities \in [Windows -> SUBSET Entities]
        BY Zenon DEF TypeOK
    <2>4. ASSUME NEW e \in Entities, NEW v \in Windows PROVE Tracks(e, v)'
        <3>1. Tracks(e, v)
            BY Zenon, <1>0
        <3>2. CASE v = w
            <4>1. tracked_entities'[v] = {} /\ v \notin inv'[e]
                BY Zenon, <2>1, <2>3, <3>1, <3>2
            <4>. QED  BY Zenon, <4>1
        <3>3. CASE v # w
            <4>1. tracked_entities'[v] = tracked_entities[v] /\ (v \in inv'[e] <=> v \in inv[e])
                BY Zenon, <2>1, <2>3, <3>3
            <4>. QED  BY Zenon, <2>1, <3>1, <4>1
        <3>. QED  BY Zenon, <3>2, <3>3
    <2>. QED  BY Zenon, <1>00, <2>1, <2>2, <2>4
<1>17. ASSUME NEW drawn \in SUBSET alive, record_entities_accessed(drawn) PROVE WindowsInv'
    <2> DEFINE d == drawing
    <2>1. /\ d \in Windows /\ tracked_entities \in [Windows -> SUBSET Entities]
          /\ tracked_entities' = [tracked_entities EXCEPT ![d] = drawn]
          /\ inv' = [e \in Entities |->
                       IF e \in tracked_entities[d] \ drawn THEN inv[e] \ {d}
                       ELSE IF e \in drawn \ tracked_entities[d] THEN inv[e] \cup {d}
                       ELSE inv[e]]
          /\ UNCHANGED <<unseen, dirty, scheduled, alive, pending_updates>>
        BY Zenon, <1>17 DEF record_entities_accessed, TypeOK, control, history, entities
    <2> HIDE DEF d
    <2>2. ASSUME NEW e \in Entities, NEW v \in Windows PROVE Tracks(e, v)'
        <3>1. Tracks(e, v)
            BY Zenon, <1>0
        <3>2. CASE v = d
            <4>1. tracked_entities'[v] = drawn
                BY Zenon, <2>1, <3>2
            <4>2. v \in inv'[e] <=> \/ e \in drawn /\ e \notin tracked_entities[v]
                                    \/ v \in inv[e] /\ ~(e \in tracked_entities[v] /\ e \notin drawn)
                BY Zenon, <2>1, <3>2
            <4>3. e \in drawn => e \in alive
                BY Zenon
            <4>. QED  BY Zenon, <2>1, <3>1, <4>1, <4>2, <4>3
        <3>3. CASE v # d
            <4>1. tracked_entities'[v] = tracked_entities[v] /\ (v \in inv'[e] <=> v \in inv[e])
                BY Zenon, <2>1, <3>3
            <4>. QED  BY Zenon, <2>1, <3>1, <4>1
        <3>. QED  BY Zenon, <3>2, <3>3
    <2>. QED  BY Zenon, <1>0, <1>00, <2>1, <2>2
<1>. QED  BY Zenon, <1>2, <1>3, <1>4, <1>5, <1>6, <1>7, <1>8, <1>9, <1>10, <1>11, <1>12, <1>13, <1>14,
             <1>15, <1>16, <1>17 DEF Next

\* What is pushed and popped keeps count of what is pending.
LEMMA PendingStep ==
    ASSUME TypeOK, PendingIsQueued, Next
    PROVE  PendingIsQueued'
<1>1. /\ \A e \in Entities :
           Once(pending_effects, Effect("notify", e), e, pending_notifications)
      /\ \A g \in Globals :
           Once(pending_effects, Effect("global", g), g, pending_global_notifications)
    BY Zenon DEF PendingIsQueued, Queued, Where, Once
<1>2. ASSUME \A e \in Entities :
               Once(pending_effects', Effect("notify", e), e, pending_notifications'),
             \A g \in Globals :
               Once(pending_effects', Effect("global", g), g, pending_global_notifications')
      PROVE  PendingIsQueued'
    BY Zenon, <1>2 DEF PendingIsQueued, Queued, Where, Once
<1>3. pending_effects \in Seq(EffectType)
    BY Zenon DEF TypeOK
<1>4. ASSUME UNCHANGED effects PROVE PendingIsQueued'
    BY Zenon, <1>1, <1>2, <1>4 DEF effects
<1>5. ASSUME NEW x \in EffectType, pending_effects' = Append(pending_effects, x),
             x.kind \notin {"notify", "global"},
             UNCHANGED <<pending_notifications, pending_global_notifications>>
      PROVE  PendingIsQueued'
    <2>1. \A y : x # Effect("notify", y) /\ x # Effect("global", y)
        BY <1>5, EffectIs
    <2>. QED  BY Zenon, <1>1, <1>2, <1>3, <1>5, <2>1, OnceAppend
<1>6. ASSUME NEW e \in Entities, PushNotify(e), UNCHANGED pending_global_notifications
      PROVE  PendingIsQueued'
    <2>1. CASE e \in pending_notifications
        BY Zenon, <1>4, <1>6, <2>1 DEF PushNotify, effects
    <2>2. CASE e \notin pending_notifications
        <3> DEFINE x == Effect("notify", e)
        <3>1. /\ pending_effects' = Append(pending_effects, x) /\ x \in EffectType
              /\ pending_notifications' = pending_notifications \cup {e}
            BY Zenon, <1>6, <2>2, EffectIn DEF PushNotify
        <3>2. \A y : (x = Effect("notify", y) <=> y = e) /\ x # Effect("global", y)
            BY EffectIs
        <3> HIDE DEF x
        <3>3. ASSUME NEW y \in Entities
              PROVE  Once(pending_effects', Effect("notify", y), y, pending_notifications')
            <4>0. Once(pending_effects, Effect("notify", y), y, pending_notifications)
                BY Zenon, <1>1
            <4>1. CASE y = e
                <5>1. y \notin pending_notifications /\ y \in pending_notifications' /\ x = Effect("notify", y)
                    BY Zenon, <2>2, <3>1, <3>2, <4>1
                <5>. QED  BY Zenon, <1>3, <3>1, <4>0, <5>1, OnceAppend
            <4>2. CASE y # e
                <5>1. (y \in pending_notifications' <=> y \in pending_notifications) /\ x # Effect("notify", y)
                    BY Zenon, <3>1, <3>2, <4>2
                <5>. QED  BY Zenon, <1>3, <3>1, <4>0, <5>1, OnceAppend
            <4>. QED  BY Zenon, <4>1, <4>2
        <3>4. \A g \in Globals :
                Once(pending_effects', Effect("global", g), g, pending_global_notifications')
            BY Zenon, <1>1, <1>3, <1>6, <3>1, <3>2, OnceAppend
        <3>. QED  BY Zenon, <1>2, <3>3, <3>4
    <2>. QED  BY Zenon, <2>1, <2>2
<1>7. ASSUME NEW g \in Globals, PushGlobal(g), UNCHANGED pending_notifications
      PROVE  PendingIsQueued'
    <2>1. CASE g \in pending_global_notifications
        BY Zenon, <1>4, <1>7, <2>1 DEF PushGlobal, effects
    <2>2. CASE g \notin pending_global_notifications
        <3> DEFINE x == Effect("global", g)
        <3>1. /\ pending_effects' = Append(pending_effects, x) /\ x \in EffectType
              /\ pending_global_notifications' = pending_global_notifications \cup {g}
            BY Zenon, <1>7, <2>2, EffectIn DEF PushGlobal
        <3>2. \A y : (x = Effect("global", y) <=> y = g) /\ x # Effect("notify", y)
            BY EffectIs
        <3> HIDE DEF x
        <3>3. ASSUME NEW y \in Globals
              PROVE  Once(pending_effects', Effect("global", y), y, pending_global_notifications')
            <4>0. Once(pending_effects, Effect("global", y), y, pending_global_notifications)
                BY Zenon, <1>1
            <4>1. CASE y = g
                <5>1. y \notin pending_global_notifications /\ y \in pending_global_notifications' /\ x = Effect("global", y)
                    BY Zenon, <2>2, <3>1, <3>2, <4>1
                <5>. QED  BY Zenon, <1>3, <3>1, <4>0, <5>1, OnceAppend
            <4>2. CASE y # g
                <5>1. (y \in pending_global_notifications' <=> y \in pending_global_notifications) /\ x # Effect("global", y)
                    BY Zenon, <3>1, <3>2, <4>2
                <5>. QED  BY Zenon, <1>3, <3>1, <4>0, <5>1, OnceAppend
            <4>. QED  BY Zenon, <4>1, <4>2
        <3>4. \A e \in Entities :
                Once(pending_effects', Effect("notify", e), e, pending_notifications')
            BY Zenon, <1>1, <1>3, <1>7, <3>1, <3>2, OnceAppend
        <3>. QED  BY Zenon, <1>2, <3>3, <3>4
    <2>. QED  BY Zenon, <2>1, <2>2
<1>8. ASSUME Popping, pending_effects' = Tail(pending_effects),
             pending_notifications' = IF popped.kind = "notify"
                                      THEN pending_notifications \ {popped.key}
                                      ELSE pending_notifications,
             pending_global_notifications' = IF popped.kind = "global"
                                             THEN pending_global_notifications \ {popped.key}
                                             ELSE pending_global_notifications
      PROVE  PendingIsQueued'
    <2>1. popped \in EffectType /\ pending_effects # <<>> /\ Head(pending_effects) = popped
        BY Zenon, <1>8, PoppedTypes DEF popped
    <2>2. \A k, y : popped = Effect(k, y) <=> popped.kind = k /\ popped.key = y
        BY <2>1, EffectTypes, EffectIs
    <2>3. ASSUME NEW e \in Entities
          PROVE  Once(pending_effects', Effect("notify", e), e, pending_notifications')
        <3>1. e \in pending_notifications' <=> e \in pending_notifications /\ Head(pending_effects) # Effect("notify", e)
            BY Zenon, <1>8, <2>1, <2>2
        <3>2. Once(pending_effects, Effect("notify", e), e, pending_notifications)
            BY Zenon, <1>1
        <3>. QED  BY Zenon, <1>3, <1>8, <2>1, <3>1, <3>2, OnceTail
    <2>4. ASSUME NEW g \in Globals
          PROVE  Once(pending_effects', Effect("global", g), g, pending_global_notifications')
        <3>1. g \in pending_global_notifications' <=> g \in pending_global_notifications /\ Head(pending_effects) # Effect("global", g)
            BY Zenon, <1>8, <2>1, <2>2
        <3>2. Once(pending_effects, Effect("global", g), g, pending_global_notifications)
            BY Zenon, <1>1
        <3>. QED  BY Zenon, <1>3, <1>8, <2>1, <3>1, <3>2, OnceTail
    <2>. QED  BY Zenon, <1>2, <2>3, <2>4
<1>9. ASSUME NEW e \in Entities, notify(e) PROVE PendingIsQueued'
    BY Zenon, <1>4, <1>6, <1>9 DEF notify, effects
<1>10. ASSUME NEW e \in Entities, emit(e) PROVE PendingIsQueued'
    BY Zenon, <1>5, <1>10, EffectIn, EffectIs DEF emit
<1>11. ASSUME NEW e \in Entities, drop_entity(e) \/ release(e) PROVE PendingIsQueued'
    BY Zenon, <1>4, <1>11 DEF drop_entity, release
<1>12. ASSUME NEW g \in Globals, set_global(g) \/ remove_global(g) PROVE PendingIsQueued'
    BY Zenon, <1>7, <1>12 DEF set_global, remove_global
<1>13. CASE defer \/ refresh_windows
    BY Zenon, <1>5, <1>13, EffectIn, EffectIs DEF defer, refresh_windows
<1>14. ASSUME NEW o \in Observers, NEW kind, NEW key, observe(o, kind, key) PROVE PendingIsQueued'
    BY Zenon, <1>5, <1>14, EffectIn, EffectIs DEF observe
<1>15. ASSUME NEW o \in Observers, unsubscribe(o) \/ call_subscriber(o) PROVE PendingIsQueued'
    BY Zenon, <1>4, <1>15 DEF unsubscribe, call_subscriber
<1>16. CASE start_update \/ finish_update \/ take_dropped \/ effect_applied \/ flush_end
    BY Zenon, <1>4, <1>16 DEF start_update, finish_update, take_dropped, effect_applied, flush_end
<1>17. CASE apply_effect
    BY Zenon, <1>8, <1>17 DEF apply_effect
<1>18. CASE activate \/ apply_defer_effect \/ apply_refresh_effect
    BY Zenon, <1>8, <1>18 DEF activate, apply_defer_effect, apply_refresh_effect
<1>19. ASSUME NEW w \in Windows, begin_draw(w) \/ remove_window(w) PROVE PendingIsQueued'
    BY Zenon, <1>4, <1>19 DEF begin_draw, remove_window
<1>20. ASSUME NEW drawn, record_entities_accessed(drawn) PROVE PendingIsQueued'
    BY Zenon, <1>4, <1>20 DEF record_entities_accessed
<1>. QED  BY Zenon, <1>9, <1>10, <1>11, <1>12, <1>13, <1>14, <1>15, <1>16, <1>17, <1>18, <1>19, <1>20
          DEF Next

\* An update ends when its flush does.
LEMMA UpdatesStep ==
    ASSUME TypeOK, UpdatesInv, Next
    PROVE  UpdatesInv'
<1>1. ASSUME UNCHANGED <<pending_updates, flushing>> PROVE UpdatesInv'
    BY Zenon, <1>1 DEF UpdatesInv
<1>2. ASSUME NEW e \in Entities, notify(e) \/ emit(e) \/ drop_entity(e) \/ release(e)
      PROVE  UpdatesInv'
    BY Zenon, <1>1, <1>2 DEF notify, emit, drop_entity, release, control
<1>3. ASSUME NEW g \in Globals, set_global(g) \/ remove_global(g) PROVE UpdatesInv'
    BY Zenon, <1>1, <1>3 DEF set_global, remove_global, control
<1>4. CASE defer \/ refresh_windows
    BY Zenon, <1>1, <1>4 DEF defer, refresh_windows, control
<1>5. ASSUME NEW o \in Observers, NEW kind, NEW key, observe(o, kind, key) PROVE UpdatesInv'
    BY Zenon, <1>1, <1>5 DEF observe, control
<1>6. ASSUME NEW o \in Observers, unsubscribe(o) \/ call_subscriber(o) PROVE UpdatesInv'
    BY Zenon, <1>1, <1>6 DEF unsubscribe, call_subscriber, control
<1>7. CASE start_update
    BY <1>7 DEF start_update, TypeOK, UpdatesInv
<1>8. CASE finish_update
    <2>1. pending_updates' # 0
        BY <1>8 DEF finish_update, UserCode, TypeOK
    <2>. QED  BY Zenon, <2>1 DEF UpdatesInv
<1>9. CASE take_dropped \/ apply_effect \/ effect_applied \/ activate
    BY Zenon, <1>1, <1>9 DEF take_dropped, apply_effect, effect_applied, activate, control
<1>10. CASE apply_defer_effect \/ apply_refresh_effect
    BY Zenon, <1>1, <1>10 DEF apply_defer_effect, apply_refresh_effect, control
<1>11. CASE flush_end
    BY Zenon, <1>11 DEF flush_end, UpdatesInv
<1>12. ASSUME NEW w \in Windows, begin_draw(w) PROVE UpdatesInv'
    BY Zenon, <1>12 DEF begin_draw, UpdatesInv
<1>13. ASSUME NEW w \in Windows, remove_window(w) PROVE UpdatesInv'
    BY Zenon, <1>1, <1>13 DEF remove_window, control
<1>14. ASSUME NEW drawn, record_entities_accessed(drawn) PROVE UpdatesInv'
    BY Zenon, <1>1, <1>14 DEF record_entities_accessed, control
<1>. QED  BY Zenon, <1>2, <1>3, <1>4, <1>5, <1>6, <1>7, <1>8, <1>9, <1>10, <1>11, <1>12, <1>13, <1>14
          DEF Next

\* What subscribers are owed is found in the queue after every step.
LEMMA OwedStep ==
    ASSUME TypeOK, UpdatesInv, OwedInv, Next
    PROVE  OwedInv'
<1>1. ASSUME UNCHANGED <<pending_effects, subs, owed, calling, pending_updates>> PROVE OwedInv'
    BY Zenon, <1>1, OwedFrame DEF OwedInv
<1>2. Step => pending_updates # 0
    BY DEF Step, UserCode, TypeOK
<1>3. ASSUME NEW e \in Entities, notify(e) PROVE OwedInv'
    <2>1. UNCHANGED <<subs, calling, pending_updates>> /\ pending_updates # 0
        BY Zenon, <1>2, <1>3 DEF notify, control
    <2>2. CASE UNCHANGED <<pending_effects, owed>>
        BY Zenon, <1>1, <2>1, <2>2
    <2>3. CASE /\ pending_effects' = Append(pending_effects, Effect("notify", e))
               /\ owed' = Owing("notify", e)
        BY Zenon, <2>1, <2>3, EffectIn, OwedPush
    <2>. QED  BY Zenon, <1>3, <2>2, <2>3 DEF notify, PushNotify
<1>4. ASSUME NEW e \in Entities, emit(e) PROVE OwedInv'
    <2>1. UNCHANGED <<subs, calling, pending_updates>> /\ pending_updates # 0
        BY Zenon, <1>2, <1>4 DEF emit, control
    <2>. QED  BY Zenon, <1>4, <2>1, EffectIn, OwedPush DEF emit
<1>5. ASSUME NEW e \in Entities, drop_entity(e) PROVE OwedInv'
    BY Zenon, <1>1, <1>5 DEF drop_entity, effects, control, history
<1>6. ASSUME NEW e \in Entities, release(e) PROVE OwedInv'
    <2> DEFINE gone == {o \in Observers : Subscribed(o, "notify", e) \/ Subscribed(o, "event", e)}
    <2>1. gone \in SUBSET Observers /\ Forget(gone) /\ \A o \in gone : Here(o)
        BY Zenon, <1>6 DEF release, Subscribed, Here
    <2>2. /\ UNCHANGED <<pending_effects, pending_updates>> /\ pending_updates # 0
          /\ calling = None /\ calling'.left = {}
        BY Zenon, <1>6 DEF release, effects, Flushing, UpdatesInv, Calling
    <2> HIDE DEF gone
    <2>. QED  BY Zenon, <2>1, <2>2, OwedForget
<1>7. ASSUME NEW g \in Globals, set_global(g) \/ remove_global(g) PROVE OwedInv'
    <2>1. /\ UNCHANGED <<subs, calling, pending_updates>> /\ pending_updates # 0
          /\ PushGlobal(g)
        BY Zenon, <1>2, <1>7 DEF set_global, remove_global, control
    <2>2. CASE UNCHANGED <<pending_effects, owed>>
        BY Zenon, <1>1, <2>1, <2>2
    <2>3. CASE /\ pending_effects' = Append(pending_effects, Effect("global", g))
               /\ owed' = Owing("global", g)
        BY Zenon, <2>1, <2>3, EffectIn, OwedPush
    <2>. QED  BY Zenon, <2>1, <2>2, <2>3 DEF PushGlobal
<1>8. CASE defer \/ refresh_windows
    <2>1. /\ UNCHANGED <<subs, calling, pending_updates, owed>> /\ pending_updates # 0
        BY Zenon, <1>2, <1>8 DEF defer, refresh_windows, control, history
    <2>2. "defer" \notin Kinds /\ "refresh" \notin Kinds
        BY Zenon DEF Kinds
    <2>3. CASE defer
        BY Zenon, <2>1, <2>2, <2>3, EffectIn, OwedPush DEF defer
    <2>4. CASE refresh_windows
        BY Zenon, <2>1, <2>2, <2>4, EffectIn, OwedPush DEF refresh_windows
    <2>. QED  BY Zenon, <1>8, <2>3, <2>4
<1>9. ASSUME NEW o \in Observers, NEW kind \in Kinds, NEW key \in Entities \cup Globals,
             observe(o, kind, key)
      PROVE  OwedInv'
    <2>1. /\ UNCHANGED <<owed, calling, pending_updates>> /\ pending_updates # 0
          /\ pending_effects' = Append(pending_effects, Activation(o))
        BY Zenon, <1>2, <1>9 DEF observe, control, history, Activation
    <2>. QED  BY Zenon, <1>9, <2>1, OwedObserve DEF observe
<1>10. ASSUME NEW o \in Observers, unsubscribe(o) PROVE OwedInv'
    <2>1. Forget({o}) /\ Here(o) /\ {o} \in SUBSET Observers
        BY Zenon, <1>10 DEF unsubscribe, Here
    <2>2. UNCHANGED <<pending_effects, pending_updates, calling>> /\ pending_updates # 0
        BY Zenon, <1>2, <1>10 DEF unsubscribe, effects, control
    <2>. QED  BY Zenon, <2>1, <2>2, OwedForget
<1>11. ASSUME NEW o \in Observers, call_subscriber(o) PROVE OwedInv'
    BY Zenon, <1>11, OwedCall
<1>12. CASE start_update \/ finish_update
    <2>1. pending_updates' # 0
        BY <1>12 DEF start_update, finish_update, UserCode, TypeOK
    <2>. QED  BY Zenon, <1>12, <2>1, OwedFrame DEF start_update, finish_update, effects, history
<1>13. CASE take_dropped
    BY Zenon, <1>1, <1>13 DEF take_dropped, effects, control, history
<1>14. Popping => pending_updates # 0 /\ calling = None
    BY Zenon DEF Popping, Flushing, UpdatesInv
<1>15. CASE apply_effect
    BY Zenon, <1>14, <1>15, OwedPop DEF apply_effect
<1>16. CASE activate
    BY Zenon, <1>14, <1>16, OwedPop DEF activate, control, history
<1>17. CASE apply_defer_effect
    BY Zenon, <1>14, <1>17, OwedPop DEF apply_defer_effect, history
<1>18. CASE apply_refresh_effect
    BY Zenon, <1>14, <1>18, OwedPop DEF apply_refresh_effect, control, history
<1>19. CASE effect_applied
    <2>1. /\ UNCHANGED <<pending_effects, subs, owed, pending_updates>>
          /\ calling # None /\ calling.left = {} /\ calling' = None
        BY Zenon, <1>19 DEF effect_applied, effects, history
    <2>2. \A o \in Observers : /\ Left(o)' = Left(o) /\ Here(o)' = Here(o)
                               /\ Awaits(o)' = Awaits(o) /\ Activation(o)' = Activation(o)
        BY Zenon, <2>1 DEF Left, Here, Awaits, Activation
    <2>3. \A o \in Observers : IsOwed(o)' = IsOwed(o)
        BY Zenon, <2>1, <2>2 DEF Behind, IsOwed
    <2>. QED  BY Zenon, <2>1, <2>2, <2>3 DEF OwedInv
<1>20. CASE flush_end
    BY Zenon, <1>20, OwedFrame DEF flush_end, Flushing, effects, history
<1>21. ASSUME NEW w \in Windows, begin_draw(w) PROVE OwedInv'
    BY <1>21, OwedFrame DEF begin_draw, effects
<1>22. ASSUME NEW w \in Windows, remove_window(w) PROVE OwedInv'
    BY Zenon, <1>1, <1>22 DEF remove_window, effects, control
<1>23. ASSUME NEW drawn, record_entities_accessed(drawn) PROVE OwedInv'
    BY Zenon, <1>1, <1>23 DEF record_entities_accessed, effects, control, history
<1>24. {"notify", "event"} \subseteq Kinds /\ "global" \in Kinds
    BY Zenon DEF Kinds
<1>. QED  BY Zenon, <1>3, <1>4, <1>5, <1>6, <1>7, <1>8, <1>9, <1>10, <1>11, <1>12, <1>13, <1>15, <1>16,
             <1>17, <1>18, <1>19, <1>20, <1>21, <1>22, <1>23, <1>24 DEF Next

-----------------------------------------------------------------------------
EffectsInv == TypeOK /\ UpdatesInv /\ PendingIsQueued /\ OwedInv /\ WindowsInv

\* What is owed is never less than nothing, and nothing once nothing is queued or called.
LEMMA OwedCounts ==
    ASSUME TypeOK, OwedInv, NEW o \in Observers
    PROVE  /\ owed[o] >= 0
           /\ pending_effects = <<>> /\ calling = None => owed[o] = 0
<1>1. CASE ~Here(o)
    <2>1. owed[o] = 0
        BY Zenon, <1>1 DEF OwedInv
    <2>. QED  BY <2>1
<1>2. CASE Here(o)
    <2>1. Counted(Behind(o), owed[o] - Left(o)) /\ owed[o] \in Int
        BY Zenon, <1>2 DEF OwedInv, IsOwed, TypeOK
    <2>2. owed[o] - Left(o) \in Nat
        BY Zenon, <2>1 DEF Counted
    <2>3. pending_effects = <<>> => Behind(o) = {}
        BY DEF Behind, Since, Where
    <2>4. pending_effects = <<>> => owed[o] - Left(o) = 0
        BY Zenon, <2>1, <2>3, CountedNone
    <2>5. Left(o) \in Nat /\ (calling = None => Left(o) = 0)
        BY Zenon DEF Left
    <2>. QED  BY <2>1, <2>2, <2>4, <2>5
<1>. QED  BY Zenon, <1>1, <1>2

\* The inductive invariant of the App's effects: the types, what is pending, what is owed and
\* which windows are to be drawn, after any steps of any updates (App::update, flush_effects).
THEOREM EffectsInvariant == Spec => []EffectsInv
<1>1. Init => EffectsInv
    <2>. SUFFICES ASSUME Init PROVE EffectsInv
        BY Zenon
    <2>1. TypeOK
        <3>1. subs \in [Observers -> [kind : Kinds \cup {"none"},
                                      key : Entities \cup Globals \cup {None},
                                      state : {"none", "pending", "active", "dropped"}]]
            BY Zenon DEF Init, NoSubscriber
        <3>2. pending_updates \in 0..MaxDepth /\ steps \in 0..MaxSteps /\ owed \in [Observers -> Int]
            BY EffectsAssumption DEF Init
        <3>3. flushing \in BOOLEAN
            BY Zenon DEF Init
        <3>5. pending_effects \in Seq(EffectType)
            BY DEF Init
        <3>4. /\ dirty_views \in [Windows -> SUBSET Entities]
              /\ tracked_entities \in [Windows -> SUBSET Entities]
              /\ window_invalidators_by_entity \in [Entities -> SUBSET open]
            BY Zenon DEF Init
        <3>. QED  BY Zenon, <3>1, <3>2, <3>3, <3>4, <3>5 DEF Init, TypeOK
    <2>2. \A x : Where(pending_effects, x) = {}
        BY DEF Init, Where
    <2>3. PendingIsQueued
        <3>1. \A k, y : Queued(k, y) = {}
            BY DEF Init, Queued
        <3>. QED  BY Zenon, <3>1 DEF PendingIsQueued, Init
    <2>4. OwedInv
        BY Zenon, <2>2 DEF OwedInv, Init, Here, NoSubscriber
    <2>5. UpdatesInv /\ WindowsInv
        BY Zenon DEF UpdatesInv, WindowsInv, TrackedIsInvalidated, Init
    <2>. QED  BY Zenon, <2>1, <2>3, <2>4, <2>5 DEF EffectsInv
<1>2. EffectsInv /\ [Next]_vars => EffectsInv'
    <2>1. EffectsInv /\ Next => EffectsInv'
        BY Zenon, TypeStep, UpdatesStep, PendingStep, OwedStep, WindowsStep DEF EffectsInv
    <2>2. EffectsInv /\ UNCHANGED vars => EffectsInv'
        <3>. SUFFICES ASSUME EffectsInv, UNCHANGED vars PROVE EffectsInv'
            BY Zenon
        <3>1. TypeOK'
            BY Zenon DEF EffectsInv, TypeOK, vars, effects, windows, control, history, entities
        <3>2. UpdatesInv'
            BY Zenon DEF EffectsInv, UpdatesInv, vars, control
        <3>3. PendingIsQueued'
            BY DEF EffectsInv, PendingIsQueued, Queued, vars, effects
        <3>4. OwedInv'
            BY Zenon, OwedFrame DEF EffectsInv, OwedInv, vars, effects, control, history
        <3>5. WindowsInv'
            BY Zenon DEF EffectsInv, WindowsInv, TrackedIsInvalidated, vars, windows, control, history,
                   entities
        <3>. QED  BY Zenon, <3>1, <3>2, <3>3, <3>4, <3>5 DEF EffectsInv
    <2>. QED  BY Zenon, <2>1, <2>2
<1>. QED  BY <1>1, <1>2, PTL DEF Spec

\* What is in pending_notifications and pending_global_notifications is queued exactly once,
\* and nothing else is: none is left there that would keep later ones out (push_effect).
THEOREM PendingAreQueued == Spec => []PendingIsQueued
<1>1. EffectsInv => PendingIsQueued
    BY Zenon DEF EffectsInv
<1>. QED  BY <1>1, EffectsInvariant, PTL

\* When the outermost update ends every subscriber has been called for all that was queued
\* since it was registered, whatever the callbacks pushed, subscribed or dropped
\* (flush_effects).
THEOREM EffectsAreDelivered == Spec => []AllDelivered
<1>1. EffectsInv => AllDelivered
    <2>1. TypeOK /\ OwedInv /\ pending_updates = 0 => \A o \in Observers : owed[o] = 0
        <3>1. OwedInv /\ pending_updates = 0 => pending_effects = <<>> /\ calling = None
            BY Zenon DEF OwedInv
        <3>. QED  BY Zenon, <3>1, OwedCounts
    <2>. QED  BY Zenon, <2>1 DEF EffectsInv, AllDelivered
<1>. QED  BY <1>1, EffectsInvariant, PTL

\* No subscriber is called for what was queued before it was registered: its activation is
\* behind that in the queue (new_observer, new_subscription, observe_global).
THEOREM NoneIsCalledEarly == Spec => []NoneCalledEarly
<1>1. EffectsInv => NoneCalledEarly
    BY Zenon, OwedCounts DEF EffectsInv, NoneCalledEarly
<1>. QED  BY <1>1, EffectsInvariant, PTL

\* A window is among the invalidators of a live entity exactly while it tracks it, so that
\* only entities entering or leaving the set need be touched (record_entities_accessed).
THEOREM InvalidatorsAreTracked == Spec => []TrackedIsInvalidated
<1>1. EffectsInv => TrackedIsInvalidated
    BY Zenon DEF EffectsInv, WindowsInv
<1>. QED  BY <1>1, EffectsInvariant, PTL

\* Once no update is under way, a view notified and not drawn since has a frame scheduled for
\* its window (invalidate_view, flush_effects).
THEOREM NotifiedAreScheduled == Spec => []NotifiedIsScheduled
<1>1. EffectsInv => NotifiedIsScheduled
    BY Zenon DEF EffectsInv, WindowsInv, NotifiedIsScheduled
<1>. QED  BY <1>1, EffectsInvariant, PTL
=============================================================================
