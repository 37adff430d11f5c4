--------------------------- MODULE KeyInputProofs ---------------------------
(***************************************************************************)
(* Proofs about KeyInput, for every keymap, every number of keystrokes and *)
(* every length of the timeout and of its delays.                          *)
(*                                                                         *)
(* That a flush is never early is not inductive: pausing turns what has    *)
(* elapsed into what remains, and resuming starts anew from what remains.  *)
(* The invariant therefore says what the history `waited` and the two      *)
(* parts of the timeout add up to, in each of its states.                  *)
(*                                                                         *)
(* What becomes of keystrokes follows from what dispatch_key and           *)
(* flush_dispatch answer for every keymap (KeymapProofs).                  *)
(***************************************************************************)
EXTENDS KeyInput, KeymapProofs

Timeouts == [state : {"none", "running", "paused"}, remaining : 0..TIMEOUT, elapsed : Nat,
             owner : Owners \cup {None}]

\* What has been waited for makes up for what need not be waited for any more.
MadeUp ==
  /\ Running => \/ waited >= TIMEOUT
                \/ waited >= (TIMEOUT - timeout.remaining) + timeout.elapsed
  /\ Paused => /\ waited >= TIMEOUT - timeout.remaining /\ timeout.elapsed = 0
               /\ timeout.owner \in alive

HoldingInv ==
  /\ timeout \in Timeouts /\ waited \in Nat
  /\ keystrokes = <<>> => timeout = NoTimeout
  /\ keystrokes # <<>> => of = focus
  /\ told = keystrokes
  /\ MadeUp

\* Max and Min of two integers are what their names say.
LEMMA OfTwo ==
  ASSUME NEW x \in Int, NEW y \in Int
  PROVE  /\ Max({x, y}) = IF x >= y THEN x ELSE y
         /\ Min({x, y}) = IF x <= y THEN x ELSE y
<1>1. CASE x >= y
  BY <1>1 DEF Max, Min
<1>2. CASE x < y
  BY <1>2 DEF Max, Min
<1> QED
  BY <1>1, <1>2

\* No timeout is one, and makes up for nothing.
LEMMA NoTimeoutIs ==
  NoTimeout \in Timeouts /\ NoTimeout.state = "none"
BY KeyInputAssumption DEF NoTimeout, Timeouts

\* What is dropped, by a change of focus, a blur or a menu, leaves nothing held.
LEMMA ClearKeeps ==
  ASSUME clear_pending_keystrokes
  PROVE  HoldingInv'
BY Zenon, NoTimeoutIs DEF clear_pending_keystrokes, HoldingInv, MadeUp, Running, Paused

\* The timeout of keystrokes newly held starts from the whole of it, paused or not.
LEMMA NewTimeoutIs ==
  ASSUME NEW old \in Timeouts, NEW needed \in BOOLEAN
  PROVE  LET new == NewTimeout(old, needed) IN
         /\ new \in Timeouts
         /\ new.state = "running" => new.remaining = TIMEOUT /\ new.elapsed = 0
         /\ new.state = "paused" =>
              /\ old.state = "paused" /\ new.remaining = TIMEOUT
              /\ new.owner = old.owner /\ new.elapsed = old.elapsed
<1> USE KeyInputAssumption
<1>1. CASE old.state = "paused"
  BY <1>1 DEF NewTimeout, Timeouts
<1>2. CASE old.state # "paused" /\ needed
  BY <1>2 DEF NewTimeout, Timeouts
<1>3. CASE old.state # "paused" /\ ~needed
  BY Zenon, <1>3, NoTimeoutIs DEF NewTimeout
<1> QED
  BY Zenon, <1>1, <1>2, <1>3

\* A keystroke keeps the invariant, whatever is matched, replayed or intercepted.
LEMMA KeystrokeKeeps ==
  ASSUME HoldingInv, NEW key, NEW accepts, dispatch_keystroke(key, accepts)
  PROVE  HoldingInv'
<1> DEFINE k == [key |-> key, at |-> focus, text |-> key \in Text /\ accepts]
<1>1. PICK now \in Moves, drop \in BOOLEAN :
        LET had == IF drop THEN <<>> ELSE keystrokes
            old == IF drop THEN NoTimeout ELSE timeout
        IN  /\ now # focus => drop
            /\ \/ intercept(had, old, now)
               \/ match_key(k, had, old, now)
  BY Zenon DEF dispatch_keystroke
<1> DEFINE had == IF drop THEN <<>> ELSE keystrokes
           old == IF drop THEN NoTimeout ELSE timeout
<1>2. told' = keystrokes' /\ alive' = alive
  BY Zenon DEF dispatch_keystroke
<1>3. old \in Timeouts /\ (old.state = "paused" => old = timeout /\ Paused)
  BY Zenon, NoTimeoutIs DEF HoldingInv, Paused
<1>4. CASE intercept(had, old, now)
  <2>1. /\ keystrokes' = had /\ timeout' = old /\ focus' = now
        /\ of' = IF had = <<>> THEN None ELSE of
        /\ waited' = IF had = <<>> THEN 0 ELSE waited
    BY Zenon, <1>4 DEF intercept
  <2>2. CASE had = <<>>
    <3>1. old = NoTimeout
      BY Zenon, <2>2 DEF HoldingInv
    <3> QED
      BY Zenon, <2>1, <2>2, <3>1, <1>2, NoTimeoutIs DEF HoldingInv, MadeUp, Running, Paused
  <2>3. CASE had # <<>>
    <3>1. ~drop /\ had = keystrokes /\ old = timeout /\ now = focus
      BY Zenon, <2>3, <1>1
    <3> QED
      BY Zenon, <2>1, <2>3, <3>1, <1>2 DEF HoldingInv, MadeUp, Running, Paused
  <2> QED
    BY Zenon, <2>2, <2>3
<1>5. CASE match_key(k, had, old, now)
  <2>1. PICK result \in {dispatch_key(map, had, k, k.at)} :
          /\ waited' = 0
          /\ \/ /\ result.pending # <<>>
                /\ keystrokes' = result.pending /\ of' = focus'
                /\ timeout' = NewTimeout(old, needs_timeout(old, result, k))
             \/ /\ keystrokes' = <<>> /\ timeout' = NoTimeout
    BY Zenon, <1>5 DEF match_key
  <2>2. CASE /\ result.pending # <<>>
             /\ keystrokes' = result.pending /\ of' = focus'
             /\ timeout' = NewTimeout(old, needs_timeout(old, result, k))
    <3>1. PICK needed \in BOOLEAN : timeout' = NewTimeout(old, needed)
      <4>1. CASE needs_timeout(old, result, k)
        BY Zenon, <2>2, <4>1 DEF NewTimeout
      <4>2. CASE ~needs_timeout(old, result, k)
        BY Zenon, <2>2, <4>2 DEF NewTimeout
      <4> QED
        BY Zenon, <4>1, <4>2
    <3>2. /\ timeout' \in Timeouts
          /\ timeout'.state = "running" => timeout'.remaining = TIMEOUT /\ timeout'.elapsed = 0
          /\ timeout'.state = "paused" =>
               /\ old.state = "paused" /\ timeout'.remaining = TIMEOUT
               /\ timeout'.owner = old.owner /\ timeout'.elapsed = old.elapsed
      BY Zenon, <1>3, <3>1, NewTimeoutIs
    <3>3. MadeUp'
      BY <1>2, <1>3, <2>1, <3>2, KeyInputAssumption DEF HoldingInv, MadeUp, Running, Paused
    <3> QED
      BY Zenon, <1>2, <2>1, <2>2, <3>2, <3>3 DEF HoldingInv
  <2>3. CASE keystrokes' = <<>> /\ timeout' = NoTimeout
    BY Zenon, <1>2, <2>1, <2>3, NoTimeoutIs DEF HoldingInv, MadeUp, Running, Paused
  <2> QED
    BY Zenon, <2>1, <2>2, <2>3
<1> QED
  BY Zenon, <1>1, <1>4, <1>5

\* An owner that resumes, or is released, has its pause ended and no other.
LEMMA ResumeKeeps ==
  ASSUME HoldingInv, NEW owner, resume_pending_input_timeout(owner),
         \/ alive' = alive /\ Paused /\ timeout.owner = owner
         \/ alive' = alive \ {owner},
         UNCHANGED <<focus, keystrokes, of, waited>>
  PROVE  HoldingInv'
<1>1. CASE Paused /\ timeout.owner = owner
  <2>1. timeout' = [timeout EXCEPT !.state = "running", !.owner = None] /\ told' = keystrokes
    BY Zenon, <1>1 DEF resume_pending_input_timeout
  <2>2. /\ timeout' \in Timeouts /\ timeout'.state = "running"
        /\ timeout'.remaining = timeout.remaining /\ timeout'.elapsed = timeout.elapsed
    BY Zenon, <2>1 DEF HoldingInv, Timeouts
  <2>3. keystrokes # <<>>
    BY Zenon, <1>1, NoTimeoutIs DEF HoldingInv, Paused
  <2>4. waited >= (TIMEOUT - timeout.remaining) + timeout.elapsed
    BY <1>1, KeyInputAssumption DEF HoldingInv, MadeUp, Timeouts
  <2> QED
    BY Zenon, <2>1, <2>2, <2>3, <2>4 DEF HoldingInv, MadeUp, Running, Paused
<1>2. CASE ~(Paused /\ timeout.owner = owner)
  <2>1. UNCHANGED <<timeout, told>> /\ alive' = alive \ {owner}
    BY Zenon, <1>2 DEF resume_pending_input_timeout
  <2> QED
    BY Zenon, <1>2, <2>1 DEF HoldingInv, MadeUp, Running, Paused
<1> QED
  BY Zenon, <1>1, <1>2

\* The timer's task drops what is held, and tells the observers, as it is held under the focus.
LEMMA FlushKeeps ==
  ASSUME HoldingInv, flush
  PROVE  HoldingInv'
<1>1. keystrokes # <<>> /\ of = focus
  BY Zenon, NoTimeoutIs DEF HoldingInv, flush, Running
<1>2. keystrokes' = <<>> /\ timeout' = NoTimeout /\ waited' = 0 /\ told' = <<>>
  BY Zenon, <1>1 DEF flush
<1> QED
  BY Zenon, <1>2, NoTimeoutIs DEF HoldingInv, MadeUp, Running, Paused

\* Time that passes is waited for.
LEMMA TickKeeps ==
  ASSUME HoldingInv, tick
  PROVE  HoldingInv'
<1> USE KeyInputAssumption
<1>1. /\ waited \in Nat /\ TIMEOUT \in Nat
      /\ timeout.remaining \in 0..TIMEOUT /\ timeout.elapsed \in Nat
  BY Zenon DEF HoldingInv, Timeouts
<1>2. waited' = IF waited + 1 <= TIMEOUT THEN waited + 1 ELSE TIMEOUT
  <2>1. waited + 1 \in Int /\ TIMEOUT \in Int
    BY <1>1
  <2>2. waited' = Min({waited + 1, TIMEOUT})
    BY Zenon DEF tick
  <2> QED
    BY Zenon, <2>1, <2>2, OfTwo
<1>3. /\ Running /\ timeout' \in Timeouts
      /\ timeout'.state = "running" /\ timeout'.remaining = timeout.remaining
      /\ timeout'.elapsed = timeout.elapsed + 1
  BY DEF tick, HoldingInv, Timeouts, Running
<1>4. UNCHANGED <<focus, keystrokes, of, told>> /\ keystrokes # <<>>
  BY Zenon, NoTimeoutIs DEF tick, HoldingInv, Running
<1>5. MadeUp'
  BY <1>1, <1>2, <1>3 DEF HoldingInv, MadeUp, Running, Paused
<1> QED
  BY <1>1, <1>2, <1>3, <1>4, <1>5 DEF HoldingInv

\* A pause keeps what is left, and nothing below zero when the timer is late.
LEMMA PauseKeeps ==
  ASSUME HoldingInv, NEW owner \in Owners, pause(owner)
  PROVE  HoldingInv'
<1> USE KeyInputAssumption
<1> DEFINE left == timeout.remaining - timeout.elapsed
<1>1. /\ waited \in Nat /\ TIMEOUT \in Nat
      /\ timeout.remaining \in 0..TIMEOUT /\ timeout.elapsed \in Nat
  BY Zenon DEF HoldingInv, Timeouts
<1>2. Max({left, 0}) = IF left >= 0 THEN left ELSE 0
  <2>1. left \in Int /\ 0 \in Int
    BY <1>1
  <2> HIDE DEF left
  <2> QED
    BY Zenon, <2>1, OfTwo
<1>3. /\ timeout'.state = "paused" /\ timeout'.elapsed = 0 /\ timeout'.owner = owner
      /\ timeout'.remaining = IF left >= 0 THEN left ELSE 0
      /\ owner \in alive /\ Running
  BY Zenon, <1>2 DEF pause
<1>4. timeout' \in Timeouts
  BY <1>1, <1>2 DEF pause, Timeouts
<1>5. /\ UNCHANGED <<focus, keystrokes, of, waited, alive>> /\ told' = keystrokes
      /\ keystrokes # <<>>
  BY Zenon, NoTimeoutIs DEF pause, HoldingInv, Running
<1>6. MadeUp'
  BY <1>1, <1>3, <1>5 DEF HoldingInv, MadeUp, Running, Paused
<1> QED
  BY Zenon, <1>4, <1>5, <1>6 DEF HoldingInv

\* What is held, its timeout and what the observers know fit together in every reachable state
\* (Window::pending_input and PendingInputTimeout).
THEOREM HoldingInvariant == Spec => []HoldingInv
<1>1. Init => HoldingInv
  BY NoTimeoutIs DEF Init, HoldingInv, MadeUp, Running, Paused
<1>2. HoldingInv /\ [Next]_vars => HoldingInv'
  <2> SUFFICES ASSUME HoldingInv, [Next]_vars PROVE HoldingInv'
    BY Zenon
  <2>1. CASE \E key \in Keys, accepts \in BOOLEAN : key_down(key, accepts)
    BY Zenon, <2>1, KeystrokeKeeps DEF key_down
  <2>2. CASE \E n \in 0..2 : modifiers_changed(n)
    <3>1. CASE dispatch_keystroke(Modifier, FALSE)
      BY Zenon, <3>1, KeystrokeKeeps
    <3>2. CASE UNCHANGED <<focus, held, alive, told, waited>>
      BY Zenon, <3>2 DEF held, HoldingInv, MadeUp, Running, Paused
    <3> QED
      BY Zenon, <2>2, <3>1, <3>2 DEF modifiers_changed
  <2>3. CASE \/ \E to \in Focuses : focus_on(to)
             \/ \E disable \in BOOLEAN : blur(disable)
             \/ open_menu
    BY Zenon, <2>3, ClearKeeps DEF focus_on, blur, open_menu
  <2>4. CASE \E owner \in Owners : pause(owner) \/ resume(owner) \/ release(owner)
    <3> PICK owner \in Owners : pause(owner) \/ resume(owner) \/ release(owner)
      BY Zenon, <2>4
    <3>1. CASE pause(owner)
      BY Zenon, <3>1, PauseKeeps
    <3>2. CASE resume(owner)
      BY Zenon, <3>2, ResumeKeeps DEF resume
    <3>3. CASE release(owner)
      BY Zenon, <3>3, ResumeKeeps DEF release
    <3> QED
      BY Zenon, <3>1, <3>2, <3>3
  <2>5. CASE tick
    BY Zenon, <2>5, TickKeeps
  <2>6. CASE flush
    BY Zenon, <2>6, FlushKeeps
  <2>7. CASE UNCHANGED vars
    BY Zenon, <2>7 DEF vars, held, HoldingInv, MadeUp, Running, Paused
  <2> QED
    BY Zenon, <2>1, <2>2, <2>3, <2>4, <2>5, <2>6, <2>7 DEF Next, input, application
<1> QED
  BY <1>1, <1>2, PTL DEF Spec

\* The timer's task never flushes keystrokes that were not left alone for the whole timeout,
\* whatever pauses, resumptions and delays came between (PendingInputTimeout::pause, resume and
\* reset_duration).
THEOREM FlushesAreNotEarly == Spec => NotFlushedEarly
<1>1. HoldingInv => [flush => waited >= TIMEOUT]_vars
  <2> SUFFICES ASSUME HoldingInv, flush PROVE waited >= TIMEOUT
    BY Zenon
  <2>1. /\ waited \in Nat /\ TIMEOUT \in Nat
        /\ timeout.remaining \in 0..TIMEOUT /\ timeout.elapsed \in Nat
    BY Zenon, KeyInputAssumption DEF HoldingInv, Timeouts
  <2>2. /\ timeout.elapsed >= timeout.remaining
        /\ \/ waited >= TIMEOUT
           \/ waited >= (TIMEOUT - timeout.remaining) + timeout.elapsed
    BY Zenon DEF flush, HoldingInv, MadeUp
  <2> QED
    BY <2>1, <2>2
<1> QED
  BY <1>1, HoldingInvariant, PTL DEF NotFlushedEarly

\* The observers of pending input always know what is held (pending_input_changed and
\* defer_pending_input_changed).
THEOREM ObserversKnow == Spec => []ObserversAreTold
<1>1. HoldingInv => ObserversAreTold
  BY Zenon DEF HoldingInv, ObserversAreTold
<1> QED
  BY <1>1, HoldingInvariant, PTL

----------------------------------------------------------------------------
\* What is held, as a part of what was typed: with a timeout if some of it types text, and the
\* beginning of a binding of the focus if all of it was typed there.
HeldInv ==
  /\ focus \in Places /\ typed \in Nat /\ keystrokes \in Seq(Keystrokes)
  /\ (\E k \in Range(keystrokes) : k.text) => timeout # NoTimeout
  /\ keystrokes # <<>> /\ (\A k \in Range(keystrokes) : k.at = focus) =>
       pending_for_input(map, Names(keystrokes), focus)

\* What KeysAreKept and GivenWhereTyped say of a step.
Kept ==
  LET before == IF dropped' THEN <<>> ELSE keystrokes
      after == Flatten([i \in DOMAIN out' |-> out'[i].keys]) \o keystrokes'
  IN  /\ Begins(before, after) /\ Len(after) - Len(before) <= typed' - typed
      /\ \A i \in DOMAIN out' : Len(out'[i].keys) > 1 =>
           bindings_for_input(map, Names(out'[i].keys), out'[i].to) # {}

Given ==
  \A i \in DOMAIN out' : \A k \in Range(out'[i].keys) :
    k.at = out'[i].to \/ (k \in Range(keystrokes) /\ of = out'[i].to)

\* What a step keeps of what it finds, with what is typed, is in order and whole.
LEMMA InOrder ==
  ASSUME NEW K, NEW before \in Seq(K), NEW k \in K
  PROVE  /\ Begins(before, before) /\ Len(before) - Len(before) = 0
         /\ Begins(before, Append(before, k)) /\ Len(Append(before, k)) - Len(before) = 1
<1>1. /\ Len(before) \in Nat /\ SubSeq(before, 1, Len(before)) = before
      /\ Append(before, k) \in Seq(K) /\ Len(Append(before, k)) = Len(before) + 1
  BY Zenon, AppendProperties, LenProperties, SubSeqFull
<1>2. SubSeq(Append(before, k), 1, Len(before)) = before
  <2>1. \A i \in 1..Len(before) : Append(before, k)[i] = before[i]
    BY AppendProperties
  <2> DEFINE all == Append(before, k)
             sub == SubSeq(all, 1, Len(before))
  <2>2. /\ Len(before) <= Len(all) /\ 1 \in Int /\ Len(before) \in Int
        /\ \A i \in 1..Len(before) : all[i] \in K
    <3>1. \A i \in 1..Len(before) : before[i] \in K
      BY Zenon, ElementOfSeq
    <3> QED
      BY <1>1, <2>1, <3>1
  <2>3. Len(before) = 0 \/ 1 <= Len(before)
    BY <1>1
  <2> HIDE DEF all
  <2>4. /\ sub \in Seq(K) /\ Len(sub) = IF 1 <= Len(before) THEN Len(before) - 1 + 1 ELSE 0
        /\ \A i \in 1..(Len(before) - 1 + 1) : sub[i] = all[1 + i - 1]
    BY <2>2, SubSeqProperties
  <2>5. Len(sub) = Len(before)
    BY <1>1, <2>3, <2>4
  <2>6. ASSUME NEW i \in 1..Len(before) PROVE sub[i] = before[i]
    <3>1. i \in 1..(Len(before) - 1 + 1) /\ 1 + i - 1 = i
      BY <1>1
    <3> HIDE DEF sub
    <3> QED
      BY Zenon, <2>1, <2>4, <3>1 DEF all
  <2> HIDE DEF sub
  <2>7. sub = before
    BY Zenon, <2>4, <2>5, <2>6, SeqEqual
  <2> QED
    BY Zenon, <2>7 DEF all, sub
<1> QED
  BY <1>1, <1>2 DEF Begins

\* No piece, put together, is nothing.
LEMMA FlattenNone == Flatten(<<>>) = <<>>
BY Zenon DEF Flatten

\* A step that gives nothing to handlers keeps what is held or drops it.
LEMMA QuietStep ==
  ASSUME HeldInv, out' = <<>>, typed' = typed \/ typed' = typed + 1, dropped' \in BOOLEAN,
         keystrokes' = IF dropped' THEN <<>> ELSE keystrokes
  PROVE  Kept /\ Given
<1> DEFINE before == IF dropped' THEN <<>> ELSE keystrokes
           after == Flatten([i \in DOMAIN out' |-> out'[i].keys]) \o keystrokes'
<1>1. before \in Seq(Keystrokes) /\ typed \in Nat
  BY DEF HeldInv
<1>2. [i \in DOMAIN out' |-> out'[i].keys] = <<>>
  OBVIOUS
<1>3. after = before
  <2> HIDE DEF before
  <2>1. before = keystrokes'
    BY Zenon DEF before
  <2> QED
    BY Zenon, <1>1, <1>2, <2>1, FlattenNone, ConcatEmptySeq
<1>4. Begins(before, before) /\ Len(before) \in Nat
  <2> HIDE DEF before
  <2>1. Len(before) \in Nat /\ SubSeq(before, 1, Len(before)) = before
    BY Zenon, <1>1, LenProperties, SubSeqFull
  <2> QED
    BY <2>1 DEF Begins
<1>5. Len(before) - Len(before) <= typed' - typed
  <2> HIDE DEF before
  <2>1. Len(before) - Len(before) = 0
    BY <1>4
  <2>2. 0 <= typed' - typed
    BY <1>1
  <2> QED
    BY Zenon, <2>1, <2>2
<1>6. DOMAIN out' = {}
  OBVIOUS
<1>7. Begins(before, after) /\ Len(after) - Len(before) <= typed' - typed
  BY Zenon, <1>3, <1>4, <1>5
<1> QED
  BY Zenon, <1>6, <1>7 DEF Kept, Given

\* A keystroke: what it leaves held, what it gives to handlers, and where.
LEMMA KeystrokeHolds ==
  ASSUME HoldingInv, HeldInv, NEW key \in Keys \cup {Modifier}, NEW accepts \in BOOLEAN,
         dispatch_keystroke(key, accepts)
  PROVE  HeldInv' /\ Kept /\ Given
<1> DEFINE k == [key |-> key, at |-> focus, text |-> key \in Text /\ accepts]
<1>1. PICK now \in Moves, drop \in BOOLEAN :
        LET had == IF drop THEN <<>> ELSE keystrokes
            old == IF drop THEN NoTimeout ELSE timeout
        IN  /\ now # focus => drop
            /\ dropped' = drop
            /\ \/ intercept(had, old, now)
               \/ match_key(k, had, old, now)
  BY Zenon DEF dispatch_keystroke
<1> DEFINE had == IF drop THEN <<>> ELSE keystrokes
           old == IF drop THEN NoTimeout ELSE timeout
<1>2. typed' = typed + 1 /\ map' = map /\ typed \in Nat
  BY Zenon DEF dispatch_keystroke, HeldInv
<1>3. now \in Places /\ Moves \subseteq Places
  BY Zenon DEF HeldInv, Moves
<1>4. k \in Keystrokes /\ had \in Seq(Keystrokes) /\ k.at = focus
  <2>1. k \in Keystrokes /\ k.at = focus
    <3>1. focus \in Places /\ (key \in Text /\ accepts) \in BOOLEAN
      BY Zenon DEF HeldInv
    <3> QED
      BY Zenon, <3>1 DEF Keystrokes
  <2>2. keystrokes \in Seq(Keystrokes) /\ <<>> \in Seq(Keystrokes)
    BY DEF HeldInv
  <2> QED
    BY Zenon, <2>1, <2>2
<1>5. old \in Timeouts
  BY Zenon, NoTimeoutIs DEF HoldingInv
<1>6. CASE intercept(had, old, now)
  <2>1. keystrokes' = had /\ timeout' = old /\ focus' = now /\ out' = <<>>
    BY Zenon, <1>6 DEF intercept
  <2>2. CASE drop
    <3>1. Range(keystrokes') = {} /\ keystrokes' = <<>>
      BY <2>1, <2>2 DEF Range
    <3>2. HeldInv'
      BY <1>2, <1>3, <2>1, <3>1 DEF HeldInv
    <3> QED
      BY Zenon, <1>1, <1>2, <2>1, <2>2, <3>2, QuietStep
  <2>3. CASE ~drop
    <3>1. keystrokes' = keystrokes /\ timeout' = timeout /\ focus' = focus
      BY Zenon, <1>1, <2>1, <2>3
    <3>2. HeldInv'
      BY <1>2, <3>1 DEF HeldInv
    <3> QED
      BY Zenon, <1>1, <1>2, <2>1, <2>3, <3>2, QuietStep
  <2> QED
    BY Zenon, <2>2, <2>3
<1>7. CASE match_key(k, had, old, now)
  <2> DEFINE r == dispatch_key(map, had, k, focus)
  <2>1. \/ /\ r.pending # <<>>
           /\ focus' \in IF r.replays = <<>> THEN {now} ELSE Moves
           /\ keystrokes' = r.pending
           /\ timeout' = NewTimeout(old, needs_timeout(old, r, k))
           /\ out' = Replayed(r.replays, now)
        \/ /\ r.pending = <<>> /\ focus' \in Moves /\ keystrokes' = <<>>
           /\ out' = Append(Replayed(r.replays, now), [keys |-> r.keys, to |-> focus])
    BY Zenon, <1>4, <1>7 DEF match_key
  <2>2. had \in Seq(Keystrokes) /\ k \in Keystrokes
    BY Zenon, <1>4
  <2> HIDE DEF k, had, old
  <2>3. /\ r.pending \in Seq(Keystrokes) /\ r.keys \in Seq(Keystrokes)
        /\ Accounts(map, had, k, focus, r)
    BY Zenon, <2>2, DispatchAccounts
  <2> HIDE DEF r
  <2>4. had # <<>> => had = keystrokes /\ old = timeout /\ now = focus /\ of = focus
    BY Zenon, <1>1 DEF had, old, HoldingInv
  <2>5. had = <<>> => Range(had) = {}
    BY DEF Range
  <2>6. ASSUME NEW j \in DOMAIN r.replays
        PROVE  /\ r.replays[j] \in Seq(Range(had))
               /\ Range(r.replays[j]) \subseteq Range(keystrokes)
               /\ Range(r.replays[j]) # {} => now = focus /\ of = focus
    <3>1. r.replays \in Seq(Seq(Range(had)))
      BY Zenon, <2>3 DEF Accounts
    <3>2. r.replays[j] \in Seq(Range(had))
      BY Zenon, <3>1, ElementOfSeq, LenProperties
    <3>3. Range(r.replays[j]) \in SUBSET Range(had)
      BY Zenon, <3>2, RangeOfSeq
    <3> QED
      BY Zenon, <2>4, <2>5, <3>2, <3>3
  <2>7. ASSUME NEW j \in DOMAIN r.replays, Len(r.replays[j]) > 1
        PROVE  now = focus /\ bindings_for_input(map, Names(r.replays[j]), focus) # {}
    <3>1. 1 \in DOMAIN r.replays[j]
      <4>1. r.replays[j] \in Seq(Range(had))
        BY Zenon, <2>6, <2>7
      <4>2. Len(r.replays[j]) \in Nat /\ DOMAIN r.replays[j] = 1..Len(r.replays[j])
        BY Zenon, <4>1, LenProperties
      <4> QED
        BY <2>7, <4>2
    <3>2. Range(r.replays[j]) # {}
      BY Zenon, <3>1 DEF Range
    <3> QED
      BY Zenon, <2>3, <2>6, <2>7, <3>2 DEF Accounts
  <2>8. DOMAIN Replayed(r.replays, now) = DOMAIN r.replays
        /\ \A j \in DOMAIN r.replays :
             Replayed(r.replays, now)[j].keys = r.replays[j] /\ Replayed(r.replays, now)[j].to = now
    BY Zenon DEF Replayed
  <2>9. had \in Seq(Keystrokes) /\ had = (IF dropped' THEN <<>> ELSE keystrokes)
    BY Zenon, <1>1, <1>4 DEF had
  <2>10. /\ Begins(had, Append(had, k))
         /\ Len(Append(had, k)) - Len(had) <= typed' - typed
    <3>1. Begins(had, Append(had, k)) /\ Len(Append(had, k)) - Len(had) = 1
      BY Zenon, <1>4, InOrder
    <3> QED
      BY <1>2, <3>1
  <2>11. CASE r.pending # <<>>
    <3>1. /\ focus' \in Places /\ keystrokes' = r.pending
          /\ timeout' = NewTimeout(old, needs_timeout(old, r, k))
          /\ out' = Replayed(r.replays, now)
      BY Zenon, <1>3, <2>1, <2>11
    <3>2. /\ k \in Range(r.pending) /\ pending_for_input(map, Names(r.pending), focus)
          /\ Flatten(r.replays) \o r.pending = Append(had, k)
          /\ Range(r.pending) \subseteq Range(had) \cup {k}
      BY Zenon, <2>3, <2>11 DEF Accounts
    <3>3. ASSUME NEW x \in Range(r.pending), x.text
          PROVE  timeout' # NoTimeout
      <4>1. needs_timeout(old, r, k)
        <5>1. CASE x = k
          BY Zenon, <3>3, <5>1 DEF needs_timeout
        <5>2. CASE x \in Range(had)
          <6>1. x \in Range(keystrokes) /\ old = timeout
            BY Zenon, <2>4, <2>5, <5>2
          <6> QED
            BY Zenon, <3>3, <6>1 DEF HeldInv, needs_timeout
        <5> QED
          BY Zenon, <3>2, <5>1, <5>2
      <4>2. timeout'.state # "none"
        <5>1. CASE old.state = "paused"
          BY Zenon, <1>5, <3>1, <5>1 DEF NewTimeout, Timeouts
        <5>2. CASE old.state # "paused"
          BY Zenon, <3>1, <4>1, <5>2 DEF NewTimeout
        <5> QED
          BY Zenon, <5>1, <5>2
      <4> QED
        BY Zenon, <4>2, NoTimeoutIs
    <3>4. (\A x \in Range(r.pending) : x.at = focus') => focus' = focus
      BY Zenon, <1>4, <3>2
    <3>5. HeldInv'
      <4>1. typed' \in Nat
        BY <1>2
      <4> QED
        BY Zenon, <1>2, <2>3, <3>1, <3>2, <3>3, <3>4, <4>1 DEF HeldInv
    <3>6. Given
      BY Zenon, <2>6, <2>8, <3>1 DEF Given
    <3>7. [i \in DOMAIN out' |-> out'[i].keys] = r.replays
      <4>1. \A i \in DOMAIN r.replays : out'[i].keys = r.replays[i]
        BY Zenon, <2>8, <3>1
      <4>2. DOMAIN out' = DOMAIN r.replays
        BY Zenon, <2>8, <3>1
      <4>3. r.replays = [i \in DOMAIN r.replays |-> r.replays[i]]
        <5>1. r.replays \in Seq(Seq(Range(had)))
          BY Zenon, <2>3 DEF Accounts
        <5> QED
          BY <5>1
      <4> QED
        BY Zenon, <4>1, <4>2, <4>3
    <3>8. \A i \in DOMAIN out' : Len(out'[i].keys) > 1 =>
            bindings_for_input(map, Names(out'[i].keys), out'[i].to) # {}
      BY Zenon, <2>7, <2>8, <3>1
    <3>9. Kept
      <4>1. Flatten([i \in DOMAIN out' |-> out'[i].keys]) \o keystrokes' = Append(had, k)
        BY Zenon, <3>1, <3>2, <3>7
      <4> QED
        BY Zenon, <2>9, <2>10, <3>8, <4>1 DEF Kept
    <3> QED
      BY Zenon, <3>5, <3>6, <3>9
  <2>12. CASE r.pending = <<>>
    <3> DEFINE n == Len(r.replays)
               o == Append(Replayed(r.replays, now), [keys |-> r.keys, to |-> focus])
    <3>1. focus' \in Places /\ keystrokes' = <<>> /\ out' = o
      BY Zenon, <1>3, <2>1, <2>12
    <3>2. HeldInv'
      <4>1. Range(keystrokes') = {} /\ keystrokes' \in Seq(Keystrokes) /\ typed' \in Nat
        BY <1>2, <3>1 DEF Range
      <4> HIDE DEF o
      <4> QED
        BY Zenon, <1>2, <3>1, <4>1 DEF HeldInv
    <3>3. n \in Nat /\ DOMAIN r.replays = 1..n /\ r.replays \in Seq(Seq(Range(had)))
      BY Zenon, <2>3, LenProperties DEF Accounts
    <3>4. /\ DOMAIN o = 1..(n + 1) /\ o[n + 1].keys = r.keys /\ o[n + 1].to = focus
          /\ \A j \in 1..n : o[j].keys = r.replays[j] /\ o[j].to = now
      <4> DEFINE S == [keys : Seq(Range(had)) \cup {r.keys}, to : {now, focus}]
                 rep == Replayed(r.replays, now)
                 last == [keys |-> r.keys, to |-> focus]
      <4>1. rep \in [1..n -> S] /\ last \in S
        BY Zenon, <2>6, <3>3 DEF Replayed
      <4> HIDE DEF S, rep, last, n
      <4>2. rep \in Seq(S) /\ Len(rep) = n
        BY <3>3, <4>1
      <4>3. /\ Append(rep, last) \in Seq(S) /\ Len(Append(rep, last)) = n + 1
            /\ Append(rep, last)[n + 1] = last
            /\ \A j \in 1..n : Append(rep, last)[j] = rep[j]
        BY <4>1, <4>2, AppendProperties
      <4>4. DOMAIN Append(rep, last) = 1..(n + 1)
        BY Zenon, <4>3, LenProperties
      <4>5. o = Append(rep, last)
        BY Zenon DEF rep, last
      <4> HIDE DEF o
      <4>6. \A j \in 1..n : o[j] = rep[j]
        BY Zenon, <4>3, <4>5
      <4>7. \A j \in 1..n : rep[j].keys = r.replays[j] /\ rep[j].to = now
        BY Zenon, <2>8, <3>3 DEF rep
      <4>8. DOMAIN o = 1..(n + 1) /\ o[n + 1] = last
        BY Zenon, <4>3, <4>4, <4>5
      <4>9. last.keys = r.keys /\ last.to = focus
        BY Zenon DEF last
      <4> QED
        BY Zenon, <4>6, <4>7, <4>8, <4>9
    <3> HIDE DEF n, o
    <3>5. \A i \in 1..(n + 1) : i = n + 1 \/ i \in 1..n
      BY <3>3
    <3>6. Range(r.keys) \subseteq Range(had) \cup {k}
      BY Zenon, <2>3 DEF Accounts
    <3>7. Given
      <4> SUFFICES ASSUME NEW i \in 1..(n + 1), NEW x \in Range(o[i].keys)
                   PROVE  x.at = o[i].to \/ (x \in Range(keystrokes) /\ of = o[i].to)
        BY Zenon, <3>1, <3>4 DEF Given
      <4>1. CASE i = n + 1
        <5>1. x \in Range(had) \cup {k} /\ o[i].to = focus
          BY Zenon, <3>4, <3>6, <4>1
        <5>2. CASE x = k
          BY Zenon, <1>4, <5>1, <5>2
        <5>3. CASE x \in Range(had)
          BY Zenon, <2>4, <2>5, <5>1, <5>3
        <5> QED
          BY Zenon, <5>1, <5>2, <5>3
      <4>2. CASE i \in 1..n
        BY Zenon, <2>6, <3>3, <3>4, <4>2
      <4> QED
        BY Zenon, <3>5, <4>1, <4>2
    <3>8. ASSUME NEW i \in 1..(n + 1), Len(o[i].keys) > 1
          PROVE  bindings_for_input(map, Names(o[i].keys), o[i].to) # {}
      <4>1. CASE i = n + 1
        <5>1. o[i].keys = r.keys /\ o[i].to = focus
          BY Zenon, <3>4, <4>1
        <5>2. Len(r.keys) > 1 => bindings_for_input(map, Names(r.keys), focus) # {}
          BY Zenon, <2>3, <2>12 DEF Accounts
        <5> QED
          BY Zenon, <3>8, <5>1, <5>2
      <4>2. CASE i \in 1..n
        <5>1. o[i].keys = r.replays[i] /\ o[i].to = now /\ i \in DOMAIN r.replays
          BY Zenon, <3>3, <3>4, <4>2
        <5> QED
          BY Zenon, <2>7, <3>8, <5>1
      <4> QED
        BY Zenon, <3>5, <4>1, <4>2
    <3>9. [i \in 1..(n + 1) |-> o[i].keys] = Append(r.replays, r.keys)
      <4> DEFINE all == Append(r.replays, r.keys)
                 S == Seq(Range(had)) \cup {r.keys}
      <4>1. r.replays \in Seq(S) /\ r.keys \in S
        <5>1. Seq(Range(had)) \subseteq S
          BY Zenon
        <5> HIDE DEF S
        <5>2. r.replays \in Seq(S)
          BY Zenon, <3>3, <5>1, SeqMonotonic
        <5> QED
          BY Zenon, <5>2 DEF S
      <4> HIDE DEF S
      <4>2. /\ all \in Seq(S) /\ Len(all) = n + 1 /\ all[n + 1] = r.keys
            /\ \A j \in 1..n : all[j] = r.replays[j]
        BY <4>1, AppendProperties DEF n
      <4> HIDE DEF all
      <4>3. all = [i \in 1..(n + 1) |-> all[i]]
        BY <4>2
      <4>4. \A i \in 1..(n + 1) : o[i].keys = all[i]
        BY Zenon, <3>4, <3>5, <4>2
      <4> QED
        BY Zenon, <4>3, <4>4 DEF all
    <3>10. Kept
      <4>1. Flatten(Append(r.replays, r.keys)) = Append(had, k)
        BY Zenon, <2>3, <2>12 DEF Accounts
      <4>2. Append(had, k) \in Seq(Keystrokes)
        BY Zenon, <1>4, AppendProperties
      <4>3. [i \in DOMAIN out' |-> out'[i].keys] = Append(r.replays, r.keys)
        BY Zenon, <3>1, <3>4, <3>9
      <4>4. Flatten([i \in DOMAIN out' |-> out'[i].keys]) \o keystrokes' = Append(had, k)
        BY Zenon, <3>1, <4>1, <4>2, <4>3, ConcatEmptySeq
      <4>5. \A i \in DOMAIN out' : Len(out'[i].keys) > 1 =>
              bindings_for_input(map, Names(out'[i].keys), out'[i].to) # {}
        BY Zenon, <3>1, <3>4, <3>8
      <4> QED
        BY Zenon, <2>9, <2>10, <4>4, <4>5 DEF Kept
    <3> QED
      BY Zenon, <3>2, <3>7, <3>10
  <2> QED
    BY Zenon, <2>11, <2>12
<1> QED
  BY Zenon, <1>1, <1>6, <1>7

\* A flush gives what is held to the handlers of the focus, all of it and in order.
LEMMA FlushHolds ==
  ASSUME HoldingInv, HeldInv, flush
  PROVE  HeldInv' /\ Kept /\ Given
<1> DEFINE r == flush_dispatch(map, keystrokes, focus)
<1>1. of = focus
  BY Zenon, NoTimeoutIs DEF HoldingInv, flush, Running
<1>2. /\ keystrokes' = <<>> /\ out' = Replayed(r, focus) /\ focus' \in Moves
      /\ dropped' = FALSE /\ typed' = typed
  BY Zenon, <1>1 DEF flush
<1>3. keystrokes \in Seq(Keystrokes) /\ typed \in Nat /\ Moves \subseteq Places
  BY Zenon DEF HeldInv, Moves
<1>4. /\ r \in Seq(Seq(Range(keystrokes))) /\ Flatten(r) = keystrokes
      /\ \A i \in DOMAIN r :
           Len(r[i]) > 1 => bindings_for_input(map, Names(r[i]), focus) # {}
  BY Zenon, <1>3, FlushAccounts
<1> HIDE DEF r
<1>5. HeldInv'
  <2>1. Range(keystrokes') = {} /\ keystrokes' \in Seq(Keystrokes) /\ typed' \in Nat
        /\ focus' \in Places
    BY <1>2, <1>3 DEF Range
  <2> QED
    BY Zenon, <1>2, <2>1 DEF HeldInv
<1>6. /\ DOMAIN out' = DOMAIN r
      /\ \A i \in DOMAIN r : out'[i].keys = r[i] /\ out'[i].to = focus
  BY Zenon, <1>2 DEF Replayed
<1>7. Given
  <2>1. ASSUME NEW i \in DOMAIN r PROVE Range(r[i]) \subseteq Range(keystrokes)
    <3>1. r[i] \in Seq(Range(keystrokes))
      BY Zenon, <1>4, ElementOfSeq, LenProperties
    <3>2. Range(r[i]) \in SUBSET Range(keystrokes)
      BY Zenon, <3>1, RangeOfSeq
    <3> QED
      BY Zenon, <3>2
  <2> QED
    BY Zenon, <1>1, <1>6, <2>1 DEF Given
<1>8. [i \in DOMAIN out' |-> out'[i].keys] = r
  <2>1. r = [i \in DOMAIN r |-> r[i]]
    BY <1>4
  <2> QED
    BY Zenon, <1>6, <2>1
<1>9. Flatten([i \in DOMAIN out' |-> out'[i].keys]) \o keystrokes' = keystrokes
  BY Zenon, <1>2, <1>3, <1>4, <1>8, ConcatEmptySeq
<1>10. Begins(keystrokes, keystrokes) /\ Len(keystrokes) - Len(keystrokes) <= typed' - typed
  <2>1. Len(keystrokes) \in Nat /\ SubSeq(keystrokes, 1, Len(keystrokes)) = keystrokes
    BY Zenon, <1>3, LenProperties, SubSeqFull
  <2>2. Len(keystrokes) - Len(keystrokes) = 0 /\ typed' - typed = 0
    BY <1>2, <1>3, <2>1
  <2> QED
    BY <2>1, <2>2 DEF Begins
<1>11. \A i \in DOMAIN out' : Len(out'[i].keys) > 1 =>
         bindings_for_input(map, Names(out'[i].keys), out'[i].to) # {}
  BY Zenon, <1>4, <1>6
<1>12. Kept
  BY Zenon, <1>2, <1>9, <1>10, <1>11 DEF Kept
<1> QED
  BY Zenon, <1>5, <1>7, <1>12

\* A step that leaves what is held and its focus, and some timeout if there was one.
LEMMA QuietHolds ==
  ASSUME HoldingInv, HeldInv, out' = <<>>, dropped' = FALSE,
         UNCHANGED <<map, focus, keystrokes, typed>>,
         timeout # NoTimeout => timeout' # NoTimeout
  PROVE  HeldInv' /\ Kept /\ Given
<1>1. HeldInv'
  BY Zenon DEF HeldInv
<1>2. Kept /\ Given
  BY Zenon, QuietStep
<1> QED
  BY Zenon, <1>1, <1>2

\* What drops all that is held.
LEMMA ClearHolds ==
  ASSUME HoldingInv, HeldInv, clear_pending_keystrokes, Idle, focus' \in Places
  PROVE  HeldInv' /\ Kept /\ Given
<1>1. /\ keystrokes' = <<>> /\ dropped' = TRUE /\ out' = <<>>
      /\ map' = map /\ typed' = typed
  BY Zenon DEF clear_pending_keystrokes, Idle
<1>2. Range(keystrokes') = {}
  BY <1>1 DEF Range
<1>3. HeldInv'
  BY <1>1, <1>2 DEF HeldInv
<1>4. Kept /\ Given
  BY Zenon, <1>1, QuietStep
<1> QED
  BY Zenon, <1>3, <1>4

\* Every step, by the action it is of.
LEMMA StepHolds ==
  ASSUME HoldingInv, HeldInv, Next
  PROVE  HeldInv' /\ Kept /\ Given
<1>1. CASE \E key \in Keys, accepts \in BOOLEAN : key_down(key, accepts)
  BY Zenon, <1>1, KeystrokeHolds DEF key_down
<1>2. CASE \E n \in 0..2 : modifiers_changed(n)
  <2>1. CASE dispatch_keystroke(Modifier, FALSE)
    BY Zenon, <2>1, KeystrokeHolds
  <2>2. CASE out' = <<>> /\ dropped' = FALSE /\ UNCHANGED <<map, focus, held, typed>>
    BY Zenon, <2>2, QuietHolds DEF held
  <2> QED
    BY Zenon, <1>2, <2>1, <2>2 DEF modifiers_changed
<1>3. CASE \E to \in Focuses : focus_on(to)
  <2>1. clear_pending_keystrokes /\ Idle /\ focus' \in Places
    BY Zenon, <1>3 DEF focus_on, Places
  <2> QED
    BY Zenon, <2>1, ClearHolds
<1>4. CASE \E disable \in BOOLEAN : blur(disable)
  <2>1. clear_pending_keystrokes /\ Idle /\ focus' \in Places
    BY Zenon, <1>4 DEF blur, Places, HeldInv
  <2> QED
    BY Zenon, <2>1, ClearHolds
<1>5. CASE open_menu
  <2>1. clear_pending_keystrokes /\ Idle /\ focus' \in Places
    BY Zenon, <1>5 DEF open_menu, HeldInv
  <2> QED
    BY Zenon, <2>1, ClearHolds
<1>6. CASE \E owner \in Owners : pause(owner) \/ resume(owner) \/ release(owner)
  <2> PICK owner \in Owners : pause(owner) \/ resume(owner) \/ release(owner)
    BY Zenon, <1>6
  <2>1. CASE pause(owner)
    <3>1. timeout'.state = "paused"
      BY Zenon, <2>1 DEF pause
    <3>2. timeout' # NoTimeout
      BY Zenon, <3>1, NoTimeoutIs
    <3> QED
      BY Zenon, <2>1, <3>2, QuietHolds DEF pause
  <2>2. CASE resume_pending_input_timeout(owner)
    <3>1. timeout # NoTimeout => timeout' # NoTimeout
      <4>1. CASE Paused /\ timeout.owner = owner
        <5>1. timeout'.state = "running"
          BY Zenon, <2>2, <4>1 DEF resume_pending_input_timeout, HoldingInv, Timeouts
        <5> QED
          BY Zenon, <5>1, NoTimeoutIs
      <4>2. CASE ~(Paused /\ timeout.owner = owner)
        BY Zenon, <2>2, <4>2 DEF resume_pending_input_timeout
      <4> QED
        BY Zenon, <4>1, <4>2
    <3>2. CASE resume(owner)
      BY Zenon, <3>1, <3>2, QuietHolds DEF resume
    <3>3. CASE release(owner)
      BY Zenon, <3>1, <3>3, QuietHolds DEF release
    <3>4. CASE pause(owner)
      BY Zenon, <3>4, <2>1
    <3> QED
      BY Zenon, <3>2, <3>3, <3>4
  <2> QED
    BY Zenon, <2>1, <2>2 DEF resume, release
<1>7. CASE tick
  <2>1. timeout'.state = "running"
    BY Zenon, <1>7 DEF tick, Running, HoldingInv, Timeouts
  <2>2. timeout' # NoTimeout
    BY Zenon, <2>1, NoTimeoutIs
  <2> QED
    BY Zenon, <1>7, <2>2, QuietHolds DEF tick
<1>8. CASE flush
  BY Zenon, <1>8, FlushHolds
<1> QED
  BY Zenon, <1>1, <1>2, <1>3, <1>4, <1>5, <1>6, <1>7, <1>8 DEF Next, input, application

\* What is held stays a part of what was typed, in every reachable state (dispatch_key_event).
THEOREM HeldInvariant == Spec => []HeldInv
<1>1. Init => HeldInv
  <2> SUFFICES ASSUME Init PROVE HeldInv
    BY Zenon
  <2>1. focus \in Places /\ typed \in Nat /\ keystrokes = <<>>
    BY Zenon DEF Init, Places
  <2>2. Range(keystrokes) = {}
    BY <2>1 DEF Range
  <2> QED
    BY <2>1, <2>2 DEF HeldInv
<1>2. HoldingInv /\ HeldInv /\ [Next]_vars => HeldInv'
  <2>1. ASSUME HeldInv, UNCHANGED vars PROVE HeldInv'
    BY Zenon, <2>1 DEF HeldInv, vars, held
  <2> QED
    BY Zenon, <2>1, StepHolds
<1> QED
  BY <1>1, <1>2, HoldingInvariant, PTL DEF Spec

\* A character that the text input would have taken is never held without a timeout, and a
\* timeout is paused only by an entity that lives (dispatch_key_event,
\* set_pending_input_timeout_paused).
THEOREM TextHasTimeout == Spec => []TextIsTimed
<1>1. HoldingInv /\ HeldInv => TextIsTimed
  <2> SUFFICES ASSUME HoldingInv, HeldInv PROVE TextIsTimed
    BY Zenon
  <2>1. (\E i \in DOMAIN keystrokes : keystrokes[i].text) => timeout # NoTimeout
    BY Zenon DEF HeldInv, Range
  <2>2. Paused => timeout.owner \in alive /\ timeout.remaining \in 0..TIMEOUT
    BY Zenon DEF HoldingInv, MadeUp, Timeouts
  <2> QED
    BY Zenon, <2>1, <2>2 DEF TextIsTimed
<1> QED
  BY <1>1, HoldingInvariant, HeldInvariant, PTL

\* What is held is held under the present focus, and begins a binding of it if it was typed
\* there (Window::pending_input, DispatchTree::dispatch_key).
THEOREM HeldBeginsBinding == Spec => []HeldAreOfFocus
<1>1. HoldingInv /\ HeldInv => HeldAreOfFocus
  <2> SUFFICES ASSUME HoldingInv, HeldInv, keystrokes # <<>>
               PROVE  /\ of = focus
                      /\ (\A i \in DOMAIN keystrokes : keystrokes[i].at = focus) =>
                           pending_for_input(map, Names(keystrokes), focus)
    BY Zenon DEF HeldAreOfFocus
  <2>1. (\A i \in DOMAIN keystrokes : keystrokes[i].at = focus) =>
          \A k \in Range(keystrokes) : k.at = focus
    BY Zenon DEF Range
  <2> QED
    BY Zenon, <2>1 DEF HoldingInv, HeldInv
<1> QED
  BY <1>1, HoldingInvariant, HeldInvariant, PTL

\* No keystroke is lost, given twice or out of order, however prefixes are matched, replayed and
\* flushed, and several are given as one only as the keystrokes of a binding
\* (DispatchTree::dispatch_key, flush_dispatch, replay_prefix).
THEOREM KeystrokesAreKept == Spec => KeysAreKept
<1>1. HoldingInv /\ HeldInv /\ [Next]_vars => [Kept]_vars
  BY Zenon, StepHolds
<1> QED
  BY <1>1, HoldingInvariant, HeldInvariant, PTL DEF Spec, KeysAreKept, Kept

\* A keystroke goes to the handlers of the focus it was typed at or was held under
\* (dispatch_key_event, replay_pending_input).
THEOREM KeystrokesGoWhereTyped == Spec => GivenWhereTyped
<1>1. HoldingInv /\ HeldInv /\ [Next]_vars => [Given]_vars
  BY Zenon, StepHolds
<1> QED
  BY <1>1, HoldingInvariant, HeldInvariant, PTL DEF Spec, GivenWhereTyped, Given
=============================================================================
