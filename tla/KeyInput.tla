------------------------------ MODULE KeyInput ------------------------------
(***************************************************************************)
(* The keystrokes a window holds back because they begin a binding: how    *)
(* they are matched, replayed, flushed by a timeout that can be paused,    *)
(* and dropped (crates/gpui/src/window.rs).                                *)
(*                                                                         *)
(* A step is one event, timer or call by the application with all it runs, *)
(* deferred notifications included.  Interceptors, actions replayed and    *)
(* the handlers an event ends at may move the focus.  What a focus stands  *)
(* for in the rendered frame is its place in the contexts of the keymap.   *)
(***************************************************************************)
EXTENDS Keymap

CONSTANTS
  KEYMAPS,   \* the keymaps, one of which the application has
  Keys,      \* the keys
  Text,      \* those that type a character
  Focuses,   \* the focus handles
  Owners,    \* the entities that may pause the timeout
  TIMEOUT,   \* PENDING_INPUT_TIMEOUT, in ticks
  LATE,      \* bound: ticks a timer is late
  MAX_KEYS   \* bound: keystrokes typed

None == "none"
Modifier == "modifier"  \* the keystroke of a modifier pressed and released alone

ASSUME KeyInputAssumption ==
  /\ Text \subseteq Keys /\ {None, Modifier} \cap (Keys \cup Focuses \cup Owners) = {}
  /\ TIMEOUT \in Nat \ {0} /\ LATE \in Nat /\ MAX_KEYS \in Nat

VARIABLES
  map,         \* the keymap
  focus,       \* the focus handle focused, or None
  enabled,     \* focus_enabled
  keystrokes,  \* pending_input: the keystrokes held, none for None
  of,          \* pending_input.focus
  timeout,     \* pending_input.timeout: [state, remaining, elapsed, owner], or NoTimeout
  modifiers,   \* pending_modifier: how many are held down, up to two
  saw,         \* pending_modifier.saw_other_input
  alive,       \* the owners not released
  told,        \* what the observers of pending input saw last
  typed,       \* bound: how many keystrokes were typed
  out,         \* history: what the last step replayed and gave to handlers, and where
  waited,      \* history: ticks the timeout ran since the last keystroke was held, up to TIMEOUT
  dropped      \* history: the last step dropped what was held

held == <<keystrokes, of, timeout>>
vars == <<map, focus, enabled, held, modifiers, saw, alive, told, typed, out, waited, dropped>>

Places == Focuses \cup {None}
NoTimeout == [state |-> "none", remaining |-> 0, elapsed |-> 0, owner |-> None]

\* A keystroke typed at a focus; `text` if it types a character a text input would take.
Keystrokes == [key : Keys \cup {Modifier}, at : Places, text : BOOLEAN]

Init ==
  /\ map \in KEYMAPS
  /\ focus = None /\ enabled = TRUE
  /\ keystrokes = <<>> /\ of = None /\ timeout = NoTimeout
  /\ modifiers = 0 /\ saw = FALSE
  /\ alive = Owners /\ told = <<>>
  /\ typed = 0 /\ out = <<>> /\ waited = 0 /\ dropped = FALSE

----------------------------------------------------------------------------
\* Focus.

\* Where the focus can be after callbacks: anywhere, while it is enabled.
Moves == IF enabled THEN Places ELSE {focus}

\* Mutant of clear_pending_keystrokes: they are kept.
KeepPendingKeystrokes ==
  /\ dropped' = TRUE /\ told' = keystrokes
  /\ UNCHANGED <<held, waited>>

\* Window::clear_pending_keystrokes, with the deferred notification of the observers.
clear_pending_keystrokes ==
  /\ keystrokes' = <<>> /\ of' = None /\ timeout' = NoTimeout
  /\ waited' = 0 /\ told' = <<>> /\ dropped' = TRUE

Idle == out' = <<>> /\ UNCHANGED <<map, modifiers, saw, typed>>

\* Window::focus, blur and disable_focus.  Blur drops what is held even if focus is disabled.
focus_on(to) ==
  /\ enabled /\ to # focus
  /\ focus' = to
  /\ clear_pending_keystrokes
  /\ Idle /\ UNCHANGED <<enabled, alive>>

blur(disable) ==
  /\ focus' = IF enabled THEN None ELSE focus
  /\ enabled' = (enabled /\ ~disable)
  /\ clear_pending_keystrokes
  /\ Idle /\ UNCHANGED alive

\* A menu opens: App::clear_pending_keystrokes.
open_menu ==
  /\ clear_pending_keystrokes
  /\ Idle /\ UNCHANGED <<focus, enabled, alive>>

----------------------------------------------------------------------------
\* Keystrokes.

\* Mutant of NewTimeout: a timeout that is paused goes on with the time it had left.
TimeoutUnreset(old, needed) ==
  IF old.state = "paused" THEN old
  ELSE IF needed
       THEN [state |-> "running", remaining |-> TIMEOUT, elapsed |-> 0, owner |-> None]
       ELSE NoTimeout

\* The timeout of keystrokes newly held, `old` being the one they had.
NewTimeout(old, needed) ==
  CASE old.state = "paused" -> [old EXCEPT !.remaining = TIMEOUT]
    [] old.state # "paused" /\ needed ->
         [state |-> "running", remaining |-> TIMEOUT, elapsed |-> 0, owner |-> None]
    [] OTHER -> NoTimeout

\* Mutant of needs_timeout: that there was one is not looked at.
NeedsOwnTimeout(old, result, k) ==
  result.bound \/ k.text \/ (Len(result.pending) = 1 /\ k.key = Modifier)

needs_timeout(old, result, k) ==
  \/ old # NoTimeout \/ result.bound \/ k.text
  \/ Len(result.pending) = 1 /\ k.key = Modifier

\* Keystrokes replayed, to the handlers at `to`.
Replayed(replays, to) == [i \in DOMAIN replays |-> [keys |-> replays[i], to |-> to]]

\* Mutant of match_key: the key goes to where the focus is once the interceptors ran.
MatchAtFocus(k, input, old, now) ==
  \E result \in {dispatch_key(map, input, k, k.at)} :
    /\ result.pending = <<>> /\ focus' = now
    /\ keystrokes' = <<>> /\ of' = None /\ timeout' = NoTimeout /\ waited' = 0
    /\ out' = Append(Replayed(result.replays, now), [keys |-> result.keys, to |-> now])

\* dispatch_key_event once the interceptors have let `k` pass, with `input` held, for which
\* `old` is the timeout, and the focus at `now`: the key is matched where it was typed.
\* Actions replayed, and the handlers the key ends at, may move the focus.
match_key(k, input, old, now) ==
  \E result \in {dispatch_key(map, input, k, k.at)} :
    /\ IF result.pending # <<>>
       THEN /\ focus' \in IF result.replays = <<>> THEN {now} ELSE Moves
            /\ keystrokes' = result.pending /\ of' = focus'
            /\ timeout' = NewTimeout(old, needs_timeout(old, result, k))
            /\ out' = Replayed(result.replays, now)
       ELSE /\ focus' \in Moves
            /\ keystrokes' = <<>> /\ of' = None /\ timeout' = NoTimeout
            /\ out' = Append(Replayed(result.replays, now), [keys |-> result.keys, to |-> k.at])
    /\ waited' = 0

\* An interceptor takes the key: what is held stays so.
intercept(input, old, now) ==
  /\ keystrokes' = input /\ timeout' = old /\ of' = IF input = <<>> THEN None ELSE of
  /\ waited' = IF input = <<>> THEN 0 ELSE waited
  /\ out' = <<>> /\ focus' = now

\* dispatch_key_event of a keystroke, `accepts` if the text input takes text.  Interceptors may
\* drop what is held, as they must if they move the focus.
dispatch_keystroke(key, accepts) ==
  LET k == [key |-> key, at |-> focus, text |-> key \in Text /\ accepts] IN
  /\ typed < MAX_KEYS /\ typed' = typed + 1
  /\ \E now \in Moves, drop \in BOOLEAN :
       LET input == IF drop THEN <<>> ELSE keystrokes
           old == IF drop THEN NoTimeout ELSE timeout
       IN  /\ now # focus => drop
           /\ dropped' = drop
           /\ \/ intercept(input, old, now)
              \/ match_key(k, input, old, now)
  /\ told' = keystrokes'
  /\ UNCHANGED <<map, enabled, alive>>

key_down(key, accepts) ==
  /\ dispatch_keystroke(key, accepts)
  /\ saw' = TRUE /\ UNCHANGED modifiers

\* A modifier goes down or up; one pressed and released alone is a keystroke.
modifiers_changed(n) ==
  /\ n # modifiers
  /\ IF n = 0 /\ modifiers = 1 /\ ~saw
     THEN dispatch_keystroke(Modifier, FALSE)
     ELSE out' = <<>> /\ dropped' = FALSE
          /\ UNCHANGED <<map, focus, enabled, held, alive, told, typed, waited>>
  /\ saw' = IF modifiers = 0 /\ n = 1 THEN FALSE ELSE saw \/ n > 1
  /\ modifiers' = n

----------------------------------------------------------------------------
\* The timeout.

Running == timeout.state = "running"
Paused == timeout.state = "paused"

tick ==
  /\ Running /\ timeout.elapsed < timeout.remaining + LATE
  /\ timeout' = [timeout EXCEPT !.elapsed = @ + 1]
  /\ waited' = Min({waited + 1, TIMEOUT})
  /\ out' = <<>> /\ dropped' = FALSE
  /\ UNCHANGED <<map, focus, enabled, keystrokes, of, modifiers, saw, alive, told, typed>>

\* The timer's task: what is held is replayed where it is held, and actions replayed may move
\* the focus.
flush ==
  /\ Running /\ timeout.elapsed >= timeout.remaining
  /\ keystrokes' = <<>> /\ of' = None /\ timeout' = NoTimeout /\ waited' = 0
  /\ IF of = focus
     THEN /\ out' = Replayed(flush_dispatch(map, keystrokes, focus), focus)
          /\ told' = <<>> /\ focus' \in Moves
     ELSE /\ out' = <<>> /\ UNCHANGED <<told, focus>>
  /\ dropped' = FALSE
  /\ UNCHANGED <<map, enabled, modifiers, saw, alive, typed>>

\* Window::set_pending_input_timeout_paused(owner, true).
pause(owner) ==
  /\ owner \in alive /\ of = focus /\ Running
  /\ timeout' = [state |-> "paused", owner |-> owner, elapsed |-> 0,
                  remaining |-> Max({timeout.remaining - timeout.elapsed, 0})]
  /\ out' = <<>> /\ dropped' = FALSE /\ told' = keystrokes
  /\ UNCHANGED <<map, focus, enabled, keystrokes, of, modifiers, saw, alive, typed, waited>>

resume_pending_input_timeout(owner) ==
  IF Paused /\ timeout.owner = owner
  THEN timeout' = [timeout EXCEPT !.state = "running", !.owner = None] /\ told' = keystrokes
  ELSE UNCHANGED <<timeout, told>>

\* Window::set_pending_input_timeout_paused(owner, false).
resume(owner) ==
  /\ owner \in alive /\ Paused /\ timeout.owner = owner
  /\ resume_pending_input_timeout(owner)
  /\ out' = <<>> /\ dropped' = FALSE
  /\ UNCHANGED <<map, focus, enabled, keystrokes, of, modifiers, saw, alive, typed, waited>>

\* Mutant of release: what the owner paused stays paused.
ReleaseSilently(owner) ==
  /\ owner \in alive /\ alive' = alive \ {owner}
  /\ out' = <<>> /\ dropped' = FALSE
  /\ UNCHANGED <<map, focus, enabled, held, modifiers, saw, told, typed, waited>>

\* An owner is released, which its pause observes.
release(owner) ==
  /\ owner \in alive /\ alive' = alive \ {owner}
  /\ resume_pending_input_timeout(owner)
  /\ out' = <<>> /\ dropped' = FALSE
  /\ UNCHANGED <<map, focus, enabled, keystrokes, of, modifiers, saw, typed, waited>>

----------------------------------------------------------------------------
input ==
  \/ \E key \in Keys, accepts \in BOOLEAN : key_down(key, accepts)
  \/ \E n \in 0..2 : modifiers_changed(n)

application ==
  \/ \E to \in Focuses : focus_on(to)
  \/ \E disable \in BOOLEAN : blur(disable)
  \/ open_menu
  \/ \E owner \in Owners : pause(owner) \/ resume(owner) \/ release(owner)

Next == input \/ application \/ tick \/ flush

\* Time passes, and a timer that is due runs.
Fairness == WF_vars(tick) /\ WF_vars(flush)

Spec == Init /\ [][Next]_vars /\ Fairness

----------------------------------------------------------------------------
TypeOK ==
  /\ map \in KEYMAPS /\ focus \in Places /\ enabled \in BOOLEAN
  /\ keystrokes \in Seq(Keystrokes) /\ of \in Places
  /\ timeout \in [state : {"none", "running", "paused"}, remaining : 0..TIMEOUT,
                   elapsed : 0..(TIMEOUT + LATE), owner : Owners \cup {None}]
  /\ keystrokes = <<>> => timeout = NoTimeout /\ of = None
  /\ modifiers \in 0..2 /\ saw \in BOOLEAN /\ alive \subseteq Owners
  /\ typed \in 0..MAX_KEYS /\ dropped \in BOOLEAN

\* Keystrokes are held only under the focus they were held for, so that the timeout never finds
\* them left over, and those all typed at it begin a binding enabled there
\* (Window::pending_input, start_pending_input_timeout).
HeldAreOfFocus ==
  keystrokes # <<>> =>
    /\ of = focus
    /\ (\A i \in DOMAIN keystrokes : keystrokes[i].at = focus) =>
         pending_for_input(map, Names(keystrokes), focus)

\* One sequence is the beginning of the other.
Begins(before, after) == Len(before) <= Len(after) /\ SubSeq(after, 1, Len(before)) = before

\* Unless dropped, keystrokes are given to handlers in the order typed, each once, whatever
\* prefixes were matched, replayed or flushed before; and several as one only as the keystrokes
\* of a binding (DispatchTree::dispatch_key, flush_dispatch, replay_prefix).
KeysAreKept ==
  [][LET before == IF dropped' THEN <<>> ELSE keystrokes
         after == Flatten([i \in DOMAIN out' |-> out'[i].keys]) \o keystrokes'
     IN  /\ Begins(before, after) /\ Len(after) - Len(before) <= typed' - typed
         /\ \A i \in DOMAIN out' : Len(out'[i].keys) > 1 =>
              bindings_for_input(map, Names(out'[i].keys), out'[i].to) # {}]_vars

\* A keystroke goes to the handlers of the focus it was typed at, or of the one it was held
\* under, wherever interceptors and actions replayed before it move the focus
\* (dispatch_key_event, replay_pending_input).
GivenWhereTyped ==
  [][\A i \in DOMAIN out' : \A k \in Range(out'[i].keys) :
       k.at = out'[i].to \/ (k \in Range(keystrokes) /\ of = out'[i].to)]_vars

\* What is held is flushed only once it was left alone for the timeout, the time its timeout was
\* paused not counted, and counted anew from each keystroke (PendingInputTimeout).
NotFlushedEarly == [][flush => waited >= TIMEOUT]_vars

\* A character the text input would have taken is never held without a timeout, whatever
\* follows it; a timeout is paused only while the entity that paused it lives, and with no less
\* than nothing left of it, late as its timer may be (dispatch_key_event,
\* set_pending_input_timeout_paused).
TextIsTimed ==
  /\ (\E i \in DOMAIN keystrokes : keystrokes[i].text) => timeout # NoTimeout
  /\ Paused => timeout.owner \in alive /\ timeout.remaining \in 0..TIMEOUT

\* The observers of pending input were told of what is held now (pending_input_changed).
ObserversAreTold == told = keystrokes

\* Provided that the entities that may pause it are all released some day, what is held with a
\* timeout is flushed, completed or dropped (PendingInputTimeout, start_pending_input_timeout).
HoldingEnds == <>(alive = {}) => (timeout # NoTimeout ~> timeout = NoTimeout)
=============================================================================
