---------------------------- MODULE LayerPolicy ----------------------------
(***************************************************************************)
(* When a scroll container has a layer: promotion, demotion and cooldown   *)
(* (crates/gpui/src/fast/layers/policy.rs) and the budget of rebuilding    *)
(* work (work.rs), for one `div`.                                          *)
(*                                                                         *)
(* A step is a frame of the window.  What the frame finds of the container *)
(* (whether it scrolled, whether its content changed, whether a layer can  *)
(* hold it) is an input; Layers models how it is found out.  The code      *)
(* stores frame numbers; here each is stored as an age, the number of      *)
(* frames since, or as the number of frames left, capped where no          *)
(* comparison tells larger ones apart.  Work is counted in quarters of     *)
(* what drawing the visible content costs.                                 *)
(***************************************************************************)
EXTENDS Integers, FiniteSets, SequencesExt

CONSTANTS
  PROMOTE_AFTER_SCROLLED_FRAMES, DEMOTE_AFTER_CHANGED_FRAMES, HISTORY,
  REPROMOTE_AFTER_STABLE_FRAMES, MAX_COOLDOWN_DOUBLINGS, RETRY_AFTER_INELIGIBLE_FRAMES,
  DROP_AFTER_FRAMES,
  WINDOW, RECENT, REFRESH_SPIKE_FRAMES,   \* of WorkBudget
  WORKS                                   \* bound: what painting the content may cost

Direct == 4
FRAME_OVERHEAD == 1
MAX_REFRESH_WORK == 4 * Direct
Cooldown(doublings) == REPROMOTE_AFTER_STABLE_FRAMES * 2 ^ doublings
LongestCooldown == Cooldown(MAX_COOLDOWN_DOUBLINGS)
\* The frames content has to scroll unchanged for to be promoted, the last cooldown being over or
\* nearly: a change at its end asks for no more.
Rest == Max({REPROMOTE_AFTER_STABLE_FRAMES, PROMOTE_AFTER_SCROLLED_FRAMES,
             RETRY_AFTER_INELIGIBLE_FRAMES})

ASSUME PolicyAssumption ==
  /\ PROMOTE_AFTER_SCROLLED_FRAMES \in Nat \ {0} /\ DEMOTE_AFTER_CHANGED_FRAMES \in 1..HISTORY
  /\ REPROMOTE_AFTER_STABLE_FRAMES >= HISTORY /\ MAX_COOLDOWN_DOUBLINGS \in Nat
  /\ RETRY_AFTER_INELIGIBLE_FRAMES \in Nat /\ DROP_AFTER_FRAMES \in Nat \ {0}
  /\ RECENT \in 1..WINDOW /\ REFRESH_SPIKE_FRAMES \in Nat
  /\ WORKS \subseteq Nat /\ WORKS # {}

VARIABLES
  layer,    \* the container's entry in `layers`: its standing and its work budget, or None
  drawn,    \* `layers.frame`: the frames the window drew, up to LongestCooldown
  quiet,    \* history: the frames in a row, up to Rest, that looked at the container, which
            \* scrolled by less than its viewport, its content unchanged and fit for a layer
  changes,  \* history: the ages of the frames the layer's content was seen to change on
  owed,     \* history: how much of the last cooldown is left
  spent     \* history: the cost of each frame the layer was used in since it was painted first

vars == <<layer, drawn, quiet, changes, owed, spent>>

None == [none |-> TRUE]
Never == 99  \* an age no frame has
Older(age, cap) == IF age = Never THEN Never ELSE Min({age + 1, cap})

----------------------------------------------------------------------------
\* WorkBudget: a ring of the cost of the last frames, whether there was a frame, the age of the
\* last expensive refresh and the gap between the last two.

NewBudget ==
  [samples |-> [i \in 0..(WINDOW - 1) |-> 0], total |-> 0, next |-> 0, len |-> 0,
   frame |-> FALSE, expensive |-> Never, gap |-> Never]

\* note_refresh in the current frame.
note_refresh(b, work) ==
  IF work > MAX_REFRESH_WORK /\ b.expensive # 0
  THEN [b EXCEPT !.expensive = 0, !.gap = b.expensive]
  ELSE b

\* Mutant of note: the sample a full ring replaces stays in the total.
NoteKeepingOld(b, work) ==
  LET sample == Min({work, 2 * Direct * WINDOW}) + FRAME_OVERHEAD IN
  IF ~b.frame
  THEN [b EXCEPT !.frame = TRUE]
  ELSE [b EXCEPT !.total = @ + sample,
                 !.samples[b.next] = sample,
                 !.next = (@ + 1) % WINDOW,
                 !.len = Min({@ + 1, WINDOW})]

\* note in a frame no work was noted in yet.  Painting the layer first is an investment.  (A
\* div's work is noted once a frame: a repaint, inserting what it painted, adds none to it.
\* Only a list adds to the sample of a frame.)
note(b, work) ==
  LET sample == Min({work, 2 * Direct * WINDOW}) + FRAME_OVERHEAD IN
  IF ~b.frame
  THEN [b EXCEPT !.frame = TRUE]
  ELSE [b EXCEPT !.total = @ - b.samples[b.next] + sample,
                 !.samples[b.next] = sample,
                 !.next = (@ + 1) % WINDOW,
                 !.len = Min({@ + 1, WINDOW})]

\* The last RECENT frames cost more than drawing directly, half or more of them each.
recent_over(b) ==
  LET back == {(b.next + WINDOW - i) % WINDOW : i \in 1..RECENT} IN
  /\ b.len >= RECENT
  /\ 2 * Cardinality({i \in back : b.samples[i] > Direct}) >= RECENT
  /\ MapThenSumSet(LAMBDA i : b.samples[i], back) > Direct * RECENT

over_budget(b) ==
  \/ b.gap <= REFRESH_SPIKE_FRAMES
  \/ b.len = WINDOW /\ b.total >= Direct * WINDOW
  \/ recent_over(b)

----------------------------------------------------------------------------
\* What a frame may find of the container: how it scrolled ("leap" is by its viewport's extent
\* or more), what keeps its content off a layer, what became of the content ("uncovered" is
\* scrolled past what the layer painted), and what painting or compositing it costs.  Where a
\* field does not matter it has one value.
Finds ==
  {found \in [scroll : {"still", "scroll", "leap"},
              obstacle : {"none", "jumped", "animating", "unfit", "ineligible", "unbaked"},
              content : {"same", "uncovered", "changed"},
              work : WORKS] :
     /\ found.obstacle \notin {"none", "unbaked"} => found.content = "same"
     /\ found.obstacle # "none" => found.work = Min(WORKS)}

\* The content of a new entry counts as changed on the window's first frame.
new_layer ==
  [record |-> FALSE, streak |-> 0, history |-> {}, until |-> Never, retry |-> 0,
   scrolled |-> Never, seen |-> 0, composited |-> 0, change |-> drawn,
   doublings |-> 0, work |-> NewBudget]

\* The frames in a row the container scrolled on, this one included.
Streak(e, found) ==
  IF found.scroll # "scroll" THEN 0
  ELSE IF e.scrolled = 1 THEN Min({e.streak + 1, PROMOTE_AFTER_SCROLLED_FRAMES}) ELSE 1

\* Mutant of Until: a change starts the whole cooldown over.
UntilRestarted(e, found) ==
  LET until == IF e.until # Never /\ found.content = "changed"
               THEN Max({e.until, Cooldown(e.doublings)}) ELSE e.until
  IN  IF until <= 0 THEN Never ELSE until

\* The frames left of a cooldown: a change asks the content to stay as it is a while.
Until(e, found) ==
  LET until == IF e.until # Never /\ found.content = "changed"
               THEN Max({e.until, REPROMOTE_AFTER_STABLE_FRAMES}) ELSE e.until
  IN  IF until <= 0 THEN Never ELSE until

\* What `decide` takes the frame for, before it looks at what the layer costs.
Verdict(e, found) ==
  IF Until(e, found) # Never THEN "cooling"
  ELSE IF e.record /\ found.obstacle = "jumped" THEN "jumped"
  ELSE IF found.obstacle = "animating" THEN "animating"
  ELSE IF e.record /\ found.obstacle = "unfit" THEN "unfit"
  ELSE IF e.record /\ found.obstacle = "ineligible" THEN "ineligible"
  ELSE IF e.record THEN found.content
  ELSE IF Streak(e, found) >= PROMOTE_AFTER_SCROLLED_FRAMES /\ e.retry = 0 THEN "promoted"
  ELSE "waiting"

\* Mutant of History: it moves on by a bit each time the container is looked at.
HistoryPerLook(e, verdict) ==
  ({bit + 1 : bit \in e.history} \cap (0..(HISTORY - 1)))
    \cup IF verdict = "changed" THEN {0} ELSE {}

\* The change history, a bit per frame, with this frame's.
History(e, verdict) ==
  ({bit + e.seen : bit \in e.history} \cap (0..(HISTORY - 1)))
    \cup IF verdict = "changed" THEN {0} ELSE {}

\* Whether the layer is demoted: it costs more than it saves, it can never be composited, or
\* its content changes too often.
Demotes(e, verdict) ==
  \/ verdict = "unfit"
  \/ /\ verdict = "changed"
     /\ Cardinality(History(e, verdict)) >= DEMOTE_AFTER_CHANGED_FRAMES
  \/ e.record /\ over_budget(e.work)

\* The backoff is forgotten once the content has long been as it is.
Doublings(e) == IF e.change >= LongestCooldown THEN 0 ELSE e.doublings

\* The standing `decide` leaves, whatever it decides.
Looked(e, found, verdict) ==
  [e EXCEPT !.streak = Streak(e, found),
            !.scrolled = IF found.scroll = "still" THEN @ ELSE 0,
            !.seen = 0,
            !.history = History(e, verdict),
            !.until = Until(e, found),
            !.doublings = Doublings(e),
            !.change = IF \/ verdict = "changed"
                          \/ e.until # Never /\ found.content = "changed"
                       THEN 0 ELSE @]

\* The layer is dropped for a cooldown, twice as long as the one before.
demote(e) ==
  [e EXCEPT !.record = FALSE, !.work = NewBudget, !.history = {}, !.streak = 0,
            !.until = Cooldown(e.doublings),
            !.doublings = Min({@ + 1, MAX_COOLDOWN_DOUBLINGS})]

\* The layer painted or composited, and what that cost noted; or, its background not fit to
\* be baked, dropped until it is tried again.
Shown(e, verdict, found) ==
  LET budget == IF verdict = "promoted" THEN NewBudget ELSE e.work
      noted == note(budget, found.work)
  IN  IF found.obstacle = "unbaked"
      THEN [e EXCEPT !.record = FALSE, !.retry = REPROMOTE_AFTER_STABLE_FRAMES,
                     !.composited = 0, !.work = budget]
      ELSE [e EXCEPT !.record = TRUE, !.composited = 0,
                     !.work = IF verdict = "changed" THEN note_refresh(noted, found.work)
                                                     ELSE noted]

\* policy::decide with this verdict, and what the paint it decides on does to the standing.
decide(e, found, verdict, demoted) ==
  LET looked == Looked(e, found, verdict) IN
  IF demoted THEN demote(looked)
  ELSE CASE verdict = "ineligible" ->
              [looked EXCEPT !.record = FALSE, !.retry = RETRY_AFTER_INELIGIBLE_FRAMES]
         [] verdict \in {"jumped", "animating"} -> [looked EXCEPT !.record = FALSE]
         [] verdict \in {"same", "uncovered", "changed", "promoted"} ->
              Shown(looked, verdict, found)
         [] OTHER -> looked

\* Mutant of keep: an entry is kept only for having been composited lately.
KeepComposited(e) == e.composited < DROP_AFTER_FRAMES

\* Whether the entry is kept at the end of a frame.
keep(e) ==
  \/ e.composited < DROP_AFTER_FRAMES
  \/ e.doublings > 0 /\ e.seen < DROP_AFTER_FRAMES
  \/ e.until # Never /\ e.until > -DROP_AFTER_FRAMES

\* The entry a frame on.
Aged(e) ==
  [e EXCEPT !.until = IF @ = Never THEN Never ELSE @ - 1,
            !.retry = Max({@ - 1, 0}),
            !.scrolled = Older(@, 2),
            !.seen = Older(@, Max({HISTORY, DROP_AFTER_FRAMES})),
            !.composited = Older(@, DROP_AFTER_FRAMES),
            !.change = Older(@, LongestCooldown),
            !.work.expensive = Older(@, REFRESH_SPIKE_FRAMES + 1)]

finish_frame(e) == IF e # None /\ keep(e) THEN Aged(e) ELSE None

HasLayer == layer # None /\ layer.record

Init ==
  /\ layer = None /\ drawn = 0 /\ quiet = 0 /\ changes = {} /\ owed = 0 /\ spent = <<>>

\* A frame in which the container prepaints its children, layers being active.  It gets an
\* entry the first frame it scrolls.
look(found) ==
  LET e == IF layer = None THEN new_layer ELSE layer
      verdict == Verdict(e, found)
      used == e.record /\ verdict \in {"same", "uncovered", "changed"}
      demoted == Demotes(e, verdict)
  IN  /\ layer = None => found.scroll # "still"
      /\ layer' = finish_frame(decide(e, found, verdict, demoted))
      /\ drawn' = Min({drawn + 1, LongestCooldown})
      /\ quiet' = IF /\ found.scroll = "scroll" /\ found.obstacle = "none"
                     /\ found.content # "changed"
                  THEN Min({quiet + 1, Rest}) ELSE 0
      /\ changes' = IF demoted THEN {}
                    ELSE ({age + 1 : age \in changes} \cap (0..(HISTORY - 1)))
                           \cup IF verdict = "changed" THEN {0} ELSE {}
      /\ owed' = IF demoted THEN Cooldown(Doublings(e)) ELSE Max({owed - 1, 0})
      /\ spent' = IF demoted \/ verdict = "promoted" THEN <<>>
                  ELSE IF used /\ found.obstacle # "unbaked"
                  THEN LET all == Append(spent, found.work + FRAME_OVERHEAD)
                       IN  IF Len(all) > WINDOW THEN Tail(all) ELSE all
                  ELSE spent

\* A frame that does not look at the container: its view is reused, it is not drawn, layers
\* are not active, or it has no entry and did not scroll.
skip ==
  /\ layer' = finish_frame(layer)
  /\ drawn' = Min({drawn + 1, LongestCooldown})
  /\ quiet' = 0
  /\ changes' = {age + 1 : age \in changes} \cap (0..(HISTORY - 1))
  /\ owed' = Max({owed - 1, 0})
  /\ UNCHANGED spent

frame == skip \/ \E found \in Finds : look(found)

\* The window's size or scale factor changes: every layer and its backoff are dropped.
drop_layers_on_resize ==
  /\ layer # None
  /\ layer' = None /\ quiet' = 0 /\ changes' = {} /\ owed' = 0 /\ spent' = <<>>
  /\ UNCHANGED drawn

Next == frame \/ drop_layers_on_resize

\* Frames keep being drawn: the display's callback draws one as long as the window shows.
Spec == Init /\ [][Next]_vars /\ WF_vars(frame)

----------------------------------------------------------------------------
TypeOK ==
  /\ layer # None =>
       /\ layer.record \in BOOLEAN /\ layer.streak \in 0..PROMOTE_AFTER_SCROLLED_FRAMES
       /\ layer.history \subseteq 0..(HISTORY - 1)
       /\ layer.until \in (-DROP_AFTER_FRAMES..LongestCooldown) \cup {Never}
       /\ layer.retry \in 0..Max({REPROMOTE_AFTER_STABLE_FRAMES, RETRY_AFTER_INELIGIBLE_FRAMES})
       /\ layer.doublings \in 0..MAX_COOLDOWN_DOUBLINGS
       /\ layer.work.next \in 0..(WINDOW - 1) /\ layer.work.len \in 0..WINDOW
  /\ drawn \in 0..LongestCooldown /\ quiet \in 0..Rest
  /\ changes \subseteq 0..(HISTORY - 1) /\ owed \in 0..LongestCooldown
  /\ Len(spent) <= WINDOW

\* A demoted container has no layer until its cooldown, doubled for each demotion before, is
\* over: neither a change, nor an entry dropped meanwhile, ends it early (demote, keep).
CooldownIsServed == HasLayer => owed = 0

\* A layer's history says on which of the last frames its content changed, those that did not
\* look at it counted, and it never outlives content that changed on too many (decide's
\* change_history).
ChurnIsDemoted ==
  HasLayer =>
    /\ {bit + layer.seen - 1 : bit \in layer.history} \cap (0..(HISTORY - 1)) = changes
    /\ Cardinality(changes) < DEMOTE_AFTER_CHANGED_FRAMES

\* The budget is of the last frames the layer was used in, and its total is theirs
\* (WorkBudget::note).
BudgetIsRecent ==
  HasLayer =>
    LET b == layer.work IN
    /\ b.len = Len(spent)
    /\ \A i \in 1..Len(spent) : spent[Len(spent) + 1 - i] = b.samples[(b.next + WINDOW - i) % WINDOW]
    /\ b.total = FoldSeq(LAMBDA x, y : x + y, 0, spent)

\* Content that changes now and then, but again and again scrolls for Rest frames in a row as
\* it is, gets its layer again and again, however often it was demoted: a change asks for no
\* more than a while of rest, and no cooldown lasts for good (decide's demoted_until).
TriedAgain == []<>(quiet = Rest) => []<>HasLayer

=============================================================================
