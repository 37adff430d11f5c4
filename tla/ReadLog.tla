------------------------------ MODULE ReadLog ------------------------------
(***************************************************************************)
(* The log of entities read while views are drawn: EntityAccessLog and the *)
(* recordings over it in fast/dependencies.rs.                              *)
(*                                                                         *)
(* All recordings share one log.  A recording is the stretch of the log    *)
(* since it began, and remembers the stretches its nested recordings, and  *)
(* the subtrees reused inside it, took up.  An access that repeats the one  *)
(* before it is left out, but never across a boundary between stretches.   *)
(* The logs of globals and states are the same without the leaving out.    *)
(***************************************************************************)
EXTENDS Integers, Sequences, FiniteSets, SequencesExt

CONSTANTS
    Entities,
    MaxLog,    \* bound on the length of the log
    MaxDepth,  \* bound on the recordings open at once
    MaxNested  \* bound on the stretches nested in a recording

ASSUME ReadLogAssumption ==
    /\ IsFiniteSet(Entities) /\ Entities # {}
    /\ MaxLog \in Nat /\ MaxDepth \in Nat /\ MaxNested \in Nat

VARIABLES
    access_log,
    boundary,
    open,   \* the recordings open, innermost last: where each starts, and
            \* the stretches nested in it
    truth   \* history: what each of them read in all, and itself

vars == <<access_log, boundary, open, truth>>

Recordings == Len(open)

Nestable == Recordings > 0 => Len(Last(open).nested) < MaxNested

(* The entries in the stretch `from..to` of the log, counted from 0. *)
Entries(from, to) == {access_log[i] : i \in (from + 1)..to}

(* The entries since `start` outside every stretch of `nested`. *)
outside(start, nested) ==
    LET skip(acc, n) ==
            [cursor |-> IF acc.cursor < n[2] THEN n[2] ELSE acc.cursor,
             own |-> acc.own \cup Entries(acc.cursor, n[1])]
        last == FoldLeft(skip, [cursor |-> start, own |-> {}], nested)
    IN last.own \cup Entries(last.cursor, Len(access_log))

(* The history, once the entities `read` were read through a subtree nested *)
(* in the innermost recording, or by that recording's own subtree.          *)
ReadInside(read) == [i \in 1..Len(truth) |-> [truth[i] EXCEPT !.all = @ \cup read]]
ReadItself(e) == [ReadInside({e}) EXCEPT ![Len(truth)].own = @ \cup {e}]

begin_recording ==
    /\ Recordings < MaxDepth /\ Nestable
    /\ boundary' = Len(access_log)
    /\ open' = Append(open, [start |-> Len(access_log), nested |-> <<>>])
    /\ truth' = Append(truth, [all |-> {}, own |-> {}])
    /\ UNCHANGED access_log

note_access(e) ==
    /\ Recordings > 0 /\ Len(access_log) < MaxLog
    /\ access_log' = IF Len(access_log) > boundary /\ Last(access_log) = e
                     THEN access_log ELSE Append(access_log, e)
    /\ truth' = ReadItself(e)
    /\ UNCHANGED <<boundary, open>>

(* Mutant of replay_dependencies: the next read may be folded into the reads *)
(* of the reused subtree.                                                    *)
ReplayUnmarked(read) ==
    /\ Recordings > 0 /\ Nestable /\ Len(access_log) + Cardinality(read) <= MaxLog
    /\ access_log' = access_log \o SetToSeq(read)
    /\ open' = [open EXCEPT ![Recordings].nested =
                  Append(@, <<Len(access_log), Len(access_log')>>)]
    /\ truth' = ReadInside(read)
    /\ UNCHANGED boundary

(* A reused subtree's reads, sorted and without repeats, read again inside   *)
(* the innermost recording.  With none open nothing is logged.               *)
replay_dependencies(read) ==
    /\ Recordings > 0 /\ Nestable /\ Len(access_log) + Cardinality(read) <= MaxLog
    /\ access_log' = access_log \o SetToSeq(read)
    /\ boundary' = Len(access_log')
    /\ open' = [open EXCEPT ![Recordings].nested =
                  Append(@, <<Len(access_log), Len(access_log')>>)]
    /\ truth' = ReadInside(read)

(* The innermost recording closes; the one around it remembers its stretch, *)
(* and the log is cleared with the last.                                    *)
finish_recording_dependencies ==
    /\ Recordings > 0
    /\ LET rest == Front(open)
       IN open' = IF rest = <<>> THEN <<>>
                  ELSE [rest EXCEPT ![Len(rest)].nested =
                          Append(@, <<Last(open).start, Len(access_log)>>)]
    /\ access_log' = IF Recordings = 1 THEN <<>> ELSE access_log
    /\ boundary' = Len(access_log')
    /\ truth' = Front(truth)

Init ==
    /\ access_log = <<>> /\ boundary = 0
    /\ open = <<>> /\ truth = <<>>

Next ==
    \/ begin_recording
    \/ \E e \in Entities : note_access(e)
    \/ \E read \in SUBSET Entities : replay_dependencies(read)
    \/ finish_recording_dependencies

Spec == Init /\ [][Next]_vars

-----------------------------------------------------------------------------
(* Type invariant: the log is empty while nothing records, and the boundary *)
(* and every stretch lie within it.                                         *)
TypeOK ==
    /\ access_log \in Seq(Entities)
    /\ Recordings = 0 => access_log = <<>>
    /\ boundary \in 0..Len(access_log)
    /\ \A i \in 1..Recordings :
         /\ open[i].start \in 0..Len(access_log)
         /\ \A n \in Range(open[i].nested) : n \in (0..Len(access_log)) \X (0..Len(access_log))

(* `all` and `own` of finish_recording_dependencies and dependencies_so_far: *)
(* each recording, however deep it is nested, finds in its stretch of the    *)
(* shared log exactly what was read while it was open, the reads left out as *)
(* repeats included; and the innermost one finds outside the stretches       *)
(* nested in it exactly what its subtree read itself.  A read left out as a  *)
(* repeat of one in a nested stretch would be lost, and the view not built   *)
(* again when it changes.                                                    *)
RecordingsAreExact ==
    /\ \A i \in 1..Recordings : Entries(open[i].start, Len(access_log)) = truth[i].all
    /\ Recordings > 0 => outside(Last(open).start, Last(open).nested) = Last(truth).own
=============================================================================
