------------------------------- MODULE Keymap -------------------------------
(***************************************************************************)
(* Which bindings of a keymap a sequence of keystrokes stands for, and     *)
(* what is left to do with keystrokes that stand for none                  *)
(* (crates/gpui/src/keymap.rs, keymap/binding.rs, key_dispatch.rs).        *)
(*                                                                         *)
(* A binding is [keys, action, target, depth, meta].  `depth` gives, for   *)
(* each focus, how deep in the contexts around it the binding's predicate  *)
(* matches, or Disabled; `target` is the action an unbinding takes away;   *)
(* a smaller `meta` is a stronger source.  A keystroke is a record with a  *)
(* `key`, compared by that alone.                                          *)
(***************************************************************************)
EXTENDS Integers, Sequences, FiniteSetsExt

Disabled == -1
NoAction == "no action"
Unbind == "unbind"

Names(input) == [i \in DOMAIN input |-> input[i].key]

is_disabling(binding) == binding.action \in {NoAction, Unbind}

\* The bindings of `map` enabled at a focus that the keys complete, and those they begin.
Matched(map, keys, at) == {i \in DOMAIN map : map[i].depth[at] # Disabled /\ map[i].keys = keys}

Begun(map, keys, at) ==
  {i \in DOMAIN map : /\ map[i].depth[at] # Disabled /\ Len(map[i].keys) > Len(keys)
                      /\ SubSeq(map[i].keys, 1, Len(keys)) = keys}

Outranks(map, at, i, j) ==
  \/ map[i].depth[at] > map[j].depth[at]
  \/ map[i].depth[at] = map[j].depth[at] /\ i > j

\* A disabling binding of an equal or stronger source comes before the binding.
Hidden(map, keys, at, i) ==
  \E j \in Matched(map, keys, at) :
    map[j].action = NoAction /\ Outranks(map, at, j, i) /\ map[i].meta >= map[j].meta

\* An unbinding of the action, not itself hidden, comes before the binding.
Unbound(map, keys, at, i) ==
  \E j \in Matched(map, keys, at) :
    /\ map[j].action = Unbind /\ Outranks(map, at, j, i)
    /\ map[j].target = map[i].action /\ ~Hidden(map, keys, at, j)

\* Keymap::resolve_bindings_for_input, in two: the bindings to run; and whether more keys might
\* complete one, added after the strongest of those and not disabled by one added later still.
bindings_for_input(map, keys, at) ==
  {i \in Matched(map, keys, at) :
     ~is_disabling(map[i]) /\ ~Hidden(map, keys, at, i) /\ ~Unbound(map, keys, at, i)}

pending_for_input(map, keys, at) ==
  \E bindings \in {bindings_for_input(map, keys, at)} :
  \E later \in {{i \in Begun(map, keys, at) :
                   \A first \in bindings :
                     (\A b \in bindings : ~Outranks(map, at, b, first)) => i >= first}} :
    \E i \in later : \A j \in later :
      j >= i /\ map[j].keys = map[i].keys => ~is_disabling(map[j])

\* Mutant of replay_prefix: the shortest prefix that has bindings, or all of the input.
ShortestPrefix(map, input, at) ==
  Min({Len(input)} \cup
      {n \in DOMAIN input : bindings_for_input(map, Names(SubSeq(input, 1, n)), at) # {}})

\* DispatchTree::replay_prefix: how many keystrokes are replayed as one, the longest prefix that
\* has bindings, or the first keystroke.
replay_prefix(map, input, at) ==
  Max({1} \cup {n \in DOMAIN input : bindings_for_input(map, Names(SubSeq(input, 1, n)), at) # {}})

\* DispatchTree::flush_dispatch: all of the input as replays.
flush_dispatch(map, input, at) ==
  LET from[i \in 1..Len(input) + 1] ==
        IF i > Len(input) THEN <<>>
        ELSE LET next == i + replay_prefix(map, SubSeq(input, i, Len(input)), at)
             IN  <<SubSeq(input, i, next - 1)>> \o from[next]
  IN  from[1]

\* DispatchTree::dispatch_key, once the keystrokes before the i-th are replayed: what more to
\* replay, what to hold, what the keystroke completes, and whether there are bindings for it.
dispatch_key(map, input, keystroke, at) ==
  LET all == Append(input, keystroke)
      from[i \in DOMAIN all] ==
        LET left == SubSeq(all, i, Len(all))
            bound == bindings_for_input(map, Names(left), at) # {}
        IN  IF pending_for_input(map, Names(left), at)
            THEN [replays |-> <<>>, pending |-> left, keys |-> <<>>, bound |-> bound]
            ELSE IF bound \/ i = Len(all)
            THEN [replays |-> <<>>, pending |-> <<>>, keys |-> left, bound |-> bound]
            ELSE LET next == i + replay_prefix(map, SubSeq(input, i, Len(input)), at)
                 IN  [from[next] EXCEPT !.replays = <<SubSeq(input, i, next - 1)>> \o @]
  IN  from[1]

\* Sequences of keystrokes put together, one after another.
Flatten(seqs) ==
  LET upTo[i \in 1..Len(seqs)] == IF i = 1 THEN seqs[i] ELSE upTo[i - 1] \o seqs[i]
  IN  IF seqs = <<>> THEN <<>> ELSE upTo[Len(seqs)]

=============================================================================
