----------------------------- MODULE MCKeyInput -----------------------------
(* KeyInput with a few keymaps: one key that begins another binding, a      *)
(* binding of three keys over shorter ones, bindings disabled or taken away *)
(* at one focus only, and a modifier on its own.                            *)
EXTENDS KeyInput

CONSTANTS a, b, f, g

Bound(keys, action, inF, inG) ==
  [keys |-> keys, action |-> action, target |-> None, meta |-> 0,
   depth |-> [at \in Places |-> IF at = f THEN inF ELSE IF at = g THEN inG ELSE 0]]

Prefixed == <<Bound(<<a>>, "X", 1, 1), Bound(<<a, b>>, "Y", 1, Disabled)>>
Longer == <<Bound(<<b, a>>, "X", 1, Disabled), Bound(<<a, b, b>>, "Y", 1, 1)>>
Disabling ==
  <<Bound(<<a, a>>, "X", 1, 1), Bound(<<a, a>>, NoAction, 2, Disabled),
    [Bound(<<b>>, "Y", 1, 1) EXCEPT !.meta = 1], Bound(<<b, a>>, "X", 1, 1),
    [Bound(<<b, a>>, Unbind, Disabled, 2) EXCEPT !.target = "X"]>>
Modified == <<Bound(<<Modifier>>, "X", 1, 1), Bound(<<Modifier, a>>, "Y", 1, 1)>>

MCKeymaps == {Prefixed, Longer, Disabling, Modified}
=============================================================================
