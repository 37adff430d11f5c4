------------------------ MODULE MCThreadedDispatcher ------------------------
(* The dispatcher with two workers, one of which may panic and may block.   *)
EXTENDS ThreadedDispatcher

CONSTANTS w1, w2

MCScopes == {Main, w1}
=============================================================================
