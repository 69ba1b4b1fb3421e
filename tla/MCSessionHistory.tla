-------------------------- MODULE MCSessionHistory --------------------------
(* Instances of SessionHistory for TLC: nothing tells two ids, two objects or   *)
(* two requests apart.                                                         *)
EXTENDS SessionHistory, TLC

Interchangeable == Permutations(Obj) \cup Permutations(Request) \cup Permutations(Sid)
=============================================================================
