---------------------------- MODULE MCFlowReload ----------------------------
(* Three files: two versions of one flow, a second file with the slug of the
   first, a file that may be gone and one that may not parse. *)
EXTENDS FlowReload, TLC

FlowOf(name, version, revision) == [slug |-> Slug(name, version), revision |-> revision]

MCFiles == <<"a", "b", "c">>
MCContent ==
  ("a" :> {FlowOf("tower", 2, 1), FlowOf("tower", 2, 2), None}) @@
  ("b" :> {FlowOf("tower", 10, 1), Broken}) @@
  ("c" :> {FlowOf("taxi", 1, 1), FlowOf("tower", 2, 3)})
MCInitial ==
  ("a" :> FlowOf("tower", 2, 1)) @@ ("b" :> FlowOf("tower", 10, 1)) @@ ("c" :> FlowOf("taxi", 1, 1))

MCWanted == {Slug("tower", None), Slug("tower", 2)}
=============================================================================
