--------------------------- MODULE MCTaxiClearance ---------------------------
(* A departure and a drill at one airport: three plans, four readbacks. *)
EXTENDS TaxiClearance

\* No procedure is read back in the taxi flow.
NoProcedures == [stem \in {} |-> {}]

R25L == RunwayValue(<<"2", "5">>, "left")
MCHold == (0 :> {RunwayValue(<<"0", "7">>, None)}) @@ (1 :> {})
          @@ (2 :> {RunwayValue(<<"2", "5">>, "right")})

Said(holds) == <<"runway", "2", "5", "left", "via", "route">> \o holds
MCUtterance == {Said(<<>>),
                Said(<<"hold short", "0", "7">>),
                Said(<<"hold short", "2", "5", "right">>),
                <<"runway", "2", "5", "right", "via", "route">>}
==============================================================================
