---------------------------- MODULE MCTaxiRouting ----------------------------
(***************************************************************************)
(* A field for TaxiRouting: runway 09/27 drawn from its western end, runway*)
(* 18/36 across the western taxiway, a taxiway that meets 09/27 in a node, *)
(* a gate with the name of a runway, stands 12 and A 12, and an apron that *)
(* joins the far side. 18/36 is mapped as a node: it has no ends.          *)
(*                                                                         *)
(*         2 ===apron== 6 -C3- 5                                           *)
(*     09--B1----------3------C2-27     (C meets the runway in node 3)     *)
(*         1 --A-(18/36)------4                                            *)
(***************************************************************************)
EXTENDS TaxiRouting

MCHeading == (<<"0","9">> :> <<1, 0>>) @@ (<<"2","7">> :> <<-1, 0>>)
             @@ (<<"1","8">> :> <<0, -1>>) @@ (<<"3","6">> :> <<0, 1>>)

MCPosition == (1 :> <<1, 0>>) @@ (2 :> <<1, 4>>) @@ (3 :> <<4, 2>>)
              @@ (4 :> <<6, 0>>) @@ (5 :> <<6, 4>>) @@ (6 :> <<4, 4>>)

MCRunway == <<[designators |-> <<<<"2","7">>, <<"0","9">>>>, polyline |-> <<<<0, 2>>, <<8, 2>>>>],
              [designators |-> <<<<"1","8">>, <<"3","6">>>>, polyline |-> <<<<3, -2>>, <<3, 1>>>>]>>

Taxiway(nodes, letters, digits) ==
  [nodes |-> nodes, aeroway |-> "taxiway", name |-> [letters |-> letters, digits |-> digits]]

MCWay == {Taxiway(<<1, 4>>, "A", None),
          Taxiway(<<1, 2>>, "B", 1),
          Taxiway(<<4, 3, 6>>, "C", None),
          Taxiway(<<4, 5, 9>>, "C", 2),
          Taxiway(<<6, 5>>, "C", 3),
          [nodes |-> <<2, 6>>, aeroway |-> "apron", name |-> None]}

MCAnswer == SUBSET MCWay

Word12 == <<"1","2">>
Word27 == <<"2","7">>

Stand(alias, at) == [kind |-> "stand", aliases |-> <<alias>>, at |-> at, way |-> None]
Stand12 == Stand(<<Word12>>, <<1, -1>>)
StandA12 == Stand(<<<<"A">>, Word12>>, <<4, 5>>)
Gate27 == [kind |-> "gate", aliases |-> <<<<<<"G","A","T","E">>, Word27>>>>, at |-> <<2, 5>>, way |-> None]
Runway0927 == [kind |-> "runway", aliases |-> <<<<<<"0","9">>>>, <<Word27>>, <<<<"0","9","2","7">>>>>>,
               at |-> <<4, 2>>, way |-> <<<<0, 2>>, <<8, 2>>>>]
Runway36 == [kind |-> "runway", aliases |-> <<<<<<"3","6">>>>>>, at |-> <<3, -1>>, way |-> None]
MCFeature == {Stand12, StandA12, Gate27, Runway0927, Runway36}

Named(name, prefer, point) == [name |-> name, at |-> None, point |-> point, prefer |-> prefer]
Given(name, p) == [name |-> name, at |-> p, point |-> "start", prefer |-> None]

ToStand(name) == Named(name, "stand", "center")
ToRunway(word, point) == Named(<<word>>, "runway", point)
Nowhere == Given(None, None)

Pairs == {<<ToStand(<<Word12>>), ToRunway(Word27, "start")>>,
          <<ToRunway(Word27, "end"), ToStand(<<<<"A">>, Word12>>)>>,
          <<ToStand(<<Word27>>), ToRunway(<<"3","6">>, "start")>>,
          <<ToRunway(Word27, "start"), ToRunway(<<"0","9">>, "start")>>,
          <<Named(<<<<"7","7">>>>, None, "start"), ToStand(<<Word27>>)>>,
          <<Given(None, <<1, 0>>), ToStand(<<Word27>>)>>,
          <<Given(None, <<1, 0>>), Given(<<Word27>>, <<6, 5>>)>>,
          <<Given(None, <<6, 0>>), Given(None, <<4, 5>>)>>,
          <<Given(None, <<4, 5>>), Given(None, <<6, -1>>)>>,
          <<Nowhere, ToStand(<<Word12>>)>>,
          <<ToStand(<<Word12>>), Nowhere>>}

MCRequest == {[origin |-> p[1], dest |-> p[2], airport |-> a, connectors |-> c] :
                p \in Pairs, a \in {None, "EDDX", "unlocated", "malformed"}, c \in BOOLEAN}

\* The hypotheses of the theorems about ThresholdOfDesignator, EveryCrossingAnnounced
\* and NearerEndAnnounced.
ASSUME MCCharted == Charted
ASSUME MCStraight == Straight
ASSUME MCTwoEnded == TwoEnded
==============================================================================
