--------------------------- MODULE MCReadbackTurn ---------------------------
(* The readbacks of clearance-v1, departure-v1, ifr-arrival-v1 and
   ifr-enroute-arrival-v1, with the values of those flows. *)
EXTENDS ReadbackTurn, TLC

MCSoundsLike == ("bibax" :> {"bibax", "beebacks"}) @@ ("rokil" :> {"rokil", "rockel"})

D(a, b) == <<a, b>>
T(a, b, c) == <<a, b, c>>
Q(a, b, c, d) == <<a, b, c, d>>

Sid == Procedure("bibax", <<"1">>, "N")
Star == Procedure("rokil", <<"1">>, "A")
Squawk == Number(Q("2","3","4","1"))
InitialAltitude == Number(Q("5","0","0","0"))
InterceptAltitude == Number(Q("4","0","0","0"))
Qnh == Number(Q("1","0","1","3"))
TransitionLevel == Number(D("7","0"))
Speed == Number(T("2","2","0"))
Heading == Number(T("3","2","0"))
FinalHeading == Number(T("2","9","0"))
FinalSpeed == Number(T("1","6","0"))
Runway == RunwayValue(D("2","6"), "left")
StarLevel == FlightLevel(D("8","0"))
ClimbLevel == FlightLevel(T("1","5","0"))
DescentLevel == FlightLevel(T("1","0","0"))
TowerFreq == Frequency(T("1","1","8"), T("7","0","0"))
HandoffFreq == Frequency(T("1","3","1"), T("1","5","0"))

MCClearance ==
  {<<Sid, InitialAltitude, Squawk>>, <<Star, StarLevel>>,
   <<InitialAltitude, Qnh, TransitionLevel, Speed>>, <<Heading, InterceptAltitude, FinalSpeed>>,
   <<FinalHeading, Runway, FinalSpeed>>, <<TowerFreq>>, <<HandoffFreq>>,
   <<ClimbLevel>>, <<DescentLevel>>}

MCMistakenFor ==
  (Sid :> {Procedure("bibax", <<"2">>, "N"), Procedure("bibax", <<"1">>, "M"),
           Procedure("rokil", <<"1">>, "N")}) @@
  (Star :> {Procedure("rokil", <<"2">>, "A"), Procedure("rokil", <<"1">>, "B"),
            Procedure("bibax", <<"1">>, "A")}) @@
  (Squawk :> {Number(Q("2","3","1","4")), Number(Q("2","3","4","2"))}) @@
  (InitialAltitude :> {InterceptAltitude, Number(Q("6","0","0","0"))}) @@
  (InterceptAltitude :> {InitialAltitude}) @@
  (Qnh :> {Number(Q("1","0","3","1")), Number(Q("1","0","0","3"))}) @@
  (TransitionLevel :> {Number(D("6","0"))}) @@
  (Speed :> {Number(T("2","1","0"))}) @@
  (Heading :> {Number(T("2","3","0"))}) @@
  (FinalHeading :> {Number(T("2","8","0"))}) @@
  (FinalSpeed :> {Number(T("1","8","0"))}) @@
  (Runway :> {RunwayValue(D("2","5"), "left"), RunwayValue(D("0","8"), "right")}) @@
  (StarLevel :> {FlightLevel(D("7","0"))}) @@
  (ClimbLevel :> {FlightLevel(T("1","6","0")), DescentLevel}) @@
  (DescentLevel :> {FlightLevel(T("2","0","0")), ClimbLevel}) @@
  (TowerFreq :> {Frequency(T("1","1","8"), T("7","5","0")), Frequency(T("1","1","8"), T("7","0","5")),
                 Frequency(T("1","1","8"), T("8","0","0"))}) @@
  (HandoffFreq :> {Frequency(T("1","3","1"), T("1","0","0")), Frequency(T("1","3","1"), T("1","5","5")),
                   Frequency(T("1","3","2"), T("1","5","0"))})
=============================================================================
