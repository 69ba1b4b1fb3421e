---------------------------- MODULE ReadbackTurn ----------------------------
(***************************************************************************)
(* The readbacks of the shipped flows, graded (step 7 of process_          *)
(* transmission in app/decision_engine.py with app/readback_evaluator.py): *)
(* a pilot reads the values of a clearance back, each as pilots say a      *)
(* value of its kind, perhaps one of them wrong; the engine asks again, at *)
(* most twice, and the session goes on to its next readback.               *)
(***************************************************************************)
EXTENDS ReadbackEvaluator

CONSTANTS
  Clearance,   \* the sequences of values that a readback state asks for
  MistakenFor  \* value -> the values of its kind a pilot may say instead

\* The flows ask for values of these kinds, and an unset value is none of them.
ASSUME ReadbackAssumption ==
  /\ Clearance \subseteq Seq(Value)
  /\ None \notin Value \cup Side

VARIABLES
  asked,       \* the clearance to be read back
  attempts,    \* variables["_rb_fail::..."]
  confirmed,   \* the readback is over
  heard        \* [read, said, passed] of the readback the last step graded, or None

vars == <<asked, attempts, confirmed, heard>>

MAX_READBACK_ATTEMPTS == 3

----------------------------------------------------------------------------
\* How pilots say a value: the digits; the round thousands and the round flight
\* levels as such; a frequency with all or none of its last zeros; a procedure as the
\* word it is spelled as, or as speech recognition writes that word.
Round(digits, word, zeros) ==
  IF Len(digits) = zeros + 1 /\ digits[1] # "0" /\ \A i \in 2..zeros + 1 : digits[i] = "0"
  THEN {<<digits[1], word>>} ELSE {}

\* How many digits of a frequency are said.
SaidOf(v) ==
  {n \in v.mhz + 1..Len(v.digits) :
     \/ n = Len(v.digits)
     \/ /\ v.digits[n] # "0"
        /\ \A j \in n + 1..Len(v.digits) : v.digits[j] = "0"}

Pronounced(v) ==
  CASE v.kind = "runway"    -> {IF v.side = None THEN v.digits ELSE Append(v.digits, v.side)}
    [] v.kind = "number"    -> {v.digits} \cup Round(v.digits, "thousand", 3)
    [] v.kind = "level"     -> {<<"flight level">> \o v.digits} \cup Round(v.digits, "hundred", 2)
    [] v.kind = "frequency" ->
         {SubSeq(v.digits, 1, v.mhz) \o <<"decimal">> \o SubSeq(v.digits, v.mhz + 1, n) :
            n \in SaidOf(v)}
    [] v.kind = "ident"     -> {<<w>> \o v.digits \o <<v.letter>> : w \in SoundsLike[v.stem]}

\* A word before each value: "squawk", "climb", "runway".
ThenSaid(said, forms) == {u \o <<"word">> \o form : u \in said, form \in forms}

Utterances(values) ==
  LET upTo[k \in 0..Len(values)] ==
        IF k = 0 THEN {<<>>} ELSE ThenSaid(upTo[k - 1], Pronounced(values[k]))
  IN  upTo[Len(values)]

Readings(values) ==
  {values} \cup UNION {{[values EXCEPT ![i] = w] : w \in MistakenFor[values[i]]} : i \in DOMAIN values}

----------------------------------------------------------------------------
Init ==
  /\ asked \in Clearance
  /\ attempts = 0
  /\ confirmed = FALSE
  /\ heard = None

\* Passed, or failed for the third time: on to ok_next. Else bad_next, whose
\* correction leads back to the readback.
Transmit ==
  /\ ~confirmed
  /\ \E read \in Readings(asked) : \E u \in Utterances(read) :
       LET passed == CheckReadback(u, ToSet(asked))
           over == passed \/ attempts + 1 >= MAX_READBACK_ATTEMPTS
       IN  /\ heard' = [read |-> read, said |-> u, passed |-> passed]
           /\ attempts' = IF over THEN 0 ELSE attempts + 1
           /\ confirmed' = over
  /\ UNCHANGED asked

NextReadback ==
  /\ confirmed
  /\ asked' \in Clearance
  /\ confirmed' = FALSE
  /\ heard' = None
  /\ UNCHANGED attempts

Next == Transmit \/ NextReadback

Spec == Init /\ [][Next]_vars

----------------------------------------------------------------------------
\* check_readback: a pilot who reads every value back is confirmed at once, in
\* whatever way of saying them.
RightReadbackAccepted == heard # None /\ heard.read = asked => heard.passed

\* The fuzzy match of a SID or STAR takes its number and its letter from anywhere.
ElsewhereIn(v, u) ==
  \A w \in ToSet(v.digits) \cup {v.letter} : w \in ToSet(u)

\* _match_readback_value: a readback with one value wrong is not confirmed, although
\* the evaluator takes frequencies without their last zeros, levels as hundreds and
\* procedures by ear; unless it is the number or the letter of a procedure and another
\* value happens to say the right one.
WrongReadbackCorrected ==
  heard # None /\ heard.passed =>
    \A i \in DOMAIN asked : heard.read[i] # asked[i] =>
      /\ asked[i].kind = "ident"
      /\ heard.read[i].stem = asked[i].stem
      /\ ElsewhereIn(asked[i], heard.said)
============================================================================
