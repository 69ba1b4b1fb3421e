------------------------- MODULE ReadbackEvaluator -------------------------
(***************************************************************************)
(* app/readback_evaluator.py. An utterance is the sequence of what is said *)
(* in it: digits, and words such as "left", "decimal", "thousand". The     *)
(* spelling does not matter: 5, five and fife are one digit, L and left    *)
(* are one word, 121.8 and "one two one decimal eight" are the same.       *)
(***************************************************************************)
EXTENDS Integers, Sequences, SequencesExt

CONSTANTS
  None,
  SoundsLike   \* the words close enough to the stem of a SID or STAR

Digit == {"0", "1", "2", "3", "4", "5", "6", "7", "8", "9"}
Letter == {"A", "B", "C", "D", "E", "F", "G", "H", "I", "J", "K", "L", "M",
           "N", "O", "P", "Q", "R", "S", "T", "U", "V", "W", "X", "Y", "Z"}
Side == {"left", "right", "center"}

Says(u, form) ==
  \E i \in 0..Len(u) - Len(form) : SubSeq(u, i + 1, i + Len(form)) = form

----------------------------------------------------------------------------
\* The values a flow may ask to be read back.
RunwayValue(digits, side) == [kind |-> "runway", digits |-> digits, side |-> side]
Number(digits) == [kind |-> "number", digits |-> digits]
FlightLevel(digits) == [kind |-> "level", digits |-> digits]
Frequency(mhz, decimals) == [kind |-> "frequency", digits |-> mhz \o decimals, mhz |-> Len(mhz)]
Procedure(stem, digits, letter) ==
  [kind |-> "ident", digits |-> digits, stem |-> stem, letter |-> letter]

RunwayValues == [kind : {"runway"}, digits : Seq(Digit), side : Side \cup {None}]

\* Three digits of MHz, and decimals.
Value ==
  RunwayValues
  \cup [kind : {"number", "level"}, digits : Seq(Digit)]
  \cup {v \in [kind : {"frequency"}, digits : Seq(Digit), mhz : {3}] : Len(v.digits) > 3}
  \cup [kind : {"ident"}, digits : Seq(Digit), stem : DOMAIN SoundsLike, letter : Letter]

\* The digits without zeros in front.
Significant(digits) ==
  LET first == {i \in DOMAIN digits : digits[i] # "0"}
  IN  IF first = {} THEN <<>> ELSE SubSeq(digits, Min(first), Len(digits))

\* A slip: the hundreds are said even when there are none.
AltitudeSpeakInFull(digits) ==
  LET n == Significant(digits)
      k == Len(n)
  IN  IF k <= 3 THEN n
      ELSE SubSeq(n, 1, k - 3) \o <<"thousand", n[k - 2], "hundred">>

\* _altitude_speak: thousands and hundreds; tens and units are not said from 1000 up.
AltitudeSpeak(digits) ==
  LET n == Significant(digits)
      k == Len(n)
  IN  IF k = 0 THEN <<"0">>
      ELSE IF k <= 3 THEN n
      ELSE SubSeq(n, 1, k - 3) \o <<"thousand">>
           \o (IF n[k - 2] = "0" THEN <<>> ELSE <<n[k - 2], "hundred">>)

NumberForms(digits) == {digits, AltitudeSpeak(digits)}

Hundreds(digits) ==
  LET n == Significant(digits)
  IN  IF Len(n) = 3 /\ n[2] = "0" /\ n[3] = "0" THEN {<<n[1], "hundred">>} ELSE {}

\* spoken_forms, the literal value being one of them.
SpokenForms(v) ==
  CASE v.kind = "runway"    -> IF v.side = None THEN NumberForms(v.digits)
                               ELSE {Append(v.digits, v.side)}
    [] v.kind = "number"    -> NumberForms(v.digits)
    [] v.kind = "level"     -> {<<"flight level">> \o v.digits} \cup Hundreds(v.digits)
    [] v.kind = "frequency" -> {SubSeq(v.digits, 1, v.mhz) \o <<"decimal">>
                                  \o SubSeq(v.digits, v.mhz + 1, Len(v.digits))}
    [] v.kind = "ident"     -> {<<v.stem>> \o v.digits \o <<v.letter>>}

----------------------------------------------------------------------------
\* What a digit run that has come to p goes on with: the next word, or the one after
\* a decimal point.
After(u, p) == {q \in DOMAIN u : q = p + 1 \/ (q = p + 2 /\ u[p + 1] = "decimal")}

\* Where in u the digits may have been said, one by one.
DigitRuns(digits, u) ==
  LET upTo[k \in 0..Len(digits)] ==
        IF k = 0 THEN 0..Len(u)
        ELSE {q \in UNION {After(u, p) : p \in upTo[k - 1]} : u[q] = digits[k]}
  IN  upTo[Len(digits)]

DigitRun(digits, u) == Len(digits) >= 2 /\ DigitRuns(digits, u) # {}

\* The same, with no further digit after it.
DigitRunEnds(digits, u) ==
  \E p \in DigitRuns(digits, u) : \A q \in After(u, p) : u[q] \notin Digit

\* A frequency without the zeros at its end, while its MHz remain.
Trimmed(v) ==
  LET last == {i \in DOMAIN v.digits : \A j \in i + 1..Len(v.digits) : v.digits[j] = "0"}
  IN  {SubSeq(v.digits, 1, i) : i \in {j \in last : j >= 3 /\ j < Len(v.digits)
                                                    /\ v.digits[j] # "0"}}

\* A slip: what comes after the shortened frequency does not matter.
TrimmedHeardAnywhere(v, u) == \E d \in Trimmed(v) : DigitRun(d, u)

TrimmedHeard(v, u) == \E d \in Trimmed(v) : DigitRunEnds(d, u)

\* A SID or STAR pronounced as a word: its parts anywhere, the digits in order.
FuzzyIdent(v, u) ==
  /\ \E i \in DOMAIN u : u[i] \in SoundsLike[v.stem]
  /\ v.letter \in ToSet(u)
  /\ \E at \in [DOMAIN v.digits -> DOMAIN u] :
       /\ \A i \in DOMAIN v.digits : u[at[i]] = v.digits[i]
       /\ \A i, j \in DOMAIN v.digits : i < j => at[i] < at[j]

\* _match_readback_value; an unset value matches nothing.
Matches(v, u) ==
  /\ v # None
  /\ \/ \E form \in SpokenForms(v) : Says(u, form)
     \/ DigitRun(v.digits, u)
     \/ v.kind = "frequency" /\ TrimmedHeard(v, u)
     \/ v.kind = "ident" /\ FuzzyIdent(v, u)

\* check_readback: every required value, and every element of a list, is there.
CheckReadback(u, required) == \A v \in required : Matches(v, u)
============================================================================
