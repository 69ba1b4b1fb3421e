------------------------- MODULE ReadbackTurnProofs -------------------------
(***************************************************************************)
(* Proofs about ReadbackTurn for every clearance, whatever its values: who *)
(* reads them back, in whatever way pilots say them, is confirmed.         *)
(***************************************************************************)
EXTENDS ReadbackTurn, SequenceTheorems, OrderLemmas

Word ==
  Digit \cup Letter \cup Side
  \cup {"word", "decimal", "thousand", "hundred", "flight level"}
  \cup UNION {SoundsLike[stem] : stem \in DOMAIN SoundsLike}

Said == Seq(Word)

LEMMA Words ==
  /\ Digit \subseteq Word /\ Letter \subseteq Word /\ Side \subseteq Word
  /\ {"word", "decimal", "thousand", "hundred", "flight level"} \subseteq Word
  /\ \A stem \in DOMAIN SoundsLike : SoundsLike[stem] \subseteq Word
BY DEF Word

LEMMA OneWord ==
  ASSUME NEW w \in Word
  PROVE  <<w>> \in Said /\ Len(<<w>>) = 1 /\ <<w>>[1] = w
BY DEF Said

LEMMA TwoWords ==
  ASSUME NEW w \in Word, NEW x \in Word
  PROVE  <<w, x>> \in Said /\ <<w>> \o <<x>> = <<w, x>> /\ <<w, x>> \o <<>> = <<w, x>>
<1>1. <<w>> \in Seq(Word) /\ <<x>> \in Seq(Word) /\ <<w, x>> \in Seq(Word)
  OBVIOUS
<1>2. /\ <<w>> \o <<x>> \in Seq(Word) /\ Len(<<w>> \o <<x>>) = 2
      /\ (<<w>> \o <<x>>)[1] = w /\ (<<w>> \o <<x>>)[2] = x
  BY <1>1, ConcatProperties
<1>3. <<w>> \o <<x>> = <<w, x>>
  <2>1. Len(<<w, x>>) = 2 /\ <<w, x>>[1] = w /\ <<w, x>>[2] = x
    OBVIOUS
  <2>2. \A i \in 1..Len(<<w>> \o <<x>>) : (<<w>> \o <<x>>)[i] = <<w, x>>[i]
    BY <1>2, <2>1
  <2>3. Len(<<w>> \o <<x>>) = Len(<<w, x>>)
    BY <1>2, <2>1
  <2> QED BY <1>1, <1>2, <2>2, <2>3, SeqEqual, Zenon
<1> QED BY <1>1, <1>3, ConcatEmptySeq DEF Said

LEMMA NotDigits == "word" \notin Digit /\ "decimal" \notin Digit
BY DEF Digit

LEMMA DigitsAreSaid ==
  ASSUME NEW digits \in Seq(Digit)
  PROVE  digits \in Said
BY Words, SeqMonotonic DEF Said

\* What is said somewhere in u is heard as a spoken form.
LEMMA StandsIsSaid ==
  ASSUME NEW u \in Said, NEW form \in Said, NEW p, StandsIn(u, p, form)
  PROVE  Says(u, form)
BY StandsAsSubSeq DEF Says, Said

----------------------------------------------------------------------------
\* Ways of saying a value

LEMMA DomainOfSaid ==
  ASSUME NEW u \in Said
  PROVE  /\ Len(u) \in Nat /\ DOMAIN u = 1..Len(u)
         /\ \A i \in 1..Len(u) : u[i] \in Word
BY DEF Said

\* A value is of one of five kinds.
LEMMA KindsOfValue ==
  ASSUME NEW v \in Value
  PROVE  /\ v.digits \in Seq(Digit)
         /\ v.kind \in {"runway", "number", "level", "frequency", "ident"}
         /\ v.kind = "runway" => v.side \in Side \cup {None}
         /\ v.kind = "frequency" => v.mhz = 3 /\ Len(v.digits) > 3
         /\ v.kind = "ident" => v.stem \in DOMAIN SoundsLike /\ v.letter \in Letter
BY DEF Value, RunwayValues

LEMMA RoundIsSaid ==
  ASSUME NEW digits \in Seq(Digit), NEW word \in Word, NEW zeros \in Nat,
         NEW form \in Round(digits, word, zeros)
  PROVE  /\ form = <<digits[1], word>>
         /\ Len(digits) = zeros + 1 /\ digits[1] # "0" /\ digits[1] \in Word
         /\ \A i \in 2..zeros + 1 : digits[i] = "0"
         /\ form \in Said
<1>1. /\ form = <<digits[1], word>>
      /\ Len(digits) = zeros + 1 /\ digits[1] # "0"
      /\ \A i \in 2..zeros + 1 : digits[i] = "0"
  BY DEF Round
<1>2. digits[1] \in Word
  BY <1>1, DigitsAreSaid, DomainOfSaid
<1> QED BY <1>1, <1>2 DEF Said

LEMMA FrequencyIsSaid ==
  ASSUME NEW v \in Value, v.kind = "frequency", NEW n \in SaidOf(v)
  PROVE  LET form == SubSeq(v.digits, 1, v.mhz) \o <<"decimal">> \o SubSeq(v.digits, v.mhz + 1, n)
         IN  /\ form \in Said
             /\ Len(form) = n + 1
             /\ \A i \in 1..3 : form[i] = v.digits[i]
             /\ form[4] = "decimal"
             /\ \A i \in 5..n + 1 : form[i] = v.digits[i - 1]
<1> DEFINE d == v.digits
           front == SubSeq(d, 1, 3)
           back == SubSeq(d, 4, n)
<1>1. d \in Said /\ v.mhz = 3 /\ n \in 4..Len(d) /\ Len(d) \in Nat
  BY KindsOfValue, DigitsAreSaid, DomainOfSaid DEF SaidOf
<1>2. front \in Said /\ Len(front) = 3 /\ \A i \in 1..3 : front[i] = d[i]
  <2>1. \A i \in 1..3 : d[i] \in Word
    BY <1>1, DomainOfSaid
  <2>2. /\ SubSeq(d, 1, 3) \in Seq(Word)
        /\ Len(SubSeq(d, 1, 3)) = IF 1 <= 3 THEN 3 - 1 + 1 ELSE 0
        /\ \A i \in 1..3 - 1 + 1 : SubSeq(d, 1, 3)[i] = d[1 + i - 1]
    BY <2>1, SubSeqProperties
  <2> QED BY <2>2 DEF Said
<1>3. back \in Said /\ Len(back) = n - 3 /\ \A i \in 1..n - 3 : back[i] = d[3 + i]
  <2>1. \A i \in 4..n : d[i] \in Word
    BY <1>1, DomainOfSaid
  <2>2. /\ SubSeq(d, 4, n) \in Seq(Word)
        /\ Len(SubSeq(d, 4, n)) = IF 4 <= n THEN n - 4 + 1 ELSE 0
        /\ \A i \in 1..n - 4 + 1 : SubSeq(d, 4, n)[i] = d[4 + i - 1]
    BY <1>1, <2>1, SubSeqProperties
  <2>3. \A i \in 1..n - 3 : 4 + i - 1 = 3 + i /\ i \in 1..n - 4 + 1
    BY <1>1
  <2> QED BY <1>1, <2>2, <2>3 DEF Said
<1> HIDE DEF front, back, d
<1>4. <<"decimal">> \in Said /\ Len(<<"decimal">>) = 1 /\ <<"decimal">>[1] = "decimal"
  <2>1. "decimal" \in Word
    BY Words
  <2> QED BY <2>1 DEF Said
<1> DEFINE head == front \o <<"decimal">>
           form == head \o back
<1>5. /\ head \in Said /\ Len(head) = 4
      /\ \A i \in 1..3 : head[i] = d[i]
      /\ head[4] = "decimal"
  <2>1. /\ head \in Said /\ Len(head) = 3 + 1
        /\ \A i \in 1..3 + 1 : head[i] = IF i <= 3 THEN front[i] ELSE <<"decimal">>[i - 3]
    BY <1>2, <1>4, ConcatProperties DEF Said
  <2> QED BY <1>2, <1>4, <2>1
<1> HIDE DEF head
<1>6. /\ form \in Said /\ Len(form) = 4 + (n - 3)
      /\ \A i \in 1..4 + (n - 3) : form[i] = IF i <= 4 THEN head[i] ELSE back[i - 4]
  <2>1. /\ head \o back \in Seq(Word)
        /\ Len(head \o back) = Len(head) + Len(back)
        /\ \A i \in 1..Len(head) + Len(back) :
             (head \o back)[i] = IF i <= Len(head) THEN head[i] ELSE back[i - Len(head)]
    BY <1>3, <1>5, ConcatProperties DEF Said
  <2> QED BY <1>3, <1>5, <2>1 DEF Said
<1> HIDE DEF form
<1>7. /\ form \in Said
      /\ Len(form) = n + 1
      /\ \A i \in 1..3 : form[i] = d[i]
      /\ form[4] = "decimal"
      /\ \A i \in 5..n + 1 : form[i] = d[i - 1]
  <2>1. \A i \in 5..n + 1 : i - 4 \in 1..n - 3 /\ 3 + (i - 4) = i - 1 /\ i \in 1..4 + (n - 3) /\ ~(i <= 4)
    BY <1>1
  <2>2. \A i \in 5..n + 1 : form[i] = d[i - 1]
    <3> TAKE i \in 5..n + 1
    <3>1. form[i] = back[i - 4]
      BY <1>6, <2>1
    <3>2. back[i - 4] = d[3 + (i - 4)]
      BY <1>3, <2>1
    <3> QED BY <2>1, <3>1, <3>2
  <2>3. Len(form) = n + 1 /\ \A i \in 1..4 : i \in 1..4 + (n - 3) /\ i <= 4
    BY <1>1, <1>6
  <2> QED BY <1>5, <1>6, <2>2, <2>3
<1> QED BY <1>1, <1>7 DEF form, head, front, back, d

----------------------------------------------------------------------------
\* Every way of saying a value matches it

\* form stands in u, and what follows it is the word before the next value.
HeardAt(u, p, form) ==
  /\ StandsIn(u, p, form)
  /\ p + Len(form) = Len(u) \/ u[p + Len(form) + 1] = "word"

LEMMA NoZerosInFront ==
  ASSUME NEW digits \in Seq(Digit), Len(digits) >= 1, digits[1] # "0"
  PROVE  Significant(digits) = digits
<1> DEFINE first == {i \in DOMAIN digits : digits[i] # "0"}
<1>1. first \in SUBSET Nat /\ 1 \in first /\ \A i \in first : 1 <= i
  OBVIOUS
<1> HIDE DEF first
<1>2. Min(first) = 1
  <2>1. Min(first) \in first /\ \A i \in first : Min(first) <= i
    BY <1>1, MinIsLeast
  <2>2. Min(first) \in Nat /\ Min(first) <= 1 /\ 1 <= Min(first)
    BY <1>1, <2>1
  <2> QED BY <2>2
<1>3. first # {}
  BY <1>1
<1> QED BY <1>2, <1>3, SubSeqFull DEF Significant, first

\* A round thousand and a round flight level, as _altitude_speak and spoken_forms
\* say them.
LEMMA RoundThousand ==
  ASSUME NEW digits \in Seq(Digit), NEW form \in Round(digits, "thousand", 3)
  PROVE  form = AltitudeSpeak(digits)
<1>1. /\ form = <<digits[1], "thousand">> /\ Len(digits) = 4
      /\ digits[1] # "0" /\ digits[2] = "0"
  BY DEF Round
<1>2. Significant(digits) = digits
  BY <1>1, NoZerosInFront
<1>3. digits[1] \in Word /\ "thousand" \in Word
  <2>1. digits[1] \in Digit
    BY <1>1
  <2> QED BY <2>1, Words
<1>4. SubSeq(digits, 1, 1) = <<digits[1]>>
  <2>1. SubSeq(digits, 1, 1) = <<digits[1]>> \o SubSeq(digits, 2, 1)
    <3>1. 1 \in 1..Len(digits) /\ 1 \in 1..1 /\ 1 + 1 = 2
      BY <1>1
    <3> QED BY <3>1, SubSeqRecursiveFirst
  <2>2. SubSeq(digits, 2, 1) = <<>>
    BY SubSeqEmpty
  <2> QED BY <1>3, <2>1, <2>2, OneWord, ConcatEmptySeq DEF Said
<1>5. <<digits[1]>> \o <<"thousand">> \o <<>> = <<digits[1], "thousand">>
  BY <1>3, TwoWords
<1>6. AltitudeSpeak(digits) =
        SubSeq(digits, 1, 1) \o <<"thousand">>
        \o (IF digits[2] = "0" THEN <<>> ELSE <<digits[2], "hundred">>)
  <2>1. Len(digits) # 0 /\ ~(Len(digits) <= 3) /\ Len(digits) - 3 = 1 /\ Len(digits) - 2 = 2
    BY <1>1
  <2> QED BY <1>2, <2>1 DEF AltitudeSpeak
<1> QED BY <1>1, <1>4, <1>5, <1>6

LEMMA RoundHundred ==
  ASSUME NEW digits \in Seq(Digit), NEW form \in Round(digits, "hundred", 2)
  PROVE  form \in Hundreds(digits)
<1>1. /\ form = <<digits[1], "hundred">> /\ Len(digits) = 3
      /\ digits[1] # "0" /\ digits[2] = "0" /\ digits[3] = "0"
  BY DEF Round
<1>2. Significant(digits) = digits
  BY <1>1, NoZerosInFront
<1> QED BY <1>1, <1>2 DEF Hundreds

LEMMA RunwayMatches ==
  ASSUME NEW v \in RunwayValues, None \notin Value, NEW u \in Said, NEW p,
         StandsIn(u, p, IF v.side = None THEN v.digits ELSE Append(v.digits, v.side))
  PROVE  Matches(v, u)
<1> DEFINE form == IF v.side = None THEN v.digits ELSE Append(v.digits, v.side)
<1>1. v \in Value /\ v.kind = "runway" /\ v.digits \in Said /\ v.side \in Side \cup {None}
  BY DigitsAreSaid DEF RunwayValues, Value
<1>2. form \in Said
  <2>1. v.side # None => v.side \in Word
    BY <1>1, Words
  <2> QED BY <1>1, <2>1, AppendProperties DEF Said
<1>3. form \in SpokenForms(v)
  BY <1>1 DEF SpokenForms, NumberForms
<1>4. Says(u, form)
  BY <1>2, StandsIsSaid
<1> QED BY <1>1, <1>3, <1>4 DEF Matches

LEMMA NumberMatches ==
  ASSUME NEW v \in Value, None \notin Value, v.kind = "number", NEW u \in Said,
         NEW form \in Pronounced(v), NEW p, StandsIn(u, p, form)
  PROVE  Matches(v, u)
<1>1. v.digits \in Seq(Digit) /\ v.digits \in Said
  BY KindsOfValue, DigitsAreSaid
<1>2. form \in {v.digits} \cup Round(v.digits, "thousand", 3)
  BY DEF Pronounced
<1>3. form \in Said
  BY <1>1, <1>2, RoundIsSaid, Words
<1>4. form \in SpokenForms(v)
  BY <1>1, <1>2, RoundThousand DEF SpokenForms, NumberForms
<1> QED BY <1>3, <1>4, StandsIsSaid DEF Matches

LEMMA LevelMatches ==
  ASSUME NEW v \in Value, None \notin Value, v.kind = "level", NEW u \in Said,
         NEW form \in Pronounced(v), NEW p, StandsIn(u, p, form)
  PROVE  Matches(v, u)
<1>1. v.digits \in Seq(Digit) /\ v.digits \in Said
  BY KindsOfValue, DigitsAreSaid
<1>2. form \in {<<"flight level">> \o v.digits} \cup Round(v.digits, "hundred", 2)
  BY DEF Pronounced
<1>3. form \in Said
  <2>1. <<"flight level">> \in Said
    <3>1. "flight level" \in Word
      BY Words
    <3> QED BY <3>1, OneWord
  <2>2. <<"flight level">> \o v.digits \in Said
    BY <1>1, <2>1, ConcatProperties DEF Said
  <2> QED BY <1>1, <1>2, <2>2, RoundIsSaid, Words
<1>4. form \in SpokenForms(v)
  BY <1>1, <1>2, RoundHundred DEF SpokenForms
<1> QED BY <1>3, <1>4, StandsIsSaid DEF Matches

\* A procedure by ear: its parts, wherever they are.
LEMMA ProcedureMatches ==
  ASSUME NEW v \in Value, None \notin Value, v.kind = "ident", NEW u \in Said,
         NEW form \in Pronounced(v), NEW p, StandsIn(u, p, form)
  PROVE  Matches(v, u)
<1>1. v.digits \in Seq(Digit) /\ v.digits \in Said /\ v.stem \in DOMAIN SoundsLike /\ v.letter \in Word
  BY KindsOfValue, DigitsAreSaid, Words
<1> DEFINE n == Len(v.digits)
<1>2. n \in Nat /\ DOMAIN v.digits = 1..n /\ Len(u) \in Nat /\ DOMAIN u = 1..Len(u)
  BY <1>1, DomainOfSaid
<1>3. PICK w \in SoundsLike[v.stem] : form = <<w>> \o v.digits \o <<v.letter>>
  BY DEF Pronounced
<1>4. /\ Len(form) = n + 2
      /\ form[1] = w
      /\ \A i \in 1..n : form[1 + i] = v.digits[i]
      /\ form[n + 2] = v.letter
  <2>1. w \in Word
    BY <1>1, Words
  <2>2. <<w>> \in Said /\ Len(<<w>>) = 1 /\ <<w>>[1] = w
    BY <2>1 DEF Said
  <2>3. <<v.letter>> \in Said /\ Len(<<v.letter>>) = 1 /\ <<v.letter>>[1] = v.letter
    BY <1>1 DEF Said
  <2> DEFINE head == <<w>> \o v.digits
  <2>4. /\ head \in Said /\ Len(head) = 1 + n
        /\ \A i \in 1..1 + n : head[i] = IF i <= 1 THEN <<w>>[i] ELSE v.digits[i - 1]
    BY <1>1, <2>2, ConcatProperties DEF Said
  <2> HIDE DEF head
  <2>5. /\ Len(head \o <<v.letter>>) = (1 + n) + 1
        /\ \A i \in 1..(1 + n) + 1 :
             (head \o <<v.letter>>)[i] = IF i <= 1 + n THEN head[i] ELSE <<v.letter>>[i - (1 + n)]
    <3>1. /\ Len(head \o <<v.letter>>) = Len(head) + Len(<<v.letter>>)
          /\ \A i \in 1..Len(head) + Len(<<v.letter>>) :
               (head \o <<v.letter>>)[i] = IF i <= Len(head) THEN head[i] ELSE <<v.letter>>[i - Len(head)]
      BY <2>3, <2>4, ConcatProperties DEF Said
    <3> QED BY <2>3, <2>4, <3>1
  <2>6. form = head \o <<v.letter>>
    BY <1>3 DEF head
  <2>7. \A i \in 1..n : form[1 + i] = v.digits[i]
    <3> TAKE i \in 1..n
    <3>1. 1 + i \in 1..(1 + n) + 1 /\ 1 + i \in 1..1 + n /\ ~(1 + i <= 1) /\ (1 + i) - 1 = i
      BY <1>2
    <3> QED BY <2>4, <2>5, <2>6, <3>1
  <2>8. 1 \in 1..(1 + n) + 1 /\ 1 \in 1..1 + n /\ n + 2 \in 1..(1 + n) + 1 /\ ~(n + 2 <= 1 + n) /\ (n + 2) - (1 + n) = 1
    BY <1>2
  <2> HIDE DEF n
  <2> QED BY <1>2, <2>2, <2>3, <2>4, <2>5, <2>6, <2>7, <2>8
<1>5. p \in Nat /\ p + (n + 2) <= Len(u) /\ \A j \in 1..n + 2 : u[p + j] = form[j]
  BY <1>4 DEF StandsIn
<1>6. p + 1 \in DOMAIN u /\ u[p + 1] \in SoundsLike[v.stem]
  <2>1. 1 \in 1..n + 2 /\ p + 1 \in 1..Len(u)
    BY <1>2, <1>5
  <2> QED BY <1>2, <1>3, <1>4, <1>5, <2>1
<1>7. v.letter \in ToSet(u)
  <2>1. n + 2 \in 1..n + 2 /\ p + (n + 2) \in 1..Len(u)
    BY <1>2, <1>5
  <2>2. u[p + (n + 2)] = v.letter
    BY <1>4, <1>5, <2>1
  <2> QED BY <1>2, <2>1, <2>2 DEF ToSet
<1> DEFINE at == [j \in DOMAIN v.digits |-> p + (1 + j)]
<1>8. /\ at \in [DOMAIN v.digits -> DOMAIN u]
      /\ \A i \in DOMAIN v.digits : u[at[i]] = v.digits[i]
      /\ \A i, j \in DOMAIN v.digits : i < j => at[i] < at[j]
  <2>1. \A j \in 1..n : p + (1 + j) \in 1..Len(u) /\ 1 + j \in 1..n + 2
    BY <1>2, <1>5
  <2>2. \A j \in 1..n : u[p + (1 + j)] = v.digits[j]
    BY <1>4, <1>5, <2>1
  <2>3. \A i, j \in 1..n : i < j => p + (1 + i) < p + (1 + j)
    BY <1>2, <1>5
  <2> HIDE DEF n
  <2> QED BY <1>2, <2>1, <2>2, <2>3
<1> HIDE DEF at
<1>9. FuzzyIdent(v, u)
  BY <1>6, <1>7, <1>8 DEF FuzzyIdent
<1> QED BY <1>9 DEF Matches

----------------------------------------------------------------------------
\* Digit runs

\* A run that goes on from word to word, over a decimal point perhaps, is one of the
\* evaluator's.
LEMMA RunIsHeard ==
  ASSUME NEW u \in Said, NEW digits \in Said, NEW at \in [0..Len(digits) -> 0..Len(u)],
         \A k \in 1..Len(digits) : at[k] \in After(u, at[k - 1]) /\ u[at[k]] = digits[k]
  PROVE  at[Len(digits)] \in DigitRuns(digits, u)
<1> DEFINE N == Len(digits)
           L == 0..Len(u)
           S == SUBSET L
           next(k, T) == {q \in UNION {After(u, p) : p \in T} : u[q] = digits[k]}
           step == [x \in Nat \X S |-> next(x[1], x[2])]
           Recursive(r) ==
             r = [k \in 0..N |-> IF k = 0 THEN L
                                 ELSE {q \in UNION {After(u, p) : p \in r[k - 1]} : u[q] = digits[k]}]
           r == CHOOSE x : Recursive(x)
<1>1. N \in Nat /\ L \in S /\ Len(u) \in Nat /\ DOMAIN u = 1..Len(u)
  BY DomainOfSaid
<1>2. DigitRuns(digits, u) = r[N]
  BY DEF DigitRuns
<1>3. \A k \in Nat, T \in S : next(k, T) \in S
  BY <1>1 DEF After
<1> HIDE DEF next, S
<1>4. step \in [Nat \X S -> S] /\ \A k \in Nat, T \in S : step[<<k, T>>] = next(k, T)
  BY <1>3
<1> HIDE DEF step, L, N
<1>5. PICK f : Follows(f, N, S, L, step)
  BY <1>1, <1>4, HistoryOfLength, Zenon
<1>6. \A k \in 0..N : f[k] = IF k = 0 THEN L
                             ELSE {q \in UNION {After(u, p) : p \in f[k - 1]} : u[q] = digits[k]}
  <2> TAKE k \in 0..N
  <2>1. CASE k = 0
    BY <1>5, <2>1 DEF Follows
  <2>2. CASE k # 0
    <3>1. k \in 1..N /\ k \in Nat /\ k - 1 \in 0..N
      BY <1>1, <2>2
    <3>2. f[k] = step[<<k, f[k - 1]>>] /\ f[k - 1] \in S
      BY <1>5, <3>1 DEF Follows
    <3>3. f[k] = next(k, f[k - 1])
      BY <1>4, <3>1, <3>2
    <3> QED BY <2>2, <3>3 DEF next
  <2> QED BY <2>1, <2>2
<1>7. f = [k \in 0..N |-> f[k]]
  BY <1>5 DEF Follows
<1>8. Recursive(f)
  BY <1>6, <1>7, Zenon
<1>9. Recursive(r)
  <2> HIDE DEF Recursive
  <2> QED BY <1>8
<1> HIDE DEF r
<1>10. r[0] = L
  BY <1>1, <1>9
<1>11. ASSUME NEW k \in 0..N, k < N
       PROVE  r[k + 1] = {q \in UNION {After(u, p) : p \in r[k]} : u[q] = digits[k + 1]}
  <2>1. k + 1 \in 0..N /\ k + 1 # 0 /\ (k + 1) - 1 = k
    BY <1>1, <1>11
  <2> QED BY <1>9, <2>1
<1> DEFINE P == {k \in 0..N : at[k] \in r[k]}
<1>12. 0 \in P
  BY <1>1, <1>10 DEF L, N
<1>13. ASSUME NEW k \in 0..N, k \in P, k < N PROVE k + 1 \in P
  <2>1. k + 1 \in 1..N /\ k + 1 \in 0..N /\ (k + 1) - 1 = k
    BY <1>1, <1>13
  <2>2. at[k + 1] \in After(u, at[k]) /\ u[at[k + 1]] = digits[k + 1]
    BY <2>1 DEF N
  <2>3. at[k] \in r[k]
    BY <1>13
  <2> QED BY <1>11, <1>13, <2>1, <2>2, <2>3
<1>14. \A k \in 0..N : k \in P
  <2> HIDE DEF P
  <2> QED BY <1>1, <1>12, <1>13, UpTo
<1>15. N \in 0..N
  BY <1>1
<1> QED BY <1>2, <1>14, <1>15 DEF N

\* A frequency, said to its last digit or to the last that is not a zero.
LEMMA FrequencyMatches ==
  ASSUME NEW v \in Value, None \notin Value, v.kind = "frequency", NEW u \in Said,
         NEW form \in Pronounced(v), NEW p, HeardAt(u, p, form)
  PROVE  Matches(v, u)
<1> DEFINE d == v.digits
<1>1. PICK n \in SaidOf(v) :
        form = SubSeq(d, 1, v.mhz) \o <<"decimal">> \o SubSeq(d, v.mhz + 1, n)
  BY DEF Pronounced
<1>2. d \in Said /\ d \in Seq(Digit) /\ v.mhz = 3 /\ n \in 4..Len(d) /\ Len(d) \in Nat
  BY KindsOfValue, DigitsAreSaid, DomainOfSaid DEF SaidOf
<1>3. /\ form \in Said
      /\ Len(form) = n + 1
      /\ \A i \in 1..3 : form[i] = d[i]
      /\ form[4] = "decimal"
      /\ \A i \in 5..n + 1 : form[i] = d[i - 1]
  BY <1>1, FrequencyIsSaid
<1> n \in Nat /\ n >= 4
  BY <1>2
<1>4. CASE n = Len(d)
  <2>1. form \in SpokenForms(v)
    BY <1>1, <1>4 DEF SpokenForms
  <2> QED BY <1>3, <2>1, StandsIsSaid DEF Matches, HeardAt
<1>5. CASE n # Len(d)
  <2> DEFINE t == SubSeq(d, 1, n)
  <2>1. t \in Said /\ Len(t) = n /\ \A i \in 1..n : t[i] = d[i]
    <3>1. \A i \in 1..n : d[i] \in Word
      BY <1>2, DomainOfSaid
    <3>2. /\ SubSeq(d, 1, n) \in Seq(Word)
          /\ Len(SubSeq(d, 1, n)) = IF 1 <= n THEN n - 1 + 1 ELSE 0
          /\ \A i \in 1..n - 1 + 1 : SubSeq(d, 1, n)[i] = d[1 + i - 1]
      BY <1>2, <3>1, SubSeqProperties
    <3> QED BY <1>2, <3>2 DEF Said
  <2>2. t \in Trimmed(v)
    BY <1>2, <1>5 DEF Trimmed, SaidOf
  <2> HIDE DEF t
  <2>3. /\ p \in Nat /\ p + (n + 1) <= Len(u) /\ Len(u) \in Nat /\ DOMAIN u = 1..Len(u)
        /\ \A j \in 1..n + 1 : u[p + j] = form[j]
        /\ p + (n + 1) = Len(u) \/ u[p + (n + 1) + 1] = "word"
    BY <1>3, DomainOfSaid DEF HeardAt, StandsIn
  <2> p \in Nat /\ Len(u) \in Nat /\ p + (n + 1) <= Len(u)
    BY <2>3
  <2> DEFINE at == [k \in 0..n |-> IF k <= 3 THEN p + k ELSE p + (k + 1)]
  <2>4. at \in [0..n -> 0..Len(u)]
    <3>1. \A k \in 0..n : (IF k <= 3 THEN p + k ELSE p + (k + 1)) \in 0..Len(u)
      BY SMT
    <3> QED BY <3>1, Zenon
  <2>5. ASSUME NEW k \in 1..n
        PROVE  at[k] \in After(u, at[k - 1]) /\ u[at[k]] = t[k]
    <3>1. k - 1 \in 0..n /\ k \in 0..n
      OBVIOUS
    <3>2. CASE k <= 3
      <4>1. k - 1 <= 3
        BY <3>2
      <4>2. at[k] = p + k /\ at[k - 1] = p + (k - 1)
        BY <3>1, <3>2, <4>1
      <4>3. p + k \in 1..Len(u) /\ k \in 1..n + 1 /\ k \in 1..3 /\ p + k = (p + (k - 1)) + 1
        BY <3>2
      <4>4. u[p + k] = form[k] /\ form[k] = d[k] /\ t[k] = d[k]
        BY <1>3, <2>1, <2>3, <4>3
      <4> HIDE DEF at, d
      <4> QED BY <2>3, <4>2, <4>3, <4>4 DEF After
    <3>3. CASE k = 4
      <4>0. k \in 0..n /\ k - 1 \in 0..n /\ ~(k <= 3) /\ k - 1 <= 3
        BY <3>1, <3>3
      <4>1. at[k] = p + 5 /\ at[k - 1] = p + 3
        BY <3>3, <4>0
      <4>2. /\ p + 5 \in 1..Len(u) /\ 4 \in 1..n /\ 5 - 1 = 4
            /\ 4 \in 1..n + 1 /\ 5 \in 1..n + 1 /\ 5 \in 5..n + 1
            /\ p + 5 = (p + 3) + 2 /\ (p + 3) + 1 = p + 4
        OBVIOUS
      <4>3. u[p + 4] = form[4]
        BY <2>3, <4>2
      <4>4. u[p + 5] = form[5]
        BY <2>3, <4>2
      <4>5. form[5] = d[4] /\ t[4] = d[4]
        BY <1>3, <2>1, <4>2
      <4>6. u[p + 4] = "decimal"
        BY <1>3, <4>3
      <4> HIDE DEF at, d
      <4> QED BY <2>3, <3>3, <4>1, <4>2, <4>4, <4>5, <4>6 DEF After
    <3>4. CASE k > 4
      <4>1. ~(k <= 3) /\ ~(k - 1 <= 3) /\ p + ((k - 1) + 1) = p + k
        BY <3>4
      <4>2. at[k] = p + (k + 1) /\ at[k - 1] = p + k
        BY <3>1, <4>1
      <4>3. /\ p + (k + 1) \in 1..Len(u)
            /\ k + 1 \in 1..n + 1 /\ k + 1 \in 5..n + 1 /\ (k + 1) - 1 = k
            /\ p + (k + 1) = (p + k) + 1
        BY <3>4
      <4>4. u[p + (k + 1)] = form[k + 1] /\ form[k + 1] = d[k] /\ t[k] = d[k]
        BY <1>3, <2>1, <2>3, <4>3
      <4> HIDE DEF at, d
      <4> QED BY <2>3, <4>2, <4>3, <4>4 DEF After
    <3> QED BY <3>2, <3>3, <3>4
  <2>6. at[n] = p + (n + 1)
    BY <1>2
  <2> HIDE DEF at
  <2>7. p + (n + 1) \in DigitRuns(t, u)
    BY <2>1, <2>4, <2>5, <2>6, RunIsHeard
  <2>8. \A q \in After(u, p + (n + 1)) : u[q] \notin Digit
    <3> TAKE q \in After(u, p + (n + 1))
    <3> DEFINE here == p + (n + 1)
    <3>0. here = Len(u) \/ u[here + 1] = "word"
      BY <2>3
    <3>1. here \in Nat
      OBVIOUS
    <3> HIDE DEF here
    <3>2. q \in 1..Len(u) /\ (q = here + 1 \/ (q = here + 2 /\ u[here + 1] = "decimal"))
      BY <2>3 DEF After, here
    <3>3. u[here + 1] = "word"
      BY <3>0, <3>1, <3>2
    <3>4. q = here + 1
      BY <3>2, <3>3
    <3> QED BY <3>3, <3>4, NotDigits
  <2>9. TrimmedHeard(v, u)
    BY <2>2, <2>7, <2>8 DEF TrimmedHeard, DigitRunEnds
  <2> QED BY <2>9 DEF Matches
<1> QED BY <1>4, <1>5

\* Whatever the value, and in whatever way it is said.
LEMMA SaidMatches ==
  ASSUME NEW v \in Value, None \notin Value, NEW u \in Said,
         NEW form \in Pronounced(v), NEW p, HeardAt(u, p, form)
  PROVE  Matches(v, u)
<1>1. StandsIn(u, p, form)
  BY DEF HeardAt
<1>2. CASE v.kind = "runway"
  <2>1. v \in RunwayValues
    BY <1>2 DEF Value
  <2>2. form = IF v.side = None THEN v.digits ELSE Append(v.digits, v.side)
    BY <1>2 DEF Pronounced
  <2> QED BY <1>1, <2>1, <2>2, RunwayMatches
<1>3. CASE v.kind = "number"
  BY <1>1, <1>3, NumberMatches
<1>4. CASE v.kind = "level"
  BY <1>1, <1>4, LevelMatches
<1>5. CASE v.kind = "frequency"
  BY <1>5, FrequencyMatches
<1>6. CASE v.kind = "ident"
  BY <1>1, <1>6, ProcedureMatches
<1> QED BY <1>2, <1>3, <1>4, <1>5, <1>6, KindsOfValue

----------------------------------------------------------------------------
\* Every value of an utterance is heard

LEMMA PronouncedIsSaid ==
  ASSUME NEW v \in Value, NEW form \in Pronounced(v)
  PROVE  form \in Said
<1>1. v.digits \in Seq(Digit) /\ v.digits \in Said
  BY KindsOfValue, DigitsAreSaid
<1>2. CASE v.kind = "runway"
  <2>1. v.side # None => v.side \in Word
    BY <1>2, KindsOfValue, Words
  <2>2. form = IF v.side = None THEN v.digits ELSE Append(v.digits, v.side)
    BY <1>2 DEF Pronounced
  <2> QED BY <1>1, <2>1, <2>2, AppendProperties DEF Said
<1>3. CASE v.kind = "number"
  <2>1. form \in {v.digits} \cup Round(v.digits, "thousand", 3)
    BY <1>3 DEF Pronounced
  <2> QED BY <1>1, <2>1, RoundIsSaid, Words
<1>4. CASE v.kind = "level"
  <2>1. form \in {<<"flight level">> \o v.digits} \cup Round(v.digits, "hundred", 2)
    BY <1>4 DEF Pronounced
  <2>2. <<"flight level">> \in Said
    <3>1. "flight level" \in Word
      BY Words
    <3> QED BY <3>1, OneWord
  <2>3. <<"flight level">> \o v.digits \in Said
    BY <1>1, <2>2, ConcatProperties DEF Said
  <2> QED BY <1>1, <2>1, <2>3, RoundIsSaid, Words
<1>5. CASE v.kind = "frequency"
  <2>1. PICK n \in SaidOf(v) :
          form = SubSeq(v.digits, 1, v.mhz) \o <<"decimal">> \o SubSeq(v.digits, v.mhz + 1, n)
    BY <1>5 DEF Pronounced
  <2> QED BY <1>5, <2>1, FrequencyIsSaid
<1>6. CASE v.kind = "ident"
  <2>1. PICK w \in SoundsLike[v.stem] : form = <<w>> \o v.digits \o <<v.letter>>
    BY <1>6 DEF Pronounced
  <2>2. w \in Word /\ v.letter \in Word
    BY <1>6, KindsOfValue, Words
  <2>3. <<w>> \in Said /\ <<v.letter>> \in Said
    BY <2>2, OneWord
  <2>4. <<w>> \o v.digits \in Said
    BY <1>1, <2>3, ConcatProperties DEF Said
  <2> QED BY <2>1, <2>3, <2>4, ConcatProperties DEF Said
<1> QED BY <1>2, <1>3, <1>4, <1>5, <1>6, KindsOfValue

\* Who says one more value has still said the others.
LEMMA HeardBefore ==
  ASSUME NEW w \in Said, NEW more \in Said, NEW form \in Said, NEW p, HeardAt(w, p, form)
  PROVE  HeardAt((w \o <<"word">>) \o more, p, form)
<1> DEFINE mark == w \o <<"word">>
           u == mark \o more
           after == p + Len(form)
<1>1. <<"word">> \in Said /\ Len(<<"word">>) = 1 /\ <<"word">>[1] = "word"
  <2>1. "word" \in Word
    BY Words
  <2> QED BY <2>1, OneWord
<1>2. /\ mark \in Said /\ Len(mark) = Len(w) + 1
      /\ \A i \in 1..Len(w) : mark[i] = w[i]
      /\ mark[Len(w) + 1] = "word"
  BY <1>1, ConcatProperties DEF Said
<1>3. StandsIn(mark, p, form)
  BY <1>1, StandsBeforeMore DEF HeardAt, Said
<1> HIDE DEF mark
<1>4. StandsIn(u, p, form)
  BY <1>2, <1>3, StandsBeforeMore DEF Said
<1>5. \A i \in 1..Len(mark) : u[i] = mark[i]
  BY <1>2, ConcatProperties DEF Said
<1> HIDE DEF u
<1>6. Len(w) \in Nat /\ after \in Nat /\ after <= Len(w)
  BY DomainOfSaid DEF HeardAt, StandsIn
<1>7. after = Len(w) \/ w[after + 1] = "word"
  BY DEF HeardAt
<1> HIDE DEF after
<1>8. u[after + 1] = "word"
  <2>1. after + 1 \in 1..Len(w) + 1
    BY <1>6
  <2>2. after # Len(w) => after + 1 \in 1..Len(w)
    BY <1>6
  <2>3. mark[after + 1] = "word"
    BY <1>2, <1>7, <2>2
  <2> QED BY <1>2, <1>5, <2>1, <2>3
<1> QED BY <1>4, <1>8 DEF HeardAt, u, mark, after

LEMMA HeardLast ==
  ASSUME NEW w \in Said, NEW form \in Said
  PROVE  LET u == (w \o <<"word">>) \o form
         IN  u \in Said /\ HeardAt(u, Len(w \o <<"word">>), form)
<1> DEFINE mark == w \o <<"word">>
           u == mark \o form
<1>1. <<"word">> \in Said
  <2>1. "word" \in Word
    BY Words
  <2> QED BY <2>1, OneWord
<1>2. mark \in Said
  BY <1>1, ConcatProperties DEF Said
<1> HIDE DEF mark
<1>3. u \in Said /\ Len(u) = Len(mark) + Len(form)
  BY <1>2, ConcatProperties DEF Said
<1>4. StandsIn(u, Len(mark), form)
  BY <1>2, StandsAtEnd DEF Said
<1> HIDE DEF u
<1>5. HeardAt(u, Len(mark), form)
  BY <1>3, <1>4 DEF HeardAt
<1> QED BY <1>3, <1>5 DEF u, mark

LEMMA OneMoreValue ==
  ASSUME NEW T, NEW forms, NEW x \in ThenSaid(T, forms)
  PROVE  \E w \in T : \E form \in forms : x = w \o <<"word">> \o form
BY DEF ThenSaid

\* One word before each value, and every value said in one of its ways.
LEMMA PartsAreHeard ==
  ASSUME NEW values \in Seq(Value), NEW u \in Utterances(values)
  PROVE  /\ u \in Said
         /\ \A i \in DOMAIN values : \E form \in Pronounced(values[i]) : \E p : HeardAt(u, p, form)
<1> DEFINE N == Len(values)
           More(k, T) == ThenSaid(T, Pronounced(values[k]))
           next(k, T) == IF k \in 1..N THEN More(k, T) ELSE {}
           S == SUBSET Said
           start == {<<>>}
           step == [x \in Nat \X S |-> next(x[1], x[2])]
           Recursive(r) ==
             r = [k \in 0..N |-> IF k = 0 THEN start ELSE More(k, r[k - 1])]
           r == CHOOSE x : Recursive(x)
<1>1. N \in Nat /\ DOMAIN values = 1..N /\ \A k \in 1..N : values[k] \in Value
  OBVIOUS
<1>2. Utterances(values) = r[N]
  BY DEF Utterances
<1>3. start \in S
  BY DEF Said
<1>4. \A k \in Nat, T \in S : next(k, T) \in S
  <2> TAKE k \in Nat, T \in S
  <2>1. ASSUME k \in 1..N, NEW x \in More(k, T)
        PROVE  x \in Said
    <3>1. \E w \in T : \E form \in Pronounced(values[k]) : x = w \o <<"word">> \o form
      BY OneMoreValue
    <3>2. PICK w \in T, form \in Pronounced(values[k]) : x = w \o <<"word">> \o form
      BY <3>1
    <3>3. w \in Said /\ form \in Said
      BY <1>1, <2>1, PronouncedIsSaid
    <3> QED BY <3>2, <3>3, HeardLast
  <2>2. k \in 1..N => More(k, T) \subseteq Said
    BY <2>1
  <2> HIDE DEF More
  <2> QED BY <2>2
<1> HIDE DEF More, next, S, start
<1>5. step \in [Nat \X S -> S] /\ \A k \in Nat, T \in S : step[<<k, T>>] = next(k, T)
  BY <1>4
<1> HIDE DEF step, N
<1>6. PICK f : Follows(f, N, S, start, step)
  BY <1>1, <1>3, <1>5, HistoryOfLength, Zenon
<1>7. \A k \in 0..N : f[k] = IF k = 0 THEN start ELSE More(k, f[k - 1])
  <2> TAKE k \in 0..N
  <2>1. CASE k = 0
    BY <1>6, <2>1 DEF Follows
  <2>2. CASE k # 0
    <3>1. k \in 1..N /\ k \in Nat /\ k - 1 \in 0..N
      BY <1>1, <2>2
    <3>2. f[k] = step[<<k, f[k - 1]>>] /\ f[k - 1] \in S
      BY <1>6, <3>1 DEF Follows
    <3>3. f[k] = next(k, f[k - 1])
      BY <1>5, <3>1, <3>2
    <3> QED BY <2>2, <3>1, <3>3 DEF next
  <2> QED BY <2>1, <2>2
<1>8. f = [k \in 0..N |-> f[k]]
  BY <1>6 DEF Follows
<1>9. Recursive(f)
  BY <1>7, <1>8, Zenon
<1>10. Recursive(r)
  <2> HIDE DEF Recursive
  <2> QED BY <1>9
<1> HIDE DEF r
<1>11. r[0] = start
  BY <1>1, <1>10
<1>12. ASSUME NEW k \in 0..N, k < N
       PROVE  k + 1 \in 1..N /\ r[k + 1] = More(k + 1, r[k])
  <2>1. k + 1 \in 0..N /\ k + 1 \in 1..N /\ k + 1 # 0 /\ (k + 1) - 1 = k
    BY <1>1, <1>12
  <2> QED BY <1>10, <2>1
<1> HIDE DEF Recursive
<1> DEFINE Heard(w, i) == \E form \in Pronounced(values[i]) : \E p : HeardAt(w, p, form)
           P == {k \in 0..N : \A w \in r[k] : w \in Said /\ \A i \in 1..k : Heard(w, i)}
<1> HIDE DEF Heard
<1>13. 0 \in P
  <2>1. \A w \in r[0] : w \in Said
    BY <1>11 DEF start, Said
  <2>2. 0 \in 0..N /\ 1..0 = {}
    BY <1>1
  <2> QED BY <2>1, <2>2
<1>14. ASSUME NEW k \in 0..N, k \in P, k < N PROVE k + 1 \in P
  <2>1. k + 1 \in 1..N /\ k + 1 \in 0..N /\ k \in Nat /\ values[k + 1] \in Value
    BY <1>1, <1>12, <1>14
  <2>2. ASSUME NEW x \in r[k + 1]
        PROVE  x \in Said /\ \A i \in 1..k + 1 : Heard(x, i)
    <3>0. x \in More(k + 1, r[k])
      BY <1>12, <1>14, <2>2
    <3>1. PICK w \in r[k], form \in Pronounced(values[k + 1]) : x = w \o <<"word">> \o form
      BY <3>0, OneMoreValue DEF More
    <3>2. w \in Said /\ \A i \in 1..k : Heard(w, i)
      BY <1>14
    <3>3. form \in Said
      BY <2>1, PronouncedIsSaid
    <3>4. x \in Said /\ Heard(x, k + 1)
      BY <3>1, <3>2, <3>3, HeardLast DEF Heard
    <3>5. ASSUME NEW i \in 1..k PROVE Heard(x, i)
      <4>1. i \in 1..N
        BY <1>1, <2>1
      <4>2. PICK other \in Pronounced(values[i]) : \E p : HeardAt(w, p, other)
        BY <3>2 DEF Heard
      <4>3. other \in Said
        BY <1>1, <4>1, PronouncedIsSaid
      <4>4. \E p : HeardAt(x, p, other)
        BY <3>1, <3>2, <3>3, <4>2, <4>3, HeardBefore
      <4> QED BY <4>4 DEF Heard
    <3>6. \A i \in 1..k + 1 : i \in 1..k \/ i = k + 1
      BY <2>1
    <3> QED BY <3>4, <3>5, <3>6
  <2> QED BY <2>1, <2>2
<1>15. \A k \in 0..N : k \in P
  <2> HIDE DEF P
  <2> QED BY <1>1, <1>13, <1>14, UpTo
<1>16. N \in 0..N
  BY <1>1
<1> QED BY <1>1, <1>2, <1>15, <1>16 DEF Heard

LEMMA RightIsPassed ==
  ASSUME NEW values \in Seq(Value), None \notin Value, NEW u \in Utterances(values)
  PROVE  CheckReadback(u, ToSet(values))
<1> SUFFICES ASSUME NEW v \in ToSet(values) PROVE Matches(v, u)
  BY DEF CheckReadback
<1>1. PICK i \in DOMAIN values : v = values[i]
  BY DEF ToSet
<1>2. v \in Value
  BY <1>1
<1>3. u \in Said /\ \E form \in Pronounced(v) : \E p : HeardAt(u, p, form)
  BY <1>1, PartsAreHeard
<1> QED BY <1>2, <1>3, SaidMatches

----------------------------------------------------------------------------
\* check_readback: whatever a flow asks to be read back, a pilot who reads every value
\* back in any of the ways pilots say it is confirmed at once.
THEOREM RightIsAccepted == Spec => []RightReadbackAccepted
<1> DEFINE Inv == asked \in Clearance /\ RightReadbackAccepted
<1>1. Init => Inv
  BY DEF Init, RightReadbackAccepted
<1>2. Inv /\ [Next]_vars => Inv'
  <2> SUFFICES ASSUME Inv, [Next]_vars PROVE Inv'
    OBVIOUS
  <2>1. CASE Transmit
    <3>1. asked' = asked
      BY <2>1 DEF Transmit
    <3>2. PICK read \in Readings(asked) : \E u \in Utterances(read) :
            heard' = [read |-> read, said |-> u, passed |-> CheckReadback(u, ToSet(asked))]
      BY <2>1 DEF Transmit
    <3>3. PICK u \in Utterances(read) :
            heard' = [read |-> read, said |-> u, passed |-> CheckReadback(u, ToSet(asked))]
      BY <3>2
    <3>4. asked \in Seq(Value) /\ None \notin Value
      BY ReadbackAssumption
    <3>5. read = asked => CheckReadback(u, ToSet(asked))
      BY <3>4, RightIsPassed
    <3> QED BY <3>1, <3>3, <3>5 DEF RightReadbackAccepted
  <2>2. CASE NextReadback
    BY <2>2 DEF NextReadback, RightReadbackAccepted
  <2>3. CASE UNCHANGED vars
    BY <2>3 DEF vars, RightReadbackAccepted
  <2> QED BY <2>1, <2>2, <2>3 DEF Next
<1>3. Inv => RightReadbackAccepted
  OBVIOUS
<1> QED BY <1>1, <1>2, <1>3, PTL DEF Spec
=============================================================================
