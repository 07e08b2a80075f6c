--------------------------- MODULE TimeTextsProofs ---------------------------
(***************************************************************************)
(* Proofs about TimeTexts, for every length of the units, every instant,   *)
(* every age, every zone and every typed text: the fields of a duration,   *)
(* its round trips through the texts and their readers, the agreement of   *)
(* the three readers on what somebody types, the stamps of the server and  *)
(* of the library, and the wording of ages.                                *)
(***************************************************************************)
EXTENDS TimeTexts, Induction, TLAPS

Typed == n \in Nat /\ viewer \in Int /\ server \in Int

LEMMA ValuesNat == \A k : Values(k) \subseteq Nat
BY TimeTextsAssumption DEF Values

LEMMA InitTyped == Init => Typed
BY TimeTextsAssumption DEF Init, Typed

LEMMA NextTyped == Typed /\ [Next]_vars => Typed'
<1> SUFFICES ASSUME Typed, [Next]_vars PROVE Typed'
  OBVIOUS
<1>1. CASE Pass
  BY <1>1, ValuesNat DEF Pass, Typed
<1>2. CASE \E token \in Tokens : Type(token)
  BY <1>2 DEF Type, Typed
<1>3. CASE UNCHANGED vars
  BY <1>3 DEF vars, Typed
<1> QED
  BY <1>1, <1>2, <1>3 DEF Next

LEMMA AlwaysTyped == Spec => []Typed
BY InitTyped, NextTyped, PTL DEF Spec

---------------------------------------------------------------------------
(* Durations *)

\* Cutting a unit off leaves less than one of it, and nothing below zero.
LEMMA TakeLess ==
  ASSUME NEW m \in Nat, NEW unit \in Nat \ {0}
  PROVE  /\ Take(m, unit) \in Nat
         /\ m - Take(m, unit) * unit \in Nat
         /\ m - Take(m, unit) * unit < unit
<1> DEFINE q == m \div unit
           r == m % unit
<1>1. m = unit * q + r /\ r \in 0..(unit - 1) /\ q \in Int
  OBVIOUS
<1> QED
  BY <1>1 DEF Take

LEMMA FieldsOfNat ==
  ASSUME NEW m \in Nat, NEW precise \in BOOLEAN
  PROVE  LET f == Fields(m, precise)
         IN /\ AddsUp(f, m)
            /\ \A i \in 1..6 : f[i] \in Nat
            /\ ~precise => Greedy(f)
<1> DEFINE nY == IF precise THEN 0 ELSE Take(m, Year)
           afterY == m - nY * Year
           nM == IF precise THEN 0 ELSE Take(afterY, Month)
           afterM == afterY - nM * Month
           nD == Take(afterM, Day)
           afterD == afterM - nD * Day
           nH == Take(afterD, Hour)
           afterH == afterD - nH * Hour
           nMin == Take(afterH, Minute)
           left == afterH - nMin * Minute
<1> USE DurationsAssumption
<1>1. nY \in Nat /\ afterY \in Nat /\ (~precise => afterY < Year)
  <2>1. CASE precise
    BY <2>1
  <2>2. CASE ~precise
    BY <2>2, TakeLess
  <2> QED
    BY <2>1, <2>2
<1> HIDE DEF nY, afterY
<1>2. nM \in Nat /\ afterM \in Nat /\ (~precise => afterM < Month)
  BY <1>1, TakeLess
<1> HIDE DEF nM, afterM
<1>3. nD \in Nat /\ afterD \in Nat /\ afterD < Day
  BY <1>2, TakeLess
<1> HIDE DEF nD, afterD
<1>4. nH \in Nat /\ afterH \in Nat /\ afterH < Hour
  BY <1>3, TakeLess
<1> HIDE DEF nH, afterH
<1>5. nMin \in Nat /\ left \in Nat /\ left < Minute
  BY <1>4, TakeLess
<1> HIDE DEF nMin, left
<1>6. Fields(m, precise) = <<nY, nM, nD, nH, nMin, left>>
  BY DEF Fields, nY, afterY, nM, afterM, nD, afterD, nH, afterH, nMin, left
<1> DEFINE f == <<nY, nM, nD, nH, nMin, left>>
<1>7. /\ afterH = nMin * Minute + left
      /\ afterD = nH * Hour + afterH
      /\ afterM = nD * Day + afterD
      /\ afterY = nM * Month + afterM
      /\ m = nY * Year + afterY
  <2>1. /\ nY * Year \in Int /\ nM * Month \in Int /\ nD * Day \in Int
        /\ nH * Hour \in Int /\ nMin * Minute \in Int
    BY <1>1, <1>2, <1>3, <1>4, <1>5
  <2> QED
    BY <2>1, <1>1, <1>2, <1>3, <1>4, <1>5 DEF left, afterH, afterD, afterM, afterY
<1>8. AddsUp(f, m)
  BY <1>1, <1>2, <1>3, <1>4, <1>5, <1>7 DEF AddsUp
<1>9. \A i \in 1..6 : f[i] \in Nat
  BY <1>1, <1>2, <1>3, <1>4, <1>5
<1>10. ~precise => Greedy(f)
  BY <1>1, <1>2, <1>3, <1>4, <1>5, <1>7 DEF Greedy
<1> QED
  BY <1>6, <1>8, <1>9, <1>10

\* The fields of every length of time add up to it, whatever the units are, and when years
\* and months are used each is as large as it can be (centisecsToISODuration).
THEOREM TimesFieldsCanonical == Spec => []FieldsCanonical
<1>1. Typed => FieldsCanonical
  BY FieldsOfNat DEF Typed, FieldsCanonical
<1> QED
  BY <1>1, AlwaysTyped, PTL

---------------------------------------------------------------------------
(* Division *)

LEMMA Divided ==
  ASSUME NEW m \in Nat, NEW unit \in Nat \ {0}
  PROVE  m = unit * (m \div unit) + (m % unit) /\ m \div unit \in Nat /\ m % unit \in 0..(unit - 1)
<1> DEFINE q == m \div unit
           r == m % unit
<1>1. m = unit * q + r /\ r \in 0..(unit - 1) /\ q \in Int
  OBVIOUS
<1> HIDE DEF q, r
<1>2. q \in Nat
  <2>1. ASSUME q <= -1 PROVE unit * q <= -unit
    BY <1>1, <2>1
  <2> QED
    BY <1>1, <2>1
<1>3. m = unit * q + r /\ q \in Nat /\ r \in 0..(unit - 1)
  BY <1>1, <1>2
<1> USE DEF q, r
<1> QED
  BY <1>3, Zenon

LEMMA DividedBack ==
  ASSUME NEW f \in Nat, NEW unit \in Nat \ {0}
  PROVE  f * unit \in Nat /\ (f * unit) \div unit = f /\ (f * unit) % unit = 0
<1> DEFINE m == f * unit
           q == m \div unit
           r == m % unit
<1>1. m \in Nat
  OBVIOUS
<1> HIDE DEF m
<1>2. m = unit * q + r /\ q \in Nat /\ r \in 0..(unit - 1)
  BY <1>1, Divided
<1> HIDE DEF q, r
<1>3. unit * (f - q) = r
  <2>1. f * unit = unit * q + r
    BY <1>2 DEF m
  <2> QED
    BY <1>2, <2>1
<1>4. ~(f - q >= 1)
  <2>1. ASSUME f - q >= 1 PROVE unit * (f - q) >= unit
    BY <1>2, <2>1
  <2> QED
    BY <1>2, <1>3, <2>1
<1>5. ~(f - q <= -1)
  <2>1. ASSUME f - q <= -1 PROVE unit * (f - q) <= -unit
    BY <1>2, <2>1
  <2> QED
    BY <1>2, <1>3, <2>1
<1>6. q = f /\ r = 0
  <2>1. q = f
    BY <1>2, <1>4, <1>5
  <2>2. unit * (f - q) = 0
    BY <2>1
  <2> QED
    BY <1>3, <2>1, <2>2
<1> QED
  BY <1>1, <1>6 DEF m, q, r

---------------------------------------------------------------------------
(* Texts of durations *)

Toks(units) == [n : Nat, u : units]
AnyToks == Toks({"Y", "M", "D", "H", "S", "T"})

LEMMA ConsFacts ==
  ASSUME NEW S, NEW t \in S, NEW q \in Seq(S)
  PROVE  /\ Cons(t, q) \in Seq(S) /\ Len(Cons(t, q)) = Len(q) + 1
         /\ Cons(t, q)[1] = t /\ Head(Cons(t, q)) = t /\ Tail(Cons(t, q)) = q
         /\ Cons(t, q) # <<>>
         /\ SubSeq(Cons(t, q), 2, Len(Cons(t, q))) = q
         /\ \A j \in 1..Len(q) : Cons(t, q)[j + 1] = q[j]
<1> DEFINE r == <<t>> \o q
<1>1. r \in Seq(S) /\ Len(r) = Len(q) + 1 /\ r[1] = t /\ \A j \in 1..Len(q) : r[j + 1] = q[j]
  OBVIOUS
<1>2. Head(r) = t /\ r # <<>>
  BY <1>1
<1>3. SubSeq(r, 2, Len(r)) = q
  <2>1. SubSeq(r, 2, Len(r)) \in Seq(S) /\ Len(SubSeq(r, 2, Len(r))) = Len(q)
    BY <1>1
  <2>2. \A j \in 1..Len(q) : SubSeq(r, 2, Len(r))[j] = q[j]
    BY <1>1
  <2> HIDE DEF r
  <2> QED
    BY <2>1, <2>2
<1>4. Tail(r) = q
  <2>1. Tail(r) \in Seq(S) /\ Len(Tail(r)) = Len(q)
    BY <1>1
  <2>2. \A j \in 1..Len(q) : Tail(r)[j] = q[j]
    BY <1>1
  <2> HIDE DEF r
  <2> QED
    BY <2>1, <2>2
<1> QED
  BY <1>1, <1>2, <1>3, <1>4 DEF Cons

\* The place of a letter in a text.
PlaceOf(rest, i) == SelectInSeq(rest, LAMBDA t : t.u = Letters[i])

LEMMA PlaceFound ==
  ASSUME NEW rest, Len(rest) \in Nat, NEW i
  PROVE  LET at == {j \in 1..Len(rest) : rest[j].u = Letters[i]}
         IN /\ at = {} => PlaceOf(rest, i) = 0
            /\ at # {} => PlaceOf(rest, i) \in at /\ \A j \in at : PlaceOf(rest, i) <= j
<1> DEFINE at == {j \in 1..Len(rest) : rest[j].u = Letters[i]}
<1>1. PlaceOf(rest, i) = IF at # {} THEN Min(at) ELSE 0
  BY DEF PlaceOf, SelectInSeq
<1>2. ASSUME at # {} PROVE Min(at) \in at /\ \A j \in at : Min(at) <= j
  <2>1. at \in SUBSET Nat
    OBVIOUS
  <2> HIDE DEF at
  <2>2. \E m \in at : \A j \in at : m <= j
    BY <1>2, <2>1, NatMinimum
  <2> QED
    BY <2>2, Zenon DEF Min
<1> QED
  BY <1>1, <1>2

---------------------------------------------------------------------------
(* Reading one letter *)

Reading(seenT, sum, rest) == [bad |-> FALSE, seenT |-> seenT, sum |-> sum, rest |-> rest]

\* What a number with the i-th letter is worth.
Value(i, n1) == IF i = 6 THEN n1 ELSE (n1 \div Second) * Worth[i]

\* A letter that is found, and one that is not.
Found(i, seenT, sum, rest) ==
  [bad |-> (i > 3 /\ ~seenT) \/ Head(rest) = TimeMark, seenT |-> seenT,
   sum |-> sum + Value(i, Head(rest).n), rest |-> SubSeq(rest, PlaceOf(rest, i) + 1, Len(rest))]

LEMMA ReadsNoMark ==
  ASSUME NEW i \in 1..6, NEW b \in BOOLEAN, NEW m, NEW q,
         i > 3 => q = <<>> \/ Head(q) # TimeMark
  PROVE  ReadLetter(Reading(b, m, q), i) =
           IF \/ i <= 3 /\ q # <<>> /\ Head(q) = TimeMark
              \/ MinutesMeant(i, q, PlaceOf(q, i))
              \/ PlaceOf(q, i) = 0
           THEN Reading(b, m, q) ELSE Found(i, b, m, q)
<1> DEFINE s == Reading(b, m, q)
<1>1. s.bad = FALSE /\ s.seenT = b /\ s.sum = m /\ s.rest = q
  BY DEF Reading
<1>2. (b \/ FALSE) = b
  OBVIOUS
<1> HIDE DEF s
<1>3. ReadLetter(s, i) =
        IF (i <= 3 /\ q # <<>> /\ Head(q) = TimeMark) \/ MinutesMeant(i, q, PlaceOf(q, i)) THEN s
        ELSE IF PlaceOf(q, i) = 0 THEN [bad |-> FALSE, seenT |-> b, sum |-> m, rest |-> q]
        ELSE [bad |-> (i > 3 /\ ~b) \/ Head(q) = TimeMark, seenT |-> b,
              sum |-> m + Value(i, Head(q).n),
              rest |-> SubSeq(q, PlaceOf(q, i) + 1, Len(q))]
  <2>1. CASE i > 3
    BY <1>1, <1>2, <2>1 DEF ReadLetter, PlaceOf, Value, Whole
  <2>2. CASE ~(i > 3)
    BY <1>1, <1>2, <2>2 DEF ReadLetter, PlaceOf, Value, Whole
  <2> QED
    BY <2>1, <2>2
<1> QED
  BY <1>3, Zenon DEF Found, Reading, s

\* The T in front of the time is dropped.
LEMMA ReadsBehindMark ==
  ASSUME NEW b \in BOOLEAN, NEW m, NEW r, r # <<>>, Head(r) = TimeMark
  PROVE  ReadLetter(Reading(b, m, r), 4) =
           IF PlaceOf(Tail(r), 4) = 0 THEN Reading(TRUE, m, Tail(r)) ELSE Found(4, TRUE, m, Tail(r))
<1> DEFINE s == Reading(b, m, r)
           q == Tail(r)
<1>1. s.bad = FALSE /\ s.seenT = b /\ s.sum = m /\ s.rest = r
  BY DEF Reading
<1>2. (b \/ TRUE) = TRUE /\ 4 > 3 /\ ~(4 <= 3)
  OBVIOUS
<1>3. ~MinutesMeant(4, q, PlaceOf(q, 4))
  BY DEF MinutesMeant
<1> HIDE DEF s, q
<1>4. q = Tail(r)
  BY DEF q
<1>5. ReadLetter(s, 4) =
        IF PlaceOf(q, 4) = 0 THEN [bad |-> FALSE, seenT |-> TRUE, sum |-> m, rest |-> q]
        ELSE [bad |-> (4 > 3 /\ ~TRUE) \/ Head(q) = TimeMark, seenT |-> TRUE,
              sum |-> m + Value(4, Head(q).n),
              rest |-> SubSeq(q, PlaceOf(q, 4) + 1, Len(q))]
  BY <1>1, <1>2, <1>3, <1>4 DEF ReadLetter, PlaceOf, Value, Whole
<1> QED
  BY <1>5, Zenon DEF Found, Reading, s, q

\* A number at the start of the text with the letter that is looked for.
LEMMA FoundFirst ==
  ASSUME NEW i \in 1..6, NEW m,
         NEW t \in AnyToks, t.u = Letters[i], NEW q \in Seq(AnyToks)
  PROVE  /\ PlaceOf(Cons(t, q), i) = 1
         /\ Cons(t, q) # <<>> /\ Head(Cons(t, q)) # TimeMark
         /\ Found(i, TRUE, m, Cons(t, q)) = Reading(TRUE, m + Value(i, t.n), q)
         /\ i <= 3 => Found(i, FALSE, m, Cons(t, q)) = Reading(FALSE, m + Value(i, t.n), q)
<1> DEFINE r == Cons(t, q)
<1>1. /\ r \in Seq(AnyToks) /\ Len(r) = Len(q) + 1
      /\ r[1] = t /\ Head(r) = t /\ r # <<>> /\ SubSeq(r, 2, Len(r)) = q
  BY ConsFacts
<1> HIDE DEF r
<1>2. t # TimeMark
  BY SMT DEF Letters, TimeMark, Token
<1>3. PlaceOf(r, i) = 1
  <2>1. Len(r) \in Nat /\ 1 \in 1..Len(r) /\ r[1].u = Letters[i]
    BY <1>1
  <2>2. 1 \in {j \in 1..Len(r) : r[j].u = Letters[i]}
    BY <2>1
  <2>3. /\ PlaceOf(r, i) \in {j \in 1..Len(r) : r[j].u = Letters[i]}
        /\ \A j \in {j \in 1..Len(r) : r[j].u = Letters[i]} : PlaceOf(r, i) <= j
    BY <2>1, <2>2, PlaceFound, Zenon
  <2>4. PlaceOf(r, i) \in 1..Len(r) /\ PlaceOf(r, i) <= 1
    BY <2>2, <2>3
  <2> QED
    BY <2>1, <2>4
<1>4. ASSUME NEW b \in BOOLEAN, i > 3 => b
      PROVE  Found(i, b, m, r) = Reading(b, m + Value(i, t.n), q)
  <2>1. ((i > 3 /\ ~b) \/ Head(r) = TimeMark) = FALSE
    BY <1>1, <1>2, <1>4
  <2>2. SubSeq(r, 1 + 1, Len(r)) = q
    BY <1>1
  <2> QED
    BY <1>1, <1>3, <2>1, <2>2, Zenon DEF Found, Reading
<1>5. i <= 3 => ~(i > 3)
  OBVIOUS
<1> QED
  BY <1>1, <1>2, <1>3, <1>4, <1>5 DEF r

LEMMA TakesLetter ==
  ASSUME NEW i \in 1..6, NEW b \in BOOLEAN, NEW m,
         NEW t \in AnyToks, t.u = Letters[i], NEW q \in Seq(AnyToks), i > 3 => b
  PROVE  ReadLetter(Reading(b, m, Cons(t, q)), i) = Reading(b, m + Value(i, t.n), q)
<1> DEFINE r == Cons(t, q)
<1>1. /\ PlaceOf(r, i) = 1 /\ r # <<>> /\ Head(r) # TimeMark
      /\ Found(i, TRUE, m, r) = Reading(TRUE, m + Value(i, t.n), q)
      /\ i <= 3 => Found(i, FALSE, m, r) = Reading(FALSE, m + Value(i, t.n), q)
  BY FoundFirst, Zenon
<1> HIDE DEF r
<1>2. ~MinutesMeant(i, r, 1)
  BY DEF MinutesMeant
<1>3. ReadLetter(Reading(b, m, r), i) = Found(i, b, m, r)
  BY <1>1, <1>2, ReadsNoMark
<1>4. b = TRUE \/ (b = FALSE /\ i <= 3)
  OBVIOUS
<1> QED
  BY <1>1, <1>3, <1>4, Zenon DEF r

\* The letter is not there, or it is the M of minutes when that of months is looked for.
Unread(i, q) ==
  \/ \A k \in 1..Len(q) : q[k].u # Letters[i]
  \/ i = 2 /\ \E j \in 1..Len(q) : q[j] = TimeMark /\ \A k \in 1..j : q[k].u # "M"

LEMMA SkipsLetter ==
  ASSUME NEW i \in 1..6, NEW b \in BOOLEAN, NEW m, NEW q \in Seq(AnyToks), Unread(i, q),
         i > 3 => q = <<>> \/ Head(q) # TimeMark
  PROVE  ReadLetter(Reading(b, m, q), i) = Reading(b, m, q)
<1> DEFINE p == PlaceOf(q, i)
<1>1. Len(q) \in Nat
  OBVIOUS
<1>2. p = 0 \/ MinutesMeant(i, q, p)
  <2>1. CASE \A k \in 1..Len(q) : q[k].u # Letters[i]
    BY <1>1, <2>1, PlaceFound
  <2>2. ASSUME i = 2, NEW j \in 1..Len(q), q[j] = TimeMark, \A k \in 1..j : q[k].u # "M"
        PROVE  p = 0 \/ MinutesMeant(i, q, p)
    <3>1. p = 0 \/ (p \in 1..Len(q) /\ q[p].u = "M")
      BY <1>1, <2>2, PlaceFound DEF Letters
    <3>2. ASSUME p \in 1..Len(q), q[p].u = "M" PROVE j \in 1..(p - 1)
      BY <2>2, <3>2
    <3> QED
      BY <2>2, <3>1, <3>2 DEF MinutesMeant
  <2> QED
    BY <2>1, <2>2 DEF Unread
<1> HIDE DEF p
<1>3. p = PlaceOf(q, i)
  BY DEF p
<1> QED
  BY <1>2, <1>3, ReadsNoMark, Zenon

LEMMA DropsMark ==
  ASSUME NEW b \in BOOLEAN, NEW m, NEW q \in Seq(AnyToks), q = <<>> \/ Head(q) # TimeMark
  PROVE  ReadLetter(Reading(b, m, Cons(TimeMark, q)), 4) = ReadLetter(Reading(TRUE, m, q), 4)
<1> DEFINE r == Cons(TimeMark, q)
<1>1. TimeMark \in AnyToks
  BY DEF TimeMark, Token, AnyToks, Toks
<1>2. r # <<>> /\ Head(r) = TimeMark /\ Tail(r) = q
  BY <1>1, ConsFacts
<1> HIDE DEF r
<1>3. ReadLetter(Reading(b, m, r), 4) =
        IF PlaceOf(q, 4) = 0 THEN Reading(TRUE, m, q) ELSE Found(4, TRUE, m, q)
  BY <1>2, ReadsBehindMark, Zenon
<1>4. ReadLetter(Reading(TRUE, m, q), 4) =
        IF PlaceOf(q, 4) = 0 THEN Reading(TRUE, m, q) ELSE Found(4, TRUE, m, q)
  <2>1. ~MinutesMeant(4, q, PlaceOf(q, 4)) /\ ~(4 <= 3) /\ 4 \in 1..6 /\ TRUE \in BOOLEAN
    BY DEF MinutesMeant
  <2> QED
    BY <2>1, ReadsNoMark, Zenon
<1> DEFINE v == IF PlaceOf(q, 4) = 0 THEN Reading(TRUE, m, q) ELSE Found(4, TRUE, m, q)
<1> HIDE DEF v
<1>5. ReadLetter(Reading(b, m, r), 4) = v /\ ReadLetter(Reading(TRUE, m, q), 4) = v
  BY <1>3, <1>4 DEF v
<1> QED
  BY <1>5 DEF r

---------------------------------------------------------------------------
(* Reading what was written *)

LEMMA PutTyped ==
  ASSUME NEW L, NEW i \in 1..6, Letters[i] \in L, NEW h, h[i] \in Nat, NEW units,
         NEW q \in Seq(Toks(L))
  PROVE  Put(h, units, i, q) \in Seq(Toks(L))
<1> DEFINE t == Token(h[i], Letters[i])
<1>1. t \in Toks(L)
  BY DEF Token, Toks
<1> HIDE DEF t
<1>2. Cons(t, q) \in Seq(Toks(L))
  BY <1>1, ConsFacts
<1> QED
  BY <1>2 DEF Put, t

LEMMA NotThere ==
  ASSUME NEW L, NEW q \in Seq(Toks(L))
  PROVE  /\ \A i \in 1..6 : Letters[i] \notin L => Unread(i, q)
         /\ "T" \notin L => q = <<>> \/ Head(q) # TimeMark
<1>1. Len(q) \in Nat /\ \A k \in 1..Len(q) : q[k].u \in L
  <2>1. Len(q) \in Nat /\ \A k \in 1..Len(q) : q[k] \in Toks(L)
    OBVIOUS
  <2> QED
    BY <2>1 DEF Toks
<1>2. q # <<>> => Head(q) = q[1] /\ 1 \in 1..Len(q)
  OBVIOUS
<1> QED
  BY <1>1, <1>2 DEF Unread, TimeMark, Token

\* What a letter adds to the sum.
Part(h, units, i) == IF i \in units THEN Value(i, h[i]) ELSE 0

LEMMA ReadsPut ==
  ASSUME NEW i \in 1..6, NEW b \in BOOLEAN, NEW m \in Nat, NEW h, h[i] \in Nat, NEW units,
         NEW q \in Seq(AnyToks), i > 3 => q = <<>> \/ Head(q) # TimeMark,
         Unread(i, q), i \in units /\ i > 3 => b
  PROVE  ReadLetter(Reading(b, m, Put(h, units, i, q)), i) = Reading(b, m + Part(h, units, i), q)
<1>1. CASE i \in units
  <2> DEFINE t == Token(h[i], Letters[i])
  <2>1. t \in AnyToks /\ t.u = Letters[i] /\ t.n = h[i]
    BY DEF Token, Toks, AnyToks, Letters
  <2> HIDE DEF t
  <2>2. ReadLetter(Reading(b, m, Cons(t, q)), i) = Reading(b, m + Value(i, t.n), q)
    BY <1>1, <2>1, TakesLetter
  <2>3. Put(h, units, i, q) = Cons(t, q)
    BY <1>1 DEF Put, t
  <2> QED
    BY <1>1, <2>1, <2>2, <2>3, Zenon DEF Part
<1>2. CASE i \notin units
  <2>1. Put(h, units, i, q) = q /\ m + Part(h, units, i) = m
    BY <1>2 DEF Put, Part
  <2> QED
    BY <2>1, SkipsLetter
<1> QED
  BY <1>1, <1>2

\* The states of the pass over a text.
IsPass(toks, f) ==
  f = [i \in 0..6 |->
         IF i = 0 THEN [bad |-> ~Text(toks).has, seenT |-> FALSE, sum |-> 0, rest |-> Text(toks).toks]
         ELSE ReadLetter(f[i - 1], i)]

LEMMA PassUnrolled ==
  ASSUME NEW toks, NEW s1, s1 = ReadLetter(Reading(FALSE, 0, toks), 1), NEW s2, s2 = ReadLetter(s1, 2),
         NEW s3, s3 = ReadLetter(s2, 3), NEW s4, s4 = ReadLetter(s3, 4),
         NEW s5, s5 = ReadLetter(s4, 5), NEW s6, s6 = ReadLetter(s5, 6)
  PROVE  ISODurationToCentisec(Text(toks)) =
           IF s6.bad \/ s6.rest # <<>> THEN Undefined ELSE s6.sum
<1> DEFINE s0 == Reading(FALSE, 0, toks)
           start == [bad |-> ~Text(toks).has, seenT |-> FALSE, sum |-> 0, rest |-> Text(toks).toks]
           W == [i \in 0..6 |-> CASE i = 0 -> s0 [] i = 1 -> s1 [] i = 2 -> s2 [] i = 3 -> s3
                                  [] i = 4 -> s4 [] i = 5 -> s5 [] OTHER -> s6]
           pass == CHOOSE f : IsPass(toks, f)
<1>1. ISODurationToCentisec(Text(toks)) =
        IF pass[6].bad \/ pass[6].rest # <<>> THEN Undefined ELSE pass[6].sum
  BY Zenon DEF ISODurationToCentisec, IsPass
<1>2. start = s0
  BY DEF Text, Reading
<1> HIDE DEF s0
<1>3. s0 = Reading(FALSE, 0, toks)
  BY DEF s0
<1>4. /\ W[0] = s0 /\ W[1] = s1 /\ W[2] = s2 /\ W[3] = s3 /\ W[4] = s4 /\ W[5] = s5 /\ W[6] = s6
      /\ W = [i \in 0..6 |-> W[i]]
  OBVIOUS
<1> HIDE DEF W, start
<1>5. ASSUME NEW i \in 0..6 PROVE W[i] = IF i = 0 THEN start ELSE ReadLetter(W[i - 1], i)
  <2>1. CASE i = 0
    BY <1>2, <1>4, <2>1
  <2>2. CASE i = 1
    <3>1. i # 0 /\ i - 1 = 0
      BY <2>2
    <3> QED
      BY <1>3, <1>4, <2>2, <3>1, Zenon
  <2>3. CASE i = 2
    <3>1. i # 0 /\ i - 1 = 1
      BY <2>3
    <3> QED
      BY <1>4, <2>3, <3>1, Zenon
  <2>4. CASE i = 3
    <3>1. i # 0 /\ i - 1 = 2
      BY <2>4
    <3> QED
      BY <1>4, <2>4, <3>1, Zenon
  <2>5. CASE i = 4
    <3>1. i # 0 /\ i - 1 = 3
      BY <2>5
    <3> QED
      BY <1>4, <2>5, <3>1, Zenon
  <2>6. CASE i = 5
    <3>1. i # 0 /\ i - 1 = 4
      BY <2>6
    <3> QED
      BY <1>4, <2>6, <3>1, Zenon
  <2>7. CASE i = 6
    <3>1. i # 0 /\ i - 1 = 5
      BY <2>7
    <3> QED
      BY <1>4, <2>7, <3>1, Zenon
  <2> QED
    BY <2>1, <2>2, <2>3, <2>4, <2>5, <2>6, <2>7
<1>6. IsPass(toks, W)
  BY <1>4, <1>5 DEF IsPass, start
<1>7. IsPass(toks, pass)
  BY <1>6, Zenon
<1> HIDE DEF pass
<1>8. \A i \in 0..6 : pass[i] = IF i = 0 THEN start ELSE ReadLetter(pass[i - 1], i)
  BY <1>7 DEF IsPass, start
<1>9. pass[0] = s0 /\ pass[1] = ReadLetter(pass[0], 1) /\ pass[2] = ReadLetter(pass[1], 2)
  BY <1>2, <1>8
<1>10. /\ pass[3] = ReadLetter(pass[2], 3) /\ pass[4] = ReadLetter(pass[3], 4)
       /\ pass[5] = ReadLetter(pass[4], 5) /\ pass[6] = ReadLetter(pass[5], 6)
  BY <1>8
<1>11. pass[6] = s6
  BY <1>3, <1>9, <1>10, Zenon
<1> QED
  BY <1>1, <1>11

LEMMA PartNat ==
  ASSUME NEW h, NEW units, NEW i \in 1..6, h[i] \in Nat
  PROVE  Part(h, units, i) \in Nat
<1>1. Worth[i] \in Nat /\ Second \in Nat \ {0}
  BY DurationsAssumption DEF Worth
<1>2. h[i] \div Second \in Nat
  BY <1>1
<1>3. (h[i] \div Second) * Worth[i] \in Nat
  <2> DEFINE a == h[i] \div Second
             w == Worth[i]
  <2>1. a \in Nat /\ w \in Nat
    BY <1>1, <1>2
  <2> HIDE DEF a, w
  <2>2. a * w \in Nat
    BY <2>1
  <2> QED
    BY <2>2 DEF a, w
<1> QED
  BY <1>3 DEF Part, Value

AllParts(h, units) ==
  Part(h, units, 1) + Part(h, units, 2) + Part(h, units, 3)
    + Part(h, units, 4) + Part(h, units, 5) + Part(h, units, 6)

\* What is written in the order of the letters is read as the sum of its numbers.
LEMMA ReadsWritten ==
  ASSUME NEW h, \A i \in 1..6 : h[i] \in Nat, NEW units \in SUBSET (1..6)
  PROVE  ISODurationToCentisec(Text(Written(h, units))) = AllParts(h, units)
<1> DEFINE T6 == Put(h, units, 6, <<>>)
           T5 == Put(h, units, 5, T6)
           T4 == Put(h, units, 4, T5)
           R4 == IF units \cap 4..6 = {} THEN <<>> ELSE Cons(TimeMark, T4)
           R3 == Put(h, units, 3, R4)
           R2 == Put(h, units, 2, R3)
           R1 == Put(h, units, 1, R2)
           T7 == <<>>
           P(i) == Part(h, units, i)
<1>1. Written(h, units) = R1
  BY DEF Written
<1>2. \A i \in 1..6 : P(i) \in Nat
  BY PartNat
<1>3. \A L : <<>> \in Seq(Toks(L))
  OBVIOUS
<1>4. ASSUME NEW L, "S" \in L PROVE T6 \in Seq(Toks(L))
  <2>1. Letters[6] \in L /\ 6 \in 1..6
    BY <1>4 DEF Letters
  <2>2. h[6] \in Nat /\ <<>> \in Seq(Toks(L))
    OBVIOUS
  <2> QED
    BY <2>1, <2>2, PutTyped
<1> HIDE DEF T6
<1>5. ASSUME NEW L, "S" \in L, "M" \in L PROVE T5 \in Seq(Toks(L))
  BY <1>4, <1>5, PutTyped DEF Letters
<1> HIDE DEF T5
<1>6. ASSUME NEW L, "S" \in L, "M" \in L, "H" \in L PROVE T4 \in Seq(Toks(L))
  BY <1>5, <1>6, PutTyped DEF Letters
<1> HIDE DEF T4
<1>7. ASSUME NEW L, {"S", "M", "H", "T"} \subseteq L PROVE R4 \in Seq(Toks(L))
  <2>1. TimeMark \in Toks(L)
    BY <1>7 DEF TimeMark, Token, Toks
  <2>2. Cons(TimeMark, T4) \in Seq(Toks(L))
    BY <1>6, <1>7, <2>1, ConsFacts
  <2> QED
    BY <1>3, <2>2
<1>8. ASSUME NEW L, {"S", "M", "H", "T", "D"} \subseteq L PROVE R3 \in Seq(Toks(L))
  <2> HIDE DEF R4
  <2> QED
    BY <1>7, <1>8, PutTyped DEF Letters
<1>9. ASSUME NEW L, {"S", "M", "H", "T", "D"} \subseteq L PROVE R2 \in Seq(Toks(L))
  <2> HIDE DEF R3
  <2> QED
    BY <1>8, <1>9, PutTyped DEF Letters
<1>10. ASSUME NEW L, {"S", "M", "H", "T", "D", "Y"} \subseteq L PROVE R1 \in Seq(Toks(L))
  <2> HIDE DEF R2
  <2> QED
    BY <1>9, <1>10, PutTyped DEF Letters
<1> DEFINE timed == units \cap 4..6 # {}
<1>11. T6 \in Seq(AnyToks) /\ T5 \in Seq(AnyToks) /\ T4 \in Seq(AnyToks) /\ <<>> \in Seq(AnyToks)
  BY <1>3, <1>4, <1>5, <1>6 DEF AnyToks
<1>12. timed \in BOOLEAN /\ \A i \in 4..6 : i \in units => timed
  OBVIOUS
\* The letters of the time.
<1>13. /\ Unread(6, <<>>)
       /\ Unread(5, T6) /\ (T6 = <<>> \/ Head(T6) # TimeMark)
       /\ Unread(4, T5) /\ (T5 = <<>> \/ Head(T5) # TimeMark)
       /\ T4 = <<>> \/ Head(T4) # TimeMark
  <2>1. T6 \in Seq(Toks({"S"})) /\ T5 \in Seq(Toks({"S", "M"})) /\ T4 \in Seq(Toks({"S", "M", "H"}))
    BY <1>4, <1>5, <1>6
  <2>2. Unread(6, <<>>)
    BY DEF Unread
  <2>3. Unread(5, T6) /\ (T6 = <<>> \/ Head(T6) # TimeMark)
    <3>1. Letters[5] \notin {"S"} /\ "T" \notin {"S"} /\ 5 \in 1..6
      BY DEF Letters
    <3> QED
      BY <2>1, <3>1, NotThere
  <2>4. Unread(4, T5) /\ (T5 = <<>> \/ Head(T5) # TimeMark)
    <3>1. Letters[4] \notin {"S", "M"} /\ "T" \notin {"S", "M"} /\ 4 \in 1..6
      BY DEF Letters
    <3> QED
      BY <2>1, <3>1, NotThere
  <2>5. T4 = <<>> \/ Head(T4) # TimeMark
    <3>1. "T" \notin {"S", "M", "H"}
      OBVIOUS
    <3> QED
      BY <2>1, <3>1, NotThere
  <2> QED
    BY <2>2, <2>3, <2>4, <2>5
\* The letters of the date.
<1>14. Unread(3, R4) /\ Unread(1, R2)
  <2>1. Unread(3, R4)
    <3>1. R4 \in Seq(Toks({"S", "M", "H", "T"}))
      BY <1>7
    <3>2. Letters[3] \notin {"S", "M", "H", "T"} /\ 3 \in 1..6
      BY DEF Letters
    <3> HIDE DEF R4
    <3> QED
      BY <3>1, <3>2, NotThere
  <2>2. Unread(1, R2)
    <3>1. R2 \in Seq(Toks({"S", "M", "H", "T", "D"}))
      BY <1>9
    <3>2. Letters[1] \notin {"S", "M", "H", "T", "D"} /\ 1 \in 1..6
      BY DEF Letters
    <3> HIDE DEF R2
    <3> QED
      BY <3>1, <3>2, NotThere
  <2> QED
    BY <2>1, <2>2
<1>15. Unread(2, R3)
  <2>1. CASE ~timed
    <3>1. R3 \in Seq(Toks({"D"}))
      <4>1. Letters[3] \in {"D"} /\ 3 \in 1..6
        BY DEF Letters
      <4>2. R4 = <<>> /\ <<>> \in Seq(Toks({"D"})) /\ h[3] \in Nat
        BY <1>3, <2>1
      <4> HIDE DEF R4
      <4> QED
        BY <4>1, <4>2, PutTyped
    <3>2. Letters[2] \notin {"D"} /\ 2 \in 1..6
      BY DEF Letters
    <3> HIDE DEF R3
    <3> QED
      BY <3>1, <3>2, NotThere
  <2>2. CASE timed
    <3>1. /\ R4 \in Seq(AnyToks) /\ Len(R4) \in Nat /\ Len(R4) >= 1 /\ R4[1] = TimeMark
      <4>1. TimeMark \in AnyToks
        BY DEF TimeMark, Token, AnyToks, Toks
      <4>2. R4 = Cons(TimeMark, T4)
        BY <2>2
      <4> HIDE DEF R4
      <4>3. /\ Cons(TimeMark, T4) \in Seq(AnyToks) /\ Len(Cons(TimeMark, T4)) = Len(T4) + 1
            /\ Cons(TimeMark, T4)[1] = TimeMark
        BY <1>11, <4>1, ConsFacts
      <4>4. Len(T4) \in Nat
        BY <1>11
      <4> QED
        BY <4>2, <4>3, <4>4
    <3> HIDE DEF R4
    <3>2. TimeMark.u # "M"
      BY DEF TimeMark, Token
    <3>3. CASE 3 \notin units
      <4>1. R3 = R4
        BY <3>3 DEF Put
      <4>2. 1 \in 1..Len(R4) /\ R4[1] = TimeMark /\ \A k \in 1..1 : R4[k].u # "M"
        BY <3>1, <3>2
      <4> QED
        BY <4>1, <4>2, Zenon DEF Unread
    <3>4. CASE 3 \in units
      <4> DEFINE t == Token(h[3], "D")
      <4>1. t \in AnyToks /\ t.u = "D"
        BY DEF Token, Toks, AnyToks
      <4>2. R3 = Cons(t, R4)
        <5>1. Letters[3] = "D"
          BY DEF Letters
        <5> QED
          BY <3>4, <5>1 DEF Put
      <4> HIDE DEF t, R3
      <4>3. Len(R3) = Len(R4) + 1 /\ R3[1] = t /\ \A j \in 1..Len(R4) : R3[j + 1] = R4[j]
        <5>1. /\ Len(Cons(t, R4)) = Len(R4) + 1 /\ Cons(t, R4)[1] = t
              /\ \A j \in 1..Len(R4) : Cons(t, R4)[j + 1] = R4[j]
          BY <3>1, <4>1, ConsFacts
        <5> QED
          BY <4>2, <5>1
      <4>4. 2 \in 1..Len(R3) /\ R3[2] = TimeMark
        BY <3>1, <4>3
      <4>5. \A k \in 1..2 : R3[k].u # "M"
        BY <3>2, <4>1, <4>3, <4>4
      <4> QED
        BY <4>4, <4>5, Zenon DEF Unread
    <3> QED
      BY <3>3, <3>4
  <2> QED
    BY <2>1, <2>2
<1> HIDE DEF timed, P
<1>16. R4 \in Seq(AnyToks) /\ R3 \in Seq(AnyToks) /\ R2 \in Seq(AnyToks)
  <2> HIDE DEF R4, R3, R2
  <2> QED
    BY <1>7, <1>8, <1>9 DEF AnyToks
<1> DEFINE no == FALSE
<1>17. no = FALSE /\ no \in BOOLEAN
  OBVIOUS
<1> HIDE DEF no
<1>18. ReadLetter(Reading(no, 0, R1), 1) = Reading(no, P(1), R2)
  <2> DEFINE m == 0
  <2>1. 1 \in 1..6 /\ ~(1 > 3) /\ h[1] \in Nat /\ m \in Nat /\ m + P(1) = P(1)
    BY <1>2
  <2> HIDE DEF R2, R3, R4, m
  <2>2. ReadLetter(Reading(no, m, Put(h, units, 1, R2)), 1) =
          Reading(no, m + Part(h, units, 1), R2)
    BY <1>14, <1>16, <1>17, <2>1, ReadsPut
  <2> QED
    BY <2>1, <2>2, Zenon DEF P, m
<1>19. ReadLetter(Reading(no, P(1), R2), 2) = Reading(no, P(1) + P(2), R3)
  <2> DEFINE m == P(1)
  <2>1. 2 \in 1..6 /\ ~(2 > 3) /\ h[2] \in Nat /\ m \in Nat
    BY <1>2
  <2> HIDE DEF R3, R4, m
  <2>2. ReadLetter(Reading(no, m, Put(h, units, 2, R3)), 2) =
          Reading(no, m + Part(h, units, 2), R3)
    BY <1>15, <1>16, <1>17, <2>1, ReadsPut
  <2> QED
    BY <2>2 DEF P, m
<1>20. ReadLetter(Reading(no, P(1) + P(2), R3), 3) = Reading(no, P(1) + P(2) + P(3), R4)
  <2> DEFINE m == P(1) + P(2)
  <2>1. 3 \in 1..6 /\ ~(3 > 3) /\ h[3] \in Nat /\ m \in Nat
    BY <1>2
  <2> HIDE DEF R4, m
  <2>2. ReadLetter(Reading(no, m, Put(h, units, 3, R4)), 3) =
          Reading(no, m + Part(h, units, 3), R4)
    BY <1>14, <1>16, <1>17, <2>1, ReadsPut
  <2> QED
    BY <2>2 DEF P, m
<1> DEFINE m3 == P(1) + P(2) + P(3)
<1>21. ReadLetter(Reading(FALSE, m3, R4), 4) = Reading(timed, m3 + P(4), T5)
  <2>1. m3 \in Nat /\ m3 + P(4) \in Nat
    BY <1>2
  <2> HIDE DEF m3
  <2>2. ASSUME NEW b \in BOOLEAN, 4 \in units => b
        PROVE  ReadLetter(Reading(b, m3, T4), 4) = Reading(b, m3 + P(4), T5)
    <3>1. 4 \in 1..6 /\ h[4] \in Nat
      OBVIOUS
    <3>2. ReadLetter(Reading(b, m3, Put(h, units, 4, T5)), 4) =
            Reading(b, m3 + Part(h, units, 4), T5)
      BY <1>11, <1>13, <2>1, <2>2, <3>1, ReadsPut
    <3> QED
      BY <3>2 DEF P, T4
  <2>3. CASE timed
    <3>1. R4 = Cons(TimeMark, T4)
      BY <2>3 DEF timed
    <3> HIDE DEF R4
    <3>2. ReadLetter(Reading(FALSE, m3, R4), 4) = ReadLetter(Reading(TRUE, m3, T4), 4)
      BY <1>11, <1>13, <3>1, DropsMark
    <3>3. timed = TRUE
      BY <1>12, <2>3
    <3> QED
      BY <2>2, <3>2, <3>3
  <2>4. CASE ~timed
    <3>1. 4 \notin units /\ 5 \notin units /\ 6 \notin units /\ units \cap 4..6 = {}
      BY <2>4 DEF timed
    <3>2. R4 = T4
      BY <3>1 DEF T4, T5, T6, Put
    <3>3. timed = FALSE
      BY <1>12, <2>4
    <3> HIDE DEF R4
    <3> QED
      BY <2>2, <3>1, <3>2, <3>3
  <2> QED
    BY <2>3, <2>4
<1>22. ReadLetter(Reading(timed, m3 + P(4), T5), 5) = Reading(timed, m3 + P(4) + P(5), T6)
  <2>1. m3 + P(4) \in Nat /\ 5 \in 1..6 /\ h[5] \in Nat
    BY <1>2
  <2> HIDE DEF m3
  <2>2. ReadLetter(Reading(timed, m3 + P(4), Put(h, units, 5, T6)), 5) =
          Reading(timed, m3 + P(4) + Part(h, units, 5), T6)
    BY <1>11, <1>12, <1>13, <2>1, ReadsPut
  <2> QED
    BY <2>2 DEF P, T5
<1>23. ReadLetter(Reading(timed, m3 + P(4) + P(5), T6), 6) =
         Reading(timed, m3 + P(4) + P(5) + P(6), <<>>)
  <2>1. m3 + P(4) + P(5) \in Nat /\ 6 \in 1..6 /\ h[6] \in Nat
    BY <1>2
  <2>2. T7 \in Seq(AnyToks) /\ Unread(6, T7) /\ (T7 = <<>> \/ Head(T7) # TimeMark)
    BY <1>11, <1>13
  <2> HIDE DEF m3, T7
  <2>3. ReadLetter(Reading(timed, m3 + P(4) + P(5), Put(h, units, 6, T7)), 6) =
          Reading(timed, m3 + P(4) + P(5) + Part(h, units, 6), T7)
    BY <1>12, <2>1, <2>2, ReadsPut
  <2> QED
    BY <2>3 DEF P, T6, T7
<1> DEFINE s6 == Reading(timed, m3 + P(4) + P(5) + P(6), <<>>)
<1>24. ISODurationToCentisec(Text(R1)) = IF s6.bad \/ s6.rest # <<>> THEN Undefined ELSE s6.sum
  <2> DEFINE s1 == Reading(no, P(1), R2)
             s2 == Reading(no, P(1) + P(2), R3)
             s3 == Reading(no, m3, R4)
             s4 == Reading(timed, m3 + P(4), T5)
             s5 == Reading(timed, m3 + P(4) + P(5), T6)
  <2> HIDE DEF R1, R2, R3, R4
  <2>1. s1 = ReadLetter(Reading(no, 0, R1), 1) /\ s2 = ReadLetter(s1, 2) /\ s3 = ReadLetter(s2, 3)
    BY <1>18, <1>19, <1>20, Zenon
  <2>2. s4 = ReadLetter(s3, 4) /\ s5 = ReadLetter(s4, 5) /\ s6 = ReadLetter(s5, 6)
    BY <1>21, <1>22, <1>23, <1>17, Zenon
  <2> HIDE DEF s1, s2, s3, s4, s5, s6
  <2> QED
    BY <1>17, <2>1, <2>2, PassUnrolled, Zenon
<1>25. s6.bad = FALSE /\ s6.rest = <<>> /\ s6.sum = m3 + P(4) + P(5) + P(6)
  BY DEF Reading
<1> HIDE DEF R1, s6
<1>26. ISODurationToCentisec(Text(Written(h, units))) = m3 + P(4) + P(5) + P(6)
  BY <1>1, <1>24, <1>25
<1> QED
  BY <1>26 DEF P, AllParts

\* A whole number in front of its letter.
LEMMA WholePart ==
  ASSUME NEW f \in Nat, NEW h, NEW units, NEW i \in 1..5, h[i] = f * Second, f > 0 => i \in units
  PROVE  Part(h, units, i) = f * Worth[i]
<1>1. (f * Second) \div Second = f
  BY DividedBack, DurationsAssumption
<1>2. Worth[i] \in Nat
  BY DurationsAssumption DEF Worth
<1>3. i # 6
  OBVIOUS
<1>4. Value(i, h[i]) = f * Worth[i]
  BY <1>1, <1>3 DEF Value
<1>5. f = 0 => f * Worth[i] = 0
  BY <1>2
<1> QED
  BY <1>4, <1>5 DEF Part

LEMMA ISODurationBack ==
  ASSUME NEW m \in Nat, NEW precise \in BOOLEAN
  PROVE  ISODurationToCentisec(centisecsToISODuration(m, precise)) = m
<1> DEFINE f == Fields(m, precise)
           some == {i \in 1..6 : f[i] > 0}
           units == IF some = {} THEN 4..6 ELSE some
           h == [i \in 1..6 |-> IF i = 6 THEN f[i] ELSE f[i] * Second]
<1>1. AddsUp(f, m) /\ \A i \in 1..6 : f[i] \in Nat
  BY FieldsOfNat
<1>2. centisecsToISODuration(m, precise) = Text(Written(h, units))
  BY DEF centisecsToISODuration
<1> HIDE DEF f
<1>3. units \in SUBSET (1..6) /\ \A i \in 1..6 : f[i] > 0 => i \in units
  OBVIOUS
<1>4. /\ \A i \in 1..6 : h[i] \in Nat
      /\ \A i \in 1..5 : h[i] = f[i] * Second
      /\ h[6] = f[6]
  <2>1. \A i \in 1..6 : f[i] * Second \in Nat
    BY <1>1, DividedBack, DurationsAssumption
  <2> QED
    BY <1>1, <2>1
<1> HIDE DEF units, h
<1>5. \A i \in 1..5 : Part(h, units, i) = f[i] * Worth[i]
  BY <1>1, <1>3, <1>4, WholePart
<1>6. Part(h, units, 6) = f[6]
  BY <1>1, <1>3, <1>4 DEF Part, Value
<1>7. AllParts(h, units) = m
  BY <1>1, <1>5, <1>6 DEF AllParts, AddsUp, Worth
<1> QED
  BY <1>2, <1>3, <1>4, <1>7, ReadsWritten

LEMMA SCORM12Back ==
  ASSUME NEW m \in Nat, m < (MaxHours + 1) * Hour
  PROVE  SCORM12DurationToCs(centisecsToSCORM12Duration(m)) = m
<1> USE DurationsAssumption
<1> DEFINE nH == m \div Hour
           afterH == m - nH * Hour
           nM == afterH \div Minute
           left == afterH - nM * Minute
<1>1. nH \in Nat /\ m = Hour * nH + (m % Hour) /\ m % Hour \in 0..(Hour - 1)
  BY Divided
<1> HIDE DEF nH
<1>2. afterH \in Nat /\ afterH + nH * Hour = m
  BY <1>1
<1>3. nH <= MaxHours
  <2>1. Hour * nH <= m
    BY <1>1
  <2>2. ASSUME nH >= MaxHours + 1 PROVE Hour * nH >= (MaxHours + 1) * Hour
    BY <1>1, <2>2
  <2> QED
    BY <1>1, <2>1, <2>2
<1> HIDE DEF afterH
<1>4. nM \in Nat /\ left + nM * Minute = afterH
  <2>1. nM \in Nat
    BY <1>2, Divided
  <2> HIDE DEF nM
  <2>2. nM * Minute \in Int
    BY <2>1
  <2> QED
    BY <1>2, <2>1, <2>2
<1> HIDE DEF nM, left
<1>5. centisecsToSCORM12Duration(m) = <<nH, nM, left>>
  <2>1. ~(nH > MaxHours)
    BY <1>1, <1>3
  <2> QED
    BY <2>1 DEF centisecsToSCORM12Duration, nH, afterH, nM, left
<1>6. SCORM12DurationToCs(<<nH, nM, left>>) = left + nM * Minute + nH * Hour
  <2>1. Len(<<nH, nM, left>>) = 3 /\ <<nH, nM, left>>[1] = nH
        /\ <<nH, nM, left>>[2] = nM /\ <<nH, nM, left>>[3] = left
    OBVIOUS
  <2> QED
    BY <2>1 DEF SCORM12DurationToCs
<1> QED
  BY <1>2, <1>4, <1>5, <1>6

---------------------------------------------------------------------------
(* secondsof *)

Sums(timed, sum) == [timed |-> timed, stuck |-> FALSE, sum |-> sum]

NoSum == Sums(FALSE, 0)

\* The states of secondsof over the first n1 words of a text.
IsSum(toks, f, n1) ==
  f = [j \in 0..n1 |-> IF j = 0 THEN NoSum ELSE AddTerm(f[j - 1], toks[j])]

LEMMA SumExists == ASSUME NEW toks, NEW n1 \in Nat PROVE \E f : IsSum(toks, f, n1)
<1> DEFINE T == {m \in Nat : \E f : IsSum(toks, f, m)}
<1>1. 0 \in T
  <2>1. IsSum(toks, [j \in 0..0 |-> NoSum], 0)
    BY DEF IsSum
  <2> QED
    BY <2>1
<1>2. ASSUME NEW m \in T PROVE m + 1 \in T
  <2>1. PICK f : IsSum(toks, f, m)
    OBVIOUS
  <2> DEFINE g == [j \in 0..(m + 1) |-> IF j <= m THEN f[j] ELSE AddTerm(f[m], toks[m + 1])]
  <2>2. ASSUME NEW j \in 0..(m + 1)
        PROVE  g[j] = IF j = 0 THEN NoSum ELSE AddTerm(g[j - 1], toks[j])
    <3>1. CASE j = 0
      BY <2>1, <3>1 DEF IsSum
    <3>2. CASE j \in 1..m
      <4>1. j - 1 \in 0..m /\ j \in 0..m
        BY <3>2
      <4>2. g[j - 1] = f[j - 1] /\ g[j] = f[j]
        BY <4>1
      <4>3. f[j] = AddTerm(f[j - 1], toks[j])
        BY <2>1, <3>2, <4>1 DEF IsSum
      <4> QED
        BY <3>2, <4>2, <4>3
    <3>3. CASE j = m + 1
      <4>1. g[j - 1] = f[m] /\ g[j] = AddTerm(f[m], toks[m + 1])
        BY <3>3
      <4> QED
        BY <3>3, <4>1
    <3> QED
      BY <3>1, <3>2, <3>3
  <2>3. IsSum(toks, g, m + 1)
    BY <2>2, Zenon DEF IsSum
  <2> QED
    BY <2>3
<1>3. T = Nat
  BY <1>1, <1>2, NatInductionOnSets
<1> QED
  BY <1>3

LEMMA SumOfText ==
  ASSUME NEW toks, Len(toks) \in Nat
  PROVE  \E f : IsSum(toks, f, Len(toks)) /\ secondsof(Text(toks)) = f[Len(toks)].sum
<1> DEFINE word == CHOOSE f : IsSum(toks, f, Len(toks))
<1>1. IsSum(toks, word, Len(toks))
  BY SumExists, Zenon
<1>2. Text(toks).toks = toks
  BY DEF Text
<1>3. secondsof([has |-> TRUE, toks |-> toks]) = word[Len(toks)].sum
  BY <1>2, Zenon DEF secondsof, IsSum, NoSum, Sums, Text
<1> QED
  BY <1>1, <1>3 DEF Text

\* Behind the first j words of a text the sum is s, and the rest is q.
At(toks, f, j, q, s) ==
  /\ j \in Nat /\ q \in Seq(AnyToks) /\ Len(toks) = j + Len(q)
  /\ \A k \in 1..Len(q) : toks[j + k] = q[k]
  /\ f[j] = s

LEMMA AtNext ==
  ASSUME NEW toks, NEW f, IsSum(toks, f, Len(toks)), NEW j, NEW s,
         NEW t \in AnyToks, NEW q \in Seq(AnyToks), At(toks, f, j, Cons(t, q), s)
  PROVE  At(toks, f, j + 1, q, AddTerm(s, t))
<1> DEFINE r == Cons(t, q)
<1>1. r[1] = t /\ Len(r) = Len(q) + 1 /\ \A k \in 1..Len(q) : r[k + 1] = q[k]
  BY ConsFacts
<1> HIDE DEF r
<1>2. /\ j \in Nat /\ Len(toks) = j + Len(r) /\ f[j] = s
      /\ \A k \in 1..Len(r) : toks[j + k] = r[k]
  BY DEF At, r
<1>3. Len(q) \in Nat
  OBVIOUS
<1>4. Len(toks) = (j + 1) + Len(q) /\ j + 1 \in 0..Len(toks) /\ j + 1 \in Nat
  BY <1>1, <1>2, <1>3
<1>5. ASSUME NEW k \in 1..Len(q) PROVE toks[(j + 1) + k] = q[k]
  <2>1. k + 1 \in 1..Len(r) /\ r[k + 1] = q[k] /\ j + (k + 1) = (j + 1) + k
    BY <1>1, <1>2, <1>3
  <2> QED
    BY <1>2, <2>1
<1>6. toks[j + 1] = t
  BY <1>1, <1>2, <1>3
<1>7. f[j + 1] = AddTerm(s, t)
  <2>1. f[j + 1] = IF j + 1 = 0 THEN NoSum ELSE AddTerm(f[(j + 1) - 1], toks[j + 1])
    BY <1>4 DEF IsSum
  <2>2. j + 1 # 0 /\ (j + 1) - 1 = j
    BY <1>2
  <2> QED
    BY <1>2, <1>6, <2>1, <2>2
<1> QED
  BY <1>4, <1>5, <1>7 DEF At

\* What a letter is worth in seconds.
Seconds(i) == Worth[i] \div Second

LEMMA AddsMark == ASSUME NEW m PROVE AddTerm(Sums(FALSE, m), TimeMark) = Sums(TRUE, m)
BY DEF AddTerm, Sums

LEMMA AddsLetter ==
  ASSUME NEW i \in 1..6, NEW timed \in BOOLEAN, timed <=> i > 3, NEW m, NEW g \in Nat,
         NEW t, t = Token(g * Second, Letters[i])
  PROVE  AddTerm(Sums(timed, m), t) = Sums(timed, m + g * Seconds(i))
<1> DEFINE s == Sums(timed, m)
           units == {u \in IF s.timed THEN 4..6 ELSE 1..3 : Letters[u] = t.u}
<1>1. s.timed = timed /\ s.stuck = FALSE /\ s.sum = m
  BY DEF Sums
<1>2. t.n = g * Second /\ t.u = Letters[i] /\ t # TimeMark
  BY SMT DEF Token, TimeMark, Letters
<1>3. units = {i}
  <2> HIDE DEF s
  <2>1. CASE timed
    <3>1. units = {u \in 4..6 : Letters[u] = Letters[i]} /\ i \in 4..6
      BY <1>1, <1>2, <2>1
    <3> QED
      BY <3>1 DEF Letters
  <2>2. CASE ~timed
    <3>1. units = {u \in 1..3 : Letters[u] = Letters[i]} /\ i \in 1..3
      BY <1>1, <1>2, <2>2
    <3> QED
      BY <3>1 DEF Letters
  <2> QED
    BY <2>1, <2>2
<1>4. Whole(t) = g /\ t.n % Second = 0
  <2>1. (g * Second) \div Second = g /\ (g * Second) % Second = 0
    BY DividedBack, DurationsAssumption
  <2> QED
    BY <1>2, <2>1, Zenon DEF Whole
<1> HIDE DEF s
<1>5. AddTerm(s, t) =
        [timed |-> s.timed, stuck |-> FALSE,
         sum |-> IF s.stuck \/ t.n % Second # 0 THEN s.sum
                 ELSE s.sum + Whole(t) * (Worth[CHOOSE u \in units : TRUE] \div Second)]
  <2>1. units # {}
    BY <1>3
  <2> QED
    BY <1>2, <2>1, Zenon DEF AddTerm
<1>6. (CHOOSE u \in units : TRUE) = i
  BY <1>3
<1> HIDE DEF units
<1>7. ~(s.stuck \/ t.n % Second # 0)
  BY <1>1, <1>4
<1>8. AddTerm(s, t) = [timed |-> timed, stuck |-> FALSE, sum |-> m + g * (Worth[i] \div Second)]
  BY <1>1, <1>4, <1>5, <1>6, <1>7, Zenon
<1> QED
  BY <1>8, Zenon DEF Sums, Seconds, s

LEMMA AtPut ==
  ASSUME NEW toks, NEW f, IsSum(toks, f, Len(toks)), NEW j, NEW m \in Nat,
         NEW i \in 1..6, NEW timed \in BOOLEAN, NEW units,
         i \in units => (timed <=> i > 3), NEW h, NEW g \in Nat, h[i] = g * Second, g > 0 => i \in units,
         NEW q \in Seq(AnyToks), At(toks, f, j, Put(h, units, i, q), Sums(timed, m))
  PROVE  \E j1 : At(toks, f, j1, q, Sums(timed, m + g * Seconds(i)))
<1>1. CASE i \in units
  <2> DEFINE t == Token(h[i], Letters[i])
  <2>1. t \in AnyToks
    <3>1. h[i] \in Nat
      BY DividedBack, DurationsAssumption
    <3>2. Letters[i] \in {"Y", "M", "D", "H", "S", "T"}
      BY DEF Letters
    <3> QED
      BY <3>1, <3>2 DEF Token, Toks, AnyToks
  <2>2. Put(h, units, i, q) = Cons(t, q) /\ t = Token(g * Second, Letters[i])
    BY <1>1 DEF Put
  <2> HIDE DEF t
  <2>3. AddTerm(Sums(timed, m), t) = Sums(timed, m + g * Seconds(i))
    BY <1>1, <2>2, AddsLetter
  <2>4. At(toks, f, j + 1, q, AddTerm(Sums(timed, m), t))
    BY <2>1, <2>2, AtNext
  <2> QED
    BY <2>3, <2>4
<1>2. CASE i \notin units
  <2>1. Put(h, units, i, q) = q
    BY <1>2 DEF Put
  <2>2. g = 0
    BY <1>2
  <2>3. Seconds(i) \in Int
    <3>1. Worth[i] \in Nat /\ Second \in Nat \ {0}
      BY DurationsAssumption DEF Worth
    <3> QED
      BY <3>1 DEF Seconds
  <2>4. m + g * Seconds(i) = m
    BY <2>2, <2>3
  <2> QED
    BY <2>1, <2>4
<1> QED
  BY <1>1, <1>2

LEMMA SumsWritten ==
  ASSUME NEW g, \A i \in 1..6 : g[i] \in Nat,
         NEW h, \A i \in 1..6 : h[i] = g[i] * Second,
         NEW units \in SUBSET (1..6), \A i \in 1..6 : g[i] > 0 => i \in units
  PROVE  secondsof(Text(Written(h, units))) =
           g[1] * Seconds(1) + g[2] * Seconds(2) + g[3] * Seconds(3)
             + g[4] * Seconds(4) + g[5] * Seconds(5) + g[6] * Seconds(6)
<1> DEFINE T7 == <<>>
           T6 == Put(h, units, 6, T7)
           T5 == Put(h, units, 5, T6)
           T4 == Put(h, units, 4, T5)
           R4 == IF units \cap 4..6 = {} THEN T7 ELSE Cons(TimeMark, T4)
           R3 == Put(h, units, 3, R4)
           R2 == Put(h, units, 2, R3)
           R1 == Put(h, units, 1, R2)
           toks == Written(h, units)
           N(i) == g[i] * Seconds(i)
<1>1. toks = R1
  BY DEF Written
<1>2. \A i \in 1..6 : h[i] \in Nat /\ N(i) \in Nat
  <2>1. ASSUME NEW i \in 1..6 PROVE Seconds(i) \in Nat
    <3>1. Worth[i] \in Nat /\ Second \in Nat \ {0}
      BY DurationsAssumption DEF Worth
    <3> QED
      BY <3>1, Divided DEF Seconds
  <2>2. ASSUME NEW i \in 1..6 PROVE h[i] \in Nat
    <3>1. g[i] \in Nat /\ Second \in Nat \ {0} /\ h[i] = g[i] * Second
      BY DurationsAssumption
    <3>2. g[i] * Second \in Nat
      BY <3>1, DividedBack
    <3> QED
      BY <3>1, <3>2
  <2>3. ASSUME NEW a \in Nat, NEW b \in Nat PROVE a * b \in Nat
    OBVIOUS
  <2> QED
    BY <2>1, <2>2, <2>3
<1>3. ASSUME NEW i \in 1..6, NEW q \in Seq(AnyToks) PROVE Put(h, units, i, q) \in Seq(AnyToks)
  <2> DEFINE L == {"Y", "M", "D", "H", "S", "T"}
  <2>1. Letters[i] \in L
    BY DEF Letters
  <2>2. AnyToks = Toks(L)
    BY DEF AnyToks
  <2>3. h[i] \in Nat
    BY <1>2
  <2> HIDE DEF L
  <2> QED
    BY <2>1, <2>2, <2>3, PutTyped
<1>4. T7 \in Seq(AnyToks)
  OBVIOUS
<1> HIDE DEF T7
<1>5. T6 \in Seq(AnyToks)
  BY <1>3, <1>4, 6 \in 1..6
<1> HIDE DEF T6
<1>6. T5 \in Seq(AnyToks)
  BY <1>3, <1>5, 5 \in 1..6
<1> HIDE DEF T5
<1>7. T4 \in Seq(AnyToks)
  BY <1>3, <1>6, 4 \in 1..6
<1> HIDE DEF T4
<1>8. TimeMark \in AnyToks
  BY DEF TimeMark, Token, AnyToks, Toks
<1>9. R4 \in Seq(AnyToks)
  BY <1>4, <1>7, <1>8, ConsFacts
<1> HIDE DEF R4
<1>10. R3 \in Seq(AnyToks)
  BY <1>3, <1>9, 3 \in 1..6
<1> HIDE DEF R3
<1>11. R2 \in Seq(AnyToks)
  BY <1>3, <1>10, 2 \in 1..6
<1> HIDE DEF R2
<1>12. R1 \in Seq(AnyToks)
  BY <1>3, <1>11, 1 \in 1..6
<1> HIDE DEF R1, toks
<1>13. PICK f : IsSum(toks, f, Len(toks)) /\ secondsof(Text(toks)) = f[Len(toks)].sum
  <2>1. Len(toks) \in Nat
    BY <1>1, <1>12
  <2> QED
    BY <2>1, SumOfText
<1> DEFINE no == FALSE
           m0 == 0
           m1 == m0 + N(1)
           m2 == m1 + N(2)
           m3 == m2 + N(3)
           m4 == m3 + N(4)
           m5 == m4 + N(5)
           m6 == m5 + N(6)
<1> HIDE DEF N
<1>14. /\ m0 \in Nat /\ m1 \in Nat /\ m2 \in Nat /\ m3 \in Nat
       /\ m4 \in Nat /\ m5 \in Nat /\ m6 \in Nat
  BY <1>2
<1> HIDE DEF m0, m1, m2, m3, m4, m5, m6
<1>15. At(toks, f, 0, R1, Sums(no, m0))
  <2>1. Len(R1) \in Nat /\ Len(toks) = 0 + Len(R1) /\ \A k \in 1..Len(R1) : toks[0 + k] = R1[k]
    BY <1>1, <1>12
  <2>2. f[0] = NoSum
    BY <1>13, <1>1, <2>1 DEF IsSum
  <2>3. f[0] = Sums(no, m0)
    BY <2>2 DEF NoSum, m0
  <2> QED
    BY <1>12, <2>1, <2>3 DEF At
<1>16. no \in BOOLEAN /\ ~no
  OBVIOUS
<1> HIDE DEF no
<1>17. ASSUME NEW i \in 1..3, NEW q \in Seq(AnyToks), NEW m \in Nat,
              NEW j, At(toks, f, j, Put(h, units, i, q), Sums(no, m))
       PROVE  \E x : At(toks, f, x, q, Sums(no, m + N(i)))
  <2>1. i \in 1..6 /\ ~(i > 3) /\ g[i] \in Nat /\ h[i] = g[i] * Second /\ (g[i] > 0 => i \in units)
    OBVIOUS
  <2>2. i \in units => (no <=> i > 3)
    BY <1>16, <2>1
  <2>3. \E x : At(toks, f, x, q, Sums(no, m + g[i] * Seconds(i)))
    BY <1>13, <1>16, <1>17, <2>1, <2>2, AtPut
  <2> QED
    BY <2>3, Zenon DEF N
<1>18. \E j : At(toks, f, j, R2, Sums(no, m1))
  BY <1>11, <1>14, <1>15, <1>17, 1 \in 1..3 DEF R1, m1
<1>19. \E j : At(toks, f, j, R3, Sums(no, m2))
  BY <1>10, <1>14, <1>18, <1>17, 2 \in 1..3 DEF R2, m2
<1>20. \E j : At(toks, f, j, R4, Sums(no, m3))
  BY <1>9, <1>14, <1>19, <1>17, 3 \in 1..3 DEF R3, m3
<1>21. PICK timed \in BOOLEAN : /\ \A i \in 4..6 : i \in units => timed
                                /\ \E j : At(toks, f, j, T4, Sums(timed, m3))
  <2>1. CASE units \cap 4..6 = {}
    <3>1. R4 = T4
      BY <2>1 DEF R4, T4, T5, T6, Put
    <3>2. \A i \in 4..6 : i \in units => no
      BY <2>1
    <3> QED
      BY <1>16, <1>20, <3>1, <3>2
  <2>2. CASE units \cap 4..6 # {}
    <3>1. PICK j : At(toks, f, j, R4, Sums(no, m3))
      BY <1>20
    <3>2. R4 = Cons(TimeMark, T4)
      BY <2>2 DEF R4
    <3>3. At(toks, f, j + 1, T4, AddTerm(Sums(no, m3), TimeMark))
      BY <1>7, <1>8, <1>13, <3>1, <3>2, AtNext
    <3>4. AddTerm(Sums(no, m3), TimeMark) = Sums(TRUE, m3)
      BY AddsMark, Zenon DEF no
    <3>5. \E x : At(toks, f, x, T4, Sums(TRUE, m3))
      BY <3>3, <3>4
    <3>6. TRUE \in BOOLEAN /\ \A i \in 4..6 : i \in units => TRUE
      OBVIOUS
    <3> QED
      BY <3>5, <3>6, Zenon
  <2> QED
    BY <2>1, <2>2
<1>22. ASSUME NEW i \in 4..6, NEW q \in Seq(AnyToks), NEW m \in Nat,
              NEW j, At(toks, f, j, Put(h, units, i, q), Sums(timed, m))
       PROVE  \E x : At(toks, f, x, q, Sums(timed, m + N(i)))
  <2>1. i \in 1..6 /\ i > 3 /\ g[i] \in Nat /\ h[i] = g[i] * Second /\ (g[i] > 0 => i \in units)
    OBVIOUS
  <2>2. i \in units => (timed <=> i > 3)
    BY <1>21, <2>1
  <2>3. \E x : At(toks, f, x, q, Sums(timed, m + g[i] * Seconds(i)))
    BY <1>13, <1>22, <2>1, <2>2, AtPut
  <2> QED
    BY <2>3, Zenon DEF N
<1>23. \E j : At(toks, f, j, T5, Sums(timed, m4))
  BY <1>6, <1>14, <1>21, <1>22, 4 \in 4..6 DEF T4, m4
<1>24. \E j : At(toks, f, j, T6, Sums(timed, m5))
  BY <1>5, <1>14, <1>23, <1>22, 5 \in 4..6 DEF T5, m5
<1>25. \E j : At(toks, f, j, T7, Sums(timed, m6))
  BY <1>4, <1>14, <1>24, <1>22, 6 \in 4..6 DEF T6, m6
<1>26. f[Len(toks)] = Sums(timed, m6)
  <2>1. PICK j : At(toks, f, j, T7, Sums(timed, m6))
    BY <1>25
  <2>2. j \in Nat /\ Len(toks) = j + Len(T7) /\ Len(T7) = 0 /\ f[j] = Sums(timed, m6)
    BY <2>1 DEF At, T7
  <2>3. Len(toks) = j
    BY <2>2
  <2> QED
    BY <2>2, <2>3
<1>27. m6 = N(1) + N(2) + N(3) + N(4) + N(5) + N(6)
  BY <1>2 DEF m6, m5, m4, m3, m2, m1, m0
<1> QED
  BY <1>13, <1>26, <1>27 DEF Sums, N, toks

---------------------------------------------------------------------------
(* Intervals of the sync messages *)

LEMMA WholeDivided ==
  ASSUME NEW m \in Nat, NEW unit \in Nat \ {0}, m % unit = 0
  PROVE  m = unit * (m \div unit) /\ m \div unit \in Nat /\ (m > 0 => m \div unit \in Nat \ {0})
<1> DEFINE q == m \div unit
<1>1. m = unit * q + (m % unit) /\ q \in Nat
  BY Divided
<1> HIDE DEF q
<1>2. m = unit * q
  BY <1>1
<1>3. q = 0 => m = 0
  BY <1>2
<1> QED
  BY <1>1, <1>2, <1>3 DEF q

LEMMA DividedNat ==
  ASSUME NEW m \in Nat, NEW unit \in Nat \ {0}
  PROVE  m \div unit \in Nat /\ m % unit \in Nat /\ m = unit * (m \div unit) + (m % unit)
<1> DEFINE q == m \div unit
           r == m % unit
<1>1. m = unit * q + r /\ q \in Nat /\ r \in 0..(unit - 1)
  BY Divided
<1> HIDE DEF q, r
<1>2. r \in Nat
  BY <1>1
<1> QED
  BY <1>1, <1>2 DEF q, r

LEMMA IntervalBack ==
  ASSUME NEW m \in Nat, m % Second = 0
  PROVE  /\ secondsof(humaninterval(m \div Second)) = m \div Second
         /\ ISODurationToCentisec(humaninterval(m \div Second)) = m
<1> DEFINE k == m \div Second
           HS == Hour \div Second
           MS == Minute \div Second
           PD == Day \div Hour
           hours == k \div HS
           rest == k % HS
           g == <<0, 0, hours \div PD, hours % PD, rest \div MS, rest % MS>>
           h == [i \in 1..6 |-> g[i] * Second]
           units == IF k = 0 THEN {6} ELSE {i \in 1..6 : g[i] # 0}
<1>1. /\ Second \in Nat \ {0} /\ Minute \in Nat \ {0} /\ Hour \in Nat \ {0} /\ Day \in Nat \ {0}
      /\ Minute % Second = 0 /\ Hour % Second = 0 /\ Day % Hour = 0
  BY DurationsAssumption
<1>2. k \in Nat /\ m = Second * k
  BY <1>1, WholeDivided
<1> HIDE DEF k
<1>3. HS \in Nat \ {0} /\ Hour = Second * HS
  BY <1>1, WholeDivided
<1>4. MS \in Nat \ {0} /\ Minute = Second * MS
  BY <1>1, WholeDivided
<1>5. PD \in Nat \ {0} /\ Day = Hour * PD
  BY <1>1, WholeDivided
<1> HIDE DEF HS, MS, PD
<1>6. hours \in Nat /\ rest \in Nat /\ k = HS * hours + rest
  BY <1>2, <1>3, DividedNat
<1> HIDE DEF hours, rest
<1> DEFINE d == hours \div PD
           e == hours % PD
           a == rest \div MS
           c == rest % MS
<1>7. d \in Nat /\ e \in Nat /\ hours = PD * d + e
  BY <1>5, <1>6, DividedNat
<1>8. a \in Nat /\ c \in Nat /\ rest = MS * a + c
  BY <1>4, <1>6, DividedNat
<1>9. g[1] = 0 /\ g[2] = 0 /\ g[3] = d /\ g[4] = e /\ g[5] = a /\ g[6] = c
  OBVIOUS
<1>10. humaninterval(k) = Text(Written(h, units))
  <2>1. (k >= 0) = TRUE /\ ~(k < 0)
    BY <1>2
  <2> QED
    BY <2>1, Zenon DEF humaninterval, Text, HS, MS, PD, hours, rest
<1> HIDE DEF d, e, a, c, g
<1>11. \A i \in 1..6 : g[i] \in Nat
  BY <1>7, <1>8, <1>9
<1>12. \A i \in 1..6 : h[i] \in Nat /\ h[i] = g[i] * Second
  BY <1>1, <1>11, DividedBack
<1>13. k = 0 => \A i \in 1..6 : g[i] = 0
  <2>1. ASSUME k = 0 PROVE hours = 0 /\ rest = 0
    <3>1. HS * hours + rest = 0
      BY <1>6, <2>1
    <3>2. ASSUME hours >= 1 PROVE HS * hours >= HS
      BY <1>3, <1>6, <3>2
    <3>3. HS * hours \in Nat
      BY <1>3, <1>6
    <3> QED
      BY <1>3, <1>6, <3>1, <3>2, <3>3
  <2>2. ASSUME hours = 0 PROVE d = 0 /\ e = 0
    <3>1. PD * d + e = 0 /\ PD * d \in Nat
      BY <1>5, <1>7, <2>2
    <3>2. ASSUME d >= 1 PROVE PD * d >= PD
      BY <1>5, <1>7, <3>2
    <3> QED
      BY <1>5, <1>7, <3>1, <3>2
  <2>3. ASSUME rest = 0 PROVE a = 0 /\ c = 0
    <3>1. MS * a + c = 0 /\ MS * a \in Nat
      BY <1>4, <1>8, <2>3
    <3>2. ASSUME a >= 1 PROVE MS * a >= MS
      BY <1>4, <1>8, <3>2
    <3> QED
      BY <1>4, <1>8, <3>1, <3>2
  <2> QED
    BY <1>9, <2>1, <2>2, <2>3
<1>14. units \in SUBSET (1..6) /\ units \in SUBSET (3..6) /\ \A i \in 1..6 : g[i] > 0 => i \in units
  BY <1>9, <1>11, <1>13
<1> HIDE DEF h, units
<1>15. secondsof(humaninterval(k)) = k
  <2>1. Seconds(6) = 1 /\ Seconds(5) = MS /\ Seconds(4) = HS /\ Seconds(3) = PD * HS
    <3>1. Second \div Second = 1
      <4>1. (1 * Second) \div Second = 1 /\ 1 * Second = Second
        BY <1>1, DividedBack
      <4> QED
        BY <4>1
    <3>2. Day \div Second = PD * HS
      <4>1. PD * HS \in Nat /\ Day = (PD * HS) * Second
        BY <1>1, <1>3, <1>5
      <4> QED
        BY <1>1, <4>1, DividedBack
    <3> QED
      BY <3>1, <3>2 DEF Seconds, Worth, HS, MS
  <2>2. secondsof(Text(Written(h, units))) =
          g[1] * Seconds(1) + g[2] * Seconds(2) + g[3] * Seconds(3)
            + g[4] * Seconds(4) + g[5] * Seconds(5) + g[6] * Seconds(6)
    BY <1>11, <1>12, <1>14, SumsWritten
  <2>3. d * (PD * HS) + e * HS + a * MS + c * 1 = k
    <3>1. d * (PD * HS) + e * HS = (PD * d + e) * HS
      BY <1>3, <1>5, <1>7
    <3>2. hours * HS = HS * hours /\ a * MS = MS * a /\ c * 1 = c
      BY <1>3, <1>4, <1>6, <1>8
    <3>3. (PD * d + e) * HS = hours * HS
      BY <1>7
    <3>4. /\ d * (PD * HS) \in Nat /\ e * HS \in Nat /\ a * MS \in Nat
          /\ hours * HS \in Nat
      <4>1. ASSUME NEW x \in Nat, NEW y \in Nat PROVE x * y \in Nat
        OBVIOUS
      <4>2. PD * HS \in Nat
        BY <1>3, <1>5, <4>1
      <4> QED
        BY <1>3, <1>4, <1>6, <1>7, <1>8, <4>1, <4>2
    <3> QED
      BY <1>6, <1>8, <3>1, <3>2, <3>3, <3>4
  <2>4. g[1] * Seconds(1) = 0 /\ g[2] * Seconds(2) = 0
    <3>1. Year \div Second \in Nat /\ Month \div Second \in Nat
      BY DurationsAssumption, DividedNat
    <3> QED
      BY <1>9, <3>1 DEF Seconds, Worth
  <2>5. d * (PD * HS) \in Int
    BY <1>3, <1>5, <1>7
  <2> QED
    BY <1>9, <1>10, <2>1, <2>2, <2>3, <2>4, <2>5
<1>16. ISODurationToCentisec(humaninterval(k)) = m
  <2>1. ISODurationToCentisec(Text(Written(h, units))) = AllParts(h, units)
    BY <1>12, <1>14, ReadsWritten
  <2>2. \A i \in 1..5 : Part(h, units, i) = g[i] * Worth[i]
    BY <1>11, <1>12, <1>14, WholePart
  <2>3. Part(h, units, 6) = g[6] * Second
    <3>1. g[6] = 0 => g[6] * Second = 0
      BY <1>1
    <3> QED
      BY <1>11, <1>12, <1>14, <3>1 DEF Part, Value
  <2>4. AllParts(h, units) = d * Day + e * Hour + a * Minute + c * Second
    <3>1. /\ Part(h, units, 1) = 0 /\ Part(h, units, 2) = 0 /\ Part(h, units, 3) = d * Day
          /\ Part(h, units, 4) = e * Hour /\ Part(h, units, 5) = a * Minute
      <4>1. Year \in Nat /\ Month \in Nat
        BY DurationsAssumption
      <4> QED
        BY <1>9, <2>2, <4>1 DEF Worth
    <3>2. d * Day \in Nat /\ e * Hour \in Nat /\ a * Minute \in Nat /\ c * Second \in Nat
      BY <1>1, <1>7, <1>8, DividedBack
    <3> QED
      BY <1>9, <2>3, <3>1, <3>2 DEF AllParts
  <2>5. d * Day + e * Hour + a * Minute + c * Second = m
    <3>1. d * Day + e * Hour = hours * Hour
      <4>1. d * (Hour * PD) + e * Hour = (PD * d + e) * Hour
        BY <1>1, <1>5, <1>7
      <4> QED
        BY <1>5, <1>7, <4>1
    <3>2. a * Minute + c * Second = rest * Second
      <4>1. a * (Second * MS) + c * Second = (MS * a + c) * Second
        BY <1>1, <1>4, <1>8
      <4> QED
        BY <1>4, <1>8, <4>1
    <3>3. hours * Hour + rest * Second = m
      <4>1. hours * (Second * HS) + rest * Second = Second * (HS * hours + rest)
        BY <1>1, <1>3, <1>6
      <4> QED
        BY <1>2, <1>3, <1>6, <4>1
    <3>4. d * Day \in Nat /\ e * Hour \in Nat /\ a * Minute \in Nat /\ c * Second \in Nat
      BY <1>1, <1>7, <1>8, DividedBack
    <3> QED
      BY <3>1, <3>2, <3>3, <3>4
  <2> QED
    BY <1>10, <2>1, <2>4, <2>5
<1> QED
  BY <1>15, <1>16 DEF k

\* What a length of time is written as is read back as that length, for every choice of the
\* units that DurationsAssumption allows: by ISODurationToCentisec from centisecsToISODuration
\* and from the intervals of lib/geoul.sh, by secondsof from these, and by SCORM12DurationToCs
\* as far as the format's hours go.
THEOREM TimesDurationReadsBack == Spec => []DurationReadsBack
<1>1. Typed => DurationReadsBack
  <2> SUFFICES ASSUME Typed PROVE DurationReadsBack
    OBVIOUS
  <2>1. n \in Nat
    BY DEF Typed
  <2>2. \A precise \in BOOLEAN : ISODurationToCentisec(centisecsToISODuration(n, precise)) = n
    BY <2>1, ISODurationBack
  <2>3. n < (MaxHours + 1) * Hour => SCORM12DurationToCs(centisecsToSCORM12Duration(n)) = n
    BY <2>1, SCORM12Back
  <2>4. n % Second = 0 => /\ secondsof(humaninterval(n \div Second)) = n \div Second
                          /\ ISODurationToCentisec(humaninterval(n \div Second)) = n
    BY <2>1, IntervalBack
  <2> QED
    BY <2>2, <2>3, <2>4, Zenon DEF DurationReadsBack
<1> QED
  BY <1>1, AlwaysTyped, PTL

---------------------------------------------------------------------------
(* Texts that somebody types *)

TextTyped == text.toks \in Seq(AnyToks) /\ text = Text(text.toks)

LEMMA AlwaysTextTyped == Spec => []TextTyped
<1>1. Init => TextTyped
  <2> SUFFICES ASSUME Init PROVE TextTyped
    OBVIOUS
  <2>1. text = Text(<<>>) /\ <<>> \in Seq(AnyToks) /\ Text(<<>>).toks = <<>>
    BY DEF Init, Text
  <2> QED
    BY <2>1 DEF TextTyped
<1>2. TextTyped /\ [Next]_vars => TextTyped'
  <2> SUFFICES ASSUME TextTyped, [Next]_vars PROVE TextTyped'
    OBVIOUS
  <2>1. CASE text' = text
    BY <2>1 DEF TextTyped
  <2>2. ASSUME NEW token \in Tokens, Type(token) PROVE TextTyped'
    <3>1. token \in AnyToks
      <4>1. \A k \in Numbers : k * Second \in Nat
        BY TimeTextsAssumption, DurationsAssumption
      <4> QED
        BY <4>1 DEF Tokens, TimeMark, Token, AnyToks, Toks
    <3>2. Append(text.toks, token) \in Seq(AnyToks)
      BY <3>1 DEF TextTyped
    <3>3. text' = Text(Append(text.toks, token))
      BY <2>2 DEF Type
    <3>4. text'.toks = Append(text.toks, token)
      BY <3>3 DEF Text
    <3> QED
      BY <3>2, <3>3, <3>4 DEF TextTyped
  <2> QED
    BY <2>1, <2>2 DEF Next, Pass, vars
<1> QED
  BY <1>1, <1>2, PTL DEF Spec

\* The letter of a number tells its place, on its side of the T.
LEMMA PlaceRight ==
  ASSUME NEW toks, NEW j, Place(toks, j) # 0
  PROVE  /\ Place(toks, j) \in IF Timed(toks, j) THEN 4..6 ELSE 1..3
         /\ Letters[Place(toks, j)] = toks[j].u
BY DEF Place

\* The letters of a text and its T, in the order in which they come.
Slot(toks, j) ==
  IF toks[j] = TimeMark THEN 4 ELSE IF Place(toks, j) <= 3 THEN Place(toks, j) ELSE Place(toks, j) + 1

LEMMA SlotsGrow ==
  ASSUME NEW toks \in Seq(AnyToks), WellFormed(toks)
  PROVE  /\ \A j \in 1..Len(toks) : Slot(toks, j) \in 1..7
         /\ \A j, k \in 1..Len(toks) : j < k => Slot(toks, j) < Slot(toks, k)
<1>1. DOMAIN toks = 1..Len(toks) /\ Len(toks) \in Nat
  OBVIOUS
<1>2. /\ \A j \in 1..Len(toks) : toks[j] = TimeMark => ~Timed(toks, j)
      /\ \A j \in 1..Len(toks) : toks[j] # TimeMark => Place(toks, j) # 0
      /\ \A j, k \in 1..Len(toks) :
           toks[j] # TimeMark /\ toks[k] # TimeMark /\ j < k => Place(toks, j) < Place(toks, k)
  BY <1>1 DEF WellFormed, NumbersOf
<1>3. \A j \in 1..Len(toks) :
        toks[j] # TimeMark => Place(toks, j) \in IF Timed(toks, j) THEN 4..6 ELSE 1..3
  BY <1>2, PlaceRight
<1>4. ASSUME NEW j \in 1..Len(toks) PROVE Slot(toks, j) \in 1..7
  BY <1>3 DEF Slot
<1>5. ASSUME NEW j \in 1..Len(toks), NEW k \in 1..Len(toks), j < k
      PROVE  Slot(toks, j) < Slot(toks, k)
  <2>1. toks[j] = TimeMark => Timed(toks, k)
    BY <1>5 DEF Timed
  <2>2. Timed(toks, j) => Timed(toks, k)
    <3>1. ASSUME NEW m \in 1..(j - 1) PROVE m \in 1..(k - 1)
      BY <1>1, <1>5
    <3> QED
      BY <3>1 DEF Timed
  <2>3. CASE toks[j] = TimeMark
    <3>1. toks[k] # TimeMark /\ Place(toks, k) \in 4..6
      BY <1>2, <1>3, <2>1, <2>3
    <3> QED
      BY <2>3, <3>1 DEF Slot
  <2>4. CASE toks[j] # TimeMark /\ toks[k] = TimeMark
    <3>1. Place(toks, j) \in 1..3
      BY <1>2, <1>3, <2>2, <2>4
    <3> QED
      BY <2>4, <3>1 DEF Slot
  <2>5. CASE toks[j] # TimeMark /\ toks[k] # TimeMark
    <3>1. Place(toks, j) \in 1..6 /\ Place(toks, k) \in 1..6
      BY <1>3, <2>5
    <3>2. Place(toks, j) < Place(toks, k)
      BY <1>2, <1>5, <2>5
    <3> QED
      BY <2>5, <3>1, <3>2 DEF Slot
  <2> QED
    BY <2>3, <2>4, <2>5
<1> QED
  BY <1>4, <1>5

\* What is left behind the first j.
Behind(toks, j) == SubSeq(toks, j + 1, Len(toks))

LEMMA BehindNext ==
  ASSUME NEW S, NEW toks \in Seq(S), NEW j \in 0..(Len(toks) - 1)
  PROVE  Behind(toks, j) = Cons(toks[j + 1], Behind(toks, j + 1))
<1> DEFINE a == Behind(toks, j)
           q == Behind(toks, j + 1)
           t == toks[j + 1]
           b == Cons(t, q)
<1>1. Len(toks) \in Nat /\ j \in Nat /\ t \in S
  OBVIOUS
<1>2. a \in Seq(S) /\ Len(a) = Len(toks) - j /\ \A k \in 1..Len(a) : a[k] = toks[j + k]
  BY <1>1 DEF Behind
<1>3. q \in Seq(S) /\ Len(q) = Len(toks) - j - 1 /\ \A k \in 1..Len(q) : q[k] = toks[j + 1 + k]
  BY <1>1 DEF Behind
<1> HIDE DEF a, q, t
<1>4. b \in Seq(S) /\ Len(b) = Len(q) + 1 /\ b[1] = t
      /\ \A k \in 1..Len(q) : b[k + 1] = q[k]
  <2>1. t \in S /\ q \in Seq(S)
    BY <1>1, <1>3
  <2> QED
    BY <2>1, ConsFacts
<1> HIDE DEF b
<1>5. Len(a) = Len(b)
  BY <1>1, <1>2, <1>3, <1>4
<1>6. ASSUME NEW k \in 1..Len(a) PROVE a[k] = b[k]
  <2>1. CASE k = 1
    BY <1>2, <1>4, <2>1 DEF t
  <2>2. CASE k > 1
    <3>1. k - 1 \in 1..Len(q) /\ j + 1 + (k - 1) = j + k /\ (k - 1) + 1 = k
      BY <1>1, <1>2, <1>3, <2>2
    <3>2. b[(k - 1) + 1] = q[k - 1] /\ q[k - 1] = toks[j + 1 + (k - 1)]
      BY <1>3, <1>4, <3>1
    <3> QED
      BY <1>2, <3>1, <3>2
  <2> QED
    BY <1>2, <2>1, <2>2
<1>7. a = b
  BY <1>2, <1>4, <1>5, <1>6
<1> QED
  BY <1>7 DEF a, b, q, t

\* The first j letters of a text are those before s.
CutAt(toks, s, j) ==
  /\ j \in 0..Len(toks)
  /\ \A k \in 1..j : Slot(toks, k) < s
  /\ \A k \in (j + 1)..Len(toks) : Slot(toks, k) >= s

LEMMA CutNext ==
  ASSUME NEW toks \in Seq(AnyToks), WellFormed(toks), NEW s \in 1..7, NEW j, CutAt(toks, s, j)
  PROVE  \/ /\ \A k \in 1..Len(toks) : Slot(toks, k) # s
            /\ CutAt(toks, s + 1, j)
         \/ /\ j + 1 \in 1..Len(toks) /\ Slot(toks, j + 1) = s
            /\ CutAt(toks, s + 1, j + 1)
            /\ Behind(toks, j) = Cons(toks[j + 1], Behind(toks, j + 1))
<1>1. Len(toks) \in Nat /\ j \in Nat /\ j <= Len(toks)
  BY DEF CutAt
<1>2. /\ \A k \in 1..Len(toks) : Slot(toks, k) \in 1..7
      /\ \A k, l \in 1..Len(toks) : k < l => Slot(toks, k) < Slot(toks, l)
  BY SlotsGrow
<1>3. CASE j + 1 <= Len(toks) /\ Slot(toks, j + 1) = s
  <2>1. j + 1 \in 1..Len(toks) /\ j \in 0..(Len(toks) - 1)
    BY <1>1, <1>3
  <2>2. ASSUME NEW k \in 1..(j + 1) PROVE Slot(toks, k) < s + 1
    <3>1. CASE k \in 1..j
      <4>1. Slot(toks, k) < s /\ k \in 1..Len(toks)
        BY <1>1, <3>1 DEF CutAt
      <4> QED
        BY <1>2, <4>1
    <3>2. CASE k = j + 1
      BY <1>3, <3>2
    <3> QED
      BY <1>1, <3>1, <3>2
  <2>3. ASSUME NEW k \in ((j + 1) + 1)..Len(toks) PROVE Slot(toks, k) >= s + 1
    <3>1. j + 1 < k /\ k \in 1..Len(toks)
      BY <1>1
    <3>2. Slot(toks, j + 1) < Slot(toks, k) /\ Slot(toks, k) \in 1..7
      BY <1>2, <2>1, <3>1
    <3> QED
      BY <1>3, <3>2
  <2>4. CutAt(toks, s + 1, j + 1)
    BY <1>1, <2>1, <2>2, <2>3 DEF CutAt
  <2> QED
    BY <1>3, <2>1, <2>4, BehindNext
<1>4. CASE ~(j + 1 <= Len(toks) /\ Slot(toks, j + 1) = s)
  <2>1. ASSUME NEW k \in (j + 1)..Len(toks) PROVE Slot(toks, k) >= s + 1
    <3>1. k \in 1..Len(toks) /\ j + 1 \in 1..Len(toks)
      BY <1>1
    <3>2. Slot(toks, j + 1) >= s /\ Slot(toks, j + 1) # s /\ Slot(toks, j + 1) \in 1..7
      BY <1>1, <1>2, <1>4, <3>1 DEF CutAt
    <3>3. k = j + 1 \/ Slot(toks, j + 1) < Slot(toks, k)
      BY <1>1, <1>2, <3>1
    <3>4. Slot(toks, k) \in 1..7
      BY <1>2, <3>1
    <3> QED
      BY <3>2, <3>3, <3>4
  <2>2. ASSUME NEW k \in 1..j PROVE Slot(toks, k) < s /\ Slot(toks, k) \in 1..7
    BY <1>1, <1>2 DEF CutAt
  <2>3. CutAt(toks, s + 1, j)
    <3>1. \A k \in 1..j : Slot(toks, k) < s + 1
      BY <2>2
    <3> QED
      BY <1>1, <2>1, <3>1 DEF CutAt
  <2>4. ASSUME NEW k \in 1..Len(toks) PROVE Slot(toks, k) # s
    <3>1. k \in 1..j \/ k \in (j + 1)..Len(toks)
      BY <1>1
    <3>2. Slot(toks, k) \in 1..7
      BY <1>2
    <3> QED
      BY <2>1, <2>2, <3>1, <3>2
  <2> QED
    BY <2>3, <2>4
<1> QED
  BY <1>3, <1>4

\* The units of a text and their numbers.
UnitAt(toks, i, j) == j \in NumbersOf(toks) /\ Place(toks, j) = i
UnitsOf(toks) == {i \in 1..6 : \E j \in NumbersOf(toks) : Place(toks, j) = i}
NumberAt(toks, i) == CHOOSE j \in {j \in NumbersOf(toks) : Place(toks, j) = i} : TRUE
CountsOf(toks) == [i \in 1..6 |-> IF i \in UnitsOf(toks) THEN toks[NumberAt(toks, i)].n ELSE 0]

LEMMA UnitFound ==
  ASSUME NEW toks \in Seq(AnyToks), WellFormed(toks), NEW i \in UnitsOf(toks)
  PROVE  /\ NumberAt(toks, i) \in NumbersOf(toks) /\ NumberAt(toks, i) \in 1..Len(toks)
         /\ Place(toks, NumberAt(toks, i)) = i
         /\ CountsOf(toks)[i] = toks[NumberAt(toks, i)].n
         /\ toks[NumberAt(toks, i)] = Token(CountsOf(toks)[i], Letters[i])
         /\ CountsOf(toks)[i] \in Nat
         /\ i # 6 => CountsOf(toks)[i] % Second = 0
<1> DEFINE at == {j \in NumbersOf(toks) : Place(toks, j) = i}
           j == NumberAt(toks, i)
<1>1. i \in 1..6 /\ at # {}
  BY DEF UnitsOf
<1>2. j \in at
  BY <1>1 DEF NumberAt
<1> HIDE DEF j
<1>3. j \in NumbersOf(toks) /\ Place(toks, j) = i /\ j \in 1..Len(toks)
  BY <1>2 DEF NumbersOf
<1> HIDE DEF at
<1>4. CountsOf(toks)[i] = toks[j].n
  BY <1>1 DEF CountsOf, j
<1>5. toks[j] \in AnyToks
  BY <1>3
<1>6. Letters[i] = toks[j].u
  BY <1>1, <1>3, PlaceRight
<1>7. toks[j].n \in Nat /\ toks[j] = Token(toks[j].n, toks[j].u)
  BY <1>5 DEF AnyToks, Toks, Token
<1>8. i # 6 => toks[j].n % Second = 0
  BY <1>3 DEF WellFormed
<1> QED
  BY <1>3, <1>4, <1>6, <1>7, <1>8 DEF j

\* A number is the only one of its unit.
LEMMA UnitOnce ==
  ASSUME NEW toks \in Seq(AnyToks), WellFormed(toks), NEW j \in NumbersOf(toks)
  PROVE  Place(toks, j) \in UnitsOf(toks) /\ NumberAt(toks, Place(toks, j)) = j
<1> DEFINE i == Place(toks, j)
<1>1. j \in 1..Len(toks) /\ i # 0
  BY DEF NumbersOf, WellFormed
<1>2. i \in 1..6
  BY <1>1, PlaceRight
<1>3. i \in UnitsOf(toks)
  BY <1>2 DEF UnitsOf
<1>4. NumberAt(toks, i) \in NumbersOf(toks) /\ NumberAt(toks, i) \in 1..Len(toks)
      /\ Place(toks, NumberAt(toks, i)) = i
  BY <1>3, UnitFound
<1> DEFINE k == NumberAt(toks, i)
<1> HIDE DEF k
<1>5. k \in NumbersOf(toks) /\ k \in 1..Len(toks) /\ Place(toks, k) = i
  BY <1>4 DEF k
<1>6. ~(j < k) /\ ~(k < j)
  <2>1. \A a, b \in NumbersOf(toks) : a < b => Place(toks, a) < Place(toks, b)
    BY DEF WellFormed
  <2>2. ~(i < i)
    BY <1>2
  <2> QED
    BY <1>5, <2>1, <2>2
<1>7. k = j
  BY <1>1, <1>5, <1>6
<1> QED
  BY <1>3, <1>7 DEF k

LEMMA CutPut ==
  ASSUME NEW toks \in Seq(AnyToks), WellFormed(toks), NEW i \in 1..6, NEW s,
         s = IF i <= 3 THEN i ELSE i + 1, NEW j, CutAt(toks, s, j)
  PROVE  \E j1 : /\ CutAt(toks, s + 1, j1)
                 /\ Behind(toks, j) = Put(CountsOf(toks), UnitsOf(toks), i, Behind(toks, j1))
<1>1. s \in 1..7 /\ s # 4
  OBVIOUS
<1>2. ASSUME NEW k \in 1..Len(toks) PROVE Slot(toks, k) = s <=> UnitAt(toks, i, k)
  <2>1. toks[k] # TimeMark => Place(toks, k) \in 1..6
    <3>1. toks[k] # TimeMark => Place(toks, k) # 0
      BY DEF WellFormed, NumbersOf
    <3> QED
      BY <3>1, PlaceRight
  <2>2. k \in NumbersOf(toks) <=> toks[k] # TimeMark
    BY DEF NumbersOf
  <2> QED
    BY <1>1, <2>1, <2>2 DEF Slot, UnitAt
<1>3. CASE /\ \A k \in 1..Len(toks) : Slot(toks, k) # s
           /\ CutAt(toks, s + 1, j)
  <2>1. i \notin UnitsOf(toks)
    <3>1. \A k \in NumbersOf(toks) : k \in 1..Len(toks)
      BY DEF NumbersOf
    <3> QED
      BY <1>2, <1>3, <3>1 DEF UnitsOf, UnitAt
  <2> QED
    BY <1>3, <2>1 DEF Put
<1>4. CASE /\ j + 1 \in 1..Len(toks) /\ Slot(toks, j + 1) = s
           /\ CutAt(toks, s + 1, j + 1)
           /\ Behind(toks, j) = Cons(toks[j + 1], Behind(toks, j + 1))
  <2>1. j + 1 \in NumbersOf(toks) /\ Place(toks, j + 1) = i
    BY <1>2, <1>4 DEF UnitAt
  <2>2. i \in UnitsOf(toks) /\ NumberAt(toks, i) = j + 1
    BY <2>1, UnitOnce
  <2>3. toks[j + 1] = Token(CountsOf(toks)[i], Letters[i])
    BY <2>2, UnitFound
  <2> QED
    BY <1>4, <2>2, <2>3 DEF Put
<1> QED
  BY <1>1, <1>3, <1>4, CutNext

LEMMA CutMark ==
  ASSUME NEW toks \in Seq(AnyToks), WellFormed(toks), NEW j, CutAt(toks, 4, j)
  PROVE  \E j1 : /\ CutAt(toks, 5, j1)
                 /\ Behind(toks, j) = IF UnitsOf(toks) \cap 4..6 = {} THEN <<>>
                                      ELSE Cons(TimeMark, Behind(toks, j1))
<1>1. Len(toks) \in Nat /\ 4 \in 1..7 /\ toks # <<>> /\ Len(toks) \in 1..Len(toks)
      /\ toks[Len(toks)] # TimeMark
  BY DEF WellFormed
<1>2. ASSUME NEW k \in 1..Len(toks), toks[k] # TimeMark
      PROVE  /\ Place(toks, k) \in IF Timed(toks, k) THEN 4..6 ELSE 1..3
             /\ Place(toks, k) \in UnitsOf(toks)
  <2>1. k \in NumbersOf(toks) /\ Place(toks, k) # 0
    BY <1>2 DEF NumbersOf, WellFormed
  <2> QED
    BY <2>1, PlaceRight, UnitOnce
<1>3. CASE /\ \A k \in 1..Len(toks) : Slot(toks, k) # 4
           /\ CutAt(toks, 5, j)
  <2>1. \A k \in 1..Len(toks) : toks[k] # TimeMark
    BY <1>3 DEF Slot
  <2>2. \A k \in 1..Len(toks) : ~Timed(toks, k)
    BY <1>1, <2>1 DEF Timed
  <2>3. \A k \in 1..Len(toks) : Place(toks, k) \in 1..3
    BY <1>2, <2>1, <2>2
  <2>4. UnitsOf(toks) \cap 4..6 = {}
    BY <2>3 DEF UnitsOf, NumbersOf
  <2>5. \A k \in 1..Len(toks) : Slot(toks, k) \in 1..3
    BY <2>1, <2>3 DEF Slot
  <2>6. j \in 0..Len(toks) /\ \A k \in (j + 1)..Len(toks) : Slot(toks, k) >= 5
    BY <1>3 DEF CutAt
  <2>7. j = Len(toks)
    <3>1. ASSUME j < Len(toks) PROVE FALSE
      <4>1. j + 1 \in 1..Len(toks) /\ j + 1 \in (j + 1)..Len(toks)
        BY <1>1, <2>6, <3>1
      <4> QED
        BY <2>5, <2>6, <4>1
    <3> QED
      BY <1>1, <2>6, <3>1
  <2>8. Behind(toks, j) = <<>>
    BY <1>1, <2>7 DEF Behind
  <2> QED
    BY <1>3, <2>4, <2>8
<1>4. CASE /\ j + 1 \in 1..Len(toks) /\ Slot(toks, j + 1) = 4
           /\ CutAt(toks, 5, j + 1)
           /\ Behind(toks, j) = Cons(toks[j + 1], Behind(toks, j + 1))
  <2>1. toks[j + 1] = TimeMark
    <3>1. toks[j + 1] # TimeMark => Place(toks, j + 1) \in 1..6
      BY <1>2, <1>4
    <3> QED
      BY <1>4, <3>1 DEF Slot
  <2>2. Timed(toks, Len(toks))
    <3>1. j + 1 # Len(toks)
      BY <1>1, <2>1
    <3>2. j + 1 \in 1..(Len(toks) - 1)
      BY <1>1, <1>4, <3>1
    <3> QED
      BY <2>1, <3>2 DEF Timed
  <2>3. Place(toks, Len(toks)) \in UnitsOf(toks) \cap 4..6
    BY <1>1, <1>2, <2>2
  <2> QED
    BY <1>4, <2>1, <2>3
<1>5. 4 + 1 = 5
  OBVIOUS
<1> QED
  BY <1>1, <1>3, <1>4, <1>5, CutNext

\* A well-formed text is one that Written writes.
LEMMA WrittenAgain ==
  ASSUME NEW toks \in Seq(AnyToks), WellFormed(toks)
  PROVE  toks = Written(CountsOf(toks), UnitsOf(toks))
<1> DEFINE h == CountsOf(toks)
           units == UnitsOf(toks)
<1>1. Len(toks) \in Nat /\ CutAt(toks, 1, 0)
  <2>1. \A k \in 1..Len(toks) : Slot(toks, k) >= 1
    BY SlotsGrow
  <2> QED
    BY <2>1 DEF CutAt
<1>2. Behind(toks, 0) = toks
  BY <1>1 DEF Behind
<1>3. PICK j2 : CutAt(toks, 2, j2) /\ toks = Put(h, units, 1, Behind(toks, j2))
  BY <1>1, <1>2, CutPut, 1 \in 1..6, 1 <= 3, 1 + 1 = 2
<1>4. PICK j3 : CutAt(toks, 3, j3) /\ Behind(toks, j2) = Put(h, units, 2, Behind(toks, j3))
  BY <1>3, CutPut, 2 \in 1..6, 2 <= 3, 2 + 1 = 3
<1>5. PICK j4 : CutAt(toks, 4, j4) /\ Behind(toks, j3) = Put(h, units, 3, Behind(toks, j4))
  BY <1>4, CutPut, 3 \in 1..6, 3 <= 3, 3 + 1 = 4
<1>6. PICK j5 : /\ CutAt(toks, 5, j5)
                /\ Behind(toks, j4) = IF units \cap 4..6 = {} THEN <<>>
                                      ELSE Cons(TimeMark, Behind(toks, j5))
  BY <1>5, CutMark
<1>7. PICK j6 : CutAt(toks, 6, j6) /\ Behind(toks, j5) = Put(h, units, 4, Behind(toks, j6))
  BY <1>6, CutPut, 4 \in 1..6, ~(4 <= 3), 4 + 1 = 5, 5 + 1 = 6
<1>8. PICK j7 : CutAt(toks, 7, j7) /\ Behind(toks, j6) = Put(h, units, 5, Behind(toks, j7))
  BY <1>7, CutPut, 5 \in 1..6, ~(5 <= 3), 5 + 1 = 6, 6 + 1 = 7
<1>9. PICK j8 : CutAt(toks, 8, j8) /\ Behind(toks, j7) = Put(h, units, 6, Behind(toks, j8))
  BY <1>8, CutPut, 6 \in 1..6, ~(6 <= 3), 6 + 1 = 7, 7 + 1 = 8
<1>10. Behind(toks, j8) = <<>>
  <2>1. j8 \in 0..Len(toks) /\ \A k \in (j8 + 1)..Len(toks) : Slot(toks, k) >= 8
    BY <1>9 DEF CutAt
  <2>2. \A k \in 1..Len(toks) : Slot(toks, k) \in 1..7
    BY SlotsGrow
  <2>3. ASSUME j8 < Len(toks) PROVE FALSE
    <3>1. j8 + 1 \in 1..Len(toks) /\ j8 + 1 \in (j8 + 1)..Len(toks)
      BY <1>1, <2>1, <2>3
    <3> QED
      BY <2>1, <2>2, <3>1
  <2>4. j8 = Len(toks)
    BY <1>1, <2>1, <2>3
  <2> QED
    BY <1>1, <2>4 DEF Behind
<1> HIDE DEF h, units
<1>11. toks = Written(h, units)
  BY <1>3, <1>4, <1>5, <1>6, <1>7, <1>8, <1>9, <1>10, Zenon DEF Written
<1> QED
  BY <1>11 DEF h, units

---------------------------------------------------------------------------
(* What the three readers make of a text *)

LEMMA CountsTyped ==
  ASSUME NEW toks \in Seq(AnyToks), WellFormed(toks)
  PROVE  /\ \A i \in 1..6 : CountsOf(toks)[i] \in Nat
         /\ \A i \in 1..6 : i \notin UnitsOf(toks) => CountsOf(toks)[i] = 0
         /\ UnitsOf(toks) \in SUBSET (1..6)
<1>1. \A i \in UnitsOf(toks) : CountsOf(toks)[i] \in Nat
  BY UnitFound
<1>2. \A i \in 1..6 : i \notin UnitsOf(toks) => CountsOf(toks)[i] = 0
  BY DEF CountsOf
<1>3. UnitsOf(toks) \in SUBSET (1..6)
  BY DEF UnitsOf
<1> QED
  BY <1>1, <1>2, <1>3

\* Hundredths of a whole number.
LEMMA WholeTimes ==
  ASSUME NEW c \in Nat, NEW w \in Nat, c % Second = 0
  PROVE  (c * w) \div Second = (c \div Second) * w
<1> DEFINE q == c \div Second
<1>1. Second \in Nat \ {0}
  BY DurationsAssumption
<1>2. c = Second * q /\ q \in Nat
  BY <1>1, WholeDivided
<1> HIDE DEF q
<1>3. c * w = (q * w) * Second /\ q * w \in Nat
  BY <1>1, <1>2
<1>4. ((q * w) * Second) \div Second = q * w
  BY <1>1, <1>3, DividedBack
<1>5. (c * w) \div Second = q * w
  BY <1>3, <1>4
<1> QED
  BY <1>5 DEF q

LEMMA AmountRight ==
  ASSUME NEW toks \in Seq(AnyToks), WellFormed(toks), NEW i \in 1..6
  PROVE  Amount(toks, i) = Part(CountsOf(toks), UnitsOf(toks), i)
<1> DEFINE c == CountsOf(toks)[i]
<1>1. CASE i \notin UnitsOf(toks)
  <2>1. {j \in NumbersOf(toks) : Place(toks, j) = i} = {}
    BY <1>1 DEF UnitsOf
  <2> QED
    BY <1>1, <2>1 DEF Amount, Part
<1>2. CASE i \in UnitsOf(toks)
  <2>1. {j \in NumbersOf(toks) : Place(toks, j) = i} # {}
    BY <1>2 DEF UnitsOf
  <2>2. Amount(toks, i) = (toks[NumberAt(toks, i)].n * Worth[i]) \div Second
    BY <2>1 DEF Amount, NumberAt
  <2>3. c \in Nat /\ toks[NumberAt(toks, i)].n = c /\ (i # 6 => c % Second = 0)
    BY <1>2, UnitFound
  <2>4. Worth[i] \in Nat /\ Second \in Nat \ {0}
    BY DurationsAssumption DEF Worth
  <2> HIDE DEF c
  <2>5. Amount(toks, i) = (c * Worth[i]) \div Second
    BY <2>2, <2>3
  <2>6. Amount(toks, i) = Value(i, c)
    <3>1. CASE i = 6
      <4>1. Worth[6] = Second
        BY DEF Worth
      <4>2. (c * Second) \div Second = c
        BY <2>3, <2>4, DividedBack
      <4> QED
        BY <2>5, <3>1, <4>1, <4>2 DEF Value
    <3>2. CASE i # 6
      <4>1. (c * Worth[i]) \div Second = (c \div Second) * Worth[i]
        BY <2>3, <2>4, <3>2, WholeTimes
      <4> QED
        BY <2>5, <3>2, <4>1 DEF Value
    <3> QED
      BY <3>1, <3>2
  <2> QED
    BY <1>2, <2>6 DEF Part, c
<1> QED
  BY <1>1, <1>2

LEMMA MeaningIsParts ==
  ASSUME NEW toks \in Seq(AnyToks), WellFormed(toks)
  PROVE  Meaning(toks) = AllParts(CountsOf(toks), UnitsOf(toks))
<1>1. \A i \in 1..6 : Amount(toks, i) = Part(CountsOf(toks), UnitsOf(toks), i)
  BY AmountRight
<1>2. 1 \in 1..6 /\ 2 \in 1..6 /\ 3 \in 1..6 /\ 4 \in 1..6 /\ 5 \in 1..6 /\ 6 \in 1..6
  OBVIOUS
<1> QED
  BY <1>1, <1>2, Zenon DEF Meaning, AllParts

\* ISODurationToCentisec.
LEMMA LibraryReads ==
  ASSUME NEW toks \in Seq(AnyToks), WellFormed(toks)
  PROVE  ISODurationToCentisec(Text(toks)) = Meaning(toks)
<1> DEFINE h == CountsOf(toks)
           units == UnitsOf(toks)
<1>1. toks = Written(h, units) /\ Meaning(toks) = AllParts(h, units)
  BY WrittenAgain, MeaningIsParts
<1>2. (\A i \in 1..6 : h[i] \in Nat) /\ units \in SUBSET (1..6)
  BY CountsTyped
<1> HIDE DEF h, units
<1>3. ISODurationToCentisec(Text(Written(h, units))) = AllParts(h, units)
  BY <1>2, ReadsWritten
<1> QED
  BY <1>1, <1>3

LEMMA SecondsOfWorth ==
  ASSUME NEW i \in 1..6
  PROVE  Worth[i] \in Nat /\ Seconds(i) \in Nat /\ Worth[i] = Second * Seconds(i)
<1>1. Second \in Nat \ {0} /\ Worth[i] \in Nat
  BY DurationsAssumption DEF Worth
<1>2. Day % Second = 0
  <2> DEFINE PD == Day \div Hour
             HS == Hour \div Second
  <2>1. /\ Hour \in Nat \ {0} /\ Day \in Nat \ {0} /\ Hour % Second = 0 /\ Day % Hour = 0
    BY DurationsAssumption
  <2>2. PD \in Nat /\ Day = Hour * PD
    BY <2>1, WholeDivided
  <2>3. HS \in Nat /\ Hour = Second * HS
    BY <1>1, <2>1, WholeDivided
  <2> HIDE DEF PD, HS
  <2>4. Day = (HS * PD) * Second /\ HS * PD \in Nat
    BY <1>1, <2>2, <2>3
  <2> QED
    BY <1>1, <2>4, DividedBack
<1>3. Second % Second = 0
  <2>1. (1 * Second) % Second = 0 /\ 1 * Second = Second
    BY <1>1, DividedBack
  <2> QED
    BY <2>1
<1>4. Worth[i] % Second = 0
  BY <1>2, <1>3, DurationsAssumption DEF Worth
<1> QED
  BY <1>1, <1>4, WholeDivided DEF Seconds

\* secondsof.
LEMMA ScriptsRead ==
  ASSUME NEW toks \in Seq(AnyToks), WellFormed(toks), WholeSeconds(toks)
  PROVE  secondsof(Text(toks)) * Second = Meaning(toks)
<1> DEFINE h == CountsOf(toks)
           units == UnitsOf(toks)
           g == [i \in 1..6 |-> h[i] \div Second]
<1>1. toks = Written(h, units) /\ Meaning(toks) = AllParts(h, units)
  BY WrittenAgain, MeaningIsParts
<1>2. /\ \A i \in 1..6 : h[i] \in Nat /\ (i \notin units => h[i] = 0)
      /\ units \in SUBSET (1..6)
  BY CountsTyped
<1>3. \A i \in units : h[i] % Second = 0
  <2>1. ASSUME NEW i \in units PROVE h[i] % Second = 0
    <3>1. NumberAt(toks, i) \in NumbersOf(toks) /\ h[i] = toks[NumberAt(toks, i)].n
      BY UnitFound
    <3> QED
      BY <3>1 DEF WholeSeconds
  <2> QED
    BY <2>1
<1>4. Second \in Nat \ {0}
  BY DurationsAssumption
<1> HIDE DEF h, units
<1>5. ASSUME NEW i \in 1..6
      PROVE  g[i] \in Nat /\ h[i] = g[i] * Second /\ (g[i] > 0 => i \in units)
  <2>1. g[i] = h[i] \div Second
    OBVIOUS
  <2>2. CASE i \in units
    <3>1. h[i] \in Nat /\ h[i] % Second = 0
      BY <1>2, <1>3, <2>2
    <3>2. h[i] = Second * (h[i] \div Second) /\ h[i] \div Second \in Nat
      BY <1>4, <3>1, WholeDivided
    <3> HIDE DEF g
    <3>3. h[i] = Second * g[i] /\ g[i] \in Nat
      BY <2>1, <3>2
    <3> QED
      BY <1>4, <2>2, <3>3
  <2>3. CASE i \notin units
    <3>1. h[i] = 0
      BY <1>2, <2>3
    <3>2. (0 * Second) \div Second = 0 /\ 0 * Second = 0
      BY <1>4, DividedBack
    <3>3. g[i] = 0
      BY <2>1, <3>1, <3>2
    <3> HIDE DEF g
    <3> QED
      BY <3>1, <3>2, <3>3
  <2> QED
    BY <2>2, <2>3
<1> HIDE DEF g
<1>6. secondsof(Text(Written(h, units))) =
        g[1] * Seconds(1) + g[2] * Seconds(2) + g[3] * Seconds(3)
          + g[4] * Seconds(4) + g[5] * Seconds(5) + g[6] * Seconds(6)
  BY <1>2, <1>5, SumsWritten
<1>7. ASSUME NEW i \in 1..6
      PROVE  /\ g[i] * Seconds(i) \in Nat
             /\ Part(h, units, i) = (g[i] * Seconds(i)) * Second
  <2>1. /\ Worth[i] \in Nat /\ Seconds(i) \in Nat /\ Worth[i] = Second * Seconds(i)
        /\ g[i] \in Nat
    BY <1>5, SecondsOfWorth
  <2>2. g[i] * Worth[i] = (g[i] * Seconds(i)) * Second /\ g[i] * Seconds(i) \in Nat
    BY <1>4, <2>1
  <2>3. Part(h, units, i) = g[i] * Worth[i]
    <3>1. CASE i \in 1..5
      BY <1>5, <3>1, WholePart
    <3>2. CASE i = 6
      <4>1. Worth[6] = Second
        BY DEF Worth
      <4>2. h[6] = g[6] * Second /\ (6 \notin units => h[6] = 0)
        BY <1>2, <1>5
      <4> QED
        BY <3>2, <4>1, <4>2 DEF Part, Value
    <3> QED
      BY <3>1, <3>2
  <2> QED
    BY <2>2, <2>3
<1> DEFINE N(i) == g[i] * Seconds(i)
<1>8. \A i \in 1..6 : N(i) \in Nat /\ Part(h, units, i) = N(i) * Second
  BY <1>7
<1> HIDE DEF N
<1>9. AllParts(h, units) = (N(1) + N(2) + N(3) + N(4) + N(5) + N(6)) * Second
  <2>1. AllParts(h, units) = N(1) * Second + N(2) * Second + N(3) * Second
                               + N(4) * Second + N(5) * Second + N(6) * Second
    BY <1>8 DEF AllParts
  <2>2. N(1) \in Nat /\ N(2) \in Nat /\ N(3) \in Nat /\ N(4) \in Nat /\ N(5) \in Nat /\ N(6) \in Nat
    BY <1>8
  <2>3. ASSUME NEW x \in Nat, NEW y \in Nat
        PROVE  (x + y) * Second = x * Second + y * Second /\ x + y \in Nat
    BY <1>4
  <2>4. (N(1) + N(2)) * Second = N(1) * Second + N(2) * Second /\ N(1) + N(2) \in Nat
    BY <2>2, <2>3
  <2> DEFINE n2 == N(1) + N(2)
             n3 == n2 + N(3)
             n4 == n3 + N(4)
             n5 == n4 + N(5)
             n6 == n5 + N(6)
  <2>5. n6 = N(1) + N(2) + N(3) + N(4) + N(5) + N(6)
    BY Zenon
  <2>6. n2 \in Nat
    BY <2>4
  <2>7. n3 \in Nat
    BY <2>2, <2>3, <2>6
  <2>8. n4 \in Nat
    BY <2>2, <2>3, <2>7
  <2>9. n5 \in Nat
    BY <2>2, <2>3, <2>8
  <2> HIDE DEF n6
  <2>10. n6 * Second = n5 * Second + N(6) * Second
    <3> HIDE DEF n5
    <3> QED
      BY <2>2, <2>3, <2>9 DEF n6
  <2> HIDE DEF n5
  <2>11. n5 * Second = n4 * Second + N(5) * Second
    <3> HIDE DEF n4
    <3> QED
      BY <2>2, <2>3, <2>8 DEF n5
  <2> HIDE DEF n4
  <2>12. n4 * Second = n3 * Second + N(4) * Second
    <3> HIDE DEF n3
    <3> QED
      BY <2>2, <2>3, <2>7 DEF n4
  <2> HIDE DEF n3
  <2>13. n3 * Second = n2 * Second + N(3) * Second
    <3> HIDE DEF n2
    <3> QED
      BY <2>2, <2>3, <2>6 DEF n3
  <2>14. n2 * Second = N(1) * Second + N(2) * Second
    BY <2>4
  <2> HIDE DEF n2
  <2> QED
    BY <2>1, <2>5, <2>10, <2>11, <2>12, <2>13, <2>14
<1>10. secondsof(Text(toks)) = N(1) + N(2) + N(3) + N(4) + N(5) + N(6)
  BY <1>1, <1>6 DEF N
<1> QED
  BY <1>1, <1>9, <1>10

\* prettyPeriod: its states, what it has put in words, and what comes next in a text.
Taking(timed, words, rest) == [timed |-> timed, words |-> words, rest |-> rest]

Word(h, i) == <<h[i] \div Second, i>>

Took(h, units, words, i) == IF i \in units THEN Append(words, Word(h, i)) ELSE words

HeadIn(q, L) == q = <<>> \/ Head(q).u \in L

LEMMA PutHead ==
  ASSUME NEW L, NEW h, NEW units, NEW i \in 1..6, h[i] \in Nat, NEW q \in Seq(AnyToks), HeadIn(q, L)
  PROVE  Put(h, units, i, q) \in Seq(AnyToks) /\ HeadIn(Put(h, units, i, q), L \cup {Letters[i]})
<1> DEFINE t == Token(h[i], Letters[i])
<1>1. t \in AnyToks
  <2>1. Letters[i] \in {"Y", "M", "D", "H", "S", "T"}
    BY DEF Letters
  <2> QED
    BY <2>1 DEF Token, Toks, AnyToks
<1>2. t.u = Letters[i]
  BY DEF Token
<1> HIDE DEF t
<1>3. Cons(t, q) \in Seq(AnyToks) /\ Head(Cons(t, q)) = t
  BY <1>1, ConsFacts
<1>4. Put(h, units, i, q) = IF i \in units THEN Cons(t, q) ELSE q
  BY DEF Put, t
<1> QED
  BY <1>2, <1>3, <1>4 DEF HeadIn

\* The pattern takes the number of a unit that is there, those of the time only behind the
\* T, and goes on where the unit is not there.
Yes == {TRUE}

LEMMA MatchTakes ==
  ASSUME NEW h, NEW units, NEW i \in 1..6, i \in units, h[i] \in Nat, h[i] % Second = 0,
         NEW timed, timed \in Yes \/ i \in 1..3, NEW words, NEW q \in Seq(AnyToks)
  PROVE  Match(Taking(timed, words, Put(h, units, i, q)), i) =
           Taking(timed, Took(h, units, words, i), q)
<1> DEFINE t == Token(h[i], Letters[i])
<1>1. t \in AnyToks
  <2>1. Letters[i] \in {"Y", "M", "D", "H", "S", "T"}
    BY DEF Letters
  <2> QED
    BY <2>1 DEF Token, Toks, AnyToks
<1>2. t.u = Letters[i] /\ t.n = h[i]
  BY DEF Token
<1>3. Put(h, units, i, q) = Cons(t, q)
  BY <1>1 DEF Put
<1> HIDE DEF t
<1> DEFINE r == Cons(t, q)
<1>4. r # <<>> /\ Head(r) = t /\ Tail(r) = q
  BY <1>1, ConsFacts
<1> HIDE DEF r
<1>5. Whole(Head(r)) = h[i] \div Second
  BY <1>2, <1>4 DEF Whole
<1>6. Match(Taking(timed, words, r), i) = Taking(timed, Append(words, <<Whole(Head(r)), i>>), q)
  <2> DEFINE s == Taking(timed, words, r)
  <2>1. s.timed = timed /\ s.words = words /\ s.rest = r
    BY DEF Taking
  <2>2. ~(s.rest = <<>> \/ (i > 3 /\ ~s.timed)) /\ i # 0 /\ i > 0
    <3>1. timed \in Yes => s.timed
      BY <2>1 DEF Yes
    <3>2. i \in 1..3 => ~(i > 3)
      OBVIOUS
    <3>3. s.rest # <<>> /\ i # 0 /\ i > 0
      BY <1>4, <2>1
    <3> QED
      BY <3>1, <3>2, <3>3
  <2>3. t.u = Letters[i] /\ t.n % Second = 0
    BY <1>1, <1>2
  <2> HIDE DEF s
  <2>4. Match(s, i) = [timed |-> s.timed, words |-> Append(s.words, <<Whole(Head(r)), i>>),
                       rest |-> Tail(s.rest)]
    BY <1>4, <2>1, <2>2, <2>3, Zenon DEF Match
  <2> QED
    BY <1>4, <2>1, <2>4, Zenon DEF s, Taking
<1> QED
  BY <1>1, <1>3, <1>5, <1>6 DEF r, Took, Word

LEMMA MatchSkips ==
  ASSUME NEW h, NEW units, NEW i, i # 0, i \notin units, NEW timed, NEW words,
         NEW L, Letters[i] \notin L, NEW q \in Seq(AnyToks), HeadIn(q, L)
  PROVE  Match(Taking(timed, words, Put(h, units, i, q)), i) =
           Taking(timed, Took(h, units, words, i), q)
<1>1. Put(h, units, i, q) = q /\ Took(h, units, words, i) = words
  BY DEF Put, Took
<1>2. Match(Taking(timed, words, q), i) = Taking(timed, words, q)
  BY DEF Match, Taking, HeadIn
<1> QED
  BY <1>1, <1>2

LEMMA MatchMark ==
  ASSUME NEW words, NEW q \in Seq(AnyToks), NEW no \in BOOLEAN, ~no, NEW yes \in BOOLEAN, yes
  PROVE  /\ Match(Taking(no, words, <<>>), 0) = Taking(no, words, <<>>)
         /\ Match(Taking(no, words, Cons(TimeMark, q)), 0) = Taking(yes, words, q)
<1> DEFINE r == Cons(TimeMark, q)
<1>1. TimeMark \in AnyToks
  BY DEF TimeMark, Token, AnyToks, Toks
<1>2. r # <<>> /\ Head(r) = TimeMark /\ Tail(r) = q
  BY <1>1, ConsFacts
<1> HIDE DEF r
<1>3. Match(Taking(no, words, r), 0) = Taking(yes, words, q)
  <2> DEFINE s == Taking(no, words, r)
  <2>1. s.timed = no /\ s.words = words /\ s.rest = r
    BY DEF Taking
  <2>2. ~(s.rest = <<>> \/ (0 > 3 /\ ~s.timed))
    BY <1>2, <2>1
  <2> HIDE DEF s
  <2>3. Match(s, 0) = [timed |-> TRUE, words |-> s.words, rest |-> Tail(s.rest)]
    BY <1>2, <2>1, <2>2, Zenon DEF Match
  <2>4. yes = TRUE
    OBVIOUS
  <2> QED
    BY <1>2, <2>1, <2>3, <2>4, Zenon DEF s, Taking
<1>4. Match(Taking(no, words, <<>>), 0) = Taking(no, words, <<>>)
  BY DEF Match, Taking
<1> QED
  BY <1>3, <1>4 DEF r

\* The numbers in words so far.
WordsOf(h, places) == {Word(h, k) : k \in places}

With(done, units, i) == done \cup (units \cap {i})

Said(w, W, h, done) == w \in Seq(W) /\ ToSet(w) = WordsOf(h, done)

LEMMA TookWord ==
  ASSUME NEW h, NEW units, NEW i \in 1..6, NEW W, Word(h, i) \in W,
         NEW done, NEW words, Said(words, W, h, done)
  PROVE  Said(Took(h, units, words, i), W, h, With(done, units, i))
<1> DEFINE w == Word(h, i)
           a == Append(words, w)
<1>0. words \in Seq(W) /\ ToSet(words) = WordsOf(h, done)
  BY DEF Said
<1>1. CASE i \in units
  <2>1. With(done, units, i) = done \cup {i}
    BY <1>1 DEF With
  <2>2. WordsOf(h, done \cup {i}) = WordsOf(h, done) \cup {w}
    BY DEF WordsOf
  <2>3. Took(h, units, words, i) = a
    BY <1>1 DEF Took
  <2> HIDE DEF w
  <2>4. a \in Seq(W) /\ Len(a) = Len(words) + 1 /\ a[Len(words) + 1] = w
        /\ \A k \in 1..Len(words) : a[k] = words[k]
    BY <1>0 DEF w
  <2>5. Len(words) \in Nat /\ DOMAIN a = 1..(Len(words) + 1) /\ DOMAIN words = 1..Len(words)
    BY <1>0, <2>4
  <2> HIDE DEF a
  <2>6. ToSet(a) = ToSet(words) \cup {w}
    BY <2>4, <2>5 DEF ToSet
  <2> QED
    BY <1>0, <2>1, <2>2, <2>3, <2>4, <2>6 DEF Said
<1>2. CASE i \notin units
  <2>1. With(done, units, i) = done
    BY <1>2 DEF With
  <2> QED
    BY <1>0, <1>2, <2>1 DEF Took, Said
<1> QED
  BY <1>1, <1>2

\* The states of the pattern over a text.
IsTaken(toks, f) ==
  f = [i \in 0..7 |->
         IF i = 0 THEN [timed |-> FALSE, words |-> <<>>, rest |-> Text(toks).toks]
         ELSE Match(f[i - 1], <<1, 2, 3, 0, 4, 5, 6>>[i])]

LEMMA PatternUnrolled ==
  ASSUME NEW toks, NEW s0, s0 = Taking(FALSE, <<>>, toks),
         NEW s1, s1 = Match(s0, 1), NEW s2, s2 = Match(s1, 2), NEW s3, s3 = Match(s2, 3),
         NEW s4, s4 = Match(s3, 0), NEW s5, s5 = Match(s4, 4), NEW s6, s6 = Match(s5, 5),
         NEW s7, s7 = Match(s6, 6)
  PROVE  prettyPeriod(Text(toks)) = s7.words
<1> DEFINE start == [timed |-> FALSE, words |-> <<>>, rest |-> Text(toks).toks]
           pattern == <<1, 2, 3, 0, 4, 5, 6>>
           W == [i \in 0..7 |-> CASE i = 0 -> s0 [] i = 1 -> s1 [] i = 2 -> s2 [] i = 3 -> s3
                                  [] i = 4 -> s4 [] i = 5 -> s5 [] i = 6 -> s6 [] OTHER -> s7]
           taken == CHOOSE f : IsTaken(toks, f)
<1>1. prettyPeriod(Text(toks)) = taken[7].words
  BY Zenon DEF prettyPeriod, IsTaken
<1>2. start = s0
  BY DEF Text, Taking
<1>3. /\ W[0] = s0 /\ W[1] = s1 /\ W[2] = s2 /\ W[3] = s3
      /\ W[4] = s4 /\ W[5] = s5 /\ W[6] = s6 /\ W[7] = s7
      /\ W = [i \in 0..7 |-> W[i]]
  OBVIOUS
<1>4. /\ pattern[1] = 1 /\ pattern[2] = 2 /\ pattern[3] = 3 /\ pattern[4] = 0
      /\ pattern[5] = 4 /\ pattern[6] = 5 /\ pattern[7] = 6
  OBVIOUS
<1> HIDE DEF W, start, pattern
<1>5. ASSUME NEW i \in 0..7 PROVE W[i] = IF i = 0 THEN start ELSE Match(W[i - 1], pattern[i])
  <2>0. CASE i = 0
    BY <1>2, <1>3, <2>0
  <2>1. CASE i = 1
    <3>1. i # 0 /\ i - 1 = 0
      BY <2>1
    <3> QED
      BY <1>3, <1>4, <2>1, <3>1, Zenon
  <2>2. CASE i = 2
    <3>1. i # 0 /\ i - 1 = 1
      BY <2>2
    <3> QED
      BY <1>3, <1>4, <2>2, <3>1, Zenon
  <2>3. CASE i = 3
    <3>1. i # 0 /\ i - 1 = 2
      BY <2>3
    <3> QED
      BY <1>3, <1>4, <2>3, <3>1, Zenon
  <2>4. CASE i = 4
    <3>1. i # 0 /\ i - 1 = 3
      BY <2>4
    <3> QED
      BY <1>3, <1>4, <2>4, <3>1, Zenon
  <2>5. CASE i = 5
    <3>1. i # 0 /\ i - 1 = 4
      BY <2>5
    <3> QED
      BY <1>3, <1>4, <2>5, <3>1, Zenon
  <2>6. CASE i = 6
    <3>1. i # 0 /\ i - 1 = 5
      BY <2>6
    <3> QED
      BY <1>3, <1>4, <2>6, <3>1, Zenon
  <2>7. CASE i = 7
    <3>1. i # 0 /\ i - 1 = 6
      BY <2>7
    <3> QED
      BY <1>3, <1>4, <2>7, <3>1, Zenon
  <2> QED
    BY <2>0, <2>1, <2>2, <2>3, <2>4, <2>5, <2>6, <2>7
<1>6. IsTaken(toks, W)
  BY <1>3, <1>5 DEF IsTaken, start, pattern
<1>7. IsTaken(toks, taken)
  BY <1>6, Zenon
<1> HIDE DEF taken
<1>8. \A i \in 0..7 : taken[i] = IF i = 0 THEN start ELSE Match(taken[i - 1], pattern[i])
  BY <1>7 DEF IsTaken, start, pattern
<1>9. /\ taken[1] = Match(taken[0], 1) /\ taken[2] = Match(taken[1], 2)
      /\ taken[3] = Match(taken[2], 3) /\ taken[4] = Match(taken[3], 0)
  BY <1>4, <1>8
<1>10. /\ taken[5] = Match(taken[4], 4) /\ taken[6] = Match(taken[5], 5)
       /\ taken[7] = Match(taken[6], 6)
  BY <1>4, <1>8
<1>11. taken[0] = s0
  <2>1. 0 \in 0..7
    OBVIOUS
  <2> QED
    BY <1>2, <1>8, <2>1, Zenon
<1>12. taken[7] = s7
  BY <1>9, <1>10, <1>11, Zenon
<1> QED
  BY <1>1, <1>12

\* The pattern takes every number of a text that was written from whole numbers.
LEMMA WordsWritten ==
  ASSUME NEW h, \A i \in 1..6 : h[i] \in Nat,
         NEW units \in SUBSET (1..6), \A i \in units : h[i] % Second = 0
  PROVE  ToSet(prettyPeriod(Text(Written(h, units)))) = WordsOf(h, units)
<1> DEFINE T7 == <<>>
           T6 == Put(h, units, 6, T7)
           T5 == Put(h, units, 5, T6)
           T4 == Put(h, units, 4, T5)
           R4 == IF units \cap 4..6 = {} THEN T7 ELSE Cons(TimeMark, T4)
           R3 == Put(h, units, 3, R4)
           R2 == Put(h, units, 2, R3)
           R1 == Put(h, units, 1, R2)
           toks == Written(h, units)
           no == FALSE
           timed == units \cap 4..6 # {}
           W == {Word(h, k) : k \in 1..6}
           w0 == <<>>
           w1 == Took(h, units, w0, 1)
           w2 == Took(h, units, w1, 2)
           w3 == Took(h, units, w2, 3)
           w4 == Took(h, units, w3, 4)
           w5 == Took(h, units, w4, 5)
           w6 == Took(h, units, w5, 6)
<1>1. toks = R1
  BY DEF Written
<1> HIDE DEF toks
<1>2. T7 \in Seq(AnyToks) /\ HeadIn(T7, {})
  BY DEF HeadIn
<1>3. units \cap 4..6 = {} => T4 = T7
  BY DEF Put
<1> HIDE DEF T7
<1>4. T6 \in Seq(AnyToks) /\ HeadIn(T6, {"S"})
  <2>1. T6 \in Seq(AnyToks) /\ HeadIn(T6, {} \cup {Letters[6]})
    BY <1>2, PutHead, 6 \in 1..6
  <2> HIDE DEF T6
  <2> QED
    BY <2>1 DEF Letters
<1> HIDE DEF T6
<1>5. T5 \in Seq(AnyToks) /\ HeadIn(T5, {"S", "M"})
  <2>1. T5 \in Seq(AnyToks) /\ HeadIn(T5, {"S"} \cup {Letters[5]})
    BY <1>4, PutHead, 5 \in 1..6
  <2> HIDE DEF T5
  <2>2. {"S"} \cup {Letters[5]} = {"S", "M"}
    BY DEF Letters
  <2> QED
    BY <2>1, <2>2
<1> HIDE DEF T5
<1>6. T4 \in Seq(AnyToks)
  BY <1>5, PutHead, 4 \in 1..6
<1> HIDE DEF T4
<1>7. R4 \in Seq(AnyToks) /\ HeadIn(R4, {"T"})
  <2>1. TimeMark \in AnyToks /\ TimeMark.u = "T"
    BY DEF TimeMark, Token, AnyToks, Toks
  <2>2. Cons(TimeMark, T4) \in Seq(AnyToks) /\ Head(Cons(TimeMark, T4)) = TimeMark
    BY <1>6, <2>1, ConsFacts
  <2>3. HeadIn(Cons(TimeMark, T4), {"T"})
    BY <2>1, <2>2 DEF HeadIn
  <2>4. HeadIn(T7, {"T"})
    BY DEF HeadIn, T7
  <2> QED
    BY <1>2, <2>2, <2>3, <2>4
<1>8. R4 = IF timed THEN Cons(TimeMark, T4) ELSE <<>>
  BY DEF T7
<1> HIDE DEF R4
<1>9. R3 \in Seq(AnyToks) /\ HeadIn(R3, {"T", "D"})
  <2>1. R3 \in Seq(AnyToks) /\ HeadIn(R3, {"T"} \cup {Letters[3]})
    BY <1>7, PutHead, 3 \in 1..6
  <2> HIDE DEF R3
  <2>2. {"T"} \cup {Letters[3]} = {"T", "D"}
    BY DEF Letters
  <2> QED
    BY <2>1, <2>2
<1> HIDE DEF R3
<1>10. R2 \in Seq(AnyToks) /\ HeadIn(R2, {"T", "D", "M"})
  <2>1. R2 \in Seq(AnyToks) /\ HeadIn(R2, {"T", "D"} \cup {Letters[2]})
    BY <1>9, PutHead, 2 \in 1..6
  <2> HIDE DEF R2
  <2>2. {"T", "D"} \cup {Letters[2]} = {"T", "D", "M"}
    BY DEF Letters
  <2> QED
    BY <2>1, <2>2
<1> HIDE DEF R2
<1>11. no \in BOOLEAN /\ ~no /\ timed \in BOOLEAN /\ \A i \in units : i > 3 => timed \in Yes
  <2>1. ASSUME NEW i \in units, i > 3 PROVE timed \in Yes
    <3>1. i \in units \cap 4..6
      BY <2>1
    <3>2. timed
      BY <3>1
    <3> HIDE DEF timed
    <3>3. timed = TRUE
      BY <3>2
    <3> QED
      BY <3>3, Zenon DEF Yes
  <2> QED
    BY <2>1
<1>12. ~timed => timed = no
  OBVIOUS
<1> HIDE DEF no, timed, R1, w0
<1>13. /\ 1 \in 1..6 /\ 2 \in 1..6 /\ 3 \in 1..6 /\ 4 \in 1..6 /\ 5 \in 1..6 /\ 6 \in 1..6
       /\ 1 \in 1..3 /\ 2 \in 1..3 /\ 3 \in 1..3
       /\ 1 # 0 /\ 2 # 0 /\ 3 # 0 /\ 4 # 0 /\ 5 # 0 /\ 6 # 0
       /\ 4 \in units => timed \in Yes
       /\ 5 \in units => timed \in Yes
       /\ 6 \in units => timed \in Yes
  BY <1>11
<1>14. Match(Taking(no, w0, R1), 1) = Taking(no, w1, R2)
  <2> DEFINE L == {"T", "D", "M"}
  <2>1. Letters[1] \notin L
    BY DEF Letters
  <2> HIDE DEF L
  <2>2. HeadIn(R2, L)
    BY <1>10 DEF L
  <2>3. CASE 1 \in units
    BY <1>10, <1>13, <2>3, MatchTakes DEF R1
  <2>4. CASE 1 \notin units
    BY <1>10, <2>1, <2>2, <2>4, MatchSkips DEF R1
  <2> QED
    BY <2>3, <2>4
<1> HIDE DEF w1
<1>15. Match(Taking(no, w1, R2), 2) = Taking(no, w2, R3)
  <2> DEFINE L == {"T", "D"}
  <2>1. Letters[2] \notin L
    BY DEF Letters
  <2> HIDE DEF L
  <2>2. HeadIn(R3, L)
    BY <1>9 DEF L
  <2>3. CASE 2 \in units
    BY <1>9, <1>13, <2>3, MatchTakes DEF R2
  <2>4. CASE 2 \notin units
    BY <1>9, <2>1, <2>2, <2>4, MatchSkips DEF R2
  <2> QED
    BY <2>3, <2>4
<1> HIDE DEF w2
<1>16. Match(Taking(no, w2, R3), 3) = Taking(no, w3, R4)
  <2> DEFINE L == {"T"}
  <2>1. Letters[3] \notin L
    BY DEF Letters
  <2> HIDE DEF L
  <2>2. HeadIn(R4, L)
    BY <1>7 DEF L
  <2>3. CASE 3 \in units
    BY <1>7, <1>13, <2>3, MatchTakes DEF R3
  <2>4. CASE 3 \notin units
    BY <1>7, <2>1, <2>2, <2>4, MatchSkips DEF R3
  <2> QED
    BY <2>3, <2>4
<1> HIDE DEF w3
<1>17. Match(Taking(no, w3, R4), 0) = Taking(timed, w3, T4)
  <2>1. CASE timed
    BY <1>6, <1>8, <1>11, <2>1, MatchMark
  <2>2. CASE ~timed
    <3>1. R4 = <<>> /\ T4 = <<>> /\ timed = no
      BY <1>3, <1>8, <1>12, <2>2 DEF T7, timed
    <3>2. \E yes \in BOOLEAN : yes
      OBVIOUS
    <3> QED
      BY <1>6, <1>11, <3>1, <3>2, MatchMark
  <2> QED
    BY <2>1, <2>2
<1>18. Match(Taking(timed, w3, T4), 4) = Taking(timed, w4, T5)
  <2> DEFINE L == {"S", "M"}
  <2>1. Letters[4] \notin L
    BY DEF Letters
  <2> HIDE DEF L
  <2>2. HeadIn(T5, L)
    BY <1>5 DEF L
  <2>3. CASE 4 \in units
    BY <1>5, <1>13, <2>3, MatchTakes DEF T4
  <2>4. CASE 4 \notin units
    BY <1>5, <2>1, <2>2, <2>4, MatchSkips DEF T4
  <2> QED
    BY <2>3, <2>4
<1> HIDE DEF w4
<1>19. Match(Taking(timed, w4, T5), 5) = Taking(timed, w5, T6)
  <2> DEFINE L == {"S"}
  <2>1. Letters[5] \notin L
    BY DEF Letters
  <2> HIDE DEF L
  <2>2. HeadIn(T6, L)
    BY <1>4 DEF L
  <2>3. CASE 5 \in units
    BY <1>4, <1>13, <2>3, MatchTakes DEF T5
  <2>4. CASE 5 \notin units
    BY <1>4, <2>1, <2>2, <2>4, MatchSkips DEF T5
  <2> QED
    BY <2>3, <2>4
<1> HIDE DEF w5
<1>20. Match(Taking(timed, w5, T6), 6) = Taking(timed, w6, T7)
  <2> DEFINE L == {}
  <2>1. Letters[6] \notin L
    OBVIOUS
  <2> HIDE DEF L
  <2>2. HeadIn(T7, L)
    BY <1>2 DEF L
  <2>3. CASE 6 \in units
    BY <1>2, <1>13, <2>3, MatchTakes DEF T6
  <2>4. CASE 6 \notin units
    BY <1>2, <2>1, <2>2, <2>4, MatchSkips DEF T6
  <2> QED
    BY <2>3, <2>4
<1> HIDE DEF w6
<1>21. prettyPeriod(Text(toks)) = w6
  <2> DEFINE s0 == Taking(no, w0, R1)
             s1 == Taking(no, w1, R2)
             s2 == Taking(no, w2, R3)
             s3 == Taking(no, w3, R4)
             s4 == Taking(timed, w3, T4)
             s5 == Taking(timed, w4, T5)
             s6 == Taking(timed, w5, T6)
             s7 == Taking(timed, w6, T7)
  <2>1. s0 = Taking(FALSE, <<>>, toks)
    BY <1>1, Zenon DEF no, w0
  <2>2. s7.words = w6
    BY DEF Taking
  <2>3. /\ s1 = Match(s0, 1) /\ s2 = Match(s1, 2) /\ s3 = Match(s2, 3) /\ s4 = Match(s3, 0)
        /\ s5 = Match(s4, 4) /\ s6 = Match(s5, 5) /\ s7 = Match(s6, 6)
    BY <1>14, <1>15, <1>16, <1>17, <1>18, <1>19, <1>20, Zenon
  <2> HIDE DEF s0, s1, s2, s3, s4, s5, s6, s7
  <2>4. prettyPeriod(Text(toks)) = s7.words
    BY <2>1, <2>3, PatternUnrolled
  <2> QED
    BY <2>2, <2>4
<1>22. \A i \in 1..6 : Word(h, i) \in W
  OBVIOUS
<1> HIDE DEF W
<1>23. Said(w0, W, h, {})
  <2>1. ToSet(<<>>) = {} /\ WordsOf(h, {}) = {}
    BY DEF ToSet, WordsOf
  <2>2. <<>> \in Seq(W)
    OBVIOUS
  <2> QED
    BY <2>1, <2>2, Zenon DEF w0, Said
<1>24. ASSUME NEW i \in 1..6, NEW done, NEW w, Said(w, W, h, done)
       PROVE  Said(Took(h, units, w, i), W, h, With(done, units, i))
  BY <1>22, <1>24, TookWord
<1> DEFINE d1 == With({}, units, 1)
           d2 == With(d1, units, 2)
           d3 == With(d2, units, 3)
           d4 == With(d3, units, 4)
           d5 == With(d4, units, 5)
           d6 == With(d5, units, 6)
<1>25. d6 = units
  <2>1. ASSUME NEW x \in units PROVE x \in d6
    <3>1. x = 1 \/ x = 2 \/ x = 3 \/ x = 4 \/ x = 5 \/ x = 6
      OBVIOUS
    <3> QED
      BY <3>1, Zenon DEF With
  <2>2. ASSUME NEW x \in d6 PROVE x \in units
    BY Zenon DEF With
  <2> HIDE DEF d6
  <2> QED
    BY <2>1, <2>2
<1> HIDE DEF d1, d2, d3, d4, d5, d6
<1>26. Said(w1, W, h, d1)
  BY <1>23, <1>24, 1 \in 1..6, Zenon DEF w1, d1
<1>27. Said(w2, W, h, d2)
  BY <1>26, <1>24, 2 \in 1..6, Zenon DEF w2, d2
<1>28. Said(w3, W, h, d3)
  BY <1>27, <1>24, 3 \in 1..6, Zenon DEF w3, d3
<1>29. Said(w4, W, h, d4)
  BY <1>28, <1>24, 4 \in 1..6, Zenon DEF w4, d4
<1>30. Said(w5, W, h, d5)
  BY <1>29, <1>24, 5 \in 1..6, Zenon DEF w5, d5
<1>31. Said(w6, W, h, d6)
  BY <1>30, <1>24, 6 \in 1..6, Zenon DEF w6, d6
<1> QED
  BY <1>21, <1>25, <1>31 DEF Said, toks

\* prettyPeriod.
LEMMA PageReads ==
  ASSUME NEW toks \in Seq(AnyToks), WellFormed(toks), WholeSeconds(toks)
  PROVE  ToSet(prettyPeriod(Text(toks))) =
           {<<Whole(toks[j]), Place(toks, j)>> : j \in NumbersOf(toks)}
<1> DEFINE h == CountsOf(toks)
           units == UnitsOf(toks)
           Shown(j) == <<Whole(toks[j]), Place(toks, j)>>
<1>1. toks = Written(h, units)
  BY WrittenAgain
<1>2. (\A i \in 1..6 : h[i] \in Nat) /\ units \in SUBSET (1..6)
  BY CountsTyped
<1>3. ASSUME NEW i \in units
      PROVE  /\ NumberAt(toks, i) \in NumbersOf(toks) /\ h[i] % Second = 0
             /\ Word(h, i) = Shown(NumberAt(toks, i))
  <2>1. /\ NumberAt(toks, i) \in NumbersOf(toks) /\ Place(toks, NumberAt(toks, i)) = i
        /\ h[i] = toks[NumberAt(toks, i)].n
    BY UnitFound
  <2>2. toks[NumberAt(toks, i)].n % Second = 0
    BY <2>1 DEF WholeSeconds
  <2> HIDE DEF h
  <2> QED
    BY <2>1, <2>2 DEF Word, Whole
<1>4. ASSUME NEW j \in NumbersOf(toks)
      PROVE  Place(toks, j) \in units /\ Shown(j) = Word(h, Place(toks, j))
  <2>1. Place(toks, j) \in units /\ NumberAt(toks, Place(toks, j)) = j
    BY UnitOnce
  <2> HIDE DEF h, units, Shown
  <2> QED
    BY <1>3, <2>1
<1> HIDE DEF h, units, Shown
<1>5. ToSet(prettyPeriod(Text(Written(h, units)))) = WordsOf(h, units)
  BY <1>2, <1>3, WordsWritten
<1>6. WordsOf(h, units) = {Shown(j) : j \in NumbersOf(toks)}
  BY <1>3, <1>4 DEF WordsOf
<1> QED
  BY <1>1, <1>5, <1>6 DEF Shown

\* A well-formed frequency is the same period to the retry schedule, to the status page and,
\* word for word, on the contents page, whatever the units and however long the text: it is
\* the text that writing its own numbers again would give, and each reader reads such a text.
THEOREM TimesFrequencyAgreed == Spec => []FrequencyAgreed
<1>1. ASSUME TextTyped PROVE FrequencyAgreed
  <2> SUFFICES ASSUME WellFormed(text.toks)
               PROVE  /\ ISODurationToCentisec(text) = Meaning(text.toks)
                      /\ WholeSeconds(text.toks) =>
                           /\ secondsof(text) * Second = Meaning(text.toks)
                           /\ ToSet(prettyPeriod(text)) =
                                {<<Whole(text.toks[j]), Place(text.toks, j)>> : j \in NumbersOf(text.toks)}
    BY Zenon DEF FrequencyAgreed
  <2> DEFINE toks == text.toks
  <2>1. toks \in Seq(AnyToks) /\ text = Text(toks)
    BY <1>1 DEF TextTyped
  <2>2. WellFormed(toks)
    OBVIOUS
  <2> HIDE DEF toks
  <2>3. ISODurationToCentisec(Text(toks)) = Meaning(toks)
    BY <2>1, <2>2, LibraryReads
  <2>4. WholeSeconds(toks) => /\ secondsof(Text(toks)) * Second = Meaning(toks)
                              /\ ToSet(prettyPeriod(Text(toks))) =
                                   {<<Whole(toks[j]), Place(toks, j)>> : j \in NumbersOf(toks)}
    BY <2>1, <2>2, ScriptsRead, PageReads
  <2>5. /\ ISODurationToCentisec(text) = Meaning(toks)
        /\ WholeSeconds(toks) => /\ secondsof(text) * Second = Meaning(toks)
                                 /\ ToSet(prettyPeriod(text)) =
                                      {<<Whole(toks[j]), Place(toks, j)>> : j \in NumbersOf(toks)}
    BY <2>1, <2>3, <2>4, Zenon
  <2> QED
    BY <2>5 DEF toks
<1> QED
  BY <1>1, AlwaysTextTyped, PTL

---------------------------------------------------------------------------
(* Stamps *)

\* The hours and minutes of an offset are read back as the offset, whatever its sign.
LEMMA OffsetBack ==
  ASSUME NEW t \in Int, NEW zone \in Int
  PROVE  LET stamp == isodate(t, zone)
         IN /\ OffsetOf(stamp.zone) = zone
            /\ stamp.wall = t + Ahead(zone)
            /\ stamp.zone.form = "Z" <=> zone = 0
            /\ zone >= 60 => stamp.zone.sign = 1 /\ stamp.zone.hh # 0
<1> DEFINE size == IF zone < 0 THEN -zone ELSE zone
<1>0. size \in Nat /\ (zone >= 60 => size >= 60) /\ Abs(zone) = size
  BY DEF Abs
<1> HIDE DEF size
<1>1. size \in Nat /\ size = 60 * (size \div 60) + (size % 60) /\ size \div 60 \in Nat
  BY <1>0, Divided, 60 \in Nat \ {0}
<1>2. zone >= 60 => size \div 60 # 0
  BY <1>0
<1>3. Abs(zone) = size
  BY <1>0
<1>4. CASE zone = 0
  BY <1>4 DEF isodate, Stamp, OffsetOf, Zulu, ZoneText, Ahead
<1>5. CASE zone > 0
  <2>1. size = zone
    BY <1>5 DEF size
  <2> QED
    BY <1>1, <1>2, <1>3, <1>5, <2>1 DEF isodate, Stamp, OffsetOf, ZoneText, Ahead
<1>6. CASE zone < 0
  <2>1. size = -zone
    BY <1>6 DEF size
  <2> QED
    BY <1>1, <1>3, <1>6, <2>1 DEF isodate, Stamp, OffsetOf, ZoneText, Ahead
<1> QED
  BY <1>4, <1>5, <1>6

\* The status page reads a stamp of the server right in every zone of the server, and the
\* contents page where the visitor shares that zone and it is UTC or an hour or more ahead.
THEOREM TimesStampsReadRight == Spec => []StampsReadRight
<1>1. ASSUME Typed PROVE StampsReadRight
  <2> DEFINE stamp == isodate(n, server)
  <2> USE <1>1 DEF Typed
  <2>1. /\ OffsetOf(stamp.zone) = server
        /\ stamp.wall = n + server * 60000
        /\ stamp.zone.form = "Z" <=> server = 0
        /\ server >= 60 => stamp.zone.sign = 1 /\ stamp.zone.hh # 0
    BY OffsetBack DEF Ahead, MsPerMinute
  <2> HIDE DEF stamp
  <2>2. isoDate(stamp) = Date(n)
    BY <2>1 DEF isoDate, Date, Ahead, MsPerMinute
  <2>3. ASSUME viewer = server, server = 0 \/ server >= 60
        PROVE  parseISODate(stamp, viewer) = Date(n)
    <3>1. CASE server = 0
      BY <2>1, <2>3, <3>1 DEF parseISODate, Date, Ahead, MsPerMinute
    <3>2. CASE server >= 60
      <4>1. OffsetOf(stamp.zone) - viewer = 0
        BY <2>1, <2>3
      <4> QED
        BY <2>1, <2>3, <3>2, <4>1 DEF parseISODate, Date, Ahead, MsPerMinute
    <3> QED
      BY <2>3, <3>1, <3>2
  <2> QED
    BY <2>2, <2>3 DEF StampsReadRight, stamp
<1> QED
  BY <1>1, AlwaysTyped, PTL

\* A stamp of MakeISOtimeStamp is read back within its precision, at every instant and in
\* every zone.
THEOREM TimesStampReadsBack == Spec => []StampReadsBack
<1>1. ASSUME Typed PROVE StampReadsBack
  <2> USE <1>1 DEF Typed
  <2> SUFFICES ASSUME NEW relative \in BOOLEAN, NEW centisecs \in BOOLEAN
               PROVE  \E t \in DateFromISOString(MakeISOtimeStamp(n, relative, centisecs, viewer), viewer) :
                        IF centisecs THEN t - n \in -9..5 ELSE t - n \in -499..500
    BY DEF StampReadsBack
  <2> DEFINE at == Rounded(n, centisecs)
  <2>1. at \in Int /\ IF centisecs THEN at - n \in -9..5 ELSE at - n \in -499..500
    <3> DEFINE nMs == n % 1000
    <3>1. nMs \in 0..999
      OBVIOUS
    <3>2. nMs = 10 * (nMs \div 10) + (nMs % 10) /\ nMs % 10 \in 0..9 /\ nMs \div 10 \in Int
      <4> HIDE DEF nMs
      <4> QED
        BY <3>1, Divided, 10 \in Nat \ {0}
    <3>3. at = IF nMs > (IF centisecs THEN 994 ELSE 499) THEN n - nMs + 1000
               ELSE n - nMs + (IF centisecs THEN 10 * (nMs \div 10) ELSE 0)
      BY DEF Rounded
    <3> HIDE DEF nMs, at
    <3> QED
      BY <3>1, <3>2, <3>3
  <2> HIDE DEF at
  <2>2. DateFromISOString(MakeISOtimeStamp(n, relative, centisecs, viewer), viewer) = {at}
    <3> USE DEF DateFromISOString, MakeISOtimeStamp, Stamp, Date, at
    <3>1. CASE relative
      <4>1. OffsetText(viewer).form \in {"hh", "hhmm"}
        BY DEF OffsetText, ZoneText
      <4>2. Ahead(viewer) \in Int
        BY DEF Ahead, MsPerMinute
      <4> QED
        BY <2>1, <3>1, <4>1, <4>2
    <3>2. CASE ~relative
      BY <3>2 DEF Zulu, ZoneText
    <3> QED
      BY <3>1, <3>2
  <2> QED
    BY <2>1, <2>2
<1> QED
  BY <1>1, AlwaysTyped, PTL

---------------------------------------------------------------------------
(* Ages *)

\* What relativeDate claims of an age of so many whole days.
LEMMA AgeDate ==
  ASSUME NEW age \in Nat
  PROVE  relativeDate(age) = TheDate <=> age \div DayUnit >= 31
<1>1. age \div DayUnit \in Nat
  BY Divided, DayUnit \in Nat \ {0} DEF DayUnit
<1> QED
  BY <1>1 DEF relativeDate, TheDate, Words, MinuteUnit, HourUnit, DayUnit, WeekUnit

LEMMA AgeOfHours ==
  ASSUME NEW age \in Nat, age \div DayUnit = 0
  PROVE  Claimed(relativeDate(age)) =
           IF age < MinuteUnit THEN 0
           ELSE IF age < HourUnit THEN (age \div MinuteUnit) * MinuteUnit
           ELSE (age \div HourUnit) * HourUnit
BY DEF relativeDate, Words, Claimed, MinuteUnit, HourUnit

LEMMA AgeOfDays ==
  ASSUME NEW age \in Nat, age \div DayUnit \in 1..30
  PROVE  Claimed(relativeDate(age)) =
           LET days == age \div DayUnit
           IN IF days <= 6 THEN days * DayUnit
              ELSE IF days <= 10 THEN WeekUnit
              ELSE ((2 * days + 7) \div 14) * WeekUnit
<1> DEFINE days == age \div DayUnit
<1> HIDE DEF days
<1>1. days \in 1..30
  BY DEF days
<1>2. relativeDate(age) = IF days <= 6 THEN Words(days, DayUnit)
                          ELSE IF days <= 10 THEN Words(1, WeekUnit)
                          ELSE Words(RoundDiv(days, 7), WeekUnit)
  BY <1>1 DEF relativeDate, days
<1>3. 2 * 7 = 14 /\ RoundDiv(days, 7) = (2 * days + 7) \div 14
  BY <1>1 DEF RoundDiv
<1> QED
  BY <1>1, <1>2, <1>3 DEF Words, Claimed, WeekUnit, DayUnit, days

\* An age in words only grows while a page stays open (relativeDate).
THEOREM TimesAgesGrow == Spec => AgesGrow
<1>1. ASSUME NEW a \in Nat, NEW b \in Nat, a <= b
      PROVE  /\ relativeDate(a) = TheDate => relativeDate(b) = TheDate
             /\ relativeDate(b) # TheDate => Claimed(relativeDate(a)) <= Claimed(relativeDate(b))
  <2> DEFINE da == a \div DayUnit
             db == b \div DayUnit
             Hours(age) == IF age < MinuteUnit THEN 0
                           ELSE IF age < HourUnit THEN (age \div MinuteUnit) * MinuteUnit
                           ELSE (age \div HourUnit) * HourUnit
             Days(days) == IF days <= 6 THEN days * DayUnit
                           ELSE IF days <= 10 THEN WeekUnit
                           ELSE ((2 * days + 7) \div 14) * WeekUnit
  <2>1. da \in Nat /\ db \in Nat /\ da <= db
    BY <1>1 DEF DayUnit
  <2>2. relativeDate(a) = TheDate => relativeDate(b) = TheDate
    BY <2>1, AgeDate
  <2>3. ASSUME relativeDate(b) # TheDate
        PROVE  Claimed(relativeDate(a)) <= Claimed(relativeDate(b))
    <3>1. db <= 30
      BY <2>1, <2>3, AgeDate
    <3>2. CASE db = 0
      <4>1. da = 0
        BY <2>1, <3>2
      <4>2. Hours(a) <= Hours(b)
        BY <1>1 DEF MinuteUnit, HourUnit
      <4> QED
        BY <3>2, <4>1, <4>2, AgeOfHours
    <3>3. CASE da = 0 /\ db > 0
      <4>1. Claimed(relativeDate(a)) = Hours(a)
        BY <3>3, AgeOfHours
      <4>2. Claimed(relativeDate(b)) = Days(db)
        BY <2>1, <3>1, <3>3, AgeOfDays
      <4>3. a < DayUnit
        BY <3>3 DEF DayUnit
      <4>4. Hours(a) <= a
        BY DEF MinuteUnit, HourUnit
      <4> HIDE DEF da, db
      <4>5. DayUnit <= Days(db)
        BY <2>1, <3>1, <3>3 DEF DayUnit, WeekUnit
      <4> QED
        <5> HIDE DEF Hours, Days
        <5>1. Hours(a) \in Nat /\ Days(db) \in Nat
          BY <2>1 DEF Hours, Days, MinuteUnit, HourUnit, DayUnit, WeekUnit
        <5> QED
          BY <4>1, <4>2, <4>3, <4>4, <4>5, <5>1 DEF DayUnit
    <3>4. CASE da > 0
      <4>1. Claimed(relativeDate(a)) = Days(da) /\ Claimed(relativeDate(b)) = Days(db)
        BY <2>1, <3>1, <3>4, AgeOfDays
      <4> HIDE DEF da, db
      <4>2. Days(da) <= Days(db)
        BY <2>1, <3>1, <3>4 DEF DayUnit, WeekUnit
      <4> QED
        BY <4>1, <4>2
    <3> QED
      BY <2>1, <3>2, <3>3, <3>4
  <2> QED
    BY <2>2, <2>3
<1>2. ASSUME Typed, [Next]_vars PROVE n <= n' /\ n \in Nat /\ n' \in Nat
  <2>1. CASE Pass
    BY <1>2, <2>1, ValuesNat DEF Pass, Typed
  <2>2. CASE \E token \in Tokens : Type(token)
    BY <1>2, <2>2 DEF Type, Typed
  <2>3. CASE UNCHANGED vars
    BY <1>2, <2>3 DEF vars, Typed
  <2> QED
    BY <1>2, <2>1, <2>2, <2>3 DEF Next
<1>3. Typed /\ [Next]_vars
        => [kind = "age" =>
              LET before == relativeDate(n) after == relativeDate(n')
              IN /\ before = TheDate => after = TheDate
                 /\ after # TheDate => Claimed(before) <= Claimed(after)]_vars
  BY <1>1, <1>2
<1> QED
  BY <1>3, AlwaysTyped, PTL DEF Spec, AgesGrow
\* How far an age may be off the words it is put in.
True(age, words) == age - Claimed(words) \in
                      IF words.unit = WeekUnit THEN -(3 * DayUnit)..(4 * DayUnit - 1)
                      ELSE 0..(words.unit - 1)

\* So many whole units are true to one.
LEMMA WholeUnitsTrue ==
  ASSUME NEW age \in Nat, NEW unit \in {MinuteUnit, HourUnit, DayUnit}
  PROVE  True(age, Words(age \div unit, unit))
<1>1. unit \in Nat \ {0} /\ unit # WeekUnit
  BY DEF MinuteUnit, HourUnit, DayUnit, WeekUnit
<1> DEFINE q == age \div unit
           r == age % unit
<1>2. age = unit * q + r /\ q \in Nat /\ r \in 0..(unit - 1)
  BY <1>1, Divided
<1> HIDE DEF q, r
<1>3. unit * q = q * unit /\ q * unit \in Nat
  BY <1>1, <1>2
<1>4. age - q * unit \in 0..(unit - 1)
  BY <1>1, <1>2, <1>3
<1>5. True(age, Words(q, unit))
  BY <1>1, <1>4 DEF True, Words, Claimed
<1> QED
  BY <1>5 DEF q

\* An age of no minute is true as it stands.
LEMMA NoMinuteTrue == ASSUME NEW age \in Nat, age < MinuteUnit
                      PROVE  True(age, Words(0, MinuteUnit))
<1>1. MinuteUnit # WeekUnit /\ MinuteUnit \in Nat
  BY DEF MinuteUnit, WeekUnit, DayUnit
<1>2. age - 0 * MinuteUnit \in 0..(MinuteUnit - 1)
  BY <1>1
<1> QED
  BY <1>1, <1>2 DEF True, Words, Claimed

\* Weeks are true to the nearest one.
LEMMA WeeksTrue ==
  ASSUME NEW age \in Nat, NEW weeks \in Nat,
         weeks * WeekUnit <= age + 3 * DayUnit, age < weeks * WeekUnit + 4 * DayUnit
  PROVE  True(age, Words(weeks, WeekUnit))
<1>1. DayUnit \in Nat /\ WeekUnit \in Nat
  BY DEF WeekUnit, DayUnit
<1>2. weeks * WeekUnit \in Nat
  BY <1>1
<1>3. age - weeks * WeekUnit \in -(3 * DayUnit)..(4 * DayUnit - 1)
  BY <1>1, <1>2, SMT
<1> QED
  BY <1>3 DEF True, Words, Claimed

LEMMA DateWordsTrue ==
  ASSUME NEW age \in Nat PROVE relativeDate(age) = TheDate \/ True(age, relativeDate(age))
<1> DEFINE days == age \div DayUnit
<1>1. days \in Nat /\ DayUnit * days <= age /\ age < DayUnit * days + DayUnit
  <2>1. DayUnit \in Nat \ {0}
    BY DEF DayUnit
  <2> DEFINE rest == age % DayUnit
  <2>2. age = DayUnit * days + rest /\ days \in Nat /\ rest \in 0..(DayUnit - 1)
    BY <2>1, Divided
  <2> HIDE DEF days, rest
  <2> QED
    BY <2>1, <2>2, SMT
<1>2. CASE days >= 31
  BY <1>1, <1>2, AgeDate
<1>3. CASE days = 0
  <2>1. relativeDate(age) = IF age < MinuteUnit THEN Words(0, MinuteUnit)
                            ELSE IF age < HourUnit THEN Words(age \div MinuteUnit, MinuteUnit)
                            ELSE Words(age \div HourUnit, HourUnit)
    BY <1>3 DEF relativeDate, MinuteUnit, HourUnit
  <2> QED
    BY <2>1, NoMinuteTrue, WholeUnitsTrue
<1>4. CASE days \in 1..6
  <2>1. relativeDate(age) = Words(days, DayUnit)
    BY <1>4 DEF relativeDate
  <2> QED
    BY <2>1, WholeUnitsTrue
<1>5. CASE days \in 7..10
  <2>1. relativeDate(age) = Words(1, WeekUnit)
    BY <1>5 DEF relativeDate
  <2> HIDE DEF days
  <2>2. 1 * WeekUnit <= age + 3 * DayUnit /\ age < 1 * WeekUnit + 4 * DayUnit
    BY <1>1, <1>5, SMT DEF DayUnit, WeekUnit
  <2> QED
    BY <2>1, <2>2, WeeksTrue
<1>6. CASE days \in 11..30
  <2> DEFINE weeks == RoundDiv(days, 7)
  <2>1. relativeDate(age) = Words(weeks, WeekUnit)
    BY <1>6 DEF relativeDate
  <2> HIDE DEF days
  <2>2. weeks \in Nat /\ days - 7 * weeks \in -3..3
    BY <1>6 DEF RoundDiv
  <2> HIDE DEF weeks
  <2>3. weeks * WeekUnit <= age + 3 * DayUnit /\ age < weeks * WeekUnit + 4 * DayUnit
    BY <1>1, <2>2, SMT DEF DayUnit, WeekUnit
  <2> QED
    BY <2>1, <2>2, <2>3, WeeksTrue
<1> QED
  BY <1>1, <1>2, <1>3, <1>4, <1>5, <1>6

\* The zone of the visitor is taken back from the age that it was added to.
LEMMA TweetWordsTrue ==
  ASSUME NEW age \in Nat, NEW zone \in Int PROVE True(age, relative_time(0, age, zone))
<1>1. TweetAge(0, age, zone) = age
  BY DEF TweetAge
<1>2. relative_time(0, age, zone) =
        IF age < MinuteUnit THEN Words(0, MinuteUnit)
        ELSE IF age < HourUnit THEN Words(age \div MinuteUnit, MinuteUnit)
        ELSE IF age < DayUnit THEN Words(age \div HourUnit, HourUnit)
        ELSE Words(age \div DayUnit, DayUnit)
  BY <1>1 DEF relative_time, MinuteUnit, HourUnit, DayUnit
<1> QED
  BY <1>2, NoMinuteTrue, WholeUnitsTrue

LEMMA MinutesKept ==
  ASSUME NEW age \in Nat
  PROVE  LET f == formatSeconds(1000 * age)
         IN 60 * f[1] + f[2] = age \div MinuteUnit /\ f[2] \in 0..59
<1> DEFINE minutes == age \div 60
<1>1. minutes \in Nat
  BY Divided, 60 \in Nat \ {0}
<1>2. (1000 * age) \div 60000 = minutes
  OBVIOUS
<1>3. Cut(1000 * age, MsPerMinute) = minutes /\ Abs(1000 * age) \notin 1..3
  BY <1>2 DEF Cut, MsPerMinute, Abs
<1> HIDE DEF minutes
<1>4. formatSeconds(1000 * age) = <<minutes \div 60, minutes % 60>>
  BY <1>1, <1>3 DEF formatSeconds, Cut
<1>5. 60 * (minutes \div 60) + (minutes % 60) = minutes /\ minutes % 60 \in 0..59
  BY <1>1
<1> QED
  BY <1>4, <1>5 DEF minutes, MinuteUnit

\* The words for an age are true to their unit at every age and in every zone
\* (relativeDate, relative_time, formatSeconds).
THEOREM TimesWordingHonest == Spec => []WordingHonest
<1>1. ASSUME Typed PROVE WordingHonest
  <2> USE <1>1 DEF Typed
  <2>1. relativeDate(n) = TheDate \/ True(n, relativeDate(n))
    BY DateWordsTrue
  <2>2. \A zone \in Zones : True(n, relative_time(0, n, zone))
    BY TweetWordsTrue, TimeTextsAssumption
  <2> QED
    BY <2>1, <2>2, MinutesKept DEF WordingHonest, True
<1> QED
  BY <1>1, AlwaysTyped, PTL
=============================================================================
