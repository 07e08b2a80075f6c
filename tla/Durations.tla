----------------------------- MODULE Durations -----------------------------
(***************************************************************************)
(* The ISO 8601 durations of the system: the status page's library         *)
(* ostynscormtime.js, prettyPeriod of the contents page's datetime.js, and *)
(* secondsof and humaninterval of lib/geoul.sh.                            *)
(*                                                                         *)
(* A text is what follows the P (has says whether there is one): a         *)
(* sequence of T's and of numbers with a letter.  Numbers are in           *)
(* hundredths, so that seconds may have a fraction.  The units are         *)
(* constants: TLC's integers do not reach the centiseconds of a year.      *)
(***************************************************************************)
EXTENDS Integers, Sequences, SequencesExt

CONSTANTS Second, Minute, Hour, Day, Month, Year,  \* in centiseconds
          MaxHours                                 \* SCORM 1.2 has room for 9999

ASSUME DurationsAssumption == /\ {Second, Minute, Hour, Day, Month, Year} \subseteq Nat \ {0}
                              /\ Minute % Second = 0 /\ Hour % Second = 0 /\ Day % Hour = 0
                              /\ Month % Second = 0 /\ Year % Second = 0
                              /\ MaxHours \in Nat

Letters == <<"Y", "M", "D", "H", "M", "S">>

\* What one of each letter is worth.
\* Mutant: every year is a leap year.
WorthOfLeapYear == <<Year + Day, Month, Day, Hour, Minute, Second>>

Worth == <<Year, Month, Day, Hour, Minute, Second>>

Token(n, u) == [n |-> n, u |-> u]
TimeMark == Token(0, "T")
Text(toks) == [has |-> TRUE, toks |-> toks]

Whole(t) == t.n \div Second  \* parseInt

---------------------------------------------------------------------------
(* centisecsToISODuration: bPrecise leaves years and months out. *)

\* Mutant: rounded.
TakeRounded(n, unit) == (n + unit \div 2) \div unit

Take(n, unit) == n \div unit

\* Years to minutes, and the rest in centiseconds.
Fields(n, precise) ==
  LET nCs == IF n > 0 THEN n ELSE 0
      nY == IF precise THEN 0 ELSE Take(nCs, Year)
      afterY == nCs - nY * Year
      nM == IF precise THEN 0 ELSE Take(afterY, Month)
      afterM == afterY - nM * Month
      nD == Take(afterM, Day)
      afterD == afterM - nD * Day
      nH == Take(afterD, Hour)
      afterH == afterD - nH * Hour
      nMin == Take(afterH, Minute)
  IN <<nY, nM, nD, nH, nMin, afterH - nMin * Minute>>

\* The numbers of some of the units in order, with a T in front of those of the time.
Put(h, units, i, rest) ==
  IF i \in units THEN Cons(Token(h[i], Letters[i]), rest) ELSE rest

Written(h, units) ==
  LET time == Put(h, units, 4, Put(h, units, 5, Put(h, units, 6, <<>>)))
  IN Put(h, units, 1, Put(h, units, 2, Put(h, units, 3,
       IF units \cap 4..6 = {} THEN <<>> ELSE Cons(TimeMark, time))))

\* Zero is PT0H0M0S.
centisecsToISODuration(n, precise) ==
  LET f == Fields(n, precise)
      units == {i \in 1..6 : f[i] > 0}
  IN Text(Written([i \in 1..6 |-> IF i = 6 THEN f[i] ELSE f[i] * Second],
                  IF units = {} THEN 4..6 ELSE units))

---------------------------------------------------------------------------
(* ISODurationToCentisec: a pass over the letters Y M D H M S, each looked *)
(* up in what is left of the text.  The number read for a letter is the    *)
(* one at the start of the text, whatever stands between them.             *)

Undefined == -1  \* the function returns nothing

\* An M with a T before it is not that of months.
\* Mutant: it is taken for it.
MinutesMeantNever(i, rest, p) == FALSE

MinutesMeant(i, rest, p) == i = 2 /\ \E j \in 1..(p - 1) : rest[j] = TimeMark

ReadLetter(s, i) ==
  LET dropT == i > 3 /\ s.rest # <<>> /\ Head(s.rest) = TimeMark
      rest == IF dropT THEN Tail(s.rest) ELSE s.rest
      seenT == s.seenT \/ dropT
      p == SelectInSeq(rest, LAMBDA t : t.u = Letters[i])
      n == IF i = 6 THEN Head(rest).n ELSE Whole(Head(rest)) * Worth[i]
  IN IF \/ s.bad
        \/ i <= 3 /\ rest # <<>> /\ Head(rest) = TimeMark
        \/ MinutesMeant(i, rest, p)
     THEN s
     ELSE IF p = 0 THEN [bad |-> FALSE, seenT |-> seenT, sum |-> s.sum, rest |-> rest]
     ELSE [bad |-> (i > 3 /\ ~seenT) \/ Head(rest) = TimeMark,
           seenT |-> seenT, sum |-> s.sum + n,
           rest |-> SubSeq(rest, p + 1, Len(rest))]

ISODurationToCentisec(text) ==
  LET start == [bad |-> ~text.has, seenT |-> FALSE, sum |-> 0, rest |-> text.toks]
      pass[i \in 0..6] == IF i = 0 THEN start ELSE ReadLetter(pass[i - 1], i)
  IN IF pass[6].bad \/ pass[6].rest # <<>> THEN Undefined ELSE pass[6].sum

---------------------------------------------------------------------------
(* The SCORM 1.2 format [HH]HH:MM:SS[.SS]: its parts, the last one in      *)
(* centiseconds.                                                           *)

centisecsToSCORM12Duration(n) ==
  LET nH == n \div Hour
      afterH == n - nH * Hour
      nM == afterH \div Minute
  IN <<IF nH > MaxHours THEN MaxHours ELSE nH, nM, afterH - nM * Minute>>

SCORM12DurationToCs(parts) ==
  CASE Len(parts) = 2 -> parts[2] + parts[1] * Minute
    [] Len(parts) = 3 -> parts[3] + parts[2] * Minute + parts[1] * Hour
    [] OTHER -> Undefined

---------------------------------------------------------------------------
(* prettyPeriod: the pattern takes, in the order Y M D T H M S, what comes  *)
(* next and is a whole number, nothing of the time without the T.  A text  *)
(* of which it takes no number is shown as it is.                          *)

Match(s, i) ==
  IF s.rest = <<>> \/ (i > 3 /\ ~s.timed) THEN s
  ELSE LET t == Head(s.rest)
       IN IF i = 0 /\ t = TimeMark THEN [timed |-> TRUE, words |-> s.words, rest |-> Tail(s.rest)]
          ELSE IF i > 0 /\ t.u = Letters[i] /\ t.n % Second = 0
          THEN [timed |-> s.timed, words |-> Append(s.words, <<Whole(t), i>>), rest |-> Tail(s.rest)]
          ELSE s

\* The numbers that are put in words, each with the place of its unit in Letters.
prettyPeriod(text) ==
  LET start == [timed |-> FALSE, words |-> <<>>, rest |-> text.toks]
      pattern == <<1, 2, 3, 0, 4, 5, 6>>
      taken[i \in 0..7] == IF i = 0 THEN start ELSE Match(taken[i - 1], pattern[i])
  IN taken[7].words

---------------------------------------------------------------------------
(* lib/geoul.sh.  secondsof rewrites the letters of the date and those of   *)
(* the time behind the first T to factors, with a space behind each, and    *)
(* adds the words up.  A word that is not a product of whole numbers adds   *)
(* nothing: a number with a fraction, or one to which a number that kept    *)
(* its letter, or a second T, is stuck.                                     *)

AddTerm(s, t) ==
  LET units == {i \in IF s.timed THEN 4..6 ELSE 1..3 : Letters[i] = t.u}
  IN IF t = TimeMark THEN [timed |-> TRUE, stuck |-> s.timed, sum |-> s.sum]
     ELSE IF units = {} THEN [s EXCEPT !.stuck = TRUE]
     ELSE [timed |-> s.timed, stuck |-> FALSE,
           sum |-> IF s.stuck \/ t.n % Second # 0 THEN s.sum
                   ELSE s.sum + Whole(t) * (Worth[CHOOSE i \in units : TRUE] \div Second)]

secondsof(text) ==
  LET word[j \in 0..Len(text.toks)] ==
        IF j = 0 THEN [timed |-> FALSE, stuck |-> FALSE, sum |-> 0]
        ELSE AddTerm(word[j - 1], text.toks[j])
  IN word[Len(text.toks)].sum

humaninterval(interval) ==
  LET n == IF interval < 0 THEN -interval ELSE interval
      hours == n \div (Hour \div Second)
      perDay == Day \div Hour
      f == <<0, 0, hours \div perDay, hours % perDay,
             (n % (Hour \div Second)) \div (Minute \div Second),
             (n % (Hour \div Second)) % (Minute \div Second)>>
  IN [has |-> interval >= 0,
      toks |-> Written([i \in 1..6 |-> f[i] * Second],
                       IF interval = 0 THEN {6} ELSE {i \in 1..6 : f[i] # 0})]
=============================================================================
