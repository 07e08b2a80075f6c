----------------------------- MODULE TimeTexts -----------------------------
(***************************************************************************)
(* The durations and dates of Durations and Dates over the times at which  *)
(* they are written and read.  A behaviour is of one kind: a length of time *)
(* that grows, an instant that is stamped by the server and read by a       *)
(* visitor, an age that a page keeps putting in words, or a duration that  *)
(* somebody types into a package's frequency.                              *)
(***************************************************************************)
EXTENDS Durations, Dates

CONSTANTS Kinds,           \* the kinds of behaviours to look at
          Lengths,         \* lengths of time, in centiseconds
          Moments,         \* instants, in milliseconds
          Ages,            \* ages, in seconds
          Zones,           \* the zones of visitors
          ServerZones,     \* the zones the server may be in
          Numbers,         \* the whole numbers that are typed
          MaxTokens        \* bound on the length of a typed text

ASSUME TimeTextsAssumption == /\ Lengths \cup Moments \cup Ages \subseteq Nat
                              /\ Zones \cup ServerZones \subseteq Int
                              /\ Numbers \subseteq Nat /\ MaxTokens \in Nat

VARIABLES kind, n, viewer, server, text

vars == <<kind, n, viewer, server, text>>

Values(k) == CASE k = "length" -> Lengths
               [] k = "instant" -> Moments
               [] k = "age" -> Ages
               [] OTHER -> {}

Tokens == {TimeMark, Token(1, "S")}
            \cup {Token(k * Second, u) : k \in Numbers, u \in {"Y", "M", "D", "H", "M", "S"}}

Init == /\ kind \in Kinds
        /\ n = 0
        /\ viewer \in IF kind = "instant" THEN Zones ELSE {0}
        /\ server \in IF kind = "instant" THEN ServerZones ELSE {0}
        /\ text = Text(<<>>)

\* Some time goes by until the next look; a page that sleeps misses some.
Pass == /\ n' \in {m \in Values(kind) : m > n}
        /\ UNCHANGED <<kind, viewer, server, text>>

Type(token) == /\ kind = "text"
               /\ Len(text.toks) < MaxTokens
               /\ text' = Text(Append(text.toks, token))
               /\ UNCHANGED <<kind, n, viewer, server>>

Next == Pass \/ \E token \in Tokens : Type(token)

Spec == Init /\ [][Next]_vars

---------------------------------------------------------------------------
(* What a text of the XML Schema means. *)

Timed(toks, j) == \E k \in 1..(j - 1) : toks[k] = TimeMark

\* The place of a number's letter among Letters; none is 0.
Place(toks, j) ==
  LET units == {i \in IF Timed(toks, j) THEN 4..6 ELSE 1..3 : Letters[i] = toks[j].u}
  IN IF units = {} THEN 0 ELSE CHOOSE i \in units : TRUE

NumbersOf(toks) == {j \in DOMAIN toks : toks[j] # TimeMark}

\* Numbers in the order of their units, and a T in front of those of the time.
WellFormed(toks) ==
  /\ toks # <<>> /\ toks[Len(toks)] # TimeMark
  /\ \A j \in DOMAIN toks : toks[j] = TimeMark => ~Timed(toks, j)
  /\ \A j \in NumbersOf(toks) : /\ Place(toks, j) # 0
                                /\ Place(toks, j) = 6 \/ toks[j].n % Second = 0
                                /\ \A k \in NumbersOf(toks) :
                                     j < k => Place(toks, j) < Place(toks, k)

\* What the number of a unit is worth; there is one at most.
Amount(toks, i) ==
  LET at == {j \in NumbersOf(toks) : Place(toks, j) = i}
  IN IF at = {} THEN 0 ELSE (toks[CHOOSE j \in at : TRUE].n * Worth[i]) \div Second

Meaning(toks) == Amount(toks, 1) + Amount(toks, 2) + Amount(toks, 3)
                   + Amount(toks, 4) + Amount(toks, 5) + Amount(toks, 6)

WholeSeconds(toks) == \A j \in NumbersOf(toks) : toks[j].n % Second = 0

---------------------------------------------------------------------------
(* Properties *)

TypeOK == /\ kind \in Kinds
          /\ n \in Nat
          /\ viewer \in Zones \cup {0}
          /\ server \in ServerZones \cup {0}

\* The fields of a length of time add up to it, and none could have been larger: what is
\* left for the smaller units is less than one of it.
AddsUp(f, m) ==
  m = f[1] * Year + f[2] * Month + f[3] * Day + f[4] * Hour + f[5] * Minute + f[6]

Greedy(f) ==
  /\ f[2] * Month + f[3] * Day + f[4] * Hour + f[5] * Minute + f[6] < Year
  /\ f[3] * Day + f[4] * Hour + f[5] * Minute + f[6] < Month
  /\ f[4] * Hour + f[5] * Minute + f[6] < Day
  /\ f[5] * Minute + f[6] < Hour
  /\ f[6] < Minute

FieldsCanonical == kind = "length" => /\ AddsUp(Fields(n, TRUE), n)
                                      /\ AddsUp(Fields(n, FALSE), n)
                                      /\ Greedy(Fields(n, FALSE))
                                      /\ \A i \in 1..6 : Fields(n, FALSE)[i] \in Nat

\* Whatever writes a length of time, whatever reads it gets it back: the library's two
\* formats (SCORM 1.2 up to its last hour), and the intervals of the sync messages, which
\* the page reads as the scripts do.
DurationReadsBack ==
  kind = "length" =>
    /\ \A precise \in BOOLEAN : ISODurationToCentisec(centisecsToISODuration(n, precise)) = n
    /\ n < (MaxHours + 1) * Hour
         => SCORM12DurationToCs(centisecsToSCORM12Duration(n)) = n
    /\ n % Second = 0 => /\ secondsof(humaninterval(n \div Second)) = n \div Second
                         /\ ISODurationToCentisec(humaninterval(n \div Second)) = n

\* A frequency in the XML Schema's form is the same period to the retry schedule
\* (secondsof), to the status page (ISODurationToCentisec) and, word for word, on the
\* contents page (prettyPeriod), though each parses it in its own way.
FrequencyAgreed ==
  kind = "text" /\ WellFormed(text.toks) =>
    /\ ISODurationToCentisec(text) = Meaning(text.toks)
    /\ WholeSeconds(text.toks) =>
         /\ secondsof(text) * Second = Meaning(text.toks)
         /\ ToSet(prettyPeriod(text)) =
              {<<Whole(text.toks[j]), Place(text.toks, j)>> : j \in NumbersOf(text.toks)}

\* The status page reads a stamp of the server right wherever it is viewed.  The contents
\* page does so where the visitor's clock has the server's zone and that is UTC or an hour
\* or more ahead of it.
StampsReadRight ==
  kind = "instant" =>
    LET stamp == isodate(n, server)
    IN /\ isoDate(stamp) = Date(n)
       /\ viewer = server /\ (server = 0 \/ server >= 60) => parseISODate(stamp, viewer) = Date(n)

\* A stamp of MakeISOtimeStamp is read back at home to its precision, although the text of
\* a zone that is not of whole hours is wrong: DateFromISOString does not use it.
StampReadsBack ==
  kind = "instant" =>
    \A relative, centisecs \in BOOLEAN :
      \E t \in DateFromISOString(MakeISOtimeStamp(n, relative, centisecs, viewer), viewer) :
        IF centisecs THEN t - n \in -9..5 ELSE t - n \in -499..500

\* An age in words is true to the unit it is put in, weeks to the nearest, a visitor's zone
\* does not change that of a tweet, and the status page's hours and minutes lose no minute
\* (up to 24 days, what milliseconds in TLC's integers hold).
WordingHonest ==
  kind = "age" =>
    LET true(words) == n - Claimed(words) \in
                         IF words.unit = WeekUnit THEN -(3 * DayUnit)..(4 * DayUnit - 1)
                         ELSE 0..(words.unit - 1)
    IN /\ relativeDate(n) = TheDate \/ true(relativeDate(n))
       /\ \A zone \in Zones : true(relative_time(0, n, zone))
       /\ n < 24 * DayUnit => LET f == formatSeconds(1000 * n)
                              IN 60 * f[1] + f[2] = n \div MinuteUnit /\ f[2] \in 0..59

\* Time does not run backwards on a page that stays open: rewritten every minute, an age
\* only ever grows, or gives way to the date for good.
AgesGrow ==
  [][kind = "age" =>
       LET before == relativeDate(n) after == relativeDate(n')
       IN /\ before = TheDate => after = TheDate
          /\ after # TheDate => Claimed(before) <= Claimed(after)]_vars

\* Code for parsing date/times in ISO 8601 format (datetime.js:7): the contents page shows
\* a stamp of the server as the instant it stands for.
ContentsDateRight == kind = "instant" => parseISODate(isodate(n, server), viewer) = Date(n)
=============================================================================
