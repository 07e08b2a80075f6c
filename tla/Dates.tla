------------------------------- MODULE Dates -------------------------------
(***************************************************************************)
(* Instants and how the pages write and read them: isodate of lib/geoul.sh *)
(* writes; isoDate of status.js, parseISODate of datetime.js and           *)
(* DateFromISOString of ostynscormtime.js read; relativeDate, relative_time *)
(* and formatSeconds put an age in words.                                  *)
(*                                                                         *)
(* An instant is a number of milliseconds in UTC; a zone is the minutes it *)
(* is ahead of UTC.  A stamp has the reading of the clock on the wall, as  *)
(* an instant of UTC with the same reading, and the text of the zone.      *)
(* That a reading and its year, month, ... seconds are one-to-one is left  *)
(* to the Date object.                                                     *)
(***************************************************************************)
EXTENDS Integers

MsPerMinute == 60000
Ahead(zone) == zone * MsPerMinute

ZoneText(form, sign, hh, mm) == [form |-> form, sign |-> sign, hh |-> hh, mm |-> mm]
Zulu == ZoneText("Z", 1, 0, 0)
OffsetOf(z) == z.sign * (60 * z.hh + z.mm)

Stamp(wall, z) == [wall |-> wall, zone |-> z]

\* A Date is the set of its instant; an Invalid Date has none.
Date(t) == {t}
InvalidDate == {}

Abs(n) == IF n < 0 THEN -n ELSE n

\* date +%z, with a colon put before its last two digits; +00:00 becomes Z.
isodate(t, zone) ==
  Stamp(t + Ahead(zone),
        IF zone = 0 THEN Zulu
        ELSE ZoneText("hhmm", IF zone < 0 THEN -1 ELSE 1, Abs(zone) \div 60, Abs(zone) % 60))

\* status.js hands the reading to the Date constructor as GMT, with the offset if any.
\* Mutant: the zone is cut off with the part that is split away.
isoDateAsUTC(stamp) == Date(stamp.wall)

isoDate(stamp) == Date(stamp.wall - Ahead(OffsetOf(stamp.zone)))

\* datetime.js.  Every "-" becomes a "/", that of a negative offset too, which leaves no
\* date; hours "00" become "" and parse to NaN; without an offset the time is local.
\* The difference of the zones is added to a local reading.
parseISODate(stamp, viewer) ==
  LET z == stamp.zone
  IN IF z.form = "Z" THEN Date(stamp.wall - Ahead(viewer))
     ELSE IF z.sign = -1 \/ z.hh = 0 THEN InvalidDate
     ELSE Date(stamp.wall - Ahead(viewer) + Ahead(OffsetOf(z) - viewer))

---------------------------------------------------------------------------
(* MakeISOtimeStamp and DateFromISOString of ostynscormtime.js *)

\* Math.round
RoundDiv(a, b) == (2 * a + b) \div (2 * b)

\* The hours of the offset are rounded, not cut; minutes appear after positive offsets only.
OffsetText(zone) ==
  LET hours == RoundDiv(zone, 60)
  IN ZoneText(IF zone > 0 /\ zone % 60 > 0 THEN "hhmm" ELSE "hh",
              IF hours < 0 THEN -1 ELSE 1, Abs(hours),
              IF zone > 0 THEN zone % 60 ELSE 0)

\* Mutant: centiseconds are rounded and not carried into the second.
RoundedNoCarry(t, centisecs) ==
  LET nMs == t % 1000
  IN t - nMs + (IF centisecs THEN 10 * (RoundDiv(nMs, 10) % 100) ELSE 0)

\* To a centisecond: 995 ms and more are the next second, the rest is cut.  To a second:
\* the nearest.
Rounded(t, centisecs) ==
  LET nMs == t % 1000
  IN IF nMs > (IF centisecs THEN 994 ELSE 499) THEN t - nMs + 1000
     ELSE t - nMs + (IF centisecs THEN 10 * (nMs \div 10) ELSE 0)

MakeISOtimeStamp(t, relative, centisecs, viewer) ==
  LET at == Rounded(t, centisecs)
  IN IF relative THEN Stamp(at + Ahead(viewer), OffsetText(viewer)) ELSE Stamp(at, Zulu)

\* The offset only moves the present, whose fields are all overwritten by the reading.
DateFromISOString(stamp, viewer) ==
  IF stamp.zone.form = "Z" THEN Date(stamp.wall) ELSE Date(stamp.wall - Ahead(viewer))

---------------------------------------------------------------------------
(* Ages in words: so many of a unit of so many seconds. *)

Words(n, unit) == [n |-> n, unit |-> unit]
TheDate == Words(0, 0)  \* no wording: the date itself is shown
MinuteUnit == 60
HourUnit == 3600
DayUnit == 86400
WeekUnit == 7 * DayUnit
Claimed(words) == words.n * words.unit

\* Mutant: the weeks are rounded from the eighth day on.
relativeDateRounded(diff) ==
  LET day_diff == diff \div DayUnit
  IN CASE day_diff < 0 \/ day_diff >= 31 -> TheDate
       [] day_diff = 0 -> Words(diff \div HourUnit, HourUnit)
       [] day_diff \in 1..6 -> Words(day_diff, DayUnit)
       [] OTHER -> Words(RoundDiv(day_diff - 7, 7), WeekUnit)

\* datetime.js: diff is the age in seconds.
relativeDate(diff) ==
  LET day_diff == diff \div DayUnit
  IN CASE day_diff < 0 \/ day_diff >= 31 -> TheDate
       [] day_diff = 0 /\ diff < MinuteUnit -> Words(0, MinuteUnit)
       [] day_diff = 0 /\ diff >= MinuteUnit /\ diff < HourUnit
            -> Words(diff \div MinuteUnit, MinuteUnit)
       [] day_diff = 0 /\ diff >= HourUnit -> Words(diff \div HourUnit, HourUnit)
       [] day_diff \in 1..6 -> Words(day_diff, DayUnit)
       [] day_diff \in 7..10 -> Words(1, WeekUnit)
       [] OTHER -> Words(RoundDiv(day_diff, 7), WeekUnit)

\* blogger.js: the reading of a tweet's UTC clock is parsed as local time, and the
\* difference taken back from the age.  All in seconds.
\* Mutant: it is not taken back.
TweetAgeLocal(wall, now, viewer) == now - (wall - 60 * viewer)

TweetAge(wall, now, viewer) == now - (wall - 60 * viewer) - 60 * viewer

relative_time(wall, now, viewer) ==
  LET delta == TweetAge(wall, now, viewer)
  IN CASE delta < MinuteUnit -> Words(0, MinuteUnit)
       [] delta >= MinuteUnit /\ delta < HourUnit -> Words(delta \div MinuteUnit, MinuteUnit)
       [] delta >= HourUnit /\ delta < DayUnit -> Words(delta \div HourUnit, HourUnit)
       [] OTHER -> Words(delta \div DayUnit, DayUnit)

\* status.js: hours and minutes of an age in milliseconds.  parseInt reads the digits of
\* its argument: below a millionth they are those of 2.7e-7, 5.5e-7 and 8.3e-7.
Cut(a, b) == IF a < 0 THEN -((-a) \div b) ELSE a \div b
formatSeconds(ms) ==
  LET tiny == Abs(ms) \in 1..3
      minutes == Cut(ms, MsPerMinute)
  IN <<IF tiny THEN Cut(100 * ms, 36) ELSE Cut(minutes, 60),
       IF minutes < 0 THEN -((-minutes) % 60) ELSE minutes % 60>>
=============================================================================
