---------------------------- MODULE MCTimeTexts ----------------------------
(* Model checking of TimeTexts, on units that keep the proportions that matter: a   *)
(* year of two months, a month of some days and hours, a day of three hours.      *)
EXTENDS TimeTexts

MCKinds == {"length", "instant", "age", "text"}
MCLengths == 0..740
\* Around the seconds of a minute, where they are rounded.
MCMoments == {s * 1000 + ms : s \in {0, 58, 59, 60},
                              ms \in {0, 4, 5, 9, 10, 494, 499, 500, 501, 990, 994, 995, 999}}
\* Around the bounds of every wording.
MCAges == {s + d : s \in {60 * m : m \in {1, 2, 30, 59, 60, 61, 119, 120, 121}}
                            \cup {HourUnit * h : h \in {3, 23, 24, 25, 47, 48}}
                            \cup {DayUnit * d : d \in 1..33},
                   d \in {-1, 0, 1}}
\* Seoul, UTC, Kolkata, Kathmandu, New York, Newfoundland.
MCZones == {540, 0, 330, 345, -300, -210}
MCServerZones == {540, 0, 330, -300}
=============================================================================
