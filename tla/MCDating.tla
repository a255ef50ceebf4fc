----------------------------- MODULE MCDating -----------------------------
(* Dates in the two calendars, both kinds of digits and every kind of      *)
(* clock, the mistakable ones among them; entries and pages that have some *)
(* of them.                                                                *)
EXTENDS Dating

Printed(script, calendar, daysAgo, minute, clock) ==
    [script |-> script, calendar |-> calendar, day |-> Today - daysAgo * Day, shape |-> "whole",
     minute |-> minute, clock |-> clock, zone |-> "none"]

BsNamed == Printed("monthname", "bs", 0, 300, "plain")
BsNumbers == Printed("devanagari", "bs", 1, 60, "leading")
BsSpaced == Printed("monthname", "bs", 2, 317, "spaced")
BsAfternoon == Printed("devanagari", "bs", 2, 869, "meridiem")
BadClock == Printed("monthname", "bs", 1, 0, "wrong")
IsoLocal == Printed("ascii", "ad", 1, 869, "plain")
IsoUtc == [Printed("ascii", "ad", 2, 60, "leading") EXCEPT !.zone = "UTC"]
IsoSpaced == Printed("ascii", "ad", 3, 869, "spaced")

\* BS in ASCII digits, a Gregorian date in Nepali ones, day before month, a
\* clock alone, a zone of another name.
BsInAscii == Printed("ascii", "bs", 1, 0, "none")
AdInNepali == Printed("devanagari", "ad", 1, 0, "none")
DayFirst == [Printed("ascii", "ad", 3, 0, "none") EXCEPT !.shape = "dayfirst"]
ClockAlone == [Printed("ascii", "ad", 1, 700, "plain") EXCEPT !.shape = "clockonly"]
OtherZone == [Printed("ascii", "ad", 1, 700, "plain") EXCEPT !.zone = "other"]

Mistakable == {BsInAscii, AdInNepali, DayFirst, ClockAlone, OtherZone}
OneOf == {NoDate, BsNamed, BsNumbers, BsSpaced, BsAfternoon, BadClock, IsoLocal, IsoUtc, IsoSpaced} \cup Mistakable

MCEntries ==
    [times : {<<NoDate, NoDate>>, <<500, -100>>, <<NoDate, -100>>},
     texts : {<<text, NoDate>> : text \in OneOf} \cup {<<NoDate, IsoUtc>>, <<IsoSpaced, BsNumbers>>}]

Object(rank, date) == [rank |-> rank, date |-> date]
MCPages ==
    [element : OneOf, objects : {<< >>, <<Object(4, IsoLocal), Object(0, BsNumbers)>>,
                                 <<Object(1, NoDate), Object(4, IsoUtc), Object(1, BsNamed)>>,
                                 <<Object(3, IsoUtc), Object(3, IsoLocal)>>, <<Object(0, BadClock)>>}]

=============================================================================
