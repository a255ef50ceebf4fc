------------------------------ MODULE Dating ------------------------------
(***************************************************************************)
(* When an article was published: app/parsing/dates.py, and how            *)
(* ingestion/rss.py, ingestion/html.py, parsing/article.py and             *)
(* pipeline/normalize.py settle on one of the dates they find.             *)
(*                                                                         *)
(* Times are minutes, 0 is now.  A date as it is printed is a record: the  *)
(* script that shows its calendar (a Nepali month name, or anything else   *)
(* in one of the two kinds of digits) and the calendar the outlet meant;   *)
(* the day it stands for, by its midnight, and whether its numbers name    *)
(* that day alone; the minute of that day, how its clock is printed, and   *)
(* the zone it names, if any.  What a parser makes of it is seldom all of  *)
(* this: a clock it cannot see is midnight, a day it cannot see is today,  *)
(* and nothing of the result tells.                                        *)
(***************************************************************************)
EXTENDS Integers, Sequences, FiniteSets

CONSTANTS NoDate,
          Entries,      \* of feeds and listings: feedparser's two times in UTC,
                        \* and the two texts; NoDate where there is none
          Pages,        \* article pages: the date element, and the JSON-LD objects
          Offset,       \* Asia/Kathmandu is this much ahead of UTC
          Elsewhere,    \* and the zone of a name dateutil does not know, this much
          Gap,          \* the Bikram Sambat calendar is this much ahead of ours
          Swap,         \* from 3/9 read day first to 3/9 read month first
          SinceMidnight,
          Day, Hour,    \* a day, and the tolerance of is_implausible
          Since2000     \* minutes since the year 2000 began

Scripts == {"monthname", "devanagari", "ascii"}

\* `whole` is year, month and day in an order that leaves no choice; `dayfirst`
\* is 3/9/2026 of the third of September; `clockonly` is 14:29 with no day.
Shapes == {"whole", "dayfirst", "clockonly"}

\* 14:29 behind the date, 14 : 29, 14:29 before the date, 2:29 PM, no clock,
\* and two numbers that are none (24:10).
Clocks == {"plain", "spaced", "leading", "meridiem", "none", "wrong"}

\* A Nepali month belongs to the Nepali calendar, and a date in Nepali digits
\* is in Nepal's zone.
Texts == {d \in [script : Scripts, calendar : {"bs", "ad"}, day : Int, shape : Shapes,
                 minute : Int, clock : Clocks, zone : {"none", "UTC", "other"}] :
            /\ d.minute \in 0..(Day - 1)
            /\ d.script # "ascii" => d.zone = "none"
            /\ d.script = "monthname" => d.calendar = "bs" /\ d.shape = "whole"
            /\ d.shape = "clockonly" => d.clock # "none"}

ASSUME UnitsAssumption == {Offset, Elsewhere, Swap} \subseteq Int /\ {SinceMidnight, Gap, Hour, Since2000} \subseteq Nat
ASSUME DayAssumption == Day = 24 * 60
ASSUME NoDateAssumption == NoDate \notin Int /\ NoDate \notin Texts
ASSUME EntriesAssumption == \A entry \in Entries : \A i \in {1, 2} :
    entry.times[i] \in Int \cup {NoDate} /\ entry.texts[i] \in Texts \cup {NoDate}
ASSUME PagesAssumption == \A page \in Pages :
    /\ page.element \in Texts \cup {NoDate}
    /\ \A i \in DOMAIN page.objects : page.objects[i].date \in Texts \cup {NoDate}

VARIABLES
    given,  \* what the outlet publishes of the article, and the source's configuration
    pc,
    item,   \* RawItem: published, published_estimated
    from    \* history: the text `published` was read from; NoDate if none was

datingVars == <<given, pc, item, from>>

Today == -SinceMidnight
Ahead(zone) == CASE zone = "none" -> Offset [] zone = "other" -> Elsewhere [] zone = "UTC" -> 0
Instant(wall, zone) == wall - Ahead(zone)
Meant(d) == Instant(d.day + d.minute, d.zone)

-----------------------------------------------------------------------------
(* dates.py.  A parser gives [ok |-> TRUE, at |-> instant]; Unparseable    *)
(* stands for DateParseError, Raises for any other exception.              *)

Parsed(at) == [ok |-> TRUE, at |-> at]
Unparseable == [ok |-> FALSE, raised |-> FALSE]
Raises == [ok |-> FALSE, raised |-> TRUE]

\* Which strings parse_bs_datetime takes for Bikram Sambat: year, month and day
\* with a month of its own, or all in digits, and these not ASCII.
LooksBikramSambatUngated(d) == d.shape = "whole"     \* mutant: all-numeric dates are not gated on their digits
LooksBikramSambat(d) == d.shape = "whole" /\ d.script \in {"monthname", "devanagari"}

\* 2:29 PM without its PM.
HalfDay(m) == IF m >= 13 * 60 THEN m - 12 * 60 ELSE IF m < 60 THEN m + 12 * 60 ELSE m

\* Only a clock behind the date, without spaces, is looked for; else midnight.
BsMinute(d) ==
    CASE d.clock = "plain" -> d.minute
      [] d.clock = "meridiem" -> HalfDay(d.minute)
      [] OTHER -> 0

\* The final datetime(...) stands outside the try of the conversion.
ParseBs(d) ==
    IF ~LooksBikramSambat(d) THEN Unparseable
    ELSE IF d.clock = "wrong" THEN Raises
    ELSE Parsed(Instant((IF d.calendar = "ad" THEN d.day - Gap ELSE d.day) + BsMinute(d), "none"))

\* dateutil: a number is a number in our calendar, the month is the first of
\* two that may be one, and what is missing is today's; a zone whose name it
\* does not know is dropped, and Nepal's is put in its place.
IsoDay(d) ==
    CASE d.shape = "clockonly" -> Today
      [] OTHER -> d.day + (IF d.shape = "dayfirst" THEN Swap ELSE 0) + (IF d.calendar = "bs" THEN Gap ELSE 0)

ParseIso(d) ==
    IF d.script = "monthname" \/ d.clock \in {"spaced", "wrong"} THEN Unparseable
    ELSE Parsed(Instant(IsoDay(d) + (IF d.clock = "none" THEN 0 ELSE d.minute),
                        IF d.zone = "UTC" THEN "UTC" ELSE "none"))

ParseDatetime(d, fmt) ==
    IF fmt = "bs" THEN ParseBs(d)
    ELSE IF fmt = "auto" /\ ParseBs(d) # Unparseable THEN ParseBs(d)
    ELSE ParseIso(d)

\* The first that is there: two times of feedparser, then the two texts.
FirstOf(S) == IF 1 \in S THEN 1 ELSE 2
FeedTimes(entry) == {i \in {1, 2} : entry.times[i] # NoDate}
FeedText(entry) ==
    LET texts == {i \in {1, 2} : entry.texts[i] # NoDate /\ ParseDatetime(entry.texts[i], "auto") # Unparseable}
    IN IF FeedTimes(entry) = {} /\ texts # {} THEN entry.texts[FirstOf(texts)] ELSE NoDate

ParseFeed(entry) ==
    IF FeedTimes(entry) # {} THEN Parsed(Instant(entry.times[FirstOf(FeedTimes(entry))], "UTC"))
    ELSE IF FeedText(entry) # NoDate THEN ParseDatetime(FeedText(entry), "auto")
    ELSE Unparseable

IsImplausible(at) == at > Hour \/ at < -Since2000

-----------------------------------------------------------------------------
(* article.py: what the selector pack finds of the date on the page.       *)

\* jsonld_value: the best of the article types first, the first object that
\* has the field.
JsonLd(objects) ==
    LET having == {i \in DOMAIN objects : objects[i].date # NoDate}
        best == {i \in having : \A j \in having :
                    \/ objects[i].rank < objects[j].rank
                    \/ objects[i].rank = objects[j].rank /\ i <= j}
    IN IF best = {} THEN NoDate ELSE objects[CHOOSE i \in best : TRUE].date

\* JSON-LD is read before the exclusions remove the scripts.
PageText(page, pack) == IF pack.jsonld THEN JsonLd(page.objects) ELSE page.element

-----------------------------------------------------------------------------
\* RSSScraper.fetch: an implausible date of the feed is discarded.
ReadEntry ==
    /\ pc = "listed" /\ given.method = "rss"
    /\ LET date == ParseFeed(given.entry) IN
       /\ pc' = IF ~date.ok /\ date.raised THEN "failed" ELSE "fresh"
       /\ item' = [item EXCEPT !.published = IF ~date.ok \/ IsImplausible(date.at) THEN NoDate ELSE date.at]
       /\ from' = IF ~date.ok \/ IsImplausible(date.at) THEN NoDate ELSE FeedText(given.entry)
    /\ UNCHANGED given

\* HTMLScraper.fetch: the date of the listing, as it is.
ReadCard ==
    /\ pc = "listed" /\ given.method = "html"
    /\ LET text == given.entry.texts[1]
           date == IF text = NoDate THEN Unparseable ELSE ParseDatetime(text, given.pack.format)
       IN /\ pc' = IF ~date.ok /\ date.raised THEN "failed" ELSE "fresh"
          /\ item' = [item EXCEPT !.published = IF date.ok THEN date.at ELSE NoDate]
          /\ from' = IF date.ok THEN text ELSE NoDate
    /\ UNCHANGED given

\* fetch_body and extract: the page fills the gap.
FetchBody ==
    /\ pc = "fresh"
    /\ LET text == PageText(given.page, given.pack)
           date == IF text = NoDate THEN Unparseable ELSE ParseDatetime(text, given.pack.format)
       IN /\ pc' = IF ~date.ok /\ date.raised THEN "failed" ELSE "read"
          /\ item' = [item EXCEPT !.published = IF date.ok /\ @ = NoDate THEN date.at ELSE @]
          /\ from' = IF date.ok /\ item.published = NoDate THEN text ELSE from
    /\ UNCHANGED given

\* No page: bodies are off or beyond the bound, or the request fails.
SkipBody ==
    /\ pc = "fresh"
    /\ pc' = "unread"
    /\ UNCHANGED <<given, item, from>>

\* normalize: the fetch time, marked as such, where there is no date.
Normalize ==
    /\ pc \in {"read", "unread"}
    /\ pc' = IF pc = "read" THEN "stored" ELSE "stored_unread"
    /\ item' = IF item.published = NoDate THEN [published |-> 0, estimated |-> TRUE] ELSE item
    /\ UNCHANGED <<given, from>>

-----------------------------------------------------------------------------
Packs == [jsonld : BOOLEAN, format : {"auto", "bs", "iso"}]

\* A pack has the format of the dates it selects: `iso` not for Nepali digits.
Fits(pack, text) == text # NoDate => (pack.format = "iso" => text.script # "devanagari")

DatingInit ==
    /\ given \in [method : {"rss", "html"}, entry : Entries, page : Pages, pack : Packs]
    /\ \A text \in {given.entry.texts[1], PageText(given.page, given.pack)} : Fits(given.pack, text)
    /\ given.method = "html" => given.entry.times = <<NoDate, NoDate>>
    /\ pc = "listed" /\ item = [published |-> NoDate, estimated |-> FALSE] /\ from = NoDate

DatingNext == ReadEntry \/ ReadCard \/ FetchBody \/ SkipBody \/ Normalize
DatingSpec == DatingInit /\ [][DatingNext]_datingVars

-----------------------------------------------------------------------------
(* Properties.                                                             *)

\* The dates that leave no choice: whole, in the calendar their script is for,
\* in a zone that is known.
Unmistakable(d) ==
    /\ d.shape = "whole" /\ d.zone # "other"
    /\ d.calendar = IF d.script = "ascii" THEN "ad" ELSE "bs"

\* The clocks that are read as they are printed: behind a Nepali date one
\* without spaces and of 24 hours, beside another date every one that is there.
Legible(d) == d.clock \in IF d.script = "ascii" THEN {"plain", "leading", "meridiem"} ELSE {"plain"}

OnItsDay(at, d) == Instant(d.day, d.zone) <= at /\ at < Instant(d.day, d.zone) + Day

\* A date that is not marked as estimated is a time of the feed, to the
\* minute, or comes from a text the outlet printed: on the day this names, if
\* it names one beyond doubt, in the calendar and the zone it means, and at
\* the minute it names, if its clock is one the parser sees.  An estimated
\* date is the fetch time, and then a page that was read gave no date the
\* parser could make sense of.
DatesAreMeant ==
    pc \in {"stored", "stored_unread"} =>
        IF item.estimated
        THEN /\ item.published = 0
             /\ pc = "stored" => LET text == PageText(given.page, given.pack) IN
                    text = NoDate \/ ~ParseDatetime(text, given.pack.format).ok
        ELSE \/ /\ from = NoDate
                /\ \E i \in FeedTimes(given.entry) : item.published = Instant(given.entry.times[i], "UTC")
             \/ /\ from \in {given.entry.texts[1], given.entry.texts[2], PageText(given.page, given.pack)} \ {NoDate}
                /\ Unmistakable(from) => /\ OnItsDay(item.published, from)
                                         /\ Legible(from) => item.published = Meant(from)

\* "published_at resolves in order: the feed date if plausible, the article
\* page date, fetch time": whatever the outlet prints, the article is dated.
DatesResolve == pc # "failed"

=============================================================================
