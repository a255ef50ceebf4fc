------------------------------- MODULE Bipad -------------------------------
(***************************************************************************)
(* app/ingestion/bipad.py fetch_incidents: a crawl of the portal's         *)
(* incidents by offset, while incidents are reported and verified.  The    *)
(* portal is not under src/: it lists incidents in an order of its own and *)
(* gives a link to a next page even where there is none.                   *)
(***************************************************************************)
EXTENDS Integers, Sequences, FiniteSets, SequencesExt

Lesser(m, n) == IF m < n THEN m ELSE n
Larger(m, n) == IF m < n THEN n ELSE m

CONSTANTS Incidents,
          PageSize,     \* PAGE_SIZE
          MaxPages,     \* MAX_PAGES
          VerifiedOnly  \* not --include-unverified

ASSUME SizesAssumption == PageSize \in Nat \ {0} /\ MaxPages \in Nat \ {0}
ASSUME ModeAssumption == VerifiedOnly \in BOOLEAN

VARIABLES
    portal,     \* the incidents in the order the portal lists them
    verified,   \* those that are verified and approved
    stuck,      \* the portal ignores the offset
    crawl,      \* the locals of _paginate
    yielded,    \* how many results fetch_incidents went through
    read,       \* which incidents these were
    output,     \* the incidents of the output
    present,    \* history: incidents to be output that were there at the start
    reported    \* history: incidents reported since

world == <<portal, verified, stuck>>
reader == <<crawl, yielded, read, output>>
portalVars == <<world, reader, present, reported>>

Listing == {portal[i] : i \in DOMAIN portal}

-----------------------------------------------------------------------------
Report(r, i) ==
    /\ r \notin Listing
    /\ portal' = InsertAt(portal, i + 1, r)
    /\ reported' = IF crawl.pc = "reading" THEN reported + 1 ELSE reported
    /\ UNCHANGED <<verified, stuck, reader, present>>

Verify(r) ==
    /\ r \in Listing \ verified
    /\ verified' = verified \cup {r}
    /\ UNCHANGED <<portal, stuck, reader, present, reported>>

\* verified_only: citizen reports are left out until someone verifies them.
Wanted(results) == IF VerifiedOnly THEN results \cap verified ELSE results

\* The first request, of incident_url.
StartCrawl ==
    /\ crawl.pc = "idle"
    /\ crawl' = [crawl EXCEPT !.pc = "reading"]
    /\ present' = Wanted(Listing)
    /\ UNCHANGED <<world, yielded, read, output, reported>>

\* The results of the request at the crawl's offset.
Results ==
    LET from == IF stuck THEN 0 ELSE crawl.offset IN
    {portal[i] : i \in {j \in DOMAIN portal : from < j /\ j <= from + PageSize}}

\* An empty page ends the crawl.
EndCrawl ==
    /\ crawl.pc = "reading" /\ Results = {}
    /\ crawl' = [crawl EXCEPT !.pc = "done"]
    /\ UNCHANGED <<world, yielded, read, output, present, reported>>

\* Where the crawl goes on after a page, if it does.
ContinueUncapped(link) ==       \* mutant: no MAX_PAGES
    crawl' = [offset |-> Lesser(crawl.offset + PageSize, MaxPages * PageSize),
              pages |-> Lesser(crawl.pages + 1, MaxPages),
              pc |-> IF link THEN "reading" ELSE "done"]
ContinueOverlapping(link) ==    \* mutant: the next page begins with the last result
    crawl' = [offset |-> crawl.offset + Larger(PageSize - 1, 1), pages |-> crawl.pages + 1,
              pc |-> IF ~link THEN "done"
                     ELSE IF crawl.pages + 1 >= MaxPages THEN "capped" ELSE "reading"]
ContinuePastOne(link) ==        \* mutant: offsets count from one
    crawl' = [offset |-> crawl.offset + PageSize + 1, pages |-> crawl.pages + 1,
              pc |-> IF ~link THEN "done"
                     ELSE IF crawl.pages + 1 >= MaxPages THEN "capped" ELSE "reading"]
Continue(link) ==
    crawl' = [offset |-> crawl.offset + PageSize, pages |-> crawl.pages + 1,
              pc |-> IF ~link THEN "done"
                     ELSE IF crawl.pages + 1 >= MaxPages THEN "capped" ELSE "reading"]

\* A page with results; link says whether `next` is there.  Only a portal that
\* counts its incidents ever leaves it out, after the last of them.  (MaxPages
\* pages never yield more than the bound on yielded.)
ReadPage(link) ==
    /\ crawl.pc = "reading" /\ Results # {}
    /\ ~link => ~stuck /\ crawl.offset + PageSize >= Len(portal)
    /\ yielded' = Lesser(yielded + Cardinality(Results), MaxPages * PageSize)
    /\ read' = read \cup Results
    /\ output' = output \cup Wanted(Results)
    /\ Continue(link)
    /\ UNCHANGED <<world, present, reported>>

\* FetchError, no JSON, or no `results` key: BipadError, and nothing is output.
FailCrawl ==
    /\ crawl.pc = "reading"
    /\ crawl' = [crawl EXCEPT !.pc = "failed"]
    /\ output' = {}
    /\ UNCHANGED <<world, yielded, read, present, reported>>

-----------------------------------------------------------------------------
PortalInit ==
    /\ portal = << >> /\ verified = {} /\ stuck \in BOOLEAN
    /\ crawl = [pc |-> "idle", offset |-> 0, pages |-> 0]
    /\ yielded = 0 /\ read = {} /\ output = {} /\ present = {} /\ reported = 0

\* A request that does not fail.
Crawl == EndCrawl \/ \E link \in BOOLEAN : ReadPage(link)

PortalNext ==
    \/ \E r \in Incidents : Verify(r) \/ \E i \in 0..Len(portal) : Report(r, i)
    \/ StartCrawl \/ Crawl \/ FailCrawl

PortalSpec == PortalInit /\ [][PortalNext]_portalVars

-----------------------------------------------------------------------------
(* Properties.                                                             *)

\* A crawl that ends by itself has output every incident that was listed, and
\* verified if that is asked, when it began, although offsets shift under it.
CrawlComplete == crawl.pc = "done" /\ ~stuck => present \subseteq output

\* An incident is read twice only because others were reported meanwhile: the
\* repetitions are never more than the reports.
RepeatsExplained == ~stuck => yielded - Cardinality(read) <= reported

\* "Guard against an unbounded crawl": a crawl ends, although the portal
\* always gives a next link, and even if it never gives an empty page.
CrawlEnds == crawl.pc = "reading" ~> crawl.pc # "reading"

=============================================================================
