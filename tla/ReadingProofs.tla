--------------------------- MODULE ReadingProofs ---------------------------
(***************************************************************************)
(* What reads and is read: a walk by next_cursor repeats and skips no row; *)
(* a crawl of the BIPAD portal outputs what was there, and repeats only    *)
(* what reports pushed back; a date is on the day the outlet printed, if   *)
(* that is beyond doubt; the term index loses no match, dampening raises   *)
(* no grade, and keywords are the article's own phrases.                   *)
(***************************************************************************)
EXTENDS ArticlesApi, Bipad, Dating, Analysis,
        FiniteSetTheorems, SequenceTheorems, WellFoundedInduction, TLAPS

Walks == {"idle", "walking", "done"}

\* Ids come from one counter: an open row is not a committed one.
TablesTyped ==
    /\ visible \subseteq Ids /\ open \subseteq Ids /\ nextId \in Nat \ {0}
    /\ \A i \in visible \cup open : i < nextId
    /\ visible \cap open = {}
    /\ DOMAIN grade = Ids

WalkTyped ==
    /\ DOMAIN walk = {"pc", "before", "limit", "filter"}
    /\ walk.pc \in Walks /\ walk.before \in Nat /\ walk.limit \in Nat \ {0}
    /\ times \in [Ids -> Nat] /\ steady \subseteq Ids

\* The cursor stands at or below everything that was given.
CursorBelow ==
    \A i \in Ids :
        /\ times[i] <= 1
        /\ walk.pc = "idle" => times[i] = 0
        /\ walk.pc = "walking" /\ times[i] > 0 => walk.before # 0 /\ walk.before <= i

\* What has to be given and was not is still ahead of the cursor.
StillAhead ==
    /\ walk.pc = "walking" =>
        \A i \in steady :
            /\ i \in Matching(walk.filter)
            /\ times[i] > 0 \/ (walk.before # 0 => i < walk.before)
    /\ NothingSkipped

IInv == TablesTyped /\ WalkTyped /\ CursorBelow /\ StillAhead

-----------------------------------------------------------------------------
(* Finite sets of ids and the page.                                        *)

LEMMA IdsAreNat == \A i \in Ids : i \in Nat \ {0} /\ MaxId - i \in Nat
  BY MaxIdAssumption DEF Ids

LEMMA IdsFinite ==
  ASSUME NEW S \in SUBSET Ids
  PROVE  IsFiniteSet(S) /\ Cardinality(S) \in Nat
  <1>1. IsFiniteSet(Ids)
    <2>1. MaxId \in Int /\ 1 \in Int
      BY MaxIdAssumption
    <2> QED
      BY <2>1, FS_Interval DEF Ids
  <1>2. IsFiniteSet(S)
    BY <1>1, FS_Subset
  <1> QED
    BY <1>2, FS_CardinalityType

LEMMA LeastId ==
  ASSUME NEW S \in SUBSET Nat, S # {}
  PROVE  \E x \in S : \A y \in S : x <= y
  <1>1. \E x \in S : \A y \in S : <<y, x>> \notin OpToRel(<, Nat)
    BY NatLessThanWellFounded, WFMin
  <1>2. PICK x \in S : \A y \in S : <<y, x>> \notin OpToRel(<, Nat)
    BY <1>1
  <1>3. ASSUME NEW y \in S PROVE x <= y
    <2>1. ~(y < x)
      <3> SUFFICES ASSUME y < x PROVE <<y, x>> \in OpToRel(<, Nat)
        BY <1>2
      <3> QED
        BY DEF OpToRel
    <2> QED
      BY <2>1
  <1> QED
    BY <1>3

LEMMA GreatestId ==
  ASSUME NEW S \in SUBSET Ids, S # {}
  PROVE  \E x \in S : \A y \in S : y <= x
  <1> DEFINE T == {MaxId - i : i \in S}
  <1>1. T \in SUBSET Nat /\ T # {}
    BY IdsAreNat
  <1>2. PICK m \in T : \A n \in T : m <= n
    BY <1>1, LeastId
  <1>3. PICK x \in S : m = MaxId - x
    BY <1>2
  <1>4. \A y \in S : MaxId - x <= MaxId - y
    BY <1>2, <1>3
  <1> QED
    BY <1>3, <1>4, IdsAreNat, MaxIdAssumption

\* The candidates that come before i on the pages.
Newer(C, i) == {j \in C : j > i}

LEMMA NewerMonotone ==
  ASSUME NEW C \in SUBSET Ids, NEW i \in Ids, NEW k \in Ids, k <= i
  PROVE  Cardinality(Newer(C, i)) <= Cardinality(Newer(C, k))
  <1>1. Newer(C, i) \subseteq Newer(C, k) /\ Newer(C, k) \in SUBSET Ids
    BY IdsAreNat DEF Newer
  <1> QED
    BY <1>1, IdsFinite, FS_Subset

\* A page is closed under what is newer.
LEMMA PageClosed ==
  ASSUME Candidates \subseteq Ids, WalkTyped, NEW i \in Candidates, NEW p \in Page, p <= i
  PROVE  i \in Page
  <1>1. Cardinality(Newer(Candidates, p)) < walk.limit /\ p \in Ids
    BY DEF Page, Newer
  <1>2. Cardinality(Newer(Candidates, i)) <= Cardinality(Newer(Candidates, p))
    BY <1>1, NewerMonotone
  <1>3. Newer(Candidates, i) \in SUBSET Ids /\ Newer(Candidates, p) \in SUBSET Ids
    BY DEF Newer
  <1>4. Cardinality(Newer(Candidates, i)) < walk.limit
    BY <1>1, <1>2, <1>3, IdsFinite DEF WalkTyped
  <1> QED
    BY <1>4 DEF Page, Newer

\* LIMIT gives no more rows than it says.
LEMMA PageWithinLimit ==
  ASSUME Candidates \subseteq Ids, WalkTyped
  PROVE  Cardinality(Page) <= walk.limit
  <1>1. CASE Page = {}
    BY <1>1, FS_EmptySet DEF WalkTyped
  <1>2. CASE Page # {}
    <2>1. Page \in SUBSET Nat /\ Page \in SUBSET Ids
      BY IdsAreNat DEF Page
    <2>2. PICK p \in Page : \A q \in Page : p <= q
      BY <1>2, <2>1, LeastId
    <2> DEFINE N == Newer(Candidates, p)
    <2>3. Cardinality(N) < walk.limit /\ p \in Candidates /\ N \in SUBSET Ids
      BY <2>2 DEF Page, Newer
    <2>4. Page \subseteq N \cup {p}
      BY <2>1, <2>2 DEF Page, Newer
    <2>5. p \notin N
      BY <2>1 DEF Newer
    <2>6. IsFiniteSet(N) /\ Cardinality(N) \in Nat
      BY <2>3, IdsFinite
    <2>7. IsFiniteSet(N \cup {p}) /\ Cardinality(N \cup {p}) = Cardinality(N) + 1
      BY <2>5, <2>6, FS_AddElement
    <2>8. Cardinality(Page) <= Cardinality(N \cup {p})
      BY <2>4, <2>7, FS_Subset
    <2> HIDE DEF N
    <2> QED
      BY <2>1, <2>3, <2>6, <2>7, <2>8, IdsFinite DEF WalkTyped
  <1> QED
    BY <1>1, <1>2

\* A page that is not full holds every candidate: there is no next one.
LEMMA ShortPageIsLast ==
  ASSUME Candidates \subseteq Ids, WalkTyped, Cardinality(Page) # walk.limit
  PROVE  Candidates \subseteq Page
  <1> SUFFICES ASSUME Candidates \ Page # {} PROVE FALSE
    OBVIOUS
  <1>1. Candidates \ Page \in SUBSET Ids /\ Page \in SUBSET Ids
    BY DEF Page
  <1>2. PICK m \in Candidates \ Page : \A i \in Candidates \ Page : i <= m
    BY <1>1, GreatestId
  <1> DEFINE N == Newer(Candidates, m)
  <1>3. N \subseteq Page /\ N \in SUBSET Ids
    BY <1>1, <1>2, IdsAreNat DEF Newer
  <1>4. ~(Cardinality(N) < walk.limit)
    BY <1>2 DEF Page, Newer
  <1>5. Cardinality(N) <= Cardinality(Page)
    BY <1>1, <1>3, IdsFinite, FS_Subset
  <1>6. Cardinality(Page) <= walk.limit
    BY PageWithinLimit
  <1>7. Cardinality(N) \in Nat /\ Cardinality(Page) \in Nat /\ walk.limit \in Nat
    BY <1>1, <1>3, IdsFinite DEF WalkTyped
  <1>8. Cardinality(Page) = walk.limit
    <2>1. Page \subseteq N
      <3> SUFFICES ASSUME NEW p \in Page, p \notin N PROVE FALSE
        OBVIOUS
      <3>1. p \in Candidates /\ m \in Candidates /\ p \in Nat /\ m \in Nat
        BY <1>1, <1>2, IdsAreNat DEF Page
      <3>2. p <= m
        BY <3>1 DEF Newer
      <3> QED
        BY <1>2, <3>1, <3>2, PageClosed
    <2>2. N = Page
      BY <1>3, <2>1
    <2> HIDE DEF N
    <2> QED
      BY <1>4, <1>6, <1>7, <2>2
  <1> QED
    BY <1>8

-----------------------------------------------------------------------------
(* The invariant.                                                          *)

LEMMA InitInv == ApiInit => IInv
  BY MaxIdAssumption
  DEF ApiInit, IInv, TablesTyped, WalkTyped, Walks, CursorBelow, StillAhead, NothingSkipped

\* A transaction that changes no grade of a committed article leaves the
\* client's promises as they are.
LEMMA WorkerKeeps ==
  ASSUME IInv, TablesTyped', visible \subseteq visible',
         \A i \in visible : grade'[i] = grade[i], UNCHANGED <<walk, times, steady>>
  PROVE  IInv'
  <1>1. WalkTyped' /\ CursorBelow'
    BY DEF IInv, WalkTyped, CursorBelow
  <1>2. StillAhead'
    BY DEF IInv, StillAhead, NothingSkipped, Matching, Matches
  <1> QED
    BY <1>1, <1>2 DEF IInv

LEMMA InsertInv == ASSUME IInv, Insert PROVE IInv'
  <1>1. TablesTyped'
    BY IdsAreNat DEF IInv, TablesTyped, Insert
  <1> QED
    BY <1>1, WorkerKeeps DEF Insert

LEMMA RollbackInv == ASSUME IInv, NEW i \in open, Rollback(i) PROVE IInv'
  <1>1. TablesTyped'
    BY DEF IInv, TablesTyped, Rollback
  <1> QED
    BY <1>1, WorkerKeeps DEF Rollback

LEMMA CommitInv ==
  ASSUME IInv, NEW i \in open, NEW g, Commit(i, g)
  PROVE  IInv'
  <1>1. TablesTyped'
    BY DEF IInv, TablesTyped, Commit
  <1>2. \A j \in visible : grade'[j] = grade[j]
    BY DEF IInv, TablesTyped, Commit
  <1> QED
    BY <1>1, <1>2, WorkerKeeps DEF Commit

LEMMA RegradeInv ==
  ASSUME IInv, NEW i \in visible, NEW g, Regrade(i, g)
  PROVE  IInv'
  <1>1. TablesTyped' /\ WalkTyped' /\ CursorBelow'
    BY DEF IInv, TablesTyped, WalkTyped, CursorBelow, Regrade
  <1>2. StillAhead'
    BY DEF IInv, StillAhead, NothingSkipped, Matching, Matches, Regrade
  <1> QED
    BY <1>1, <1>2 DEF IInv

LEMMA BeginInv ==
  ASSUME IInv, NEW limit \in Limits, NEW filter, Begin(limit, filter)
  PROVE  IInv'
  <1>1. TablesTyped'
    BY DEF IInv, TablesTyped, Begin, table
  <1>2. WalkTyped' /\ CursorBelow'
    BY LimitsAssumption
    DEF IInv, TablesTyped, WalkTyped, Walks, CursorBelow, Begin, table, Matching
  <1>3. StillAhead'
    BY DEF IInv, StillAhead, NothingSkipped, Matching, Matches, Begin, table
  <1> QED
    BY <1>1, <1>2, <1>3 DEF IInv

\* What the page gives, once, and what it leaves for the next one.
LEMMA NextPageInv == ASSUME IInv, NextPage PROVE IInv'
  <1>1. TablesTyped' /\ Candidates \subseteq Ids /\ Page \subseteq Candidates
    BY DEF IInv, TablesTyped, NextPage, table, Candidates, Matching, Page
  <1>2. \A i \in Ids : times'[i] = IF i \in Page THEN times[i] + 1 ELSE times[i]
    BY DEF NextPage, IInv, WalkTyped
  <1>3. \A i \in Page : times[i] = 0
    BY <1>1, IdsAreNat DEF IInv, CursorBelow, WalkTyped, NextPage, Candidates
  <1>4. \A i \in Ids : times[i] \in Nat /\ times[i] <= 1 /\ times'[i] <= 1
    BY <1>2, <1>3 DEF IInv, CursorBelow, WalkTyped
  <1>5. \A i \in steady : times[i] > 0 \/ i \in Candidates
    BY DEF IInv, StillAhead, NextPage, Candidates
  <1>6. CASE Cardinality(Page) = walk.limit
    <2>1. PICK last \in Page : (\A i \in Page : last <= i) /\ walk' = [walk EXCEPT !.before = last]
      BY <1>6 DEF NextPage
    <2>2. last \in Ids /\ last \in Nat \ {0} /\ steady' = steady
      BY <1>1, <2>1, IdsAreNat DEF NextPage
    <2>3. /\ walk'.pc = "walking" /\ walk'.before = last /\ walk'.limit = walk.limit
          /\ walk'.filter = walk.filter /\ DOMAIN walk' = DOMAIN walk
      BY <2>1 DEF IInv, WalkTyped, NextPage
    <2>4. WalkTyped'
      BY <1>1, <2>2, <2>3 DEF IInv, WalkTyped, Walks, NextPage
    <2>5. CursorBelow'
      <3>1. \A i \in Ids : times[i] > 0 => last <= i
        <4>1. walk.before # 0 => last < walk.before
          BY <1>1, <2>1 DEF Candidates
        <4> QED
          BY <2>2, <4>1, IdsAreNat DEF IInv, CursorBelow, WalkTyped, NextPage
      <3> QED
        BY <1>2, <1>4, <2>1, <2>2, <2>3, <3>1 DEF CursorBelow
    <2>6. ASSUME NEW i \in steady PROVE times'[i] > 0 \/ i < last
      <3>1. CASE i \in Page
        BY <1>1, <1>2, <1>4, <3>1
      <3>2. CASE i \in Candidates /\ i \notin Page
        <4>1. ~(last <= i)
          BY <1>1, <2>1, <3>2, PageClosed DEF IInv
        <4> QED
          BY <1>1, <2>2, <3>2, <4>1, IdsAreNat
      <3>3. CASE times[i] > 0
        BY <1>2, <1>4, <2>2, <3>3 DEF IInv, WalkTyped
      <3> QED
        BY <1>5, <3>1, <3>2, <3>3
    <2>7. StillAhead'
      <3>1. \A i \in steady : i \in Matching(walk.filter)
        BY DEF IInv, StillAhead, NextPage
      <3>2. Matching(walk.filter)' = Matching(walk.filter)
        BY <2>3 DEF NextPage, table, Matching, Matches
      <3> QED
        BY <2>2, <2>3, <2>6, <3>1, <3>2 DEF StillAhead, NothingSkipped
    <2> QED
      BY <1>1, <2>4, <2>5, <2>7 DEF IInv
  <1>7. CASE Cardinality(Page) # walk.limit
    <2>1. walk' = [walk EXCEPT !.pc = "done"] /\ steady' = steady
      BY <1>7 DEF NextPage
    <2>2. /\ walk'.pc = "done" /\ walk'.before = walk.before /\ walk'.limit = walk.limit
          /\ DOMAIN walk' = DOMAIN walk
      BY <2>1 DEF IInv, WalkTyped
    <2>3. WalkTyped' /\ CursorBelow'
      BY <1>2, <1>4, <2>1, <2>2 DEF IInv, WalkTyped, Walks, CursorBelow, NextPage
    <2>4. Candidates \subseteq Page
      BY <1>1, <1>7, ShortPageIsLast DEF IInv
    <2>5. \A i \in steady : times'[i] > 0
      BY <1>2, <1>4, <1>5, <2>4 DEF IInv, WalkTyped
    <2> QED
      BY <1>1, <2>1, <2>2, <2>3, <2>5 DEF IInv, StillAhead, NothingSkipped
  <1> QED
    BY <1>6, <1>7

LEMMA NextInv == IInv /\ [ApiNext]_vars => IInv'
  <1> SUFFICES ASSUME IInv, [ApiNext]_vars PROVE IInv'
    OBVIOUS
  <1>1. CASE UNCHANGED vars
    BY <1>1 DEF vars, table, IInv, TablesTyped, WalkTyped, CursorBelow, StillAhead,
                NothingSkipped, Matching, Matches
  <1> QED
    BY <1>1, InsertInv, RollbackInv, CommitInv, RegradeInv, BeginInv, NextPageInv DEF ApiNext

LEMMA Invariant == ApiSpec => []IInv
  BY InitInv, NextInv, PTL DEF ApiSpec

-----------------------------------------------------------------------------
\* "You never re-read a row": next_cursor gives no article twice, whatever is
\* committed or graded between two pages (api_articles, list_articles).
THEOREM NoRowIsReadTwice == ApiSpec => []NoRowTwice
  <1>1. IInv => NoRowTwice
    BY DEF IInv, CursorBelow, NoRowTwice
  <1> QED
    BY <1>1, Invariant, PTL

\* "... or skip a row": an article committed before the walk began, that
\* matched its filter throughout, was given to the client when it ends.
THEOREM NoRowIsSkipped == ApiSpec => []NothingSkipped
  <1>1. IInv => NothingSkipped
    BY DEF IInv, StillAhead
  <1> QED
    BY <1>1, Invariant, PTL

\* "null means the last page" of next_cursor, and that page comes: every page
\* ends the walk or lowers the cursor among the ids, so that a client makes at
\* most one request more than there are ids below its first page, whatever is
\* inserted above (list_articles).
THEOREM WalksDescend ==
  ApiSpec => [][NextPage => \/ walk'.pc = "done"
                            \/ /\ walk'.before \in Ids
                               /\ walk.before # 0 => walk'.before < walk.before]_vars
  <1>1. ASSUME IInv, NextPage
        PROVE  \/ walk'.pc = "done"
               \/ walk'.before \in Ids /\ (walk.before # 0 => walk'.before < walk.before)
    <2>1. \A i \in Page : i \in Ids /\ (walk.before # 0 => i < walk.before)
      BY <1>1 DEF IInv, TablesTyped, Page, Candidates, Matching
    <2> QED
      BY <1>1, <2>1 DEF NextPage, IInv, WalkTyped
  <1> QED
    BY <1>1, Invariant, PTL DEF ApiSpec

-----------------------------------------------------------------------------
(* The crawl of the BIPAD portal.                                          *)

PortalTyped ==
    /\ portal \in Seq(Incidents) /\ stuck \in BOOLEAN
    /\ \A i, j \in DOMAIN portal : portal[i] = portal[j] => i = j

CrawlTyped ==
    /\ DOMAIN crawl = {"pc", "offset", "pages"} /\ crawl.offset \in Nat
    /\ yielded \in Nat /\ reported \in Nat /\ read \subseteq Listing
    /\ crawl.pc = "idle" => crawl.offset = 0 /\ read = {} /\ yielded = 0

\* What the portal lists after the first n incidents.
Beyond(n) == {portal[j] : j \in {k \in DOMAIN portal : k > n}}

\* What was there at the start has been output or is still ahead.
AheadOfCrawl ==
    crawl.pc = "reading" /\ ~stuck =>
        present \subseteq output \cup Beyond(crawl.offset) /\ (VerifiedOnly => present \subseteq verified)

\* Each report pushes at most one incident that was read beyond the offset.
PushedByReports ==
    crawl.pc = "reading" /\ ~stuck => yielded <= reported + Cardinality(read \ Beyond(crawl.offset))

CrawlInv ==
    PortalTyped /\ CrawlTyped /\ AheadOfCrawl /\ PushedByReports /\ CrawlComplete /\ RepeatsExplained

LEMMA ListingFinite ==
  ASSUME portal \in Seq(Incidents), NEW S \in SUBSET Listing
  PROVE  IsFiniteSet(S) /\ Cardinality(S) \in Nat
  <1>1. portal \in Surjection(1..Len(portal), Listing)
    BY DEF Surjection, Listing
  <1>2. IsFiniteSet(1..Len(portal))
    BY FS_Interval
  <1>3. IsFiniteSet(Listing)
    BY <1>1, <1>2, FS_Surjection
  <1> QED
    BY <1>3, FS_Subset, FS_CardinalityType

LEMMA Inserted ==
  ASSUME NEW S, NEW s \in Seq(S), NEW e \in S, NEW k \in 1..(Len(s) + 1),
         NEW t, t = InsertAt(s, k, e)
  PROVE  /\ t \in Seq(S) /\ Len(t) = Len(s) + 1 /\ t[k] = e
         /\ \A j \in 1..(k - 1) : t[j] = s[j]
         /\ \A j \in (k + 1)..(Len(s) + 1) : t[j] = s[j - 1]
  <1> DEFINE before == SubSeq(s, 1, k - 1)
             begin == before \o <<e>>
             after == SubSeq(s, k, Len(s))
  <1>1. before \in Seq(S) /\ Len(before) = k - 1 /\ \A j \in 1..(k - 1) : before[j] = s[j]
    OBVIOUS
  <1>2. /\ after \in Seq(S) /\ Len(after) = Len(s) - k + 1
        /\ \A j \in 1..(Len(s) - k + 1) : after[j] = s[j + k - 1]
    OBVIOUS
  <1>3. t = begin \o after
    BY DEF InsertAt
  <1> HIDE DEF before, after
  <1>4. begin \in Seq(S) /\ Len(begin) = k /\ begin[k] = e /\ \A j \in 1..(k - 1) : begin[j] = s[j]
    BY <1>1
  <1> HIDE DEF begin
  <1>5. /\ t \in Seq(S) /\ Len(t) = Len(begin) + Len(after)
        /\ \A j \in 1..(Len(begin) + Len(after)) :
              t[j] = IF j <= Len(begin) THEN begin[j] ELSE after[j - Len(begin)]
    <2> HIDE DEF after
    <2>1. begin \in Seq(S) /\ after \in Seq(S)
      BY <1>2, <1>4
    <2> QED
      BY <1>3, <2>1, ConcatProperties, Zenon
  <1>6. Len(begin) + Len(after) = Len(s) + 1
    BY <1>2, <1>4
  <1>7. ASSUME NEW j \in (k + 1)..(Len(s) + 1) PROVE t[j] = s[j - 1]
    <2>1. t[j] = after[j - k] /\ j - k \in 1..(Len(s) - k + 1) /\ (j - k) + k - 1 = j - 1
      BY <1>4, <1>5, <1>6
    <2> QED
      BY <1>2, <2>1
  <1>8. \A j \in 1..k : t[j] = begin[j]
    BY <1>4, <1>5, <1>6
  <1> QED
    BY <1>4, <1>5, <1>6, <1>7, <1>8

\* What a report does to the listing.
LEMMA ReportShifts ==
  ASSUME PortalTyped, NEW r \in Incidents \ Listing, NEW i \in 0..Len(portal),
         portal' = InsertAt(portal, i + 1, r)
  PROVE  /\ portal' \in Seq(Incidents) /\ Listing \subseteq Listing'
         /\ \A a, b \in DOMAIN portal' : portal'[a] = portal'[b] => a = b
         /\ \A n \in Nat : /\ Beyond(n) \subseteq Beyond(n)'
                           /\ \E x : Beyond(n)' \subseteq Beyond(n) \cup {x}
  <1> DEFINE k == i + 1
             len == Len(portal)
  <1>0. portal \in Seq(Incidents) /\ len \in Nat /\ k \in 1..(len + 1) /\ r \in Incidents
    BY DEF PortalTyped
  <1>1. /\ portal' \in Seq(Incidents) /\ Len(portal') = len + 1 /\ portal'[k] = r
        /\ \A j \in 1..(k - 1) : portal'[j] = portal[j]
        /\ \A j \in (k + 1)..(len + 1) : portal'[j] = portal[j - 1]
    <2>1. portal' = InsertAt(portal, k, r)
      OBVIOUS
    <2> HIDE DEF k
    <2> QED
      <3>1. /\ InsertAt(portal, k, r) \in Seq(Incidents) /\ Len(InsertAt(portal, k, r)) = len + 1
            /\ InsertAt(portal, k, r)[k] = r
            /\ \A j \in 1..(k - 1) : InsertAt(portal, k, r)[j] = portal[j]
            /\ \A j \in (k + 1)..(len + 1) : InsertAt(portal, k, r)[j] = portal[j - 1]
        BY <1>0, Inserted
      <3> QED
        BY <2>1, <3>1
  <1>2. /\ len \in Nat /\ k \in 1..(len + 1) /\ DOMAIN portal = 1..len /\ DOMAIN portal' = 1..(len + 1)
        /\ \A j \in 1..len : portal[j] # r
    BY <1>1 DEF PortalTyped, Listing
  <1> HIDE DEF k, len
  \* where an incident of the new listing was
  <1>3. ASSUME NEW j \in 1..(len + 1)
        PROVE  \/ j < k /\ j \in 1..len /\ portal'[j] = portal[j]
               \/ j = k /\ portal'[j] = r
               \/ j > k /\ j - 1 \in 1..len /\ portal'[j] = portal[j - 1]
    BY <1>1, <1>2
  \* where one of the old listing goes
  <1>4. ASSUME NEW j \in 1..len
        PROVE  \E m \in {j, j + 1} : m \in 1..(len + 1) /\ portal'[m] = portal[j]
    <2>1. CASE j < k
      BY <1>1, <1>2, <2>1
    <2>2. CASE j >= k
      <3>1. j + 1 \in (k + 1)..(len + 1) /\ (j + 1) - 1 = j
        BY <1>2, <2>2
      <3>2. portal'[j + 1] = portal[j]
        BY <1>1, <3>1
      <3> QED
        BY <1>2, <3>1, <3>2
    <2> QED
      BY <1>2, <2>1, <2>2
  <1>5. ASSUME NEW a \in 1..(len + 1), NEW b \in 1..(len + 1), portal'[a] = portal'[b]
        PROVE  a = b
    <2> DEFINE was(j) == IF j < k THEN j ELSE j - 1
    <2>1. \A j \in 1..(len + 1) \ {k} : was(j) \in 1..len /\ portal'[j] = portal[was(j)]
      BY <1>2, <1>3
    <2>2. CASE a = k \/ b = k
      BY <1>2, <1>5, <2>1, <2>2, <1>1
    <2>3. CASE a # k /\ b # k
      <3>1. was(a) \in 1..len /\ was(b) \in 1..len /\ portal[was(a)] = portal[was(b)]
        BY <1>5, <2>1, <2>3
      <3>2. was(a) = was(b)
        <4> HIDE DEF was
        <4> QED
          BY <1>2, <3>1 DEF PortalTyped
      <3> QED
        BY <1>2, <2>3, <3>2
    <2> QED
      BY <2>2, <2>3
  <1>6. Listing \subseteq Listing'
    BY <1>2, <1>4 DEF Listing
  <1>7. ASSUME NEW n \in Nat PROVE Beyond(n) \subseteq Beyond(n)'
    <2> SUFFICES ASSUME NEW j \in 1..len, j > n PROVE portal[j] \in Beyond(n)'
      BY <1>2 DEF Beyond
    <2>1. PICK m \in {j, j + 1} : m \in 1..(len + 1) /\ portal'[m] = portal[j]
      BY <1>4
    <2>2. m > n
      BY <2>1
    <2> QED
      BY <1>2, <2>1, <2>2 DEF Beyond
  <1>8. ASSUME NEW n \in Nat PROVE \E x : Beyond(n)' \subseteq Beyond(n) \cup {x}
    <2> DEFINE x == IF k > n THEN r ELSE portal[n]
    <2>1. ASSUME NEW j \in 1..(len + 1), j > n PROVE portal'[j] \in Beyond(n) \cup {x}
      <3>1. CASE j < k
        <4>1. j \in 1..len /\ portal'[j] = portal[j]
          BY <1>2, <1>3, <3>1
        <4> QED
          BY <1>2, <2>1, <4>1 DEF Beyond
      <3>2. CASE j = k
        BY <1>2, <1>3, <2>1, <3>2
      <3>3. CASE j > k
        <4>1. j - 1 \in 1..len /\ portal'[j] = portal[j - 1]
          BY <1>2, <1>3, <3>3
        <4>2. j - 1 > n \/ (j - 1 = n /\ ~(k > n))
          BY <1>2, <2>1, <3>3
        <4> QED
          BY <1>2, <4>1, <4>2 DEF Beyond
      <3> QED
        BY <1>2, <3>1, <3>2, <3>3
    <2>2. Beyond(n)' \subseteq Beyond(n) \cup {x}
      BY <1>2, <2>1 DEF Beyond
    <2> QED
      BY <2>2
  <1> QED
    BY <1>1, <1>2, <1>5, <1>6, <1>7, <1>8

\* A report leaves what is proved of the crawl in place.
LEMMA ReportInv == ASSUME CrawlInv, NEW r \in Incidents, NEW i \in 0..Len(portal), Report(r, i)
                   PROVE  CrawlInv'
  <1> PICK n \in Nat : n = crawl.offset
    BY DEF CrawlInv, CrawlTyped
  <1> DEFINE left == Cardinality(read \ Beyond(n))
             kept == read \ Beyond(n)'
  <1>1. /\ portal' \in Seq(Incidents) /\ Listing \subseteq Listing'
        /\ \A a, b \in DOMAIN portal' : portal'[a] = portal'[b] => a = b
        /\ Beyond(n) \subseteq Beyond(n)' /\ \E x : Beyond(n)' \subseteq Beyond(n) \cup {x}
    BY ReportShifts DEF CrawlInv, Report
  <1>2. /\ UNCHANGED <<verified, stuck, crawl, yielded, read, output, present>>
        /\ reported' = IF crawl.pc = "reading" THEN reported + 1 ELSE reported
    BY DEF Report, reader
  <1>3. PortalTyped' /\ CrawlTyped'
    BY <1>1, <1>2 DEF CrawlInv, PortalTyped, CrawlTyped
  <1>4. AheadOfCrawl'
    BY <1>1, <1>2 DEF CrawlInv, AheadOfCrawl
  <1>5. left <= Cardinality(kept) + 1
    <2>1. PICK x : Beyond(n)' \subseteq Beyond(n) \cup {x}
      BY <1>1
    <2>2. kept \in SUBSET Listing /\ portal \in Seq(Incidents)
      BY DEF CrawlInv, CrawlTyped, PortalTyped
    <2>3. IsFiniteSet(kept) /\ Cardinality(kept) \in Nat
      BY <2>2, ListingFinite
    <2> HIDE DEF kept
    <2>4. IsFiniteSet(kept \cup {x}) /\ Cardinality(kept \cup {x}) <= Cardinality(kept) + 1
                                     /\ Cardinality(kept \cup {x}) \in Nat
      <3>1. /\ IsFiniteSet(kept \cup {x})
            /\ Cardinality(kept \cup {x}) =
                  IF x \in kept THEN Cardinality(kept) ELSE Cardinality(kept) + 1
        BY <2>3, FS_AddElement, Zenon
      <3> QED
        BY <2>3, <3>1
    <2>5. read \ Beyond(n) \subseteq kept \cup {x}
      BY <2>1 DEF kept
    <2>6. left <= Cardinality(kept \cup {x}) /\ left \in Nat
      BY <2>4, <2>5, FS_Subset, FS_CardinalityType
    <2> QED
      BY <2>3, <2>4, <2>6
  <1>6. PushedByReports'
    <2> SUFFICES ASSUME crawl.pc = "reading", ~stuck
                 PROVE  yielded <= reported + 1 + Cardinality(kept)
      BY <1>2 DEF PushedByReports
    <2>1. yielded <= reported + left /\ yielded \in Nat /\ reported \in Nat
      BY DEF CrawlInv, CrawlTyped, PushedByReports
    <2>2. left \in Nat /\ Cardinality(kept) \in Nat
      BY ListingFinite DEF CrawlInv, CrawlTyped, PortalTyped
    <2> HIDE DEF left, kept
    <2> QED
      BY <1>5, <2>1, <2>2
  <1>7. CrawlComplete'
    BY <1>2 DEF CrawlInv, CrawlComplete
  <1>8. RepeatsExplained'
    <2>1. Cardinality(read) \in Nat
      BY ListingFinite DEF CrawlInv, CrawlTyped, PortalTyped
    <2> QED
      BY <1>2, <2>1 DEF CrawlInv, CrawlTyped, RepeatsExplained
  <1> QED
    BY <1>3, <1>4, <1>6, <1>7, <1>8 DEF CrawlInv

LEMMA VerifyInv == ASSUME CrawlInv, NEW r \in Incidents, Verify(r) PROVE CrawlInv'
  BY DEF CrawlInv, Verify, reader, PortalTyped, CrawlTyped, Listing, AheadOfCrawl, PushedByReports,
         Beyond, CrawlComplete, RepeatsExplained

LEMMA StartCrawlInv == CrawlInv /\ StartCrawl => CrawlInv'
  <1> SUFFICES ASSUME CrawlInv, StartCrawl PROVE CrawlInv'
    OBVIOUS
  <1>1. /\ UNCHANGED <<portal, verified, stuck, yielded, read, output, reported>>
        /\ crawl.pc = "idle" /\ crawl' = [crawl EXCEPT !.pc = "reading"] /\ present' = Wanted(Listing)
    BY DEF StartCrawl, world
  <1>2. crawl'.pc = "reading" /\ crawl'.offset = 0 /\ yielded = 0 /\ read = {} /\ DOMAIN crawl' = DOMAIN crawl
    BY <1>1 DEF CrawlInv, CrawlTyped
  <1>3. PortalTyped' /\ CrawlTyped' /\ CrawlComplete'
    BY <1>1, <1>2 DEF CrawlInv, PortalTyped, CrawlTyped, Listing, CrawlComplete
  <1>4. AheadOfCrawl'
    <2>1. Listing = Beyond(0)'
      <3>1. \A k \in DOMAIN portal : k > 0
        BY DEF CrawlInv, PortalTyped
      <3> QED
        BY <1>1, <3>1 DEF Listing, Beyond
    <2> QED
      BY <1>1, <1>2, <2>1 DEF AheadOfCrawl, Wanted
  <1>5. Cardinality({}) = 0
    BY FS_EmptySet
  <1>6. RepeatsExplained'
    BY <1>1, <1>2, <1>5 DEF CrawlInv, CrawlTyped, RepeatsExplained
  <1>7. PushedByReports'
    <2>1. (read \ Beyond(crawl.offset))' = {}
      BY <1>1, <1>2
    <2> QED
      BY <1>1, <1>2, <1>5, <2>1 DEF CrawlInv, CrawlTyped, PushedByReports
  <1> QED
    BY <1>3, <1>4, <1>6, <1>7 DEF CrawlInv

\* An empty page: nothing is listed beyond the offset.
LEMMA EndCrawlInv == CrawlInv /\ EndCrawl => CrawlInv'
  <1> SUFFICES ASSUME CrawlInv, EndCrawl PROVE CrawlInv'
    OBVIOUS
  <1>1. /\ UNCHANGED <<portal, verified, stuck, yielded, read, output, present, reported>>
        /\ crawl.pc = "reading" /\ crawl' = [crawl EXCEPT !.pc = "done"] /\ Results = {}
    BY DEF EndCrawl, world
  <1>2. crawl'.pc = "done" /\ crawl'.offset = crawl.offset /\ DOMAIN crawl' = DOMAIN crawl
    BY <1>1 DEF CrawlInv, CrawlTyped
  <1>3. PortalTyped' /\ CrawlTyped' /\ AheadOfCrawl' /\ PushedByReports' /\ RepeatsExplained'
    BY <1>1, <1>2 DEF CrawlInv, PortalTyped, CrawlTyped, Listing, AheadOfCrawl, PushedByReports,
                      RepeatsExplained
  <1>4. ASSUME ~stuck, NEW j \in DOMAIN portal, j > crawl.offset PROVE FALSE
    <2>1. crawl.offset + 1 \in DOMAIN portal /\ crawl.offset + 1 <= crawl.offset + PageSize
      BY <1>4, SizesAssumption DEF CrawlInv, CrawlTyped, PortalTyped
    <2>2. portal[crawl.offset + 1] \in Results
      BY <1>4, <2>1 DEF Results, CrawlInv, CrawlTyped
    <2> QED
      BY <1>1, <2>2
  <1>5. CrawlComplete'
    BY <1>1, <1>4 DEF CrawlInv, AheadOfCrawl, Beyond, CrawlComplete
  <1> QED
    BY <1>3, <1>5 DEF CrawlInv

LEMMA FailCrawlInv == CrawlInv /\ FailCrawl => CrawlInv'
  <1> SUFFICES ASSUME CrawlInv, FailCrawl PROVE CrawlInv'
    OBVIOUS
  <1>1. /\ UNCHANGED <<portal, verified, stuck, yielded, read, present, reported>>
        /\ crawl'.pc = "failed" /\ crawl'.offset = crawl.offset /\ DOMAIN crawl' = DOMAIN crawl
    BY DEF FailCrawl, world, CrawlInv, CrawlTyped
  <1> QED
    BY <1>1 DEF CrawlInv, PortalTyped, CrawlTyped, Listing, AheadOfCrawl, PushedByReports,
                CrawlComplete, RepeatsExplained

\* The results are what lies between the old offset and the new one.
LEMMA ReadPageInv == ASSUME CrawlInv, NEW link \in BOOLEAN, ReadPage(link) PROVE CrawlInv'
  <1> DEFINE next == crawl.offset + PageSize
  <1>1. /\ UNCHANGED <<portal, verified, stuck, present, reported>>
        /\ crawl.pc = "reading" /\ read' = read \cup Results /\ output' = output \cup Wanted(Results)
        /\ crawl'.offset = next /\ DOMAIN crawl' = {"pc", "offset", "pages"}
        /\ crawl'.pc \in {"done", "capped", "reading"}
        /\ crawl'.pc = "done" => ~stuck /\ next >= Len(portal)
    BY DEF ReadPage, Continue, world
  <1>2. portal \in Seq(Incidents) /\ crawl.offset \in Nat /\ next \in Nat /\ next > crawl.offset
    BY SizesAssumption DEF CrawlInv, PortalTyped, CrawlTyped
  <1>3. /\ Results \in SUBSET Listing /\ Listing' = Listing
        /\ \A n : Beyond(n)' = Beyond(n)
    BY <1>1 DEF Results, Listing, Beyond
  <1>4. /\ IsFiniteSet(Results) /\ Cardinality(Results) \in Nat
        /\ IsFiniteSet(read') /\ Cardinality(read') \in Nat
    BY <1>1, <1>2, <1>3, ListingFinite DEF CrawlInv, CrawlTyped
  <1>5. yielded' \in Nat /\ yielded' <= yielded + Cardinality(Results)
    BY <1>4, SizesAssumption DEF ReadPage, Lesser, CrawlInv, CrawlTyped
  <1> HIDE DEF next
  <1>6. PortalTyped' /\ CrawlTyped'
    BY <1>1, <1>2, <1>3, <1>5 DEF CrawlInv, PortalTyped, CrawlTyped
  <1>7. ASSUME ~stuck
        PROVE  /\ Beyond(crawl.offset) \subseteq Results \cup Beyond(next)
               /\ Results \subseteq Beyond(crawl.offset) /\ Results \cap Beyond(next) = {}
    <2>1. Results = {portal[j] : j \in {k \in DOMAIN portal : crawl.offset < k /\ k <= next}}
      BY <1>7 DEF Results, next
    <2>2. \A j \in DOMAIN portal : j \in Nat
      BY <1>2
    <2>3. \A i, j \in DOMAIN portal : portal[i] = portal[j] => i = j
      BY DEF CrawlInv, PortalTyped
    <2> QED
      BY <1>2, <2>1, <2>2, <2>3 DEF Beyond
  <1>8. ASSUME ~stuck
        PROVE  /\ present \subseteq output' \cup Beyond(next)
               /\ VerifiedOnly => present \subseteq verified
    BY <1>1, <1>7, <1>8 DEF CrawlInv, AheadOfCrawl, Wanted
  <1>9. ASSUME ~stuck
        PROVE  yielded' <= reported + Cardinality(read' \ Beyond(next))
    <2> DEFINE old == read \ Beyond(crawl.offset)
               new == read' \ Beyond(next)
    <2>1. old \in SUBSET Listing /\ new \in SUBSET Listing
      BY <1>1, <1>3 DEF CrawlInv, CrawlTyped
    <2>2. /\ IsFiniteSet(old) /\ Cardinality(old) \in Nat
          /\ IsFiniteSet(new) /\ Cardinality(new) \in Nat
      BY <1>2, <2>1, ListingFinite
    <2>3. old \cap Results = {} /\ old \cup Results \subseteq new
      <3>1. Beyond(next) \subseteq Beyond(crawl.offset)
        <4>1. \A j \in DOMAIN portal : j > next => j > crawl.offset
          BY <1>2
        <4> QED
          BY <4>1 DEF Beyond
      <3> QED
        BY <1>1, <1>7, <1>9, <3>1
    <2>4. yielded <= reported + Cardinality(old) /\ yielded \in Nat /\ reported \in Nat
      BY <1>1, <1>9 DEF CrawlInv, CrawlTyped, PushedByReports
    <2> HIDE DEF old, new
    <2>5. Cardinality(old \cup Results) = Cardinality(old) + Cardinality(Results)
      <3>1. Cardinality(old \cap Results) = 0
        BY <2>3, FS_EmptySet
      <3>2. Cardinality(old \cup Results)
              = Cardinality(old) + Cardinality(Results) - Cardinality(old \cap Results)
        BY <1>4, <2>2, FS_Union, Zenon
      <3> QED
        BY <1>4, <2>2, <3>1, <3>2
    <2>6. Cardinality(old \cup Results) <= Cardinality(new)
      BY <2>2, <2>3, FS_Subset
    <2>7. yielded' <= reported + Cardinality(new)
      BY <1>4, <1>5, <2>2, <2>4, <2>5, <2>6
    <2> QED
      BY <2>7 DEF new
  <1>10. AheadOfCrawl' /\ PushedByReports'
    BY <1>1, <1>3, <1>8, <1>9 DEF AheadOfCrawl, PushedByReports
  <1>11. CrawlComplete'
    <2>1. ASSUME next >= Len(portal) PROVE Beyond(next) = {}
      <3>1. \A j \in DOMAIN portal : ~(j > next)
        BY <1>2, <2>1
      <3> QED
        BY <3>1 DEF Beyond
    <2> QED
      BY <1>1, <1>8, <2>1 DEF CrawlComplete
  <1>12. RepeatsExplained'
    <2> SUFFICES ASSUME ~stuck PROVE yielded' - Cardinality(read') <= reported
      BY <1>1 DEF RepeatsExplained
    <2> DEFINE new == read' \ Beyond(next)
    <2>1. Cardinality(new) <= Cardinality(read') /\ Cardinality(new) \in Nat
      BY <1>4, FS_Subset, FS_CardinalityType
    <2>2. yielded' <= reported + Cardinality(new) /\ reported \in Nat
      BY <1>9 DEF CrawlInv, CrawlTyped
    <2> HIDE DEF new
    <2> QED
      BY <1>4, <1>5, <2>1, <2>2
  <1> QED
    BY <1>6, <1>10, <1>11, <1>12 DEF CrawlInv

LEMMA CrawlInvariant == PortalSpec => []CrawlInv
  <1>1. PortalInit => CrawlInv
    <2> SUFFICES ASSUME PortalInit PROVE CrawlInv
      OBVIOUS
    <2>1. Cardinality(read) = 0
      BY FS_EmptySet DEF PortalInit
    <2> QED
      BY <2>1 DEF PortalInit, CrawlInv, PortalTyped, CrawlTyped, AheadOfCrawl, PushedByReports,
                  CrawlComplete, RepeatsExplained, Listing
  <1>2. CrawlInv /\ [PortalNext]_portalVars => CrawlInv'
    <2> SUFFICES ASSUME CrawlInv, [PortalNext]_portalVars PROVE CrawlInv'
      OBVIOUS
    <2>1. CASE UNCHANGED portalVars
      BY <2>1 DEF portalVars, world, reader, CrawlInv, PortalTyped, CrawlTyped, Listing,
                  AheadOfCrawl, PushedByReports, Beyond, CrawlComplete, RepeatsExplained
    <2> QED
      BY <2>1, ReportInv, VerifyInv, StartCrawlInv, EndCrawlInv, ReadPageInv, FailCrawlInv
         DEF PortalNext, Crawl
  <1> QED
    BY <1>1, <1>2, PTL DEF PortalSpec

\* A crawl that ends by itself has output every incident that was listed (and
\* verified) when it began, whatever is reported at whatever place of the
\* portal's order meanwhile (bipad.py fetch_incidents, _paginate).
THEOREM CrawlOutputsWhatWasThere == PortalSpec => []CrawlComplete
  <1>1. CrawlInv => CrawlComplete
    BY DEF CrawlInv
  <1> QED
    BY <1>1, CrawlInvariant, PTL

\* The crawl goes through an incident again at most as often as others are
\* reported while it runs: offsets only move things towards the end.
THEOREM RepeatsComeFromReports == PortalSpec => []RepeatsExplained
  <1>1. CrawlInv => RepeatsExplained
    BY DEF CrawlInv
  <1> QED
    BY <1>1, CrawlInvariant, PTL

-----------------------------------------------------------------------------
(* The length of a crawl.                                                  *)

CrawlCounts ==
    /\ crawl.pages \in 0..MaxPages /\ crawl.offset = crawl.pages * PageSize
    /\ yielded <= crawl.offset
    /\ crawl.pc = "idle" => crawl.pages = 0
    /\ crawl.pc = "reading" => crawl.pages < MaxPages

LEMMA PageOfResults ==
  ASSUME CrawlInv
  PROVE  Cardinality(Results) <= PageSize /\ Cardinality(Results) \in Nat
  <1> DEFINE skipped == IF stuck THEN 0 ELSE crawl.offset
             rows == {j \in DOMAIN portal : skipped < j /\ j <= skipped + PageSize}
  <1>1. skipped \in Nat /\ PageSize \in Nat /\ PageSize > 0 /\ portal \in Seq(Incidents)
    BY SizesAssumption DEF CrawlInv, PortalTyped, CrawlTyped
  <1> HIDE DEF skipped
  <1>2. IsFiniteSet((skipped + 1)..(skipped + PageSize)) /\ Cardinality((skipped + 1)..(skipped + PageSize)) = PageSize
    <2>1. skipped + 1 \in Int /\ skipped + PageSize \in Int /\ ~(skipped + 1 > skipped + PageSize)
          /\ (skipped + PageSize) - (skipped + 1) + 1 = PageSize
      BY <1>1
    <2> QED
      BY <2>1, FS_Interval
  <1>3. rows \in SUBSET ((skipped + 1)..(skipped + PageSize))
    BY <1>1
  <1>4. IsFiniteSet(rows) /\ Cardinality(rows) <= PageSize
    BY <1>2, <1>3, FS_Subset
  <1>5. [j \in rows |-> portal[j]] \in Surjection(rows, Results)
    BY DEF Surjection, Results, skipped
  <1>6. IsFiniteSet(Results) /\ Cardinality(Results) <= Cardinality(rows)
    BY <1>4, <1>5, FS_Surjection
  <1>7. Cardinality(Results) \in Nat /\ Cardinality(rows) \in Nat
    BY <1>4, <1>6, FS_CardinalityType
  <1> HIDE DEF rows
  <1> QED
    BY <1>1, <1>4, <1>6, <1>7

LEMMA ReadPageCounts ==
  ASSUME CrawlInv, CrawlCounts, NEW link \in BOOLEAN, ReadPage(link)
  PROVE  CrawlCounts' /\ yielded' = yielded + Cardinality(Results)
  <1>1. /\ crawl.pc = "reading" /\ crawl.pages \in Nat /\ crawl.pages < MaxPages
        /\ PageSize \in Nat /\ MaxPages \in Nat /\ yielded \in Nat
        /\ crawl.offset = crawl.pages * PageSize /\ yielded <= crawl.offset
    BY SizesAssumption DEF ReadPage, CrawlCounts, CrawlInv, CrawlTyped
  <1>2. /\ crawl'.pages = crawl.pages + 1 /\ crawl'.offset = crawl.offset + PageSize
        /\ crawl'.pc \in {"done", "capped", "reading"}
        /\ crawl'.pc = "reading" => ~(crawl.pages + 1 >= MaxPages)
    BY DEF ReadPage, Continue
  <1>3. crawl'.offset = crawl'.pages * PageSize
    <2>1. \A p, k \in Nat : (p + 1) * k = p * k + k
      OBVIOUS
    <2> QED
      BY <1>1, <1>2, <2>1
  <1>4. crawl'.offset <= MaxPages * PageSize
    <2>1. \A p, q, k \in Nat : p <= q => p * k <= q * k
      OBVIOUS
    <2>2. crawl.pages + 1 <= MaxPages /\ crawl.pages + 1 \in Nat
      BY <1>1
    <2> QED
      BY <1>1, <1>2, <1>3, <2>1, <2>2
  <1>5. yielded + Cardinality(Results) <= crawl'.offset
    BY <1>1, <1>2, PageOfResults
  <1>6. yielded' = yielded + Cardinality(Results)
    <2>1. MaxPages * PageSize \in Nat /\ crawl'.offset \in Nat /\ Cardinality(Results) \in Nat
      BY <1>1, <1>2, PageOfResults, SizesAssumption
    <2> HIDE DEF CrawlCounts
    <2> QED
      BY <1>1, <1>4, <1>5, <2>1 DEF ReadPage, Lesser
  <1> QED
    BY <1>1, <1>2, <1>3, <1>5, <1>6 DEF CrawlCounts

LEMMA CrawlCountsInvariant == PortalSpec => [](CrawlInv /\ CrawlCounts)
  <1>1. PortalInit => CrawlCounts
    BY SizesAssumption DEF PortalInit, CrawlCounts
  <1>2. CrawlInv /\ CrawlCounts /\ [PortalNext]_portalVars => CrawlCounts'
    <2> SUFFICES ASSUME CrawlInv, CrawlCounts, [PortalNext]_portalVars PROVE CrawlCounts'
      OBVIOUS
    <2>1. ASSUME UNCHANGED <<crawl, yielded>> PROVE CrawlCounts'
      BY <2>1 DEF CrawlCounts
    <2>2. CASE StartCrawl
      BY <2>2, SizesAssumption DEF StartCrawl, CrawlCounts, CrawlInv, CrawlTyped
    <2>3. CASE EndCrawl \/ FailCrawl
      BY <2>3 DEF EndCrawl, FailCrawl, CrawlCounts, CrawlInv, CrawlTyped
    <2> QED
      BY <2>1, <2>2, <2>3, ReadPageCounts DEF PortalNext, Crawl, Verify, Report, reader, portalVars
  <1> QED
    BY <1>1, <1>2, CrawlInvariant, PTL DEF PortalSpec

\* "Guard against an unbounded crawl": a crawl that goes on has read fewer than
\* MAX_PAGES pages, each at its own offset and of at most PAGE_SIZE results,
\* whatever the portal links to, and also when it ignores offsets (_paginate).
THEOREM CrawlsAreCapped == PortalSpec => []CrawlCounts
  BY CrawlCountsInvariant, PTL

\* Every page with results takes the crawl nearer to its cap, and all of them
\* are counted: the bound of Bipad on what a crawl yields cuts nothing off.
THEOREM PagesAreCounted ==
  PortalSpec => [][\A link \in BOOLEAN : ReadPage(link) =>
                      /\ crawl'.pages = crawl.pages + 1
                      /\ yielded' = yielded + Cardinality(Results)]_portalVars
  <1>1. CrawlInv /\ CrawlCounts => \A link \in BOOLEAN : ReadPage(link) =>
                      /\ crawl'.pages = crawl.pages + 1
                      /\ yielded' = yielded + Cardinality(Results)
    BY ReadPageCounts DEF ReadPage, Continue
  <1> QED
    BY <1>1, CrawlCountsInvariant, PTL DEF PortalSpec

-----------------------------------------------------------------------------
(* The date of an article.                                                 *)

Dates == Texts \cup {NoDate}
TextOfPage == PageText(given.page, given.pack)
Printings == {given.entry.texts[1], given.entry.texts[2], TextOfPage} \ {NoDate}

\* What a parsed text says of the moment it was printed for.
TrueTo(at, d) == Unmistakable(d) => OnItsDay(at, d) /\ (Legible(d) => at = Meant(d))

\* Where a date that is kept comes from.
Sourced(published, text) ==
    \/ text = NoDate /\ \E i \in FeedTimes(given.entry) : published = Instant(given.entry.times[i], "UTC")
    \/ text \in Printings /\ TrueTo(published, text)

\* Where the code stands with the one date it keeps.
DatingInv ==
    /\ given \in [method : {"rss", "html"}, entry : Entries, page : Pages, pack : Packs]
    /\ Fits(given.pack, given.entry.texts[1]) /\ Fits(given.pack, TextOfPage)
    /\ DOMAIN item = {"published", "estimated"}
    /\ pc \in {"listed", "fresh", "read", "unread"} =>
           ~item.estimated /\ (item.published # NoDate => Sourced(item.published, from))
    /\ pc = "read" /\ item.published = NoDate =>
           TextOfPage = NoDate \/ ~ParseDatetime(TextOfPage, given.pack.format).ok
    /\ DatesAreMeant

LEMMA Units ==
  /\ Offset \in Int /\ Elsewhere \in Int /\ Swap \in Int /\ Today \in Int
  /\ Gap \in Int /\ Day = 1440
  BY UnitsAssumption, DayAssumption DEF Today

LEMMA Zones ==
  /\ Ahead("none") = Offset /\ Ahead("UTC") = 0
  /\ \A zone \in {"none", "UTC", "other"} : Ahead(zone) \in Int
  BY Units DEF Ahead

OfADay(m) == m \in Int /\ 0 <= m /\ m < Day

LEMMA MinutesOfADay ==
  ASSUME NEW d \in Texts
  PROVE  OfADay(d.minute) /\ OfADay(BsMinute(d)) /\ OfADay(0)
  <1>1. OfADay(0) /\ OfADay(d.minute)
    BY Units DEF OfADay, Texts
  <1>2. OfADay(HalfDay(d.minute))
    BY <1>1, Units DEF OfADay, HalfDay
  <1> QED
    BY <1>1, <1>2, Zenon DEF BsMinute

LEMMA ParsersAnswer == ~Unparseable.ok /\ ~Unparseable.raised /\ ~Raises.ok /\ Raises.raised
  BY DEF Unparseable, Raises

\* A Nepali date gives its day, and its minute if that is behind it.
LEMMA BsIsTrue ==
  ASSUME NEW d \in Texts, ParseBs(d).ok
  PROVE  ParseBs(d).at \in Int /\ TrueTo(ParseBs(d).at, d)
  <1>1. /\ d.script \in {"monthname", "devanagari"} /\ d.zone = "none" /\ d.day \in Int
        /\ d.calendar \in {"bs", "ad"}
    BY ParsersAnswer DEF ParseBs, LooksBikramSambat, Texts
  <1>2. /\ OfADay(BsMinute(d))
        /\ d.clock = "plain" => BsMinute(d) = d.minute
    BY MinutesOfADay DEF BsMinute
  <1>3. ParseBs(d).at = Instant((IF d.calendar = "ad" THEN d.day - Gap ELSE d.day) + BsMinute(d), "none")
    BY ParsersAnswer DEF ParseBs, Parsed
  <1>4. ParseBs(d).at \in Int
    BY <1>1, <1>2, <1>3, Units, Zones DEF Instant, OfADay
  <1>5. ASSUME Unmistakable(d)
        PROVE  OnItsDay(ParseBs(d).at, d) /\ (Legible(d) => ParseBs(d).at = Meant(d))
    <2>1. ParseBs(d).at = d.day + BsMinute(d) - Offset
      <3>1. d.calendar = "bs"
        BY <1>1, <1>5 DEF Unmistakable
      <3>2. ParseBs(d).at = Instant(d.day + BsMinute(d), "none")
        BY <1>3, <3>1
      <3> QED
        BY <1>1, <1>2, <3>2, Units, Zones DEF Instant, OfADay
    <2>2. Legible(d) => BsMinute(d) = d.minute
      BY <1>1, <1>2 DEF Legible
    <2> QED
      BY <1>1, <1>2, <2>1, <2>2, Units, Zones DEF OnItsDay, Meant, Instant, OfADay
  <1> QED
    BY <1>4, <1>5 DEF TrueTo

\* So does any other date, in the zone it names.
LEMMA IsoIsTrue ==
  ASSUME NEW d \in Texts, d.script # "devanagari" \/ d.shape # "whole", ParseIso(d).ok
  PROVE  ParseIso(d).at \in Int /\ TrueTo(ParseIso(d).at, d)
  <1> DEFINE minute == IF d.clock = "none" THEN 0 ELSE d.minute
             zone == IF d.zone = "UTC" THEN "UTC" ELSE "none"
  <1>1. d.day \in Int /\ OfADay(minute) /\ d.zone \in {"none", "UTC", "other"}
    BY MinutesOfADay DEF Texts
  <1>2. ParseIso(d).at = Instant(IsoDay(d) + minute, zone)
    BY ParsersAnswer DEF ParseIso, Parsed
  <1>3. IsoDay(d) \in Int
    BY <1>1, Units DEF IsoDay
  <1>4. Ahead(zone) \in Int
    BY Zones
  <1>5. ParseIso(d).at \in Int
    <2> HIDE DEF minute, zone
    <2> QED
      BY <1>1, <1>2, <1>3, <1>4 DEF Instant, OfADay
  <1>6. ASSUME Unmistakable(d)
        PROVE  OnItsDay(ParseIso(d).at, d) /\ (Legible(d) => ParseIso(d).at = Meant(d))
    <2>1. d.script = "ascii"
      <3>1. d.script # "monthname"
        BY ParsersAnswer DEF ParseIso
      <3> QED
        BY <1>6, <3>1 DEF Unmistakable, Texts, Scripts
    <2>2. IsoDay(d) = d.day
      BY <1>1, <1>6, <2>1 DEF IsoDay, Unmistakable
    <2>3. zone = d.zone
      BY <1>1, <1>6 DEF Unmistakable
    <2>4. Legible(d) => minute = d.minute
      BY <2>1 DEF Legible
    <2> HIDE DEF minute, zone
    <2> QED
      BY <1>1, <1>2, <1>4, <2>2, <2>3, <2>4, Units DEF OnItsDay, Meant, Instant, OfADay
  <1> QED
    BY <1>5, <1>6 DEF TrueTo

\* What the parser makes of a text is true to it, in the format that fits it.
LEMMA ParsedIsTrue ==
  ASSUME NEW d \in Texts, NEW fmt \in {"auto", "bs", "iso"}, fmt = "iso" => d.script # "devanagari",
         ParseDatetime(d, fmt).ok
  PROVE  ParseDatetime(d, fmt).at \in Int /\ TrueTo(ParseDatetime(d, fmt).at, d)
  <1>1. CASE fmt = "bs"
    BY <1>1, BsIsTrue DEF ParseDatetime
  <1>2. CASE fmt = "auto" /\ ParseBs(d) # Unparseable
    <2>1. ParseDatetime(d, fmt) = ParseBs(d)
      BY <1>2 DEF ParseDatetime
    <2> QED
      BY <2>1, BsIsTrue
  <1>3. CASE fmt = "iso" \/ (fmt = "auto" /\ ParseBs(d) = Unparseable)
    <2>1. ParseDatetime(d, fmt) = ParseIso(d)
      BY <1>3 DEF ParseDatetime
    <2>2. fmt = "iso" \/ ParseBs(d) = Unparseable => d.script # "devanagari" \/ d.shape # "whole"
      <3>1. d.script = "devanagari" /\ d.shape = "whole" => ParseBs(d).ok \/ ParseBs(d).raised
        BY ParsersAnswer DEF ParseBs, LooksBikramSambat, Parsed
      <3> QED
        BY <3>1, ParsersAnswer
    <2> QED
      BY <1>3, <2>1, <2>2, IsoIsTrue
  <1>4. fmt = "bs" \/ fmt = "auto" \/ fmt = "iso"
    OBVIOUS
  <1> QED
    BY <1>1, <1>2, <1>3, <1>4, Zenon

LEMMA PageTextIsADate == ASSUME NEW page \in Pages, NEW pack \in Packs PROVE PageText(page, pack) \in Dates
  <1>1. page.element \in Dates /\ \A i \in DOMAIN page.objects : page.objects[i].date \in Dates
    BY PagesAssumption DEF Dates
  <1>2. JsonLd(page.objects) \in Dates
    BY <1>1 DEF JsonLd, Dates
  <1> QED
    BY <1>1, <1>2 DEF PageText

\* The outlet publishes what it did: a date explained before the step is so after.
LEMMA SameGiven ==
  ASSUME given' = given
  PROVE  /\ TextOfPage' = TextOfPage
         /\ Sourced(item'.published, from') => Sourced(item.published, from)'
         /\ PageText(given.page, given.pack)' = TextOfPage
  BY DEF TextOfPage, Sourced, Printings, TrueTo, Unmistakable, Legible, OnItsDay

LEMMA ReadEntryInv == DatingInv /\ ReadEntry => DatingInv'
  <1> SUFFICES ASSUME DatingInv, ReadEntry PROVE DatingInv'
    OBVIOUS
  <1> DEFINE date == ParseFeed(given.entry)
             entry == given.entry
             kept == date.ok /\ ~IsImplausible(date.at)
  <1>1. /\ given' = given /\ pc' \in {"failed", "fresh"} /\ DOMAIN item' = DOMAIN item
        /\ ~item'.estimated
        /\ item'.published = IF kept THEN date.at ELSE NoDate
        /\ from' = IF kept THEN FeedText(entry) ELSE NoDate
    BY DEF ReadEntry, DatingInv
  <1>2. entry \in Entries /\ \A i \in {1, 2} : entry.texts[i] \in Dates
    BY EntriesAssumption DEF DatingInv, Dates
  <1>3. ASSUME date.ok PROVE Sourced(date.at, FeedText(entry))
    <2>1. CASE FeedTimes(entry) # {}
      <3>1. FirstOf(FeedTimes(entry)) \in FeedTimes(entry)
        BY <2>1 DEF FirstOf, FeedTimes
      <3>2. date.at = Instant(entry.times[FirstOf(FeedTimes(entry))], "UTC")
        BY <2>1 DEF ParseFeed, Parsed
      <3>3. FeedText(entry) = NoDate
        BY <2>1 DEF FeedText
      <3> QED
        BY <3>1, <3>2, <3>3 DEF Sourced
    <2>2. CASE FeedTimes(entry) = {} /\ FeedText(entry) # NoDate
      <3> DEFINE text == FeedText(entry)
      <3>1. text \in {entry.texts[1], entry.texts[2]}
        <4> DEFINE texts == {i \in {1, 2} : entry.texts[i] # NoDate
                                              /\ ParseDatetime(entry.texts[i], "auto") # Unparseable}
        <4>1. text = IF texts # {} THEN entry.texts[FirstOf(texts)] ELSE NoDate
          BY <2>2 DEF FeedText
        <4>2. FirstOf(texts) \in {1, 2}
          BY DEF FirstOf
        <4> HIDE DEF texts
        <4> QED
          BY <2>2, <4>1, <4>2
      <3>2. date = ParseDatetime(text, "auto")
        BY <2>2 DEF ParseFeed
      <3>3. text \in Texts
        BY <1>2, <2>2, <3>1 DEF Dates
      <3>4. TrueTo(date.at, text)
        BY <1>3, <3>2, <3>3, ParsedIsTrue
      <3> QED
        BY <2>2, <3>1, <3>4 DEF Sourced, Printings
    <2>3. CASE FeedTimes(entry) = {} /\ FeedText(entry) = NoDate
      BY <1>3, <2>3, ParsersAnswer DEF ParseFeed
    <2> QED
      BY <2>1, <2>2, <2>3
  <1> HIDE DEF date
  <1>4. item'.published # NoDate => Sourced(item'.published, from')
    BY <1>1, <1>3, SameGiven
  <1> QED
    BY <1>1, <1>4, SameGiven DEF DatingInv, DatesAreMeant

\* A text the pack's format fits, once parsed, is the outlet's.
LEMMA TextIsSourced ==
  ASSUME DatingInv, NEW text \in {given.entry.texts[1], TextOfPage}, text # NoDate,
         ParseDatetime(text, given.pack.format).ok
  PROVE  /\ ParseDatetime(text, given.pack.format).at \in Int
         /\ Sourced(ParseDatetime(text, given.pack.format).at, text)
  <1>1. text \in Dates
    BY EntriesAssumption, PageTextIsADate DEF DatingInv, TextOfPage, Dates
  <1>2. text \in Texts /\ given.pack.format \in {"auto", "bs", "iso"}
        /\ (given.pack.format = "iso" => text.script # "devanagari")
    BY <1>1 DEF Dates, DatingInv, Packs, Fits
  <1>3. /\ ParseDatetime(text, given.pack.format).at \in Int
        /\ TrueTo(ParseDatetime(text, given.pack.format).at, text)
    BY <1>2, ParsedIsTrue
  <1> QED
    BY <1>3 DEF Sourced, Printings

LEMMA ReadCardInv == DatingInv /\ ReadCard => DatingInv'
  <1> SUFFICES ASSUME DatingInv, ReadCard PROVE DatingInv'
    OBVIOUS
  <1> DEFINE text == given.entry.texts[1]
             date == IF text = NoDate THEN Unparseable ELSE ParseDatetime(text, given.pack.format)
  <1>1. /\ given' = given /\ pc' \in {"failed", "fresh"} /\ DOMAIN item' = DOMAIN item
        /\ ~item'.estimated /\ item'.published = IF date.ok THEN date.at ELSE NoDate
        /\ from' = IF date.ok THEN text ELSE NoDate
    BY DEF ReadCard, DatingInv
  <1>2. date.ok => Sourced(date.at, text)
    BY TextIsSourced, ParsersAnswer
  <1> HIDE DEF date
  <1>3. item'.published # NoDate => Sourced(item'.published, from')
    BY <1>1, <1>2, SameGiven
  <1> QED
    BY <1>1, <1>3, SameGiven DEF DatingInv, DatesAreMeant

LEMMA FetchBodyInv == DatingInv /\ FetchBody => DatingInv'
  <1> SUFFICES ASSUME DatingInv, FetchBody PROVE DatingInv'
    OBVIOUS
  <1> DEFINE text == TextOfPage
             date == IF text = NoDate THEN Unparseable ELSE ParseDatetime(text, given.pack.format)
             fills == date.ok /\ item.published = NoDate
  <1>1. /\ given' = given /\ pc' \in {"failed", "read"} /\ DOMAIN item' = DOMAIN item
        /\ ~item'.estimated
        /\ item'.published = IF fills THEN date.at ELSE item.published
        /\ from' = IF fills THEN text ELSE from
    BY DEF FetchBody, DatingInv, TextOfPage
  <1>2. date.ok => date.at \in Int /\ Sourced(date.at, text)
    BY TextIsSourced, ParsersAnswer
  <1>3. ~date.ok => text = NoDate \/ ~ParseDatetime(text, given.pack.format).ok
    OBVIOUS
  <1> HIDE DEF date
  <1>4. item'.published # NoDate => Sourced(item'.published, from')
    BY <1>1, <1>2, SameGiven DEF DatingInv, FetchBody
  <1>5. item'.published = NoDate => ~date.ok
    BY <1>1, <1>2, NoDateAssumption
  <1> QED
    BY <1>1, <1>3, <1>4, <1>5, SameGiven DEF DatingInv, DatesAreMeant

LEMMA NormalizeInv == DatingInv /\ Normalize => DatingInv'
  <1> SUFFICES ASSUME DatingInv, Normalize PROVE DatingInv'
    OBVIOUS
  <1>1. /\ given' = given /\ from' = from /\ pc \in {"read", "unread"}
        /\ pc' = IF pc = "read" THEN "stored" ELSE "stored_unread"
        /\ item' = IF item.published = NoDate THEN [published |-> 0, estimated |-> TRUE] ELSE item
    BY DEF Normalize
  <1>2. DOMAIN item' = {"published", "estimated"}
    BY <1>1 DEF DatingInv
  <1>3. DatesAreMeant'
    <2>1. CASE item.published = NoDate
      <3>1. item'.published = 0 /\ item'.estimated
        BY <1>1, <2>1
      <3>2. pc' = "stored" => TextOfPage = NoDate \/ ~ParseDatetime(TextOfPage, given.pack.format).ok
        BY <1>1, <2>1 DEF DatingInv
      <3> QED
        BY <1>1, <3>1, <3>2 DEF DatesAreMeant, TextOfPage
    <2>2. CASE item.published # NoDate
      <3>1. item' = item /\ ~item.estimated /\ Sourced(item.published, from)
        BY <1>1, <2>2 DEF DatingInv
      <3> QED
        BY <1>1, <3>1 DEF DatesAreMeant, Sourced, Printings, TrueTo, TextOfPage
    <2> QED
      BY <2>1, <2>2
  <1> QED
    BY <1>1, <1>2, <1>3, SameGiven DEF DatingInv

LEMMA DatingInvariant == DatingSpec => []DatingInv
  <1>1. DatingInit => DatingInv
    BY DEF DatingInit, DatingInv, DatesAreMeant, TextOfPage
  <1>2. DatingInv /\ [DatingNext]_datingVars => DatingInv'
    <2> SUFFICES ASSUME DatingInv, [DatingNext]_datingVars PROVE DatingInv'
      OBVIOUS
    <2>1. CASE UNCHANGED datingVars
      BY <2>1 DEF datingVars, DatingInv, DatesAreMeant, TextOfPage, Sourced, Printings
    <2>2. CASE SkipBody
      BY <2>2 DEF SkipBody, DatingInv, DatesAreMeant, TextOfPage, Sourced, Printings
    <2> QED
      BY <2>1, <2>2, ReadEntryInv, ReadCardInv, FetchBodyInv, NormalizeInv DEF DatingNext
  <1> QED
    BY <1>1, <1>2, PTL DEF DatingSpec

\* Whatever feed, listing and page print, an article's date that is not marked
\* as estimated is a time of the feed or was read from a text: it is on the day
\* this names, if that leaves no choice of calendar, order or zone, and at its
\* minute, if the clock is printed as the parser looks for it.  A page's date is
\* passed over only when it cannot be parsed (dates.py parse_datetime and
\* parse_feed_datetime, rss.py, html.py, article.py extract, normalize.py).
THEOREM DatesAreTheOutlets == DatingSpec => []DatesAreMeant
  <1>1. DatingInv => DatesAreMeant
    BY DEF DatingInv
  <1> QED
    BY <1>1, DatingInvariant, PTL

-----------------------------------------------------------------------------
(* The terms of the lexicon in a text.                                     *)

TextInv == lexicon \in Files /\ title \in Seq(Tokens) /\ body \in Seq(Tokens)

\* A term of an accepted lexicon and a text, as the files and the tokens have them.
TermTyped(term) ==
    /\ term.weight \in Int /\ IsSequence(term.parts) /\ term.parts # << >>
    /\ \A k \in DOMAIN term.parts :
          /\ term.parts[k].star \in BOOLEAN /\ IsSequence(term.parts[k].word)
          /\ LegalPart(term.parts[k])

\* A prefix that is no shorter than the key has its first letters in common
\* with what it begins.
LEMMA PrefixSharesFirstLetters ==
  ASSUME NEW w, NEW f, IsSequence(w), IsSequence(f), IsPrefix(w, f), Len(w) >= PrefixKey
  PROVE  FirstLetters(w) = FirstLetters(f)
  <1>1. Len(w) \in Nat /\ Len(f) \in Nat /\ Len(w) <= Len(f) /\ PrefixKey \in Nat \ {0}
    BY PrefixKeyAssumption DEF IsSequence, IsPrefix
  <1>2. \A i \in 1..Len(w) : w[i] = f[i]
    <2>1. w \in Seq({w[i] : i \in DOMAIN w}) /\ f \in Seq({f[i] : i \in DOMAIN f})
      BY DEF IsSequence
    <2>2. \A i \in 1..Len(w) : SubSeq(w, 1, Len(w))[i] = w[i] /\ SubSeq(f, 1, Len(w))[i] = f[i]
      BY <1>1, <2>1
    <2> QED
      BY <2>2 DEF IsPrefix
  <1>3. SubSeq(w, 1, PrefixKey) = SubSeq(f, 1, PrefixKey)
    <2>1. \A i \in 1..PrefixKey : w[i] = f[i]
      BY <1>1, <1>2
    <2> QED
      BY <1>1, <2>1
  <1>4. ~(Len(f) < PrefixKey) /\ (Len(w) < PrefixKey => FALSE)
    BY <1>1
  <1> QED
    BY <1>3, <1>4 DEF FirstLetters

LEMMA TermLength ==
  ASSUME NEW t, TermTyped(t)
  PROVE  t.weight \in Int /\ Len(t.parts) \in Nat \ {0} /\ 1 \in DOMAIN t.parts
  BY DEF TermTyped, IsSequence

\* What matches at a word is among the candidates for the word.
LEMMA IndexFindsMatches ==
  ASSUME NEW terms, NEW term \in terms, TermTyped(term),
         NEW tokens \in Seq(Tokens), NEW i \in DOMAIN tokens, MatchesAt(term, tokens, i)
  PROVE  term \in Indexed(terms, tokens[i])
  <1> DEFINE first == term.parts[1]
  <1>1. Len(term.parts) \in Nat \ {0} /\ 1 \in DOMAIN term.parts
    BY TermLength
  <1>2. i + 1 - 1 = i /\ tokens[i] \in Tokens
    OBVIOUS
  <1>3. PartMatches(first, tokens[i])
    BY <1>1, <1>2 DEF MatchesAt
  <1>4. IsSequence(first.word) /\ LegalPart(first)
    BY <1>1 DEF TermTyped
  <1>5. \A form \in Forms(tokens[i]) : IsSequence(form)
    BY <1>2, TokensAssumption DEF Forms
  <1>6. CASE first.star
    <2>1. PICK form \in Forms(tokens[i]) : IsPrefix(first.word, form)
      BY <1>3, <1>6 DEF PartMatches
    <2>2. FirstLetters(first.word) = FirstLetters(form)
      BY <1>4, <1>5, <1>6, <2>1, PrefixSharesFirstLetters DEF LegalPart
    <2> QED
      BY <1>6, <2>2 DEF Indexed
  <1>7. CASE ~first.star
    <2>1. first.word \in Forms(tokens[i])
      BY <1>3, <1>7 DEF PartMatches
    <2> QED
      BY <1>7, <2>1 DEF Indexed
  <1> QED
    BY <1>6, <1>7

LEMMA TopIsOfAll ==
  ASSUME NEW terms, \A t \in terms : TermTyped(t), NEW tokens \in Seq(Tokens), NEW i \in DOMAIN tokens
  PROVE  TopMatches(terms, tokens, i) = TopOf({t \in terms : MatchesAt(t, tokens, i)})
  <1>1. {t \in Indexed(terms, tokens[i]) : MatchesAt(t, tokens, i)} = {t \in terms : MatchesAt(t, tokens, i)}
    <2>1. Indexed(terms, tokens[i]) \subseteq terms
      BY DEF Indexed
    <2>2. \A t \in terms : MatchesAt(t, tokens, i) => t \in Indexed(terms, tokens[i])
      BY IndexFindsMatches
    <2> QED
      BY <2>1, <2>2
  <1> QED
    BY <1>1 DEF TopMatches

\* Among finitely many terms some are outranked by none.
LEMMA TopExists ==
  ASSUME NEW M, IsFiniteSet(M), M # {}, \A t \in M : TermTyped(t)
  PROVE  TopOf(M) # {}
  <1> DEFINE Above(t) == {u \in M : Outranks(u, t)}
             Sizes == {Cardinality(Above(t)) : t \in M}
  <1>1. \A t \in M : t.weight \in Int /\ Len(t.parts) \in Nat
    BY TermLength
  <1>2. \A t \in M : IsFiniteSet(Above(t)) /\ Cardinality(Above(t)) \in Nat
    BY FS_Subset, FS_CardinalityType
  <1>3. Sizes \in SUBSET Nat /\ Sizes # {}
    BY <1>2
  <1>4. PICK n \in Sizes : \A m \in Sizes : n <= m
    BY <1>3, LeastId
  <1>5. PICK t \in M : n = Cardinality(Above(t))
    BY <1>4
  <1>6. ASSUME NEW u \in M, Outranks(u, t) PROVE FALSE
    <2>1. Above(u) \subseteq Above(t) /\ u \in Above(t) /\ u \notin Above(u)
      BY <1>1, <1>6 DEF Outranks
    <2> HIDE DEF Above
    <2>2. Cardinality(Above(u)) < Cardinality(Above(t))
      BY <1>2, <2>1, FS_Subset
    <2> QED
      BY <1>2, <1>4, <1>5, <2>2
  <1> QED
    BY <1>6 DEF TopOf

\* A chosen term fits between the position and the end of the text.
LEMMA LongestFits ==
  ASSUME NEW terms, \A t \in terms : TermTyped(t), NEW tokens \in Seq(Tokens), NEW i \in DOMAIN tokens
  PROVE  /\ Longest(terms, tokens, i) \in Nat
         /\ i + Longest(terms, tokens, i) <= Len(tokens) + 1
         /\ Longest(terms, tokens, i) = 0 <=> TopMatches(terms, tokens, i) = {}
  <1>1. CASE TopMatches(terms, tokens, i) = {}
    BY <1>1 DEF Longest
  <1>2. CASE TopMatches(terms, tokens, i) # {}
    <2>1. PICK t \in TopMatches(terms, tokens, i) : Longest(terms, tokens, i) = Len(t.parts)
      BY <1>2 DEF Longest
    <2>2. t \in terms /\ MatchesAt(t, tokens, i)
      BY <2>1 DEF TopMatches, TopOf, Indexed
    <2>3. Len(t.parts) \in Nat \ {0} /\ i + Len(t.parts) - 1 <= Len(tokens)
      BY <2>2, TermLength DEF MatchesAt
    <2> QED
      BY <1>2, <2>1, <2>3
  <1> QED
    BY <1>1, <1>2

\* count passes over no word but those of its claims.
LEMMA PassedOverIsClaimed ==
  ASSUME NEW terms, \A t \in terms : TermTyped(t), NEW tokens \in Seq(Tokens), NEW i \in DOMAIN tokens,
         \A j \in 1..(i - 1) : ~(j + Claims(terms, tokens)[j] > i)
  PROVE  i \in Stops(terms, tokens)
  <1> DEFINE end == Len(tokens) + 1
             next(j) == j + (IF Longest(terms, tokens, j) = 0 THEN 1 ELSE Longest(terms, tokens, j))
             closed == {S \in SUBSET (1..end) : 1 \in S /\ \A m \in Moves(terms, tokens) : m[1] \in S => m[2] \in S}
  <1>1. DOMAIN tokens = 1..Len(tokens) /\ Len(tokens) \in Nat /\ i \in Nat \ {0}
    OBVIOUS
  <1>2. \A j \in DOMAIN tokens : next(j) \in 1..end /\ next(j) > j
    <2> SUFFICES ASSUME NEW j \in DOMAIN tokens PROVE next(j) \in 1..end /\ next(j) > j
      OBVIOUS
    <2>1. Longest(terms, tokens, j) \in Nat /\ j + Longest(terms, tokens, j) <= Len(tokens) + 1
      BY LongestFits
    <2> QED
      BY <1>1, <2>1
  <1>3. Moves(terms, tokens) = {<<j, next(j)>> : j \in DOMAIN tokens}
    BY DEF Moves
  <1>4. Stops(terms, tokens) = {k \in 1..end : \A S \in closed : k \in S}
    BY DEF Stops
  <1>5. \A j \in DOMAIN tokens : j \in Stops(terms, tokens) => next(j) \in Stops(terms, tokens)
    <2> SUFFICES ASSUME NEW j \in DOMAIN tokens, j \in Stops(terms, tokens), NEW S \in closed
                 PROVE  next(j) \in S
      BY <1>2, <1>4
    <2>1. <<j, next(j)>> \in Moves(terms, tokens) /\ j \in S
      BY <1>3, <1>4
    <2> HIDE DEF next
    <2> QED
      BY <2>1
  <1>6. 1 \in Stops(terms, tokens)
    BY <1>1, <1>4
  <1> HIDE DEF next, closed
  <1> SUFFICES ASSUME i \notin Stops(terms, tokens) PROVE FALSE
    OBVIOUS
  \* the last stop before i
  <1> DEFINE Distances == {i - j : j \in {k \in Stops(terms, tokens) : k < i}}
  <1>7. Distances \in SUBSET Nat /\ Distances # {}
    <2>1. 1 < i /\ Stops(terms, tokens) \subseteq 1..end
      BY <1>1, <1>4, <1>6
    <2> QED
      BY <1>1, <1>6, <2>1
  <1>8. PICK d \in Distances : \A e \in Distances : d <= e
    BY <1>7, LeastId
  <1>9. PICK j \in Stops(terms, tokens) : j < i /\ d = i - j
    BY <1>8
  <1>10. j \in DOMAIN tokens /\ j \in 1..(i - 1)
    BY <1>1, <1>4, <1>9
  <1>11. next(j) \in Stops(terms, tokens) /\ next(j) > j /\ next(j) \in Nat
    BY <1>2, <1>5, <1>10
  <1>12. next(j) > i
    <2>1. next(j) # i
      BY <1>11
    <2>2. ~(next(j) < i)
      <3> SUFFICES ASSUME next(j) < i PROVE FALSE
        OBVIOUS
      <3>1. i - next(j) \in Distances
        BY <1>11
      <3>2. d <= i - next(j)
        BY <1>8, <3>1
      <3> QED
        BY <1>1, <1>9, <1>10, <1>11, <3>2
    <2> QED
      BY <1>1, <1>11, <2>1, <2>2
  <1>13. next(j) = j + Claims(terms, tokens)[j]
    <2>1. Claims(terms, tokens)[j] = Longest(terms, tokens, j)
      BY <1>9, <1>10 DEF Claims
    <2> QED
      BY <1>1, <1>10, <1>12, <2>1 DEF next
  <1>14. j + Claims(terms, tokens)[j] > i
    BY <1>12, <1>13
  <1> QED
    BY <1>10, <1>14

LEMMA AcceptedTermsTyped ==
  ASSUME lexicon \in Files, Accepted(lexicon)
  PROVE  IsFiniteSet(Terms(lexicon)) /\ \A t \in Terms(lexicon) : TermTyped(t)
  <1> SUFFICES ASSUME NEW t \in Terms(lexicon) PROVE TermTyped(t)
    BY FilesAssumption
  <1>1. PICK tier \in lexicon.tiers : \E label \in tier.labels : t = [parts |-> label, weight |-> tier.weight]
    BY DEF Terms
  <1>2. t.parts # << >> /\ \A k \in DOMAIN t.parts : LegalPart(t.parts[k])
    BY <1>1 DEF Accepted, LegalLabels
  <1> QED
    BY <1>2, FilesAssumption DEF TermTyped

LEMMA NothingIsMissed ==
  ASSUME TextInv, Accepted(lexicon), NEW text \in {title, body}, NEW i \in DOMAIN text
  PROVE  ~MissedAt(text, i)
  <1> DEFINE terms == Terms(lexicon)
             matching == {t \in terms : MatchesAt(t, text, i)}
  <1>1. text \in Seq(Tokens)
    BY DEF TextInv
  <1>2. IsFiniteSet(terms) /\ \A t \in terms : TermTyped(t)
    BY AcceptedTermsTyped DEF TextInv
  <1> HIDE DEF terms
  <1>3. TopMatches(terms, text, i) = TopOf(matching)
    BY <1>1, <1>2, TopIsOfAll
  <1>4. matching # {} => TopOf(matching) # {}
    <2>1. IsFiniteSet(matching) /\ \A t \in matching : TermTyped(t)
      BY <1>2, FS_Subset
    <2> QED
      BY <2>1, TopExists
  <1>5. ASSUME \A j \in 1..(i - 1) : ~(j + Claims(terms, text)[j] > i)
        PROVE  Claims(terms, text)[i] = 0 => matching = {}
    <2>1. i \in Stops(terms, text)
      BY <1>1, <1>2, <1>5, PassedOverIsClaimed
    <2>2. Claims(terms, text)[i] = Longest(terms, text, i)
      BY <2>1 DEF Claims
    <2>3. Longest(terms, text, i) = 0 => TopMatches(terms, text, i) = {}
      BY <1>1, <1>2, LongestFits
    <2> QED
      BY <1>3, <1>4, <2>2, <2>3
  <1> QED
    BY <1>3, <1>5 DEF MissedAt, terms

LEMMA TextInvariant == AnalysisSpec => []TextInv
  <1>1. AnalysisInit => TextInv
    BY DEF AnalysisInit, TextInv
  <1>2. TextInv /\ [AnalysisNext]_textVars => TextInv'
    <2> SUFFICES ASSUME TextInv, [AnalysisNext]_textVars PROVE TextInv'
      OBVIOUS
    <2>1. ASSUME NEW t \in Tokens, TitleWord(t) PROVE TextInv'
      BY <2>1 DEF TextInv, TitleWord
    <2>2. ASSUME NEW t \in Tokens, BodyWord(t) PROVE TextInv'
      BY <2>2 DEF TextInv, BodyWord
    <2>3. CASE UNCHANGED textVars
      BY <2>3 DEF TextInv, textVars
    <2> QED
      BY <2>1, <2>2, <2>3 DEF AnalysisNext
  <1> QED
    BY <1>1, <1>2, PTL DEF AnalysisSpec

\* "so grading does not test every term at every position": whatever the text
\* and the lexicon parse_lexicon accepts, the index over first words finds at
\* each position count stops at the terms the full test would, and count stops
\* wherever it has not claimed the word (criticality.py TermIndex).
THEOREM TheIndexLosesNothing == AnalysisSpec => []IndexLosesNothing
  <1>1. TextInv => IndexLosesNothing
    BY NothingIsMissed DEF IndexLosesNothing
  <1> QED
    BY <1>1, TextInvariant, PTL

-----------------------------------------------------------------------------
(* Folds (MapThenFoldSet and FoldLeft of the library).                     *)

\* A non-empty set of numbers has a least one.
LEMMA LeastNumber ==
  ASSUME NEW T \in SUBSET Nat, T # {}
  PROVE  \E n \in T : \A m \in T : n <= m
  <1>1. PICK n \in T : \A m \in T : ~(<<m, n>> \in OpToRel(<, Nat))
    BY NatLessThanWellFounded, WFMin
  <1>2. \A m \in T : ~(m < n) /\ m \in Nat
    BY <1>1 DEF OpToRel
  <1> QED
    BY <1>2

Picks(pick, S) == \A s \in SUBSET S : s # {} => pick[s] \in s

\* The fold as a function of the sets that remain, a step being a function of
\* the state and the next element.
Folded(it, base, step, pick, DD) ==
    it = [s \in DD |-> IF s = {} THEN base ELSE step[<<it[s \ {pick[s]}], pick[s]>>]]

Small(S, n) == {s \in SUBSET S : Cardinality(s) <= n}

LEMMA RestIsSmaller ==
  ASSUME NEW S, IsFiniteSet(S), NEW s \in SUBSET S, NEW x \in s
  PROVE  /\ IsFiniteSet(s) /\ Cardinality(s) \in Nat /\ Cardinality(s \ {x}) \in Nat
         /\ Cardinality(s \ {x}) = Cardinality(s) - 1 /\ s \ {x} \in SUBSET S
  <1>1. IsFiniteSet(s)
    BY FS_Subset
  <1> QED
    BY <1>1, FS_RemoveElement, FS_CardinalityType, FS_Subset

LEMMA FoldGrows ==
  ASSUME NEW S, IsFiniteSet(S), NEW State, NEW base \in State, NEW step \in [State \X S -> State],
         NEW pick, Picks(pick, S), NEW n \in Nat,
         NEW it \in [Small(S, n) -> State], Folded(it, base, step, pick, Small(S, n))
  PROVE  \E next \in [Small(S, n + 1) -> State] : Folded(next, base, step, pick, Small(S, n + 1))
  <1> DEFINE next == [s \in Small(S, n + 1) |->
                          IF s = {} THEN base ELSE step[<<it[s \ {pick[s]}], pick[s]>>]]
  <1>1. ASSUME NEW s \in Small(S, n + 1), s # {}
        PROVE  pick[s] \in S /\ s \ {pick[s]} \in Small(S, n)
    <2>1. pick[s] \in s /\ s \in SUBSET S /\ Cardinality(s) <= n + 1
      BY <1>1 DEF Small, Picks
    <2>2. Cardinality(s \ {pick[s]}) = Cardinality(s) - 1 /\ Cardinality(s) \in Nat
      BY <2>1, RestIsSmaller
    <2> QED
      BY <2>1, <2>2 DEF Small
  <1>2. next \in [Small(S, n + 1) -> State]
    <2> SUFFICES ASSUME NEW s \in Small(S, n + 1) PROVE next[s] \in State
      BY Zenon
    <2>1. CASE s = {}
      BY <2>1
    <2>2. CASE s # {}
      <3>1. <<it[s \ {pick[s]}], pick[s]>> \in State \X S
        BY <1>1, <2>2
      <3> QED
        BY <2>2, <3>1
    <2> QED
      BY <2>1, <2>2
  <1>3. ASSUME NEW s \in Small(S, n) PROVE s \in Small(S, n + 1) /\ next[s] = it[s]
    <2>1. s \in Small(S, n + 1)
      <3>1. Cardinality(s) <= n /\ s \in SUBSET S
        BY DEF Small
      <3>2. Cardinality(s) \in Nat
        BY <3>1, FS_Subset, FS_CardinalityType
      <3> QED
        BY <3>1, <3>2 DEF Small
    <2> QED
      BY <2>1 DEF Folded
  <1>4. ASSUME NEW s \in Small(S, n + 1)
        PROVE  next[s] = IF s = {} THEN base ELSE step[<<next[s \ {pick[s]}], pick[s]>>]
    BY <1>1, <1>3
  <1> HIDE DEF next
  <1>5. next = [s \in Small(S, n + 1) |-> next[s]]
    BY <1>2
  <1>6. Folded(next, base, step, pick, Small(S, n + 1))
    BY <1>4, <1>5 DEF Folded
  <1> QED
    BY <1>2, <1>6

LEMMA FoldExists ==
  ASSUME NEW S, IsFiniteSet(S), NEW State, NEW base \in State, NEW step \in [State \X S -> State],
         NEW pick, Picks(pick, S)
  PROVE  \E it \in [SUBSET S -> State] : Folded(it, base, step, pick, SUBSET S)
  <1> DEFINE Has(n) == \E it \in [Small(S, n) -> State] : Folded(it, base, step, pick, Small(S, n))
             Lacking == {n \in Nat : ~Has(n)}
  <1>1. Has(0)
    <2> DEFINE it == [s \in Small(S, 0) |-> base]
    <2>1. ASSUME NEW s \in Small(S, 0) PROVE s = {}
      <3>1. s \in SUBSET S /\ Cardinality(s) <= 0
        BY DEF Small
      <3>2. IsFiniteSet(s) /\ Cardinality(s) \in Nat
        BY <3>1, FS_Subset, FS_CardinalityType
      <3> QED
        BY <3>1, <3>2, FS_EmptySet
    <2>2. Folded(it, base, step, pick, Small(S, 0))
      BY <2>1 DEF Folded
    <2>3. it \in [Small(S, 0) -> State]
      OBVIOUS
    <2> QED
      BY <2>2, <2>3
  <1>2. ASSUME NEW n \in Nat, Has(n) PROVE Has(n + 1)
    BY <1>2, FoldGrows
  <1> HIDE DEF Has
  <1>3. Lacking = {}
    <2> SUFFICES ASSUME Lacking # {} PROVE FALSE
      OBVIOUS
    <2>1. PICK n \in Lacking : \A m \in Lacking : n <= m
      BY LeastNumber
    <2>2. n # 0 /\ n \in Nat /\ ~Has(n)
      BY <1>1, <2>1
    <2>3. n - 1 \in Nat /\ n - 1 \notin Lacking
      BY <2>1, <2>2
    <2>4. Has(n - 1)
      BY <2>3
    <2> QED
      BY <1>2, <2>2, <2>3, <2>4
  <1>4. Small(S, Cardinality(S)) = SUBSET S
    BY FS_Subset, FS_CardinalityType DEF Small
  <1>5. Has(Cardinality(S))
    BY <1>3, FS_CardinalityType
  <1> QED
    BY <1>4, <1>5 DEF Has

\* Whatever holds of the empty set, and of a set when it holds of what pick
\* leaves of it, holds of every finite set.
IsInherited(Holds, pick, S) ==
    {} \in Holds /\ \A s \in SUBSET S : s # {} /\ s \ {pick[s]} \in Holds => s \in Holds

LEMMA HoldsOfEverySet ==
  ASSUME NEW S, IsFiniteSet(S), NEW pick, Picks(pick, S), NEW Holds, IsInherited(Holds, pick, S)
  PROVE  \A s \in SUBSET S : s \in Holds
  <1> DEFINE Others == (SUBSET S) \ Holds
             Sizes == {Cardinality(s) : s \in Others}
  <1>1. \A s \in SUBSET S : Cardinality(s) \in Nat
    BY FS_Subset, FS_CardinalityType
  <1> SUFFICES ASSUME Others # {} PROVE FALSE
    OBVIOUS
  <1>2. PICK n \in Sizes : \A m \in Sizes : n <= m
    <2>1. Sizes \in SUBSET Nat /\ Sizes # {}
      BY <1>1
    <2> HIDE DEF Sizes
    <2> QED
      BY <2>1, LeastNumber
  <1>3. PICK s \in Others : n = Cardinality(s)
    BY <1>2
  <1>4. s # {} /\ pick[s] \in s /\ s \in SUBSET S /\ s \notin Holds
    <2>1. s \in SUBSET S /\ s \notin Holds
      BY <1>3
    <2>2. s # {}
      BY <2>1 DEF IsInherited
    <2> QED
      BY <2>1, <2>2 DEF Picks
  <1> DEFINE t == s \ {pick[s]}
  <1>5. Cardinality(t) = Cardinality(s) - 1 /\ Cardinality(s) \in Nat /\ t \in SUBSET S
    BY <1>4, RestIsSmaller
  <1>6. t \notin Others
    <2> SUFFICES ASSUME t \in Others PROVE FALSE
      OBVIOUS
    <2>1. Cardinality(t) \in Sizes
      OBVIOUS
    <2> HIDE DEF Sizes, Others, t
    <2>2. n <= Cardinality(t) /\ n = Cardinality(s)
      BY <1>2, <1>3, <2>1
    <2> QED
      BY <1>5, <2>2
  <1>7. t \in Holds
    BY <1>5, <1>6
  <1> HIDE DEF Others
  <1> QED
    BY <1>4, <1>7, Zenon DEF IsInherited

-----------------------------------------------------------------------------
(* Sums over finite sets (SumFunction of the library).                     *)

Picked(s) == CHOOSE x \in s : TRUE
IsSum(it, f, S) == it = [s \in SUBSET S |-> IF s = {} THEN 0 ELSE f[Picked(s)] + it[s \ {Picked(s)}]]

LEMMA SumUnfolds ==
  ASSUME NEW S, NEW f, DOMAIN f = S
  PROVE  SumFunction(f) = (CHOOSE it : IsSum(it, f, S))[S]
  BY DEF SumFunction, SumFunctionOnSet, FoldFunctionOnSet, MapThenFoldSet, IsSum, Picked

LEMMA SumIsNat ==
  ASSUME NEW S, IsFiniteSet(S), NEW f \in [S -> Nat]
  PROVE  SumFunction(f) \in Nat
  <1> DEFINE step == [e \in Nat \X S |-> f[e[2]] + e[1]]
             pick == [s \in SUBSET S |-> Picked(s)]
  <1>1. Picks(pick, S)
    BY DEF Picks, Picked
  <1>2. step \in [Nat \X S -> Nat]
    OBVIOUS
  <1>3. PICK it \in [SUBSET S -> Nat] : Folded(it, 0, step, pick, SUBSET S)
    <2> HIDE DEF step, pick
    <2> QED
      BY <1>1, <1>2, FoldExists
  <1>4. IsSum(it, f, S)
    <2>1. ASSUME NEW s \in SUBSET S, s # {}
          PROVE  step[<<it[s \ {pick[s]}], pick[s]>>] = f[Picked(s)] + it[s \ {Picked(s)}]
      <3>1. pick[s] = Picked(s) /\ Picked(s) \in S /\ s \ {Picked(s)} \in SUBSET S
        BY <1>1, <2>1 DEF Picks
      <3>2. <<it[s \ {Picked(s)}], Picked(s)>> \in Nat \X S
        BY <3>1
      <3> QED
        BY <3>1, <3>2
    <2> HIDE DEF step, pick
    <2>2. \A s \in SUBSET S : it[s] = IF s = {} THEN 0 ELSE f[Picked(s)] + it[s \ {Picked(s)}]
      BY <1>3, <2>1 DEF Folded
    <2>3. it = [s \in SUBSET S |-> it[s]]
      BY <1>3
    <2> QED
      BY <2>2, <2>3 DEF IsSum
  <1> DEFINE sum == CHOOSE sum : IsSum(sum, f, S)
             Holds == {s \in SUBSET S : sum[s] \in Nat}
  <1>5. IsSum(sum, f, S)
    BY <1>4
  <1> HIDE DEF sum, step
  <1>6. IsInherited(Holds, pick, S)
    <2>1. \A s \in SUBSET S : sum[s] = IF s = {} THEN 0 ELSE f[Picked(s)] + sum[s \ {Picked(s)}]
      BY <1>5 DEF IsSum
    <2>2. {} \in Holds
      <3>1. sum[{}] = 0
        BY <2>1
      <3> QED
        BY <3>1
    <2>3. ASSUME NEW s \in SUBSET S, s # {}, s \ {pick[s]} \in Holds PROVE s \in Holds
      <3>1. pick[s] = Picked(s) /\ Picked(s) \in S
        BY <1>1, <2>3 DEF Picks
      <3>2. sum[s] = f[Picked(s)] + sum[s \ {Picked(s)}] /\ f[Picked(s)] \in Nat /\ sum[s \ {Picked(s)}] \in Nat
        BY <2>1, <2>3, <3>1
      <3> QED
        BY <3>2
    <2> HIDE DEF Holds, pick
    <2> QED
      BY <2>2, <2>3 DEF IsInherited
  <1> HIDE DEF Holds, pick
  <1>7. S \in Holds
    BY <1>1, <1>6, HoldsOfEverySet
  <1>8. sum[S] \in Nat
    BY <1>7 DEF Holds
  <1> QED
    BY <1>8, SumUnfolds DEF sum

-----------------------------------------------------------------------------
(* Grades and dampening.                                                   *)

Reached(grades, tenths) == {i \in DOMAIN GRADES : tenths >= 10 * grades[GRADES[i]]}

LEMMA GradesDistinct ==
  /\ DOMAIN GRADES = 1..6 /\ GRADES[6] = "F"
  /\ \A i, j \in 1..6 : GRADES[i] = GRADES[j] => i = j
  BY DEF GRADES

LEMMA RankOfGrade == \A i \in 1..6 : Rank(GRADES[i]) = i
  BY GradesDistinct DEF Rank

LEMMA LeastReached ==
  ASSUME NEW R \in SUBSET (1..6), R # {}
  PROVE  Min(R) \in R /\ \A i \in R : Min(R) <= i
  <1>1. \E x \in R : \A y \in R : x <= y
    BY LeastId
  <1> QED
    BY <1>1 DEF Min

LEMMA RankGradeFor ==
  ASSUME NEW grades, NEW tenths
  PROVE  LET R == Reached(grades, tenths) IN
         /\ R \in SUBSET (1..6)
         /\ Rank(GradeFor(grades, tenths)) = IF R = {} THEN 6 ELSE Min(R)
         /\ Rank(GradeFor(grades, tenths)) \in 1..6
  <1> DEFINE R == Reached(grades, tenths)
  <1>1. R \in SUBSET (1..6)
    BY GradesDistinct DEF Reached
  <1>2. GradeFor(grades, tenths) = IF R = {} THEN GRADES[6] ELSE GRADES[Min(R)]
    BY GradesDistinct DEF GradeFor, Reached
  <1> HIDE DEF R
  <1>3. R # {} => Min(R) \in 1..6
    BY <1>1, LeastReached
  <1> QED
    BY <1>1, <1>2, <1>3, RankOfGrade DEF R

\* A lower score reaches no grade a higher one does not.
LEMMA LowerScoreMilder ==
  ASSUME NEW grades, \A g \in DOMAIN grades : grades[g] \in Int, DOMAIN grades = Range(GRADES),
         NEW m \in Int, NEW n \in Int, m <= n
  PROVE  Rank(GradeFor(grades, m)) >= Rank(GradeFor(grades, n))
  <1> DEFINE R == Reached(grades, m)
             S == Reached(grades, n)
  <1>1. R \subseteq S
    <2>1. \A i \in DOMAIN GRADES : grades[GRADES[i]] \in Int
      BY DEF Range
    <2> QED
      BY <2>1 DEF Reached
  <1>2. /\ R \in SUBSET (1..6) /\ S \in SUBSET (1..6)
        /\ Rank(GradeFor(grades, m)) = IF R = {} THEN 6 ELSE Min(R)
        /\ Rank(GradeFor(grades, n)) = IF S = {} THEN 6 ELSE Min(S)
        /\ Rank(GradeFor(grades, n)) \in 1..6
    BY RankGradeFor
  <1> HIDE DEF R, S
  <1>3. R # {} => Min(R) \in S /\ S # {}
    BY <1>1, <1>2, LeastReached
  <1>4. S # {} => \A i \in S : Min(S) <= i
    BY <1>2, LeastReached
  <1>5. CASE R = {}
    BY <1>2, <1>5
  <1>6. CASE R # {}
    <2>1. Min(S) <= Min(R) /\ Min(R) \in 1..6 /\ Min(S) \in 1..6
      BY <1>2, <1>3, <1>4, <1>6
    <2> QED
      BY <1>2, <1>3, <1>6, <2>1
  <1> QED
    BY <1>5, <1>6

LEMMA MilderThanBoth ==
  ASSUME NEW g, NEW h, Rank(g) \in Int, Rank(h) \in Int
  PROVE  Rank(Milder(g, h)) >= Rank(g) /\ Rank(Milder(g, h)) >= Rank(h)
  BY DEF Milder

LEMMA NoTermsNoClaims ==
  ASSUME NEW tokens
  PROVE  Claimed({}, tokens) = {}
  <1>1. \A i : TopMatches({}, tokens, i) = {}
    BY DEF TopMatches, TopOf, Indexed
  <1>2. \A i : Longest({}, tokens, i) = 0
    BY <1>1 DEF Longest
  <1> QED
    BY <1>2 DEF Claimed, Claims

\* The counts of a text are numbers.
LEMMA CountsAreNat ==
  ASSUME NEW terms, NEW tokens \in Seq(Tokens), NEW count \in Counts(terms, tokens), NEW t \in terms
  PROVE  count[t] \in Nat
  <1>1. PICK f : count = [u \in terms |-> Cardinality({i \in Claimed(terms, tokens) : f[i] = u})]
    BY DEF Counts
  <1> DEFINE at == {i \in Claimed(terms, tokens) : f[i] = t}
  <1>2. at \subseteq 1..Len(tokens) /\ Len(tokens) \in Nat
    BY DEF Claimed
  <1> HIDE DEF at
  <1>3. IsFiniteSet(1..Len(tokens))
    BY <1>2, FS_Interval
  <1>4. IsFiniteSet(at) /\ Cardinality(at) \in Nat
    BY <1>2, <1>3, FS_Subset, FS_CardinalityType
  <1> QED
    BY <1>1, <1>4 DEF at

LEMMA TotalIsNat ==
  ASSUME TextInv, Accepted(lexicon), NEW t \in Counts(Terms(lexicon), title),
         NEW b \in Counts(Terms(lexicon), body)
  PROVE  Total(lexicon, t, b) \in Nat
  <1> DEFINE points == [u \in Terms(lexicon) |-> Points(lexicon, u, t[u], b[u])]
  <1>1. lexicon.cap \in Nat /\ lexicon.titleMultiplier \in Nat
    BY FilesAssumption DEF TextInv, Accepted
  <1>2. ASSUME NEW u \in Terms(lexicon) PROVE points[u] \in Nat
    <2>1. t[u] \in Nat /\ b[u] \in Nat
      BY CountsAreNat DEF TextInv
    <2>2. u.weight \in Nat
      <3>1. \E tier \in lexicon.tiers : u.weight = tier.weight
        BY DEF Terms
      <3>2. u.weight > 0 /\ u.weight \in Int
        BY <3>1, FilesAssumption DEF Accepted, TextInv
      <3> QED
        BY <3>2
    <2>3. \A m, n \in Nat : m * n \in Nat
      OBVIOUS
    <2> DEFINE hits == b[u] + lexicon.titleMultiplier * t[u]
    <2>4. hits \in Nat
      BY <1>1, <2>1, <2>3
    <2> HIDE DEF hits
    <2>5. (IF hits < lexicon.cap THEN hits ELSE lexicon.cap) \in Nat
      BY <1>1, <2>4
    <2>6. points[u] = u.weight * (IF hits < lexicon.cap THEN hits ELSE lexicon.cap)
      BY DEF Points, hits
    <2> HIDE DEF points
    <2> QED
      BY <2>2, <2>3, <2>5, <2>6
  <1>3. points \in [Terms(lexicon) -> Nat]
    BY <1>2
  <1>4. IsFiniteSet(Terms(lexicon))
    BY AcceptedTermsTyped DEF TextInv
  <1> HIDE DEF points
  <1>5. SumFunction(points) \in Nat
    BY <1>3, <1>4, SumIsNat
  <1> QED
    BY <1>5 DEF Total, points

\* A dampened result: the lexicon has dampeners, and what they do is no rise.
LEMMA DampenedIsLower ==
  ASSUME TextInv, Accepted(lexicon), NEW c \in Scores(lexicon, title, body), c.dampened
  PROVE  /\ c.tenths > 0
         /\ Rank(c.grade) >= Rank(GradeFor(lexicon.grades, 10 * c.total))
         /\ lexicon.dampen.maxGrade # NoGrade => Rank(c.grade) >= Rank(lexicon.dampen.maxGrade)
  <1> DEFINE dampen == lexicon.dampen
  <1>1. PICK t \in Counts(Terms(lexicon), title), b \in Counts(Terms(lexicon), body) :
          LET total == Total(lexicon, t, b)
              dampened == IsDampened(lexicon, total, title, body)
              tenths == IF dampened THEN total * dampen.tenths ELSE total * 10
              graded == GradeFor(lexicon.grades, tenths)
          IN c = [total |-> total, tenths |-> tenths, dampened |-> dampened,
                  grade |-> IF dampened /\ dampen.maxGrade # NoGrade
                            THEN Milder(graded, dampen.maxGrade) ELSE graded]
    BY DEF Scores
  <1> DEFINE total == Total(lexicon, t, b)
             graded == GradeFor(lexicon.grades, c.tenths)
  <1>2. /\ c.total = total /\ IsDampened(lexicon, total, title, body)
        /\ c.tenths = total * dampen.tenths
        /\ c.grade = IF dampen.maxGrade # NoGrade THEN Milder(graded, dampen.maxGrade) ELSE graded
    BY <1>1
  <1>3. total \in Nat
    BY TotalIsNat
  <1> HIDE DEF total
  <1>4. total > 0 /\ dampen.given
    <2>1. ASSUME ~dampen.given PROVE FALSE
      <3>1. Dampeners(lexicon) = {}
        BY <2>1 DEF Dampeners
      <3>2. Claimed(Dampeners(lexicon), title) = {} /\ Cardinality(Claimed(Dampeners(lexicon), body)) = 0
        BY <3>1, NoTermsNoClaims, FS_EmptySet
      <3> QED
        BY <1>2, <3>2 DEF IsDampened
    <2> QED
      BY <1>2, <2>1 DEF IsDampened
  <1>5. /\ dampen.tenths \in 1..10 /\ dampen.maxGrade \in Range(GRADES) \cup {NoGrade}
        /\ DOMAIN lexicon.grades = Range(GRADES) /\ \A g \in DOMAIN lexicon.grades : lexicon.grades[g] \in Int
    <2>1. dampen.tenths \in Int /\ \A g \in DOMAIN lexicon.grades : lexicon.grades[g] \in Int
      BY FilesAssumption DEF TextInv
    <2>2. /\ dampen.tenths > 0 /\ dampen.tenths <= 10
          /\ dampen.maxGrade \in Range(GRADES) \cup {NoGrade} /\ DOMAIN lexicon.grades = Range(GRADES)
      BY <1>4 DEF Accepted, LegalDampeners
    <2> HIDE DEF dampen
    <2> QED
      BY <2>1, <2>2
  <1>6. c.tenths \in Nat /\ c.tenths > 0 /\ c.tenths <= 10 * total
    <2>1. \A m \in Nat : \A n \in 1..10 : m > 0 => m * n \in Nat /\ m * n > 0 /\ m * n <= 10 * m
      OBVIOUS
    <2> QED
      BY <1>2, <1>3, <1>4, <1>5, <2>1
  <1>7. Rank(graded) >= Rank(GradeFor(lexicon.grades, 10 * total))
    BY <1>3, <1>5, <1>6, LowerScoreMilder
  <1>8. Rank(graded) \in 1..6 /\ Rank(GradeFor(lexicon.grades, 10 * total)) \in 1..6
    BY RankGradeFor
  <1>9. ASSUME dampen.maxGrade # NoGrade PROVE Rank(dampen.maxGrade) \in 1..6
    BY <1>5, <1>9, RankOfGrade, GradesDistinct DEF Range
  <1> HIDE DEF graded, dampen
  <1>10. CASE dampen.maxGrade = NoGrade
    BY <1>2, <1>6, <1>7, <1>10 DEF dampen
  <1>11. CASE dampen.maxGrade # NoGrade
    <2>1. c.grade = Milder(graded, dampen.maxGrade)
      BY <1>2, <1>11
    <2>2. Rank(c.grade) >= Rank(graded) /\ Rank(c.grade) >= Rank(dampen.maxGrade)
          /\ Rank(c.grade) \in {Rank(graded), Rank(dampen.maxGrade)}
      BY <1>8, <1>9, <1>11, <2>1, MilderThanBoth DEF Milder
    <2> QED
      BY <1>2, <1>6, <1>7, <1>8, <1>9, <1>11, <2>2 DEF dampen
  <1> QED
    BY <1>10, <1>11

\* Dampening never makes an article graded more severely, and caps it where
\* the lexicon says, for every text and every lexicon that parse_lexicon
\* accepts (criticality.py score_criticality, grade_for).
THEOREM DampeningNeverRaises == AnalysisSpec => []DampeningOnlyLowers
  <1>1. TextInv => DampeningOnlyLowers
    BY DampenedIsLower DEF DampeningOnlyLowers, Analyse
  <1> QED
    BY <1>1, TextInvariant, PTL

-----------------------------------------------------------------------------
(* Noun phrases.                                                           *)

Stems == {t.stem : t \in Tokens}
ReadStates == [run : Seq(Stems), phrases : Seq(Seq(Stems))]
Unread == [run |-> << >>, phrases |-> << >>]

IsReading(it, tokens) ==
    it = [s \in SUBSET DOMAIN tokens |->
            IF s = {} THEN Unread ELSE Read(it[s \ {Max(s)}], tokens[Max(s)])]
ReadUpTo(tokens) == CHOOSE it : IsReading(it, tokens)

LEMMA PhrasesUnfold ==
  ASSUME NEW tokens
  PROVE  NounPhrases(tokens) =
            LET end == ReadUpTo(tokens)[DOMAIN tokens]
            IN IF end.run # << >> THEN Flush(end).phrases ELSE end.phrases
  BY DEF NounPhrases, FoldLeft, MapThenFoldSet, ReadUpTo, IsReading, Unread

LEMMA ReadTyped ==
  ASSUME NEW state \in ReadStates, NEW t \in Tokens
  PROVE  Flush(state) \in ReadStates /\ Read(state, t) \in ReadStates
  <1>1. t.stem \in Stems
    BY DEF Stems
  <1>2. ASSUME NEW st \in ReadStates PROVE Flush(st) \in ReadStates
    <2> DEFINE words == [i \in DOMAIN st.run |-> <<st.run[i]>>]
    <2>1. st.run \in Seq(Stems) /\ st.phrases \in Seq(Seq(Stems))
      BY DEF ReadStates
    <2>2. words \in Seq(Seq(Stems))
      <3>1. \A i \in 1..Len(st.run) : <<st.run[i]>> \in Seq(Stems)
        BY <2>1
      <3>2. Len(st.run) \in Nat /\ DOMAIN st.run = 1..Len(st.run)
        BY <2>1
      <3> QED
        BY <3>1, <3>2
    <2>3. <<st.run>> \in Seq(Seq(Stems))
      BY <2>1
    <2> HIDE DEF words
    <2>4. (IF Len(st.run) <= MaxPhraseWords THEN <<st.run>> ELSE words) \in Seq(Seq(Stems))
      BY <2>2, <2>3
    <2>5. Flush(st) = [run |-> << >>, phrases |-> st.phrases \o
                         (IF Len(st.run) <= MaxPhraseWords THEN <<st.run>> ELSE words)]
      BY DEF Flush, words
    <2> HIDE DEF Flush
    <2> QED
      BY <2>1, <2>4, <2>5, ConcatProperties DEF ReadStates
  <1>3. [state EXCEPT !.run = Append(@, t.stem)] \in ReadStates
    <2>1. Append(state.run, t.stem) \in Seq(Stems)
      BY <1>1, AppendProperties DEF ReadStates
    <2> QED
      BY <2>1 DEF ReadStates
  <1> QED
    BY <1>2, <1>3 DEF Read

LEMMA MaxOfPrefix ==
  ASSUME NEW n \in Nat
  PROVE  Max(1..(n + 1)) = n + 1 /\ (1..(n + 1)) \ {n + 1} = 1..n
  <1>1. \A x \in 1..(n + 1) : (\A y \in 1..(n + 1) : x >= y) <=> x = n + 1
    OBVIOUS
  <1>2. n + 1 \in 1..(n + 1)
    OBVIOUS
  <1>3. Max(1..(n + 1)) = CHOOSE x \in 1..(n + 1) : \A y \in 1..(n + 1) : x >= y
    BY DEF Max
  <1> QED
    BY <1>1, <1>2, <1>3

LEMMA MaxOfSome ==
  ASSUME NEW n \in Nat, NEW s \in SUBSET (1..n), s # {}
  PROVE  Max(s) \in s
  <1> DEFINE gaps == {n - x : x \in s}
  <1>1. gaps \in SUBSET Nat /\ gaps # {}
    <2>1. \A x \in s : x \in Nat /\ n - x \in Nat
      OBVIOUS
    <2> QED
      BY <2>1
  <1>2. PICK m \in gaps : \A k \in gaps : m <= k
    BY <1>1, LeastNumber
  <1>3. PICK x \in s : m = n - x
    BY <1>2
  <1>4. \A y \in s : x >= y
    <2>1. \A y \in s : m <= n - y
      BY <1>2
    <2> QED
      BY <1>3, <2>1
  <1> QED
    BY <1>3, <1>4 DEF Max

\* What has been read when: nothing at first, then one word at a time.
LEMMA ReadStepByStep ==
  ASSUME NEW tokens \in Seq(Tokens)
  PROVE  LET it == ReadUpTo(tokens) IN
         /\ it[1..0] = Unread
         /\ \A n \in 0..(Len(tokens) - 1) : it[1..(n + 1)] = Read(it[1..n], tokens[n + 1])
  <1> DEFINE S == DOMAIN tokens
             step == [e \in ReadStates \X S |-> Read(e[1], tokens[e[2]])]
             pick == [s \in SUBSET S |-> Max(s)]
  <1>1. S = 1..Len(tokens) /\ Len(tokens) \in Nat /\ IsFiniteSet(S)
    BY FS_Interval
  <1>2. \A i \in S : tokens[i] \in Tokens
    BY <1>1
  <1>3. Picks(pick, S)
    BY <1>1, MaxOfSome DEF Picks
  <1>4. step \in [ReadStates \X S -> ReadStates]
    <2>1. ASSUME NEW e \in ReadStates \X S PROVE Read(e[1], tokens[e[2]]) \in ReadStates
      <3>1. e[1] \in ReadStates /\ tokens[e[2]] \in Tokens
        BY <1>2
      <3> QED
        BY <3>1, ReadTyped
    <2> QED
      BY <2>1
  <1>5. Unread \in ReadStates
    BY DEF Unread, ReadStates
  <1>6. PICK it \in [SUBSET S -> ReadStates] : Folded(it, Unread, step, pick, SUBSET S)
    <2> HIDE DEF step, pick, S
    <2> QED
      BY <1>1, <1>3, <1>4, <1>5, FoldExists
  <1>7. IsReading(it, tokens)
    <2>1. ASSUME NEW s \in SUBSET S, s # {}
          PROVE  step[<<it[s \ {pick[s]}], pick[s]>>] = Read(it[s \ {Max(s)}], tokens[Max(s)])
      <3>1. pick[s] = Max(s) /\ Max(s) \in S /\ s \ {Max(s)} \in SUBSET S
        BY <1>3, <2>1 DEF Picks
      <3>2. <<it[s \ {Max(s)}], Max(s)>> \in ReadStates \X S
        BY <3>1
      <3> QED
        BY <3>1, <3>2
    <2> HIDE DEF step, pick
    <2>2. \A s \in SUBSET S : it[s] = IF s = {} THEN Unread ELSE Read(it[s \ {Max(s)}], tokens[Max(s)])
      BY <1>6, <2>1 DEF Folded
    <2>3. it = [s \in SUBSET S |-> it[s]]
      BY <1>6
    <2> HIDE DEF S
    <2> QED
      BY <2>2, <2>3 DEF IsReading, S
  <1>8. IsReading(ReadUpTo(tokens), tokens)
    BY <1>7 DEF ReadUpTo
  <1> DEFINE all == ReadUpTo(tokens)
  <1>9. ASSUME NEW s \in SUBSET DOMAIN tokens
        PROVE  all[s] = IF s = {} THEN Unread ELSE Read(all[s \ {Max(s)}], tokens[Max(s)])
    BY <1>8 DEF IsReading
  <1> HIDE DEF all, S
  <1>10. all[1..0] = Unread
    <2>1. 1..0 = {} /\ 1..0 \in SUBSET DOMAIN tokens
      OBVIOUS
    <2> QED
      BY <1>9, <2>1
  <1>11. ASSUME NEW n \in 0..(Len(tokens) - 1)
         PROVE  all[1..(n + 1)] = Read(all[1..n], tokens[n + 1])
    <2>1. 1..(n + 1) \in SUBSET DOMAIN tokens /\ 1..(n + 1) # {} /\ n \in Nat
      <3>1. DOMAIN tokens = 1..Len(tokens) /\ Len(tokens) \in Nat
        OBVIOUS
      <3>2. n \in Nat /\ n + 1 <= Len(tokens) /\ 1 \in 1..(n + 1)
        BY <3>1
      <3>3. \A i \in 1..(n + 1) : i \in 1..Len(tokens)
        BY <3>1, <3>2
      <3> QED
        BY <3>1, <3>2, <3>3
    <2>2. Max(1..(n + 1)) = n + 1 /\ (1..(n + 1)) \ {n + 1} = 1..n
      BY <2>1, MaxOfPrefix
    <2>3. all[1..(n + 1)] = Read(all[(1..(n + 1)) \ {Max(1..(n + 1))}], tokens[Max(1..(n + 1))])
      BY <1>9, <2>1
    <2> QED
      BY <2>2, <2>3
  <1> QED
    BY <1>10, <1>11 DEF all

\* The words of a phrase are those of the text after the first o.
Spells(phrase, text, o) ==
    /\ o \in 0..(Len(text) - Len(phrase))
    /\ \A k \in DOMAIN phrase :
        /\ IsNoun(text[o + k]) /\ text[o + k].stem = phrase[k]
        /\ k < Len(phrase) => ~text[o + k].closes

\* After n words: the run is the last words read, the phrases are of the text,
\* and no noun is lost.
ReadSoFar(text, n, state) ==
    /\ state \in ReadStates /\ Len(state.run) <= n
    /\ Spells(state.run, text, n - Len(state.run))
    /\ \A phrase \in Range(state.phrases) : OccursUnbroken(phrase, text)
    /\ \A i \in 1..n : IsNoun(text[i]) =>
          i > n - Len(state.run) \/ \E phrase \in Range(state.phrases) : text[i].stem \in Range(phrase)
RunIsOpen(text, n, state) == state.run # << >> => ~text[n].closes

LEMMA RangeOfConcat ==
  ASSUME NEW T, NEW p \in Seq(T), NEW q \in Seq(T)
  PROVE  Range(p \o q) = Range(p) \cup Range(q)
  <1>1. /\ DOMAIN p = 1..Len(p) /\ DOMAIN q = 1..Len(q) /\ DOMAIN (p \o q) = 1..(Len(p) + Len(q))
        /\ Len(p) \in Nat /\ Len(q) \in Nat
        /\ \A i \in 1..(Len(p) + Len(q)) : (p \o q)[i] = IF i <= Len(p) THEN p[i] ELSE q[i - Len(p)]
    BY ConcatProperties
  <1>2. \A i \in 1..Len(p) : i \in 1..(Len(p) + Len(q)) /\ (p \o q)[i] = p[i]
    BY <1>1
  <1>3. \A i \in 1..Len(q) : i + Len(p) \in 1..(Len(p) + Len(q)) /\ (p \o q)[i + Len(p)] = q[i]
    BY <1>1
  <1>4. \A i \in 1..(Len(p) + Len(q)) : (p \o q)[i] \in Range(p) \cup Range(q)
    BY <1>1 DEF Range
  <1>5. Range(p \o q) \subseteq Range(p) \cup Range(q)
    BY <1>1, <1>4 DEF Range
  <1>6. Range(p) \subseteq Range(p \o q)
    BY <1>1, <1>2 DEF Range
  <1>7. Range(q) \subseteq Range(p \o q)
    BY <1>1, <1>3 DEF Range
  <1> QED
    BY <1>5, <1>6, <1>7

\* What flush adds: the run, or its words one by one.
LEMMA FlushAdds ==
  ASSUME NEW state \in ReadStates
  PROVE  \E added \in Seq(Seq(Stems)) :
            /\ Flush(state) = [run |-> << >>, phrases |-> state.phrases \o added]
            /\ \/ added = <<state.run>>
               \/ Len(added) = Len(state.run) /\ \A k \in DOMAIN state.run : added[k] = <<state.run[k]>>
  <1>1. state.run \in Seq(Stems) /\ DOMAIN state.run = 1..Len(state.run) /\ Len(state.run) \in Nat
    BY DEF ReadStates
  <1>2. <<state.run>> \in Seq(Seq(Stems))
    BY <1>1
  <1> DEFINE words == [i \in DOMAIN state.run |-> <<state.run[i]>>]
  <1>3. words \in Seq(Seq(Stems)) /\ Len(words) = Len(state.run)
    <2>1. \A i \in 1..Len(state.run) : <<state.run[i]>> \in Seq(Stems)
      BY <1>1
    <2> QED
      BY <1>1, <2>1
  <1> QED
    BY <1>2, <1>3 DEF Flush

LEMMA FlushSoFar ==
  ASSUME NEW text \in Seq(Tokens), NEW n \in 0..Len(text), NEW state, ReadSoFar(text, n, state)
  PROVE  ReadSoFar(text, n, Flush(state)) /\ Flush(state).run = << >>
  <1> DEFINE run == state.run
             o == n - Len(run)
  <1>1. /\ state \in ReadStates /\ run \in Seq(Stems) /\ DOMAIN run = 1..Len(run) /\ Len(run) \in Nat
        /\ state.phrases \in Seq(Seq(Stems)) /\ Spells(run, text, o) /\ o \in Nat
        /\ Len(text) \in Nat /\ n \in Nat
    BY DEF ReadSoFar, ReadStates
  <1>2. PICK added \in Seq(Seq(Stems)) :
            /\ Flush(state) = [run |-> << >>, phrases |-> state.phrases \o added]
            /\ \/ added = <<run>>
               \/ Len(added) = Len(run) /\ \A k \in DOMAIN run : added[k] = <<run[k]>>
    BY <1>1, FlushAdds
  <1>3. DOMAIN added = 1..Len(added)
    OBVIOUS
  <1>4. ASSUME NEW phrase \in Range(added) PROVE OccursUnbroken(phrase, text)
    <2>1. CASE phrase = run
      BY <1>1, <2>1 DEF OccursUnbroken, Spells
    <2>2. ASSUME NEW k \in DOMAIN run, phrase = <<run[k]>> PROVE OccursUnbroken(phrase, text)
      <3>1. Len(phrase) = 1 /\ DOMAIN phrase = {1} /\ phrase[1] = run[k]
        BY <2>2
      <3>2. IsNoun(text[o + k]) /\ text[o + k].stem = run[k] /\ o \in 0..(Len(text) - Len(run))
        BY <1>1, <2>2 DEF Spells
      <3>3. o + k - 1 \in 0..(Len(text) - 1) /\ (o + k - 1) + 1 = o + k
        <4>1. k \in 1..Len(run) /\ Len(run) \in Nat /\ Len(text) \in Nat /\ o \in 0..(Len(text) - Len(run))
          BY <1>1, <3>2
        <4> HIDE DEF o, run
        <4> QED
          BY <4>1
      <3> QED
        BY <3>1, <3>2, <3>3 DEF OccursUnbroken
    <2>3. phrase = run \/ \E k \in DOMAIN run : phrase = <<run[k]>>
      <3>1. PICK k \in 1..Len(added) : phrase = added[k]
        BY <1>3 DEF Range
      <3>2. CASE added = <<run>>
        BY <3>1, <3>2
      <3>3. CASE Len(added) = Len(run) /\ \A j \in DOMAIN run : added[j] = <<run[j]>>
        BY <1>1, <3>1, <3>3
      <3> QED
        BY <1>2, <3>2, <3>3
    <2> QED
      BY <2>1, <2>2, <2>3
  <1>5. ASSUME NEW k \in DOMAIN run PROVE \E phrase \in Range(added) : run[k] \in Range(phrase)
    <2>1. CASE added = <<run>>
      BY <2>1 DEF Range
    <2>2. CASE Len(added) = Len(run) /\ \A j \in DOMAIN run : added[j] = <<run[j]>>
      <3>1. added[k] \in Range(added) /\ added[k] = <<run[k]>>
        BY <1>1, <1>3, <2>2 DEF Range
      <3>2. run[k] \in Range(<<run[k]>>)
        BY DEF Range
      <3> QED
        BY <3>1, <3>2
    <2> QED
      BY <1>2, <2>1, <2>2
  <1> DEFINE after == Flush(state)
  <1>6. after \in ReadStates /\ after.run = << >> /\ after.phrases = state.phrases \o added
    BY <1>1, <1>2, ConcatProperties DEF ReadStates
  <1>7. Range(after.phrases) = Range(state.phrases) \cup Range(added)
    BY <1>1, <1>6, RangeOfConcat
  <1> HIDE DEF after
  <1>8. Len(after.run) = 0 /\ DOMAIN after.run = {} /\ Spells(after.run, text, n - Len(after.run))
    BY <1>1, <1>6 DEF Spells
  <1>9. \A phrase \in Range(after.phrases) : OccursUnbroken(phrase, text)
    BY <1>4, <1>7 DEF ReadSoFar
  <1>10. ASSUME NEW i \in 1..n, IsNoun(text[i])
         PROVE  \E phrase \in Range(after.phrases) : text[i].stem \in Range(phrase)
    <2>1. CASE i > o
      <3>1. i - o \in DOMAIN run /\ o + (i - o) = i
        <4>1. Len(run) \in Nat /\ n \in Nat /\ i \in 1..n /\ i > n - Len(run) /\ DOMAIN run = 1..Len(run)
          BY <1>1, <2>1
        <4> HIDE DEF run
        <4> QED
          BY <4>1
      <3>2. text[i].stem = run[i - o]
        BY <1>1, <3>1 DEF Spells
      <3> QED
        BY <1>5, <1>7, <3>1, <3>2
    <2>2. CASE ~(i > o)
      BY <1>7, <1>10, <2>2 DEF ReadSoFar
    <2> QED
      BY <2>1, <2>2
  <1> QED
    BY <1>1, <1>6, <1>8, <1>9, <1>10 DEF ReadSoFar, after

LEMMA ReadOn ==
  ASSUME NEW text \in Seq(Tokens), NEW n \in 0..(Len(text) - 1), NEW state,
         ReadSoFar(text, n, state), RunIsOpen(text, n, state)
  PROVE  LET next == Read(state, text[n + 1])
         IN ReadSoFar(text, n + 1, next) /\ RunIsOpen(text, n + 1, next)
  <1> DEFINE t == text[n + 1]
             longer == [state EXCEPT !.run = Append(@, t.stem)]
  <1>1. /\ n \in Nat /\ n + 1 \in 1..Len(text) /\ n \in 0..Len(text) /\ n + 1 \in 0..Len(text) /\ t \in Tokens
        /\ Len(text) \in Nat
    OBVIOUS
  <1>2. ASSUME NEW st, ReadSoFar(text, n, st), st.run = << >>, ~IsNoun(t)
        PROVE  ReadSoFar(text, n + 1, st) /\ RunIsOpen(text, n + 1, st)
    <2>1. Len(st.run) = 0 /\ DOMAIN st.run = {}
      BY <1>2
    <2>2. Spells(st.run, text, (n + 1) - Len(st.run))
      BY <1>1, <2>1 DEF Spells
    <2>3. \A i \in 1..(n + 1) : IsNoun(text[i]) => i \in 1..n
      BY <1>1, <1>2
    <2> QED
      BY <1>1, <1>2, <2>1, <2>2, <2>3 DEF ReadSoFar, RunIsOpen
  <1>3. CASE ~IsNoun(t)
    <2>1. CASE state.run = << >>
      BY <1>2, <1>3, <2>1 DEF Read
    <2>2. CASE state.run # << >>
      BY <1>1, <1>2, <1>3, <2>2, FlushSoFar DEF Read
    <2> QED
      BY <2>1, <2>2
  <1>4. CASE IsNoun(t)
    <2> DEFINE run == state.run
    <2>1. /\ state \in ReadStates /\ run \in Seq(Stems) /\ Len(run) \in Nat /\ Len(run) <= n
          /\ DOMAIN run = 1..Len(run) /\ Spells(run, text, n - Len(run)) /\ t.stem \in Stems
      BY <1>1 DEF ReadSoFar, ReadStates, Stems
    <2>2. /\ Len(Append(run, t.stem)) = Len(run) + 1 /\ DOMAIN Append(run, t.stem) = 1..(Len(run) + 1)
          /\ \A k \in 1..Len(run) : Append(run, t.stem)[k] = run[k]
          /\ Append(run, t.stem)[Len(run) + 1] = t.stem /\ Append(run, t.stem) \in Seq(Stems)
      BY <2>1, AppendProperties
    <2>3. longer \in ReadStates /\ longer.run = Append(run, t.stem) /\ longer.phrases = state.phrases
      BY <2>1, <2>2 DEF ReadStates
    <2>4. Spells(longer.run, text, (n + 1) - Len(longer.run))
      <3> DEFINE o == n - Len(run)
      <3>1. (n + 1) - Len(longer.run) = o /\ o \in 0..(Len(text) - Len(longer.run))
        BY <1>1, <2>1, <2>2, <2>3
      <3>2. ASSUME NEW k \in 1..Len(run)
            PROVE  IsNoun(text[o + k]) /\ text[o + k].stem = longer.run[k] /\ ~text[o + k].closes
        <4>1. IsNoun(text[o + k]) /\ text[o + k].stem = run[k] /\ (k < Len(run) => ~text[o + k].closes)
          BY <2>1 DEF Spells
        <4>2. CASE k = Len(run)
          <5>1. o + k = n /\ run # << >>
            BY <1>1, <2>1, <4>2
          <5> QED
            BY <2>2, <2>3, <4>1, <5>1 DEF RunIsOpen
        <4>3. CASE k # Len(run)
          BY <2>1, <2>2, <2>3, <4>1, <4>3
        <4> QED
          BY <4>2, <4>3
      <3>3. o + (Len(run) + 1) = n + 1
        <4>1. Len(run) \in Nat /\ n \in Nat
          BY <1>1, <2>1
        <4> HIDE DEF run
        <4> QED
          BY <4>1
      <3> HIDE DEF o, longer
      <3>4. ASSUME NEW k \in 1..(Len(run) + 1)
            PROVE  /\ IsNoun(text[o + k]) /\ text[o + k].stem = longer.run[k]
                   /\ k < Len(run) + 1 => ~text[o + k].closes
        <4>1. CASE k = Len(run) + 1
          BY <1>4, <2>1, <2>2, <2>3, <3>3, <4>1
        <4>2. CASE k # Len(run) + 1
          BY <2>1, <3>2, <4>2
        <4> QED
          BY <4>1, <4>2
      <3>5. DOMAIN longer.run = 1..(Len(run) + 1) /\ Len(longer.run) = Len(run) + 1
        BY <2>2, <2>3
      <3> HIDE DEF run
      <3> QED
        BY <3>1, <3>4, <3>5 DEF Spells
    <2> HIDE DEF longer
    <2>5. ASSUME NEW i \in 1..(n + 1), IsNoun(text[i])
          PROVE  \/ i > (n + 1) - Len(longer.run)
                 \/ \E phrase \in Range(longer.phrases) : text[i].stem \in Range(phrase)
      <3>1. (n + 1) - Len(longer.run) = n - Len(run)
        <4>1. Len(run) \in Nat /\ n \in Nat /\ Len(longer.run) = Len(run) + 1
          BY <1>1, <2>1, <2>2, <2>3
        <4> HIDE DEF run
        <4> QED
          BY <4>1
      <3>2. CASE i = n + 1
        <4>1. Len(run) \in Nat /\ n \in Nat /\ n + 1 > n - Len(run)
          BY <1>1, <2>1
        <4> QED
          BY <3>1, <3>2, <4>1
      <3>3. CASE i # n + 1
        <4>1. i \in 1..n
          BY <1>1, <3>3
        <4>2. i > n - Len(run) \/ \E phrase \in Range(state.phrases) : text[i].stem \in Range(phrase)
          BY <2>5, <4>1 DEF ReadSoFar
        <4> QED
          BY <2>3, <3>1, <4>2
      <3> QED
        BY <3>2, <3>3
    <2>6. ReadSoFar(text, n + 1, longer)
      <3>1. Len(longer.run) <= n + 1
        BY <1>1, <2>1, <2>2, <2>3
      <3>2. \A phrase \in Range(longer.phrases) : OccursUnbroken(phrase, text)
        BY <2>3 DEF ReadSoFar
      <3>3. \A i \in 1..(n + 1) : IsNoun(text[i]) =>
               \/ i > (n + 1) - Len(longer.run)
               \/ \E phrase \in Range(longer.phrases) : text[i].stem \in Range(phrase)
        BY <2>5
      <3> QED
        BY <2>3, <2>4, <3>1, <3>2, <3>3 DEF ReadSoFar
    <2>7. CASE t.closes
      BY <1>1, <1>4, <2>6, <2>7, FlushSoFar DEF Read, RunIsOpen, longer
    <2>8. CASE ~t.closes
      BY <1>4, <2>6, <2>8 DEF Read, RunIsOpen, longer
    <2> QED
      BY <2>7, <2>8
  <1> QED
    BY <1>3, <1>4

\* The phrases stand in the text, and every noun of it is in one.
LEMMA PhrasesOfTheText ==
  ASSUME NEW text \in Seq(Tokens)
  PROVE  LET phrases == NounPhrases(text) IN
         /\ phrases \in Seq(Seq(Stems))
         /\ \A phrase \in Range(phrases) : OccursUnbroken(phrase, text)
         /\ \A i \in DOMAIN text : IsNoun(text[i]) => \E phrase \in Range(phrases) : text[i].stem \in Range(phrase)
  <1> DEFINE it == ReadUpTo(text)
             AsRead(n) == ReadSoFar(text, n, it[1..n]) /\ RunIsOpen(text, n, it[1..n])
             Others == {n \in 0..Len(text) : ~AsRead(n)}
  <1>1. Len(text) \in Nat /\ DOMAIN text = 1..Len(text)
    OBVIOUS
  <1>2. AsRead(0)
    <2>1. it[1..0] = Unread
      BY ReadStepByStep
    <2>2. /\ Unread \in ReadStates /\ Unread.run = << >> /\ Len(Unread.run) = 0 /\ DOMAIN Unread.run = {}
          /\ Range(Unread.phrases) = {}
      BY DEF Unread, ReadStates, Range
    <2>3. ReadSoFar(text, 0, Unread) /\ RunIsOpen(text, 0, Unread)
      BY <1>1, <2>2 DEF ReadSoFar, Spells, RunIsOpen
    <2> QED
      BY <2>1, <2>3
  <1>3. ASSUME NEW n \in 0..(Len(text) - 1), AsRead(n) PROVE AsRead(n + 1)
    <2>1. it[1..(n + 1)] = Read(it[1..n], text[n + 1])
      BY ReadStepByStep
    <2> QED
      BY <1>3, <2>1, ReadOn
  <1> HIDE DEF AsRead
  <1>4. Others = {}
    <2> SUFFICES ASSUME Others # {} PROVE FALSE
      OBVIOUS
    <2>1. PICK n \in Others : \A m \in Others : n <= m
      <3>1. Others \in SUBSET Nat
        BY <1>1
      <3> QED
        BY <3>1, LeastNumber
    <2>2. n # 0 /\ n - 1 \in 0..(Len(text) - 1) /\ n \in 0..Len(text)
      BY <1>1, <1>2, <2>1
    <2>3. n - 1 \notin Others
      BY <2>1, <2>2
    <2>4. AsRead(n - 1)
      BY <1>1, <2>2, <2>3
    <2> QED
      BY <1>3, <2>1, <2>2, <2>4
  <1> DEFINE end == it[DOMAIN text]
             last == IF end.run # << >> THEN Flush(end) ELSE end
  <1>5. ReadSoFar(text, Len(text), end)
    BY <1>1, <1>4 DEF AsRead
  <1>6. NounPhrases(text) = last.phrases
    BY PhrasesUnfold
  <1> HIDE DEF it, end
  <1>7. ReadSoFar(text, Len(text), last) /\ last.run = << >>
    BY <1>1, <1>5, FlushSoFar
  <1> HIDE DEF last
  <1>8. last.phrases \in Seq(Seq(Stems)) /\ Len(last.run) = 0
    BY <1>7 DEF ReadSoFar, ReadStates
  <1> QED
    BY <1>1, <1>6, <1>7, <1>8 DEF ReadSoFar

-----------------------------------------------------------------------------
(* The selection.                                                          *)

IsSelecting(it, ranked) ==
    it = [s \in SUBSET ranked |->
            IF s = {} THEN << >> ELSE Select(it[s \ {LastOf(s)}], LastOf(s))]
SelectedOf(ranked) == CHOOSE it : IsSelecting(it, ranked)

LEMMA KeywordsUnfold ==
  ASSUME NEW head, NEW text
  PROVE  ExtractKeywords(head, text) = SelectedOf(Ranked(head, text))[Ranked(head, text)]
  BY DEF ExtractKeywords, MapThenFoldSet, SelectedOf, IsSelecting

\* The ranked phrases, one record each.
RankedTyped(ranked, phrases) ==
    /\ IsFiniteSet(ranked)
    /\ \A k \in ranked : k.score \in Nat /\ k.phrase \in Range(phrases) /\ k.phrase \in Seq(Stems)
    /\ \A k, l \in ranked : k.phrase = l.phrase => k = l
    /\ \A phrase \in Range(phrases) : \E k \in ranked : k.phrase = phrase

LEMMA RankedAreThePhrases ==
  ASSUME NEW head, NEW text, NounPhrases(head) \in Seq(Seq(Stems)), NounPhrases(text) \in Seq(Seq(Stems))
  PROVE  RankedTyped(Ranked(head, text), NounPhrases(head) \o NounPhrases(text))
  <1> DEFINE inTitle == NounPhrases(head)
             all == inTitle \o NounPhrases(text)
             score(p) == Occurrences(p, all) * (1 + Len(p)) * (IF p \in Range(inTitle) THEN 2 ELSE 1)
             entry == [p \in Range(all) |-> [phrase |-> p, score |-> score(p), count |-> Occurrences(p, all)]]
  <1>1. all \in Seq(Seq(Stems)) /\ DOMAIN all = 1..Len(all) /\ Len(all) \in Nat
    BY ConcatProperties
  <1> HIDE DEF all
  <1>2. IsFiniteSet(DOMAIN all)
    BY <1>1, FS_Interval
  <1>3. IsFiniteSet(Range(all))
    <2>1. all \in Surjection(DOMAIN all, Range(all))
      BY <1>1 DEF Surjection, Range
    <2> QED
      BY <1>2, <2>1, FS_Surjection
  <1>4. Ranked(head, text) = {entry[p] : p \in Range(all)}
    BY DEF Ranked, all
  <1>5. IsFiniteSet(Ranked(head, text))
    <2>1. entry \in Surjection(Range(all), Ranked(head, text))
      BY <1>4 DEF Surjection
    <2> QED
      BY <1>3, <2>1, FS_Surjection
  <1>6. ASSUME NEW p \in Range(all) PROVE p \in Seq(Stems) /\ score(p) \in Nat
    <2>1. p \in Seq(Stems)
      BY <1>1 DEF Range
    <2>2. Occurrences(p, all) \in Nat
      BY <1>2, FS_Subset, FS_CardinalityType DEF Occurrences
    <2>3. \A m, n \in Nat : m * n \in Nat
      OBVIOUS
    <2>4. 1 + Len(p) \in Nat /\ (IF p \in Range(inTitle) THEN 2 ELSE 1) \in Nat
      BY <2>1
    <2>5. Occurrences(p, all) * (1 + Len(p)) \in Nat
      BY <2>2, <2>3, <2>4
    <2> QED
      BY <2>1, <2>3, <2>4, <2>5
  <1> HIDE DEF score
  <1>7. \A p \in Range(all) : entry[p].phrase = p /\ entry[p].score = score(p)
    OBVIOUS
  <1> HIDE DEF entry
  <1>8. \A k \in Ranked(head, text) : k.score \in Nat /\ k.phrase \in Range(all) /\ k.phrase \in Seq(Stems)
    BY <1>4, <1>6, <1>7
  <1>9. \A k, l \in Ranked(head, text) : k.phrase = l.phrase => k = l
    BY <1>4, <1>7
  <1>10. \A p \in Range(all) : \E k \in Ranked(head, text) : k.phrase = p
    BY <1>4, <1>7
  <1> QED
    BY <1>5, <1>8, <1>9, <1>10 DEF RankedTyped, all

LEMMA SomeIsLast ==
  ASSUME NEW ranked, NEW phrases, RankedTyped(ranked, phrases), NEW s \in SUBSET ranked, s # {}
  PROVE  LastOf(s) \in s
  <1> DEFINE scores == {k.score : k \in s}
  <1>1. PICK low \in scores : \A m \in scores : low <= m
    <2>1. scores \in SUBSET Nat /\ scores # {}
      BY DEF RankedTyped
    <2> HIDE DEF scores
    <2> QED
      BY <2>1, LeastNumber
  <1> DEFINE lowest == {k \in s : k.score = low}
             sizes == {Len(k.phrase) : k \in lowest}
  <1>2. PICK short \in sizes : \A m \in sizes : short <= m
    <2>1. lowest # {} /\ \A k \in lowest : Len(k.phrase) \in Nat
      BY <1>1 DEF RankedTyped
    <2> HIDE DEF lowest
    <2>2. sizes \in SUBSET Nat /\ sizes # {}
      BY <2>1
    <2> HIDE DEF sizes
    <2> QED
      BY <2>2, LeastNumber
  <1>3. PICK k \in lowest : short = Len(k.phrase)
    BY <1>2
  <1>4. ASSUME NEW l \in s PROVE ~Before(k, l)
    <2>1. k \in s /\ k.score = low /\ low <= l.score /\ l.score \in Nat /\ k.score \in Nat
      BY <1>1, <1>3 DEF RankedTyped
    <2>2. Len(k.phrase) \in Nat /\ Len(l.phrase) \in Nat
      BY <2>1 DEF RankedTyped
    <2>3. l.score = low => Len(k.phrase) <= Len(l.phrase)
      BY <1>2, <1>3
    <2> QED
      BY <2>1, <2>2, <2>3 DEF Before
  <1> QED
    BY <1>3, <1>4 DEF LastOf

\* Of the ranked phrases in s: what is selected is of them and of none twice;
\* unless top_n is reached, the words of each are words of a selected one.
Chosen(s, selected) ==
    /\ selected \in Seq(s) /\ Len(selected) <= TopN
    /\ \A i, j \in DOMAIN selected : selected[i] = selected[j] => i = j
    /\ Len(selected) < TopN =>
          \A k \in s : \E kept \in Range(selected) : Range(k.phrase) \subseteq Range(kept.phrase)

LEMMA CoveredWords ==
  ASSUME NEW T, NEW outer \in Seq(T), NEW inner \in Seq(T), Covers(outer, inner)
  PROVE  Range(inner) \subseteq Range(outer)
  <1>1. PICK i \in 0..(Len(outer) - Len(inner)) : SubSeq(outer, i + 1, i + Len(inner)) = inner
    BY DEF Covers
  <1>2. /\ Len(outer) \in Nat /\ Len(inner) \in Nat /\ DOMAIN inner = 1..Len(inner)
        /\ DOMAIN outer = 1..Len(outer)
    OBVIOUS
  <1>3. ASSUME NEW j \in 1..Len(inner) PROVE inner[j] = outer[i + j] /\ i + j \in 1..Len(outer)
    <2>1. SubSeq(outer, i + 1, i + Len(inner)) = [m \in 1..Len(inner) |-> outer[i + m]]
      BY <1>2, SubSeqProperties
    <2> QED
      BY <1>1, <1>2, <2>1
  <1> QED
    BY <1>2, <1>3 DEF Range

LEMMA SelectKeeps ==
  ASSUME NEW ranked, NEW phrases, RankedTyped(ranked, phrases), NEW s \in SUBSET ranked,
         NEW k \in s, NEW selected, Chosen(s \ {k}, selected)
  PROVE  Chosen(s, Select(selected, k))
  <1>1. /\ selected \in Seq(s \ {k}) /\ selected \in Seq(s) /\ Len(selected) \in Nat
        /\ DOMAIN selected = 1..Len(selected) /\ Len(selected) <= TopN /\ TopN \in Nat
    BY KeywordsAssumption DEF Chosen
  <1>2. CASE Len(selected) = TopN
    BY <1>1, <1>2 DEF Select, Chosen
  <1>3. CASE Len(selected) # TopN
    <2>1. \A l \in s \ {k} : \E kept \in Range(selected) : Range(l.phrase) \subseteq Range(kept.phrase)
      <3>1. \A m, n \in Nat : m <= n /\ m # n => m < n
        OBVIOUS
      <3>2. Len(selected) < TopN
        BY <1>1, <1>3, <3>1
      <3> QED
        BY <3>2 DEF Chosen
    <2>2. CASE \E kept \in Range(selected) : Covers(kept.phrase, k.phrase) /\ k.count <= kept.count
      <3>1. PICK kept \in Range(selected) : Covers(kept.phrase, k.phrase)
        BY <2>2
      <3>2. kept \in s
        BY <1>1 DEF Range
      <3>3. Range(k.phrase) \subseteq Range(kept.phrase)
        BY <3>1, <3>2, CoveredWords DEF RankedTyped
      <3>4. Select(selected, k) = selected
        BY <1>3, <2>2 DEF Select
      <3> QED
        BY <1>1, <2>1, <3>3, <3>4 DEF Chosen
    <2>3. CASE ~\E kept \in Range(selected) : Covers(kept.phrase, k.phrase) /\ k.count <= kept.count
      <3> DEFINE more == Append(selected, k)
      <3>1. Select(selected, k) = more
        BY <1>3, <2>3 DEF Select
      <3>2. /\ more \in Seq(s) /\ Len(more) = Len(selected) + 1 /\ DOMAIN more = 1..(Len(selected) + 1)
            /\ more[Len(selected) + 1] = k /\ \A i \in 1..Len(selected) : more[i] = selected[i]
        BY <1>1, AppendProperties
      <3> HIDE DEF more
      <3>3. Range(selected) \subseteq Range(more) /\ k \in Range(more)
        BY <1>1, <3>2 DEF Range
      <3>4. Len(more) <= TopN
        <4>1. \A m, n \in Nat : m <= n /\ m # n => m + 1 <= n
          OBVIOUS
        <4> QED
          BY <1>1, <1>3, <3>2, <4>1
      <3>5. \A i \in 1..Len(selected) : selected[i] # k
        BY <1>1
      <3>6. \A i, j \in DOMAIN more : more[i] = more[j] => i = j
        <4>1. \A i \in DOMAIN more : i = Len(selected) + 1 \/ i \in 1..Len(selected)
          BY <1>1, <3>2
        <4>2. \A i, j \in 1..Len(selected) : selected[i] = selected[j] => i = j
          BY <1>1 DEF Chosen
        <4> QED
          BY <3>2, <3>5, <4>1, <4>2
      <3>7. \A l \in s : \E kept \in Range(more) : Range(l.phrase) \subseteq Range(kept.phrase)
        BY <2>1, <3>3
      <3> QED
        BY <3>1, <3>2, <3>4, <3>6, <3>7 DEF Chosen
    <2> QED
      BY <2>2, <2>3
  <1> QED
    BY <1>2, <1>3

\* What the loop over the ranked phrases has selected in the end.
LEMMA SelectionIsChosen ==
  ASSUME NEW ranked, NEW phrases, RankedTyped(ranked, phrases)
  PROVE  Chosen(ranked, SelectedOf(ranked)[ranked])
  <1> DEFINE step == [e \in Seq(ranked) \X ranked |-> Select(e[1], e[2])]
             pick == [s \in SUBSET ranked |-> LastOf(s)]
  <1>1. Picks(pick, ranked)
    BY SomeIsLast DEF Picks
  <1>2. step \in [Seq(ranked) \X ranked -> Seq(ranked)]
    BY AppendProperties DEF Select
  <1>3. PICK it \in [SUBSET ranked -> Seq(ranked)] : Folded(it, << >>, step, pick, SUBSET ranked)
    <2>1. IsFiniteSet(ranked) /\ << >> \in Seq(ranked)
      BY DEF RankedTyped
    <2> HIDE DEF step, pick
    <2> QED
      BY <1>1, <1>2, <2>1, FoldExists
  <1>4. IsSelecting(it, ranked)
    <2>1. ASSUME NEW s \in SUBSET ranked, s # {}
          PROVE  step[<<it[s \ {pick[s]}], pick[s]>>] = Select(it[s \ {LastOf(s)}], LastOf(s))
      <3>1. pick[s] = LastOf(s) /\ LastOf(s) \in ranked /\ s \ {LastOf(s)} \in SUBSET ranked
        BY <1>1, <2>1 DEF Picks
      <3>2. <<it[s \ {LastOf(s)}], LastOf(s)>> \in Seq(ranked) \X ranked
        BY <3>1
      <3> QED
        BY <3>1, <3>2
    <2> HIDE DEF step, pick
    <2>2. \A s \in SUBSET ranked :
            it[s] = IF s = {} THEN << >> ELSE Select(it[s \ {LastOf(s)}], LastOf(s))
      BY <1>3, <2>1 DEF Folded
    <2>3. it = [s \in SUBSET ranked |-> it[s]]
      BY <1>3
    <2> QED
      BY <2>2, <2>3 DEF IsSelecting
  <1> HIDE DEF step
  <1> DEFINE all == SelectedOf(ranked)
  <1>5. IsSelecting(all, ranked)
    BY <1>4 DEF SelectedOf
  <1> HIDE DEF all
  <1>6. \A s \in SUBSET ranked :
          all[s] = IF s = {} THEN << >> ELSE Select(all[s \ {LastOf(s)}], LastOf(s))
    BY <1>5 DEF IsSelecting
  <1> DEFINE Holds == {s \in SUBSET ranked : Chosen(s, all[s])}
  <1>7. {} \in Holds
    <2>1. all[{}] = << >>
      BY <1>6
    <2>2. Chosen({}, << >>)
      BY KeywordsAssumption DEF Chosen
    <2> QED
      BY <2>1, <2>2
  <1>8. ASSUME NEW s \in SUBSET ranked, s # {}, s \ {pick[s]} \in Holds PROVE s \in Holds
    <2>1. pick[s] = LastOf(s) /\ LastOf(s) \in s
      BY <1>1, <1>8 DEF Picks
    <2>2. all[s] = Select(all[s \ {LastOf(s)}], LastOf(s)) /\ Chosen(s \ {LastOf(s)}, all[s \ {LastOf(s)}])
      BY <1>6, <1>8, <2>1
    <2> QED
      BY <2>1, <2>2, SelectKeeps
  <1> HIDE DEF pick, Holds
  <1>9. \A s \in SUBSET ranked : s \in Holds
    <2>1. IsFiniteSet(ranked)
      BY DEF RankedTyped
    <2>2. \A s \in SUBSET ranked : s # {} /\ s \ {pick[s]} \in Holds => s \in Holds
      BY <1>8
    <2> QED
      <3>1. IsInherited(Holds, pick, ranked)
        BY <1>7, <2>2 DEF IsInherited
      <3> QED
        BY <1>1, <2>1, <3>1, HoldsOfEverySet, Zenon
  <1> QED
    BY <1>9 DEF Holds, all

LEMMA ChosenKeywords ==
  ASSUME NEW head \in Seq(Tokens), NEW text \in Seq(Tokens)
  PROVE  LET chosen == {k.phrase : k \in Range(ExtractKeywords(head, text))}
             nouns == {t \in Range(head) \cup Range(text) : IsNoun(t)}
         IN /\ Cardinality(chosen) < TopN =>
                  \A t \in nouns : \E phrase \in chosen : t.stem \in Range(phrase)
            /\ \A phrase \in chosen : OccursUnbroken(phrase, head) \/ OccursUnbroken(phrase, text)
  <1> DEFINE inTitle == NounPhrases(head)
             inBody == NounPhrases(text)
             ranked == Ranked(head, text)
             selected == ExtractKeywords(head, text)
             chosen == {k.phrase : k \in Range(selected)}
  <1>1. inTitle \in Seq(Seq(Stems)) /\ inBody \in Seq(Seq(Stems))
    BY PhrasesOfTheText
  <1>2. Range(inTitle \o inBody) = Range(inTitle) \cup Range(inBody)
    BY <1>1, RangeOfConcat
  <1>3. RankedTyped(ranked, inTitle \o inBody)
    BY <1>1, RankedAreThePhrases
  <1>4. Chosen(ranked, selected)
    BY <1>3, SelectionIsChosen, KeywordsUnfold
  <1>5. ASSUME NEW t \in Range(head) \cup Range(text), IsNoun(t)
        PROVE  \E k \in ranked : t.stem \in Range(k.phrase)
    <2>1. \E phrase \in Range(inTitle) \cup Range(inBody) : t.stem \in Range(phrase)
      <3>1. CASE t \in Range(head)
        <4>1. PICK i \in DOMAIN head : t = head[i]
          BY <3>1 DEF Range
        <4> QED
          BY <1>5, <4>1, PhrasesOfTheText
      <3>2. CASE t \in Range(text)
        <4>1. PICK i \in DOMAIN text : t = text[i]
          BY <3>2 DEF Range
        <4> QED
          BY <1>5, <4>1, PhrasesOfTheText
      <3> QED
        BY <3>1, <3>2
    <2> HIDE DEF inTitle, inBody, ranked
    <2> QED
      BY <1>2, <1>3, <2>1 DEF RankedTyped
  <1>6. ASSUME NEW k \in ranked PROVE OccursUnbroken(k.phrase, head) \/ OccursUnbroken(k.phrase, text)
    <2>1. k.phrase \in Range(inTitle) \cup Range(inBody)
      BY <1>2, <1>3 DEF RankedTyped
    <2> HIDE DEF ranked
    <2> QED
      BY <2>1, PhrasesOfTheText
  <1> HIDE DEF inTitle, inBody, ranked, selected
  <1>7. /\ selected \in Seq(ranked) /\ DOMAIN selected = 1..Len(selected) /\ Len(selected) \in Nat
        /\ \A i \in DOMAIN selected : selected[i] \in ranked
    BY <1>4 DEF Chosen
  <1>8. Cardinality(chosen) = Len(selected)
    <2> DEFINE phraseOf == [i \in 1..Len(selected) |-> selected[i].phrase]
    <2>1. \A i, j \in 1..Len(selected) : selected[i].phrase = selected[j].phrase => i = j
      BY <1>3, <1>4, <1>7 DEF Chosen, RankedTyped
    <2>2. chosen = {selected[i].phrase : i \in 1..Len(selected)}
      BY <1>7 DEF Range
    <2> HIDE DEF chosen
    <2>3. phraseOf \in Bijection(1..Len(selected), chosen)
      <3>1. phraseOf \in [1..Len(selected) -> chosen]
        BY <2>2
      <3>2. phraseOf \in Injection(1..Len(selected), chosen)
        BY <2>1, <3>1 DEF Injection, IsInjective
      <3>3. phraseOf \in Surjection(1..Len(selected), chosen)
        BY <2>2, <3>1 DEF Surjection
      <3> QED
        BY <3>2, <3>3 DEF Bijection
    <2>4. IsFiniteSet(1..Len(selected)) /\ Cardinality(1..Len(selected)) = Len(selected)
      <3>1. Len(selected) \in Int /\ 1 \in Int
        BY <1>7
      <3>2. /\ IsFiniteSet(1..Len(selected))
            /\ Cardinality(1..Len(selected)) = IF 1 > Len(selected) THEN 0 ELSE Len(selected) - 1 + 1
        BY <3>1, FS_Interval, Zenon
      <3> QED
        BY <1>7, <3>2
    <2> QED
      BY <2>3, <2>4, FS_Bijection DEF ExistsBijection
  <1>9. ASSUME Cardinality(chosen) < TopN, NEW t \in Range(head) \cup Range(text), IsNoun(t)
        PROVE  \E phrase \in chosen : t.stem \in Range(phrase)
    <2>1. PICK k \in ranked : t.stem \in Range(k.phrase)
      BY <1>5, <1>9
    <2>2. PICK kept \in Range(selected) : Range(k.phrase) \subseteq Range(kept.phrase)
      BY <1>4, <1>8, <1>9 DEF Chosen
    <2> QED
      BY <2>1, <2>2
  <1>10. \A phrase \in chosen : OccursUnbroken(phrase, head) \/ OccursUnbroken(phrase, text)
    <2>1. \A k \in Range(selected) : k \in ranked
      BY <1>7 DEF Range
    <2> QED
      BY <1>6, <2>1
  <1> HIDE DEF chosen
  <1>11. \A t \in {u \in Range(head) \cup Range(text) : IsNoun(u)} :
            Cardinality(chosen) < TopN => \E phrase \in chosen : t.stem \in Range(phrase)
    BY <1>9
  <1> QED
    BY <1>10, <1>11 DEF chosen, selected

\* "Keywords: noun-phrase chunks, ranked by frequency, length and the title"
\* and "a word that carried a case marker ends the phrase": whatever the
\* article, no keyword runs on across a case marker, and unless top_n cuts the
\* list every noun is a word of some keyword, for what _contains drops is
\* inside another (keywords.py noun_phrases, extract_keywords).
THEOREM KeywordsAreOfTheText == AnalysisSpec => []KeywordsOfTheText
  <1>1. TextInv => KeywordsOfTheText
    BY ChosenKeywords DEF KeywordsOfTheText, TextInv
  <1> QED
    BY <1>1, TextInvariant, PTL

=============================================================================
