---------------------------- MODULE CorpusProofs ----------------------------
(***************************************************************************)
(* Ingest implements Corpus, for any sources, pages, articles, terms, pool *)
(* size and failures: seen through the committed tables, a cycle of        *)
(* threads is a sequence of whole batches and relabellings.  And with one  *)
(* thread no twins are stored, and a section gives its stories its label.  *)
(***************************************************************************)
EXTENDS CoverProofs

Etags == [s \in Sources |-> state[s].etag]

\* Only pages that were published are ever read, or remembered.
PagesKnown ==
    \A s \in Sources :
        /\ version[s] \in Versions(s)
        /\ run[s].pc \in {"filtering", "preparing", "storing"} => run[s].page \in Versions(s)
        /\ state[s].etag \in {0} \cup Versions(s)

LEMMA InitPages == Init => PagesKnown
  <1> SUFFICES ASSUME Init PROVE PagesKnown
    OBVIOUS
  <1>1. ASSUME NEW s \in Sources
        PROVE  version[s] = 1 /\ 1 \in Versions(s) /\ run[s].pc = "idle" /\ state[s].etag = 0
    BY PagesAssumption, AtNothing DEF Init, Versions
  <1> QED
    BY <1>1 DEF PagesKnown

\* What a step does to the pages a thread and the table speak of.
PagesMove(s) ==
    /\ state'[s].etag \in {state[s].etag} \cup (IF run[s].pc = "storing" THEN {run[s].etag} ELSE {})
    /\ \/ run'[s].pc \notin {"filtering", "preparing", "storing"}
       \/ run'[s].page = version[s]
       \/ /\ run[s].pc \in {"filtering", "preparing", "storing"}
          /\ run'[s].page = run[s].page

LEMMA PagesFollow ==
  ASSUME PagesKnown, CoverInv, \A s \in Sources : PagesMove(s) /\ version'[s] \in Versions(s)
  PROVE  PagesKnown'
  <1>1. ASSUME NEW s \in Sources, run[s].pc = "storing" PROVE run[s].etag \in {0} \cup Versions(s)
    BY <1>1 DEF CoverInv, Thread, EtagOfPage, PagesKnown
  <1> QED
    BY <1>1 DEF PagesKnown, PagesMove, Versions

LEMMA OneMovesPages ==
  ASSUME TypeOK, PagesKnown, CoverInv, NEW s \in Sources, NEW now, Update(s, now), PagesMove(s),
         version' = version, \A o \in Sources : o # s => state'[o] = state[o]
  PROVE  PagesKnown'
  <1>1. \A o \in Sources : o # s => PagesMove(o)
    BY UpdateOne DEF PagesMove
  <1>2. \A o \in Sources : version'[o] \in Versions(o)
    BY DEF PagesKnown
  <1> QED
    BY <1>1, <1>2, PagesFollow

\* One thread moves, and stays on its page.
LEMMA StayOnPage ==
  ASSUME TypeOK, PagesKnown, CoverInv, NEW s \in Sources, NEW now, Update(s, now),
         now.page = run[s].page, run[s].pc \in {"filtering", "preparing", "storing"},
         version' = version, state' = state
  PROVE  PagesKnown'
  BY UpdateOne, OneMovesPages DEF PagesMove

\* One thread moves, and has no page.
LEMMA LeavePage ==
  ASSUME TypeOK, PagesKnown, CoverInv, NEW s \in Sources, NEW now, Update(s, now),
         now.pc \notin {"filtering", "preparing", "storing"}, version' = version,
         state'[s].etag \in {state[s].etag} \cup (IF run[s].pc = "storing" THEN {run[s].etag} ELSE {}),
         \A o \in Sources : o # s => state'[o] = state[o]
  PROVE  PagesKnown'
  BY UpdateOne, OneMovesPages DEF PagesMove

LEMMA UpsertPages ==
  ASSUME TypeOK, PagesKnown, CoverInv, NEW s \in Sources, NEW u \in Urls, NEW analysed \in BOOLEAN,
         UpsertNew(s, u, analysed) \/ UpsertDuplicate(s, u, analysed)
  PROVE  PagesKnown'
  <1>1. UNCHANGED <<version, state>> /\ run[s].pc = "storing"
    BY DEF UpsertNew, UpsertDuplicate, world, database
  <1>2. PICK wrote, again : CountAsNew(s, u, wrote, again, analysed)
    BY DEF UpsertNew, UpsertDuplicate
  <1>3. PICK now : Update(s, now)
    BY <1>2 DEF CountAsNew
  <1>4. run'[s].page = run[s].page
    BY <1>2, CountFacts
  <1> QED
    BY <1>1, <1>3, <1>4, OneMovesPages DEF PagesMove

LEMMA ThreadPages ==
  ASSUME TypeOK, PagesKnown, CoverInv, NEW s \in Sources, RunStep(s) \/ Fail(s) \/ LoseFailure(s)
  PROVE  PagesKnown'
  <1> USE DEF database, world
  <1>0. run[s] \in Runs
    BY DEF TypeOK
  <1>1. CASE Start(s)
    <2>1. [At("fetching") EXCEPT !.validator = state[s].etag].pc = "fetching"
      BY DEF At
    <2> QED
      BY <1>1, <2>1, LeavePage DEF Start
  <1>2. CASE FetchUnchanged(s)
    <2>1. [run[s] EXCEPT !.pc = "unchanged"].pc = "unchanged"
      BY <1>0 DEF Runs
    <2> QED
      BY <1>2, <2>1, LeavePage DEF FetchUnchanged
  <1>3. ASSUME NEW sends \in BOOLEAN, FetchPage(s, sends) PROVE PagesKnown'
    <2> DEFINE etag == IF sends THEN version[s] ELSE 0
               now == [run[s] EXCEPT !.pc = "filtering", !.page = version[s], !.etag = etag]
    <2>1. Update(s, now) /\ UNCHANGED <<state, version>>
      BY <1>3 DEF FetchPage
    <2>2. now.page = version[s]
      BY <1>0 DEF Runs
    <2> HIDE DEF now
    <2>3. run'[s].page = version[s]
      BY <2>1, <2>2, UpdateOne
    <2> QED
      BY <2>1, <2>3, OneMovesPages DEF PagesMove
  <1>4. CASE PersistUnchanged(s) \/ RecordFailure(s) \/ LoseFailure(s) \/ Fail(s) \/ DeadlockVictim(s)
    <2>1. \E pc \in {"idle", "failing"} : Update(s, At(pc))
      BY <1>4 DEF PersistUnchanged, RecordFailure, LoseFailure, Fail, DeadlockVictim
    <2>2. version' = version /\ state'[s].etag = state[s].etag
          /\ \A o \in Sources : o # s => state'[o] = state[o]
      <3>1. CASE PersistUnchanged(s)
        BY <3>1 DEF PersistUnchanged, SaveSuccess, TypeOK
      <3>2. CASE RecordFailure(s)
        BY <3>2 DEF RecordFailure, TypeOK
      <3> QED
        BY <1>4, <3>1, <3>2 DEF LoseFailure, Fail, DeadlockVictim
    <2> QED
      BY <2>1, <2>2, AtNothing, LeavePage
  <1>5. CASE FilterKnown(s)
    <2>1. [run[s] EXCEPT !.pc = "preparing", !.todo = Fresh(s)].page = run[s].page
      BY <1>0 DEF Runs
    <2> QED
      BY <1>5, <2>1, StayOnPage DEF FilterKnown
  <1>6. ASSUME NEW extracted, NEW lexicon, NEW recent, OpenStore(s, extracted, lexicon, recent)
        PROVE  PagesKnown'
    <2>1. [run[s] EXCEPT !.pc = "storing", !.full = extracted, !.lexicon = lexicon,
                         !.recent = recent].page = run[s].page
      BY <1>0 DEF Runs
    <2> QED
      BY <1>6, <2>1, StayOnPage DEF OpenStore
  <1>7. ASSUME NEW u \in Urls, SkipNearDuplicate(s, u) PROVE PagesKnown'
    <2>1. [run[s] EXCEPT !.todo = run[s].todo \ {u}].page = run[s].page
      BY <1>0 DEF Runs
    <2> QED
      BY <1>7, <2>1, StayOnPage DEF SkipNearDuplicate
  <1>8. CASE CommitStore(s)
    <2>1. /\ state'[s].etag \in {state[s].etag, run[s].etag}
          /\ \A o \in Sources : o # s => state'[o] = state[o]
      BY <1>8 DEF CommitStore, SaveSuccess, TypeOK
    <2>2. Update(s, At("idle")) /\ version' = version /\ run[s].pc = "storing"
      BY <1>8 DEF CommitStore
    <2> QED
      BY <2>1, <2>2, AtNothing, LeavePage
  <1> QED
    BY <1>1, <1>2, <1>3, <1>4, <1>5, <1>6, <1>7, <1>8, UpsertPages DEF RunStep, StoreStep

LEMMA NextPages ==
  ASSUME TypeOK, PagesKnown, CoverInv, [Next]_vars
  PROVE  PagesKnown'
  <1> USE DEF database, world
  <1>1. ASSUME NEW due \in SUBSET Sources, BeginCycle(due) PROVE PagesKnown'
    BY <1>1, AtNothing, PagesFollow DEF BeginCycle, PagesMove, PagesKnown
  <1>2. CASE Crash
    BY <1>2, AtNothing, PagesFollow DEF Crash, PagesMove, PagesKnown
  <1>3. ASSUME NEW s \in Sources, Publish(s) PROVE PagesKnown'
    <2>1. \A o \in Sources : version'[o] \in Versions(o)
      BY <1>3 DEF Publish, TypeOK, PagesKnown
    <2> QED
      BY <1>3, <2>1, PagesFollow DEF Publish, PagesMove
  <1>4. CASE (\E u \in Urls : Age(u)) \/ UNCHANGED vars
    BY <1>4, PagesFollow DEF Age, vars, PagesMove, PagesKnown
  <1> QED
    BY <1>1, <1>2, <1>3, <1>4, ThreadPages DEF Next

-----------------------------------------------------------------------------
(* The mapping.                                                            *)

\* What a page lists, as Corpus reads it.
LEMMA ListedItems ==
  ASSUME NEW s \in Sources, NEW v \in Versions(s), NEW i \in DOMAIN Pages[s][v]
  PROVE  Pages[s][v][i] \in Listed(s, v)
  <1>1. Pages[s][v] \in Seq(Urls)
    BY PagesAssumption DEF Versions
  <1>2. Pages[s][v][i] \in Urls
    BY <1>1
  <1> QED
    BY <1>2 DEF Listed

LEMMA CoveredIsHandled ==
  ASSUME NEW u, Covered(u)'
  PROVE  Promise!Handled(articles', met', u)
  BY DEF Covered, KnownTexts, Promise!Handled, Promise!Known, Promise!Present, Promise!TextOf,
         Stored, StoredText, Kinds

\* Corpus counts as Ingest does.
LEMMA SameCardinality == \A S : Promise!Cardinality(S) = Cardinality(S)
  BY DEF Promise!Cardinality, Cardinality

LEMMA InitMaps == Init => Promise!Init
  BY DEF Init, Promise!Init

\* A commit is a whole batch of one outlet.
LEMMA CommitMaps ==
  ASSUME TypeOK, Isolation, CountsInv, CoverInv', TermStatsAccount', PagesKnown',
         NEW s \in Sources, CommitStore(s)
  PROVE  Promise!Absorb(s)
  <1>1. \A u \in Urls : articles'[u] = IF u \in run[s].wrote THEN RowIn(s, u) ELSE articles[u]
    BY CommitFacts
  <1>2. \A u \in Urls : articles'[u] # articles[u] =>
            articles[u] = NoRow /\ articles'[u].source = s
    <2>1. \A u : RowIn(s, u).source = s
      BY DEF RowIn
    <2>2. \A u \in Urls : u \in run[s].wrote => articles[u] = NoRow
      BY DEF Isolation, Stored
    <2> QED
      BY <1>1, <2>1, <2>2
  <1>3. df' = [t \in Terms |-> Promise!Frequency(articles', t) + Promise!Repeats(met', t)]
    <2>1. ASSUME NEW t \in Terms
          PROVE  df'[t] = Promise!Frequency(articles', t) + Promise!Repeats(met', t)
      <3>1. df'[t] = Cardinality(WithTerm(t)') + Cardinality(MetWithTerm(t)')
        BY DEF TermStatsAccount
      <3>2. Promise!Frequency(articles', t) = Cardinality(WithTerm(t)')
        BY SameCardinality DEF WithTerm, Stored, StoredText,
               Promise!Frequency, Promise!Present, Promise!TextOf
      <3>3. Promise!Repeats(met', t) = Cardinality(MetWithTerm(t)')
        BY SameCardinality DEF MetWithTerm, Promise!Repeats
      <3> QED
        BY <3>1, <3>2, <3>3
    <2>2. df' = [t \in Terms |-> df[t] + run[s].terms[t]]
      BY CommitFacts
    <2>3. df' = [t \in Terms |-> df'[t]]
      BY <2>2
    <2> QED
      BY <2>1, <2>3
  <1>8. /\ met \subseteq met'
        /\ \A m \in met' \ met : /\ m[1] = s /\ m[2][1] \in Promise!Present(articles)
                                 /\ articles[m[2][1]].source # s
    <2>1. met' = met \cup Meetings(s, run[s].again)
      BY CommitAdds
    <2>2. ASSUME NEW u \in run[s].again
          PROVE  u \in Stored /\ articles[u].source # s /\ TextIn(s, u)[1] = u
      BY DEF Isolation, CountsInv, Apart, TextIn
    <2> QED
      BY <2>1, <2>2 DEF Meetings, Stored, Promise!Present
  <1> DEFINE v == state'[s].etag
  <1>4. /\ v \in {0, state[s].etag} \cup Versions(s)
        /\ \A o \in Sources : o # s => state'[o] = state[o]
    BY DEF PagesKnown, CommitStore, SaveSuccess, TypeOK
  <1>5. v \in {Etags[s]} \cup DOMAIN Pages[s]
    <2>1. v = 0 => v = state[s].etag
      BY DEF CommitStore, SaveSuccess, TypeOK
    <2> QED
      BY <1>4, <2>1 DEF Versions, Etags
  <1>6. Etags' = [Etags EXCEPT ![s] = v]
    BY <1>4 DEF Etags
  <1>7. ASSUME v # 0, NEW i \in DOMAIN Pages[s][v]
        PROVE  Promise!Handled(articles', met', Pages[s][v][i])
    <2>1. v \in Versions(s)
      BY <1>7 DEF PagesKnown, Versions
    <2>2. ASSUME NEW u \in Listed(s, v) PROVE Promise!Handled(articles', met', u)
      <3>1. Covered(u)'
        BY <1>7, <2>2 DEF CoverInv, EtagCovers, Listed
      <3> QED
        BY <3>1, CoveredIsHandled
    <2> QED
      BY <1>7, <2>1, <2>2, ListedItems
  <1> HIDE DEF v
  <1> QED
    BY <1>2, <1>3, <1>5, <1>6, <1>7, <1>8 DEF Promise!Absorb, Etags

\* A section's filter relabels; any other source's changes nothing.
LEMMA FilterMaps ==
  ASSUME TypeOK, NEW s \in Sources, FilterKnown(s)
  PROVE  Promise!Relabel(s) \/ UNCHANGED <<articles, df, state, met>>
  <1>1. articles' = Relabelled(s) /\ df' = df /\ state' = state /\ met' = met
    BY DEF FilterKnown
  <1> DEFINE moved == IF s \in Sections
                      THEN {u \in Listed(s, run[s].page) \cap Stored : articles[u].category = "news"}
                      ELSE {}
  <1>2. articles' = [u \in Urls |-> IF u \in moved
                                   THEN [articles[u] EXCEPT !.category = Category[s]]
                                   ELSE articles[u]]
    BY <1>1 DEF Relabelled
  <1>3. moved \in SUBSET {u \in Promise!Present(articles) : articles[u].category = "news"}
    BY DEF Promise!Present, Stored
  <1>4. CASE s \in Sections
    BY <1>1, <1>2, <1>3, <1>4 DEF Promise!Relabel
  <1>5. CASE s \notin Sections
    BY <1>1, <1>2, <1>5 DEF TypeOK
  <1> QED
    BY <1>4, <1>5

\* All other steps are stutters.
LEMMA OtherMaps ==
  TypeOK /\ [Next]_vars =>
    \/ \E s \in Sources : FilterKnown(s) \/ CommitStore(s)
    \/ articles' = articles /\ df' = df /\ met' = met /\ \A s \in Sources : state'[s].etag = state[s].etag
  <1> SUFFICES ASSUME TypeOK, [Next]_vars PROVE
        \/ \E s \in Sources : FilterKnown(s) \/ CommitStore(s)
        \/ articles' = articles /\ df' = df /\ met' = met /\ \A s \in Sources : state'[s].etag = state[s].etag
    OBVIOUS
  <1> USE DEF database, world
  <1>1. CASE (\E due \in SUBSET Sources : BeginCycle(due)) \/ Crash \/ UNCHANGED vars
    BY <1>1 DEF BeginCycle, Crash, vars
  <1>2. CASE (\E s \in Sources : Publish(s)) \/ \E u \in Urls : Age(u)
    BY <1>2 DEF Publish, Age
  <1>3. ASSUME NEW s \in Sources, PersistUnchanged(s) \/ RecordFailure(s)
        PROVE  articles' = articles /\ df' = df /\ met' = met /\ \A o \in Sources : state'[o].etag = state[o].etag
    <2>1. CASE PersistUnchanged(s)
      BY <2>1 DEF PersistUnchanged, SaveSuccess, TypeOK
    <2>2. CASE RecordFailure(s)
      BY <2>2 DEF RecordFailure, TypeOK
    <2> QED
      BY <1>3, <2>1, <2>2
  <1>4. ASSUME NEW s \in Sources, \/ Start(s) \/ FetchUnchanged(s) \/ DeadlockVictim(s)
                                  \/ Fail(s) \/ LoseFailure(s)
        PROVE  articles' = articles /\ df' = df /\ met' = met /\ state' = state
    BY <1>4 DEF Start, FetchUnchanged, DeadlockVictim, Fail, LoseFailure
  <1>5. ASSUME NEW s \in Sources, \E sends \in BOOLEAN : FetchPage(s, sends)
        PROVE  articles' = articles /\ df' = df /\ met' = met /\ state' = state
    BY <1>5 DEF FetchPage
  <1>6. ASSUME NEW s \in Sources, StoreStep(s), ~CommitStore(s)
        PROVE  articles' = articles /\ df' = df /\ met' = met /\ state' = state
    BY <1>6 DEF StoreStep, OpenStore, SkipNearDuplicate, UpsertNew, UpsertDuplicate
  <1> QED
    BY <1>1, <1>2, <1>3, <1>4, <1>5, <1>6 DEF Next, RunStep

LEMMA NextMaps ==
  ASSUME TypeOK, Isolation, CountsInv, CoverInv', TermStatsAccount', PagesKnown', [Next]_vars
  PROVE  [Promise!Next]_<<articles, df, Etags, met>>
  <1>1. ASSUME NEW s \in Sources, FilterKnown(s) PROVE [Promise!Next]_<<articles, df, Etags, met>>
    BY <1>1, FilterMaps DEF Promise!Next, Etags
  <1>2. ASSUME NEW s \in Sources, CommitStore(s) PROVE [Promise!Next]_<<articles, df, Etags, met>>
    BY <1>2, CommitMaps DEF Promise!Next
  <1>3. CASE /\ articles' = articles /\ df' = df /\ met' = met
             /\ \A s \in Sources : state'[s].etag = state[s].etag
    <2>1. Etags' = Etags
      BY <1>3 DEF Etags
    <2> QED
      BY <1>3, <2>1
  <1> QED
    BY <1>1, <1>2, <1>3, OtherMaps

\* Threads, open transactions, failures and crashes are invisible in the
\* committed tables: run_source, however many run at once, is a sequence of
\* whole batches whose statistics and validator come with them.
THEOREM IngestImplementsCorpus == Spec => ImplementsCorpus
  <1>1. TypeOK /\ CoverInv /\ PagesKnown /\ [Next]_vars => PagesKnown'
    BY NextPages
  <1>2. TypeOK /\ Isolation /\ CoverInv /\ [Next]_vars => CoverInv'
    BY NextCover
  <1>3. CountsInv => TermStatsAccount
    BY DEF CountsInv
  <1>4. TypeOK /\ Isolation /\ CountsInv /\ CoverInv' /\ TermStatsAccount' /\ PagesKnown'
            /\ [Next]_vars => [Promise!Next]_<<articles, df, Etags, met>>
    BY NextMaps
  <1> QED
    BY <1>1, <1>2, <1>3, <1>4, InitPages, InitCover, InitMaps, TypeCorrect, TransactionsIsolated,
       CountsInvariant, PTL DEF Spec, ImplementsCorpus, Promise!Spec, Etags

-----------------------------------------------------------------------------
(* Rows are kept.                                                          *)

LEMMA FilterKeepsRows ==
  ASSUME TypeOK, NEW s \in Sources, FilterKnown(s)
  PROVE  RowsKeep
  <1>1. articles' = Relabelled(s)
    BY DEF FilterKnown
  <1>2. ASSUME NEW u \in Stored
        PROVE  /\ u \in Stored'
               /\ articles'[u].source = articles[u].source
               /\ articles'[u].kind = articles[u].kind
    <2>1. u \in Urls
      BY DEF Stored
    <2> QED
      BY <1>1, <2>1, RelabelledType DEF Stored
  <1>3. ASSUME NEW u \in Stored, articles'[u].category # articles[u].category
        PROVE  /\ s \in Sections /\ articles[u].category = "news"
               /\ articles'[u].category = Category[s] /\ u \in Listed(s, run[s].page)
    <2>1. u \in Urls /\ articles[u] \in Rows
      BY TextsStored DEF Stored
    <2>2. CASE s \in Sections /\ u \in Listed(s, run[s].page) /\ articles[u].category = "news"
      <3>1. articles'[u] = [articles[u] EXCEPT !.category = Category[s]]
        BY <1>1, <2>1, <2>2 DEF Relabelled
      <3>2. [articles[u] EXCEPT !.category = Category[s]].category = Category[s]
        BY <2>1 DEF Rows
      <3> QED
        BY <2>2, <3>1, <3>2
    <2>3. CASE ~(s \in Sections /\ u \in Listed(s, run[s].page) /\ articles[u].category = "news")
      BY <1>1, <1>3, <2>1, <2>3 DEF Relabelled
    <2> QED
      BY <2>2, <2>3
  <1> QED
    BY <1>2, <1>3 DEF RowsKeep

LEMMA NextKeepsRows == TypeOK /\ Isolation /\ [Next]_vars => RowsKeep
  <1> SUFFICES ASSUME TypeOK, Isolation, [Next]_vars PROVE RowsKeep
    OBVIOUS
  <1>1. ASSUME NEW s \in Sources, CommitStore(s) PROVE RowsKeep
    <2>1. \A u \in Stored : u \in Urls /\ u \notin run[s].wrote
      BY DEF Isolation, Stored
    <2>2. Stored \subseteq Stored' /\ \A u \in Stored : articles'[u] = articles[u]
      BY <1>1, <2>1, CommitFacts
    <2> QED
      BY <2>2 DEF RowsKeep
  <1>2. CASE articles' = articles
    BY <1>2 DEF RowsKeep, Stored
  <1> QED
    BY <1>1, <1>2, FilterKeepsRows, OtherMaps

\* upsert_article never replaces a row and relabel_category moves one only out
\* of `news`, in any interleaving of the store transactions of one URL.
THEOREM RowsAreKept == Spec => ArticlesKeep
  <1>1. TypeOK /\ Isolation /\ [Next]_vars => [RowsKeep]_vars
    BY NextKeepsRows
  <1> QED
    BY <1>1, TypeCorrect, TransactionsIsolated, PTL DEF Spec, ArticlesKeep

-----------------------------------------------------------------------------
(* One thread at a time, as where ingest_concurrency is 1: what it compares *)
(* with is all there is, as long as the limit of recent_simhashes does not  *)
(* cut the window, and no upsert meets a stored row.  `sure` says that the  *)
(* window was never cut: what follows is proved with and without it.        *)

OneAtATime == Concurrency = 1
NothingIsCut == Cardinality(Window) <= RecentLimit
Alone == \A s, o \in Sources : Running(s) /\ Running(o) => s = o

\* The stories of a section that no later run of the main feed can turn to news.
OwnSections == {s \in Sections : Category[s] # "news"}
Settled(u) == HasTwin(u) \/ (u \in Stored /\ articles[u].category # "news")
SectionsSettled ==
    \A s \in OwnSections :
        state[s].etag # 0 => \A u \in Listed(s, state[s].etag) : Settled(u)

\* The running thread: its items are not stored yet, it knows every recent text,
\* what it wrote is near none of them, and nothing it has passed is left to do.
NewItems(s) == run[s].pc \in {"preparing", "storing"} => run[s].todo \cap Stored = {}
SeesRecent(s, sure) ==
    run[s].pc = "storing" =>
        /\ sure => Window \subseteq run[s].recent
        /\ \A w \in run[s].wrote : TextIn(s, w) \in run[s].recent
NoTwinsWritten(s, sure) ==
    sure /\ run[s].pc = "storing" =>
        \A u \in run[s].wrote :
            /\ \A w \in run[s].wrote \ {u} : <<TextIn(s, u), TextIn(s, w)>> \notin Near
            /\ \A w \in Stored \ aged : <<TextIn(s, u), StoredText(w)>> \notin Near
SectionSeen(s) ==
    s \in OwnSections /\ run[s].pc \in {"preparing", "storing"} =>
        \A u \in Listed(s, run[s].page) : Settled(u) \/ u \in run[s].todo \/ u \in run[s].wrote

NoTwinsKept(sure) == sure => NoTwinsStored

AloneThread(s, sure) ==
    /\ EtagOfPage(s) /\ RecentBacked(s) /\ NewItems(s) /\ SeesRecent(s, sure)
    /\ NoTwinsWritten(s, sure) /\ SectionSeen(s) /\ run[s].again = {}
AloneInv(sure) ==
    /\ Alone /\ NoTwinsKept(sure) /\ SectionsSettled /\ met = {}
    /\ \A s \in Sources : AloneThread(s, sure)

LEMMA SettledKeeps ==
  ASSUME RowsKeep, NEW u, Settled(u)
  PROVE  Settled(u)'
  BY DEF RowsKeep, Settled

\* Steps that store nothing and save no validator.
LEMMA TablesKeep ==
  ASSUME NEW sure \in BOOLEAN,
         RowsKeep, TextsKeep, NoTwinsKept(sure), SectionsSettled, Stored' = Stored, aged \subseteq aged',
         \A s \in Sources : state'[s].etag = state[s].etag
  PROVE  NoTwinsKept(sure)' /\ SectionsSettled'
  <1>1. NoTwinsKept(sure)'
    BY DEF NoTwinsKept, NoTwinsStored, TextsKeep
  <1>2. SectionsSettled'
    BY SettledKeeps, SourcesAssumption DEF SectionsSettled, OwnSections, Listed
  <1> QED
    BY <1>1, <1>2

LEMMA OutsideThread ==
  ASSUME NEW sure \in BOOLEAN,
         NEW s \in Sources, run'[s].pc \notin {"filtering", "preparing", "storing"},
         run'[s].again = {}
  PROVE  AloneThread(s, sure)'
  BY DEF AloneThread, EtagOfPage, RecentBacked, NewItems, SeesRecent, NoTwinsWritten, SectionSeen

\* The one running thread moves.
LEMMA AloneMoves ==
  ASSUME NEW sure \in BOOLEAN,
         TypeOK, AloneInv(sure), NEW s \in Sources, Running(s), NEW now, Update(s, now),
         NoTwinsKept(sure)', SectionsSettled', AloneThread(s, sure)', met' = {}
  PROVE  AloneInv(sure)'
  <1>1. ASSUME NEW o \in Sources, o # s PROVE ~Running(o) /\ run'[o] = run[o]
    BY <1>1, UpdateOne DEF AloneInv, Alone
  <1>2. ASSUME NEW o \in Sources, o # s PROVE AloneThread(o, sure)'
    BY <1>1, <1>2, OutsideThread DEF Running, AloneInv, AloneThread
  <1>3. Alone'
    BY <1>1 DEF Alone, Running
  <1> QED
    BY <1>2, <1>3 DEF AloneInv

LEMMA StartAlone ==
  ASSUME NEW sure \in BOOLEAN,
         OneAtATime, TypeOK, RowsKeep, TextsKeep, AloneInv(sure), NEW s \in Sources, Start(s)
  PROVE  AloneInv(sure)'
  <1> DEFINE R == {o \in Sources : Running(o)}
             now == [At("fetching") EXCEPT !.validator = state[s].etag]
  <1>1. R = {}
    <2>1. ASSUME NEW o \in R PROVE FALSE
      <3>1. R = {o}
        BY DEF AloneInv, Alone
      <3>2. Cardinality(R) = 1
        BY <3>1, FS_Singleton
      <3> QED
        BY <3>2 DEF Start, OneAtATime
    <2> QED
      BY <2>1
  <1>2. Update(s, now) /\ UNCHANGED <<database, aged>>
    BY DEF Start, world
  <1>3. now.pc = "fetching" /\ now.again = {}
    BY DEF At
  <1> HIDE DEF now
  <1>4. /\ run'[s].pc = "fetching" /\ run'[s].again = {}
        /\ \A o \in Sources : o # s => run'[o] = run[o] /\ ~Running(o)
    BY <1>1, <1>2, <1>3, UpdateOne
  <1>5. Alone' /\ \A o \in Sources : AloneThread(o, sure)'
    BY <1>4, OutsideThread DEF Alone, Running, AloneInv, AloneThread
  <1>6. NoTwinsKept(sure)' /\ SectionsSettled' /\ met' = {}
    BY <1>2, TablesKeep DEF AloneInv, database, Stored
  <1> QED
    BY <1>5, <1>6 DEF AloneInv

\* FetchUnchanged, 304s and failures.
LEMMA RestAlone ==
  ASSUME NEW sure \in BOOLEAN,
         TypeOK, RowsKeep, TextsKeep, AloneInv(sure), NEW s \in Sources,
         \/ FetchUnchanged(s) \/ PersistUnchanged(s) \/ Fail(s) \/ DeadlockVictim(s)
         \/ RecordFailure(s) \/ LoseFailure(s)
  PROVE  AloneInv(sure)'
  <1>0. run[s] \in Runs
    BY DEF TypeOK
  <1>1. Running(s)
    BY DEF FetchUnchanged, PersistUnchanged, Fail, DeadlockVictim, WaitsFor, RecordFailure,
           LoseFailure, Running
  <1>2. PICK now : /\ Update(s, now) /\ now.pc \notin {"filtering", "preparing", "storing"}
                   /\ now.again = {}
    <2>1. CASE FetchUnchanged(s)
      <3>1. /\ [run[s] EXCEPT !.pc = "unchanged"].pc = "unchanged"
            /\ [run[s] EXCEPT !.pc = "unchanged"].again = run[s].again
        BY <1>0 DEF Runs
      <3> QED
        BY <2>1, <3>1 DEF FetchUnchanged, AloneInv, AloneThread
    <2> QED
      BY <2>1, AtNothing DEF PersistUnchanged, Fail, DeadlockVictim, RecordFailure, LoseFailure
  <1>3. UNCHANGED <<articles, aged, met>> /\ \A o \in Sources : state'[o].etag = state[o].etag
    <2>1. CASE PersistUnchanged(s)
      BY <2>1 DEF PersistUnchanged, SaveSuccess, TypeOK, world
    <2>2. CASE RecordFailure(s)
      BY <2>2 DEF RecordFailure, TypeOK, world
    <2> QED
      BY <2>1, <2>2 DEF FetchUnchanged, Fail, DeadlockVictim, LoseFailure, database, world
  <1>4. AloneThread(s, sure)'
    BY <1>2, UpdateOne, OutsideThread
  <1>5. NoTwinsKept(sure)' /\ SectionsSettled' /\ met' = {}
    BY <1>3, TablesKeep DEF AloneInv, Stored
  <1> QED
    BY <1>1, <1>2, <1>4, <1>5, AloneMoves

LEMMA FetchAlone ==
  ASSUME NEW sure \in BOOLEAN,
         TypeOK, RowsKeep, TextsKeep, AloneInv(sure), NEW s \in Sources, NEW sends \in BOOLEAN,
         FetchPage(s, sends)
  PROVE  AloneInv(sure)'
  <1> DEFINE etag == IF sends THEN version[s] ELSE 0
             now == [run[s] EXCEPT !.pc = "filtering", !.page = version[s], !.etag = etag]
  <1>1. Update(s, now) /\ UNCHANGED <<articles, state, aged, met>> /\ Running(s)
    BY DEF FetchPage, database, world, Running
  <1>2. now.pc = "filtering" /\ now.page = version[s] /\ now.etag = etag /\ now.again = {}
    BY DEF TypeOK, Runs, AloneInv, AloneThread
  <1> HIDE DEF now
  <1>3. run'[s] = now
    BY <1>1, UpdateOne
  <1>4. AloneThread(s, sure)'
    BY <1>2, <1>3 DEF AloneThread, EtagOfPage, RecentBacked, NewItems, SeesRecent,
                      NoTwinsWritten, SectionSeen
  <1>5. NoTwinsKept(sure)' /\ SectionsSettled' /\ met' = {}
    BY <1>1, TablesKeep DEF AloneInv, Stored
  <1> QED
    BY <1>1, <1>4, <1>5, AloneMoves

\* relabel_category moves what a section lists and the database has.
LEMMA FilterAlone ==
  ASSUME NEW sure \in BOOLEAN,
         TypeOK, Isolation, RowsKeep, TextsKeep, AloneInv(sure), NEW s \in Sources, FilterKnown(s)
  PROVE  AloneInv(sure)'
  <1> DEFINE todo == Fresh(s)
             now == [run[s] EXCEPT !.pc = "preparing", !.todo = todo]
  <1>1. /\ Update(s, now) /\ UNCHANGED <<state, aged, met>> /\ run[s].pc = "filtering" /\ Running(s)
        /\ articles' = Relabelled(s)
    BY DEF FilterKnown, world, Running
  <1>2. /\ now.pc = "preparing" /\ now.page = run[s].page /\ now.etag = run[s].etag
        /\ now.todo = todo /\ now.again = {}
    BY DEF TypeOK, Runs, AloneInv, AloneThread
  <1> HIDE DEF now, todo
  <1>3. run'[s] = now
    BY <1>1, UpdateOne
  <1>4. ASSUME NEW u \in Urls
        PROVE  /\ articles'[u] = NoRow <=> articles[u] = NoRow
               /\ s \in OwnSections /\ u \in Listed(s, run[s].page) /\ u \in Stored
                      => articles'[u].category # "news"
    <2>0. articles[u] \in Rows \cup {NoRow} /\ articles'[u] \in Rows \cup {NoRow}
      BY <1>1, RelabelledType DEF TypeOK
    <2>1. CASE s \in Sections /\ u \in Listed(s, run[s].page) \cap Stored
                 /\ articles[u].category = "news"
      <3>1. articles'[u] = [articles[u] EXCEPT !.category = Category[s]]
        BY <1>1, <2>1 DEF Relabelled
      <3>2. articles[u] \in Rows
        BY <2>0, <2>1 DEF Stored
      <3>3. [articles[u] EXCEPT !.category = Category[s]].category = Category[s]
            /\ [articles[u] EXCEPT !.category = Category[s]] \in Rows
        BY <3>2 DEF Rows, Categories
      <3> QED
        BY <3>1, <3>2, <3>3, NoRowAssumption DEF OwnSections
    <2>2. CASE ~(s \in Sections /\ u \in Listed(s, run[s].page) \cap Stored
                   /\ articles[u].category = "news")
      <3>1. articles'[u] = articles[u]
        BY <1>1, <2>2 DEF Relabelled
      <3> QED
        BY <2>2, <3>1 DEF OwnSections
    <2> QED
      BY <2>1, <2>2
  <1>5. Stored' = Stored
    BY <1>4 DEF Stored
  <1>6. NewItems(s)'
    BY <1>2, <1>3, <1>5 DEF NewItems, Fresh, todo
  <1>7. SectionSeen(s)'
    <2> SUFFICES ASSUME s \in OwnSections, NEW u \in Listed(s, run[s].page), u \notin todo
                 PROVE  Settled(u)'
      BY <1>2, <1>3 DEF SectionSeen, Listed
    <2>1. u \in Stored /\ u \in Urls
      BY DEF todo, Fresh, Stored
    <2> QED
      BY <1>4, <1>5, <2>1 DEF Settled
  <1>8. AloneThread(s, sure)'
    BY <1>1, <1>2, <1>3, <1>6, <1>7
    DEF AloneInv, AloneThread, EtagOfPage, RecentBacked, SeesRecent, NoTwinsWritten
  <1>9. NoTwinsKept(sure)' /\ SectionsSettled' /\ met' = {}
    BY <1>1, <1>5, TablesKeep DEF AloneInv
  <1> QED
    BY <1>1, <1>8, <1>9, AloneMoves

\* A window within the limit is read whole.
LEMMA WindowWhole ==
  ASSUME NEW texts, RecentTexts(texts), NothingIsCut
  PROVE  Window = texts
  <1>1. PICK S : S = Stored \ aged
    OBVIOUS
  <1>2. IsFiniteSet(S)
    BY <1>1, FS_Subset, SourcesAssumption DEF Stored
  <1> DEFINE f == [u \in S |-> StoredText(u)]
  <1>3. f \in Surjection(S, Window)
    BY <1>1 DEF Surjection, Window
  <1> HIDE DEF f
  <1>4. IsFiniteSet(Window)
    BY <1>2, <1>3, FS_Surjection
  <1>5. texts \subseteq Window /\ (texts = Window \/ Cardinality(texts) = RecentLimit)
    BY DEF RecentTexts
  <1>6. /\ IsFiniteSet(texts) /\ Cardinality(texts) <= Cardinality(Window)
        /\ Cardinality(Window) = Cardinality(texts) => Window = texts
    BY <1>4, <1>5, FS_Subset
  <1>7. /\ Cardinality(Window) \in Nat /\ Cardinality(texts) \in Nat /\ RecentLimit \in Nat
    BY <1>4, <1>6, FS_CardinalityType, BoundsAssumption
  <1>8. CASE Cardinality(texts) = RecentLimit
    BY <1>6, <1>7, <1>8 DEF NothingIsCut
  <1> QED
    BY <1>5, <1>8

LEMMA OpenAlone ==
  ASSUME NEW sure \in BOOLEAN,
         TypeOK, Isolation, RowsKeep, TextsKeep, AloneInv(sure), NEW s \in Sources,
         NEW extracted, NEW lexicon, NEW texts, OpenStore(s, extracted, lexicon, texts),
         sure => NothingIsCut
  PROVE  AloneInv(sure)'
  <1> DEFINE now == [run[s] EXCEPT !.pc = "storing", !.full = extracted, !.lexicon = lexicon,
                                   !.recent = texts]
  <1>1. /\ Update(s, now) /\ UNCHANGED <<state, articles, aged, met>> /\ run[s].pc = "preparing"
        /\ Running(s) /\ run[s].wrote = {}
    BY DEF OpenStore, database, world, Running, Isolation, NothingOpen
  <1>2. /\ now.pc = "storing" /\ now.page = run[s].page /\ now.etag = run[s].etag
        /\ now.todo = run[s].todo /\ now.recent = texts /\ now.wrote = run[s].wrote
        /\ now.again = {}
    BY DEF TypeOK, Runs, AloneInv, AloneThread
  <1> HIDE DEF now
  <1>3. run'[s] = now
    BY <1>1, UpdateOne
  <1>4. Stored' = Stored /\ Window' = Window
    BY <1>1 DEF Stored, Window, StoredText
  <1>5. RecentBacked(s)'
    <2>1. texts \subseteq KnownTexts
      BY DEF OpenStore, RecentTexts, Window, KnownTexts
    <2> QED
      BY <1>2, <1>3, <2>1, KnownKeeps DEF RecentBacked
  <1>6. EtagOfPage(s)' /\ NewItems(s)' /\ SectionSeen(s)'
    <2>1. \A u : Settled(u)' <=> Settled(u)
      BY <1>1, <1>4 DEF Settled
    <2> QED
      BY <1>1, <1>2, <1>3, <1>4, <2>1
      DEF AloneInv, AloneThread, EtagOfPage, NewItems, SectionSeen, Listed
  <1>7. SeesRecent(s, sure)' /\ NoTwinsWritten(s, sure)'
    <2>1. sure => Window \subseteq texts
      BY WindowWhole DEF OpenStore
    <2> QED
      BY <1>1, <1>2, <1>3, <1>4, <2>1 DEF SeesRecent, NoTwinsWritten
  <1>8. AloneThread(s, sure)'
    BY <1>2, <1>3, <1>5, <1>6, <1>7 DEF AloneThread
  <1>9. NoTwinsKept(sure)' /\ SectionsSettled' /\ met' = {}
    BY <1>1, <1>4, TablesKeep DEF AloneInv
  <1> QED
    BY <1>1, <1>8, <1>9, AloneMoves

\* One round of the loop over the items.
RoundOf(s, u, now) ==
    /\ Update(s, now) /\ run[s].pc = "storing" /\ UNCHANGED <<articles, state, aged, met>>
    /\ now.pc = "storing" /\ now.page = run[s].page /\ now.etag = run[s].etag
    /\ now.full = run[s].full /\ now.todo = run[s].todo \ {u} /\ now.again = {}

LEMMA RoundAlone ==
  ASSUME NEW sure \in BOOLEAN,
         TypeOK, RowsKeep, TextsKeep, AloneInv(sure), NEW s \in Sources, NEW u \in Urls, NEW now,
         RoundOf(s, u, now), run[s].wrote \subseteq now.wrote, run[s].recent \subseteq now.recent,
         \A w \in now.wrote : w \in run[s].wrote \/ TextIn(s, w) \in now.recent,
         \A y \in now.recent : y \in run[s].recent \/ \E w \in now.wrote : y = TextIn(s, w),
         sure => \A w \in now.wrote :
             /\ \A x \in now.wrote \ {w} : <<TextIn(s, w), TextIn(s, x)>> \notin Near
             /\ \A x \in Stored \ aged : <<TextIn(s, w), StoredText(x)>> \notin Near,
         s \in OwnSections => Settled(u) \/ u \in now.wrote
  PROVE  AloneInv(sure)'
  <1>1. /\ run'[s] = now /\ Running(s) /\ Stored' = Stored /\ Window' = Window
        /\ \A w : StoredText(w)' = StoredText(w)
    BY UpdateOne DEF RoundOf, Running, Stored, Window, StoredText
  <1>2. /\ now.pc = "storing" /\ run[s].pc = "storing" /\ now.page = run[s].page
        /\ now.etag = run[s].etag /\ now.todo = run[s].todo \ {u} /\ aged' = aged
        /\ \A w : TextIn(s, w)' = TextIn(s, w)
        /\ now.again = {} /\ met' = met
    BY <1>1 DEF RoundOf, TextIn
  <1>3. AloneThread(s, sure)
    BY DEF AloneInv
  <1>4. EtagOfPage(s)' /\ NewItems(s)'
    BY <1>1, <1>2, <1>3 DEF AloneThread, EtagOfPage, NewItems
  <1>5. RecentBacked(s)' /\ SeesRecent(s, sure)'
    <2>1. Upserted(s)' = now.wrote /\ Upserted(s) = run[s].wrote
      BY <1>1, <1>2, <1>3 DEF AloneThread, Upserted
    <2>2. KnownTexts' = KnownTexts
      BY <1>1, <1>2 DEF KnownTexts
    <2> QED
      BY <1>1, <1>2, <1>3, <2>1, <2>2 DEF AloneThread, RecentBacked, SeesRecent
  <1>6. NoTwinsWritten(s, sure)'
    BY <1>1, <1>2 DEF NoTwinsWritten
  <1>7. SectionSeen(s)'
    BY <1>1, <1>2, <1>3, SettledKeeps DEF AloneThread, SectionSeen, Listed
  <1>8. NoTwinsKept(sure)' /\ SectionsSettled' /\ met' = {}
    BY <1>1, TablesKeep DEF AloneInv, RoundOf
  <1>9. AloneThread(s, sure)'
    BY <1>1, <1>2, <1>4, <1>5, <1>6, <1>7 DEF AloneThread
  <1> QED
    BY <1>1, <1>8, <1>9, AloneMoves DEF RoundOf

\* What is skipped is a twin of another story.
LEMMA SkipAlone ==
  ASSUME NEW sure \in BOOLEAN,
         TypeOK, Isolation, RowsKeep, TextsKeep, AloneInv(sure), NEW s \in Sources, NEW u \in Urls,
         SkipNearDuplicate(s, u)
  PROVE  AloneInv(sure)'
  <1> DEFINE todo == run[s].todo \ {u}
             now == [run[s] EXCEPT !.todo = todo]
  <1>1. /\ Update(s, now) /\ UNCHANGED <<articles, state, aged, met>> /\ run[s].pc = "storing"
        /\ u \in run[s].todo
    BY DEF SkipNearDuplicate, NextItem, database, world
  <1>2. /\ now.pc = run[s].pc /\ now.page = run[s].page /\ now.etag = run[s].etag
        /\ now.full = run[s].full /\ now.todo = todo /\ now.wrote = run[s].wrote
        /\ now.recent = run[s].recent /\ now.again = {}
    BY DEF TypeOK, Runs, AloneInv, AloneThread
  <1> HIDE DEF now
  <1>3. PICK y \in run[s].recent : <<TextIn(s, u), y>> \in Near
    BY DEF SkipNearDuplicate, IsNearDuplicate
  <1>4. HasTwin(u)
    <2>1. PICK w \in Urls : w # u /\ (y = StoredText(w) \/ y = TextIn(s, w))
      <3>1. u \notin Stored /\ u \notin run[s].wrote
        BY <1>1 DEF AloneInv, AloneThread, NewItems, Isolation
      <3>2. \/ \E w \in Stored : y = StoredText(w)
            \/ \E w \in run[s].wrote : y = TextIn(s, w)
        BY <1>1, <1>3 DEF AloneInv, AloneThread, RecentBacked, KnownTexts, Upserted
      <3>3. Stored \subseteq Urls /\ run[s].wrote \subseteq Urls
        BY DEF Stored, TypeOK, Runs
      <3> QED
        BY <3>1, <3>2, <3>3
    <2>2. /\ \E k : TextIn(s, u) = <<u, k>> /\ k \in Kinds
          /\ \E l : y = <<w, l>> /\ l \in Kinds
      <3>1. <<TextIn(s, u), y>> \in Texts \X Texts
        BY <1>3, NearAssumption
      <3> QED
        BY <2>1, <3>1 DEF Texts, TextIn, StoredText
    <2> QED
      BY <1>3, <2>1, <2>2 DEF HasTwin
  <1>5. /\ NoTwinsWritten(s, sure) /\ RoundOf(s, u, now)
    BY <1>1, <1>2 DEF AloneInv, AloneThread, RoundOf, todo
  <1>6. Settled(u)
    BY <1>4 DEF Settled
  <1> QED
    BY <1>1, <1>2, <1>5, <1>6, RoundAlone DEF NoTwinsWritten

\* What is stored is near nothing recent.
LEMMA NewAlone ==
  ASSUME NEW sure \in BOOLEAN,
         TypeOK, Isolation, RowsKeep, TextsKeep, AloneInv(sure), NEW s \in Sources, NEW u \in Urls,
         NEW analysed \in BOOLEAN, UpsertNew(s, u, analysed)
  PROVE  AloneInv(sure)'
  <1> DEFINE held == run[s].held \cup {u}
             todo == run[s].todo \ {u}
             wrote == run[s].wrote \cup {u}
             recent == run[s].recent \cup {TextIn(s, u)}
             grades == run[s].graded \cup (IF analysed THEN {u} ELSE {})
             terms == PlusTerms(s, u)
             new == run[s].new + 1
             again == run[s].again
             now == [run[s] EXCEPT !.todo = todo, !.held = held, !.wrote = wrote, !.again = again,
                        !.recent = recent, !.graded = grades, !.terms = terms, !.new = new]
  <1>1. /\ Update(s, now) /\ UNCHANGED <<articles, state, aged, met>> /\ run[s].pc = "storing"
        /\ \A y \in run[s].recent : <<TextIn(s, u), y>> \notin Near
    BY DEF UpsertNew, CountAsNew, IsNearDuplicate, database, world
  <1> HIDE DEF held, todo, wrote, again, recent, grades, terms, new
  <1>2. /\ now.pc = run[s].pc /\ now.page = run[s].page /\ now.etag = run[s].etag
        /\ now.full = run[s].full /\ now.todo = todo /\ now.wrote = wrote
        /\ now.recent = recent /\ now.again = {}
    BY DEF TypeOK, Runs, AloneInv, AloneThread, again
  <1> HIDE DEF now
  <1>3. RoundOf(s, u, now)
    BY <1>1, <1>2 DEF RoundOf, todo
  <1>4. NoTwinsWritten(s, sure) /\ SeesRecent(s, sure)
    BY DEF AloneInv, AloneThread
  <1>5. sure => \A x \in run[s].wrote : /\ <<TextIn(s, u), TextIn(s, x)>> \notin Near
                              /\ <<TextIn(s, x), TextIn(s, u)>> \notin Near
    BY <1>1, <1>4, NearAssumption DEF SeesRecent
  <1>6. sure => \A x \in Stored \ aged : <<TextIn(s, u), StoredText(x)>> \notin Near
    BY <1>1, <1>4 DEF SeesRecent, Window
  <1>7. sure => \A w \in now.wrote :
            /\ \A x \in now.wrote \ {w} : <<TextIn(s, w), TextIn(s, x)>> \notin Near
            /\ \A x \in Stored \ aged : <<TextIn(s, w), StoredText(x)>> \notin Near
    BY <1>1, <1>2, <1>4, <1>5, <1>6 DEF NoTwinsWritten, wrote
  <1>8. /\ run[s].wrote \subseteq now.wrote /\ run[s].recent \subseteq now.recent /\ u \in now.wrote
        /\ \A w \in now.wrote : w \in run[s].wrote \/ TextIn(s, w) \in now.recent
        /\ \A y \in now.recent : y \in run[s].recent \/ \E w \in now.wrote : y = TextIn(s, w)
    BY <1>2 DEF wrote, recent
  <1> QED
    BY <1>3, <1>7, <1>8, RoundAlone

\* Nothing has been stored since the filter.
LEMMA NoDuplicateAlone ==
  ASSUME NEW sure \in BOOLEAN,
         AloneInv(sure), NEW s \in Sources, NEW u, NEW analysed, UpsertDuplicate(s, u, analysed)
  PROVE  FALSE
  BY DEF UpsertDuplicate, NextItem, AloneInv, AloneThread, NewItems

LEMMA CommitAlone ==
  ASSUME NEW sure \in BOOLEAN,
         TypeOK, Isolation, RowsKeep, TextsKeep, AloneInv(sure), NEW s \in Sources, CommitStore(s)
  PROVE  AloneInv(sure)'
  <1>1. /\ Stored' = Stored \cup run[s].wrote
        /\ \A u \in Urls :
              articles'[u] = IF u \in run[s].wrote THEN RowIn(s, u) ELSE articles[u]
        /\ run'[s] = At("idle") /\ run[s].todo = {} /\ run[s].pc = "storing" /\ aged' = aged
        /\ Update(s, At("idle")) /\ Running(s)
    BY CommitFacts DEF CommitStore, world, Running
  <1>2. AloneThread(s, sure)
    BY DEF AloneInv
  <1>3. ASSUME NEW w \in run[s].wrote
        PROVE  w \in Urls /\ w \in Stored' /\ StoredText(w)' = TextIn(s, w)
               /\ articles'[w].category = Category[s]
    <2>1. w \in Urls
      BY DEF TypeOK, Runs
    <2>2. articles'[w] = RowIn(s, w)
      BY <1>1, <2>1
    <2>3. RowIn(s, w).kind = TextIn(s, w)[2] /\ RowIn(s, w).category = Category[s]
          /\ TextIn(s, w) = <<w, TextIn(s, w)[2]>>
      BY DEF RowIn, TextIn
    <2> QED
      BY <1>1, <2>1, <2>2, <2>3 DEF StoredText
  <1>4. NoTwinsKept(sure)' /\ met' = {}
    <2> SUFFICES ASSUME sure,
                        NEW u \in Stored' \ aged, NEW w \in Stored' \ aged, u # w,
                        <<StoredText(u)', StoredText(w)'>> \in Near
                 PROVE  FALSE
      <3>1. met' = met \cup {<<s, TextIn(s, u)>> : u \in run[s].again}
        BY DEF CommitStore
      <3>2. met' = {}
        BY <1>2, <3>1 DEF AloneInv, AloneThread
      <3> QED
        BY <1>1, <3>2 DEF NoTwinsKept, NoTwinsStored
    <2>1. <<StoredText(w)', StoredText(u)'>> \in Near
      BY NearAssumption
    <2>2. CASE u \in run[s].wrote
      BY <1>1, <1>2, <1>3, <2>2 DEF AloneThread, NoTwinsWritten, TextsKeep
    <2>3. CASE w \in run[s].wrote
      BY <1>1, <1>2, <1>3, <2>1, <2>3 DEF AloneThread, NoTwinsWritten, TextsKeep
    <2>4. CASE u \in Stored /\ w \in Stored
      BY <2>4 DEF AloneInv, NoTwinsKept, NoTwinsStored, TextsKeep
    <2> QED
      BY <1>1, <2>2, <2>3, <2>4
  <1>5. /\ \A o \in Sources \ {s} : state'[o] = state[o]
        /\ state'[s].etag = IF run[s].etag # 0 THEN run[s].etag ELSE state[s].etag
    BY DEF CommitStore, SaveSuccess, TypeOK
  <1>6. SectionsSettled'
    <2> SUFFICES ASSUME NEW o \in OwnSections, state'[o].etag # 0,
                        NEW u \in Listed(o, state'[o].etag)
                 PROVE  Settled(u)'
      BY DEF SectionsSettled, OwnSections, Listed
    <2>1. o \in Sources
      BY SourcesAssumption DEF OwnSections
    <2>2. CASE o = s /\ run[s].etag # 0
      <3>1. state'[o].etag = run[s].page
        BY <1>1, <1>2, <1>5, <2>2 DEF AloneThread, EtagOfPage
      <3>2. Settled(u) \/ u \in run[s].wrote
        BY <1>1, <1>2, <2>2, <3>1 DEF AloneThread, SectionSeen
      <3> QED
        BY <1>3, <2>2, <3>2, SettledKeeps DEF Settled, OwnSections
    <2>3. CASE ~(o = s /\ run[s].etag # 0)
      BY <1>5, <2>1, <2>3, SettledKeeps DEF AloneInv, SectionsSettled
    <2> QED
      BY <2>2, <2>3
  <1>7. AloneThread(s, sure)'
    BY <1>1, AtNothing, OutsideThread
  <1> QED
    BY <1>1, <1>4, <1>6, <1>7, AloneMoves

LEMMA NextAlone ==
  ASSUME NEW sure \in BOOLEAN,
         OneAtATime, TypeOK, Isolation, AloneInv(sure), [Next]_vars,
         sure => NothingIsCut
  PROVE  AloneInv(sure)'
  <1>0. TextsKeep /\ RowsKeep
    BY NextKeepsTexts, NextKeepsRows
  <1>1. ASSUME UNCHANGED database, aged \subseteq aged', \A s \in Sources : run'[s].pc \in {"idle", "queued"}
        PROVE  AloneInv(sure)'
    <2>1. \A s \in Sources : AloneThread(s, sure)'
      <3>1. Isolation'
        BY NextIsolation
      <3>2. \A s \in Sources : run'[s].again = {}
        BY <1>1, <3>1 DEF Isolation, NothingOpen
      <3> QED
        BY <1>1, <3>2, OutsideThread
    <2>2. NoTwinsKept(sure)' /\ SectionsSettled' /\ met' = {}
      BY <1>0, <1>1, TablesKeep DEF AloneInv, database, Stored
    <2> QED
      BY <1>1, <2>1, <2>2 DEF AloneInv, Alone, Running
  <1>2. ASSUME NEW due \in SUBSET Sources, BeginCycle(due) PROVE AloneInv(sure)'
    BY <1>1, <1>2, AtNothing DEF BeginCycle, world
  <1>3. CASE Crash
    BY <1>1, <1>3, AtNothing DEF Crash
  <1>4. ASSUME UNCHANGED <<database, run>>, aged \subseteq aged' PROVE AloneInv(sure)'
    <2>1. NoTwinsKept(sure)' /\ SectionsSettled' /\ met' = {} /\ Stored' = Stored /\ articles' = articles
          /\ \A w : StoredText(w)' = StoredText(w)
      BY <1>0, <1>4, TablesKeep DEF AloneInv, database, Stored, StoredText
    <2>2. ASSUME NEW s \in Sources PROVE AloneThread(s, sure)'
      <3>1. /\ AloneThread(s, sure) /\ run' = run /\ Window' \subseteq Window
            /\ \A u : (Settled(u)' <=> Settled(u)) /\ TextIn(s, u)' = TextIn(s, u)
        BY <1>4, <2>1 DEF AloneInv, Window, Settled, TextIn
      <3>2. EtagOfPage(s)' /\ RecentBacked(s)' /\ NewItems(s)'
        <4>1. Upserted(s)' = Upserted(s) /\ KnownTexts' = KnownTexts
          BY <1>4, <2>1 DEF Upserted, KnownTexts, database
        <4> QED
          BY <2>1, <3>1, <4>1 DEF AloneThread, EtagOfPage, RecentBacked, NewItems
      <3>3. SeesRecent(s, sure)' /\ NoTwinsWritten(s, sure)'
        BY <1>4, <2>1, <3>1 DEF AloneThread, SeesRecent, NoTwinsWritten
      <3>4. SectionSeen(s)'
        BY <3>1 DEF AloneThread, SectionSeen, Listed
      <3> QED
        BY <1>4, <3>1, <3>2, <3>3, <3>4 DEF AloneThread
    <2> QED
      BY <1>4, <2>1, <2>2 DEF AloneInv, Alone, Running
  <1>5. CASE \/ \E s \in Sources : Publish(s)
             \/ \E u \in Urls : Age(u)
             \/ UNCHANGED vars
    BY <1>4, <1>5 DEF Publish, Age, vars, world
  <1>6. ASSUME NEW s \in Sources, RunStep(s) \/ Fail(s) \/ LoseFailure(s) PROVE AloneInv(sure)'
    BY <1>0, <1>6, StartAlone, RestAlone, FetchAlone, FilterAlone, OpenAlone, SkipAlone, NewAlone,
       NoDuplicateAlone, CommitAlone
    DEF RunStep, StoreStep
  <1> QED
    BY <1>2, <1>3, <1>5, <1>6 DEF Next

LEMMA InitAlone ==
  ASSUME NEW sure \in BOOLEAN,
         Init
  PROVE  AloneInv(sure)
  <1>1. \A s \in Sources : run[s].pc = "idle" /\ state[s].etag = 0
    BY AtNothing DEF Init
  <1>2. Stored = {}
    BY DEF Init, Stored
  <1>3. met = {} /\ \A s \in Sources : run[s].again = {}
    BY AtNothing DEF Init, NothingOpen
  <1> QED
    BY <1>1, <1>2, <1>3, SourcesAssumption
    DEF AloneInv, Alone, Running, NoTwinsKept, NoTwinsStored, SectionsSettled, OwnSections, AloneThread,
        EtagOfPage, RecentBacked, NewItems, SeesRecent, NoTwinsWritten, SectionSeen

\* Whether or not the window is cut.
LEMMA AloneInvariant == OneAtATime => (Spec => []AloneInv(FALSE))
  <1> SUFFICES ASSUME OneAtATime PROVE Spec => []AloneInv(FALSE)
    OBVIOUS
  <1>1. Init => AloneInv(FALSE)
    BY InitAlone
  <1>2. TypeOK /\ Isolation /\ AloneInv(FALSE) /\ [Next]_vars => AloneInv(FALSE)'
    BY NextAlone
  <1> QED
    BY <1>1, <1>2, TypeCorrect, TransactionsIsolated, PTL DEF Spec

\* dedupe.py, "simhash stops the same *text* being stored twice": it does where
\* ingest_concurrency is 1 and one process ingests, through failures and
\* crashes, in every behaviour in which the two-day window never holds more
\* texts than the 5000 that recent_simhashes reads.  (With two threads each
\* compares with what was committed when its transaction opened: it does not.)
THEOREM OneThreadStoresNoTwins ==
  OneAtATime => (Spec /\ []NothingIsCut => []NoTwinsStored)
  <1> SUFFICES ASSUME OneAtATime PROVE Spec /\ []NothingIsCut => []NoTwinsStored
    OBVIOUS
  <1>1. Init => AloneInv(TRUE)
    BY InitAlone
  <1>2. TypeOK /\ Isolation /\ NothingIsCut /\ AloneInv(TRUE) /\ [Next]_vars => AloneInv(TRUE)'
    BY NextAlone
  <1>3. AloneInv(TRUE) => NoTwinsStored
    BY DEF AloneInv, NoTwinsKept
  <1> QED
    BY <1>1, <1>2, <1>3, TypeCorrect, TransactionsIsolated, PTL DEF Spec

\* README, Section sources: "whichever feed runs first, finance stories end up
\* `economic`": where ingest_concurrency is 1, for every order of the runs.
THEOREM OneThreadLetsSectionsWin == OneAtATime => (Spec => []SectionWins)
  <1>1. AloneInv(FALSE) => SectionWins
    BY DEF AloneInv, SectionsSettled, OwnSections, Settled, SectionWins
  <1> QED
    BY <1>1, AloneInvariant, PTL

\* run_source, "Story-clustering IDF counts every stored article": where
\* ingest_concurrency is 1 an upsert never meets a stored row, and term_stats
\* is a recount of the corpus, through failures and crashes.  (With two
\* threads it may count twice an article that two sources list.)
THEOREM OneThreadKeepsCountsExact == OneAtATime => (Spec => []TermStatsExact)
  <1>1. TypeOK /\ AloneInv(FALSE) /\ TermStatsAccount => TermStatsExact
    <2> SUFFICES ASSUME TypeOK, AloneInv(FALSE), TermStatsAccount, NEW t \in Terms
                 PROVE  df[t] = Cardinality(WithTerm(t))
      BY DEF TermStatsExact
    <2>1. Cardinality(MetWithTerm(t)) = 0
      BY FS_EmptySet DEF AloneInv, MetWithTerm
    <2>2. Cardinality(WithTerm(t)) \in Nat
      <3>1. WithTerm(t) \subseteq Urls
        BY DEF WithTerm, Stored
      <3> QED
        BY <3>1, SourcesAssumption, FS_Subset, FS_CardinalityType
    <2> QED
      BY <2>1, <2>2 DEF TermStatsAccount
  <1> QED
    BY <1>1, AloneInvariant, TypeCorrect, TermStatsAddUp, PTL
=============================================================================
