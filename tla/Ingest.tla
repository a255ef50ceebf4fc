------------------------------- MODULE Ingest -------------------------------
(***************************************************************************)
(* One ingest cycle after another: app/scheduler/worker.py run_once starts *)
(* the due sources on a thread pool, and every thread executes             *)
(* app/pipeline/run.py run_source against one MySQL database.              *)
(*                                                                         *)
(* A source's page is a sequence of article URLs (after canonical_url), in *)
(* the order the outlet lists them; publishing a new version of the page   *)
(* changes its validator (ETag or Last-Modified), here the version number. *)
(* The text an article is stored with is its URL and whether its body was  *)
(* extracted: a full text or the brief one of the listing.  Two texts are  *)
(* near when is_near_duplicate says so of their simhashes.                 *)
(*                                                                         *)
(* A transaction is what the thread has read and written since it opened:  *)
(* nothing of it is visible before CommitStore, and the rows it inserted   *)
(* or touched stay locked until it commits or rolls back (InnoDB).         *)
(*                                                                         *)
(* The connection is SQLAlchemy's to MySQL, which is opened with           *)
(* CLIENT.FOUND_ROWS: an upsert that meets a stored row and changes        *)
(* nothing has rowcount 1, as an insert has.                               *)
(***************************************************************************)
EXTENDS Integers, Sequences, FiniteSets

CONSTANTS Sources,      \* the active outlets of config/sources
          Sections,     \* those with a section_of in their YAML
          Category,     \* Category[s]: the category of the articles of s
          Urls,         \* canonical article URLs
          Pages,        \* Pages[s][v]: the page of s in version v
          Terms,        \* story terms
          TermsOf,      \* TermsOf[x]: the story terms of text x
          Near,         \* the pairs of texts within NEAR_DUPLICATE_DISTANCE
          Concurrency,  \* settings.ingest_concurrency
          MaxBodies,    \* settings.max_bodies_per_run
          LexiconStates,\* whether the lexicon loads, as runs may find it
          RecentLimit,  \* the limit of recent_simhashes
          Ageing,       \* articles leave the two-day window in this instance
          MaxFaults,    \* bound: failures and crashes in a behaviour
          NoRow         \* the row a URL does not have

Kinds == {"brief", "full"}
Texts == Urls \X Kinds
Categories == {Category[s] : s \in Sources} \cup {"news"}
Rows == [source : Sources, kind : Kinds, category : Categories]
Versions(s) == DOMAIN Pages[s]

ASSUME SourcesAssumption == IsFiniteSet(Urls) /\ Sections \subseteq Sources
ASSUME PagesAssumption ==
    Pages \in [Sources -> Seq(Seq(Urls))] /\ \A s \in Sources : Pages[s] # << >>
ASSUME TermsAssumption == TermsOf \in [Texts -> SUBSET Terms]
ASSUME NearAssumption ==
    Near \subseteq Texts \X Texts /\ \A pair \in Near : <<pair[2], pair[1]>> \in Near
ASSUME BoundsAssumption ==
    /\ Concurrency \in Nat \ {0} /\ MaxBodies \in Nat /\ MaxFaults \in Nat
    /\ LexiconStates \subseteq BOOLEAN /\ RecentLimit \in Nat /\ Ageing \in BOOLEAN
ASSUME NoRowAssumption == NoRow \notin Rows

VARIABLES
    articles,   \* table articles: the row of each URL, or NoRow
    graded,     \* table article_analysis: the URLs that have a grade
    df,         \* table term_stats
    state,      \* table source_state: stored validator, consecutive failures
    logged,     \* table fetch_log: the sum of items_new of each source
    met,        \* history: the committed upserts that met a stored row, as
                \* pairs of the source and the text it had found
    run,        \* what each pool thread knows of the run of its source
    version,    \* the version each outlet is serving
    aged,       \* URLs whose published_at is more than two days back
    faults      \* failures and crashes so far

database == <<articles, graded, df, state, logged, met>>
world == <<version, aged, faults>>
vars == <<database, run, world>>

-----------------------------------------------------------------------------
(* Reading the database and a page.                                        *)

Stored == {u \in Urls : articles[u] # NoRow}
StoredText(u) == <<u, articles[u].kind>>
Listed(s, v) == {u \in Urls : \E i \in DOMAIN Pages[s][v] : Pages[s][v][i] = u}

\* dedupe_batch keeps the first occurrence, so a page orders its URLs by it.
Before(s, v, u, w) ==
    \E i \in DOMAIN Pages[s][v] :
        /\ Pages[s][v][i] = u
        /\ \A j \in 1..i : Pages[s][v][j] # w

\* is_near_duplicate(text, known)
IsNearDuplicate(x, known) == \E y \in known : <<x, y>> \in Near

\* recent_simhashes(since two days ago, limit), as a committed read: what the
\* window holds, or RecentLimit texts of it.  Which are cut off depends on
\* published_at, which is not modelled: any may be.
NoWindow == {}          \* mutant: the window is compared the wrong way round
Window == {StoredText(u) : u \in Stored \ aged}
RecentTexts(texts) ==
    /\ texts \subseteq Window /\ Cardinality(texts) <= RecentLimit
    /\ texts = Window \/ Cardinality(texts) = RecentLimit

-----------------------------------------------------------------------------
(* What a thread knows of its run.                                         *)

Phases == {"idle", "queued", "fetching", "unchanged", "filtering",
           "preparing", "storing", "failing"}
Counts == [Terms -> Nat]
Runs == [pc : Phases,
         validator : Nat,        \* the validator sent with the request
         page : Nat,             \* the version the response carried
         etag : Nat,             \* the validator the response carried, 0 if none
         todo : SUBSET Urls,     \* items still to handle
         full : SUBSET Urls,     \* items whose body was extracted
         lexicon : BOOLEAN,      \* load_lexicon succeeded
         recent : SUBSET Texts,  \* `recent` of run_source
         held : SUBSET Urls,     \* article rows locked by the transaction
         wrote : SUBSET Urls,    \* article rows inserted, not yet committed
         again : SUBSET Urls,    \* stored rows an upsert has met
         graded : SUBSET Urls,   \* analysis rows written, not yet committed
         terms : Counts,         \* stored_terms
         new : Nat]              \* report.new

At(pc) == [pc |-> pc, validator |-> 0, page |-> 0, etag |-> 0, todo |-> {},
           full |-> {}, lexicon |-> FALSE, recent |-> {}, held |-> {},
           wrote |-> {}, again |-> {}, graded |-> {}, terms |-> [t \in Terms |-> 0], new |-> 0]

Update(s, now) == run' = [run EXCEPT ![s] = now]
Running(s) == run[s].pc \notin {"idle", "queued"}
TextIn(s, u) == <<u, IF u \in run[s].full THEN "full" ELSE "brief">>
RowIn(s, u) == [source |-> s, kind |-> TextIn(s, u)[2], category |-> Category[s]]

PlusTerms(s, u) ==
    [t \in Terms |-> run[s].terms[t] + (IF t \in TermsOf[TextIn(s, u)] THEN 1 ELSE 0)]

\* The item of todo that the page lists first.
NextItem(s, u) ==
    /\ u \in run[s].todo
    /\ \A w \in run[s].todo \ {u} : Before(s, run[s].page, u, w)

\* Row locks: an upsert waits for the transaction that holds its row.
Holds(o, u) == u \in run[o].held
Blocked(s, u) == \E o \in Sources \ {s} : Holds(o, u)
WaitsFor(s, o) ==
    /\ run[s].pc = "storing" /\ o # s
    /\ \E u \in Urls : /\ NextItem(s, u) /\ Holds(o, u)
                       /\ ~IsNearDuplicate(TextIn(s, u), run[s].recent)

\* The items FilterKnown leaves to handle.
FreshLimited(s) ==      \* mutant: the limit of a dry run, here one item, always applies
    {u \in Listed(s, run[s].page) \ Stored :
        \A w \in Listed(s, run[s].page) \ Stored : ~Before(s, run[s].page, w, u)}
FreshAll(s) ==          \* mutant: what the database already has is not dropped
    Listed(s, run[s].page)
Fresh(s) == Listed(s, run[s].page) \ Stored

\* relabel_category on what a section lists and the database already has
RelabelNothing(s) == articles       \* mutant: the section_of branch is lost
Relabelled(s) ==
    [u \in Urls |->
        IF s \in Sections /\ u \in Listed(s, run[s].page) \cap Stored
              /\ articles[u].category = "news"
        THEN [articles[u] EXCEPT !.category = Category[s]]
        ELSE articles[u]]

\* save_state without an error; a response without a validator keeps the old one
SaveSuccessDecays(s, etag) ==       \* mutant: a success takes one failure back
    state' = [state EXCEPT ![s] =
                 [etag |-> IF etag # 0 THEN etag ELSE @.etag, failures |-> @.failures - 1]]
SaveSuccess(s, etag) ==
    state' = [state EXCEPT ![s] =
                 [etag |-> IF etag # 0 THEN etag ELSE @.etag, failures |-> 0]]

-----------------------------------------------------------------------------
(* run_once and run_source.                                                *)

\* run_cycle: the pool of the last cycle has drained (run_once returns when
\* every source has), and whichever sources are due are queued.
BeginCycle(due) ==
    /\ due # {}
    /\ \A s \in Sources : run[s].pc = "idle"
    /\ run' = [s \in Sources |-> At(IF s \in due THEN "queued" ELSE "idle")]
    /\ UNCHANGED <<database, world>>

\* A pool thread is free: read the stored validator (get_state).
Start(s) ==
    /\ run[s].pc = "queued"
    /\ Cardinality({o \in Sources : Running(o)}) < Concurrency
    /\ Update(s, [At("fetching") EXCEPT !.validator = state[s].etag])
    /\ UNCHANGED <<database, world>>

\* scraper.fetch: 304, allowed only when the validator is the current one
FetchUnchanged(s) ==
    /\ run[s].pc = "fetching"
    /\ run[s].validator = version[s]
    /\ Update(s, [run[s] EXCEPT !.pc = "unchanged"])
    /\ UNCHANGED <<database, world>>

\* scraper.fetch: 200 with the current page; the outlet may send no validator
FetchPage(s, sendsValidator) ==
    /\ run[s].pc = "fetching"
    /\ Update(s, [run[s] EXCEPT !.pc = "filtering", !.page = version[s],
                               !.etag = IF sendsValidator THEN version[s] ELSE 0])
    /\ UNCHANGED <<database, world>>

\* _persist_state after a 304; the 304 carries no validator of its own
PersistUnchanged(s) ==
    /\ run[s].pc = "unchanged"
    /\ SaveSuccess(s, 0)
    /\ Update(s, At("idle"))
    /\ UNCHANGED <<articles, graded, df, logged, met, world>>

\* Steps 2 and 3, one transaction: dedupe_batch, existing_url_hashes, and for
\* a section relabel_category, whose UPDATE waits for locked rows.
FilterKnown(s) ==
    /\ run[s].pc = "filtering"
    /\ s \in Sections => \A u \in Listed(s, run[s].page) \cap Stored : ~Blocked(s, u)
    /\ articles' = Relabelled(s)
    /\ Update(s, [run[s] EXCEPT !.pc = "preparing", !.todo = Fresh(s)])
    /\ UNCHANGED <<graded, df, state, logged, met, world>>

\* Steps 4 and 5 and the opening of the transaction of steps 6-8: bodies are
\* tried for the first MaxBodies items and may fail or extract nothing, the
\* lexicon loads or does not, and the recent simhashes are read.
OpenStore(s, extracted, lexicon, recent) ==
    /\ run[s].pc = "preparing"
    /\ extracted \subseteq
           {u \in run[s].todo :
               Cardinality({w \in run[s].todo : Before(s, run[s].page, w, u)}) < MaxBodies}
    /\ RecentTexts(recent)
    /\ Update(s, [run[s] EXCEPT !.pc = "storing", !.full = extracted,
                               !.lexicon = lexicon, !.recent = recent])
    /\ UNCHANGED <<database, world>>

\* is_near_duplicate: skip the item
SkipCountsTerms(s, u) ==        \* mutant: the terms are counted before the check
    /\ run[s].pc = "storing" /\ NextItem(s, u)
    /\ IsNearDuplicate(TextIn(s, u), run[s].recent)
    /\ Update(s, [run[s] EXCEPT !.todo = run[s].todo \ {u}, !.terms = PlusTerms(s, u)])
    /\ UNCHANGED <<database, world>>
SkipNearDuplicate(s, u) ==
    /\ run[s].pc = "storing" /\ NextItem(s, u)
    /\ IsNearDuplicate(TextIn(s, u), run[s].recent)
    /\ Update(s, [run[s] EXCEPT !.todo = run[s].todo \ {u}])
    /\ UNCHANGED <<database, world>>

\* The bookkeeping that follows an upsert whose rowcount is 1
CountAsNew(s, u, wrote, again, analysed) ==
    Update(s, [run[s] EXCEPT !.todo = run[s].todo \ {u},
                            !.held = run[s].held \cup {u},
                            !.wrote = wrote, !.again = again,
                            !.recent = run[s].recent \cup {TextIn(s, u)},
                            !.graded = run[s].graded \cup (IF analysed THEN {u} ELSE {}),
                            !.terms = PlusTerms(s, u),
                            !.new = run[s].new + 1])

\* upsert_article inserts; the analysis needs a lexicon and may fail
UpsertNew(s, u, analysed) ==
    /\ run[s].pc = "storing" /\ NextItem(s, u) /\ ~Blocked(s, u)
    /\ ~IsNearDuplicate(TextIn(s, u), run[s].recent)
    /\ u \notin Stored
    /\ analysed => run[s].lexicon
    /\ CountAsNew(s, u, run[s].wrote \cup {u}, run[s].again, analysed)
    /\ UNCHANGED <<database, world>>

\* upsert_article meets a row committed since FilterKnown: the no-op update
\* locks it and leaves it as it is, and with a rowcount of 1 the article
\* passes for a new one; the stored row is graded again.
UpsertReplaces(s, u, analysed) ==   \* mutant: the duplicate's columns are updated
    /\ run[s].pc = "storing" /\ NextItem(s, u) /\ ~Blocked(s, u)
    /\ ~IsNearDuplicate(TextIn(s, u), run[s].recent)
    /\ u \in Stored
    /\ analysed => run[s].lexicon
    /\ CountAsNew(s, u, run[s].wrote \cup {u}, run[s].again, analysed)
    /\ UNCHANGED <<database, world>>
UpsertDuplicate(s, u, analysed) ==
    /\ run[s].pc = "storing" /\ NextItem(s, u) /\ ~Blocked(s, u)
    /\ ~IsNearDuplicate(TextIn(s, u), run[s].recent)
    /\ u \in Stored
    /\ analysed => run[s].lexicon
    /\ CountAsNew(s, u, run[s].wrote, run[s].again \cup {u}, analysed)
    /\ UNCHANGED <<database, world>>

\* count_terms, save_state, log_fetch and the commit
CommitStore(s) ==
    /\ run[s].pc = "storing" /\ run[s].todo = {}
    /\ articles' = [u \in Urls |-> IF u \in run[s].wrote THEN RowIn(s, u) ELSE articles[u]]
    /\ graded' = graded \cup run[s].graded
    /\ df' = [t \in Terms |-> df[t] + run[s].terms[t]]
    /\ SaveSuccess(s, run[s].etag)
    /\ logged' = [logged EXCEPT ![s] = @ + run[s].new]
    /\ met' = met \cup {<<s, TextIn(s, u)>> : u \in run[s].again}
    /\ Update(s, At("idle"))
    /\ UNCHANGED world

-----------------------------------------------------------------------------
(* Failures.  Leaving a transaction by an exception rolls it back.         *)

\* A ScrapeError or any other exception, wherever the run is
FailKeepsValidator(s) ==    \* mutant: the failed run's validator is saved
    /\ Running(s) /\ run[s].pc # "failing" /\ faults < MaxFaults
    /\ state' = [state EXCEPT ![s].etag = IF run[s].etag # 0 THEN run[s].etag ELSE @]
    /\ Update(s, At("failing"))
    /\ faults' = faults + 1
    /\ UNCHANGED <<articles, graded, df, logged, met, version, aged>>
FailWithoutRollback(s) ==   \* mutant: what the transaction inserted stays
    /\ Running(s) /\ run[s].pc # "failing" /\ faults < MaxFaults
    /\ articles' = [u \in Urls |-> IF u \in run[s].wrote THEN RowIn(s, u) ELSE articles[u]]
    /\ Update(s, At("failing"))
    /\ faults' = faults + 1
    /\ UNCHANGED <<graded, df, state, logged, met, version, aged>>
Fail(s) ==
    /\ Running(s) /\ run[s].pc # "failing" /\ faults < MaxFaults
    /\ Update(s, At("failing"))
    /\ faults' = faults + 1
    /\ UNCHANGED <<database, version, aged>>

\* InnoDB rolls back one transaction of a cycle of waiting ones.
DeadlockVictim(s) ==
    /\ \E ring \in SUBSET Sources :
           /\ s \in ring
           /\ \A x \in ring : \E y \in ring : WaitsFor(x, y)
           /\ \A x \in ring : \E y \in ring : WaitsFor(y, x)
    /\ Update(s, At("failing"))
    /\ UNCHANGED <<database, world>>

\* _record_failure
RecordFailure(s) ==
    /\ run[s].pc = "failing"
    /\ state' = [state EXCEPT ![s].failures = @ + 1]
    /\ Update(s, At("idle"))
    /\ UNCHANGED <<articles, graded, df, logged, met, world>>

\* _record_failure fails too, and only logs it
LoseFailure(s) ==
    /\ run[s].pc = "failing" /\ faults < MaxFaults
    /\ Update(s, At("idle"))
    /\ faults' = faults + 1
    /\ UNCHANGED <<database, version, aged>>

\* The worker process dies; its connections close and roll back.
Crash ==
    /\ faults < MaxFaults
    /\ \E s \in Sources : run[s].pc # "idle"
    /\ run' = [s \in Sources |-> At("idle")]
    /\ faults' = faults + 1
    /\ UNCHANGED <<database, version, aged>>

-----------------------------------------------------------------------------
(* The world.                                                              *)

Publish(s) ==
    /\ version[s] + 1 \in Versions(s)
    /\ version' = [version EXCEPT ![s] = @ + 1]
    /\ UNCHANGED <<database, run, aged, faults>>

Age(u) ==
    /\ Ageing /\ u \in Stored \ aged
    /\ aged' = aged \cup {u}
    /\ UNCHANGED <<database, run, version, faults>>

Init ==
    /\ articles = [u \in Urls |-> NoRow]
    /\ graded = {}
    /\ df = [t \in Terms |-> 0]
    /\ state = [s \in Sources |-> [etag |-> 0, failures |-> 0]]
    /\ logged = [s \in Sources |-> 0]
    /\ met = {}
    /\ run = [s \in Sources |-> At("idle")]
    /\ version = [s \in Sources |-> 1]
    /\ aged = {}
    /\ faults = 0

StoreStep(s) ==
    \/ \E lexicon \in LexiconStates, extracted \in SUBSET run[s].todo, recent \in SUBSET Window :
           OpenStore(s, extracted, lexicon, recent)
    \/ \E u \in Urls : \/ SkipNearDuplicate(s, u)
                       \/ \E analysed \in BOOLEAN : \/ UpsertNew(s, u, analysed)
                                                    \/ UpsertDuplicate(s, u, analysed)
    \/ CommitStore(s)

RunStep(s) ==
    \/ Start(s)
    \/ FetchUnchanged(s)
    \/ \E sends \in BOOLEAN : FetchPage(s, sends)
    \/ PersistUnchanged(s)
    \/ FilterKnown(s)
    \/ StoreStep(s)
    \/ DeadlockVictim(s)
    \/ RecordFailure(s)

Next ==
    \/ \E due \in SUBSET Sources : BeginCycle(due)
    \/ \E s \in Sources : RunStep(s) \/ Fail(s) \/ LoseFailure(s) \/ Publish(s)
    \/ Crash
    \/ \E u \in Urls : Age(u)

Spec == Init /\ [][Next]_vars

\* Threads are scheduled and their requests and statements return (each has
\* a timeout); a source is due again at the latest six hours after its last
\* run, so it is in the queue of infinitely many cycles if cycles go on.
Fairness ==
    \A s \in Sources :
        /\ WF_vars(RunStep(s))
        /\ SF_vars(\E due \in SUBSET Sources : s \in due /\ BeginCycle(due))
FairSpec == Spec /\ Fairness

-----------------------------------------------------------------------------
(* Properties.                                                             *)

\* Every variable holds what its table or thread can hold; fetch_log and
\* term_stats never go negative, and only stored articles age.
TypeOK ==
    /\ articles \in [Urls -> Rows \cup {NoRow}]
    /\ graded \subseteq Urls
    /\ df \in [Terms -> Nat]
    /\ state \in [Sources -> [etag : Nat, failures : Nat]]
    /\ logged \in [Sources -> Nat]
    /\ met \subseteq Sources \X Texts
    /\ run \in [Sources -> Runs]
    /\ version \in [Sources -> Nat]
    /\ aged \subseteq Urls
    /\ faults \in Nat

\* What a recount over the corpus gives, as rebuild_term_stats does it, and
\* what fetch_log should say of the corpus.
WithTerm(t) == {u \in Stored : t \in TermsOf[StoredText(u)]}
From(s) == {u \in Stored : articles[u].source = s}

\* Exact counts, which hold as long as no upsert meets a stored row: one
\* source at a time never does (FilterKnown has dropped what is stored), two
\* threads may.
TermStatsExact == \A t \in Terms : df[t] = Cardinality(WithTerm(t))

\* Whatever the interleaving of the sources' transactions, rollbacks and
\* crashes, term_stats is a recount of the corpus plus one for every upsert
\* that met a stored row.  A source meets a row at most once, and no row of
\* its own: nothing is lost, nothing is counted twice for one source, and a
\* rolled-back run leaves no trace.
MetWithTerm(t) == {m \in met : t \in TermsOf[m[2]]}
TermStatsAccount ==
    \A t \in Terms : df[t] = Cardinality(WithTerm(t)) + Cardinality(MetWithTerm(t))

\* fetch_log accounts for the corpus in the same way: the items_new of a
\* source are the articles attributed to it and those of others it met.
MetBy(s) == {m \in met : m[1] = s}
LogAccounts ==
    /\ \A s \in Sources : logged[s] = Cardinality(From(s)) + Cardinality(MetBy(s))
    /\ \A m \in met : m[2][1] \in Stored /\ articles[m[2][1]].source # m[1]

\* A URL is covered when it is stored or a text it was found with is a
\* near-duplicate of a stored one, or of one under which a stored row was met
\* again (its listing, say, where the stored text is the full one).
KnownTexts == {StoredText(w) : w \in Stored} \cup {m[2] : m \in met}
Covered(u) ==
    \/ u \in Stored
    \/ \E kind \in Kinds, y \in KnownTexts : <<<<u, kind>>, y>> \in Near

\* The stored validator makes the outlet answer 304, and the page is then not
\* looked at: it may only be that of a page whose every item was handled.
EtagCovers ==
    \A s \in Sources :
        state[s].etag # 0 => \A u \in Listed(s, state[s].etag) : Covered(u)

\* No two articles of the last two days have near-duplicate texts: dedupe.py,
\* "simhash stops the same *text* being stored twice".
NoTwinsStored ==
    \A u, w \in Stored \ aged : u # w => <<StoredText(u), StoredText(w)>> \notin Near

\* README, Section sources: "whichever feed runs first, finance stories end up
\* `economic`".  Once the page of a section that has a category of its own has
\* been handled, none of its stories is `news`.  (Stories with near-duplicates
\* elsewhere may have been dropped, and stored by the main feed afterwards;
\* nothing is claimed of them.)
HasTwin(u) == \E w \in Urls \ {u}, k \in Kinds, l \in Kinds :
                  <<<<u, k>>, <<w, l>>>> \in Near
SectionWins ==
    \A s \in Sections :
        Category[s] # "news" /\ state[s].etag # 0 =>
            \A u \in Listed(s, state[s].etag) \cap Stored :
                HasTwin(u) \/ articles[u].category # "news"

\* A committed row is never replaced, moved to another outlet or dropped, and
\* its category moves at most once: from `news` to that of a section that
\* lists it.  Concurrent stores of one URL must not overwrite each other.
RowsKeep ==
    \A u \in Stored :
        /\ u \in Stored'
        /\ articles'[u].source = articles[u].source
        /\ articles'[u].kind = articles[u].kind
        /\ articles'[u].category # articles[u].category =>
              /\ articles[u].category = "news"
              /\ \E s \in Sections : /\ articles'[u].category = Category[s]
                                     /\ u \in Listed(s, run[s].page)
ArticlesKeep == [][RowsKeep]_vars

\* Once the outlets stop publishing and failures stop, every item on every
\* page ends up stored or recognised as a near-duplicate -- in spite of
\* deadlocks between store transactions and of 304 answers.
EventuallyCovered ==
    \A s \in Sources : <>[](\A u \in Listed(s, version[s]) : Covered(u))

\* Why the counts add up.  Transactions are isolated: outside a store
\* transaction a thread holds and has counted nothing; inside one, a row it
\* wrote is locked by it alone, is not committed yet and is done with; a row
\* it met again is committed and locked by it alone.
NothingOpen(s) ==
    /\ run[s].held = {} /\ run[s].wrote = {} /\ run[s].again = {}
    /\ run[s].terms = [t \in Terms |-> 0] /\ run[s].new = 0
Isolation ==
    /\ \A s \in Sources : run[s].pc # "storing" => NothingOpen(s)
    /\ \A s \in Sources : /\ run[s].wrote \cup run[s].again \subseteq run[s].held
                          /\ (run[s].wrote \cup run[s].again) \cap run[s].todo = {}
                          /\ run[s].wrote \cap Stored = {} /\ run[s].again \subseteq Stored
    /\ \A s, o \in Sources : s # o => run[s].held \cap run[o].held = {}

\* And an open transaction has counted what it wrote or met, each row once.
Upserted(s) == run[s].wrote \cup run[s].again
UpsertedWithTerm(s, t) == {u \in Upserted(s) : t \in TermsOf[TextIn(s, u)]}
OpenCounts ==
    \A s \in Sources :
        /\ \A t \in Terms : run[s].terms[t] = Cardinality(UpsertedWithTerm(s, t))
        /\ run[s].new = Cardinality(Upserted(s))

\* Threads, transactions and failures are invisible in the committed corpus.
Promise == INSTANCE Corpus WITH etag <- [s \in Sources |-> state[s].etag]
ImplementsCorpus == Promise!Spec
=============================================================================
