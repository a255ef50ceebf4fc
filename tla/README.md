# TLA+ models of the news ingest service

These modules specify the part of the service that is hard to test: what its
threads, transactions, retries and failures do to one shared MySQL database.
TLC checks the models on small instances; TLAPS proves what matters most for
every value of the constants.  `PROJECT.json` maps each definition to the lines
it models and lists the runs, the mutants that show each property can fail, the
hazards and the theorems.

## The system

A worker process polls Nepali news outlets, stores their articles once, grades
them and groups them into stories; an HTTP API reads the result.

| Part | State | Operations | Hard behaviour |
|---|---|---|---|
| `pipeline/run.py` | none of its own; a run is a thread | `run_source`: conditional fetch, filter, bodies, store, record | several transactions per run, on several threads; any step may fail; a 304 hides the page |
| `storage/repositories.py`, `models.py` | tables `articles`, `article_analysis`, `term_stats`, `source_state`, `fetch_log`, `story_clusters`, `article_clusters`, `article_terms` | upserts, counts, relabelling, locks, reports | uniqueness and counts under concurrency, row locks, deadlocks |
| `storage/db.py` | one engine and session factory per process | `session_scope`, `wait_for_database`, `create_all` | rollback on any exception; a crash between creating and seeding a table |
| `pipeline/cluster.py`, `nlp/stories.py` | a named lock on a connection | `cluster_pending`, `assign` | mutual exclusion held by a connection, batch commits, order of arrival |
| `pipeline/grading.py` | a cursor over ids | `grade_stored` | a batch that fails again and again |
| `scheduler/worker.py`, `health.py` | stop event, heartbeat file | `run_forever`, `run_cycle`, `run_once`, `catch_up`, `beat`, `check` | database outages, SIGTERM, cadence of catch-up, what a heartbeat means |
| `ingestion/fetcher.py` | last request per host, robots.txt cache | `get` | shared by all threads; pacing, retries, races on the cache |
| `ingestion/rss.py`, `html.py`, `bipad.py`, `base.py`, `registry.py` | validator of the last response | `fetch`, `fetch_body` | partial failure of one item |
| `pipeline/dedupe.py`, `normalize.py` | none | `canonical_url`, `simhash`, `is_near_duplicate`, `dedupe_batch` | idempotence and symmetry of pure functions |
| `nlp/*`, `parsing/*` | none | grading, keywords, stemming, extraction | overlapping matches, thresholds |
| `api/app.py` | none | reports, `/articles` polling | paging while rows are inserted |
| `main.py`, `scripts/*`, `sources.py`, `settings.py` | none | command line, configuration | a run started by hand beside the worker |

How they meet: `run_forever` → `run_cycle` → `run_once` queues the due sources
on a thread pool; every pool thread runs `run_source`, which calls a scraper
(and through it the shared `Fetcher`) and then the repositories inside
`session_scope`.  After the pool drains, `catch_up` grades and clusters what is
stored.  The only shared state between threads is the database and the
`Fetcher`; between processes, the database and the clustering lock.

What makes each part correct:

- ingest: an article is stored once and never overwritten; the term statistics
  and the fetch log account for the articles and for the upserts that met one that
  was stored; a validator is only remembered for a page whose items were all
  handled; every item is handled in the end;
- clustering: one clusterer at a time; a story's counts, sources and dates are
  those of its members; an article never changes story;
- worker: it survives outages and a broken lexicon, stops when told to, and its
  heartbeat means what `health.py` says;
- fetcher: no thread waits for another host's turn; robots.txt is obeyed; a
  request ends after at most `max_retries` attempts;
- dates: what a parser cannot see it may lose, but a date that leaves no choice is
  not moved to another day.

## Modules

| Module | What it is |
|---|---|
| `Ingest` | a cycle of concurrent `run_source` threads against one database |
| `Corpus` | the abstract promise: a corpus that grows by whole batches |
| `Clustering` | `cluster_pending` in several processes, with the named lock and its batches |
| `StoryBook` | the abstract promise: story rows are summaries of their members |
| `Worker` | `run_forever` from start to SIGTERM, with seeding, grading and catch-up, beside one command of the command line |
| `Fetcher` | the `Fetcher` that all threads share: robots.txt, turns per host, retries |
| `ArticlesApi` | a client that walks through `/articles` while the worker stores and grades |
| `Bipad` | a crawl of the BIPAD portal by offset while incidents are reported and verified |
| `Criticality`, `Keywords` | the lexicon, the term index, scores and grades; noun phrases and keywords |
| `Analysis` | an article and a lexicon file, and what `analyse` makes of them |
| `Dating` | dates as outlets print them, and how one becomes `published_at` |
| `MCIngest`, `MCClustering`, `MCWorker`, `MCFetcher`, `MCAnalysis`, `MCDating` | the instances TLC checks |
| `MCReading` | `ArticlesApi`, `Bipad`, `Analysis` and `Dating` in one run, one per behaviour: they share no state |
| `IngestProofs`, `CoverProofs`, `CorpusProofs`, `ClusteringProofs`, `StoryBookProofs`, `WorkerProofs`, `FetcherProofs`, `ReadingProofs` | the theorems |

What `Ingest` and `Clustering` have in detail is one transaction in `Worker`, and
what `Fetcher` has in detail is one step of `Ingest`; `ArticlesApi` knows the
worker only as transactions that insert, commit, roll back and grade.

### Ingest

| Variable | In the code |
|---|---|
| `articles`, `graded`, `df` | tables `articles`, `article_analysis`, `term_stats` |
| `state` | `source_state`: `etag`/`last_modified` as one validator, `consecutive_failures` |
| `logged` | per source, the sum of `items_new` over `fetch_log` |
| `met` | history: the committed upserts that met a stored row, with the text they had |
| `run` | the locals of `run_source` in each pool thread, and its open transaction |
| `version` | what each outlet's web server serves |
| `aged` | which articles the two-day window of `recent_simhashes` no longer holds |
| `faults` | the bound on failures |

A step is what one thread does between two points where another thread's commit
can matter.  `Start` is `get_state`; `FetchUnchanged` and `FetchPage` are
`scraper.fetch`; `FilterKnown` is the whole filtering transaction, the
relabelling of a section included; `OpenStore` fetches the bodies, loads the
lexicon and opens the store transaction by reading the recent simhashes;
`SkipNearDuplicate`, `UpsertNew` and `UpsertDuplicate` are one round of the loop
over articles; `CommitStore` is `count_terms`, `save_state`, `log_fetch` and the
commit.  `Fail` is an exception anywhere, with the rollback of `session_scope`;
`RecordFailure` and `LoseFailure` are the two outcomes of `_record_failure`;
`Crash` is the death of the process.  `BeginCycle` is `run_cycle` with the
barrier of `run_once`.

The connection is the program's: SQLAlchemy's dialect for MySQL opens it with
`CLIENT.FOUND_ROWS`, so the upsert of a URL that is stored, which changes nothing,
has rowcount 1, as an insert has.  `UpsertDuplicate` therefore goes on as
`UpsertNew` does (`CountAsNew`): the run counts the article and its terms, grades
the stored row again and remembers the text it had found, which need not be the
one that is stored.  A source comes to meet a row only when another transaction
has committed it since `FilterKnown` looked.  `met` records these meetings, and
the counts are stated with it: `TermStatsAccount` and `LogAccounts` say that
nothing else is counted wrongly, `TermStatsExact` that there was no such meeting.

InnoDB is not under `src/`; what the model assumes of it: a transaction's writes
are invisible until it commits and vanish if it does not; an upsert locks the
row of its URL until the transaction ends, whether it inserts or meets a
duplicate; a cycle of waiting transactions is broken by rolling one of them
back; `df = df + n` is applied to the current row.  Gap locks are left out (they
add waits and deadlocks of the same kind).  `FilterKnown` takes the locks of its
UPDATE in one step: that this statement waits half-way and becomes a deadlock's
victim is a `Fail`.

Abstractions: a URL stands for its canonical form and hash; a text is the URL
and whether a body was extracted; nearness of simhashes is a symmetric relation
between texts, terms are a function of the text.  Both validators are one number, the
version of the page.  `next_run_at` is abstracted to "some set of sources is due";
the dry run and `--limit` are left out, because they write nothing or are not used
by the worker.  Of a two-day window that holds more than `RecentLimit` texts,
`recent_simhashes` returns that many (`RecentTexts`): the newest in the code, any
of them in the model, which has no times.

### Corpus

The committed tables without threads: `Absorb` adds rows of one outlet together
with their document frequencies, those of the stored articles of others that it met
again, and perhaps a new validator, in one step;
`Relabel` moves `news` rows to a section's category.  `Ingest` implements it with
`etag` mapped to the validators of `state` (`ImplementsCorpus`); threads, open
transactions, failures and crashes are stutters.

### Clustering

| Variable | In the code |
|---|---|
| `stored` | table `articles` |
| `member`, `stories` | tables `article_clusters` (with `article_terms`) and `story_clusters` |
| `lock` | whose connection holds the lock `GET_LOCK` gave |
| `job` | the locals of `cluster_pending`, and its open transaction: the snapshot it reads, the rows it wrote |
| `lost`, `faults` | whether a lock connection was lost; the bound on failures |

`TryLock` is `try_lock_clustering`; a clusterer that is locked out changes nothing
and has no action.  `OpenBatch` opens a session and reads the pending articles in
order.  `assign` takes two steps, because each can wait for another transaction:
`FoundStory` or `JoinStory` (candidates, best match, the story row) and
`AddMember` (the row of the article, whose primary key is what stops two
clusterers from placing it twice; `MemberExists` is the `IntegrityError`).
`CommitBatch` is the end of `session_scope`; `Finish` and the failures leave
through `Leave`, the `finally` that unlocks.  `LoseLock` closes the lock's
connection under a working clusterer; `Fail` is an exception or a crash.

A transaction reads its candidates from its snapshot and its own flushed rows,
but `SELECT ... FOR UPDATE` in `join_cluster` returns the row as last committed.
That difference is what keeps the counts right when the lock is lost, and it is
in the model.  A story is named by its founding article, since an article founds
at most one.  Only rows that were committed when a batch opened can be waited for
(`Locks`): a row it inserted is not among another's candidates.  Similarity is the constant `Score`, so the drift of IDF between two
assignments is not modelled; a score of 0 stands for sharing no query term.

### StoryBook

One step, `Group`: articles without a story get one, of their language, that some
article founds or has founded; the rows of all stories are recomputed from their
members.  `Clustering` implements it although it updates the rows incrementally,
in several processes.

### Worker

| Variable | In the code |
|---|---|
| `db`, `tables` | whether MySQL answers; whether `create_all` has made this version's tables |
| `stored`, `grade`, `grouped` | tables `articles`, `article_analysis` (the lexicon version used), `article_clusters` |
| `counted` | table `term_stats`: how often each article's terms are in it |
| `again` | history: how many upserts have met each article since the last recount |
| `mode`, `plan`, `work` | the worker process; what each process still has to go through; the locals and the open transaction of the phase it is in |
| `stop`, `clock` | the `_stop` event; ticks since the last beat, the last work and the last catch-up |
| `files` | the lexicon file: `good`, `invalid` (refused by `parse_lexicon`) or `unreadable` (not UTF-8) |
| `cut`, `bounds` | whether a seeding was cut off or a recount overlapped an ingest; the bounds |

A plan is the rest of a function's body, as a sequence of phases: `Startup` is
`run_forever` up to its loop, `CatchUp` is `catch_up`, `CommandPlan` a command of
`main.py`.  A phase is one transaction, or one per batch; an open transaction is
a state of its own, so the other process can move between its first read and its
commit.  An exception takes away as much of the plan as the `try` block around
it does (`AfterFailure`); in `create_all`, which no block surrounds, it ends the
process (`Dies`).  `Due` is `due_sources` with the decision to catch up;
`OpenRecount`/`CommitRecount` are `rebuild_term_stats`; `LoadLexicon`,
`OpenGrades`, `CommitGrades`, `FinishGrades` are `grade_stored`; `TakeLock`,
`GroupBatch`, `LeaveGroup` are `cluster_pending`.  `Launch` is the container's
restart policy.

A poll is the phase `ingest`: one look at what is stored (`Begun`), then any number
of transactions (`OpenIngest`, `CommitIngest`), each of which stores a new article
or meets one that somebody else has stored since the look; `FinishIngest` is the
drained pool.  An exception in a source ends its transaction, not the poll, since
`run_source` swallows it; the `ingest` of the command line then clusters if any of
its sources reported something new, whether or not another failed.

Time passes in `Sleep` and `Retry`, and in `Elapse`: a poll may take arbitrarily
long, because requests have timeouts, back-offs and a `Retry-After` of up to two
minutes, and nothing beats before the whole cycle is over.  So the container can
be unhealthy while the worker does its work and nothing fails, although
`src/README.md:714` gives only an unreachable database and failing cycles as
causes.  `HealthReturns` claims no more than that the container always becomes
healthy again.  The loops of `catch_up` beat with every batch; their time is left out.

`Regrades` is about the articles that had a grade when `analyse --all` began and were
in no other process's batch, nor still to be met by a poll under way.  It claims no more because the code does no more: a
batch that the worker read before an edit of the lexicon, and commits after
`analyse --all` has graded the same articles, puts the grade of the older lexicon
back, and since the worker grades only what is missing, it stays.

### Fetcher

`since` is `_last_request`, as seconds gone by, `robots` is `_robots`, `thread`
the locals of `get`; `unanswered` remembers which hosts once gave no robots.txt.
`LookUpRobots` and `ReceiveRobots` are `_allowed_by_robots`, which reads and
writes the cache under the lock but asks without it: two threads may both ask,
and the last answer stays.  `TakeTurn` is one round of `_wait_for_host`;
`Conclude`, `LoseResponse`, `ObeyRetryAfter` and `Retry` are the loop of `get`.

`src/README.md:671` promises "at most ~1 request/sec per host; never parallel
requests to one host", and the docstring of `_wait_for_host` that it serialises
requests.  The code does less.  What is spaced are the *turns*, that is, the time
stamps taken under the lock; a thread sends its request after it has left the
lock, so sends can bunch, and a response that takes longer than the delay is still
under way when the next request to the host starts.  The request for robots.txt takes
no turn, and two threads may send it at once.  A `Retry-After` is slept by the
thread that received it, while other threads go on asking that host.  No property
claims the promise, and none claims the spacing of turns, which is the guard of
`TakeTurn` itself.

### ArticlesApi, Bipad

`visible`, `open`, `nextId` and `grade` are the rows of `articles` and
`article_analysis` as transactions see them; ids are given at the insert and seen
at the commit, in any order.  `walk` is the client: `NextPage` is one request to
`list_articles` with the cursor of the last answer.  `steady` are the articles
the walk owes its client.

In `Bipad` the portal is external: incidents may be reported at any place of its
listing and verified at any time, none is taken away; it may give a `next` link
on its last page, and it may ignore offsets altogether (`stuck`).  `ReadPage`,
`EndCrawl` and `FailCrawl` are `_paginate` inside `fetch_incidents`.

### Analysis, Dating

`Analysis` grows an article word by word under one lexicon file, so that every
short article is a state, and the operators of `Criticality` and `Keywords` are
evaluated on it.  A word is a token with its stem and tag (`Tokens`: tokenising
and stemming are not modelled), a term a sequence of words or prefixes.  Scores
are in tenths.  `Stops` are the positions at which `count` stands: the least set
with the first one that is closed under its moves, which is the loop without a
recursion.  Where the code goes through a set of strings, whose order is not
fixed, the model has every choice (`TopMatches`, `Scores`).  The loop of
`extract_keywords` is a fold over the set of counted phrases which takes one that
comes last in the sort key (`LastOf`) off first; phrases of equal score and length,
which the code puts in the order of their characters, stand in one arbitrary order.

In `Dating` a date is what an outlet prints: a script (a Nepali month name, Nepali
digits, or anything else), the calendar the outlet meant, the day, whether its
numbers name that day alone, the minute, how the clock is printed, and the zone.
`ParseBs` and `ParseIso` give what the two parsers make of it, which is often less:

- behind a Nepali date a clock with spaces around its colon
  (`src/config/selectors/ratopati-bagmati.yaml:77-82`), or one printed before the
  date, is not seen, and midnight is stored; AM and PM are dropped (`BsMinute`);
- `dateutil` refuses a clock with spaces, reads 3/9 month first, takes today for the
  day when there is a clock alone, and drops the name of a zone it does not know;
- a Bikram Sambat date in ASCII digits is read as a Gregorian one, 57 years off, and
  a Gregorian date in Nepali digits as Bikram Sambat (`LooksBikramSambat`): the tests
  call them "genuinely ambiguous";
- two numbers behind a Nepali date that are no clock raise (`dating`).

None of these is marked: `published_estimated` stays false.  `ReadEntry`, `ReadCard`,
`FetchBody`/`SkipBody` and `Normalize` are the four steps by which `published_at` is
settled, and `from` remembers the text it was read from.  `DatesAreMeant` claims
what is left: a date that is not estimated is a time of the feed, to the minute,
or was read from a text of the outlet, on the day this names if it names one
beyond doubt (`Unmistakable`) and at its minute if the parser sees its clock
(`Legible`); an estimated one is the fetch time, and the page, if it was read, gave
nothing the parser understood.  Taken for granted: a pack names the format of the
dates its selector finds, and no year is beyond the conversion table.  Dates that
lack a year or a day but not all of the date are not among the inputs.

## Runs

| Run | Instance | Checks |
|---|---|---|
| `ingest` | main feed (two versions of its page) and its section, listing the same stories in opposite orders; two threads; one failure, crash or lost failure record at any point | `TypeOK`, `TermStatsAccount`, `LogAccounts`, `Isolation`, `EtagCovers`, `ArticlesKeep`, `ImplementsCorpus`, `EventuallyCovered` |
| `ingest_sequential` | main feed, section and a second outlet; one thread; bodies for one item; the lexicon broken; articles age out of the window | `NoTwinsStored`, `SectionWins`, `OpenCounts`, `TermStatsExact` |
| `ingest_twins` | two outlets with copies of one story on two threads | refutes `NoTwinsStored` |
| `ingest_section` | main feed and section on two threads | refutes `SectionWins` |
| `ingest_found_rows` | main feed and section on two threads, without failures | refutes `TermStatsExact` |
| `clustering` | the worker and a command line run with `--limit 1`; four articles that arrive in any order; one exception, crash or lost lock connection | `TypeOK`, `OneClusterer`, `LoneFounders`, `Coherent`, `ImplementsStoryBook`, `EventuallyInAStory` |
| `clustering_late` | the same without failures | refutes `FirstVersionFounds` |
| `worker` | the worker from its first start to SIGTERM beside one command (`db init`, `ingest` or `analyse --all`); the database up or down at first, perhaps with an article of an older version; one exception, crash, outage or edit of the lexicon at any point | `TypeOK`, `NeverOvercounted`, `SeededUnlessCut`, `BeatsFollowWork`, `Regrades`, `EventuallyGrouped`, `EventuallyGraded`, `HealthReturns`, `StopEnds` |
| `worker_seed` | the worker alone, with one exception, crash or outage | refutes `WarmStart` |
| `fetcher` | two threads, two hosts, sources with delays of one and two seconds, `Retry-After` of -1, 0 and 1, two attempts, three calls | `SleepsForItsHost`, `RobotsObeyed`, `GetEnds` |
| `reading` | a walk over four articles with pages of one and two, with and without `?grade=A`; a crawl of three incidents in pages of two, on a portal that answers or is stuck; every article of up to two words of title and four of body under six lexicon files; every mix of feed, listing and page dates, thirteen kinds of printed dates among them | `NoRowTwice`, `NothingSkipped`, `WalkEnds`; `CrawlComplete`, `RepeatsExplained`, `CrawlEnds`; `IndexLosesNothing`, `DampeningOnlyLowers`, `KeywordsOfTheText`; `DatesAreMeant` |
| `dating` | the dates of `reading` alone | refutes `DatesResolve` |

Why the bounds are enough.  In `Ingest` the interactions are between two store transactions,
or one and a filter; two sources that share two URLs in opposite orders give
every way two of them can wait, deadlock, meet a duplicate or relabel, and the
second page version gives a validator that changes under a run.  Three URLs give
one that is listed twice on a page, one that is shared and one that is a
near-duplicate.  One fault reaches every step at which a run can fail; a second
would only fail a run that starts from a state the first has already produced.
`MaxBodies` is 0 in `ingest`, because a body only changes the text, and 1 in
`ingest_sequential`, where texts matter.  In `ingest` `RecentLimit` is 2, one less
than the texts there can be, so the window is cut; in `ingest_sequential` it is 3,
which `NoTwinsStored` needs.
In `clustering` the batch is two articles, so there are several batches, one with
a single article and one with none; the similarities are not transitive, one
article is published before another that may be stored first, and one is in the
other language.  One lost connection lets two clusterers overlap, collide on an
article, wait for one story row and deadlock; all these actions fire.
`MaxCandidates` cuts nothing, which `LoneFounders` needs.
In `worker` the batch is one article and there are two, so a loop has a first
batch, a further one and an empty one.  `CatchUpEvery` is 1: the first cycle does
not catch up when it finds nothing to poll, the next one does.  `MaxAge` is 0, the
strictest limit: a heartbeat is stale after one tick, so what `HealthReturns` says
of it holds of a longer one too, and a beat without work is already seen when it is
the first.  The commands are those whose phases
differ: `cluster --rebuild-terms` recounts as `db init` seeds and then groups as
`ingest` does, `analyse --missing` grades as the worker does.  One
command beside the worker is every pair of processes the code has to survive
(the theorems are about any number of them, of all five kinds, one after the
other); one fault or edit (`MaxUpsets`) reaches each `try` block and each state of
the lexicon, and the theorems are about any number of both.
In `fetcher` two threads can race for the cache and for a turn at one host while
the other host shows that they do not wait for it; the third call meets a cache
that is filled.  Two attempts are one retry and one that is the last.
In `reading` four articles fill two pages of two, so that the last full page is
followed by an empty one, and leave room for one that becomes visible behind the
cursor; three incidents in pages of two make a page that is not full, and
`MaxPages` is one more than they need.  The six lexicon files are the ones that
`parse_lexicon` tells apart (dampeners absent, multiplying, capping, with a
multiplier above one; a prefix that is too short; thresholds that do not
descend), and in four words of body two terms of two words can overlap.

What the refutations show:

- `ingest_twins`: the near-duplicate check sees only what was committed when the
  transaction opened.  With the default `ingest_concurrency` of 4 two copies of an
  agency story that appear in the same cycle are both stored.
- `ingest_section`: relabelling happens before the main feed's commit, the
  section's own insert afterwards is a no-op, and the label stays `news`.  The
  section's next 304 does not look again.
- `ingest_found_rows`: an upsert that meets a row committed since the filter looked
  has rowcount 1 on the program's connection, and the code cannot tell it from an
  insert.  The main feed and its section list the same story in one cycle: its
  terms are counted twice, until a `cluster --rebuild-terms`.  `TermStatsAccount`
  says that this is the only error there is; with one thread there is none.
- `clustering_late`: oldest-first holds within what is pending.  An article stored
  later with an earlier date joins a story whose title is then not its first
  headline.
- `worker_seed`: `create_all` asks `has_table`, creates, and then seeds in a
  transaction of its own.  Whatever ends it in between, the next start finds the
  table and does not seed it.
- `dating`: what follows a Bikram Sambat date is taken for its clock.  `24:10`
  raises a `ValueError` that is no `DateParseError`; no caller expects it, and
  the run of the source fails with all its items, again at each poll until the
  item leaves the page.

## Fairness

In `Clustering`, `Fairness` is weak fairness of each clusterer: its statements
return, and the worker calls `catch_up` after every cycle and at least every 30
minutes.  The lock is tried, never waited for; that a clusterer always finds it
taken is harmless, because the one that holds it makes progress.

In `Ingest`, `Fairness` has two parts.  Weak fairness of `RunStep(s)`: the operating system
schedules the pool's threads, every request and every statement has a timeout or
ends, and InnoDB's deadlock detection ends lock cycles.  Strong fairness of "a
cycle in which `s` is due begins": `run_forever` loops, and `next_run_at` is at
most six hours away (`save_state`), so if cycles can begin again and again, `s` is
in one of them.  Nothing is assumed of `Fail`, `LoseFailure`, `Crash` or
`Publish`: failures are bounded by `MaxFaults`, so liveness is about what happens
once they stop.

In `Worker` there is weak fairness of what the worker does by itself (the loop
sleeps for a bounded time, statements return, the container is restarted), of the
command's steps, and of `Recover`: outages end.  Nothing is assumed of what an
outlet publishes, of which outcome a poll has, of edits, commands or SIGTERM;
`EventuallyGraded` says itself that the lexicon becomes usable.

In `Fetcher`, time passes and each thread runs.  A thread may run long after its
sleep is over, but `GetEnds` holds for any number of seconds it is late.

In `MCReading`, the client goes on asking for pages (`NextPage`) and the crawl
for its next page (`Crawl`); the worker and the portal owe nothing.

## Proofs

`IngestProofs` proves, for every set of sources, pages, texts and terms, every
concurrency and every bound:

- `TypeCorrect`: `Spec => []TypeOK`;
- `TransactionsIsolated`: `Spec => []Isolation`;
- `TermStatsAddUp`: `Spec => []TermStatsAccount`;
- `LogAddsUp`: `Spec => []LogAccounts`;
- `TransactionsCountExactly`: `Spec => []OpenCounts`.

Neither count is inductive.  `CommitStore` adds a number that was gathered over
many steps, so the invariant has to say what an open transaction has counted so
far (`OpenCounts`), and that what it is about to add is disjoint from what the
other transactions added in the meantime (`Isolation`: a row it wrote is locked
by it alone, not committed, and not among its remaining items; a row it met again
is committed and locked by it alone).  A meeting that is committed must be a new
one, or `met`, which is a set, would hide a second count: what a source still has
to do it has neither stored nor met (`Apart`), because `FilterKnown` drops what is
stored.  `CountsInv` is `OpenCounts` and `Apart` with the two accounts.  The
argument:

1. `QuietOrStore`: every step but an upsert and a commit is *quiet*: the corpus
   and the statistics stay, and each thread keeps its transaction or has none;
2. `QuietKeeps`, `QuietKeepsCounts`: quiet steps preserve everything;
3. `UpsertFacts`, `UpsertKeepsCounts`: an upsert adds one row, or one meeting, and
   its terms;
4. `CommitAdds`, `CommitKeepsCounts`: every recount and every number of meetings
   grows by the cardinality of a disjoint set (`MeetingsCounted`).

`CoverProofs` proves `ValidatorsCover`: `Spec => []EtagCovers`.  The
invariant `CoverInv` says what a run already answers for before it commits: the
validator it carries is that of the page it carries (`EtagOfPage`), every item of
that page is still to do, covered, written by the run or near something it wrote
or met (`PageHandled`), and every text it compares with is stored, was met, or is
its own (`RecentBacked`).  Rows and their texts stay (`NextKeepsTexts`, which needs
`Isolation`), so what is covered stays covered, and `CommitStore` turns "written by
the run" into "stored" in the step that stores the validator.  A row that is met is
remembered under the text it was found with, which may not be the one that is
stored; so an item is also covered when it is near such a text (`KnownTexts`).

`CorpusProofs` proves `IngestImplementsCorpus`:
`Spec => ImplementsCorpus`.  `Init` maps to `Init`; `CommitStore` is
`Absorb` (`CommitMaps`, from `Isolation`, `TermStatsAccount` and `EtagCovers` of the
next state), `FilterKnown` of a section is `Relabel` (`FilterMaps`), every other step
is a stutter (`OtherMaps`).  The invariant it adds, `PagesKnown`, says that only
published pages are read or remembered.  `RowsAreKept` (`Spec => ArticlesKeep`) needs
`Isolation` alone: what a commit writes was not there.

With one thread (`OneAtATime == Concurrency = 1`) `CorpusProofs` proves what
`ingest_twins`, `ingest_section` and `ingest_found_rows` refute for two:

- `OneThreadStoresNoTwins`:
  `OneAtATime => (Spec /\ []NothingIsCut => []NoTwinsStored)`, where `NothingIsCut`
  says that the two-day window holds no more texts than `RecentLimit`; beyond
  that number the code itself compares with only some of them;
- `OneThreadLetsSectionsWin`: `OneAtATime => (Spec => []SectionWins)`;
- `OneThreadKeepsCountsExact`: `OneAtATime => (Spec => []TermStatsExact)`.

The invariant `AloneInv` says of the one running thread that it has seen
every recent text (`SeesRecent`), has written none near another
(`NoTwinsWritten`), has only new items left (`NewItems`), so that nothing is ever
met (`met = {}`), and, in a section, that what it has passed no longer can be
`news` (`SectionSeen`).  It is proved twice, with and without `NothingIsCut`, which
only the first two of these need.

`ClusteringProofs` proves, for any number of clusterers, articles, batches and
failures, `OneClustererAtATime` (`Spec => []OneClusterer`) and
`ClusteringTypeCorrect` (`Spec => []TypeOK`).  The inductive invariant of the first
is `LockInv`: while no lock connection has been lost, whoever is past `GET_LOCK`
still holds the lock.  That of the second, `TypeInv`, has to add the shape of a
clusterer's transaction at each place of its run (`Shape`) and that every
membership points at a row (`RowsBehind`), since `join_cluster` updates a row it
reads anew.

`StoryBookProofs` builds on it:

- `ClusteringImplementsStoryBook`: `Spec => ImplementsStoryBook`.  `StoryInv` says
  that the row of each story is the summary of its members (`BookExact`), that two
  open transactions neither add the same article nor update the same committed row
  (`AddsOnce`, `LocksOnce`), and that the rows of an open transaction are the summaries of the members there
  will be after its commit, unless it can only be rolled back (`Transaction`, `Doomed`).  `CommitGroups`
  maps a commit to `Group`; every other step is a stutter.  It holds with lost locks,
  because the row that is joined is locked and read as committed.
- `StoriesAreCoherent`: `Spec => []Coherent`; `CoherentInv` says of a clusterer
  between its two steps that the story it joined holds an article alike
  (`JoinsAlike`).
- `OneStoryPerEvent`: `NothingIsCut => (Spec => []LoneFounders)`, where `NothingIsCut`
  says that no article ever has more candidates than `MAX_CANDIDATES`; beyond that
  number the code itself may miss the story.  `LoneInv` says that the one clusterer
  sees every membership there is (`SeesAll`), which needs `LockInv`.
- `StoriesOnlyGrow`: `Spec => [][KeepsStories]_vars`.  No article leaves or changes its
  story, and no row's count, span or list of sources shrinks: `Promise!Group` adds
  members only, and the rows before and after are both exact.

`WorkerProofs` proves, for any number of articles, batch, cadence, commands,
edits and faults:

- `NothingIsOvercounted`: `Spec => []NeverOvercounted`.  The count of one commit
  depends on rows that were read or inserted earlier, so `CountInv` says of every
  open transaction what it holds: rows of an open ingest have had their id
  (`IngestsOwn`), rows of an open recount are stored (`RecountsStored`).  Whether
  an article that is committed was stored is decided by the commit: if it was, by
  whatever process, the commit is a meeting and `again` grows with `counted`.
  Every other step ends a transaction, opens one of another kind or touches
  neither the tables nor these (`Going`, `Holding`, `Raising`, `Harmless`).
- `BeatsComeFromWork`: `Spec => []BeatsFollowWork`.  `BeatInv` adds where in the
  plan the worker may be without having worked since it last slept: before the
  database was reached, or at `due` (`WaitsFirst`, `WorkFresh`); at `beat` it is
  neither, whatever the exceptions on the way cut out of the plan
  (`ExceptionsKeep`).
- `WorkerTypeCorrect`: `Spec => []TypeOK`; `TypeInv` ties the version of the lexicon
  to the number of edits, without which a grade could outgrow its type.
- `SeedingIsComplete`: `Spec => []SeededUnlessCut`.  `SeedInv` says where a plan may
  hold a seeding (only behind `create`, `Placed`), that a seeding that is open or
  pending finds its tables (`SeedFollows`), and that an open recount holds every
  stored article unless something was cut (`RecountsAll`).
- `RegradingIsComplete`: `Spec => Regrades`.  `GradeInv` says of `analyse --all` that
  each article it is sure of has the new grade already, is in its batch, or comes
  after its cursor (`Ahead`), and that no other process takes it into a batch
  (`SureKept`), because it has a grade, nor meets it in a poll, because it was stored
  when the poll looked (`PollsLook`).  `BatchComesFirst` is the argument for the
  cursor: what a batch leaves out comes after it.
- `BatchesMoveOn`: a batch of grades raises the cursor, a batch of stories takes stored
  articles that had none; the part of `EventuallyGraded` and `EventuallyGrouped` that
  needs no fairness.  `BatchesAhead` says that what is in hand lies behind the cursor.

`FetcherProofs` proves, for any threads, hosts, delays, retries and calls,
`NoSleepForOthers` (`Spec => []SleepsForItsHost`) and `RobotsAreObeyed` (`Spec => []RobotsObeyed`).  The invariant `IInv` says what a
thread inside `get` knows (`Fine`), and that a host without rules in the cache is
one that gave none (`NoneMeansUnanswered`), which is what the race to fetch
robots.txt could break.  Time only makes turns earlier than a sleep assumed, and
another thread's turn only later; both keep `Fine`.
`AttemptsAreBounded` (`Spec => []AttemptsBounded`) and `CallsMoveOn`
(`Spec => [][\A t \in Threads : MovesOn(t)]_vars`) are what of `GetEnds` needs no
fairness: at most `max_retries` attempts, and a call only goes forward through the
phases of one attempt or, from its back-off, to the next.  What is left to fairness
is that a sleep ends and that a turn is won in the end.

`ReadingProofs` proves what `reading` checks, but for liveness:

- `NoRowIsReadTwice` (`ApiSpec => []NoRowTwice`) and `NoRowIsSkipped`
  (`ApiSpec => []NothingSkipped`), for any number of articles, any limit and filter.
  The inductive invariant has the cursor at or below whatever was given
  (`CursorBelow`), and whatever is still owed below the cursor (`StillAhead`).  The
  step that needs an argument is `NextPage`: a page is closed under newer rows of
  its candidates (`PageClosed`), it is within its limit (`PageWithinLimit`), and a
  page that is not full has all candidates (`ShortPageIsLast`).  What is promised
  is narrower than `src/API.md:260-261`, "you never re-read or skip a row": an
  article that is committed above the cursor during the walk is skipped.  `WalksDescend`: every
  page ends the walk or lowers the cursor, so a walk is finite.
- `CrawlOutputsWhatWasThere` (`PortalSpec => []CrawlComplete`) and
  `RepeatsComeFromReports` (`PortalSpec => []RepeatsExplained`), for any listing,
  page size and reports.  `CrawlInv`: what was there is output or listed behind the
  offset (`AheadOfCrawl`; `Inserted`: an insertion moves an incident back, never
  forward), and what lies behind the offset although it was read is at most as much
  as was reported since (`PushedByReports`, `ReportShifts`).
- `CrawlsAreCapped` (`PortalSpec => []CrawlCounts`): a crawl that goes on has read fewer
  than `MAX_PAGES` pages, each at its own offset, also when the portal ignores offsets
  and always links on.  `PagesAreCounted`: each page raises the number of pages, and
  `yielded` by its results, so the cap that `ReadPage` puts on `yielded` for TLC is never
  reached (`PageOfResults`: a page has at most `PAGE_SIZE` results).
- `DatesAreTheOutlets` (`DatingSpec => []DatesAreMeant`), for any entries, pages,
  packs and sizes of the offsets and the calendars' gap.  An unmistakable date that
  `ParseBs` or `ParseIso` makes sense of is on its day, and at its minute if the clock
  is legible (`BsIsTrue`, `IsoIsTrue`, joined in `ParsedIsTrue`); a clock that is lost
  or halved stays within the day (`MinutesOfADay`).  `DatingInv` says of every step
  that the date was read from one of the outlet's texts (`TextIsSourced`).
- `TheIndexLosesNothing` (`AnalysisSpec => []IndexLosesNothing`), for any lexicon
  file, article and key length: words that begin alike share their first letters
  (`PrefixSharesFirstLetters`), so the index files every match (`IndexFindsMatches`),
  and a word that no term claims is one the count stood at (`PassedOverIsClaimed`).
- `DampeningNeverRaises` (`AnalysisSpec => []DampeningOnlyLowers`): a lower score is
  graded no more severely (`LowerScoreMilder`), in whatever order its
  thresholds are, and the multiplier is at most one.  A total is a sum over a set of terms, and that it is a
  number at all needs a proof (`SumIsNat`).
- `KeywordsAreOfTheText` (`AnalysisSpec => []KeywordsOfTheText`), for any article,
  phrase length and `top_n`.  `ReadSoFar` is the invariant of the word loop: the open
  run and the closed phrases are unbroken in the text, and every noun read so far is
  in one of them.  `Chosen` is the invariant of the selection: a phrase that is
  passed over lies inside one that is kept, or the list is full.

Both of the last two are about folds over finite sets, whose theorems in the
community modules take an operator as a parameter.  The section "Folds" therefore
has its own: the fold exists as a function on the subsets (`FoldExists`, by induction
over the number of elements, in the set form `Small`), and what holds of the empty
set and is kept by one more element holds of every subset (`HoldsOfEverySet`).

The assumptions are those of the modules: of `Ingest` finitely many URLs, non-empty
histories of pages, `NoRow` is not a row, nearness is symmetric, and the types of
the constants; of `Clustering` that articles are finitely many, the types of the
constants, and that `None` is neither a clusterer nor a row; of `Worker` that the
bounds are numbers; of `Fetcher` that some delay is the longest and `max_retries` is
positive; of `Bipad` that `PAGE_SIZE` and `MAX_PAGES` are positive; of `ArticlesApi`
that limits are positive; of `Dating` that the constants are numbers, that a day has 24 hours of 60 minutes,
and (in `Texts`) that a Nepali month is in the Nepali calendar and a date in Nepali
digits names no zone; of `Analysis` that tokens
are words with stems, and that a lexicon file has the fields `parse_lexicon` reads.
Where a theorem needs more, it says so: `OneAtATime`, and the two conditions
`NothingIsCut`, of the limit of `recent_simhashes` and of `MAX_CANDIDATES`.  Runs
check the properties under each of these, and without `OneAtATime` other runs
refute them.

Only model-checked: the properties under fairness (`EventuallyCovered`,
`EventuallyInAStory`, `EventuallyGrouped`, `EventuallyGraded`, `HealthReturns`,
`StopEnds`, `GetEnds`, `WalkEnds`, `CrawlEnds`), which are out of the prover's reach.
Every other property of a passing run is stated by a theorem.

## Plan

Done: `Ingest` and `Corpus`; `Clustering` and `StoryBook`; `Worker` with grading,
seeding and recounting; `Fetcher`; `ArticlesApi` and `Bipad`; the grading,
keyword and date algorithms; the proofs above.

Left, in this order:

1. `dedupe.py` and `normalize.py`: `canonical_url`, and the signed simhash with
   its Hamming distance, which are constants of `Ingest` today.
2. `term_stats` by terms instead of articles in `Worker`: two spellings that the
   table's collation takes for one key make `rebuild_term_stats` replace a count
   where it should add (the hazard at `repositories.py:457`).

## Not modelled

- Parsing of feeds and pages (bodies, authors, images, cleaning of text),
  tokenising and stemming: string processing without state.  What their results
  can be is in `Ingest`, `Dating` and the constant `Tokens`.
- TF-IDF and cosine: floating-point arithmetic; `Score` is a constant.
- The other endpoints of the API, routing, parameters and serialisation: each is
  one read, and shows what the tables hold.
- Connection pool, column types and `ca_certs`: external or I/O.
- `sources.py`, `settings.py`: read once; their values are constants here.
- `scripts/*`: developer tools that write YAML once.
- Logging and the output of the command line; `--dry-run` and `--limit` where
  they write nothing or only shorten a loop.
