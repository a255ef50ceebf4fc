---------------------------- MODULE IngestProofs ----------------------------
(***************************************************************************)
(* Theorems about Ingest, for any sources, pages, articles, terms and any  *)
(* pool size.                                                              *)
(***************************************************************************)
EXTENDS Ingest, FiniteSetTheorems, TLAPS

(***************************************************************************)
(* Type correctness.                                                       *)
(***************************************************************************)

LEMMA AtType == \A pc \in Phases : At(pc) \in Runs
  BY DEF At, Runs, Counts

LEMMA RowInType == ASSUME NEW s \in Sources, NEW u \in Urls
                   PROVE  RowIn(s, u) \in Rows /\ TextIn(s, u) \in Texts
  BY DEF RowIn, TextIn, Rows, Texts, Kinds, Categories

LEMMA TextsStored == ASSUME TypeOK, NEW u \in Stored
                     PROVE  StoredText(u) \in Texts /\ articles[u] \in Rows
  BY NoRowAssumption DEF TypeOK, Stored, StoredText, Texts, Rows

LEMMA InitType == Init => TypeOK
  <1> SUFFICES ASSUME Init PROVE TypeOK
    OBVIOUS
  <1>1. At("idle") \in Runs
    BY AtType DEF Phases
  <1> QED
    BY <1>1 DEF Init, TypeOK

LEMMA PlusTermsType ==
  ASSUME TypeOK, NEW s \in Sources, NEW u \in Urls
  PROVE  PlusTerms(s, u) \in Counts
  BY DEF TypeOK, PlusTerms, Counts, Runs

LEMMA RelabelledType ==
  ASSUME TypeOK, NEW s \in Sources, NEW u \in Urls
  PROVE  /\ u \in Stored <=> Relabelled(s)[u] # NoRow
         /\ u \in Stored => /\ Relabelled(s)[u] \in Rows
                           /\ Relabelled(s)[u].kind = articles[u].kind
                           /\ Relabelled(s)[u].source = articles[u].source
  <1>1. CASE u \in Stored
    <2>1. articles[u] \in Rows /\ Category[s] \in Categories
      BY <1>1, TextsStored DEF Categories
    <2>2. [articles[u] EXCEPT !.category = Category[s]] \in Rows
      BY <2>1 DEF Rows
    <2> QED
      BY <1>1, <2>1, <2>2, NoRowAssumption DEF Relabelled, Rows
  <1>2. CASE u \notin Stored
    BY <1>2 DEF Relabelled, Stored
  <1> QED
    BY <1>1, <1>2

LEMMA UpdateType ==
  ASSUME TypeOK, NEW s \in Sources, NEW now \in Runs, Update(s, now)
  PROVE  run' \in [Sources -> Runs]
  BY DEF TypeOK, Update

LEMMA EntryType ==
  ASSUME NEW r \in Runs, NEW todo \in SUBSET Urls, NEW held \in SUBSET Urls,
         NEW wrote \in SUBSET Urls, NEW again \in SUBSET Urls, NEW recent \in SUBSET Texts,
         NEW grades \in SUBSET Urls, NEW terms \in Counts, NEW new \in Nat
  PROVE  [r EXCEPT !.todo = todo, !.held = held, !.wrote = wrote, !.again = again,
                   !.recent = recent, !.graded = grades, !.terms = terms, !.new = new] \in Runs
  BY DEF Runs

\* The bookkeeping of an upsert keeps the type.
LEMMA CountType ==
  ASSUME TypeOK, NEW s \in Sources, NEW u \in Urls, NEW wrote \in SUBSET Urls,
         NEW again \in SUBSET Urls, NEW analysed \in BOOLEAN,
         CountAsNew(s, u, wrote, again, analysed)
  PROVE  run' \in [Sources -> Runs]
  <1> DEFINE todo == run[s].todo \ {u}
             held == run[s].held \cup {u}
             recent == run[s].recent \cup {TextIn(s, u)}
             grades == run[s].graded \cup (IF analysed THEN {u} ELSE {})
             new == run[s].new + 1
  <1>1. run[s] \in Runs
    BY DEF TypeOK
  <1>2. PlusTerms(s, u) \in Counts /\ TextIn(s, u) \in Texts
    BY RowInType, PlusTermsType
  <1>3. /\ todo \in SUBSET Urls /\ held \in SUBSET Urls
        /\ grades \in SUBSET Urls /\ new \in Nat
    BY <1>1 DEF Runs
  <1>4. recent \in SUBSET Texts
    BY <1>1, <1>2 DEF Runs
  <1>5. Update(s, [run[s] EXCEPT !.todo = todo, !.held = held, !.wrote = wrote,
                    !.again = again, !.recent = recent, !.graded = grades, !.terms = PlusTerms(s, u),
                    !.new = new])
    BY DEF CountAsNew
  <1> HIDE DEF todo, held, recent, grades, new
  <1> QED
    BY <1>1, <1>2, <1>3, <1>4, <1>5, EntryType, UpdateType

\* save_state leaves a stored validator and a number of failures.
LEMMA SaveType ==
  ASSUME TypeOK, NEW s \in Sources, NEW etag \in Nat, SaveSuccess(s, etag)
  PROVE  state' \in [Sources -> [etag : Nat, failures : Nat]]
  BY DEF TypeOK, SaveSuccess

LEMMA NextType == TypeOK /\ [Next]_vars => TypeOK'
  <1> SUFFICES ASSUME TypeOK, [Next]_vars PROVE TypeOK'
    OBVIOUS
  <1> DEFINE Same == <<articles, graded, df, state, logged, met, version, aged, faults>>
  <1> USE DEF database, world
  <1>0. ASSUME NEW s \in Sources PROVE run[s] \in Runs
    BY DEF TypeOK
  <1>1. ASSUME NEW due \in SUBSET Sources, BeginCycle(due) PROVE TypeOK'
    <2>1. \A s \in Sources : At(IF s \in due THEN "queued" ELSE "idle") \in Runs
      BY AtType DEF Phases
    <2> QED
      BY <1>1, <2>1 DEF BeginCycle, TypeOK
  <1>2. ASSUME NEW s \in Sources, Start(s) PROVE TypeOK'
    <2>1. [At("fetching") EXCEPT !.validator = state[s].etag] \in Runs
      <3>1. At("fetching") \in Runs /\ state[s].etag \in Nat
        BY AtType DEF Phases, TypeOK
      <3> QED
        BY <3>1 DEF Runs
    <2>2. run' \in [Sources -> Runs]
      BY <1>2, <2>1, UpdateType DEF Start
    <2> QED
      BY <1>2, <2>2 DEF Start, TypeOK
  <1>3. ASSUME NEW s \in Sources, FetchUnchanged(s) PROVE TypeOK'
    <2>1. [run[s] EXCEPT !.pc = "unchanged"] \in Runs
      BY <1>0 DEF Runs, Phases
    <2>2. run' \in [Sources -> Runs]
      BY <1>3, <2>1, UpdateType DEF FetchUnchanged
    <2> QED
      BY <1>3, <2>2 DEF FetchUnchanged, TypeOK
  <1>4. ASSUME NEW s \in Sources, NEW sends \in BOOLEAN, FetchPage(s, sends)
        PROVE  TypeOK'
    <2>1. version[s] \in Nat /\ run[s] \in Runs
      BY DEF TypeOK
    <2>2. [run[s] EXCEPT !.pc = "filtering", !.page = version[s],
                         !.etag = IF sends THEN version[s] ELSE 0] \in Runs
      BY <2>1 DEF Runs, Phases
    <2>3. run' \in [Sources -> Runs]
      BY <1>4, <2>2, UpdateType DEF FetchPage
    <2> QED
      BY <1>4, <2>3 DEF FetchPage, TypeOK
  <1>5. ASSUME NEW s \in Sources, PersistUnchanged(s) PROVE TypeOK'
    <2>1. At("idle") \in Runs
      BY AtType DEF Phases
    <2>2. run' \in [Sources -> Runs]
      BY <1>5, <2>1, UpdateType DEF PersistUnchanged
    <2>3. state' \in [Sources -> [etag : Nat, failures : Nat]]
      BY <1>5, SaveType DEF PersistUnchanged
    <2> QED
      BY <1>5, <2>2, <2>3 DEF PersistUnchanged, TypeOK
  <1>6. ASSUME NEW s \in Sources, FilterKnown(s) PROVE TypeOK'
    <2>1. ASSUME NEW u \in Stored
          PROVE  [articles[u] EXCEPT !.category = Category[s]] \in Rows
      BY TextsStored DEF Rows, Categories
    <2>2. articles' \in [Urls -> Rows \cup {NoRow}]
      BY <1>6, <2>1 DEF FilterKnown, Relabelled, TypeOK
    <2>3. [run[s] EXCEPT !.pc = "preparing", !.todo = Fresh(s)] \in Runs
      <3>1. Fresh(s) \in SUBSET Urls
        BY DEF Fresh, Listed
      <3> QED
        BY <1>0, <3>1 DEF Runs, Phases
    <2>4. run' \in [Sources -> Runs]
      BY <1>6, <2>3, UpdateType DEF FilterKnown
    <2> QED
      BY <1>6, <2>2, <2>4 DEF FilterKnown, TypeOK
  <1>7. ASSUME NEW s \in Sources, NEW extracted \in SUBSET run[s].todo,
               NEW lexicon \in LexiconStates, NEW recent \in SUBSET Window,
               OpenStore(s, extracted, lexicon, recent)
        PROVE  TypeOK'
    <2>1. recent \in SUBSET Texts
      BY TextsStored DEF Window
    <2>2. extracted \in SUBSET Urls /\ lexicon \in BOOLEAN
      BY <1>0, BoundsAssumption DEF Runs
    <2>3. [run[s] EXCEPT !.pc = "storing", !.full = extracted, !.lexicon = lexicon,
                         !.recent = recent] \in Runs
      BY <1>0, <2>1, <2>2 DEF Runs, Phases
    <2>4. run' \in [Sources -> Runs]
      BY <1>7, <2>3, UpdateType DEF OpenStore
    <2> QED
      BY <1>7, <2>4 DEF OpenStore, TypeOK
  <1>8. ASSUME NEW s \in Sources, NEW u \in Urls, SkipNearDuplicate(s, u)
        PROVE  TypeOK'
    <2>1. run[s].todo \ {u} \in SUBSET Urls
      BY <1>0 DEF Runs
    <2>2. [run[s] EXCEPT !.todo = run[s].todo \ {u}] \in Runs
      BY <1>0, <2>1 DEF Runs
    <2>3. run' \in [Sources -> Runs]
      BY <1>8, <2>2, UpdateType DEF SkipNearDuplicate
    <2> QED
      BY <1>8, <2>3 DEF SkipNearDuplicate, TypeOK
  <1>9. ASSUME NEW s \in Sources, NEW u \in Urls, NEW analysed \in BOOLEAN,
               UpsertNew(s, u, analysed)
        PROVE  TypeOK'
    <2>1. run[s].wrote \cup {u} \in SUBSET Urls /\ run[s].again \in SUBSET Urls
      BY <1>0 DEF Runs
    <2>2. run' \in [Sources -> Runs]
      BY <1>9, <2>1, CountType DEF UpsertNew
    <2> QED
      BY <1>9, <2>2 DEF UpsertNew, TypeOK
  <1>10. ASSUME NEW s \in Sources, NEW u \in Urls, NEW analysed \in BOOLEAN,
                UpsertDuplicate(s, u, analysed)
         PROVE  TypeOK'
    <2>1. run[s].wrote \in SUBSET Urls /\ run[s].again \cup {u} \in SUBSET Urls
      BY <1>0 DEF Runs
    <2>2. run' \in [Sources -> Runs]
      BY <1>10, <2>1, CountType DEF UpsertDuplicate
    <2> QED
      BY <1>10, <2>2 DEF UpsertDuplicate, TypeOK
  <1>11. ASSUME NEW s \in Sources, CommitStore(s) PROVE TypeOK'
    <2>1. articles' \in [Urls -> Rows \cup {NoRow}]
      BY <1>11, RowInType DEF CommitStore, TypeOK
    <2>2. graded' \subseteq Urls
      BY <1>11, <1>0 DEF CommitStore, TypeOK, Runs
    <2>3. df' \in [Terms -> Nat]
      BY <1>11, <1>0 DEF CommitStore, TypeOK, Runs, Counts
    <2>4. state' \in [Sources -> [etag : Nat, failures : Nat]]
      BY <1>11, <1>0, SaveType DEF CommitStore, Runs
    <2>5. logged' \in [Sources -> Nat]
      BY <1>11, <1>0 DEF CommitStore, TypeOK, Runs
    <2>6. run' \in [Sources -> Runs]
      BY <1>11, AtType, UpdateType DEF CommitStore, Phases
    <2>7. met' \subseteq Sources \X Texts
      BY <1>11, <1>0, RowInType DEF CommitStore, TypeOK, Runs
    <2> QED
      BY <1>11, <2>1, <2>2, <2>3, <2>4, <2>5, <2>6, <2>7 DEF CommitStore, TypeOK
  <1>12. ASSUME NEW s \in Sources, \/ Fail(s) \/ DeadlockVictim(s)
                                   \/ RecordFailure(s) \/ LoseFailure(s)
         PROVE  TypeOK'
    <2>1. At("idle") \in Runs /\ At("failing") \in Runs
      BY AtType DEF Phases
    <2>2. run' \in [Sources -> Runs]
      BY <1>12, <2>1, UpdateType DEF Fail, DeadlockVictim, RecordFailure, LoseFailure
    <2>3. CASE RecordFailure(s)
      BY <2>2, <2>3 DEF RecordFailure, TypeOK
    <2>4. CASE Fail(s) \/ LoseFailure(s)
      BY <2>2, <2>4 DEF Fail, LoseFailure, TypeOK
    <2>5. CASE DeadlockVictim(s)
      BY <2>2, <2>5 DEF DeadlockVictim, TypeOK
    <2> QED
      BY <1>12, <2>3, <2>4, <2>5
  <1>13. ASSUME Crash PROVE TypeOK'
    <2>1. At("idle") \in Runs
      BY AtType DEF Phases
    <2> QED
      BY <1>13, <2>1 DEF Crash, TypeOK
  <1>14. ASSUME NEW s \in Sources, Publish(s) PROVE TypeOK'
    BY <1>14 DEF Publish, TypeOK
  <1>15. ASSUME NEW u \in Urls, Age(u) PROVE TypeOK'
    BY <1>15 DEF Age, TypeOK, Stored
  <1>16. CASE UNCHANGED vars
    BY <1>16 DEF vars, TypeOK
  <1> QED
    BY <1>1, <1>2, <1>3, <1>4, <1>5, <1>6, <1>7, <1>8, <1>9, <1>10, <1>11, <1>12,
       <1>13, <1>14, <1>15, <1>16 DEF Next, RunStep, StoreStep

\* Every reachable state is well typed.
THEOREM TypeCorrect == Spec => []TypeOK
  <1> QED
    BY InitType, NextType, PTL DEF Spec

(***************************************************************************)
(* Transactions are isolated.                                              *)
(***************************************************************************)

LEMMA UpdateOne ==
  ASSUME TypeOK, NEW s \in Sources, NEW now, Update(s, now)
  PROVE  /\ run'[s] = now
         /\ \A o \in Sources : o # s => run'[o] = run[o]
  BY DEF TypeOK, Update

LEMMA AtNothing ==
  \A pc : /\ At(pc).pc = pc /\ At(pc).held = {} /\ At(pc).wrote = {}
          /\ At(pc).again = {} /\ At(pc).todo = {} /\ At(pc).new = 0
          /\ At(pc).terms = [t \in Terms |-> 0]
  BY DEF At

\* Most steps are quiet: they leave the corpus and the statistics alone, and
\* each thread either keeps its open transaction or has none (any more).
Untouched ==
    /\ Stored' = Stored
    /\ \A u \in Stored : /\ StoredText(u)' = StoredText(u)
                         /\ articles'[u].source = articles[u].source
    /\ df' = df /\ logged' = logged /\ met' = met
QuietThread(s) ==
    \/ NothingOpen(s)'
    \/ /\ run'[s].held = run[s].held /\ run'[s].wrote = run[s].wrote
       /\ run'[s].again = run[s].again /\ run'[s].full = run[s].full
       /\ run'[s].terms = run[s].terms /\ run'[s].new = run[s].new
       /\ run'[s].todo \subseteq run[s].todo /\ run'[s].pc = "storing"
\* What a thread still has to handle only shrinks, or is not stored.
QuietTodo(s) == run'[s].todo \subseteq run[s].todo \cup (Urls \ Stored)
Quiet == Untouched /\ \A s \in Sources : QuietThread(s) /\ QuietTodo(s)

LEMMA SameCorpus ==
  ASSUME UNCHANGED <<articles, df, logged, met>>
  PROVE  Untouched
  BY DEF Untouched, Stored, StoredText

LEMMA InitIsolation == Init => Isolation
  BY AtNothing DEF Init, Isolation, NothingOpen

\* The steps of one thread outside a store transaction, and its rollbacks.
LEMMA ThreadQuiet ==
  ASSUME TypeOK, Isolation, NEW s \in Sources, NEW now, Update(s, now),
         \/ \E pc \in Phases : now = At(pc)
         \/ /\ run[s].pc # "storing"
            /\ now.held = run[s].held /\ now.wrote = run[s].wrote /\ now.again = run[s].again
            /\ now.terms = run[s].terms /\ now.new = run[s].new
            /\ now.todo \subseteq run[s].todo \cup (Urls \ Stored)
  PROVE  \A o \in Sources : QuietThread(o) /\ QuietTodo(o)
  <1>1. QuietThread(s) /\ QuietTodo(s)
    BY UpdateOne, AtNothing DEF NothingOpen, Isolation, QuietThread, QuietTodo
  <1>2. ASSUME NEW o \in Sources, o # s PROVE QuietThread(o) /\ QuietTodo(o)
    <2>1. run'[o] = run[o]
      BY <1>2, UpdateOne
    <2>2. CASE run[o].pc = "storing"
      BY <2>1, <2>2 DEF QuietThread, QuietTodo
    <2>3. CASE run[o].pc # "storing"
      BY <2>1, <2>3 DEF Isolation, NothingOpen, QuietThread, QuietTodo
    <2> QED
      BY <2>2, <2>3
  <1> QED
    BY <1>1, <1>2

\* What an upsert does to the threads.
UpsertedAs(s, u, wrote, again) ==
    /\ run'[s].pc = run[s].pc /\ run'[s].full = run[s].full
    /\ run'[s].held = run[s].held \cup {u}
    /\ run'[s].todo = run[s].todo \ {u}
    /\ run'[s].wrote = wrote /\ run'[s].again = again
    /\ \A o \in Sources : o # s => run'[o] = run[o]

LEMMA CountFacts ==
  ASSUME TypeOK, NEW s \in Sources, NEW u, NEW wrote, NEW again, NEW analysed,
         CountAsNew(s, u, wrote, again, analysed)
  PROVE  /\ UpsertedAs(s, u, wrote, again)
         /\ run'[s].terms = PlusTerms(s, u) /\ run'[s].new = run[s].new + 1
         /\ run'[s].recent = run[s].recent \cup {TextIn(s, u)}
         /\ run'[s].page = run[s].page /\ run'[s].etag = run[s].etag
  <1>1. run[s] \in Runs
    BY DEF TypeOK
  <1> DEFINE held == run[s].held \cup {u}
             todo == run[s].todo \ {u}
             recent == run[s].recent \cup {TextIn(s, u)}
             grades == run[s].graded \cup (IF analysed THEN {u} ELSE {})
             terms == PlusTerms(s, u)
             new == run[s].new + 1
             now == [run[s] EXCEPT !.todo = todo, !.held = held, !.wrote = wrote, !.again = again,
                        !.recent = recent, !.graded = grades, !.terms = terms, !.new = new]
  <1>2. Update(s, now)
    BY DEF CountAsNew
  <1> HIDE DEF held, todo, recent, grades, terms, new
  <1>3. /\ now.pc = run[s].pc /\ now.full = run[s].full /\ now.held = held
        /\ now.todo = todo /\ now.wrote = wrote /\ now.again = again /\ now.recent = recent
        /\ now.terms = terms /\ now.new = new
        /\ now.page = run[s].page /\ now.etag = run[s].etag
    BY <1>1 DEF Runs
  <1> HIDE DEF now
  <1>4. run'[s] = now /\ \A o \in Sources : o # s => run'[o] = run[o]
    BY <1>2, UpdateOne
  <1> QED
    BY <1>3, <1>4 DEF UpsertedAs, held, todo, recent, terms, new

Upsert == \E s \in Sources, u \in Urls, analysed \in BOOLEAN :
              UpsertNew(s, u, analysed) \/ UpsertDuplicate(s, u, analysed)
Commit == \E s \in Sources : CommitStore(s)

\* All other steps are quiet.
LEMMA QuietOrStore ==
  TypeOK /\ Isolation /\ [Next]_vars => Quiet \/ Upsert \/ Commit
  <1> SUFFICES ASSUME TypeOK, Isolation, [Next]_vars PROVE Quiet \/ Upsert \/ Commit
    OBVIOUS
  <1> USE DEF database, world
  <1>0. ASSUME NEW s \in Sources
        PROVE  /\ run[s] \in Runs
               /\ run[s].pc # "storing" => NothingOpen(s)
    BY DEF TypeOK, Isolation
  <1>1. ASSUME NEW due \in SUBSET Sources, BeginCycle(due) PROVE Quiet
    <2>1. \A s \in Sources : NothingOpen(s)' /\ run'[s].todo = {}
      BY <1>1, AtNothing DEF BeginCycle, NothingOpen
    <2> QED
      BY <1>1, <2>1, SameCorpus DEF BeginCycle, Quiet, QuietThread, QuietTodo
  <1>2. ASSUME NEW s \in Sources, Start(s) PROVE Quiet
    <2> DEFINE now == [At("fetching") EXCEPT !.validator = state[s].etag]
    <2>1. Update(s, now) /\ Untouched
      BY <1>2, SameCorpus DEF Start
    <2>2. /\ now.held = run[s].held /\ now.wrote = run[s].wrote /\ now.again = run[s].again
          /\ now.terms = run[s].terms /\ now.new = run[s].new
          /\ now.todo \subseteq run[s].todo \cup (Urls \ Stored)
      BY <1>0, <1>2 DEF Start, NothingOpen, At
    <2>3. run[s].pc # "storing"
      BY <1>2 DEF Start
    <2> HIDE DEF now
    <2> QED
      BY <2>1, <2>2, <2>3, ThreadQuiet DEF Quiet
  <1>3. ASSUME NEW s \in Sources, FetchUnchanged(s) PROVE Quiet
    <2> DEFINE now == [run[s] EXCEPT !.pc = "unchanged"]
    <2>1. Update(s, now) /\ Untouched /\ run[s].pc # "storing"
      BY <1>3, SameCorpus DEF FetchUnchanged
    <2>2. /\ now.held = run[s].held /\ now.wrote = run[s].wrote /\ now.again = run[s].again
          /\ now.terms = run[s].terms /\ now.new = run[s].new
          /\ now.todo \subseteq run[s].todo \cup (Urls \ Stored)
      BY <1>0 DEF Runs
    <2> HIDE DEF now
    <2> QED
      BY <2>1, <2>2, ThreadQuiet DEF Quiet
  <1>4. ASSUME NEW s \in Sources, NEW sends \in BOOLEAN, FetchPage(s, sends) PROVE Quiet
    <2> DEFINE now == [run[s] EXCEPT !.pc = "filtering", !.page = version[s],
                                  !.etag = IF sends THEN version[s] ELSE 0]
    <2>1. Update(s, now) /\ Untouched /\ run[s].pc # "storing"
      BY <1>4, SameCorpus DEF FetchPage
    <2>2. /\ now.held = run[s].held /\ now.wrote = run[s].wrote /\ now.again = run[s].again
          /\ now.terms = run[s].terms /\ now.new = run[s].new
          /\ now.todo \subseteq run[s].todo \cup (Urls \ Stored)
      BY <1>0 DEF Runs
    <2> HIDE DEF now
    <2> QED
      BY <2>1, <2>2, ThreadQuiet DEF Quiet
  <1>5. ASSUME NEW s \in Sources, FilterKnown(s) PROVE Quiet
    <2> DEFINE now == [run[s] EXCEPT !.pc = "preparing", !.todo = Fresh(s)]
    <2>1. Untouched
      <3>1. /\ df' = df /\ logged' = logged /\ met' = met /\ articles' = Relabelled(s)
            /\ articles \in [Urls -> Rows \cup {NoRow}]
        BY <1>5 DEF FilterKnown, TypeOK
      <3>2. ASSUME NEW u \in Urls
            PROVE  \/ articles'[u] = articles[u]
                   \/ /\ articles[u] # NoRow /\ articles'[u] # NoRow
                      /\ articles'[u].source = articles[u].source
                      /\ articles'[u].kind = articles[u].kind
        BY <3>1, RelabelledType DEF Relabelled, Stored, Rows
      <3> QED
        BY <3>1, <3>2 DEF Untouched, Stored, StoredText
    <2>2. Update(s, now) /\ run[s].pc # "storing"
      BY <1>5 DEF FilterKnown
    <2>3. /\ now.held = run[s].held /\ now.wrote = run[s].wrote /\ now.again = run[s].again
          /\ now.terms = run[s].terms /\ now.new = run[s].new
          /\ now.todo \subseteq run[s].todo \cup (Urls \ Stored)
      BY <1>0 DEF Runs, Fresh, Listed
    <2> HIDE DEF now
    <2> QED
      BY <2>1, <2>2, <2>3, ThreadQuiet DEF Quiet
  <1>6. ASSUME NEW s \in Sources, NEW extracted \in SUBSET run[s].todo,
               NEW lexicon \in LexiconStates, NEW recent \in SUBSET Window,
               OpenStore(s, extracted, lexicon, recent) PROVE Quiet
    <2> DEFINE now == [run[s] EXCEPT !.pc = "storing", !.full = extracted, !.lexicon = lexicon,
                                  !.recent = recent]
    <2>1. Update(s, now) /\ Untouched /\ run[s].pc # "storing"
      BY <1>6, SameCorpus DEF OpenStore
    <2>2. /\ now.held = run[s].held /\ now.wrote = run[s].wrote /\ now.again = run[s].again
          /\ now.terms = run[s].terms /\ now.new = run[s].new
          /\ now.todo \subseteq run[s].todo \cup (Urls \ Stored)
      BY <1>0 DEF Runs
    <2> HIDE DEF now
    <2> QED
      BY <2>1, <2>2, ThreadQuiet DEF Quiet
  <1>7. ASSUME NEW s \in Sources, \/ PersistUnchanged(s) \/ Fail(s) \/ DeadlockVictim(s)
                                  \/ RecordFailure(s) \/ LoseFailure(s)
        PROVE  Quiet
    <2>1. \E pc \in Phases : Update(s, At(pc))
      BY <1>7 DEF PersistUnchanged, Fail, DeadlockVictim, RecordFailure, LoseFailure, Phases
    <2>2. Untouched
      BY <1>7, SameCorpus
         DEF PersistUnchanged, Fail, DeadlockVictim, RecordFailure, LoseFailure
    <2> QED
      BY <2>1, <2>2, ThreadQuiet DEF Quiet
  <1>8. ASSUME Crash PROVE Quiet
    <2>1. \A s \in Sources : NothingOpen(s)' /\ run'[s].todo = {}
      BY <1>8, AtNothing DEF Crash, NothingOpen
    <2> QED
      BY <1>8, <2>1, SameCorpus DEF Crash, Quiet, QuietThread, QuietTodo
  <1>9. ASSUME \/ \E s \in Sources : Publish(s)
               \/ \E u \in Urls : Age(u)
               \/ UNCHANGED vars
        PROVE  Quiet
    <2>1. run' = run /\ Untouched
      BY <1>9, SameCorpus DEF Publish, Age, vars
    <2>2. ASSUME NEW s \in Sources PROVE QuietThread(s) /\ QuietTodo(s)
      <3>1. CASE run[s].pc = "storing"
        BY <2>1, <3>1 DEF QuietThread, QuietTodo
      <3>2. CASE run[s].pc # "storing"
        BY <2>1, <3>2 DEF QuietThread, QuietTodo, Isolation, NothingOpen
      <3> QED
        BY <3>1, <3>2
    <2> QED
      BY <2>1, <2>2 DEF Quiet
  <1>10. ASSUME NEW s \in Sources, NEW u \in Urls, SkipNearDuplicate(s, u)
         PROVE  Quiet
    <2> DEFINE now == [run[s] EXCEPT !.todo = run[s].todo \ {u}]
    <2>1. Update(s, now) /\ Untouched /\ run[s].pc = "storing"
      BY <1>10, SameCorpus DEF SkipNearDuplicate
    <2>2. /\ now.held = run[s].held /\ now.wrote = run[s].wrote /\ now.again = run[s].again
          /\ now.todo = run[s].todo \ {u} /\ now.pc = run[s].pc
          /\ now.again = run[s].again /\ now.full = run[s].full /\ now.terms = run[s].terms /\ now.new = run[s].new
      BY <1>0 DEF Runs
    <2>3. /\ run'[s] = now
          /\ \A o \in Sources : o # s => run'[o] = run[o]
      BY <2>1, UpdateOne
    <2> HIDE DEF now
    <2>4. QuietThread(s) /\ QuietTodo(s)
      BY <2>1, <2>2, <2>3 DEF QuietThread, QuietTodo
    <2>5. ASSUME NEW o \in Sources, o # s PROVE QuietThread(o) /\ QuietTodo(o)
      <3>1. CASE run[o].pc = "storing"
        BY <2>3, <2>5, <3>1 DEF QuietThread, QuietTodo
      <3>2. CASE run[o].pc # "storing"
        BY <2>3, <2>5, <3>2 DEF QuietThread, QuietTodo, Isolation, NothingOpen
      <3> QED
        BY <3>1, <3>2
    <2> QED
      BY <2>1, <2>4, <2>5 DEF Quiet
  <1> QED
    BY <1>1, <1>2, <1>3, <1>4, <1>5, <1>6, <1>7, <1>8, <1>9, <1>10
       DEF Next, RunStep, StoreStep, Upsert, Commit

\* What the two upserts have in common, and in what they differ.
Counted(s, u) == run'[s].terms = PlusTerms(s, u) /\ run'[s].new = run[s].new + 1

LEMMA UpsertFacts ==
  ASSUME TypeOK, NEW s \in Sources, NEW u \in Urls, NEW analysed \in BOOLEAN,
         UpsertNew(s, u, analysed) \/ UpsertDuplicate(s, u, analysed)
  PROVE  /\ UNCHANGED <<articles, df, logged, met>>
         /\ run[s].pc = "storing" /\ u \in run[s].todo
         /\ \A o \in Sources : o # s => u \notin run[o].held
         /\ Counted(s, u)
         /\ \/ u \notin Stored /\ UpsertedAs(s, u, run[s].wrote \cup {u}, run[s].again)
            \/ u \in Stored /\ UpsertedAs(s, u, run[s].wrote, run[s].again \cup {u})
  <1>1. /\ UNCHANGED <<articles, df, logged, met>>
        /\ run[s].pc = "storing" /\ u \in run[s].todo
        /\ \A o \in Sources : o # s => u \notin run[o].held
    BY DEF UpsertNew, UpsertDuplicate, NextItem, Blocked, Holds, database
  <1>2. CASE UpsertNew(s, u, analysed)
    BY <1>1, <1>2, CountFacts DEF UpsertNew, Counted
  <1>3. CASE UpsertDuplicate(s, u, analysed)
    BY <1>1, <1>3, CountFacts DEF UpsertDuplicate, Counted
  <1> QED
    BY <1>2, <1>3

LEMMA CommitFacts ==
  ASSUME TypeOK, NEW s \in Sources, CommitStore(s)
  PROVE  /\ Stored' = Stored \cup run[s].wrote
         /\ \A u \in Urls :
               articles'[u] = IF u \in run[s].wrote THEN RowIn(s, u) ELSE articles[u]
         /\ df' = [t \in Terms |-> df[t] + run[s].terms[t]]
         /\ logged' = [logged EXCEPT ![s] = logged[s] + run[s].new]
         /\ met' = met \cup {<<s, TextIn(s, u)>> : u \in run[s].again}
         /\ run'[s] = At("idle") /\ \A o \in Sources : o # s => run'[o] = run[o]
         /\ run[s].todo = {}
  <1>1. run[s] \in Runs
    BY DEF TypeOK
  <1>2. \A u \in Urls : articles'[u] = IF u \in run[s].wrote THEN RowIn(s, u) ELSE articles[u]
    BY DEF CommitStore
  <1>3. \A u \in run[s].wrote : u \in Urls /\ RowIn(s, u) # NoRow
    BY <1>1, RowInType, NoRowAssumption DEF Runs
  <1>4. Stored' = Stored \cup run[s].wrote
    BY <1>2, <1>3 DEF Stored
  <1>5. run'[s] = At("idle") /\ \A o \in Sources : o # s => run'[o] = run[o]
    BY UpdateOne DEF CommitStore
  <1> QED
    BY <1>2, <1>4, <1>5 DEF CommitStore

-----------------------------------------------------------------------------
(* Isolation is inductive.                                                 *)

LEMMA QuietKeeps == TypeOK /\ Isolation /\ Quiet => Isolation'
  <1> SUFFICES ASSUME TypeOK, Isolation, Quiet PROVE Isolation'
    OBVIOUS
  <1>1. ASSUME NEW s \in Sources
        PROVE  /\ run'[s].held \subseteq run[s].held
               /\ run'[s].wrote \cup run'[s].again \subseteq run'[s].held
               /\ (run'[s].wrote \cup run'[s].again) \cap run'[s].todo = {}
               /\ run'[s].wrote \cap Stored = {} /\ run'[s].again \subseteq Stored
               /\ run'[s].pc # "storing" => NothingOpen(s)'
    BY DEF Quiet, QuietThread, NothingOpen, Isolation
  <1>2. Stored' = Stored
    BY DEF Quiet, Untouched
  <1> QED
    BY <1>1, <1>2 DEF Isolation

LEMMA NextIsolation == TypeOK /\ Isolation /\ [Next]_vars => Isolation'
  <1> SUFFICES ASSUME TypeOK, Isolation, [Next]_vars PROVE Isolation'
    OBVIOUS
  <1>1. CASE Quiet
    BY <1>1, QuietKeeps
  <1>2. ASSUME NEW s \in Sources, NEW u \in Urls, NEW analysed \in BOOLEAN,
               UpsertNew(s, u, analysed) \/ UpsertDuplicate(s, u, analysed)
        PROVE  Isolation'
    <2>1. /\ run[s].pc = "storing" /\ u \in run[s].todo
          /\ \A o \in Sources : o # s => u \notin run[o].held
          /\ \/ u \notin Stored /\ UpsertedAs(s, u, run[s].wrote \cup {u}, run[s].again)
             \/ u \in Stored /\ UpsertedAs(s, u, run[s].wrote, run[s].again \cup {u})
      BY <1>2, UpsertFacts
    <2>2. Stored' = Stored
      BY <1>2, UpsertFacts DEF Stored
    <2> QED
      BY <2>1, <2>2 DEF Isolation, NothingOpen, UpsertedAs
  <1>3. ASSUME NEW s \in Sources, CommitStore(s) PROVE Isolation'
    <2>1. /\ Stored' = Stored \cup run[s].wrote
          /\ run'[s] = At("idle") /\ \A o \in Sources : o # s => run'[o] = run[o]
      BY <1>3, CommitFacts
    <2>2. NothingOpen(s)' /\ run'[s].todo = {}
      BY <2>1, AtNothing DEF NothingOpen
    <2>3. ASSUME NEW o \in Sources, o # s
          PROVE  run[o].wrote \cap Stored' = {} /\ run[o].again \subseteq Stored'
      BY <2>1, <2>3 DEF Isolation
    <2> QED
      BY <2>1, <2>2, <2>3 DEF Isolation, NothingOpen
  <1> QED
    BY <1>1, <1>2, <1>3, QuietOrStore DEF Upsert, Commit

\* run_source's transactions are isolated by InnoDB's row locks: what a thread
\* has written and counted is its own until CommitStore.
THEOREM TransactionsIsolated == Spec => []Isolation
  <1>1. Init => Isolation
    BY InitIsolation
  <1>2. TypeOK /\ Isolation /\ [Next]_vars => Isolation'
    BY NextIsolation
  <1> QED
    BY <1>1, <1>2, TypeCorrect, PTL DEF Spec

-----------------------------------------------------------------------------
(* term_stats and fetch_log.  The accounts add up because a source meets a *)
(* stored row at most once, and none of its own: what it has yet to handle *)
(* was not stored when it looked, and its own rows come from itself.       *)

Apart(s) ==
    \A u \in run[s].todo \cup run[s].again :
        /\ \A m \in met : m[1] = s => m[2][1] # u
        /\ u \in Stored => articles[u].source # s
CountsInv ==
    /\ OpenCounts /\ TermStatsAccount /\ LogAccounts /\ IsFiniteSet(met)
    /\ \A s \in Sources : Apart(s)

LEMMA FiniteStored ==
  ASSUME TypeOK
  PROVE  /\ \A t \in Terms : IsFiniteSet(WithTerm(t))
         /\ \A s \in Sources : /\ IsFiniteSet(From(s)) /\ IsFiniteSet(run[s].wrote)
                               /\ IsFiniteSet(run[s].again) /\ IsFiniteSet(Upserted(s))
         /\ \A s \in Sources, t \in Terms : IsFiniteSet(UpsertedWithTerm(s, t))
  <1>1. \A s \in Sources : run[s].wrote \subseteq Urls /\ run[s].again \subseteq Urls
    BY DEF TypeOK, Runs
  <1>2. \A s \in Sources : Upserted(s) \subseteq Urls
    BY <1>1 DEF Upserted
  <1>3. \A s \in Sources, t \in Terms : UpsertedWithTerm(s, t) \subseteq Urls
    BY <1>2 DEF UpsertedWithTerm
  <1> QED
    BY <1>1, <1>2, <1>3, FS_Subset, SourcesAssumption DEF WithTerm, From, Stored

LEMMA DisjointUnion ==
  ASSUME NEW S, NEW T, IsFiniteSet(S), IsFiniteSet(T), S \cap T = {}
  PROVE  Cardinality(S \cup T) = Cardinality(S) + Cardinality(T)
  <1>1. Cardinality(S \cup T) = Cardinality(S) + Cardinality(T) - Cardinality(S \cap T)
    BY FS_Union
  <1>2. Cardinality(S \cap T) = 0
    BY FS_EmptySet
  <1>3. Cardinality(S) \in Nat /\ Cardinality(T) \in Nat
    BY FS_CardinalityType
  <1> QED
    BY <1>1, <1>2, <1>3

\* What a source has met is counted URL by URL.
LEMMA MeetingsCounted ==
  ASSUME NEW s, NEW S, IsFiniteSet(S)
  PROVE  LET T == {<<s, TextIn(s, u)>> : u \in S}
         IN  IsFiniteSet(T) /\ Cardinality(T) = Cardinality(S)
  <1> DEFINE T == {<<s, TextIn(s, u)>> : u \in S}
             f == [u \in S |-> <<s, TextIn(s, u)>>]
  <1>1. f \in Surjection(S, T)
    BY DEF Surjection
  <1>2. f \in Injection(S, T)
    <2>1. \A u \in S : f[u][2][1] = u
      BY DEF TextIn
    <2>2. f \in [S -> T]
      OBVIOUS
    <2> HIDE DEF f, T
    <2> QED
      BY <2>1, <2>2 DEF Injection, IsInjective
  <1> HIDE DEF f, T
  <1>3. IsFiniteSet(T) /\ Cardinality(T) = Cardinality(S)
    BY <1>1, <1>2, FS_Surjection
  <1> QED
    BY <1>3 DEF T

LEMMA InitCounts == Init => CountsInv
  <1> SUFFICES ASSUME Init PROVE CountsInv
    OBVIOUS
  <1>1. Stored = {} /\ met = {}
    BY DEF Init, Stored
  <1>2. \A s \in Sources : /\ run[s].wrote = {} /\ run[s].again = {} /\ run[s].todo = {}
                           /\ run[s].new = 0 /\ run[s].terms = [t \in Terms |-> 0]
    BY AtNothing DEF Init
  <1>3. OpenCounts
    BY <1>2, FS_EmptySet DEF OpenCounts, UpsertedWithTerm, Upserted
  <1>4. TermStatsAccount
    BY <1>1, FS_EmptySet DEF Init, TermStatsAccount, WithTerm, MetWithTerm
  <1>5. LogAccounts
    BY <1>1, FS_EmptySet DEF Init, LogAccounts, From, MetBy
  <1> QED
    BY <1>1, <1>2, <1>3, <1>4, <1>5, FS_EmptySet DEF CountsInv, Apart

\* Tables that do not move keep their accounts.
LEMMA SameCounts ==
  ASSUME CountsInv, Untouched
  PROVE  TermStatsAccount' /\ LogAccounts' /\ IsFiniteSet(met)'
  <1>1. \A t \in Terms : WithTerm(t)' = WithTerm(t) /\ MetWithTerm(t)' = MetWithTerm(t)
    BY DEF Untouched, WithTerm, MetWithTerm
  <1>2. \A s \in Sources : From(s)' = From(s) /\ MetBy(s)' = MetBy(s)
    BY DEF Untouched, From, MetBy
  <1>3. TermStatsAccount'
    BY <1>1 DEF CountsInv, TermStatsAccount, Untouched
  <1>4. LogAccounts'
    BY <1>2 DEF CountsInv, LogAccounts, Untouched
  <1> QED
    BY <1>3, <1>4 DEF CountsInv, Untouched

LEMMA QuietKeepsCounts ==
  ASSUME CountsInv, Isolation, Quiet
  PROVE  CountsInv'
  <1>1. TermStatsAccount' /\ LogAccounts' /\ IsFiniteSet(met)'
    BY SameCounts DEF Quiet
  <1>2. ASSUME NEW s \in Sources, NothingOpen(s)'
        PROVE  /\ \A t \in Terms : run'[s].terms[t] = Cardinality(UpsertedWithTerm(s, t)')
               /\ run'[s].new = Cardinality(Upserted(s)')
    BY <1>2, FS_EmptySet DEF NothingOpen, UpsertedWithTerm, Upserted
  <1>3. ASSUME NEW s \in Sources, ~NothingOpen(s)'
        PROVE  /\ \A t \in Terms : run'[s].terms[t] = Cardinality(UpsertedWithTerm(s, t)')
               /\ run'[s].new = Cardinality(Upserted(s)')
    <2>1. /\ run'[s].wrote = run[s].wrote /\ run'[s].again = run[s].again
          /\ run'[s].full = run[s].full
          /\ run'[s].terms = run[s].terms /\ run'[s].new = run[s].new
      BY <1>3 DEF Quiet, QuietThread
    <2>2. Upserted(s)' = Upserted(s)
      BY <2>1 DEF Upserted
    <2>3. \A t \in Terms : UpsertedWithTerm(s, t)' = UpsertedWithTerm(s, t)
      BY <2>1, <2>2 DEF UpsertedWithTerm, TextIn
    <2> QED
      BY <2>1, <2>2, <2>3 DEF CountsInv, OpenCounts
  <1>4. OpenCounts'
    BY <1>2, <1>3 DEF OpenCounts
  <1>5. ASSUME NEW s \in Sources PROVE Apart(s)'
    <2> SUFFICES ASSUME NEW u \in run'[s].todo \cup run'[s].again
                 PROVE  /\ \A m \in met : m[1] = s => m[2][1] # u
                        /\ u \in Stored => articles'[u].source # s
      BY DEF Apart, Quiet, Untouched
    <2>1. u \in run[s].todo \cup run[s].again \/ u \notin Stored
      BY DEF Quiet, QuietThread, QuietTodo, NothingOpen
    <2> QED
      BY <2>1 DEF CountsInv, Apart, LogAccounts, Quiet, Untouched
  <1> QED
    BY <1>1, <1>4, <1>5 DEF CountsInv

\* An upsert counts the terms of the row it inserts or meets, and no other.
LEMMA UpsertKeepsCounts ==
  ASSUME TypeOK, Isolation, CountsInv,
         NEW s \in Sources, NEW u \in Urls, NEW analysed \in BOOLEAN,
         UpsertNew(s, u, analysed) \/ UpsertDuplicate(s, u, analysed)
  PROVE  CountsInv'
  <1>0. /\ UNCHANGED <<articles, df, logged, met>> /\ u \in run[s].todo /\ Counted(s, u)
        /\ run'[s].full = run[s].full /\ run'[s].todo = run[s].todo \ {u}
        /\ run'[s].again \subseteq run[s].again \cup {u}
        /\ \A o \in Sources : o # s => run'[o] = run[o]
        /\ Upserted(s)' = Upserted(s) \cup {u}
    BY UpsertFacts DEF UpsertedAs, Upserted
  <1>1. TermStatsAccount' /\ LogAccounts' /\ IsFiniteSet(met)'
    BY <1>0, SameCorpus, SameCounts
  <1>2. u \notin Upserted(s) /\ IsFiniteSet(Upserted(s))
        /\ \A t \in Terms : IsFiniteSet(UpsertedWithTerm(s, t))
    BY <1>0, FiniteStored DEF Isolation, Upserted
  <1>3. run'[s].new = Cardinality(Upserted(s)')
    <2>1. Cardinality(Upserted(s) \cup {u}) = Cardinality(Upserted(s)) + 1
      BY <1>2, FS_AddElement
    <2>2. run[s].new = Cardinality(Upserted(s))
      BY DEF CountsInv, OpenCounts
    <2>3. run'[s].new = run[s].new + 1
      BY <1>0 DEF Counted
    <2> QED
      BY <1>0, <2>1, <2>2, <2>3
  <1>4. ASSUME NEW t \in Terms PROVE run'[s].terms[t] = Cardinality(UpsertedWithTerm(s, t)')
    <2>1. run[s].terms[t] = Cardinality(UpsertedWithTerm(s, t)) /\ run[s].terms[t] \in Nat
      BY <1>2, FS_CardinalityType DEF CountsInv, OpenCounts
    <2>2. u \notin UpsertedWithTerm(s, t)
      BY <1>2 DEF UpsertedWithTerm
    <2>3. CASE t \in TermsOf[TextIn(s, u)]
      <3>1. UpsertedWithTerm(s, t)' = UpsertedWithTerm(s, t) \cup {u}
        BY <1>0, <2>3 DEF UpsertedWithTerm, TextIn
      <3>2. run'[s].terms[t] = run[s].terms[t] + 1
        BY <1>0, <2>3 DEF Counted, PlusTerms
      <3> QED
        BY <1>2, <2>1, <2>2, <3>1, <3>2, FS_AddElement
    <2>4. CASE t \notin TermsOf[TextIn(s, u)]
      <3>1. UpsertedWithTerm(s, t)' = UpsertedWithTerm(s, t)
        BY <1>0, <2>4 DEF UpsertedWithTerm, TextIn
      <3>2. run'[s].terms[t] = run[s].terms[t]
        BY <1>0, <2>1, <2>4 DEF Counted, PlusTerms
      <3> QED
        BY <2>1, <3>1, <3>2
    <2> QED
      BY <2>3, <2>4
  <1>5. ASSUME NEW o \in Sources, o # s
        PROVE  /\ \A t \in Terms : run'[o].terms[t] = Cardinality(UpsertedWithTerm(o, t)')
               /\ run'[o].new = Cardinality(Upserted(o)')
    <2>1. Upserted(o)' = Upserted(o)
      BY <1>0, <1>5 DEF Upserted
    <2>2. \A t \in Terms : UpsertedWithTerm(o, t)' = UpsertedWithTerm(o, t)
      BY <1>0, <1>5, <2>1 DEF UpsertedWithTerm, TextIn
    <2> QED
      BY <1>0, <1>5, <2>1, <2>2 DEF CountsInv, OpenCounts
  <1>6. OpenCounts'
    BY <1>3, <1>4, <1>5 DEF OpenCounts
  <1>7. ASSUME NEW o \in Sources PROVE Apart(o)'
    <2>1. run'[o].todo \cup run'[o].again \subseteq run[o].todo \cup run[o].again
      BY <1>0
    <2> QED
      BY <1>0, <2>1 DEF CountsInv, Apart, Stored
  <1> QED
    BY <1>1, <1>6, <1>7 DEF CountsInv

\* What a commit does to what is counted: the rows it adds are new, and so
\* are its meetings.
Meetings(s, S) == {<<s, TextIn(s, u)>> : u \in S}

LEMMA CommitAdds ==
  ASSUME TypeOK, Isolation, CountsInv, NEW s \in Sources, CommitStore(s)
  PROVE  /\ Stored' = Stored \cup run[s].wrote /\ run[s].wrote \cap Stored = {}
         /\ \A u \in run[s].wrote : articles'[u].source = s /\ StoredText(u)' = TextIn(s, u)
         /\ \A u \in Stored : /\ articles'[u].source = articles[u].source
                              /\ StoredText(u)' = StoredText(u)
         /\ met' = met \cup Meetings(s, run[s].again)
         /\ met \cap Meetings(s, run[s].again) = {}
         /\ run[s].wrote \cap run[s].again = {}
  <1>1. /\ Stored' = Stored \cup run[s].wrote
        /\ \A u \in Urls :
              articles'[u] = IF u \in run[s].wrote THEN RowIn(s, u) ELSE articles[u]
        /\ run[s].wrote \subseteq Urls /\ run[s].wrote \cap Stored = {}
        /\ met' = met \cup Meetings(s, run[s].again)
        /\ run[s].again \subseteq Stored
    BY CommitFacts DEF TypeOK, Runs, Isolation, Meetings
  <1>2. ASSUME NEW u \in run[s].wrote
        PROVE  articles'[u].source = s /\ StoredText(u)' = TextIn(s, u)
    <2> DEFINE k == IF u \in run[s].full THEN "full" ELSE "brief"
    <2>1. TextIn(s, u) = <<u, k>> /\ TextIn(s, u)[2] = k
      BY DEF TextIn
    <2>2. RowIn(s, u) = [source |-> s, kind |-> k, category |-> Category[s]]
      BY <2>1 DEF RowIn
    <2>3. articles'[u] = RowIn(s, u)
      BY <1>1, <1>2
    <2> HIDE DEF k
    <2>4. articles'[u].source = s /\ articles'[u].kind = k
      BY <2>2, <2>3
    <2> QED
      BY <2>1, <2>4 DEF StoredText
  <1>3. \A u \in Stored : /\ articles'[u].source = articles[u].source
                          /\ StoredText(u)' = StoredText(u)
    BY <1>1 DEF StoredText, Stored
  <1>4. met \cap Meetings(s, run[s].again) = {}
    BY DEF CountsInv, Apart, Meetings, TextIn
  <1> QED
    BY <1>1, <1>2, <1>3, <1>4

LEMMA CommitKeepsTermStats ==
  ASSUME TypeOK, Isolation, CountsInv, NEW s \in Sources, CommitStore(s)
  PROVE  TermStatsAccount'
  <1> SUFFICES ASSUME NEW t \in Terms
               PROVE  df'[t] = Cardinality(WithTerm(t)') + Cardinality(MetWithTerm(t)')
    BY DEF TermStatsAccount
  <1> DEFINE wrote == {u \in run[s].wrote : t \in TermsOf[TextIn(s, u)]}
             again == {u \in run[s].again : t \in TermsOf[TextIn(s, u)]}
             meetings == Meetings(s, again)
  <1>1. WithTerm(t)' = WithTerm(t) \cup wrote /\ WithTerm(t) \cap wrote = {}
    BY CommitAdds DEF WithTerm
  <1>2. MetWithTerm(t)' = MetWithTerm(t) \cup meetings /\ MetWithTerm(t) \cap meetings = {}
    BY CommitAdds DEF MetWithTerm, Meetings
  <1>3. UpsertedWithTerm(s, t) = wrote \cup again /\ wrote \cap again = {}
    BY CommitAdds DEF UpsertedWithTerm, Upserted
  <1>4. /\ IsFiniteSet(WithTerm(t)) /\ IsFiniteSet(MetWithTerm(t))
        /\ IsFiniteSet(wrote) /\ IsFiniteSet(again)
    BY FiniteStored, FS_Subset DEF CountsInv, MetWithTerm
  <1> HIDE DEF wrote, again
  <1>5. IsFiniteSet(meetings) /\ Cardinality(meetings) = Cardinality(again)
    BY <1>4, MeetingsCounted DEF Meetings
  <1> HIDE DEF meetings
  <1>6. /\ Cardinality(WithTerm(t)') = Cardinality(WithTerm(t)) + Cardinality(wrote)
        /\ Cardinality(MetWithTerm(t)') = Cardinality(MetWithTerm(t)) + Cardinality(again)
        /\ Cardinality(UpsertedWithTerm(s, t)) = Cardinality(wrote) + Cardinality(again)
    BY <1>1, <1>2, <1>3, <1>4, <1>5, DisjointUnion
  <1>7. df'[t] = df[t] + run[s].terms[t]
    BY CommitFacts
  <1>8. /\ Cardinality(WithTerm(t)) \in Nat /\ Cardinality(MetWithTerm(t)) \in Nat
        /\ Cardinality(wrote) \in Nat /\ Cardinality(again) \in Nat
    BY <1>4, FS_CardinalityType
  <1> QED
    BY <1>6, <1>7, <1>8 DEF CountsInv, TermStatsAccount, OpenCounts

LEMMA CommitKeepsLog ==
  ASSUME TypeOK, Isolation, CountsInv, NEW s \in Sources, CommitStore(s)
  PROVE  LogAccounts'
  <1>1. ASSUME NEW o \in Sources
        PROVE  logged'[o] = Cardinality(From(o)') + Cardinality(MetBy(o)')
    <2>1. CASE o = s
      <3> DEFINE meetings == Meetings(s, run[s].again)
      <3>1. From(o)' = From(s) \cup run[s].wrote /\ From(s) \cap run[s].wrote = {}
        BY <2>1, CommitAdds DEF From
      <3>2. MetBy(o)' = MetBy(s) \cup meetings /\ MetBy(s) \cap meetings = {}
        BY <2>1, CommitAdds DEF MetBy, Meetings
      <3>3. /\ IsFiniteSet(From(s)) /\ IsFiniteSet(MetBy(s))
            /\ IsFiniteSet(run[s].wrote) /\ IsFiniteSet(run[s].again)
        BY FiniteStored, FS_Subset DEF CountsInv, MetBy
      <3>4. IsFiniteSet(meetings) /\ Cardinality(meetings) = Cardinality(run[s].again)
        BY <3>3, MeetingsCounted DEF Meetings
      <3> HIDE DEF meetings
      <3>5. /\ Cardinality(From(o)') = Cardinality(From(s)) + Cardinality(run[s].wrote)
            /\ Cardinality(MetBy(o)') = Cardinality(MetBy(s)) + Cardinality(run[s].again)
            /\ Cardinality(Upserted(s)) = Cardinality(run[s].wrote) + Cardinality(run[s].again)
        BY <3>1, <3>2, <3>3, <3>4, CommitAdds, DisjointUnion DEF Upserted
      <3>6. logged'[o] = logged[s] + run[s].new
        BY <2>1, CommitFacts DEF TypeOK
      <3>7. /\ Cardinality(From(s)) \in Nat /\ Cardinality(MetBy(s)) \in Nat
            /\ Cardinality(run[s].wrote) \in Nat /\ Cardinality(run[s].again) \in Nat
        BY <3>3, FS_CardinalityType
      <3> QED
        BY <3>5, <3>6, <3>7 DEF CountsInv, LogAccounts, OpenCounts
    <2>2. CASE o # s
      <3>1. From(o)' = From(o) /\ MetBy(o)' = MetBy(o)
        BY <2>2, CommitAdds DEF From, MetBy, Meetings
      <3>2. logged'[o] = logged[o]
        BY <2>2, CommitFacts DEF TypeOK
      <3> QED
        BY <3>1, <3>2 DEF CountsInv, LogAccounts
    <2> QED
      BY <2>1, <2>2
  <1>2. ASSUME NEW m \in met' PROVE m[2][1] \in Stored' /\ articles'[m[2][1]].source # m[1]
    <2>1. CASE m \in met
      BY <2>1, CommitAdds DEF CountsInv, LogAccounts
    <2>2. CASE m \in Meetings(s, run[s].again)
      <3>1. PICK u \in run[s].again : m = <<s, TextIn(s, u)>>
        BY <2>2 DEF Meetings
      <3>2. u \in Stored /\ articles[u].source # s /\ m[1] = s /\ m[2][1] = u
        BY <3>1 DEF Isolation, CountsInv, Apart, TextIn
      <3> QED
        BY <3>2, CommitAdds
    <2> QED
      BY <2>1, <2>2, CommitAdds
  <1> QED
    BY <1>1, <1>2 DEF LogAccounts

\* A commit adds to every count what the transaction wrote and met.
LEMMA CommitKeepsCounts ==
  ASSUME TypeOK, Isolation, CountsInv, NEW s \in Sources, CommitStore(s)
  PROVE  CountsInv'
  <1>1. TermStatsAccount' /\ LogAccounts'
    BY CommitKeepsTermStats, CommitKeepsLog
  <1>2. IsFiniteSet(met)'
    <2> DEFINE meetings == Meetings(s, run[s].again)
    <2>1. IsFiniteSet(run[s].again)
      BY FiniteStored
    <2>2. IsFiniteSet(meetings)
      BY <2>1, MeetingsCounted DEF Meetings
    <2>3. met' = met \cup meetings
      BY CommitAdds
    <2> HIDE DEF meetings
    <2>4. IsFiniteSet(met \cup meetings)
      BY <2>2, FS_Union DEF CountsInv
    <2> QED
      BY <2>3, <2>4
  <1>3. run'[s] = At("idle") /\ \A o \in Sources : o # s => run'[o] = run[o]
    BY CommitFacts
  <1>4. ASSUME NEW o \in Sources
        PROVE  /\ \A t \in Terms : run'[o].terms[t] = Cardinality(UpsertedWithTerm(o, t)')
               /\ run'[o].new = Cardinality(Upserted(o)')
    <2>1. CASE o = s
      <3>1. /\ run'[o].wrote = {} /\ run'[o].again = {} /\ run'[o].new = 0
            /\ run'[o].terms = [t \in Terms |-> 0]
        BY <1>3, <2>1, AtNothing
      <3> QED
        BY <3>1, FS_EmptySet DEF UpsertedWithTerm, Upserted
    <2>2. CASE o # s
      <3>1. Upserted(o)' = Upserted(o)
        BY <1>3, <2>2 DEF Upserted
      <3>2. \A t \in Terms : UpsertedWithTerm(o, t)' = UpsertedWithTerm(o, t)
        BY <1>3, <2>2, <3>1 DEF UpsertedWithTerm, TextIn
      <3> QED
        BY <1>3, <2>2, <3>1, <3>2 DEF CountsInv, OpenCounts
    <2> QED
      BY <2>1, <2>2
  <1>5. ASSUME NEW o \in Sources PROVE Apart(o)'
    <2>1. CASE o = s
      BY <1>3, <2>1, AtNothing DEF Apart
    <2>2. CASE o # s
      <3> SUFFICES ASSUME NEW u \in run[o].todo \cup run[o].again
                   PROVE  /\ \A m \in met' : m[1] = o => m[2][1] # u
                          /\ u \in Stored' => articles'[u].source # o
        BY <1>3, <2>2 DEF Apart
      <3>1. \A m \in met' : m[1] = o => m \in met
        BY <2>2, CommitAdds DEF Meetings
      <3> QED
        BY <2>2, <3>1, CommitAdds DEF CountsInv, Apart
    <2> QED
      BY <2>1, <2>2
  <1> QED
    BY <1>1, <1>2, <1>4, <1>5 DEF CountsInv, OpenCounts

LEMMA CountsInvariant == Spec => []CountsInv
  <1>1. Init => CountsInv
    BY InitCounts
  <1>2. TypeOK /\ Isolation /\ CountsInv /\ [Next]_vars => CountsInv'
    BY QuietOrStore, QuietKeepsCounts, UpsertKeepsCounts, CommitKeepsCounts DEF Upsert, Commit
  <1> QED
    BY <1>1, <1>2, TypeCorrect, TransactionsIsolated, PTL DEF Spec

\* count_terms, called once per run with the terms of the articles whose upsert
\* had rowcount 1, keeps term_stats a recount of the corpus plus one for each
\* stored row another source met again; no run is lost and none counted twice.
THEOREM TermStatsAddUp == Spec => []TermStatsAccount
  <1>1. CountsInv => TermStatsAccount
    BY DEF CountsInv
  <1> QED
    BY <1>1, CountsInvariant, PTL

\* fetch_log's items_new add up to the articles of each source and those of
\* others it met again, however the store transactions interleave, fail or are
\* rolled back; a source never meets its own articles again.
THEOREM LogAddsUp == Spec => []LogAccounts
  <1>1. CountsInv => LogAccounts
    BY DEF CountsInv
  <1> QED
    BY <1>1, CountsInvariant, PTL

\* What the loop of run_source has gathered in stored_terms and report.new is
\* what its transaction has inserted or met, in every state of every run.
THEOREM TransactionsCountExactly == Spec => []OpenCounts
  <1>1. CountsInv => OpenCounts
    BY DEF CountsInv
  <1> QED
    BY <1>1, CountsInvariant, PTL
=============================================================================
