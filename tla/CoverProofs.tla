---------------------------- MODULE CoverProofs ----------------------------
(***************************************************************************)
(* Why a 304 may be believed, for any sources, pages, articles, pool size  *)
(* and failures: the validator that is stored for a source is that of a    *)
(* page of which every item was stored or dropped as a near-duplicate of   *)
(* one that is stored.                                                     *)
(***************************************************************************)
EXTENDS IngestProofs

\* An item the open transaction of s takes to be a near-duplicate of one of
\* the rows it has written or met.
TwinUpserted(s, u) ==
    \E kind \in Kinds, w \in Upserted(s) : <<<<u, kind>>, TextIn(s, w)>> \in Near
Done(s, u) == Covered(u) \/ u \in run[s].wrote \/ TwinUpserted(s, u)

\* The validator a response carried is that of the page it carried.
EtagOfPage(s) ==
    run[s].pc \in {"filtering", "preparing", "storing"} => run[s].etag \in {0, run[s].page}

\* What a run has behind it is handled, if its transaction commits.
PageHandled(s) ==
    run[s].pc \in {"preparing", "storing"} =>
        \A u \in Listed(s, run[s].page) : u \in run[s].todo \/ Done(s, u)

\* Every text an item is compared with is known, or that of a row written or
\* met in the transaction.
RecentBacked(s) ==
    run[s].pc = "storing" =>
        \A y \in run[s].recent : y \in KnownTexts \/ \E w \in Upserted(s) : y = TextIn(s, w)

Thread(s) == EtagOfPage(s) /\ PageHandled(s) /\ RecentBacked(s)
CoverInv == EtagCovers /\ \A s \in Sources : Thread(s)

-----------------------------------------------------------------------------
(* Rows and their texts stay, so what is covered stays covered.            *)

TextsKeep ==
    /\ Stored \subseteq Stored' /\ met \subseteq met'
    /\ \A w \in Stored : StoredText(w)' = StoredText(w)

LEMMA KnownKeeps ==
  ASSUME TextsKeep
  PROVE  KnownTexts \subseteq KnownTexts'
  BY DEF TextsKeep, KnownTexts

LEMMA CoveredKeeps ==
  ASSUME TextsKeep, NEW u, Covered(u)
  PROVE  Covered(u)'
  BY KnownKeeps DEF TextsKeep, Covered

LEMMA NextKeepsTexts == TypeOK /\ Isolation /\ [Next]_vars => TextsKeep
  <1> SUFFICES ASSUME TypeOK, Isolation, [Next]_vars PROVE TextsKeep
    OBVIOUS
  <1>1. CASE Quiet
    BY <1>1 DEF Quiet, Untouched, TextsKeep
  <1>2. CASE Upsert
    <2>1. articles' = articles /\ met' = met
      BY <1>2, UpsertFacts DEF Upsert
    <2> QED
      BY <2>1 DEF TextsKeep, Stored, StoredText
  <1>3. ASSUME NEW s \in Sources, CommitStore(s) PROVE TextsKeep
    <2>1. /\ Stored' = Stored \cup run[s].wrote
          /\ \A u \in Urls : articles'[u] = IF u \in run[s].wrote THEN RowIn(s, u) ELSE articles[u]
          /\ met \subseteq met'
      BY <1>3, CommitFacts
    <2>2. \A w \in Stored : w \in Urls /\ w \notin run[s].wrote
      BY DEF Isolation, Stored
    <2> QED
      BY <2>1, <2>2 DEF TextsKeep, StoredText
  <1> QED
    BY <1>1, <1>2, <1>3, QuietOrStore DEF Commit

\* A thread that does not move keeps what it knows.
LEMMA StandingThread ==
  ASSUME TextsKeep, NEW o \in Sources, Thread(o), run'[o] = run[o]
  PROVE  Thread(o)'
  <1>1. EtagOfPage(o)'
    BY DEF Thread, EtagOfPage
  <1>2. \A u : Done(o, u) => Done(o, u)'
    BY CoveredKeeps DEF Done, TwinUpserted, Upserted, TextIn
  <1>3. PageHandled(o)'
    BY <1>2 DEF Thread, PageHandled, Listed
  <1>4. RecentBacked(o)'
    BY KnownKeeps DEF Thread, RecentBacked, Upserted, TextIn
  <1> QED
    BY <1>1, <1>3, <1>4 DEF Thread

\* A thread outside the three phases has nothing to answer for.
LEMMA RestingThread ==
  ASSUME NEW s \in Sources, run'[s].pc \notin {"filtering", "preparing", "storing"}
  PROVE  Thread(s)'
  BY DEF Thread, EtagOfPage, PageHandled, RecentBacked

LEMMA EtagsKept ==
  ASSUME TypeOK, TextsKeep, EtagCovers, \A s \in Sources : state'[s].etag = state[s].etag
  PROVE  EtagCovers'
  BY CoveredKeeps DEF EtagCovers, Listed

\* A step of one thread that stores no validator.
LEMMA OneMoves ==
  ASSUME TypeOK, TextsKeep, CoverInv, NEW s \in Sources, NEW now, Update(s, now),
         Thread(s)', \A o \in Sources : state'[o].etag = state[o].etag
  PROVE  CoverInv'
  <1>1. ASSUME NEW o \in Sources, o # s PROVE Thread(o)'
    BY <1>1, UpdateOne, StandingThread DEF CoverInv
  <1> QED
    BY <1>1, EtagsKept DEF CoverInv

-----------------------------------------------------------------------------
LEMMA InitCover == Init => CoverInv
  <1> SUFFICES ASSUME Init PROVE CoverInv
    OBVIOUS
  <1>1. \A s \in Sources : run[s].pc = "idle" /\ state[s].etag = 0
    BY AtNothing DEF Init
  <1> QED
    BY <1>1 DEF CoverInv, EtagCovers, Thread, EtagOfPage, PageHandled, RecentBacked

\* BeginCycle, Start and FetchUnchanged, 304s and failures.
LEMMA RestCover ==
  ASSUME TypeOK, TextsKeep, CoverInv, NEW s \in Sources,
         \/ Start(s) \/ FetchUnchanged(s) \/ PersistUnchanged(s) \/ Fail(s)
         \/ DeadlockVictim(s) \/ RecordFailure(s) \/ LoseFailure(s)
  PROVE  CoverInv'
  <1>1. \A o \in Sources : state'[o].etag = state[o].etag
    <2>1. CASE PersistUnchanged(s)
      BY <2>1 DEF PersistUnchanged, SaveSuccess, TypeOK
    <2>2. CASE RecordFailure(s)
      BY <2>2 DEF RecordFailure, TypeOK
    <2> QED
      BY <2>1, <2>2 DEF Start, FetchUnchanged, Fail, DeadlockVictim, LoseFailure, database
  <1>2. PICK now : Update(s, now) /\ now.pc \notin {"filtering", "preparing", "storing"}
    <2>0. run[s] \in Runs
      BY DEF TypeOK
    <2>1. CASE Start(s)
      <3>1. [At("fetching") EXCEPT !.validator = state[s].etag].pc = "fetching"
        BY DEF At
      <3> QED
        BY <2>1, <3>1 DEF Start
    <2>2. CASE FetchUnchanged(s)
      <3>1. [run[s] EXCEPT !.pc = "unchanged"].pc = "unchanged"
        BY <2>0 DEF Runs
      <3> QED
        BY <2>2, <3>1 DEF FetchUnchanged
    <2>3. CASE PersistUnchanged(s) \/ RecordFailure(s) \/ LoseFailure(s)
      BY <2>3, AtNothing DEF PersistUnchanged, RecordFailure, LoseFailure
    <2>4. CASE Fail(s) \/ DeadlockVictim(s)
      BY <2>4, AtNothing DEF Fail, DeadlockVictim
    <2> QED
      BY <2>1, <2>2, <2>3, <2>4
  <1>3. Thread(s)'
    BY <1>2, UpdateOne, RestingThread
  <1> QED
    BY <1>1, <1>2, <1>3, OneMoves

LEMMA FetchCover ==
  ASSUME TypeOK, TextsKeep, CoverInv, NEW s \in Sources, NEW sends \in BOOLEAN,
         FetchPage(s, sends)
  PROVE  CoverInv'
  <1> DEFINE etag == IF sends THEN version[s] ELSE 0
             now == [run[s] EXCEPT !.pc = "filtering", !.page = version[s], !.etag = etag]
  <1>1. Update(s, now) /\ UNCHANGED state
    BY DEF FetchPage, database
  <1>2. now.pc = "filtering" /\ now.page = version[s] /\ now.etag = etag
    BY DEF TypeOK, Runs
  <1> HIDE DEF now
  <1>3. run'[s] = now
    BY <1>1, UpdateOne
  <1>4. Thread(s)'
    BY <1>2, <1>3 DEF Thread, EtagOfPage, PageHandled, RecentBacked
  <1> QED
    BY <1>1, <1>4, OneMoves

LEMMA FilterCover ==
  ASSUME TypeOK, TextsKeep, CoverInv, NEW s \in Sources, FilterKnown(s)
  PROVE  CoverInv'
  <1> DEFINE todo == Fresh(s)
             now == [run[s] EXCEPT !.pc = "preparing", !.todo = todo]
  <1>1. Update(s, now) /\ UNCHANGED state
    BY DEF FilterKnown
  <1>2. /\ now.pc = "preparing" /\ now.page = run[s].page /\ now.etag = run[s].etag
        /\ now.todo = todo
    BY DEF TypeOK, Runs
  <1> HIDE DEF now, todo
  <1>3. run'[s] = now
    BY <1>1, UpdateOne
  <1>4. EtagOfPage(s)' /\ RecentBacked(s)'
    BY <1>2, <1>3 DEF FilterKnown, CoverInv, Thread, EtagOfPage, RecentBacked
  <1>5. ASSUME NEW u \in Listed(s, run[s].page), u \notin todo PROVE Done(s, u)'
    <2>1. u \in Stored
      BY <1>5 DEF Fresh, todo
    <2> QED
      BY <2>1 DEF TextsKeep, Done, Covered
  <1>6. PageHandled(s)'
    BY <1>2, <1>3, <1>5 DEF PageHandled, Listed
  <1>7. Thread(s)'
    BY <1>4, <1>6 DEF Thread
  <1> QED
    BY <1>1, <1>7, OneMoves

-----------------------------------------------------------------------------
(* The store transaction.                                                  *)

LEMMA OpenCover ==
  ASSUME TypeOK, Isolation, TextsKeep, CoverInv, NEW s \in Sources,
         NEW extracted, NEW lexicon, NEW texts, OpenStore(s, extracted, lexicon, texts)
  PROVE  CoverInv'
  <1> DEFINE now == [run[s] EXCEPT !.pc = "storing", !.full = extracted, !.lexicon = lexicon,
                                   !.recent = texts]
  <1>1. Update(s, now) /\ UNCHANGED <<state, articles>> /\ run[s].pc = "preparing"
    BY DEF OpenStore, database
  <1>2. /\ now.pc = "storing" /\ now.page = run[s].page /\ now.etag = run[s].etag
        /\ now.todo = run[s].todo /\ now.recent = texts
    BY DEF TypeOK, Runs
  <1> HIDE DEF now
  <1>3. run'[s] = now
    BY <1>1, UpdateOne
  <1>4. EtagOfPage(s)'
    BY <1>1, <1>2, <1>3 DEF CoverInv, Thread, EtagOfPage
  <1>5. ASSUME NEW u \in Listed(s, run[s].page), u \notin run[s].todo PROVE Done(s, u)'
    <2>1. run[s].wrote = {} /\ Upserted(s) = {}
      BY <1>1 DEF Isolation, NothingOpen, Upserted
    <2>2. Covered(u)
      BY <1>1, <1>5, <2>1 DEF CoverInv, Thread, PageHandled, Done, TwinUpserted
    <2> QED
      BY <2>2, CoveredKeeps DEF Done
  <1>6. PageHandled(s)'
    BY <1>2, <1>3, <1>5 DEF PageHandled, Listed
  <1>7. RecentBacked(s)'
    <2>1. texts \subseteq KnownTexts
      BY DEF OpenStore, RecentTexts, Window, KnownTexts
    <2> QED
      BY <1>2, <1>3, <2>1, KnownKeeps DEF RecentBacked
  <1>8. Thread(s)'
    BY <1>4, <1>6, <1>7 DEF Thread
  <1> QED
    BY <1>1, <1>8, OneMoves

\* One round of the loop over the items: u leaves todo, the rest of the
\* transaction grows.
LEMMA RoundCover ==
  ASSUME TypeOK, TextsKeep, CoverInv, NEW s \in Sources, NEW u \in Urls, NEW now, Update(s, now),
         run[s].pc = "storing", UNCHANGED <<articles, state>>,
         run'[s].pc = "storing", run'[s].page = run[s].page, run'[s].etag = run[s].etag,
         run'[s].full = run[s].full, run'[s].todo = run[s].todo \ {u},
         run[s].wrote \subseteq run'[s].wrote, run[s].again \subseteq run'[s].again,
         \A y \in run'[s].recent : \/ y \in run[s].recent
                                   \/ \E w \in Upserted(s)' : y = TextIn(s, w),
         Covered(u) \/ u \in run'[s].wrote \/ TwinUpserted(s, u)
  PROVE  CoverInv'
  <1>1. EtagOfPage(s)'
    BY DEF CoverInv, Thread, EtagOfPage
  <1>2. ASSUME NEW w PROVE TextIn(s, w)' = TextIn(s, w)
    BY DEF TextIn
  <1>3. Upserted(s) \subseteq Upserted(s)'
    BY DEF Upserted
  <1>4. ASSUME NEW w, Done(s, w) \/ w = u PROVE Done(s, w)'
    <2>1. TwinUpserted(s, w) => TwinUpserted(s, w)'
      BY <1>2, <1>3 DEF TwinUpserted
    <2>2. Covered(w) => Covered(w)'
      BY CoveredKeeps
    <2> QED
      BY <1>4, <2>1, <2>2 DEF Done
  <1>5. PageHandled(s)'
    BY <1>4 DEF CoverInv, Thread, PageHandled, Listed
  <1>6. RecentBacked(s)'
    BY <1>2, <1>3, KnownKeeps DEF CoverInv, Thread, RecentBacked
  <1>7. Thread(s)'
    BY <1>1, <1>5, <1>6 DEF Thread
  <1> QED
    BY <1>7, OneMoves

LEMMA SkipCover ==
  ASSUME TypeOK, TextsKeep, CoverInv, NEW s \in Sources, NEW u \in Urls, SkipNearDuplicate(s, u)
  PROVE  CoverInv'
  <1> DEFINE todo == run[s].todo \ {u}
             now == [run[s] EXCEPT !.todo = todo]
  <1>1. Update(s, now) /\ UNCHANGED <<articles, state>> /\ run[s].pc = "storing"
    BY DEF SkipNearDuplicate, database
  <1>2. /\ now.pc = run[s].pc /\ now.page = run[s].page /\ now.etag = run[s].etag
        /\ now.full = run[s].full /\ now.todo = todo /\ now.wrote = run[s].wrote
        /\ now.again = run[s].again /\ now.recent = run[s].recent
    BY DEF TypeOK, Runs
  <1> HIDE DEF now
  <1>3. PICK y \in run[s].recent : <<TextIn(s, u), y>> \in Near
    BY DEF SkipNearDuplicate, IsNearDuplicate
  <1>4. TextIn(s, u) = <<u, TextIn(s, u)[2]>> /\ TextIn(s, u)[2] \in Kinds
    BY DEF TextIn, Kinds
  <1>5. Covered(u) \/ TwinUpserted(s, u)
    <2>1. CASE y \in KnownTexts
      BY <1>3, <1>4, <2>1 DEF Covered
    <2>2. CASE \E w \in Upserted(s) : y = TextIn(s, w)
      BY <1>3, <1>4, <2>2 DEF TwinUpserted
    <2> QED
      BY <1>1, <2>1, <2>2 DEF CoverInv, Thread, RecentBacked
  <1>6. run'[s] = now
    BY <1>1, UpdateOne
  <1> QED
    BY <1>1, <1>2, <1>5, <1>6, RoundCover DEF todo

\* An item whose upsert met a stored row is stored; the text it was found with
\* is one of those the rest of the page is compared with.
LEMMA UpsertCover ==
  ASSUME TypeOK, TextsKeep, CoverInv, NEW s \in Sources, NEW u \in Urls,
         NEW analysed \in BOOLEAN, UpsertNew(s, u, analysed) \/ UpsertDuplicate(s, u, analysed)
  PROVE  CoverInv'
  <1>1. PICK wrote, again :
            /\ CountAsNew(s, u, wrote, again, analysed)
            /\ \/ wrote = run[s].wrote \cup {u} /\ again = run[s].again
               \/ wrote = run[s].wrote /\ again = run[s].again \cup {u} /\ u \in Stored
    BY DEF UpsertNew, UpsertDuplicate
  <1>2. UNCHANGED <<articles, state>> /\ run[s].pc = "storing"
    BY DEF UpsertNew, UpsertDuplicate, database
  <1>3. PICK now : Update(s, now)
    BY <1>1 DEF CountAsNew
  <1>4. /\ run'[s].pc = run[s].pc /\ run'[s].page = run[s].page /\ run'[s].etag = run[s].etag
        /\ run'[s].full = run[s].full /\ run'[s].todo = run[s].todo \ {u}
        /\ run'[s].wrote = wrote /\ run'[s].again = again
        /\ run'[s].recent = run[s].recent \cup {TextIn(s, u)}
    BY <1>1, CountFacts DEF UpsertedAs
  <1>5. \A y \in run'[s].recent : y \in run[s].recent \/ \E w \in Upserted(s)' : y = TextIn(s, w)
    BY <1>1, <1>4 DEF Upserted
  <1>6. Covered(u) \/ u \in run'[s].wrote
    BY <1>1, <1>4 DEF Covered
  <1> QED
    BY <1>1, <1>2, <1>3, <1>4, <1>5, <1>6, RoundCover

\* The commit stores what the validator stands for together with it.
LEMMA CommitCover ==
  ASSUME TypeOK, Isolation, TextsKeep, CoverInv, NEW s \in Sources, CommitStore(s)
  PROVE  CoverInv'
  <1>1. /\ Stored' = Stored \cup run[s].wrote
        /\ \A u \in Urls :
              articles'[u] = IF u \in run[s].wrote THEN RowIn(s, u) ELSE articles[u]
        /\ run'[s] = At("idle") /\ \A o \in Sources : o # s => run'[o] = run[o]
        /\ run[s].todo = {} /\ met' = met \cup {<<s, TextIn(s, u)>> : u \in run[s].again}
    BY CommitFacts
  <1>2. \A w \in run[s].wrote : w \in Stored' /\ StoredText(w)' = TextIn(s, w)
    <2>1. run[s].wrote \subseteq Urls
      BY DEF TypeOK, Runs
    <2>2. ASSUME NEW w PROVE RowIn(s, w).kind = TextIn(s, w)[2] /\ TextIn(s, w) = <<w, TextIn(s, w)[2]>>
      BY DEF RowIn, TextIn
    <2>3. ASSUME NEW w \in run[s].wrote PROVE StoredText(w)' = <<w, RowIn(s, w).kind>>
      BY <1>1, <2>1 DEF StoredText
    <2> QED
      BY <1>1, <2>2, <2>3
  <1>3. ASSUME NEW u \in Listed(s, run[s].page) PROVE Covered(u)'
    <2>1. Done(s, u)
      BY <1>1 DEF CommitStore, CoverInv, Thread, PageHandled
    <2>2. TwinUpserted(s, u) => Covered(u)'
      <3>1. \A w \in Upserted(s) : TextIn(s, w) \in KnownTexts'
        <4>1. ASSUME NEW w \in run[s].again PROVE TextIn(s, w) \in KnownTexts'
          <5>1. <<s, TextIn(s, w)>> \in met'
            BY <1>1
          <5> QED
            BY <5>1 DEF KnownTexts
        <4> QED
          BY <1>2, <4>1 DEF Upserted, KnownTexts
      <3> QED
        BY <3>1 DEF TwinUpserted, Covered
    <2> QED
      BY <1>2, <2>1, <2>2, CoveredKeeps DEF Done, Covered
  <1>4. /\ \A o \in Sources \ {s} : state'[o] = state[o]
        /\ state'[s].etag = IF run[s].etag # 0 THEN run[s].etag ELSE state[s].etag
    BY DEF CommitStore, SaveSuccess, TypeOK
  <1>5. run[s].etag \in {0, run[s].page}
    BY DEF CommitStore, CoverInv, Thread, EtagOfPage
  <1>6. EtagCovers'
    <2>1. ASSUME NEW o \in Sources, NEW u \in Listed(o, state'[o].etag), state'[o].etag # 0
          PROVE  Covered(u)'
      <3>1. CASE o = s /\ run[s].etag # 0
        BY <1>3, <1>4, <1>5, <2>1, <3>1
      <3>2. CASE ~(o = s /\ run[s].etag # 0)
        BY <1>4, <2>1, <3>2, CoveredKeeps DEF CoverInv, EtagCovers
      <3> QED
        BY <3>1, <3>2
    <2> QED
      BY <2>1 DEF EtagCovers, Listed
  <1>7. Thread(s)'
    BY <1>1, AtNothing, RestingThread
  <1>8. ASSUME NEW o \in Sources, o # s PROVE Thread(o)'
    BY <1>1, <1>8, StandingThread DEF CoverInv
  <1> QED
    BY <1>6, <1>7, <1>8 DEF CoverInv

-----------------------------------------------------------------------------
LEMMA NextCover ==
  ASSUME TypeOK, Isolation, CoverInv, [Next]_vars
  PROVE  CoverInv'
  <1>0. TextsKeep
    BY NextKeepsTexts
  <1>1. ASSUME NEW due \in SUBSET Sources, BeginCycle(due) PROVE CoverInv'
    <2>1. \A s \in Sources : Thread(s)'
      BY <1>1, AtNothing, RestingThread DEF BeginCycle
    <2> QED
      BY <1>0, <1>1, <2>1, EtagsKept DEF BeginCycle, CoverInv, database
  <1>2. CASE Crash
    <2>1. \A s \in Sources : Thread(s)'
      BY <1>2, AtNothing, RestingThread DEF Crash
    <2> QED
      BY <1>0, <1>2, <2>1, EtagsKept DEF Crash, CoverInv, database
  <1>3. CASE \/ \E s \in Sources : Publish(s)
             \/ \E u \in Urls : Age(u)
             \/ UNCHANGED vars
    <2>1. run' = run /\ state' = state
      BY <1>3 DEF Publish, Age, vars, database
    <2> QED
      BY <1>0, <2>1, StandingThread, EtagsKept DEF CoverInv
  <1>4. ASSUME NEW s \in Sources, RunStep(s) \/ Fail(s) \/ LoseFailure(s) PROVE CoverInv'
    <2>1. ASSUME NEW u \in Urls, NEW analysed \in BOOLEAN,
                 UpsertNew(s, u, analysed) \/ UpsertDuplicate(s, u, analysed)
          PROVE  CoverInv'
      BY <1>0, <2>1, UpsertCover
    <2>2. CASE StoreStep(s)
      BY <1>0, <2>1, <2>2, OpenCover, SkipCover, CommitCover DEF StoreStep
    <2> QED
      BY <1>0, <1>4, <2>2, RestCover, FetchCover, FilterCover DEF RunStep
  <1> QED
    BY <1>1, <1>2, <1>3, <1>4 DEF Next

\* save_state stores a validator in the transaction that stores the items of
\* its page: whatever fails, and however runs interleave, a 304 never hides an
\* item that was not handled.
THEOREM ValidatorsCover == Spec => []EtagCovers
  <1>1. TypeOK /\ Isolation /\ CoverInv /\ [Next]_vars => CoverInv'
    BY NextCover
  <1>2. CoverInv => EtagCovers
    BY DEF CoverInv
  <1> QED
    BY <1>1, <1>2, InitCover, TypeCorrect, TransactionsIsolated, PTL DEF Spec

=============================================================================
