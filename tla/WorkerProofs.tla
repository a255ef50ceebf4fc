---------------------------- MODULE WorkerProofs ----------------------------
(***************************************************************************)
(* A worker and a command beside it, for any number of articles, batch,    *)
(* faults, edits and commands: types; the term statistics, which seeding   *)
(* completes and nothing counts twice; the heartbeat; analyse --all; the   *)
(* loops over batches.                                                     *)
(***************************************************************************)
EXTENDS Worker, FiniteSetTheorems, WellFoundedInduction, TLAPS

Ingesting(p) == At(p, "ingest") /\ work[p].open
Recounting(p) == Recounts(p) /\ work[p].open

TablesTyped ==
    /\ stored \subseteq Ids /\ counted \in [Ids -> Nat] /\ again \in [Ids -> Nat]
    /\ nextId \in Nat \ {0} /\ (\A i \in stored : i < nextId)
    /\ \A i \in Ids \ stored : again[i] = 0

ProcsTyped ==
    /\ DOMAIN plan = Procs /\ DOMAIN work = Procs
    /\ \A p \in Procs : DOMAIN work[p] = DOMAIN NoWork

\* The rows of an open ingest have been inserted, by whatever process.
IngestsOwn(p) ==
    Ingesting(p) => work[p].rows \subseteq Ids /\ \A i \in work[p].rows : i < nextId

\* What a recount has read is stored.
RecountsStored(p) == Recounting(p) => work[p].rows \subseteq stored

OpenRows == \A p \in Procs : IngestsOwn(p) /\ RecountsStored(p)

Same(p) == plan'[p] = plan[p] /\ work'[p] = work[p]

CountInv == TablesTyped /\ ProcsTyped /\ OpenRows /\ NeverOvercounted

-----------------------------------------------------------------------------
LEMMA NoWorkIsClosed ==
  /\ NoWork.open = FALSE
  /\ DOMAIN NoWork = {"open", "lex", "after", "rows", "all", "sure", "seen", "new"}
  BY DEF NoWork

\* What a process has when it begins a phase.
LEMMA BegunIs ==
  ASSUME NEW phases
  PROVE  /\ DOMAIN Begun(phases) = DOMAIN NoWork
         /\ ~Begun(phases).open /\ Begun(phases).rows = {} /\ ~Begun(phases).all
         /\ Begun(phases).seen \in {{}, stored}
         /\ phases # << >> /\ Head(phases) = "ingest" => Begun(phases).seen = stored
  BY DEF Begun, NoWork

\* What an exception leaves of the process it ends.
LEMMA Rolled ==
  ASSUME ProcsTyped, NEW p \in Procs
  PROVE  /\ DOMAIN RolledBack(p) = DOMAIN NoWork
         /\ ~RolledBack(p).open /\ RolledBack(p).rows = {}
         /\ RolledBack(p).all => work[p].all /\ At(p, "ingest")
         /\ RolledBack(p).seen = work[p].seen \/ RolledBack(p).seen \in {{}, stored}
  <1>1. CASE At(p, "ingest")
    BY <1>1, NoWorkIsClosed DEF RolledBack, ProcsTyped
  <1>2. CASE ~At(p, "ingest")
    BY <1>2, BegunIs DEF RolledBack
  <1> QED
    BY <1>1, <1>2

\* What Go and Hold do to the processes.
LEMMA GoOne ==
  ASSUME ProcsTyped, NEW p \in Procs, NEW phases, Go(p, phases)
  PROVE  /\ ProcsTyped' /\ ~work'[p].open
         /\ \A q \in Procs \ {p} : plan'[q] = plan[q] /\ work'[q] = work[q]
  BY BegunIs DEF ProcsTyped, Go

LEMMA HoldOne ==
  ASSUME ProcsTyped, NEW p \in Procs, NEW locals, Hold(p, locals), DOMAIN locals = DOMAIN NoWork
  PROVE  /\ ProcsTyped' /\ work'[p] = locals /\ plan' = plan
         /\ \A q \in Procs \ {p} : plan'[q] = plan[q] /\ work'[q] = work[q]
  BY DEF ProcsTyped, Hold

\* What grade_stored has when it has loaded the lexicon.
LEMMA Loading ==
  ASSUME ProcsTyped, NEW p \in Procs, LoadLexicon(p), files.lexicon = "good"
  PROVE  /\ ProcsTyped' /\ plan'[p] = Tail(plan[p]) /\ \A q \in Procs \ {p} : Same(q)
         /\ ~work'[p].open /\ work'[p].rows = {} /\ work'[p].after = 0
         /\ work'[p].all = work[p].all /\ work'[p].lex = files.version
         /\ work'[p].sure = {i \in stored : work[p].all /\ grade[i] # 0 /\ ~InHand(p, i)}
         /\ work'[p].seen \in {{}, stored}
         /\ At(p, "ingest")' => work'[p].seen = stored
  <1> DEFINE sure == {i \in stored : work[p].all /\ grade[i] # 0 /\ ~InHand(p, i)}
             begun == Begun(Tail(plan[p]))
             locals == [begun EXCEPT !.all = work[p].all, !.lex = files.version, !.sure = sure]
  <1>1. plan' = [plan EXCEPT ![p] = Tail(@)] /\ work' = [work EXCEPT ![p] = locals]
    BY DEF LoadLexicon
  <1>2. /\ DOMAIN begun = DOMAIN NoWork /\ ~begun.open /\ begun.rows = {} /\ begun.after = 0
        /\ begun.seen \in {{}, stored}
        /\ Tail(plan[p]) # << >> /\ Head(Tail(plan[p])) = "ingest" => begun.seen = stored
    BY BegunIs DEF Begun, NoWork
  <1> HIDE DEF begun, sure
  <1>3. /\ DOMAIN locals = DOMAIN NoWork /\ locals.open = begun.open /\ locals.rows = begun.rows
        /\ locals.after = begun.after /\ locals.seen = begun.seen
        /\ locals.all = work[p].all /\ locals.lex = files.version /\ locals.sure = sure
    BY <1>2, NoWorkIsClosed
  <1> HIDE DEF locals
  <1>4. /\ ProcsTyped' /\ work'[p] = locals /\ plan'[p] = Tail(plan[p])
        /\ \A q \in Procs \ {p} : Same(q)
    BY <1>1, <1>3 DEF ProcsTyped, Same
  <1> QED
    BY <1>2, <1>3, <1>4 DEF At, Busy, sure

\* A process that has no rows open, or the same as before, is harmless.
Closed(p) == ~Ingesting(p) /\ ~Recounting(p)

LEMMA SameMeansSame ==
  ASSUME NEW p, Same(p)
  PROVE  (Ingesting(p)' <=> Ingesting(p)) /\ (Recounting(p)' <=> Recounting(p))
  BY DEF Same, Ingesting, Recounting, Recounts, At, Busy

LEMMA Harmless ==
  ASSUME CountInv, ProcsTyped', UNCHANGED <<stored, counted, again, nextId>>,
         \A p \in Procs : Same(p) \/ Closed(p)'
  PROVE  CountInv'
  <1>1. TablesTyped' /\ NeverOvercounted'
    BY DEF CountInv, TablesTyped, NeverOvercounted
  <1>2. ASSUME NEW p \in Procs PROVE IngestsOwn(p)' /\ RecountsStored(p)'
    BY SameMeansSame DEF CountInv, OpenRows, IngestsOwn, RecountsStored, Same, Closed
  <1> QED
    BY <1>1, <1>2 DEF CountInv, OpenRows

\* A step that ends the transaction of p, or leaves it with none.
LEMMA Going ==
  ASSUME CountInv, NEW p \in Procs, NEW phases, Go(p, phases),
         UNCHANGED <<stored, counted, again, nextId>>
  PROVE  CountInv'
  BY GoOne, Harmless DEF CountInv, Same, Closed, Ingesting, Recounting

\* A step that opens or closes a transaction of another kind.
LEMMA Holding ==
  ASSUME CountInv, NEW p \in Procs, NEW locals, Hold(p, locals), DOMAIN locals = DOMAIN NoWork,
         ~At(p, "ingest"), ~Recounts(p), UNCHANGED <<stored, counted, again, nextId>>
  PROVE  CountInv'
  <1>1. Closed(p)'
    BY HoldOne DEF CountInv, Closed, Ingesting, Recounting, Recounts, At, Busy
  <1> QED
    BY <1>1, HoldOne, Harmless DEF CountInv, Same

\* Exceptions roll back.
LEMMA Raising ==
  ASSUME CountInv, NEW failing, Raise(failing), UNCHANGED <<stored, counted, again, nextId>>
  PROVE  CountInv'
  <1>1. ProcsTyped'
    BY Rolled DEF CountInv, ProcsTyped, Raise
  <1>2. ASSUME NEW p \in Procs PROVE Same(p) \/ Closed(p)'
    BY Rolled DEF CountInv, Raise, Same, Closed, Ingesting, Recounting
  <1> QED
    BY <1>1, <1>2, Harmless

-----------------------------------------------------------------------------
LEMMA InitCount == Init => CountInv
  <1> SUFFICES ASSUME Init PROVE CountInv
    OBVIOUS
  <1>1. PICK n \in 0..MaxOld : stored = 1..n /\ nextId = n + 1
    BY DEF Init
  <1>2. TablesTyped
    BY <1>1, NumbersAssumption DEF Init, TablesTyped, Ids
  <1>3. ProcsTyped /\ OpenRows
    BY NoWorkIsClosed
    DEF Init, ProcsTyped, OpenRows, IngestsOwn, RecountsStored, Ingesting, Recounting
  <1> QED
    BY <1>2, <1>3 DEF Init, CountInv, NeverOvercounted

LEMMA OpenRecountInv == ASSUME CountInv, NEW p \in Procs, OpenRecount(p) PROVE CountInv'
  <1> DEFINE locals == [work[p] EXCEPT !.open = TRUE, !.rows = stored]
  <1>1. DOMAIN locals = DOMAIN NoWork /\ locals.rows = stored /\ Hold(p, locals)
    BY NoWorkIsClosed DEF OpenRecount, CountInv, ProcsTyped
  <1> HIDE DEF locals
  <1>2. /\ ProcsTyped' /\ work'[p].rows = stored /\ plan' = plan
        /\ \A q \in Procs \ {p} : Same(q)
    BY <1>1, HoldOne DEF CountInv, Same
  <1>3. UNCHANGED <<stored, counted, again, nextId>>
    BY DEF OpenRecount, data
  <1>4. TablesTyped' /\ NeverOvercounted'
    BY <1>3 DEF CountInv, TablesTyped, NeverOvercounted
  <1>5. ~Ingesting(p)'
    BY <1>2 DEF OpenRecount, Recounts, At, Busy, Ingesting
  <1>6. ASSUME NEW q \in Procs PROVE IngestsOwn(q)' /\ RecountsStored(q)'
    BY <1>2, <1>3, <1>5, SameMeansSame DEF CountInv, OpenRows, IngestsOwn, RecountsStored, Same
  <1> QED
    BY <1>2, <1>4, <1>6 DEF CountInv, OpenRows

LEMMA CommitRecountInv == ASSUME CountInv, NEW p \in Procs, CommitRecount(p) PROVE CountInv'
  <1>1. /\ ProcsTyped' /\ Closed(p)' /\ \A q \in Procs \ {p} : Same(q)
    BY GoOne DEF CommitRecount, CountInv, Closed, Ingesting, Recounting, Same
  <1>2. stored' = stored /\ nextId' = nextId /\ again' = [i \in Ids |-> 0]
    BY DEF CommitRecount
  <1>3. work[p].rows \subseteq stored
    BY DEF CommitRecount, CountInv, OpenRows, RecountsStored, Recounting
  <1>4. TablesTyped' /\ NeverOvercounted'
    BY <1>2, <1>3 DEF CommitRecount, CountInv, TablesTyped, NeverOvercounted
  <1>5. ASSUME NEW q \in Procs PROVE IngestsOwn(q)' /\ RecountsStored(q)'
    BY <1>1, <1>2, SameMeansSame DEF CountInv, OpenRows, IngestsOwn, RecountsStored, Same, Closed
  <1> QED
    BY <1>1, <1>4, <1>5 DEF CountInv, OpenRows

LEMMA OpenIngestInv ==
  ASSUME CountInv, NEW p \in Procs, NEW i \in Ids, OpenIngest(p, i)
  PROVE  CountInv'
  <1> DEFINE lex == IF files.lexicon = "good" THEN files.version ELSE 0
             locals == [work[p] EXCEPT !.open = TRUE, !.rows = {i}, !.new = (p = "cli"), !.lex = lex]
  <1>1. DOMAIN locals = DOMAIN NoWork /\ locals.rows = {i} /\ Hold(p, locals)
    <2>1. Hold(p, locals)
      BY DEF OpenIngest
    <2>2. DOMAIN work[p] = DOMAIN NoWork
      BY DEF CountInv, ProcsTyped
    <2> HIDE DEF lex
    <2>3. DOMAIN locals = DOMAIN NoWork /\ locals.rows = {i}
      BY <2>2, NoWorkIsClosed
    <2> QED
      BY <2>1, <2>3
  <1> HIDE DEF locals
  <1>2. /\ ProcsTyped' /\ work'[p].rows = {i} /\ plan' = plan
        /\ \A q \in Procs \ {p} : Same(q)
    BY <1>1, HoldOne DEF CountInv, Same
  <1>3. /\ i \in stored \cup {nextId} /\ nextId' = (IF i = nextId THEN nextId + 1 ELSE nextId)
        /\ UNCHANGED <<stored, counted, again>>
    BY DEF OpenIngest
  <1>4. TablesTyped' /\ NeverOvercounted' /\ nextId <= nextId' /\ i < nextId'
    BY <1>3 DEF CountInv, TablesTyped, NeverOvercounted, Ids
  <1>5. ~Recounting(p)'
    BY <1>2 DEF OpenIngest, Enter, Recounting, Recounts, At, Busy
  <1>6. ASSUME NEW q \in Procs PROVE IngestsOwn(q)' /\ RecountsStored(q)'
    <2>1. CASE q = p
      BY <1>2, <1>3, <1>4, <1>5, <2>1 DEF IngestsOwn, RecountsStored
    <2>2. CASE q # p
      <3>1. \A j \in Ids : j < nextId => j < nextId'
        BY <1>3 DEF Ids, CountInv, TablesTyped
      <3> QED
        BY <1>2, <1>3, <2>2, <3>1, SameMeansSame
        DEF CountInv, OpenRows, IngestsOwn, RecountsStored, Same
    <2> QED
      BY <2>1, <2>2
  <1> QED
    BY <1>2, <1>4, <1>6 DEF CountInv, OpenRows

\* What a poll holds after a commit.
LEMMA CommitIngestHolds ==
  ASSUME ProcsTyped, NEW p \in Procs, CommitIngest(p)
  PROVE  /\ ProcsTyped' /\ ~work'[p].open /\ work'[p].rows = {} /\ plan' = plan
         /\ work'[p].all = work[p].all
         /\ work'[p].seen = work[p].seen \cup (work[p].rows \cap stored)
         /\ \A q \in Procs \ {p} : Same(q)
  <1> DEFINE locals == [work[p] EXCEPT !.open = FALSE, !.rows = {}, !.lex = 0,
                                       !.seen = @ \cup (work[p].rows \cap stored)]
  <1>1. DOMAIN work[p] = DOMAIN NoWork
    BY DEF ProcsTyped
  <1>2. /\ DOMAIN locals = DOMAIN NoWork /\ ~locals.open /\ locals.rows = {}
        /\ locals.all = work[p].all
        /\ locals.seen = work[p].seen \cup (work[p].rows \cap stored)
    BY <1>1, NoWorkIsClosed
  <1>3. Hold(p, locals)
    BY DEF CommitIngest
  <1> HIDE DEF locals
  <1> QED
    BY <1>2, <1>3, HoldOne DEF Same

LEMMA CommitIngestInv == ASSUME CountInv, NEW p \in Procs, CommitIngest(p) PROVE CountInv'
  <1>1. /\ ProcsTyped' /\ Closed(p)' /\ \A q \in Procs \ {p} : Same(q)
    BY CommitIngestHolds DEF CountInv, Closed, Ingesting, Recounting
  <1>2. /\ stored' = stored \cup work[p].rows /\ nextId' = nextId
        /\ counted' = [i \in Ids |-> counted[i] + (IF i \in work[p].rows THEN 1 ELSE 0)]
        /\ again' = [i \in Ids |-> again[i] + (IF i \in work[p].rows \cap stored THEN 1 ELSE 0)]
    BY DEF CommitIngest
  <1>3. Ingesting(p) /\ IngestsOwn(p)
    BY DEF CommitIngest, Enter, Ingesting, CountInv, OpenRows
  <1>4. TablesTyped'
    BY <1>2, <1>3 DEF CountInv, TablesTyped, IngestsOwn
  <1>5. NeverOvercounted'
    <2> SUFFICES ASSUME NEW i \in Ids
                 PROVE  counted'[i] <= IF i \in stored' THEN 1 + again'[i] ELSE 0
      BY DEF NeverOvercounted
    <2>1. counted[i] \in Nat /\ again[i] \in Nat /\ counted[i] <= IF i \in stored THEN 1 + again[i] ELSE 0
      BY DEF CountInv, TablesTyped, NeverOvercounted
    <2> QED
      BY <1>2, <2>1
  <1>6. ASSUME NEW q \in Procs PROVE IngestsOwn(q)' /\ RecountsStored(q)'
    BY <1>1, <1>2, <1>3, SameMeansSame DEF CountInv, OpenRows, IngestsOwn, RecountsStored, Same, Closed
  <1> QED
    BY <1>1, <1>4, <1>5, <1>6 DEF CountInv, OpenRows

LEMMA LoadLexiconInv == ASSUME CountInv, NEW p \in Procs, LoadLexicon(p) PROVE CountInv'
  <1>1. CASE files.lexicon # "good"
    BY <1>1, Raising DEF LoadLexicon
  <1>2. CASE files.lexicon = "good"
    <2>1. ProcsTyped' /\ ~work'[p].open /\ \A q \in Procs \ {p} : Same(q)
      BY <1>2, Loading DEF CountInv
    <2> QED
      BY <2>1, Harmless DEF LoadLexicon, Closed, Ingesting, Recounting
  <1> QED
    BY <1>1, <1>2

LEMMA GradesInv ==
  ASSUME CountInv, NEW p \in Procs, OpenGrades(p) \/ CommitGrades(p) \/ TakeLock(p)
  PROVE  CountInv'
  <1>1. ~At(p, "ingest") /\ ~Recounts(p)
    BY DEF OpenGrades, CommitGrades, TakeLock, Enter, Recounts, At
  <1>2. UNCHANGED <<stored, counted, again, nextId>>
    BY DEF OpenGrades, CommitGrades, TakeLock, data
  <1>3. \E locals : Hold(p, locals) /\ DOMAIN locals = DOMAIN NoWork
    <2>1. DOMAIN work[p] = DOMAIN NoWork
      BY DEF CountInv, ProcsTyped
    <2>2. CASE OpenGrades(p)
      <3> DEFINE locals == [work[p] EXCEPT !.open = TRUE, !.rows = FirstIds(ToAnalyse(p), Batch)]
      <3>1. Hold(p, locals)
        BY <2>2 DEF OpenGrades
      <3>2. DOMAIN locals = DOMAIN NoWork
        BY <2>1
      <3> QED
        BY <3>1, <3>2
    <2>3. CASE CommitGrades(p)
      <3>1. PICK last \in work[p].rows :
              Hold(p, [work[p] EXCEPT !.open = FALSE, !.rows = {}, !.after = last])
        BY <2>3 DEF CommitGrades
      <3> DEFINE locals == [work[p] EXCEPT !.open = FALSE, !.rows = {}, !.after = last]
      <3>2. DOMAIN locals = DOMAIN NoWork
        BY <2>1
      <3> QED
        BY <3>1, <3>2
    <2>4. CASE TakeLock(p)
      BY <2>1, <2>4, NoWorkIsClosed DEF TakeLock
    <2> QED
      BY <2>2, <2>3, <2>4
  <1> QED
    BY <1>1, <1>2, <1>3, Holding

\* The processes of a command.
LEMMA CommandInv == ASSUME CountInv, NEW c \in Commands, Command(c) PROVE CountInv'
  <1>1. ProcsTyped' /\ ~work'["cli"].open /\ Same("worker")
    <2>1. /\ DOMAIN [Begun(CommandPlan(c)) EXCEPT !.all = (c = "analyse")] = DOMAIN NoWork
          /\ ~[Begun(CommandPlan(c)) EXCEPT !.all = (c = "analyse")].open
      BY BegunIs, NoWorkIsClosed
    <2> QED
      BY <2>1 DEF Command, CountInv, ProcsTyped, Procs, Same
  <1>2. \A p \in Procs : Same(p) \/ Closed(p)'
    BY <1>1 DEF Procs, Closed, Ingesting, Recounting
  <1> QED
    BY <1>1, <1>2, Harmless DEF Command, data

\* Nothing but tables that do not count, or what is outside.
LEMMA Untouched ==
  ASSUME CountInv, UNCHANGED <<stored, counted, again, nextId, plan, work>>
  PROVE  CountInv'
  <1>1. ProcsTyped' /\ \A p \in Procs : Same(p)
    BY DEF CountInv, ProcsTyped, Same
  <1> QED
    BY <1>1, Harmless

LEMMA StepCount == ASSUME CountInv, NEW p \in Procs, Step(p) PROVE CountInv'
  <1>1. CASE CheckTables(p)
    BY <1>1, Going DEF CheckTables, data
  <1>2. CASE CreateTables(p)
    BY <1>2, Going DEF CreateTables
  <1>3. CASE FinishGrades(p)
    BY <1>3, Going DEF FinishGrades, data
  <1>4. CASE LeaveGroup(p)
    BY <1>4, Going DEF LeaveGroup, data
  <1>5. CASE FinishIngest(p)
    BY <1>5, Going DEF FinishIngest, data
  <1>6. CASE GroupBatch(p)
    BY <1>6, Untouched DEF GroupBatch, procs
  <1>7. CASE FailNotReady(p)
    BY <1>7, Raising DEF FailNotReady
  <1> QED
    BY <1>1, <1>2, <1>3, <1>4, <1>5, <1>6, <1>7, OpenRecountInv, CommitRecountInv,
       LoadLexiconInv, GradesInv, OpenIngestInv, CommitIngestInv DEF Step

LEMMA LoopCount == ASSUME CountInv, Loop \/ Launch PROVE CountInv'
  <1>0. "worker" \in Procs
    BY DEF Procs
  <1>1. CASE LeaveWait
    BY <1>0, <1>1, Going DEF LeaveWait, data
  <1>2. CASE Retry
    BY <1>2, Untouched DEF Retry, data, procs
  <1>3. CASE Beat
    BY <1>0, <1>3, Going DEF Beat, data
  <1>4. CASE Sleep
    BY <1>0, <1>4, Going DEF Sleep, data
  <1>5. ASSUME NEW polled \in BOOLEAN, Due(polled) PROVE CountInv'
    BY <1>0, <1>5, Going DEF Due, data
  <1>6. CASE Launch
    BY <1>0, <1>6, Going DEF Launch, data
  <1> QED
    BY <1>1, <1>2, <1>3, <1>4, <1>5, <1>6 DEF Loop

LEMMA FaultCount ==
  ASSUME CountInv, (\E p \in Procs : Fail(p) \/ Crash(p)) \/ Outage
  PROVE  CountInv'
  <1>1. ASSUME NEW p \in Procs, Fail(p) PROVE CountInv'
    BY <1>1, Raising DEF Fail
  <1>2. ASSUME NEW p \in Procs, Crash(p) PROVE CountInv'
    BY <1>2, Going DEF Crash
  <1>3. CASE Outage
    BY <1>3, Raising DEF Outage
  <1> QED
    BY <1>1, <1>2, <1>3

LEMMA NextCount == CountInv /\ [Next]_vars => CountInv'
  <1> SUFFICES ASSUME CountInv, [Next]_vars PROVE CountInv'
    OBVIOUS
  <1>1. ASSUME NEW state \in LexiconStates, EditLexicon(state) PROVE CountInv'
    BY <1>1, Untouched DEF EditLexicon, data, procs
  <1>2. CASE Stop \/ Recover \/ Elapse
    BY <1>2, Untouched DEF Stop, Recover, Elapse, data, procs
  <1>3. CASE UNCHANGED vars
    BY <1>3, Untouched DEF vars, data, procs
  <1> QED
    BY <1>1, <1>2, <1>3, StepCount, LoopCount, FaultCount, CommandInv DEF Next

\* count_terms and rebuild_term_stats, from any number of overlapping runs,
\* restarts and failures, count an article once and once more for every upsert
\* that has met it since the last recount, and one that is not stored never:
\* it is the row an upsert meets (upsert_article: rowcount is 1 for it too)
\* and nothing else that takes a document frequency beyond the documents.
THEOREM NothingIsOvercounted == Spec => []NeverOvercounted
  <1>1. CountInv => NeverOvercounted
    BY DEF CountInv
  <1> QED
    BY <1>1, InitCount, NextCount, PTL DEF Spec

-----------------------------------------------------------------------------
(* The heartbeat.                                                          *)

AfterWait == Phases \ {"connect"}

ClockTyped ==
    /\ DOMAIN clock = {"beat", "work", "idle"}
    /\ clock.beat \in 0..(MaxAge + 1) /\ clock.work \in 0..(MaxAge + 1)

\* The worker waits for the database in the first phase of its start only,
\* and has done something since it last slept in every phase it reaches later.
WaitsFirst == plan["worker"] = Startup \/ plan["worker"] \in Seq(AfterWait)
WorkFresh ==
    Busy("worker") /\ plan["worker"] # Startup /\ Head(plan["worker"]) \notin {"check", "due"}
        => clock.work = 0

BeatInv == DOMAIN plan = Procs /\ ClockTyped /\ WaitsFirst /\ WorkFresh /\ BeatsFollowWork

LEMMA SeqOfFewer ==
  ASSUME NEW S, NEW s \in Seq(S), NEW T, \A i \in 1..Len(s) : s[i] \in T
  PROVE  s \in Seq(T)
  OBVIOUS

LEMMA StartupIs ==
  /\ Startup \in Seq(Phases) /\ Startup # << >> /\ Head(Startup) = "connect"
  /\ Tail(Startup) \in Seq(AfterWait) /\ Head(Tail(Startup)) = "check"
  <1> DEFINE rest == CatchUp \o <<"beat">>
  <1>1. CatchUp \in Seq(AfterWait) /\ <<"beat">> \in Seq(AfterWait)
    BY DEF CatchUp, AfterWait, Phases
  <1>2. rest \in Seq(AfterWait)
    BY <1>1
  <1>3. Startup \in Seq(Phases) /\ Len(Startup) = 2 + Len(rest) /\ Len(rest) \in Nat
    <2>1. <<"connect", "check">> \in Seq(Phases) /\ CatchUp \in Seq(Phases) /\ <<"beat">> \in Seq(Phases)
      BY DEF CatchUp, Phases
    <2> QED
      BY <2>1 DEF Startup
  <1>4. Startup[1] = "connect" /\ Startup[2] = "check"
    BY <1>1 DEF Startup
  <1>5. \A i \in 3..Len(Startup) : Startup[i] \in AfterWait
    BY <1>1, <1>3 DEF Startup
  <1> HIDE DEF rest
  <1>6. "check" \in AfterWait
    BY DEF AfterWait, Phases
  <1>7. Tail(Startup) \in Seq(AfterWait) /\ Len(Tail(Startup)) # 0
    <2>1. /\ Tail(Startup) \in Seq(Phases) /\ Len(Tail(Startup)) = Len(Startup) - 1
          /\ Len(Startup) >= 2
      BY <1>3
    <2>2. \A i \in 1..Len(Tail(Startup)) : Tail(Startup)[i] = Startup[i + 1]
      BY <1>3
    <2>3. \A i \in 1..Len(Tail(Startup)) : Tail(Startup)[i] \in AfterWait
      BY <1>3, <1>4, <1>5, <1>6, <2>1, <2>2
    <2> DEFINE t == Tail(Startup)
    <2>4. t \in Seq(Phases) /\ (\A i \in 1..Len(t) : t[i] \in AfterWait) /\ Len(t) # 0
      BY <1>3, <2>1, <2>3
    <2> HIDE DEF t
    <2>5. t \in Seq(AfterWait)
      BY <2>4, SeqOfFewer
    <2> QED
      BY <2>4, <2>5 DEF t
  <1> QED
    BY <1>3, <1>4, <1>7

\* Where the worker goes.
LEMMA Arriving ==
  ASSUME BeatInv, DOMAIN plan' = Procs, ClockTyped', clock'.work <= clock'.beat,
         plan'["worker"] = Startup
         \/ /\ plan'["worker"] \in Seq(AfterWait)
            /\ \/ plan'["worker"] = << >>
               \/ Head(plan'["worker"]) \in {"check", "due"}
               \/ clock'.work = 0
  PROVE  BeatInv'
  BY StartupIs DEF BeatInv, WaitsFirst, WorkFresh, BeatsFollowWork, Busy

\* Beyond the wait, and not at a phase that may follow a sleep.
LEMMA Past ==
  ASSUME BeatInv, Busy("worker"), Head(plan["worker"]) \notin {"connect", "check", "due"}
  PROVE  clock.work = 0 /\ plan["worker"] \in Seq(AfterWait) /\ Tail(plan["worker"]) \in Seq(AfterWait)
  BY StartupIs DEF BeatInv, WaitsFirst, WorkFresh, Busy

LEMMA ZeroIsTyped == 0 \in 0..(MaxAge + 1)
  BY NumbersAssumption

\* Steps of the command, of the server and of operators.
LEMMA Elsewhere ==
  ASSUME BeatInv, DOMAIN plan' = Procs, plan'["worker"] = plan["worker"], clock' = clock
  PROVE  BeatInv'
  BY DEF BeatInv, ClockTyped, WaitsFirst, WorkFresh, BeatsFollowWork, Busy

\* Work of the worker that leaves it in its phase, or takes it to the next.
Resets == clock' = [clock EXCEPT !.work = 0] \/ clock' = [clock EXCEPT !.work = 0, !.beat = 0]

LEMMA ResetTyped ==
  ASSUME BeatInv, Resets
  PROVE  ClockTyped' /\ clock'.work = 0 /\ clock'.work <= clock'.beat
  <1>1. CASE clock' = [clock EXCEPT !.work = 0]
    BY <1>1, ZeroIsTyped, NumbersAssumption DEF BeatInv, ClockTyped
  <1>2. CASE clock' = [clock EXCEPT !.work = 0, !.beat = 0]
    BY <1>2, ZeroIsTyped, NumbersAssumption DEF BeatInv, ClockTyped
  <1> QED
    BY <1>1, <1>2 DEF Resets

LEMMA ExceptionsKeep ==
  ASSUME BeatInv, NEW failing, Raise(failing), clock' = clock
  PROVE  BeatInv'
  <1> DEFINE s == plan["worker"]
  <1>1. DOMAIN plan' = Procs /\ "worker" \in Procs
    BY DEF Raise, Procs
  <1>2. CASE "worker" \notin failing
    BY <1>1, <1>2, Elsewhere DEF Raise
  <1>3. CASE "worker" \in failing /\ Dies("worker")
    <2>1. plan'["worker"] = << >>
      BY <1>1, <1>3 DEF Raise
    <2> QED
      BY <1>1, <2>1, Arriving DEF BeatInv, ClockTyped, BeatsFollowWork
  <1>4. CASE "worker" \in failing /\ ~Dies("worker")
    <2>1. plan'["worker"] = AfterFailure("worker")
      BY <1>1, <1>4 DEF Raise
    <2>0. CASE At("worker", "ingest")
      BY <1>1, <2>1, <2>0, Elsewhere DEF AfterFailure
    <2>2. CASE At("worker", "due")
      <3>1. plan'["worker"] = << >>
        BY <2>1, <2>2 DEF AfterFailure, At
      <3> QED
        BY <1>1, <3>1, Arriving DEF BeatInv, ClockTyped, BeatsFollowWork
    <2>3. CASE s = Startup
      <3>1. plan'["worker"] = Tail(Startup)
        BY <2>1, <2>3, StartupIs DEF AfterFailure, At, Busy, Startup, CatchUp
      <3> QED
        BY <1>1, <3>1, StartupIs, Arriving DEF BeatInv, ClockTyped, BeatsFollowWork
    <2>4. CASE ~At("worker", "ingest") /\ ~At("worker", "due") /\ s # Startup
      <3>1. s \in Seq(AfterWait)
        BY <2>4 DEF BeatInv, WaitsFirst
      <3>2. plan'["worker"] \in Seq(AfterWait)
        BY <2>1, <2>4, <3>1 DEF AfterFailure
      <3>3. Busy("worker") => clock.work = 0
        BY <1>4, <2>4 DEF BeatInv, WorkFresh, Dies, At
      <3>4. ~Busy("worker") => plan'["worker"] = << >>
        BY <2>1, <2>4 DEF AfterFailure, Busy, At
      <3> QED
        BY <1>1, <3>2, <3>3, <3>4, Arriving DEF BeatInv, ClockTyped, BeatsFollowWork
    <2> QED
      BY <2>0, <2>2, <2>3, <2>4
  <1> QED
    BY <1>2, <1>3, <1>4

LEMMA InitBeat == Init => BeatInv
  <1> SUFFICES ASSUME Init PROVE BeatInv
    OBVIOUS
  <1>1. plan["worker"] = << >> /\ DOMAIN plan = Procs
    BY DEF Init, Procs
  <1>2. ClockTyped /\ BeatsFollowWork
    BY NumbersAssumption DEF Init, ClockTyped, BeatsFollowWork
  <1> QED
    BY <1>1, <1>2 DEF BeatInv, WaitsFirst, WorkFresh, Busy

\* A step of a process at a phase in which it works.
Working(p) == Busy(p) /\ Head(plan[p]) \notin {"connect", "check", "due"}
Moves(p, phases) ==
    DOMAIN plan' = Procs /\ plan'[p] = phases /\ \A q \in Procs \ {p} : plan'[q] = plan[q]

LEMMA WorkerMoves ==
  ASSUME BeatInv, Working("worker"), clock' = clock \/ Resets, NEW phases,
         phases = plan["worker"] \/ phases = Tail(plan["worker"]) \/ phases = << >>,
         Moves("worker", phases)
  PROVE  BeatInv'
  <1>1. ClockTyped' /\ clock'.work = 0 /\ clock'.work <= clock'.beat
    <2>1. CASE clock' = clock
      BY <2>1, Past DEF BeatInv, ClockTyped, BeatsFollowWork, Working
    <2>2. CASE Resets
      BY <2>2, ResetTyped
    <2> QED
      BY <2>1, <2>2
  <1>2. plan'["worker"] = phases /\ DOMAIN plan' = Procs
    BY DEF Moves
  <1>3. phases \in Seq(AfterWait)
    <2>1. /\ plan["worker"] \in Seq(AfterWait) /\ Tail(plan["worker"]) \in Seq(AfterWait)
          /\ << >> \in Seq(AfterWait)
      BY Past DEF Working
    <2> QED
      BY <2>1
  <1> QED
    BY <1>1, <1>2, <1>3, Arriving

LEMMA ProcessMoves ==
  ASSUME BeatInv, NEW p \in Procs, p = "cli" \/ Working(p),
         clock' = clock \/ (p = "worker" /\ Resets), NEW phases,
         p = "worker" => phases = plan[p] \/ phases = Tail(plan[p]) \/ phases = << >>,
         Moves(p, phases)
  PROVE  BeatInv'
  <1>1. CASE p = "worker"
    BY <1>1, WorkerMoves
  <1>2. CASE p = "cli"
    BY <1>2, Elsewhere DEF Moves, Procs
  <1> QED
    BY <1>1, <1>2 DEF Procs

LEMMA GoMoves ==
  ASSUME BeatInv, NEW p \in Procs, NEW phases, Go(p, phases)
  PROVE  Moves(p, phases)
  BY DEF BeatInv, Go, Moves

LEMMA StayMoves ==
  ASSUME BeatInv, NEW p \in Procs, plan' = plan
  PROVE  Moves(p, plan[p])
  BY DEF BeatInv, Moves

LEMMA WorkedResets ==
  ASSUME NEW p \in Procs, Worked(p)
  PROVE  clock' = clock \/ (p = "worker" /\ Resets)
  BY DEF Worked, Resets

LEMMA CheckBeat == ASSUME BeatInv, NEW p \in Procs, CheckTables(p) PROVE BeatInv'
  <1> DEFINE next == <<"create">> \o (IF tables THEN << >> ELSE <<"seed">>) \o Tail(plan[p])
  <1>1. Moves(p, next)
    BY GoMoves DEF CheckTables
  <1>2. CASE p = "cli"
    BY <1>1, <1>2, ProcessMoves DEF CheckTables, Worked
  <1>3. CASE p = "worker"
    <2>1. plan["worker"] \in Seq(AfterWait) /\ plan["worker"] # << >>
      BY <1>3, StartupIs DEF BeatInv, WaitsFirst, CheckTables, Enter, At, Busy
    <2>2. <<"create">> \in Seq(AfterWait) /\ <<"seed">> \in Seq(AfterWait)
      BY DEF AfterWait, Phases
    <2>3. next \in Seq(AfterWait)
      BY <1>3, <2>1, <2>2
    <2>4. Resets
      BY <1>3 DEF CheckTables, Worked, Resets
    <2> HIDE DEF next
    <2> QED
      BY <1>1, <1>3, <2>3, <2>4, ResetTyped, Arriving DEF Moves
  <1> QED
    BY <1>2, <1>3 DEF Procs

LEMMA StepBeat == ASSUME BeatInv, NEW p \in Procs, Step(p) PROVE BeatInv'
  <1>1. CASE CreateTables(p) \/ CommitRecount(p) \/ FinishGrades(p) \/ LeaveGroup(p)
    <2>1. Working(p) /\ Go(p, Tail(plan[p])) /\ Worked(p)
      BY <1>1 DEF CreateTables, CommitRecount, FinishGrades, LeaveGroup,
                  Enter, Recounts, At, Working
    <2> QED
      BY <2>1, GoMoves, WorkedResets, ProcessMoves
  <1>2. CASE OpenRecount(p) \/ OpenGrades(p) \/ TakeLock(p) \/ \E i \in Ids : OpenIngest(p, i)
    <2>1. Working(p) /\ plan' = plan /\ clock' = clock
      BY <1>2 DEF OpenRecount, OpenGrades, TakeLock, OpenIngest, Hold, Enter, Recounts, At, Working
    <2> QED
      BY <2>1, StayMoves, ProcessMoves
  <1>3. CASE CommitGrades(p) \/ GroupBatch(p) \/ CommitIngest(p)
    <2>1. Working(p) /\ plan' = plan
      BY <1>3 DEF CommitGrades, GroupBatch, CommitIngest, Hold, Enter, At, Working, procs
    <2>2. clock' = clock \/ (p = "worker" /\ Resets)
      BY <1>3 DEF CommitGrades, GroupBatch, CommitIngest, Worked, Resets
    <2> QED
      BY <2>1, <2>2, StayMoves, ProcessMoves
  <1>4. CASE FinishIngest(p)
    <2>1. Working(p) /\ clock' = clock
      BY <1>4 DEF FinishIngest, At, Working
    <2> QED
      BY <1>4, <2>1, GoMoves, ProcessMoves DEF FinishIngest, Procs
  <1>5. CASE LoadLexicon(p)
    <2>1. Working(p) /\ clock' = clock
      BY <1>5 DEF LoadLexicon, At, Working
    <2>2. CASE files.lexicon = "good"
      <3>1. Moves(p, Tail(plan[p]))
        BY <1>5, <2>2 DEF LoadLexicon, BeatInv, Moves
      <3> QED
        BY <2>1, <3>1, ProcessMoves
    <2>3. CASE files.lexicon # "good"
      BY <1>5, <2>1, <2>3, ExceptionsKeep DEF LoadLexicon
    <2> QED
      BY <2>2, <2>3
  <1>6. CASE FailNotReady(p)
    BY <1>6, ExceptionsKeep DEF FailNotReady
  <1> QED
    BY <1>1, <1>2, <1>3, <1>4, <1>5, <1>6, CheckBeat DEF Step

LEMMA TickedTyped ==
  ASSUME BeatInv, clock' = Ticked
  PROVE  ClockTyped' /\ clock'.work <= clock'.beat
  <1>1. /\ DOMAIN clock' = {"beat", "work", "idle"}
        /\ clock'.beat = Later(clock.beat, MaxAge) /\ clock'.work = Later(clock.work, MaxAge)
    BY DEF Ticked
  <1>2. clock.beat \in 0..(MaxAge + 1) /\ clock.work \in 0..(MaxAge + 1) /\ clock.work <= clock.beat
    BY DEF BeatInv, ClockTyped, BeatsFollowWork
  <1> QED
    BY <1>1, <1>2, NumbersAssumption DEF ClockTyped, Later

\* Time that passes during a poll.
LEMMA ElapseBeat == ASSUME BeatInv, Elapse PROVE BeatInv'
  <1>1. Working("worker") /\ plan' = plan /\ clock' = [clock EXCEPT !.beat = Later(@, MaxAge)]
    BY DEF Elapse, At, Working, procs
  <1>2. clock.work = 0 /\ plan["worker"] \in Seq(AfterWait)
    BY <1>1, Past DEF Working
  <1>3. clock.beat \in 0..(MaxAge + 1) /\ DOMAIN clock = {"beat", "work", "idle"}
    BY DEF BeatInv, ClockTyped
  <1>4. Later(clock.beat, MaxAge) \in 0..(MaxAge + 1)
    BY <1>3, NumbersAssumption DEF Later
  <1>5. ClockTyped' /\ clock'.work = 0 /\ clock'.work <= clock'.beat
    BY <1>1, <1>2, <1>3, <1>4, ZeroIsTyped, NumbersAssumption DEF ClockTyped
  <1> QED
    BY <1>1, <1>2, <1>5, Arriving DEF BeatInv

LEMMA LoopBeat == ASSUME BeatInv, Loop \/ Launch PROVE BeatInv'
  <1>0. "worker" \in Procs
    BY DEF Procs
  <1>k. clock' = clock => ClockTyped' /\ clock'.work <= clock'.beat
    BY DEF BeatInv, ClockTyped, BeatsFollowWork
  <1>1. CASE LeaveWait
    <2>1. plan["worker"] = Startup /\ clock' = clock
      BY <1>1, StartupIs DEF LeaveWait, BeatInv, WaitsFirst, At, Busy, AfterWait
    <2>2. Moves("worker", IF stop THEN << >> ELSE Tail(Startup))
      BY <1>0, <1>1, <2>1, GoMoves DEF LeaveWait
    <2> QED
      BY <1>k, <2>1, <2>2, StartupIs, Arriving DEF Moves
  <1>2. CASE Retry
    <2>1. plan["worker"] = Startup /\ plan' = plan /\ clock' = Ticked
      BY <1>2, StartupIs DEF Retry, BeatInv, WaitsFirst, At, Busy, AfterWait, procs
    <2> QED
      BY <2>1, TickedTyped, Arriving DEF BeatInv
  <1>3. CASE Beat
    <2> DEFINE next == IF mode = "starting" /\ ~stop THEN <<"due">> ELSE << >>
    <2>1. Working("worker") /\ Moves("worker", next)
      BY <1>0, <1>3, GoMoves DEF Beat, At, Working
    <2>2. clock.work = 0
      BY <2>1, Past DEF Working
    <2>3. ClockTyped' /\ clock'.work = 0 /\ clock'.work <= clock'.beat
      BY <1>3, <2>2, ZeroIsTyped DEF Beat, BeatInv, ClockTyped
    <2>4. <<"due">> \in Seq(AfterWait) /\ << >> \in Seq(AfterWait)
      BY DEF AfterWait, Phases
    <2>5. next \in Seq(AfterWait) /\ (next = << >> \/ Head(next) = "due")
      BY <2>4
    <2> HIDE DEF next
    <2> QED
      BY <2>1, <2>3, <2>5, Arriving DEF Moves
  <1>4. CASE Sleep
    <2>1. Moves("worker", IF stop THEN << >> ELSE <<"due">>) /\ clock' = Ticked
      BY <1>0, <1>4, GoMoves DEF Sleep
    <2>2. <<"due">> \in Seq(AfterWait) /\ Head(<<"due">>) = "due" /\ << >> \in Seq(AfterWait)
      BY DEF AfterWait, Phases
    <2> QED
      BY <2>1, <2>2, TickedTyped, Arriving DEF Moves
  <1>5. ASSUME NEW polled \in BOOLEAN, Due(polled) PROVE BeatInv'
    <2> DEFINE ingest == IF polled THEN <<"ingest">> ELSE << >>
               caught == IF ShouldCatchUp(polled) THEN CatchUp ELSE << >>
    <2>1. Moves("worker", ingest \o caught \o <<"beat">>)
      BY <1>0, <1>5, GoMoves DEF Due
    <2>2. ingest \in Seq(AfterWait) /\ caught \in Seq(AfterWait) /\ <<"beat">> \in Seq(AfterWait)
      <3>1. /\ <<"ingest">> \in Seq(AfterWait) /\ << >> \in Seq(AfterWait)
            /\ CatchUp \in Seq(AfterWait) /\ <<"beat">> \in Seq(AfterWait)
        BY DEF AfterWait, Phases, CatchUp
      <3> QED
        BY <3>1
    <2>3. (ingest \o caught \o <<"beat">>) \in Seq(AfterWait)
      BY <2>2
    <2>4. ClockTyped' /\ clock'.work = 0 /\ clock'.work <= clock'.beat
      BY <1>5, ZeroIsTyped, NumbersAssumption DEF Due, BeatInv, ClockTyped
    <2> HIDE DEF ingest, caught
    <2> QED
      BY <2>1, <2>3, <2>4, Arriving DEF Moves
  <1>6. CASE Launch
    <2>1. Moves("worker", Startup) /\ clock' = clock
      BY <1>0, <1>6, GoMoves DEF Launch
    <2> QED
      BY <1>k, <2>1, Arriving DEF Moves
  <1> QED
    BY <1>1, <1>2, <1>3, <1>4, <1>5, <1>6 DEF Loop

LEMMA NextBeat == BeatInv /\ [Next]_vars => BeatInv'
  <1> SUFFICES ASSUME BeatInv, [Next]_vars PROVE BeatInv'
    OBVIOUS
  <1>1. ASSUME NEW p \in Procs, Fail(p) PROVE BeatInv'
    BY <1>1, ExceptionsKeep DEF Fail
  <1>2. CASE Outage
    BY <1>2, ExceptionsKeep DEF Outage
  <1>3. ASSUME NEW p \in Procs, Crash(p) PROVE BeatInv'
    <2>1. Moves(p, << >>) /\ clock' = clock
      BY <1>3, GoMoves DEF Crash
    <2>2. ClockTyped' /\ clock'.work <= clock'.beat
      BY <2>1 DEF BeatInv, ClockTyped, BeatsFollowWork
    <2>3. CASE p = "worker"
      <3>1. DOMAIN plan' = Procs /\ plan'["worker"] = << >> /\ << >> \in Seq(AfterWait)
        BY <2>1, <2>3 DEF Moves
      <3> QED
        BY <2>2, <3>1, Arriving
    <2>4. CASE p = "cli"
      <3>1. DOMAIN plan' = Procs /\ plan'["worker"] = plan["worker"]
        BY <2>1, <2>4 DEF Moves, Procs
      <3> QED
        BY <2>1, <3>1, Elsewhere
    <2> QED
      BY <2>3, <2>4 DEF Procs
  <1>4. ASSUME NEW c \in Commands, Command(c) PROVE BeatInv'
    BY <1>4, Elsewhere DEF Command, BeatInv, Procs
  <1>5. ASSUME NEW state \in LexiconStates, EditLexicon(state) PROVE BeatInv'
    BY <1>5, Elsewhere DEF EditLexicon, procs, BeatInv
  <1>6. CASE Stop \/ Recover \/ UNCHANGED vars
    BY <1>6, Elsewhere DEF Stop, Recover, vars, procs, BeatInv
  <1> QED
    BY <1>1, <1>2, <1>3, <1>4, <1>5, <1>6, StepBeat, LoopBeat, ElapseBeat DEF Next

\* "Beat only after a cycle SUCCEEDS" (run_forever, health.beat): the worker
\* never beats later than its last successful transaction, whatever phase of
\* the start, a poll or a catch-up raises, dies or finds no database.
THEOREM BeatsComeFromWork == Spec => []BeatsFollowWork
  <1>1. BeatInv => BeatsFollowWork
    BY DEF BeatInv
  <1> QED
    BY <1>1, InitBeat, NextBeat, PTL DEF Spec

-----------------------------------------------------------------------------
(* The types.                                                              *)

RowsTyped ==
    /\ tables \in BOOLEAN /\ cut \in BOOLEAN
    /\ stored \subseteq Ids /\ grouped \subseteq stored
    /\ grade \in [Ids -> 0..(MaxEdits + 1)] /\ counted \in [Ids -> Nat]
    /\ again \in [Ids -> Nat] /\ nextId \in 1..(MaxId + 1)
PlansTyped ==
    /\ mode \in {"dead", "starting", "looping", "stopped"}
    /\ plan \in [Procs -> Seq(Phases)] /\ work \in [Procs -> Locals]
RestTyped ==
    /\ db \in BOOLEAN /\ stop \in BOOLEAN
    /\ files \in [version : 1..(MaxEdits + 1), lexicon : {"good", "invalid", "unreadable"}]
    /\ bounds \in [faults : 0..MaxFaults, edits : 0..MaxEdits, commands : 0..MaxCommands]
TimesTyped ==
    clock \in [beat : 0..(MaxAge + 1), work : 0..(MaxAge + 1), idle : 0..CatchUpEvery]

\* The version of the lexicon file counts its edits, and so stays in bounds.
VersionIs == files.version = bounds.edits + 1

TypeInv == RowsTyped /\ PlansTyped /\ RestTyped /\ TimesTyped /\ VersionIs

LEMMA TypeInvIsTypeOK == TypeInv => TypeOK
  BY DEF TypeInv, RowsTyped, PlansTyped, RestTyped, TimesTyped, TypeOK

LEMMA NumbersAreTyped ==
  /\ 0 \in 0..(MaxEdits + 1) /\ 0 \in 0..MaxId /\ 0 \in 0..CatchUpEvery /\ Ids \subseteq 0..MaxId
  /\ MaxEdits \in Nat /\ MaxFaults \in Nat /\ MaxCommands \in Nat /\ MaxId \in Nat /\ MaxAge \in Nat
  /\ CatchUpEvery \in Nat \ {0}
  BY NumbersAssumption DEF Ids

LEMMA NoWorkIsTyped == NoWork \in Locals
  BY NumbersAreTyped DEF NoWork, Locals

LEMMA BegunIsTyped == ASSUME TypeInv, NEW phases PROVE Begun(phases) \in Locals
  <1>1. stored \subseteq Ids
    BY DEF TypeInv, RowsTyped
  <1> QED
    BY <1>1, NoWorkIsTyped DEF Begun, Locals

LEMMA GoTyped ==
  ASSUME TypeInv, NEW p \in Procs, NEW phases \in Seq(Phases), Go(p, phases)
  PROVE  plan' \in [Procs -> Seq(Phases)] /\ work' \in [Procs -> Locals]
  BY BegunIsTyped DEF TypeInv, PlansTyped, Go

LEMMA HoldTyped ==
  ASSUME PlansTyped, NEW p \in Procs, NEW locals \in Locals, Hold(p, locals)
  PROVE  plan' \in [Procs -> Seq(Phases)] /\ work' \in [Procs -> Locals]
  BY DEF PlansTyped, Hold

LEMMA TailTyped ==
  ASSUME PlansTyped, NEW p \in Procs, Busy(p)
  PROVE  Tail(plan[p]) \in Seq(Phases)
  BY DEF PlansTyped, Busy

LEMMA PlansOfCode ==
  /\ CatchUp \in Seq(Phases) /\ << >> \in Seq(Phases) /\ <<"beat">> \in Seq(Phases)
  /\ <<"create">> \in Seq(Phases) /\ <<"seed">> \in Seq(Phases)
  /\ <<"ingest">> \in Seq(Phases) /\ <<"due">> \in Seq(Phases)
  /\ \A c \in Commands : CommandPlan(c) \in Seq(Phases)
  <1>1. /\ <<"check">> \in Seq(Phases) /\ <<"ingest", "group">> \in Seq(Phases)
        /\ <<"recount", "group">> \in Seq(Phases) /\ <<"lexicon", "grade">> \in Seq(Phases)
    BY DEF Phases
  <1>2. \A c \in Commands : CommandPlan(c) \in Seq(Phases)
    BY <1>1 DEF CommandPlan
  <1>3. CatchUp \in Seq(Phases)
    BY DEF CatchUp, Phases
  <1>4. /\ << >> \in Seq(Phases) /\ <<"beat">> \in Seq(Phases)
        /\ <<"create">> \in Seq(Phases) /\ <<"seed">> \in Seq(Phases)
        /\ <<"ingest">> \in Seq(Phases) /\ <<"due">> \in Seq(Phases)
    BY DEF Phases
  <1> QED
    BY <1>2, <1>3, <1>4

\* What an exception leaves of the plans.
LEMMA RaiseTyped ==
  ASSUME TypeInv, NEW failing, Raise(failing)
  PROVE  PlansTyped' /\ cut' \in BOOLEAN
  <1>1. ASSUME NEW p \in Procs PROVE AfterFailure(p) \in Seq(Phases) /\ RolledBack(p) \in Locals
    <2>1. plan[p] \in Seq(Phases) /\ work[p] \in Locals
      BY DEF TypeInv, PlansTyped
    <2>2. [work[p] EXCEPT !.open = FALSE, !.rows = {}, !.lex = 0] \in Locals
      BY <2>1, NumbersAreTyped DEF Locals
    <2> QED
      BY <2>1, <2>2, BegunIsTyped DEF AfterFailure, RolledBack
  <1>2. plan' \in [Procs -> Seq(Phases)]
    BY <1>1, PlansOfCode DEF TypeInv, PlansTyped, Raise
  <1>3. work' \in [Procs -> Locals]
    BY <1>1 DEF TypeInv, PlansTyped, Raise
  <1> QED
    BY <1>2, <1>3 DEF TypeInv, PlansTyped, RowsTyped, Raise

LEMMA WorkedTyped ==
  ASSUME TimesTyped, clock' = clock \/ Resets
  PROVE  TimesTyped'
  <1> DEFINE once == [clock EXCEPT !.work = 0]
             both == [clock EXCEPT !.work = 0, !.beat = 0]
  <1>1. /\ once \in [beat : 0..(MaxAge + 1), work : 0..(MaxAge + 1), idle : 0..CatchUpEvery]
        /\ both \in [beat : 0..(MaxAge + 1), work : 0..(MaxAge + 1), idle : 0..CatchUpEvery]
    BY ZeroIsTyped DEF TimesTyped
  <1>2. clock' = clock \/ clock' = once \/ clock' = both
    BY DEF Resets
  <1> HIDE DEF once, both
  <1> QED
    BY <1>1, <1>2 DEF TimesTyped

LEMMA SleptTyped ==
  ASSUME TimesTyped, clock' = Ticked
  PROVE  TimesTyped'
  <1>1. ASSUME NEW most \in Nat, NEW n \in 0..(most + 1) PROVE Later(n, most) \in 0..(most + 1)
    BY DEF Later
  <1>2. Later(clock.beat, MaxAge) \in 0..(MaxAge + 1) /\ Later(clock.work, MaxAge) \in 0..(MaxAge + 1)
    BY <1>1, NumbersAreTyped DEF TimesTyped
  <1>3. Later(clock.idle, CatchUpEvery - 1) \in 0..CatchUpEvery
    BY NumbersAreTyped DEF TimesTyped, Later
  <1>4. Ticked \in [beat : 0..(MaxAge + 1), work : 0..(MaxAge + 1), idle : 0..CatchUpEvery]
    BY <1>2, <1>3 DEF Ticked
  <1> QED
    BY <1>4 DEF TimesTyped

\* Steps that touch neither the outside nor the bounds.
LEMMA RestKept ==
  ASSUME TypeInv, RowsTyped', PlansTyped', TimesTyped', UNCHANGED <<outside, bounds>>
  PROVE  TypeInv'
  BY DEF TypeInv, RestTyped, VersionIs, outside

LEMMA RowsKept == ASSUME TypeInv, UNCHANGED data PROVE RowsTyped'
  BY DEF TypeInv, RowsTyped, data

LEMMA FirstIdsAre == ASSUME NEW ids, NEW n PROVE FirstIds(ids, n) \subseteq ids
  BY DEF FirstIds

LEMMA InitType == Init => TypeInv
  <1> SUFFICES ASSUME Init PROVE TypeInv
    OBVIOUS
  <1>1. PICK n \in 0..MaxOld : stored = 1..n /\ nextId = n + 1
    BY DEF Init
  <1>2. RowsTyped
    <2>1. n \in Nat /\ n <= MaxId
      BY NumbersAssumption
    <2>2. stored \subseteq Ids /\ nextId \in 1..(MaxId + 1)
      BY <1>1, <2>1, NumbersAreTyped DEF Ids
    <2> QED
      BY <2>2, NumbersAreTyped DEF Init, RowsTyped
  <1>3. PlansTyped
    BY NoWorkIsTyped, PlansOfCode DEF Init, PlansTyped
  <1>4. RestTyped /\ VersionIs
    <2>1. PICK state \in LexiconStates : files = [version |-> 1, lexicon |-> state]
      BY DEF Init
    <2>2. state \in {"good", "invalid", "unreadable"} /\ 1 \in 1..(MaxEdits + 1)
      BY StatesAssumption, NumbersAreTyped
    <2>3. bounds = [faults |-> 0, edits |-> 0, commands |-> 0]
      BY DEF Init
    <2>4. 0 \in 0..MaxFaults /\ 0 \in 0..MaxEdits /\ 0 \in 0..MaxCommands
      BY NumbersAreTyped
    <2>5. files \in [version : 1..(MaxEdits + 1), lexicon : {"good", "invalid", "unreadable"}]
      BY <2>1, <2>2
    <2>6. bounds \in [faults : 0..MaxFaults, edits : 0..MaxEdits, commands : 0..MaxCommands]
      BY <2>3, <2>4
    <2>7. db \in BOOLEAN /\ stop \in BOOLEAN
      BY DEF Init
    <2>8. VersionIs
      BY <2>1, <2>3 DEF VersionIs
    <2> QED
      BY <2>5, <2>6, <2>7, <2>8 DEF RestTyped
  <1>5. TimesTyped
    BY NumbersAreTyped DEF Init, TimesTyped
  <1> QED
    BY <1>2, <1>3, <1>4, <1>5 DEF TypeInv

\* A step of a process that leaves the tables alone, or types them itself.
LEMMA GoesOn ==
  ASSUME TypeInv, NEW p \in Procs, NEW phases \in Seq(Phases), Go(p, phases), mode' = mode,
         RowsTyped', clock' = clock \/ Resets, UNCHANGED <<outside, bounds>>
  PROVE  TypeInv'
  BY GoTyped, WorkedTyped, RestKept DEF TypeInv, PlansTyped

LEMMA Holds ==
  ASSUME TypeInv, NEW p \in Procs, NEW locals \in Locals, Hold(p, locals), mode' = mode,
         RowsTyped', clock' = clock \/ Resets, UNCHANGED <<outside, bounds>>
  PROVE  TypeInv'
  BY HoldTyped, WorkedTyped, RestKept DEF TypeInv, PlansTyped

\* Reading: the transactions that begin.
LEMMA OpeningTyped ==
  ASSUME TypeInv, NEW p \in Procs,
         OpenRecount(p) \/ OpenGrades(p) \/ TakeLock(p) \/ \E i \in Ids : OpenIngest(p, i)
  PROVE  TypeInv'
  <1>1. work[p] \in Locals /\ stored \subseteq Ids
    BY DEF TypeInv, PlansTyped, RowsTyped
  <1>2. CASE OpenRecount(p)
    <2>1. [work[p] EXCEPT !.open = TRUE, !.rows = stored] \in Locals
      BY <1>1 DEF Locals
    <2> QED
      BY <1>2, <2>1, RowsKept, Holds DEF OpenRecount
  <1>3. CASE OpenGrades(p)
    <2>1. FirstIds(ToAnalyse(p), Batch) \subseteq Ids
      BY <1>1, FirstIdsAre DEF ToAnalyse
    <2>2. [work[p] EXCEPT !.open = TRUE, !.rows = FirstIds(ToAnalyse(p), Batch)] \in Locals
      BY <1>1, <2>1 DEF Locals
    <2> QED
      BY <1>3, <2>2, RowsKept, Holds DEF OpenGrades
  <1>4. CASE TakeLock(p)
    <2>1. [work[p] EXCEPT !.open = TRUE] \in Locals
      BY <1>1 DEF Locals
    <2> QED
      BY <1>4, <2>1, RowsKept, Holds DEF TakeLock
  <1>5. ASSUME NEW i \in Ids, OpenIngest(p, i) PROVE TypeInv'
    <2> DEFINE lex == IF files.lexicon = "good" THEN files.version ELSE 0
               new == p = "cli"
    <2>1. lex \in 0..(MaxEdits + 1) /\ new \in BOOLEAN
      BY <1>5, NumbersAreTyped DEF TypeInv, RestTyped
    <2>2. [work[p] EXCEPT !.open = TRUE, !.rows = {i}, !.new = new, !.lex = lex] \in Locals
      <3> HIDE DEF lex, new
      <3> QED
        BY <1>1, <2>1 DEF Locals
    <2>3. RowsTyped'
      <3>1. nextId' = (IF i = nextId THEN nextId + 1 ELSE nextId)
        BY <1>5 DEF OpenIngest
      <3>2. nextId' \in 1..(MaxId + 1)
        BY <3>1, NumbersAreTyped DEF TypeInv, RowsTyped, Ids
      <3> QED
        BY <1>5, <3>2 DEF OpenIngest, TypeInv, RowsTyped
    <2> QED
      BY <1>5, <2>2, <2>3, Holds DEF OpenIngest
  <1> QED
    BY <1>2, <1>3, <1>4, <1>5

\* Writing: the transactions that commit.
LEMMA CommitsTyped ==
  ASSUME TypeInv, NEW p \in Procs,
         CommitRecount(p) \/ CommitGrades(p) \/ GroupBatch(p) \/ CommitIngest(p)
  PROVE  TypeInv'
  <1>1. work[p] \in Locals /\ work[p].rows \subseteq Ids /\ work[p].lex \in 0..(MaxEdits + 1)
    BY DEF TypeInv, PlansTyped, Locals
  <1>2. CASE CommitRecount(p)
    <2>1. RowsTyped'
      BY <1>2 DEF CommitRecount, TypeInv, RowsTyped
    <2> QED
      BY <1>2, <2>1, TailTyped, GoesOn, WorkedResets DEF CommitRecount, Recounts, At, TypeInv
  <1>3. CASE CommitGrades(p)
    <2>1. RowsTyped'
      BY <1>1, <1>3 DEF CommitGrades, TypeInv, RowsTyped
    <2>2. PICK last \in work[p].rows :
            Hold(p, [work[p] EXCEPT !.open = FALSE, !.rows = {}, !.after = last])
      BY <1>3 DEF CommitGrades
    <2>3. [work[p] EXCEPT !.open = FALSE, !.rows = {}, !.after = last] \in Locals
      BY <1>1, NumbersAreTyped DEF Locals
    <2>4. clock' = clock \/ Resets
      BY <1>3 DEF CommitGrades, Resets
    <2> QED
      BY <1>3, <2>1, <2>2, <2>3, <2>4, Holds DEF CommitGrades
  <1>4. CASE GroupBatch(p)
    <2>1. RowsTyped'
      BY <1>4, FirstIdsAre DEF GroupBatch, TypeInv, RowsTyped
    <2>2. TimesTyped'
      BY <1>4, WorkedTyped DEF GroupBatch, Resets, TypeInv
    <2> QED
      BY <1>4, <2>1, <2>2, RestKept DEF GroupBatch, procs, TypeInv, PlansTyped
  <1>5. CASE CommitIngest(p)
    <2>1. /\ stored' \subseteq Ids /\ grouped' \subseteq stored'
          /\ counted' \in [Ids -> Nat] /\ again' \in [Ids -> Nat]
          /\ grade' \in [Ids -> 0..(MaxEdits + 1)]
      BY <1>1, <1>5 DEF CommitIngest, TypeInv, RowsTyped
    <2>2. cut' \in BOOLEAN
      BY <1>5 DEF CommitIngest, TypeInv, RowsTyped, RecountOpen
    <2>3. RowsTyped'
      BY <1>5, <2>1, <2>2 DEF CommitIngest, TypeInv, RowsTyped
    <2> DEFINE locals == [work[p] EXCEPT !.open = FALSE, !.rows = {}, !.lex = 0,
                                         !.seen = @ \cup (work[p].rows \cap stored)]
    <2>4. locals \in Locals
      BY <1>1, NumbersAreTyped DEF Locals
    <2>5. Hold(p, locals) /\ mode' = mode /\ UNCHANGED <<outside, bounds>> /\ Worked(p)
      BY <1>5 DEF CommitIngest
    <2> HIDE DEF locals
    <2> QED
      BY <2>3, <2>4, <2>5, WorkedResets, Holds
  <1> QED
    BY <1>2, <1>3, <1>4, <1>5

LEMMA LoadLexiconTyped == ASSUME TypeInv, NEW p \in Procs, LoadLexicon(p) PROVE TypeInv'
  <1>1. CASE files.lexicon = "good"
    <2> DEFINE sure == {i \in stored : work[p].all /\ grade[i] # 0 /\ ~InHand(p, i)}
               locals == [Begun(Tail(plan[p])) EXCEPT !.all = work[p].all, !.lex = files.version,
                                                      !.sure = sure]
    <2>1. work[p] \in Locals /\ stored \subseteq Ids /\ files.version \in 0..(MaxEdits + 1)
      BY NumbersAreTyped DEF TypeInv, PlansTyped, RowsTyped, RestTyped
    <2>2. locals \in Locals
      <3>1. sure \subseteq Ids
        BY <2>1
      <3> HIDE DEF sure
      <3> QED
        BY <2>1, <3>1, BegunIsTyped DEF Locals
    <2>3. work' = [work EXCEPT ![p] = locals] /\ plan' = [plan EXCEPT ![p] = Tail(@)]
      BY <1>1 DEF LoadLexicon, TypeInv, PlansTyped
    <2> HIDE DEF locals
    <2>4. PlansTyped'
      BY <1>1, <2>2, <2>3, TailTyped DEF LoadLexicon, At, TypeInv, PlansTyped
    <2>5. RowsTyped' /\ TimesTyped'
      BY <1>1 DEF LoadLexicon, TypeInv, RowsTyped, TimesTyped
    <2> QED
      BY <2>4, <2>5, RestKept DEF LoadLexicon
  <1>2. CASE files.lexicon # "good"
    <2>1. PlansTyped' /\ cut' \in BOOLEAN
      BY <1>2, RaiseTyped DEF LoadLexicon
    <2>2. RowsTyped' /\ TimesTyped'
      BY <2>1 DEF LoadLexicon, TypeInv, RowsTyped, TimesTyped
    <2> QED
      BY <2>1, <2>2, RestKept DEF LoadLexicon
  <1> QED
    BY <1>1, <1>2

LEMMA StepTyped == ASSUME TypeInv, NEW p \in Procs, Step(p) PROVE TypeInv'
  <1>1. CASE CheckTables(p)
    <2> DEFINE seed == IF tables THEN << >> ELSE <<"seed">>
    <2>1. Tail(plan[p]) \in Seq(Phases) /\ seed \in Seq(Phases) /\ <<"create">> \in Seq(Phases)
      BY <1>1, TailTyped, PlansOfCode DEF CheckTables, Enter, At, TypeInv
    <2>2. (<<"create">> \o seed \o Tail(plan[p])) \in Seq(Phases)
      <3> HIDE DEF seed
      <3> QED
        BY <2>1
    <2> QED
      BY <1>1, <2>2, GoesOn, RowsKept, WorkedResets DEF CheckTables
  <1>2. CASE CreateTables(p)
    <2>1. RowsTyped'
      BY <1>2 DEF CreateTables, TypeInv, RowsTyped
    <2> QED
      BY <1>2, <2>1, TailTyped, GoesOn, WorkedResets DEF CreateTables, Enter, At, TypeInv
  <1>3. CASE FinishGrades(p) \/ LeaveGroup(p)
    BY <1>3, TailTyped, GoesOn, RowsKept, WorkedResets
    DEF FinishGrades, LeaveGroup, Enter, At, TypeInv
  <1>4. CASE FinishIngest(p)
    <2>1. (IF p = "cli" /\ ~work[p].new THEN << >> ELSE Tail(plan[p])) \in Seq(Phases)
      BY <1>4, TailTyped, PlansOfCode DEF FinishIngest, At, TypeInv
    <2> QED
      BY <1>4, <2>1, GoesOn, RowsKept DEF FinishIngest
  <1>5. CASE FailNotReady(p)
    <2>1. PlansTyped' /\ cut' \in BOOLEAN
      BY <1>5, RaiseTyped DEF FailNotReady
    <2>2. RowsTyped' /\ TimesTyped'
      BY <1>5, <2>1 DEF FailNotReady, TypeInv, RowsTyped, TimesTyped
    <2> QED
      BY <1>5, <2>1, <2>2, RestKept DEF FailNotReady
  <1> QED
    BY <1>1, <1>2, <1>3, <1>4, <1>5, OpeningTyped, CommitsTyped, LoadLexiconTyped DEF Step

LEMMA ElapseTyped == ASSUME TypeInv, Elapse PROVE TypeInv'
  <1>1. Later(clock.beat, MaxAge) \in 0..(MaxAge + 1)
    BY NumbersAreTyped DEF TypeInv, TimesTyped, Later
  <1>2. TimesTyped'
    BY <1>1 DEF Elapse, TypeInv, TimesTyped
  <1> QED
    BY <1>2, RowsKept, RestKept DEF Elapse, procs, TypeInv, PlansTyped

LEMMA LoopTyped == ASSUME TypeInv, Loop \/ Launch PROVE TypeInv'
  <1>0. "worker" \in Procs
    BY DEF Procs
  <1>1. CASE LeaveWait
    <2>1. (IF stop THEN << >> ELSE Tail(plan["worker"])) \in Seq(Phases)
      BY <1>0, <1>1, TailTyped, PlansOfCode DEF LeaveWait, At, TypeInv
    <2> QED
      BY <1>0, <1>1, <2>1, GoTyped, RowsKept, RestKept DEF LeaveWait, TypeInv, PlansTyped, TimesTyped
  <1>2. CASE Retry
    BY <1>2, SleptTyped, RowsKept, RestKept DEF Retry, procs, TypeInv, PlansTyped
  <1>3. CASE Beat
    <2>1. (IF mode = "starting" /\ ~stop THEN <<"due">> ELSE << >>) \in Seq(Phases)
      BY PlansOfCode
    <2>2. PlansTyped'
      BY <1>0, <1>3, <2>1, GoTyped DEF Beat, TypeInv, PlansTyped
    <2>3. TimesTyped'
      BY <1>3, ZeroIsTyped, NumbersAreTyped DEF Beat, TypeInv, TimesTyped
    <2> QED
      BY <1>3, <2>2, <2>3, RowsKept, RestKept DEF Beat
  <1>4. CASE Sleep
    <2>1. (IF stop THEN << >> ELSE <<"due">>) \in Seq(Phases)
      BY PlansOfCode
    <2>2. PlansTyped'
      BY <1>0, <1>4, <2>1, GoTyped DEF Sleep, TypeInv, PlansTyped
    <2> QED
      BY <1>4, <2>2, SleptTyped, RowsKept, RestKept DEF Sleep, TypeInv
  <1>5. ASSUME NEW polled \in BOOLEAN, Due(polled) PROVE TypeInv'
    <2> DEFINE ingest == IF polled THEN <<"ingest">> ELSE << >>
               caught == IF ShouldCatchUp(polled) THEN CatchUp ELSE << >>
    <2>1. ingest \in Seq(Phases) /\ caught \in Seq(Phases) /\ <<"beat">> \in Seq(Phases)
      BY PlansOfCode
    <2>2. (ingest \o caught \o <<"beat">>) \in Seq(Phases)
      <3> HIDE DEF ingest, caught
      <3> QED
        BY <2>1
    <2>3. PlansTyped'
      BY <1>0, <1>5, <2>2, GoTyped DEF Due, TypeInv, PlansTyped
    <2>4. TimesTyped'
      BY <1>5, ZeroIsTyped, NumbersAreTyped DEF Due, TypeInv, TimesTyped
    <2> QED
      BY <1>5, <2>3, <2>4, RowsKept, RestKept DEF Due
  <1>6. CASE Launch
    BY <1>0, <1>6, StartupIs, GoTyped, RowsKept, RestKept
    DEF Launch, TypeInv, PlansTyped, TimesTyped
  <1> QED
    BY <1>1, <1>2, <1>3, <1>4, <1>5, <1>6 DEF Loop

\* Faults count themselves.
LEMMA FaultTyped ==
  ASSUME TypeInv, Fault
  PROVE  /\ bounds'.edits = bounds.edits
         /\ bounds' \in [faults : 0..MaxFaults, edits : 0..MaxEdits, commands : 0..MaxCommands]
  <1>1. bounds.faults + 1 \in 0..MaxFaults
    BY NumbersAreTyped DEF TypeInv, RestTyped, Fault
  <1> QED
    BY <1>1 DEF TypeInv, RestTyped, Fault

LEMMA FaultsTyped ==
  ASSUME TypeInv, (\E p \in Procs : Fail(p) \/ Crash(p)) \/ Outage
  PROVE  TypeInv'
  <1>1. RestTyped' /\ VersionIs'
    <2>1. CASE \E p \in Procs : Fail(p) \/ Crash(p)
      BY <2>1, FaultTyped DEF Fail, Crash, outside, TypeInv, RestTyped, VersionIs
    <2>2. CASE Outage
      BY <2>2, FaultTyped DEF Outage, TypeInv, RestTyped, VersionIs
    <2> QED
      BY <2>1, <2>2
  <1>2. PlansTyped' /\ cut' \in BOOLEAN
    <2>1. ASSUME NEW failing, Raise(failing) PROVE PlansTyped' /\ cut' \in BOOLEAN
      BY <2>1, RaiseTyped
    <2>2. ASSUME NEW p \in Procs, Crash(p) PROVE PlansTyped' /\ cut' \in BOOLEAN
      <3>1. plan' \in [Procs -> Seq(Phases)] /\ work' \in [Procs -> Locals]
        BY <2>2, GoTyped, PlansOfCode DEF Crash
      <3> QED
        BY <2>2, <3>1 DEF Crash, TypeInv, PlansTyped, RowsTyped, Pending
    <2> QED
      BY <2>1, <2>2 DEF Fail, Outage
  <1>3. RowsTyped' /\ TimesTyped'
    BY <1>2 DEF Fail, Crash, Outage, TypeInv, RowsTyped, TimesTyped
  <1> QED
    BY <1>1, <1>2, <1>3 DEF TypeInv

LEMMA CommandTyped == ASSUME TypeInv, NEW c \in Commands, Command(c) PROVE TypeInv'
  <1>1. [Begun(CommandPlan(c)) EXCEPT !.all = (c = "analyse")] \in Locals
    BY BegunIsTyped DEF Locals
  <1>2. PlansTyped'
    BY <1>1, PlansOfCode DEF Command, TypeInv, PlansTyped
  <1>3. bounds.commands + 1 \in 0..MaxCommands
    BY NumbersAreTyped DEF Command, TypeInv, RestTyped
  <1>4. RestTyped' /\ VersionIs'
    BY <1>3 DEF Command, outside, TypeInv, RestTyped, VersionIs
  <1> QED
    BY <1>2, <1>4, RowsKept DEF Command, TypeInv, TimesTyped

LEMMA EditTyped == ASSUME TypeInv, NEW state \in LexiconStates, EditLexicon(state) PROVE TypeInv'
  <1>1. /\ bounds.edits + 1 \in 0..MaxEdits /\ files.version + 1 \in 1..(MaxEdits + 1)
    BY NumbersAreTyped DEF EditLexicon, TypeInv, RestTyped, VersionIs
  <1>2. RestTyped' /\ VersionIs'
    BY <1>1, StatesAssumption DEF EditLexicon, TypeInv, RestTyped, VersionIs
  <1> QED
    BY <1>2, RowsKept DEF EditLexicon, procs, TypeInv, PlansTyped, TimesTyped

LEMMA NextType == TypeInv /\ [Next]_vars => TypeInv'
  <1> SUFFICES ASSUME TypeInv, [Next]_vars PROVE TypeInv'
    OBVIOUS
  <1>1. CASE Stop \/ Recover \/ UNCHANGED vars
    BY <1>1, RowsKept
    DEF Stop, Recover, vars, procs, outside, TypeInv, PlansTyped, TimesTyped, RestTyped, VersionIs
  <1> QED
    BY <1>1, StepTyped, LoopTyped, ElapseTyped, FaultsTyped, CommandTyped, EditTyped DEF Next

\* No step of the worker, a command or an operator takes a table, a plan or a
\* clock out of its type: the plans an exception cuts stay plans, no article
\* has a story that is not stored, and no grade names a lexicon that never was.
THEOREM WorkerTypeCorrect == Spec => []TypeOK
  BY InitType, NextType, TypeInvIsTypeOK, PTL DEF Spec

-----------------------------------------------------------------------------
(* Seeding.                                                                *)

\* create_all and the seeding it announces come first in what is left of a plan.
Placed(s) ==
    \A i \in DOMAIN s : /\ s[i] = "create" => i = 1
                        /\ s[i] = "seed" => i = 1 \/ (i = 2 /\ s[1] = "create")
Plain(s) == \A i \in DOMAIN s : s[i] \notin {"create", "seed"}

\* Tables that are to be created are seeded afterwards.
SeedFollows(p) == At(p, "create") /\ ~tables => Pending(p, "seed")

\* A recount still sees everything that is stored, or an increment was lost.
RecountsAll(p) == Recounting(p) => tables /\ (cut \/ work[p].rows = stored)

SeedInv ==
    /\ TypeInv /\ CountInv
    /\ \A p \in Procs : Placed(plan[p]) /\ SeedFollows(p) /\ RecountsAll(p)
    /\ mode = "dead" => ~Busy("worker")
    /\ SeededUnlessCut

LEMMA PlainIsPlaced == ASSUME NEW s, Plain(s) PROVE Placed(s)
  BY DEF Plain, Placed

\* What is left when the head of a plan is done, or fails.
LEMMA PlacedTail ==
  ASSUME NEW s \in Seq(Phases), s # << >>, Placed(s)
  PROVE  /\ Placed(Tail(s)) /\ (Head(s) # "create" => Plain(Tail(s)))
         /\ Head(s) \notin {"create", "seed"} => Plain(s)
  <1>1. /\ Len(s) \in Nat \ {0} /\ Len(Tail(s)) = Len(s) - 1 /\ DOMAIN s = 1..Len(s)
        /\ DOMAIN Tail(s) = 1..Len(Tail(s)) /\ Head(s) = s[1]
        /\ \A i \in DOMAIN Tail(s) : Tail(s)[i] = s[i + 1]
    OBVIOUS
  <1> DEFINE t == Tail(s)
  <1> HIDE DEF t
  <1>2. ASSUME NEW i \in DOMAIN t PROVE i + 1 \in DOMAIN s /\ t[i] = s[i + 1] /\ i + 1 # 1
    BY <1>1 DEF t
  <1>3. \A i \in DOMAIN t : t[i] # "create" /\ (t[i] = "seed" => i = 1 /\ s[1] = "create")
    BY <1>1, <1>2 DEF Placed, t
  <1>4. Placed(t) /\ (s[1] # "create" => Plain(t))
    BY <1>3 DEF Placed, Plain
  <1>5. s[1] \notin {"create", "seed"} => Plain(s)
    BY <1>1 DEF Placed, Plain
  <1> QED
    BY <1>1, <1>4, <1>5 DEF t

LEMMA PlacedSubSeq ==
  ASSUME NEW s \in Seq(Phases), Placed(s), NEW m \in {2, 3}
  PROVE  /\ Placed(SubSeq(s, m, Len(s)))
         /\ SubSeq(s, m, Len(s)) # << >> => Head(SubSeq(s, m, Len(s))) # "create"
  <1> DEFINE t == SubSeq(s, m, Len(s))
  <1>1. \A i \in DOMAIN t : i \in Nat \ {0} /\ i + m - 1 \in DOMAIN s /\ t[i] = s[i + m - 1]
    OBVIOUS
  <1> HIDE DEF t
  <1>2. \A i \in DOMAIN t : t[i] # "create" /\ (t[i] = "seed" => i = 1)
    BY <1>1 DEF Placed
  <1>3. Placed(t)
    BY <1>2 DEF Placed
  <1>4. t \in Seq(Phases)
    BY DEF t
  <1>5. t # << >> => 1 \in DOMAIN t /\ Head(t) = t[1]
    BY <1>4
  <1> QED
    BY <1>2, <1>3, <1>5 DEF t

LEMMA PlainJoin ==
  ASSUME NEW s \in Seq(Phases), NEW t \in Seq(Phases), Plain(s), Plain(t)
  PROVE  Plain(s \o t) /\ s \o t \in Seq(Phases)
  <1>1. \A i \in DOMAIN (s \o t) : (s \o t)[i] \in {s[j] : j \in DOMAIN s} \cup {t[j] : j \in DOMAIN t}
    OBVIOUS
  <1> QED
    BY <1>1 DEF Plain

LEMMA PlainPlans ==
  /\ Plain(<< >>) /\ Plain(CatchUp) /\ Plain(<<"beat">>) /\ Plain(<<"due">>) /\ Plain(<<"ingest">>)
  /\ Plain(Startup) /\ \A c \in Commands : Plain(CommandPlan(c))
  <1>1. /\ Plain(<< >>) /\ Plain(<<"beat">>) /\ Plain(<<"due">>) /\ Plain(<<"ingest">>)
        /\ Plain(<<"check">>) /\ Plain(<<"ingest", "group">>) /\ Plain(<<"recount", "group">>)
        /\ Plain(<<"lexicon", "grade">>) /\ Plain(<<"lexicon", "grade", "group">>)
        /\ Plain(<<"connect", "check">>)
    BY DEF Plain
  <1>2. \A c \in Commands : Plain(CommandPlan(c))
    BY <1>1 DEF CommandPlan
  <1>3. Plain(CatchUp)
    BY <1>1 DEF CatchUp
  <1>4. Plain(Startup)
    <2>1. <<"connect", "check">> \in Seq(Phases)
      BY DEF Phases
    <2>2. Plain((<<"connect", "check">> \o CatchUp) \o <<"beat">>)
      BY <1>1, <1>3, <2>1, PlansOfCode, PlainJoin
    <2> QED
      BY <2>2 DEF Startup
  <1> QED
    BY <1>1, <1>2, <1>3, <1>4

\* What a step that counts nothing may do to the seeding of p: keep it, or cut it.
Settled(p) ==
    /\ Placed(plan'[p]) /\ SeedFollows(p)'
    /\ Pending(p, "seed") => Pending(p, "seed")' \/ cut'
    /\ Recounting(p)' => Recounting(p) /\ work'[p].rows = work[p].rows

\* What every step keeps that leaves the tables and the mode of a dead worker.
Uncounted ==
    /\ TypeInv' /\ CountInv' /\ UNCHANGED <<tables, stored, counted, again>> /\ (cut => cut')
    /\ mode' = "dead" => ~Busy("worker")'

LEMMA SeedKept ==
  ASSUME SeedInv, Uncounted, \A p \in Procs : Settled(p)
  PROVE  SeedInv'
  <1>1. ASSUME NEW p \in Procs PROVE Placed(plan[p])' /\ SeedFollows(p)' /\ RecountsAll(p)'
    BY DEF SeedInv, Uncounted, Settled, RecountsAll
  <1>2. SeededUnlessCut'
    BY DEF SeedInv, Uncounted, Settled, SeededUnlessCut
  <1> QED
    BY <1>1, <1>2 DEF SeedInv, Uncounted

LEMMA SameIsSettled ==
  ASSUME SeedInv, tables' = tables, NEW p \in Procs, Same(p)
  PROVE  Settled(p)
  BY SameMeansSame DEF SeedInv, Same, Settled, SeedFollows, At, Busy, Pending

LEMMA PlainIsSettled ==
  ASSUME NEW p \in Procs, Plain(plan[p]), Plain(plan'[p]), plan'[p] \in Seq(Phases), ~Recounting(p)'
  PROVE  Settled(p)
  <1>1. ~Pending(p, "seed")
    BY DEF Plain, Pending
  <1>2. ~At(p, "create")'
    BY DEF Plain, At, Busy
  <1> QED
    BY <1>1, <1>2, PlainIsPlaced DEF Settled, SeedFollows

\* Where the heads of plans are.
LEMMA PlansBegin ==
  ASSUME SeedInv, NEW p \in Procs
  PROVE  /\ plan[p] \in Seq(Phases) /\ Placed(plan[p])
         /\ ~Busy(p) => Plain(plan[p])
         /\ Busy(p) => Tail(plan[p]) \in Seq(Phases) /\ Placed(Tail(plan[p]))
         /\ Busy(p) /\ Head(plan[p]) # "create" => Plain(Tail(plan[p]))
         /\ Busy(p) /\ Head(plan[p]) \notin {"create", "seed"} => Plain(plan[p])
  <1>1. plan[p] \in Seq(Phases) /\ Placed(plan[p])
    BY DEF SeedInv, TypeInv, PlansTyped
  <1> QED
    BY <1>1, PlacedTail, PlainPlans DEF Busy

LEMMA GoesPlainly ==
  ASSUME SeedInv, Uncounted, NEW p \in Procs, NEW phases, Plain(plan[p]), Plain(phases),
         Go(p, phases)
  PROVE  SeedInv'
  <1>1. plan'[p] = phases /\ ~work'[p].open /\ \A q \in Procs \ {p} : Same(q)
    BY GoOne DEF SeedInv, CountInv, ProcsTyped, Go, Same
  <1>2. Settled(p)
    <2>1. plan'[p] \in Seq(Phases)
      BY DEF Uncounted, TypeInv, PlansTyped
    <2> QED
      BY <1>1, <2>1, PlainIsSettled DEF Recounting
  <1> QED
    BY <1>1, <1>2, SameIsSettled, SeedKept DEF Uncounted

LEMMA HoldsPlainly ==
  ASSUME SeedInv, Uncounted, NEW p \in Procs, plan' = plan, \A q \in Procs \ {p} : work'[q] = work[q],
         ~Recounting(p)' \/ work'[p] = work[p]
  PROVE  SeedInv'
  <1>1. \A q \in Procs \ {p} : Same(q)
    BY DEF Same
  <1>2. Settled(p)
    <2>1. CASE work'[p] = work[p]
      BY <2>1, SameIsSettled DEF Same, Uncounted
    <2>2. CASE ~Recounting(p)'
      BY <2>2 DEF SeedInv, Settled, SeedFollows, At, Busy, Pending, Uncounted
    <2> QED
      BY <2>1, <2>2
  <1> QED
    BY <1>1, <1>2, SameIsSettled, SeedKept DEF Uncounted

\* A dead worker does not come to life by what the command does.
LEMMA DeadStays ==
  ASSUME SeedInv, mode' = mode, NEW p \in Procs, p = "cli" \/ Busy(p),
         \A q \in Procs \ {p} : plan'[q] = plan[q]
  PROVE  mode' = "dead" => ~Busy("worker")'
  <1>1. CASE p = "worker"
    BY <1>1 DEF SeedInv
  <1>2. CASE p = "cli"
    BY <1>2 DEF SeedInv, Busy, Procs
  <1> QED
    BY <1>1, <1>2 DEF Procs

\* An exception keeps a seeding or cuts it off.
LEMMA RaiseSeeds ==
  ASSUME SeedInv, TypeInv', CountInv', NEW failing, Raise(failing),
         UNCHANGED <<tables, stored, counted, again>>
  PROVE  SeedInv'
  <1>1. ASSUME NEW p \in Procs PROVE Settled(p)
    <2>1. CASE p \notin failing
      BY <2>1, SameIsSettled DEF Raise, Same
    <2>2. CASE p \in failing
      <3>1. Pending(p, "seed") => cut'
        BY <2>2 DEF Raise
      <3>2. ~work'[p].open
        BY <2>2, Rolled DEF Raise, SeedInv, CountInv
      <3>3. Placed(plan'[p]) /\ ~At(p, "create")'
        <4>1. plan[p] \in Seq(Phases) /\ Placed(plan[p])
          BY PlansBegin
        <4>2. \/ plan'[p] = plan[p] /\ At(p, "ingest")
              \/ plan'[p] = << >> \/ \E m \in {2, 3} : plan'[p] = SubSeq(plan[p], m, Len(plan[p]))
          BY <2>2 DEF Raise, AfterFailure
        <4> QED
          BY <4>1, <4>2, PlacedSubSeq, PlainPlans, PlainIsPlaced DEF At, Busy
      <3> QED
        BY <3>1, <3>2, <3>3 DEF Settled, SeedFollows, Recounting
    <2> QED
      BY <2>1, <2>2
  <1>2. mode' = "dead" => ~Busy("worker")'
    <2>0. "worker" \in Procs
      BY DEF Procs
    <2>1. CASE \E p \in failing : Dies(p)
      BY <2>0, <2>1 DEF Raise, Dies, Busy
    <2>2. CASE (~ \E p \in failing : Dies(p)) /\ Busy("worker")
      BY <2>2 DEF Raise, SeedInv
    <2>3. CASE (~ \E p \in failing : Dies(p)) /\ ~Busy("worker")
      <3>1. plan["worker"] = << >>
        BY <2>3 DEF Busy
      <3>2. AfterFailure("worker") = << >>
        BY <3>1 DEF AfterFailure, At, Busy
      <3> QED
        BY <2>0, <2>3, <3>1, <3>2 DEF Raise, Busy
    <2> QED
      BY <2>1, <2>2, <2>3
  <1>3. Uncounted
    BY <1>2 DEF Uncounted, Raise
  <1> QED
    BY <1>1, <1>3, SeedKept

LEMMA PlainHead ==
  ASSUME NEW s \in Seq(Phases), Plain(s), s # << >>
  PROVE  Head(s) # "create"
  BY DEF Plain

LEMMA InitSeed == Init => SeedInv
  <1> SUFFICES ASSUME Init PROVE SeedInv
    OBVIOUS
  <1>1. \A p \in Procs : plan[p] = << >> /\ ~work[p].open
    BY NoWorkIsClosed DEF Init
  <1>2. \A p \in Procs : Placed(plan[p]) /\ SeedFollows(p) /\ RecountsAll(p)
    BY <1>1, PlainPlans, PlainIsPlaced DEF SeedFollows, At, Busy, RecountsAll, Recounting
  <1>3. ~tables /\ ~Busy("worker")
    BY <1>1 DEF Init, Busy, Procs
  <1> QED
    BY <1>2, <1>3, InitType, InitCount DEF SeedInv, SeededUnlessCut

LEMMA CheckTablesSeeds ==
  ASSUME SeedInv, TypeInv', CountInv', NEW p \in Procs, CheckTables(p)
  PROVE  SeedInv'
  <1> DEFINE seed == IF tables THEN << >> ELSE <<"seed">>
             rest == Tail(plan[p])
             next == <<"create">> \o seed \o rest
  <1>1. rest \in Seq(Phases) /\ Plain(rest) /\ Plain(plan[p])
    BY PlansBegin DEF CheckTables, Enter, At
  <1>2. /\ plan'[p] = next /\ ~work'[p].open /\ \A q \in Procs \ {p} : Same(q)
        /\ \A q \in Procs \ {p} : plan'[q] = plan[q]
    BY GoOne DEF CheckTables, SeedInv, CountInv, ProcsTyped, Go, Same
  <1>3. Placed(next) /\ (~tables => next[2] = "seed" /\ 2 \in DOMAIN next)
    <2>1. CASE tables
      <3>1. next = <<"create">> \o rest
        BY <2>1, <1>1
      <3> HIDE DEF rest, next
      <3>2. \A i \in DOMAIN next : i # 1 => i - 1 \in DOMAIN rest /\ next[i] = rest[i - 1]
        BY <1>1, <3>1
      <3> QED
        BY <1>1, <2>1, <3>2 DEF Placed, Plain
    <2>2. CASE ~tables
      <3>1. next = <<"create", "seed">> \o rest
        BY <2>2, <1>1
      <3> HIDE DEF rest, next
      <3>2. /\ next[1] = "create" /\ next[2] = "seed" /\ 2 \in DOMAIN next
            /\ \A i \in DOMAIN next : i \notin {1, 2} => i - 2 \in DOMAIN rest /\ next[i] = rest[i - 2]
        BY <1>1, <3>1
      <3> QED
        BY <1>1, <3>2 DEF Placed, Plain
    <2> QED
      BY <2>1, <2>2
  <1>4. Uncounted
    <2>1. mode' = "dead" => ~Busy("worker")'
      BY <1>2, DeadStays DEF CheckTables, Enter, At
    <2> QED
      BY <2>1 DEF CheckTables, data, Uncounted
  <1> HIDE DEF next
  <1>5. Settled(p)
    <2>1. ~Pending(p, "seed")
      BY <1>1 DEF Plain, Pending
    <2>2. SeedFollows(p)'
      BY <1>2, <1>3, <1>4 DEF SeedFollows, Pending, Uncounted
    <2> QED
      BY <1>2, <1>3, <2>1, <2>2 DEF Settled, Recounting
  <1> QED
    BY <1>2, <1>4, <1>5, SameIsSettled, SeedKept DEF Uncounted

LEMMA CreateTablesSeeds ==
  ASSUME SeedInv, TypeInv', CountInv', NEW p \in Procs, CreateTables(p)
  PROVE  SeedInv'
  <1>1. Busy(p) /\ Head(plan[p]) = "create" /\ tables'
    BY DEF CreateTables, Enter, At
  <1>2. /\ plan'[p] = Tail(plan[p]) /\ ~work'[p].open /\ \A q \in Procs \ {p} : Same(q)
        /\ \A q \in Procs \ {p} : plan'[q] = plan[q]
    BY GoOne DEF CreateTables, SeedInv, CountInv, ProcsTyped, Go, Same
  <1>3. UNCHANGED <<stored, counted, again, cut, mode>>
    BY DEF CreateTables
  <1>4. ASSUME NEW q \in Procs PROVE Placed(plan[q])' /\ SeedFollows(q)' /\ RecountsAll(q)'
    <2>1. CASE q = p
      BY <1>1, <1>2, <2>1, PlansBegin DEF SeedFollows, RecountsAll, Recounting
    <2>2. CASE q # p
      BY <1>1, <1>2, <1>3, <2>2, SameMeansSame DEF SeedInv, SeedFollows, RecountsAll, Same
    <2> QED
      BY <2>1, <2>2
  <1>5. Pending(p, "seed") => Pending(p, "seed")'
    <2> SUFFICES ASSUME Pending(p, "seed") PROVE Pending(p, "seed")'
      OBVIOUS
    <2>1. PICK i \in DOMAIN plan[p] : plan[p][i] = "seed"
      BY DEF Pending
    <2>2. plan[p] \in Seq(Phases) /\ plan[p] # << >> /\ Head(plan[p]) = plan[p][1]
      BY <1>1, PlansBegin DEF Busy
    <2>3. i # 1
      BY <1>1, <2>1, <2>2
    <2>4. i - 1 \in DOMAIN Tail(plan[p]) /\ Tail(plan[p])[i - 1] = plan[p][i]
      <3> DEFINE s == plan[p]
      <3>1. s \in Seq(Phases) /\ s # << >> /\ i \in DOMAIN s
        BY <2>2
      <3> HIDE DEF s
      <3>2. i - 1 \in DOMAIN Tail(s) /\ Tail(s)[i - 1] = s[i]
        BY <2>3, <3>1
      <3> QED
        BY <3>2 DEF s
    <2> QED
      BY <1>2, <2>1, <2>4 DEF Pending
  <1>6. SeededUnlessCut'
    <2> SUFFICES ASSUME ~cut', \A q \in Procs : ~Pending(q, "seed")'
                 PROVE  \A i \in stored : counted[i] = 1 + again[i]
      BY <1>3 DEF SeededUnlessCut
    <2>1. \A q \in Procs : ~Pending(q, "seed")
      BY <1>2, <1>5 DEF Pending
    <2>2. tables
      BY <1>1, <2>1 DEF SeedInv, SeedFollows, At
    <2> QED
      BY <1>3, <2>1, <2>2 DEF SeedInv, SeededUnlessCut
  <1>7. mode' = "dead" => ~Busy("worker")'
    BY <1>1, <1>2, <1>3, DeadStays
  <1> QED
    BY <1>4, <1>6, <1>7 DEF SeedInv

LEMMA OpenRecountSeeds ==
  ASSUME SeedInv, TypeInv', CountInv', NEW p \in Procs, OpenRecount(p)
  PROVE  SeedInv'
  <1>1. UNCHANGED <<tables, stored, counted, again, cut, mode, plan>> /\ tables
    BY DEF OpenRecount, data, Hold, Ready, Recounts, At
  <1>2. work'[p].rows = stored /\ \A q \in Procs \ {p} : Same(q)
    <2> DEFINE locals == [work[p] EXCEPT !.open = TRUE, !.rows = stored]
    <2>1. DOMAIN locals = DOMAIN NoWork /\ locals.rows = stored /\ Hold(p, locals)
      BY NoWorkIsClosed DEF OpenRecount, SeedInv, CountInv, ProcsTyped
    <2> HIDE DEF locals
    <2> QED
      BY <2>1, HoldOne DEF SeedInv, CountInv, Same
  <1>3. ASSUME NEW q \in Procs PROVE Placed(plan[q])' /\ SeedFollows(q)' /\ RecountsAll(q)'
    <2>1. Placed(plan[q])' /\ SeedFollows(q)'
      BY <1>1 DEF SeedInv, SeedFollows, At, Busy, Pending
    <2>2. CASE q = p
      BY <1>1, <1>2, <2>1, <2>2 DEF RecountsAll
    <2>3. CASE q # p
      BY <1>1, <1>2, <2>1, <2>3, SameMeansSame DEF SeedInv, RecountsAll, Same
    <2> QED
      BY <2>2, <2>3
  <1>4. SeededUnlessCut' /\ (mode' = "dead" => ~Busy("worker")')
    BY <1>1 DEF SeedInv, SeededUnlessCut, Pending, Busy
  <1> QED
    BY <1>3, <1>4 DEF SeedInv

\* A recount that lost no increment counts everything once.
LEMMA CommitRecountSeeds ==
  ASSUME SeedInv, TypeInv', CountInv', NEW p \in Procs, CommitRecount(p)
  PROVE  SeedInv'
  <1>1. /\ Busy(p) /\ Head(plan[p]) \in {"seed", "recount"}
        /\ Recounting(p) /\ UNCHANGED <<tables, stored, cut, mode>>
        /\ counted' = [i \in Ids |-> IF i \in work[p].rows THEN 1 ELSE 0]
        /\ again' = [i \in Ids |-> 0]
    BY DEF CommitRecount, Recounting, Recounts, At
  <1>2. /\ plan'[p] = Tail(plan[p]) /\ ~work'[p].open /\ \A q \in Procs \ {p} : Same(q)
        /\ \A q \in Procs \ {p} : plan'[q] = plan[q]
    BY GoOne DEF CommitRecount, SeedInv, CountInv, ProcsTyped, Go, Same
  <1>3. Plain(Tail(plan[p]))
    BY <1>1, PlansBegin
  <1>4. ASSUME NEW q \in Procs PROVE Placed(plan[q])' /\ SeedFollows(q)' /\ RecountsAll(q)'
    <2>1. CASE q = p
      <3>1. ~At(p, "create")'
        BY <1>1, <1>2, <1>3, PlansBegin, PlainHead DEF At, Busy
      <3> QED
        BY <1>2, <1>3, <2>1, <3>1, PlainIsPlaced DEF SeedFollows, RecountsAll, Recounting
    <2>2. CASE q # p
      BY <1>1, <1>2, <2>2, SameMeansSame DEF SeedInv, SeedFollows, RecountsAll, Same, At, Busy, Pending
    <2> QED
      BY <2>1, <2>2
  <1>5. ~cut => \A i \in stored : counted'[i] = 1 + again'[i]
    <2>1. stored \subseteq Ids
      BY DEF SeedInv, TypeInv, RowsTyped
    <2> QED
      BY <1>1, <2>1 DEF SeedInv, RecountsAll
  <1>6. SeededUnlessCut' /\ (mode' = "dead" => ~Busy("worker")')
    BY <1>1, <1>2, <1>5, DeadStays DEF SeededUnlessCut
  <1> QED
    BY <1>4, <1>6 DEF SeedInv

\* An article stored while nobody recounts is counted with its row.
LEMMA CommitIngestSeeds ==
  ASSUME SeedInv, TypeInv', CountInv', NEW p \in Procs, CommitIngest(p)
  PROVE  SeedInv'
  <1>1. /\ Busy(p) /\ Head(plan[p]) = "ingest" /\ UNCHANGED <<tables, mode>>
        /\ stored' = stored \cup work[p].rows
        /\ counted' = [i \in Ids |-> counted[i] + (IF i \in work[p].rows THEN 1 ELSE 0)]
        /\ again' = [i \in Ids |-> again[i] + (IF i \in work[p].rows \cap stored THEN 1 ELSE 0)]
        /\ cut' = (cut \/ (RecountOpen /\ work[p].rows \ stored # {}))
    BY DEF CommitIngest, Enter, At
  <1>2. /\ plan' = plan /\ ~work'[p].open /\ \A q \in Procs \ {p} : Same(q)
    BY CommitIngestHolds DEF SeedInv, CountInv
  <1>3. ASSUME NEW q \in Procs PROVE Placed(plan[q])' /\ SeedFollows(q)' /\ RecountsAll(q)'
    <2>1. Placed(plan[q])' /\ SeedFollows(q)'
      BY <1>1, <1>2 DEF SeedInv, SeedFollows, At, Busy, Pending
    <2>2. CASE q = p
      BY <1>2, <2>1, <2>2 DEF RecountsAll, Recounting
    <2>3. CASE q # p
      <3>1. Recounting(q) => cut' \/ stored' = stored
        BY <1>1 DEF RecountOpen, Recounting
      <3> QED
        BY <1>1, <1>2, <2>1, <2>3, <3>1, SameMeansSame DEF SeedInv, RecountsAll, Same
    <2> QED
      BY <2>2, <2>3
  <1>4. SeededUnlessCut'
    <2> SUFFICES ASSUME tables', ~cut', \A q \in Procs : ~Pending(q, "seed")', NEW i \in stored'
                 PROVE  counted'[i] = 1 + again'[i]
      BY DEF SeededUnlessCut
    <2>1. \A q \in Procs : ~Pending(q, "seed")
      BY <1>2 DEF Pending
    <2>2. \A j \in stored : counted[j] = 1 + again[j]
      BY <1>1, <2>1 DEF SeedInv, SeededUnlessCut
    <2>3. /\ work[p].rows \subseteq Ids /\ stored \subseteq Ids
          /\ counted \in [Ids -> Nat] /\ again \in [Ids -> Nat]
          /\ \A j \in Ids \ stored : counted[j] <= 0 /\ again[j] = 0
      BY DEF CommitIngest, Enter, Ingesting, SeedInv, CountInv, OpenRows, IngestsOwn, TablesTyped,
             NeverOvercounted
    <2>4. CASE i \in stored
      BY <1>1, <2>2, <2>3, <2>4
    <2>5. CASE i \in work[p].rows \ stored
      <3>1. counted[i] = 0 /\ again[i] = 0 /\ i \in Ids
        BY <2>3, <2>5
      <3> QED
        BY <1>1, <2>5, <3>1
    <2> QED
      BY <1>1, <2>4, <2>5
  <1>5. mode' = "dead" => ~Busy("worker")'
    BY <1>1, <1>2, DeadStays
  <1> QED
    BY <1>3, <1>4, <1>5 DEF SeedInv

LEMMA LoadLexiconSeeds ==
  ASSUME SeedInv, TypeInv', CountInv', NEW p \in Procs, LoadLexicon(p)
  PROVE  SeedInv'
  <1>1. CASE files.lexicon # "good"
    BY <1>1, RaiseSeeds DEF LoadLexicon
  <1>2. CASE files.lexicon = "good"
    <2>1. Busy(p) /\ Head(plan[p]) = "lexicon" /\ ~work[p].open
      BY DEF LoadLexicon, At
    <2>2. plan'[p] = Tail(plan[p]) /\ \A q \in Procs \ {p} : plan'[q] = plan[q] /\ Same(q)
      BY <1>2 DEF LoadLexicon, SeedInv, CountInv, ProcsTyped, Same
    <2>3. ~work'[p].open
      BY <1>2, Loading DEF SeedInv, CountInv
    <2>4. Plain(plan[p]) /\ Plain(plan'[p]) /\ plan'[p] \in Seq(Phases)
      BY <2>1, <2>2, PlansBegin
    <2>5. Uncounted
      <3>1. mode' = "dead" => ~Busy("worker")'
        BY <1>2, <2>1, <2>2, DeadStays DEF LoadLexicon
      <3> QED
        BY <1>2, <3>1 DEF LoadLexicon, Uncounted
    <2> QED
      BY <2>2, <2>3, <2>4, <2>5, PlainIsSettled, SameIsSettled, SeedKept DEF Recounting, Uncounted
  <1> QED
    BY <1>1, <1>2

LEMMA StepSeeds ==
  ASSUME SeedInv, TypeInv', CountInv', NEW p \in Procs, Step(p)
  PROVE  SeedInv'
  <1>1. CASE FinishGrades(p) \/ LeaveGroup(p) \/ FinishIngest(p)
    <2>1. /\ Busy(p) /\ Head(plan[p]) \in {"grade", "group", "ingest"} /\ UNCHANGED <<data, mode>>
          /\ Go(p, Tail(plan[p])) \/ Go(p, << >>)
      BY <1>1 DEF FinishGrades, LeaveGroup, FinishIngest, Enter, At
    <2>2. Plain(plan[p]) /\ Plain(Tail(plan[p])) /\ Plain(<< >>)
      BY <2>1, PlansBegin, PlainPlans
    <2>3. \A q \in Procs \ {p} : plan'[q] = plan[q]
      BY <2>1, GoOne DEF SeedInv, CountInv
    <2>4. Uncounted
      BY <2>1, <2>3, DeadStays DEF Uncounted, data
    <2> QED
      BY <2>1, <2>2, <2>4, GoesPlainly
  <1>2. CASE \/ OpenGrades(p) \/ CommitGrades(p) \/ TakeLock(p) \/ GroupBatch(p)
             \/ \E i \in Ids : OpenIngest(p, i)
    <2>1. /\ Busy(p) /\ Head(plan[p]) \in {"grade", "group", "ingest"}
          /\ UNCHANGED <<tables, stored, counted, again, cut, mode, plan>>
      BY <1>2 DEF OpenGrades, CommitGrades, TakeLock, OpenIngest, GroupBatch, Enter, At, Hold, data, procs
    <2>2. (\E locals : Hold(p, locals)) \/ work' = work
      BY <1>2 DEF OpenGrades, CommitGrades, TakeLock, OpenIngest, GroupBatch, procs
    <2>3. \A q \in Procs \ {p} : work'[q] = work[q]
      BY <2>2 DEF Hold, SeedInv, CountInv, ProcsTyped
    <2>4. ~Recounting(p)'
      BY <2>1 DEF Recounting, Recounts, At
    <2>5. Uncounted
      BY <2>1, DeadStays DEF Uncounted
    <2> QED
      BY <2>1, <2>3, <2>4, <2>5, HoldsPlainly
  <1>3. CASE FailNotReady(p)
    BY <1>3, RaiseSeeds DEF FailNotReady
  <1> QED
    BY <1>1, <1>2, <1>3, CheckTablesSeeds, CreateTablesSeeds, OpenRecountSeeds, CommitRecountSeeds,
       CommitIngestSeeds, LoadLexiconSeeds DEF Step

LEMMA LoopSeeds ==
  ASSUME SeedInv, TypeInv', CountInv', Loop \/ Launch
  PROVE  SeedInv'
  <1>0. "worker" \in Procs /\ data' = data
    BY DEF Procs, Loop, Launch, LeaveWait, Retry, Beat, Sleep, Due
  <1>1. CASE Retry
    <2>1. UNCHANGED procs
      BY <1>1 DEF Retry
    <2>2. Uncounted
      BY <1>0, <2>1 DEF Uncounted, data, procs, SeedInv, Busy
    <2> QED
      BY <1>0, <2>1, <2>2, HoldsPlainly DEF procs
  <1>2. ASSUME NEW phases, Plain(phases), Go("worker", phases), Plain(plan["worker"]),
               mode' = "dead" => phases = << >>
        PROVE  SeedInv'
    <2>1. plan'["worker"] = phases
      BY <1>0, <1>2 DEF Go, SeedInv, CountInv, ProcsTyped
    <2>2. Uncounted
      BY <1>0, <1>2, <2>1 DEF Uncounted, data, Busy
    <2> QED
      BY <1>0, <1>2, <2>2, GoesPlainly
  <1>3. CASE LeaveWait
    <2>1. Plain(plan["worker"]) /\ Plain(Tail(plan["worker"])) /\ Plain(<< >>) /\ mode # "dead"
      BY <1>0, <1>3, PlansBegin, PlainPlans DEF LeaveWait, At, SeedInv
    <2> QED
      BY <1>2, <1>3, <2>1 DEF LeaveWait
  <1>4. CASE Beat
    <2>1. Plain(plan["worker"]) /\ Plain(<<"due">>) /\ Plain(<< >>)
      BY <1>0, <1>4, PlansBegin, PlainPlans DEF Beat, At
    <2> QED
      BY <1>2, <1>4, <2>1 DEF Beat
  <1>5. CASE Sleep
    <2>1. Plain(plan["worker"]) /\ Plain(<<"due">>) /\ Plain(<< >>)
      BY <1>0, <1>5, PlansBegin, PlainPlans DEF Sleep
    <2> QED
      BY <1>2, <1>5, <2>1 DEF Sleep
  <1>6. ASSUME NEW polled \in BOOLEAN, Due(polled) PROVE SeedInv'
    <2> DEFINE ingest == IF polled THEN <<"ingest">> ELSE << >>
               caught == IF ShouldCatchUp(polled) THEN CatchUp ELSE << >>
    <2>1. /\ Plain(ingest) /\ Plain(caught) /\ Plain(<<"beat">>)
          /\ ingest \in Seq(Phases) /\ caught \in Seq(Phases) /\ <<"beat">> \in Seq(Phases)
      BY PlainPlans, PlansOfCode
    <2> HIDE DEF ingest, caught
    <2>2. Plain(ingest \o caught \o <<"beat">>)
      BY <2>1, PlainJoin
    <2>3. Plain(plan["worker"]) /\ mode' # "dead"
      BY <1>0, <1>6, PlansBegin DEF Due, Enter, At, SeedInv
    <2> QED
      BY <1>2, <1>6, <2>2, <2>3 DEF Due, ingest, caught
  <1>7. CASE Launch
    BY <1>0, <1>2, <1>7, PlansBegin, PlainPlans DEF Launch, SeedInv
  <1> QED
    BY <1>1, <1>3, <1>4, <1>5, <1>6, <1>7 DEF Loop

LEMMA ElapseSeeds == ASSUME SeedInv, TypeInv', CountInv', Elapse PROVE SeedInv'
  <1>1. UNCHANGED <<data, procs>>
    BY DEF Elapse
  <1>2. Uncounted
    BY <1>1 DEF Uncounted, data, procs, SeedInv, Busy
  <1> QED
    BY <1>1, <1>2, HoldsPlainly DEF procs, Procs

LEMMA CrashSeeds ==
  ASSUME SeedInv, TypeInv', CountInv', NEW p \in Procs, Crash(p)
  PROVE  SeedInv'
  <1>1. /\ plan'[p] = << >> /\ ~work'[p].open /\ \A q \in Procs \ {p} : Same(q)
        /\ cut' = (cut \/ Pending(p, "seed")) /\ UNCHANGED <<tables, stored, counted, again>>
    BY GoOne DEF Crash, SeedInv, CountInv, ProcsTyped, Go, Same
  <1>2. mode' = "dead" => ~Busy("worker")'
    <2>1. CASE p = "worker"
      BY <1>1, <2>1 DEF Busy
    <2>2. CASE p = "cli"
      BY <1>1, <2>2 DEF Crash, SeedInv, Same, Busy, Procs
    <2> QED
      BY <2>1, <2>2 DEF Procs
  <1>3. Uncounted
    BY <1>1, <1>2 DEF Uncounted
  <1>4. Settled(p)
    BY <1>1, PlainPlans, PlainIsPlaced DEF Settled, SeedFollows, At, Busy, Recounting
  <1> QED
    BY <1>1, <1>3, <1>4, SameIsSettled, SeedKept DEF Uncounted

LEMMA CommandSeeds ==
  ASSUME SeedInv, TypeInv', CountInv', NEW c \in Commands, Command(c)
  PROVE  SeedInv'
  <1>1. /\ plan'["cli"] = CommandPlan(c) /\ Same("worker")
        /\ ~work'["cli"].open /\ ~Busy("cli") /\ UNCHANGED <<data, mode>>
    <2>1. ~[Begun(CommandPlan(c)) EXCEPT !.all = (c = "analyse")].open
      BY BegunIs, NoWorkIsClosed
    <2> QED
      BY <2>1 DEF Command, Procs, SeedInv, CountInv, ProcsTyped, Same
  <1>2. Uncounted
    BY <1>1, DeadStays DEF Uncounted, data, Procs, Same
  <1>3. Settled("cli")
    <2>1. Plain(plan["cli"]) /\ Plain(plan'["cli"]) /\ plan'["cli"] \in Seq(Phases)
      BY <1>1, PlansBegin, PlainPlans, PlansOfCode DEF Procs
    <2> QED
      BY <1>1, <2>1, PlainIsSettled DEF Recounting, Procs
  <1> QED
    BY <1>1, <1>2, <1>3, SameIsSettled, SeedKept DEF Procs, Uncounted

LEMMA NextSeed == SeedInv /\ [Next]_vars => SeedInv'
  <1> SUFFICES ASSUME SeedInv, [Next]_vars PROVE SeedInv'
    OBVIOUS
  <1>1. TypeInv' /\ CountInv'
    BY NextType, NextCount DEF SeedInv
  <1>2. ASSUME UNCHANGED <<data, procs>> PROVE SeedInv'
    BY <1>1, <1>2 DEF data, procs, SeedInv, SeedFollows, RecountsAll, Recounting, Recounts,
                      SeededUnlessCut, Pending, At, Busy
  <1>3. ASSUME NEW state \in LexiconStates, EditLexicon(state) PROVE SeedInv'
    BY <1>2, <1>3 DEF EditLexicon
  <1>4. CASE Stop \/ Recover \/ UNCHANGED vars
    BY <1>2, <1>4 DEF Stop, Recover, vars
  <1>5. CASE (\E p \in Procs : Fail(p)) \/ Outage
    BY <1>1, <1>5, RaiseSeeds DEF Fail, Outage
  <1> QED
    BY <1>1, <1>3, <1>4, <1>5, StepSeeds, LoopSeeds, ElapseSeeds, CrashSeeds, CommandSeeds DEF Next

\* create_all and rebuild_term_stats: with the tables there and no seeding to
\* come, every stored article is counted, once and once more for every upsert
\* that has met it since the last recount, however two processes start, seed,
\* recount and ingest beside each other -- unless a seeding was cut off or an
\* article was stored under an open recount.
THEOREM SeedingIsComplete == Spec => []SeededUnlessCut
  <1>1. SeedInv => SeededUnlessCut
    BY DEF SeedInv
  <1> QED
    BY <1>1, InitSeed, NextSeed, PTL DEF Spec

-----------------------------------------------------------------------------
(* analyse --all.                                                          *)

\* Only the command re-grades, in these two phases.
Regrading == work["cli"].all /\ At("cli", "grade")

CommandShape ==
    /\ ~work["worker"].all
    /\ work["cli"].all => plan["cli"] = <<"lexicon", "grade">> \/ plan["cli"] = <<"grade">>

\* Without a transaction a process has no rows in hand.
HandsEmpty == \A p \in Procs : ~work[p].open => work[p].rows = {}

\* A poll has met what it has seen, and meets only what it has not.
PollsLook ==
    \A p \in Procs : /\ work[p].seen \subseteq stored
                     /\ Ingesting(p) => work[p].rows \cap work[p].seen = {}

\* Nobody else writes the grade of an article that is surely re-graded, and the
\* cursor of the walk has not passed one that still has an older grade.
SureKept(w) ==
    /\ w.lex >= 1 /\ w.sure \subseteq stored
    /\ \A i \in w.sure : grade[i] # 0 /\ ~InHand("cli", i)
Ahead(w) ==
    \A i \in w.sure :
        /\ grade[i] >= w.lex \/ i > w.after
        /\ w.open => grade[i] >= w.lex \/ i \in w.rows \/ \A j \in w.rows : j < i

WalkInv == Regrading => SureKept(work["cli"]) /\ Ahead(work["cli"])

GradeInv == TypeInv /\ CountInv /\ CommandShape /\ HandsEmpty /\ PollsLook /\ WalkInv

\* What a batch leaves out comes after it.
LEMMA BatchComesFirst ==
  ASSUME NEW ids \in SUBSET Ids, NEW n \in Nat, NEW i \in ids \ FirstIds(ids, n), NEW j \in FirstIds(ids, n)
  PROVE  j < i
  <1> SUFFICES ASSUME i < j PROVE FALSE
    BY NumbersAreTyped DEF FirstIds, Ids
  <1> DEFINE below == {k \in ids : k < i}
             above == {k \in ids : k < j}
  <1>1. IsFiniteSet(Ids)
    BY NumbersAreTyped, FS_Interval DEF Ids
  <1>2. IsFiniteSet(above) /\ below \subseteq above
    <2>1. above \in SUBSET Ids
      OBVIOUS
    <2>2. IsFiniteSet(above)
      BY <1>1, <2>1, FS_Subset
    <2>3. \A k \in ids : k \in Int /\ i \in Int /\ j \in Int
      BY NumbersAreTyped DEF FirstIds, Ids
    <2> QED
      BY <2>2, <2>3
  <1>3. /\ Cardinality(below) \in Nat /\ Cardinality(above) \in Nat
        /\ Cardinality(below) <= Cardinality(above)
    BY <1>2, FS_Subset, FS_CardinalityType
  <1>4. Cardinality(above) < n /\ ~(Cardinality(below) < n)
    BY DEF FirstIds
  <1> QED
    BY <1>3, <1>4

LEMMA OthersHands ==
  ASSUME NEW i
  PROVE  /\ InHand("cli", i) <=> \/ At("worker", "grade") /\ i \in work["worker"].rows
                                 \/ At("worker", "ingest") /\ i \notin work["worker"].seen
         /\ InHand("cli", i)' <=> \/ At("worker", "grade")' /\ i \in work'["worker"].rows
                                  \/ At("worker", "ingest")' /\ i \notin work'["worker"].seen
  BY DEF InHand, Procs

LEMMA PollsKept ==
  ASSUME PollsLook, stored \subseteq stored',
         \A p \in Procs : \/ Same(p)
                         \/ /\ work'[p].seen \subseteq stored'
                            /\ Ingesting(p)' => work'[p].rows \cap work'[p].seen = {}
  PROVE  PollsLook'
  <1> SUFFICES ASSUME NEW p \in Procs
               PROVE  (work[p].seen \subseteq stored
                        /\ (Ingesting(p) => work[p].rows \cap work[p].seen = {}))'
    BY DEF PollsLook
  <1>1. CASE Same(p)
    BY <1>1, SameMeansSame DEF PollsLook, Same
  <1> QED
    BY <1>1

\* A step that leaves the command alone, and the grades of what it re-grades.
LEMMA WalkKept ==
  ASSUME GradeInv, Same("cli"), stored \subseteq stored',
         \A i \in stored : ~InHand("cli", i) => grade'[i] = grade[i],
         \A i \in stored : InHand("cli", i)' => InHand("cli", i) \/ grade[i] = 0
  PROVE  WalkInv'
  <1> SUFFICES ASSUME Regrading' PROVE (SureKept(work["cli"]) /\ Ahead(work["cli"]))'
    BY DEF WalkInv
  <1>1. work'["cli"] = work["cli"] /\ Regrading
    BY DEF Same, Regrading, At, Busy
  <1>2. SureKept(work["cli"]) /\ Ahead(work["cli"])
    BY <1>1 DEF GradeInv, WalkInv
  <1>3. \A i \in work["cli"].sure : i \in stored /\ grade'[i] = grade[i]
    BY <1>2 DEF SureKept
  <1> QED
    BY <1>1, <1>2, <1>3 DEF SureKept, Ahead

\* The shape of the command when it does not move and the worker gets no order.
LEMMA ShapeKept ==
  ASSUME GradeInv, Same("cli"), ~work'["worker"].all
  PROVE  CommandShape'
  BY DEF GradeInv, CommandShape, Same, At, Busy

\* A step that ends a phase.
LEMMA GoGrades ==
  ASSUME GradeInv, TypeInv', CountInv', NEW p \in Procs, NEW phases, Go(p, phases),
         UNCHANGED <<stored, grade>>
  PROVE  GradeInv'
  <1>1. work'[p] = Begun(phases) /\ plan'[p] = phases /\ \A q \in Procs \ {p} : Same(q)
    BY DEF Go, GradeInv, CountInv, ProcsTyped, Same
  <1>2. /\ ~work'[p].all /\ ~work'[p].open /\ work'[p].rows = {} /\ work'[p].seen \in {{}, stored}
        /\ At(p, "ingest")' => work'[p].seen = stored
    BY <1>1, BegunIs DEF At, Busy
  <1>3. HandsEmpty' /\ PollsLook'
    BY <1>1, <1>2, PollsKept DEF GradeInv, HandsEmpty, Same, Ingesting
  <1>4. CASE p = "cli"
    <2>1. CommandShape'
      BY <1>1, <1>2, <1>4 DEF GradeInv, CommandShape, Same, Procs
    <2> QED
      BY <1>2, <1>3, <1>4, <2>1 DEF GradeInv, WalkInv, Regrading
  <1>5. CASE p = "worker"
    <2>1. Same("cli") /\ \A i \in stored : ~InHand("cli", i)'
      BY <1>1, <1>2, <1>5, OthersHands DEF Procs
    <2> QED
      BY <1>2, <1>3, <1>5, <2>1, ShapeKept, WalkKept DEF GradeInv
  <1> QED
    BY <1>4, <1>5 DEF Procs

LEMMA RaiseGrades ==
  ASSUME GradeInv, TypeInv', CountInv', NEW failing, Raise(failing), UNCHANGED <<stored, grade>>
  PROVE  GradeInv'
  <1>1. \A p \in Procs : work'[p] = RolledBack(p) \/ Same(p)
    BY DEF Raise, Same
  <1>2. ASSUME NEW p \in Procs
        PROVE  /\ ~RolledBack(p).open /\ RolledBack(p).rows = {} /\ ~RolledBack(p).all
               /\ RolledBack(p).seen \subseteq stored
    <2>1. ~(At(p, "ingest") /\ work[p].all)
      <3>1. Head(<<"lexicon", "grade">>) # "ingest" /\ Head(<<"grade">>) # "ingest"
        OBVIOUS
      <3> QED
        BY <3>1 DEF GradeInv, CommandShape, At, Procs
    <2> QED
      BY <2>1, Rolled DEF GradeInv, CountInv, PollsLook
  <1>3. HandsEmpty' /\ PollsLook' /\ ~work'["worker"].all
    <2>1. PollsLook'
      BY <1>1, <1>2, PollsKept DEF GradeInv, Ingesting
    <2> QED
      BY <1>1, <1>2, <2>1 DEF GradeInv, HandsEmpty, CommandShape, Same, Procs
  <1>4. CASE work'["cli"] = RolledBack("cli")
    BY <1>2, <1>3, <1>4 DEF GradeInv, CommandShape, WalkInv, Regrading, Procs
  <1>5. CASE Same("cli")
    <2>1. ASSUME NEW i \in stored, InHand("cli", i)' PROVE InHand("cli", i)
      <3>0. "worker" \in Procs
        BY DEF Procs
      <3>1. CASE Same("worker")
        BY <2>1, <3>1, OthersHands DEF Same, At, Busy
      <3>2. CASE work'["worker"] = RolledBack("worker") /\ At("worker", "ingest") /\ ~Same("worker")
        <4>1. plan'["worker"] = plan["worker"] /\ work'["worker"].seen = work["worker"].seen
          BY <3>0, <3>2, NoWorkIsClosed
          DEF Raise, Dies, AfterFailure, RolledBack, At, Same, GradeInv, CountInv, ProcsTyped
        <4> QED
          BY <1>2, <2>1, <3>0, <3>2, <4>1, OthersHands DEF At, Busy
      <3>3. CASE work'["worker"] = RolledBack("worker") /\ ~At("worker", "ingest") /\ ~Same("worker")
        <4>1. \/ plan'["worker"] = << >>
              \/ /\ plan'["worker"] = AfterFailure("worker")
                 /\ work'["worker"] = Begun(AfterFailure("worker"))
          BY <3>0, <3>3 DEF Raise, RolledBack, Same
        <4>2. At("worker", "ingest")' => work'["worker"].seen = stored
          BY <4>1, BegunIs DEF At, Busy
        <4> QED
          BY <1>2, <2>1, <3>0, <3>3, <4>2, OthersHands
      <3> QED
        BY <1>1, <3>0, <3>1, <3>2, <3>3
    <2> QED
      BY <1>3, <1>5, <2>1, ShapeKept, WalkKept DEF GradeInv
  <1> QED
    BY <1>1, <1>4, <1>5 DEF Procs

\* A transaction of another kind begins.
LEMMA HoldGrades ==
  ASSUME GradeInv, TypeInv', CountInv', NEW p \in Procs, plan' = plan,
         \A q \in Procs \ {p} : work'[q] = work[q], work'[p].open, work'[p].all = work[p].all,
         work'[p].seen = work[p].seen,
         At(p, "ingest") => work'[p].rows \cap work[p].seen = {},
         ~At(p, "grade"), ~At(p, "lexicon"), UNCHANGED <<stored, grade>>
  PROVE  GradeInv'
  <1>1. ~At(p, "grade")' /\ ~At(p, "lexicon")' /\ \A q \in Procs \ {p} : Same(q)
    BY DEF At, Busy, Same
  <1>2. HandsEmpty' /\ PollsLook'
    <2>1. work'[p].seen \subseteq stored' /\ (Ingesting(p)' => work'[p].rows \cap work'[p].seen = {})
      BY DEF GradeInv, PollsLook, Ingesting, At, Busy
    <2> QED
      BY <1>1, <2>1, PollsKept DEF GradeInv, HandsEmpty
  <1>3. CASE p = "cli"
    BY <1>1, <1>2, <1>3 DEF GradeInv, CommandShape, WalkInv, Regrading, Procs
  <1>4. CASE p = "worker"
    <2>1. Same("cli") /\ ~work'["worker"].all /\ \A i : InHand("cli", i)' => InHand("cli", i)
      BY <1>1, <1>4, OthersHands DEF Procs, GradeInv, CommandShape, At, Busy
    <2> QED
      BY <1>2, <2>1, ShapeKept, WalkKept DEF GradeInv
  <1> QED
    BY <1>3, <1>4 DEF Procs

\* A poll writes the grades of what it had not seen, and of nothing that is
\* surely re-graded.
LEMMA CommitIngestGrades ==
  ASSUME GradeInv, TypeInv', CountInv', NEW p \in Procs, CommitIngest(p)
  PROVE  GradeInv'
  <1>1. /\ plan' = plan /\ ~work'[p].open /\ work'[p].rows = {} /\ work'[p].all = work[p].all
        /\ work'[p].seen = work[p].seen \cup (work[p].rows \cap stored)
        /\ \A q \in Procs \ {p} : Same(q)
    BY CommitIngestHolds DEF GradeInv, CountInv
  <1>2. Ingesting(p) /\ stored' = stored \cup work[p].rows
    BY DEF CommitIngest, Enter, Ingesting
  <1>3. HandsEmpty' /\ PollsLook'
    BY <1>1, <1>2, PollsKept DEF GradeInv, HandsEmpty, PollsLook, Same
  <1>4. CASE p = "cli"
    <2>1. ~work["cli"].all
      <3>1. Head(<<"lexicon", "grade">>) # "ingest" /\ Head(<<"grade">>) # "ingest"
        OBVIOUS
      <3> QED
        BY <1>2, <1>4, <3>1 DEF GradeInv, CommandShape, Ingesting, At
    <2> QED
      BY <1>1, <1>3, <1>4, <2>1 DEF GradeInv, CommandShape, WalkInv, Regrading, Same, Procs
  <1>5. CASE p = "worker"
    <2>1. Same("cli") /\ ~work'["worker"].all
      BY <1>1, <1>5 DEF Procs, GradeInv, CommandShape
    <2>2. \A i : InHand("cli", i)' => InHand("cli", i)
      BY <1>1, <1>5, OthersHands DEF At, Busy
    <2>3. ASSUME NEW i \in stored, ~InHand("cli", i) PROVE grade'[i] = grade[i]
      <3>1. i \notin work[p].rows /\ i \in Ids
        BY <1>2, <1>5, <2>3, OthersHands
        DEF GradeInv, PollsLook, Ingesting, TypeInv, RowsTyped
      <3> QED
        BY <3>1 DEF CommitIngest
    <2> QED
      BY <1>2, <1>3, <2>1, <2>2, <2>3, ShapeKept, WalkKept DEF GradeInv
  <1> QED
    BY <1>4, <1>5 DEF Procs

\* Nothing of what the processes hold, nor the grades.
LEMMA GradesUntouched ==
  ASSUME GradeInv, TypeInv', CountInv', UNCHANGED <<stored, grade, plan, work>>
  PROVE  GradeInv'
  BY DEF GradeInv, CommandShape, HandsEmpty, PollsLook, Ingesting, WalkInv, Regrading, SureKept, Ahead,
         InHand, At, Busy

\* A page of the walk is read: the first articles after the cursor.
LEMMA OpenGradesWalks ==
  ASSUME GradeInv, TypeInv', CountInv', NEW p \in Procs, OpenGrades(p)
  PROVE  GradeInv'
  <1> DEFINE rows == FirstIds(ToAnalyse(p), Batch)
             locals == [work[p] EXCEPT !.open = TRUE, !.rows = rows]
  <1>1. /\ plan' = plan /\ work' = [work EXCEPT ![p] = locals] /\ UNCHANGED <<stored, grade>>
        /\ At(p, "grade")
    BY DEF OpenGrades, Hold, data, Enter
  <1>2. /\ work'[p] = locals /\ locals.open /\ locals.rows = rows /\ locals.all = work[p].all
        /\ locals.lex = work[p].lex /\ locals.after = work[p].after /\ locals.sure = work[p].sure
        /\ locals.seen = work[p].seen /\ \A q \in Procs \ {p} : Same(q)
    BY <1>1, NoWorkIsClosed DEF GradeInv, CountInv, ProcsTyped, Same
  <1> HIDE DEF locals
  <1>3. HandsEmpty' /\ PollsLook'
    <2>1. ~Ingesting(p)' /\ work'[p].seen \subseteq stored'
      BY <1>1, <1>2 DEF Ingesting, At, Busy, GradeInv, PollsLook
    <2> QED
      BY <1>1, <1>2, <2>1, PollsKept DEF GradeInv, HandsEmpty, Same
  <1>4. CASE p = "worker"
    <2>1. \A i \in rows : grade[i] = 0
      BY <1>4, FirstIdsAre DEF ToAnalyse, GradeInv, CommandShape
    <2>2. \A i : InHand("cli", i)' => grade[i] = 0
      BY <1>1, <1>2, <1>4, <2>1, OthersHands DEF At, Busy
    <2>3. Same("cli") /\ ~work'["worker"].all
      BY <1>2, <1>4 DEF Procs, GradeInv, CommandShape
    <2> QED
      BY <1>1, <1>3, <2>2, <2>3, ShapeKept, WalkKept DEF GradeInv
  <1>5. CASE p = "cli"
    <2>1. CommandShape'
      BY <1>1, <1>2, <1>5 DEF GradeInv, CommandShape, Same, At, Busy, Procs
    <2>2. ASSUME Regrading PROVE (SureKept(work["cli"]) /\ Ahead(work["cli"]))'
      <3>1. SureKept(work["cli"]) /\ Ahead(work["cli"])
        BY <2>2 DEF GradeInv, WalkInv
      <3>2. \A i : InHand("cli", i)' <=> InHand("cli", i)
        BY <1>2, <1>5, OthersHands DEF Procs, Same, At, Busy
      <3>3. SureKept(work["cli"])'
        BY <1>1, <1>2, <1>5, <3>1, <3>2 DEF SureKept
      <3>4. ASSUME NEW i \in work["cli"].sure, ~(grade[i] >= work["cli"].lex)
            PROVE  i \in rows \/ \A j \in rows : j < i
        <4>1. i \in ToAnalyse(p) /\ ToAnalyse(p) \in SUBSET Ids
          BY <1>5, <2>2, <3>1, <3>4
          DEF ToAnalyse, Regrading, SureKept, Ahead, GradeInv, TypeInv, RowsTyped
        <4> QED
          BY <4>1, BatchComesFirst, NumbersAssumption
      <3>5. Ahead(work["cli"])'
        BY <1>1, <1>2, <1>5, <3>1, <3>4 DEF Ahead
      <3> QED
        BY <3>3, <3>5
    <2>3. WalkInv'
      BY <1>1, <1>2, <1>5, <2>2 DEF WalkInv, Regrading, At, Busy
    <2> QED
      BY <1>3, <2>1, <2>3 DEF GradeInv
  <1> QED
    BY <1>4, <1>5 DEF Procs

\* A page is graded, and the cursor moves to its last article.
LEMMA CommitGradesWalks ==
  ASSUME GradeInv, TypeInv', CountInv', NEW p \in Procs, CommitGrades(p)
  PROVE  GradeInv'
  <1>1. PICK last \in work[p].rows :
          /\ \A i \in work[p].rows : i <= last
          /\ Hold(p, [work[p] EXCEPT !.open = FALSE, !.rows = {}, !.after = last])
    BY DEF CommitGrades
  <1> DEFINE locals == [work[p] EXCEPT !.open = FALSE, !.rows = {}, !.after = last]
  <1>2. /\ plan' = plan /\ work' = [work EXCEPT ![p] = locals] /\ stored' = stored
        /\ grade' = [i \in Ids |-> IF i \in work[p].rows THEN work[p].lex ELSE grade[i]]
        /\ At(p, "grade") /\ work[p].open
    BY <1>1 DEF CommitGrades, Hold, Enter
  <1>3. /\ work'[p] = locals /\ ~locals.open /\ locals.rows = {} /\ locals.all = work[p].all
        /\ locals.lex = work[p].lex /\ locals.after = last /\ locals.sure = work[p].sure
        /\ locals.seen = work[p].seen /\ \A q \in Procs \ {p} : Same(q)
    BY <1>2, NoWorkIsClosed DEF GradeInv, CountInv, ProcsTyped, Same
  <1> HIDE DEF locals
  <1>4. HandsEmpty' /\ PollsLook'
    <2>1. ~Ingesting(p)' /\ work'[p].seen \subseteq stored'
      BY <1>2, <1>3 DEF Ingesting, At, Busy, GradeInv, PollsLook
    <2> QED
      BY <1>2, <1>3, <2>1, PollsKept DEF GradeInv, HandsEmpty, Same
  <1>5. stored \subseteq Ids /\ \A q \in Procs : work[q].rows \subseteq Ids
    BY DEF GradeInv, TypeInv, RowsTyped, PlansTyped, Locals
  <1>6. CASE p = "worker"
    <2>1. Same("cli") /\ ~work'["worker"].all /\ \A i : ~InHand("cli", i)'
      BY <1>2, <1>3, <1>6, OthersHands DEF Procs, GradeInv, CommandShape, At, Busy
    <2>2. WalkInv'
      <3> SUFFICES ASSUME Regrading' PROVE (SureKept(work["cli"]) /\ Ahead(work["cli"]))'
        BY DEF WalkInv
      <3>1. work'["cli"] = work["cli"] /\ Regrading
        BY <2>1 DEF Same, Regrading, At, Busy
      <3>2. SureKept(work["cli"]) /\ Ahead(work["cli"])
        BY <3>1 DEF GradeInv, WalkInv
      <3>3. \A i \in work["cli"].sure : i \in stored /\ grade'[i] = grade[i]
        BY <1>2, <1>5, <1>6, <3>2, OthersHands DEF SureKept
      <3> QED
        BY <1>2, <2>1, <3>1, <3>2, <3>3 DEF SureKept, Ahead
    <2> QED
      BY <1>4, <2>1, <2>2, ShapeKept DEF GradeInv
  <1>7. CASE p = "cli"
    <2>1. CommandShape'
      BY <1>2, <1>3, <1>7 DEF GradeInv, CommandShape, Same, At, Busy, Procs
    <2>2. ASSUME Regrading PROVE (SureKept(work["cli"]) /\ Ahead(work["cli"]))'
      <3>1. SureKept(work["cli"]) /\ Ahead(work["cli"])
        BY <2>2 DEF GradeInv, WalkInv
      <3>2. \A i : InHand("cli", i)' <=> InHand("cli", i)
        BY <1>3, <1>7, OthersHands DEF Procs, Same, At, Busy
      <3>3. /\ work["cli"].lex \in Nat \ {0} /\ work["cli"].after \in Nat
            /\ \A i \in work["cli"].sure : i \in Ids /\ grade[i] \in Nat
        <4>1. work["cli"] \in Locals /\ grade \in [Ids -> 0..(MaxEdits + 1)]
          BY DEF GradeInv, TypeInv, PlansTyped, RowsTyped, Procs
        <4>2. work["cli"].lex \in 0..(MaxEdits + 1) /\ work["cli"].after \in 0..MaxId
          BY <4>1 DEF Locals
        <4>3. work["cli"].lex >= 1 /\ work["cli"].sure \subseteq Ids
          BY <1>5, <3>1 DEF SureKept
        <4>4. work["cli"].lex \in Nat \ {0} /\ work["cli"].after \in Nat
          BY <4>2, <4>3, NumbersAreTyped
        <4>5. ASSUME NEW i \in Ids PROVE grade[i] \in Nat
          BY <4>1, NumbersAreTyped
        <4> QED
          BY <4>3, <4>4, <4>5
      <3>4. ASSUME NEW i \in work["cli"].sure
            PROVE  grade'[i] # 0 /\ (grade'[i] >= work["cli"].lex \/ i > last)
        <4>1. CASE i \in work["cli"].rows
          BY <1>2, <1>7, <3>3, <4>1
        <4>2. CASE i \notin work["cli"].rows
          <5>1. grade'[i] = grade[i] /\ grade[i] # 0
            BY <1>2, <1>7, <3>1, <3>3, <4>2 DEF SureKept
          <5>2. grade[i] >= work["cli"].lex \/ \A j \in work["cli"].rows : j < i
            BY <1>2, <1>7, <3>1, <4>2 DEF Ahead
          <5>3. last \in Int /\ i \in Int
            BY <1>1, <1>5, <1>7, <3>3, NumbersAreTyped DEF Ids
          <5> QED
            BY <1>1, <1>7, <5>1, <5>2, <5>3
        <4> QED
          BY <4>1, <4>2
      <3>5. SureKept(work["cli"])'
        BY <1>2, <1>3, <1>7, <3>1, <3>2, <3>4 DEF SureKept
      <3>6. Ahead(work["cli"])'
        BY <1>3, <1>7, <3>4 DEF Ahead
      <3> QED
        BY <3>5, <3>6
    <2>3. WalkInv'
      BY <1>2, <1>3, <1>7, <2>2 DEF WalkInv, Regrading, At, Busy
    <2> QED
      BY <1>4, <2>1, <2>3 DEF GradeInv
  <1> QED
    BY <1>6, <1>7 DEF Procs

\* The walk begins before every article, with the lexicon as it is now.
LEMMA LoadLexiconWalks ==
  ASSUME GradeInv, TypeInv', CountInv', NEW p \in Procs, LoadLexicon(p)
  PROVE  GradeInv'
  <1>1. CASE files.lexicon # "good"
    BY <1>1, RaiseGrades DEF LoadLexicon
  <1>2. CASE files.lexicon = "good"
    <2> DEFINE sure == {i \in stored : work[p].all /\ grade[i] # 0 /\ ~InHand(p, i)}
    <2>1. UNCHANGED <<stored, grade>> /\ At(p, "lexicon")
      BY <1>2 DEF LoadLexicon
    <2>2. /\ ~work'[p].open /\ work'[p].rows = {} /\ work'[p].after = 0
          /\ work'[p].all = work[p].all /\ work'[p].lex = files.version /\ work'[p].sure = sure
          /\ work'[p].seen \in {{}, stored} /\ (At(p, "ingest")' => work'[p].seen = stored)
          /\ plan'[p] = Tail(plan[p]) /\ \A q \in Procs \ {p} : Same(q)
      BY <1>2, Loading DEF GradeInv, CountInv
    <2>3. HandsEmpty' /\ PollsLook'
      BY <2>1, <2>2, PollsKept DEF GradeInv, HandsEmpty, Same, Ingesting
    <2>4. CASE p = "worker"
      <3>1. Same("cli") /\ ~work'["worker"].all /\ \A i \in stored : ~InHand("cli", i)'
        BY <2>2, <2>3, <2>4, OthersHands DEF Procs, GradeInv, CommandShape, At, Busy
      <3> QED
        BY <2>1, <2>3, <3>1, ShapeKept, WalkKept DEF GradeInv
    <2>5. CASE p = "cli"
      <3>1. CommandShape'
        <4>1. Tail(<<"lexicon", "grade">>) = <<"grade">> /\ Head(<<"grade">>) = "grade"
          OBVIOUS
        <4>2. work["cli"].all => plan["cli"] = <<"lexicon", "grade">>
          BY <2>1, <2>5, <4>1 DEF GradeInv, CommandShape, At
        <4> QED
          BY <2>2, <2>3, <2>5, <4>1, <4>2 DEF GradeInv, CommandShape, Same, At, Procs
      <3>2. ASSUME work["cli"].all PROVE (SureKept(work["cli"]) /\ Ahead(work["cli"]))'
        <4>1. files.version \in Nat \ {0} /\ stored \subseteq Ids
          <5>1. files.version \in 1..(MaxEdits + 1) /\ stored \subseteq Ids
            BY DEF GradeInv, TypeInv, RestTyped, RowsTyped
          <5> QED
            BY <5>1, NumbersAreTyped
        <4>2. \A i : InHand("cli", i)' <=> InHand("cli", i)
          BY <2>2, <2>5, OthersHands DEF Procs, Same, At, Busy
        <4>3. SureKept(work["cli"])'
          BY <2>1, <2>2, <2>3, <2>5, <4>1, <4>2 DEF SureKept
        <4>4. Ahead(work["cli"])'
          <5>1. \A i \in sure : i > 0
            <6>1. sure \subseteq Ids
              BY <4>1
            <6> HIDE DEF sure
            <6> QED
              BY <6>1, NumbersAreTyped DEF Ids
          <5>2. work'["cli"].after = 0 /\ work'["cli"].sure = sure /\ ~work'["cli"].open
            BY <2>2, <2>3, <2>5
          <5> HIDE DEF sure
          <5> QED
            BY <5>1, <5>2 DEF Ahead
        <4> QED
          BY <4>3, <4>4
      <3>3. WalkInv'
        BY <2>2, <2>3, <2>5, <3>2 DEF WalkInv, Regrading
      <3> QED
        BY <2>3, <3>1, <3>3 DEF GradeInv
    <2> QED
      BY <2>4, <2>5 DEF Procs
  <1> QED
    BY <1>1, <1>2

LEMMA InitGrade == Init => GradeInv
  <1> SUFFICES ASSUME Init PROVE GradeInv
    OBVIOUS
  <1>1. \A p \in Procs : ~work[p].all /\ work[p].rows = {} /\ work[p].seen = {} /\ ~work[p].open
    BY DEF Init, NoWork
  <1> QED
    BY <1>1, InitType, InitCount
    DEF GradeInv, CommandShape, HandsEmpty, PollsLook, Ingesting, WalkInv, Regrading, Procs

LEMMA StepGrades ==
  ASSUME GradeInv, TypeInv', CountInv', NEW p \in Procs, Step(p)
  PROVE  GradeInv'
  <1>1. CASE \/ CheckTables(p) \/ CreateTables(p) \/ CommitRecount(p) \/ FinishGrades(p)
             \/ LeaveGroup(p) \/ FinishIngest(p)
    BY <1>1, GoGrades
    DEF CheckTables, CreateTables, CommitRecount, FinishGrades, LeaveGroup, FinishIngest, data
  <1>3. CASE OpenRecount(p) \/ TakeLock(p) \/ \E i \in Ids : OpenIngest(p, i)
    <2>1. \E locals : /\ Hold(p, locals) /\ locals.open /\ locals.all = work[p].all
                      /\ locals.seen = work[p].seen
                      /\ At(p, "ingest") => locals.rows \cap work[p].seen = {}
      <3>1. DOMAIN work[p] = DOMAIN NoWork
        BY DEF GradeInv, CountInv, ProcsTyped
      <3>2. CASE OpenRecount(p)
        <4> DEFINE locals == [work[p] EXCEPT !.open = TRUE, !.rows = stored]
        <4>1. Hold(p, locals) /\ ~At(p, "ingest")
          BY <3>2 DEF OpenRecount, Recounts, At
        <4>2. locals.open /\ locals.all = work[p].all /\ locals.seen = work[p].seen
          BY <3>1, NoWorkIsClosed
        <4> QED
          BY <4>1, <4>2
      <3>3. CASE TakeLock(p)
        <4> DEFINE locals == [work[p] EXCEPT !.open = TRUE]
        <4>1. Hold(p, locals) /\ ~At(p, "ingest")
          BY <3>3 DEF TakeLock, Enter, At
        <4>2. locals.open /\ locals.all = work[p].all /\ locals.seen = work[p].seen
          BY <3>1, NoWorkIsClosed
        <4> QED
          BY <4>1, <4>2
      <3>4. ASSUME NEW i \in Ids, OpenIngest(p, i)
            PROVE  \E locals : /\ Hold(p, locals) /\ locals.open /\ locals.all = work[p].all
                               /\ locals.seen = work[p].seen
                               /\ At(p, "ingest") => locals.rows \cap work[p].seen = {}
        <4> DEFINE lex == IF files.lexicon = "good" THEN files.version ELSE 0
                   locals == [work[p] EXCEPT !.open = TRUE, !.rows = {i}, !.new = (p = "cli"),
                                             !.lex = lex]
        <4>1. Hold(p, locals)
          BY <3>4 DEF OpenIngest
        <4>2. /\ locals.open /\ locals.all = work[p].all /\ locals.seen = work[p].seen
              /\ locals.rows = {i}
          <5> HIDE DEF lex
          <5> QED
            BY <3>1, NoWorkIsClosed
        <4>3. i \notin work[p].seen
          <5>1. i \in (stored \ work[p].seen) \cup {nextId}
            BY <3>4 DEF OpenIngest
          <5>2. nextId \notin work[p].seen
            BY DEF GradeInv, PollsLook, CountInv, TablesTyped
          <5> QED
            BY <5>1, <5>2
        <4> HIDE DEF locals
        <4> QED
          BY <4>1, <4>2, <4>3
      <3> QED
        BY <1>3, <3>2, <3>3, <3>4
    <2>2. /\ plan' = plan /\ work'[p].open /\ work'[p].all = work[p].all
          /\ work'[p].seen = work[p].seen
          /\ At(p, "ingest") => work'[p].rows \cap work[p].seen = {}
          /\ \A q \in Procs \ {p} : work'[q] = work[q]
      BY <2>1 DEF Hold, GradeInv, CountInv, ProcsTyped
    <2>3. ~At(p, "grade") /\ ~At(p, "lexicon") /\ UNCHANGED <<stored, grade>>
      BY <1>3 DEF OpenRecount, TakeLock, OpenIngest, Recounts, Enter, At, data
    <2> QED
      BY <2>2, <2>3, HoldGrades
  <1>4. CASE GroupBatch(p)
    BY <1>4, GradesUntouched DEF GroupBatch, procs
  <1>5. CASE FailNotReady(p)
    BY <1>5, RaiseGrades DEF FailNotReady
  <1> QED
    BY <1>1, <1>3, <1>4, <1>5, OpenGradesWalks, CommitGradesWalks, LoadLexiconWalks,
       CommitIngestGrades DEF Step

LEMMA CommandGrades ==
  ASSUME GradeInv, TypeInv', CountInv', NEW c \in Commands, Command(c)
  PROVE  GradeInv'
  <1> DEFINE locals == [Begun(CommandPlan(c)) EXCEPT !.all = (c = "analyse")]
  <1>1. /\ plan'["cli"] = CommandPlan(c) /\ work'["cli"] = locals /\ Same("worker")
        /\ UNCHANGED <<stored, grade>>
    BY DEF Command, data, GradeInv, CountInv, ProcsTyped, Procs, Same
  <1>2. /\ ~locals.open /\ locals.rows = {} /\ (locals.all <=> c = "analyse")
        /\ locals.seen \subseteq stored
    BY BegunIs, NoWorkIsClosed
  <1> HIDE DEF locals
  <1>3. locals.all => plan'["cli"] = <<"lexicon", "grade">>
    BY <1>1, <1>2 DEF CommandPlan
  <1>4. Head(<<"lexicon", "grade">>) = "lexicon"
    OBVIOUS
  <1>5. PollsLook'
    BY <1>1, <1>2, PollsKept DEF GradeInv, Ingesting, Procs
  <1> QED
    BY <1>1, <1>2, <1>3, <1>4, <1>5
    DEF GradeInv, CommandShape, HandsEmpty, WalkInv, Regrading, Same, At, Procs

LEMMA NextGrade == GradeInv /\ [Next]_vars => GradeInv'
  <1> SUFFICES ASSUME GradeInv, [Next]_vars PROVE GradeInv'
    OBVIOUS
  <1>1. TypeInv' /\ CountInv'
    BY NextType, NextCount DEF GradeInv
  <1>2. ASSUME UNCHANGED <<data, procs>> PROVE GradeInv'
    BY <1>1, <1>2, GradesUntouched DEF data, procs
  <1>3. ASSUME NEW state \in LexiconStates, EditLexicon(state) PROVE GradeInv'
    BY <1>2, <1>3 DEF EditLexicon
  <1>4. CASE Stop \/ Recover \/ Retry \/ Elapse \/ UNCHANGED vars
    BY <1>2, <1>4 DEF Stop, Recover, Retry, Elapse, vars
  <1>5. CASE (\E p \in Procs : Fail(p)) \/ Outage
    BY <1>1, <1>5, RaiseGrades DEF Fail, Outage
  <1>6. CASE LeaveWait \/ Beat \/ Sleep \/ Launch \/ \E polled \in BOOLEAN : Due(polled)
    <2>1. /\ \E phases : Go("worker", phases)
          /\ UNCHANGED <<stored, grade>> /\ "worker" \in Procs
      BY <1>6 DEF LeaveWait, Beat, Sleep, Launch, Due, data, Procs
    <2> QED
      BY <1>1, <2>1, GoGrades
  <1>7. ASSUME NEW p \in Procs, Crash(p) PROVE GradeInv'
    BY <1>1, <1>7, GoGrades DEF Crash
  <1> QED
    BY <1>1, <1>3, <1>4, <1>5, <1>6, <1>7, StepGrades, CommandGrades DEF Next, Loop

\* grade_stored(only_missing=False) pages by the id of the last article of a
\* batch: when it ends, no article that had a grade at its start, and was in
\* nobody else's batch or unmet by a poll then, is left with one from an older lexicon, for any
\* number of articles, any batch, and any commands, commits and edits meanwhile.
THEOREM RegradingIsComplete == Spec => Regrades
  <1> DEFINE Walked == \A p \in Procs : FinishGrades(p) /\ work[p].all
                           => \A i \in work[p].sure : grade[i] >= work[p].lex
  <1>1. GradeInv => Walked
    <2> SUFFICES ASSUME GradeInv, NEW p \in Procs, FinishGrades(p), work[p].all, NEW i \in work[p].sure
                 PROVE  grade[i] >= work[p].lex
      OBVIOUS
    <2>1. p = "cli" /\ Regrading
      BY DEF GradeInv, CommandShape, Procs, Regrading, FinishGrades, Enter
    <2>2. i \in stored /\ (grade[i] >= work[p].lex \/ i > work[p].after)
      BY <2>1 DEF GradeInv, WalkInv, SureKept, Ahead
    <2>3. ~(i > work[p].after)
      BY <2>2 DEF FinishGrades, ToAnalyse
    <2> QED
      BY <2>2, <2>3
  <1>2. Walked => [Walked]_vars
    OBVIOUS
  <1> QED
    BY <1>1, InitGrade, NextGrade, PTL DEF Spec, Regrades

-----------------------------------------------------------------------------
(* The loops over batches.                                                 *)

\* What is being graded comes after the cursor.
BatchAhead(p) == At(p, "grade") => \A i \in work[p].rows : i > work[p].after
BatchesAhead == \A p \in Procs : BatchAhead(p)

LEMMA OthersStayAhead ==
  ASSUME BatchesAhead, NEW p \in Procs, BatchAhead(p)', \A q \in Procs \ {p} : Same(q)
  PROVE  BatchesAhead'
  <1>1. ASSUME NEW q \in Procs, Same(q) PROVE BatchAhead(q)'
    BY <1>1 DEF BatchesAhead, BatchAhead, Same, At, Busy
  <1> QED
    BY <1>1 DEF BatchesAhead

LEMMA GoIsAhead ==
  ASSUME GradeInv, BatchesAhead, NEW p \in Procs, NEW phases, Go(p, phases)
  PROVE  BatchesAhead'
  <1>1. work'[p].rows = {} /\ \A q \in Procs \ {p} : Same(q)
    BY BegunIs DEF Go, GradeInv, CountInv, ProcsTyped, Same
  <1>2. BatchAhead(p)'
    BY <1>1 DEF BatchAhead
  <1> QED
    BY <1>1, <1>2, OthersStayAhead

LEMMA RaiseIsAhead ==
  ASSUME GradeInv, BatchesAhead, NEW failing, Raise(failing)
  PROVE  BatchesAhead'
  <1>1. ASSUME NEW p \in Procs PROVE BatchAhead(p)'
    <2>1. work'[p].rows = {} \/ Same(p)
      BY Rolled DEF Raise, Same, GradeInv, CountInv
    <2> QED
      BY <2>1 DEF BatchesAhead, BatchAhead, Same, At, Busy
  <1> QED
    BY <1>1 DEF BatchesAhead

LEMMA HoldIsAhead ==
  ASSUME GradeInv, BatchesAhead, NEW p \in Procs, NEW locals, Hold(p, locals),
         At(p, "grade") => \A i \in locals.rows : i > locals.after
  PROVE  BatchesAhead'
  <1>1. work'[p] = locals /\ plan' = plan /\ \A q \in Procs \ {p} : Same(q)
    BY DEF Hold, GradeInv, CountInv, ProcsTyped, Same
  <1>2. BatchAhead(p)'
    BY <1>1 DEF BatchAhead, At, Busy
  <1> QED
    BY <1>1, <1>2, OthersStayAhead

LEMMA StepIsAhead ==
  ASSUME GradeInv, BatchesAhead, NEW p \in Procs, Step(p)
  PROVE  BatchesAhead'
  <1>1. CASE \/ CheckTables(p) \/ CreateTables(p) \/ CommitRecount(p) \/ FinishGrades(p)
             \/ LeaveGroup(p) \/ FinishIngest(p)
    BY <1>1, GoIsAhead
    DEF CheckTables, CreateTables, CommitRecount, FinishGrades, LeaveGroup, FinishIngest
  <1>2. CASE OpenRecount(p) \/ TakeLock(p) \/ CommitIngest(p) \/ \E i \in Ids : OpenIngest(p, i)
    <2>1. ~At(p, "grade") /\ \E locals : Hold(p, locals)
      BY <1>2 DEF OpenRecount, TakeLock, CommitIngest, OpenIngest, Recounts, Enter, At
    <2> QED
      BY <2>1, HoldIsAhead
  <1>3. DOMAIN work[p] = DOMAIN NoWork
    BY DEF GradeInv, CountInv, ProcsTyped
  <1>4. CASE OpenGrades(p)
    <2> DEFINE rows == FirstIds(ToAnalyse(p), Batch)
               locals == [work[p] EXCEPT !.open = TRUE, !.rows = rows]
    <2>1. \A i \in rows : i > work[p].after
      BY FirstIdsAre DEF ToAnalyse
    <2>2. locals.rows = rows /\ locals.after = work[p].after
      BY <1>3, NoWorkIsClosed
    <2>3. Hold(p, locals)
      BY <1>4 DEF OpenGrades
    <2> HIDE DEF locals, rows
    <2> QED
      BY <2>1, <2>2, <2>3, HoldIsAhead
  <1>5. CASE CommitGrades(p)
    <2>1. PICK last \in work[p].rows :
              Hold(p, [work[p] EXCEPT !.open = FALSE, !.rows = {}, !.after = last])
      BY <1>5 DEF CommitGrades
    <2>2. [work[p] EXCEPT !.open = FALSE, !.rows = {}, !.after = last].rows = {}
      BY <1>3, NoWorkIsClosed
    <2> QED
      BY <2>1, <2>2, HoldIsAhead
  <1>6. CASE LoadLexicon(p)
    <2>1. CASE files.lexicon = "good"
      <3>1. work'[p].rows = {} /\ \A q \in Procs \ {p} : Same(q)
        BY <1>6, <2>1, Loading DEF GradeInv, CountInv
      <3>3. BatchAhead(p)'
        BY <3>1 DEF BatchAhead
      <3> QED
        BY <3>1, <3>3, OthersStayAhead
    <2> QED
      BY <1>6, <2>1, RaiseIsAhead DEF LoadLexicon
  <1>7. CASE GroupBatch(p)
    BY <1>7 DEF GroupBatch, procs, BatchesAhead, BatchAhead, At, Busy
  <1>8. CASE FailNotReady(p)
    BY <1>8, RaiseIsAhead DEF FailNotReady
  <1> QED
    BY <1>1, <1>2, <1>4, <1>5, <1>6, <1>7, <1>8 DEF Step

LEMMA NextIsAhead == GradeInv /\ BatchesAhead /\ [Next]_vars => BatchesAhead'
  <1> SUFFICES ASSUME GradeInv, BatchesAhead, [Next]_vars PROVE BatchesAhead'
    OBVIOUS
  <1>1. CASE UNCHANGED procs
    BY <1>1 DEF procs, BatchesAhead, BatchAhead, At, Busy
  <1>2. CASE (\E p \in Procs : Fail(p)) \/ Outage
    BY <1>2, RaiseIsAhead DEF Fail, Outage
  <1>3. CASE LeaveWait \/ Beat \/ Sleep \/ Launch \/ \E polled \in BOOLEAN : Due(polled)
    <2>1. (\E phases : Go("worker", phases)) /\ "worker" \in Procs
      BY <1>3 DEF LeaveWait, Beat, Sleep, Launch, Due, Procs
    <2> QED
      BY <2>1, GoIsAhead
  <1>4. ASSUME NEW c \in Commands, Command(c) PROVE BatchesAhead'
    <2>1. work'["cli"].rows = {} /\ "cli" \in Procs /\ \A q \in Procs \ {"cli"} : Same(q)
      BY <1>4, BegunIs, NoWorkIsClosed DEF Command, GradeInv, CountInv, ProcsTyped, Procs, Same
    <2>2. BatchAhead("cli")'
      BY <2>1 DEF BatchAhead
    <2> QED
      BY <2>1, <2>2, OthersStayAhead
  <1>5. ASSUME NEW p \in Procs, Crash(p) PROVE BatchesAhead'
    BY <1>5, GoIsAhead DEF Crash
  <1> QED
    BY <1>1, <1>2, <1>3, <1>4, <1>5, StepIsAhead
    DEF Next, Loop, Stop, Recover, Retry, Elapse, EditLexicon, vars, procs

\* A batch that is not empty takes something.
LEMMA SomeComeFirst ==
  ASSUME NEW ids \in SUBSET Ids, ids # {}, NEW n \in Nat \ {0}
  PROVE  FirstIds(ids, n) # {}
  <1>1. ids \in SUBSET Nat
    BY NumbersAreTyped DEF Ids
  <1>2. PICK least \in ids : \A i \in ids : <<i, least>> \notin OpToRel(<, Nat)
    BY <1>1, NatLessThanWellFounded, WFMin
  <1>3. {i \in ids : i < least} = {}
    BY <1>1, <1>2 DEF OpToRel
  <1>4. Cardinality({i \in ids : i < least}) = 0
    BY <1>3, FS_EmptySet
  <1> QED
    BY <1>4 DEF FirstIds

\* Every batch of grades moves the cursor on, and every batch of stories takes
\* pending articles that are stored: neither loop goes through the same
\* articles again, whatever the other process and ingest do in the meantime
\* (grading.py grade_stored, cluster.py cluster_pending).
THEOREM BatchesMoveOn ==
  Spec => [][\A p \in Procs :
                /\ CommitGrades(p) => work'[p].after > work[p].after
                /\ GroupBatch(p) => grouped' # grouped /\ grouped \subseteq grouped'
                                      /\ grouped' \subseteq stored]_vars
  <1> DEFINE Advances(p) == /\ CommitGrades(p) => work'[p].after > work[p].after
                            /\ GroupBatch(p) => grouped' # grouped /\ grouped \subseteq grouped'
                                      /\ grouped' \subseteq stored
  <1>1. ASSUME GradeInv, BatchesAhead, NEW p \in Procs, CommitGrades(p)
        PROVE  work'[p].after > work[p].after
    <2>1. PICK last \in work[p].rows :
              Hold(p, [work[p] EXCEPT !.open = FALSE, !.rows = {}, !.after = last])
      BY <1>1 DEF CommitGrades
    <2>2. work'[p].after = last
      BY <1>1, <2>1, NoWorkIsClosed DEF Hold, GradeInv, CountInv, ProcsTyped
    <2>3. last > work[p].after
      BY <1>1 DEF CommitGrades, Enter, BatchesAhead, BatchAhead
    <2> QED
      BY <2>2, <2>3
  <1>2. ASSUME GradeInv, NEW p \in Procs, GroupBatch(p)
        PROVE  grouped' # grouped /\ grouped \subseteq grouped' /\ grouped' \subseteq stored
    <2> DEFINE first == FirstIds(stored \ grouped, Batch)
    <2>1. stored \ grouped \in SUBSET Ids /\ grouped \subseteq stored
      BY <1>2 DEF GradeInv, TypeInv, RowsTyped
    <2>2. first # {} /\ first \subseteq stored \ grouped
      BY <1>2, <2>1, SomeComeFirst, FirstIdsAre, NumbersAssumption DEF GroupBatch
    <2>3. grouped' = grouped \cup first
      BY <1>2 DEF GroupBatch
    <2> HIDE DEF first
    <2> QED
      BY <2>1, <2>2, <2>3
  <1>3. GradeInv /\ BatchesAhead /\ [Next]_vars => [\A p \in Procs : Advances(p)]_vars
    BY <1>1, <1>2
  <1>4. Init => BatchesAhead
    BY DEF Init, BatchesAhead, BatchAhead, NoWork
  <1> QED
    BY <1>3, <1>4, InitGrade, NextGrade, NextIsAhead, PTL DEF Spec

=============================================================================
