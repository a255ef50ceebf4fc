------------------------------- MODULE Worker -------------------------------
(***************************************************************************)
(* The worker process (app/scheduler/worker.py run_forever) from its start *)
(* to its stop: waiting for the database, creating and seeding the tables, *)
(* catching up on grades and stories, polling, beating.  Beside it one     *)
(* command of app/main.py may run in a process of its own.                 *)
(*                                                                         *)
(* Each process has a plan, the phases it still has to go through.  Every  *)
(* phase is one transaction, or a loop of one transaction per batch; work  *)
(* holds the locals of the phase at the head of the plan.  An exception    *)
(* cuts the plan the way the try blocks of the code do.                    *)
(*                                                                         *)
(* What Ingest and Clustering model in detail is coarser here: a poll is a *)
(* series of transactions that store or meet one article each, after one   *)
(* look at what is stored; a clustering batch gives stories to the oldest  *)
(* pending articles.  Ids are given when a row is inserted and become      *)
(* visible when its transaction commits.                                   *)
(***************************************************************************)
EXTENDS Integers, Sequences, FiniteSets

CONSTANTS MaxId,         \* bound: articles ever inserted
          MaxOld,        \* bound: articles stored by a version without term_stats
          Batch,         \* GRADE_BATCH and CLUSTER_BATCH
          CatchUpEvery,  \* CATCH_UP_EVERY, in ticks of TICK_SECONDS
          MaxAge,        \* settings.health_max_age, in ticks
          LexiconStates, \* what load_lexicon can make of an edited file
          Commands,      \* commands run beside the worker
          MaxCommands,   \* bound: how many of them
          MaxEdits,      \* bound: edits of the lexicon
          MaxFaults,     \* bound: exceptions, crashes and outages
          MaxUpsets      \* bound: faults and edits together

Ids == 1..MaxId
Procs == {"worker", "cli"}

ASSUME NumbersAssumption ==
    /\ MaxId \in Nat /\ MaxOld \in 0..MaxId /\ Batch \in Nat \ {0}
    /\ CatchUpEvery \in Nat \ {0} /\ MaxAge \in Nat
    /\ MaxCommands \in Nat /\ MaxEdits \in Nat /\ MaxFaults \in Nat /\ MaxUpsets \in Nat
ASSUME StatesAssumption == LexiconStates \subseteq {"good", "invalid", "unreadable"}
ASSUME CommandsAssumption == Commands \subseteq {"db", "ingest", "analyse", "missing", "cluster"}

VARIABLES
    db,        \* the database accepts connections
    tables,    \* the tables of this version exist, term_stats among them
    stored,    \* table articles
    grade,     \* table article_analysis: the lexicon version used, 0 for no row
    grouped,   \* table article_clusters
    counted,   \* table term_stats: how often each article's terms are in it
    again,     \* history: upserts that met each article since the last recount
    nextId,    \* AUTO_INCREMENT of articles
    mode,      \* the worker process
    plan,      \* per process: the phases to come
    work,      \* per process: the locals of the current phase
    stop,      \* the _stop event
    clock,     \* ticks since the last beat and since the last catch-up, and
               \* how often the worker slept since its last work
    files,     \* the lexicon file and its version
    cut,       \* history: a seeding was cut off, or a recount lost an increment
    bounds     \* faults, edits and commands so far

data == <<tables, stored, grade, grouped, counted, again, nextId, cut>>
procs == <<mode, plan, work>>
outside == <<db, stop, files>>
vars == <<data, procs, outside, clock, bounds>>

-----------------------------------------------------------------------------
(* Processes and their plans.                                              *)

NoWork == [open |-> FALSE, lex |-> 0, after |-> 0, rows |-> {}, all |-> FALSE, sure |-> {},
           seen |-> {}, new |-> FALSE]

CatchUpUngraded == <<"group">>      \* mutant: catch_up only clusters
CatchUp == <<"lexicon", "grade", "group">>
Startup == <<"connect", "check">> \o CatchUp \o <<"beat">>

CommandPlan(c) ==
    CASE c = "db"      -> <<"check">>
      [] c = "ingest"  -> <<"ingest", "group">>
      [] c = "cluster" -> <<"recount", "group">>
      [] OTHER         -> <<"lexicon", "grade">>

Busy(p) == plan[p] # << >>
At(p, phase) == Busy(p) /\ Head(plan[p]) = phase
Pending(p, phase) == \E i \in DOMAIN plan[p] : plan[p][i] = phase

\* What the phase at the head needs; without it the code raises.
Ready(p) ==
    CASE Head(plan[p]) \in {"connect", "lexicon", "beat"} -> TRUE
      [] Head(plan[p]) \in {"check", "create"}            -> db
      [] OTHER                                            -> db /\ tables

Enter(p, phase) == At(p, phase) /\ Ready(p)
\* A poll looks at what is stored (existing_url_hashes) as it begins.  Most
\* sources look later; what is stored before they do they just do not meet.
Begun(phases) ==
    [NoWork EXCEPT !.seen = IF phases # << >> /\ Head(phases) = "ingest" THEN stored ELSE {}]
Go(p, phases) ==        \* p goes on to phases, the transaction being over
    /\ plan' = [plan EXCEPT ![p] = phases]
    /\ work' = [work EXCEPT ![p] = Begun(phases)]
Hold(p, locals) ==
    /\ work' = [work EXCEPT ![p] = locals]
    /\ UNCHANGED plan
Worked(p) == clock' = IF p = "worker" THEN [clock EXCEPT !.work = 0] ELSE clock

\* The rest of the plan after an exception: a command ends, a cycle without
\* due sources is over, each half of catch_up fails on its own ("grade" follows
\* "lexicon"), and what one source raises run_source swallows: the poll goes on.
AfterFailureBothHalves(p) ==        \* mutant: one try block around both halves
    IF At(p, "ingest") THEN plan[p]
    ELSE IF p = "cli" \/ At(p, "due") THEN << >>
    ELSE IF At(p, "lexicon") \/ At(p, "grade")
         THEN <<"beat">>
         ELSE Tail(plan[p])
AfterFailureBeats(p) ==             \* mutant: the beat moved into a finally
    IF At(p, "ingest") THEN plan[p]
    ELSE IF p = "cli" THEN << >>
    ELSE IF At(p, "due") THEN <<"beat">>
    ELSE SubSeq(plan[p], IF At(p, "lexicon") THEN 3 ELSE 2, Len(plan[p]))
AfterFailure(p) ==
    IF At(p, "ingest") THEN plan[p]
    ELSE IF p = "cli" \/ At(p, "due") THEN << >>
    ELSE SubSeq(plan[p], IF At(p, "lexicon") THEN 3 ELSE 2, Len(plan[p]))

\* Its transaction is rolled back; a poll knows what it knew.
RolledBack(p) ==
    IF At(p, "ingest") THEN [work[p] EXCEPT !.open = FALSE, !.rows = {}, !.lex = 0]
                       ELSE Begun(AfterFailure(p))

\* In start-up create_all is outside any try: the process ends.
Dies(p) == p = "worker" /\ \E phase \in {"check", "create", "seed"} : At(p, phase)

\* The exceptions of the processes in failing, all in one step.
Raise(failing) ==
    /\ plan' = [p \in Procs |-> IF p \notin failing THEN plan[p]
                                ELSE IF Dies(p) THEN << >> ELSE AfterFailure(p)]
    /\ work' = [p \in Procs |-> IF p \in failing THEN RolledBack(p) ELSE work[p]]
    /\ mode' = IF \E p \in failing : Dies(p) THEN "dead" ELSE mode
    /\ cut' = (cut \/ \E p \in failing : Pending(p, "seed"))

Calm == bounds.faults + bounds.edits < MaxUpsets
Fault == Calm /\ bounds.faults < MaxFaults /\ bounds' = [bounds EXCEPT !.faults = @ + 1]

-----------------------------------------------------------------------------
(* Start, stop and the loop.                                               *)

\* docker compose starts the container, or restarts it after it died.
Launch ==
    /\ mode = "dead" /\ ~stop
    /\ mode' = "starting"
    /\ Go("worker", Startup)
    /\ UNCHANGED <<data, outside, clock, bounds>>

\* wait_for_database: the server answers, or a signal ends the wait.
LeaveWait ==
    /\ At("worker", "connect") /\ (db \/ stop)
    /\ Go("worker", IF stop THEN << >> ELSE Tail(plan["worker"]))
    /\ mode' = IF stop THEN "stopped" ELSE mode
    /\ UNCHANGED <<data, outside, clock, bounds>>

Later(n, most) == IF n > most THEN n ELSE n + 1
Ticked == [beat |-> Later(clock.beat, MaxAge), work |-> Later(clock.work, MaxAge),
           idle |-> Later(clock.idle, CatchUpEvery - 1)]

\* A poll takes time -- retries, timeouts and Retry-After of every outlet --
\* and nothing beats while it goes on.  (The loops of catch_up beat with every
\* batch: the time of the other phases is left out.)
Elapse ==
    /\ At("worker", "ingest")
    /\ clock' = [clock EXCEPT !.beat = Later(@, MaxAge)]
    /\ UNCHANGED <<data, procs, outside, bounds>>

\* wait_for_database sleeps between two attempts.
Retry ==
    /\ At("worker", "connect") /\ ~db /\ ~stop
    /\ clock' = Ticked
    /\ UNCHANGED <<data, procs, outside, bounds>>

\* health.beat; after that of start-up, which has caught up, the loop begins
\* without a sleep.
Beat ==
    /\ At("worker", "beat")
    /\ clock' = [clock EXCEPT !.beat = 0, !.idle = IF mode = "starting" THEN 0 ELSE @]
    /\ mode' = IF mode = "starting" /\ stop THEN "stopped" ELSE "looping"
    /\ Go("worker", IF mode = "starting" /\ ~stop THEN <<"due">> ELSE << >>)
    /\ UNCHANGED <<data, outside, bounds>>

\* _stop.wait(TICK_SECONDS), and the test of the loop
SleepDeaf ==        \* mutant: the loop does not test the event
    /\ mode = "looping" /\ ~Busy("worker")
    /\ Go("worker", <<"due">>) /\ UNCHANGED mode
    /\ clock' = Ticked
    /\ UNCHANGED <<data, outside, bounds>>
Sleep ==
    /\ mode = "looping" /\ ~Busy("worker")
    /\ Go("worker", IF stop THEN << >> ELSE <<"due">>)
    /\ mode' = IF stop THEN "stopped" ELSE mode
    /\ clock' = Ticked
    /\ UNCHANGED <<data, outside, bounds>>

ShouldCatchUp(polled) == polled \/ clock.idle >= CatchUpEvery

\* due_sources, and what run_forever makes of its answer; last_catch_up is set
\* whether or not catch_up succeeds, to the time when the poll is over: idle
\* is 0 as long as it goes on.
DueBeatsIfPolled(polled) ==     \* mutant: an idle cycle does not beat
    /\ Enter("worker", "due")
    /\ Go("worker", (IF polled THEN <<"ingest">> ELSE << >>)
                    \o (IF ShouldCatchUp(polled) THEN CatchUp ELSE << >>)
                    \o (IF polled THEN <<"beat">> ELSE << >>))
    /\ clock' = [clock EXCEPT !.work = 0,
                              !.idle = IF ShouldCatchUp(polled) THEN 0 ELSE @]
    /\ UNCHANGED <<data, mode, outside, bounds>>
Due(polled) ==
    /\ Enter("worker", "due")
    /\ Go("worker", (IF polled THEN <<"ingest">> ELSE << >>)
                    \o (IF ShouldCatchUp(polled) THEN CatchUp ELSE << >>) \o <<"beat">>)
    /\ clock' = [clock EXCEPT !.work = 0,
                              !.idle = IF ShouldCatchUp(polled) THEN 0 ELSE @]
    /\ UNCHANGED <<data, mode, outside, bounds>>

-----------------------------------------------------------------------------
(* create_all and rebuild_term_stats.                                      *)

\* inspect(engine).has_table(term_stats)
CheckTablesAfterwards(p) ==     \* mutant: has_table asked when create_all has run
    /\ Enter(p, "check")
    /\ Go(p, <<"create">> \o Tail(plan[p]))
    /\ Worked(p)
    /\ UNCHANGED <<data, mode, outside, bounds>>
CheckTables(p) ==
    /\ Enter(p, "check")
    /\ Go(p, <<"create">> \o (IF tables THEN << >> ELSE <<"seed">>) \o Tail(plan[p]))
    /\ Worked(p)
    /\ UNCHANGED <<data, mode, outside, bounds>>

\* Base.metadata.create_all: DDL commits by itself
CreateTables(p) ==
    /\ Enter(p, "create")
    /\ tables' = TRUE
    /\ Go(p, Tail(plan[p]))
    /\ Worked(p)
    /\ UNCHANGED <<stored, grade, grouped, counted, again, nextId, cut, mode, outside, bounds>>

Recounts(p) == At(p, "seed") \/ At(p, "recount")

\* The first SELECT of the recount fixes the articles the transaction sees.
OpenRecount(p) ==
    /\ Recounts(p) /\ Ready(p) /\ ~work[p].open
    /\ Hold(p, [work[p] EXCEPT !.open = TRUE, !.rows = stored])
    /\ UNCHANGED <<data, mode, outside, clock, bounds>>

\* DELETE takes the counts as they are now, increments committed since included.
CommitRecountAdds(p) ==     \* mutant: the old counts are not deleted
    /\ Recounts(p) /\ work[p].open
    /\ counted' = [i \in Ids |-> counted[i] + (IF i \in work[p].rows THEN 1 ELSE 0)]
    /\ again' = [i \in Ids |-> 0]
    /\ Go(p, Tail(plan[p]))
    /\ Worked(p)
    /\ UNCHANGED <<tables, stored, grade, grouped, nextId, cut, mode, outside, bounds>>
CommitRecount(p) ==
    /\ Recounts(p) /\ work[p].open
    /\ counted' = [i \in Ids |-> IF i \in work[p].rows THEN 1 ELSE 0]
    /\ again' = [i \in Ids |-> 0]
    /\ Go(p, Tail(plan[p]))
    /\ Worked(p)
    /\ UNCHANGED <<tables, stored, grade, grouped, nextId, cut, mode, outside, bounds>>

-----------------------------------------------------------------------------
(* grade_stored.                                                           *)

\* Another process has read article i, or may yet meet it, and write its grade.
InHand(p, i) ==
    \E q \in Procs \ {p} : \/ At(q, "grade") /\ i \in work[q].rows
                           \/ At(q, "ingest") /\ i \notin work[q].seen

\* load_lexicon; which grades analyse --all can be held to is remembered for
\* Regrades alone.
LoadLexicon(p) ==
    /\ At(p, "lexicon") /\ ~work[p].open
    /\ IF files.lexicon = "good"
       THEN /\ plan' = [plan EXCEPT ![p] = Tail(@)]
            /\ work' = [work EXCEPT ![p] =
                   [Begun(Tail(plan[p])) EXCEPT
                       !.all = work[p].all, !.lex = files.version,
                       !.sure = {i \in stored : work[p].all /\ grade[i] # 0 /\ ~InHand(p, i)}]]
            /\ UNCHANGED <<mode, cut>>
       ELSE Raise({p})
    /\ UNCHANGED <<tables, stored, grade, grouped, counted, again, nextId, outside, clock, bounds>>

\* articles_to_analyse, before its LIMIT
ToAnalyse(p) == {i \in stored : i > work[p].after /\ (grade[i] = 0 \/ work[p].all)}

\* The first n of a set of ids.
FirstIds(ids, n) == {i \in ids : Cardinality({j \in ids : j < i}) < n}

OpenGrades(p) ==
    /\ Enter(p, "grade") /\ ~work[p].open /\ ToAnalyse(p) # {}
    /\ Hold(p, [work[p] EXCEPT !.open = TRUE, !.rows = FirstIds(ToAnalyse(p), Batch)])
    /\ UNCHANGED <<data, mode, outside, clock, bounds>>

\* on_batch is health.beat in the worker.
CommitGradesSkipping(p) ==      \* mutant: paging by the last id and one more
    /\ Enter(p, "grade") /\ work[p].open
    /\ grade' = [i \in Ids |-> IF i \in work[p].rows THEN work[p].lex ELSE grade[i]]
    /\ \E last \in work[p].rows :
        /\ \A i \in work[p].rows : i <= last
        /\ Hold(p, [work[p] EXCEPT !.open = FALSE, !.rows = {}, !.after = last + 1])
    /\ clock' = IF p = "worker" THEN [clock EXCEPT !.work = 0, !.beat = 0] ELSE clock
    /\ UNCHANGED <<tables, stored, grouped, counted, again, nextId, cut, mode, outside, bounds>>
CommitGrades(p) ==
    /\ Enter(p, "grade") /\ work[p].open
    /\ grade' = [i \in Ids |-> IF i \in work[p].rows THEN work[p].lex ELSE grade[i]]
    /\ \E last \in work[p].rows :
        /\ \A i \in work[p].rows : i <= last
        /\ Hold(p, [work[p] EXCEPT !.open = FALSE, !.rows = {}, !.after = last])
    /\ clock' = IF p = "worker" THEN [clock EXCEPT !.work = 0, !.beat = 0] ELSE clock
    /\ UNCHANGED <<tables, stored, grouped, counted, again, nextId, cut, mode, outside, bounds>>

\* An empty page ends the loop.
FinishGrades(p) ==
    /\ Enter(p, "grade") /\ ~work[p].open /\ ToAnalyse(p) = {}
    /\ Go(p, Tail(plan[p]))
    /\ Worked(p)
    /\ UNCHANGED <<data, mode, outside, bounds>>

-----------------------------------------------------------------------------
(* cluster_pending: Clustering models the transactions, here they are one. *)

Unlocked(p) == \A q \in Procs \ {p} : ~(At(q, "group") /\ work[q].open)

TakeLock(p) ==
    /\ Enter(p, "group") /\ ~work[p].open /\ Unlocked(p)
    /\ Hold(p, [work[p] EXCEPT !.open = TRUE])
    /\ UNCHANGED <<data, mode, outside, clock, bounds>>

GroupUnstored(p) ==     \* mutant: pending articles are read uncommitted
    /\ Enter(p, "group") /\ work[p].open
    /\ 1..(nextId - 1) \ grouped # {}
    /\ grouped' = grouped \cup FirstIds(1..(nextId - 1) \ grouped, Batch)
    /\ clock' = IF p = "worker" THEN [clock EXCEPT !.work = 0, !.beat = 0] ELSE clock
    /\ UNCHANGED <<tables, stored, grade, counted, again, nextId, cut, procs, outside, bounds>>
GroupBatch(p) ==
    /\ Enter(p, "group") /\ work[p].open
    /\ stored \ grouped # {}
    /\ grouped' = grouped \cup FirstIds(stored \ grouped, Batch)
    /\ clock' = IF p = "worker" THEN [clock EXCEPT !.work = 0, !.beat = 0] ELSE clock
    /\ UNCHANGED <<tables, stored, grade, counted, again, nextId, cut, procs, outside, bounds>>

\* Locked out, or nothing is pending any more.
LeaveGroup(p) ==
    /\ Enter(p, "group")
    /\ IF work[p].open THEN stored = grouped ELSE ~Unlocked(p)
    /\ Go(p, Tail(plan[p]))
    /\ Worked(p)
    /\ UNCHANGED <<data, mode, outside, bounds>>

-----------------------------------------------------------------------------
(* run_once: the sources of a poll.  With a lexicon that does not validate *)
(* an article is stored without a grade; one that cannot be decoded raises *)
(* what _load_lexicon does not catch.                                      *)

\* A source upserts an article that was not stored when it looked: a new one,
\* or one that another source or process has stored since.  Either is new to
\* report.new, whatever becomes of the transaction.
OpenIngest(p, i) ==
    /\ Enter(p, "ingest") /\ ~work[p].open
    /\ i \in (stored \ work[p].seen) \cup {nextId} /\ files.lexicon # "unreadable"
    /\ Hold(p, [work[p] EXCEPT !.open = TRUE, !.rows = {i}, !.new = (p = "cli"),
                               !.lex = IF files.lexicon = "good" THEN files.version ELSE 0])
    /\ nextId' = IF i = nextId THEN nextId + 1 ELSE nextId
    /\ UNCHANGED <<tables, stored, grade, grouped, counted, again, cut, mode, outside, clock, bounds>>

RecountOpen == \E p \in Procs : Recounts(p) /\ work[p].open

\* An article that is met again is counted and graded again.
CommitIngest(p) ==
    /\ Enter(p, "ingest") /\ work[p].open
    /\ stored' = stored \cup work[p].rows
    /\ grade' = [i \in Ids |-> IF i \in work[p].rows /\ work[p].lex # 0 THEN work[p].lex ELSE grade[i]]
    /\ counted' = [i \in Ids |-> counted[i] + (IF i \in work[p].rows THEN 1 ELSE 0)]
    /\ again' = [i \in Ids |-> again[i] + (IF i \in work[p].rows \cap stored THEN 1 ELSE 0)]
    /\ cut' = (cut \/ (RecountOpen /\ work[p].rows \ stored # {}))
    /\ Hold(p, [work[p] EXCEPT !.open = FALSE, !.rows = {}, !.lex = 0,
                               !.seen = @ \cup (work[p].rows \cap stored)])
    /\ Worked(p)
    /\ UNCHANGED <<tables, grouped, nextId, mode, outside, bounds>>

\* The pool has drained; a command clusters only when a source reported new
\* articles.
FinishIngest(p) ==
    /\ At(p, "ingest") /\ ~work[p].open
    /\ Go(p, IF p = "cli" /\ ~work[p].new THEN << >> ELSE Tail(plan[p]))
    /\ UNCHANGED <<data, mode, outside, clock, bounds>>

-----------------------------------------------------------------------------
(* Commands, operators and failures.                                       *)

\* main
Command(c) ==
    /\ ~Busy("cli") /\ bounds.commands < MaxCommands
    /\ plan' = [plan EXCEPT !["cli"] = CommandPlan(c)]
    /\ work' = [work EXCEPT !["cli"] = [Begun(CommandPlan(c)) EXCEPT !.all = (c = "analyse")]]
    /\ bounds' = [bounds EXCEPT !.commands = @ + 1]
    /\ UNCHANGED <<data, mode, outside, clock>>

\* The signal handler only sets the event.
Stop ==
    /\ ~stop /\ stop' = TRUE
    /\ UNCHANGED <<data, procs, db, files, clock, bounds>>

EditLexicon(state) ==
    /\ Calm /\ bounds.edits < MaxEdits
    /\ bounds' = [bounds EXCEPT !.edits = @ + 1]
    /\ files' = [files EXCEPT !.version = @ + 1, !.lexicon = state]
    /\ UNCHANGED <<data, procs, db, stop, clock>>

\* The phase at the head cannot have what it needs.
FailNotReady(p) ==
    /\ Busy(p) /\ ~Ready(p)
    /\ Raise({p})
    /\ UNCHANGED <<tables, stored, grade, grouped, counted, again, nextId, outside, clock, bounds>>

\* Any other exception of a phase.
Fail(p) ==
    /\ Busy(p) /\ Head(plan[p]) \notin {"connect", "beat"}
    /\ Fault
    /\ Raise({p})
    /\ UNCHANGED <<tables, stored, grade, grouped, counted, again, nextId, outside, clock>>

\* A process is killed.
Crash(p) ==
    /\ IF p = "worker" THEN mode \in {"starting", "looping"} /\ mode' = "dead"
                       ELSE Busy(p) /\ UNCHANGED mode
    /\ Fault
    /\ Go(p, << >>)
    /\ cut' = (cut \/ Pending(p, "seed"))
    /\ UNCHANGED <<tables, stored, grade, grouped, counted, again, nextId, outside, clock>>

\* The server goes away, and every open transaction with it.
Outage ==
    /\ db /\ Fault
    /\ db' = FALSE
    /\ Raise({p \in Procs : work[p].open})
    /\ UNCHANGED <<tables, stored, grade, grouped, counted, again, nextId, stop, files, clock>>

Recover ==
    /\ ~db /\ db' = TRUE
    /\ UNCHANGED <<data, procs, stop, files, clock, bounds>>

-----------------------------------------------------------------------------
Init ==
    /\ db \in BOOLEAN /\ tables = FALSE
    /\ \E n \in 0..MaxOld : stored = 1..n /\ nextId = n + 1
    /\ grade = [i \in Ids |-> 0] /\ grouped = {}
    /\ counted = [i \in Ids |-> 0] /\ again = [i \in Ids |-> 0]
    /\ mode = "dead" /\ stop = FALSE
    /\ plan = [p \in Procs |-> << >>] /\ work = [p \in Procs |-> NoWork]
    /\ clock = [beat |-> MaxAge + 1, work |-> MaxAge + 1, idle |-> 0]
    /\ \E state \in LexiconStates : files = [version |-> 1, lexicon |-> state]
    /\ cut = FALSE
    /\ bounds = [faults |-> 0, edits |-> 0, commands |-> 0]

\* What a process does by itself.
Step(p) ==
    \/ CheckTables(p) \/ CreateTables(p) \/ OpenRecount(p) \/ CommitRecount(p)
    \/ LoadLexicon(p) \/ OpenGrades(p) \/ CommitGrades(p) \/ FinishGrades(p)
    \/ TakeLock(p) \/ GroupBatch(p) \/ LeaveGroup(p)
    \/ (\E i \in Ids : OpenIngest(p, i)) \/ CommitIngest(p) \/ FinishIngest(p)
    \/ FailNotReady(p)

Loop == LeaveWait \/ Retry \/ Beat \/ Sleep \/ \E polled \in BOOLEAN : Due(polled)

Next ==
    \/ \E p \in Procs : Step(p) \/ Fail(p) \/ Crash(p)
    \/ Loop \/ Launch \/ Elapse
    \/ \E c \in Commands : Command(c)
    \/ \E state \in LexiconStates : EditLexicon(state)
    \/ Stop \/ Outage \/ Recover

\* The worker is sequential: at most one of these is enabled at a time.
WorkerStep == Step("worker") \/ Loop \/ Launch

Fairness == WF_vars(WorkerStep) /\ WF_vars(Step("cli")) /\ WF_vars(Recover)

Spec == Init /\ [][Next]_vars /\ Fairness

-----------------------------------------------------------------------------
(* Properties.                                                             *)

Locals == [open : BOOLEAN, lex : 0..(MaxEdits + 1), after : 0..MaxId,
           rows : SUBSET Ids, all : BOOLEAN, sure : SUBSET Ids,
           seen : SUBSET Ids, new : BOOLEAN]
Phases == {"connect", "check", "create", "seed", "recount", "lexicon", "grade",
           "group", "ingest", "due", "beat"}

\* The type invariant.
TypeOK ==
    /\ db \in BOOLEAN /\ tables \in BOOLEAN /\ stop \in BOOLEAN /\ cut \in BOOLEAN
    /\ stored \subseteq Ids /\ grouped \subseteq stored
    /\ grade \in [Ids -> 0..(MaxEdits + 1)] /\ counted \in [Ids -> Nat] /\ again \in [Ids -> Nat]
    /\ nextId \in 1..(MaxId + 1)
    /\ mode \in {"dead", "starting", "looping", "stopped"}
    /\ plan \in [Procs -> Seq(Phases)] /\ work \in [Procs -> Locals]
    /\ clock \in [beat : 0..(MaxAge + 1), work : 0..(MaxAge + 1), idle : 0..CatchUpEvery]
    /\ files \in [version : 1..(MaxEdits + 1), lexicon : {"good", "invalid", "unreadable"}]
    /\ bounds \in [faults : 0..MaxFaults, edits : 0..MaxEdits, commands : 0..MaxCommands]

\* The term statistics count an article that is stored once, and once more
\* for every upsert that has met it since the last recount, and one that is
\* not stored never, whatever seeding, recounting and ingesting overlap or
\* fail: nothing but a meeting overcounts, and a recount makes up for it.
NeverOvercounted == \A i \in Ids : counted[i] <= IF i \in stored THEN 1 + again[i] ELSE 0

\* Once the tables are there and no seeding is pending, every stored article
\* is counted, and as often as that, unless a seeding was cut off half-way or
\* an article was stored during a recount (the race rebuild_term_stats admits).
SeededUnlessCut ==
    tables /\ ~cut /\ (\A p \in Procs : ~Pending(p, "seed"))
        => \A i \in stored : counted[i] = 1 + again[i]

\* "Beat only after a cycle SUCCEEDS": the last beat is never younger than
\* the last transaction of the worker that succeeded, by the sleeps since.
BeatsFollowWork == clock.work <= clock.beat

\* analyse --all leaves no article with a grade from an older lexicon that had
\* a grade when it began and was in no other process's batch or among what a
\* poll under way may meet again, whatever is stored or graded meanwhile, by
\* any number of commands before it.
Regrades ==
    [][\A p \in Procs : FinishGrades(p) /\ work[p].all
            => \A i \in work[p].sure : grade[i] >= work[p].lex]_vars

Off == stop \/ mode = "stopped"

\* Every stored article gets a story in the end, even when the lexicon stays
\* broken ("a broken lexicon must not stop story grouping") and outlets have
\* nothing new, through outages, restarts and failed halves of catch_up.
EventuallyGrouped ==
    []<>(stored = grouped \/ Off)

\* Every stored article gets a grade in the end, once the lexicon is usable
\* ("a lexicon fixed after a bad deploy ... heals on its own").
EventuallyGraded ==
    []<>((\A i \in stored : grade[i] # 0) \/ files.lexicon # "good" \/ Off)

\* check(): the heartbeat file is young enough.
Healthy == clock.beat <= MaxAge

\* The container becomes healthy again and again, whatever fails and however
\* long a phase takes: through outages and crashes, polls that fail or find
\* nothing, and halves of catch_up that raise on every cycle.  It need not
\* stay healthy: nothing beats during a poll, which may outlast the limit.
HealthReturns == []<>(Healthy \/ Off)

\* SIGTERM ends the worker: also while it waits for a database that does not
\* answer, and whatever is left to catch up.
StopEnds == []<>(stop => mode \in {"stopped", "dead"} /\ ~Busy("worker"))

\* "their terms are counted here, so story clustering starts with a warm IDF":
\* when the worker polls, the articles stored before it are counted.
WarmStart == mode = "looping" => \A i \in stored : counted[i] >= 1

=============================================================================
