---------------------------- MODULE ArticlesApi ----------------------------
(***************************************************************************)
(* A client that walks through GET /api/v1/articles (app/api/app.py        *)
(* list_articles, storage/repositories.py api_articles) with next_cursor,  *)
(* while articles are inserted, committed out of the order of their ids,   *)
(* and graded again.                                                       *)
(***************************************************************************)
EXTENDS Integers, FiniteSets

CONSTANTS MaxId,    \* bound: articles ever inserted
          Grades,
          Ungraded, \* no row in article_analysis
          Limits,   \* the values of ?limit=
          Filters   \* the values of ?grade=, {} when it is absent

Ids == 1..MaxId

ASSUME MaxIdAssumption == MaxId \in Nat
ASSUME LimitsAssumption == Limits \subseteq Nat \ {0}
ASSUME GradesAssumption == Ungraded \notin Grades /\ Filters \subseteq SUBSET Grades

VARIABLES
    visible,    \* committed articles
    open,       \* inserted in a transaction that is still open
    nextId,     \* AUTO_INCREMENT
    grade,      \* article_analysis
    walk,       \* the client: its parameters and its cursor, 0 for none
    times,      \* how often the client was given each article
    steady      \* history: articles that matched since the walk began

table == <<visible, open, nextId, grade>>
vars == <<table, walk, times, steady>>

Matches(i, filter) == filter = {} \/ grade[i] \in filter
Matching(filter) == {i \in visible : Matches(i, filter)}

-----------------------------------------------------------------------------
(* The worker's transactions.                                              *)

Insert ==
    /\ nextId \in Ids
    /\ open' = open \cup {nextId}
    /\ nextId' = nextId + 1
    /\ UNCHANGED <<visible, grade, walk, times, steady>>

Commit(i, g) ==
    /\ i \in open
    /\ open' = open \ {i} /\ visible' = visible \cup {i}
    /\ grade' = [grade EXCEPT ![i] = g]
    /\ UNCHANGED <<nextId, walk, times, steady>>

Rollback(i) ==
    /\ i \in open
    /\ open' = open \ {i}
    /\ UNCHANGED <<visible, nextId, grade, walk, times, steady>>

\* save_analysis, by grade_stored
Regrade(i, g) ==
    /\ i \in visible
    /\ grade' = [grade EXCEPT ![i] = g]
    /\ steady' = {j \in steady : walk.filter = {} \/ grade'[j] \in walk.filter}
    /\ UNCHANGED <<visible, open, nextId, walk, times>>

-----------------------------------------------------------------------------
(* The client.                                                             *)

Begin(limit, filter) ==
    /\ walk.pc = "idle"
    /\ walk' = [pc |-> "walking", before |-> 0, limit |-> limit, filter |-> filter]
    /\ steady' = Matching(filter)
    /\ UNCHANGED <<table, times>>

\* The rows of api_articles: newest first, below the cursor if there is one.
CandidatesInclusive ==      \* mutant: the cursor's own row again
    {i \in Matching(walk.filter) : walk.before # 0 => i <= walk.before}
Candidates == {i \in Matching(walk.filter) : walk.before # 0 => i < walk.before}
Page == {i \in Candidates : Cardinality({j \in Candidates : j > i}) < walk.limit}

\* list_articles: a page that is full carries the id of its last row as cursor.
NextPageShort ==        \* mutant: the cursor is one below the last row
    /\ walk.pc = "walking"
    /\ times' = [i \in Ids |-> times[i] + (IF i \in Page THEN 1 ELSE 0)]
    /\ IF Cardinality(Page) = walk.limit
       THEN \E last \in Page :
              /\ \A i \in Page : last <= i
              /\ walk' = [walk EXCEPT !.before = last - 1]
       ELSE walk' = [walk EXCEPT !.pc = "done"]
    /\ UNCHANGED <<table, steady>>
NextPageNever ==        \* mutant: a cursor also on a page that is not full
    /\ walk.pc = "walking"
    /\ times' = [i \in Ids |-> times[i] + (IF i \in Page THEN 1 ELSE 0)]
    /\ IF Page # {}
       THEN \E last \in Page :
              /\ \A i \in Page : last <= i
              /\ walk' = [walk EXCEPT !.before = last]
       ELSE UNCHANGED walk
    /\ UNCHANGED <<table, steady>>
NextPage ==
    /\ walk.pc = "walking"
    /\ times' = [i \in Ids |-> times[i] + (IF i \in Page THEN 1 ELSE 0)]
    /\ IF Cardinality(Page) = walk.limit
       THEN \E last \in Page :
              /\ \A i \in Page : last <= i
              /\ walk' = [walk EXCEPT !.before = last]
       ELSE walk' = [walk EXCEPT !.pc = "done"]
    /\ UNCHANGED <<table, steady>>

-----------------------------------------------------------------------------
ApiInit ==
    /\ visible = {} /\ open = {} /\ nextId = 1
    /\ grade = [i \in Ids |-> Ungraded]
    /\ walk = [pc |-> "idle", before |-> 0, limit |-> 1, filter |-> {}]
    /\ times = [i \in Ids |-> 0] /\ steady = {}

ApiNext ==
    \/ Insert
    \/ \E i \in open : Rollback(i)
    \/ \E i \in open, g \in Grades \cup {Ungraded} : Commit(i, g)
    \/ \E i \in visible, g \in Grades : Regrade(i, g)
    \/ \E limit \in Limits, filter \in Filters : Begin(limit, filter)
    \/ NextPage

ApiSpec == ApiInit /\ [][ApiNext]_vars /\ WF_vars(NextPage)

-----------------------------------------------------------------------------
(* Properties: "a cursor stays correct while new articles are being        *)
(* collected: you never re-read or skip a row".                            *)

\* No article is given to the client twice, whatever becomes visible or
\* changes its grade during the walk.
NoRowTwice == \A i \in Ids : times[i] <= 1

\* A walk that has ended was given every article that was there when it began
\* and matched the filter until it ended.  (An article that becomes visible
\* during the walk above its cursor is not among them: the walk skips it.)
NothingSkipped == walk.pc = "done" => \A i \in steady : times[i] > 0

\* A walk ends although articles keep arriving.
WalkEnds == walk.pc = "walking" ~> walk.pc = "done"

=============================================================================
