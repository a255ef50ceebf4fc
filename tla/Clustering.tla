----------------------------- MODULE Clustering -----------------------------
(***************************************************************************)
(* app/pipeline/cluster.py cluster_pending, run by the worker after its    *)
(* cycles and by hand from the command line: each run takes a MySQL named  *)
(* lock on a connection of its own, then assigns the pending articles to   *)
(* stories, oldest first, one transaction per batch (app/nlp/stories.py    *)
(* assign on DbClusterStore).  Ingest stores articles in the meantime.     *)
(*                                                                         *)
(* Reads inside a batch see the database as it was when the batch opened,  *)
(* plus the batch's own writes; SELECT ... FOR UPDATE reads the row as it  *)
(* was last committed and locks it.  A story row is named by the article   *)
(* that founded it.  What TF-IDF and cosine compute is the constant Score, *)
(* 0 when the two articles share none of the first one's query terms.      *)
(***************************************************************************)
EXTENDS Integers, Sequences, FiniteSets

CONSTANTS Clusterers,   \* processes that run cluster_pending
          Articles,     \* article ids, in the order of their primary key
          Source,       \* Source[a]: the outlet of article a
          Lang,         \* Lang[a]: its language
          Published,    \* Published[a]: its published_at
          Score,        \* Score[a][b]: similarity of a to member b
          Threshold,    \* JOIN_THRESHOLD
          Window,       \* WINDOW
          MaxCandidates,\* MAX_CANDIDATES
          ClusterBatch, \* CLUSTER_BATCH
          Limit,        \* Limit[c]: the --limit of c, or None
          MaxFaults,    \* bound: exceptions, crashes and lost connections
          None

NoLimit == None

ASSUME ArticlesAssumption == Articles \subseteq Nat /\ IsFiniteSet(Articles) /\ None \notin Articles
ASSUME ClusterersAssumption == None \notin Clusterers
ASSUME DataAssumption ==
    /\ Published \in [Articles -> Nat]
    /\ Score \in [Articles -> [Articles -> Nat]]
    /\ Threshold \in Nat \ {0} /\ Window \in Nat
    /\ MaxCandidates \in Nat \ {0} /\ ClusterBatch \in Nat \ {0} /\ MaxFaults \in Nat
    /\ Limit \in [Clusterers -> Nat \cup {NoLimit}]

VARIABLES
    stored,     \* table articles
    member,     \* table article_clusters: the story of each article, or None
    stories,    \* table story_clusters: the row of each story, or None
    lock,       \* which clusterer's connection holds the named lock, or None
    job,        \* what each clusterer knows of its run
    lost,       \* a lock connection has been lost under a running clusterer
    faults      \* exceptions, crashes and lost connections so far

vars == <<stored, member, stories, lock, job, lost, faults>>

Outlets == {Source[a] : a \in Articles}
StoryRows == [lang : {Lang[a] : a \in Articles}, first : Nat, last : Nat,
              article_count : Nat, source_count : Nat, sources : Seq(Outlets)]
ASSUME NoneAssumption == None \notin StoryRows
Memberships == [Articles -> Articles \cup {None}]
Books == [Articles -> StoryRows \cup {None}]
Nothing == [a \in Articles |-> None]

Jobs == [pc : {"idle", "between", "batch", "adding"},
         clustered : Nat,           \* report.clustered
         todo : Seq(Articles),      \* rows of the batch still to assign
         found : BOOLEAN,           \* the batch had rows
         snapshot : Memberships,    \* article_clusters when the batch opened
         wrote : Memberships,       \* rows added to article_clusters
         rows : Books,              \* story rows inserted or locked and changed
         target : Articles \cup {None}]   \* the story the article goes to

Idle == [pc |-> "idle", clustered |-> 0, todo |-> << >>, found |-> FALSE,
         snapshot |-> Nothing, wrote |-> Nothing, rows |-> Nothing, target |-> None]

Set(c, now) == job' = [job EXCEPT ![c] = now]
Overlay(base, own) == [a \in Articles |-> IF own[a] # None THEN own[a] ELSE base[a]]

-----------------------------------------------------------------------------
(* articles_to_cluster and DbClusterStore.candidates                       *)

Pending == {a \in stored : member[a] = None}
Older(a, b) == Published[a] < Published[b] \/ (Published[a] = Published[b] /\ a < b)

\* The n oldest pending articles, oldest first
OldestPending(n) ==
    LET rank(a) == Cardinality({b \in Pending : Older(b, a)}) + 1
        size == IF Cardinality(Pending) < n THEN Cardinality(Pending) ELSE n
    IN  [i \in 1..size |-> CHOOSE a \in Pending : rank(a) = i]

BatchWhole(c) == ClusterBatch           \* mutant: the limit is looked at between batches only
BatchSize(c) ==
    IF Limit[c] # NoLimit /\ Limit[c] - job[c].clustered < ClusterBatch
    THEN Limit[c] - job[c].clustered ELSE ClusterBatch

\* Members as the transaction sees them; add_member flushes, so a batch sees
\* the articles it has assigned itself.
ViewUnflushed(c) == job[c].snapshot     \* mutant: members are added at commit only
View(c) == Overlay(job[c].snapshot, job[c].wrote)

Apart(a, b) == IF Published[a] < Published[b] THEN Published[b] - Published[a]
                                              ELSE Published[a] - Published[b]

MatchingAnyLanguage(c, a) ==            \* mutant: the language is not compared
    {b \in Articles : View(c)[b] # None /\ Apart(a, b) <= Window /\ Score[a][b] > 0}
Matching(c, a) ==
    {b \in Articles : /\ View(c)[b] # None
                      /\ Lang[b] = Lang[a] /\ Apart(a, b) <= Window
                      /\ Score[a][b] > 0}

\* LIMIT MAX_CANDIDATES, latest first; ties fall either way
IsShortlist(candidates, all) ==
    /\ candidates \subseteq all
    /\ Cardinality(candidates) =
           (IF Cardinality(all) < MaxCandidates THEN Cardinality(all) ELSE MaxCandidates)
    /\ \A b \in candidates, d \in all \ candidates : Published[b] >= Published[d]

\* The first of the best candidates that reach the threshold
Best(a, candidates) ==
    {b \in candidates :
        /\ Score[a][b] >= Threshold
        /\ \A d \in candidates :
               \/ Score[a][d] < Score[a][b]
               \/ Score[a][d] = Score[a][b] /\ Published[d] <= Published[b]}

-----------------------------------------------------------------------------
(* Row locks, and the rows a locking read returns                          *)

Writes(o, story) == job[o].rows[story] # None
Adds(o, a) == job[o].wrote[a] # None

\* A row that was committed when the batch opened is locked; one that the batch
\* inserted is not seen by others, who may insert theirs for the same article.
Locks(o, story) == Writes(o, story) /\ job[o].snapshot[story] # None
StoryUnlocked(c, story) == FALSE        \* mutant: the row is not read for update
StoryLocked(c, story) == \E o \in Clusterers \ {c} : Locks(o, story)
MemberLocked(c, a) == \E o \in Clusterers \ {c} : Adds(o, a)

RowForUpdate(c, story) ==
    IF Writes(c, story) THEN job[c].rows[story] ELSE stories[story]

Founded(a) == [lang |-> Lang[a], first |-> Published[a], last |-> Published[a],
               article_count |-> 1, source_count |-> 1, sources |-> <<Source[a]>>]

Listed(row, s) == \E i \in DOMAIN row.sources : row.sources[i] = s

Earliest(p, q) == IF p < q THEN p ELSE q
Latest(p, q) == IF p > q THEN p ELSE q
WithSource(row, s) ==
    IF Listed(row, s) THEN row
    ELSE [row EXCEPT !.sources = Append(row.sources, s), !.source_count = Len(row.sources) + 1]

Joined(row, a) ==
    [WithSource(row, Source[a]) EXCEPT
        !.article_count = row.article_count + 1,
        !.first = Earliest(row.first, Published[a]), !.last = Latest(row.last, Published[a])]

-----------------------------------------------------------------------------
(* cluster_pending.  A clusterer that does not get the lock changes nothing.*)

TryLockIgnored(c) ==                    \* mutant: the result of GET_LOCK is not looked at
    /\ job[c].pc = "idle"
    /\ lock' = IF lock = None THEN c ELSE lock
    /\ Set(c, [Idle EXCEPT !.pc = "between"])
    /\ UNCHANGED <<stored, member, stories, lost, faults>>
TryLock(c) ==
    /\ job[c].pc = "idle" /\ lock = None
    /\ lock' = c
    /\ Set(c, [Idle EXCEPT !.pc = "between"])
    /\ UNCHANGED <<stored, member, stories, lost, faults>>

\* Open a session and read the batch.
OpenBatch(c) ==
    /\ job[c].pc = "between"
    /\ Limit[c] # NoLimit => job[c].clustered < Limit[c]
    /\ Set(c, [job[c] EXCEPT !.pc = "batch", !.todo = OldestPending(BatchSize(c)),
                             !.found = Pending # {}, !.snapshot = member])
    /\ UNCHANGED <<stored, member, stories, lock, lost, faults>>

\* assign finds no story and creates one.
FoundStory(c) ==
    /\ job[c].pc = "batch" /\ job[c].todo # << >>
    /\ LET a == Head(job[c].todo) IN
       /\ \E candidates \in SUBSET Matching(c, a) :
              IsShortlist(candidates, Matching(c, a)) /\ Best(a, candidates) = {}
       /\ Set(c, [job[c] EXCEPT !.pc = "adding", !.target = a,
                                !.rows = [job[c].rows EXCEPT ![a] = Founded(a)]])
    /\ UNCHANGED <<stored, member, stories, lock, lost, faults>>

\* assign joins the story of the best match; the row is read for update.
JoinStory(c) ==
    /\ job[c].pc = "batch" /\ job[c].todo # << >>
    /\ LET a == Head(job[c].todo) IN
       \E candidates \in SUBSET Matching(c, a) :
          /\ IsShortlist(candidates, Matching(c, a))
          /\ \E b \in Best(a, candidates) :
                LET story == View(c)[b] IN
                /\ ~StoryLocked(c, story)
                /\ Set(c, [job[c] EXCEPT !.pc = "adding", !.target = story,
                              !.rows = [job[c].rows EXCEPT
                                           ![story] = Joined(RowForUpdate(c, story), a)]])
    /\ UNCHANGED <<stored, member, stories, lock, lost, faults>>

\* add_member, when no other clusterer has added the article
AddMember(c) ==
    /\ job[c].pc = "adding"
    /\ LET a == Head(job[c].todo) IN
       /\ ~MemberLocked(c, a) /\ member[a] = None
       /\ Set(c, [job[c] EXCEPT !.pc = "batch", !.todo = Tail(job[c].todo), !.target = None,
                                !.clustered = job[c].clustered + 1,
                                !.wrote = [job[c].wrote EXCEPT ![a] = job[c].target]])
    /\ UNCHANGED <<stored, member, stories, lock, lost, faults>>

\* The batch commits; on_batch and the next batch follow.
CommitBatch(c) ==
    /\ job[c].pc = "batch" /\ job[c].todo = << >> /\ job[c].found
    /\ member' = Overlay(member, job[c].wrote)
    /\ stories' = Overlay(stories, job[c].rows)
    /\ Set(c, [Idle EXCEPT !.pc = "between", !.clustered = job[c].clustered])
    /\ UNCHANGED <<stored, lock, lost, faults>>

\* Leaving cluster_pending: `finally` releases the lock, if c still holds it.
LeaveLocked(c) ==                       \* mutant: an exception leaves without `finally`
    Set(c, Idle) /\ lock' = lock
Leave(c) ==
    /\ Set(c, Idle)
    /\ lock' = IF lock = c THEN None ELSE lock

\* No rows were left, or the limit is reached.
Finish(c) ==
    /\ \/ job[c].pc = "batch" /\ ~job[c].found
       \/ job[c].pc = "between" /\ Limit[c] # NoLimit /\ job[c].clustered >= Limit[c]
    /\ Leave(c)
    /\ UNCHANGED <<stored, member, stories, lost, faults>>

\* add_member meets a row that another clusterer has committed: IntegrityError.
MemberExists(c) ==
    /\ job[c].pc = "adding" /\ member[Head(job[c].todo)] # None
    /\ Leave(c)
    /\ UNCHANGED <<stored, member, stories, lost, faults>>

\* InnoDB rolls back one of two transactions that wait for each other.
WaitsFor(c, o) ==
    \/ job[c].pc = "adding" /\ Adds(o, Head(job[c].todo))
    \/ /\ job[c].pc = "batch" /\ job[c].todo # << >>
       /\ \E b \in Matching(c, Head(job[c].todo)) :
              Score[Head(job[c].todo)][b] >= Threshold /\ Locks(o, View(c)[b])
DeadlockVictim(c) ==
    /\ \E o \in Clusterers \ {c} : WaitsFor(c, o) /\ WaitsFor(o, c)
    /\ Leave(c)
    /\ UNCHANGED <<stored, member, stories, lost, faults>>

\* Any other exception; or the process dies and its connections close.
Fail(c) ==
    /\ job[c].pc # "idle" /\ faults < MaxFaults
    /\ Leave(c)
    /\ faults' = faults + 1
    /\ UNCHANGED <<stored, member, stories, lost>>

\* The connection that holds the lock closes (the server's wait_timeout, a
\* broken network); the clusterer works on and only learns of it at the end.
LoseLock(c) ==
    /\ lock = c /\ faults < MaxFaults
    /\ lock' = None
    /\ lost' = TRUE
    /\ faults' = faults + 1
    /\ UNCHANGED <<stored, member, stories, job>>

-----------------------------------------------------------------------------
\* Ingest commits an article.
Store(a) ==
    /\ a \notin stored
    /\ stored' = stored \cup {a}
    /\ UNCHANGED <<member, stories, lock, job, lost, faults>>

Init ==
    /\ stored = {}
    /\ member = Nothing /\ stories = Nothing
    /\ lock = None /\ lost = FALSE /\ faults = 0
    /\ job = [c \in Clusterers |-> Idle]

Step(c) ==
    \/ TryLock(c) \/ OpenBatch(c)
    \/ FoundStory(c) \/ JoinStory(c) \/ AddMember(c)
    \/ CommitBatch(c) \/ Finish(c)
    \/ MemberExists(c) \/ DeadlockVictim(c)

Next ==
    \/ \E c \in Clusterers : Step(c) \/ Fail(c) \/ LoseLock(c)
    \/ \E a \in Articles : Store(a)

Spec == Init /\ [][Next]_vars

\* The worker calls catch_up again and again, and statements return.
Fairness == \A c \in Clusterers : WF_vars(Step(c))
FairSpec == Spec /\ Fairness

-----------------------------------------------------------------------------
(* Properties.                                                             *)

\* Tables and jobs hold what they can hold; no run exceeds its --limit.
TypeOK ==
    /\ stored \subseteq Articles
    /\ member \in Memberships /\ stories \in Books
    /\ lock \in Clusterers \cup {None} /\ lost \in BOOLEAN /\ faults \in Nat
    /\ job \in [Clusterers -> Jobs]
    /\ \A c \in Clusterers : Limit[c] # NoLimit => job[c].clustered <= Limit[c]

\* As long as no lock connection is lost, GET_LOCK keeps cluster_pending to one
\* clusterer, through commits, exceptions and crashes.
OneClusterer == ~lost => Cardinality({c \in Clusterers : job[c].pc # "idle"}) <= 1

\* README: the lock is there "so two outlets' versions of an event arriving
\* together cannot each found a story".  (Where MAX_CANDIDATES cuts nothing.)
SameEvent(x, y) ==
    Lang[x] = Lang[y] /\ Apart(x, y) <= Window
      /\ Score[x][y] >= Threshold /\ Score[y][x] >= Threshold
Founders == {a \in Articles : member[a] = a}
LoneFounders == ~lost => \A x, y \in Founders : x # y => ~SameEvent(x, y)

\* An article that did not found its story is, in it, with an article of its
\* language, published within the window, that it is similar enough to.
Coherent ==
    \A x \in Articles : member[x] \notin {None, x} =>
        \E y \in Articles \ {x} :
            /\ member[y] = member[x] /\ Lang[y] = Lang[x]
            /\ Apart(x, y) <= Window /\ Score[x][y] >= Threshold

\* cluster.py: articles are taken oldest first, "so the first version founds the
\* story and later ones join it".
FirstVersionFounds ==
    \A x \in Articles : member[x] # None => Published[member[x]] <= Published[x]

\* Every stored article ends up in a story, in spite of exceptions, crashes,
\* lost connections and batches that collide.
EventuallyInAStory == \A a \in Articles : a \in stored ~> member[a] # None

\* Locks, batches and failures are invisible in the committed tables, where every
\* story row says exactly what its members are -- even when two clusterers run.
Row(a) ==
    IF stories[a] = None THEN None
    ELSE [lang |-> stories[a].lang, first |-> stories[a].first, last |-> stories[a].last,
          article_count |-> stories[a].article_count,
          source_count |-> stories[a].source_count,
          sources |-> {s \in Outlets : Listed(stories[a], s)}]
Promise == INSTANCE StoryBook WITH book <- [a \in Articles |-> Row(a)]
ImplementsStoryBook == Promise!Spec
=============================================================================
