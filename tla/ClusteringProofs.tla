-------------------------- MODULE ClusteringProofs --------------------------
(***************************************************************************)
(* cluster_pending for any number of processes, articles, batches, limits  *)
(* and failures: it keeps to one clusterer at a time as long as no lock    *)
(* connection is lost, and tables and runs are well typed.                 *)
(***************************************************************************)
EXTENDS Clustering, FiniteSetTheorems, TLAPS

\* Whoever is past GET_LOCK still holds the lock.
PastLock(c) == job[c].pc # "idle"
HolderOnly == ~lost => \A c \in Clusterers : PastLock(c) => lock = c
LockInv == DOMAIN job = Clusterers /\ HolderOnly

LEMMA IdleIsIdle == Idle.pc = "idle"
  BY DEF Idle

\* What Set does to the jobs.
LEMMA SetOne ==
  ASSUME DOMAIN job = Clusterers, NEW c \in Clusterers, NEW now, Set(c, now)
  PROVE  /\ DOMAIN job' = Clusterers
         /\ job'[c] = now /\ \A o \in Clusterers : o # c => job'[o] = job[o]
  BY DEF Set

\* A step that takes a job from past the lock to anywhere keeps the holder.
LEMMA Working ==
  ASSUME LockInv, NEW c \in Clusterers, NEW now, Set(c, now), PastLock(c),
         UNCHANGED <<lock, lost>>
  PROVE  LockInv'
  BY SetOne DEF LockInv, HolderOnly, PastLock

LEMMA Leaving ==
  ASSUME LockInv, NEW c \in Clusterers, Leave(c), PastLock(c), UNCHANGED lost
  PROVE  LockInv'
  BY SetOne, IdleIsIdle DEF LockInv, HolderOnly, PastLock, Leave

LEMMA InitLock == Init => LockInv
  BY IdleIsIdle DEF Init, LockInv, HolderOnly, PastLock

LEMMA NextLock == LockInv /\ [Next]_vars => LockInv'
  <1> SUFFICES ASSUME LockInv, [Next]_vars PROVE LockInv'
    OBVIOUS
  <1>1. ASSUME NEW c \in Clusterers, TryLock(c) PROVE LockInv'
    <2>1. \A o \in Clusterers : ~lost => ~PastLock(o)
      BY <1>1, ClusterersAssumption DEF TryLock, LockInv, HolderOnly
    <2>2. DOMAIN job' = Clusterers /\ \A o \in Clusterers : o # c => job'[o] = job[o]
      BY <1>1, SetOne DEF TryLock, LockInv
    <2>3. lock' = c /\ lost' = lost
      BY <1>1 DEF TryLock
    <2> QED
      BY <2>1, <2>2, <2>3 DEF LockInv, HolderOnly, PastLock
  <1>2. ASSUME NEW c \in Clusterers,
               OpenBatch(c) \/ FoundStory(c) \/ AddMember(c) \/ CommitBatch(c)
        PROVE  LockInv'
    BY <1>2, Working DEF OpenBatch, FoundStory, AddMember, CommitBatch, PastLock
  <1>3. ASSUME NEW c \in Clusterers, JoinStory(c) PROVE LockInv'
    <2>1. \E now : Set(c, now)
      BY <1>3 DEF JoinStory
    <2>2. PastLock(c) /\ UNCHANGED <<lock, lost>>
      BY <1>3 DEF JoinStory, PastLock
    <2> QED
      BY <2>1, <2>2, Working
  <1>4. ASSUME NEW c \in Clusterers, Finish(c) \/ MemberExists(c) \/ Fail(c) PROVE LockInv'
    BY <1>4, Leaving DEF Finish, MemberExists, Fail, PastLock
  <1>5. ASSUME NEW c \in Clusterers, DeadlockVictim(c) PROVE LockInv'
    <2>1. PastLock(c)
      BY <1>5 DEF DeadlockVictim, WaitsFor, PastLock
    <2> QED
      BY <1>5, <2>1, Leaving DEF DeadlockVictim
  <1>6. ASSUME NEW c \in Clusterers, LoseLock(c) PROVE LockInv'
    BY <1>6 DEF LoseLock, LockInv, HolderOnly
  <1>7. ASSUME \/ \E a \in Articles : Store(a)
               \/ UNCHANGED vars
        PROVE  LockInv'
    BY <1>7 DEF Store, vars, LockInv, HolderOnly, PastLock
  <1> QED
    BY <1>1, <1>2, <1>3, <1>4, <1>5, <1>6, <1>7 DEF Next, Step

LEMMA HolderAlone == LockInv => OneClusterer
  <1> DEFINE Past == {c \in Clusterers : job[c].pc # "idle"}
  <1> SUFFICES ASSUME LockInv, ~lost PROVE Cardinality(Past) <= 1
    BY DEF OneClusterer
  <1>1. Past \in SUBSET {lock}
    BY DEF LockInv, HolderOnly, PastLock
  <1>2. IsFiniteSet({lock}) /\ Cardinality({lock}) = 1
    BY FS_Singleton
  <1> QED
    BY <1>1, <1>2, FS_Subset

\* README, Story clusters: the named lock "keeps it to one clusterer at a time",
\* through commits, exceptions and crashes, until a lock connection is lost.
THEOREM OneClustererAtATime == Spec => []OneClusterer
  <1>1. Init => LockInv
    BY InitLock
  <1>2. LockInv /\ [Next]_vars => LockInv'
    BY NextLock
  <1>3. LockInv => OneClusterer
    BY HolderAlone
  <1> QED
    BY <1>1, <1>2, <1>3, PTL DEF Spec

-----------------------------------------------------------------------------
(* The batch: articles_to_cluster returns distinct pending articles.       *)

LEMMA PendingFinite ==
  ASSUME stored \subseteq Articles, NEW S \in SUBSET Pending
  PROVE  IsFiniteSet(S) /\ Cardinality(S) \in Nat
  BY ArticlesAssumption, FS_Subset, FS_CardinalityType DEF Pending

Rank(a) == Cardinality({b \in Pending : Older(b, a)}) + 1

LEMMA OlderIsIrreflexive ==
  ASSUME NEW a \in Articles
  PROVE  ~Older(a, a)
  <1>1. a \in Nat /\ Published[a] \in Nat
    BY ArticlesAssumption, DataAssumption
  <1> QED
    BY <1>1 DEF Older

LEMMA OlderIsTotal ==
  ASSUME NEW a \in Articles, NEW b \in Articles, a # b
  PROVE  Older(a, b) \/ Older(b, a)
  <1>1. a \in Nat /\ b \in Nat /\ Published[a] \in Nat /\ Published[b] \in Nat
    BY ArticlesAssumption, DataAssumption
  <1> QED
    BY <1>1 DEF Older

LEMMA OlderIsTransitive ==
  ASSUME NEW a \in Articles, NEW b \in Articles, NEW c \in Articles, Older(a, b), Older(b, c)
  PROVE  Older(a, c)
  <1>1. /\ a \in Nat /\ b \in Nat /\ c \in Nat
        /\ Published[a] \in Nat /\ Published[b] \in Nat /\ Published[c] \in Nat
    BY ArticlesAssumption, DataAssumption
  <1> QED
    BY <1>1 DEF Older

LEMMA OlderRanksLower ==
  ASSUME stored \subseteq Articles, NEW a \in Pending, NEW b \in Pending, Older(a, b)
  PROVE  Rank(a) < Rank(b) /\ Rank(a) \in Nat /\ Rank(b) \in Nat
  <1> DEFINE A == {x \in Pending : Older(x, a)}
             B == {x \in Pending : Older(x, b)}
  <1>1. A \cup {a} \in SUBSET B /\ a \notin A /\ a \in Articles /\ b \in Articles
    <2>1. Pending \subseteq Articles
      BY DEF Pending
    <2>2. a # b
      BY <2>1, OlderIsIrreflexive
    <2> QED
      BY <2>1, <2>2, OlderIsIrreflexive, OlderIsTransitive
  <1>2. IsFiniteSet(A) /\ Cardinality(A) \in Nat /\ IsFiniteSet(B) /\ Cardinality(B) \in Nat
    BY PendingFinite
  <1>3. Cardinality(A \cup {a}) = Cardinality(A) + 1
    BY <1>1, <1>2, FS_AddElement
  <1>4. Cardinality(A \cup {a}) <= Cardinality(B)
    BY <1>1, <1>2, FS_Subset
  <1> QED
    BY <1>2, <1>3, <1>4 DEF Rank

LEMMA EveryRankTaken ==
  ASSUME stored \subseteq Articles, NEW i \in 1..Cardinality(Pending)
  PROVE  \E a \in Pending : Rank(a) = i
  <1> DEFINE n == Cardinality(Pending)
             rank == [a \in Pending |-> Rank(a)]
  <1>1. IsFiniteSet(Pending) /\ n \in Nat
    BY PendingFinite
  <1>2. IsFiniteSet(1..n) /\ Cardinality(1..n) = n
    BY <1>1, FS_Interval
  <1>3. ASSUME NEW a \in Pending PROVE Rank(a) \in 1..n
    <2> DEFINE A == {b \in Pending : Older(b, a)}
    <2>1. a \in Articles
      BY DEF Pending
    <2>2. A \in SUBSET (Pending \ {a})
      BY <2>1, OlderIsIrreflexive
    <2>3. Cardinality(Pending \ {a}) = n - 1 /\ IsFiniteSet(Pending \ {a})
      BY <1>1, FS_RemoveElement
    <2>4. Cardinality(A) <= n - 1 /\ Cardinality(A) \in Nat
      BY <2>2, <2>3, FS_Subset, PendingFinite
    <2> QED
      BY <1>1, <2>4 DEF Rank
  <1>4. ASSUME NEW a \in Pending, NEW b \in Pending, a # b PROVE Rank(a) # Rank(b)
    <2>1. Older(a, b) \/ Older(b, a)
      BY <1>4, OlderIsTotal DEF Pending
    <2> QED
      BY <2>1, OlderRanksLower
  <1>5. rank \in Injection(Pending, 1..n)
    BY <1>3, <1>4 DEF Injection, IsInjective
  <1>6. rank \in Surjection(Pending, 1..n)
    BY <1>1, <1>2, <1>5, FS_Injection
  <1> QED
    BY <1>6 DEF Surjection

LEMMA BatchIsDistinct ==
  ASSUME stored \subseteq Articles, NEW n \in Nat
  PROVE  /\ OldestPending(n) \in Seq(Pending)
         /\ Len(OldestPending(n)) <= n
         /\ \A i, j \in DOMAIN OldestPending(n) :
                OldestPending(n)[i] = OldestPending(n)[j] => i = j
  <1> DEFINE size == IF Cardinality(Pending) < n THEN Cardinality(Pending) ELSE n
             batch == [i \in 1..size |-> CHOOSE a \in Pending : Rank(a) = i]
  <1>1. Cardinality(Pending) \in Nat
    BY PendingFinite
  <1>2. size \in Nat /\ size <= n /\ size <= Cardinality(Pending)
    BY <1>1
  <1>3. OldestPending(n) = batch
    BY DEF OldestPending, Rank
  <1>4. ASSUME NEW i \in 1..size PROVE batch[i] \in Pending /\ Rank(batch[i]) = i
    <2>1. i \in 1..Cardinality(Pending)
      BY <1>1, <1>2
    <2>2. \E a \in Pending : Rank(a) = i
      BY <2>1, EveryRankTaken
    <2> QED
      BY <2>2
  <1>5. batch \in [1..size -> Pending]
    BY <1>4
  <1> HIDE DEF batch, size
  <1>6. batch \in Seq(Pending) /\ Len(batch) = size /\ DOMAIN batch = 1..size
    BY <1>2, <1>5
  <1> QED
    BY <1>2, <1>3, <1>4, <1>6

-----------------------------------------------------------------------------
(* What each action makes of the job of its clusterer.                     *)

Typed(clustered, todo, found, snapshot, wrote, rows, target) ==
    /\ clustered \in Nat /\ todo \in Seq(Articles) /\ found \in BOOLEAN
    /\ snapshot \in Memberships /\ wrote \in Memberships
    /\ rows \in Books /\ target \in Articles \cup {None}

Turns(c, pc, clustered, todo, found, snapshot, wrote, rows, target) ==
    /\ DOMAIN job' = Clusterers
    /\ \A o \in Clusterers : o # c => job'[o] = job[o]
    /\ job'[c].pc = pc /\ job'[c].clustered = clustered /\ job'[c].todo = todo
    /\ job'[c].found = found /\ job'[c].snapshot = snapshot /\ job'[c].wrote = wrote
    /\ job'[c].rows = rows /\ job'[c].target = target
    /\ Typed(clustered, todo, found, snapshot, wrote, rows, target)
           => job' \in [Clusterers -> Jobs]

GoesIdle(c) == Turns(c, "idle", 0, << >>, FALSE, Nothing, Nothing, Nothing, None)
GoesBetween(c, n) == Turns(c, "between", n, << >>, FALSE, Nothing, Nothing, Nothing, None)

Tables == <<stored, member, stories>>

LEMMA JobsAre ==
  ASSUME TypeOK, NEW c \in Clusterers
  PROVE  /\ job[c] \in Jobs /\ job[c].pc \in {"idle", "between", "batch", "adding"}
         /\ Typed(job[c].clustered, job[c].todo, job[c].found, job[c].snapshot, job[c].wrote,
                  job[c].rows, job[c].target)
  BY DEF TypeOK, Jobs, Typed

LEMMA Turning ==
  ASSUME TypeOK, NEW c \in Clusterers, NEW now, Set(c, now),
         Typed(now.clustered, now.todo, now.found, now.snapshot, now.wrote, now.rows, now.target)
           => now \in Jobs
  PROVE  Turns(c, now.pc, now.clustered, now.todo, now.found, now.snapshot, now.wrote,
               now.rows, now.target)
  <1>1. job \in [Clusterers -> Jobs] /\ job' = [job EXCEPT ![c] = now]
    BY DEF TypeOK, Set
  <1>2. DOMAIN job' = Clusterers /\ job'[c] = now /\ \A o \in Clusterers : o # c => job'[o] = job[o]
    BY <1>1
  <1>3. now \in Jobs => job' \in [Clusterers -> Jobs]
    BY <1>1
  <1> QED
    BY <1>2, <1>3 DEF Turns

LEMMA LeaveFacts ==
  ASSUME TypeOK, NEW c \in Clusterers, Leave(c)
  PROVE  GoesIdle(c) /\ lock' \in {lock, None}
  <1>1. /\ Idle.pc = "idle" /\ Idle.clustered = 0 /\ Idle.todo = << >> /\ Idle.found = FALSE
        /\ Idle.snapshot = Nothing /\ Idle.wrote = Nothing /\ Idle.rows = Nothing
        /\ Idle.target = None
    BY DEF Idle
  <1>2. Typed(Idle.clustered, Idle.todo, Idle.found, Idle.snapshot, Idle.wrote, Idle.rows,
              Idle.target) => Idle \in Jobs
    BY DEF Idle, Jobs, Typed
  <1> QED
    BY <1>1, <1>2, Turning DEF Leave, GoesIdle

LEMMA LockFacts ==
  ASSUME TypeOK, NEW c \in Clusterers, TryLock(c)
  PROVE  /\ GoesBetween(c, 0) /\ job[c].pc = "idle"
         /\ lock = None /\ lock' = c /\ UNCHANGED <<Tables, lost, faults>>
  <1> DEFINE now == [Idle EXCEPT !.pc = "between"]
  <1>1. Set(c, now)
    BY DEF TryLock
  <1>2. /\ now.pc = "between" /\ now.clustered = 0 /\ now.todo = << >>
        /\ now.found = FALSE /\ now.snapshot = Nothing /\ now.wrote = Nothing
        /\ now.rows = Nothing /\ now.target = None
    BY JobsAre DEF Idle, Jobs
  <1>3. Typed(now.clustered, now.todo, now.found, now.snapshot, now.wrote, now.rows,
              now.target) => now \in Jobs
    BY JobsAre DEF Idle, Jobs, Typed
  <1> HIDE DEF now
  <1>4. Turns(c, now.pc, now.clustered, now.todo, now.found, now.snapshot, now.wrote,
              now.rows, now.target)
    BY <1>1, <1>3, Turning
  <1> QED
    BY <1>2, <1>4 DEF TryLock, GoesBetween, Tables

LEMMA OpenFacts ==
  ASSUME TypeOK, NEW c \in Clusterers, OpenBatch(c)
  PROVE  /\ Turns(c, "batch", job[c].clustered, OldestPending(BatchSize(c)), Pending # {},
                  member, job[c].wrote, job[c].rows, job[c].target)
         /\ job[c].pc = "between" /\ (Limit[c] # NoLimit => job[c].clustered < Limit[c])
         /\ UNCHANGED <<Tables, lock, lost, faults>>
  <1> DEFINE batch == OldestPending(BatchSize(c))
             some == Pending # {}
             now == [job[c] EXCEPT !.pc = "batch", !.todo = batch, !.found = some,
                                   !.snapshot = member]
  <1>1. Set(c, now)
    BY DEF OpenBatch
  <1> HIDE DEF batch, some
  <1>2. /\ now.pc = "batch" /\ now.clustered = job[c].clustered /\ now.todo = batch
        /\ now.found = some /\ now.snapshot = member /\ now.wrote = job[c].wrote
        /\ now.rows = job[c].rows /\ now.target = job[c].target
    BY JobsAre DEF Jobs
  <1>3. Typed(now.clustered, now.todo, now.found, now.snapshot, now.wrote, now.rows,
              now.target) => now \in Jobs
    BY JobsAre DEF Jobs, Typed
  <1> HIDE DEF now
  <1>4. Turns(c, now.pc, now.clustered, now.todo, now.found, now.snapshot, now.wrote,
              now.rows, now.target)
    BY <1>1, <1>3, Turning
  <1> QED
    BY <1>2, <1>4 DEF OpenBatch, Tables, batch, some

LEMMA HeadAndTail ==
  ASSUME TypeOK, NEW c \in Clusterers, job[c].todo # << >>
  PROVE  /\ Head(job[c].todo) \in Articles /\ Tail(job[c].todo) \in Seq(Articles)
         /\ Len(Tail(job[c].todo)) = Len(job[c].todo) - 1
         /\ Len(job[c].todo) \in Nat \ {0} /\ Head(job[c].todo) = job[c].todo[1]
         /\ \A i \in 1..(Len(job[c].todo) - 1) : Tail(job[c].todo)[i] = job[c].todo[i + 1]
  BY JobsAre DEF Typed

LEMMA FoundFacts ==
  ASSUME TypeOK, NEW c \in Clusterers, FoundStory(c)
  PROVE  LET a == Head(job[c].todo) IN
         /\ Turns(c, "adding", job[c].clustered, job[c].todo, job[c].found, job[c].snapshot,
                  job[c].wrote, [job[c].rows EXCEPT ![a] = Founded(a)], a)
         /\ job[c].pc = "batch" /\ job[c].todo # << >>
         /\ UNCHANGED <<Tables, lock, lost, faults>>
  <1> DEFINE a == Head(job[c].todo)
             new == [job[c].rows EXCEPT ![a] = Founded(a)]
             now == [job[c] EXCEPT !.pc = "adding", !.target = a, !.rows = new]
  <1>1. Set(c, now)
    BY DEF FoundStory
  <1> HIDE DEF new, a
  <1>2. /\ now.pc = "adding" /\ now.clustered = job[c].clustered
        /\ now.todo = job[c].todo /\ now.found = job[c].found
        /\ now.snapshot = job[c].snapshot /\ now.wrote = job[c].wrote /\ now.rows = new
        /\ now.target = a
    BY JobsAre DEF Jobs
  <1>3. Typed(now.clustered, now.todo, now.found, now.snapshot, now.wrote, now.rows,
              now.target) => now \in Jobs
    BY JobsAre DEF Jobs, Typed
  <1> HIDE DEF now
  <1>4. Turns(c, now.pc, now.clustered, now.todo, now.found, now.snapshot, now.wrote,
              now.rows, now.target)
    BY <1>1, <1>3, Turning
  <1> QED
    BY <1>2, <1>4 DEF FoundStory, Tables, new, a

\* The member b whose story the article at the head joins.
JoinsVia(c, b) ==
    LET a == Head(job[c].todo)
        story == View(c)[b]
    IN  /\ Turns(c, "adding", job[c].clustered, job[c].todo, job[c].found, job[c].snapshot,
                 job[c].wrote,
                 [job[c].rows EXCEPT ![story] = Joined(RowForUpdate(c, story), a)], story)
        /\ b \in Matching(c, a) /\ Score[a][b] >= Threshold /\ ~StoryLocked(c, story)

LEMMA JoinFacts ==
  ASSUME TypeOK, NEW c \in Clusterers, JoinStory(c)
  PROVE  /\ \E b \in Articles : JoinsVia(c, b)
         /\ job[c].pc = "batch" /\ job[c].todo # << >>
         /\ UNCHANGED <<Tables, lock, lost, faults>>
  <1> DEFINE a == Head(job[c].todo)
             rows(story) == [job[c].rows EXCEPT ![story] = Joined(RowForUpdate(c, story), a)]
             joining(story) == [job[c] EXCEPT !.pc = "adding", !.target = story,
                                              !.rows = rows(story)]
  <1>1. PICK candidates \in SUBSET Matching(c, a) :
             \E b \in Best(a, candidates) :
                 ~StoryLocked(c, View(c)[b]) /\ Set(c, joining(View(c)[b]))
    BY DEF JoinStory
  <1>2. PICK b \in Best(a, candidates) :
             ~StoryLocked(c, View(c)[b]) /\ Set(c, joining(View(c)[b]))
    BY <1>1
  <1>3. b \in Articles /\ b \in Matching(c, a) /\ Score[a][b] >= Threshold
    BY DEF Best, Matching
  <1> DEFINE story == View(c)[b]
             new == rows(story)
             now == [job[c] EXCEPT !.pc = "adding", !.target = story, !.rows = new]
  <1>4. Set(c, now)
    BY <1>2
  <1> HIDE DEF story, new, rows
  <1>5. /\ now.pc = "adding" /\ now.clustered = job[c].clustered
        /\ now.todo = job[c].todo /\ now.found = job[c].found
        /\ now.snapshot = job[c].snapshot /\ now.wrote = job[c].wrote /\ now.rows = new
        /\ now.target = story
    BY JobsAre DEF Jobs
  <1>6. Typed(now.clustered, now.todo, now.found, now.snapshot, now.wrote, now.rows,
              now.target) => now \in Jobs
    BY JobsAre DEF Jobs, Typed
  <1> HIDE DEF now
  <1>7. Turns(c, now.pc, now.clustered, now.todo, now.found, now.snapshot, now.wrote,
              now.rows, now.target)
    BY <1>4, <1>6, Turning
  <1>8. JoinsVia(c, b)
    BY <1>2, <1>3, <1>5, <1>7 DEF JoinsVia, story, new, rows
  <1> QED
    BY <1>3, <1>8 DEF JoinStory, Tables

LEMMA AddFacts ==
  ASSUME TypeOK, NEW c \in Clusterers, AddMember(c)
  PROVE  LET a == Head(job[c].todo) IN
         /\ Turns(c, "batch", job[c].clustered + 1, Tail(job[c].todo), job[c].found,
                  job[c].snapshot, [job[c].wrote EXCEPT ![a] = job[c].target],
                  job[c].rows, None)
         /\ job[c].pc = "adding" /\ member[a] = None /\ ~MemberLocked(c, a)
         /\ UNCHANGED <<Tables, lock, lost, faults>>
  <1> DEFINE a == Head(job[c].todo)
             rest == Tail(job[c].todo)
             more == [job[c].wrote EXCEPT ![a] = job[c].target]
             count == job[c].clustered + 1
             now == [job[c] EXCEPT !.pc = "batch", !.todo = rest, !.target = None,
                                   !.clustered = count, !.wrote = more]
  <1>1. Set(c, now)
    BY DEF AddMember
  <1> HIDE DEF more, a, rest, count
  <1>2. /\ now.pc = "batch" /\ now.clustered = count /\ now.todo = rest
        /\ now.found = job[c].found /\ now.snapshot = job[c].snapshot
        /\ now.wrote = more /\ now.rows = job[c].rows /\ now.target = None
    BY JobsAre DEF Jobs
  <1>3. Typed(now.clustered, now.todo, now.found, now.snapshot, now.wrote, now.rows,
              now.target) => now \in Jobs
    BY JobsAre DEF Jobs, Typed
  <1> HIDE DEF now
  <1>4. Turns(c, now.pc, now.clustered, now.todo, now.found, now.snapshot, now.wrote,
              now.rows, now.target)
    BY <1>1, <1>3, Turning
  <1> QED
    BY <1>2, <1>4 DEF AddMember, Tables, more, a, rest, count

LEMMA CommitFacts ==
  ASSUME TypeOK, NEW c \in Clusterers, CommitBatch(c)
  PROVE  /\ GoesBetween(c, job[c].clustered)
         /\ member' = Overlay(member, job[c].wrote) /\ stories' = Overlay(stories, job[c].rows)
         /\ job[c].pc = "batch" /\ job[c].todo = << >>
         /\ UNCHANGED <<stored, lock, lost, faults>>
  <1> DEFINE count == job[c].clustered
             now == [Idle EXCEPT !.pc = "between", !.clustered = count]
  <1>1. Set(c, now)
    BY DEF CommitBatch
  <1> HIDE DEF count
  <1>2. /\ now.pc = "between" /\ now.clustered = count /\ now.todo = << >>
        /\ now.found = FALSE /\ now.snapshot = Nothing /\ now.wrote = Nothing
        /\ now.rows = Nothing /\ now.target = None
    BY JobsAre DEF Idle, Jobs
  <1>3. Typed(now.clustered, now.todo, now.found, now.snapshot, now.wrote, now.rows,
              now.target) => now \in Jobs
    BY JobsAre DEF Idle, Jobs, Typed
  <1> HIDE DEF now
  <1>4. Turns(c, now.pc, now.clustered, now.todo, now.found, now.snapshot, now.wrote,
              now.rows, now.target)
    BY <1>1, <1>3, Turning
  <1> QED
    BY <1>2, <1>4 DEF CommitBatch, GoesBetween, count

\* The ways out of a run: the job is over, the tables are as they were.
Leaves(c) == Finish(c) \/ MemberExists(c) \/ DeadlockVictim(c) \/ Fail(c)

LEMMA LeavesFacts ==
  ASSUME TypeOK, NEW c \in Clusterers, Leaves(c)
  PROVE  /\ GoesIdle(c) /\ lock' \in {lock, None}
         /\ faults' \in Nat /\ UNCHANGED <<Tables, lost>>
  <1>1. Leave(c) /\ UNCHANGED <<Tables, lost>> /\ faults' \in Nat
    BY DEF Leaves, Finish, MemberExists, DeadlockVictim, Fail, Tables, TypeOK
  <1> QED
    BY <1>1, LeaveFacts

-----------------------------------------------------------------------------
(* Types.  What makes a row or an article be there when it is needed.      *)

\* The story of every member the tables and a transaction speak of has a row.
RowsBehind(m, book) == \A x \in Articles : m[x] # None => book[m[x]] # None
RestHasNothing(c) ==
    /\ job[c].pc \in {"idle", "between"} =>
          /\ job[c].todo = << >> /\ job[c].snapshot = Nothing
          /\ job[c].wrote = Nothing /\ job[c].rows = Nothing
    /\ job[c].pc = "adding" =>
          /\ job[c].todo # << >> /\ job[c].target # None
          /\ job[c].rows[job[c].target] # None
WithinLimit(c) == Limit[c] # NoLimit => job[c].clustered + Len(job[c].todo) <= Limit[c]
Shape(c) ==
    /\ RestHasNothing(c) /\ WithinLimit(c)
    /\ RowsBehind(job[c].snapshot, stories) /\ RowsBehind(job[c].wrote, job[c].rows)

TypeInv == TypeOK /\ RowsBehind(member, stories) /\ \A c \in Clusterers : Shape(c)

LEMMA NothingIs ==
  /\ Nothing \in Memberships /\ Nothing \in Books
  /\ \A a \in Articles : Nothing[a] = None
  BY DEF Nothing, Memberships, Books

LEMMA NothingBehind == ASSUME NEW book PROVE RowsBehind(Nothing, book)
  BY NothingIs DEF RowsBehind

LEMMA OverlayIs ==
  ASSUME NEW base, NEW own, NEW a \in Articles
  PROVE  Overlay(base, own)[a] = IF own[a] # None THEN own[a] ELSE base[a]
  BY DEF Overlay

LEMMA OverlayTyped ==
  ASSUME NEW base, NEW own
  PROVE  /\ base \in Memberships /\ own \in Memberships => Overlay(base, own) \in Memberships
         /\ base \in Books /\ own \in Books => Overlay(base, own) \in Books
  BY DEF Overlay, Memberships, Books

LEMMA FoundedTyped ==
  ASSUME NEW a \in Articles
  PROVE  Founded(a) \in StoryRows
  <1>1. Source[a] \in Outlets /\ Lang[a] \in {Lang[x] : x \in Articles}
    BY DEF Outlets
  <1>2. <<Source[a]>> \in Seq(Outlets)
    BY <1>1
  <1> QED
    BY <1>1, <1>2, DataAssumption DEF Founded, StoryRows

\* What joining changes of a row.
LEMMA JoinedIs ==
  ASSUME NEW row \in StoryRows, NEW a \in Articles
  PROVE  LET more == IF Listed(row, Source[a]) THEN row.sources
                     ELSE Append(row.sources, Source[a]) IN
         /\ Joined(row, a) \in StoryRows
         /\ Joined(row, a).lang = row.lang
         /\ Joined(row, a).article_count = row.article_count + 1
         /\ Joined(row, a).first = Earliest(row.first, Published[a])
         /\ Joined(row, a).last = Latest(row.last, Published[a])
         /\ Joined(row, a).sources = more
         /\ Joined(row, a).source_count =
                IF Listed(row, Source[a]) THEN row.source_count ELSE Len(row.sources) + 1
  <1> DEFINE listed == Listed(row, Source[a])
             longer == Append(row.sources, Source[a])
             size == Len(row.sources) + 1
             wider == [row EXCEPT !.sources = longer, !.source_count = size]
             base == IF listed THEN row ELSE wider
             count == row.article_count + 1
             first == Earliest(row.first, Published[a])
             last == Latest(row.last, Published[a])
  <1>1. Source[a] \in Outlets /\ Published[a] \in Nat
    BY DataAssumption DEF Outlets
  <1>2. /\ row.sources \in Seq(Outlets) /\ row.article_count \in Nat
        /\ row.first \in Nat /\ row.last \in Nat
    BY DEF StoryRows
  <1>3. longer \in Seq(Outlets) /\ size \in Nat /\ count \in Nat
    BY <1>1, <1>2
  <1>4. first \in Nat /\ last \in Nat
    BY <1>1, <1>2 DEF Earliest, Latest
  <1>5. Joined(row, a) = [base EXCEPT !.article_count = count, !.first = first, !.last = last]
    BY DEF Joined, WithSource
  <1> HIDE DEF longer, size, count, first, last, listed
  <1>6. /\ wider \in StoryRows /\ wider.lang = row.lang
        /\ wider.sources = longer /\ wider.source_count = size
    BY <1>3 DEF StoryRows
  <1> HIDE DEF wider
  <1>7. /\ base \in StoryRows /\ base.lang = row.lang
        /\ base.sources = IF listed THEN row.sources ELSE longer
        /\ base.source_count = IF listed THEN row.source_count ELSE size
    BY <1>6
  <1> HIDE DEF base
  <1>8. /\ Joined(row, a) \in StoryRows
        /\ Joined(row, a).lang = base.lang /\ Joined(row, a).article_count = count
        /\ Joined(row, a).first = first /\ Joined(row, a).last = last
        /\ Joined(row, a).sources = base.sources
        /\ Joined(row, a).source_count = base.source_count
    BY <1>3, <1>4, <1>5, <1>7 DEF StoryRows
  <1> QED
    BY <1>7, <1>8 DEF longer, size, count, first, last, listed

LEMMA InitTyped == Init => TypeInv
  <1> SUFFICES ASSUME Init PROVE TypeInv
    OBVIOUS
  <1>1. Idle \in Jobs /\ Idle.pc = "idle" /\ Idle.todo = << >> /\ Idle.clustered = 0
        /\ Idle.snapshot = Nothing /\ Idle.wrote = Nothing /\ Idle.rows = Nothing
    BY NothingIs DEF Idle, Jobs
  <1>2. TypeOK
    <2>1. job \in [Clusterers -> Jobs]
      BY <1>1 DEF Init
    <2>2. ASSUME NEW c \in Clusterers, Limit[c] # NoLimit PROVE job[c].clustered <= Limit[c]
      <3>1. Limit[c] \in Nat /\ job[c].clustered = 0
        BY <1>1, <2>2, DataAssumption DEF Init
      <3> QED
        BY <3>1
    <2> QED
      BY <2>1, <2>2, NothingIs DEF Init, TypeOK
  <1>3. \A c \in Clusterers : Shape(c)
    BY <1>1, NothingBehind, DataAssumption DEF Init, Shape, RestHasNothing, WithinLimit
  <1> QED
    BY <1>2, <1>3, NothingBehind DEF TypeInv, Init

\* A job that stands still keeps its shape while rows are only added.
RowsOnlyAdded == \A s \in Articles : stories[s] # None => stories'[s] # None

LEMMA StandingShape ==
  ASSUME TypeInv, RowsOnlyAdded, NEW o \in Clusterers, job'[o] = job[o]
  PROVE  Shape(o)'
  <1>1. job[o].snapshot \in Memberships
    BY JobsAre DEF TypeInv, Typed
  <1>2. RowsBehind(job[o].snapshot, stories')
    BY <1>1 DEF TypeInv, Shape, RowsBehind, RowsOnlyAdded, Memberships
  <1> QED
    BY <1>2 DEF TypeInv, Shape, RestHasNothing, WithinLimit, RowsBehind

\* A step of one job that keeps the tables.
LEMMA OneTurns ==
  ASSUME TypeInv, NEW c \in Clusterers, NEW pc, NEW clustered, NEW todo, NEW found,
         NEW snapshot, NEW wrote, NEW rows, NEW target,
         Turns(c, pc, clustered, todo, found, snapshot, wrote, rows, target),
         Typed(clustered, todo, found, snapshot, wrote, rows, target),
         UNCHANGED Tables, lock' \in Clusterers \cup {None}, lost' \in BOOLEAN, faults' \in Nat,
         Shape(c)'
  PROVE  TypeInv'
  <1>1. \A o \in Clusterers : Shape(o)'
    <2>1. RowsOnlyAdded
      BY DEF RowsOnlyAdded, Tables
    <2> QED
      BY <2>1, StandingShape DEF Turns
  <1>2. job' \in [Clusterers -> Jobs]
    BY DEF Turns
  <1>3. ASSUME NEW o \in Clusterers, Limit[o] # NoLimit PROVE job'[o].clustered <= Limit[o]
    <2>1. /\ job'[o].clustered \in Nat /\ Len(job'[o].todo) \in Nat /\ Limit[o] \in Nat
      BY <1>2, <1>3, DataAssumption DEF Jobs
    <2>2. job'[o].clustered + Len(job'[o].todo) <= Limit[o]
      BY <1>1, <1>3 DEF Shape, WithinLimit
    <2> QED
      BY <2>1, <2>2
  <1>4. TypeOK'
    BY <1>2, <1>3 DEF TypeInv, TypeOK, Tables
  <1> QED
    BY <1>1, <1>4 DEF TypeInv, RowsBehind, Tables

LEMMA GoesIdleTyped ==
  ASSUME TypeInv, NEW c \in Clusterers, GoesIdle(c) \/ GoesBetween(c, job[c].clustered)
                                         \/ GoesBetween(c, 0)
  PROVE  Shape(c)' /\ job' \in [Clusterers -> Jobs]
  <1> USE NothingIs, NothingBehind
  <1>1. job[c].clustered \in Nat /\ 0 \in Nat /\ << >> \in Seq(Articles) /\ FALSE \in BOOLEAN
        /\ Len(<< >>) = 0
    BY JobsAre DEF TypeInv, Typed
  <1>2. PICK n \in Nat : /\ job'[c].clustered = n /\ (Limit[c] # NoLimit => n <= Limit[c])
                         /\ job'[c].todo = << >> /\ job'[c].pc \in {"idle", "between"}
                         /\ job'[c].snapshot = Nothing /\ job'[c].wrote = Nothing
                         /\ job'[c].rows = Nothing /\ job' \in [Clusterers -> Jobs]
    <2>1. Limit[c] # NoLimit => job[c].clustered <= Limit[c] /\ 0 <= Limit[c]
      BY DataAssumption DEF TypeInv, TypeOK
    <2>2. \A n \in Nat : Typed(n, << >>, FALSE, Nothing, Nothing, Nothing, None)
      BY <1>1 DEF Typed
    <2> QED
      BY <1>1, <2>1, <2>2 DEF GoesIdle, GoesBetween, Turns
  <1>3. RestHasNothing(c)'
    BY <1>2 DEF RestHasNothing
  <1>4. WithinLimit(c)'
    BY <1>1, <1>2, DataAssumption DEF WithinLimit
  <1>5. RowsBehind(job'[c].snapshot, stories') /\ RowsBehind(job'[c].wrote, job'[c].rows)
    BY <1>2
  <1> QED
    BY <1>2, <1>3, <1>4, <1>5 DEF Shape

LEMMA RestTyped ==
  ASSUME TypeInv, NEW c \in Clusterers, TryLock(c) \/ Leaves(c)
  PROVE  TypeInv'
  <1> DEFINE pc == job'[c].pc
  <1>1. /\ GoesIdle(c) \/ GoesBetween(c, 0)
        /\ UNCHANGED Tables /\ lock' \in Clusterers \cup {None}
        /\ lost' \in BOOLEAN /\ faults' \in Nat
    BY LockFacts, LeavesFacts DEF TypeInv, TypeOK
  <1>2. Shape(c)'
    BY <1>1, GoesIdleTyped
  <1>3. Typed(0, << >>, FALSE, Nothing, Nothing, Nothing, None)
    BY NothingIs DEF Typed
  <1> QED
    BY <1>1, <1>2, <1>3, OneTurns DEF GoesIdle, GoesBetween

LEMMA BatchSizeIs ==
  ASSUME TypeInv, NEW c \in Clusterers, Limit[c] # NoLimit => job[c].clustered < Limit[c]
  PROVE  /\ BatchSize(c) \in Nat
         /\ Limit[c] # NoLimit => job[c].clustered + BatchSize(c) <= Limit[c]
  <1>1. job[c].clustered \in Nat /\ ClusterBatch \in Nat \ {0}
        /\ (Limit[c] # NoLimit => Limit[c] \in Nat)
    BY JobsAre, DataAssumption DEF TypeInv, Typed
  <1> QED
    BY <1>1 DEF BatchSize

LEMMA OpenTyped ==
  ASSUME TypeInv, NEW c \in Clusterers, OpenBatch(c)
  PROVE  TypeInv'
  <1> DEFINE batch == OldestPending(BatchSize(c))
  <1>0. TypeOK /\ Shape(c) /\ stored \subseteq Articles
    BY DEF TypeInv, TypeOK
  <1>1. /\ Turns(c, "batch", job[c].clustered, batch, Pending # {}, member, job[c].wrote,
                 job[c].rows, job[c].target)
        /\ (Limit[c] # NoLimit => job[c].clustered < Limit[c])
        /\ UNCHANGED <<Tables, lock, lost, faults>>
    BY <1>0, OpenFacts
  <1>2. BatchSize(c) \in Nat
        /\ (Limit[c] # NoLimit => job[c].clustered + BatchSize(c) <= Limit[c])
    BY <1>1, BatchSizeIs
  <1>3. batch \in Seq(Pending) /\ Len(batch) <= BatchSize(c) /\ Pending \subseteq Articles
    BY <1>0, <1>2, BatchIsDistinct DEF Pending
  <1> HIDE DEF batch
  <1>4. batch \in Seq(Articles) /\ Len(batch) \in Nat
    BY <1>3
  <1>5. Typed(job[c].clustered, batch, Pending # {}, member, job[c].wrote, job[c].rows,
              job[c].target)
    BY <1>0, <1>4, JobsAre DEF Typed, TypeOK
  <1>6. WithinLimit(c)'
    <2>1. job[c].clustered \in Nat /\ (Limit[c] # NoLimit => Limit[c] \in Nat)
      BY <1>5, DataAssumption DEF Typed
    <2>2. job'[c].clustered = job[c].clustered /\ job'[c].todo = batch
      BY <1>1 DEF Turns
    <2> QED
      BY <1>2, <1>3, <1>4, <2>1, <2>2 DEF WithinLimit
  <1>7. Shape(c)'
    BY <1>0, <1>1, <1>6 DEF TypeInv, Shape, Turns, RestHasNothing, RowsBehind, Tables
  <1>8. lock' \in Clusterers \cup {None} /\ lost' \in BOOLEAN /\ faults' \in Nat
    BY <1>0, <1>1 DEF TypeOK
  <1> QED
    BY <1>1, <1>5, <1>7, <1>8, OneTurns

\* assign writes a row and says where the article goes.
LEMMA AssignTyped ==
  ASSUME TypeInv, NEW c \in Clusterers, NEW story \in Articles, NEW row \in StoryRows,
         Turns(c, "adding", job[c].clustered, job[c].todo, job[c].found, job[c].snapshot,
               job[c].wrote, [job[c].rows EXCEPT ![story] = row], story),
         job[c].todo # << >>, UNCHANGED <<Tables, lock, lost, faults>>
  PROVE  TypeInv'
  <1> DEFINE rows == [job[c].rows EXCEPT ![story] = row]
  <1>0. TypeOK /\ Shape(c) /\ job[c].rows \in Books
    BY JobsAre DEF TypeInv, Typed
  <1>1. /\ rows \in Books /\ rows[story] = row /\ row # None
        /\ \A s \in Articles : job[c].rows[s] # None => rows[s] # None
    BY <1>0, NoneAssumption DEF Books
  <1> HIDE DEF rows
  <1>2. Typed(job[c].clustered, job[c].todo, job[c].found, job[c].snapshot, job[c].wrote, rows,
              story)
    BY <1>0, <1>1, JobsAre DEF Typed
  <1>3. Turns(c, "adding", job[c].clustered, job[c].todo, job[c].found, job[c].snapshot,
              job[c].wrote, rows, story)
    BY DEF rows
  <1>4. RowsBehind(job[c].wrote, rows)
    BY <1>0, <1>1, <1>2 DEF Shape, RowsBehind, Typed, Memberships
  <1>5. story # None
    BY ArticlesAssumption
  <1>6. Shape(c)'
    <2>1. RestHasNothing(c)'
      BY <1>1, <1>3, <1>5 DEF RestHasNothing, Turns
    <2>2. WithinLimit(c)'
      BY <1>0, <1>3 DEF Shape, WithinLimit, Turns
    <2>3. RowsBehind(job'[c].snapshot, stories') /\ RowsBehind(job'[c].wrote, job'[c].rows)
      BY <1>0, <1>3, <1>4 DEF Shape, Turns, Tables
    <2> QED
      BY <2>1, <2>2, <2>3 DEF Shape
  <1>7. lock' \in Clusterers \cup {None} /\ lost' \in BOOLEAN /\ faults' \in Nat
    BY <1>0 DEF TypeOK
  <1> QED
    BY <1>2, <1>3, <1>6, <1>7, OneTurns DEF Tables

LEMMA FoundTyped ==
  ASSUME TypeInv, NEW c \in Clusterers, FoundStory(c)
  PROVE  TypeInv'
  BY FoundFacts, HeadAndTail, FoundedTyped, AssignTyped DEF TypeInv

\* The row of the story of a member the transaction sees.
LEMMA RowReadTyped ==
  ASSUME TypeInv, NEW c \in Clusterers, NEW b \in Articles, View(c)[b] # None
  PROVE  /\ View(c)[b] \in Articles /\ RowForUpdate(c, View(c)[b]) \in StoryRows
  <1>1. /\ job[c].snapshot \in Memberships /\ job[c].wrote \in Memberships
        /\ job[c].rows \in Books /\ stories \in Books
    BY JobsAre DEF TypeInv, TypeOK, Typed
  <1>2. View(c)[b] = IF job[c].wrote[b] # None THEN job[c].wrote[b] ELSE job[c].snapshot[b]
    BY OverlayIs DEF View
  <1>3. View(c)[b] \in Articles
    BY <1>1, <1>2 DEF Memberships
  <1>4. job[c].rows[View(c)[b]] # None \/ stories[View(c)[b]] # None
    BY <1>2 DEF TypeInv, Shape, RowsBehind
  <1> QED
    BY <1>1, <1>3, <1>4 DEF RowForUpdate, Writes, Books

LEMMA JoinTyped ==
  ASSUME TypeInv, NEW c \in Clusterers, JoinStory(c)
  PROVE  TypeInv'
  <1>1. PICK b \in Articles : JoinsVia(c, b)
    BY JoinFacts DEF TypeInv
  <1> DEFINE a == Head(job[c].todo)
             story == View(c)[b]
  <1>2. a \in Articles /\ job[c].todo # << >> /\ UNCHANGED <<Tables, lock, lost, faults>>
    BY JoinFacts, HeadAndTail DEF TypeInv
  <1>3. story # None
    BY <1>1 DEF JoinsVia, Matching
  <1>4. story \in Articles /\ Joined(RowForUpdate(c, story), a) \in StoryRows
    BY <1>2, <1>3, RowReadTyped, JoinedIs
  <1>5. Turns(c, "adding", job[c].clustered, job[c].todo, job[c].found, job[c].snapshot,
              job[c].wrote,
              [job[c].rows EXCEPT ![story] = Joined(RowForUpdate(c, story), a)], story)
    BY <1>1 DEF JoinsVia
  <1> QED
    BY <1>2, <1>4, <1>5, AssignTyped

LEMMA AddTyped ==
  ASSUME TypeInv, NEW c \in Clusterers, AddMember(c)
  PROVE  TypeInv'
  <1> DEFINE a == Head(job[c].todo)
             wrote == [job[c].wrote EXCEPT ![a] = job[c].target]
             rest == Tail(job[c].todo)
             count == job[c].clustered + 1
  <1>0. TypeOK /\ Shape(c)
    BY DEF TypeInv
  <1>1. /\ Turns(c, "batch", count, rest, job[c].found, job[c].snapshot, wrote, job[c].rows, None)
        /\ job[c].pc = "adding" /\ UNCHANGED <<Tables, lock, lost, faults>>
    BY <1>0, AddFacts
  <1>2. job[c].todo # << >> /\ job[c].target # None /\ job[c].rows[job[c].target] # None
    BY <1>0, <1>1 DEF Shape, RestHasNothing
  <1>3. a \in Articles /\ rest \in Seq(Articles) /\ Len(rest) = Len(job[c].todo) - 1
        /\ Len(job[c].todo) \in Nat
    BY <1>0, <1>2, HeadAndTail
  <1>4. Typed(job[c].clustered, job[c].todo, job[c].found, job[c].snapshot, job[c].wrote,
              job[c].rows, job[c].target)
    BY <1>0, JobsAre
  <1>5. wrote \in Memberships /\ count \in Nat
    BY <1>3, <1>4 DEF Typed, Memberships
  <1>6. RowsBehind(wrote, job[c].rows)
    BY <1>0, <1>2, <1>3, <1>4 DEF Shape, RowsBehind, Typed, Memberships
  <1>7. count + Len(rest) = job[c].clustered + Len(job[c].todo)
    BY <1>3, <1>4 DEF Typed
  <1> HIDE DEF wrote, rest, count
  <1>8. Typed(count, rest, job[c].found, job[c].snapshot, wrote, job[c].rows, None)
    BY <1>3, <1>4, <1>5 DEF Typed
  <1>9. Shape(c)'
    <2>1. RestHasNothing(c)'
      BY <1>1 DEF RestHasNothing, Turns
    <2>2. WithinLimit(c)'
      BY <1>0, <1>1, <1>7 DEF Shape, WithinLimit, Turns
    <2>3. RowsBehind(job'[c].snapshot, stories') /\ RowsBehind(job'[c].wrote, job'[c].rows)
      BY <1>0, <1>1, <1>6 DEF Shape, Turns, Tables
    <2> QED
      BY <2>1, <2>2, <2>3 DEF Shape
  <1>10. lock' \in Clusterers \cup {None} /\ lost' \in BOOLEAN /\ faults' \in Nat
    BY <1>0, <1>1 DEF TypeOK
  <1> QED
    BY <1>1, <1>8, <1>9, <1>10, OneTurns

LEMMA CommitTyped ==
  ASSUME TypeInv, NEW c \in Clusterers, CommitBatch(c)
  PROVE  TypeInv'
  <1>0. TypeOK /\ Shape(c)
    BY DEF TypeInv
  <1>1. /\ GoesBetween(c, job[c].clustered)
        /\ member' = Overlay(member, job[c].wrote) /\ stories' = Overlay(stories, job[c].rows)
        /\ UNCHANGED <<stored, lock, lost, faults>>
    BY <1>0, CommitFacts
  <1>2. /\ job[c].wrote \in Memberships /\ job[c].rows \in Books
        /\ member \in Memberships /\ stories \in Books
    BY <1>0, JobsAre DEF Typed, TypeOK
  <1>3. member' \in Memberships /\ stories' \in Books
    BY <1>1, <1>2, OverlayTyped
  <1>4. /\ \A x \in Articles :
               member'[x] = IF job[c].wrote[x] # None THEN job[c].wrote[x] ELSE member[x]
        /\ \A s \in Articles :
               stories'[s] = IF job[c].rows[s] # None THEN job[c].rows[s] ELSE stories[s]
    BY <1>1, OverlayIs
  <1>5. RowsOnlyAdded
    BY <1>4 DEF RowsOnlyAdded
  <1>6. RowsBehind(member', stories')
    BY <1>0, <1>2, <1>4 DEF TypeInv, Shape, RowsBehind, Memberships
  <1>7. Shape(c)' /\ job' \in [Clusterers -> Jobs]
    BY <1>1, GoesIdleTyped
  <1>8. \A o \in Clusterers : Shape(o)'
    BY <1>1, <1>5, <1>7, StandingShape DEF GoesBetween, Turns
  <1>9. \A o \in Clusterers : Limit[o] # NoLimit => job'[o].clustered <= Limit[o]
    BY <1>0, <1>1 DEF TypeOK, GoesBetween, Turns
  <1>10. TypeOK'
    BY <1>0, <1>1, <1>3, <1>7, <1>9 DEF TypeOK
  <1> QED
    BY <1>6, <1>8, <1>10 DEF TypeInv

LEMMA NextTyped == TypeInv /\ [Next]_vars => TypeInv'
  <1> SUFFICES ASSUME TypeInv, [Next]_vars PROVE TypeInv'
    OBVIOUS
  <1>1. ASSUME NEW c \in Clusterers, LoseLock(c) PROVE TypeInv'
    BY <1>1 DEF LoseLock, TypeInv, TypeOK, Shape, RestHasNothing, WithinLimit, RowsBehind
  <1>2. ASSUME NEW a \in Articles, Store(a) PROVE TypeInv'
    BY <1>2 DEF Store, TypeInv, TypeOK, Shape, RestHasNothing, WithinLimit, RowsBehind
  <1>3. CASE UNCHANGED vars
    BY <1>3 DEF vars, TypeInv, TypeOK, Shape, RestHasNothing, WithinLimit, RowsBehind
  <1> QED
    BY <1>1, <1>2, <1>3, RestTyped, OpenTyped, FoundTyped, JoinTyped, AddTyped, CommitTyped
    DEF Next, Step, Leaves

\* Tables and runs hold what they can hold, whatever clusterers overlap and
\* however batches fail; and no run assigns more articles than its --limit.
THEOREM ClusteringTypeCorrect == Spec => []TypeOK
  <1>1. TypeInv => TypeOK
    BY DEF TypeInv
  <1> QED
    BY <1>1, InitTyped, NextTyped, PTL DEF Spec
=============================================================================
