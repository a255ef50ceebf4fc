--------------------------- MODULE StoryBookProofs ---------------------------
(***************************************************************************)
(* Clustering implements StoryBook, for any clusterers, articles, batches, *)
(* limits and failures, lost lock connections included: seen through the   *)
(* committed tables, batches are whole and every story row is the summary  *)
(* of its members.  Stories only grow, and are coherent; as long as no     *)
(* lock connection is lost, an event has one story.                        *)
(***************************************************************************)
EXTENDS ClusteringProofs, WellFoundedInduction

\* The members of story s in m, and what its row says when they are M.
In(m, s) == {a \in Articles : m[a] = s}
Sums(row, s, M) ==
    /\ row.lang = Lang[s]
    /\ \E a \in M : Published[a] = row.first
    /\ \A a \in M : row.first <= Published[a]
    /\ \E a \in M : Published[a] = row.last
    /\ \A a \in M : row.last >= Published[a]
    /\ row.article_count = Cardinality(M)
    /\ row.source_count = Cardinality({Source[a] : a \in M})
    /\ Len(row.sources) = row.source_count
    /\ \A o \in Outlets : Listed(row, o) <=> \E a \in M : Source[a] = o

\* The committed tables: founders are in their own stories, rows are exact.
FoundersIn == \A x \in Articles :
    member[x] # None => member[member[x]] = member[x] /\ Lang[member[x]] = Lang[x]
BookExact == \A s \in Articles :
    IF In(member, s) = {} THEN stories[s] = None ELSE Sums(stories[s], s, In(member, s))

\* A transaction sees an earlier state of the tables and what it wrote; no one
\* else has assigned the articles it assigned.
SnapshotOld(c) == \A x \in Articles :
    job[c].snapshot[x] # None =>
        /\ member[x] = job[c].snapshot[x]
        /\ job[c].snapshot[job[c].snapshot[x]] = job[c].snapshot[x]
TodoFree(c) ==
    /\ \A i, j \in DOMAIN job[c].todo : job[c].todo[i] = job[c].todo[j] => i = j
    /\ \A i \in DOMAIN job[c].todo : View(c)[job[c].todo[i]] = None
WroteOwn(c) == \A x \in Articles :
    job[c].wrote[x] # None =>
        /\ member[x] = None
        /\ View(c)[job[c].wrote[x]] = job[c].wrote[x] /\ Lang[job[c].wrote[x]] = Lang[x]

\* Where the article at the head goes, and which rows the batch has.
Goes(c) == job[c].pc = "adding" =>
    /\ Lang[job[c].target] = Lang[Head(job[c].todo)]
    /\ job[c].target = Head(job[c].todo) \/ View(c)[job[c].target] = job[c].target
RowsOwn(c) == \A s \in Articles :
    job[c].rows[s] # None =>
        \/ View(c)[s] = s
        \/ job[c].pc = "adding" /\ job[c].target = s /\ Head(job[c].todo) = s

\* What the tables will be if the transaction commits; it does not if the
\* article it adds was assigned by someone else meanwhile.
Own(c) == IF job[c].pc = "adding"
          THEN [job[c].wrote EXCEPT ![Head(job[c].todo)] = job[c].target]
          ELSE job[c].wrote
After(c) == Overlay(member, Own(c))
Doomed(c) == job[c].pc = "adding" /\ member[Head(job[c].todo)] # None
RowsExact(c) == ~Doomed(c) => \A s \in Articles :
    job[c].rows[s] # None => Sums(job[c].rows[s], s, In(After(c), s))

Transaction(c) ==
    /\ SnapshotOld(c) /\ TodoFree(c) /\ WroteOwn(c)
    /\ Goes(c) /\ RowsOwn(c) /\ RowsExact(c)

\* Row locks: an article is added, and a committed story changed, by one
\* transaction at a time.
AddsOnce == \A c, o \in Clusterers, x \in Articles : Adds(c, x) /\ Adds(o, x) => c = o
LocksOnce == \A c, o \in Clusterers, s \in Articles : Locks(c, s) /\ Locks(o, s) => c = o

StoryInv ==
    /\ FoundersIn /\ BookExact /\ AddsOnce /\ LocksOnce
    /\ \A c \in Clusterers : Transaction(c)

-----------------------------------------------------------------------------
(* Summaries.                                                              *)

LEMMA MembersFinite ==
  ASSUME NEW M \in SUBSET Articles
  PROVE  /\ IsFiniteSet(M) /\ Cardinality(M) \in Nat
         /\ IsFiniteSet({Source[a] : a \in M})
  <1> DEFINE f == [a \in M |-> Source[a]]
             S == {Source[a] : a \in M}
  <1>1. IsFiniteSet(M) /\ Cardinality(M) \in Nat
    BY ArticlesAssumption, FS_Subset, FS_CardinalityType
  <1>2. f \in Surjection(M, S)
    BY DEF Surjection
  <1> QED
    BY <1>1, <1>2, FS_Surjection

LEMMA FoundedSums ==
  ASSUME NEW a \in Articles
  PROVE  Sums(Founded(a), a, {a})
  <1>1. /\ Founded(a).lang = Lang[a] /\ Founded(a).first = Published[a]
        /\ Founded(a).last = Published[a] /\ Founded(a).article_count = 1
        /\ Founded(a).source_count = 1 /\ Founded(a).sources = <<Source[a]>>
    BY DEF Founded
  <1>2. Cardinality({a}) = 1 /\ Cardinality({Source[a]}) = 1
    BY FS_Singleton
  <1>3. {Source[x] : x \in {a}} = {Source[a]}
    OBVIOUS
  <1>4. Len(<<Source[a]>>) = 1 /\ DOMAIN <<Source[a]>> = {1} /\ <<Source[a]>>[1] = Source[a]
    OBVIOUS
  <1>5. \A o : Listed(Founded(a), o) <=> Source[a] = o
    BY <1>1, <1>4 DEF Listed
  <1>6. Published[a] \in Nat
    BY DataAssumption
  <1> QED
    BY <1>1, <1>2, <1>3, <1>4, <1>5, <1>6 DEF Sums

LEMMA JoinedSums ==
  ASSUME NEW row \in StoryRows, NEW s \in Articles, NEW M \in SUBSET Articles,
         NEW a \in Articles, a \notin M, Sums(row, s, M)
  PROVE  Sums(Joined(row, a), s, M \cup {a})
  <1> DEFINE S == {Source[x] : x \in M}
             new == Joined(row, a)
             listed == Listed(row, Source[a])
             N == M \cup {a}
  <1>1. /\ row.sources \in Seq(Outlets) /\ row.article_count \in Nat
        /\ row.first \in Nat /\ row.last \in Nat /\ row.source_count \in Nat
        /\ Source[a] \in Outlets
    BY DEF StoryRows, Outlets
  <1>2. \A x \in Articles : Published[x] \in Nat
    BY DataAssumption
  <1>3. /\ new.lang = row.lang /\ new.article_count = row.article_count + 1
        /\ new.first = Earliest(row.first, Published[a])
        /\ new.last = Latest(row.last, Published[a])
        /\ new.sources = (IF listed THEN row.sources ELSE Append(row.sources, Source[a]))
        /\ new.source_count = IF listed THEN row.source_count ELSE Len(row.sources) + 1
    BY JoinedIs
  <1> HIDE DEF new, listed
  <1>4. new.article_count = Cardinality(N)
    BY <1>3, MembersFinite, FS_AddElement DEF Sums
  <1>5. (\E x \in N : Published[x] = new.first) /\ \A x \in N : new.first <= Published[x]
    BY <1>1, <1>2, <1>3 DEF Sums, Earliest
  <1>6. (\E x \in N : Published[x] = new.last) /\ \A x \in N : new.last >= Published[x]
    BY <1>1, <1>2, <1>3 DEF Sums, Latest
  <1>7. listed <=> Source[a] \in S
    BY <1>1 DEF Sums, listed
  <1>8. {Source[x] : x \in N} = S \cup {Source[a]}
    OBVIOUS
  <1>9. /\ Cardinality(S \cup {Source[a]}) = IF listed THEN Cardinality(S) ELSE Cardinality(S) + 1
        /\ Cardinality(S) = row.source_count /\ Len(row.sources) = row.source_count
    BY <1>7, MembersFinite, FS_AddElement DEF Sums
  <1>10. new.source_count = Cardinality({Source[x] : x \in N}) /\ Len(new.sources) = new.source_count
    <2>1. Len(Append(row.sources, Source[a])) = Len(row.sources) + 1
      BY <1>1
    <2> QED
      BY <1>3, <1>8, <1>9, <2>1
  <1>11. ASSUME NEW o \in Outlets PROVE Listed(new, o) <=> \E x \in N : Source[x] = o
    <2>1. Listed(row, o) <=> \E x \in M : Source[x] = o
      BY DEF Sums
    <2>2. Listed(new, o) <=> Listed(row, o) \/ Source[a] = o
      <3>1. CASE listed
        BY <1>3, <3>1 DEF Listed, listed
      <3>2. CASE ~listed
        <4>1. /\ DOMAIN row.sources = 1..Len(row.sources) /\ Len(row.sources) \in Nat
              /\ DOMAIN new.sources = 1..(Len(row.sources) + 1)
              /\ \A i \in 1..Len(row.sources) : new.sources[i] = row.sources[i]
              /\ new.sources[Len(row.sources) + 1] = Source[a]
          BY <1>1, <1>3, <3>2
        <4> QED
          BY <4>1 DEF Listed
      <3> QED
        BY <3>1, <3>2
    <2> QED
      BY <2>1, <2>2
  <1>12. new.lang = Lang[s]
    BY <1>3 DEF Sums
  <1> QED
    BY <1>4, <1>5, <1>6, <1>10, <1>11, <1>12 DEF Sums, new

\* The one smallest and the one greatest of a set of times.
LEMMA LeastIs ==
  ASSUME NEW T, NEW p \in T, \A q \in T : q \in Nat /\ p <= q
  PROVE  (CHOOSE x \in T : \A q \in T : x <= q) = p
  <1>1. \A x \in T : (\A q \in T : x <= q) => x = p
    OBVIOUS
  <1> QED
    BY <1>1

LEMMA GreatestIs ==
  ASSUME NEW T, NEW p \in T, \A q \in T : q \in Nat /\ p >= q
  PROVE  (CHOOSE x \in T : \A q \in T : x >= q) = p
  <1>1. \A x \in T : (\A q \in T : x >= q) => x = p
    OBVIOUS
  <1> QED
    BY <1>1

\* Exact rows are the summaries that StoryBook speaks of.
LEMMA BookIsSummaries ==
  ASSUME BookExact, RowsBehind(member, stories)
  PROVE  [a \in Articles |-> Row(a)] = Promise!Summaries(member)
  <1> SUFFICES ASSUME NEW s \in Articles
               PROVE  Row(s) = IF Promise!Members(member, s) = {} THEN None
                               ELSE Promise!Summary(member, s)
    BY DEF Promise!Summaries
  <1> DEFINE M == In(member, s)
             T == {Published[a] : a \in M}
             S == {Source[a] : a \in M}
             first == CHOOSE p \in T : \A q \in T : p <= q
             last == CHOOSE p \in T : \A q \in T : p >= q
             row == stories[s]
  <1>1. Promise!Members(member, s) = M /\ Promise!Times(member, s) = T
    BY DEF Promise!Members, Promise!Times, In
  <1>2. CASE M = {}
    BY <1>1, <1>2 DEF BookExact, Row
  <1>3. CASE M # {}
    <2>1. Sums(row, s, M)
      BY <1>3 DEF BookExact
    <2>2. row # None
      BY <1>3, ArticlesAssumption DEF RowsBehind, In
    <2>3. Promise!Summary(member, s) =
            [lang |-> Lang[s], first |-> first, last |-> last, article_count |-> Cardinality(M),
             source_count |-> Cardinality(S), sources |-> S]
      BY DEF Promise!Summary, Promise!Members, Promise!Times, In,
             Promise!Cardinality, Cardinality
    <2>4. \A q \in T : q \in Nat
      BY DataAssumption DEF In
    <2>5. row.first \in T /\ (\A q \in T : row.first <= q) /\ row.last \in T /\ \A q \in T : row.last >= q
      BY <2>1 DEF Sums
    <2>6. first = row.first /\ last = row.last
      <3> HIDE DEF T, row
      <3> QED
        BY <2>4, <2>5, LeastIs, GreatestIs
    <2>7. {o \in Outlets : Listed(row, o)} = S
      BY <2>1 DEF Sums, Outlets, In
    <2>8. row.lang = Lang[s] /\ row.article_count = Cardinality(M)
          /\ row.source_count = Cardinality(S)
      BY <2>1 DEF Sums
    <2> HIDE DEF M, S, T, first, last
    <2> QED
      BY <1>1, <1>3, <2>2, <2>3, <2>6, <2>7, <2>8 DEF Row
  <1> QED
    BY <1>1, <1>2, <1>3

-----------------------------------------------------------------------------
(* Transactions.                                                           *)

\* What of a transaction depends on its own job alone.
LEMMA StandingJob ==
  ASSUME NEW o \in Clusterers, job'[o] = job[o]
  PROVE  /\ View(o)' = View(o) /\ Own(o)' = Own(o)
         /\ (TodoFree(o)' <=> TodoFree(o)) /\ (Goes(o)' <=> Goes(o)) /\ (RowsOwn(o)' <=> RowsOwn(o))
         /\ \A x : (Adds(o, x)' <=> Adds(o, x)) /\ (Locks(o, x)' <=> Locks(o, x))
  BY DEF View, Own, TodoFree, Goes, RowsOwn, Adds, Locks, Writes

LEMMA StandingTransaction ==
  ASSUME NEW o \in Clusterers, job'[o] = job[o], UNCHANGED Tables, Transaction(o)
  PROVE  Transaction(o)'
  <1>1. After(o)' = After(o) /\ (Doomed(o)' <=> Doomed(o))
    BY StandingJob DEF After, Doomed, Tables
  <1>2. View(o)' = View(o) /\ TodoFree(o)' /\ Goes(o)' /\ RowsOwn(o)'
    BY StandingJob DEF Transaction
  <1>3. SnapshotOld(o)' /\ WroteOwn(o)'
    BY <1>2 DEF Transaction, SnapshotOld, WroteOwn, Tables
  <1>4. RowsExact(o)'
    BY <1>1 DEF Transaction, RowsExact
  <1> QED
    BY <1>2, <1>3, <1>4 DEF Transaction

\* A step of one transaction that takes only locks that are free.
LEMMA OneActs ==
  ASSUME StoryInv, NEW c \in Clusterers, \A o \in Clusterers : o # c => job'[o] = job[o],
         UNCHANGED Tables, Transaction(c)',
         \A x \in Articles : Adds(c, x)' => Adds(c, x) \/ ~MemberLocked(c, x),
         \A s \in Articles : Locks(c, s)' => Locks(c, s) \/ ~StoryLocked(c, s)
  PROVE  StoryInv'
  <1>1. \A o \in Clusterers : Transaction(o)'
    BY StandingTransaction DEF StoryInv
  <1>2. FoundersIn' /\ BookExact'
    BY DEF StoryInv, FoundersIn, BookExact, Tables
  <1>3. \A o \in Clusterers \ {c}, x \in Articles :
            (Adds(o, x)' <=> Adds(o, x)) /\ (Locks(o, x)' <=> Locks(o, x))
    BY StandingJob
  <1>4. AddsOnce'
    <2> SUFFICES ASSUME NEW d \in Clusterers, NEW o \in Clusterers, NEW x \in Articles,
                        Adds(d, x)', Adds(o, x)', d # o
                 PROVE  FALSE
      BY DEF AddsOnce
    <2>1. AddsOnce
      BY DEF StoryInv
    <2> QED
      BY <1>3, <2>1 DEF AddsOnce, MemberLocked
  <1>5. LocksOnce'
    <2> SUFFICES ASSUME NEW d \in Clusterers, NEW o \in Clusterers, NEW x \in Articles,
                        Locks(d, x)', Locks(o, x)', d # o
                 PROVE  FALSE
      BY DEF LocksOnce
    <2>1. LocksOnce
      BY DEF StoryInv
    <2> QED
      BY <1>3, <2>1 DEF LocksOnce, StoryLocked
  <1> QED
    BY <1>1, <1>2, <1>4, <1>5 DEF StoryInv

\* No transaction is left open.
LEMMA EmptyTransaction ==
  ASSUME NEW c \in Clusterers, job'[c].pc # "adding", job'[c].todo = << >>,
         job'[c].snapshot = Nothing, job'[c].wrote = Nothing, job'[c].rows = Nothing
  PROVE  /\ Transaction(c)'
         /\ \A x \in Articles : ~Adds(c, x)' /\ ~Locks(c, x)'
  <1>1. SnapshotOld(c)' /\ WroteOwn(c)' /\ Goes(c)' /\ RowsOwn(c)' /\ RowsExact(c)'
    BY NothingIs DEF SnapshotOld, WroteOwn, Goes, RowsOwn, RowsExact
  <1>2. TodoFree(c)'
    BY DEF TodoFree
  <1>3. \A x \in Articles : ~Adds(c, x)' /\ ~Locks(c, x)'
    BY NothingIs DEF Adds, Locks, Writes
  <1> QED
    BY <1>1, <1>2, <1>3 DEF Transaction

LEMMA RestKeepsStories ==
  ASSUME TypeInv, StoryInv, NEW c \in Clusterers, TryLock(c) \/ Leaves(c)
  PROVE  StoryInv'
  <1>1. (GoesIdle(c) \/ GoesBetween(c, 0)) /\ UNCHANGED Tables
    BY LockFacts, LeavesFacts DEF TypeInv
  <1>2. /\ job'[c].pc # "adding" /\ job'[c].todo = << >> /\ job'[c].snapshot = Nothing
        /\ job'[c].wrote = Nothing /\ job'[c].rows = Nothing
        /\ \A o \in Clusterers : o # c => job'[o] = job[o]
    BY <1>1 DEF GoesIdle, GoesBetween, Turns
  <1>3. Transaction(c)' /\ \A x \in Articles : ~Adds(c, x)' /\ ~Locks(c, x)'
    BY <1>2, EmptyTransaction
  <1> QED
    BY <1>1, <1>2, <1>3, OneActs

LEMMA OpenKeepsStories ==
  ASSUME TypeInv, StoryInv, NEW c \in Clusterers, OpenBatch(c)
  PROVE  StoryInv'
  <1> DEFINE batch == OldestPending(BatchSize(c))
  <1>1. /\ Turns(c, "batch", job[c].clustered, batch, Pending # {}, member, job[c].wrote,
                 job[c].rows, job[c].target)
        /\ job[c].pc = "between" /\ (Limit[c] # NoLimit => job[c].clustered < Limit[c])
        /\ UNCHANGED Tables
    BY OpenFacts DEF TypeInv
  <1>2. BatchSize(c) \in Nat /\ stored \subseteq Articles
    BY <1>1, BatchSizeIs DEF TypeInv, TypeOK
  <1>3. /\ batch \in Seq(Pending)
        /\ \A i, j \in DOMAIN batch : batch[i] = batch[j] => i = j
    BY <1>2, BatchIsDistinct
  <1> HIDE DEF batch
  <1>4. \A i \in DOMAIN batch : batch[i] \in Articles /\ member[batch[i]] = None
    BY <1>2, <1>3 DEF Pending
  <1>5. /\ job'[c].pc = "batch" /\ job'[c].todo = batch /\ job'[c].snapshot = member
        /\ job'[c].wrote = Nothing /\ job'[c].rows = Nothing /\ member' = member
        /\ \A o \in Clusterers : o # c => job'[o] = job[o]
    BY <1>1 DEF Turns, TypeInv, Shape, RestHasNothing, Tables
  <1>6. SnapshotOld(c)'
    BY <1>5 DEF SnapshotOld, StoryInv, FoundersIn
  <1>7. TodoFree(c)'
    BY <1>3, <1>4, <1>5, OverlayIs, NothingIs DEF TodoFree, View
  <1>8. WroteOwn(c)' /\ Goes(c)' /\ RowsOwn(c)' /\ RowsExact(c)'
    BY <1>5, NothingIs DEF WroteOwn, Goes, RowsOwn, RowsExact
  <1>9. \A x \in Articles : ~Adds(c, x)' /\ ~Locks(c, x)'
    BY <1>5, NothingIs DEF Adds, Locks, Writes
  <1> QED
    BY <1>1, <1>5, <1>6, <1>7, <1>8, <1>9, OneActs DEF Transaction

LEMMA SeenIs ==
  ASSUME TypeInv, NEW c \in Clusterers
  PROVE  /\ \A x \in Articles :
               /\ View(c)[x] = IF job[c].wrote[x] # None THEN job[c].wrote[x]
                                                        ELSE job[c].snapshot[x]
               /\ View(c)[x] \in Articles \cup {None} /\ member[x] \in Articles \cup {None}
               /\ job[c].wrote[x] \in Articles \cup {None}
               /\ job[c].snapshot[x] \in Articles \cup {None}
         /\ \A x : x \in Articles => x # None
  <1>1. job[c].snapshot \in Memberships /\ job[c].wrote \in Memberships
    BY JobsAre DEF TypeInv, Typed
  <1> QED
    BY <1>1, OverlayIs, ArticlesAssumption DEF View, Memberships, TypeInv, TypeOK

LEMMA AfterIs ==
  ASSUME NEW c \in Clusterers
  PROVE  \A x \in Articles : After(c)[x] = IF Own(c)[x] # None THEN Own(c)[x] ELSE member[x]
  BY OverlayIs DEF After

\* The story of a member that a transaction sees is one it sees, in its language.
LEMMA StoryOfSeen ==
  ASSUME TypeInv, StoryInv, NEW c \in Clusterers, NEW b \in Articles, View(c)[b] # None
  PROVE  /\ View(c)[b] \in Articles /\ View(c)[View(c)[b]] = View(c)[b]
         /\ Lang[View(c)[b]] = Lang[b]
  <1>1. SnapshotOld(c) /\ WroteOwn(c) /\ FoundersIn
    BY DEF StoryInv, Transaction
  <1>2. CASE job[c].wrote[b] # None
    BY <1>1, <1>2, SeenIs DEF WroteOwn
  <1>3. CASE job[c].wrote[b] = None
    <2> DEFINE s == job[c].snapshot[b]
    <2>1. View(c)[b] = s /\ s \in Articles /\ member[b] = s /\ job[c].snapshot[s] = s
      BY <1>1, <1>3, SeenIs DEF SnapshotOld
    <2>2. member[s] = s /\ Lang[s] = Lang[b]
      BY <1>1, <2>1, SeenIs DEF FoundersIn
    <2>3. job[c].wrote[s] = None
      BY <1>1, <2>1, <2>2, SeenIs DEF WroteOwn
    <2> QED
      BY <2>1, <2>2, <2>3, SeenIs
  <1> QED
    BY <1>2, <1>3

\* assign writes a row and says where the article at the head goes.
Assigns(c, story, row) ==
    /\ job'[c].pc = "adding" /\ job'[c].todo = job[c].todo
    /\ job'[c].snapshot = job[c].snapshot /\ job'[c].wrote = job[c].wrote
    /\ job'[c].rows = [job[c].rows EXCEPT ![story] = row] /\ job'[c].target = story
    /\ job[c].pc = "batch" /\ job[c].todo # << >> /\ UNCHANGED Tables
    /\ \A o \in Clusterers : o # c => job'[o] = job[o]

LEMMA AssignKeepsStories ==
  ASSUME TypeInv, StoryInv, NEW c \in Clusterers, NEW a \in Articles, a = Head(job[c].todo),
         NEW story \in Articles, NEW row, Assigns(c, story, row),
         Lang[story] = Lang[a], story = a \/ View(c)[story] = story,
         job[c].snapshot[story] # None => ~StoryLocked(c, story),
         member[a] = None => Sums(row, story, In(After(c), story) \cup {a})
  PROVE  StoryInv'
  <1>1. /\ SnapshotOld(c) /\ TodoFree(c) /\ WroteOwn(c) /\ RowsOwn(c) /\ RowsExact(c)
        /\ View(c)[a] = None
    BY HeadAndTail DEF StoryInv, Transaction, TodoFree, TypeInv, Assigns
  <1>2. /\ job'[c].rows[story] = row
        /\ \A s \in Articles \ {story} : job'[c].rows[s] = job[c].rows[s]
    <2>1. job[c].rows \in Books
      BY JobsAre DEF TypeInv, Typed
    <2> QED
      BY <2>1 DEF Assigns, Books
  <1>3. View(c)' = View(c) /\ member' = member
    BY DEF Assigns, View, Tables
  <1>4. SnapshotOld(c)' /\ TodoFree(c)' /\ WroteOwn(c)'
    BY <1>1, <1>3 DEF SnapshotOld, TodoFree, WroteOwn, Assigns
  <1>5. Goes(c)' /\ RowsOwn(c)'
    BY <1>1, <1>2, <1>3 DEF Goes, RowsOwn, Assigns
  <1>6. /\ Own(c) = job[c].wrote /\ Own(c)' = [job[c].wrote EXCEPT ![a] = story]
        /\ job[c].wrote \in Memberships /\ job[c].wrote[a] = None
    BY <1>1, SeenIs, JobsAre DEF Own, Assigns, TypeInv, Typed
  <1>7. RowsExact(c)'
    <2> SUFFICES ASSUME member[a] = None, NEW s \in Articles, job'[c].rows[s] # None
                 PROVE  Sums(job'[c].rows[s], s, In(After(c)', s))
      BY <1>3 DEF RowsExact, Doomed, Assigns
    <2>1. \A x \in Articles : After(c)'[x] = IF x = a THEN story ELSE After(c)[x]
      <3>1. \A x \in Articles :
                After(c)'[x] = IF Own(c)'[x] # None THEN Own(c)'[x] ELSE member[x]
        BY <1>3, OverlayIs DEF After
      <3>2. Own(c)'[a] = story /\ \A x \in Articles \ {a} : Own(c)'[x] = Own(c)[x]
        BY <1>6 DEF Memberships
      <3> QED
        BY <3>1, <3>2, AfterIs, SeenIs
    <2>2. After(c)[a] = None
      BY <1>6, AfterIs
    <2>3. In(After(c)', s) = IF s = story THEN In(After(c), s) \cup {a} ELSE In(After(c), s)
      BY <2>1, <2>2, SeenIs DEF In
    <2>4. ~Doomed(c)
      BY DEF Doomed, Assigns
    <2> QED
      BY <1>1, <1>2, <2>3, <2>4 DEF RowsExact
  <1>8. \A x \in Articles : Adds(c, x)' => Adds(c, x)
    BY DEF Adds, Assigns
  <1>9. \A s \in Articles : Locks(c, s)' => Locks(c, s) \/ ~StoryLocked(c, s)
    BY <1>2 DEF Locks, Writes, Assigns
  <1>10. UNCHANGED Tables /\ \A o \in Clusterers : o # c => job'[o] = job[o]
    BY DEF Assigns
  <1>11. Transaction(c)'
    BY <1>4, <1>5, <1>7 DEF Transaction
  <1> QED
    BY <1>8, <1>9, <1>10, <1>11, OneActs

LEMMA FoundKeepsStories ==
  ASSUME TypeInv, StoryInv, NEW c \in Clusterers, FoundStory(c)
  PROVE  StoryInv'
  <1> DEFINE a == Head(job[c].todo)
  <1>1. Assigns(c, a, Founded(a)) /\ a \in Articles
    BY FoundFacts, HeadAndTail DEF TypeInv, Turns, Assigns
  <1>2. View(c)[a] = None
    BY <1>1, HeadAndTail DEF StoryInv, Transaction, TodoFree, TypeInv, Assigns
  <1>3. job[c].snapshot[a] = None
    BY <1>1, <1>2, SeenIs
  <1>4. ASSUME member[a] = None PROVE In(After(c), a) = {}
    <2>1. \A x \in Articles : member[x] # a /\ job[c].wrote[x] # a
      BY <1>1, <1>2, <1>4, SeenIs DEF StoryInv, FoundersIn, Transaction, WroteOwn
    <2>2. Own(c) = job[c].wrote
      BY <1>1 DEF Own, Assigns
    <2> QED
      BY <2>1, <2>2, AfterIs DEF In
  <1>5. member[a] = None => Sums(Founded(a), a, In(After(c), a) \cup {a})
    BY <1>1, <1>4, FoundedSums
  <1> QED
    BY <1>1, <1>3, <1>5, AssignKeepsStories

LEMMA JoinKeepsStories ==
  ASSUME TypeInv, StoryInv, NEW c \in Clusterers, JoinStory(c)
  PROVE  StoryInv'
  <1> DEFINE a == Head(job[c].todo)
  <1>1. PICK b \in Articles : JoinsVia(c, b)
    BY JoinFacts DEF TypeInv
  <1> DEFINE story == View(c)[b]
             read == RowForUpdate(c, story)
             M == In(After(c), story)
  <1>2. Assigns(c, story, Joined(read, a)) /\ a \in Articles
    BY <1>1, JoinFacts, HeadAndTail DEF TypeInv, JoinsVia, Turns, Assigns
  <1>3. View(c)[b] # None /\ Lang[b] = Lang[a] /\ ~StoryLocked(c, story)
    BY <1>1 DEF JoinsVia, Matching
  <1>4. story \in Articles /\ View(c)[story] = story /\ Lang[story] = Lang[a]
    BY <1>3, StoryOfSeen
  <1>5. read \in StoryRows
    BY <1>3, RowReadTyped
  <1>6. View(c)[a] = None
    BY <1>2, HeadAndTail DEF StoryInv, Transaction, TodoFree, TypeInv, Assigns
  <1>7. Own(c) = job[c].wrote /\ ~Doomed(c)
    BY <1>2 DEF Own, Doomed, Assigns
  <1> HIDE DEF story
  <1>8. Sums(read, story, M)
    <2>1. CASE job[c].rows[story] # None
      <3>1. read = job[c].rows[story]
        BY <2>1 DEF RowForUpdate, Writes
      <3> QED
        BY <1>4, <1>7, <2>1, <3>1 DEF StoryInv, Transaction, RowsExact
    <2>2. CASE job[c].rows[story] = None
      <3>1. read = stories[story]
        BY <2>2 DEF RowForUpdate, Writes
      <3>2. \A x \in Articles : job[c].wrote[x] # story
        BY <1>4, <2>2, SeenIs DEF TypeInv, Shape, RowsBehind
      <3>3. member[story] = story
        BY <1>4, <3>2, SeenIs DEF StoryInv, Transaction, SnapshotOld
      <3>4. M = In(member, story)
        BY <1>4, <1>7, <3>2, AfterIs, SeenIs DEF In, StoryInv, Transaction, WroteOwn
      <3>5. In(member, story) # {}
        BY <1>4, <3>3 DEF In
      <3> QED
        BY <1>4, <3>1, <3>4, <3>5 DEF StoryInv, BookExact
    <2> QED
      BY <2>1, <2>2
  <1>9. ASSUME member[a] = None PROVE Sums(Joined(read, a), story, M \cup {a})
    <2>1. a \notin M /\ M \in SUBSET Articles
      BY <1>2, <1>4, <1>6, <1>7, <1>9, AfterIs, SeenIs DEF In
    <2> HIDE DEF M, read
    <2> QED
      BY <1>2, <1>4, <1>5, <1>8, <2>1, JoinedSums
  <1> QED
    BY <1>2, <1>3, <1>4, <1>9, AssignKeepsStories

LEMMA AddKeepsStories ==
  ASSUME TypeInv, StoryInv, NEW c \in Clusterers, AddMember(c)
  PROVE  StoryInv'
  <1> DEFINE a == Head(job[c].todo)
             target == job[c].target
             rest == Tail(job[c].todo)
  <1>1. /\ Turns(c, "batch", job[c].clustered + 1, rest, job[c].found, job[c].snapshot,
                 [job[c].wrote EXCEPT ![a] = target], job[c].rows, None)
        /\ job[c].pc = "adding" /\ member[a] = None /\ ~MemberLocked(c, a)
        /\ UNCHANGED Tables
    BY AddFacts DEF TypeInv
  <1>2. /\ job[c].todo # << >> /\ target \in Articles /\ a \in Articles
        /\ job[c].wrote \in Memberships
    BY <1>1, JobsAre, HeadAndTail DEF TypeInv, Shape, RestHasNothing, Typed
  <1>3. /\ SnapshotOld(c) /\ TodoFree(c) /\ WroteOwn(c) /\ RowsOwn(c) /\ RowsExact(c)
        /\ View(c)[a] = None /\ Lang[target] = Lang[a]
        /\ target = a \/ View(c)[target] = target
    BY <1>1, <1>2, HeadAndTail DEF StoryInv, Transaction, TodoFree, TypeInv, Goes
  <1>4. /\ job'[c].pc = "batch" /\ job'[c].todo = rest /\ job'[c].rows = job[c].rows
        /\ job'[c].snapshot = job[c].snapshot
        /\ job'[c].wrote = [job[c].wrote EXCEPT ![a] = target]
        /\ \A o \in Clusterers : o # c => job'[o] = job[o]
    BY <1>1 DEF Turns
  <1>5. /\ job'[c].wrote[a] = target
        /\ \A x \in Articles \ {a} : job'[c].wrote[x] = job[c].wrote[x]
    BY <1>2, <1>4 DEF Memberships
  <1>6. \A x \in Articles : View(c)'[x] = IF x = a THEN target ELSE View(c)[x]
    <2>1. \A x \in Articles : View(c)'[x] = IF job'[c].wrote[x] # None THEN job'[c].wrote[x]
                                            ELSE job'[c].snapshot[x]
      BY OverlayIs DEF View
    <2> QED
      BY <1>2, <1>4, <1>5, <2>1, SeenIs
  <1>7. SnapshotOld(c)'
    BY <1>1, <1>3, <1>4 DEF SnapshotOld, Tables
  <1>8. TodoFree(c)'
    <2> DEFINE n == Len(job[c].todo)
    <2>1. /\ n \in Nat \ {0} /\ a = job[c].todo[1] /\ DOMAIN job[c].todo = 1..n
          /\ rest \in Seq(Articles) /\ DOMAIN rest = 1..(n - 1)
          /\ \A i \in 1..(n - 1) : rest[i] = job[c].todo[i + 1]
      BY <1>2, HeadAndTail, JobsAre DEF TypeInv, Typed
    <2>2. ASSUME NEW i \in 1..(n - 1)
          PROVE  rest[i] # a /\ rest[i] \in Articles /\ View(c)[rest[i]] = None
      BY <1>3, <2>1 DEF TodoFree
    <2>3. ASSUME NEW i \in 1..(n - 1), NEW j \in 1..(n - 1), rest[i] = rest[j] PROVE i = j
      <3>1. i + 1 = j + 1
        BY <1>3, <2>1, <2>3 DEF TodoFree
      <3> QED
        BY <2>1, <3>1
    <2> HIDE DEF rest
    <2> QED
      BY <1>4, <1>6, <2>1, <2>2, <2>3 DEF TodoFree
  <1>9. WroteOwn(c)'
    BY <1>1, <1>2, <1>3, <1>5, <1>6, SeenIs DEF WroteOwn, Tables
  <1>10. Goes(c)' /\ RowsOwn(c)'
    BY <1>1, <1>2, <1>3, <1>4, <1>6, SeenIs DEF Goes, RowsOwn
  <1>11. RowsExact(c)'
    <2>1. Own(c)' = Own(c)
      BY <1>1, <1>4 DEF Own
    <2>2. After(c)' = After(c) /\ ~Doomed(c)
      BY <1>1, <2>1 DEF After, Doomed, Tables
    <2> QED
      BY <1>3, <1>4, <2>2 DEF RowsExact
  <1>12. \A x \in Articles : Adds(c, x)' => Adds(c, x) \/ ~MemberLocked(c, x)
    BY <1>1, <1>5 DEF Adds
  <1>13. \A s \in Articles : Locks(c, s)' => Locks(c, s)
    BY <1>4 DEF Locks, Writes
  <1>14. Transaction(c)'
    BY <1>7, <1>8, <1>9, <1>10, <1>11 DEF Transaction
  <1> QED
    BY <1>1, <1>4, <1>12, <1>13, <1>14, OneActs

-----------------------------------------------------------------------------
(* A commit.                                                               *)

\* The tables a commit leaves behind.
Commits(c) ==
    /\ \A x \in Articles :
           member'[x] = IF job[c].wrote[x] # None THEN job[c].wrote[x] ELSE member[x]
    /\ \A s \in Articles :
           stories'[s] = IF job[c].rows[s] # None THEN job[c].rows[s] ELSE stories[s]
    /\ Own(c) = job[c].wrote /\ ~Doomed(c) /\ job[c].pc = "batch"
    /\ \A o \in Clusterers : o # c => job'[o] = job[o]

LEMMA CommitLeaves ==
  ASSUME TypeInv, NEW c \in Clusterers, CommitBatch(c)
  PROVE  Commits(c) /\ GoesBetween(c, job[c].clustered)
  <1>1. /\ GoesBetween(c, job[c].clustered) /\ job[c].pc = "batch"
        /\ member' = Overlay(member, job[c].wrote) /\ stories' = Overlay(stories, job[c].rows)
    BY CommitFacts DEF TypeInv
  <1>2. \A o \in Clusterers : o # c => job'[o] = job[o]
    BY <1>1 DEF GoesBetween, Turns
  <1> QED
    BY <1>1, <1>2, OverlayIs DEF Commits, Own, Doomed

\* What a commit adds to a story that has a row already.
LEMMA WritesBehind ==
  ASSUME TypeInv, StoryInv, NEW c \in Clusterers, Commits(c), NEW x \in Articles,
         job[c].wrote[x] # None
  PROVE  /\ job[c].wrote[x] \in Articles /\ job[c].rows[job[c].wrote[x]] # None
         /\ View(c)[job[c].wrote[x]] = job[c].wrote[x] /\ Lang[job[c].wrote[x]] = Lang[x]
         /\ member'[job[c].wrote[x]] = job[c].wrote[x] /\ member[x] = None
  <1> DEFINE s == job[c].wrote[x]
  <1>1. /\ s \in Articles /\ job[c].rows[s] # None /\ member[x] = None
        /\ View(c)[s] = s /\ Lang[s] = Lang[x]
    BY SeenIs DEF TypeInv, Shape, RowsBehind, StoryInv, Transaction, WroteOwn
  <1>2. member'[s] = s
    BY <1>1, SeenIs DEF Commits, StoryInv, Transaction, SnapshotOld
  <1> QED
    BY <1>1, <1>2

LEMMA CommitKeepsTables ==
  ASSUME TypeInv, StoryInv, NEW c \in Clusterers, Commits(c)
  PROVE  FoundersIn' /\ BookExact'
  <1>1. FoundersIn'
    <2> SUFFICES ASSUME NEW x \in Articles, member'[x] # None
                 PROVE  member'[member'[x]] = member'[x] /\ Lang[member'[x]] = Lang[x]
      BY DEF FoundersIn
    <2>1. CASE job[c].wrote[x] # None
      BY <2>1, WritesBehind DEF Commits
    <2>2. CASE job[c].wrote[x] = None
      <3> DEFINE s == member[x]
      <3>1. member'[x] = s /\ s \in Articles /\ member[s] = s /\ Lang[s] = Lang[x]
        BY <2>2, SeenIs DEF Commits, StoryInv, FoundersIn
      <3>2. job[c].wrote[s] = None
        BY <3>1, SeenIs DEF StoryInv, Transaction, WroteOwn
      <3> QED
        BY <3>1, <3>2 DEF Commits
    <2> QED
      BY <2>1, <2>2
  <1>2. BookExact'
    <2> SUFFICES ASSUME NEW s \in Articles
                 PROVE  IF In(member', s) = {} THEN stories'[s] = None
                        ELSE Sums(stories'[s], s, In(member', s))
      BY DEF BookExact
    <2>1. CASE job[c].rows[s] # None
      <3>1. In(After(c), s) = In(member', s)
        BY AfterIs DEF Commits, In
      <3>2. Sums(stories'[s], s, In(member', s))
        BY <2>1, <3>1 DEF Commits, StoryInv, Transaction, RowsExact
      <3>3. View(c)[s] = s
        BY <2>1 DEF Commits, StoryInv, Transaction, RowsOwn
      <3>4. member'[s] = s
        BY <3>3, SeenIs DEF Commits, StoryInv, Transaction, SnapshotOld
      <3> QED
        BY <3>2, <3>4 DEF In
    <2>2. CASE job[c].rows[s] = None
      <3>1. In(member', s) = In(member, s)
        BY <2>2, WritesBehind, SeenIs DEF Commits, In
      <3> QED
        BY <2>2, <3>1 DEF Commits, StoryInv, BookExact
    <2> QED
      BY <2>1, <2>2
  <1> QED
    BY <1>1, <1>2

\* Another transaction's view and rows stand: what it has locked was not changed.
LEMMA CommitKeepsOthers ==
  ASSUME TypeInv, StoryInv, NEW c \in Clusterers, Commits(c), NEW o \in Clusterers, o # c
  PROVE  Transaction(o)'
  <1>1. job'[o] = job[o] /\ Transaction(o) /\ AddsOnce /\ LocksOnce
    BY DEF Commits, StoryInv
  <1>2. /\ View(o)' = View(o) /\ Own(o)' = Own(o)
        /\ TodoFree(o)' /\ Goes(o)' /\ RowsOwn(o)'
    BY <1>1, StandingJob DEF Transaction
  <1>3. SnapshotOld(o)'
    BY <1>1, WritesBehind DEF Transaction, SnapshotOld, Commits
  <1>4. WroteOwn(o)'
    <2>1. \A x \in Articles : job[o].wrote[x] # None => job[c].wrote[x] = None
      BY <1>1 DEF AddsOnce, Adds
    <2> QED
      BY <1>1, <1>2, <2>1 DEF Transaction, WroteOwn, Commits
  <1>5. RowsExact(o)'
    <2> DEFINE h == Head(job[o].todo)
    <2> SUFFICES ASSUME ~Doomed(o)', NEW s \in Articles, job[o].rows[s] # None
                 PROVE  Sums(job[o].rows[s], s, In(After(o)', s))
      BY <1>1 DEF RowsExact
    <2>1. job[o].pc = "adding" => h \in Articles /\ member'[h] = None /\ member[h] = None
      BY <1>1, HeadAndTail, WritesBehind DEF Doomed, TypeInv, Shape, RestHasNothing, Commits
    <2>2. ~Doomed(o)
      BY <2>1 DEF Doomed
    <2>3. ASSUME NEW x \in Articles, job[c].wrote[x] = s PROVE FALSE
      <3>1. job[c].rows[s] # None /\ View(c)[s] = s /\ member'[s] = s
        BY <2>3, SeenIs, WritesBehind
      <3>2. View(o)[s] = s
        BY <1>1, <2>1, <3>1, SeenIs DEF Transaction, RowsOwn
      <3>3. CASE job[o].wrote[s] # None
        <4>1. member[s] = None /\ job[c].wrote[s] = None
          BY <1>1, <3>3 DEF Transaction, WroteOwn, AddsOnce, Adds
        <4> QED
          BY <3>1, <4>1, SeenIs DEF Commits
      <3>4. CASE job[o].wrote[s] = None
        <4>1. job[o].snapshot[s] # None /\ member[s] # None
          BY <1>1, <3>2, <3>4, SeenIs DEF Transaction, SnapshotOld
        <4>2. job[c].snapshot[s] # None
          BY <3>1, <4>1, SeenIs, WritesBehind
        <4> QED
          BY <1>1, <3>1, <4>1, <4>2 DEF LocksOnce, Locks, Writes
      <3> QED
        BY <3>3, <3>4
    <2>4. \A x \in Articles : After(o)'[x] = IF Own(o)[x] # None THEN Own(o)[x] ELSE member'[x]
      BY <1>2, OverlayIs DEF After
    <2>5. In(After(o)', s) = In(After(o), s)
      BY <2>3, <2>4, AfterIs, WritesBehind, SeenIs DEF Commits, In
    <2> QED
      BY <1>1, <2>2, <2>5 DEF Transaction, RowsExact
  <1> QED
    BY <1>2, <1>3, <1>4, <1>5 DEF Transaction

LEMMA CommitKeepsStories ==
  ASSUME TypeInv, StoryInv, NEW c \in Clusterers, CommitBatch(c)
  PROVE  StoryInv'
  <1>1. Commits(c) /\ GoesBetween(c, job[c].clustered)
    BY CommitLeaves
  <1>2. Transaction(c)' /\ \A x \in Articles : ~Adds(c, x)' /\ ~Locks(c, x)'
    BY <1>1, EmptyTransaction DEF GoesBetween, Turns
  <1>3. \A o \in Clusterers \ {c}, x \in Articles :
            (Adds(o, x)' <=> Adds(o, x)) /\ (Locks(o, x)' <=> Locks(o, x))
    BY <1>1, StandingJob DEF Commits
  <1>4. AddsOnce' /\ LocksOnce'
    BY <1>2, <1>3 DEF StoryInv, AddsOnce, LocksOnce
  <1> QED
    BY <1>1, <1>2, <1>4, CommitKeepsTables, CommitKeepsOthers DEF StoryInv

LEMMA InitStories == Init => StoryInv
  <1> SUFFICES ASSUME Init PROVE StoryInv
    OBVIOUS
  <1>1. ASSUME NEW c \in Clusterers
        PROVE  Transaction(c) /\ \A x \in Articles : ~Adds(c, x) /\ ~Locks(c, x)
    <2>1. /\ job[c].pc = "idle" /\ job[c].todo = << >> /\ job[c].snapshot = Nothing
          /\ job[c].wrote = Nothing /\ job[c].rows = Nothing
      BY DEF Init, Idle
    <2>2. SnapshotOld(c) /\ WroteOwn(c) /\ Goes(c) /\ RowsOwn(c) /\ RowsExact(c)
      BY <2>1, NothingIs DEF SnapshotOld, WroteOwn, Goes, RowsOwn, RowsExact
    <2>3. TodoFree(c)
      BY <2>1 DEF TodoFree
    <2> QED
      BY <2>1, <2>2, <2>3, NothingIs DEF Transaction, Adds, Locks, Writes
  <1>2. FoundersIn /\ BookExact
    BY NothingIs, ArticlesAssumption DEF Init, FoundersIn, BookExact, In
  <1> QED
    BY <1>1, <1>2 DEF StoryInv, AddsOnce, LocksOnce

LEMMA NextStories == TypeInv /\ StoryInv /\ [Next]_vars => StoryInv'
  <1> SUFFICES ASSUME TypeInv, StoryInv, [Next]_vars PROVE StoryInv'
    OBVIOUS
  <1>1. ASSUME UNCHANGED <<member, stories, job>> PROVE StoryInv'
    <2>1. \A c \in Clusterers : Transaction(c)' /\ \A x \in Articles :
              (Adds(c, x)' <=> Adds(c, x)) /\ (Locks(c, x)' <=> Locks(c, x))
      <3> SUFFICES ASSUME NEW c \in Clusterers PROVE Transaction(c)'
        BY <1>1, StandingJob
      <3>1. View(c)' = View(c) /\ After(c)' = After(c) /\ (Doomed(c)' <=> Doomed(c))
        BY <1>1 DEF View, After, Own, Doomed
      <3> QED
        BY <1>1, <3>1, StandingJob
        DEF StoryInv, Transaction, SnapshotOld, WroteOwn, RowsExact
    <2> QED
      BY <1>1, <2>1 DEF StoryInv, FoundersIn, BookExact, AddsOnce, LocksOnce
  <1>2. ASSUME NEW c \in Clusterers, LoseLock(c) PROVE StoryInv'
    BY <1>1, <1>2 DEF LoseLock
  <1>3. ASSUME NEW a \in Articles, Store(a) PROVE StoryInv'
    BY <1>1, <1>3 DEF Store
  <1>4. CASE UNCHANGED vars
    BY <1>1, <1>4 DEF vars
  <1> QED
    BY <1>2, <1>3, <1>4, RestKeepsStories, OpenKeepsStories, FoundKeepsStories,
       JoinKeepsStories, AddKeepsStories, CommitKeepsStories
    DEF Next, Step, Leaves

LEMMA StoriesInvariant == Spec => [](TypeInv /\ StoryInv)
  BY InitTyped, NextTyped, InitStories, NextStories, PTL DEF Spec

\* Only a commit changes the tables, and it groups articles.
Summed == [a \in Articles |-> Row(a)] = Promise!Summaries(member)

LEMMA CommitGroups ==
  ASSUME TypeInv, StoryInv, NEW c \in Clusterers, CommitBatch(c), Summed'
  PROVE  Promise!Group
  <1>1. Commits(c) /\ FoundersIn'
    BY CommitLeaves, CommitKeepsTables
  <1>2. ASSUME NEW a \in Articles, member'[a] # member[a]
        PROVE  /\ member[a] = None /\ member'[a] \in Articles
               /\ member'[member'[a]] = member'[a] /\ Lang[a] = Lang[member'[a]]
    BY <1>1, <1>2, WritesBehind DEF Commits
  <1> QED
    BY <1>2 DEF Promise!Group, Summed

LEMMA NextGroups ==
  TypeInv /\ StoryInv /\ Summed' /\ [Next]_vars
      => [Promise!Group]_<<member, [a \in Articles |-> Row(a)]>>
  <1> SUFFICES ASSUME TypeInv, StoryInv, Summed', [Next]_vars,
                      ~Promise!Group
               PROVE  UNCHANGED <<member, [a \in Articles |-> Row(a)]>>
    OBVIOUS
  <1>1. UNCHANGED <<member, stories>>
    <2>1. \A c \in Clusterers : ~CommitBatch(c)
      BY CommitGroups
    <2>2. ASSUME NEW c \in Clusterers, TryLock(c) \/ OpenBatch(c) \/ FoundStory(c)
                    \/ JoinStory(c) \/ AddMember(c) \/ Leaves(c) \/ LoseLock(c)
          PROVE  UNCHANGED <<member, stories>>
      BY <2>2, LockFacts, OpenFacts, FoundFacts, JoinFacts, AddFacts, LeavesFacts
      DEF TypeInv, Tables, LoseLock
    <2>3. ASSUME NEW a \in Articles, Store(a) PROVE UNCHANGED <<member, stories>>
      BY <2>3 DEF Store
    <2>4. CASE UNCHANGED vars
      BY <2>4 DEF vars
    <2> QED
      BY <2>1, <2>2, <2>3, <2>4 DEF Next, Step, Leaves
  <1> QED
    BY <1>1 DEF Row, Listed

LEMMA InitGroups == Init /\ Summed => Promise!Init
  BY DEF Init, Summed, Promise!Init, Nothing

\* Seen through the committed tables, batches are whole, an article never
\* changes its story, and every story_clusters row counts and dates exactly its
\* members: whatever clusterers overlap, and however batches fail.
THEOREM ClusteringImplementsStoryBook == Spec => ImplementsStoryBook
  <1>1. TypeInv /\ StoryInv => Summed
    BY BookIsSummaries DEF TypeInv, StoryInv, Summed
  <1> QED
    BY <1>1, InitGroups, NextGroups, StoriesInvariant, PTL
    DEF Spec, ImplementsStoryBook, Promise!Spec

-----------------------------------------------------------------------------
(* Stories only grow: a consequence of the refinement and of exact rows.    *)

StoryGrows(s) ==
    /\ In(member, s) \subseteq In(member, s)'
    /\ stories[s] # None =>
          /\ stories'[s] # None /\ stories'[s].lang = stories[s].lang
          /\ stories'[s].article_count >= stories[s].article_count
          /\ stories'[s].first <= stories[s].first /\ stories'[s].last >= stories[s].last
          /\ \A o \in Outlets : Listed(stories[s], o) => Listed(stories'[s], o)
KeepsStories ==
    /\ \A a \in Articles : member[a] # None => member'[a] = member[a]
    /\ \A s \in Articles : StoryGrows(s)

LEMMA GroupsKeepStories ==
  ASSUME TypeInv, StoryInv, TypeInv', StoryInv', Summed', [Next]_vars
  PROVE  KeepsStories
  <1>1. [Promise!Group]_<<member, [a \in Articles |-> Row(a)]>>
    BY NextGroups
  <1>2. \A a \in Articles : member[a] # None => member'[a] = member[a]
    BY <1>1 DEF Promise!Group
  <1>3. ASSUME NEW s \in Articles PROVE StoryGrows(s)
    <2> DEFINE M == In(member, s)
               N == In(member', s)
    <2>1. M \subseteq N /\ M \in SUBSET Articles /\ N \in SUBSET Articles
      BY <1>2, ArticlesAssumption DEF In
    <2>2. CASE stories[s] = None
      BY <2>1, <2>2 DEF StoryGrows, In
    <2>3. CASE stories[s] # None
      <3>1. M # {} /\ Sums(stories[s], s, M)
        BY <2>3 DEF StoryInv, BookExact, In
      <3>2. N # {} /\ stories'[s] # None
        BY <2>1, <3>1, ArticlesAssumption DEF TypeInv, RowsBehind, In
      <3>3. Sums(stories'[s], s, N)
        BY <3>2 DEF StoryInv, BookExact, In
      <3>4. Cardinality(M) <= Cardinality(N)
        BY <2>1, MembersFinite, FS_Subset
      <3> HIDE DEF M, N
      <3>5. /\ stories'[s].first <= stories[s].first /\ stories'[s].last >= stories[s].last
            /\ stories'[s].lang = stories[s].lang
            /\ stories'[s].article_count >= stories[s].article_count
            /\ \A o \in Outlets : Listed(stories[s], o) => Listed(stories'[s], o)
        <4>1. \E a \in M : Published[a] = stories[s].first
          BY <3>1 DEF Sums
        <4>2. \E a \in M : Published[a] = stories[s].last
          BY <3>1 DEF Sums
        <4>3. \A a \in N : stories'[s].first <= Published[a] /\ stories'[s].last >= Published[a]
          BY <3>3 DEF Sums
        <4> QED
          BY <2>1, <3>1, <3>3, <3>4, <4>1, <4>2, <4>3 DEF Sums
      <3> QED
        BY <2>1, <3>2, <3>5 DEF StoryGrows, M, N, In
    <2> QED
      BY <2>2, <2>3
  <1> QED
    BY <1>2, <1>3 DEF KeepsStories

\* An article never leaves or changes its story, and a story that the API has
\* shown never shrinks: not its articles, their count, its sources or its span,
\* whatever clusterers overlap, and however batches fail (story_clusters,
\* article_clusters).
THEOREM StoriesOnlyGrow == Spec => [][KeepsStories]_vars
  <1>1. TypeInv /\ StoryInv => Summed
    BY BookIsSummaries DEF TypeInv, StoryInv, Summed
  <1>2. TypeInv /\ StoryInv /\ TypeInv' /\ StoryInv' /\ Summed' /\ [Next]_vars => KeepsStories
    BY GroupsKeepStories
  <1> QED
    BY <1>1, <1>2, StoriesInvariant, PTL DEF Spec

-----------------------------------------------------------------------------
(* Coherence: what a transaction joins, it joins by a member that it sees.  *)

Alike(x, y) ==
    Lang[y] = Lang[x] /\ Apart(x, y) <= Window /\ Score[x][y] >= Threshold
JoinsAlike(c) == \A x \in Articles :
    Own(c)[x] \notin {None, x} =>
        \E y \in Articles \ {x} : View(c)[y] = Own(c)[x] /\ Alike(x, y)
CoherentInv == Coherent /\ \A c \in Clusterers : JoinsAlike(c)

LEMMA AloneKeepsAlike ==
  ASSUME CoherentInv, NEW c \in Clusterers, \A o \in Clusterers : o # c => job'[o] = job[o],
         UNCHANGED member, JoinsAlike(c)'
  PROVE  CoherentInv'
  <1>1. \A o \in Clusterers : JoinsAlike(o)'
    BY StandingJob DEF CoherentInv, JoinsAlike
  <1> QED
    BY <1>1 DEF CoherentInv, Coherent

LEMMA NothingJoined ==
  ASSUME NEW c \in Clusterers, job'[c].pc # "adding", job'[c].wrote = Nothing
  PROVE  JoinsAlike(c)'
  BY NothingIs DEF JoinsAlike, Own

LEMMA RestKeepsAlike ==
  ASSUME TypeInv, CoherentInv, NEW c \in Clusterers, TryLock(c) \/ OpenBatch(c) \/ Leaves(c)
  PROVE  CoherentInv'
  <1>1. /\ job'[c].pc # "adding" /\ job'[c].wrote = Nothing /\ member' = member
        /\ \A o \in Clusterers : o # c => job'[o] = job[o]
    <2>1. CASE TryLock(c) \/ Leaves(c)
      BY <2>1, LockFacts, LeavesFacts DEF TypeInv, GoesIdle, GoesBetween, Turns, Tables
    <2>2. CASE OpenBatch(c)
      BY <2>2, OpenFacts DEF TypeInv, Shape, RestHasNothing, Turns, Tables
    <2> QED
      BY <2>1, <2>2
  <1> QED
    BY <1>1, NothingJoined, AloneKeepsAlike

LEMMA FoundKeepsAlike ==
  ASSUME TypeInv, CoherentInv, NEW c \in Clusterers, FoundStory(c)
  PROVE  CoherentInv'
  <1> DEFINE a == Head(job[c].todo)
  <1>1. Assigns(c, a, Founded(a)) /\ a \in Articles
    BY FoundFacts, HeadAndTail DEF TypeInv, Turns, Assigns
  <1>2. View(c)' = View(c) /\ Own(c)' = [Own(c) EXCEPT ![a] = a]
    BY <1>1 DEF Assigns, View, Own
  <1>3. Own(c) \in Memberships
    BY <1>1, JobsAre DEF TypeInv, Typed, Own, Assigns
  <1>4. JoinsAlike(c)'
    BY <1>1, <1>2, <1>3 DEF CoherentInv, JoinsAlike, Memberships
  <1> QED
    BY <1>1, <1>4, AloneKeepsAlike DEF Assigns, Tables

LEMMA JoinKeepsAlike ==
  ASSUME TypeInv, StoryInv, CoherentInv, NEW c \in Clusterers, JoinStory(c)
  PROVE  CoherentInv'
  <1> DEFINE a == Head(job[c].todo)
  <1>1. PICK b \in Articles : JoinsVia(c, b)
    BY JoinFacts DEF TypeInv
  <1> DEFINE story == View(c)[b]
  <1>2. Assigns(c, story, Joined(RowForUpdate(c, story), a)) /\ a \in Articles
    BY <1>1, JoinFacts, HeadAndTail DEF TypeInv, JoinsVia, Turns, Assigns
  <1>3. View(c)[a] = None
    BY <1>2, HeadAndTail DEF StoryInv, Transaction, TodoFree, TypeInv, Assigns
  <1>4. View(c)[b] # None /\ Alike(a, b)
    BY <1>1 DEF JoinsVia, Matching, Alike
  <1>5. View(c)' = View(c) /\ Own(c)' = [Own(c) EXCEPT ![a] = story]
    BY <1>2 DEF Assigns, View, Own
  <1>6. Own(c) \in Memberships
    BY <1>2, JobsAre DEF TypeInv, Typed, Own, Assigns
  <1>7. JoinsAlike(c)'
    BY <1>2, <1>3, <1>4, <1>5, <1>6 DEF CoherentInv, JoinsAlike, Memberships
  <1> QED
    BY <1>2, <1>7, AloneKeepsAlike DEF Assigns, Tables

LEMMA AddKeepsAlike ==
  ASSUME TypeInv, StoryInv, CoherentInv, NEW c \in Clusterers, AddMember(c)
  PROVE  CoherentInv'
  <1> DEFINE a == Head(job[c].todo)
  <1>1. /\ Turns(c, "batch", job[c].clustered + 1, Tail(job[c].todo), job[c].found,
                 job[c].snapshot, [job[c].wrote EXCEPT ![a] = job[c].target],
                 job[c].rows, None)
        /\ job[c].pc = "adding" /\ UNCHANGED Tables
    BY AddFacts DEF TypeInv
  <1>2. Own(c)' = Own(c) /\ \A o \in Clusterers : o # c => job'[o] = job[o]
    BY <1>1 DEF Own, Turns
  <1>3. a \in Articles /\ View(c)[a] = None /\ job[c].wrote \in Memberships
    BY <1>1, JobsAre, HeadAndTail
    DEF TypeInv, Shape, RestHasNothing, Typed, StoryInv, Transaction, TodoFree
  <1>4. \A y \in Articles : View(c)[y] # None => View(c)'[y] = View(c)[y]
    <2>1. \A y \in Articles : View(c)'[y] = IF job'[c].wrote[y] # None THEN job'[c].wrote[y]
                                            ELSE job'[c].snapshot[y]
      BY OverlayIs DEF View
    <2>2. \A y \in Articles \ {a} : job'[c].wrote[y] = job[c].wrote[y]
      BY <1>1, <1>3 DEF Turns, Memberships
    <2> QED
      BY <1>1, <1>3, <2>1, <2>2, SeenIs DEF Turns
  <1>5. JoinsAlike(c)'
    BY <1>2, <1>4 DEF CoherentInv, JoinsAlike
  <1> QED
    BY <1>1, <1>2, <1>5, AloneKeepsAlike DEF Tables

LEMMA CommitKeepsAlike ==
  ASSUME TypeInv, StoryInv, CoherentInv, NEW c \in Clusterers, CommitBatch(c)
  PROVE  CoherentInv'
  <1>1. Commits(c) /\ GoesBetween(c, job[c].clustered)
    BY CommitLeaves
  <1>2. ASSUME NEW y \in Articles, View(c)[y] # None PROVE member'[y] = View(c)[y]
    BY <1>1, <1>2, SeenIs DEF Commits, StoryInv, Transaction, SnapshotOld
  <1>3. Coherent'
    <2> SUFFICES ASSUME NEW x \in Articles, member'[x] \notin {None, x}
                 PROVE  \E y \in Articles \ {x} : member'[y] = member'[x] /\ Alike(x, y)
      BY DEF Coherent, Alike
    <2>1. CASE job[c].wrote[x] # None
      <3>1. member'[x] = Own(c)[x]
        BY <1>1, <2>1 DEF Commits
      <3>2. PICK y \in Articles \ {x} : View(c)[y] = Own(c)[x] /\ Alike(x, y)
        BY <3>1 DEF CoherentInv, JoinsAlike
      <3> QED
        BY <1>2, <3>1, <3>2
    <2>2. CASE job[c].wrote[x] = None
      <3>1. member'[x] = member[x]
        BY <1>1, <2>2 DEF Commits
      <3>2. PICK y \in Articles \ {x} : member[y] = member[x] /\ Alike(x, y)
        BY <3>1 DEF CoherentInv, Coherent, Alike
      <3>3. job[c].wrote[y] = None
        BY <3>1, <3>2 DEF StoryInv, Transaction, WroteOwn
      <3> QED
        BY <1>1, <3>1, <3>2, <3>3 DEF Commits
    <2> QED
      BY <2>1, <2>2
  <1>4. JoinsAlike(c)'
    BY <1>1, NothingJoined DEF GoesBetween, Turns
  <1>5. \A o \in Clusterers : JoinsAlike(o)'
    BY <1>1, <1>4, StandingJob DEF Commits, CoherentInv, JoinsAlike
  <1> QED
    BY <1>3, <1>5 DEF CoherentInv

LEMMA NextAlike == TypeInv /\ StoryInv /\ CoherentInv /\ [Next]_vars => CoherentInv'
  <1> SUFFICES ASSUME TypeInv, StoryInv, CoherentInv, [Next]_vars PROVE CoherentInv'
    OBVIOUS
  <1>1. ASSUME UNCHANGED <<member, job>> PROVE CoherentInv'
    BY <1>1 DEF CoherentInv, Coherent, JoinsAlike, Own, View
  <1>2. ASSUME NEW c \in Clusterers, LoseLock(c) PROVE CoherentInv'
    BY <1>1, <1>2 DEF LoseLock
  <1>3. ASSUME NEW a \in Articles, Store(a) PROVE CoherentInv'
    BY <1>1, <1>3 DEF Store
  <1>4. CASE UNCHANGED vars
    BY <1>1, <1>4 DEF vars
  <1> QED
    BY <1>2, <1>3, <1>4, RestKeepsAlike, FoundKeepsAlike, JoinKeepsAlike, AddKeepsAlike,
       CommitKeepsAlike
    DEF Next, Step, Leaves

\* stories.py assign: an article joins the story of a member of its language,
\* within WINDOW and over JOIN_THRESHOLD, and that member is still in the story
\* when the batch commits, whoever changed the story meanwhile.
THEOREM StoriesAreCoherent == Spec => []Coherent
  <1>1. Init => CoherentInv
    BY NothingIs DEF Init, Idle, CoherentInv, Coherent, JoinsAlike, Own
  <1>2. CoherentInv => Coherent
    BY DEF CoherentInv
  <1> QED
    BY <1>1, <1>2, NextAlike, StoriesInvariant, PTL DEF Spec

-----------------------------------------------------------------------------
(* One story per event, where LIMIT MAX_CANDIDATES cuts nothing.           *)

Candidates(a) == {b \in Articles : Lang[b] = Lang[a] /\ Apart(a, b) <= Window /\ Score[a][b] > 0}
NothingIsCut == \A a \in Articles : Cardinality(Candidates(a)) <= MaxCandidates

LEMMA WholeShortlist ==
  ASSUME NothingIsCut, NEW c \in Clusterers, NEW a \in Articles,
         NEW candidates, IsShortlist(candidates, Matching(c, a))
  PROVE  candidates = Matching(c, a)
  <1> DEFINE all == Matching(c, a)
  <1>1. all \in SUBSET Candidates(a) /\ Candidates(a) \in SUBSET Articles
    BY DEF Matching, Candidates
  <1>2. IsFiniteSet(Candidates(a)) /\ Cardinality(Candidates(a)) \in Nat
    BY <1>1, MembersFinite
  <1>3. MaxCandidates \in Nat /\ Cardinality(Candidates(a)) <= MaxCandidates
    BY DataAssumption DEF NothingIsCut
  <1>4. /\ candidates \in SUBSET all
        /\ Cardinality(candidates) =
               (IF Cardinality(all) < MaxCandidates THEN Cardinality(all) ELSE MaxCandidates)
    BY DEF IsShortlist
  <1> HIDE DEF all
  <1>5. /\ IsFiniteSet(all) /\ Cardinality(all) \in Nat
        /\ Cardinality(all) <= Cardinality(Candidates(a))
    BY <1>1, <1>2, FS_Subset, FS_CardinalityType
  <1>6. Cardinality(candidates) = Cardinality(all)
    BY <1>2, <1>3, <1>4, <1>5
  <1> QED
    BY <1>4, <1>5, <1>6, FS_Subset DEF all

\* Candidate d is tried before candidate b.
Before(a, d, b) ==
    Score[a][d] > Score[a][b] \/ (Score[a][d] = Score[a][b] /\ Published[d] > Published[b])

LEMMA SomeBest ==
  ASSUME NEW a \in Articles, NEW S \in SUBSET Articles,
         NEW y \in S, Score[a][y] >= Threshold
  PROVE  Best(a, S) # {}
  <1> DEFINE Ahead(b) == {d \in S : Before(a, d, b)}
             Good == {b \in S : Score[a][b] >= Threshold}
             Ranks == {Cardinality(Ahead(b)) : b \in Good}
  <1>1. \A b \in S : Score[a][b] \in Nat /\ Published[b] \in Nat /\ Threshold \in Nat
    BY DataAssumption
  <1>2. ASSUME NEW b \in S PROVE IsFiniteSet(Ahead(b)) /\ Cardinality(Ahead(b)) \in Nat
    BY MembersFinite
  <1>3. Ranks \in SUBSET Nat /\ Ranks # {}
    BY <1>2
  <1>4. \E k \in Ranks : \A n \in Ranks : <<n, k>> \notin OpToRel(<, Nat)
    BY <1>3, NatLessThanWellFounded, WFMin
  <1>5. PICK b \in Good : \A d \in Good :
             <<Cardinality(Ahead(d)), Cardinality(Ahead(b))>> \notin OpToRel(<, Nat)
    BY <1>4
  <1>6. ASSUME NEW d \in S, Before(a, d, b) PROVE FALSE
    <2>1. d \in Good
      BY <1>1, <1>6 DEF Before
    <2>2. Ahead(d) \in SUBSET Ahead(b) /\ d \in Ahead(b) /\ d \notin Ahead(d)
      BY <1>1, <1>6 DEF Before
    <2>3. Cardinality(Ahead(d)) <= Cardinality(Ahead(b))
          /\ Cardinality(Ahead(d)) # Cardinality(Ahead(b))
      BY <1>2, <2>2, FS_Subset
    <2>4. Cardinality(Ahead(d)) \in Nat /\ Cardinality(Ahead(b)) \in Nat
      BY <1>2
    <2> HIDE DEF Ahead
    <2>5. Cardinality(Ahead(d)) < Cardinality(Ahead(b))
      BY <2>3, <2>4
    <2> QED
      BY <1>5, <2>1, <2>4, <2>5 DEF OpToRel
  <1>7. b \in Best(a, S)
    BY <1>1, <1>6 DEF Best, Before
  <1> QED
    BY <1>7

\* An article founds a story only if it sees no member that reports its event.
LEMMA FounderIsNew ==
  ASSUME TypeInv, NothingIsCut, NEW c \in Clusterers, FoundStory(c), NEW y \in Articles,
         View(c)[y] # None
  PROVE  /\ ~SameEvent(Head(job[c].todo), y)
         /\ ~SameEvent(y, Head(job[c].todo))
  <1> DEFINE a == Head(job[c].todo)
  <1>1. a \in Articles
    BY HeadAndTail DEF TypeInv, FoundStory
  <1>2. Published[a] \in Nat /\ Published[y] \in Nat /\ Score[a][y] \in Nat
        /\ Threshold \in Nat \ {0}
    BY <1>1, DataAssumption
  <1>3. SameEvent(y, a) => SameEvent(a, y)
    BY <1>2 DEF SameEvent, Apart
  <1>4. PICK candidates : IsShortlist(candidates, Matching(c, a)) /\ Best(a, candidates) = {}
    BY DEF FoundStory
  <1>5. Best(a, Matching(c, a)) = {}
    BY <1>1, <1>4, WholeShortlist
  <1>6. ASSUME SameEvent(a, y) PROVE FALSE
    <2>1. y \in Matching(c, a) /\ Score[a][y] >= Threshold /\ Matching(c, a) \in SUBSET Articles
      BY <1>2, <1>6 DEF Matching, SameEvent
    <2> HIDE DEF a
    <2> QED
      BY <1>1, <1>5, <2>1, SomeBest
  <1> QED
    BY <1>3, <1>6

LonersOf(m) == \A x, y \in Articles : m[x] = x /\ m[y] = y /\ x # y => ~SameEvent(x, y)
SeesAll(c) == job[c].pc \in {"batch", "adding"} =>
    job[c].snapshot = member /\ LonersOf(After(c))
LoneInv == ~lost => LonersOf(member) /\ \A c \in Clusterers : SeesAll(c)

\* The one clusterer acts.
LEMMA AloneKeepsLone ==
  ASSUME LockInv, ~lost, NEW c \in Clusterers, PastLock(c),
         \A o \in Clusterers : o # c => job'[o] = job[o], LonersOf(member'), SeesAll(c)'
  PROVE  LoneInv'
  <1>1. ASSUME NEW o \in Clusterers, o # c PROVE SeesAll(o)'
    <2>1. job[o].pc = "idle"
      BY <1>1 DEF LockInv, HolderOnly, PastLock
    <2> QED
      BY <1>1, <2>1 DEF SeesAll
  <1> QED
    BY <1>1 DEF LoneInv, LonersOf

LEMMA OutKeepsLone ==
  ASSUME TypeInv, LoneInv, NEW c \in Clusterers, TryLock(c) \/ Leaves(c)
  PROVE  LoneInv'
  <1>1. /\ job'[c].pc \in {"idle", "between"} /\ member' = member /\ lost' = lost
        /\ \A o \in Clusterers : o # c => job'[o] = job[o]
    BY LockFacts, LeavesFacts DEF TypeInv, GoesIdle, GoesBetween, Turns, Tables
  <1>2. ASSUME NEW o \in Clusterers, SeesAll(o) PROVE SeesAll(o)'
    BY <1>1, <1>2 DEF SeesAll, After, Own
  <1> QED
    BY <1>1, <1>2 DEF LoneInv, LonersOf

LEMMA OpenKeepsLone ==
  ASSUME TypeInv, LockInv, LoneInv, ~lost, NEW c \in Clusterers, OpenBatch(c)
  PROVE  LoneInv'
  <1>1. /\ job'[c].pc = "batch" /\ job'[c].snapshot = member /\ job'[c].wrote = Nothing
        /\ member' = member /\ PastLock(c) /\ \A o \in Clusterers : o # c => job'[o] = job[o]
    BY OpenFacts DEF TypeInv, Shape, RestHasNothing, Turns, Tables, PastLock
  <1>2. \A x \in Articles : After(c)'[x] = member[x]
    BY <1>1, OverlayIs, NothingIs DEF After, Own
  <1>3. LonersOf(member) /\ LonersOf(After(c))'
    BY <1>2 DEF LoneInv, LonersOf
  <1> QED
    BY <1>1, <1>3, AloneKeepsLone DEF SeesAll

\* The article at the head is given a story.
LEMMA AssignKeepsLone ==
  ASSUME TypeInv, LockInv, LoneInv, ~lost, NEW c \in Clusterers, NEW a \in Articles,
         a = Head(job[c].todo), NEW story \in Articles, NEW row, Assigns(c, story, row),
         story = a => \A y \in Articles :
             View(c)[y] # None => ~SameEvent(a, y) /\ ~SameEvent(y, a)
  PROVE  LoneInv'
  <1>1. /\ job'[c].pc = "adding" /\ job'[c].snapshot = job[c].snapshot /\ member' = member
        /\ PastLock(c) /\ \A o \in Clusterers : o # c => job'[o] = job[o]
    BY DEF Assigns, Tables, PastLock
  <1>2. job[c].snapshot = member /\ LonersOf(After(c)) /\ LonersOf(member)
    BY DEF LoneInv, SeesAll, Assigns
  <1>3. /\ Own(c) = job[c].wrote /\ Own(c)' = [job[c].wrote EXCEPT ![a] = story]
        /\ job[c].wrote \in Memberships
    BY JobsAre DEF Own, Assigns, TypeInv, Typed
  <1>4. \A x \in Articles : After(c)[x] = View(c)[x]
    BY <1>2, <1>3, AfterIs, SeenIs
  <1>5. \A x \in Articles : After(c)'[x] = IF x = a THEN story ELSE After(c)[x]
    <2>1. \A x \in Articles : After(c)'[x] = IF Own(c)'[x] # None THEN Own(c)'[x] ELSE member[x]
      BY <1>1, OverlayIs DEF After
    <2> QED
      BY <1>3, <2>1, AfterIs, SeenIs DEF Memberships
  <1>6. LonersOf(After(c)')
    BY <1>2, <1>4, <1>5, SeenIs DEF LonersOf
  <1> QED
    BY <1>1, <1>2, <1>6, AloneKeepsLone DEF SeesAll, LonersOf

LEMMA FoundKeepsLone ==
  ASSUME TypeInv, LockInv, LoneInv, ~lost, NothingIsCut, NEW c \in Clusterers, FoundStory(c)
  PROVE  LoneInv'
  <1> DEFINE a == Head(job[c].todo)
  <1>1. Assigns(c, a, Founded(a)) /\ a \in Articles
    BY FoundFacts, HeadAndTail DEF TypeInv, Turns, Assigns
  <1>2. \A y \in Articles : View(c)[y] # None => ~SameEvent(a, y) /\ ~SameEvent(y, a)
    BY FounderIsNew
  <1> QED
    BY <1>1, <1>2, AssignKeepsLone

LEMMA JoinKeepsLone ==
  ASSUME TypeInv, StoryInv, LockInv, LoneInv, ~lost, NEW c \in Clusterers, JoinStory(c)
  PROVE  LoneInv'
  <1> DEFINE a == Head(job[c].todo)
  <1>1. PICK b \in Articles : JoinsVia(c, b)
    BY JoinFacts DEF TypeInv
  <1> DEFINE story == View(c)[b]
  <1>2. Assigns(c, story, Joined(RowForUpdate(c, story), a)) /\ a \in Articles
    BY <1>1, JoinFacts, HeadAndTail DEF TypeInv, JoinsVia, Turns, Assigns
  <1>3. View(c)[a] = None
    BY <1>2, HeadAndTail DEF StoryInv, Transaction, TodoFree, TypeInv, Assigns
  <1>4. View(c)[b] # None
    BY <1>1 DEF JoinsVia, Matching
  <1>5. story \in Articles /\ View(c)[story] = story
    BY <1>4, StoryOfSeen
  <1>6. story # a
    BY <1>3, <1>5, SeenIs
  <1> QED
    BY <1>2, <1>5, <1>6, AssignKeepsLone

LEMMA AddKeepsLone ==
  ASSUME TypeInv, LockInv, LoneInv, ~lost, NEW c \in Clusterers, AddMember(c)
  PROVE  LoneInv'
  <1>1. /\ Turns(c, "batch", job[c].clustered + 1, Tail(job[c].todo), job[c].found,
                 job[c].snapshot, [job[c].wrote EXCEPT ![Head(job[c].todo)] = job[c].target],
                 job[c].rows, None)
        /\ job[c].pc = "adding" /\ UNCHANGED Tables
    BY AddFacts DEF TypeInv
  <1>2. /\ After(c)' = After(c) /\ member' = member /\ PastLock(c)
        /\ job'[c].snapshot = job[c].snapshot /\ \A o \in Clusterers : o # c => job'[o] = job[o]
    BY <1>1 DEF After, Own, Turns, Tables, PastLock
  <1>3. job[c].snapshot = member /\ LonersOf(After(c)) /\ LonersOf(member)
    BY <1>1 DEF LoneInv, SeesAll
  <1> QED
    BY <1>2, <1>3, AloneKeepsLone DEF SeesAll

LEMMA CommitKeepsLone ==
  ASSUME TypeInv, LockInv, LoneInv, ~lost, NEW c \in Clusterers, CommitBatch(c)
  PROVE  LoneInv'
  <1>1. Commits(c) /\ GoesBetween(c, job[c].clustered)
    BY CommitLeaves
  <1>2. LonersOf(After(c)) /\ PastLock(c)
    BY <1>1 DEF Commits, LoneInv, SeesAll, PastLock
  <1>3. LonersOf(member')
    BY <1>1, <1>2, AfterIs DEF Commits, LonersOf
  <1>4. SeesAll(c)'
    BY <1>1 DEF GoesBetween, Turns, SeesAll
  <1> QED
    BY <1>1, <1>2, <1>3, <1>4, AloneKeepsLone DEF Commits

LEMMA NextLone ==
  NothingIsCut /\ TypeInv /\ StoryInv /\ LockInv /\ LoneInv /\ [Next]_vars => LoneInv'
  <1> SUFFICES ASSUME NothingIsCut, TypeInv, StoryInv, LockInv, LoneInv, [Next]_vars, ~lost'
               PROVE  LoneInv'
    BY DEF LoneInv
  <1>1. ASSUME UNCHANGED <<member, job, lost>> PROVE LoneInv'
    BY <1>1 DEF LoneInv, LonersOf, SeesAll, After, Own
  <1>2. ASSUME NEW a \in Articles, Store(a) PROVE LoneInv'
    BY <1>1, <1>2 DEF Store
  <1>3. CASE UNCHANGED vars
    BY <1>1, <1>3 DEF vars
  <1>4. ASSUME NEW c \in Clusterers, LoseLock(c) PROVE LoneInv'
    BY <1>4 DEF LoseLock
  <1>5. ASSUME NEW c \in Clusterers, TryLock(c) \/ Leaves(c) PROVE LoneInv'
    BY <1>5, OutKeepsLone
  <1>6. ASSUME NEW c \in Clusterers, OpenBatch(c) \/ FoundStory(c) \/ JoinStory(c)
                                       \/ AddMember(c) \/ CommitBatch(c)
        PROVE  LoneInv'
    <2>1. ~lost
      BY <1>6 DEF OpenBatch, FoundStory, JoinStory, AddMember, CommitBatch
    <2> QED
      BY <1>6, <2>1, OpenKeepsLone, FoundKeepsLone, JoinKeepsLone, AddKeepsLone, CommitKeepsLone
  <1> QED
    BY <1>2, <1>3, <1>4, <1>5, <1>6 DEF Next, Step, Leaves

\* README, Story clusters: the lock is there so that two outlets' versions of an
\* event "cannot each found a story".  They cannot, through every commit and
\* failure, until a lock connection is lost, where candidates are never cut off.
THEOREM OneStoryPerEvent == NothingIsCut => (Spec => []LoneFounders)
  <1> SUFFICES ASSUME NothingIsCut PROVE Spec => []LoneFounders
    OBVIOUS
  <1>1. Init => LoneInv
    BY NothingIs, ArticlesAssumption DEF Init, Idle, LoneInv, LonersOf, SeesAll
  <1>2. LoneInv => LoneFounders
    BY DEF LoneInv, LonersOf, LoneFounders, Founders
  <1>3. TypeInv /\ StoryInv /\ LockInv /\ LoneInv /\ [Next]_vars => LoneInv'
    BY NextLone
  <1> QED
    BY <1>1, <1>2, <1>3, InitLock, NextLock, StoriesInvariant, PTL DEF Spec
=============================================================================
