--------------------------- MODULE FetcherProofs ---------------------------
(***************************************************************************)
(* One Fetcher shared by any number of threads, hosts, delays, retries and *)
(* calls: no thread sleeps for another host, robots.txt is obeyed through  *)
(* the race to fetch it, and a call goes on through at most MaxRetries     *)
(* attempts.                                                               *)
(***************************************************************************)
EXTENDS Fetcher, TLAPS

Fields == {"pc", "host", "delay", "banned", "attempt", "sleep"}
PastRobots == {"pacing", "sending", "backoff"}

\* What a thread knows inside get.  How long a back-off is does not matter:
\* only the sleep for a turn does.
IsCall(r) ==
    /\ DOMAIN r = Fields
    /\ r.pc \in Phases /\ r.host \in Hosts /\ r.delay \in Nat /\ r.banned \in BOOLEAN
    /\ r.pc = "pacing" => r.sleep \in Nat
    /\ r.pc \in {"robots", "asking"} => r.sleep = 0

\* What the invariant asks of one thread, given the two tables.
Fine(r, times, silent) ==
    r = Idle \/ /\ IsCall(r)
                /\ r.pc = "pacing" /\ r.sleep > 0 => r.sleep + times[r.host] <= r.delay
                /\ r.pc \in PastRobots /\ r.banned => r.host \in silent

TablesTyped ==
    /\ since \in [Hosts -> Nat] /\ unanswered \subseteq Hosts
    /\ robots \in [Hosts -> {"unknown", "rules", "none"}]

\* A host without rules in the cache is one that gave none.
NoneMeansUnanswered == \A h \in Hosts : robots[h] = "none" => h \in unanswered

IInv ==
    /\ TablesTyped /\ NoneMeansUnanswered
    /\ DOMAIN thread = Threads /\ \A t \in Threads : Fine(thread[t], since, unanswered)

-----------------------------------------------------------------------------
LEMMA LongestIsDelay == Longest \in Delays /\ Longest \in Nat
  BY DelaysAssumption DEF Longest

LEMMA IdleIsIdle == Idle.pc = "idle"
  BY DEF Idle

LEMMA ActiveIsCall ==
  ASSUME IInv, NEW t \in Threads, Active(t)
  PROVE  /\ IsCall(thread[t]) /\ since[thread[t].host] \in Nat
         /\ thread[t].pc \in PastRobots /\ thread[t].banned => thread[t].host \in unanswered
  BY IdleIsIdle DEF IInv, Fine, Active, IsCall, TablesTyped

\* A step of one thread: turns may be taken and hosts may fail to answer.
LEMMA OneThread ==
  ASSUME IInv, NEW t \in Threads, NEW now, Become(t, now), Fine(now, since', unanswered'),
         TablesTyped', NoneMeansUnanswered', unanswered \subseteq unanswered',
         \A h \in Hosts : since'[h] <= since[h]
  PROVE  IInv'
  <1>1. DOMAIN thread' = Threads
    BY DEF IInv, Become
  <1>2. ASSUME NEW o \in Threads PROVE Fine(thread'[o], since', unanswered')
    <2>1. CASE o = t
      BY <2>1 DEF IInv, Become
    <2>2. CASE o # t
      <3>1. thread'[o] = thread[o] /\ Fine(thread[o], since, unanswered)
        BY <2>2 DEF IInv, Become
      <3> QED
        BY <3>1 DEF Fine, IsCall, TablesTyped, IInv
    <2> QED
      BY <2>1, <2>2
  <1> QED
    BY <1>1, <1>2 DEF IInv

\* The same when only the thread changes.
LEMMA OnlyThread ==
  ASSUME IInv, NEW t \in Threads, NEW now, Become(t, now), Fine(now, since, unanswered),
         UNCHANGED <<since, robots, unanswered>>
  PROVE  IInv'
  <1>1. TablesTyped' /\ NoneMeansUnanswered' /\ \A h \in Hosts : since'[h] <= since[h]
    BY DEF IInv, TablesTyped, NoneMeansUnanswered
  <1> QED
    BY <1>1, OneThread

-----------------------------------------------------------------------------
LEMMA InitInv == Init => IInv
  BY LongestIsDelay DEF Init, IInv, TablesTyped, NoneMeansUnanswered, Fine

LEMMA GetInv ==
  ASSUME IInv, NEW t \in Threads, NEW h \in Hosts, NEW d \in Delays,
         NEW banned \in BOOLEAN, Get(t, h, d, banned)
  PROVE  IInv'
  <1> DEFINE now == [pc |-> "robots", host |-> h, delay |-> d, banned |-> banned,
                     attempt |-> 1, sleep |-> 0]
  <1>1. Fine(now, since, unanswered)
    BY DelaysAssumption DEF Fine, IsCall, Fields, Phases, PastRobots
  <1> QED
    BY <1>1, OnlyThread DEF Get

\* Where the rules let the URL pass, the call goes on without sleeping.
LEMMA Judged ==
  ASSUME NEW call, IsCall(call), call.pc \in {"robots", "asking"}, NEW parser, NEW silent,
         NEW times \in [Hosts -> Nat],
         parser = "rules" \/ call.host \in silent
  PROVE  Fine(IF parser = "rules" /\ call.banned THEN Idle
              ELSE [call EXCEPT !.pc = "pacing"], times, silent)
  BY DEF Fine, IsCall, Fields, Phases, PastRobots

LEMMA LookUpInv ==
  ASSUME IInv, NEW t \in Threads, LookUpRobots(t)
  PROVE  IInv'
  <1> DEFINE call == thread[t]
  <1>1. IsCall(call) /\ call.pc = "robots" /\ call.host \in Hosts
    BY ActiveIsCall DEF LookUpRobots, In, Active, IsCall
  <1>2. CASE robots[call.host] = "unknown"
    <2>1. Fine([call EXCEPT !.pc = "asking"], since, unanswered)
      BY <1>1 DEF Fine, IsCall, Fields, Phases, PastRobots
    <2> QED
      BY <1>2, <2>1, OnlyThread DEF LookUpRobots
  <1>3. CASE robots[call.host] # "unknown"
    <2>1. robots[call.host] = "rules" \/ call.host \in unanswered
      BY <1>1, <1>3 DEF IInv, TablesTyped, NoneMeansUnanswered
    <2>2. Fine(IF robots[call.host] = "rules" /\ call.banned THEN Idle
               ELSE [call EXCEPT !.pc = "pacing"], since, unanswered)
      BY <1>1, <2>1, Judged DEF IInv, TablesTyped
    <2> QED
      BY <1>3, <2>2, OnlyThread DEF LookUpRobots, Judge
  <1> QED
    BY <1>2, <1>3

LEMMA ReceiveInv ==
  ASSUME IInv, NEW t \in Threads, NEW answer \in {"rules", "none"}, ReceiveRobots(t, answer)
  PROVE  IInv'
  <1> DEFINE call == thread[t]
  <1>1. IsCall(call) /\ call.pc = "asking" /\ call.host \in Hosts
    BY ActiveIsCall DEF ReceiveRobots, In, Active, IsCall
  <1>2. TablesTyped' /\ unanswered \subseteq unanswered' /\ since' = since
    BY <1>1 DEF ReceiveRobots, IInv, TablesTyped
  <1>3. NoneMeansUnanswered'
    BY <1>1 DEF ReceiveRobots, IInv, TablesTyped, NoneMeansUnanswered
  <1>4. Fine(IF answer = "rules" /\ call.banned THEN Idle
             ELSE [call EXCEPT !.pc = "pacing"], since', unanswered')
    <2>1. answer = "rules" \/ call.host \in unanswered'
      BY DEF ReceiveRobots
    <2> QED
      BY <1>1, <1>2, <2>1, Judged DEF TablesTyped
  <1>5. \A h \in Hosts : since'[h] <= since[h]
    BY <1>2 DEF IInv, TablesTyped
  <1> QED
    BY <1>2, <1>3, <1>4, <1>5, OneThread DEF ReceiveRobots, Judge

LEMMA TurnInv ==
  ASSUME IInv, NEW t \in Threads, TakeTurn(t)
  PROVE  IInv'
  <1> DEFINE call == thread[t]
  <1>1. /\ IsCall(call) /\ call.pc = "pacing" /\ call.host \in Hosts /\ since[call.host] \in Nat
        /\ call.banned => call.host \in unanswered
    BY ActiveIsCall DEF TakeTurn, In, Active, IsCall, PastRobots
  <1>2. CASE since[call.host] >= call.delay
    <2>1. TablesTyped' /\ NoneMeansUnanswered' /\ unanswered' = unanswered
      BY <1>1, <1>2 DEF TakeTurn, IInv, TablesTyped, NoneMeansUnanswered
    <2>2. \A h \in Hosts : since'[h] <= since[h]
      BY <1>2 DEF TakeTurn, IInv, TablesTyped
    <2>3. Fine([call EXCEPT !.pc = "sending"], since', unanswered')
      BY <1>1, <2>1 DEF Fine, IsCall, Fields, Phases, PastRobots
    <2> QED
      BY <1>2, <2>1, <2>2, <2>3, OneThread DEF TakeTurn
  <1>3. CASE ~(since[call.host] >= call.delay)
    <2>1. Fine([call EXCEPT !.sleep = call.delay - since[call.host]], since, unanswered)
      BY <1>1, <1>3 DEF Fine, IsCall, Fields, Phases, PastRobots
    <2> QED
      BY <1>3, <2>1, OnlyThread DEF TakeTurn
  <1> QED
    BY <1>2, <1>3

\* The attempts of get: to sleep and to try again.
LEMMA AttemptInv ==
  ASSUME IInv, NEW t \in Threads,
         \/ Conclude(t) \/ LoseResponse(t) \/ Retry(t)
         \/ \E n \in RetryAfters : ObeyRetryAfter(t, n)
  PROVE  IInv'
  <1>1. Fine(Idle, since, unanswered)
    BY DEF Fine
  <1>2. ASSUME Conclude(t) PROVE IInv'
    BY <1>1, <1>2, OnlyThread DEF Conclude
  <1>3. ASSUME NEW seconds, BackOff(t, seconds) PROVE IInv'
    <2>1. Fine([thread[t] EXCEPT !.pc = "backoff", !.sleep = seconds], since, unanswered)
      BY <1>3, ActiveIsCall DEF BackOff, In, Active, Fine, IsCall, Fields, Phases, PastRobots
    <2> QED
      BY <1>3, <2>1, OnlyThread DEF BackOff
  <1>4. ASSUME Retry(t) PROVE IInv'
    <2>1. Fine([thread[t] EXCEPT !.pc = "pacing", !.attempt = @ + 1], since, unanswered)
      BY <1>4, ActiveIsCall DEF Retry, In, Active, Fine, IsCall, Fields, Phases, PastRobots
    <2> QED
      BY <1>1, <1>4, <2>1, OnlyThread DEF Retry
  <1> QED
    BY <1>2, <1>3, <1>4 DEF LoseResponse, ObeyRetryAfter

\* A second less to sleep, at most a second more since the last turn.
LEMMA TickInv == ASSUME IInv, Tick PROVE IInv'
  <1>1. TablesTyped' /\ NoneMeansUnanswered' /\ unanswered' = unanswered
    BY LongestIsDelay DEF Tick, IInv, TablesTyped, NoneMeansUnanswered, Lesser
  <1>2. \A h \in Hosts : since'[h] <= since[h] + 1
    BY LongestIsDelay DEF Tick, IInv, TablesTyped, Lesser
  <1>3. ASSUME NEW t \in Threads PROVE Fine(thread'[t], since', unanswered')
    <2>1. CASE ~Active(t)
      <3>1. thread'[t] = thread[t] /\ thread[t] = Idle
        BY <2>1 DEF Tick, IInv, Active, Fine, IsCall, Phases
      <3> QED
        BY <3>1 DEF Fine
    <2>2. CASE Active(t)
      <3> DEFINE call == thread[t]
      <3>1. /\ IsCall(call) /\ call # Idle
            /\ call.pc = "pacing" /\ call.sleep > 0 => call.sleep + since[call.host] <= call.delay
            /\ call.pc \in PastRobots /\ call.banned => call.host \in unanswered'
        BY <1>1, <2>2, ActiveIsCall, IdleIsIdle DEF IInv, Fine, Active
      <3>2. since[call.host] \in Nat /\ since'[call.host] \in Nat /\ since'[call.host] <= since[call.host] + 1
        BY <1>1, <1>2, <3>1 DEF IInv, TablesTyped, IsCall
      <3>3. CASE call.sleep > 0
        <4>1. thread'[t] = [call EXCEPT !.sleep = @ - 1]
          BY <2>2, <3>3 DEF Tick
        <4> HIDE DEF call
        <4>2. IsCall([call EXCEPT !.sleep = @ - 1])
          BY <3>1, <3>3 DEF IsCall, Fields
        <4> QED
          BY <3>1, <3>2, <3>3, <4>1, <4>2 DEF Fine, IsCall, Fields
      <3>4. CASE ~(call.sleep > 0)
        <4>1. thread'[t] = call
          BY <3>4 DEF Tick
        <4> HIDE DEF call
        <4> QED
          BY <3>1, <3>2, <3>4, <4>1 DEF Fine
      <3> QED
        BY <3>3, <3>4
    <2> QED
      BY <2>1, <2>2
  <1>4. DOMAIN thread' = Threads
    BY DEF Tick
  <1> QED
    BY <1>1, <1>3, <1>4 DEF IInv

LEMMA NextInv == IInv /\ [Next]_vars => IInv'
  <1> SUFFICES ASSUME IInv, [Next]_vars PROVE IInv'
    OBVIOUS
  <1>1. ASSUME NEW t \in Threads, Step(t) PROVE IInv'
    <2>1. CASE LookUpRobots(t)
      BY <2>1, LookUpInv
    <2>2. CASE \E answer \in {"rules", "none"} : ReceiveRobots(t, answer)
      BY <2>2, ReceiveInv
    <2>3. CASE TakeTurn(t)
      BY <2>3, TurnInv
    <2> QED
      BY <1>1, <2>1, <2>2, <2>3, AttemptInv DEF Step
  <1>2. CASE UNCHANGED vars
    BY <1>2 DEF vars, IInv, TablesTyped, NoneMeansUnanswered
  <1> QED
    BY <1>1, <1>2, GetInv, TickInv DEF Next

LEMMA Invariant == Spec => []IInv
  BY InitInv, NextInv, PTL DEF Spec

-----------------------------------------------------------------------------
\* "Different hosts never block each other": no thread sleeps in
\* _wait_for_host beyond the moment at which its own host is free for it.
THEOREM NoSleepForOthers == Spec => []SleepsForItsHost
  <1>1. IInv => SleepsForItsHost
    BY IdleIsIdle DEF IInv, Fine, SleepsForItsHost, In
  <1> QED
    BY <1>1, Invariant, PTL

\* A URL that robots.txt forbids is not asked for, unless the host once gave
\* no robots.txt, although two threads may both fetch it and the last answer
\* replaces the first (_allowed_by_robots).
THEOREM RobotsAreObeyed == Spec => []RobotsObeyed
  <1>1. IInv => RobotsObeyed
    BY IdleIsIdle DEF IInv, Fine, RobotsObeyed, PastRobots
  <1> QED
    BY <1>1, Invariant, PTL

-----------------------------------------------------------------------------
(* Calls move forward: what of GetEnds needs no fairness.                  *)

\* The phases in the order in which an attempt goes through them.
Place == [pc \in Phases |->
    CASE pc = "robots" -> 1 [] pc = "asking" -> 2 [] pc = "pacing" -> 3
      [] pc = "sending" -> 4 [] pc = "backoff" -> 5]

\* A later attempt, or a later phase of the same one, of the same request.
Later(r, q) ==
    /\ q.host = r.host /\ q.delay = r.delay /\ q.banned = r.banned
    /\ \/ q.attempt = r.attempt + 1 /\ r.pc = "backoff" /\ q.pc = "pacing"
       \/ q.attempt = r.attempt /\ (q.pc = r.pc \/ Place[r.pc] < Place[q.pc])

\* Attempts are counted, and one sleep for a turn is no longer than some delay.
Bounded(r) ==
    r # Idle => /\ r.attempt \in 1..MaxRetries /\ r.delay \in Delays
                /\ r.pc = "pacing" => r.sleep <= Longest
AttemptsBounded == \A t \in Threads : Bounded(thread[t])

LEMMA DelaysAreShort == \A d \in Delays : d <= Longest
  BY DelaysAssumption DEF Longest

\* What a step of Fetcher.tla makes of the thread it is a step of.
LEMMA StepsGoOn ==
  ASSUME IInv, AttemptsBounded, NEW t \in Threads, Step(t)
  PROVE  \E now : /\ Become(t, now) /\ Active(t)
                  /\ Bounded(now) /\ (now = Idle \/ Later(thread[t], now))
  <1> DEFINE call == thread[t]
             Fits(now) == Bounded(now) /\ (now = Idle \/ Later(call, now))
  <1>1. Active(t)
    BY DEF Step, LookUpRobots, ReceiveRobots, TakeTurn, Conclude,
       LoseResponse, ObeyRetryAfter, BackOff, Retry, In, Active
  <1>2. /\ IsCall(call) /\ call.attempt \in 1..MaxRetries /\ call.delay \in Delays
        /\ since[call.host] \in Nat
    BY <1>1, ActiveIsCall, IdleIsIdle DEF AttemptsBounded, Bounded, Active
  <1>3. Fits(Idle)
    BY DEF Bounded
  <1>4. ASSUME call.pc \in {"robots", "asking"} PROVE Fits([call EXCEPT !.pc = "pacing"])
    BY <1>2, <1>4, LongestIsDelay DEF Bounded, Later, IsCall, Fields, Place, Phases
  <1>5. CASE LookUpRobots(t)
    <2>1. Fits([call EXCEPT !.pc = "asking"])
      BY <1>2, <1>5, LongestIsDelay DEF LookUpRobots, In, Bounded, Later, IsCall, Fields, Place, Phases
    <2> QED
      BY <1>1, <1>3, <1>4, <1>5, <2>1 DEF LookUpRobots, Judge, In
  <1>6. ASSUME NEW answer, ReceiveRobots(t, answer) PROVE \E now : Become(t, now) /\ Fits(now)
    BY <1>3, <1>4, <1>6 DEF ReceiveRobots, Judge, In
  <1>7. CASE TakeTurn(t)
    <2>1. Fits([call EXCEPT !.pc = "sending"])
      BY <1>2, <1>7 DEF TakeTurn, In, Bounded, Later, IsCall, Fields, Place, Phases
    <2>2. Fits([call EXCEPT !.sleep = call.delay - since[call.host]])
      <3>1. call.delay <= Longest
        BY <1>2, DelaysAreShort
      <3> QED
        BY <1>2, <1>7, <3>1, LongestIsDelay DEF TakeTurn, In, Bounded, Later, IsCall, Fields, Place, Phases
    <2> QED
      BY <1>1, <1>7, <2>1, <2>2 DEF TakeTurn
  <1>8. ASSUME NEW seconds, BackOff(t, seconds) PROVE \E now : Become(t, now) /\ Fits(now)
    <2>1. Fits([call EXCEPT !.pc = "backoff", !.sleep = seconds])
      BY <1>2, <1>8 DEF BackOff, In, Bounded, Later, IsCall, Fields, Place, Phases
    <2> QED
      BY <1>8, <2>1 DEF BackOff
  <1>9. CASE Retry(t)
    <2>1. ASSUME call.attempt # MaxRetries
          PROVE  Fits([call EXCEPT !.pc = "pacing", !.attempt = @ + 1])
      BY <1>2, <1>9, <2>1, LongestIsDelay, CountsAssumption
      DEF Retry, In, Bounded, Later, IsCall, Fields, Place, Phases
    <2> QED
      BY <1>1, <1>3, <1>9, <2>1 DEF Retry
  <1>10. CASE Conclude(t)
    BY <1>1, <1>3, <1>10 DEF Conclude
  <1> QED
    BY <1>1, <1>3, <1>5, <1>6, <1>7, <1>8, <1>9, <1>10
    DEF Step, LoseResponse, ObeyRetryAfter, Conclude

LEMMA TickGoesOn ==
  ASSUME IInv, AttemptsBounded, Tick, NEW t \in Threads
  PROVE  Bounded(thread'[t]) /\ (Active(t) => Later(thread[t], thread'[t]))
  <1>1. CASE ~Active(t)
    BY <1>1 DEF Tick, AttemptsBounded
  <1>2. CASE Active(t)
    <2>1. IsCall(thread[t]) /\ Bounded(thread[t]) /\ thread[t] # Idle
      BY <1>2, ActiveIsCall, IdleIsIdle DEF AttemptsBounded, Active
    <2> QED
      BY <1>2, <2>1, LongestIsDelay DEF Tick, Bounded, Later, IsCall, Fields
  <1> QED
    BY <1>1, <1>2

LEMMA InitBounded == Init => AttemptsBounded
  BY DEF Init, AttemptsBounded, Bounded

\* One step: whatever it does, a call that is under way goes on or ends.
MovesOn(t) == Active(t) => thread'[t] = Idle \/ Later(thread[t], thread'[t])

LEMMA NextMovesOn ==
  ASSUME IInv, AttemptsBounded, Next
  PROVE  AttemptsBounded' /\ \A t \in Threads : MovesOn(t)
  <1> SUFFICES ASSUME NEW t \in Threads PROVE Bounded(thread'[t]) /\ MovesOn(t)
    BY DEF AttemptsBounded
  <1>1. Bounded(thread[t]) /\ (Active(t) => IsCall(thread[t]))
    BY ActiveIsCall DEF AttemptsBounded
  <1>2. ASSUME thread'[t] = thread[t] PROVE Bounded(thread'[t]) /\ MovesOn(t)
    BY <1>1, <1>2 DEF MovesOn, Later
  <1>3. ASSUME NEW o \in Threads, NEW now, Become(o, now), o # t
        PROVE  Bounded(thread'[t]) /\ MovesOn(t)
    BY <1>2, <1>3 DEF IInv, Become
  <1>4. ASSUME NEW now, Become(t, now) PROVE thread'[t] = now
    BY <1>4 DEF IInv, Become
  <1>5. CASE Tick
    BY <1>5, TickGoesOn DEF MovesOn
  <1>6. ASSUME NEW o \in Threads, Step(o) PROVE Bounded(thread'[t]) /\ MovesOn(t)
    BY <1>3, <1>4, <1>6, StepsGoOn DEF MovesOn
  <1>7. ASSUME NEW o \in Threads, NEW h \in Hosts, NEW d \in Delays,
               NEW banned \in BOOLEAN, Get(o, h, d, banned)
        PROVE  Bounded(thread'[t]) /\ MovesOn(t)
    <2>1. CASE o # t
      BY <1>3, <1>7, <2>1 DEF Get
    <2>2. CASE o = t
      <3>1. ~Active(t)
        BY <1>7, <2>2 DEF Get, In, Active
      <3> QED
        BY <1>4, <1>7, <2>2, <3>1, CountsAssumption DEF Get, MovesOn, Bounded
    <2> QED
      BY <2>1, <2>2
  <1> QED
    BY <1>5, <1>6, <1>7 DEF Next

LEMMA BoundedInvariant == Spec => [](IInv /\ AttemptsBounded)
  <1>1. IInv /\ AttemptsBounded /\ [Next]_vars => AttemptsBounded'
    BY NextMovesOn DEF vars, AttemptsBounded
  <1> QED
    BY <1>1, InitBounded, Invariant, PTL DEF Spec

\* "max_retries" of get: no call makes more than that many attempts, and no
\* one sleep for a turn is longer than the longest delay of a source, however
\* many threads want the host (fetcher.py get, _wait_for_host).
THEOREM AttemptsAreBounded == Spec => []AttemptsBounded
  BY BoundedInvariant, PTL

\* A call goes through its phases forward, for one request, and only from its
\* back-off to its next attempt: with the bound above, a URL is sent for at
\* most max_retries times in one get, however threads and failures interleave.
\* (That it does end is GetEnds, which takes fairness.)
THEOREM CallsMoveOn == Spec => [][\A t \in Threads : MovesOn(t)]_vars
  <1>1. IInv /\ AttemptsBounded /\ [Next]_vars => [\A t \in Threads : MovesOn(t)]_vars
    BY NextMovesOn
  <1> QED
    BY <1>1, BoundedInvariant, PTL DEF Spec

=============================================================================
