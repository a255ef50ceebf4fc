------------------------------ MODULE Fetcher ------------------------------
(***************************************************************************)
(* app/ingestion/fetcher.py: one Fetcher shared by the threads of a cycle. *)
(* get asks robots.txt, waits for its turn at the host, sends, and retries *)
(* with a back-off.                                                        *)
(*                                                                         *)
(* Time is relative and in seconds: since[h] is how long ago the last turn *)
(* at h was taken, sleep how long a thread still sleeps.  A thread may run *)
(* later than its sleep ends, and send later than it took its turn: what   *)
(* the lock spaces are time stamps, and requests to one host may overlap.  *)
(***************************************************************************)
EXTENDS Integers

CONSTANTS Threads,      \* the threads of the pool
          Hosts,
          Delays,       \* rate_limit of the sources, per_host_delay
          RetryAfters,  \* the numbers a Retry-After header may carry
          MaxRetries,   \* settings.max_retries
          MaxCalls      \* bound: calls of get

ASSUME DelaysAssumption == Delays \subseteq Nat /\ \E d \in Delays : \A e \in Delays : e <= d
ASSUME RetryAssumption == RetryAfters \subseteq Int
ASSUME CountsAssumption == MaxRetries \in Nat \ {0} /\ MaxCalls \in Nat

VARIABLES
    since,      \* _last_request: seconds since the last turn at each host
    robots,     \* _robots: per host the parsed rules, none, or not asked yet
    thread,     \* the locals of get in each thread
    unanswered, \* history: hosts that once gave no usable robots.txt
    calls       \* calls so far

vars == <<since, robots, thread, unanswered, calls>>

Longest == CHOOSE d \in Delays : \A e \in Delays : e <= d
Lesser(m, n) == IF m < n THEN m ELSE n

Idle == [pc |-> "idle"]
Phases == {"robots", "asking", "pacing", "sending", "backoff"}
Active(t) == thread[t].pc # "idle"
In(t, pc) == thread[t].pc = pc
Become(t, now) == thread' = [thread EXCEPT ![t] = now]

-----------------------------------------------------------------------------
(* robots.txt                                                              *)

\* A call of get, with the delay of its source and what the host's robots.txt
\* says of the URL.
Get(t, h, d, banned) ==
    /\ In(t, "idle") /\ calls < MaxCalls
    /\ calls' = calls + 1
    /\ Become(t, [pc |-> "robots", host |-> h, delay |-> d, banned |-> banned,
                  attempt |-> 1, sleep |-> 0])
    /\ UNCHANGED <<since, robots, unanswered>>

\* can_fetch, or FetchError
Judge(t, parser) ==
    Become(t, IF parser = "rules" /\ thread[t].banned
              THEN Idle ELSE [thread[t] EXCEPT !.pc = "pacing"])

\* The cache is read under the lock; the request, if any, is made without it.
LookUpPlaceholder(t) ==     \* mutant: an empty entry is cached before robots.txt is asked
    /\ In(t, "robots")
    /\ IF robots[thread[t].host] = "unknown"
       THEN /\ Become(t, [thread[t] EXCEPT !.pc = "asking"])
            /\ robots' = [robots EXCEPT ![thread[t].host] = "none"]
       ELSE Judge(t, robots[thread[t].host]) /\ UNCHANGED robots
    /\ UNCHANGED <<since, unanswered, calls>>
LookUpRobots(t) ==
    /\ In(t, "robots")
    /\ IF robots[thread[t].host] = "unknown"
       THEN Become(t, [thread[t] EXCEPT !.pc = "asking"])
       ELSE Judge(t, robots[thread[t].host])
    /\ UNCHANGED <<since, robots, unanswered, calls>>

\* Rules, or neither a 200 nor an answer: allow-all.  The last answer is kept.
ReceiveRobots(t, answer) ==
    /\ In(t, "asking")
    /\ robots' = [robots EXCEPT ![thread[t].host] = answer]
    /\ unanswered' = IF answer = "none" THEN unanswered \cup {thread[t].host} ELSE unanswered
    /\ Judge(t, answer)
    /\ UNCHANGED <<since, calls>>

-----------------------------------------------------------------------------
(* _wait_for_host                                                          *)

\* Under the lock: take the turn, or find out how long to sleep without it.
\* After the sleep the question is asked again.
TakeTurnGlobally(t) ==      \* mutant: one time stamp for all hosts
    /\ In(t, "pacing") /\ thread[t].sleep = 0
    /\ IF \A h \in Hosts : since[h] >= thread[t].delay
       THEN /\ since' = [since EXCEPT ![thread[t].host] = 0]
            /\ Become(t, [thread[t] EXCEPT !.pc = "sending"])
       ELSE /\ \E h \in Hosts :
                 /\ \A g \in Hosts : since[h] <= since[g]
                 /\ Become(t, [thread[t] EXCEPT !.sleep = thread[t].delay - since[h]])
            /\ UNCHANGED since
    /\ UNCHANGED <<robots, unanswered, calls>>
TakeTurn(t) ==
    /\ In(t, "pacing") /\ thread[t].sleep = 0
    /\ IF since[thread[t].host] >= thread[t].delay
       THEN /\ since' = [since EXCEPT ![thread[t].host] = 0]
            /\ Become(t, [thread[t] EXCEPT !.pc = "sending"])
       ELSE /\ Become(t, [thread[t] EXCEPT !.sleep = thread[t].delay - since[thread[t].host]])
            /\ UNCHANGED since
    /\ UNCHANGED <<robots, unanswered, calls>>

-----------------------------------------------------------------------------
(* The attempts of get                                                     *)

\* 200, 304 and 400 or more end the call, with a result or a FetchError.
Conclude(t) ==
    /\ In(t, "sending")
    /\ Become(t, Idle)
    /\ UNCHANGED <<since, robots, unanswered, calls>>

\* A retry status or a transport error: sleep, without the turn.
BackOff(t, seconds) ==
    /\ In(t, "sending")
    /\ Become(t, [thread[t] EXCEPT !.pc = "backoff", !.sleep = seconds])
    /\ UNCHANGED <<since, robots, unanswered, calls>>

Doubled(t, most) == Lesser(2^thread[t].attempt, most)
LoseResponse(t) == BackOff(t, Doubled(t, 30))

\* _retry_after: a 0 counts as no header; time.sleep raises on a negative
\* number, and no except clause of get catches that.
ObeyRetryAfter(t, n) ==
    IF n < 0 THEN Conclude(t)
    ELSE BackOff(t, IF n = 0 THEN Doubled(t, 60) ELSE Lesser(n, 120))

\* The sleep comes before the test of the loop, also after the last attempt.
RetryForever(t) ==      \* mutant: attempts are not counted
    /\ In(t, "backoff") /\ thread[t].sleep = 0
    /\ Become(t, [thread[t] EXCEPT !.pc = "pacing"])
    /\ UNCHANGED <<since, robots, unanswered, calls>>
Retry(t) ==
    /\ In(t, "backoff") /\ thread[t].sleep = 0
    /\ Become(t, IF thread[t].attempt = MaxRetries THEN Idle
                 ELSE [thread[t] EXCEPT !.pc = "pacing", !.attempt = @ + 1])
    /\ UNCHANGED <<since, robots, unanswered, calls>>

\* A second passes.
Tick ==
    /\ since' = [h \in Hosts |-> Lesser(since[h] + 1, Longest)]
    /\ thread' = [t \in Threads |-> IF Active(t) /\ thread[t].sleep > 0
                                    THEN [thread[t] EXCEPT !.sleep = @ - 1] ELSE thread[t]]
    /\ UNCHANGED <<robots, unanswered, calls>>

-----------------------------------------------------------------------------
\* A new Fetcher: nothing cached, and no host was asked in the last Longest seconds.
Init ==
    /\ since = [h \in Hosts |-> Longest]
    /\ robots = [h \in Hosts |-> "unknown"]
    /\ thread = [t \in Threads |-> Idle]
    /\ unanswered = {} /\ calls = 0

Step(t) ==
    \/ LookUpRobots(t)
    \/ \E answer \in {"rules", "none"} : ReceiveRobots(t, answer)
    \/ TakeTurn(t) \/ Conclude(t) \/ LoseResponse(t)
    \/ \E n \in RetryAfters : ObeyRetryAfter(t, n)
    \/ Retry(t)

Next ==
    \/ \E t \in Threads : Step(t)
    \/ \E t \in Threads, h \in Hosts, d \in Delays, banned \in BOOLEAN : Get(t, h, d, banned)
    \/ Tick

\* Every request is answered or times out, every sleep ends.
Fairness == WF_vars(Tick) /\ \A t \in Threads : WF_vars(Step(t))

Spec == Init /\ [][Next]_vars /\ Fairness

-----------------------------------------------------------------------------
(* Properties.                                                             *)

Calls == [pc : Phases, host : Hosts, delay : Delays, banned : BOOLEAN,
          attempt : Nat, sleep : Nat]

\* The type invariant.
TypeOK ==
    /\ since \in [Hosts -> 0..Longest]
    /\ robots \in [Hosts -> {"unknown", "rules", "none"}]
    /\ thread \in [Threads -> Calls \cup {Idle}]
    /\ unanswered \subseteq Hosts /\ calls \in Nat

\* "Different hosts never block each other": a thread never sleeps beyond the
\* moment at which its own host is free for it.
SleepsForItsHost ==
    \A t \in Threads : In(t, "pacing") /\ thread[t].sleep > 0
        => thread[t].sleep + since[thread[t].host] <= thread[t].delay

\* A URL that robots.txt forbids is never asked for by any thread, unless the
\* host once failed to give its robots.txt.
RobotsObeyed ==
    \A t \in Threads : thread[t].pc \in {"pacing", "sending", "backoff"} /\ thread[t].banned
        => thread[t].host \in unanswered

\* Every get ends, with a result or an exception: no thread waits for a host
\* for ever, and nothing is retried for ever.
GetEnds == \A t \in Threads : Active(t) ~> ~Active(t)

=============================================================================
