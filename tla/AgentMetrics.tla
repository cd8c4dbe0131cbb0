---------------------------- MODULE AgentMetrics ----------------------------
(***************************************************************************)
(* GET /metrics of agent/agent.py on its threading server, and the poll of  *)
(* server/server.py that waits for it.  A request collects CPU, memory and  *)
(* disk figures, takes the I/O sample under _io_lock, asks the GPUs, checks *)
(* the configured services one after the other, scans for babysit instances *)
(* and answers.  A check of a service may take up to CHECK_TIMEOUT, the     *)
(* collectors, the scan and a walk over the processes any time; the poll    *)
(* gives up after POLL_TIMEOUT while the agent's thread goes on.            *)
(*                                                                          *)
(* Disk and network counters are treated alike in the code; one stands for  *)
(* both here, except that only disk counters may be missing.  Of the wall   *)
(* clock the code uses the sign of `now - _prev_io_time`, kept in lead; a   *)
(* tick puts it ahead of the last sample.  Between two ticks, and so for    *)
(* the reading of the counters under the lock, no time passes.              *)
(***************************************************************************)
EXTENDS Integers

CONSTANTS
  Requests,       \* threads that may be at work on GET /metrics
  Services,       \* number of configured services
  CHECK_TIMEOUT,  \* longest check of a service (agent.py: 5 s, 3 s of a port)
  POLL_TIMEOUT,   \* patience of the poll (server.py: 10 s)
  MaxBytes,       \* bound: the kernel's counter stops here
  Missing,        \* psutil.disk_io_counters() returned None
  NoRequest

ASSUME AgentAssumption ==
  /\ Services \in Nat /\ CHECK_TIMEOUT \in Nat \ {0} /\ POLL_TIMEOUT \in Nat \ {0}
  /\ MaxBytes \in Nat /\ Missing \notin Int /\ NoRequest \notin Requests

VARIABLES
  up,        \* the agent runs
  bytes,     \* the kernel's counter
  counters,  \* whether psutil finds disk counters
  prev,      \* _prev_disk_io
  lead,      \* sign of time.time() - _prev_io_time
  lock,      \* holder of _io_lock
  request,   \* where a request is, and its locals; of use to the properties
             \* only: slow checks and time in untimed work, while it is polled
  poll,      \* the server's GET of this host: its request, and the last outcome
  reported   \* of use to the properties only: bytes in all the rates so far

vars == <<up, bytes, counters, prev, lead, lock, request, poll, reported>>

Idle ==
  [at |-> "idle", age |-> 0, sample |-> 0, dt |-> 0, setback |-> FALSE,
   todo |-> 0, wait |-> 0, slow |-> 0, untimed |-> 0]

Counter == IF counters THEN bytes ELSE Missing

\* main() takes the first sample before it serves.
Init ==
  /\ up = TRUE
  /\ bytes = 0
  /\ counters \in BOOLEAN
  /\ prev = Counter
  /\ lead = 0
  /\ lock = NoRequest
  /\ request = [r \in Requests |-> Idle]
  /\ poll = [request |-> NoRequest, outcome |-> "none"]
  /\ reported = 0

-----------------------------------------------------------------------------
(* get_cpu, get_memory, get_disk, get_io *)

Arrive(r) ==
  /\ up
  /\ request[r] = Idle
  /\ request' = [request EXCEPT ![r].at = "collecting"]

\* Somebody else than the poller asks.
Get(r) ==
  /\ Arrive(r)
  /\ UNCHANGED <<up, bytes, counters, prev, lead, lock, poll, reported>>

\* The figures that need no lock are there.
Collect(r) ==
  /\ request[r].at = "collecting"
  /\ request' = [request EXCEPT ![r].at = "arrived"]
  /\ UNCHANGED <<up, bytes, counters, prev, lead, lock, poll, reported>>

\* Mutated form of Sample: _io_lock is not taken.
SampleUnlocked(r) ==
  /\ request[r].at = "arrived"
  /\ request' = [request EXCEPT ![r].at = "sampled", ![r].sample = Counter,
                                ![r].dt = lead]
  /\ UNCHANGED <<up, bytes, counters, prev, lead, lock, poll, reported>>

\* With the lock: the clock and the counters.
Sample(r) ==
  /\ request[r].at = "arrived"
  /\ lock = NoRequest
  /\ lock' = r
  /\ request' = [request EXCEPT ![r].at = "sampled", ![r].sample = Counter,
                                ![r].dt = lead]
  /\ UNCHANGED <<up, bytes, counters, prev, lead, poll, reported>>

\* A rate is computed when both samples are there and the clock has advanced.
HasRate(r) == request[r].sample # Missing /\ request[r].dt > 0

\* max(0.0, rate) times the interval.
Delta(r) == IF request[r].sample > prev THEN request[r].sample - prev ELSE 0

\* Mutated form of StoreSample: the lock is kept for the whole request.
StoreSampleLocked(r) ==
  /\ request[r].at = "sampled"
  /\ HasRate(r) => prev # Missing
  /\ reported' = reported + (IF HasRate(r) THEN Delta(r) ELSE 0)
  /\ prev' = request[r].sample
  /\ lead' = IF request[r].setback THEN -1 ELSE 0
  /\ request' = [request EXCEPT ![r] = [Idle EXCEPT
       !.at = "checking", !.age = request[r].age, !.todo = Services,
       !.untimed = request[r].untimed]]
  /\ UNCHANGED <<up, bytes, counters, lock, poll>>

\* The rate, then the three globals, then the lock.
StoreSample(r) ==
  /\ request[r].at = "sampled"
  /\ HasRate(r) => prev # Missing
  /\ reported' = reported + (IF HasRate(r) THEN Delta(r) ELSE 0)
  /\ prev' = request[r].sample
  /\ lead' = IF request[r].setback THEN -1 ELSE 0
  /\ lock' = NoRequest
  /\ request' = [request EXCEPT ![r] = [Idle EXCEPT
       !.at = "checking", !.age = request[r].age, !.todo = Services,
       !.untimed = request[r].untimed]]
  /\ UNCHANGED <<up, bytes, counters, poll>>

\* Mutated form of SampleRaises: the lock is not released on the way out.
SampleRaisesLocked(r) ==
  /\ request[r].at = "sampled"
  /\ HasRate(r) /\ prev = Missing
  /\ request' = [request EXCEPT ![r] = [Idle EXCEPT
       !.at = "failed", !.age = request[r].age, !.untimed = request[r].untimed]]
  /\ UNCHANGED <<up, bytes, counters, prev, lead, lock, poll, reported>>

\* Counters that were missing the last time: None has no read_bytes, and what
\* is raised leaves the globals as they are.
SampleRaises(r) ==
  /\ request[r].at = "sampled"
  /\ HasRate(r) /\ prev = Missing
  /\ lock' = NoRequest
  /\ request' = [request EXCEPT ![r] = [Idle EXCEPT
       !.at = "failed", !.age = request[r].age, !.untimed = request[r].untimed]]
  /\ UNCHANGED <<up, bytes, counters, prev, lead, poll, reported>>

-----------------------------------------------------------------------------
(* get_gpu, get_services, get_babysit, and the answer *)

\* The service answers or refuses at once, or its check has no limit: the time
\* that a walk over the processes takes has passed before.
Check(r) ==
  /\ request[r].at = "checking"
  /\ request[r].todo > 0 /\ request[r].wait = 0
  /\ request' = [request EXCEPT ![r].todo = @ - 1]
  /\ UNCHANGED <<up, bytes, counters, prev, lead, lock, poll, reported>>

\* Mutated form of CheckTakesTime: the service is dropped from the list as its
\* check begins, and once more as it ends.
CheckTakesTimeDropping(r) ==
  /\ request[r].at = "checking"
  /\ request[r].todo > 0 /\ request[r].wait = 0
  /\ \E t \in 1..CHECK_TIMEOUT :
       request' = [request EXCEPT ![r].wait = t, ![r].slow = @ + 1, ![r].todo = @ - 1]
  /\ UNCHANGED <<up, bytes, counters, prev, lead, lock, poll, reported>>

\* The service answers late or, when its check has reached its limit, not at all;
\* the check ends when Tick has counted wait down.
CheckTakesTime(r) ==
  /\ request[r].at = "checking"
  /\ request[r].todo > 0 /\ request[r].wait = 0
  /\ \E t \in 1..CHECK_TIMEOUT :
       request' = [request EXCEPT ![r].wait = t, ![r].slow = @ + 1]
  /\ UNCHANGED <<up, bytes, counters, prev, lead, lock, poll, reported>>

\* The scan returns, or raises when a file goes under it.
Scan(r) ==
  /\ request[r].at = "checking"
  /\ request[r].todo = 0
  /\ \E at \in {"answered", "failed"} : request' = [request EXCEPT ![r].at = at]
  /\ UNCHANGED <<up, bytes, counters, prev, lead, lock, poll, reported>>

\* The answer, 200 or 500, is written; the poll stores a sample or an offline
\* row, if it still waits for this request.
Finish(r) ==
  /\ request[r].at \in {"answered", "failed"}
  /\ poll' = IF poll.request = r
             THEN [request |-> NoRequest,
                   outcome |-> IF request[r].at = "answered" THEN "online" ELSE "error"]
             ELSE poll
  /\ request' = [request EXCEPT ![r] = Idle]
  /\ UNCHANGED <<up, bytes, counters, prev, lead, lock, reported>>

-----------------------------------------------------------------------------
(* poll_host of the server *)

Poll(r) ==
  /\ poll.request = NoRequest
  /\ Arrive(r)
  /\ poll' = [request |-> r, outcome |-> "none"]
  /\ UNCHANGED <<up, bytes, counters, prev, lead, lock, reported>>

\* httpx.ReadTimeout: nothing is written before the answer is complete.
PollTimesOut ==
  /\ \E r \in Requests :
       poll.request = r /\ request[r].age >= POLL_TIMEOUT
  /\ poll' = [request |-> NoRequest, outcome |-> "timeout"]
  /\ UNCHANGED <<up, bytes, counters, prev, lead, lock, request, reported>>

-----------------------------------------------------------------------------
(* The environment. *)

\* Time passes for requests in collectors, checks and the scan, and for those
\* that wait for the lock; what takes no time worth speaking of is done before.
Untimed(r) ==
  request[r].at = "collecting" \/ (request[r].at = "checking" /\ request[r].wait = 0)

Waiting(r) ==
  \/ request[r] = Idle
  \/ Untimed(r)
  \/ request[r].at = "arrived" /\ lock # NoRequest
  \/ request[r].wait > 0

Overdue(r) == poll.request = r /\ request[r].age >= POLL_TIMEOUT

\* One second later, for the request that is nobody's poll its age is no matter.
Later(r) ==
  LET q == request[r]
  IN  IF q = Idle THEN Idle
      ELSE [q EXCEPT !.age = IF poll.request = r THEN @ + 1 ELSE 0,
                     !.untimed = IF poll.request # r THEN 0
                                 ELSE IF Untimed(r) THEN @ + 1 ELSE @,
                     !.wait = IF @ > 0 THEN @ - 1 ELSE 0,
                     !.todo = IF q.wait = 1 THEN @ - 1 ELSE @]

Tick ==
  /\ \A r \in Requests : Waiting(r) /\ ~Overdue(r)
  /\ request' = [r \in Requests |-> Later(r)]
  /\ lead' \in {1} \union (IF lead = -1 THEN {-1, 0} ELSE {})
  /\ UNCHANGED <<up, bytes, counters, prev, lock, poll, reported>>

\* The wall clock is set back.
SetBack ==
  /\ lead' = -1
  /\ request' = [r \in Requests |->
       [request[r] EXCEPT !.setback = request[r].at = "sampled"]]
  /\ UNCHANGED <<up, bytes, counters, prev, lock, poll, reported>>

Transfer ==
  /\ bytes < MaxBytes
  /\ bytes' = bytes + 1
  /\ UNCHANGED <<up, counters, prev, lead, lock, request, poll, reported>>

CountersChange ==
  /\ counters' = ~counters
  /\ UNCHANGED <<up, bytes, prev, lead, lock, request, poll, reported>>

\* The agent dies with its requests; the poll sees the connection close.
Die ==
  /\ up
  /\ up' = FALSE
  /\ lock' = NoRequest
  /\ request' = [r \in Requests |-> Idle]
  /\ poll' = IF poll.request = NoRequest THEN poll
             ELSE [request |-> NoRequest, outcome |-> "error"]
  /\ UNCHANGED <<bytes, counters, prev, lead, reported>>

Start ==
  /\ ~up
  /\ up' = TRUE
  /\ prev' = Counter
  /\ lead' = 0
  /\ UNCHANGED <<bytes, counters, lock, request, poll, reported>>

Handle(r) ==
  \/ Collect(r) \/ Sample(r) \/ StoreSample(r) \/ SampleRaises(r)
  \/ Check(r) \/ Scan(r) \/ Finish(r)

Next ==
  \/ \E r \in Requests : Get(r) \/ Poll(r) \/ Handle(r) \/ CheckTakesTime(r)
  \/ PollTimesOut \/ Tick
  \/ SetBack \/ Transfer \/ CountersChange \/ Die \/ Start

Spec == Init /\ [][Next]_vars

\* Threads run, checks end by their limits and the other work because it is
\* finite, and time passes; a waiter gets the lock if it is released again and
\* again.  Nobody has to ask, and nothing has to be healthy.
Fairness ==
  /\ SF_vars(Tick) /\ WF_vars(PollTimesOut) /\ WF_vars(Start)
  /\ \A r \in Requests :
       /\ WF_vars(Collect(r))
       /\ SF_vars(Sample(r))
       /\ WF_vars(StoreSample(r) \/ SampleRaises(r))
       /\ WF_vars(Check(r) \/ CheckTakesTime(r) \/ Scan(r))
       /\ WF_vars(Finish(r))

FairSpec == Spec /\ Fairness

-----------------------------------------------------------------------------
Request ==
  [at : {"idle", "collecting", "arrived", "sampled", "checking", "answered", "failed"},
   age : 0..POLL_TIMEOUT, sample : 0..MaxBytes \union {Missing}, dt : -1..1,
   setback : BOOLEAN, todo : 0..Services, wait : 0..CHECK_TIMEOUT, slow : Nat,
   untimed : 0..POLL_TIMEOUT]

\* The type invariant: globals and locals of agent.py:95-150 and 516-551.
TypeOK ==
  /\ up \in BOOLEAN
  /\ bytes \in 0..MaxBytes
  /\ counters \in BOOLEAN
  /\ prev \in 0..MaxBytes \union {Missing}
  /\ lead \in -1..1
  /\ lock \in Requests \union {NoRequest}
  /\ request \in [Requests -> Request]
  /\ poll \in [request : Requests \union {NoRequest},
               outcome : {"none", "online", "timeout", "error"}]
  /\ reported \in Nat

\* No byte is part of two rates, however requests overlap, whichever of them the
\* poller has given up, and whatever clock, counters and agent do in between
\* (agent.py:104-128).
BytesCountedOnce == reported <= bytes

\* A poll times out only over its own request's work: CHECK_TIMEOUT at most for
\* each service that was slow, and the time of its collectors, process walks and
\* scan.  What other requests are at, abandoned ones among them, never makes the
\* host look offline, although all share a lock (agent.py:110-111, 240-251,
\* server.py:55).
TimeoutIsOwnWork ==
  \A r \in Requests :
    Overdue(r) =>
      request[r].slow * CHECK_TIMEOUT + request[r].untimed >= POLL_TIMEOUT

\* Every request ends, whoever holds the lock, whatever its sample runs into and
\* however slow its services are: no thread is kept for ever, and the poll of
\* the next cycle finds an agent that answers (agent.py:110-128, 538-551).
RequestsEnd ==
  \A r \in Requests : request[r].at = "collecting" ~> request[r] = Idle
=============================================================================
