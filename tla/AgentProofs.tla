----------------------------- MODULE AgentProofs ------------------------------
(***************************************************************************)
(* Theorems about the agent.  First AgentMetrics, for any number of        *)
(* requests and services, any timeouts and any length of the kernel's      *)
(* count; then Babysit, for any number of runs, projects, pids and scans,  *)
(* and for names that overlap in any way.                                  *)
(***************************************************************************)
EXTENDS AgentMetrics, Babysit, TLAPS

\* The holder of _io_lock is the one request that has read the counters and not
\* stored them.
LockIsSample ==
  \A r \in Requests : lock = r <=> request[r].at = "sampled"

\* What was reported lies below whatever the next rate is computed from.
ReportedBelow ==
  /\ reported <= bytes
  /\ prev # Missing => reported <= prev
  /\ \A r \in Requests :
       request[r].at = "sampled" /\ request[r].sample # Missing =>
         reported <= request[r].sample

SampleBelow ==
  \A r \in Requests :
    request[r].at = "sampled" /\ request[r].sample # Missing => request[r].sample <= bytes

\* The time of a request goes into slow checks and into work without a limit.
Checks ==
  \A r \in Requests :
    /\ request[r].wait > 0 => request[r].at = "checking" /\ request[r].todo > 0
    /\ request[r].at \in {"idle", "collecting", "arrived", "sampled"} => request[r].slow = 0
    /\ request[r].untimed <= request[r].age
    /\ poll.request = r =>
         request[r].age + request[r].wait <=
           request[r].slow * CHECK_TIMEOUT + request[r].untimed

IInv == TypeOK /\ LockIsSample /\ ReportedBelow /\ SampleBelow /\ Checks

-----------------------------------------------------------------------------
LEMMA IdleIsRequest == Idle \in Request
  BY AgentAssumption DEF Idle, Request

LEMMA CounterType == ASSUME TypeOK PROVE Counter \in 0..MaxBytes \union {Missing}
  BY DEF TypeOK, Counter

\* Slow checks add up.
LEMMA SlowTime ==
  \A h \in Nat : /\ h * CHECK_TIMEOUT \in Nat
                 /\ (h + 1) * CHECK_TIMEOUT = h * CHECK_TIMEOUT + CHECK_TIMEOUT
  BY AgentAssumption

LEMMA InitInv == Init => IInv
  <1> SUFFICES ASSUME Init PROVE IInv
    OBVIOUS
  <1>1. TypeOK
    BY AgentAssumption, IdleIsRequest DEF Init, TypeOK, Counter
  <1>2. LockIsSample /\ ReportedBelow /\ SampleBelow
    BY AgentAssumption DEF Init, LockIsSample, ReportedBelow, SampleBelow, Idle, Counter
  <1>3. Checks
    <2> SUFFICES ASSUME NEW r \in Requests
                 PROVE  /\ request[r].wait > 0 => request[r].at = "checking" /\ request[r].todo > 0
                        /\ request[r].at \in {"idle", "collecting", "arrived", "sampled"} => request[r].slow = 0
                        /\ request[r].untimed <= request[r].age
                        /\ poll.request # r
      BY DEF Checks
    <2>1. request[r] = Idle
      BY DEF Init
    <2>2. Idle.wait = 0 /\ Idle.slow = 0 /\ Idle.untimed <= Idle.age
      BY DEF Idle
    <2> QED
      BY <2>1, <2>2, AgentAssumption DEF Init
  <1> QED
    BY <1>1, <1>2, <1>3 DEF IInv

\* What a step must respect that sets the locals of r to q, and no other's.
LocalEffect(r, q) ==
  /\ request' = [request EXCEPT ![r] = q]
  /\ UNCHANGED <<up, bytes, counters>>
  /\ prev' \in 0..MaxBytes \union {Missing}
  /\ lead' \in -1..1
  /\ lock' \in Requests \union {NoRequest}
  /\ reported' \in Nat
  /\ poll' \in [request : Requests \union {NoRequest},
                outcome : {"none", "online", "timeout", "error"}]
  /\ \A s \in Requests \ {r} : /\ lock' = s <=> lock = s
                               /\ poll'.request = s => poll.request = s
  /\ lock' = r <=> q.at = "sampled"
  /\ reported' = reported \/ lock = r
  /\ reported' <= bytes
  /\ prev' # Missing => reported' <= prev'
  /\ q.at = "sampled" /\ q.sample # Missing => reported' <= q.sample /\ q.sample <= bytes
  /\ q.wait > 0 => q.at = "checking" /\ q.todo > 0
  /\ q.at \in {"idle", "collecting", "arrived", "sampled"} => q.slow = 0
  /\ q.untimed <= q.age
  /\ poll'.request = r => q.age + q.wait <= q.slow * CHECK_TIMEOUT + q.untimed

LEMMA LocalStep ==
  ASSUME IInv, NEW r \in Requests, NEW q \in Request, LocalEffect(r, q)
  PROVE  IInv'
  <1>1. /\ request' \in [Requests -> Request]
        /\ request'[r] = q
        /\ \A s \in Requests \ {r} : request'[s] = request[s]
    BY DEF IInv, TypeOK, LocalEffect
  <1>2. TypeOK'
    BY <1>1 DEF IInv, TypeOK, LocalEffect
  <1>3. LockIsSample'
    BY <1>1 DEF IInv, LockIsSample, LocalEffect
  <1>4. ReportedBelow'
    <2> SUFFICES ASSUME NEW s \in Requests \ {r}, request[s].at = "sampled",
                        request[s].sample # Missing
                 PROVE  reported' <= request[s].sample
      BY <1>1 DEF ReportedBelow, LocalEffect
    <2>1. lock # r
      BY DEF IInv, LockIsSample
    <2> QED
      BY <2>1 DEF IInv, ReportedBelow, LocalEffect
  <1>5. Checks'
    BY <1>1 DEF IInv, Checks, LocalEffect
  <1>6. SampleBelow'
    BY <1>1 DEF IInv, SampleBelow, LocalEffect
  <1> QED
    BY <1>2, <1>3, <1>4, <1>5, <1>6 DEF IInv

\* What is known of the values that a step leaves alone.
LEMMA Values ==
  ASSUME IInv
  PROVE  /\ bytes \in 0..MaxBytes
         /\ prev \in 0..MaxBytes \union {Missing}
         /\ lead \in -1..1
         /\ lock \in Requests \union {NoRequest}
         /\ reported \in Nat /\ reported <= bytes
         /\ prev # Missing => reported <= prev
         /\ poll \in [request : Requests \union {NoRequest},
                      outcome : {"none", "online", "timeout", "error"}]
         /\ \A r \in Requests : /\ request[r] \in Request
                                /\ lock = r <=> request[r].at = "sampled"
  BY DEF IInv, TypeOK, ReportedBelow, LockIsSample

-----------------------------------------------------------------------------
LEMMA ArriveInv ==
  ASSUME IInv, NEW r \in Requests, Arrive(r),
         poll' = poll \/ poll' = [request |-> r, outcome |-> "none"],
         UNCHANGED <<up, bytes, counters, prev, lead, lock, reported>>
  PROVE  IInv'
  <1> DEFINE q == [Idle EXCEPT !.at = "collecting"]
  <1>1. request' = [request EXCEPT ![r] = q] /\ lock # r
    BY Values DEF Arrive, Idle
  <1>2. q \in Request
    BY IdleIsRequest DEF Request
  <1>3. q.at = "collecting" /\ q.age = 0 /\ q.wait = 0 /\ q.slow = 0 /\ q.untimed = 0
    BY DEF Idle
  <1>4. 0 + 0 <= 0 * CHECK_TIMEOUT + 0
    BY SlowTime
  <1> HIDE DEF q
  <1>5. LocalEffect(r, q)
    BY <1>1, <1>3, <1>4, Values, AgentAssumption DEF LocalEffect
  <1> QED
    BY <1>2, <1>5, LocalStep

LEMMA CollectInv == ASSUME IInv, NEW r \in Requests, Collect(r) PROVE IInv'
  <1> DEFINE q == [request[r] EXCEPT !.at = "arrived"]
  <1>0. /\ request[r] \in Request /\ request[r].at = "collecting" /\ lock # r
        /\ UNCHANGED <<up, bytes, counters, prev, lead, lock, poll, reported>>
        /\ request' = [request EXCEPT ![r] = q]
    BY Values DEF Collect
  <1>1. /\ request[r].wait = 0 /\ request[r].slow = 0
        /\ request[r].untimed <= request[r].age
        /\ poll.request = r => request[r].age + 0 <= 0 * CHECK_TIMEOUT + request[r].untimed
    BY <1>0 DEF IInv, Checks, Request
  <1>2. q \in Request
    BY <1>0 DEF Request
  <1>3. /\ q.at = "arrived" /\ q.age = request[r].age /\ q.untimed = request[r].untimed
        /\ q.wait = request[r].wait /\ q.slow = request[r].slow
    BY <1>0 DEF Request
  <1> HIDE DEF q
  <1>4. LocalEffect(r, q)
    BY <1>0, <1>1, <1>3, Values, AgentAssumption DEF LocalEffect
  <1> QED
    BY <1>2, <1>4, LocalStep

LEMMA SampleInv == ASSUME IInv, NEW r \in Requests, Sample(r) PROVE IInv'
  <1> DEFINE q == [request[r] EXCEPT !.at = "sampled", !.sample = Counter, !.dt = lead]
  <1>0. /\ request[r] \in Request /\ request[r].at = "arrived" /\ lock = NoRequest /\ lock' = r
        /\ UNCHANGED <<up, bytes, counters, prev, lead, poll, reported>>
        /\ request' = [request EXCEPT ![r] = q]
    BY Values DEF Sample
  <1>1. /\ request[r].wait = 0 /\ request[r].slow = 0
        /\ request[r].untimed <= request[r].age
        /\ poll.request = r => request[r].age + 0 <= 0 * CHECK_TIMEOUT + request[r].untimed
    BY <1>0 DEF IInv, Checks, Request
  <1>2. Counter \in 0..MaxBytes \union {Missing} /\ lead \in -1..1
    BY Values, CounterType DEF IInv
  <1>3. q \in Request
    BY <1>0, <1>2 DEF Request
  <1>4. /\ q.at = "sampled" /\ q.sample = Counter
        /\ q.age = request[r].age /\ q.wait = request[r].wait /\ q.slow = request[r].slow
        /\ q.untimed = request[r].untimed
    BY <1>0 DEF Request
  <1>5. Counter # Missing => reported <= Counter /\ Counter <= bytes
    BY Values DEF Counter
  <1> HIDE DEF q
  <1>6. LocalEffect(r, q)
    BY <1>0, <1>1, <1>4, <1>5, Values, AgentAssumption DEF LocalEffect
  <1> QED
    BY <1>3, <1>6, LocalStep

\* The rate is computed from prev, and prev is what it was computed up to.
LEMMA StoreSampleInv == ASSUME IInv, NEW r \in Requests, StoreSample(r) PROVE IInv'
  <1> DEFINE q == [Idle EXCEPT !.at = "checking", !.age = request[r].age, !.todo = Services,
                                !.untimed = request[r].untimed]
  <1>0. /\ request[r] \in Request /\ request[r].at = "sampled" /\ lock = r /\ lock' = NoRequest
        /\ HasRate(r) => prev # Missing
        /\ reported' = reported + (IF HasRate(r) THEN Delta(r) ELSE 0)
        /\ prev' = request[r].sample
        /\ lead' \in {-1, 0}
        /\ UNCHANGED <<up, bytes, counters, poll>>
        /\ request' = [request EXCEPT ![r] = q]
    BY Values DEF StoreSample
  <1>1. /\ request[r].slow = 0 /\ request[r].wait = 0
        /\ request[r].untimed <= request[r].age
        /\ poll.request = r => request[r].age + 0 <= 0 * CHECK_TIMEOUT + request[r].untimed
    BY <1>0 DEF IInv, Checks, Request
  <1>2. request[r].age \in 0..POLL_TIMEOUT /\ request[r].untimed \in 0..POLL_TIMEOUT
    BY <1>0 DEF Request
  <1>3. q \in Request
    <2>1. Services \in 0..Services
      BY AgentAssumption
    <2> QED
      BY <1>2, <2>1, IdleIsRequest DEF Request
  <1>4. /\ q.at = "checking" /\ q.age = request[r].age /\ q.wait = 0 /\ q.slow = 0
        /\ q.untimed = request[r].untimed
    BY DEF Idle
  <1>5. request[r].sample \in 0..MaxBytes \union {Missing}
    BY <1>0 DEF Request
  <1>6. request[r].sample # Missing => reported <= request[r].sample
    BY <1>0 DEF IInv, ReportedBelow
  <1>7. /\ reported' \in Nat
        /\ prev' # Missing => reported' <= prev'
        /\ reported' <= bytes
    <2>1. CASE HasRate(r)
      <3>1. request[r].sample # Missing /\ request[r].sample <= bytes
        BY <2>1, <1>0 DEF HasRate, IInv, SampleBelow
      <3> QED
        BY <1>0, <1>5, <1>6, <2>1, <3>1, Values, AgentAssumption DEF Delta
    <2>2. CASE ~HasRate(r)
      BY <1>0, <1>5, <1>6, <2>2, Values, AgentAssumption
    <2> QED
      BY <2>1, <2>2
  <1> HIDE DEF q
  <1>8. LocalEffect(r, q)
    BY <1>0, <1>1, <1>4, <1>5, <1>7, Values, AgentAssumption DEF LocalEffect
  <1> QED
    BY <1>3, <1>8, LocalStep

LEMMA SampleRaisesInv == ASSUME IInv, NEW r \in Requests, SampleRaises(r) PROVE IInv'
  <1> DEFINE q == [Idle EXCEPT !.at = "failed", !.age = request[r].age,
                                !.untimed = request[r].untimed]
  <1>0. /\ request[r] \in Request /\ request[r].at = "sampled" /\ lock = r /\ lock' = NoRequest
        /\ UNCHANGED <<up, bytes, counters, prev, lead, poll, reported>>
        /\ request' = [request EXCEPT ![r] = q]
    BY Values DEF SampleRaises
  <1>1. /\ request[r].slow = 0 /\ request[r].wait = 0
        /\ request[r].untimed <= request[r].age
        /\ poll.request = r => request[r].age + 0 <= 0 * CHECK_TIMEOUT + request[r].untimed
    BY <1>0 DEF IInv, Checks, Request
  <1>2. request[r].age \in 0..POLL_TIMEOUT /\ request[r].untimed \in 0..POLL_TIMEOUT
    BY <1>0 DEF Request
  <1>3. q \in Request
    BY <1>2, IdleIsRequest, AgentAssumption DEF Request
  <1>4. /\ q.at = "failed" /\ q.age = request[r].age /\ q.wait = 0 /\ q.slow = 0
        /\ q.untimed = request[r].untimed
    BY DEF Idle
  <1> HIDE DEF q
  <1>5. LocalEffect(r, q)
    BY <1>0, <1>1, <1>4, Values, AgentAssumption DEF LocalEffect
  <1> QED
    BY <1>3, <1>5, LocalStep

-----------------------------------------------------------------------------
LEMMA CheckInv == ASSUME IInv, NEW r \in Requests, Check(r) PROVE IInv'
  <1> DEFINE q == [request[r] EXCEPT !.todo = @ - 1]
  <1>0. /\ request[r] \in Request /\ request[r].at = "checking" /\ lock # r
        /\ request[r].todo > 0 /\ request[r].wait = 0
        /\ UNCHANGED <<up, bytes, counters, prev, lead, lock, poll, reported>>
        /\ request' = [request EXCEPT ![r] = q]
    BY Values DEF Check
  <1>1. /\ request[r].untimed <= request[r].age
        /\ poll.request = r =>
             request[r].age + 0 <= request[r].slow * CHECK_TIMEOUT + request[r].untimed
    BY <1>0 DEF IInv, Checks
  <1>2. q \in Request
    BY <1>0, AgentAssumption DEF Request
  <1>3. /\ q.at = "checking" /\ q.age = request[r].age /\ q.wait = 0
        /\ q.slow = request[r].slow /\ q.untimed = request[r].untimed
    BY <1>0 DEF Request
  <1> HIDE DEF q
  <1>4. LocalEffect(r, q)
    BY <1>0, <1>1, <1>3, Values, AgentAssumption DEF LocalEffect
  <1> QED
    BY <1>2, <1>4, LocalStep

LEMMA CheckTakesTimeInv == ASSUME IInv, NEW r \in Requests, CheckTakesTime(r) PROVE IInv'
  <1>t. PICK t \in 1..CHECK_TIMEOUT :
          request' = [request EXCEPT ![r].wait = t, ![r].slow = @ + 1]
    BY DEF CheckTakesTime
  <1> DEFINE q == [request[r] EXCEPT !.wait = t, !.slow = @ + 1]
  <1>0. /\ request[r] \in Request /\ request[r].at = "checking" /\ lock # r
        /\ request[r].todo > 0 /\ request[r].wait = 0
        /\ UNCHANGED <<up, bytes, counters, prev, lead, lock, poll, reported>>
    BY Values DEF CheckTakesTime
  <1>r. request' = [request EXCEPT ![r] = q]
    BY <1>t DEF IInv, TypeOK
  <1>1. /\ request[r].untimed <= request[r].age
        /\ poll.request = r =>
             request[r].age + 0 <= request[r].slow * CHECK_TIMEOUT + request[r].untimed
    BY <1>0 DEF IInv, Checks
  <1>2. q \in Request
    <2>1. t \in 0..CHECK_TIMEOUT /\ request[r].slow + 1 \in Nat
      BY <1>0, AgentAssumption DEF Request
    <2> QED
      BY <1>0, <2>1 DEF Request
  <1>3. /\ q.at = "checking" /\ q.todo = request[r].todo /\ q.age = request[r].age
        /\ q.wait = t /\ q.slow = request[r].slow + 1 /\ q.untimed = request[r].untimed
    BY <1>0 DEF Request
  <1>4. /\ request[r].slow \in Nat /\ request[r].age \in Nat /\ request[r].untimed \in Nat
        /\ t <= CHECK_TIMEOUT
    BY <1>0 DEF Request
  <1> HIDE DEF q
  <1>5. poll.request = r => q.age + q.wait <= q.slow * CHECK_TIMEOUT + q.untimed
    BY <1>1, <1>3, <1>4, SlowTime, AgentAssumption
  <1>6. LocalEffect(r, q)
    BY <1>0, <1>r, <1>1, <1>3, <1>5, Values, AgentAssumption DEF LocalEffect
  <1> QED
    BY <1>2, <1>6, LocalStep

LEMMA ScanInv == ASSUME IInv, NEW r \in Requests, Scan(r) PROVE IInv'
  <1>1. PICK at \in {"answered", "failed"} : request' = [request EXCEPT ![r].at = at]
    BY DEF Scan
  <1> DEFINE q == [request[r] EXCEPT !.at = at]
  <1>0. /\ request[r] \in Request /\ request[r].at = "checking" /\ lock # r
        /\ request[r].todo = 0
        /\ UNCHANGED <<up, bytes, counters, prev, lead, lock, poll, reported>>
        /\ request' = [request EXCEPT ![r] = q]
    BY <1>1, Values DEF Scan
  <1>2. /\ request[r].wait = 0 /\ request[r].untimed <= request[r].age
        /\ poll.request = r =>
             request[r].age + 0 <= request[r].slow * CHECK_TIMEOUT + request[r].untimed
    BY <1>0 DEF IInv, Checks, Request
  <1>3. q \in Request
    BY <1>0 DEF Request
  <1>4. /\ q.at = at /\ q.age = request[r].age /\ q.wait = 0
        /\ q.slow = request[r].slow /\ q.untimed = request[r].untimed
    BY <1>0, <1>2 DEF Request
  <1> HIDE DEF q
  <1>5. LocalEffect(r, q)
    BY <1>0, <1>2, <1>4, Values, AgentAssumption DEF LocalEffect
  <1> QED
    BY <1>3, <1>5, LocalStep

LEMMA FinishInv == ASSUME IInv, NEW r \in Requests, Finish(r) PROVE IInv'
  <1>1. /\ request' = [request EXCEPT ![r] = Idle] /\ lock # r
        /\ UNCHANGED <<up, bytes, counters, prev, lead, lock, reported>>
    BY Values DEF Finish
  <1>2. Idle.at = "idle" /\ Idle.wait = 0 /\ Idle.age = 0 /\ Idle.slow = 0 /\ Idle.untimed = 0
    BY DEF Idle
  <1>3. /\ poll' \in [request : Requests \union {NoRequest},
                      outcome : {"none", "online", "timeout", "error"}]
        /\ poll'.request # r
        /\ poll'.request \in {poll.request, NoRequest}
    BY Values, AgentAssumption DEF Finish
  <1>4. LocalEffect(r, Idle)
    BY <1>1, <1>2, <1>3, Values, AgentAssumption DEF LocalEffect
  <1> QED
    BY <1>4, IdleIsRequest, LocalStep

-----------------------------------------------------------------------------
LEMMA PollTimesOutInv == ASSUME IInv, PollTimesOut PROVE IInv'
  <1>1. /\ UNCHANGED <<up, bytes, counters, prev, lead, lock, request, reported>>
        /\ poll' = [request |-> NoRequest, outcome |-> "timeout"]
    BY DEF PollTimesOut
  <1>2. TypeOK'
    BY <1>1 DEF IInv, TypeOK
  <1>3. LockIsSample' /\ ReportedBelow' /\ SampleBelow'
    BY <1>1 DEF IInv, LockIsSample, ReportedBelow, SampleBelow
  <1>4. Checks'
    BY <1>1, AgentAssumption DEF IInv, Checks
  <1> QED
    BY <1>2, <1>3, <1>4 DEF IInv

\* Time passes only while whoever is at work waits: for a service, which the
\* request had counted as slow, or for work without a limit, counted as it goes.
LEMMA TickInv == ASSUME IInv, Tick PROVE IInv'
  <1>0. /\ UNCHANGED <<up, bytes, counters, prev, lock, poll, reported>>
        /\ request' = [r \in Requests |-> Later(r)]
        /\ \A r \in Requests : Waiting(r) /\ ~Overdue(r)
    BY DEF Tick
  <1>1. ASSUME NEW r \in Requests
        PROVE  /\ Later(r) \in Request
               /\ Later(r).at = request[r].at /\ Later(r).sample = request[r].sample
               /\ Later(r).slow = request[r].slow
               /\ Later(r).untimed <= Later(r).age
               /\ Later(r).wait > 0 => Later(r).at = "checking" /\ Later(r).todo > 0
               /\ poll.request = r =>
                    Later(r).age + Later(r).wait <=
                      Later(r).slow * CHECK_TIMEOUT + Later(r).untimed
    <2>1. CASE request[r] = Idle
      <3>1. poll.request = r => 0 + 0 <= 0 * CHECK_TIMEOUT + 0
        BY SlowTime
      <3> QED
        BY <2>1, <3>1, IdleIsRequest DEF Later, Idle
    <2>2. CASE request[r] # Idle
      <3> DEFINE q == request[r]
                 age == IF poll.request = r THEN q.age + 1 ELSE 0
                 untimed == IF poll.request # r THEN 0
                            ELSE IF Untimed(r) THEN q.untimed + 1 ELSE q.untimed
                 wait == IF q.wait > 0 THEN q.wait - 1 ELSE 0
                 todo == IF q.wait = 1 THEN q.todo - 1 ELSE q.todo
      <3>1. Later(r) = [q EXCEPT !.age = age, !.untimed = untimed, !.wait = wait,
                                 !.todo = todo]
        BY <2>2 DEF Later
      <3>2. /\ q \in Request /\ q.age \in 0..POLL_TIMEOUT /\ q.todo \in 0..Services
            /\ q.wait \in 0..CHECK_TIMEOUT /\ q.untimed \in 0..POLL_TIMEOUT
            /\ q.slow * CHECK_TIMEOUT \in Nat
        BY Values, SlowTime DEF Request
      <3>3. /\ q.wait > 0 => q.at = "checking" /\ q.todo > 0
            /\ q.untimed <= q.age
        BY DEF IInv, Checks
      <3>4. /\ age \in 0..POLL_TIMEOUT /\ untimed \in 0..POLL_TIMEOUT
            /\ untimed <= age
        <4>1. poll.request = r => q.age < POLL_TIMEOUT
          BY <1>0, <3>2, AgentAssumption DEF Overdue
        <4> QED
          BY <3>2, <3>3, <4>1, AgentAssumption
      <3>5. wait \in 0..CHECK_TIMEOUT /\ todo \in 0..Services
        BY <3>2, <3>3, AgentAssumption
      <3>6. Untimed(r) \/ q.wait > 0
        <4>1. request[r].at = "arrived" => lock = NoRequest
          <5> SUFFICES ASSUME lock # NoRequest PROVE FALSE
            OBVIOUS
          <5>1. lock \in Requests /\ request[lock].at = "sampled"
            BY Values
          <5>2. request[lock] # Idle /\ ~(request[lock].wait > 0) /\ ~Untimed(lock)
            BY <5>1 DEF IInv, Checks, Idle, Untimed
          <5> QED
            BY <1>0, <5>1, <5>2 DEF Waiting
        <4> QED
          BY <1>0, <2>2, <4>1 DEF Waiting
      <3>7. poll.request = r => q.age + q.wait <= q.slow * CHECK_TIMEOUT + q.untimed
        BY DEF IInv, Checks
      <3>8. Later(r) \in Request
        <4> HIDE DEF q, age, untimed, wait, todo
        <4> QED
          BY <3>1, <3>2, <3>4, <3>5 DEF Request
      <3>9. /\ Later(r).at = q.at /\ Later(r).sample = q.sample /\ Later(r).slow = q.slow
            /\ Later(r).age = age /\ Later(r).wait = wait /\ Later(r).todo = todo
            /\ Later(r).untimed = untimed
        <4> HIDE DEF q, age, untimed, wait, todo
        <4> QED
          BY <3>1, <3>2 DEF Request
      <3>10. poll.request = r => age + wait <= q.slow * CHECK_TIMEOUT + untimed
        <4>1. CASE Untimed(r)
          <5>1. q.wait = 0
            BY <3>2, <3>3, <4>1 DEF Untimed
          <5> QED
            BY <3>2, <3>7, <4>1, <5>1
        <4>2. CASE ~Untimed(r)
          BY <3>2, <3>6, <3>7, <4>2
        <4> QED
          BY <4>1, <4>2
      <3>11. wait > 0 => todo > 0 /\ q.at = "checking"
        BY <3>2, <3>3
      <3> HIDE DEF age, untimed, wait, todo
      <3> QED
        BY <3>4, <3>8, <3>9, <3>10, <3>11
    <2> QED
      BY <2>1, <2>2
  <1>2. \A r \in Requests : request'[r] = Later(r)
    BY <1>0
  <1>3. lead' \in -1..1
    BY DEF Tick
  <1>4. TypeOK'
    BY <1>0, <1>1, <1>3 DEF IInv, TypeOK
  <1>5. LockIsSample' /\ ReportedBelow' /\ SampleBelow'
    BY <1>0, <1>1, <1>2 DEF IInv, LockIsSample, ReportedBelow, SampleBelow
  <1>6. Checks'
    BY <1>0, <1>1, <1>2 DEF IInv, Checks
  <1> QED
    BY <1>4, <1>5, <1>6 DEF IInv

LEMMA SetBackInv == ASSUME IInv, SetBack PROVE IInv'
  <1> DEFINE back(r) == [request[r] EXCEPT !.setback = request[r].at = "sampled"]
  <1>1. /\ UNCHANGED <<up, bytes, counters, prev, lock, poll, reported>>
        /\ lead' = -1
        /\ request' = [r \in Requests |-> back(r)]
    BY DEF SetBack
  <1>2. ASSUME NEW r \in Requests
        PROVE  /\ back(r) \in Request
               /\ back(r).at = request[r].at /\ back(r).sample = request[r].sample
               /\ back(r).slow = request[r].slow /\ back(r).wait = request[r].wait
               /\ back(r).untimed = request[r].untimed
               /\ back(r).age = request[r].age /\ back(r).todo = request[r].todo
    BY Values DEF Request
  <1> HIDE DEF back
  <1>3. TypeOK'
    BY <1>1, <1>2 DEF IInv, TypeOK
  <1>4. LockIsSample' /\ ReportedBelow' /\ SampleBelow'
    BY <1>1, <1>2 DEF IInv, LockIsSample, ReportedBelow, SampleBelow
  <1>5. Checks'
    BY <1>1, <1>2 DEF IInv, Checks
  <1> QED
    BY <1>3, <1>4, <1>5 DEF IInv

LEMMA KernelInv == ASSUME IInv, Transfer \/ CountersChange PROVE IInv'
  <1>1. /\ UNCHANGED <<up, prev, lead, lock, request, poll, reported>>
        /\ bytes' \in 0..MaxBytes /\ bytes <= bytes' /\ counters' \in BOOLEAN
    <2>1. CASE Transfer
      BY <2>1, AgentAssumption DEF Transfer, IInv, TypeOK
    <2>2. CASE CountersChange
      <3>1. bytes' \in 0..MaxBytes /\ bytes <= bytes'
        BY <2>2, Values, AgentAssumption DEF CountersChange
      <3>2. counters' \in BOOLEAN
        BY <2>2 DEF CountersChange
      <3> QED
        BY <2>2, <3>1, <3>2 DEF CountersChange
    <2> QED
      BY <2>1, <2>2
  <1>2. TypeOK' /\ LockIsSample' /\ Checks'
    BY <1>1 DEF IInv, TypeOK, LockIsSample, Checks
  <1>3. SampleBelow'
    <2> SUFFICES ASSUME NEW r \in Requests, request[r].at = "sampled", request[r].sample # Missing
                 PROVE  request[r].sample <= bytes'
      BY <1>1 DEF SampleBelow
    <2>1. request[r].sample \in 0..MaxBytes /\ request[r].sample <= bytes
      BY Values DEF IInv, SampleBelow, Request
    <2> QED
      BY <1>1, <2>1, Values, AgentAssumption
  <1>4. ReportedBelow'
    BY <1>1, Values, AgentAssumption DEF IInv, ReportedBelow
  <1> QED
    BY <1>2, <1>3, <1>4 DEF IInv

\* The globals go with the process, and the requests.
LEMMA DieInv == ASSUME IInv, Die PROVE IInv'
  <1>1. /\ UNCHANGED <<bytes, counters, prev, lead, reported>>
        /\ up' = FALSE /\ lock' = NoRequest
        /\ request' = [r \in Requests |-> Idle]
        /\ poll' \in {poll, [request |-> NoRequest, outcome |-> "error"]}
        /\ poll'.request = NoRequest
    BY DEF Die
  <1>2. Idle.at = "idle" /\ Idle.wait = 0 /\ Idle.slow = 0 /\ Idle.untimed <= Idle.age
    BY DEF Idle
  <1>3. TypeOK'
    <2>1. poll' \in [request : Requests \union {NoRequest},
                    outcome : {"none", "online", "timeout", "error"}]
      BY <1>1, Values
    <2>2. request' \in [Requests -> Request]
      BY <1>1, IdleIsRequest
    <2>3. up' \in BOOLEAN
      BY <1>1
    <2> QED
      BY <1>1, <2>1, <2>2, <2>3 DEF IInv, TypeOK
  <1>4. LockIsSample' /\ ReportedBelow' /\ SampleBelow'
    BY <1>1, <1>2, AgentAssumption DEF IInv, LockIsSample, ReportedBelow, SampleBelow
  <1>5. Checks'
    BY <1>1, <1>2, AgentAssumption DEF Checks
  <1> QED
    BY <1>3, <1>4, <1>5 DEF IInv

LEMMA StartInv == ASSUME IInv, Start PROVE IInv'
  <1>1. /\ UNCHANGED <<bytes, counters, lock, request, poll, reported>>
        /\ up' = TRUE /\ prev' = Counter /\ lead' = 0
    BY DEF Start
  <1>2. TypeOK'
    BY <1>1, CounterType DEF IInv, TypeOK
  <1>3. LockIsSample' /\ SampleBelow' /\ Checks'
    BY <1>1 DEF IInv, LockIsSample, SampleBelow, Checks
  <1>4. ReportedBelow'
    BY <1>1 DEF IInv, ReportedBelow, Counter
  <1> QED
    BY <1>2, <1>3, <1>4 DEF IInv

-----------------------------------------------------------------------------
LEMMA NextInv == IInv /\ [Next]_vars => IInv'
  <1> SUFFICES ASSUME IInv, [Next]_vars PROVE IInv'
    OBVIOUS
  <1>1. ASSUME NEW r \in Requests, Get(r) \/ Poll(r) PROVE IInv'
    BY <1>1, ArriveInv DEF Get, Poll
  <1>2. ASSUME NEW r \in Requests, Handle(r) PROVE IInv'
    BY <1>2, CollectInv, SampleInv, StoreSampleInv, SampleRaisesInv, CheckInv, ScanInv, FinishInv
    DEF Handle
  <1>3. ASSUME NEW r \in Requests, CheckTakesTime(r) PROVE IInv'
    BY <1>3, CheckTakesTimeInv
  <1>4. CASE UNCHANGED vars
    BY <1>4 DEF vars, IInv, TypeOK, LockIsSample, ReportedBelow, SampleBelow, Checks
  <1> QED
    BY <1>1, <1>2, <1>3, <1>4, PollTimesOutInv, TickInv, SetBackInv, KernelInv, DieInv, StartInv
    DEF Next

LEMMA SpecInv == Spec => []IInv
  BY InitInv, NextInv, PTL DEF Spec

\* The types of the agent's globals and requests, for any number of requests.
THEOREM RatesAreTyped == Spec => []TypeOK
  <1>1. IInv => TypeOK
    BY DEF IInv
  <1> QED
    BY <1>1, SpecInv, PTL

\* No byte is part of two rates, for any number of overlapping requests
\* (agent.py:104-128).
THEOREM NoByteTwice == Spec => []BytesCountedOnce
  <1>1. IInv => BytesCountedOnce
    BY DEF IInv, ReportedBelow, BytesCountedOnce
  <1> QED
    BY <1>1, SpecInv, PTL

\* A poll runs into its timeout only over its own request's slow checks and
\* unlimited work, for any number of other requests (agent.py:110-111, 240-251,
\* server.py:55).
THEOREM TimeoutsAreOwnWork == Spec => []TimeoutIsOwnWork
  <1>1. IInv => TimeoutIsOwnWork
    <2> SUFFICES ASSUME IInv, NEW r \in Requests, Overdue(r)
                 PROVE  request[r].slow * CHECK_TIMEOUT + request[r].untimed >= POLL_TIMEOUT
      BY DEF TimeoutIsOwnWork
    <2>1. /\ request[r].age \in Nat /\ request[r].wait \in Nat /\ request[r].slow \in Nat
          /\ request[r].untimed \in Nat
          /\ request[r].age >= POLL_TIMEOUT
          /\ request[r].age + request[r].wait <=
               request[r].slow * CHECK_TIMEOUT + request[r].untimed
      BY Values DEF IInv, Checks, Overdue, Request
    <2>2. /\ CHECK_TIMEOUT \in Nat /\ POLL_TIMEOUT \in Nat
          /\ request[r].slow * CHECK_TIMEOUT \in Int
      BY <2>1, SlowTime, AgentAssumption
    <2> QED
      BY <2>1, <2>2
  <1> QED
    BY <1>1, SpecInv, PTL

-----------------------------------------------------------------------------
\* One instance came before another: it was over when the other started.
Before(q, r) == ~Lives(q) /\ log[q].mtime < log[r].started

\* What babysit.sh keeps in the directory.  A pid and a time name one run; the
\* runs of a project follow each other; the last one has a stop file for as long
\* as it lives, and none once it has finished.
Directory ==
  /\ \A r \in Logs :
       /\ 0 <= log[r].started /\ log[r].started <= log[r].mtime /\ log[r].mtime <= now
       /\ Lives(r) => stop[log[r].project] # NoFile /\ log[r].reason = "none"
       /\ LastOfProject(r) /\ log[r].reason = "finished" => stop[log[r].project] = NoFile
  /\ \A i \in Pids :
       process[i] # NoProcess => process[i] \in Logs /\ log[process[i]].pid = i
  /\ \A q, r \in Logs :
       /\ log[q].pid = log[r].pid /\ log[q].started = log[r].started => q = r
       /\ log[q].project = log[r].project => q = r \/ Before(q, r) \/ Before(r, q)

\* The answer will have to show this run.
Due(s, r) ==
  /\ Observable(log[r].project) /\ LastOfProject(r)
  /\ r \in scan[s].live \/ log[r].started < scan[s].begun
  /\ \/ Lives(r)
     \/ log[r].reason = "finished" /\ log[r].mtime >= scan[s].begun - FINISHED_WINDOW

\* It will, when its stop file is looked at or, if it has finished, its log.
Pending(s, r) ==
  \/ scan[s].at = "stops" /\ (Lives(r) => log[r].project \in scan[s].todo)
  \/ scan[s].at = "logs" /\ ~Lives(r) /\ r \in scan[s].todo

HasLived(s, r) == r \in scan[s].live \/ log[r].started >= scan[s].begun

SaysTrue(s) ==
  /\ scan[s].begun <= now /\ scan[s].live \subseteq Logs
  /\ \A r \in Logs : Lives(r) => HasLived(s, r)
  /\ \A e \in scan[s].out :
       e.run \in Logs /\ (e.state \in {"running", "backoff"} => HasLived(s, e.run))

SaysAll(s) == \A r \in Logs : Due(s, r) => Surfaces(s, r) \/ Pending(s, r)

Progress ==
  [at : {"idle", "stops", "logs", "answered", "failed"}, begun : Int,
   todo : SUBSET (Projects \union Runs), out : SUBSET Entries, live : SUBSET Runs]

DirInv ==
  /\ ScanTypeOK
  /\ scan \in [Scans -> Progress]
  /\ Directory
  /\ \A s \in Scans : SaysTrue(s)

AllInv == \A s \in Scans : SaysAll(s)

-----------------------------------------------------------------------------
(* The directory: what an instance does to it. *)

LEMMA RunIsAt ==
  ASSUME ScanTypeOK, NEW r \in Logs
  PROVE  /\ r \in Runs /\ log[r] \in Log
         /\ log[r].project \in Projects /\ log[r].pid \in Pids
         /\ log[r].started \in Int /\ log[r].mtime \in Int
BY DEF ScanTypeOK, Logs, Log

\* What a step of an instance, or of time, may do to what scans look for.
Effect ==
  /\ now \in Int /\ now' \in Int /\ now <= now'
  /\ \A r \in Logs :
       /\ r \in Logs'
       /\ log'[r].project = log[r].project /\ log'[r].started = log[r].started
       /\ Lives(r)' => Lives(r)
       /\ LastOfProject(r)' => LastOfProject(r)
       /\ log'[r].reason = "finished" =>
            Lives(r) \/ (log[r].reason = "finished" /\ log'[r].mtime = log[r].mtime)
  /\ \A r \in Logs' \ Logs : log'[r].started \in Int /\ now <= log'[r].started
  /\ UNCHANGED scan

\* The scans under way do not notice.
LEMMA EffectKeepsTruth ==
  ASSUME ScanTypeOK, scan \in [Scans -> Progress], Effect,
         NEW s \in Scans, SaysTrue(s)
  PROVE  SaysTrue(s)'
<1>1. scan[s].begun \in Int /\ scan' = scan
  BY DEF Progress, Effect
<1>2. scan[s].begun <= now'
  BY <1>1 DEF SaysTrue, Effect
<1>3. scan[s].live \subseteq Logs'
  BY DEF SaysTrue, Effect
<1>4. ASSUME NEW r \in Logs', Lives(r)' PROVE HasLived(s, r)'
  <2>1. CASE r \in Logs
    BY <1>1, <1>4, <2>1 DEF SaysTrue, HasLived, Effect
  <2>2. CASE r \notin Logs
    BY <1>1, <1>4, <2>2 DEF SaysTrue, HasLived, Effect
  <2> QED BY <2>1, <2>2
<1>5. ASSUME NEW e \in scan[s].out
      PROVE  e.run \in Logs' /\ (e.state \in {"running", "backoff"} => HasLived(s, e.run)')
  BY <1>1, <1>5 DEF SaysTrue, HasLived, Effect
<1> QED BY <1>1, <1>2, <1>3, <1>4, <1>5 DEF SaysTrue

LEMMA EffectKeepsAll ==
  ASSUME ScanTypeOK, scan \in [Scans -> Progress], Effect,
         NEW s \in Scans, SaysTrue(s), SaysAll(s)
  PROVE  SaysAll(s)'
<1>1. scan[s].begun \in Int /\ scan' = scan
  BY DEF Progress, Effect
<1> SUFFICES ASSUME NEW r \in Logs', Due(s, r)' PROVE Surfaces(s, r)' \/ Pending(s, r)'
  BY DEF SaysAll
<1>2. r \in Logs
  BY <1>1 DEF Due, Effect, SaysTrue
<1>3. Due(s, r)
  BY <1>1, <1>2 DEF Due, Effect
<1>4. Surfaces(s, r) \/ Pending(s, r)
  BY <1>2, <1>3 DEF SaysAll
<1>5. scan[s].at = "logs" /\ Lives(r) => Surfaces(s, r)
  BY <1>4 DEF Pending
<1> QED BY <1>1, <1>2, <1>4 DEF Surfaces, Pending, Effect

DirTypes ==
  /\ now \in 0..MaxClock
  /\ log \in [Runs -> Log \union {NoLog}]
  /\ stop \in [Projects -> Int \union {NoFile}]
  /\ process \in [Pids -> Runs \union {NoProcess}]
  /\ emitted \subseteq Projects

LEMMA EffectKeepsInv ==
  ASSUME DirInv, Effect, DirTypes', Directory'
  PROVE  DirInv' /\ (AllInv => AllInv')
<1>1. ScanTypeOK /\ scan \in [Scans -> Progress] /\ scan' = scan
  BY DEF DirInv, Effect
<1>2. Logs \subseteq Logs'
  BY DEF Effect
<1>3. ScanTypeOK'
  BY <1>1, <1>2 DEF ScanTypeOK, DirTypes, Entries, States
<1>4. \A s \in Scans : SaysTrue(s)'
  BY <1>1, EffectKeepsTruth DEF DirInv
<1>5. AllInv => AllInv'
  BY <1>1, EffectKeepsAll DEF DirInv, AllInv
<1> QED BY <1>1, <1>3, <1>4, <1>5 DEF DirInv, Progress, Entries

\* What lives is the last of its project.
LEMMA LiveIsLast ==
  ASSUME DirInv, NEW r \in Logs, Lives(r)
  PROVE  /\ LastOfProject(r)
         /\ \A q \in Logs : q # r /\ log[q].project = log[r].project => Before(q, r)
<1>1. \A q \in Logs : q # r /\ log[q].project = log[r].project => Before(q, r)
  BY DEF DirInv, Directory, Before
<1>2. ASSUME NEW q \in Logs, log[q].project = log[r].project
      PROVE  log[q].started <= log[r].started
  BY <1>1, <1>2, RunIsAt DEF DirInv, Directory, Before
<1> QED BY <1>1, <1>2 DEF LastOfProject

\* A run that is alive writes to its log.
LEMMA WriteKeeps ==
  ASSUME DirInv, NEW r \in Runs, Lives(r), NEW l \in Log,
         log' = [log EXCEPT ![r] = l],
         l.project = log[r].project, l.pid = log[r].pid, l.started = log[r].started,
         l.mtime = now, l.reason = log[r].reason,
         UNCHANGED <<now, stop, process, emitted, scan>>
  PROVE  DirInv' /\ (AllInv => AllInv')
<1>1. ScanTypeOK /\ Directory /\ r \in Logs
  BY DEF DirInv, Lives, Logs
<1>2. log'[r] = l /\ \A q \in Runs : q # r => log'[q] = log[q]
  BY <1>1 DEF ScanTypeOK
<1>3. l # NoLog /\ now \in Int
  BY <1>1, ScanAssumption DEF ScanTypeOK
<1>4. Logs' = Logs
  BY <1>1, <1>2, <1>3 DEF Logs
<1>5. \A q \in Logs : /\ log'[q].project = log[q].project /\ log'[q].pid = log[q].pid
                      /\ log'[q].started = log[q].started /\ log'[q].reason = log[q].reason
                      /\ (q # r => log'[q].mtime = log[q].mtime) /\ q \in Runs
  BY <1>2 DEF Logs
<1>6. \A q \in Logs : Lives(q)' <=> Lives(q)
  BY <1>4, <1>5 DEF Lives, Logs
<1>7. \A q \in Logs : LastOfProject(q)' <=> LastOfProject(q)
  BY <1>4, <1>5 DEF LastOfProject
<1>8. log[r].started <= now /\ 0 <= log[r].started
  BY <1>1, <1>3, RunIsAt DEF Directory
<1>9. DirTypes'
  BY <1>1 DEF ScanTypeOK, DirTypes, Log
<1>10. Effect
  BY <1>3, <1>4, <1>5, <1>6, <1>7 DEF Effect, DirInv, Directory
<1>11. Directory'
  <2>1. ASSUME NEW q \in Logs
        PROVE  /\ 0 <= log'[q].started /\ log'[q].started <= log'[q].mtime
               /\ log'[q].mtime <= now'
    BY <1>1, <1>2, <1>3, <1>5, <1>8, <2>1 DEF Directory
  <2>2. ASSUME NEW q \in Logs, NEW t \in Logs, log[q].project = log[t].project, q # t,
               Before(q, t)
        PROVE  Before(q, t)'
    BY <1>5, <1>6, <2>2 DEF Before
  <2> QED BY <1>1, <1>4, <1>5, <1>6, <1>7, <2>1, <2>2 DEF Directory
<1> QED BY <1>9, <1>10, <1>11, EffectKeepsInv

\* A run that is alive ends: it says why and takes its stop file away, or does not.
LEMMA EndKeeps ==
  ASSUME DirInv, NEW r \in Runs, Conclude(r) \/ Crash(r)
  PROVE  DirInv' /\ (AllInv => AllInv')
<1>1. ScanTypeOK /\ Directory /\ r \in Logs /\ Lives(r) /\ now \in Int
  BY DEF DirInv, Lives, Logs, Conclude, Crash, ScanTypeOK
<1>2. /\ process' = [process EXCEPT ![log[r].pid] = NoProcess]
      /\ UNCHANGED <<now, emitted, scan>>
  BY DEF Conclude, Crash
<1>3. \/ /\ log' = [log EXCEPT ![r].reason = "finished", ![r].mtime = now]
         /\ stop' = [stop EXCEPT ![log[r].project] = NoFile]
      \/ UNCHANGED <<log, stop>>
  BY DEF Conclude, Crash
<1>4. log[r] \in Log /\ log[r].pid \in Pids /\ log[r].project \in Projects
  BY <1>1, RunIsAt
<1>5. /\ log' \in [Runs -> Log \union {NoLog}]
      /\ \A q \in Runs : q # r => log'[q] = log[q]
      /\ log'[r] = log[r] \/ log'[r] = [log[r] EXCEPT !.reason = "finished", !.mtime = now]
      /\ log'[r] \in Log
  <2>1. [log[r] EXCEPT !.reason = "finished", !.mtime = now] \in Log
    BY <1>1, <1>4 DEF Log, Reasons
  <2>2. CASE log' = [log EXCEPT ![r].reason = "finished", ![r].mtime = now]
    <3>1. log' = [log EXCEPT ![r] = [log[r] EXCEPT !.reason = "finished", !.mtime = now]]
      BY <1>1, <1>4, <2>2 DEF ScanTypeOK, Log
    <3> QED BY <1>1, <2>1, <3>1 DEF ScanTypeOK
  <2>3. CASE log' = log
    BY <1>1, <1>4, <2>3 DEF ScanTypeOK
  <2> QED BY <1>3, <2>2, <2>3
<1>6. Logs' = Logs
  BY <1>1, <1>5, ScanAssumption DEF Logs
<1>7. \A q \in Logs :
        /\ log'[q].project = log[q].project /\ log'[q].pid = log[q].pid
        /\ log'[q].started = log[q].started
        /\ q # r => log'[q].mtime = log[q].mtime /\ log'[q].reason = log[q].reason
        /\ q \in Runs
  <2>1. /\ log'[r].project = log[r].project /\ log'[r].pid = log[r].pid
        /\ log'[r].started = log[r].started /\ log'[r].mtime \in {now, log[r].mtime}
    BY <1>4, <1>5 DEF Log
  <2> QED BY <1>5, <2>1 DEF Logs
<1>8. ~Lives(r)' /\ \A q \in Logs : Lives(q)' => Lives(q) /\ q # r
  BY <1>1, <1>2, <1>4, <1>6, <1>7, ScanAssumption DEF Lives, Logs, ScanTypeOK
<1>9. \A q \in Logs : q # r /\ Lives(q) => Lives(q)'
  BY <1>1, <1>2, <1>4, <1>6, <1>7, ScanAssumption DEF Lives, Logs, ScanTypeOK, Directory
<1>10. \A q \in Logs : LastOfProject(q)' <=> LastOfProject(q)
  BY <1>6, <1>7 DEF LastOfProject
<1>11. DirTypes'
  BY <1>1, <1>2, <1>3, <1>4, <1>5 DEF ScanTypeOK, DirTypes
<1>12. Effect
  <2>1. ASSUME NEW q \in Logs
        PROVE  /\ q \in Logs'
               /\ log'[q].project = log[q].project /\ log'[q].started = log[q].started
               /\ Lives(q)' => Lives(q)
               /\ LastOfProject(q)' => LastOfProject(q)
               /\ log'[q].reason = "finished" =>
                    Lives(q) \/ (log[q].reason = "finished" /\ log'[q].mtime = log[q].mtime)
    <3>1. q \in Logs' /\ (Lives(q)' => Lives(q)) /\ (LastOfProject(q)' => LastOfProject(q))
      BY <1>6, <1>8, <1>10, <2>1
    <3>2. CASE q = r
      BY <1>1, <1>7, <2>1, <3>1, <3>2
    <3>3. CASE q # r
      BY <1>7, <2>1, <3>1, <3>3
    <3> QED BY <3>2, <3>3
  <2>2. now \in Int /\ now' \in Int /\ now <= now' /\ UNCHANGED scan
    BY <1>1, <1>2
  <2>3. \A q \in Logs' \ Logs : log'[q].started \in Int /\ now <= log'[q].started
    BY <1>6
  <2> QED BY <2>1, <2>2, <2>3 DEF Effect
<1>13. Directory'
  <2>1. ASSUME NEW q \in Logs
        PROVE  /\ 0 <= log'[q].started /\ log'[q].started <= log'[q].mtime
               /\ log'[q].mtime <= now'
    <3>1. log[q].mtime <= now /\ log[q].started <= now
      BY <1>1, RunIsAt DEF Directory
    <3>2. log'[q].mtime \in {now, log[q].mtime}
      <4>1. log'[r].mtime \in {now, log[r].mtime}
        BY <1>4, <1>5 DEF Log
      <4> QED BY <1>7, <2>1, <4>1
    <3> QED BY <1>1, <1>2, <1>7, <3>1, <3>2 DEF Directory
  <2>2. ASSUME NEW q \in Logs, Lives(q)'
        PROVE  stop'[log'[q].project] # NoFile /\ log'[q].reason = "none"
    <3>1. q # r /\ Lives(q) /\ log[q].project # log[r].project
      BY <1>1, <1>8, <2>2, LiveIsLast DEF Before
    <3> QED BY <1>1, <1>3, <1>4, <1>7, <3>1, RunIsAt DEF Directory, ScanTypeOK
  <2>3. ASSUME NEW q \in Logs, LastOfProject(q)', log'[q].reason = "finished"
        PROVE  stop'[log'[q].project] = NoFile
    <3>1. CASE UNCHANGED <<log, stop>>
      BY <1>1, <1>10, <2>3, <3>1 DEF Directory
    <3>2. CASE stop' = [stop EXCEPT ![log[r].project] = NoFile]
      BY <1>1, <1>4, <1>7, <1>10, <2>3, <3>2, RunIsAt DEF Directory, ScanTypeOK
    <3> QED BY <1>3, <3>1, <3>2
  <2>4. ASSUME NEW i \in Pids, process'[i] # NoProcess
        PROVE  process'[i] \in Logs /\ log'[process'[i]].pid = i
    <3>1. process'[i] = process[i]
      BY <1>1, <1>2, <1>4, <2>4 DEF ScanTypeOK
    <3> QED BY <1>1, <1>7, <2>4, <3>1 DEF Directory
  <2>5. ASSUME NEW q \in Logs, NEW t \in Logs, q # t, log[q].project = log[t].project
        PROVE  Before(q, t)' \/ Before(t, q)'
    <3>1. CASE q = r
      BY <1>1, <1>7, <1>8, <2>5, <3>1, LiveIsLast DEF Before
    <3>2. CASE t = r
      BY <1>1, <1>7, <1>8, <2>5, <3>2, LiveIsLast DEF Before
    <3>3. CASE q # r /\ t # r
      BY <1>1, <1>7, <1>8, <2>5, <3>3 DEF Before, Directory
    <3> QED BY <3>1, <3>2, <3>3
  <2>6. ASSUME NEW q \in Logs, NEW t \in Logs,
               log'[q].pid = log'[t].pid, log'[q].started = log'[t].started
        PROVE  q = t
    BY <1>1, <1>7, <2>6 DEF Directory
  <2> QED BY <1>6, <1>7, <2>1, <2>2, <2>3, <2>4, <2>5, <2>6 DEF Directory
<1> QED BY <1>11, <1>12, <1>13, EffectKeepsInv

LEMMA LaunchKeeps ==
  ASSUME DirInv, NEW r \in Runs, NEW p \in Projects, NEW i \in Pids, Launch(r, p, i)
  PROVE  DirInv' /\ (AllInv => AllInv')
<1> DEFINE l == [project |-> p, pid |-> i, started |-> now, mtime |-> now,
                 throttled |-> FALSE, reason |-> "none"]
<1>1. /\ ScanTypeOK /\ Directory /\ now \in Int /\ 0 <= now
      /\ r \notin Logs /\ process[i] = NoProcess
      /\ UNCHANGED <<now, emitted, scan>>
  BY DEF DirInv, ScanTypeOK, Launch, Logs
<1>2. l \in Log /\ l # NoLog
  <2>1. l \in Log
    BY <1>1 DEF Log, Reasons
  <2> QED BY <2>1, ScanAssumption
<1>3. log' = [log EXCEPT ![r] = l] /\ stop' = [stop EXCEPT ![p] = now]
      /\ process' = [process EXCEPT ![i] = r]
  BY DEF Launch
<1>4. log'[r] = l /\ \A q \in Runs : q # r => log'[q] = log[q]
  BY <1>1, <1>3 DEF ScanTypeOK
<1>5. Logs' = Logs \union {r} /\ \A q \in Logs : q \in Runs /\ q # r /\ log'[q] = log[q]
  BY <1>1, <1>2, <1>4 DEF Logs
<1>6. \A q \in Logs : Lives(q)' <=> Lives(q)
  BY <1>1, <1>3, <1>5, RunIsAt, ScanAssumption DEF Lives, Logs, ScanTypeOK
<1>7. \A q \in Logs :
        /\ log[q].project = p => ~Lives(q) /\ log[q].mtime < now
        /\ log[q].pid = i => log[q].started < now
  BY DEF Launch
<1>8. \A q \in Logs : LastOfProject(q)' => LastOfProject(q) /\ log[q].project # p
  <2>1. ASSUME NEW q \in Logs, LastOfProject(q)', log[q].project = p PROVE FALSE
    <3>1. log'[r].started <= log'[q].started
      BY <1>4, <1>5, <2>1 DEF LastOfProject
    <3>2. log[q].started < now
      BY <1>1, <1>7, <2>1, RunIsAt DEF Directory
    <3> QED BY <1>1, <1>4, <1>5, <3>1, <3>2, RunIsAt
  <2> QED BY <1>5, <2>1 DEF LastOfProject
<1>9. DirTypes'
  BY <1>1, <1>2, <1>3 DEF ScanTypeOK, DirTypes
<1>10. Effect
  BY <1>1, <1>4, <1>5, <1>6, <1>8 DEF Effect
<1>11. Directory'
  <2>1. ASSUME NEW q \in Logs'
        PROVE  /\ 0 <= log'[q].started /\ log'[q].started <= log'[q].mtime
               /\ log'[q].mtime <= now'
    BY <1>1, <1>4, <1>5, <2>1 DEF Directory
  <2>2. ASSUME NEW q \in Logs', Lives(q)'
        PROVE  stop'[log'[q].project] # NoFile /\ log'[q].reason = "none"
    <3>1. CASE q = r
      BY <1>1, <1>3, <1>4, <3>1, ScanAssumption DEF ScanTypeOK
    <3>2. CASE q \in Logs
      BY <1>1, <1>3, <1>5, <1>6, <1>7, <2>2, <3>2, RunIsAt DEF Directory, ScanTypeOK
    <3> QED BY <1>5, <3>1, <3>2
  <2>3. ASSUME NEW q \in Logs', LastOfProject(q)', log'[q].reason = "finished"
        PROVE  stop'[log'[q].project] = NoFile
    <3>1. q \in Logs /\ LastOfProject(q) /\ log[q].project # p
      BY <1>4, <1>5, <1>8, <2>3
    <3> QED BY <1>1, <1>3, <1>5, <2>3, <3>1, RunIsAt DEF Directory, ScanTypeOK
  <2>4. ASSUME NEW j \in Pids, process'[j] # NoProcess
        PROVE  process'[j] \in Logs' /\ log'[process'[j]].pid = j
    BY <1>1, <1>3, <1>4, <1>5, <2>4 DEF Directory, ScanTypeOK
  <2>5. ASSUME NEW q \in Logs', NEW t \in Logs', q # t, log'[q].project = log'[t].project
        PROVE  Before(q, t)' \/ Before(t, q)'
    <3>1. \A x \in Logs : log[x].project = p => Before(x, r)'
      BY <1>4, <1>5, <1>6, <1>7 DEF Before
    <3>2. CASE q \in Logs /\ t \in Logs
      BY <1>1, <1>5, <1>6, <2>5, <3>2 DEF Before, Directory
    <3> QED BY <1>4, <1>5, <2>5, <3>1, <3>2
  <2>6. ASSUME NEW q \in Logs', NEW t \in Logs',
               log'[q].pid = log'[t].pid, log'[q].started = log'[t].started
        PROVE  q = t
    <3>1. \A x \in Logs : ~(log'[x].pid = i /\ log'[x].started = now)
      BY <1>1, <1>5, <1>7, RunIsAt
    <3> QED BY <1>1, <1>4, <1>5, <2>6, <3>1 DEF Directory
  <2> QED BY <2>1, <2>2, <2>3, <2>4, <2>5, <2>6 DEF Directory
<1> QED BY <1>9, <1>10, <1>11, EffectKeepsInv

LEMMA TimeKeeps ==
  ASSUME DirInv, TimePasses
  PROVE  DirInv' /\ (AllInv => AllInv')
<1>1. ScanTypeOK /\ Directory /\ now \in Int /\ now' = now + 1 /\ now' \in 0..MaxClock
  BY ScanAssumption DEF DirInv, ScanTypeOK, TimePasses
<1>2. UNCHANGED <<log, stop, process, emitted, scan>>
  BY DEF TimePasses
<1>3. Logs' = Logs /\ \A r \in Runs : Lives(r)' <=> Lives(r)
  BY <1>2 DEF Logs, Lives
<1>4. \A r \in Runs : LastOfProject(r)' <=> LastOfProject(r)
  BY <1>2, <1>3 DEF LastOfProject
<1>5. DirTypes'
  BY <1>1, <1>2 DEF ScanTypeOK, DirTypes
<1>6. Effect
  BY <1>1, <1>2, <1>3, <1>4 DEF Effect, Logs
<1>7. Directory'
  <2>1. \A r \in Logs : log[r].mtime <= now'
    BY <1>1, RunIsAt DEF Directory
  <2>2. \A q, r \in Logs : Before(q, r) => Before(q, r)'
    BY <1>2, <1>3 DEF Before, Logs
  <2> QED BY <1>1, <1>2, <1>3, <1>4, <2>1, <2>2 DEF Directory, Logs
<1> QED BY <1>5, <1>6, <1>7, EffectKeepsInv

-----------------------------------------------------------------------------
(* The scan. *)

Still == UNCHANGED <<now, log, stop, process>>

LEMMA StillMeansSame ==
  ASSUME Still
  PROVE  /\ Logs' = Logs
         /\ \A r \in Runs : (Lives(r)' <=> Lives(r)) /\ (LastOfProject(r)' <=> LastOfProject(r))
         /\ Directory => Directory'
<1>1. Logs' = Logs /\ \A r \in Runs : Lives(r)' <=> Lives(r)
  BY DEF Still, Logs, Lives
<1>2. \A r \in Runs : LastOfProject(r)' <=> LastOfProject(r)
  BY <1>1 DEF Still, LastOfProject
<1>3. Directory => Directory'
  <2>1. \A q, r \in Logs : Before(q, r)' <=> Before(q, r)
    BY <1>1 DEF Still, Before, Logs
  <2> QED BY <1>1, <1>2, <2>1 DEF Still, Directory, Logs
<1> QED BY <1>1, <1>2, <1>3

\* A step of one scan leaves the others as they are.
LEMMA ScanStepKeeps ==
  ASSUME DirInv, Still, NEW s \in Scans, NEW q \in Progress,
         scan' = [scan EXCEPT ![s] = q],
         q.todo \subseteq (IF q.at = "logs" THEN Logs ELSE Projects),
         emitted' \subseteq Projects, SaysTrue(s)'
  PROVE  DirInv' /\ (AllInv /\ SaysAll(s)' => AllInv')
<1>1. ScanTypeOK /\ scan \in [Scans -> Progress] /\ Directory
  BY DEF DirInv
<1>2. scan' \in [Scans -> Progress] /\ scan'[s] = q
      /\ \A t \in Scans : t # s => scan'[t] = scan[t]
  BY <1>1
<1>3. Logs' = Logs /\ Logs \subseteq Runs /\ Directory'
      /\ \A r \in Runs : (Lives(r)' <=> Lives(r)) /\ (LastOfProject(r)' <=> LastOfProject(r))
  BY <1>1, StillMeansSame DEF Logs
<1>4. ScanTypeOK'
  BY <1>1, <1>2, <1>3 DEF ScanTypeOK, Still, Progress, Entries, States
<1>5. ASSUME NEW t \in Scans, t # s PROVE SaysTrue(t)' /\ (SaysAll(t) => SaysAll(t)')
  <2>1. SaysTrue(t) /\ scan'[t] = scan[t]
    BY <1>2, <1>5 DEF DirInv
  <2>2. SaysTrue(t)'
    BY <1>3, <2>1 DEF SaysTrue, HasLived, Still
  <2>3. \A r \in Logs : (Due(t, r)' => Due(t, r)) /\ (Surfaces(t, r) => Surfaces(t, r)')
                        /\ (Pending(t, r) => Pending(t, r)')
    BY <1>3, <2>1 DEF Due, Surfaces, Pending, Still
  <2> QED BY <1>3, <2>2, <2>3 DEF SaysAll
<1>6. DirInv'
  BY <1>2, <1>3, <1>4, <1>5 DEF DirInv, Progress, Entries
<1> QED BY <1>5, <1>6 DEF AllInv

LEMMA NoScanSaysNothing ==
  ASSUME ScanTypeOK', Directory', NEW s \in Scans, scan'[s].begun = 0,
         scan'[s].live = {}, scan'[s].out = {}
  PROVE  SaysTrue(s)' /\ SaysAll(s)'
<1>1. \A r \in Logs' : log'[r].started \in Int /\ 0 <= log'[r].started
  BY DEF ScanTypeOK, Directory, Logs, Log
<1>2. 0 <= now'
  BY DEF ScanTypeOK
<1> QED BY <1>1, <1>2 DEF SaysTrue, SaysAll, Due, HasLived

LEMMA NoScanType == NoScan \in Progress /\ [NoScan EXCEPT !.at = "failed"] \in Progress
BY DEF NoScan, Progress

\* When x is looked at, it is the turn of r to be shown.
TurnOf(s, x, r) ==
  \/ scan[s].at = "stops" /\ Lives(r) /\ log[r].project = x
  \/ scan[s].at = "logs" /\ ~Lives(r) /\ r = x

Shows(entries, r) == \E e \in entries : e.run = r /\ e.state # "crashed"

\* An entry for x, of the stop files or of the logs.
LEMMA AdvanceKeeps ==
  ASSUME DirInv, Still, NEW s \in Scans, NEW x, NEW entries \in SUBSET Entries,
         scan[s].at \in {"stops", "logs"}, Advance(s, x, entries),
         emitted' \subseteq Projects,
         \A e \in entries :
           e.run \in Logs /\ (e.state \in {"running", "backoff"} => HasLived(s, e.run))
  PROVE  /\ DirInv'
         /\ AllInv /\ (\A r \in Logs : Due(s, r) /\ TurnOf(s, x, r) => Shows(entries, r))
              => AllInv'
<1> DEFINE q == [scan[s] EXCEPT !.todo = @ \ {x}, !.out = @ \union entries]
<1>1. ScanTypeOK /\ Directory /\ SaysTrue(s) /\ scan \in [Scans -> Progress]
  BY DEF DirInv
<1>2. q \in Progress /\ q.at = scan[s].at /\ q.begun = scan[s].begun /\ q.live = scan[s].live
      /\ q.todo = scan[s].todo \ {x} /\ q.out = scan[s].out \union entries
  BY <1>1 DEF Progress
<1>3. scan' = [scan EXCEPT ![s] = q]
  BY <1>1 DEF Advance
<1> HIDE DEF q
<1>4. scan'[s] = q
  BY <1>1, <1>3
<1>5. Logs' = Logs /\ Logs \subseteq Runs
      /\ \A r \in Runs : (Lives(r)' <=> Lives(r)) /\ (LastOfProject(r)' <=> LastOfProject(r))
  BY StillMeansSame DEF Logs
<1>6. \A r \in Logs : HasLived(s, r)' <=> HasLived(s, r)
  BY <1>2, <1>4 DEF HasLived, Still
<1>7. SaysTrue(s)'
  BY <1>1, <1>2, <1>4, <1>5, <1>6 DEF SaysTrue, Still
<1>8. q.todo \subseteq (IF q.at = "logs" THEN Logs ELSE Projects)
  BY <1>1, <1>2 DEF ScanTypeOK
<1>9. DirInv' /\ (AllInv /\ SaysAll(s)' => AllInv')
  BY <1>2, <1>3, <1>7, <1>8, ScanStepKeeps
<1>10. SUFFICES ASSUME AllInv, NEW r \in Logs, Due(s, r)',
                       Due(s, r) /\ TurnOf(s, x, r) => Shows(entries, r)
               PROVE  Surfaces(s, r)' \/ Pending(s, r)'
  BY <1>5, <1>9 DEF SaysAll
<1>11. Due(s, r)
  BY <1>2, <1>4, <1>5, <1>10 DEF Due, Still
<1>12. Surfaces(s, r) \/ Shows(entries, r) => Surfaces(s, r)'
  BY <1>2, <1>4 DEF Surfaces, Shows
<1>13. Surfaces(s, r) \/ Pending(s, r)
  BY <1>10, <1>11 DEF AllInv, SaysAll
<1>14. Pending(s, r) => TurnOf(s, x, r) \/ Pending(s, r)'
  BY <1>2, <1>4, <1>5 DEF Pending, TurnOf, Still
<1> QED BY <1>10, <1>11, <1>12, <1>13, <1>14

-----------------------------------------------------------------------------
(* Its steps, with the two facts that make it tell the truth: a process that *)
(* looks like the run of a log is that run, and is seen unless it belongs to *)
(* somebody else; and the newest log of a project is that of its last run.   *)

LEMMA AliveIsAlive ==
  ASSUME DirInv, NEW r \in Logs
  PROVE  /\ Alive(r) => Lives(r)
         /\ Lives(r) /\ log[r].project \notin Foreign => Alive(r)
<1>1. r \in Runs /\ log[r].pid \in Pids /\ Directory
  BY RunIsAt DEF DirInv
<1>2. process[log[r].pid] # NoProcess /\ Alive(r) => process[log[r].pid] = r
  BY <1>1 DEF Alive, Directory
<1>3. Lives(r) => process[log[r].pid] # NoProcess
  BY <1>1, ScanAssumption DEF Lives
<1> QED BY <1>1, <1>2, <1>3 DEF Alive, Lives, Logs

LEMMA NewestIsLast ==
  ASSUME DirInv, NEW r \in Logs, Lives(r), Observable(log[r].project),
         NEW t \in NewestLogs(log[r].project)
  PROVE  t = r
<1>1. t \in Logs /\ log[t].project = log[r].project /\ log[r].mtime <= log[t].mtime
  BY RunIsAt DEF NewestLogs, LogsOf, Observable, DirInv
<1>2. t # r => log[t].mtime < log[r].started
  BY <1>1, LiveIsLast DEF Before
<1>3. log[r].started <= log[r].mtime
  BY DEF DirInv, Directory
<1> QED BY <1>1, <1>2, <1>3, RunIsAt DEF DirInv

LEMMA StopKeeps ==
  ASSUME DirInv, NEW s \in Scans, NEW p \in Projects,
         Orphan(s, p) \/ Instance(s, p) \/ NoLogs(s, p)
  PROVE  DirInv' /\ (AllInv => AllInv')
<1>1. ScanTypeOK /\ SaysTrue(s) /\ Still /\ scan[s].at = "stops" /\ emitted' \subseteq Projects
  BY DEF DirInv, ScanTypeOK, Still, Orphan, Instance, NoLogs
<1>2. CASE \E r \in NewestLogs(p) :
             IsOrphan(s, r, p) /\ (Advance(s, p, {}) \/ Advance(s, p, {Entry(r, p, "crashed")}))
  <2>1. PICK r \in NewestLogs(p) :
          IsOrphan(s, r, p) /\ (Advance(s, p, {}) \/ Advance(s, p, {Entry(r, p, "crashed")}))
    BY <1>2
  <2>2. r \in Logs /\ r \in Runs /\ (Lives(r) => log[r].project \in Foreign)
    BY <2>1, AliveIsAlive DEF NewestLogs, LogsOf, Logs, IsOrphan
  <2>3. PICK entries \in {{}, {Entry(r, p, "crashed")}} : Advance(s, p, entries)
    BY <2>1
  <2>4. /\ entries \in SUBSET Entries
        /\ \A e \in entries : e.run \in Logs /\ e.state = "crashed"
    BY <2>2, <2>3 DEF Entry, Entries, States
  <2>5. \A t \in Logs : Due(s, t) => ~TurnOf(s, p, t)
    BY <1>1, <2>1, <2>2, NewestIsLast DEF TurnOf, Due, Observable
  <2> QED BY <1>1, <2>3, <2>4, <2>5, AdvanceKeeps
<1>3. CASE Instance(s, p)
  <2>1. PICK r \in NewestLogs(p) :
          Advance(s, p, IF Readable(r) THEN {Entry(r, p, StateOf(r))} ELSE {})
    BY <1>3 DEF Instance
  <2>2. /\ r \in Logs /\ r \in Runs
        /\ Alive(r) => Lives(r)
        /\ Lives(r) /\ log[r].project \notin Foreign => Alive(r)
    BY <2>1, AliveIsAlive DEF NewestLogs, LogsOf, Logs
  <2> DEFINE entries == IF Readable(r) THEN {Entry(r, p, StateOf(r))} ELSE {}
  <2>3. /\ entries \in SUBSET Entries
        /\ \A e \in entries : e.run = r /\ (e.state \in {"running", "backoff"} <=> Alive(r))
                             /\ (e.state = "crashed" <=> ~Alive(r))
        /\ Readable(r) => entries # {}
    <3> DEFINE f == Entry(r, p, StateOf(r))
    <3>1. f.run = r /\ f.state = StateOf(r) /\ f.project = p
      BY DEF Entry
    <3>2. /\ StateOf(r) \in States
          /\ StateOf(r) \in {"running", "backoff"} <=> Alive(r)
          /\ StateOf(r) = "crashed" <=> ~Alive(r)
      BY DEF StateOf, States
    <3>3. f \in Entries
      BY <2>2, <3>2 DEF Entry, Entries
    <3> HIDE DEF f
    <3>4. entries = IF Readable(r) THEN {f} ELSE {}
      BY DEF f
    <3> QED BY <3>1, <3>2, <3>3, <3>4
  <2>4. \A e \in entries :
          e.run \in Logs /\ (e.state \in {"running", "backoff"} => HasLived(s, e.run))
    BY <1>1, <2>2, <2>3 DEF SaysTrue
  <2>5. \A t \in Logs : Due(s, t) /\ TurnOf(s, p, t) => Shows(entries, t)
    <3>1. ASSUME NEW t \in Logs, Due(s, t), TurnOf(s, p, t)
          PROVE  t = r /\ Lives(t) /\ Observable(log[t].project)
      BY <1>1, <2>1, <3>1, NewestIsLast DEF TurnOf, Due
    <3>2. Lives(r) /\ Observable(log[r].project) => Shows(entries, r)
      BY <2>2, <2>3 DEF Shows, Observable, Readable
    <3> QED BY <3>1, <3>2
  <2> HIDE DEF entries
  <2>6. Advance(s, p, entries)
    BY <2>1 DEF entries
  <2> QED BY <1>1, <2>3, <2>4, <2>5, <2>6, AdvanceKeeps
<1>4. CASE NoLogs(s, p)
  <2>1. Advance(s, p, {}) /\ LogsOf(p) = {}
    BY <1>4 DEF NoLogs
  <2>2. \A t \in Logs : ~TurnOf(s, p, t)
    BY <1>1, <2>1 DEF TurnOf, LogsOf
  <2> QED BY <1>1, <2>1, <2>2, AdvanceKeeps
<1> QED BY <1>2, <1>3, <1>4 DEF Orphan

LEMMA LogKeeps ==
  ASSUME DirInv, NEW s \in Scans, NEW r \in Runs, FinishedLog(s, r)
  PROVE  DirInv' /\ (AllInv => AllInv')
<1> DEFINE entries == IF Skipped(s, r) \/ ~Readable(r) THEN {}
                      ELSE {Entry(r, log[r].project, "finished")}
<1>1. /\ ScanTypeOK /\ Directory /\ Still /\ scan[s].at = "logs"
      /\ r \in Logs /\ emitted' \subseteq Projects
  BY DEF DirInv, ScanTypeOK, Still, FinishedLog
<1>2. Advance(s, r, entries)
  BY DEF FinishedLog
<1>3. /\ entries \in SUBSET Entries
      /\ \A e \in entries : e.run = r /\ e.state = "finished"
      /\ ~Skipped(s, r) /\ Readable(r) => Shows(entries, r)
  <2> DEFINE f == Entry(r, log[r].project, "finished")
  <2>1. f \in Entries /\ f.run = r /\ f.state = "finished"
    BY <1>1, RunIsAt DEF Entry, Entries, States
  <2> HIDE DEF f
  <2>2. entries = IF Skipped(s, r) \/ ~Readable(r) THEN {} ELSE {f}
    BY DEF f
  <2> QED BY <2>1, <2>2 DEF Shows
<1>4. \A t \in Logs : Due(s, t) /\ TurnOf(s, r, t) => Shows(entries, t)
  <2> SUFFICES ASSUME Due(s, r), ~Lives(r) PROVE ~Skipped(s, r) /\ Readable(r)
    BY <1>1, <1>3 DEF TurnOf
  <2>1. /\ LastOfProject(r) /\ log[r].reason = "finished"
        /\ log[r].mtime >= scan[s].begun - FINISHED_WINDOW
    BY DEF Due
  <2>2. stop[log[r].project] = NoFile
    BY <1>1, <2>1 DEF Directory
  <2>3. scan[s].begun \in Int
    BY DEF DirInv, Progress
  <2>4. Readable(r)
    BY DEF Due, Observable, Readable
  <2> QED BY <1>1, <2>1, <2>2, <2>3, <2>4, RunIsAt, ScanAssumption DEF Skipped
<1> HIDE DEF entries
<1> QED BY <1>1, <1>2, <1>3, <1>4, AdvanceKeeps

LEMMA StageKeeps ==
  ASSUME DirInv, NEW s \in Scans,
         BeginScan(s) \/ BeginLogs(s) \/ Answer(s) \/ Deliver(s)
           \/ \E p \in Projects : StopVanishes(s, p)
  PROVE  DirInv' /\ (AllInv => AllInv')
<1>1. /\ ScanTypeOK /\ Directory /\ SaysTrue(s) /\ Still
      /\ emitted' = emitted /\ emitted \subseteq Projects
      /\ scan \in [Scans -> Progress] /\ Logs \subseteq Runs /\ now \in Int
  BY DEF DirInv, ScanTypeOK, Still, Logs, BeginScan, BeginLogs, Answer, Deliver, StopVanishes
<1>2. /\ Logs' = Logs /\ Directory' /\ (AllInv => SaysAll(s))
      /\ \A r \in Logs : (Lives(r)' <=> Lives(r)) /\ (LastOfProject(r)' <=> LastOfProject(r))
  BY <1>1, StillMeansSame DEF AllInv
<1>3. CASE Deliver(s) \/ \E p \in Projects : StopVanishes(s, p)
  <2>1. PICK q \in {NoScan, [NoScan EXCEPT !.at = "failed"]} : scan' = [scan EXCEPT ![s] = q]
    BY <1>3 DEF Deliver, StopVanishes
  <2>2. q \in Progress /\ q.todo = {} /\ q.begun = 0 /\ q.live = {} /\ q.out = {}
    <3>1. CASE q = NoScan
      BY <3>1, NoScanType DEF NoScan
    <3>2. CASE q = [NoScan EXCEPT !.at = "failed"]
      BY <3>2, NoScanType DEF NoScan
    <3> QED BY <2>1, <3>1, <3>2
  <2>3. scan'[s] = q
    BY <1>1, <2>1
  <2>4. \A r \in Logs' : log'[r].started \in Int /\ 0 <= log'[r].started
    BY <1>1, <1>2, RunIsAt DEF Directory, Still
  <2>5. SaysTrue(s)' /\ SaysAll(s)'
    BY <1>1, <2>2, <2>3, <2>4 DEF SaysTrue, SaysAll, Due, HasLived, Still, ScanTypeOK
  <2> QED BY <1>1, <2>1, <2>2, <2>5, ScanStepKeeps
<1>4. CASE BeginScan(s)
  <2> DEFINE q == [at |-> "stops", begun |-> now, out |-> {},
                   todo |-> {p \in Projects : stop[p] # NoFile},
                   live |-> {r \in Runs : Lives(r)}]
  <2>1. q \in Progress /\ scan' = [scan EXCEPT ![s] = q] /\ scan'[s] = q
    BY <1>1, <1>4 DEF BeginScan, Progress
  <2>2. SaysTrue(s)'
    BY <1>1, <1>2, <2>1 DEF SaysTrue, HasLived, Still, Logs, Lives
  <2>3. \A r \in Logs : Lives(r) => log[r].project \in q.todo
    BY <1>1, RunIsAt DEF Directory
  <2>4. SaysAll(s)'
    BY <1>1, <1>2, <2>1, <2>3 DEF SaysAll, Pending, Still
  <2> HIDE DEF q
  <2>5. q.todo \subseteq (IF q.at = "logs" THEN Logs ELSE Projects)
    BY DEF q
  <2> QED BY <1>1, <2>1, <2>2, <2>4, <2>5, ScanStepKeeps
<1>5. CASE BeginLogs(s) \/ Answer(s)
  <2>1. PICK q \in Progress :
          /\ scan' = [scan EXCEPT ![s] = q]
          /\ q.begun = scan[s].begun /\ q.out = scan[s].out /\ q.live = scan[s].live
          /\ \/ q.at = "logs" /\ scan[s].at = "stops" /\ scan[s].todo = {} /\ q.todo = Logs
             \/ q.at = "answered" /\ scan[s].at = "logs" /\ scan[s].todo = {} /\ q.todo = {}
    <3>1. CASE BeginLogs(s)
      <4> DEFINE q == [scan[s] EXCEPT !.at = "logs", !.todo = Logs]
      <4>1. q \in Progress /\ scan' = [scan EXCEPT ![s] = q]
        BY <1>1, <3>1 DEF BeginLogs, Progress
      <4>2. q.begun = scan[s].begun /\ q.out = scan[s].out /\ q.live = scan[s].live
            /\ q.at = "logs" /\ q.todo = Logs
        BY <1>1 DEF Progress
      <4> QED BY <3>1, <4>1, <4>2 DEF BeginLogs
    <3>2. CASE Answer(s)
      <4> DEFINE q == [scan[s] EXCEPT !.at = "answered"]
      <4>1. q \in Progress /\ scan' = [scan EXCEPT ![s] = q]
        BY <1>1, <3>2 DEF Answer, Progress
      <4>2. q.begun = scan[s].begun /\ q.out = scan[s].out /\ q.live = scan[s].live
            /\ q.at = "answered" /\ q.todo = {}
        BY <1>1, <3>2 DEF Progress, Answer
      <4> QED BY <3>2, <4>1, <4>2 DEF Answer
    <3> QED BY <1>5, <3>1, <3>2
  <2>2. scan'[s] = q
    BY <1>1, <2>1
  <2>3. SaysTrue(s)'
    BY <1>1, <1>2, <2>1, <2>2 DEF SaysTrue, HasLived, Still
  <2>4. AllInv => SaysAll(s)'
    <3> SUFFICES ASSUME AllInv, NEW r \in Logs, Due(s, r)' PROVE Surfaces(s, r)' \/ Pending(s, r)'
      BY <1>2 DEF SaysAll
    <3>1. Due(s, r)
      BY <1>1, <1>2, <2>1, <2>2 DEF Due, Still
    <3>2. Surfaces(s, r) \/ Pending(s, r)
      BY <1>2, <3>1 DEF SaysAll
    <3> QED BY <1>2, <2>1, <2>2, <3>2 DEF Surfaces, Pending
  <2> QED BY <1>1, <2>1, <2>3, <2>4, ScanStepKeeps
<1> QED BY <1>3, <1>4, <1>5

LEMMA RestartKeeps ==
  ASSUME DirInv, AgentRestarts
  PROVE  DirInv' /\ AllInv'
<1>1. ScanTypeOK /\ Directory /\ Still /\ emitted' = {} /\ scan' = [s \in Scans |-> NoScan]
  BY DEF DirInv, Still, AgentRestarts
<1>2. scan' \in [Scans -> Progress] /\ Directory'
  BY <1>1, NoScanType, StillMeansSame
<1>3. ScanTypeOK'
  BY <1>1 DEF ScanTypeOK, Still, NoScan
<1>4. ASSUME NEW s \in Scans PROVE SaysTrue(s)' /\ SaysAll(s)'
  BY <1>1, <1>2, <1>3, NoScanSaysNothing DEF NoScan
<1> QED BY <1>2, <1>3, <1>4 DEF DirInv, AllInv, Progress, Entries

LEMMA ScanStarts == ScanInit => DirInv /\ AllInv
<1> SUFFICES ASSUME ScanInit PROVE DirInv /\ AllInv
  OBVIOUS
<1>1. Logs = {} /\ scan = [s \in Scans |-> NoScan] /\ now = 0
  BY DEF ScanInit, Logs
<1>2. scan \in [Scans -> Progress]
  BY <1>1, NoScanType
<1>3. ScanTypeOK
  BY <1>1, ScanAssumption DEF ScanInit, ScanTypeOK, NoScan
<1>4. Directory
  BY <1>1 DEF ScanInit, Directory
<1>5. \A s \in Scans : SaysTrue(s) /\ SaysAll(s)
  BY <1>1 DEF SaysTrue, SaysAll, NoScan
<1> QED BY <1>2, <1>3, <1>4, <1>5 DEF DirInv, AllInv

LEMMA ScanSteps ==
  DirInv /\ [ScanNext]_scanVars => DirInv' /\ (AllInv => AllInv')
<1> SUFFICES ASSUME DirInv, [ScanNext]_scanVars
             PROVE  DirInv' /\ (AllInv => AllInv')
  OBVIOUS
<1>1. ASSUME NEW s \in Scans, Scanning(s)
      PROVE  DirInv' /\ (AllInv => AllInv')
  BY <1>1, StageKeeps, StopKeeps, LogKeeps DEF Scanning
<1>2. ASSUME NEW r \in Runs, Throttle(r) \/ Write(r)
      PROVE  DirInv' /\ (AllInv => AllInv')
  <2>1. ScanTypeOK /\ Lives(r) /\ r \in Logs /\ now \in Int
    BY <1>2 DEF DirInv, ScanTypeOK, Lives, Logs, Throttle, Write
  <2>2. log[r] \in Log
    BY <2>1, RunIsAt
  <2>3. PICK l \in Log :
          /\ log' = [log EXCEPT ![r] = l]
          /\ l.project = log[r].project /\ l.pid = log[r].pid /\ l.started = log[r].started
          /\ l.mtime = now /\ l.reason = log[r].reason
    <3>1. CASE Throttle(r)
      <4> DEFINE l == [log[r] EXCEPT !.throttled = TRUE, !.mtime = now]
      <4>1. l \in Log /\ log' = [log EXCEPT ![r] = l]
        BY <2>1, <2>2, <3>1 DEF Throttle, Log, ScanTypeOK
      <4> QED BY <2>1, <2>2, <4>1 DEF Log
    <3>2. CASE Write(r)
      <4> DEFINE l == [log[r] EXCEPT !.mtime = now]
      <4>1. l \in Log /\ log' = [log EXCEPT ![r] = l]
        BY <2>1, <2>2, <3>2 DEF Write, Log, ScanTypeOK
      <4> QED BY <2>1, <2>2, <4>1 DEF Log
    <3> QED BY <1>2, <3>1, <3>2
  <2>4. UNCHANGED <<now, stop, process, emitted, scan>>
    BY <1>2 DEF Throttle, Write
  <2> QED BY <2>1, <2>3, <2>4, WriteKeeps
<1>3. CASE UNCHANGED scanVars
  <2>1. Still /\ UNCHANGED <<emitted, scan>>
    BY <1>3 DEF scanVars, Still
  <2>2. /\ Logs' = Logs /\ Logs \subseteq Runs /\ Directory'
        /\ \A r \in Runs : (Lives(r)' <=> Lives(r)) /\ (LastOfProject(r)' <=> LastOfProject(r))
    BY <2>1, StillMeansSame DEF Logs, DirInv
  <2>3. \A s \in Scans : SaysTrue(s)' /\ (SaysAll(s) => SaysAll(s)')
    BY <2>1, <2>2 DEF SaysTrue, SaysAll, HasLived, Due, Surfaces, Pending, Still, DirInv
  <2> QED BY <2>1, <2>2, <2>3
          DEF DirInv, AllInv, ScanTypeOK, Still, Progress, Entries, States
<1> QED BY <1>1, <1>2, <1>3, LaunchKeeps, EndKeeps, TimeKeeps, RestartKeeps DEF ScanNext

LEMMA ScanInvariant == ScanSpec => []DirInv
BY ScanStarts, ScanSteps, PTL DEF ScanSpec

\* The types of the directory and of the scans, for any number of each.
THEOREM ScansAreTyped == ScanSpec => []ScanTypeOK
<1>1. DirInv => ScanTypeOK
  BY DEF DirInv
<1> QED BY <1>1, ScanInvariant, PTL

\* An answer calls nobody running who was dead when the scan began and has not
\* started since, whatever overlapping names, reused pids and restarts of the
\* agent do (agent.py:305-313).
THEOREM RunningIsTrue == ScanSpec => []RunningHasLived
<1>1. DirInv => RunningHasLived
  BY DEF DirInv, SaysTrue, HasLived, RunningHasLived
<1> QED BY <1>1, ScanInvariant, PTL

\* The last instance of a project that the agent may look at, and whose name no
\* other continues, is in every answer that is about it (agent.py:276-508).
THEOREM NobodyIsMissed == ScanSpec => []InstancesAreSurfaced
<1>1. DirInv /\ AllInv => InstancesAreSurfaced
  <2> SUFFICES ASSUME DirInv, AllInv, NEW s \in Scans, NEW r \in Logs,
                      Answered(s), Observable(log[r].project), LastOfProject(r),
                      r \in scan[s].live \/ log[r].started < scan[s].begun,
                      \/ Lives(r)
                      \/ log[r].reason = "finished" /\ log[r].mtime >= now - FINISHED_WINDOW
               PROVE  Surfaces(s, r)
    BY DEF InstancesAreSurfaced
  <2>1. scan[s].begun \in Int /\ now \in Int /\ scan[s].begun <= now
    BY DEF DirInv, Progress, SaysTrue, ScanTypeOK
  <2>2. Due(s, r)
    BY <2>1, RunIsAt, ScanAssumption DEF DirInv, Due
  <2> QED BY <2>2 DEF AllInv, SaysAll, Pending, Answered
<1>2. DirInv /\ AllInv /\ [ScanNext]_scanVars => (DirInv /\ AllInv)'
  BY ScanSteps
<1> QED BY <1>1, <1>2, ScanStarts, PTL DEF ScanSpec
=============================================================================
