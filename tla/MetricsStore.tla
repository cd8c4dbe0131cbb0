---------------------------- MODULE MetricsStore ----------------------------
(***************************************************************************)
(* The poller of server/server.py and the metrics table of server/db.py.    *)
(* A sample carries the clock of the agent that took it, an offline row the *)
(* clock of the server, and latest() orders rows by that column.  Every     *)
(* row also records here when the host was really observed; the code has no *)
(* such column, and no action reads it.                                     *)
(*                                                                          *)
(* Rows that agree in every column read alike, so the table is a set.       *)
(***************************************************************************)
EXTENDS Integers

CONSTANTS
  Hosts,          \* the configured hosts
  Skews,          \* how far an agent's clock may be ahead of the server's
  POLL_INTERVAL,  \* seconds between the end of a cycle and the next one
  POLL_TIMEOUT,   \* longest GET /metrics: 10 s for each connect, write and read
  RETENTION,      \* RETENTION_SECONDS
  MaxClock        \* bound: the clock stops here

ASSUME ClockAssumption ==
  /\ Skews \subseteq Int
  /\ POLL_INTERVAL \in Nat /\ POLL_TIMEOUT \in Nat
  /\ RETENTION \in Nat /\ MaxClock \in Nat

VARIABLES
  now,      \* the server's clock
  skew,     \* host -> its agent's clock minus now
  rows,     \* table metrics
  request,  \* host -> its GET /metrics of this cycle: [at, since, seen]
  cycle     \* polling_loop: [at, due], due the end of its sleep; calm is of
            \* use to the properties only: when the last trouble was over

vars == <<now, skew, rows, request, cycle>>

NoGet == [at |-> "none", since |-> 0, seen |-> 0]

Init ==
  /\ now = 0
  /\ skew \in [Hosts -> Skews]
  /\ rows = {}
  /\ request = [h \in Hosts |-> NoGet]
  /\ cycle = [at |-> "asleep", due |-> 0, calm |-> 0]

OfflineRow(h) == [host |-> h, ts |-> now, online |-> FALSE, seen |-> now]

SampleOf(h) ==
  [host |-> h, ts |-> request[h].seen + skew[h], online |-> TRUE,
   seen |-> request[h].seen]

RowsOf(h) == {r \in rows : r.host = h}

\* Mutated form of LatestRows: ORDER BY ts without DESC.
FirstRows(h) == {r \in RowsOf(h) : \A q \in RowsOf(h) : r.ts <= q.ts}

\* Database.latest: ORDER BY ts DESC LIMIT 1; SQLite may return any of the ties.
LatestRows(h) == {r \in RowsOf(h) : \A q \in RowsOf(h) : q.ts <= r.ts}

-----------------------------------------------------------------------------
Wakes == cycle.at = "asleep" /\ cycle.due <= now

\* Mutated form of StartCycle: hosts known to be offline are not asked again.
StartCycleSkipping ==
  /\ Wakes
  /\ request' = [h \in Hosts |->
       IF \E r \in LatestRows(h) : ~r.online
       THEN [NoGet EXCEPT !.at = "stored"]
       ELSE [NoGet EXCEPT !.at = "asked", !.since = now]]
  /\ cycle' = [cycle EXCEPT !.at = "polling"]
  /\ UNCHANGED <<now, skew, rows>>

StartCycle ==
  /\ Wakes
  /\ request' = [h \in Hosts |-> [NoGet EXCEPT !.at = "asked", !.since = now]]
  /\ cycle' = [cycle EXCEPT !.at = "polling"]
  /\ UNCHANGED <<now, skew, rows>>

\* load_config raises: nobody is polled and nothing is pruned.
CycleFails ==
  /\ Wakes
  /\ cycle' = [cycle EXCEPT !.due = now + POLL_INTERVAL,
                          !.calm = now + POLL_INTERVAL]
  /\ UNCHANGED <<now, skew, rows, request>>

\* The agent takes the sample; the response is on its way.
AgentAnswers(h) ==
  /\ request[h].at = "asked"
  /\ request' = [request EXCEPT ![h].at = "answered", ![h].seen = now]
  /\ UNCHANGED <<now, skew, rows, cycle>>

Store(h) ==
  /\ request[h].at = "answered"
  /\ rows' = rows \union {SampleOf(h)}
  /\ request' = [request EXCEPT ![h].at = "stored"]
  /\ UNCHANGED <<now, skew, cycle>>

\* No connection, an error status, or the timeout, before or after the sample.
StoreOffline(h) ==
  /\ request[h].at \in {"asked", "answered"}
  /\ rows' = rows \union {OfflineRow(h)}
  /\ request' = [request EXCEPT ![h].at = "stored"]
  /\ UNCHANGED <<now, skew, cycle>>

\* A reservation probes the host meanwhile, in vain.
ProbeFails(h) ==
  /\ cycle.at # "down"
  /\ rows' = rows \union {OfflineRow(h)}
  /\ UNCHANGED <<now, skew, request, cycle>>

CycleOver == cycle.at = "polling" /\ \A h \in Hosts : request[h].at = "stored"

\* Mutated form of EndCycle: only the samples are pruned.
EndCycleKeepsOffline ==
  /\ CycleOver
  /\ rows' = {r \in rows : r.ts >= now - RETENTION \/ ~r.online}
  /\ request' = [h \in Hosts |-> NoGet]
  /\ cycle' = [cycle EXCEPT !.at = "asleep", !.due = now + POLL_INTERVAL]
  /\ UNCHANGED <<now, skew>>

\* Mutated form of EndCycle: the answers of this cycle outlive it.
EndCycleLeavesRequests ==
  /\ CycleOver
  /\ rows' = {r \in rows : r.ts >= now - RETENTION}
  /\ cycle' = [cycle EXCEPT !.at = "asleep", !.due = now + POLL_INTERVAL]
  /\ UNCHANGED <<now, skew, request>>

\* gather returns: prune_old, then the sleep.
EndCycle ==
  /\ CycleOver
  /\ rows' = {r \in rows : r.ts >= now - RETENTION}
  /\ request' = [h \in Hosts |-> NoGet]
  /\ cycle' = [cycle EXCEPT !.at = "asleep", !.due = now + POLL_INTERVAL]
  /\ UNCHANGED <<now, skew>>

\* The loop is not late, and a request does not outlive its timeout.
Tick ==
  /\ now < MaxClock
  /\ ~Wakes /\ ~CycleOver
  /\ \A h \in Hosts :
       request[h].at \in {"asked", "answered"} => now < request[h].since + POLL_TIMEOUT
  /\ now' = now + 1
  /\ UNCHANGED <<skew, rows, request, cycle>>

\* The table survives the process; a restart polls at once.
Crash ==
  /\ cycle.at # "down"
  /\ cycle' = [cycle EXCEPT !.at = "down"]
  /\ request' = [h \in Hosts |-> NoGet]
  /\ UNCHANGED <<now, skew, rows>>

Restart ==
  /\ cycle.at = "down"
  /\ cycle' = [at |-> "asleep", due |-> now, calm |-> now]
  /\ UNCHANGED <<now, skew, rows, request>>

Next ==
  \/ StartCycle \/ CycleFails \/ EndCycle \/ Tick \/ Crash \/ Restart
  \/ \E h \in Hosts : AgentAnswers(h) \/ Store(h) \/ StoreOffline(h) \/ ProbeFails(h)

Spec == Init /\ [][Next]_vars

-----------------------------------------------------------------------------
Row == [host : Hosts, ts : Int, online : BOOLEAN, seen : Int]

Get == [at : {"none", "asked", "answered", "stored"}, since : Int, seen : Int]

\* The type invariant: the columns of db.py:34-41 and the poller's locals, which
\* do not outlive their cycle.
TypeOK ==
  /\ now \in 0..MaxClock
  /\ skew \in [Hosts -> Skews]
  /\ rows \subseteq Row
  /\ request \in [Hosts -> Get]
  /\ cycle \in [at : {"asleep", "polling", "down"}, due : Int, calm : Int]
  /\ cycle.at # "polling" => \A h \in Hosts : request[h].at = "none"

Abs(n) == IF n < 0 THEN -n ELSE n

\* What latest() returns is behind the newest observation of the host by no
\* more than its clock is off, however probes, timeouts and late answers
\* overlap; with clocks in step it is the newest (db.py:90-101).
LagIsBounded ==
  \A h \in Hosts : \A r \in LatestRows(h), q \in RowsOf(h) :
    q.seen - r.seen <= Abs(skew[h])

\* The loop has been up, with a configuration it could read, for a poll or more.
Steady == cycle.at # "down" /\ now > cycle.calm + POLL_TIMEOUT

\* While the loop runs, every host is observed within an interval and the
\* timeouts of two polls, and so it is again one poll after a crash or a failed
\* cycle: what the poller stores is recent enough for placement
\* (server.py:65-88).
PolledOften ==
  Steady => \A h \in Hosts : \E r \in RowsOf(h) :
    now - r.seen <= POLL_INTERVAL + 2 * POLL_TIMEOUT

\* While the loop runs, no row outlives the retention by more than a cycle,
\* those that probes and earlier processes left included (db.py:80-84,
\* server.py:78).
RowsAreRecent ==
  Steady => \A r \in rows :
    now - r.ts <= RETENTION + POLL_INTERVAL + POLL_TIMEOUT
=============================================================================
