------------------------------- MODULE Babysit -------------------------------
(***************************************************************************)
(* get_babysit of agent/agent.py: one pass over the .stop files and one     *)
(* over the logs of a directory in which babysit.sh instances start, write, *)
(* are throttled, finish and die while the scan is under way.  Every        *)
(* iteration of the two loops is a step; the agent serves several scans at  *)
(* once, and what they share is _orphan_emitted.                            *)
(*                                                                          *)
(* babysit.sh is not part of the repository: what a run does to its files   *)
(* is taken from what the scan looks for.  Iteration counts, max_iter with  *)
(* its cache, and the last action are read and passed on, and left out.     *)
(* Processes are those of babysit.sh: any other one at a pid counts as none. *)
(***************************************************************************)
EXTENDS Integers, FiniteSets

CONSTANTS
  Projects,
  Runs,             \* one per log file <project>-<started>-<pid>.log
  Pids,
  Scans,            \* concurrent GET /metrics
  Shadows,          \* <<p, q>>: the name of q begins with that of p and a dash
  Foreign,          \* projects of a user whose processes psutil may not look at
  Unreadable,       \* projects whose logs the agent may list but not open
  ORPHAN_AGE,       \* 24 h
  FINISHED_WINDOW,  \* 300 s
  MaxClock,         \* bound: the clock stops here
  NoLog, NoFile, NoProcess

VARIABLES
  now,
  log,      \* run -> its log file and what is in its last 64 KB
  stop,     \* project -> mtime of its stop file
  process,  \* pid -> the run that has it
  emitted,  \* _orphan_emitted
  scan      \* where a scan is, and its locals

scanVars == <<now, log, stop, process, emitted, scan>>

Reasons == {"none", "finished"}

Log == [project : Projects, pid : Pids, started : Int, mtime : Int,
        throttled : BOOLEAN, reason : Reasons]

ASSUME ScanAssumption ==
  /\ ORPHAN_AGE \in Nat /\ FINISHED_WINDOW \in Nat /\ MaxClock \in Nat
  /\ NoLog \notin Log /\ NoFile \notin Int /\ NoProcess \notin Runs

NoScan == [at |-> "idle", begun |-> 0, todo |-> {}, out |-> {}, live |-> {}]

ScanInit ==
  /\ now = 0
  /\ log = [r \in Runs |-> NoLog]
  /\ stop \in [Projects -> {0, NoFile}]  \* a file of before, its logs gone
  /\ process = [i \in Pids |-> NoProcess]
  /\ emitted = {}
  /\ scan = [s \in Scans |-> NoScan]

Logs == {r \in Runs : log[r] # NoLog}

\* The run itself, as opposed to what a scan finds out about it.
Lives(r) == log[r] # NoLog /\ process[log[r].pid] = r

-----------------------------------------------------------------------------
(* babysit.sh: one instance of a project at a time, a pid comes back later. *)

Launch(r, p, i) ==
  /\ log[r] = NoLog
  /\ process[i] = NoProcess
  /\ \A q \in Logs : log[q].project = p => ~Lives(q) /\ log[q].mtime < now
  /\ \A q \in Logs : log[q].pid = i => log[q].started < now
  /\ log' = [log EXCEPT ![r] =
       [project |-> p, pid |-> i, started |-> now, mtime |-> now,
        throttled |-> FALSE, reason |-> "none"]]
  /\ stop' = [stop EXCEPT ![p] = now]
  /\ process' = [process EXCEPT ![i] = r]
  /\ UNCHANGED <<now, emitted, scan>>

\* "Usage limit, backing off"; the line stays in the tail of the log.
Throttle(r) ==
  /\ Lives(r)
  /\ ~log[r].throttled
  /\ log' = [log EXCEPT ![r].throttled = TRUE, ![r].mtime = now]
  /\ UNCHANGED <<now, stop, process, emitted, scan>>

\* Work goes on.
Write(r) ==
  /\ Lives(r)
  /\ log' = [log EXCEPT ![r].mtime = now]
  /\ UNCHANGED <<now, stop, process, emitted, scan>>

\* The stop file goes; the log says why.
Conclude(r) ==
  /\ Lives(r)
  /\ log' = [log EXCEPT ![r].reason = "finished", ![r].mtime = now]
  /\ stop' = [stop EXCEPT ![log[r].project] = NoFile]
  /\ process' = [process EXCEPT ![log[r].pid] = NoProcess]
  /\ UNCHANGED <<now, emitted, scan>>

Crash(r) ==
  /\ Lives(r)
  /\ process' = [process EXCEPT ![log[r].pid] = NoProcess]
  /\ UNCHANGED <<now, log, stop, emitted, scan>>

TimePasses ==
  /\ now < MaxClock
  /\ now' = now + 1
  /\ UNCHANGED <<log, stop, process, emitted, scan>>

-----------------------------------------------------------------------------
(* The scan. *)

\* Mutated form of Alive: some babysit process has the pid.
AliveByPid(r) == process[log[r].pid] # NoProcess

\* A babysit process with this pid that was created when the log was; AccessDenied
\* counts as no process.
Alive(r) ==
  LET q == process[log[r].pid]
  IN  q # NoProcess /\ log[q].project \notin Foreign /\ log[q].started = log[r].started

Entry(r, project, state) ==
  [project |-> project, run |-> r, state |-> state]

\* glob("*.stop").  live is of use to the properties only.
BeginScan(s) ==
  /\ scan[s].at = "idle"
  /\ scan' = [scan EXCEPT ![s] =
       [at |-> "stops", begun |-> now, out |-> {},
        todo |-> {p \in Projects : stop[p] # NoFile},
        live |-> {r \in Runs : Lives(r)}]]
  /\ UNCHANGED <<now, log, stop, process, emitted>>

\* The logs that glob(f"{project}-*.log") returns.
LogsOf(p) ==
  {r \in Logs : log[r].project = p \/ <<p, log[r].project>> \in Shadows}

NewestLogs(p) ==
  {r \in LogsOf(p) : \A q \in LogsOf(p) : log[q].mtime <= log[r].mtime}

Advance(s, p, entries) ==
  scan' = [scan EXCEPT ![s].todo = @ \ {p}, ![s].out = @ \union entries]

\* getmtime of a stop file that has gone since raises: the request ends in 500.
StopVanishes(s, p) ==
  /\ scan[s].at = "stops" /\ p \in scan[s].todo
  /\ LogsOf(p) # {}
  /\ stop[p] = NoFile
  /\ scan' = [scan EXCEPT ![s] = [NoScan EXCEPT !.at = "failed"]]
  /\ UNCHANGED <<now, log, stop, process, emitted>>

\* The age is taken at the start of the scan, where `now` is read.
IsOrphan(s, r, p) == stop[p] < scan[s].begun - ORPHAN_AGE /\ ~Alive(r)

\* Mutated form of Orphan: what has been said is kept by log.
OrphanByLog(s, p) ==
  /\ scan[s].at = "stops" /\ p \in scan[s].todo
  /\ stop[p] # NoFile
  /\ \E r \in NewestLogs(p) :
       /\ IsOrphan(s, r, p)
       /\ Advance(s, p, IF r \in emitted THEN {} ELSE {Entry(r, p, "crashed")})
       /\ emitted' = emitted \union {r}
  /\ UNCHANGED <<now, log, stop, process>>

\* A stop file of long ago whose process is gone: said once, then skipped.
Orphan(s, p) ==
  /\ scan[s].at = "stops" /\ p \in scan[s].todo
  /\ stop[p] # NoFile
  /\ \E r \in NewestLogs(p) :
       /\ IsOrphan(s, r, p)
       /\ Advance(s, p, IF p \in emitted THEN {} ELSE {Entry(r, p, "crashed")})
  /\ emitted' = emitted \union {p}
  /\ UNCHANGED <<now, log, stop, process>>

StateOf(r) ==
  IF ~Alive(r) THEN "crashed" ELSE IF log[r].throttled THEN "backoff" ELSE "running"

Readable(r) == log[r].project \notin Unreadable

\* Any other stop file that has a log; one that cannot be read is passed over.
Instance(s, p) ==
  /\ scan[s].at = "stops" /\ p \in scan[s].todo
  /\ stop[p] # NoFile
  /\ \E r \in NewestLogs(p) :
       /\ ~IsOrphan(s, r, p)
       /\ Advance(s, p, IF Readable(r) THEN {Entry(r, p, StateOf(r))} ELSE {})
  /\ UNCHANGED <<now, log, stop, process, emitted>>

NoLogs(s, p) ==
  /\ scan[s].at = "stops" /\ p \in scan[s].todo
  /\ LogsOf(p) = {}
  /\ Advance(s, p, {})
  /\ UNCHANGED <<now, log, stop, process, emitted>>

\* glob("*-*.log")
BeginLogs(s) ==
  /\ scan[s].at = "stops" /\ scan[s].todo = {}
  /\ scan' = [scan EXCEPT ![s].at = "logs", ![s].todo = Logs]
  /\ UNCHANGED <<now, log, stop, process, emitted>>

\* Mutated form of Skipped: the comparison is the wrong way round.
SkippedRecent(s, r) ==
  \/ stop[log[r].project] # NoFile
  \/ log[r].mtime >= scan[s].begun - FINISHED_WINDOW

\* Handled above, or too long ago.
Skipped(s, r) ==
  \/ stop[log[r].project] # NoFile
  \/ log[r].mtime < scan[s].begun - FINISHED_WINDOW

FinishedLog(s, r) ==
  /\ scan[s].at = "logs" /\ r \in scan[s].todo
  /\ Advance(s, r, IF Skipped(s, r) \/ ~Readable(r) THEN {}
                 ELSE {Entry(r, log[r].project, "finished")})
  /\ UNCHANGED <<now, log, stop, process, emitted>>

Answer(s) ==
  /\ scan[s].at = "logs" /\ scan[s].todo = {}
  /\ scan' = [scan EXCEPT ![s].at = "answered"]
  /\ UNCHANGED <<now, log, stop, process, emitted>>

Deliver(s) ==
  /\ scan[s].at \in {"answered", "failed"}
  /\ scan' = [scan EXCEPT ![s] = NoScan]
  /\ UNCHANGED <<now, log, stop, process, emitted>>

-----------------------------------------------------------------------------
\* The agent dies and is restarted: the scans under way are lost, and it forgets
\* which orphans it has reported.
AgentRestarts ==
  /\ emitted' = {}
  /\ scan' = [s \in Scans |-> NoScan]
  /\ UNCHANGED <<now, log, stop, process>>

Scanning(s) ==
  \/ BeginScan(s) \/ BeginLogs(s) \/ Answer(s) \/ Deliver(s)
  \/ \E p \in Projects :
       StopVanishes(s, p) \/ Orphan(s, p) \/ Instance(s, p) \/ NoLogs(s, p)
  \/ \E r \in Runs : FinishedLog(s, r)

ScanNext ==
  \/ \E s \in Scans : Scanning(s)
  \/ \E r \in Runs, p \in Projects, i \in Pids : Launch(r, p, i)
  \/ \E r \in Runs : Throttle(r) \/ Write(r) \/ Conclude(r) \/ Crash(r)
  \/ TimePasses \/ AgentRestarts

ScanSpec == ScanInit /\ [][ScanNext]_scanVars

-----------------------------------------------------------------------------
States == {"running", "backoff", "crashed", "finished"}

Entries == [project : Projects, run : Runs, state : States]

\* The type invariant of the directory and of a scan's locals.
ScanTypeOK ==
  /\ now \in 0..MaxClock
  /\ log \in [Runs -> Log \union {NoLog}]
  /\ stop \in [Projects -> Int \union {NoFile}]
  /\ process \in [Pids -> Runs \union {NoProcess}]
  /\ emitted \subseteq Projects
  /\ \A s \in Scans :
       /\ scan[s].at \in {"idle", "stops", "logs", "answered", "failed"}
       /\ scan[s].todo \subseteq (IF scan[s].at = "logs" THEN Logs ELSE Projects)
       /\ scan[s].out \subseteq Entries

Answered(s) == scan[s].at = "answered"

\* A run that an answer calls running or in backoff lived when the scan began,
\* or started since: a pid that has been given away never revives its old run
\* (agent.py:305-313).
RunningHasLived ==
  \A s \in Scans : Answered(s) =>
    \A e \in scan[s].out : e.state \in {"running", "backoff"} =>
      e.run \in scan[s].live \/ log[e.run].started >= scan[s].begun

\* The agent may look at the processes and the logs of the project, and its
\* pattern matches no other's logs.
Observable(p) ==
  /\ p \notin Foreign \union Unreadable
  /\ \A q \in Projects : <<p, q>> \notin Shadows

\* The last instance of such a project is in every answer under its own pid and
\* not as crashed if it was at work from the start of the scan on, or if it
\* finished, before the scan or under it, no longer than the window ago
\* (agent.py:276-508).
Surfaces(s, r) ==
  \E e \in scan[s].out : e.run = r /\ e.state # "crashed"

LastOfProject(r) ==
  \A q \in Logs : log[q].project = log[r].project => log[q].started <= log[r].started

InstancesAreSurfaced ==
  \A s \in Scans, r \in Logs :
    /\ Answered(s)
    /\ Observable(log[r].project) /\ LastOfProject(r)
    /\ r \in scan[s].live \/ log[r].started < scan[s].begun
    /\ \/ Lives(r)
       \/ log[r].reason = "finished" /\ log[r].mtime >= now - FINISHED_WINDOW
    => Surfaces(s, r)
=============================================================================
