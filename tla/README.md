# Home-lab monitor: TLA+ models and proofs

This directory is the verification project of the home-lab monitor: TLA+
modules translated from the source, TLC configurations that check them on
small instances, and TLAPS proofs of what matters most. `PROJECT.json` ties
every definition to the lines it models, and lists the runs, the mutants (one
plausible bug per property, which the property must catch), the hazards, the
findings and the theorems.

Run in this directory: `tlc -config SlotTimely.cfg MCSlotRegistry` (or any
other run of the table below) and `tlapm SlotRegistryProofs.tla`.

## 1. The system

A central server (FastAPI, one asyncio event loop, one SQLite file) polls an
agent on every host once a minute, keeps 24 hours of samples, serves a
dashboard, and leases *slots* (a host and a port offset) to callers that want
to run a container somewhere.

| component | source | state | operations |
|---|---|---|---|
| placement | `server/placement.py` | none | `pick_host` |
| slot registry | `server/server.py:269-420`, `server/db.py:128-216` | table `slots`, `_slot_lock` | reserve, heartbeat, release, reap |
| poller and metrics store | `server/server.py:51-110`, `server/db.py:64-126` | table `metrics` | poll, insert, insert offline, prune, latest, history |
| configuration | `server/config.py` | `config.yml`, read anew by every handler | load, defaults |
| registry health cache | `server/registry.py` | `_cache_ts`, `_cache_result` | `health`, `_fetch` |
| agent: I/O rates | `agent/agent.py:104-150` | previous counters and their time, `_io_lock` | `get_io` |
| agent: babysit scan | `agent/agent.py:257-508` | `_max_iter_cache`, `_orphan_emitted` | `get_babysit` |
| agent: HTTP handler, services, static metrics | `agent/agent.py` | none | `/metrics`, `/health`, `/babysit-log` |
| dashboard | `server/static/index.html` | page state, countdown | `refresh`, `toggleExpand`, `reapSlot` |
| slot workflow | `examples/slot-workflow.sh` | the caller's slot and container | reserve, run, wait, clean up |
| host setup | `scripts/setup-dev-host.sh` | files, launchd and Colima on a development host | steps that are skipped when already satisfied |
| deployment | `scripts/deploy-server.sh`, `systemd/`, `launchd/` | installed units | install, restart always |

How they interact: the poller calls the agent's `/metrics` and writes
`metrics`; a reservation reads `metrics` and `slots`, asks the chosen agent's
`/health`, and writes `slots`; the polling loop is also the reaper of `slots`;
the dashboard and the callers only speak HTTP to the server, and meet in its
table `slots`; the callers start containers on the hosts by themselves. The
registry cache is consulted by `/api/capabilities` alone.

What is hard about it:

* **Interleaving.** Coroutines interleave at awaits, and the plain functions
  (`api_delete_slot` among them) run on a thread pool, hence between *any* two
  statements of a coroutine. The agent is a threading server whose requests
  share the counters of the last sample. In the page of the dashboard refreshes
  and history loads overlap.
* **State used after an await.** A reservation holds a snapshot of loads,
  counts and offsets across any number of 3-second probes; a heartbeat looks
  its row up, awaits the body, updates the row and reads it again.
* **Time.** A lease ends in three places that need not agree: the `WHERE
  expires_ts >= now` of the reads, the reaper's `expires_ts < now`, and the
  heartbeat, which does not look at `expires_ts` at all. Samples carry the
  agent's clock, offline rows the server's.
* **Caches and files of others.** The registry cache is filled across two awaits
  by overlapping requests; the babysit scan reads files and process ids that
  other programs change while it reads.
* **Failure.** Probes fail, polls time out while the agent's thread goes on,
  `config.yml` may be half written when it is read, the processes may die
  between any two steps and are restarted, a setup run may be cancelled at any
  step, runs on after commands that failed, and is repeated, a command of the
  workflow script may do its work and
  have its answer lost, and the script may be interrupted or killed anywhere.

What makes each part correct: active slots of a host never share a port
offset, and no reservation takes a host above its capacity; a lease ends only
by release or expiry; nothing but a reservation creates one; every reservation
is answered; expired rows go. Placement returns the best eligible host, and a
free offset, or nothing when there is none. `latest()` is the newest
observation of a host, up to the skew of its clock, and the poller keeps it
recent; the registry answer is never older than the cache allows; a scan
reports the instances at work, under their own state; a setup run in which
nothing failed and that reports success has brought the host up to date, whatever
happened to earlier runs, and no run loses the user's configuration. No
byte is in two I/O rates, every request of the agent ends, and a poll times out
over the work of its own request only. A run of the workflow script leaves neither a
container nor a slot, and gives the slot back last. The page keeps refreshing,
once at a time, and ends up showing what the server holds.

## 2. The modules

| module | models |
|---|---|
| `Placement` | the placement rule as operators; the part every other module relies on |
| `ServerConfig` | `load_server_config` as far as placement reads it: defaults of fields that are missing |
| `PlacementLoop`, `MCPlacement` | `pick_host` statement by statement over configuration files, compared with `PickHost` and with the free slots of `/api/capabilities` |
| `SlotLease` | what the registry promises: leases are granted free of conflict, and end |
| `SlotRegistry`, `MCSlotRegistry` | reservations, heartbeats, releases, the polling loop with its reaper, edits of the configuration, crash and restart |
| `SlotIdentifiers` | the ids of slots, which every client of the slot API names |
| `SlotWorkflow` | runs of `slot-workflow.sh`, the rows they hold and the containers they leave |
| `Dashboard` | one open page over a table that others change: refreshes, countdown, buttons, history panels |
| `AgentMetrics` | `GET /metrics` of the agent in overlapping requests, and the poll that waits |
| `MetricsStore`, `MCMetricsStore` | the poller and the `metrics` table, with the clocks of agents and server |
| `RegistryCache` | `RegistryClient.health` under overlapping requests |
| `Babysit`, `MCBabysit` | `get_babysit` amid instances that start, finish and die |
| `SetupHost`, `MCSetupHost` | `setup-dev-host.sh`, failing or cancelled anywhere and repeated |
| `PlacementProofs`, `PlacementLoopProofs` | theorems about the placement rule, and about the loop that computes it |
| `SlotRegistryProofs` | theorems about `SlotRegistry` |
| `SlotClientsProofs` | theorems about the clients of the slot API: runs of the script, and the page |
| `AgentProofs` | theorems about the two parts of the agent, `AgentMetrics` and `Babysit` |
| `MetricsStoreProofs`, `RegistryCacheProofs`, `SetupHostProofs` | theorems about the modules of these names |

`SlotRegistry` uses the operators of `Placement` and is shown to implement
`SlotLease`. `MetricsStore` details what `SlotRegistry` abstracts to `latest`,
the newest sample of each host; `AgentMetrics` what `MetricsStore` abstracts to
an agent that answers or does not. The script and the page meet only in the
server's table, and each module lets anybody change it at any time (`Expire`,
`Reap` and `Delete` of `SlotWorkflow`, `Others` of `Dashboard`): what is checked of
one client holds beside any number of others, and a composition of the two would
only take behaviours away. Modules
that a proof module extends together name what they share apart (`PageInit`, `ScanNext`).
The others stand alone, as the parts they model do.

### SlotRegistry

State: `now` is `int(time.time())`; `slots` the table, by id; `latest` is what
`Database.latest` would return for each host, reduced to what placement
reads; `config` the contents of the file; `lockq` the asyncio lock with its
FIFO waiters; `pc` and `req` where each invocation of `api_create_slot` is and
what its locals hold; `beat` the same for `api_heartbeat`; `poll` for
`polling_loop`.

One action is one stretch of code between two points where another actor can
act. For a coroutine those are its awaits, and, since releases run on a thread
pool, also the gaps between two database calls. `LoopFree` says that no other
coroutine is in such a gap, so that coroutines interleave at awaits only, while
`Delete`, `Tick`, `EditConfig` and `Crash` fall anywhere.

| step of the code | action |
|---|---|
| load configuration, read the body, ask for the lock (`server.py:313-327`) | `Begin` |
| samples and counts of every host, under the lock (`327-335`) | `Count` |
| offsets in use, first `pick_host` (`336-358`) | `ReadOffsets` |
| a probe that fails: offline row, host dropped, next `pick_host` (`359-362`, `342-358`) | `ProbeFails` |
| a probe that succeeds: `insert_slot`, lock released (`364-370`) | `ProbeSucceeds`, `IdsCollide` |
| `get_slot` and the response (`374-375`) | `Reply` |
| heartbeat: look up / update / read again (`405-420`) | `BeatFinds`, `Renew` or `RenewFails`, `BeatReplies` |
| release (`397-402`) | `Delete` |
| polling loop: load, one host answers or not, reap (`65-88`) | `PollStart`, `PollHost`, `Reap` |

Abstractions, all of which add behaviour or leave out what changes no state:

* A statement and its `commit` are one step; SQLite serialises them.
* An uncontended lock is taken without an await. `Begin` and `Count` are two
  steps in any case, which adds interleavings and takes none away.
* The collision retry (`_make_slot_id` up to three times) is one choice of an
  id that is free, or `IdsCollide`, which may happen whenever some id is taken.
* A row whose timestamp is not the newest does not change `latest`, hence the
  "unchanged" alternative in `PollHost` and `ProbeFails`: it stands for agent
  clocks that run ahead. An offline sample is `[online |-> FALSE]` with no load.
* Requests answered 400, 404 or 500 without touching state, and the read-only
  routes, are left out. A response leaves the server in the step that computes
  it; whether it arrives makes no difference here, and does in `SlotWorkflow`.
* A file in `Broken` parses as YAML, and an entry lacks its name or its
  address: `load_server_config` raises, so the handlers and the start of the
  process fail, while the polling loop, which takes the YAML as it is, polls the
  entries that are whole and reaps. Which those are is left open (`PollSets`).
* `Count` is the loop of `server.py:328-335`, one query per host, taken at once.
  A `DELETE` between two of the queries, the only thing that can come between, is
  one before or after all of them as far as each host is concerned.
* `prune_old` runs beside the reaper (`server.py:78`) and may remove the last row
  of a host that has not been polled for a day, after which `latest` has nothing
  for it. Placement treats that as it treats an offline row, which is what the
  module keeps.
* The server checks no maximum for `ttl_seconds`, hence `Ttls` is any set.
* `PortRange` is computed from `port_base` and `port_stride`, here constants: the
  configurations of a run move capacities, not ports.
* Wall-clock time does not go back. If it did, an expired row could become
  active again beside the slot that was given its offset; see the hazards.

`SlotTimely` and its theorems assume that a heartbeat is *applied* while its
row is active (`TimelyNext`). It is an assumption about the clients and about
the latency of the handler between its lookup and its update; the
`late_heartbeat` run shows that it cannot be dropped.

### Placement and PlacementLoop

`Placement` states the rule as operators over a configuration (a sequence of
hosts with a policy) and a snapshot, and `free_slots` of `/api/capabilities`
(`FreeSlots`), which the server computes apart from it. `ServerConfig` makes that
configuration of a file in which fields are missing. `PlacementLoop` is the code: a host index,
the inner search `_lowest_free_offset` step by step, the list of candidates and
the stable sort, with comparisons and a capacity of its own: only the two threshold
numbers are shared with the rule. The check that the two agree is exhaustive over the inputs of
`MCPlacement`.

### MetricsStore

State: the server's clock, the skew of each agent's, the table `metrics`, the
`GET /metrics` of each host in the current cycle, and the polling loop. An
observation has two times: the row's `ts`, by which the code orders, prunes and
limits, and `seen`, when the host was really observed, which no action reads.
`StartCycle`, `AgentAnswers`, `Store`, `StoreOffline` and `EndCycle` are
`polling_loop` and `poll_host` (`server.py:51-88`); `ProbeFails` is the offline
row of a reservation (`server.py:359`); `CycleFails` is a configuration that
cannot be read, `Crash` and `Restart` the process. `LatestRows`
is the query of `db.py:90-101`. Rows that agree in every column read alike
and collapse, so the table is a set; the row id, by which the code orders
nothing, is left out. `POLL_TIMEOUT` bounds a whole request: httpx applies its
10 seconds to each connect, write and read, so its value is larger than that.

### RegistryCache

State: whether the registry is up, down, or answers with a catalog in which the
repositories are `null`; the cached answer with its stamp, and
where each invocation of `health` is. Times are kept as ages (how long ago),
saturating at `CACHE_TTL`, so that the model stays finite without a bound on
the clock. `Hit` and `Miss` are the lines up to the first await, `V2Fails`,
`V2Answers` and `CatalogReplies` or `CatalogEnds` those after each; storing the result and the
stamp is in the same stretch as the last of them (`Keep`). The list of
repositories is left out, since it is passed on, except that a `null` has no
length: `registry.py:52` raises, and the outer `except` calls a registry that
answered unhealthy (`CatalogReplies`).

### Babysit

State: the log and stop files, who has which process id, `_orphan_emitted`, and
the loops of each scan. Each iteration is a step, so instances start, write,
finish and die in between. `babysit.sh` is not in the repository; its actions
are external, taken from what the scan looks for: a stop file while it runs, a
log named after project, start and pid, the throttle line, the reason for its
end. Within an iteration the code reads several files; the model reads them at
once, except that a stop file may go between `glob` and `getmtime`
(`StopVanishes`, a 500). `Shadows` says which project names begin with another
and a dash: the pattern of the shorter name finds the logs of both. `Foreign` are
projects of a user whose processes `psutil` refuses to describe: an instance of
theirs is never alive to the scan (`agent.py:312`). `Unreadable` are projects whose
logs are listed but cannot be opened: both loops pass over them (`340`, `453`).
`InstancesAreSurfaced` is about the projects to which none of the three happens
(`Observable`); what the code does to the others is in section 6. A unit of the
clock stands for more than the 5 s by which `agent.py:311` lets the start of a
process differ from its log, and a pid is not given away twice within a unit
(`Launch`): within the tolerance is equal, and beyond it is not. `AgentRestarts` ends the
scans under way and empties `_orphan_emitted`.

### SetupHost

State: what the repository holds, the host's files, what launchd and Colima
run, the flags of the running script, which do not outlive it, and the result of
the last run. Every step of the script is an action; one that leaves something half
done when it is cut off is several (stop, then swap; open, then write; bootout,
then bootstrap; stop, then start). `Cancel` ends a run anywhere.

The script has no `set -e`, and most of its commands are not looked at or are
followed by `|| true`. Each such command has an action for its failure, with what it
leaves and what the script goes on to believe: `SwapFails` (a torn or an old copy is
moved into place, and `AGENT_UPDATED` is set), `WriteConfigFails`, `BabysitFails`,
`PlistFails` (`PLIST_UPDATED` is set in the mode in which `printf` writes),
`LoadFails` (a `bootout`, `bootstrap` or `kickstart` that does nothing: the old agent
stays), `BootstrapFails`, `RegistryFails`, `ColimaFails` (with the machine up or
down), `VerifyFails` (the agent needs longer than the 3 s, or `docker info` is slow).
The bootouts of `185`, `302` and `314` may do nothing in any run, because under sudo
they address root (`MayStop`). `fault` is the model's own note that a command failed
in this run; no action reads it but `Verify`, which writes it into the result. It is what the
two invariants about results need: the script itself says "All checks passed" after
failures it did not see, which is a difference in section 6 and not a property.

`files.port` says whether an agent started from the files would listen on
`AGENT_PORT`, the port that step 4 asks (`438`): the default configuration names it,
an empty one falls back to 9100, and the user may write another. `files.config`
follows a configuration from the user's edit (`edited`) through the patch of the
babysit section, which loads it and dumps it anew without comments (`rewritten`); an
edit that is no YAML mapping (`broken`) makes the patch raise. An agent answers if it
was started from a whole `agent.py` with its dependencies and the right port.

Abstractions: nobody commits or edits while a run is under way; `AGENT_PORT` and the
mode are those of all runs; the legacy `load -w` counts as a bootstrap; a shell's
`cat >` opens the file empty and then writes all of it; a torn plist is no plist.
Homebrew's steps are one, since each only asks whether a command exists. What
happens between runs is `Commit`, `EditConfig` and `Reboot`, and `Respawn` at any
time. `Versions` are what the repository may hold of the agent and of the plist.

### AgentMetrics

State: the kernel's counter and whether psutil finds it, the previous sample
with the sign of the time since (`lead`), the holder of `_io_lock`, where each
request is, and the server's `GET` of this host. A request is a thread: `Sample`
takes the lock, the clock and the counters (`agent.py:113-121`), `StoreSample`
computes the rate, stores the globals and releases (`125-150`), `SampleRaises` is
the subtraction from a sample that was `None`. `Collect` is what comes before them,
`Check` and `CheckTakesTime` the services one after the other, `Scan` and `Finish` the
rest. A check that has a timeout takes any time up to `CHECK_TIMEOUT`, whether the
service answers late or never; the collectors, the walks over the processes and the
babysit scan have no limit, and the request stays where it is while time passes
(`Untimed`). `Poll` and
`PollTimesOut` are `poll_host`: the server gives up, the thread goes on. What
takes no time worth speaking of is done before `Tick` (`Waiting`): the reading of the
counters under the lock, the arithmetic, the writing of the answer. Of the wall
clock the code uses the sign of the time since the last sample; it is positive after
a tick, zero within one, and negative, or zero, for a while after the clock was set
back (`SetBack`). `slow` and `untimed` count what the polled request has spent, for the
property only. Rates are
kept as bytes: `reported` sums what all rates together have counted. Disk and
network counters are treated alike, one stands for both.

### SlotWorkflow

State: the rows as the script and the server see them (active, expired, gone),
the container of each slot, and each run with its shell variables `SLOT_ID`,
`named` (whether `CONTAINER_NAME` is set) and the exit status. Every command is
an action, with an action for its failure, and one for doing its work with the
answer lost; `set -e` and `fail` go to the trap (`Fail`). `Interrupt` runs the trap
from wherever the script is, `Kill` does not. `RunAbandoned` and `LateRun` are a
`docker run` that goes on after the script has been cut off from it. The
script sends no heartbeats, so time is what `Expire` may do to an active row at
any moment; `Reap` and `Delete` are the server. A place is a host with a port
offset: `Post` grants one that no active row holds, which is what
`PortsNeverOverlap` proves of the server. `own` and `lost` are of use to the
properties only.

### Dashboard

State: the ids in the server's table, the intervals that tick and the one that
`countdownTimer` holds, where each invocation of `refresh` or `reapSlot` is and
what list of slots it was told, the ids with a release button in the cards and on
the tab Dev Slots, the card of a
host and its history panel with the loads in flight. A refresh is begun by the chart
adapter's `onload` (`AdapterLoads`), the countdown (`Fire`), the Refresh button
(`PressRefresh`, `index.html:269`), which is there before the adapter is and while
other refreshes are under way, and by a release (`Reaped`, `ReapLost`). `Told` is the
server answering `/api/slots`. The rest of `refresh` is the `try` block (`Render`), an
exception before the cards are replaced (`RefreshFails`), or one in the renderer of a
later tab (`RenderFails`: new cards beside an old list of slots), with
`resetCountdown` after each. `Rerender` replaces
the cards: a load in flight for the old panel is then nobody's (`loads' = 0`, or 1
for the load that is started for an expanded card). `Others` is everybody else who
changes the table, in any way.

## 3. The runs

| run | asks | bounds |
|---|---|---|
| `placement` | does the loop return what the rule says, do the free slots shown agree with it | files with two hosts, each field there or missing, `max_slots` 2, policies of 1 slot and 2 offsets or their defaults; load below, at the CPU and at the memory threshold, offline; 0 to 2 active slots; every set of two offsets; with and without a hint |
| `slot_timely` | overlap of offsets and of port ranges, capacity, lock, snapshot, refinement of `SlotLease` | two hosts, two ids, two reservations, one heartbeat, an edit that moves the capacity from two slots on one host to one each on two, ttl 1, `MaxClock` 2 |
| `slot_live` | is every reservation answered, do expired rows go, which steps remove and add rows | two reservations, one heartbeat at any time, one host whose probes and polls may fail, one id, ttl 0 or 1, `MaxClock` 1, a file that may become malformed or unreadable |
| `metrics` | how far `latest()` lags, how often hosts are observed, how old rows get | one host, its clock right or a second ahead, interval 1, timeout 1, retention 3, `MaxClock` 6 |
| `registry` | how old an answer may be, does it follow the registry | two requests, `CACHE_TTL` 4, timeouts 2 and 1, a registry that goes up, down and odd |
| `agent` | bytes in two rates, whose work makes a poll time out, does every request end | two requests, two services, checks of up to 1 and a poll of 2 time units, one byte |
| `babysit_scan` | does a scan report what is there, and nobody as running who is not | three projects: one of another user whose name begins that of the second, the third with logs that cannot be read; two runs, two pids, one scan, orphan age and finished window 1, `MaxClock` 2 |
| `setup_rerun` | is a host that a run calls done up to date, what can make a repeated run fail, is the user's configuration kept | two versions of agent and plist, both modes, both kinds of `AGENT_PORT`, every command failing, cancelled anywhere, any number of runs |
| `workflow` | is anything left of a run that could clean up, does the container go before the slot | two runs, two slots, two places, one of them on a host without `ssh_user` |
| `dashboard` | one countdown, no panel that waits for nothing, does the page follow the server | one page with two calls, two timers, two history loads, one slot that comes and goes |

Why these are enough: an overlap needs two rows, a capacity violation a
count and an insert of another reservation in between, an expiry and a
reuse one tick beyond the ttl; two handlers of each kind give every pair of
actors, and a third would repeat the pairs. In `metrics` hosts do not interact
but for the end of the cycle, so one is enough to see every race of poll, probe
and prune; the clock runs past the retention and a cycle, so that rows are
pruned, and beyond the bound that `PolledOften` states. A stale answer of the
registry needs a fetch that overlaps another, two. A byte in two rates needs
two requests and one byte; a poll that times out two checks of half its
patience, and the lock held by another request while it waits. A container that
blocks a port needs a second run on the same place. Refreshes overtake each
other with two. In `babysit_scan` a pid is
given away with two runs, an orphan and a finished log grow too old with the clock
at 2, and there is a project of every kind. In `dashboard` slots are told apart by
nothing but their presence, so one is enough. `SetupHost`
needs no bound: its state is finite. The theorems below remove the
bounds for everything these runs check of safety: what is left to the bounds is
liveness. Ids and reservations are interchangeable (`SYMMETRY`),
except in the liveness runs, which use none. Deadlock is checked except in
`placement`, a function that returns, and in `workflow`, whose runs end.

Fairness. The event loop's ready queue is FIFO, every await of a handler has
a timeout (3 s for a probe, 10 s for a poll) and `asyncio.Lock` wakes waiters
in order. A step that is possible again and again (`LoopFree` comes and goes)
is therefore taken: strong fairness for the steps of reservations, of
heartbeats and of the polling coroutine as a whole (`PollingLoop`). `Restart` is
weakly fair because the units say `Restart=always` / `KeepAlive`. Nothing is
assumed of clients, edits or crashes, nor that probes succeed. In `RegistryCache`
the steps of a fetch are weakly fair (the loop is never blocked, and httpx gives
up), and time passes.

In `AgentMetrics` the threads run (weak fairness for the steps of each request),
time passes, collectors, process walks and scans end because there is a finite
number of processes and files, and the agent is restarted (`Restart=always`). A thread that waits
for `_io_lock` gets it if the lock is free again and again (strong fairness for
`Sample`): the lock is held for microseconds, and the agent would need a steady
stream of requests to keep one out. That services answer in time, or that somebody
asks, is not assumed. In `Dashboard` the browser runs timers and ends every
fetch (weak fairness), and a page that asks again and again is told, and renders,
again and again (strong fairness for `Told` and `Render`): without it
every refresh might fail, and the page would have nothing to show.
Nothing is assumed of the user, of the others who change the table, or of the chart adapter.
The other runs check safety only.

Runs that show a disagreement between the code and what it is documented to do:

| run | what happens |
|---|---|
| `late_heartbeat` | a heartbeat that comes after expiry and before the reaper makes the row active again although its offset has been granted to another slot |
| `setup_cancelled` | a run cancelled between the patch of `colima.yaml` and the restart makes every later run fail |

## 4. The proofs

`PlacementProofs`: `LeastNatural` (a set of naturals that is not empty has a
least element, from well-foundedness) gives `LowestFreeOffsetIsFree`;
`BestCandidateExists` shows that a configuration with a candidate has one that
nobody beats in the sort order. Together: `PickHostIsBest`.

`PlacementLoopProofs`, for configurations of any length:
`LoopReturnsPickHost`, `Spec => []ReturnsPickHost`, `CapabilitiesAgree`,
`Spec => []FreeSlotsMatchPlacement`, and `LoopIsTyped`, `Spec => []TypeOK`. The loop invariant: the list holds
exactly the candidates among the entries passed, in their order (`Describes`), and
the offsets below the one under consideration are taken (`Searched`). When the loop
ends, the first element of the stable sort is the candidate that
`Placement` prefers, because equal keys keep the order of the configuration.

`SlotRegistryProofs`, for all hosts, ids, handlers, configurations and ttls:

* `TypesAlwaysHold`: `Spec => [](TypeOK /\ HolderIsFirst)`.
* `OneHoldsTheLock`: `Spec => []HolderIsFirst`.
* `PortsNeverOverlap`: `TimelySpec => []NoPortOverlap`, and `SnapshotsCover`:
  `TimelySpec => []SnapshotCovers`, which it rests on.
* `CapacityIsNeverExceeded`: `TimelySpec => CapacityIsKept`.
* `RangesNeverOverlap`: `TimelySpec => []RangesAreDisjoint` for every `port_base`
  and `port_stride`: different offsets are at least one stride apart.
* `RegistryImplementsLease`: `TimelySpec => ImplementsLease`.
* `ActiveSlotsStay`, `OnlyInsertsMakeRows`: `Spec => OnlyDeleteEndsActive` and
  `Spec => OnlyInsertAddsRows`, whatever the heartbeats do; the second needs
  `TypeOK`, by which a heartbeat at work has the id of a slot.

`NoPortOverlap` alone is not inductive: an insert could put any offset in the
table. The invariant that is adds what the inserting handler knows:
`IInv == TypeOK /\ HolderIsFirst /\ SnapshotCovers /\ NoPortOverlap`. The
argument is that from the read of the offsets to the insert the active rows can
only shrink: only the holder of the lock inserts (`HolderIsFirst`), a timely
heartbeat never makes an inactive row active, and releases, reaping and the
clock only take rows away. So what was read then still covers what is active
now (`SnapshotCovers`), and the chosen offset lies outside it.

The capacity has the same argument with cardinalities. From the count to the
insert the active rows of a host only become fewer, so what was counted is at
least what is active (`CountCovers`), and the chosen host has room by the count
(`HasRoom`, which `pick_host` ensures at every choice, the first and those after a
failed probe). The insert adds one row to at most `max_slots - 1`.

`MetricsStoreProofs`: `LatestLagsByTheSkew`,
`Spec => []LagIsBounded`, and `StoreIsTyped`, `Spec => []TypeOK`. The invariant adds that every row is
stamped by one of two clocks (`Stamped`): of two rows of a host, the one with
the later stamp was seen at most one skew earlier. `HostsArePolled`,
`Spec => []PolledOften`, and `RowsArePruned`, `Spec => []RowsAreRecent`, need to
know when the cycles were (`Rhythm`): every request of a cycle starts with it, and a
cycle starts when its sleep is over, so that the start of a cycle dates what the one
before it stored and pruned (`LeftBy`). Both assume `RetentionCoversPoll`: no
agent's clock is behind by more than the retention less the timeout of a poll.
Without it the prune at the end of a cycle may remove the row the cycle has just stored.

`RegistryCacheProofs`: `HealthIsFresh`, `Spec => []AnswersAreFresh`, and
`CacheIsTyped`, `Spec => []TypeOK`.
The cache is stamped with the time the fetch began, and what a fetch sees it
sees later; so an observation is never older than its stamp, and a fetch that
lasts less than `CACHE_TTL` stores nothing that is too old already. The
assumption that the two timeouts together stay below `CACHE_TTL` is needed: it
is what bounds the answer of the invocation that fetched. With 5 s for each
phase of a request it holds unless most phases of both run nearly into their
timeout.

`AgentProofs` is about both parts of the agent. Of the I/O rates, for any requests,
services, timeouts and bytes: `NoByteTwice`, `Spec => []BytesCountedOnce`,
`TimeoutsAreOwnWork`, `Spec => []TimeoutIsOwnWork`, and `RatesAreTyped`. For the first
the invariant says what the holder of the lock knows: exactly the holder has a
sample, no sample is ahead of the counter, and what was reported so far is at most
the previous sample and at most the holder's; whatever rate comes next starts above
all the bytes in earlier ones. For the second it counts time: the age of the polled
request is at most what its slow checks have taken so far, `CHECK_TIMEOUT` for each,
and what it spent in untimed work, since time passes for it nowhere else: a lock
that another request holds is released before `Tick`.

Of the babysit scan, for any projects, runs, pids, scans and overlaps of names:
`RunningIsTrue`, `ScanSpec => []RunningHasLived`, `NobodyIsMissed`,
`ScanSpec => []InstancesAreSurfaced`, and `ScansAreTyped`. Neither is inductive. The
invariant starts from what `babysit.sh` keeps in the directory (`Directory`): a pid
and a time of start name one run; of two runs of a project one was over before the
other started; the last one has a stop file for as long as it lives and none once it
has finished. Two facts follow, which are why a scan tells the truth: a process that
looks like the run of a log is that run (`AliveIsAlive`), and the newest log of a
living instance's project is its own (`NewestIsLast`). What a scan knows midway is
`SaysTrue`, nobody in its answer so far is called running who was not, and `SaysAll`:
each run the answer will owe (`Due`) is in it, or its turn is yet to come (`Pending`).
An instance that finishes under the scan passes from the stop files still to be
looked at to the logs still to be looked at. What instances do meanwhile is
summed up in `Effect`: they may only end what is due to be shown, or finish and
so be due among the logs; a scan notices neither before its turn.

`SlotClientsProofs`. Of the script, for any runs, slots and places: `NothingIsLeft`,
`Spec => []NothingLeft`, `ContainersGoFirst`, `Spec => ContainerGoesFirst`, and
`ScriptsAreTyped`. The invariant is `TypeOK /\ Owners /\ Tidy`. `Owners`:
the slots of runs are granted, and no two runs have the same. `Tidy` says for each
place of the script what the run knows and what it has left: `SLOT_ID` is the slot
it was granted, the container is named from `docker run` to `docker rm`, and there
is none before, when the slot is released, or in a trap that was not told its
name; when a run is over, or has forgotten `SLOT_ID`, its row is gone. Lost answers
are the exception that `lost` marks.

Of the page, whatever happens to the table: `PageKeepsGoing`,
`PageSpec => []OneCountdown`, `PanelsAreFilled`,
`PageSpec => []PanelLoads`, and `PageIsTyped`. The three with `ReleasesSlots`, what is
released was shown, are inductive: whoever starts a refresh makes a call that is not
idle, and whatever ends one starts the only countdown.

`SetupHostProofs`, for any versions, failures and places at which runs are cancelled:
`OkMeansCurrent`, `Spec => []DoneMeansCurrent`, `OnlyKnownFailures`,
`Spec => []FailuresAreKnown`, `EditsAreKept`, `Spec => SettingsAreKept`, and
`HostIsTyped`. The invariant is `TypeOK /\ Configured /\ Done /\ ResultStands`.
`Configured` is what the entries of the configuration say of one another, whichever
run wrote them. `Done` goes along the script: as long as no command of this run
has failed, what each section has passed is on the disk, and
from the load on launchd runs an agent that was started from those files. It says
nothing of what an earlier run left running, which is why a
`bootout` before a swap that did nothing does no harm: the load starts the agent anew in any
case. `ResultStands`: between runs nothing of what the last one reported is taken
back without its result being dropped.

Assumptions on constants: `ConfigsAssumption` and `DataAssumption` of
`SlotRegistry`, `ClockAssumption` of `MetricsStore`, `TimeoutAssumption` of
`RegistryCache`, `AgentAssumption` of `AgentMetrics`, `ScanAssumption` of `Babysit`,
`WorkflowAssumption` of `SlotWorkflow`, `PageAssumption` of `Dashboard`,
`SetupAssumption` of `SetupHost` and `InputsAssumption` of `PlacementLoop`, all
evaluated by TLC. But for that of `RegistryCache` they only type the inputs, make the
sentinel values distinct and the set of ids finite.

Only model-checked: liveness, which is beyond the prover (`ReservationsAnswered`,
`ExpiredReapedWhenHealthy`, `ChangesAreSeen`, `RequestsEnd`, `PageFollows`). Every
invariant and every action property of a passing run is a theorem, two of the poller
under the condition named with them.

## 5. What is left

Worth proving next: that `SlotRegistry` keeps the promise `SlotWorkflow` relies on (a
granted place is held by no other active row, an id comes once), as a refinement
between the two; that the requests of `AgentMetrics` with the scans of `Babysit` in
them keep the invariants of both; that the sleep of the poller bounds the age of an
expired row in `SlotRegistry` as it bounds that of a sample in `MetricsStore`.

Not modelled, and why:

* `/api/metrics`, `/api/summary`, `/api/babysit` and `Database.history` read and
  change nothing; what they rest on is `latest()` (`MetricsStore`).
* CPU, memory, disk and GPU figures of the agent, its `/health` and
  `/babysit-log`: plain reads of the operating system, without state.
* `deploy-server.sh` and the unit files: commands in a row that keep no state of
  their own; what `Restart=always` gives the processes is in the modules.
* HTML rendering, tabs and the babysit log panel of the dashboard: formatting, and
  a panel that a reader opens and closes.
* The registry section of the configuration, addresses, users and roles: passed
  on to the caller as they are.

## 6. Differences noticed and not run

Met while modelling, read off the source, and not the subject of a run:

* `specs/slot-registry-and-cc-v0.1.md:536` treats a host that has not been
  polled for two intervals as offline for placement; `placement.py:34` looks at
  the newest row whatever its age. `PolledOften` bounds that age only while the loop
  has been up for a poll.
* `specs/slot-registry-and-cc-v0.1.md:542` keeps hosts with `max_slots: 0` out of
  placement; `placement.py:32` gives such a docker host the policy's default.
* `specs/slot-registry-and-cc-v0.1.md:152` ignores a hint for a host that is no
  candidate; `placement.py:51` skips every other host, as `tests/test_api.py:231`
  expects.
* `server.py:80` says every poll cycle reaps; a cycle that cannot read
  `config.yml` (`server.py:70`) does not.
* `HOMELAB_DEV_USAGE.md:205` promises 404 for a slot that was released; released
  between lines 415 and 419 of `server.py`, a heartbeat answers 500.
* `registry.py:3` says the cache avoids hammering the registry; requests that
  overlap with a fetch each start their own (`registry.py:28`).
* `README.md:115` has the live countdown of a throttled instance; a throttle line
  in the last 64 KB counts after the instance resumed, and a time that has passed
  is taken for one of tomorrow (`agent.py:364-372`).
* `specs/dev-host-setup-v0.1.md:107` and `:236` say no cancelled run leaves a
  half-written file; `agent-config.yml` and the agent-only plist are written in place
  (`setup-dev-host.sh:212`, `224`, `304`), and the next run takes an empty
  configuration for the user's and adds the babysit section to it (`bare`).
* `specs/dev-host-setup-v0.1.md:118` and `:235`, and `setup-dev-host.sh:206`, say the
  agent's configuration is never overwritten; lines 252-264 load one without a babysit
  section and dump it anew, without its comments and layout (`rewritten`).
* `setup-dev-host.sh:327` says never to use root's UID with launchctl; lines 185,
  302 and 314 use `id -u`, which is root's under sudo, so the bootout does nothing.
* `specs/dev-host-setup-v0.1.md:238` has a changed plist take effect. A run that
  replaced the plist and was cut off before line 331 leaves launchd with the old
  one if the bootout did nothing; the next run finds no difference and kickstarts
  the agent under the plist launchd knows (line 343). `DoneMeansCurrent` is therefore about
  the plist on the disk.
* `setup-dev-host.sh:182`, `188`, `304`, `334` and `252-266` are not looked at when they
  fail, and a failed reload is a warning (339): if the old agent still answers, the
  script says "All checks passed" over it. `specs/dev-host-setup-v0.1.md:153` has an
  exit code of 0 for "all steps satisfied". `DoneMeansCurrent` is therefore
  about runs in which no command failed.
* `setup-dev-host.sh:405`: a restart of Colima that fails with the machine still up is
  reported as done (406-407) and not tried again by later runs, which end in failed
  checks as after a cancellation there (`setup_cancelled`).
* `setup-dev-host.sh:438` asks the port `AGENT_PORT`; an agent whose existing
  configuration names another port (`agent.py:621`), or is empty while `AGENT_PORT` is not
  9100, makes every run fail although it is well (`FailuresAreKnown`).
* `README.md:19` promises 24-hour history charts; `db.py:113` orders ascending and
  takes 1440 rows, so with offline rows of probes beside those of the polls, or a
  `POLL_INTERVAL` below 60 s, the newest are missing.
* `README.md:98` says the Babysit tab surfaces running instances; the glob of
  `agent.py:282` for project `a` also finds the logs of a project `a-b`, and a newer
  one hides the running instance of `a`. An instance of another user, whose
  processes `psutil` may not describe, is shown as crashed while it runs
  (`agent.py:312`, and the state at 393-400), and one whose logs the agent cannot open is left out
  (`340`, `453`). `InstancesAreSurfaced` is about all other
  projects (`Observable`), `a-b` among them.
* `agent.py:120-128`: disk counters that are missing once are stored as `None`, and
  every later request raises at line 128 before it stores others: the agent
  answers 500, and is shown offline, until it is restarted (`SampleRaises`).
* `agent.py:240` checks services one after the other, up to 5 s each, after
  collectors and before a scan without a limit, and
  `server.py:55` waits 10 s: two services that hang, three that answer after four
  seconds, or a long walk over the processes make the server store the host
  as offline while its agent works on (`TimeoutIsOwnWork` says no more than that it is
  its own work).
* `registry.py:52`: a registry that answers and has `null` for its repositories is
  shown as unhealthy (`CatalogReplies`).
* `slot-workflow.sh:28` says the slot auto-expires if the script aborts; the
  container of a killed run does not, and keeps its port: the next run that is
  granted the place fails at `docker run`. `specs/slot-workflow-example-v0.1.md:203`
  asks that consecutive runs leave no orphaned container.
* `slot-workflow.sh:182`: a slot that was released or reaped meanwhile makes the
  `DELETE` of an otherwise successful run a 404, and the run a failure.
* `index.html:853`: a refresh that was overtaken renders its older data last; the
  next refresh corrects it (`PageFollows`).
* `index.html:937`: without the chart adapter from its CDN the page asks the
  server for nothing until somebody presses Refresh (`AdapterFails`, `PressRefresh`).
* `index.html:889-905`: an exception in a later renderer leaves new cards beside the old
  tables of the other tabs until a refresh gets through (`RenderFails`).
* `server.py:288` computes port ranges from the policy of the moment: an edit of
  `port_base` or `port_stride` moves the ranges of slots that are in use. A stride of
  zero is accepted, and gives every slot of a host an empty range with the same
  start; `RangesAreDisjoint` holds of empty ranges.
* `specs/slot-registry-and-cc-v0.1.md:153` breaks ties by the lowest memory;
  `placement.py:67` by the order of the configuration. Line 539 of it limits
  `ttl_seconds` to `max_ttl_seconds`, which the server does not know.
* `config.py:104` parses `server.poll_interval`; the loop sleeps for the
  environment's `POLL_INTERVAL` (`server.py:35`).
