---------------------------- MODULE SlotRegistry ----------------------------
(***************************************************************************)
(* The slot registry of server/server.py over the slots table of            *)
(* server/db.py: reservations, heartbeats, releases, the polling loop with  *)
(* its reaper, edits of the configuration file, and crashes of the process. *)
(*                                                                          *)
(* The coroutines (POST /api/slots, the heartbeat, the polling loop) share  *)
(* one event loop and give it up only at an await.  A handler is therefore  *)
(* a little program whose steps are the stretches between two awaits.  The  *)
(* plain functions (DELETE /api/slots/{id}) run on a thread pool and may    *)
(* fall between any two statements of a coroutine, so a stretch that makes  *)
(* several database calls is more than one step here; LoopFree keeps the    *)
(* other coroutines out of it.                                              *)
(***************************************************************************)
EXTENDS Placement

CONSTANTS
  Hosts,       \* host names
  SlotIds,     \* values of _make_slot_id: 8 hex digits of a hash
  Reservers,   \* concurrent invocations of api_create_slot
  Beaters,     \* concurrent invocations of api_heartbeat
  Hints,       \* the host_hint of a request: a configured host, or NoHint
  Configs,     \* the configurations config.yml may hold
  Broken,      \* contents that load_raw reads and load_server_config rejects:
               \* a host without its name or its address
  Unreadable,  \* config.yml missing, or not YAML: load_raw raises
  Samples,     \* what a metrics row may say: [online, cpu, mem]
  port_base,   \* of slot_policy, which keeps these two while the system runs
  port_stride,
  Ttls,        \* the ttl_seconds of a request, or the default: no limit is checked
  MaxClock,    \* bound: the clock stops here
  NoSlot,      \* no row under this id
  NoHost

VARIABLES
  now,      \* int(time.time())
  slots,    \* table slots: id -> row, or NoSlot
  latest,   \* Database.latest: host -> the sample of its newest metrics row
  config,   \* contents of config.yml
  up,       \* the process runs
  lockq,    \* _slot_lock: its holder, then the waiters in FIFO order
  pc,       \* where each invocation of api_create_slot is
  req,      \* its local variables
  beat,     \* an invocation of api_heartbeat: [at, id]
  poll      \* polling_loop: [at, pending]

vars == <<now, slots, latest, config, up, lockq, pc, req, beat, poll>>

Offline == [online |-> FALSE, cpu |-> 0, mem |-> 0]

\* Every offset that some configuration allows.
Offsets == UNION {0..(c.max_port_offsets - 1) : c \in Configs}

Slot == [host : Hosts, port_offset : Offsets, expires : Int]

HostEntry == [name : Hosts, docker : BOOLEAN, max_slots : Int]

ASSUME ConfigsAssumption ==
  /\ Configs \subseteq [hosts : Seq(HostEntry),
                        max_slots_per_host : Int, max_port_offsets : Int]
  /\ Unreadable \notin Configs \union Broken
  /\ Broken \intersect Configs = {}

ASSUME DataAssumption ==
  /\ Hints \subseteq Hosts \union {NoHint}
  /\ Samples \subseteq [online : BOOLEAN, cpu : Int, mem : Int]
  /\ Offline \in Samples
  /\ port_base \in Int /\ port_stride \in Nat
  /\ Ttls \subseteq Int
  /\ MaxClock \in Nat
  /\ IsFiniteSet(SlotIds)
  /\ NoSlot \notin Slot /\ NoSlot \notin [host : Hosts, offset : Offsets]
  /\ NoHost \notin Hosts

\* WHERE expires_ts >= now: the rows that count against capacity and offsets.
Active(row) == row # NoSlot /\ row.expires >= now

ActiveOn(h) == {id \in SlotIds : Active(slots[id]) /\ slots[id].host = h}

OffsetsOn(h) == {slots[id].port_offset : id \in ActiveOn(h)}

-----------------------------------------------------------------------------
(* The locals of a reservation.  Only pc in Working has any. *)

Working  == {"waiting", "counted", "probing", "inserted"}
Holding  == {"counted", "probing"}

NoRequest ==
  [hint |-> NoHint, ttl |-> 0, cfg |-> Unreadable,
   metrics |-> [h \in Hosts |-> Offline],
   active |-> [h \in Hosts |-> 0], used |-> [h \in Hosts |-> {}],
   host |-> NoHost, offset |-> NoOffset, id |-> NoSlot]

Resting == [at |-> "idle", id |-> NoSlot]

Asleep == [at |-> "asleep", pending |-> {}]

Init ==
  /\ now = 0
  /\ slots = [id \in SlotIds |-> NoSlot]
  /\ latest = [h \in Hosts |-> Offline]
  /\ config \in Configs
  /\ up = TRUE
  /\ lockq = <<>>
  /\ pc = [r \in Reservers |-> "idle"]
  /\ req = [r \in Reservers |-> NoRequest]
  /\ beat = [b \in Beaters |-> Resting]
  /\ poll = Asleep

\* No coroutine is between two database calls of one stretch.
LoopFree ==
  /\ up
  /\ \A r \in Reservers : pc[r] \notin {"counted", "inserted"}
  /\ \A b \in Beaters : beat[b].at # "updated"

-----------------------------------------------------------------------------
(* POST /api/slots.  Begin is the stretch up to `async with _slot_lock`: the *)
(* configuration and the ttl are read before the lock is waited for.        *)

\* The response leaves; whether it arrives makes no difference to the server.
Answer(r) ==
  /\ pc' = [pc EXCEPT ![r] = "idle"]
  /\ req' = [req EXCEPT ![r] = NoRequest]

\* When load_server_config raises, the answer is a 500 and nothing has changed: no
\* step.
Begin(r) ==
  /\ pc[r] = "idle"
  /\ LoopFree
  /\ config \in Configs
  /\ \E hint \in Hints, ttl \in Ttls :
       req' = [req EXCEPT ![r] = [NoRequest EXCEPT !.hint = hint, !.ttl = ttl,
                                                   !.cfg = config]]
  /\ pc' = [pc EXCEPT ![r] = "waiting"]
  /\ lockq' = Append(lockq, r)
  /\ UNCHANGED <<now, slots, latest, config, up, beat, poll>>

\* Mutated form of Count: `async with _slot_lock` is missing.
CountWithoutLock(r) ==
  /\ pc[r] = "waiting"
  /\ LoopFree
  /\ pc' = [pc EXCEPT ![r] = "counted"]
  /\ req' = [req EXCEPT ![r].metrics = latest,
                        ![r].active = [h \in Hosts |-> Cardinality(ActiveOn(h))]]
  /\ UNCHANGED <<now, slots, latest, config, up, lockq, beat, poll>>

\* With the lock: the newest sample and the active count of every host.
Count(r) ==
  /\ pc[r] = "waiting"
  /\ LoopFree
  /\ lockq # <<>> /\ Head(lockq) = r
  /\ pc' = [pc EXCEPT ![r] = "counted"]
  /\ req' = [req EXCEPT ![r].metrics = latest,
                        ![r].active = [h \in Hosts |-> Cardinality(ActiveOn(h))]]
  /\ UNCHANGED <<now, slots, latest, config, up, lockq, beat, poll>>

\* Mutated form of PlaceOrRefuse: a refusal does not release the lock.
PlaceOrRefuseLocked(r, rq) ==
  LET p == PickHost(rq.cfg, rq.metrics, rq.active, rq.used, rq.hint)
  IN  /\ UNCHANGED lockq
      /\ \/ /\ p.found
            /\ pc' = [pc EXCEPT ![r] = "probing"]
            /\ req' = [req EXCEPT ![r] = [rq EXCEPT
                         !.host = rq.cfg.hosts[p.index].name, !.offset = p.offset]]
         \/ ~p.found /\ Answer(r)

\* One turn of the `while True` up to the probe, with locals rq: the lock is
\* released when no host is left.
PlaceOrRefuse(r, rq) ==
  LET p == PickHost(rq.cfg, rq.metrics, rq.active, rq.used, rq.hint)
  IN  \/ /\ p.found
         /\ pc' = [pc EXCEPT ![r] = "probing"]
         /\ req' = [req EXCEPT ![r] = [rq EXCEPT
                      !.host = rq.cfg.hosts[p.index].name, !.offset = p.offset]]
         /\ UNCHANGED lockq
      \/ /\ ~p.found
         /\ Answer(r)
         /\ lockq' = Tail(lockq)

\* The offsets in use, read after the counts, and the first placement.
ReadOffsets(r) ==
  /\ up
  /\ pc[r] = "counted"
  /\ PlaceOrRefuse(r, [req[r] EXCEPT !.used = [h \in Hosts |-> OffsetsOn(h)]])
  /\ UNCHANGED <<now, slots, latest, config, up, beat, poll>>

\* The agent did not say "ok": an offline row, which is the newest one unless
\* the agent's clock is ahead, and the host is dropped from the snapshot.
ProbeFails(r) ==
  /\ pc[r] = "probing"
  /\ LoopFree
  /\ latest' \in {latest, [latest EXCEPT ![req[r].host] = Offline]}
  /\ PlaceOrRefuse(r, [req[r] EXCEPT !.metrics[req[r].host] = Offline])
  /\ UNCHANGED <<now, slots, config, up, beat, poll>>

\* Mutated form of ProbeSucceeds: INSERT OR REPLACE, a taken id is overwritten.
ProbeSucceedsReplacing(r) ==
  /\ pc[r] = "probing"
  /\ LoopFree
  /\ \E id \in SlotIds :
       /\ slots' = [slots EXCEPT ![id] =
                      [host |-> req[r].host, port_offset |-> req[r].offset,
                       expires |-> now + req[r].ttl]]
       /\ req' = [req EXCEPT ![r] = [NoRequest EXCEPT !.id = id]]
  /\ pc' = [pc EXCEPT ![r] = "inserted"]
  /\ lockq' = Tail(lockq)
  /\ UNCHANGED <<now, latest, config, up, beat, poll>>

\* The agent answered: the row is inserted under the first id that is free.
ProbeSucceeds(r) ==
  /\ pc[r] = "probing"
  /\ LoopFree
  /\ \E id \in SlotIds :
       /\ slots[id] = NoSlot
       /\ slots' = [slots EXCEPT ![id] =
                      [host |-> req[r].host, port_offset |-> req[r].offset,
                       expires |-> now + req[r].ttl]]
       /\ req' = [req EXCEPT ![r] = [NoRequest EXCEPT !.id = id]]
  /\ pc' = [pc EXCEPT ![r] = "inserted"]
  /\ lockq' = Tail(lockq)
  /\ UNCHANGED <<now, latest, config, up, beat, poll>>

\* All the ids that were tried are taken: 500.
IdsCollide(r) ==
  /\ pc[r] = "probing"
  /\ LoopFree
  /\ \E id \in SlotIds : slots[id] # NoSlot
  /\ Answer(r)
  /\ lockq' = Tail(lockq)
  /\ UNCHANGED <<now, slots, latest, config, up, beat, poll>>

\* get_slot after the lock: 201, or 500 when the row was deleted in between.
Reply(r) ==
  /\ up
  /\ pc[r] = "inserted"
  /\ Answer(r)
  /\ UNCHANGED <<now, slots, latest, config, up, lockq, beat, poll>>

Reservation(r) ==
  \/ Count(r) \/ ReadOffsets(r)
  \/ ProbeFails(r) \/ ProbeSucceeds(r) \/ IdsCollide(r)
  \/ Reply(r)

-----------------------------------------------------------------------------
(* POST /api/slots/{id}/heartbeat: the row is looked up, the body is awaited, *)
(* the row is updated, and read again for the response.                     *)

BeatFinds(b) ==
  /\ beat[b].at = "idle"
  /\ LoopFree
  /\ \E id \in SlotIds :
       /\ slots[id] # NoSlot
       /\ beat' = [beat EXCEPT ![b] = [at |-> "found", id |-> id]]
  /\ UNCHANGED <<now, slots, latest, config, up, lockq, pc, req, poll>>

\* Mutated form of Renew: an upsert, which recreates a row that has gone.
RenewUpserts(b) ==
  /\ beat[b].at = "found"
  /\ LoopFree
  /\ config \in Configs
  /\ \E ttl \in Ttls, h \in Hosts :
       slots' = [slots EXCEPT ![beat[b].id] =
                   [host |-> h, port_offset |-> 0, expires |-> now + ttl]]
  /\ beat' = [beat EXCEPT ![b].at = "updated"]
  /\ UNCHANGED <<now, latest, config, up, lockq, pc, req, poll>>

\* update_slot_expiry: UPDATE ... WHERE id = ?, whether or not it has expired.
Renew(b) ==
  LET id == beat[b].id
  IN  /\ beat[b].at = "found"
      /\ LoopFree
      /\ config \in Configs
      /\ slots[id] # NoSlot
      /\ \E ttl \in Ttls : slots' = [slots EXCEPT ![id].expires = now + ttl]
      /\ beat' = [beat EXCEPT ![b].at = "updated"]
      /\ UNCHANGED <<now, latest, config, up, lockq, pc, req, poll>>

\* The clients' side of the lease: this heartbeat is applied before expiry.
TimelyRenew(b) == Renew(b) /\ Active(slots[beat[b].id])

\* 500 when the configuration cannot be loaded, 404 when the row has gone.
RenewFails(b) ==
  /\ beat[b].at = "found"
  /\ LoopFree
  /\ config \notin Configs \/ slots[beat[b].id] = NoSlot
  /\ beat' = [beat EXCEPT ![b] = Resting]
  /\ UNCHANGED <<now, slots, latest, config, up, lockq, pc, req, poll>>

\* get_slot again: 200, or 500 when the row has gone since the update.
BeatReplies(b) ==
  /\ up
  /\ beat[b].at = "updated"
  /\ beat' = [beat EXCEPT ![b] = Resting]
  /\ UNCHANGED <<now, slots, latest, config, up, lockq, pc, req, poll>>

-----------------------------------------------------------------------------
(* DELETE /api/slots/{id}, on the thread pool: between any two steps.       *)

Delete(id) ==
  /\ up
  /\ slots[id] # NoSlot
  /\ slots' = [slots EXCEPT ![id] = NoSlot]
  /\ UNCHANGED <<now, latest, config, up, lockq, pc, req, beat, poll>>

(* The polling loop.  A cycle whose load_config raises ends there: it polls *)
(* nobody and reaps nothing, and the loop sleeps again.                     *)

HostNames(cfg) == {cfg.hosts[i].name : i \in DOMAIN cfg.hosts}

\* The loop takes the YAML as it is: of a broken file, poll_host raises for the
\* entries that are not whole, gather keeps that to itself, and the others are
\* polled.
PollSets == IF config \in Configs THEN {HostNames(config)} ELSE SUBSET Hosts

PollStart ==
  /\ poll.at = "asleep"
  /\ LoopFree
  /\ config # Unreadable
  /\ \E names \in PollSets : poll' = [at |-> "polling", pending |-> names]
  /\ UNCHANGED <<now, slots, latest, config, up, lockq, pc, req, beat>>

\* Mutated form of PollHost: what poll_host raises ends the cycle.
PollHostRaises(h) ==
  /\ h \in poll.pending
  /\ LoopFree
  /\ latest' \in {[latest EXCEPT ![h] = s] : s \in Samples}
  /\ poll' = IF latest'[h].online THEN [poll EXCEPT !.pending = @ \ {h}] ELSE Asleep
  /\ UNCHANGED <<now, slots, config, up, lockq, pc, req, beat>>

\* poll_host of one host ends with a row: what the agent said, or offline.
\* A row whose timestamp is older than the newest one changes nothing here.
PollHost(h) ==
  /\ h \in poll.pending
  /\ LoopFree
  /\ latest' \in {latest} \union {[latest EXCEPT ![h] = s] : s \in Samples}
  /\ poll' = [poll EXCEPT !.pending = @ \ {h}]
  /\ UNCHANGED <<now, slots, config, up, lockq, pc, req, beat>>

\* Mutated form of Reap: expires_ts <= now, a row that is still active.
ReapEarly ==
  /\ poll.at = "polling"
  /\ poll.pending = {}
  /\ LoopFree
  /\ slots' = [id \in SlotIds |->
                IF slots[id] # NoSlot /\ slots[id].expires <= now
                THEN NoSlot ELSE slots[id]]
  /\ poll' = Asleep
  /\ UNCHANGED <<now, latest, config, up, lockq, pc, req, beat>>

\* gather returns; expired rows are deleted; the loop sleeps.
Reap ==
  /\ poll.at = "polling"
  /\ poll.pending = {}
  /\ LoopFree
  /\ slots' = [id \in SlotIds |->
                IF slots[id] # NoSlot /\ slots[id].expires < now
                THEN NoSlot ELSE slots[id]]
  /\ poll' = Asleep
  /\ UNCHANGED <<now, latest, config, up, lockq, pc, req, beat>>

-----------------------------------------------------------------------------
(* The environment. *)

Tick ==
  /\ now < MaxClock
  /\ now' = now + 1
  /\ UNCHANGED <<slots, latest, config, up, lockq, pc, req, beat, poll>>

\* Somebody edits config.yml: every handler reads the file anew.
EditConfig ==
  /\ config' \in (Configs \union Broken \union {Unreadable}) \ {config}
  /\ UNCHANGED <<now, slots, latest, up, lockq, pc, req, beat, poll>>

\* The process dies: the tables survive, the lock and all handlers do not.
Crash ==
  /\ up
  /\ up' = FALSE
  /\ lockq' = <<>>
  /\ pc' = [r \in Reservers |-> "idle"]
  /\ req' = [r \in Reservers |-> NoRequest]
  /\ beat' = [b \in Beaters |-> Resting]
  /\ poll' = Asleep
  /\ UNCHANGED <<now, slots, latest, config>>

\* The service manager starts it again; lifespan needs the configuration.
Restart ==
  /\ ~up
  /\ config \in Configs
  /\ up' = TRUE
  /\ UNCHANGED <<now, slots, latest, config, lockq, pc, req, beat, poll>>

-----------------------------------------------------------------------------
\* The polling coroutine.
PollingLoop == PollStart \/ (\E h \in Hosts : PollHost(h)) \/ Reap

(* All steps but the update of a heartbeat. *)
OtherStep ==
  \/ \E r \in Reservers : Begin(r) \/ Reservation(r)
  \/ \E b \in Beaters :
       BeatFinds(b) \/ RenewFails(b) \/ BeatReplies(b)
  \/ \E id \in SlotIds : Delete(id)
  \/ PollingLoop
  \/ Tick \/ EditConfig \/ Crash \/ Restart

Next == OtherStep \/ \E b \in Beaters : Renew(b)

\* The system whose clients heartbeat in time and whose server applies it in time.
TimelyNext == OtherStep \/ \E b \in Beaters : TimelyRenew(b)

Spec == Init /\ [][Next]_vars

TimelySpec == Init /\ [][TimelyNext]_vars

\* The ready queue of the event loop is FIFO and every await has a timeout
\* (3 s for a probe, 10 s for a poll), so a handler that can run again and
\* again does run; the service manager restarts the process.
Fairness ==
  /\ \A r \in Reservers : SF_vars(Reservation(r))
  /\ \A b \in Beaters : SF_vars(Renew(b) \/ RenewFails(b) \/ BeatReplies(b))
  /\ SF_vars(PollingLoop)
  /\ WF_vars(Restart)

FairSpec == Spec /\ Fairness

-----------------------------------------------------------------------------
(* Properties. *)

Request ==
  [hint : Hosts \union {NoHint}, ttl : Int, cfg : Configs \union {Unreadable},
   metrics : [Hosts -> Samples], active : [Hosts -> Nat],
   used : [Hosts -> SUBSET Offsets], host : Hosts \union {NoHost},
   offset : Offsets \union {NoOffset}, id : SlotIds \union {NoSlot}]

\* A reservation at work has a configuration, a probing one also a host and an
\* offset, an inserted one the id of its row.
LocalsOK(at, q) ==
  /\ at \in {"waiting", "counted", "probing"} => q.cfg \in Configs
  /\ at = "probing" => q.host \in Hosts /\ q.offset \in Offsets
  /\ at = "inserted" => q.id \in SlotIds

\* The type invariant (tables of db.py:34-57, globals and locals of server.py):
\* every offset that is ever stored is one that some configuration allows.
TypeOK ==
  /\ now \in 0..MaxClock
  /\ slots \in [SlotIds -> Slot \union {NoSlot}]
  /\ latest \in [Hosts -> Samples]
  /\ config \in Configs \union Broken \union {Unreadable}
  /\ up \in BOOLEAN
  /\ lockq \in Seq(Reservers)
  /\ pc \in [Reservers -> {"idle"} \union Working]
  /\ req \in [Reservers -> Request]
  /\ \A r \in Reservers : LocalsOK(pc[r], req[r])
  /\ beat \in [Beaters -> [at : {"idle", "found", "updated"},
                           id : SlotIds \union {NoSlot}]]
  /\ \A b \in Beaters : beat[b].at \in {"found", "updated"} => beat[b].id \in SlotIds
  /\ poll \in [at : {"asleep", "polling"}, pending : SUBSET Hosts]

\* The lock: a reservation that has read the table is first in the queue, so
\* there is at most one (server.py:327).
HolderIsFirst ==
  \A r \in Reservers : pc[r] \in Holding => lockq # <<>> /\ Head(lockq) = r

\* No two slots that are active at once hold the same port offset of a host:
\* used_port_offsets and pick_host under _slot_lock, insert_slot, and the
\* heartbeat that moves expires_ts (server.py:327-367, db.py:158-167).
NoPortOverlap ==
  \A i, j \in SlotIds :
    i # j /\ Active(slots[i]) /\ Active(slots[j]) /\ slots[i].host = slots[j].host
      => slots[i].port_offset # slots[j].port_offset

\* Mutated form of PortRange: the end is the first port of the next range.
PortRangeOneMore(offset) ==
  LET start == port_base + offset * port_stride
  IN  start .. start + port_stride

\* The ports of a slot as _slot_response computes them from the policy of the moment.
PortRange(offset) ==
  LET start == port_base + offset * port_stride
  IN  start .. start + port_stride - 1

\* Under one policy no port of a host is in the ranges of two active slots: what
\* specs/slot-registry-and-cc-v0.1.md:535 asks for (server.py:288-289).
RangesAreDisjoint ==
  \A i, j \in SlotIds :
    i # j /\ Active(slots[i]) /\ Active(slots[j]) /\ slots[i].host = slots[j].host
      => PortRange(slots[i].port_offset) \intersect PortRange(slots[j].port_offset) = {}

\* What a reservation saw stays an upper bound of what is in use until it
\* inserts, and the offset it chose is outside it: the reason why the probes
\* may be awaited between the reads and the insert (server.py:336-367).
SnapshotCovers ==
  \A r \in Reservers : pc[r] = "probing" =>
    /\ req[r].offset \notin req[r].used[req[r].host]
    /\ \A id \in SlotIds :
         Active(slots[id]) => slots[id].port_offset \in req[r].used[slots[id].host]

\* A new slot never takes its host above the capacity of the configuration the
\* reservation was placed with, although heartbeats, releases and expiries ran
\* between the count and the insert (server.py:332-367, placement.py:40-42).
CapacityKept ==
  \A r \in Reservers, h \in Hosts :
    pc[r] = "probing" /\ pc'[r] = "inserted" /\ req[r].host = h =>
      \E i \in DOMAIN req[r].cfg.hosts :
        /\ req[r].cfg.hosts[i].name = h
        /\ Cardinality(ActiveOn(h)') <= MaxSlots(req[r].cfg, req[r].cfg.hosts[i])
CapacityIsKept == [][CapacityKept]_vars

\* The two ends of "expired" agree: a row that still counts as active goes only
\* by its own DELETE, never by the reaper, a crash or another handler
\* (db.py:151-176, db.py:201-216).
OnlyDeleteEndsActive ==
  [][\A id \in SlotIds :
       Active(slots[id]) /\ slots'[id] = NoSlot => Delete(id)]_vars

\* A heartbeat in flight never brings back a row that was deleted or reaped
\* under it: rows appear only when a reservation inserts (db.py:158-167).
OnlyInsertAddsRows ==
  [][\A id \in SlotIds : slots[id] = NoSlot /\ slots'[id] # NoSlot =>
       \E r \in Reservers : pc[r] = "probing" /\ pc'[r] = "inserted"]_vars

\* Every reservation that asks for the lock is answered or dies with the
\* process: the probe loop ends and the lock moves on (server.py:327-372).
ReservationsAnswered ==
  \A r \in Reservers : pc[r] = "waiting" ~> pc[r] \notin Working

Expired(row) == row # NoSlot /\ row.expires < now

ExpiredReaped ==
  \A id \in SlotIds : Expired(slots[id]) ~> ~Expired(slots[id])

\* Expired slots go by themselves once the process stays up and config.yml
\* stays readable, whether or not the hosts answer and even while it holds
\* entries that every other handler fails on (server.py:68-88; the comment at
\* server.py:80 does not mention the configuration).
ExpiredReapedWhenHealthy ==
  <>[](up /\ config # Unreadable) => ExpiredReaped

\* The leases of SlotLease: the active rows.
Lease == INSTANCE SlotLease WITH
  Ids <- SlotIds, NoLease <- NoSlot,
  leases <- [id \in SlotIds |->
               IF Active(slots[id])
               THEN [host |-> slots[id].host, offset |-> slots[id].port_offset]
               ELSE NoSlot]

\* The registry grants, renews and ends leases as SlotLease says.
ImplementsLease == Lease!Spec
=============================================================================
