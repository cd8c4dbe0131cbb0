------------------------- MODULE SlotRegistryProofs -------------------------
(***************************************************************************)
(* Theorems about SlotRegistry for every set of hosts, ids, handlers and    *)
(* configurations: its types, and that active slots never overlap while     *)
(* heartbeats are applied before expiry.                                    *)
(***************************************************************************)
EXTENDS SlotRegistry, PlacementProofs, FiniteSetTheorems

-----------------------------------------------------------------------------
(* Types. *)

LEMMA NoRequestType == NoRequest \in Request /\ NoRequest.id = NoSlot
BY DataAssumption DEF NoRequest, Request

\* A step that changes the locals of one reservation to q and moves it to x.
LEMMA HandlerUpdate ==
  ASSUME TypeOK, NEW r \in Reservers, NEW q \in Request,
         NEW x \in {"idle"} \union Working, LocalsOK(x, q),
         pc' = [pc EXCEPT ![r] = x], req' = [req EXCEPT ![r] = q]
  PROVE  /\ pc' \in [Reservers -> {"idle"} \union Working]
         /\ req' \in [Reservers -> Request]
         /\ \A s \in Reservers : LocalsOK(pc'[s], req'[s])
<1>1. pc \in [Reservers -> {"idle"} \union Working]
      /\ req \in [Reservers -> Request]
      /\ \A s \in Reservers : LocalsOK(pc[s], req[s])
  BY DEF TypeOK
<1>2. \A s \in Reservers : LocalsOK(pc'[s], req'[s])
  <2> TAKE s \in Reservers
  <2>1. CASE s = r
    BY <1>1, <2>1
  <2>2. CASE s # r
    BY <1>1, <2>2
  <2> QED BY <2>1, <2>2
<1> QED BY <1>1, <1>2

\* The same for an answer, which forgets the locals.
LEMMA AnswerUpdate ==
  ASSUME TypeOK, NEW r \in Reservers, Answer(r)
  PROVE  /\ pc' \in [Reservers -> {"idle"} \union Working]
         /\ req' \in [Reservers -> Request]
         /\ \A s \in Reservers : LocalsOK(pc'[s], req'[s])
<1>1. LocalsOK("idle", NoRequest)
  BY DEF LocalsOK
<1> QED BY <1>1, NoRequestType, HandlerUpdate DEF Answer

\* Counting active rows gives naturals, and their offsets are legal.
LEMMA TableReads ==
  ASSUME TypeOK
  PROVE  /\ [h \in Hosts |-> Cardinality(ActiveOn(h))] \in [Hosts -> Nat]
         /\ [h \in Hosts |-> OffsetsOn(h)] \in [Hosts -> SUBSET Offsets]
<1>1. ASSUME NEW h \in Hosts PROVE Cardinality(ActiveOn(h)) \in Nat
  <2>1. ActiveOn(h) \subseteq SlotIds
    BY DEF ActiveOn
  <2> QED BY <2>1, DataAssumption, FS_Subset, FS_CardinalityType
<1>2. ASSUME NEW h \in Hosts PROVE OffsetsOn(h) \subseteq Offsets
  BY DEF OffsetsOn, ActiveOn, Active, TypeOK, Slot
<1> QED BY <1>1, <1>2

\* A turn of the probe loop leaves a probing reservation with a legal host and
\* an offset that its snapshot shows free, or answers it.
LEMMA PlaceOrRefuseEffect ==
  ASSUME TypeOK, NEW r \in Reservers, NEW rq \in Request, rq.cfg \in Configs,
         PlaceOrRefuse(r, rq)
  PROVE  \/ /\ lockq' = lockq
            /\ pc' = [pc EXCEPT ![r] = "probing"]
            /\ \E h \in Hosts, o \in Offsets :
                 /\ o \notin rq.used[h]
                 /\ req' = [req EXCEPT ![r] =
                              [rq EXCEPT !.host = h, !.offset = o]]
         \/ Answer(r) /\ lockq' = Tail(lockq)
<1> DEFINE p == PickHost(rq.cfg, rq.metrics, rq.active, rq.used, rq.hint)
           c == rq.cfg
           h == c.hosts[p.index].name
<1>1. CASE ~p.found
  BY <1>1 DEF PlaceOrRefuse
<1>2. CASE p.found
  <2>1. /\ c \in Configs
        /\ c.hosts \in Seq(HostEntry)
        /\ c.max_slots_per_host \in Int
        /\ c.max_port_offsets \in Int
    BY ConfigsAssumption
  <2>2. rq.active \in [Hosts -> Int]
    BY DEF Request
  <2>3. /\ p.index \in Candidates(c, rq.metrics, rq.active, rq.used, rq.hint)
        /\ p.offset \in 0..(c.max_port_offsets - 1)
        /\ p.offset \notin rq.used[c.hosts[p.index].name]
    <3> HIDE DEF c, p
    <3>1. p = PickHost(c, rq.metrics, rq.active, rq.used, rq.hint)
      BY DEF p, c
    <3> QED BY <1>2, <2>1, <2>2, <3>1, PickHostIsBest DEF HostEntry
  <2>4. p.index \in DOMAIN c.hosts
    <3> HIDE DEF p
    <3> QED BY <2>3 DEF Candidates
  <2>5. h \in Hosts
    <3> DEFINE list == c.hosts
    <3>1. list \in Seq(HostEntry) /\ p.index \in DOMAIN list
      BY <2>1, <2>4
    <3>2. list[p.index] \in HostEntry
      <4> HIDE DEF list, p
      <4> QED BY <3>1
    <3> QED BY <3>2 DEF HostEntry
  <2>6. p.offset \in Offsets
    BY <2>1, <2>3 DEF Offsets
  <2>7. /\ lockq' = lockq
        /\ pc' = [pc EXCEPT ![r] = "probing"]
        /\ req' = [req EXCEPT ![r] = [rq EXCEPT !.host = h, !.offset = p.offset]]
    BY <1>2 DEF PlaceOrRefuse
  <2> HIDE DEF p, c, h
  <2> QED BY <2>3, <2>5, <2>6, <2>7 DEF h
<1> QED BY <1>1, <1>2

LEMMA InitTypes == Init => TypeOK /\ HolderIsFirst
<1> SUFFICES ASSUME Init PROVE TypeOK /\ HolderIsFirst
  OBVIOUS
<1>1. req \in [Reservers -> Request]
  BY NoRequestType DEF Init
<1>2. \A r \in Reservers : LocalsOK(pc[r], req[r])
  BY DEF Init, LocalsOK
<1>3. now \in 0..MaxClock /\ slots \in [SlotIds -> Slot \union {NoSlot}]
      /\ latest \in [Hosts -> Samples]
  BY DataAssumption DEF Init
<1>4. lockq \in Seq(Reservers)
  BY DEF Init
<1> QED BY <1>1, <1>2, <1>3, <1>4 DEF Init, TypeOK, Resting, Asleep, HolderIsFirst, Holding

\* The lock queue of a step that answers a holder, or leaves the queue alone.
LEMMA QueueAfterTail ==
  ASSUME TypeOK, HolderIsFirst, NEW r \in Reservers, pc[r] \in Holding,
         NEW x \in {"idle"} \union Working, x \notin Holding,
         pc' = [pc EXCEPT ![r] = x], lockq' = Tail(lockq)
  PROVE  lockq' \in Seq(Reservers) /\ HolderIsFirst'
<1>1. lockq \in Seq(Reservers) /\ lockq # <<>> /\ Head(lockq) = r
  BY DEF TypeOK, HolderIsFirst
<1>2. lockq' \in Seq(Reservers)
  BY <1>1
<1>3. ASSUME NEW s \in Reservers, pc'[s] \in Holding PROVE FALSE
  <2>1. s # r
    BY <1>3 DEF TypeOK
  <2>2. pc[s] \in Holding
    BY <1>3, <2>1 DEF TypeOK
  <2> QED BY <1>1, <2>1, <2>2 DEF HolderIsFirst
<1> QED BY <1>2, <1>3 DEF HolderIsFirst

LEMMA QueueUnchanged ==
  ASSUME TypeOK, HolderIsFirst, NEW r \in Reservers,
         NEW x \in {"idle"} \union Working,
         pc' = [pc EXCEPT ![r] = x],
         \/ lockq' = lockq
         \/ lockq' = Append(lockq, r),
         x \in Holding => lockq # <<>> /\ Head(lockq) = r
  PROVE  lockq' \in Seq(Reservers) /\ HolderIsFirst'
<1>1. lockq \in Seq(Reservers)
  BY DEF TypeOK
<1>2. lockq' \in Seq(Reservers)
  BY <1>1
<1>3. lockq # <<>> => lockq' # <<>> /\ Head(lockq') = Head(lockq)
  BY <1>1
<1>4. ASSUME NEW s \in Reservers, pc'[s] \in Holding
      PROVE  lockq' # <<>> /\ Head(lockq') = s
  <2>1. CASE s = r
    BY <1>3, <1>4, <2>1 DEF TypeOK
  <2>2. CASE s # r
    BY <1>3, <1>4, <2>2 DEF TypeOK, HolderIsFirst
  <2> QED BY <2>1, <2>2
<1> QED BY <1>2, <1>4 DEF HolderIsFirst

\* The steps of a reservation keep the types and the lock.
LEMMA ReservationTypes ==
  ASSUME TypeOK, HolderIsFirst, NEW r \in Reservers,
         Begin(r) \/ Reservation(r)
  PROVE  TypeOK' /\ HolderIsFirst'
<1> DEFINE Locals == /\ pc' \in [Reservers -> {"idle"} \union Working]
                     /\ req' \in [Reservers -> Request]
                     /\ \A s \in Reservers : LocalsOK(pc'[s], req'[s])
           Queue == lockq' \in Seq(Reservers) /\ HolderIsFirst'
<1> USE DEF Working, Holding
<1>0. req[r] \in Request /\ LocalsOK(pc[r], req[r])
  BY DEF TypeOK
<1>1. CASE Begin(r)
  <2>1. PICK hint \in Hosts \union {NoHint}, ttl \in Ttls :
          req' = [req EXCEPT ![r] = [NoRequest EXCEPT !.hint = hint, !.ttl = ttl,
                                                      !.cfg = config]]
    BY <1>1, DataAssumption DEF Begin
  <2> DEFINE q == [NoRequest EXCEPT !.hint = hint, !.ttl = ttl, !.cfg = config]
  <2>2. config \in Configs /\ ttl \in Int
    BY <1>1, DataAssumption DEF Begin, TypeOK
  <2>3. q \in Request /\ q.cfg = config
    BY <2>2, NoRequestType DEF Request
  <2>4. LocalsOK("waiting", q)
    BY <2>2, <2>3 DEF LocalsOK
  <2>5. pc' = [pc EXCEPT ![r] = "waiting"] /\ req' = [req EXCEPT ![r] = q]
    BY <1>1, <2>1 DEF Begin
  <2> HIDE DEF q
  <2>6. Locals
    BY <2>3, <2>4, <2>5, HandlerUpdate
  <2>7. Queue
    BY <1>1, QueueUnchanged DEF Begin
  <2> QED BY <1>1, <2>6, <2>7 DEF Begin, TypeOK
<1>3. CASE Count(r)
  <2> DEFINE counts == [h \in Hosts |-> Cardinality(ActiveOn(h))]
             q == [req[r] EXCEPT !.metrics = latest, !.active = counts]
  <2>1. counts \in [Hosts -> Nat]
    BY TableReads
  <2>2. pc' = [pc EXCEPT ![r] = "counted"] /\ req' = [req EXCEPT ![r] = q]
    BY <1>3 DEF Count, TypeOK
  <2> HIDE DEF counts
  <2>3. q \in Request /\ q.cfg = req[r].cfg
    BY <1>0, <2>1 DEF Request, TypeOK
  <2>4. LocalsOK("counted", q)
    BY <1>0, <1>3, <2>3 DEF LocalsOK, Count
  <2> HIDE DEF q
  <2>5. Locals
    BY <2>2, <2>3, <2>4, HandlerUpdate
  <2>6. Queue
    BY <1>3, QueueUnchanged DEF Count
  <2> QED BY <1>3, <2>5, <2>6 DEF Count, TypeOK
<1>4. ASSUME NEW rq \in Request, rq.cfg \in Configs, PlaceOrRefuse(r, rq),
             pc[r] \in Holding
      PROVE  Locals /\ Queue
  <2>1. CASE Answer(r) /\ lockq' = Tail(lockq)
    <3>1. Locals
      BY <2>1, AnswerUpdate
    <3>2. Queue
      BY <1>4, <2>1, QueueAfterTail DEF Answer
    <3> QED BY <3>1, <3>2
  <2>2. CASE ~(Answer(r) /\ lockq' = Tail(lockq))
    <3>1. PICK h \in Hosts, o \in Offsets :
            /\ lockq' = lockq
            /\ pc' = [pc EXCEPT ![r] = "probing"]
            /\ req' = [req EXCEPT ![r] = [rq EXCEPT !.host = h, !.offset = o]]
      BY <1>4, <2>2, PlaceOrRefuseEffect
    <3> DEFINE q == [rq EXCEPT !.host = h, !.offset = o]
    <3>2. q \in Request /\ q.cfg \in Configs /\ q.host = h /\ q.offset = o
      BY <1>4 DEF Request
    <3>3. LocalsOK("probing", q)
      BY <3>2 DEF LocalsOK
    <3>4. pc' = [pc EXCEPT ![r] = "probing"] /\ req' = [req EXCEPT ![r] = q]
      BY <3>1
    <3> HIDE DEF q
    <3>5. Locals
      BY <3>2, <3>3, <3>4, HandlerUpdate
    <3>6. Queue
      BY <1>4, <3>1, QueueUnchanged DEF HolderIsFirst
    <3> QED BY <3>5, <3>6
  <2> QED BY <2>1, <2>2
<1>5. CASE ReadOffsets(r)
  <2> DEFINE reads == [h \in Hosts |-> OffsetsOn(h)]
             rq == [req[r] EXCEPT !.used = reads]
  <2>1. reads \in [Hosts -> SUBSET Offsets]
    BY TableReads
  <2>2. PlaceOrRefuse(r, rq) /\ pc[r] \in Holding
    BY <1>5 DEF ReadOffsets
  <2> HIDE DEF reads
  <2>3. rq \in Request /\ rq.cfg \in Configs
    BY <1>0, <1>5, <2>1 DEF Request, LocalsOK, ReadOffsets
  <2> HIDE DEF rq
  <2>4. Locals /\ Queue
    BY <1>4, <2>2, <2>3
  <2> QED BY <1>5, <2>4 DEF ReadOffsets, TypeOK
<1>6. CASE ProbeFails(r)
  <2> DEFINE seen == [req[r].metrics EXCEPT ![req[r].host] = Offline]
             rq == [req[r] EXCEPT !.metrics = seen]
  <2>1. seen \in [Hosts -> Samples]
    BY <1>0, DataAssumption DEF Request
  <2>2. PlaceOrRefuse(r, rq) /\ pc[r] \in Holding
    BY <1>6, <1>0 DEF ProbeFails, Request
  <2> HIDE DEF seen
  <2>3. rq \in Request /\ rq.cfg \in Configs
    BY <1>0, <1>6, <2>1 DEF Request, LocalsOK, ProbeFails
  <2> HIDE DEF rq
  <2>4. Locals /\ Queue
    BY <1>4, <2>2, <2>3
  <2>5. latest' \in [Hosts -> Samples]
    BY <1>6, DataAssumption DEF ProbeFails, TypeOK
  <2> QED BY <1>6, <2>4, <2>5 DEF ProbeFails, TypeOK
<1>7. CASE ProbeSucceeds(r)
  <2>1. PICK id \in SlotIds :
          /\ slots' = [slots EXCEPT ![id] =
                         [host |-> req[r].host, port_offset |-> req[r].offset,
                          expires |-> now + req[r].ttl]]
          /\ req' = [req EXCEPT ![r] = [NoRequest EXCEPT !.id = id]]
    BY <1>7 DEF ProbeSucceeds
  <2> DEFINE q == [NoRequest EXCEPT !.id = id]
  <2>2. q \in Request /\ q.id = id
    BY NoRequestType DEF Request
  <2>3. LocalsOK("inserted", q)
    BY <2>2 DEF LocalsOK
  <2>4. req' = [req EXCEPT ![r] = q] /\ pc' = [pc EXCEPT ![r] = "inserted"]
    BY <1>7, <2>1 DEF ProbeSucceeds
  <2> HIDE DEF q
  <2>5. Locals
    BY <2>2, <2>3, <2>4, HandlerUpdate
  <2>6. Queue
    BY <1>7, QueueAfterTail DEF ProbeSucceeds
  <2>7. req[r].host \in Hosts /\ req[r].offset \in Offsets /\ now + req[r].ttl \in Int
    BY <1>0, <1>7, DataAssumption DEF ProbeSucceeds, LocalsOK, Request, TypeOK
  <2>8. slots' \in [SlotIds -> Slot \union {NoSlot}]
    BY <2>1, <2>7 DEF TypeOK, Slot
  <2> QED BY <1>7, <2>5, <2>6, <2>8 DEF ProbeSucceeds, TypeOK
<1>8. CASE IdsCollide(r)
  <2>1. Locals
    BY <1>8, AnswerUpdate DEF IdsCollide
  <2>2. Queue
    BY <1>8, QueueAfterTail DEF IdsCollide, Answer
  <2> QED BY <1>8, <2>1, <2>2 DEF IdsCollide, TypeOK
<1>9. CASE Reply(r)
  <2>1. Locals
    BY <1>9, AnswerUpdate DEF Reply
  <2>2. Queue
    BY <1>9, QueueUnchanged DEF Reply, Answer
  <2> QED BY <1>9, <2>1, <2>2 DEF Reply, TypeOK
<1> QED BY <1>1, <1>3, <1>5, <1>6, <1>7, <1>8, <1>9 DEF Reservation

\* The steps of a heartbeat touch neither the reservations nor the lock.
LEMMA HeartbeatTypes ==
  ASSUME TypeOK, HolderIsFirst, NEW b \in Beaters,
         \/ BeatFinds(b) \/ Renew(b) \/ RenewFails(b)
         \/ BeatReplies(b)
  PROVE  TypeOK' /\ HolderIsFirst'
<1>1. UNCHANGED <<now, latest, config, up, lockq, pc, req, poll>>
  BY DEF BeatFinds, Renew, RenewFails, BeatReplies
<1>2. HolderIsFirst'
  BY <1>1 DEF HolderIsFirst
<1>3. slots' \in [SlotIds -> Slot \union {NoSlot}]
  <2>1. CASE Renew(b)
    <3>1. beat[b].id \in SlotIds /\ slots[beat[b].id] \in Slot
      BY <2>1 DEF Renew, TypeOK
    <3>2. PICK ttl \in Ttls :
            slots' = [slots EXCEPT ![beat[b].id].expires = now + ttl]
      BY <2>1 DEF Renew
    <3>3. now + ttl \in Int
      BY DataAssumption DEF TypeOK
    <3> QED BY <3>1, <3>2, <3>3 DEF TypeOK, Slot
  <2>2. CASE ~Renew(b)
    BY <2>2 DEF BeatFinds, RenewFails, BeatReplies, TypeOK
  <2> QED BY <2>1, <2>2
<1>4. /\ beat' \in [Beaters -> [at : {"idle", "found", "updated"},
                               id : SlotIds \union {NoSlot}]]
      /\ \A c \in Beaters : beat'[c].at \in {"found", "updated"} => beat'[c].id \in SlotIds
  <2>1. CASE BeatFinds(b)
    BY <2>1 DEF BeatFinds, TypeOK
  <2>2. CASE Renew(b)
    BY <2>2 DEF Renew, TypeOK
  <2>3. CASE RenewFails(b) \/ BeatReplies(b)
    <3>1. beat' = [beat EXCEPT ![b] = Resting]
      BY <2>3 DEF RenewFails, BeatReplies
    <3> QED BY <3>1 DEF TypeOK, Resting
  <2> QED BY <2>1, <2>2, <2>3
<1>5. /\ now \in 0..MaxClock /\ latest \in [Hosts -> Samples]
      /\ config \in Configs \union Broken \union {Unreadable} /\ up \in BOOLEAN
      /\ lockq \in Seq(Reservers)
      /\ pc \in [Reservers -> {"idle"} \union Working]
      /\ req \in [Reservers -> Request]
      /\ \A r \in Reservers : LocalsOK(pc[r], req[r])
      /\ poll \in [at : {"asleep", "polling"}, pending : SUBSET Hosts]
  BY DEF TypeOK
<1> QED BY <1>1, <1>2, <1>3, <1>4, <1>5 DEF TypeOK

\* Releases, the polling loop and the environment.
LEMMA OtherTypes ==
  ASSUME TypeOK, HolderIsFirst,
         \/ \E id \in SlotIds : Delete(id)
         \/ PollStart \/ (\E h \in Hosts : PollHost(h)) \/ Reap
         \/ Tick \/ EditConfig \/ Crash \/ Restart
  PROVE  TypeOK' /\ HolderIsFirst'
<1>1. CASE \E id \in SlotIds : Delete(id)
  <2>1. PICK id \in SlotIds : Delete(id)
    BY <1>1
  <2> QED BY <2>1 DEF Delete, TypeOK, HolderIsFirst
<1>2. CASE PollStart
  <2>1. ASSUME config \in Configs PROVE HostNames(config) \subseteq Hosts
    <3>1. config.hosts \in Seq(HostEntry)
      BY <2>1, ConfigsAssumption
    <3> DEFINE list == config.hosts
    <3>2. \A i \in DOMAIN list : list[i] \in HostEntry
      <4>1. list \in Seq(HostEntry)
        BY <3>1
      <4> HIDE DEF list
      <4> QED BY <4>1
    <3> QED BY <3>2 DEF HostNames, HostEntry
  <2>2. PICK names \in SUBSET Hosts : poll' = [at |-> "polling", pending |-> names]
    BY <1>2, <2>1 DEF PollStart, PollSets
  <2> QED BY <1>2, <2>2 DEF PollStart, TypeOK, HolderIsFirst
<1>3. CASE \E h \in Hosts : PollHost(h)
  <2>1. PICK h \in Hosts : PollHost(h)
    BY <1>3
  <2>2. latest' \in [Hosts -> Samples]
    BY <2>1 DEF PollHost, TypeOK
  <2>3. poll' \in [at : {"asleep", "polling"}, pending : SUBSET Hosts]
    BY <2>1 DEF PollHost, TypeOK
  <2> QED BY <2>1, <2>2, <2>3 DEF PollHost, TypeOK, HolderIsFirst
<1>4. CASE Reap
  <2>1. slots' \in [SlotIds -> Slot \union {NoSlot}]
    BY <1>4 DEF Reap, TypeOK
  <2> QED BY <1>4, <2>1 DEF Reap, Asleep, TypeOK, HolderIsFirst
<1>5. CASE Tick
  <2>1. now' \in 0..MaxClock
    BY <1>5, DataAssumption DEF Tick, TypeOK
  <2> QED BY <1>5, <2>1 DEF Tick, TypeOK, HolderIsFirst
<1>6. CASE EditConfig
  BY <1>6 DEF EditConfig, TypeOK, HolderIsFirst
<1>7. CASE Crash
  <2>1. \A r \in Reservers : LocalsOK(pc'[r], req'[r])
    BY <1>7 DEF Crash, LocalsOK
  <2>2. req' \in [Reservers -> Request]
    BY <1>7, NoRequestType DEF Crash
  <2>3. HolderIsFirst'
    BY <1>7 DEF Crash, HolderIsFirst, Holding
  <2>4. pc' \in [Reservers -> {"idle"} \union Working]
    BY <1>7 DEF Crash
  <2>5. /\ beat' \in [Beaters -> [at : {"idle", "found", "updated"},
                                 id : SlotIds \union {NoSlot}]]
        /\ \A b \in Beaters : beat'[b].at = "idle"
    BY <1>7 DEF Crash, Resting
  <2>6. lockq' \in Seq(Reservers) /\ poll' \in [at : {"asleep", "polling"},
                                              pending : SUBSET Hosts]
    BY <1>7 DEF Crash, Asleep
  <2> QED BY <1>7, <2>1, <2>2, <2>3, <2>4, <2>5, <2>6 DEF Crash, TypeOK
<1>8. CASE Restart
  BY <1>8 DEF Restart, TypeOK, HolderIsFirst
<1> QED BY <1>1, <1>2, <1>3, <1>4, <1>5, <1>6, <1>7, <1>8

LEMMA StepTypes ==
  TypeOK /\ HolderIsFirst /\ [Next]_vars => TypeOK' /\ HolderIsFirst'
<1> SUFFICES ASSUME TypeOK, HolderIsFirst, [Next]_vars
             PROVE  TypeOK' /\ HolderIsFirst'
  OBVIOUS
<1>1. CASE UNCHANGED vars
  BY <1>1 DEF vars, TypeOK, HolderIsFirst
<1>2. CASE \E r \in Reservers : Begin(r) \/ Reservation(r)
  BY <1>2, ReservationTypes
<1>3. CASE \E b \in Beaters : \/ BeatFinds(b) \/ Renew(b) \/ RenewFails(b)
                              \/ BeatReplies(b)
  BY <1>3, HeartbeatTypes
<1>4. CASE \/ \E id \in SlotIds : Delete(id)
           \/ PollStart \/ (\E h \in Hosts : PollHost(h)) \/ Reap
           \/ Tick \/ EditConfig \/ Crash \/ Restart
  BY <1>4, OtherTypes
<1> QED BY <1>1, <1>2, <1>3, <1>4 DEF Next, OtherStep, PollingLoop

\* The type invariant holds whatever the clients' heartbeats do.
THEOREM TypesAlwaysHold == Spec => [](TypeOK /\ HolderIsFirst)
<1>1. Init => TypeOK /\ HolderIsFirst
  BY InitTypes
<1>2. TypeOK /\ HolderIsFirst /\ [Next]_vars => TypeOK' /\ HolderIsFirst'
  BY StepTypes
<1> QED BY <1>1, <1>2, PTL DEF Spec

\* Whatever the heartbeats do, one reservation at most is between its reads and its
\* insert, and it is the one that was first to ask for the lock (server.py:327).
THEOREM OneHoldsTheLock == Spec => []HolderIsFirst
BY TypesAlwaysHold, PTL

-----------------------------------------------------------------------------
(* No overlap while heartbeats are timely.  SnapshotCovers makes it          *)
(* inductive: between the reads and the insert of the lock holder, active    *)
(* rows only disappear.                                                      *)

IInv == TypeOK /\ HolderIsFirst /\ SnapshotCovers /\ NoPortOverlap

\* No row becomes active in the step, and none moves.
ActiveShrinks ==
  \A id \in SlotIds : Active(slots[id])' =>
    /\ Active(slots[id])
    /\ slots'[id].host = slots[id].host
    /\ slots'[id].port_offset = slots[id].port_offset

\* Nobody starts probing in the step, and who goes on keeps the locals.
NoNewProbe ==
  \A r \in Reservers : pc'[r] = "probing" => pc[r] = "probing" /\ req'[r] = req[r]

LEMMA ShrinkKeepsOverlap ==
  ASSUME NoPortOverlap, ActiveShrinks
  PROVE  NoPortOverlap'
BY DEF NoPortOverlap, ActiveShrinks, Active

LEMMA ShrinkKeepsSnapshot ==
  ASSUME SnapshotCovers, ActiveShrinks, NoNewProbe
  PROVE  SnapshotCovers'
<1> SUFFICES ASSUME NEW r \in Reservers, pc'[r] = "probing"
             PROVE  /\ req'[r].offset \notin req'[r].used[req'[r].host]
                    /\ \A id \in SlotIds : Active(slots[id])' =>
                         slots'[id].port_offset \in req'[r].used[slots'[id].host]
  BY DEF SnapshotCovers, Active
<1>1. pc[r] = "probing" /\ req'[r] = req[r]
  BY DEF NoNewProbe
<1>2. req'[r].offset \notin req'[r].used[req'[r].host]
  BY <1>1 DEF SnapshotCovers
<1>3. ASSUME NEW id \in SlotIds, Active(slots[id])'
      PROVE  slots'[id].port_offset \in req'[r].used[slots'[id].host]
  BY <1>1, <1>3 DEF SnapshotCovers, ActiveShrinks
<1> QED BY <1>2, <1>3

\* A placement from a set of offsets that covers the table.
LEMMA PlacementKeepsSnapshot ==
  ASSUME IInv, NEW r \in Reservers, NEW rq \in Request, rq.cfg \in Configs,
         PlaceOrRefuse(r, rq), now' = now, slots' = slots,
         \A id \in SlotIds :
           Active(slots[id]) => slots[id].port_offset \in rq.used[slots[id].host]
  PROVE  SnapshotCovers'
<1>1. TypeOK /\ SnapshotCovers
  BY DEF IInv
<1>2. \A id \in SlotIds : Active(slots[id])' = Active(slots[id])
  BY DEF Active
<1>3. CASE Answer(r)
  <2>1. NoNewProbe
    BY <1>1, <1>3 DEF NoNewProbe, Answer, TypeOK
  <2>2. ActiveShrinks
    BY <1>2 DEF ActiveShrinks
  <2> QED BY <1>1, <2>1, <2>2, ShrinkKeepsSnapshot
<1>4. CASE ~Answer(r)
  <2>1. PICK h \in Hosts, o \in Offsets :
          /\ o \notin rq.used[h]
          /\ pc' = [pc EXCEPT ![r] = "probing"]
          /\ req' = [req EXCEPT ![r] = [rq EXCEPT !.host = h, !.offset = o]]
    BY <1>1, <1>4, PlaceOrRefuseEffect
  <2> DEFINE q == [rq EXCEPT !.host = h, !.offset = o]
  <2>2. q.used = rq.used /\ q.host = h /\ q.offset = o
    BY DEF Request
  <2>3. req' = [req EXCEPT ![r] = q]
    BY <2>1
  <2> HIDE DEF q
  <2>4. ASSUME NEW s \in Reservers, pc'[s] = "probing"
        PROVE  /\ req'[s].offset \notin req'[s].used[req'[s].host]
               /\ \A id \in SlotIds : Active(slots[id]) =>
                    slots[id].port_offset \in req'[s].used[slots[id].host]
    <3>1. CASE s = r
      BY <1>1, <2>1, <2>2, <2>3, <3>1 DEF TypeOK
    <3>2. CASE s # r
      BY <1>1, <2>1, <2>3, <2>4, <3>2 DEF TypeOK, SnapshotCovers
    <3> QED BY <3>1, <3>2
  <2> QED BY <1>2, <2>4 DEF SnapshotCovers
<1> QED BY <1>3, <1>4

\* The insert: the row is outside what the holder saw, and nobody else probes.
LEMMA InsertKeepsBoth ==
  ASSUME IInv, NEW r \in Reservers, ProbeSucceeds(r)
  PROVE  SnapshotCovers' /\ NoPortOverlap'
<1>1. TypeOK /\ HolderIsFirst /\ SnapshotCovers /\ NoPortOverlap
  BY DEF IInv
<1>2. PICK new \in SlotIds :
        slots' = [slots EXCEPT ![new] =
                    [host |-> req[r].host, port_offset |-> req[r].offset,
                     expires |-> now + req[r].ttl]]
  BY DEF ProbeSucceeds
<1>3. \A id \in SlotIds : id # new => slots'[id] = slots[id]
  BY <1>1, <1>2 DEF TypeOK
<1>4. slots'[new].host = req[r].host /\ slots'[new].port_offset = req[r].offset
  BY <1>1, <1>2 DEF TypeOK
<1>5. now' = now /\ pc[r] = "probing"
  BY DEF ProbeSucceeds
<1>6. SnapshotCovers'
  <2>1. \A s \in Reservers : pc'[s] # "probing"
    <3> SUFFICES ASSUME NEW s \in Reservers, pc'[s] = "probing" PROVE FALSE
      OBVIOUS
    <3>1. s # r /\ pc[s] = "probing"
      BY <1>1 DEF ProbeSucceeds, TypeOK
    <3> QED BY <1>1, <1>5, <3>1 DEF HolderIsFirst, Holding
  <2> QED BY <2>1 DEF SnapshotCovers
<1>7. NoPortOverlap'
  <2> SUFFICES ASSUME NEW i \in SlotIds, NEW j \in SlotIds, i # j,
                      Active(slots[i])', Active(slots[j])',
                      slots'[i].host = slots'[j].host
               PROVE  slots'[i].port_offset # slots'[j].port_offset
    BY DEF NoPortOverlap, Active
  <2>1. \A id \in SlotIds : id # new /\ Active(slots[id])' =>
          Active(slots[id]) /\ slots[id].port_offset \in req[r].used[slots[id].host]
    BY <1>1, <1>3, <1>5 DEF SnapshotCovers, Active
  <2>2. req[r].offset \notin req[r].used[req[r].host]
    BY <1>1, <1>5 DEF SnapshotCovers
  <2>3. CASE i = new
    BY <1>3, <1>4, <2>1, <2>2, <2>3
  <2>4. CASE j = new
    BY <1>3, <1>4, <2>1, <2>2, <2>4
  <2>5. CASE i # new /\ j # new
    BY <1>1, <1>3, <2>1, <2>5 DEF NoPortOverlap
  <2> QED BY <2>3, <2>4, <2>5
<1> QED BY <1>6, <1>7

\* Every step of a reservation but those two leaves the table and the clock alone.
LEMMA ReservationKeepsBoth ==
  ASSUME IInv, NEW r \in Reservers,
         Begin(r) \/ Reservation(r)
  PROVE  SnapshotCovers' /\ NoPortOverlap'
<1>1. TypeOK /\ HolderIsFirst /\ SnapshotCovers /\ NoPortOverlap
  BY DEF IInv
<1>2. req[r] \in Request /\ LocalsOK(pc[r], req[r])
  BY <1>1 DEF TypeOK
<1>3. ASSUME now' = now, slots' = slots
      PROVE  ActiveShrinks /\ NoPortOverlap'
  <2>1. ActiveShrinks
    BY <1>3 DEF ActiveShrinks, Active
  <2> QED BY <1>1, <2>1, ShrinkKeepsOverlap
<1>4. CASE Begin(r) \/ Count(r) \/ IdsCollide(r) \/ Reply(r)
  <2>1. now' = now /\ slots' = slots
    BY <1>4 DEF Begin, Count, IdsCollide, Reply
  <2>2. NoNewProbe
    <3>1. \A s \in Reservers : s # r => pc'[s] = pc[s] /\ req'[s] = req[s]
      BY <1>1, <1>4 DEF Begin, Count, IdsCollide, Reply,
                        Answer, TypeOK
    <3>2. pc'[r] # "probing"
      BY <1>1, <1>4 DEF Begin, Count, IdsCollide, Reply,
                        Answer, TypeOK
    <3> QED BY <3>1, <3>2 DEF NoNewProbe
  <2> QED BY <1>1, <1>3, <2>1, <2>2, ShrinkKeepsSnapshot
<1>5. CASE ReadOffsets(r)
  <2> DEFINE reads == [h \in Hosts |-> OffsetsOn(h)]
             rq == [req[r] EXCEPT !.used = reads]
  <2>1. reads \in [Hosts -> SUBSET Offsets]
    BY <1>1, TableReads
  <2>2. \A id \in SlotIds :
          Active(slots[id]) => slots[id].port_offset \in reads[slots[id].host]
    BY <1>1 DEF OffsetsOn, ActiveOn, Active, TypeOK, Slot
  <2>3. PlaceOrRefuse(r, rq) /\ now' = now /\ slots' = slots
    BY <1>5 DEF ReadOffsets
  <2> HIDE DEF reads
  <2>4. rq \in Request /\ rq.cfg \in Configs /\ rq.used = reads
    BY <1>2, <1>5, <2>1 DEF Request, LocalsOK, ReadOffsets
  <2> HIDE DEF rq
  <2>5. SnapshotCovers'
    BY <2>2, <2>3, <2>4, PlacementKeepsSnapshot
  <2> QED BY <1>3, <2>3, <2>5
<1>6. CASE ProbeFails(r)
  <2> DEFINE seen == [req[r].metrics EXCEPT ![req[r].host] = Offline]
             rq == [req[r] EXCEPT !.metrics = seen]
  <2>1. seen \in [Hosts -> Samples]
    BY <1>2, DataAssumption DEF Request
  <2>2. PlaceOrRefuse(r, rq) /\ now' = now /\ slots' = slots /\ pc[r] = "probing"
    BY <1>2, <1>6 DEF ProbeFails, Request
  <2> HIDE DEF seen
  <2>3. rq \in Request /\ rq.cfg \in Configs /\ rq.used = req[r].used
    BY <1>2, <2>1, <2>2 DEF Request, LocalsOK
  <2> HIDE DEF rq
  <2>4. SnapshotCovers'
    BY <1>1, <2>2, <2>3, PlacementKeepsSnapshot DEF SnapshotCovers
  <2> QED BY <1>3, <2>2, <2>4
<1>7. CASE ProbeSucceeds(r)
  BY <1>7, InsertKeepsBoth
<1> QED BY <1>4, <1>5, <1>6, <1>7 DEF Reservation

\* A timely heartbeat moves the expiry of a row that is active anyway; all the
\* other steps only end slots, or leave them alone.
LEMMA OtherShrinks ==
  ASSUME TypeOK,
         \/ \E b \in Beaters : \/ BeatFinds(b) \/ TimelyRenew(b) \/ RenewFails(b)
                              \/ BeatReplies(b)
         \/ \E id \in SlotIds : Delete(id)
         \/ PollStart \/ (\E h \in Hosts : PollHost(h)) \/ Reap
         \/ Tick \/ EditConfig \/ Crash \/ Restart
  PROVE  ActiveShrinks
<1>0. TypeOK
  OBVIOUS
<1>1. CASE \E b \in Beaters : TimelyRenew(b)
  <2>1. PICK b \in Beaters : TimelyRenew(b)
    BY <1>1
  <2>2. beat[b].id \in SlotIds /\ slots[beat[b].id] \in Slot
    BY <1>0, <2>1 DEF TimelyRenew, Renew, TypeOK
  <2>3. PICK ttl \in Ttls :
          slots' = [slots EXCEPT ![beat[b].id].expires = now + ttl]
    BY <2>1 DEF TimelyRenew, Renew
  <2>4. now' = now /\ Active(slots[beat[b].id])
    BY <2>1 DEF TimelyRenew, Renew
  <2>5. \A id \in SlotIds : id # beat[b].id => slots'[id] = slots[id]
    BY <1>0, <2>3 DEF TypeOK
  <2>6. /\ slots'[beat[b].id].host = slots[beat[b].id].host
        /\ slots'[beat[b].id].port_offset = slots[beat[b].id].port_offset
    BY <1>0, <2>2, <2>3 DEF TypeOK, Slot
  <2> QED BY <2>4, <2>5, <2>6 DEF ActiveShrinks, Active
<1>2. CASE \E id \in SlotIds : Delete(id)
  BY <1>0, <1>2 DEF Delete, ActiveShrinks, Active, TypeOK
<1>3. CASE Reap
  BY <1>0, <1>3 DEF Reap, ActiveShrinks, Active, TypeOK
<1>4. CASE Tick
  <2>1. now \in Int /\ now' = now + 1 /\ slots' = slots
    BY <1>0, <1>4, DataAssumption DEF Tick, TypeOK
  <2>2. \A id \in SlotIds : slots[id] # NoSlot => slots[id].expires \in Int
    BY <1>0 DEF TypeOK, Slot
  <2> QED BY <2>1, <2>2 DEF ActiveShrinks, Active
<1>5. CASE \/ \E b \in Beaters : \/ BeatFinds(b) \/ RenewFails(b)
                                \/ BeatReplies(b)
           \/ PollStart \/ (\E h \in Hosts : PollHost(h))
           \/ EditConfig \/ Crash \/ Restart
  <2>1. now' = now /\ slots' = slots
    BY <1>5 DEF BeatFinds, RenewFails, BeatReplies, PollStart, PollHost,
                EditConfig, Crash, Restart
  <2> QED BY <2>1 DEF ActiveShrinks, Active
<1> QED BY <1>1, <1>2, <1>3, <1>4, <1>5

LEMMA OtherKeepsBoth ==
  ASSUME IInv,
         \/ \E b \in Beaters : \/ BeatFinds(b) \/ TimelyRenew(b) \/ RenewFails(b)
                              \/ BeatReplies(b)
         \/ \E id \in SlotIds : Delete(id)
         \/ PollStart \/ (\E h \in Hosts : PollHost(h)) \/ Reap
         \/ Tick \/ EditConfig \/ Crash \/ Restart
  PROVE  SnapshotCovers' /\ NoPortOverlap'
<1>1. TypeOK /\ SnapshotCovers /\ NoPortOverlap
  BY DEF IInv
<1>2. NoNewProbe
  <2>1. CASE Crash
    BY <2>1 DEF Crash, NoNewProbe
  <2>2. CASE ~Crash
    <3>1. pc' = pc /\ req' = req
      BY <2>2 DEF BeatFinds, TimelyRenew, Renew, RenewFails, BeatReplies,
                  Delete, PollStart, PollHost, Reap, Tick, EditConfig, Restart
    <3> QED BY <3>1 DEF NoNewProbe
  <2> QED BY <2>1, <2>2
<1>3. ActiveShrinks
  BY <1>1, OtherShrinks
<1> QED BY <1>1, <1>2, <1>3, ShrinkKeepsOverlap, ShrinkKeepsSnapshot

LEMMA TimelyStepIsStep == TimelyNext => Next
BY DEF TimelyNext, Next, TimelyRenew

LEMMA InitInvariant == Init => IInv
<1> SUFFICES ASSUME Init PROVE IInv
  OBVIOUS
<1>1. TypeOK /\ HolderIsFirst
  BY InitTypes
<1>2. SnapshotCovers /\ NoPortOverlap
  BY DEF Init, SnapshotCovers, NoPortOverlap, Active
<1> QED BY <1>1, <1>2 DEF IInv

LEMMA StepInvariant == IInv /\ [TimelyNext]_vars => IInv'
<1> SUFFICES ASSUME IInv, [TimelyNext]_vars PROVE IInv'
  OBVIOUS
<1>1. TypeOK' /\ HolderIsFirst'
  BY StepTypes, TimelyStepIsStep DEF IInv
<1>2. SnapshotCovers' /\ NoPortOverlap'
  <2>1. CASE UNCHANGED vars
    BY <2>1 DEF vars, IInv, SnapshotCovers, NoPortOverlap, Active
  <2>2. CASE \E r \in Reservers : Begin(r) \/ Reservation(r)
    BY <2>2, ReservationKeepsBoth
  <2>3. CASE TimelyNext /\ ~ \E r \in Reservers :
                              Begin(r) \/ Reservation(r)
    BY <2>3, OtherKeepsBoth DEF TimelyNext, OtherStep, PollingLoop
  <2> QED BY <2>1, <2>2, <2>3
<1> QED BY <1>1, <1>2 DEF IInv

\* What a reservation has read bounds what is in use until it inserts, so that the
\* probes may be awaited in between (server.py:336-367).
THEOREM SnapshotsCover == TimelySpec => []SnapshotCovers
<1>1. IInv => SnapshotCovers
  BY DEF IInv
<1> QED BY InitInvariant, StepInvariant, <1>1, PTL DEF TimelySpec

\* While every heartbeat is applied before its slot expires, two active slots
\* never share a port offset of a host: for any number of hosts, offsets,
\* concurrent reservations and heartbeats, across failed probes, releases,
\* reaping, configuration edits and crashes.
THEOREM PortsNeverOverlap == TimelySpec => []NoPortOverlap
<1>1. IInv => NoPortOverlap
  BY DEF IInv
<1> QED BY <1>1, InitInvariant, StepInvariant, PTL DEF TimelySpec

\* Ranges of different offsets are apart.
LEMMA RangesApart ==
  ASSUME NEW o \in Int, NEW p \in Int, o < p
  PROVE  PortRange(o) \intersect PortRange(p) = {}
<1>0. port_base \in Int /\ port_stride \in Nat
  BY DataAssumption
<1>1. /\ o * port_stride \in Int /\ p * port_stride \in Int
      /\ o * port_stride + port_stride <= p * port_stride
  <2>1. PICK d \in Nat : p = o + 1 + d
    <3>1. p - o - 1 \in Nat /\ p = o + 1 + (p - o - 1)
      OBVIOUS
    <3> QED BY <3>1
  <2>2. (o + 1 + d) * port_stride = o * port_stride + port_stride + d * port_stride
    BY <1>0
  <2>3. d * port_stride \in Nat
    BY <1>0
  <2>4. o * port_stride \in Int
    BY <1>0
  <2> QED BY <1>0, <2>1, <2>2, <2>3, <2>4
<1> DEFINE x == o * port_stride
           y == p * port_stride
<1>2. x \in Int /\ y \in Int /\ x + port_stride <= y
  BY <1>1
<1>3. /\ PortRange(o) = port_base + x .. port_base + x + port_stride - 1
      /\ PortRange(p) = port_base + y .. port_base + y + port_stride - 1
  BY DEF PortRange
<1> HIDE DEF x, y
<1> QED BY <1>0, <1>2, <1>3

\* No port of a host is in the ranges of two active slots: for every port base and
\* stride, under the assumptions of PortsNeverOverlap (server.py:288-289).
THEOREM RangesNeverOverlap == TimelySpec => []RangesAreDisjoint
<1>1. ASSUME IInv PROVE RangesAreDisjoint
  <2> SUFFICES ASSUME NEW i \in SlotIds, NEW j \in SlotIds, i # j,
                      Active(slots[i]), Active(slots[j]), slots[i].host = slots[j].host
               PROVE  PortRange(slots[i].port_offset)
                        \intersect PortRange(slots[j].port_offset) = {}
    BY DEF RangesAreDisjoint
  <2>1. slots[i].port_offset \in Int /\ slots[j].port_offset \in Int
    BY <1>1 DEF IInv, TypeOK, Active, Slot, Offsets
  <2>2. slots[i].port_offset # slots[j].port_offset
    BY <1>1 DEF IInv, NoPortOverlap
  <2>3. CASE slots[i].port_offset < slots[j].port_offset
    BY <2>1, <2>3, RangesApart
  <2>4. CASE slots[j].port_offset < slots[i].port_offset
    BY <2>1, <2>4, RangesApart
  <2> QED BY <2>1, <2>2, <2>3, <2>4
<1> QED BY <1>1, InitInvariant, StepInvariant, PTL DEF TimelySpec

-----------------------------------------------------------------------------
(* Rows come and go for their own reasons only, whatever the heartbeats do. *)

\* The steps that leave the table alone.
Bystander ==
  \/ \E r \in Reservers : \/ Begin(r) \/ Count(r) \/ ReadOffsets(r) \/ ProbeFails(r)
                         \/ IdsCollide(r) \/ Reply(r)
  \/ \E b \in Beaters : BeatFinds(b) \/ RenewFails(b) \/ BeatReplies(b)
  \/ PollStart \/ (\E h \in Hosts : PollHost(h))
  \/ Tick \/ EditConfig \/ Crash \/ Restart

LEMMA StepsOfTheTable ==
  ASSUME [Next]_vars
  PROVE  \/ slots' = slots
         \/ \E r \in Reservers : ProbeSucceeds(r)
         \/ \E b \in Beaters : Renew(b)
         \/ \E id \in SlotIds : Delete(id)
         \/ Reap
<1>1. CASE Bystander
  BY <1>1 DEF Bystander, Begin, Count, ReadOffsets, ProbeFails, IdsCollide, Reply,
              BeatFinds, RenewFails, BeatReplies, PollStart, PollHost, Tick,
              EditConfig, Crash, Restart
<1>2. CASE UNCHANGED vars
  BY <1>2 DEF vars
<1> QED BY <1>1, <1>2 DEF Next, OtherStep, Reservation, PollingLoop, Bystander

\* A heartbeat changes the expiry of a row that is there.
LEMMA RenewKeepsRows ==
  ASSUME TypeOK, NEW b \in Beaters, Renew(b), NEW id \in SlotIds
  PROVE  slots'[id] = NoSlot <=> slots[id] = NoSlot
<1>1. beat[b].id \in SlotIds /\ slots[beat[b].id] \in Slot
  BY DEF Renew, TypeOK
<1>2. PICK ttl \in Ttls : slots' = [slots EXCEPT ![beat[b].id].expires = now + ttl]
  BY DEF Renew
<1>3. now + ttl \in Int
  BY DataAssumption DEF TypeOK
<1>4. CASE id = beat[b].id
  <2>1. slots'[id] \in Slot
    BY <1>1, <1>2, <1>3, <1>4 DEF TypeOK, Slot
  <2> QED BY <1>1, <1>4, <2>1, DataAssumption
<1>5. CASE id # beat[b].id
  BY <1>2, <1>5 DEF TypeOK
<1> QED BY <1>4, <1>5

\* The reaper and the queries agree on "expired", and nothing but a DELETE of its
\* own ends a slot that counts as active.
THEOREM ActiveSlotsStay == Spec => OnlyDeleteEndsActive
<1> DEFINE Ends == \A id \in SlotIds :
                     Active(slots[id]) /\ slots'[id] = NoSlot => Delete(id)
<1>1. ASSUME TypeOK, [Next]_vars PROVE [Ends]_vars
  <2> SUFFICES ASSUME NEW id \in SlotIds, Active(slots[id]), slots'[id] = NoSlot
               PROVE  Delete(id)
    OBVIOUS
  <2>1. slots[id] \in Slot /\ slots[id].expires >= now
        /\ slots[id].expires \in Int /\ now \in Int
    BY <1>1, DataAssumption DEF Active, TypeOK, Slot
  <2>2. slots[id] # NoSlot
    BY DEF Active
  <2>3. ASSUME NEW r \in Reservers, ProbeSucceeds(r) PROVE FALSE
    <3>1. PICK new \in SlotIds :
            /\ slots[new] = NoSlot
            /\ slots' = [slots EXCEPT ![new] =
                          [host |-> req[r].host, port_offset |-> req[r].offset,
                           expires |-> now + req[r].ttl]]
      BY <2>3 DEF ProbeSucceeds
    <3> QED BY <1>1, <2>2, <3>1 DEF TypeOK
  <2>4. ASSUME NEW b \in Beaters, Renew(b) PROVE FALSE
    BY <1>1, <2>2, <2>4, RenewKeepsRows
  <2>5. ASSUME Reap PROVE FALSE
    BY <1>1, <2>1, <2>2, <2>5 DEF Reap
  <2>6. ASSUME NEW x \in SlotIds, Delete(x) PROVE Delete(id)
    <3>1. x = id
      BY <1>1, <2>2, <2>6 DEF Delete, TypeOK
    <3> QED BY <2>6, <3>1
  <2> QED BY <1>1, <2>2, <2>3, <2>4, <2>5, <2>6, StepsOfTheTable
<1> QED BY <1>1, TypesAlwaysHold, PTL DEF Spec, OnlyDeleteEndsActive

\* A heartbeat in flight never brings a row back, nor does anything else but the
\* insert of a reservation make one.
THEOREM OnlyInsertsMakeRows == Spec => OnlyInsertAddsRows
<1> DEFINE Adds == \A id \in SlotIds : slots[id] = NoSlot /\ slots'[id] # NoSlot =>
                     \E r \in Reservers : pc[r] = "probing" /\ pc'[r] = "inserted"
<1>1. ASSUME TypeOK, [Next]_vars PROVE [Adds]_vars
  <2> SUFFICES ASSUME NEW id \in SlotIds, slots[id] = NoSlot, slots'[id] # NoSlot
               PROVE  \E r \in Reservers : pc[r] = "probing" /\ pc'[r] = "inserted"
    OBVIOUS
  <2>1. CASE \E r \in Reservers : ProbeSucceeds(r)
    BY <1>1, <2>1 DEF ProbeSucceeds, TypeOK
  <2>2. ASSUME NEW b \in Beaters, Renew(b) PROVE FALSE
    BY <1>1, <2>2, RenewKeepsRows
  <2>3. ASSUME NEW x \in SlotIds, Delete(x) PROVE FALSE
    BY <1>1, <2>3 DEF Delete, TypeOK
  <2>4. ASSUME Reap PROVE FALSE
    BY <1>1, <2>4 DEF Reap
  <2> QED BY <1>1, <2>1, <2>2, <2>3, <2>4, StepsOfTheTable
<1> QED BY <1>1, TypesAlwaysHold, PTL DEF Spec, OnlyInsertAddsRows

-----------------------------------------------------------------------------
(* Implementation of SlotLease. *)

Leased(id) == IF Active(slots[id])
              THEN [host |-> slots[id].host, offset |-> slots[id].port_offset]
              ELSE NoSlot

leasesNow == [id \in SlotIds |-> Leased(id)]

\* A step in which active rows only go is an End of the leases that go.
LEMMA ShrinkEndsLeases ==
  ASSUME ActiveShrinks
  PROVE  Lease!Next
<1> DEFINE ended == {id \in SlotIds :
                       ~(slots'[id] # NoSlot /\ slots'[id].expires >= now')}
<1>1. ASSUME NEW id \in SlotIds
      PROVE  Leased(id)' = IF id \in ended THEN NoSlot ELSE Leased(id)
  BY <1>1, DataAssumption DEF Leased, ActiveShrinks, Active
<1>2. leasesNow' = [id \in SlotIds |-> IF id \in ended THEN NoSlot ELSE leasesNow[id]]
  BY <1>1 DEF leasesNow
<1>3. ended \in SUBSET SlotIds
  OBVIOUS
<1> HIDE DEF ended
<1> QED BY <1>2, <1>3, Zenon DEF Lease!Next, Lease!End, leasesNow, Leased

\* An insert is a Grant, or nothing when its ttl makes it expire at once.
LEMMA InsertGrants ==
  ASSUME IInv, NEW r \in Reservers, ProbeSucceeds(r)
  PROVE  Lease!Next \/ leasesNow' = leasesNow
<1>1. TypeOK /\ SnapshotCovers
  BY DEF IInv
<1>2. PICK new \in SlotIds :
        /\ slots[new] = NoSlot
        /\ slots' = [slots EXCEPT ![new] =
                    [host |-> req[r].host, port_offset |-> req[r].offset,
                     expires |-> now + req[r].ttl]]
  BY DEF ProbeSucceeds
<1>3. now' = now /\ pc[r] = "probing"
  BY DEF ProbeSucceeds
<1>4. req[r].host \in Hosts /\ req[r].offset \in Offsets
  BY <1>1, <1>3 DEF TypeOK, LocalsOK
<1>5. ASSUME NEW id \in SlotIds, id # new PROVE Leased(id)' = Leased(id)
  BY <1>1, <1>2, <1>3, <1>5 DEF Leased, Active, TypeOK
<1>6. Leased(new) = NoSlot
  BY <1>2 DEF Leased, Active
<1>7. CASE ~Active(slots[new])'
  <2>1. Leased(new)' = NoSlot
    BY <1>7 DEF Leased
  <2> QED BY <1>5, <1>6, <2>1 DEF leasesNow
<1>8. CASE Active(slots[new])'
  <2> DEFINE h == req[r].host
             o == req[r].offset
             pair == [host |-> h, offset |-> o]
  <2>1. Leased(new)' = pair
    BY <1>1, <1>2, <1>8 DEF Leased, TypeOK
  <2>2. leasesNow' = [leasesNow EXCEPT ![new] = pair]
    <3> HIDE DEF pair
    <3> QED BY <1>5, <2>1 DEF leasesNow
  <2>3. ASSUME NEW id \in SlotIds, Leased(id) # NoSlot PROVE Leased(id) # pair
    <3>1. Active(slots[id])
      BY <2>3 DEF Leased
    <3>2. slots[id].port_offset \in req[r].used[slots[id].host]
      BY <1>1, <1>3, <3>1 DEF SnapshotCovers
    <3>3. o \notin req[r].used[h]
      BY <1>1, <1>3 DEF SnapshotCovers
    <3> QED BY <3>1, <3>2, <3>3 DEF Leased
  <2>4. Lease!Grant(new, h, o)
    BY <1>6, <2>2, <2>3
       DEF Lease!Grant, Lease!Held, Lease!PairIsFree, leasesNow, Leased
  <2> HIDE DEF h, o
  <2>5. h \in Hosts /\ o \in Offsets
    BY <1>4 DEF h, o
  <2> QED BY <2>4, <2>5, Zenon
          DEF Lease!Next, Lease!Grant, Lease!Held, Lease!PairIsFree
<1> QED BY <1>7, <1>8

LEMMA StepImplementsLease ==
  IInv /\ [TimelyNext]_vars => Lease!Next \/ leasesNow' = leasesNow
<1> SUFFICES ASSUME IInv, [TimelyNext]_vars
             PROVE  Lease!Next \/ leasesNow' = leasesNow
  OBVIOUS
<1>1. CASE \E r \in Reservers : ProbeSucceeds(r)
  BY <1>1, InsertGrants
<1>2. CASE now' = now /\ slots' = slots
  BY <1>2 DEF leasesNow, Leased, Active
<1>3. CASE \E r \in Reservers : /\ Begin(r) \/ Reservation(r)
                               /\ ~ProbeSucceeds(r)
  <2>1. now' = now /\ slots' = slots
    BY <1>3 DEF Begin, Reservation, Count, ReadOffsets, ProbeFails,
                IdsCollide, Reply
  <2> QED BY <1>2, <2>1
<1>4. CASE TimelyNext /\ ~ \E r \in Reservers :
                            Begin(r) \/ Reservation(r)
  <2>1. ActiveShrinks
    BY <1>4, OtherShrinks DEF TimelyNext, OtherStep, PollingLoop, IInv
  <2> QED BY <2>1, ShrinkEndsLeases
<1> QED BY <1>1, <1>2, <1>3, <1>4 DEF TimelyNext, OtherStep, PollingLoop, vars

\* Under timely heartbeats the registry implements SlotLease: what callers see
\* are leases granted on free pairs only.
THEOREM RegistryImplementsLease == TimelySpec => ImplementsLease
<1>1. Init => Lease!Init
  BY DEF Init, Lease!Init, Active
<1>2. IInv /\ [TimelyNext]_vars => [Lease!Next]_leasesNow
  BY StepImplementsLease
<1>3. [Lease!Next]_leasesNow => Lease!Next \/ leasesNow' = leasesNow
  OBVIOUS
<1> QED BY <1>1, <1>2, InitInvariant, StepInvariant, PTL
    DEF TimelySpec, ImplementsLease, Lease!Spec, leasesNow, Leased

-----------------------------------------------------------------------------
(* The capacity.  From the count to the insert of the lock holder the active *)
(* rows of a host only become fewer, so the count stays an upper bound.      *)

\* What a reservation counted bounds what is active, and the host it chose had
\* room for one more.
CountCovers ==
  \A r \in Reservers : pc[r] \in Holding =>
    \A h \in Hosts : Cardinality(ActiveOn(h)) <= req[r].active[h]

RoomIn(q) ==
  \E i \in DOMAIN q.cfg.hosts :
    /\ q.cfg.hosts[i].name = q.host
    /\ q.active[q.host] < MaxSlots(q.cfg, q.cfg.hosts[i])

HasRoom == \A r \in Reservers : pc[r] = "probing" => RoomIn(req[r])

CapacityInv == IInv /\ CountCovers /\ HasRoom

\* A host has finitely many active rows.
LEMMA ActiveOnFinite ==
  ASSUME NEW h
  PROVE  IsFiniteSet(ActiveOn(h)) /\ Cardinality(ActiveOn(h)) \in Nat
<1>1. ActiveOn(h) \subseteq SlotIds
  BY DEF ActiveOn
<1> QED BY <1>1, DataAssumption, FS_Subset, FS_CardinalityType

\* Rows that only end are counted no higher.
LEMMA ShrinkCounts ==
  ASSUME ActiveShrinks, NEW h
  PROVE  Cardinality(ActiveOn(h))' <= Cardinality(ActiveOn(h))
<1>1. ActiveOn(h)' \subseteq ActiveOn(h)
  BY DEF ActiveShrinks, ActiveOn, Active
<1> DEFINE before == ActiveOn(h)
           after  == ActiveOn(h)'
<1>2. IsFiniteSet(before) /\ after \subseteq before
  BY <1>1, ActiveOnFinite
<1>3. Cardinality(after) <= Cardinality(before)
  <2> HIDE DEF before, after
  <2> QED BY <1>2, FS_Subset
<1> QED BY <1>3

\* While rows only end, the counts of the holders stay upper bounds.
LEMMA ShrinkKeepsCount ==
  ASSUME TypeOK, CountCovers, ActiveShrinks,
         \A r \in Reservers : pc'[r] \in Holding =>
           pc[r] \in Holding /\ req'[r].active = req[r].active
  PROVE  CountCovers'
<1> SUFFICES ASSUME NEW r \in Reservers, pc'[r] \in Holding, NEW h \in Hosts
             PROVE  Cardinality(ActiveOn(h))' <= req'[r].active[h]
  BY DEF CountCovers
<1>1. /\ Cardinality(ActiveOn(h)) <= req[r].active[h]
      /\ req'[r].active[h] = req[r].active[h]
  BY DEF CountCovers
<1>2. req[r].active[h] \in Nat
  BY DEF TypeOK, Request
<1>3. Cardinality(ActiveOn(h)) \in Nat
  BY ActiveOnFinite
<1>4. Cardinality(ActiveOn(h))' \in Nat
  <2>1. (Cardinality(ActiveOn(h)) \in Nat)'
    BY ActiveOnFinite, PTL
  <2> QED BY <2>1
<1> QED BY <1>1, <1>2, <1>3, <1>4, ShrinkCounts

\* A placement found room on the host it names.
LEMMA PlacedHasRoom ==
  ASSUME NEW r \in Reservers, NEW rq \in Request, rq.cfg \in Configs,
         PlaceOrRefuse(r, rq)
  PROVE  \/ Answer(r)
         \/ \E h \in Hosts, o \in Offsets :
              /\ pc' = [pc EXCEPT ![r] = "probing"]
              /\ req' = [req EXCEPT ![r] = [rq EXCEPT !.host = h, !.offset = o]]
              /\ RoomIn([rq EXCEPT !.host = h, !.offset = o])
<1> DEFINE p == PickHost(rq.cfg, rq.metrics, rq.active, rq.used, rq.hint)
           c == rq.cfg
           h == c.hosts[p.index].name
<1>1. CASE ~p.found
  BY <1>1 DEF PlaceOrRefuse
<1>2. CASE p.found
  <2>1. /\ c.hosts \in Seq(HostEntry)
        /\ c.max_slots_per_host \in Int
        /\ c.max_port_offsets \in Int
    BY ConfigsAssumption
  <2>2. rq.active \in [Hosts -> Int]
    BY DEF Request
  <2>3. /\ p.index \in Candidates(c, rq.metrics, rq.active, rq.used, rq.hint)
        /\ p.offset \in 0..(c.max_port_offsets - 1)
    <3> HIDE DEF c, p
    <3>1. p = PickHost(c, rq.metrics, rq.active, rq.used, rq.hint)
      BY DEF p, c
    <3> QED BY <1>2, <2>1, <2>2, <3>1, PickHostIsBest DEF HostEntry
  <2>4. /\ p.index \in DOMAIN c.hosts
        /\ rq.active[h] < MaxSlots(c, c.hosts[p.index])
    <3> HIDE DEF p
    <3> QED BY <2>3 DEF Candidates, IsCandidate
  <2>5. h \in Hosts
    <3> DEFINE list == c.hosts
    <3>1. list \in Seq(HostEntry) /\ p.index \in DOMAIN list
      BY <2>1, <2>4
    <3>2. list[p.index] \in HostEntry
      <4> HIDE DEF list, p
      <4> QED BY <3>1
    <3> QED BY <3>2 DEF HostEntry
  <2>6. p.offset \in Offsets
    BY <2>3 DEF Offsets
  <2>7. /\ pc' = [pc EXCEPT ![r] = "probing"]
        /\ req' = [req EXCEPT ![r] = [rq EXCEPT !.host = h, !.offset = p.offset]]
    BY <1>2 DEF PlaceOrRefuse
  <2> DEFINE q == [rq EXCEPT !.host = h, !.offset = p.offset]
  <2>8. q.cfg = c /\ q.active = rq.active /\ q.host = h
    BY DEF Request
  <2>9. RoomIn(q)
    <3> HIDE DEF p, c, h, q
    <3>1. \E i \in DOMAIN q.cfg.hosts : i = p.index
      BY <2>4, <2>8
    <3> QED BY <2>4, <2>8, <3>1 DEF RoomIn, h
  <2> HIDE DEF p, c, h
  <2> QED BY <2>5, <2>6, <2>7, <2>9
<1> QED BY <1>1, <1>2

\* Nobody starts probing in the step, and the room is that of before.
LEMMA NoNewProbeKeepsRoom ==
  ASSUME HasRoom, NoNewProbe
  PROVE  HasRoom'
BY DEF HasRoom, NoNewProbe, RoomIn

\* A placement, the first one or one after a failed probe, chooses a host with room.
LEMMA PlacementKeepsRoom ==
  ASSUME TypeOK, HasRoom, NEW r \in Reservers, NEW rq \in Request, rq.cfg \in Configs,
         pc[r] \in Holding, PlaceOrRefuse(r, rq)
  PROVE  /\ HasRoom'
         /\ \A s \in Reservers : pc'[s] \in Holding => pc[s] \in Holding
         /\ \A s \in Reservers : pc'[s] \in Holding =>
              req'[s].active = IF s = r THEN rq.active ELSE req[s].active
<1>1. CASE Answer(r)
  <2>1. NoNewProbe
    BY <1>1 DEF NoNewProbe, Answer, TypeOK
  <2>2. \A s \in Reservers : pc'[s] \in Holding =>
          s # r /\ pc[s] \in Holding /\ req'[s] = req[s]
    BY <1>1 DEF Answer, TypeOK, Holding
  <2> QED BY <2>1, <2>2, NoNewProbeKeepsRoom
<1>2. CASE ~Answer(r)
  <2>1. PICK h \in Hosts, o \in Offsets :
          /\ pc' = [pc EXCEPT ![r] = "probing"]
          /\ req' = [req EXCEPT ![r] = [rq EXCEPT !.host = h, !.offset = o]]
          /\ RoomIn([rq EXCEPT !.host = h, !.offset = o])
    BY <1>2, PlacedHasRoom
  <2> DEFINE q == [rq EXCEPT !.host = h, !.offset = o]
  <2>2. q.active = rq.active
    BY DEF Request
  <2>3. req' = [req EXCEPT ![r] = q] /\ RoomIn(q)
    BY <2>1
  <2> HIDE DEF q
  <2>4. req'[r] = q /\ \A s \in Reservers : s # r => pc'[s] = pc[s] /\ req'[s] = req[s]
    BY <2>1, <2>3 DEF TypeOK
  <2>5. ASSUME NEW s \in Reservers, pc'[s] = "probing" PROVE RoomIn(req'[s])
    BY <2>3, <2>4, <2>5 DEF HasRoom
  <2>6. HasRoom'
    BY <2>5 DEF HasRoom, RoomIn
  <2> QED BY <2>2, <2>4, <2>6
<1> QED BY <1>1, <1>2

\* The steps of a reservation up to the insert.
LEMMA ReservationKeepsCount ==
  ASSUME IInv, CountCovers, HasRoom, NEW r \in Reservers,
         Begin(r) \/ Reservation(r)
  PROVE  CountCovers' /\ HasRoom'
<1>1. TypeOK /\ HolderIsFirst
  BY DEF IInv
<1>2. req[r] \in Request /\ LocalsOK(pc[r], req[r])
  BY <1>1 DEF TypeOK
<1>3. ASSUME now' = now, slots' = slots PROVE ActiveShrinks
  BY <1>3 DEF ActiveShrinks, Active
<1>4. CASE Begin(r) \/ IdsCollide(r) \/ Reply(r)
  <2>1. ActiveShrinks
    BY <1>3, <1>4 DEF Begin, IdsCollide, Reply
  <2>2. \A s \in Reservers : s # r => pc'[s] = pc[s] /\ req'[s] = req[s]
    BY <1>1, <1>4 DEF Begin, IdsCollide, Reply, Answer, TypeOK
  <2>3. pc'[r] \notin Holding /\ pc'[r] # "probing"
    BY <1>1, <1>4 DEF Begin, IdsCollide, Reply, Answer, TypeOK, Holding
  <2>4. NoNewProbe
    BY <2>2, <2>3 DEF NoNewProbe
  <2> QED BY <1>1, <2>1, <2>2, <2>3, <2>4, ShrinkKeepsCount, NoNewProbeKeepsRoom
<1>5. CASE Count(r)
  <2> DEFINE counts == [h \in Hosts |-> Cardinality(ActiveOn(h))]
  <2>1. /\ pc' = [pc EXCEPT ![r] = "counted"]
        /\ req' = [req EXCEPT ![r].metrics = latest, ![r].active = counts]
        /\ now' = now /\ slots' = slots
    BY <1>5 DEF Count
  <2>2. \A s \in Reservers : s # r => pc'[s] = pc[s] /\ req'[s] = req[s]
    BY <1>1, <2>1 DEF TypeOK
  <2>3. pc'[r] = "counted"
    BY <1>1, <2>1 DEF TypeOK
  <2>4. req'[r].active = counts
    <3> HIDE DEF counts
    <3> QED BY <1>1, <1>2, <2>1 DEF TypeOK, Request
  <2>5. NoNewProbe
    BY <2>2, <2>3 DEF NoNewProbe
  <2>6. \A h \in Hosts : ActiveOn(h)' = ActiveOn(h) /\ Cardinality(ActiveOn(h)) \in Nat
    BY <2>1, ActiveOnFinite DEF ActiveOn, Active
  <2>7. ASSUME NEW s \in Reservers, pc'[s] \in Holding, NEW h \in Hosts
        PROVE  Cardinality(ActiveOn(h)') <= req'[s].active[h]
    BY <2>2, <2>4, <2>6, <2>7 DEF CountCovers
  <2>8. CountCovers'
    BY <2>7 DEF CountCovers
  <2> QED BY <2>5, <2>8, NoNewProbeKeepsRoom
<1>6. CASE ReadOffsets(r)
  <2> DEFINE reads == [h \in Hosts |-> OffsetsOn(h)]
             rq == [req[r] EXCEPT !.used = reads]
  <2>1. reads \in [Hosts -> SUBSET Offsets]
    BY <1>1, TableReads
  <2>2. PlaceOrRefuse(r, rq) /\ now' = now /\ slots' = slots /\ pc[r] \in Holding
    BY <1>6 DEF ReadOffsets, Holding
  <2> HIDE DEF reads
  <2>3. rq \in Request /\ rq.cfg \in Configs /\ rq.active = req[r].active
    BY <1>2, <1>6, <2>1 DEF Request, LocalsOK, ReadOffsets
  <2> HIDE DEF rq
  <2> QED BY <1>1, <1>3, <2>2, <2>3, PlacementKeepsRoom, ShrinkKeepsCount
<1>7. CASE ProbeFails(r)
  <2> DEFINE seen == [req[r].metrics EXCEPT ![req[r].host] = Offline]
             rq == [req[r] EXCEPT !.metrics = seen]
  <2>1. seen \in [Hosts -> Samples]
    BY <1>2, DataAssumption DEF Request
  <2>2. PlaceOrRefuse(r, rq) /\ now' = now /\ slots' = slots /\ pc[r] \in Holding
    BY <1>2, <1>7 DEF ProbeFails, Request, Holding
  <2> HIDE DEF seen
  <2>3. rq \in Request /\ rq.cfg \in Configs /\ rq.active = req[r].active
    BY <1>2, <1>7, <2>1 DEF Request, LocalsOK, ProbeFails
  <2> HIDE DEF rq
  <2> QED BY <1>1, <1>3, <2>2, <2>3, PlacementKeepsRoom, ShrinkKeepsCount
<1>8. CASE ProbeSucceeds(r)
  <2>1. \A s \in Reservers : pc'[s] \notin Holding
    <3> SUFFICES ASSUME NEW s \in Reservers, pc'[s] \in Holding PROVE FALSE
      OBVIOUS
    <3>1. s # r /\ pc[s] \in Holding
      BY <1>1, <1>8 DEF ProbeSucceeds, TypeOK, Holding
    <3> QED BY <1>1, <1>8, <3>1 DEF ProbeSucceeds, HolderIsFirst, Holding
  <2> QED BY <2>1 DEF CountCovers, HasRoom, Holding
<1> QED BY <1>4, <1>5, <1>6, <1>7, <1>8 DEF Reservation

\* The invariant is inductive.
LEMMA StepKeepsCapacity == CapacityInv /\ [TimelyNext]_vars => CapacityInv'
<1> SUFFICES ASSUME CapacityInv, [TimelyNext]_vars PROVE CapacityInv'
  OBVIOUS
<1>1. IInv /\ CountCovers /\ HasRoom /\ TypeOK
  BY DEF CapacityInv, IInv
<1>2. CASE UNCHANGED vars
  <2>1. CountCovers' /\ HasRoom'
    BY <1>1, <1>2 DEF vars, CountCovers, HasRoom, RoomIn, ActiveOn, Active
  <2> QED BY <1>1, <1>2, <2>1, StepInvariant DEF CapacityInv
<1>3. CASE \E r \in Reservers : Begin(r) \/ Reservation(r)
  BY <1>1, <1>3, ReservationKeepsCount, StepInvariant DEF CapacityInv
<1>4. CASE TimelyNext /\ ~ \E r \in Reservers : Begin(r) \/ Reservation(r)
  <2>1. ActiveShrinks
    BY <1>1, <1>4, OtherShrinks DEF TimelyNext, OtherStep, PollingLoop
  <2>2. \A r \in Reservers : pc'[r] \in Holding => pc[r] = pc'[r] /\ req'[r] = req[r]
    <3>1. CASE Crash
      BY <3>1 DEF Crash, Holding
    <3>2. CASE ~Crash
      <4>1. pc' = pc /\ req' = req
        BY <1>4, <3>2 DEF TimelyNext, OtherStep, PollingLoop, BeatFinds, TimelyRenew,
             Renew, RenewFails, BeatReplies, Delete, PollStart, PollHost, Reap, Tick,
             EditConfig, Restart
      <4> QED BY <4>1
    <3> QED BY <3>1, <3>2
  <2>3. NoNewProbe
    BY <2>2 DEF NoNewProbe, Holding
  <2> QED BY <1>1, <1>4, <2>1, <2>2, <2>3, StepInvariant, ShrinkKeepsCount,
             NoNewProbeKeepsRoom DEF CapacityInv
<1> QED BY <1>2, <1>3, <1>4

\* Only the insert makes a probing reservation an inserted one.
LEMMA InsertedByProbe ==
  ASSUME TypeOK, [TimelyNext]_vars, NEW r \in Reservers,
         pc[r] = "probing", pc'[r] = "inserted"
  PROVE  ProbeSucceeds(r)
<1>1. CASE \E s \in Reservers : Begin(s) \/ Reservation(s)
  <2>1. PICK s \in Reservers : Begin(s) \/ Reservation(s)
    BY <1>1
  <2>2. s = r
    BY <2>1 DEF Begin, Reservation, Count, ReadOffsets, ProbeFails, ProbeSucceeds,
         IdsCollide, Reply, PlaceOrRefuse, Answer, TypeOK
  <2>3. ~ProbeFails(r) /\ ~IdsCollide(r)
    BY DEF ProbeFails, IdsCollide, PlaceOrRefuse, Answer, TypeOK
  <2> QED BY <2>1, <2>2, <2>3 DEF Begin, Reservation, Count, ReadOffsets, Reply
<1>2. CASE ~ \E s \in Reservers : Begin(s) \/ Reservation(s)
  BY <1>2 DEF TimelyNext, OtherStep, PollingLoop, BeatFinds, TimelyRenew, Renew,
       RenewFails, BeatReplies, Delete, PollStart, PollHost, Reap, Tick, EditConfig,
       Crash, Restart, vars
<1> QED BY <1>1, <1>2

\* With timely heartbeats no reservation takes its host above the capacity of the
\* configuration it was placed with, for any number of hosts, slots and handlers.
THEOREM CapacityIsNeverExceeded == TimelySpec => CapacityIsKept
<1>1. ASSUME CapacityInv, [TimelyNext]_vars PROVE CapacityKept
  <2> SUFFICES ASSUME NEW r \in Reservers, NEW h \in Hosts,
                      pc[r] = "probing", pc'[r] = "inserted", req[r].host = h
               PROVE  \E i \in DOMAIN req[r].cfg.hosts :
                        /\ req[r].cfg.hosts[i].name = h
                        /\ Cardinality(ActiveOn(h)')
                             <= MaxSlots(req[r].cfg, req[r].cfg.hosts[i])
    BY DEF CapacityKept
  <2>1. TypeOK /\ CountCovers /\ HasRoom
    BY <1>1 DEF CapacityInv, IInv
  <2>2. ProbeSucceeds(r)
    BY <1>1, <2>1, InsertedByProbe
  <2>3. PICK i \in DOMAIN req[r].cfg.hosts :
          /\ req[r].cfg.hosts[i].name = h
          /\ req[r].active[h] < MaxSlots(req[r].cfg, req[r].cfg.hosts[i])
    BY <2>1 DEF HasRoom, RoomIn
  <2>4. PICK new \in SlotIds :
          /\ \A id \in SlotIds : id # new => slots'[id] = slots[id]
          /\ now' = now
    BY <2>1, <2>2 DEF ProbeSucceeds, TypeOK
  <2> DEFINE before == ActiveOn(h)
             after  == ActiveOn(h)'
  <2>5. after \subseteq before \union {new}
    BY <2>4 DEF ActiveOn, Active
  <2>6. IsFiniteSet(before) /\ Cardinality(before) \in Nat
    BY ActiveOnFinite
  <2>7. Cardinality(before) <= req[r].active[h]
    BY <2>1 DEF CountCovers, Holding
  <2>8. Cardinality(after) \in Nat /\ Cardinality(after) <= Cardinality(before) + 1
    <3> HIDE DEF before, after
    <3>1. /\ IsFiniteSet(before \union {new})
          /\ Cardinality(before \union {new}) \in Nat
          /\ Cardinality(before \union {new}) <= Cardinality(before) + 1
      <4>1. IsFiniteSet(before)
        BY <2>6
      <4>2. /\ IsFiniteSet(before \union {new})
            /\ Cardinality(before \union {new}) =
                 IF new \in before THEN Cardinality(before) ELSE Cardinality(before) + 1
        BY <4>1, FS_AddElement, Zenon
      <4>3. Cardinality(before \union {new}) \in Nat
        BY <4>2, FS_CardinalityType, Zenon
      <4> QED BY <2>6, <4>2, <4>3
    <3>2. IsFiniteSet(after) /\ Cardinality(after) <= Cardinality(before \union {new})
      BY <2>5, <3>1, FS_Subset
    <3>3. Cardinality(after) \in Nat
      BY <3>2, FS_CardinalityType
    <3> QED BY <2>6, <3>1, <3>2, <3>3
  <2>9. /\ req[r].active[h] \in Nat
        /\ MaxSlots(req[r].cfg, req[r].cfg.hosts[i]) \in Int
    <3>1. req[r].cfg \in Configs /\ req[r].active \in [Hosts -> Nat]
      BY <2>1 DEF TypeOK, LocalsOK, Request
    <3> DEFINE list == req[r].cfg.hosts
    <3>2. list \in Seq(HostEntry) /\ req[r].cfg.max_slots_per_host \in Int
      BY <3>1, ConfigsAssumption
    <3>3. i \in DOMAIN list
      BY <2>3
    <3>4. list[i] \in HostEntry
      <4> HIDE DEF list
      <4> QED BY <3>2, <3>3
    <3> QED BY <3>1, <3>2, <3>4 DEF MaxSlots, HostEntry
  <2>10. Cardinality(after) <= MaxSlots(req[r].cfg, req[r].cfg.hosts[i])
    <3> DEFINE room == MaxSlots(req[r].cfg, req[r].cfg.hosts[i])
               count == req[r].active[h]
    <3> HIDE DEF before, after
    <3>1. count < room /\ count \in Nat /\ room \in Int /\ Cardinality(before) <= count
      BY <2>3, <2>7, <2>9
    <3> HIDE DEF room, count
    <3>2. Cardinality(after) <= room
      BY <2>6, <2>8, <3>1
    <3> QED BY <3>2 DEF room
  <2> QED BY <2>3, <2>10
<1>2. Init => CapacityInv
  <2> SUFFICES ASSUME Init PROVE CapacityInv
    OBVIOUS
  <2>1. CountCovers /\ HasRoom
    BY DEF Init, CountCovers, HasRoom, Holding
  <2> QED BY <2>1, InitInvariant DEF CapacityInv
<1>3. CapacityInv /\ [TimelyNext]_vars => [CapacityKept]_vars
  BY <1>1
<1> QED BY <1>2, <1>3, StepKeepsCapacity, PTL DEF TimelySpec, CapacityIsKept
=============================================================================
