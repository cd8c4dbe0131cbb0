------------------------- MODULE MetricsStoreProofs -------------------------
(* What Database.latest returns is never further behind than a clock is off. *)
EXTENDS MetricsStore, TLAPS

\* Every row is stamped by the server's clock or by the agent's.
Stamped ==
  \A r \in rows : r.ts = r.seen \/ r.ts = r.seen + skew[r.host]

IInv == TypeOK /\ Stamped

CycleType == [at : {"asleep", "polling", "down"}, due : Int, calm : Int]

LEMMA InitIInv == Init => IInv
BY ClockAssumption DEF Init, IInv, TypeOK, Stamped, NoGet, Get

\* A row that is added by the poller or by a probe is a stamped row.
LEMMA AddRow ==
  ASSUME IInv, NEW r \in Row, UNCHANGED skew,
         r.ts = r.seen \/ r.ts = r.seen + skew[r.host],
         rows' = rows \union {r}
  PROVE  rows' \subseteq Row /\ Stamped'
BY DEF IInv, TypeOK, Stamped

LEMMA NextIInv == IInv /\ [Next]_vars => IInv'
<1> SUFFICES ASSUME IInv, [Next]_vars PROVE IInv'
  OBVIOUS
<1> USE ClockAssumption
<1> USE DEF IInv, TypeOK
<1>1. CASE StartCycle
  <2>0. now \in Int
    OBVIOUS
  <2>1. [NoGet EXCEPT !.at = "asked", !.since = now] \in Get
    <3> HIDE DEF IInv, TypeOK
    <3>1. NoGet \in Get
      BY DEF NoGet, Get
    <3> QED
      BY <2>0, <3>1 DEF Get
  <2>2. request' \in [Hosts -> Get]
    BY <1>1, <2>1 DEF StartCycle
  <2>3. UNCHANGED <<now, skew, rows>> /\ cycle' = [cycle EXCEPT !.at = "polling"]
    BY <1>1 DEF StartCycle
  <2> QED
    BY <2>2, <2>3 DEF Stamped
<1>2. CASE EndCycle
  <2>0. now + POLL_INTERVAL \in Int /\ cycle \in CycleType
    BY DEF CycleType
  <2>1. cycle' = [cycle EXCEPT !.at = "asleep", !.due = now + POLL_INTERVAL]
    BY <1>2 DEF EndCycle
  <2>2. cycle' \in CycleType /\ cycle'.at = "asleep"
    <3> HIDE DEF IInv, TypeOK
    <3> QED
      BY <2>0, <2>1 DEF CycleType
  <2>3. request' \in [Hosts -> Get] /\ \A h \in Hosts : request'[h].at = "none"
    BY <1>2 DEF EndCycle, NoGet, Get
  <2>4. UNCHANGED <<now, skew>> /\ rows' \subseteq rows
    BY <1>2 DEF EndCycle
  <2> QED
    BY <2>2, <2>3, <2>4 DEF CycleType, Stamped
<1>3. CASE Tick
  <2>1. now + 1 \in 0..MaxClock
    BY <1>3 DEF Tick
  <2> QED
    BY <1>3, <2>1 DEF Tick, Stamped
<1>4. ASSUME NEW h \in Hosts, AgentAnswers(h) PROVE IInv'
  <2>1. cycle.at = "polling"
    BY <1>4 DEF AgentAnswers
  <2>0. request[h] \in Get /\ now \in Int
    OBVIOUS
  <2>2. [request[h] EXCEPT !.at = "answered", !.seen = now] \in Get
    <3> HIDE DEF IInv, TypeOK
    <3> QED
      BY <2>0 DEF Get
  <2>3. request' = [request EXCEPT ![h] = [@ EXCEPT !.at = "answered", !.seen = now]]
    BY <1>4 DEF AgentAnswers
  <2>4. request' \in [Hosts -> Get]
    BY <2>2, <2>3
  <2> QED
    BY <1>4, <2>1, <2>4 DEF AgentAnswers, Stamped
<1>5. ASSUME NEW h \in Hosts, Store(h) PROVE IInv'
  <2>1. cycle.at = "polling" /\ request' \in [Hosts -> Get]
    BY <1>5 DEF Store, Get
  <2>0. request[h] \in Get /\ skew[h] \in Int
    OBVIOUS
  <2>2. SampleOf(h) \in Row
    <3> HIDE DEF IInv, TypeOK
    <3> QED
      BY <2>0 DEF SampleOf, Row, Get
  <2>3. SampleOf(h).ts = SampleOf(h).seen + skew[SampleOf(h).host]
    BY DEF SampleOf
  <2>4. rows' \subseteq Row /\ Stamped'
    BY <1>5, <2>2, <2>3, AddRow DEF Store
  <2> QED
    BY <1>5, <2>1, <2>4 DEF Store
<1>6. ASSUME NEW h \in Hosts, StoreOffline(h) PROVE IInv'
  <2>1. cycle.at = "polling" /\ request' \in [Hosts -> Get]
    BY <1>6 DEF StoreOffline, Get
  <2>2. OfflineRow(h) \in Row /\ OfflineRow(h).ts = OfflineRow(h).seen
    BY DEF OfflineRow, Row
  <2>3. rows' \subseteq Row /\ Stamped'
    BY <1>6, <2>2, AddRow DEF StoreOffline
  <2> QED
    BY <1>6, <2>1, <2>3 DEF StoreOffline
<1>7. ASSUME NEW h \in Hosts, ProbeFails(h) PROVE IInv'
  <2>1. OfflineRow(h) \in Row /\ OfflineRow(h).ts = OfflineRow(h).seen
    BY DEF OfflineRow, Row
  <2>2. rows' \subseteq Row /\ Stamped'
    BY <1>7, <2>1, AddRow DEF ProbeFails
  <2> QED
    BY <1>7, <2>2 DEF ProbeFails
<1>8. CASE CycleFails
  <2>0. now + POLL_INTERVAL \in Int /\ cycle \in CycleType
    BY DEF CycleType
  <2>1. cycle' = [cycle EXCEPT !.due = now + POLL_INTERVAL,
                               !.calm = now + POLL_INTERVAL]
    BY <1>8 DEF CycleFails
  <2>2. cycle' \in CycleType /\ cycle'.at = cycle.at
    <3> HIDE DEF IInv, TypeOK
    <3> QED
      BY <2>0, <2>1 DEF CycleType
  <2>3. UNCHANGED <<now, skew, rows, request>>
    BY <1>8 DEF CycleFails
  <2> QED
    BY <2>2, <2>3 DEF CycleType, Stamped
<1>9. CASE Crash
  BY <1>9 DEF Crash, NoGet, Get, Stamped
<1>10. CASE Restart
  BY <1>10 DEF Restart, Stamped
<1>11. CASE UNCHANGED vars
  BY <1>11 DEF vars, Stamped
<1> QED
  BY <1>1, <1>2, <1>3, <1>4, <1>5, <1>6, <1>7, <1>8, <1>9, <1>10, <1>11
  DEF Next

\* A row with the greatest stamp was seen at most one clock difference before
\* any other row of its host.
LEMMA IInvBoundsLag == IInv => LagIsBounded
<1> SUFFICES ASSUME IInv, NEW h \in Hosts, NEW r \in LatestRows(h), NEW q \in RowsOf(h)
             PROVE  q.seen - r.seen <= Abs(skew[h])
  BY DEF LagIsBounded
<1>1. r \in Row /\ q \in Row /\ r.host = h /\ q.host = h /\ q.ts <= r.ts
  BY DEF LatestRows, RowsOf, IInv, TypeOK
<1>2. skew[h] \in Int
  BY ClockAssumption DEF IInv, TypeOK
<1>3. r.ts = r.seen \/ r.ts = r.seen + skew[h]
  BY <1>1 DEF LatestRows, RowsOf, IInv, Stamped
<1>4. q.ts = q.seen \/ q.ts = q.seen + skew[h]
  BY <1>1 DEF RowsOf, IInv, Stamped
<1> QED
  BY <1>1, <1>2, <1>3, <1>4 DEF Row, Abs

\* The types of the tables and of the poller, for any number of hosts, rows and
\* requests (db.py:19-33, server.py:51-88).
THEOREM StoreIsTyped == Spec => []TypeOK
<1>1. IInv => TypeOK
  BY DEF IInv
<1> QED BY InitIInv, NextIInv, <1>1, PTL DEF Spec

\* For any hosts, clock differences and timing, Database.latest is behind the
\* newest observation of a host by no more than its clock is off (db.py:90-101).
THEOREM LatestLagsByTheSkew == Spec => []LagIsBounded
BY InitIInv, NextIInv, IInvBoundsLag, PTL DEF Spec

-----------------------------------------------------------------------------
(* The rhythm of the poller.  Every request of a cycle starts when the cycle *)
(* does, and a cycle starts when its sleep is over, so that the start of a   *)
(* cycle dates what the cycle before it stored and pruned.                   *)

\* The rows of one poll survive the prune that follows it: the retention is a
\* day, and a clock may be behind by nearly as much.
RetentionCoversPoll ==
  /\ POLL_TIMEOUT <= RETENTION
  /\ \A s \in Skews : POLL_TIMEOUT <= RETENTION + s

Observed(h, time) == \E r \in RowsOf(h) : time <= r.seen

\* What the cycle that ended at the given time left in the table.
LeftBy(time) ==
  /\ \A h \in Hosts : Observed(h, time - POLL_TIMEOUT)
  /\ \A r \in rows : time - RETENTION <= r.ts

Sleeping ==
  /\ now <= cycle.due /\ cycle.due <= now + POLL_INTERVAL
  /\ cycle.due = cycle.calm \/ LeftBy(cycle.due - POLL_INTERVAL)

Polling(start) ==
  /\ start <= now /\ now <= start + POLL_TIMEOUT
  /\ start = cycle.calm \/ LeftBy(start - POLL_INTERVAL)
  /\ \A h \in Hosts :
       /\ request[h].at # "none" /\ request[h].since = start
       /\ request[h].at = "answered" => start <= request[h].seen
       /\ request[h].at = "stored" => Observed(h, start)

Rhythm ==
  /\ cycle.at = "asleep" => Sleeping
  /\ cycle.at = "polling" => \E start \in Int : Polling(start)

\* The rhythm is what the two bounds need.
LEMMA RhythmBounds == TypeOK /\ Rhythm => PolledOften /\ RowsAreRecent
<1> SUFFICES ASSUME TypeOK, Rhythm, Steady PROVE PolledOften /\ RowsAreRecent
  BY DEF PolledOften, RowsAreRecent
<1> USE ClockAssumption
<1>1. now \in Int /\ cycle.due \in Int /\ cycle.calm \in Int /\ now > cycle.calm + POLL_TIMEOUT
  BY DEF TypeOK, Steady
<1>2. PICK time \in Int : LeftBy(time) /\ now <= time + POLL_INTERVAL + POLL_TIMEOUT
  <2>1. CASE cycle.at = "asleep"
    <3>1. now <= cycle.due /\ LeftBy(cycle.due - POLL_INTERVAL)
      BY <1>1, <2>1 DEF Rhythm, Sleeping
    <3>2. cycle.due - POLL_INTERVAL \in Int
      BY <1>1
    <3>3. now <= (cycle.due - POLL_INTERVAL) + POLL_INTERVAL + POLL_TIMEOUT
      BY <1>1, <3>1
    <3> QED BY <3>1, <3>2, <3>3
  <2>2. CASE cycle.at = "polling"
    <3>1. PICK start \in Int : Polling(start)
      BY <2>2 DEF Rhythm
    <3>2. now <= start + POLL_TIMEOUT /\ LeftBy(start - POLL_INTERVAL)
      BY <1>1, <3>1 DEF Polling
    <3>3. start - POLL_INTERVAL \in Int
      BY <3>1
    <3>4. now <= (start - POLL_INTERVAL) + POLL_INTERVAL + POLL_TIMEOUT
      BY <1>1, <3>1, <3>2
    <3> QED BY <3>2, <3>3, <3>4
  <2> QED BY <2>1, <2>2 DEF TypeOK, Steady
<1>3. ASSUME NEW h \in Hosts
      PROVE  \E r \in RowsOf(h) : now - r.seen <= POLL_INTERVAL + 2 * POLL_TIMEOUT
  <2>1. PICK r \in RowsOf(h) : time - POLL_TIMEOUT <= r.seen
    BY <1>2 DEF LeftBy, Observed
  <2>2. r.seen \in Int
    BY DEF RowsOf, TypeOK, Row
  <2>3. now - r.seen <= POLL_INTERVAL + 2 * POLL_TIMEOUT
    BY <1>1, <1>2, <2>1, <2>2
  <2> QED BY <2>3
<1>4. ASSUME NEW r \in rows
      PROVE  now - r.ts <= RETENTION + POLL_INTERVAL + POLL_TIMEOUT
  <2>1. r.ts \in Int /\ time - RETENTION <= r.ts
    BY <1>2 DEF LeftBy, TypeOK, Row
  <2> QED BY <1>1, <1>2, <2>1
<1> QED BY <1>3, <1>4 DEF PolledOften, RowsAreRecent

\* A recent row that is added spoils nothing, and ends the request it answers.
LEMMA AddKeepsRhythm ==
  ASSUME TypeOK, Rhythm, NEW new \in Row, now - RETENTION <= new.ts,
         rows' = rows \union {new}, UNCHANGED <<now, cycle>>,
         \A h \in Hosts :
           \/ request'[h] = request[h]
           \/ /\ request[h].at # "none" /\ request'[h].at = "stored"
              /\ request'[h].since = request[h].since
              /\ new.host = h /\ request[h].since <= new.seen
  PROVE  Rhythm'
<1> USE ClockAssumption
<1>1. now \in Int /\ cycle.due \in Int /\ new.ts \in Int
  BY DEF TypeOK, Row
<1>2. ASSUME NEW h \in Hosts, NEW time, Observed(h, time) PROVE Observed(h, time)'
  BY <1>2 DEF Observed, RowsOf
<1>3. ASSUME NEW time \in Int, time <= now, LeftBy(time)
      PROVE  (\A h \in Hosts : Observed(h, time - POLL_TIMEOUT)') /\ (\A r \in rows' : time - RETENTION <= r.ts)
  <2>1. time - RETENTION <= new.ts
    BY <1>1, <1>3
  <2> QED BY <1>2, <1>3, <2>1 DEF LeftBy
<1>4. ASSUME NEW time \in Int, time <= now, LeftBy(time) PROVE LeftBy(time)'
  BY <1>3, <1>4 DEF LeftBy, Observed
<1>5. ASSUME cycle'.at = "asleep" PROVE Sleeping'
  <2>1. Sleeping
    BY <1>5 DEF Rhythm
  <2>2. cycle.due - POLL_INTERVAL \in Int /\ cycle.due - POLL_INTERVAL <= now
    BY <1>1, <2>1 DEF Sleeping
  <2>3. LeftBy(cycle.due - POLL_INTERVAL) => LeftBy(cycle.due - POLL_INTERVAL)'
    BY <1>4, <2>2
  <2> QED BY <2>1, <2>3 DEF Sleeping, LeftBy, Observed
<1>6. ASSUME cycle'.at = "polling" PROVE \E start \in Int : Polling(start)'
  <2>1. PICK start \in Int : Polling(start)
    BY <1>6 DEF Rhythm
  <2>2. start - POLL_INTERVAL \in Int /\ start - POLL_INTERVAL <= now
    BY <1>1, <2>1 DEF Polling
  <2>3. start = cycle'.calm \/ LeftBy(start - POLL_INTERVAL)'
    BY <1>4, <2>1, <2>2 DEF Polling
  <2>4. ASSUME NEW h \in Hosts
        PROVE  /\ request'[h].at # "none" /\ request'[h].since = start
               /\ request'[h].at = "answered" => start <= request'[h].seen
               /\ request'[h].at = "stored" => Observed(h, start)'
    <3>1. CASE request'[h] = request[h]
      BY <1>2, <2>1, <3>1 DEF Polling
    <3>2. CASE request'[h] # request[h]
      BY <2>1, <3>2 DEF Polling, Observed, RowsOf
    <3> QED BY <3>1, <3>2
  <2> QED BY <2>1, <2>3, <2>4 DEF Polling, LeftBy, Observed
<1> QED BY <1>5, <1>6 DEF Rhythm
\* A cycle starts when its sleep is over, and every request with it.
LEMMA StartKeepsRhythm == TypeOK /\ Rhythm /\ StartCycle => Rhythm'
<1> SUFFICES ASSUME TypeOK, Rhythm, StartCycle PROVE Rhythm'
  OBVIOUS
<1> USE ClockAssumption
<1>1. now \in Int /\ cycle.due \in Int /\ cycle.due = now /\ Sleeping
  BY DEF TypeOK, StartCycle, Wakes, Rhythm, Sleeping
<1>2. /\ cycle'.at = "polling" /\ cycle'.calm = cycle.calm
      /\ UNCHANGED <<now, rows>>
  BY DEF StartCycle, TypeOK
<1>3. \A h \in Hosts : request'[h].at = "asked" /\ request'[h].since = now
  BY DEF StartCycle, NoGet
<1>4. now = cycle.calm \/ LeftBy(now - POLL_INTERVAL)
  BY <1>1 DEF Sleeping
<1>5. now = cycle'.calm \/ LeftBy(now - POLL_INTERVAL)'
  BY <1>2, <1>4 DEF LeftBy, Observed, RowsOf
<1>6. Polling(now)'
  BY <1>1, <1>2, <1>3, <1>5 DEF Polling, LeftBy, Observed
<1> QED BY <1>1, <1>2, <1>6 DEF Rhythm

\* The prune leaves the rows of the cycle that ends, and no old one.
LEMMA EndKeepsRhythm ==
  IInv /\ Rhythm /\ RetentionCoversPoll /\ EndCycle => Rhythm'
<1> SUFFICES ASSUME IInv, Rhythm, RetentionCoversPoll, EndCycle PROVE Rhythm'
  OBVIOUS
<1> USE ClockAssumption
<1>1. now \in Int /\ TypeOK /\ Stamped
  BY DEF IInv, TypeOK
<1>2. PICK start \in Int : Polling(start)
  BY DEF EndCycle, CycleOver, Rhythm
<1>3. start <= now /\ now - POLL_TIMEOUT <= start
  BY <1>1, <1>2 DEF Polling
<1>4. /\ cycle'.at = "asleep" /\ cycle'.due = now + POLL_INTERVAL
      /\ now' = now /\ rows' = {r \in rows : r.ts >= now - RETENTION}
  BY <1>1 DEF EndCycle, TypeOK
<1>5. ASSUME NEW h \in Hosts PROVE \E r \in rows' : r.host = h /\ now - POLL_TIMEOUT <= r.seen
  <2>1. PICK r \in rows : r.host = h /\ start <= r.seen
    BY <1>2 DEF EndCycle, CycleOver, Polling, Observed, RowsOf
  <2>2. r \in Row /\ skew[h] \in Skews /\ skew[h] \in Int
    BY <1>1 DEF TypeOK
  <2>3. r.ts = r.seen \/ r.ts = r.seen + skew[h]
    BY <1>1, <2>1 DEF Stamped
  <2>4. r.seen \in Int /\ r.ts \in Int /\ now - POLL_TIMEOUT <= r.seen
    BY <1>1, <1>3, <2>1, <2>2 DEF Row
  <2>5. POLL_TIMEOUT <= RETENTION /\ POLL_TIMEOUT <= RETENTION + skew[h]
    BY <2>2 DEF RetentionCoversPoll
  <2>6. r.ts >= now - RETENTION
    BY <1>1, <2>2, <2>3, <2>4, <2>5
  <2> QED BY <1>4, <2>1, <2>4, <2>6
<1>6. \A r \in rows' : now - RETENTION <= r.ts
  BY <1>1, <1>4 DEF TypeOK, Row
<1>7. (now + POLL_INTERVAL) - POLL_INTERVAL = now
  BY <1>1
<1>8. LeftBy(now)' /\ cycle'.due - POLL_INTERVAL = now'
  BY <1>4, <1>5, <1>6, <1>7 DEF LeftBy, Observed, RowsOf
<1>9. LeftBy(cycle.due - POLL_INTERVAL)'
  BY <1>8 DEF LeftBy, Observed
<1> QED BY <1>1, <1>4, <1>9 DEF Rhythm, Sleeping

\* Time passes only in a sleep, or while a request of the cycle is open.
LEMMA TickKeepsRhythm == TypeOK /\ Rhythm /\ Tick => Rhythm'
<1> SUFFICES ASSUME TypeOK, Rhythm, Tick PROVE Rhythm'
  OBVIOUS
<1> USE ClockAssumption
<1>1. now \in Int /\ cycle.due \in Int /\ now' = now + 1
  BY DEF TypeOK, Tick
<1>2. UNCHANGED <<skew, rows, request, cycle>>
  BY DEF Tick
<1>3. ASSUME NEW time PROVE LeftBy(time)' <=> LeftBy(time)
  BY <1>2 DEF LeftBy, Observed, RowsOf
<1>4. CASE cycle.at = "asleep"
  <2>1. Sleeping /\ now < cycle.due
    BY <1>1, <1>4 DEF Rhythm, Tick, Wakes
  <2>2. now' <= cycle.due /\ cycle.due <= now' + POLL_INTERVAL
    BY <1>1, <2>1 DEF Sleeping
  <2>3. Sleeping'
    BY <1>2, <2>1, <2>2 DEF Sleeping, LeftBy, Observed, RowsOf
  <2> QED BY <1>2, <1>4, <2>3 DEF Rhythm
<1>5. CASE cycle.at = "polling"
  <2>1. PICK start \in Int : Polling(start)
    BY <1>5 DEF Rhythm
  <2>2. PICK h \in Hosts : request[h].at # "stored"
    BY <1>5 DEF Tick, CycleOver
  <2>3. request[h].at \in {"asked", "answered"} /\ request[h].since = start
    BY <2>1, <2>2 DEF Polling, TypeOK, Get
  <2>4. start <= now' /\ now' <= start + POLL_TIMEOUT
    BY <1>1, <2>1, <2>3 DEF Tick, Polling
  <2>5. Polling(start)'
    BY <1>2, <2>1, <2>4 DEF Polling, LeftBy, Observed, RowsOf
  <2> QED BY <1>2, <1>5, <2>5 DEF Rhythm
<1>6. CASE cycle.at = "down"
  BY <1>2, <1>6 DEF Rhythm
<1> QED BY <1>4, <1>5, <1>6 DEF TypeOK
\* What a poll stores is seen in its own cycle.
LEMMA PollKeepsRhythm ==
  ASSUME IInv, Rhythm, RetentionCoversPoll, NEW h \in Hosts,
         AgentAnswers(h) \/ Store(h) \/ StoreOffline(h)
  PROVE  Rhythm'
<1> USE ClockAssumption
<1>1. TypeOK /\ now \in Int /\ request[h] \in Get
  BY DEF IInv, TypeOK
<1>2. cycle.at = "polling"
  BY <1>1 DEF AgentAnswers, Store, StoreOffline, TypeOK
<1>3. PICK start \in Int : Polling(start)
  BY <1>2 DEF Rhythm
<1>4. request[h].since = start /\ start <= now /\ now <= start + POLL_TIMEOUT
  BY <1>3 DEF Polling
<1>5. CASE AgentAnswers(h)
  <2>1. UNCHANGED <<now, rows, cycle>>
    BY <1>5 DEF AgentAnswers
  <2>2. /\ request'[h].at = "answered" /\ request'[h].since = start /\ request'[h].seen = now
        /\ \A x \in Hosts : x # h => request'[x] = request[x]
    BY <1>1, <1>4, <1>5 DEF AgentAnswers, TypeOK, Get
  <2>3. Polling(start)'
    BY <1>3, <1>4, <2>1, <2>2 DEF Polling, LeftBy, Observed, RowsOf
  <2> QED BY <1>2, <2>1, <2>3 DEF Rhythm
<1>6. CASE Store(h) \/ StoreOffline(h)
  <2>1. /\ request'[h].at = "stored" /\ request'[h].since = request[h].since
        /\ \A x \in Hosts : x # h => request'[x] = request[x]
        /\ UNCHANGED <<now, cycle>>
    BY <1>1, <1>6 DEF Store, StoreOffline, TypeOK, Get
  <2>2. CASE Store(h)
    <3>1. request[h].at = "answered" /\ request[h].seen \in Int /\ start <= request[h].seen
      BY <1>1, <1>3, <2>2 DEF Store, Polling, Get
    <3>2. skew[h] \in Skews /\ skew[h] \in Int
      BY <1>1 DEF TypeOK
    <3>3. POLL_TIMEOUT <= RETENTION + skew[h]
      BY <3>2 DEF RetentionCoversPoll
    <3> DEFINE new == SampleOf(h)
    <3>4. /\ new \in Row /\ new.host = h
          /\ new.ts = request[h].seen + skew[h] /\ new.seen = request[h].seen
      BY <3>1, <3>2 DEF SampleOf, Row
    <3>5. rows' = rows \union {new}
      BY <2>2 DEF Store
    <3> HIDE DEF new
    <3>6. now - RETENTION <= new.ts /\ request[h].since <= new.seen
      BY <1>1, <1>4, <3>1, <3>2, <3>3, <3>4
    <3> QED BY <1>1, <2>1, <3>1, <3>4, <3>5, <3>6, AddKeepsRhythm
  <2>3. CASE StoreOffline(h)
    <3> DEFINE new == OfflineRow(h)
    <3>1. new \in Row /\ new.host = h /\ new.ts = now /\ new.seen = now
      BY <1>1 DEF OfflineRow, Row
    <3>2. rows' = rows \union {new} /\ request[h].at # "none"
      BY <2>3 DEF StoreOffline
    <3> HIDE DEF new
    <3>3. now - RETENTION <= new.ts /\ request[h].since <= new.seen
      BY <1>1, <1>4, <3>1
    <3> QED BY <1>1, <2>1, <3>1, <3>2, <3>3, AddKeepsRhythm
  <2> QED BY <1>6, <2>2, <2>3
<1> QED BY <1>5, <1>6

LEMMA StepKeepsRhythm ==
  IInv /\ Rhythm /\ RetentionCoversPoll /\ [Next]_vars => Rhythm'
<1> SUFFICES ASSUME IInv, Rhythm, RetentionCoversPoll, [Next]_vars PROVE Rhythm'
  OBVIOUS
<1> USE ClockAssumption
<1>1. TypeOK /\ now \in Int
  BY DEF IInv, TypeOK
<1>2. CASE StartCycle \/ EndCycle \/ Tick
  BY <1>1, <1>2, StartKeepsRhythm, EndKeepsRhythm, TickKeepsRhythm
<1>3. CASE \E h \in Hosts : AgentAnswers(h) \/ Store(h) \/ StoreOffline(h)
  BY <1>3, PollKeepsRhythm
<1>4. CASE \E h \in Hosts : ProbeFails(h)
  <2>1. PICK h \in Hosts : ProbeFails(h)
    BY <1>4
  <2> DEFINE new == OfflineRow(h)
  <2>2. new \in Row /\ new.ts = now
    BY <1>1 DEF OfflineRow, Row
  <2>3. rows' = rows \union {new} /\ UNCHANGED <<now, cycle, request>>
    BY <2>1 DEF ProbeFails
  <2> HIDE DEF new
  <2>4. now - RETENTION <= new.ts
    BY <1>1, <2>2
  <2> QED BY <1>1, <2>2, <2>3, <2>4, AddKeepsRhythm
<1>5. CASE CycleFails \/ Restart
  <2>1. /\ cycle'.at = "asleep" /\ cycle'.due = cycle'.calm /\ now' = now
        /\ now <= cycle'.due /\ cycle'.due <= now + POLL_INTERVAL
    <3> DEFINE time == now + POLL_INTERVAL
    <3>1. time \in Int /\ now <= time /\ cycle \in CycleType
      BY <1>1 DEF TypeOK, CycleType
    <3>2. CASE CycleFails
      <4>1. cycle.at = "asleep" /\ cycle' = [cycle EXCEPT !.due = time, !.calm = time] /\ now' = now
        BY <3>2 DEF CycleFails, Wakes
      <4> HIDE DEF time
      <4>2. cycle'.at = "asleep" /\ cycle'.due = time /\ cycle'.calm = time
        BY <3>1, <4>1 DEF CycleType
      <4> QED BY <1>1, <3>1, <4>1, <4>2 DEF time
    <3>3. CASE Restart
      BY <1>1, <3>3 DEF Restart
    <3> QED BY <1>5, <3>2, <3>3
  <2> QED BY <2>1 DEF Rhythm, Sleeping
<1>6. CASE Crash
  <2>1. cycle'.at = "down"
    BY <1>1, <1>6 DEF Crash, TypeOK
  <2> QED BY <2>1 DEF Rhythm
<1>7. CASE UNCHANGED vars
  BY <1>7 DEF vars, Rhythm, Sleeping, Polling, LeftBy, Observed, RowsOf
<1> QED BY <1>2, <1>3, <1>4, <1>5, <1>6, <1>7 DEF Next

LEMMA RhythmIsKept ==
  ASSUME RetentionCoversPoll PROVE Spec => [](PolledOften /\ RowsAreRecent)
<1>1. Init => Rhythm
  BY ClockAssumption DEF Init, Rhythm, Sleeping
<1>2. IInv /\ Rhythm /\ [Next]_vars => Rhythm'
  BY StepKeepsRhythm
<1>3. IInv /\ Rhythm => PolledOften /\ RowsAreRecent
  BY RhythmBounds DEF IInv
<1> QED BY InitIInv, NextIInv, <1>1, <1>2, <1>3, PTL DEF Spec

\* However polls, probes, prunes, crashes and failed cycles interleave, a poller that
\* has been up for one poll has observed every host recently; for any hosts, interval
\* and timeout, as long as no clock is behind by the retention, less one poll
\* (server.py:65-88).
THEOREM HostsArePolled ==
  ASSUME RetentionCoversPoll PROVE Spec => []PolledOften
BY RhythmIsKept, PTL

\* Under the same assumption it keeps no row longer than the retention and one cycle,
\* whoever stored it (db.py:80-84, server.py:78).
THEOREM RowsArePruned ==
  ASSUME RetentionCoversPoll PROVE Spec => []RowsAreRecent
BY RhythmIsKept, PTL
=============================================================================
