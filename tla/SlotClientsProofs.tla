-------------------------- MODULE SlotClientsProofs --------------------------
(***************************************************************************)
(* Theorems about the clients of the slot API, whoever else changes the     *)
(* table: runs of the workflow script, and an open page of the dashboard,   *)
(* for every number of runs, slots, places and calls.                       *)
(***************************************************************************)
EXTENDS SlotWorkflow, Dashboard, TLAPS

-----------------------------------------------------------------------------
(* The script.  Tidy says what a run knows and has left at every point of    *)
(* it, Owners that no two runs share a slot.                                 *)

Early == {"caps", "post"}

\* The run is at work and knows its slot.
Owning == {"build", "run", "validate", "rm", "delete"}

Ending == {"trap", "trap-slot", "done"}

\* What a run knows of its slot at every point, and what it has left there.
Tidy(s) ==
  LET q == script[s]
  IN  /\ q.SLOT_ID # NoSlot => q.SLOT_ID = q.own
      /\ q.late => q.lost /\ q.own # NoSlot
      /\ q.at \in Early \union {"answered"} \union Owning => q.exit = 0 /\ ~q.lost
      /\ q.at \in Early => q.own = NoSlot
      /\ q.at = "answered" => q.own # NoSlot /\ q.SLOT_ID = NoSlot
      /\ q.at \in Owning => q.SLOT_ID # NoSlot
      /\ q.at \in {"run", "validate", "rm"} => q.named
      /\ q.at = "delete" => ~q.named
      /\ q.at \in {"answered", "build", "run", "delete"} => container[q.own] = "none"
      /\ q.at \in Ending /\ q.exit = 0 => ~q.lost /\ q.SLOT_ID = NoSlot
      /\ q.at \in Ending /\ q.own # NoSlot /\ ~q.lost =>
           /\ ~(q.at = "trap" /\ q.named) => container[q.own] = "none"
           /\ q.at = "done" \/ q.SLOT_ID = NoSlot => ~InTable(q.own)

\* Nobody shares a slot, and every slot of a run was granted.
Owners ==
  /\ \A s \in Scripts : script[s].own # NoSlot => rows[script[s].own] # Unused
  /\ \A s, t \in Scripts :
       script[s].own # NoSlot /\ script[s].own = script[t].own => s = t

IInv == TypeOK /\ Owners /\ \A s \in Scripts : Tidy(s)

-----------------------------------------------------------------------------
(* Types. *)

LEMMA GoneType ==
  ASSUME TypeOK, NEW id \in Slots, InTable(id)
  PROVE  /\ Gone(id) \in [Slots -> State \union {Unused}]
         /\ \A x \in Slots : (Gone(id)[x] = Unused) <=> (rows[x] = Unused)
<1>1. rows[id] \in State /\ rows[id] # Unused
  BY DEF TypeOK, InTable
<1>2. [rows[id] EXCEPT !.state = "gone"] \in State
  BY <1>1 DEF State
<1>3. Gone(id) = [rows EXCEPT ![id] = [rows[id] EXCEPT !.state = "gone"]]
  BY <1>1 DEF Gone, TypeOK, State
<1> QED BY <1>1, <1>2, <1>3, WorkflowAssumption DEF TypeOK

\* A step that sets the variables of one run to q, and touches no row and no
\* container but those of its own slot.
LEMMA Conclude ==
  ASSUME IInv, NEW s \in Scripts, NEW q \in Variables,
         script' = [script EXCEPT ![s] = q],
         q.named => q.SLOT_ID # NoSlot,
         rows' \in [Slots -> State \union {Unused}],
         container' \in [Slots -> {"none", "created", "running"}],
         \A id \in Slots : rows'[id] = Unused => rows[id] = Unused,
         \A id \in Slots : id # q.own =>
           /\ container'[id] = container[id]
           /\ rows[id] # Unused /\ InTable(id)' => InTable(id),
         \/ q.own = script[s].own
         \/ script[s].own = NoSlot /\ rows[q.own] = Unused /\ rows'[q.own] # Unused,
         Tidy(s)'
  PROVE  IInv'
<1>1. /\ script \in [Scripts -> Variables]
      /\ \A t \in Scripts : script[t].named => script[t].SLOT_ID # NoSlot
      /\ \A id \in Slots : rows[id] = Unused => container[id] = "none"
  BY DEF IInv, TypeOK
<1>2. script'[s] = q /\ \A t \in Scripts : t # s => script'[t] = script[t]
  BY <1>1
<1>3. q.own \in Slots \union {NoSlot}
      /\ \A t \in Scripts : script[t].own \in Slots \union {NoSlot}
  BY <1>1 DEF Variables
<1>4. Owners
  BY DEF IInv
<1>5. q.own # NoSlot => rows'[q.own] # Unused
  BY <1>3, <1>4 DEF Owners
<1>6. TypeOK'
  <2>1. script' \in [Scripts -> Variables]
    BY <1>1
  <2>2. \A id \in Slots : rows'[id] = Unused => container'[id] = "none"
    BY <1>1, <1>3, <1>5, WorkflowAssumption
  <2> QED BY <1>1, <1>2, <2>1, <2>2 DEF TypeOK
<1>7. Owners'
  <2>1. ASSUME NEW t \in Scripts, script'[t].own # NoSlot
        PROVE  rows'[script'[t].own] # Unused
    BY <1>2, <1>3, <1>4, <1>5, <2>1 DEF Owners
  <2>2. ASSUME NEW t \in Scripts, t # s, script[t].own # NoSlot PROVE script[t].own # q.own
    BY <1>4, <2>2 DEF Owners
  <2>3. ASSUME NEW t \in Scripts, NEW u \in Scripts,
               script'[t].own # NoSlot, script'[t].own = script'[u].own
        PROVE  t = u
    BY <1>2, <1>4, <2>2, <2>3 DEF Owners
  <2> QED BY <2>1, <2>3 DEF Owners
<1>8. ASSUME NEW t \in Scripts, t # s PROVE Tidy(t)'
  <2>1. script'[t] = script[t] /\ Tidy(t)
    BY <1>2, <1>8 DEF IInv
  <2>2. CASE script[t].own = NoSlot
    BY <2>1, <2>2 DEF Tidy, Early, Owning, Ending
  <2>3. CASE script[t].own # NoSlot
    <3>1. script[t].own \in Slots /\ rows[script[t].own] # Unused
          /\ script[t].own # q.own
      BY <1>3, <1>4, <1>8, <2>3 DEF Owners
    <3>2. container'[script[t].own] = container[script[t].own]
          /\ (InTable(script[t].own)' => InTable(script[t].own))
      BY <2>1, <3>1
    <3> QED BY <2>1, <3>2 DEF Tidy
  <2> QED BY <2>2, <2>3
<1> QED BY <1>6, <1>7, <1>8 DEF IInv

\* What every step starts from.
LEMMA Known ==
  ASSUME IInv, NEW s \in Scripts
  PROVE  /\ script \in [Scripts -> Variables] /\ script[s] \in Variables
         /\ rows \in [Slots -> State \union {Unused}]
         /\ container \in [Slots -> {"none", "created", "running"}]
         /\ script[s].own \in Slots \union {NoSlot}
         /\ script[s].own # NoSlot => script[s].own \in Slots /\ rows[script[s].own] # Unused
         /\ script[s].named => script[s].SLOT_ID # NoSlot
         /\ Tidy(s)
BY DEF IInv, TypeOK, Owners, Variables

\* A step that only sets variables of the run.
LEMMA Moves ==
  ASSUME IInv, NEW s \in Scripts, NEW q \in Variables,
         script' = [script EXCEPT ![s] = q],
         q.named => q.SLOT_ID # NoSlot,
         q.own = script[s].own,
         UNCHANGED <<rows, container>>,
         Tidy(s)'
  PROVE  IInv'
<1>1. \A id \in Slots : InTable(id)' => InTable(id)
  BY DEF InTable
<1>2. /\ rows' \in [Slots -> State \union {Unused}]
      /\ container' \in [Slots -> {"none", "created", "running"}]
  BY Known
<1> QED BY <1>1, <1>2, Conclude

-----------------------------------------------------------------------------
(* Steps of the script that touch neither the table nor a container. *)

LEMMA StepAtKeeps ==
  ASSUME IInv, NEW s \in Scripts, NEW at, Step(s, at), UNCHANGED <<rows, container>>,
         at \in {"post", "rm", "validate", "run"} \union {"trap-slot", "done", "killed"},
         \/ At(s, "caps") /\ at = "post"
         \/ At(s, "validate") /\ at = "rm"
         \/ at = "killed"
  PROVE  IInv'
<1> DEFINE q == [script[s] EXCEPT !.at = at]
<1>1. q \in Variables /\ script' = [script EXCEPT ![s] = q] /\ script'[s] = q
  BY Known DEF Step, Variables
<1>2. q.own = script[s].own /\ q.named = script[s].named /\ q.SLOT_ID = script[s].SLOT_ID
  BY Known DEF Variables
<1>3. Tidy(s)'
  BY <1>1, Known DEF Tidy, Early, Owning, Ending, Variables, At
<1> HIDE DEF q
<1> QED BY <1>1, <1>2, <1>3, Known, Moves

LEMMA FailKeeps ==
  ASSUME IInv, NEW s \in Scripts, Fail(s), UNCHANGED <<rows, container>>,
         script[s].at \in {"caps", "post", "build", "validate"}
  PROVE  IInv'
<1> DEFINE q == [script[s] EXCEPT !.at = "trap", !.exit = 1]
<1>1. q \in Variables /\ script' = [script EXCEPT ![s] = q] /\ script'[s] = q
  BY Known DEF Fail, Variables
<1>2. q.own = script[s].own /\ q.named = script[s].named /\ q.SLOT_ID = script[s].SLOT_ID
  BY Known DEF Variables
<1>3. Tidy(s)'
  BY <1>1, Known DEF Tidy, Early, Owning, Ending, Variables, At
<1> HIDE DEF q
<1> QED BY <1>1, <1>2, <1>3, Known, Moves

LEMMA RunAbandonedKeeps ==
  ASSUME IInv, NEW s \in Scripts, RunAbandoned(s)
  PROVE  IInv'
<1> DEFINE q == [script[s] EXCEPT !.at = "trap", !.exit = 1,
                                  !.late = TRUE, !.lost = TRUE]
<1>1. q \in Variables /\ script' = [script EXCEPT ![s] = q] /\ script'[s] = q
  BY Known DEF RunAbandoned, Variables
<1>2. q.own = script[s].own /\ (q.named => q.SLOT_ID # NoSlot)
      /\ UNCHANGED <<rows, container>>
  BY Known DEF RunAbandoned, Variables, Tidy, Owning, At
<1>3. Tidy(s)'
  BY <1>1, <1>2, Known DEF RunAbandoned, Tidy, Early, Owning, Ending, Variables, At, InTable
<1> HIDE DEF q
<1> QED BY <1>1, <1>2, <1>3, Known, Moves

LEMMA TrapContainerFailsKeeps ==
  ASSUME IInv, NEW s \in Scripts, TrapContainerFails(s)
  PROVE  IInv'
<1> DEFINE q == [script[s] EXCEPT !.at = "trap-slot", !.lost = TRUE]
<1>1. q \in Variables /\ script' = [script EXCEPT ![s] = q] /\ script'[s] = q
  BY Known DEF TrapContainerFails, Variables
<1>2. q.own = script[s].own /\ (q.named => q.SLOT_ID # NoSlot)
      /\ UNCHANGED <<rows, container>>
  BY Known DEF TrapContainerFails, Variables, Tidy, Owning, At
<1>3. Tidy(s)'
  BY <1>1, <1>2, Known DEF TrapContainerFails, Tidy, Early, Owning, Ending, Variables, At, InTable
<1> HIDE DEF q
<1> QED BY <1>1, <1>2, <1>3, Known, Moves

LEMMA TrapSlotFailsKeeps ==
  ASSUME IInv, NEW s \in Scripts, TrapSlotFails(s)
  PROVE  IInv'
<1> DEFINE q == [script[s] EXCEPT !.at = "done", !.lost = TRUE]
<1>1. q \in Variables /\ script' = [script EXCEPT ![s] = q] /\ script'[s] = q
  BY Known DEF TrapSlotFails, Variables
<1>2. q.own = script[s].own /\ (q.named => q.SLOT_ID # NoSlot)
      /\ UNCHANGED <<rows, container>>
  BY Known DEF TrapSlotFails, Variables, Tidy, Owning, At
<1>3. Tidy(s)'
  BY <1>1, <1>2, Known DEF TrapSlotFails, Tidy, Early, Owning, Ending, Variables, At, InTable
<1> HIDE DEF q
<1> QED BY <1>1, <1>2, <1>3, Known, Moves

LEMMA ParseKeeps ==
  ASSUME IInv, NEW s \in Scripts, Parse(s)
  PROVE  IInv'
<1> DEFINE q(at, exit) == [script[s] EXCEPT !.SLOT_ID = script[s].own, !.at = at, !.exit = exit]
<1>1. ASSUME NEW at \in {"trap", "build"}, NEW exit \in {0, 1},
             at = "trap" <=> exit = 1,
             script' = [script EXCEPT ![s].SLOT_ID = script[s].own, ![s].at = at, ![s].exit = exit]
      PROVE  IInv'
  <2>1. q(at, exit) \in Variables /\ script' = [script EXCEPT ![s] = q(at, exit)]
    BY <1>1, Known DEF Variables
  <2>2. script'[s] = q(at, exit) /\ UNCHANGED <<rows, container>>
    BY <2>1, Known DEF Parse
  <2>3. q(at, exit).own = script[s].own /\ (q(at, exit).named => q(at, exit).SLOT_ID # NoSlot)
    BY Known DEF Parse, Variables, Tidy, At
  <2>4. Tidy(s)'
    BY <1>1, <2>2, Known DEF Parse, Tidy, Early, Owning, Ending, Variables, At
  <2> HIDE DEF q
  <2> QED BY <2>1, <2>2, <2>3, <2>4, Known, Moves
<1>2. CASE rows[script[s].own].place \in NoUser
  <2>1. script' = [script EXCEPT ![s].SLOT_ID = script[s].own, ![s].at = "trap", ![s].exit = 1]
    BY <1>2 DEF Parse
  <2> QED BY <2>1, <1>1
<1>3. CASE ~(rows[script[s].own].place \in NoUser)
  <2>1. script' = [script EXCEPT ![s].SLOT_ID = script[s].own, ![s].at = "build", ![s].exit = 0]
    BY <1>3 DEF Parse
  <2> QED BY <2>1, <1>1
<1> QED BY <1>2, <1>3

LEMMA AnswerLostKeeps ==
  ASSUME IInv, NEW s \in Scripts, NEW l \in BOOLEAN,
         l <=> (At(s, "answered") /\ InTable(script[s].own)), Running(s),
         script' = [script EXCEPT ![s].at = "trap", ![s].exit = 1, ![s].lost = l],
         UNCHANGED <<rows, container>>
  PROVE  IInv'
<1> DEFINE q == [script[s] EXCEPT !.at = "trap", !.exit = 1, !.lost = l]
<1>1. q \in Variables /\ script' = [script EXCEPT ![s] = q] /\ script'[s] = q
  BY Known DEF Variables
<1>2. q.own = script[s].own /\ q.named = script[s].named /\ q.SLOT_ID = script[s].SLOT_ID
  BY Known DEF Variables
<1>3. script[s].at \in Early \union {"answered"} \union Owning
  BY Known DEF Variables, Running, Early, Owning
<1>4. (InTable(script[s].own) <=> InTable(script[s].own)') /\ container' = container
  BY <1>1, <1>2 DEF InTable
<1>5. ~l => (script[s].at = "answered" => ~InTable(script[s].own))
  BY DEF At
<1>6. Tidy(s)'
  BY <1>1, <1>2, <1>3, <1>4, <1>5, Known DEF Tidy, Early, Owning, Ending, Variables
<1> HIDE DEF q
<1> QED BY <1>1, <1>2, <1>6, Known, Moves

LEMMA InterruptKeeps ==
  ASSUME IInv, NEW s \in Scripts, Interrupt(s)
  PROVE  IInv'
BY AnswerLostKeeps DEF Interrupt

LEMMA LostKeeps ==
  ASSUME IInv, NEW s \in Scripts, AnswerLost(s)
  PROVE  IInv'
<1> DEFINE l == InTable(script[s].own)
<1>1. /\ Running(s) /\ UNCHANGED <<rows, container>> /\ l \in BOOLEAN
      /\ l <=> (At(s, "answered") /\ InTable(script[s].own))
  BY DEF AnswerLost, Running, At, InTable
<1>2. script' = [script EXCEPT ![s].at = "trap", ![s].exit = 1, ![s].lost = l]
  BY DEF AnswerLost
<1> HIDE DEF l
<1> QED BY <1>1, <1>2, AnswerLostKeeps

LEMMA BuildKeeps ==
  ASSUME IInv, NEW s \in Scripts, Build(s)
  PROVE  IInv'
<1>1. CASE Fail(s)
  BY <1>1, FailKeeps DEF Build, At
<1>2. CASE script' = [script EXCEPT ![s].at = "run", ![s].named = TRUE]
  <2> DEFINE q == [script[s] EXCEPT !.at = "run", !.named = TRUE]
  <2>1. q \in Variables /\ script' = [script EXCEPT ![s] = q] /\ script'[s] = q
    BY <1>2, Known DEF Variables
  <2>2. q.own = script[s].own /\ q.SLOT_ID # NoSlot /\ UNCHANGED <<rows, container>>
    BY Known DEF Variables, Tidy, Build, At, Owning
  <2>3. Tidy(s)'
    BY <2>1, <2>2, Known DEF Tidy, Build, Early, Owning, Ending, Variables, At
  <2> HIDE DEF q
  <2> QED BY <2>1, <2>2, <2>3, Known, Moves
<1> QED BY <1>1, <1>2 DEF Build

-----------------------------------------------------------------------------
(* Steps that touch the container of the run's slot. *)

LEMMA Touches ==
  ASSUME IInv, NEW s \in Scripts, NEW q \in Variables,
         NEW c \in {"none", "created", "running"}, script[s].own # NoSlot,
         script' = [script EXCEPT ![s] = q],
         q.named => q.SLOT_ID # NoSlot,
         q.own = script[s].own,
         rows' = rows, container' = [container EXCEPT ![script[s].own] = c],
         Tidy(s)'
  PROVE  IInv'
<1>1. \A id \in Slots : InTable(id)' => InTable(id)
  BY DEF InTable
<1>2. \A id \in Slots : id # q.own => container'[id] = container[id]
  BY Known
<1>3. /\ rows' \in [Slots -> State \union {Unused}]
      /\ container' \in [Slots -> {"none", "created", "running"}]
  BY Known
<1> QED BY <1>1, <1>2, <1>3, Conclude

\* docker run fails, or succeeds: the run knows its slot, and has named the container.
LEMMA RunLeaves ==
  ASSUME IInv, NEW s \in Scripts, At(s, "run"), NEW c \in {"none", "created", "running"},
         rows' = rows, container' = [container EXCEPT ![script[s].SLOT_ID] = c],
         Fail(s) \/ Step(s, "validate")
  PROVE  IInv'
<1>1. script[s].SLOT_ID = script[s].own /\ script[s].own # NoSlot /\ script[s].named
  BY Known DEF Tidy, At, Owning
<1>2. CASE Fail(s)
  <2> DEFINE q == [script[s] EXCEPT !.at = "trap", !.exit = 1]
  <2>1. q \in Variables /\ script' = [script EXCEPT ![s] = q] /\ script'[s] = q
    BY <1>2, Known DEF Fail, Variables
  <2>2. q.own = script[s].own /\ q.SLOT_ID # NoSlot
    BY <1>1, Known DEF Variables
  <2>3. Tidy(s)'
    BY <1>1, <2>1, Known DEF Tidy, Early, Owning, Ending, Variables, At
  <2> HIDE DEF q
  <2> QED BY <1>1, <2>1, <2>2, <2>3, Known, Touches
<1>3. CASE Step(s, "validate")
  <2> DEFINE q == [script[s] EXCEPT !.at = "validate"]
  <2>1. q \in Variables /\ script' = [script EXCEPT ![s] = q] /\ script'[s] = q
    BY <1>3, Known DEF Step, Variables
  <2>2. q.own = script[s].own /\ q.SLOT_ID # NoSlot
    BY <1>1, Known DEF Variables
  <2>3. Tidy(s)'
    BY <1>1, <2>1, Known DEF Tidy, Early, Owning, Ending, Variables, At
  <2> HIDE DEF q
  <2> QED BY <1>1, <2>1, <2>2, <2>3, Known, Touches
<1> QED BY <1>2, <1>3

LEMMA RunKeeps ==
  ASSUME IInv, NEW s \in Scripts, Run(s) \/ RunConflicts(s) \/ RunFails(s)
  PROVE  IInv'
BY RunLeaves DEF Run, RunConflicts, RunFails, Left

LEMMA LateRunKeeps ==
  ASSUME IInv, NEW s \in Scripts, LateRun(s)
  PROVE  IInv'
<1> DEFINE q == [script[s] EXCEPT !.late = FALSE]
<1>f. script' = [script EXCEPT ![s].late = FALSE]
  BY DEF LateRun
<1>1. q \in Variables /\ script' = [script EXCEPT ![s] = q] /\ script'[s] = q
  BY <1>f, Known DEF Variables
<1>2. q.own = script[s].own /\ q.named = script[s].named /\ q.SLOT_ID = script[s].SLOT_ID
  BY Known DEF Variables
<1>3. PICK c \in {"none", "created", "running"} :
        container' = [container EXCEPT ![script[s].SLOT_ID] = c]
  BY DEF LateRun, Left
<1>4. script[s].lost /\ script[s].own # NoSlot /\ rows' = rows
  BY Known DEF LateRun, Tidy
<1>5. Tidy(s)'
  BY <1>1, <1>4, Known DEF Tidy, Early, Owning, Ending, Variables
<1> HIDE DEF q
<1>6. CASE script[s].SLOT_ID # NoSlot
  <2>1. script[s].SLOT_ID = script[s].own
    BY <1>6, Known DEF Tidy
  <2> QED BY <1>1, <1>2, <1>3, <1>4, <1>5, <2>1, Known, Touches
<1>7. CASE script[s].SLOT_ID = NoSlot
  <2>1. container' = container
    BY <1>3, <1>7, Known, WorkflowAssumption
  <2> QED BY <1>1, <1>2, <1>4, <1>5, <2>1, Known, Moves
<1> QED BY <1>6, <1>7

LEMMA RemoveKeeps ==
  ASSUME IInv, NEW s \in Scripts, Remove(s)
  PROVE  IInv'
<1> DEFINE q == [script[s] EXCEPT !.at = "delete", !.named = FALSE]
<1>1. q \in Variables /\ script' = [script EXCEPT ![s] = q] /\ script'[s] = q
  BY Known DEF Remove, Variables
<1>2. q.own = script[s].own /\ ~q.named /\ script[s].own # NoSlot
      /\ script[s].SLOT_ID = script[s].own
  BY Known DEF Remove, Variables, Tidy, At, Owning
<1>3. container' = [container EXCEPT ![script[s].own] = "none"] /\ rows' = rows
  BY <1>2 DEF Remove
<1>4. Tidy(s)'
  BY <1>1, <1>2, <1>3, Known DEF Remove, Tidy, Early, Owning, Ending, Variables, At
<1> HIDE DEF q
<1> QED BY <1>1, <1>2, <1>3, <1>4, Known, Touches

LEMMA RemoveFailsKeeps ==
  ASSUME IInv, NEW s \in Scripts, RemoveFails(s)
  PROVE  IInv'
<1> DEFINE q == [script[s] EXCEPT !.at = "trap", !.exit = 1]
<1>f. script' = [script EXCEPT ![s].at = "trap", ![s].exit = 1]
  BY DEF RemoveFails, Fail
<1>1. q \in Variables /\ script' = [script EXCEPT ![s] = q] /\ script'[s] = q
  BY <1>f, Known DEF Variables
<1>2. q.own = script[s].own /\ q.SLOT_ID # NoSlot /\ script[s].own # NoSlot
      /\ script[s].SLOT_ID = script[s].own /\ script[s].named /\ rows' = rows
  BY Known DEF RemoveFails, Variables, Tidy, At, Owning
<1>3. Tidy(s)'
  BY <1>1, <1>2, Known DEF Tidy, Early, Owning, Ending, Variables, At, RemoveFails
<1> HIDE DEF q
<1>4. CASE container' = container
  BY <1>1, <1>2, <1>3, <1>4, Known, Moves
<1>5. CASE container' = [container EXCEPT ![script[s].own] = "none"]
  BY <1>1, <1>2, <1>3, <1>5, Known, Touches
<1> QED BY <1>2, <1>4, <1>5 DEF RemoveFails

LEMMA TrapContainerKeeps ==
  ASSUME IInv, NEW s \in Scripts, TrapContainer(s)
  PROVE  IInv'
<1> DEFINE q == [script[s] EXCEPT !.at = "trap-slot"]
<1>1. q \in Variables /\ script' = [script EXCEPT ![s] = q] /\ script'[s] = q
  BY Known DEF TrapContainer, Step, Variables
<1>2. q.own = script[s].own /\ q.named = script[s].named /\ q.SLOT_ID = script[s].SLOT_ID
      /\ rows' = rows
  BY Known DEF TrapContainer, Variables
<1>3. CASE script[s].named
  <2>1. script[s].SLOT_ID = script[s].own /\ script[s].own # NoSlot
    BY <1>3, Known DEF Tidy
  <2>2. container' = [container EXCEPT ![script[s].own] = "none"]
    BY <1>3, <2>1 DEF TrapContainer
  <2>3. container'[script[s].own] = "none" /\ \A id : InTable(id)' <=> InTable(id)
    BY <1>2, <2>1, <2>2, Known DEF InTable
  <2>4. Tidy(s)'
    BY <1>1, <1>2, <2>1, <2>3, Known DEF Tidy, Early, Owning, Ending, Variables, At, TrapContainer
  <2> HIDE DEF q
  <2> QED BY <1>1, <1>2, <2>1, <2>2, <2>4, Known, Touches
<1>4. CASE ~script[s].named
  <2>1. container' = container /\ \A id : InTable(id)' <=> InTable(id)
    BY <1>2, <1>4 DEF TrapContainer, InTable
  <2>2. Tidy(s)'
    BY <1>1, <1>2, <1>4, <2>1, Known DEF Tidy, Early, Owning, Ending, Variables, At, TrapContainer
  <2> HIDE DEF q
  <2> QED BY <1>1, <1>2, <1>4, <2>1, <2>2, Known, Moves
<1> QED BY <1>3, <1>4

-----------------------------------------------------------------------------
(* Steps that touch the row of the run's slot. *)

LEMMA PostKeeps ==
  ASSUME IInv, NEW s \in Scripts, Post(s)
  PROVE  IInv'
<1>1. PICK id \in Slots, p \in Places :
        /\ rows[id] = Unused
        /\ rows' = [rows EXCEPT ![id] = [place |-> p, state |-> "active"]]
        /\ script' = [script EXCEPT ![s].at = "answered", ![s].own = id]
  BY DEF Post
<1> DEFINE q == [script[s] EXCEPT !.at = "answered", !.own = id]
<1>2. q \in Variables /\ script' = [script EXCEPT ![s] = q] /\ script'[s] = q
  BY <1>1, Known DEF Variables
<1>3. q.own = id /\ (q.named => q.SLOT_ID # NoSlot) /\ script[s].own = NoSlot
      /\ container' = container /\ id # NoSlot
  BY Known, WorkflowAssumption DEF Post, Variables, Tidy, At, Early
<1>4. /\ [place |-> p, state |-> "active"] \in State
      /\ rows' \in [Slots -> State \union {Unused}]
      /\ rows'[id] \in State /\ rows'[id] # Unused
      /\ \A x \in Slots : x # id => rows'[x] = rows[x]
  BY <1>1, Known, WorkflowAssumption DEF State
<1>5. container[id] = "none"
  BY <1>1 DEF IInv, TypeOK
<1>6. \A x \in Slots : x # id => (InTable(x)' => InTable(x))
  BY <1>4 DEF InTable
<1>7. Tidy(s)'
  BY <1>2, <1>3, <1>5, Known DEF Post, Tidy, Early, Owning, Ending, Variables, At
<1> HIDE DEF q
<1>8. /\ \A x \in Slots : rows'[x] = Unused => rows[x] = Unused
      /\ \A x \in Slots : x # q.own =>
           container'[x] = container[x] /\ (rows[x] # Unused /\ InTable(x)' => InTable(x))
      /\ container' \in [Slots -> {"none", "created", "running"}]
  BY <1>3, <1>4, <1>6, Known
<1> QED BY <1>1, <1>2, <1>3, <1>4, <1>7, <1>8, Conclude

\* Nothing but the row of the slot x changes, and it is there no longer.
LEMMA GoneOnly ==
  ASSUME IInv, NEW x \in Slots, InTable(x), rows' = Gone(x)
  PROVE  /\ rows' \in [Slots -> State \union {Unused}]
         /\ \A id \in Slots : rows'[id] = Unused => rows[id] = Unused
         /\ \A id \in Slots : InTable(id)' => InTable(id)
         /\ ~InTable(x)'
<1>1. TypeOK
  BY DEF IInv
<1>2. /\ rows' \in [Slots -> State \union {Unused}]
      /\ \A id \in Slots : rows'[id] = Unused => rows[id] = Unused
  BY <1>1, GoneType
<1>3. rows[x] \in State /\ rows \in [Slots -> State \union {Unused}]
  BY <1>1 DEF TypeOK, InTable
<1>4. rows' = [rows EXCEPT ![x] = [rows[x] EXCEPT !.state = "gone"]]
  BY DEF Gone
<1>5. rows'[x].state = "gone" /\ \A id \in Slots : id # x => rows'[id] = rows[id]
  BY <1>3, <1>4 DEF State
<1> QED BY <1>2, <1>5 DEF InTable

LEMMA Frees ==
  ASSUME IInv, NEW s \in Scripts, NEW q \in Variables,
         script[s].own # NoSlot, InTable(script[s].own),
         script' = [script EXCEPT ![s] = q],
         q.named => q.SLOT_ID # NoSlot,
         q.own = script[s].own,
         rows' = Gone(script[s].own), container' = container,
         Tidy(s)'
  PROVE  IInv'
<1>1. script[s].own \in Slots
  BY Known
<1>2. /\ rows' \in [Slots -> State \union {Unused}]
      /\ \A id \in Slots : rows'[id] = Unused => rows[id] = Unused
      /\ \A id \in Slots : InTable(id)' => InTable(id)
  BY <1>1, GoneOnly
<1>3. container' \in [Slots -> {"none", "created", "running"}]
  BY Known
<1> QED BY <1>2, <1>3, Conclude

LEMMA ReleaseKeeps ==
  ASSUME IInv, NEW s \in Scripts, Release(s)
  PROVE  IInv'
<1> DEFINE q == [script[s] EXCEPT !.at = "trap", !.SLOT_ID = NoSlot]
<1>f. script' = [script EXCEPT ![s].at = "trap", ![s].SLOT_ID = NoSlot]
  BY DEF Release
<1>1. q \in Variables /\ script' = [script EXCEPT ![s] = q] /\ script'[s] = q
  BY <1>f, Known DEF Variables
<1>2. /\ script[s].SLOT_ID = script[s].own /\ script[s].own # NoSlot /\ ~script[s].named
      /\ container[script[s].own] = "none" /\ ~script[s].late
      /\ InTable(script[s].own) /\ rows' = Gone(script[s].own) /\ container' = container
  BY Known DEF Release, Tidy, At, Owning
<1>3. q.own = script[s].own /\ ~q.named
  BY <1>2, Known DEF Variables
<1>4. script[s].own \in Slots /\ ~InTable(script[s].own)'
  <2>1. PICK x \in Slots : x = script[s].own
    BY <1>2, Known
  <2>2. ~InTable(x)'
    BY <1>2, <2>1, GoneOnly
  <2>3. script'[s].own = x
    BY <1>1, <1>3, <2>1
  <2> QED BY <2>1, <2>2, <2>3
<1>5. Tidy(s)'
  BY <1>1, <1>2, <1>3, <1>4, Known DEF Release, Tidy, Early, Owning, Ending, Variables, At
<1> HIDE DEF q
<1> QED BY <1>1, <1>2, <1>3, <1>5, Known, Frees

LEMMA ReleaseFailsKeeps ==
  ASSUME IInv, NEW s \in Scripts, ReleaseFails(s)
  PROVE  IInv'
<1> DEFINE q == [script[s] EXCEPT !.at = "trap", !.exit = 1]
<1>f. script' = [script EXCEPT ![s].at = "trap", ![s].exit = 1]
  BY DEF ReleaseFails, Fail
<1>1. q \in Variables /\ script' = [script EXCEPT ![s] = q] /\ script'[s] = q
  BY <1>f, Known DEF Variables
<1>2. /\ script[s].SLOT_ID = script[s].own /\ script[s].own # NoSlot /\ ~script[s].named
      /\ script[s].SLOT_ID # NoSlot /\ container[script[s].own] = "none"
      /\ container' = container
  BY Known DEF ReleaseFails, Tidy, At, Owning
<1>3. q.own = script[s].own /\ ~q.named
  BY <1>2, Known DEF Variables
<1>4. Tidy(s)'
  BY <1>1, <1>2, <1>3, Known DEF ReleaseFails, Tidy, Early, Owning, Ending, Variables, At
<1> HIDE DEF q
<1>5. CASE rows' = rows
  BY <1>1, <1>2, <1>3, <1>4, <1>5, Known, Moves
<1>6. CASE InTable(script[s].own) /\ rows' = Gone(script[s].own)
  BY <1>1, <1>2, <1>3, <1>4, <1>6, Known, Frees
<1>7. rows' = rows \/ (InTable(script[s].own) /\ rows' = Gone(script[s].own))
  BY <1>2 DEF ReleaseFails
<1> QED BY <1>5, <1>6, <1>7

LEMMA TrapSlotKeeps ==
  ASSUME IInv, NEW s \in Scripts, TrapSlot(s)
  PROVE  IInv'
<1> DEFINE q == [script[s] EXCEPT !.at = "done"]
<1>f. script' = [script EXCEPT ![s].at = "done"]
  BY DEF TrapSlot, Step
<1>1. q \in Variables /\ script' = [script EXCEPT ![s] = q] /\ script'[s] = q
  BY <1>f, Known DEF Variables
<1>2. /\ script[s].at = "trap-slot" /\ container' = container
      /\ script[s].SLOT_ID # NoSlot => script[s].SLOT_ID = script[s].own
  BY Known DEF TrapSlot, Tidy, At
<1>3. q.own = script[s].own /\ q.named = script[s].named /\ q.SLOT_ID = script[s].SLOT_ID
  BY Known DEF Variables
<1>4. CASE script[s].SLOT_ID # NoSlot /\ InTable(script[s].SLOT_ID)
  <2>1. PICK x \in Slots : x = script[s].own /\ x # NoSlot /\ InTable(x) /\ rows' = Gone(x)
    BY <1>2, <1>4, Known DEF TrapSlot
  <2>2. ~InTable(x)'
    BY <2>1, GoneOnly
  <2>3. script'[s].own = x
    BY <1>1, <1>3, <2>1
  <2>4. ~InTable(script[s].own)'
    BY <2>2, <2>3
  <2>5. Tidy(s)'
    BY <1>1, <1>2, <1>3, <2>4, Known DEF Tidy, Early, Owning, Ending, Variables
  <2> HIDE DEF q
  <2> QED BY <1>1, <1>3, <1>2, <2>1, <2>5, Known, Frees
<1>5. CASE ~(script[s].SLOT_ID # NoSlot /\ InTable(script[s].SLOT_ID))
  <2>1. rows' = rows
    BY <1>5 DEF TrapSlot
  <2>2. \A id : InTable(id)' <=> InTable(id)
    BY <2>1 DEF InTable
  <2>3. Tidy(s)'
    BY <1>1, <1>2, <1>3, <1>5, <2>2, Known DEF Tidy, Early, Owning, Ending, Variables
  <2> HIDE DEF q
  <2> QED BY <1>1, <1>2, <1>3, <2>1, <2>3, Known, Moves
<1> QED BY <1>4, <1>5

-----------------------------------------------------------------------------
(* Steps of the others: a row expires or goes away. *)

LEMMA RowsShrink ==
  ASSUME IInv, UNCHANGED <<container, script>>,
         rows' \in [Slots -> State \union {Unused}],
         \A id \in Slots : rows'[id] = Unused <=> rows[id] = Unused,
         \A id \in Slots : InTable(id)' => InTable(id)
  PROVE  IInv'
<1>1. TypeOK' /\ Owners'
  BY DEF IInv, TypeOK, Owners, Variables
<1>2. ASSUME NEW s \in Scripts PROVE Tidy(s)'
  <2>1. script'[s] = script[s] /\ Tidy(s) /\ (script[s].own # NoSlot => script[s].own \in Slots)
    BY Known
  <2>2. script[s].own # NoSlot =>
          (InTable(script[s].own)' => InTable(script[s].own)) /\ script'[s].own = script[s].own
    BY <2>1
  <2> QED BY <2>1, <2>2 DEF Tidy, Early, Owning, Ending
<1> QED BY <1>1, <1>2 DEF IInv

LEMMA OthersKeep ==
  ASSUME IInv, (\E id \in Slots : Expire(id) \/ Delete(id)) \/ Reap
  PROVE  IInv'
<1>1. rows \in [Slots -> State \union {Unused}] /\ Unused \notin State
  BY WorkflowAssumption DEF IInv, TypeOK
<1>2. ASSUME NEW id \in Slots, Expire(id) PROVE IInv'
  <2>1. rows[id] \in State
    BY <1>1, <1>2 DEF Expire, Active
  <2>2. rows' = [rows EXCEPT ![id] = [rows[id] EXCEPT !.state = "expired"]]
    BY <1>2 DEF Expire
  <2>3. [rows[id] EXCEPT !.state = "expired"] \in State
    BY <2>1 DEF State
  <2>4. /\ rows' \in [Slots -> State \union {Unused}]
        /\ \A x \in Slots : rows'[x] = Unused <=> rows[x] = Unused
    BY <1>1, <2>1, <2>2, <2>3
  <2>5. InTable(id)
    BY <1>2 DEF Expire, Active, InTable
  <2>6. \A x \in Slots : InTable(x)' => InTable(x)
    BY <1>1, <2>2, <2>5 DEF InTable
  <2> QED BY <1>2, <2>4, <2>6, RowsShrink DEF Expire
<1>3. ASSUME NEW id \in Slots, Delete(id) PROVE IInv'
  <2>1. /\ rows' \in [Slots -> State \union {Unused}]
        /\ \A x \in Slots : rows'[x] = Unused <=> rows[x] = Unused
    BY <1>3, GoneType DEF Delete, IInv
  <2>2. \A x \in Slots : InTable(x)' => InTable(x)
    BY <1>3, GoneOnly DEF Delete
  <2> QED BY <1>3, <2>1, <2>2, RowsShrink DEF Delete
<1>4. CASE Reap
  <2>1. ASSUME NEW x \in Slots
        PROVE  /\ rows'[x] \in State \union {Unused}
               /\ rows'[x] = Unused <=> rows[x] = Unused
               /\ InTable(x)' => InTable(x)
    <3>1. CASE InTable(x) /\ ~Active(x)
      <4>1. rows[x] \in State /\ rows'[x] = [rows[x] EXCEPT !.state = "gone"]
        BY <1>1, <1>4, <3>1 DEF Reap, InTable
      <4>2. rows'[x] \in State
        BY <4>1 DEF State
      <4> QED BY <1>1, <3>1, <4>1, <4>2 DEF InTable
    <3>2. CASE ~(InTable(x) /\ ~Active(x))
      <4>1. rows'[x] = rows[x]
        BY <1>4, <3>2 DEF Reap
      <4> QED BY <1>1, <4>1 DEF InTable
    <3> QED BY <3>1, <3>2
  <2>2. rows' \in [Slots -> State \union {Unused}]
    BY <1>4, <2>1 DEF Reap
  <2> QED BY <1>4, <2>1, <2>2, RowsShrink DEF Reap
<1> QED BY <1>2, <1>3, <1>4

-----------------------------------------------------------------------------
(* The theorems. *)

LEMMA WorkKeeps ==
  ASSUME IInv, NEW s \in Scripts, Work(s) \/ Interrupt(s) \/ Kill(s)
  PROVE  IInv'
<1>1. CASE Caps(s)
  BY <1>1, FailKeeps, StepAtKeeps DEF Caps, At
<1>2. CASE Post(s)
  BY <1>2, PostKeeps
<1>3. CASE PostFails(s)
  BY <1>3, FailKeeps DEF PostFails, At
<1>4. CASE Parse(s)
  BY <1>4, ParseKeeps
<1>5. CASE AnswerLost(s)
  BY <1>5, LostKeeps
<1>6. CASE Build(s)
  BY <1>6, BuildKeeps
<1>7. CASE Run(s) \/ RunConflicts(s) \/ RunFails(s)
  BY <1>7, RunKeeps
<1>8. CASE RunAbandoned(s)
  BY <1>8, RunAbandonedKeeps
<1>9. CASE LateRun(s)
  BY <1>9, LateRunKeeps
<1>10. CASE Validate(s)
  BY <1>10, FailKeeps, StepAtKeeps DEF Validate, At
<1>11. CASE Remove(s)
  BY <1>11, RemoveKeeps
<1>12. CASE RemoveFails(s)
  BY <1>12, RemoveFailsKeeps
<1>13. CASE Release(s)
  BY <1>13, ReleaseKeeps
<1>14. CASE ReleaseFails(s)
  BY <1>14, ReleaseFailsKeeps
<1>15. CASE TrapContainer(s)
  BY <1>15, TrapContainerKeeps
<1>16. CASE TrapContainerFails(s)
  BY <1>16, TrapContainerFailsKeeps
<1>17. CASE TrapSlot(s)
  BY <1>17, TrapSlotKeeps
<1>18. CASE TrapSlotFails(s)
  BY <1>18, TrapSlotFailsKeeps
<1>19. CASE Interrupt(s)
  BY <1>19, InterruptKeeps
<1>20. CASE Kill(s)
  BY <1>20, StepAtKeeps DEF Kill
<1> QED
  BY <1>1, <1>2, <1>3, <1>4, <1>5, <1>6, <1>7, <1>8, <1>9, <1>10, <1>11, <1>12, <1>13,
     <1>14, <1>15, <1>16, <1>17, <1>18, <1>19, <1>20 DEF Work

LEMMA InitInvariant == Init => IInv
BY WorkflowAssumption
   DEF Init, Fresh, IInv, TypeOK, Variables, Owners, Tidy, Early, Owning, Ending

LEMMA StepInvariant == IInv /\ [Next]_vars => IInv'
<1> SUFFICES ASSUME IInv, [Next]_vars PROVE IInv'
  OBVIOUS
<1>1. CASE UNCHANGED vars
  BY <1>1 DEF vars, IInv, TypeOK, Owners, Tidy, Early, Owning, Ending, InTable
<1>2. CASE Next
  BY <1>2, WorkKeeps, OthersKeep DEF Next
<1> QED BY <1>1, <1>2

\* The types of the scripts, the table and the containers, for any number of each.
THEOREM ScriptsAreTyped == Spec => []TypeOK
<1>1. IInv => TypeOK
  BY DEF IInv
<1> QED BY InitInvariant, StepInvariant, <1>1, PTL DEF Spec

\* A run of the script that ends by itself or is interrupted leaves neither a
\* container nor a slot, whatever failed and whoever else touched the table, but for
\* the cases that NothingLeft names; for every number of runs, slots and places
\* (slot-workflow.sh:39-60, 115-183).
THEOREM NothingIsLeft == Spec => []NothingLeft
<1>1. IInv => NothingLeft
  <2> SUFFICES ASSUME IInv, NEW s \in Scripts, At(s, "done"), script[s].own # NoSlot,
                      script[s].exit = 0 \/ ~script[s].lost
               PROVE  container[script[s].own] = "none" /\ ~InTable(script[s].own)
    BY DEF IInv, NothingLeft
  <2>1. Tidy(s)
    BY DEF IInv
  <2> QED BY <2>1 DEF Tidy, At, Ending
<1> QED BY InitInvariant, StepInvariant, <1>1, PTL DEF Spec

\* A run gives its slot back only when its container has gone, so that no port of a
\* free slot is still taken by the run that held it (slot-workflow.sh:44-53, 176-183).
THEOREM ContainersGoFirst == Spec => ContainerGoesFirst
<1> DEFINE Order ==
      \A s \in Scripts, id \in Slots :
        /\ script[s].own = id /\ script'[s] # script[s]
        /\ InTable(id) /\ ~InTable(id)'
        => container[id] = "none" \/ script[s].lost
<1>1. IInv /\ [Next]_vars => [Order]_vars
  <2> SUFFICES ASSUME IInv, Next, NEW s \in Scripts, NEW id \in Slots,
                      script[s].own = id, script'[s] # script[s],
                      InTable(id), ~InTable(id)'
               PROVE  container[id] = "none" \/ script[s].lost
    BY DEF InTable, vars
  <2>1. PICK t \in Scripts : Work(t) \/ Interrupt(t) \/ Kill(t)
    BY DEF Next, Expire, Reap, Delete
  <2>2. rows' # rows
    BY DEF InTable
  <2>3. Post(t) \/ Release(t) \/ ReleaseFails(t) \/ TrapSlot(t)
    BY <2>1, <2>2 DEF Work, Caps, PostFails, Parse, AnswerLost, Build, Run, RunConflicts,
       RunFails, RunAbandoned, LateRun, Validate, Remove, RemoveFails, TrapContainer,
       TrapContainerFails, TrapSlotFails, Interrupt, Kill
  <2>4. t = s
    BY <2>3, Known DEF Post, Release, ReleaseFails, TrapSlot, Step, Fail
  <2>5. Tidy(s) /\ script[s] \in Variables /\ id # NoSlot
    BY Known, WorkflowAssumption
  <2>6. ~Post(s)
    BY <2>5 DEF Post, Tidy, At, Early
  <2>7. CASE Release(s) \/ ReleaseFails(s)
    BY <2>5, <2>7 DEF Release, ReleaseFails, Tidy, At, Owning
  <2>8. CASE TrapSlot(s)
    BY <2>5, <2>8 DEF TrapSlot, Tidy, At, Ending
  <2> QED BY <2>3, <2>4, <2>6, <2>7, <2>8
<1> QED BY InitInvariant, StepInvariant, <1>1, PTL DEF Spec, ContainerGoesFirst

-----------------------------------------------------------------------------
(* The page.                                                                 *)

\* What is asked to be released was shown.
ReleasesSlots == \A c \in Calls : call[c].at = "reaping" => call[c].id \in Slots

PageInv == PageTypeOK /\ ReleasesSlots /\ OneCountdown /\ PanelLoads

CallState == [at : {"idle", "reaping", "asking", "told"},
              id : Slots \union {None}, told : SUBSET Slots]

LEMMA PageStarts == PageInit => PageInv
<1> SUFFICES ASSUME PageInit PROVE PageInv
  OBVIOUS
<1>1. Rest \in CallState /\ Rest.told = {}
  BY DEF Rest, CallState
<1>2. PageTypeOK
  BY <1>1, PageAssumption DEF PageInit, PageTypeOK, CallState
<1> QED BY <1>2 DEF PageInit, PageInv, ReleasesSlots, OneCountdown, Begun, PanelLoads, Idle, Rest

\* A refresh that starts is a well-formed call, and not an idle one.
LEMMA RefreshCall ==
  ASSUME PageTypeOK, NEW c \in Calls, Refresh(c)
  PROVE  /\ call' \in [Calls -> CallState]
         /\ \A d \in Calls : call'[d].at # "told" => call'[d].told = {}
         /\ call'[c] # Rest
         /\ \A d \in Calls : call'[d].at = "reaping" => call'[d] = call[d]
<1> DEFINE q == [Rest EXCEPT !.at = "asking"]
<1>1. q \in CallState /\ q.told = {} /\ q # Rest /\ q.at # "reaping"
  BY DEF Rest, CallState
<1> HIDE DEF q
<1>2. call' = [call EXCEPT ![c] = q] /\ call \in [Calls -> CallState]
  BY DEF Refresh, q, PageTypeOK, CallState
<1> QED BY <1>1, <1>2 DEF PageTypeOK

LEMMA StartKeeps ==
  ASSUME PageInv, NEW c \in Calls,
         \/ AdapterLoads(c) \/ PressRefresh(c) \/ (\E t \in Timers : Fire(t, c))
         \/ Reaped(c) \/ ReapLost(c)
  PROVE  PageInv'
<1>1. Refresh(c) /\ PageTypeOK
  BY DEF AdapterLoads, PressRefresh, Fire, Reaped, ReapLost, PageInv
<1>2. /\ call' \in [Calls -> CallState]
      /\ \A d \in Calls : call'[d].at # "told" => call'[d].told = {}
      /\ call'[c] # Rest
      /\ \A d \in Calls : call'[d].at = "reaping" => call'[d] = call[d]
  BY <1>1, RefreshCall
<1>3. /\ table' \subseteq Slots /\ live' \subseteq live /\ countdown' = countdown
      /\ adapter' \in {adapter, "ready"}
      /\ UNCHANGED <<shown, card, panel, loads>>
  BY <1>1 DEF AdapterLoads, PressRefresh, Fire, Reaped, ReapLost, PageTypeOK
<1>4. PageTypeOK'
  BY <1>1, <1>2, <1>3 DEF PageTypeOK, CallState
<1>5. OneCountdown'
  BY <1>2, <1>3 DEF OneCountdown, PageInv, Idle, Rest
<1>6. ReleasesSlots'
  BY <1>2 DEF PageInv, ReleasesSlots
<1> QED BY <1>3, <1>4, <1>5, <1>6 DEF PageInv, PanelLoads

LEMMA CallKeeps ==
  ASSUME PageInv, NEW c \in Calls, (\E id \in Slots : Click(id, c)) \/ Told(c)
  PROVE  PageInv'
<1>1. PageTypeOK /\ ReleasesSlots /\ OneCountdown /\ PanelLoads
  BY DEF PageInv
<1>2. PICK q \in CallState :
        /\ call' = [call EXCEPT ![c] = q]
        /\ q.at # "told" => q.told = {}
        /\ q # Rest
        /\ q.at = "reaping" => q.id \in Slots
  <2>1. CASE \E id \in Slots : Click(id, c)
    <3>1. PICK id \in Slots : Click(id, c)
      BY <2>1
    <3> DEFINE q == [Rest EXCEPT !.at = "reaping", !.id = id]
    <3>2. q \in CallState /\ q.told = {} /\ q # Rest /\ q.id \in Slots
      BY DEF Rest, CallState
    <3>3. call' = [call EXCEPT ![c] = q]
      BY <3>1 DEF Click
    <3> QED BY <3>2, <3>3
  <2>2. CASE Told(c)
    <3> DEFINE q == [call[c] EXCEPT !.at = "told", !.told = table]
    <3>1. q \in CallState /\ q.at = "told" /\ q # Rest
      BY <1>1 DEF PageTypeOK, CallState, Rest
    <3>2. call' = [call EXCEPT ![c] = q]
      BY <2>2 DEF Told
    <3> QED BY <3>1, <3>2
  <2> QED BY <2>1, <2>2
<1>3. UNCHANGED <<table, adapter, live, countdown, shown, card, panel, loads>>
  BY DEF Click, Told
<1>4. PageTypeOK' /\ call'[c] # Rest
  BY <1>1, <1>2, <1>3 DEF PageTypeOK, CallState
<1>5. ReleasesSlots'
  BY <1>1, <1>2 DEF ReleasesSlots, PageTypeOK
<1> QED BY <1>1, <1>3, <1>4, <1>5
        DEF PageInv, OneCountdown, Begun, PanelLoads, Idle, Rest

\* Whichever countdown runs when a refresh ends, the new one replaces it.
LEMMA EndKeeps ==
  ASSUME PageInv, NEW c \in Calls, Render(c) \/ RefreshFails(c) \/ RenderFails(c)
  PROVE  PageInv'
<1>1. PageTypeOK /\ ReleasesSlots /\ OneCountdown /\ PanelLoads
  BY DEF PageInv
<1>2. PICK t \in Timers : live' = {t} /\ countdown' = t
  BY <1>1 DEF Render, RefreshFails, RenderFails, ResetCountdown, OneCountdown
<1>3. call' = [call EXCEPT ![c] = Rest] /\ UNCHANGED <<table, adapter>>
  BY DEF Render, RefreshFails, RenderFails
<1>4. Rest \in CallState /\ Rest.told = {}
  BY DEF Rest, CallState
<1>5. shown' \in [hosts : SUBSET Slots, devSlots : SUBSET Slots]
  BY <1>1 DEF Render, RefreshFails, RenderFails, PageTypeOK
<1>6. /\ card' \in {"absent", "folded", "expanded"}
      /\ panel' \in {"empty", "loading", "charts", "error"}
      /\ loads' \in 0..MaxLoads
  BY <1>1, PageAssumption DEF Render, RefreshFails, RenderFails, Rerender, PageTypeOK
<1>7. PageTypeOK'
  BY <1>1, <1>2, <1>3, <1>4, <1>5, <1>6 DEF PageTypeOK, CallState
<1>8. PanelLoads'
  BY <1>1 DEF Render, RefreshFails, RenderFails, Rerender, PanelLoads
<1>9. OneCountdown' /\ ReleasesSlots'
  BY <1>1, <1>2, <1>3 DEF OneCountdown, ReleasesSlots, PageTypeOK, Rest
<1> QED BY <1>7, <1>8, <1>9 DEF PageInv

LEMMA OtherStepsKeep ==
  ASSUME PageInv, AdapterFails \/ Fold \/ Expand \/ LoadEnds \/ Others \/ UNCHANGED pageVars
  PROVE  PageInv'
<1>1. PageTypeOK /\ ReleasesSlots /\ OneCountdown /\ PanelLoads
  BY DEF PageInv
<1>2. live' = live /\ countdown' = countdown /\ call' = call /\ shown' = shown
  BY DEF AdapterFails, Fold, Expand, LoadEnds, Others, pageVars, page
<1>3. PageTypeOK'
  BY <1>1, PageAssumption
     DEF PageTypeOK, AdapterFails, Fold, Expand, LoadEnds, Others, pageVars, page
<1>4. ReleasesSlots' /\ OneCountdown'
  BY <1>1, <1>2 DEF ReleasesSlots, OneCountdown, Begun, AdapterFails, Fold, Expand, LoadEnds, Others,
                    pageVars, page, Idle
<1>5. PanelLoads'
  BY <1>1 DEF PanelLoads, PageTypeOK, AdapterFails, Fold, Expand, LoadEnds, Others, pageVars, page
<1> QED BY <1>3, <1>4, <1>5 DEF PageInv

LEMMA PageStepKeeps == PageInv /\ [PageNext]_pageVars => PageInv'
BY StartKeeps, CallKeeps, EndKeeps, OtherStepsKeep DEF PageNext

LEMMA InvariantOfPage == PageSpec => []PageInv
BY PageStarts, PageStepKeeps, PTL DEF PageSpec

\* The types of the page, for any number of loads in flight.
THEOREM PageIsTyped == PageSpec => []PageTypeOK
<1>1. PageInv => PageTypeOK
  BY DEF PageInv
<1> QED BY InvariantOfPage, <1>1, PTL

\* Whatever happens to the table, however refreshes and clicks overlap and fail: at
\* most one countdown runs, and one is running or on its way once the page has
\* been refreshed (index.html:269, 377-384, 853-923).
THEOREM PageKeepsGoing == PageSpec => []OneCountdown
<1>1. PageInv => OneCountdown
  BY DEF PageInv
<1> QED BY InvariantOfPage, <1>1, PTL

\* A panel that says "Loading" has a load that will fill it, however often it is
\* replaced, folded and expanded under its loads (index.html:789-846, 869-898).
THEOREM PanelsAreFilled == PageSpec => []PanelLoads
<1>1. PageInv => PanelLoads
  BY DEF PageInv
<1> QED BY InvariantOfPage, <1>1, PTL
=============================================================================
