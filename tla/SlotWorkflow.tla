---------------------------- MODULE SlotWorkflow ----------------------------
(***************************************************************************)
(* Callers of the slot API: runs of examples/slot-workflow.sh against the   *)
(* slots table, and the containers they leave on the hosts.  Every command  *)
(* of the script may fail, or do its work and have its answer lost; the     *)
(* script may be interrupted anywhere, which runs its EXIT trap, and killed *)
(* anywhere, which does not.                                                *)
(*                                                                          *)
(* Time is abstracted to its effect on a row: the script sends no           *)
(* heartbeats, so its lease may expire at any point of it.                  *)
(***************************************************************************)
EXTENDS FiniteSets, SlotIdentifiers

CONSTANTS
  Scripts,  \* runs of slot-workflow.sh
  Places,   \* pairs of a host and a port offset
  NoUser,   \* places on a host without ssh_user
  Unused,   \* the id was not granted yet
  NoSlot    \* SLOT_ID=""

State == [place : Places, state : {"active", "expired", "gone"}]

ASSUME WorkflowAssumption ==
  NoUser \subseteq Places /\ NoSlot \notin Slots /\ Unused \notin State

VARIABLES
  rows,       \* table slots: id -> its place, and whether active, expired or gone
  container,  \* the container hlab-<id>: none, created or running
  script      \* where a run is, with its shell variables

vars == <<rows, container, script>>

\* late: a docker run that the script gave up may still do its work.  own: the slot
\* that the server inserted for this run; lost: a command of the trap failed, or the
\* answer to the reservation of a slot that is there, or docker run was given up.  No
\* step reads these two.
Fresh == [at |-> "caps", SLOT_ID |-> NoSlot, named |-> FALSE, exit |-> 0,
          late |-> FALSE, own |-> NoSlot, lost |-> FALSE]

Init ==
  /\ rows = [id \in Slots |-> Unused]
  /\ container = [id \in Slots |-> "none"]
  /\ script = [s \in Scripts |-> Fresh]

InTable(id) == rows[id] # Unused /\ rows[id].state # "gone"

Active(id) == rows[id] # Unused /\ rows[id].state = "active"

Listed == {id \in Slots : InTable(id)}

PlaceIsFree(p) == \A id \in Slots : Active(id) => rows[id].place # p

\* A container that has started holds its port of the host.
PortIsBusy(p) == \E id \in Slots : container[id] = "running" /\ rows[id].place = p

Gone(id) == [rows EXCEPT ![id].state = "gone"]

-----------------------------------------------------------------------------
(* Steps of the script.  Step sets where it is, Fail ends it through the trap. *)

At(s, at) == script[s].at = at

Step(s, at) == script' = [script EXCEPT ![s].at = at]

Fail(s) == script' = [script EXCEPT ![s].at = "trap", ![s].exit = 1]

\* GET /api/capabilities: the monitor cannot be reached, or has no free slot.
Caps(s) ==
  /\ At(s, "caps")
  /\ Step(s, "post") \/ Fail(s)
  /\ UNCHANGED <<rows, container>>

\* POST /api/slots is served: a row on a place that no active slot holds.
Post(s) ==
  /\ At(s, "post")
  /\ \E id \in Slots, p \in Places :
       /\ rows[id] = Unused
       /\ PlaceIsFree(p)
       /\ rows' = [rows EXCEPT ![id] = [place |-> p, state |-> "active"]]
       /\ script' = [script EXCEPT ![s].at = "answered", ![s].own = id]
  /\ UNCHANGED container

\* 409, 500, or no connection.
PostFails(s) ==
  /\ At(s, "post")
  /\ Fail(s)
  /\ UNCHANGED <<rows, container>>

\* The 201 arrives: SLOT_ID, and whether there is an SSH_USER.
Parse(s) ==
  /\ At(s, "answered")
  /\ script' = [script EXCEPT
       ![s].SLOT_ID = script[s].own,
       ![s].at = IF rows[script[s].own].place \in NoUser THEN "trap" ELSE "build",
       ![s].exit = IF rows[script[s].own].place \in NoUser THEN 1 ELSE 0]
  /\ UNCHANGED <<rows, container>>

\* Mutated form of AnswerLost: without set -e the script goes on.
AnswerUnchecked(s) ==
  /\ At(s, "answered")
  /\ Step(s, "build")
  /\ UNCHANGED <<rows, container>>

\* It does not, or it is a 500 since the row is gone already: nothing tells the
\* script the id of its slot.
AnswerLost(s) ==
  /\ At(s, "answered")
  /\ script' = [script EXCEPT ![s].at = "trap", ![s].exit = 1,
                              ![s].lost = InTable(script[s].own)]
  /\ UNCHANGED <<rows, container>>

\* Mutated form of Build: CONTAINER_NAME is set once docker run has succeeded.
BuildUnnamed(s) ==
  /\ At(s, "build")
  /\ Step(s, "run") \/ Fail(s)
  /\ UNCHANGED <<rows, container>>

\* docker build and push; then the trap is told of the container to come.
Build(s) ==
  /\ At(s, "build")
  /\ \/ script' = [script EXCEPT ![s].at = "run", ![s].named = TRUE]
     \/ Fail(s)
  /\ UNCHANGED <<rows, container>>

\* docker run -d -p: the container is created, and started if its port is free.
Run(s) ==
  LET id == script[s].SLOT_ID
  IN  /\ At(s, "run")
      /\ ~PortIsBusy(rows[id].place)
      /\ container' = [container EXCEPT ![id] = "running"]
      /\ Step(s, "validate")
      /\ UNCHANGED rows

\* The port is taken: the container stays as created.
RunConflicts(s) ==
  LET id == script[s].SLOT_ID
  IN  /\ At(s, "run")
      /\ PortIsBusy(rows[id].place)
      /\ container' = [container EXCEPT ![id] = "created"]
      /\ Fail(s)
      /\ UNCHANGED rows

\* What docker run may leave behind.
Left(id) == {"created"} \union (IF PortIsBusy(rows[id].place) THEN {} ELSE {"running"})

\* No ssh, no daemon, no image; or the connection drops when the work is done.
RunFails(s) ==
  LET id == script[s].SLOT_ID
  IN  /\ At(s, "run")
      /\ \E c \in {"none"} \union Left(id) : container' = [container EXCEPT ![id] = c]
      /\ Fail(s)
      /\ UNCHANGED rows

\* The script is cut off from a docker run that goes on: ssh fails, or a signal ends
\* the script while it waits for ssh.
RunAbandoned(s) ==
  /\ At(s, "run")
  /\ script' = [script EXCEPT ![s].at = "trap", ![s].exit = 1,
                              ![s].late = TRUE, ![s].lost = TRUE]
  /\ UNCHANGED <<rows, container>>

\* It creates the container after all, before the trap removes it or after.
LateRun(s) ==
  LET id == script[s].SLOT_ID
  IN  /\ script[s].late
      /\ \E c \in Left(id) : container' = [container EXCEPT ![id] = c]
      /\ script' = [script EXCEPT ![s].late = FALSE]
      /\ UNCHANGED rows

\* GET /health of the container, up to MAX_TRIES times, and its status.
Validate(s) ==
  /\ At(s, "validate")
  /\ Step(s, "rm") \/ Fail(s)
  /\ UNCHANGED <<rows, container>>

\* Mutated form of Remove: the container is left to the trap, which finds no name.
RemoveNameOnly(s) ==
  /\ At(s, "rm")
  /\ script' = [script EXCEPT ![s].at = "delete", ![s].named = FALSE]
  /\ UNCHANGED <<rows, container>>

\* docker rm -f, and the trap is told that the container has gone.
Remove(s) ==
  /\ At(s, "rm")
  /\ container' = [container EXCEPT ![script[s].SLOT_ID] = "none"]
  /\ script' = [script EXCEPT ![s].at = "delete", ![s].named = FALSE]
  /\ UNCHANGED rows

\* It fails, or does its work and does not say so: set -e.
RemoveFails(s) ==
  /\ At(s, "rm")
  /\ container' \in {container, [container EXCEPT ![script[s].SLOT_ID] = "none"]}
  /\ Fail(s)
  /\ UNCHANGED rows

\* DELETE /api/slots/{id} answers 204.
Release(s) ==
  LET id == script[s].SLOT_ID
  IN  /\ At(s, "delete")
      /\ InTable(id)
      /\ rows' = Gone(id)
      /\ script' = [script EXCEPT ![s].at = "trap", ![s].SLOT_ID = NoSlot]
      /\ UNCHANGED container

\* 404 for a slot that is no longer there; no connection; or a lost 204.
ReleaseFails(s) ==
  LET id == script[s].SLOT_ID
  IN  /\ At(s, "delete")
      /\ rows' \in {rows} \union (IF InTable(id) THEN {Gone(id)} ELSE {})
      /\ Fail(s)
      /\ UNCHANGED container

-----------------------------------------------------------------------------
(* cleanup(), on every exit.  `|| true`: what fails there is not tried again. *)

TrapContainer(s) ==
  /\ At(s, "trap")
  /\ container' = IF script[s].named
                  THEN [container EXCEPT ![script[s].SLOT_ID] = "none"] ELSE container
  /\ Step(s, "trap-slot")
  /\ UNCHANGED rows

TrapContainerFails(s) ==
  /\ At(s, "trap")
  /\ script[s].named
  /\ script' = [script EXCEPT ![s].at = "trap-slot", ![s].lost = TRUE]
  /\ UNCHANGED <<rows, container>>

TrapSlot(s) ==
  LET id == script[s].SLOT_ID
  IN  /\ At(s, "trap-slot")
      /\ rows' = IF id # NoSlot /\ InTable(id) THEN Gone(id) ELSE rows
      /\ Step(s, "done")
      /\ UNCHANGED container

TrapSlotFails(s) ==
  /\ At(s, "trap-slot")
  /\ script[s].SLOT_ID # NoSlot
  /\ script' = [script EXCEPT ![s].at = "done", ![s].lost = TRUE]
  /\ UNCHANGED <<rows, container>>

-----------------------------------------------------------------------------
(* The rest of the world. *)

Running(s) == script[s].at \notin {"trap", "trap-slot", "done", "killed"}

\* SIGINT, SIGTERM or SIGHUP: the trap runs with the variables as they are.
Interrupt(s) ==
  /\ Running(s)
  /\ script' = [script EXCEPT ![s].at = "trap", ![s].exit = 1,
                              ![s].lost = At(s, "answered") /\ InTable(script[s].own)]
  /\ UNCHANGED <<rows, container>>

\* SIGKILL, or the caller's machine goes down.
Kill(s) ==
  /\ script[s].at \notin {"done", "killed"}
  /\ Step(s, "killed")
  /\ UNCHANGED <<rows, container>>

\* expires_ts passes.
Expire(id) ==
  /\ Active(id)
  /\ rows' = [rows EXCEPT ![id].state = "expired"]
  /\ UNCHANGED <<container, script>>

\* The reaper deletes every expired row.
Reap ==
  /\ \E id \in Slots : InTable(id) /\ ~Active(id)
  /\ rows' = [id \in Slots |-> IF InTable(id) /\ ~Active(id)
                               THEN [rows[id] EXCEPT !.state = "gone"] ELSE rows[id]]
  /\ UNCHANGED <<container, script>>

\* Somebody else releases the slot: the button of the dashboard.
Delete(id) ==
  /\ InTable(id)
  /\ rows' = Gone(id)
  /\ UNCHANGED <<container, script>>

Work(s) ==
  \/ Caps(s) \/ Post(s) \/ PostFails(s) \/ Parse(s) \/ AnswerLost(s)
  \/ Build(s) \/ Run(s) \/ RunConflicts(s) \/ RunFails(s) \/ RunAbandoned(s)
  \/ LateRun(s) \/ Validate(s)
  \/ Remove(s) \/ RemoveFails(s) \/ Release(s) \/ ReleaseFails(s)
  \/ TrapContainer(s) \/ TrapContainerFails(s) \/ TrapSlot(s) \/ TrapSlotFails(s)

Next ==
  \/ \E s \in Scripts : Work(s) \/ Interrupt(s) \/ Kill(s)
  \/ \E id \in Slots : Expire(id) \/ Delete(id)
  \/ Reap

Spec == Init /\ [][Next]_vars

-----------------------------------------------------------------------------
Variables ==
  [at : {"caps", "post", "answered", "build", "run", "validate", "rm", "delete",
         "trap", "trap-slot", "done", "killed"},
   SLOT_ID : Slots \union {NoSlot}, named : BOOLEAN, exit : {0, 1},
   late : BOOLEAN, own : Slots \union {NoSlot}, lost : BOOLEAN]

\* The type invariant: the slots table as the script sees it, containers of
\* granted slots only, and a name only for a slot the script knows.
TypeOK ==
  /\ rows \in [Slots -> State \union {Unused}]
  /\ container \in [Slots -> {"none", "created", "running"}]
  /\ script \in [Scripts -> Variables]
  /\ \A id \in Slots : rows[id] = Unused => container[id] = "none"
  /\ \A s \in Scripts : script[s].named => script[s].SLOT_ID # NoSlot

\* A run that ends by itself or is interrupted, at whatever step and after
\* whatever failure, leaves neither a container nor a slot, unless the trap's own
\* commands fail, the answer to the reservation was lost, or the script was cut off
\* from docker run; one that reports success never does (slot-workflow.sh:39-60,
\* 115-183).
NothingLeft ==
  \A s \in Scripts :
    At(s, "done") /\ script[s].own # NoSlot /\ (script[s].exit = 0 \/ ~script[s].lost)
      => container[script[s].own] = "none" /\ ~InTable(script[s].own)

\* The script gives a slot back only once its container is gone: nobody is
\* granted a port that the script still holds (slot-workflow.sh:44-53, 176-183).
ContainerGoesFirst ==
  [][\A s \in Scripts, id \in Slots :
       /\ script[s].own = id /\ script'[s] # script[s]
       /\ InTable(id) /\ ~InTable(id)'
       => container[id] = "none" \/ script[s].lost]_vars
=============================================================================
