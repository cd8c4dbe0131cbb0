------------------------------ MODULE SetupHost ------------------------------
(***************************************************************************)
(* scripts/setup-dev-host.sh: the steps of a run, each "already satisfied"  *)
(* or performed, on a host that keeps its files and services when a run is  *)
(* cancelled anywhere and started again.  The script's own flags do not     *)
(* outlive it.                                                              *)
(*                                                                          *)
(* The script has no `set -e` and looks at the outcome of few of the        *)
(* commands it calls.  Each may fail, in an action of its own that sets     *)
(* fault, the model's note (not the script's) that a command has failed in  *)
(* this run.  A step that leaves something half done when it is cut off is  *)
(* two or more actions.                                                     *)
(***************************************************************************)
CONSTANTS
  Versions,      \* of the agent, and of the plist
  Absent, Torn   \* no file, and a file whose writing was cut off

ASSUME SetupAssumption ==
  /\ Absent \notin Versions /\ Torn \notin Versions \union {Absent}
  /\ {Absent, Torn} \intersect
       {"default", "bare", "edited", "rewritten", "broken"} = {}
  /\ Absent \notin [agent : Versions \union {Absent, Torn}, plist : Versions,
                    answers : BOOLEAN]

VARIABLES
  options,  \* of all runs: [agentOnly, defaultPort: AGENT_PORT is 9100]
  repo,     \* what the repository holds: [agent, plist]
  files,    \* on the host: [agent, plist, config, babysit, port, deps, registry]
  loaded,   \* launchd's agent: [agent, plist, answers on AGENT_PORT], or Absent
  vm,       \* colima: [running, registry]
  script,   \* the run: step, flags and fault
  result    \* of the last run

vars == <<options, repo, files, loaded, vm, script, result>>

Steps == {"idle", "tools", "agent", "swap", "deps", "config", "writeConfig",
          "babysit", "plist", "writePlist", "tornPlist", "load", "bootstrap",
          "registry", "colima", "restart", "verify"}

\* A configuration of the user: as edited, as yaml.dump writes it, or one that
\* is no YAML mapping.  "bare" is an empty file with the babysit section added.
Users == {"edited", "rewritten", "broken"}

Fresh == [at |-> "idle", agentUpdated |-> FALSE, plistUpdated |-> FALSE,
          registryAdded |-> FALSE, failed |-> FALSE, fault |-> FALSE]

\* files.port: an agent started now would listen on AGENT_PORT; without an entry
\* in its configuration it takes 9100.
Init ==
  /\ options \in [agentOnly : BOOLEAN, defaultPort : BOOLEAN]
  /\ repo \in [agent : Versions, plist : Versions]
  /\ files = [agent |-> Absent, plist |-> Absent, config |-> Absent,
              babysit |-> FALSE, port |-> options.defaultPort,
              deps |-> FALSE, registry |-> FALSE]
  /\ loaded = Absent
  /\ vm \in {[running |-> b, registry |-> FALSE] : b \in BOOLEAN}
  /\ script = Fresh
  /\ result = "none"

At(step) == script.at = step

Goto(step) == script' = [script EXCEPT !.at = step]

GotoFault(step) == script' = [script EXCEPT !.at = step, !.fault = TRUE]

End(how) == script' = Fresh /\ result' = how

\* launchd starts the agent from the files, with the plist as it knows it.
Started(plist) ==
  [agent |-> files.agent, plist |-> plist,
   answers |-> files.agent \in Versions /\ files.deps /\ files.port]

-----------------------------------------------------------------------------
Run ==
  /\ At("idle")
  /\ Goto(IF options.agentOnly THEN "agent" ELSE "tools")
  /\ result' = "none"
  /\ UNCHANGED <<options, repo, files, loaded, vm>>

\* Step 1: what is missing is installed with brew, or the script exits.
Tools ==
  /\ At("tools")
  /\ Goto("agent")
  /\ UNCHANGED <<options, repo, files, loaded, vm, result>>

ToolsFail ==
  /\ At("tools")
  /\ End("gave up")
  /\ UNCHANGED <<options, repo, files, loaded, vm>>

\* The bootouts before a file is replaced may do nothing: they are `|| true`,
\* and address the domain of the caller, root's under sudo.
MayStop == loaded' \in {loaded, Absent}

\* Step 2b: a copy beside it, the agent stopped, then the swap.
Agent ==
  /\ At("agent")
  /\ IF files.agent = repo.agent
     THEN Goto("deps") /\ UNCHANGED loaded
     ELSE Goto("swap") /\ MayStop
  /\ UNCHANGED <<options, repo, files, vm, result>>

Swap ==
  /\ At("swap")
  /\ files' = [files EXCEPT !.agent = repo.agent]
  /\ script' = [script EXCEPT !.at = "deps", !.agentUpdated = TRUE]
  /\ UNCHANGED <<options, repo, loaded, vm, result>>

\* cp or mv fails: nothing is moved, or a torn copy, or one of an earlier run.
SwapFails ==
  /\ At("swap")
  /\ \E a \in Versions \union {Torn, files.agent} :
       files' = [files EXCEPT !.agent = a]
  /\ script' = [script EXCEPT !.at = "deps", !.agentUpdated = TRUE, !.fault = TRUE]
  /\ UNCHANGED <<options, repo, loaded, vm, result>>

\* Step 2c.
Deps ==
  /\ At("deps")
  /\ Goto("config")
  /\ files' = [files EXCEPT !.deps = TRUE]
  /\ UNCHANGED <<options, repo, loaded, vm, result>>

DepsFail ==
  /\ At("deps") /\ ~files.deps
  /\ script' = [script EXCEPT !.at = "config", !.failed = TRUE, !.fault = TRUE]
  /\ UNCHANGED <<options, repo, files, loaded, vm, result>>

\* An empty configuration: the agent takes the default port.
Emptied == [files EXCEPT !.config = Torn, !.babysit = FALSE,
                         !.port = options.defaultPort]

\* Mutated form of Config: the default is written in any case.
ConfigAlways ==
  /\ At("config")
  /\ Goto("writeConfig")
  /\ files' = Emptied
  /\ UNCHANGED <<options, repo, loaded, vm, result>>

\* Step 2d: an existing file is kept; otherwise `cat >` opens it, and writes.
Config ==
  /\ At("config")
  /\ IF files.config # Absent
     THEN Goto("babysit") /\ UNCHANGED files
     ELSE Goto("writeConfig") /\ files' = Emptied
  /\ UNCHANGED <<options, repo, loaded, vm, result>>

WriteConfig ==
  /\ At("writeConfig")
  /\ Goto("babysit")
  /\ files' = [files EXCEPT !.config = "default", !.babysit = TRUE, !.port = TRUE]
  /\ UNCHANGED <<options, repo, loaded, vm, result>>

\* The file cannot be opened, or not be written.
WriteConfigFails ==
  /\ At("writeConfig")
  /\ GotoFault("babysit")
  /\ \E c \in {Absent, Torn} : files' = [files EXCEPT !.config = c]
  /\ UNCHANGED <<options, repo, loaded, vm, result>>

\* Without pyyaml, or on no YAML mapping, the patch raises; the script goes on.
Patchable == files.deps /\ files.config \notin {Absent, "broken"}

\* The section is added to a file that has none: the whole file is dumped anew,
\* without its comments, and replaces the old one.
BabysitSection ==
  /\ At("babysit")
  /\ Goto("plist")
  /\ IF files.babysit \/ ~Patchable
     THEN UNCHANGED files
     ELSE files' = [files EXCEPT
            !.babysit = TRUE, !.config = IF @ = Torn THEN "bare" ELSE "rewritten"]
  /\ UNCHANGED <<options, repo, loaded, vm, result>>

BabysitFails ==
  /\ At("babysit") /\ ~files.babysit
  /\ GotoFault("plist")
  /\ UNCHANGED <<options, repo, files, loaded, vm, result>>

\* Step 2e: compare, stop the agent, write (not by a replacement).
Plist ==
  /\ At("plist")
  /\ IF files.plist = repo.plist
     THEN Goto("load") /\ UNCHANGED loaded
     ELSE Goto("writePlist") /\ MayStop
  /\ UNCHANGED <<options, repo, files, vm, result>>

OpenPlist ==
  /\ At("writePlist")
  /\ Goto("tornPlist")
  /\ files' = [files EXCEPT !.plist = Torn]
  /\ UNCHANGED <<options, repo, loaded, vm, result>>

WritePlist ==
  /\ At("tornPlist")
  /\ files' = [files EXCEPT !.plist = repo.plist]
  /\ script' = [script EXCEPT !.at = "load", !.plistUpdated = TRUE]
  /\ UNCHANGED <<options, repo, loaded, vm, result>>

\* Opening or writing fails: `sudo cp` is looked at, printf is not.
PlistFails ==
  /\ script.at \in {"writePlist", "tornPlist"}
  /\ script' = [script EXCEPT
       !.at = "load", !.plistUpdated = options.agentOnly,
       !.failed = @ \/ ~options.agentOnly, !.fault = TRUE]
  /\ UNCHANGED <<options, repo, files, loaded, vm, result>>

AfterAgent == IF options.agentOnly THEN "verify" ELSE "registry"

Updated == script.agentUpdated \/ script.plistUpdated

\* Mutated form of Load: an agent that runs, and of which no file changed in
\* this run, is left alone.
LoadUnlessRunning ==
  /\ At("load")
  /\ IF loaded # Absent /\ ~Updated
     THEN Goto(AfterAgent) /\ UNCHANGED loaded
     ELSE Goto("bootstrap") /\ loaded' = Absent
  /\ UNCHANGED <<options, repo, files, vm, result>>

\* Mutated form of Load: loaded again only what changed in this run.
LoadIfUpdated ==
  /\ At("load")
  /\ IF Updated
     THEN Goto("bootstrap") /\ loaded' = Absent
     ELSE /\ Goto(AfterAgent)
          /\ loaded' = IF loaded = Absent THEN Absent ELSE Started(loaded.plist)
  /\ UNCHANGED <<options, repo, files, vm, result>>

\* Step 2f: a loaded agent is taken out if its files changed in this run, and
\* otherwise restarted (kickstart) with the plist that launchd knows.
Load ==
  /\ At("load")
  /\ IF loaded # Absent /\ ~Updated
     THEN Goto(AfterAgent) /\ loaded' = Started(loaded.plist)
     ELSE Goto("bootstrap") /\ loaded' = Absent
  /\ UNCHANGED <<options, repo, files, vm, result>>

\* The bootout fails, and then the bootstrap of what is still loaded, or the
\* kickstart does: the agent stays as it is.
LoadFails ==
  /\ At("load") /\ loaded # Absent
  /\ GotoFault(AfterAgent)
  /\ UNCHANGED <<options, repo, files, loaded, vm, result>>

\* Mutated form of Bootstrap: whatever is in the file is taken for a plist.
BootstrapAnything ==
  /\ At("bootstrap")
  /\ Goto(AfterAgent)
  /\ loaded' = Started(files.plist)
  /\ UNCHANGED <<options, repo, files, vm, result>>

Bootstrap ==
  /\ At("bootstrap")
  /\ files.plist \in Versions
  /\ Goto(AfterAgent)
  /\ loaded' = Started(files.plist)
  /\ UNCHANGED <<options, repo, files, vm, result>>

\* A warning: the agent starts at the next login.
BootstrapFails ==
  /\ At("bootstrap")
  /\ GotoFault(AfterAgent)
  /\ UNCHANGED <<options, repo, files, loaded, vm, result>>

\* Step 3a: patched by a replacement if pyyaml is there, added or not.
Registry ==
  /\ At("registry")
  /\ files' = [files EXCEPT !.registry = files.registry \/ files.deps]
  /\ script' = [script EXCEPT !.at = "colima", !.registryAdded = ~files.registry]
  /\ UNCHANGED <<options, repo, loaded, vm, result>>

RegistryFails ==
  /\ At("registry") /\ ~files.registry
  /\ script' = [script EXCEPT !.at = "colima", !.registryAdded = TRUE, !.fault = TRUE]
  /\ UNCHANGED <<options, repo, files, loaded, vm, result>>

\* Step 3b: a running machine is restarted if this run added the registry.
Colima ==
  /\ At("colima")
  /\ Goto(IF vm.running /\ ~script.registryAdded THEN "verify" ELSE "restart")
  /\ UNCHANGED <<options, repo, files, loaded, vm, result>>

\* `colima restart` stops a running machine and starts it, `colima start` starts.
StopColima ==
  /\ At("restart") /\ vm.running
  /\ vm' = [vm EXCEPT !.running = FALSE]
  /\ UNCHANGED <<options, repo, files, loaded, script, result>>

StartColima ==
  /\ At("restart") /\ ~vm.running
  /\ Goto("verify")
  /\ vm' = [running |-> TRUE, registry |-> files.registry]
  /\ UNCHANGED <<options, repo, files, loaded, result>>

\* Either half fails; the script asks only whether the machine runs now.
ColimaFails ==
  /\ At("restart")
  /\ script' = [script EXCEPT
       !.at = "verify", !.failed = @ \/ ~vm.running, !.fault = TRUE]
  /\ UNCHANGED <<options, repo, files, loaded, vm, result>>

Checks ==
  /\ loaded # Absent /\ loaded.answers
  /\ options.agentOnly \/ (vm.running /\ vm.registry)

\* Step 4 and the summary, which says "All checks passed" or "failed".
Verify ==
  /\ At("verify")
  /\ End(IF ~script.failed /\ Checks
         THEN IF script.fault THEN "ok after a fault" ELSE "ok"
         ELSE IF script.fault THEN "failed after a fault" ELSE "failed")
  /\ UNCHANGED <<options, repo, files, loaded, vm>>

\* The agent needs longer than 3 s to start, or a check does not come back.
VerifyFails ==
  /\ At("verify")
  /\ End("failed after a fault")
  /\ UNCHANGED <<options, repo, files, loaded, vm>>

-----------------------------------------------------------------------------
\* Ctrl-C, a lost SSH session.
Cancel ==
  /\ ~At("idle")
  /\ End("cancelled")
  /\ UNCHANGED <<options, repo, files, loaded, vm>>

\* An agent that ended is started again by launchd (KeepAlive).
Respawn ==
  /\ loaded # Absent
  /\ loaded' = Started(loaded.plist)
  /\ UNCHANGED <<options, repo, files, vm, script, result>>

\* Between two runs: a new commit, an edit of the configuration, a reboot.
Commit ==
  /\ At("idle")
  /\ repo' \in [agent : Versions, plist : Versions]
  /\ result' = "none"
  /\ UNCHANGED <<options, files, loaded, vm, script>>

EditConfig ==
  /\ At("idle")
  /\ files.config # Absent
  /\ \/ \E b, p \in BOOLEAN :
          files' = [files EXCEPT !.config = "edited", !.babysit = b, !.port = p]
     \/ files' = [files EXCEPT !.config = "broken", !.babysit = FALSE, !.port = FALSE]
  /\ result' = "none"
  /\ UNCHANGED <<options, repo, loaded, vm, script>>

Reboot ==
  /\ At("idle")
  /\ loaded' = IF files.plist \in Versions THEN Started(files.plist) ELSE Absent
  /\ vm' = [vm EXCEPT !.running = FALSE]
  /\ result' = "none"
  /\ UNCHANGED <<options, repo, files, script>>

StepOfRun ==
  \/ Run \/ Tools \/ Agent \/ Swap \/ Deps \/ Config \/ WriteConfig
  \/ BabysitSection \/ Plist \/ OpenPlist \/ WritePlist \/ Load \/ Bootstrap
  \/ Registry \/ Colima \/ StopColima \/ StartColima \/ Verify

Fault ==
  \/ ToolsFail \/ SwapFails \/ DepsFail \/ WriteConfigFails \/ BabysitFails
  \/ PlistFails \/ LoadFails \/ BootstrapFails \/ RegistryFails \/ ColimaFails
  \/ VerifyFails

Next ==
  StepOfRun \/ Fault \/ Cancel \/ Respawn \/ Commit \/ EditConfig \/ Reboot

Spec == Init /\ [][Next]_vars

-----------------------------------------------------------------------------
\* The type invariant of the host's files and services and the script's flags.
TypeOK ==
  /\ options \in [agentOnly : BOOLEAN, defaultPort : BOOLEAN]
  /\ repo \in [agent : Versions, plist : Versions]
  /\ files \in [agent : Versions \union {Absent, Torn},
                plist : Versions \union {Absent, Torn},
                config : {"default", "bare", Absent, Torn} \union Users,
                babysit : BOOLEAN, port : BOOLEAN, deps : BOOLEAN,
                registry : BOOLEAN]
  /\ loaded \in [agent : Versions \union {Absent, Torn}, plist : Versions,
                 answers : BOOLEAN] \union {Absent}
  /\ vm \in [running : BOOLEAN, registry : BOOLEAN]
  /\ script \in [at : Steps, agentUpdated : BOOLEAN, plistUpdated : BOOLEAN,
                 registryAdded : BOOLEAN, failed : BOOLEAN, fault : BOOLEAN]

\* A run in which no command failed and that says "All checks passed" leaves the
\* repository's agent installed and running and its plist installed, the babysit
\* section configured and a container runtime that knows the registry, whatever
\* earlier runs were cut off at or failed at (setup-dev-host.sh:174-355, 435-492).
\* The plist that launchd goes by is not part of it: README, section 6.
DoneMeansCurrent ==
  result = "ok" =>
    /\ files.agent = repo.agent /\ files.plist = repo.plist /\ files.babysit
    /\ loaded # Absent /\ loaded.agent = repo.agent /\ loaded.answers
    /\ options.agentOnly \/ vm = [running |-> TRUE, registry |-> TRUE]

\* Colima runs with a daemon configuration older than its file.
Stuck == vm.running /\ files.registry /\ ~vm.registry

\* A run in which no command failed can end in failed checks for two reasons
\* only, whatever earlier runs were cut off at or failed at: the port of a
\* configuration that is not the script's own default, and a patch of colima.yaml
\* that was not followed by a restart (setup-dev-host.sh:326-355, 399-492).
FailuresAreKnown ==
  result = "failed" =>
    \/ ~files.port /\ files.config # "default"
    \/ ~options.agentOnly /\ Stuck

\* Section 3.2 of specs/dev-host-setup-v0.1.md: a run may be cancelled at any
\* point and repeated, so a run in which no command fails ends well on a
\* configuration with the right port.
RerunSucceeds == result = "failed" => ~files.port

\* The script never puts its default in the place of a configuration of the user,
\* nor changes the port in it, whatever was cut off before
\* (setup-dev-host.sh:206-267).  Comments and layout it does not keep.
SettingsAreKept ==
  [][files.config \in Users =>
       /\ files'.config \in Users
       /\ At("idle") \/ files'.port = files.port]_vars
=============================================================================
