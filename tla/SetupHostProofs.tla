--------------------------- MODULE SetupHostProofs ---------------------------
(***************************************************************************)
(* Theorems about SetupHost, for any versions, and whatever runs were cut  *)
(* off at or failed at.                                                    *)
(***************************************************************************)
EXTENDS SetupHost, TLAPS

\* The steps from one on.
FromColima == {"colima", "restart", "verify"}
AfterLoad == {"registry"} \union FromColima
FromLoad == {"load", "bootstrap"} \union AfterLoad
FromPlist == {"plist", "writePlist", "tornPlist"} \union FromLoad
FromBabysit == {"babysit"} \union FromPlist
FromConfig == {"config", "writeConfig"} \union FromBabysit
FromDeps == {"deps"} \union FromConfig

\* What the files say of one another, in any run.
Configured ==
  /\ files.config = "broken" => ~files.port
  /\ files.config = "default" => files.port
  /\ files.config \in {Absent, Torn, "bare"} => files.port = options.defaultPort
  /\ files.config \in {"default", "bare", "rewritten"} => files.babysit
  /\ At("writeConfig") => files.config = Torn

\* What a run in which no command has failed has done by now.
Done ==
  /\ script.failed => script.fault
  /\ ~script.fault =>
       /\ script.at \in FromDeps => files.agent = repo.agent
       /\ script.at \in FromConfig => files.deps
       /\ script.at \in FromBabysit => files.config # Absent
       /\ script.at \in FromPlist => files.babysit \/ files.config = "broken"
       /\ script.at \in FromLoad => files.plist = repo.plist
       /\ script.at \in AfterLoad =>
            loaded # Absent /\ loaded.agent = repo.agent /\ loaded.answers = files.port
       /\ script.at \in FromColima => options.agentOnly \/ files.registry
       /\ At("verify") => options.agentOnly \/ vm.running

\* A result is of the last run, and of the host as that run left it.
ResultStands ==
  /\ result \in {"ok", "failed"} => At("idle")
  /\ result = "ok" =>
       /\ files.agent = repo.agent /\ files.plist = repo.plist /\ files.babysit
       /\ loaded # Absent /\ loaded.agent = repo.agent /\ loaded.answers
       /\ options.agentOnly \/ (vm.running /\ vm.registry)
       /\ files.port /\ files.deps
  /\ FailuresAreKnown

Inv == TypeOK /\ Configured /\ Done /\ ResultStands

\* The steps that end a run, and leave the host as it is.
RunEnds == ToolsFail \/ Verify \/ VerifyFails \/ Cancel

\* The types of the variables, as TypeOK has them.
Scripts == [at : Steps, agentUpdated : BOOLEAN, plistUpdated : BOOLEAN,
            registryAdded : BOOLEAN, failed : BOOLEAN, fault : BOOLEAN]

Files == [agent : Versions \union {Absent, Torn},
          plist : Versions \union {Absent, Torn},
          config : {"default", "bare", Absent, Torn} \union Users,
          babysit : BOOLEAN, port : BOOLEAN, deps : BOOLEAN, registry : BOOLEAN]

Machines == [running : BOOLEAN, registry : BOOLEAN]

Agents == [agent : Versions \union {Absent, Torn}, plist : Versions, answers : BOOLEAN]

-----------------------------------------------------------------------------
\* Facts about records that the steps below need in this form.
LEMMA MachineStops == \A m \in Machines : [m EXCEPT !.running = FALSE] \in Machines
BY DEF Machines

LEMMA FreshScript ==
  Fresh \in [at : Steps, agentUpdated : BOOLEAN, plistUpdated : BOOLEAN,
             registryAdded : BOOLEAN, failed : BOOLEAN, fault : BOOLEAN]
BY DEF Fresh, Steps

LEMMA FreshStep == Fresh.at = "idle" /\ ~Fresh.failed /\ ~Fresh.fault
BY DEF Fresh

LEMMA AfterAgentStep == AfterAgent \in Steps
BY DEF AfterAgent, Steps

LEMMA StartedAgent ==
  ASSUME TypeOK
  PROVE  /\ \A p \in Versions : Started(p) \in Agents
         /\ loaded # Absent => loaded.plist \in Versions
<1>1. files.agent \in Versions \union {Absent, Torn} /\ files.deps \in BOOLEAN
        /\ files.port \in BOOLEAN
  BY DEF TypeOK
<1> DEFINE Up == files.agent \in Versions /\ files.deps /\ files.port
<1>2. Up \in BOOLEAN
  BY <1>1
<1>3. \A p \in Versions :
        [agent |-> files.agent, plist |-> p, answers |-> Up] \in Agents
  BY <1>1, <1>2 DEF Agents
<1> QED BY <1>3, SetupAssumption DEF Started, TypeOK

LEMMA ScriptAt ==
  \A s \in Scripts, a \in Steps : [s EXCEPT !.at = a, !.fault = TRUE] \in Scripts
BY DEF Scripts

LEMMA StartedAnswers ==
  ASSUME TypeOK, NEW p
  PROVE  /\ Started(p).agent = files.agent
         /\ files.agent \in Versions /\ files.deps => Started(p).answers = files.port
<1>1. files.port \in BOOLEAN /\ files.deps \in BOOLEAN
  BY DEF TypeOK
<1>2. CASE files.port
  BY <1>1, <1>2 DEF Started
<1>3. CASE ~files.port
  BY <1>1, <1>3 DEF Started
<1> QED BY <1>1, <1>2, <1>3

LEMMA EmptiedFiles ==
  ASSUME TypeOK, files' = Emptied
  PROVE  files'.agent = files.agent /\ files'.deps = files.deps
BY DEF TypeOK, Emptied

LEMMA EndsLeave ==
  ASSUME RunEnds
  PROVE  script' = Fresh /\ UNCHANGED <<options, repo, files, loaded, vm>>
BY DEF RunEnds, ToolsFail, Verify, VerifyFails, Cancel, End

LEMMA Starts == Init => Inv
<1> SUFFICES ASSUME Init PROVE Inv
  OBVIOUS
<1>1. files \in [agent : Versions \union {Absent, Torn},
                plist : Versions \union {Absent, Torn},
                config : {"default", "bare", Absent, Torn} \union Users,
                babysit : BOOLEAN, port : BOOLEAN, deps : BOOLEAN,
                registry : BOOLEAN]
  BY DEF Init
<1>2. vm \in [running : BOOLEAN, registry : BOOLEAN]
  <2>1. PICK b \in BOOLEAN : vm = [running |-> b, registry |-> FALSE]
    BY DEF Init
  <2> QED BY <2>1
<1>3. TypeOK
  BY <1>1, <1>2, FreshScript DEF Init, TypeOK
<1>4. Configured
  BY FreshStep, SetupAssumption DEF Init, Configured, At
<1>5. Done /\ ResultStands
  BY FreshStep DEF Init, Done, ResultStands, FailuresAreKnown, At, FromDeps,
                   FromConfig, FromBabysit, FromPlist, FromLoad, AfterLoad, FromColima
<1> QED BY <1>3, <1>4, <1>5 DEF Inv

LEMMA TypeKeeps ==
  ASSUME TypeOK, [Next]_vars
  PROVE  TypeOK'
<1> USE DEF TypeOK
<1>1. CASE Run
  BY <1>1 DEF Run, Goto, Steps
<1>2. CASE Tools
  BY <1>2 DEF Tools, Goto, Steps
<1>3. CASE RunEnds
  BY <1>3, EndsLeave, FreshScript
<1>4. CASE Agent
  BY <1>4 DEF Agent, Goto, MayStop, Steps
<1>5. CASE Swap
  BY <1>5 DEF Swap, Steps
<1>6. CASE SwapFails
  <2>1. PICK a \in Versions \union {Torn, files.agent} :
               files' = [files EXCEPT !.agent = a]
    BY <1>6 DEF SwapFails
  <2> QED BY <1>6, <2>1 DEF SwapFails, Steps
<1>7. CASE Deps
  BY <1>7 DEF Deps, Goto, Steps
<1>8. CASE DepsFail
  <2>1. script' \in Scripts
    BY <1>8 DEF DepsFail, Steps, Scripts
  <2> QED BY <1>8, <2>1 DEF DepsFail, Scripts
<1>9. CASE Config
  <2>1. script' \in Scripts
    BY <1>9 DEF Config, Goto, Steps, Scripts
  <2>2. options.defaultPort \in BOOLEAN /\ Torn \in {"default", "bare", Absent, Torn} \union Users
    OBVIOUS
  <2>3. files' \in Files
    BY <1>9, <2>2 DEF Config, Emptied, Files
  <2> QED BY <1>9, <2>1, <2>3 DEF Config, Scripts, Files
<1>10. CASE WriteConfig
  BY <1>10 DEF WriteConfig, Goto, Steps
<1>11. CASE WriteConfigFails
  BY <1>11 DEF WriteConfigFails, GotoFault, Steps
<1>12. CASE BabysitSection
  <2>1. script' \in Scripts
    BY <1>12 DEF BabysitSection, Goto, Steps, Scripts
  <2>2. files' \in Files
    <3>1. {"bare", "rewritten"} \subseteq {"default", "bare", Absent, Torn} \union Users
      BY DEF Users
    <3> QED BY <1>12, <3>1 DEF BabysitSection, Files
  <2> QED BY <1>12, <2>1, <2>2 DEF BabysitSection, Scripts, Files
<1>13. CASE BabysitFails
  <2>1. script' \in Scripts
    BY <1>13 DEF BabysitFails, Steps, Scripts, GotoFault
  <2> QED BY <1>13, <2>1 DEF BabysitFails, Scripts
<1>14. CASE Plist
  BY <1>14 DEF Plist, Goto, MayStop, Steps
<1>15. CASE OpenPlist
  BY <1>15 DEF OpenPlist, Goto, Steps
<1>16. CASE WritePlist
  BY <1>16 DEF WritePlist, Steps
<1>17. CASE PlistFails
  <2>1. script' \in Scripts
    BY <1>17 DEF PlistFails, Steps, Scripts
  <2> QED BY <1>17, <2>1 DEF PlistFails, Scripts
<1>18. CASE Load
  <2>1. script'.at \in Steps /\ script' = [script EXCEPT !.at = script'.at]
    BY <1>18, AfterAgentStep DEF Load, Goto, Steps
  <2>2. loaded' \in Agents \union {Absent}
    BY <1>18, StartedAgent DEF Load
  <2> QED BY <1>18, <2>1, <2>2 DEF Load, Agents
<1>19. CASE LoadFails
  <2>1. script' \in Scripts
    BY <1>19, AfterAgentStep, ScriptAt DEF LoadFails, GotoFault, Scripts
  <2> QED BY <1>19, <2>1 DEF LoadFails, Scripts
<1>20. CASE Bootstrap
  <2>1. loaded' \in Agents
    BY <1>20, StartedAgent DEF Bootstrap
  <2> QED BY <1>20, <2>1, AfterAgentStep DEF Bootstrap, Goto, Agents
<1>21. CASE BootstrapFails
  <2>1. script' \in Scripts
    BY <1>21, AfterAgentStep, ScriptAt DEF BootstrapFails, GotoFault, Scripts
  <2> QED BY <1>21, <2>1 DEF BootstrapFails, Scripts
<1>22. CASE Registry
  <2>1. script' \in Scripts
    BY <1>22 DEF Registry, Steps, Scripts
  <2>2. files' = [files EXCEPT !.registry = files'.registry] /\ files'.registry \in BOOLEAN
    BY <1>22 DEF Registry
  <2> QED BY <1>22, <2>1, <2>2 DEF Registry, Scripts
<1>23. CASE RegistryFails
  <2>1. script' \in Scripts
    BY <1>23 DEF RegistryFails, Steps, Scripts
  <2> QED BY <1>23, <2>1 DEF RegistryFails, Scripts
<1>24. CASE Colima
  BY <1>24 DEF Colima, Goto, Steps
<1>25. CASE StopColima
  <2>1. vm' \in Machines
    BY <1>25, MachineStops DEF StopColima, Machines
  <2> QED BY <1>25, <2>1 DEF StopColima, Machines
<1>26. CASE StartColima
  BY <1>26 DEF StartColima, Goto, Steps
<1>27. CASE ColimaFails
  <2>1. script' \in Scripts
    BY <1>27 DEF ColimaFails, Steps, Scripts
  <2> QED BY <1>27, <2>1 DEF ColimaFails, Scripts
<1>28. CASE Respawn
  <2>1. loaded' \in Agents
    BY <1>28, StartedAgent DEF Respawn
  <2> QED BY <1>28, <2>1 DEF Respawn, Agents
<1>29. CASE Commit
  BY <1>29 DEF Commit, Steps
<1>30. CASE EditConfig
  <2>1. files' \in [agent : Versions \union {Absent, Torn},
                plist : Versions \union {Absent, Torn},
                config : {"default", "bare", Absent, Torn} \union Users,
                babysit : BOOLEAN, port : BOOLEAN, deps : BOOLEAN,
                registry : BOOLEAN]
    BY <1>30 DEF EditConfig, Users
  <2> QED BY <1>30, <2>1 DEF EditConfig
<1>31. CASE Reboot
  <2>1. vm' \in Machines
    BY <1>31, MachineStops DEF Reboot, Machines
  <2>2. loaded' \in Agents \union {Absent}
    BY <1>31, StartedAgent DEF Reboot
  <2> QED BY <1>31, <2>1, <2>2 DEF Reboot, Machines, Agents
<1>32. CASE UNCHANGED vars
  BY <1>32 DEF vars, At
<1> QED BY <1>1, <1>2, <1>3, <1>4, <1>5, <1>6, <1>7, <1>8, <1>9, <1>10,
       <1>11, <1>12, <1>13, <1>14, <1>15, <1>16, <1>17, <1>18, <1>19, <1>20,
       <1>21, <1>22, <1>23, <1>24, <1>25, <1>26, <1>27, <1>28, <1>29, <1>30,
       <1>31, <1>32
       DEF Next, StepOfRun, Fault, RunEnds

LEMMA ConfigKeeps ==
  ASSUME TypeOK, Configured, [Next]_vars
  PROVE  Configured'
<1> USE SetupAssumption DEF TypeOK, Configured, Users
<1>1. CASE Run
  BY <1>1 DEF Run, At, Goto
<1>2. CASE Tools
  BY <1>2 DEF Tools, At, Goto
<1>3. CASE RunEnds
  BY <1>3, EndsLeave, FreshStep DEF At
<1>4. CASE Agent
  BY <1>4 DEF Agent, At, Goto, MayStop
<1>5. CASE Swap
  BY <1>5 DEF Swap, At
<1>6. CASE SwapFails
  BY <1>6 DEF SwapFails, At
<1>7. CASE Deps
  BY <1>7 DEF Deps, At, Goto
<1>8. CASE DepsFail
  BY <1>8 DEF DepsFail, At
<1>9. CASE Config
  <2>1. CASE files.config # Absent
    BY <1>9, <2>1 DEF Config, At, Goto
  <2>2. CASE files.config = Absent
    BY <1>9, <2>2 DEF Config, At, Goto, Emptied
  <2> QED BY <2>1, <2>2
<1>10. CASE WriteConfig
  BY <1>10 DEF WriteConfig, At, Goto
<1>11. CASE WriteConfigFails
  BY <1>11 DEF WriteConfigFails, At, GotoFault
<1>12. CASE BabysitSection
  BY <1>12 DEF BabysitSection, At, Goto, Patchable
<1>13. CASE BabysitFails
  BY <1>13 DEF BabysitFails, At, GotoFault
<1>14. CASE Plist
  BY <1>14 DEF Plist, At, Goto, MayStop
<1>15. CASE OpenPlist
  BY <1>15 DEF OpenPlist, At, Goto
<1>16. CASE WritePlist
  BY <1>16 DEF WritePlist, At
<1>17. CASE PlistFails
  BY <1>17 DEF PlistFails, At
<1>18. CASE Load
  BY <1>18 DEF Load, At, Goto, AfterAgent, Updated, Started
<1>19. CASE LoadFails
  BY <1>19 DEF LoadFails, At, GotoFault, AfterAgent
<1>20. CASE Bootstrap
  BY <1>20 DEF Bootstrap, At, Goto, AfterAgent, Started
<1>21. CASE BootstrapFails
  BY <1>21 DEF BootstrapFails, At, GotoFault, AfterAgent
<1>22. CASE Registry
  BY <1>22 DEF Registry, At
<1>23. CASE RegistryFails
  BY <1>23 DEF RegistryFails, At
<1>24. CASE Colima
  BY <1>24 DEF Colima, At, Goto
<1>25. CASE StopColima
  BY <1>25 DEF StopColima, At
<1>26. CASE StartColima
  BY <1>26 DEF StartColima, At, Goto
<1>27. CASE ColimaFails
  BY <1>27 DEF ColimaFails, At
<1>28. CASE Respawn
  BY <1>28 DEF Respawn, At, Started
<1>29. CASE Commit
  BY <1>29 DEF Commit, At
<1>30. CASE EditConfig
  <2>1. CASE \E b, p \in BOOLEAN :
               files' = [files EXCEPT !.config = "edited", !.babysit = b, !.port = p]
    <3>1. files'.config = "edited" /\ UNCHANGED script
      BY <1>30, <2>1 DEF EditConfig
    <3> QED BY <1>30, <3>1 DEF EditConfig, At
  <2>2. CASE files' = [files EXCEPT !.config = "broken", !.babysit = FALSE, !.port = FALSE]
    BY <1>30, <2>2 DEF EditConfig, At
  <2> QED BY <1>30, <2>1, <2>2 DEF EditConfig
<1>31. CASE Reboot
  BY <1>31 DEF Reboot, At, Started
<1>32. CASE UNCHANGED vars
  BY <1>32 DEF vars, At
<1> QED BY <1>1, <1>2, <1>3, <1>4, <1>5, <1>6, <1>7, <1>8, <1>9, <1>10,
       <1>11, <1>12, <1>13, <1>14, <1>15, <1>16, <1>17, <1>18, <1>19, <1>20,
       <1>21, <1>22, <1>23, <1>24, <1>25, <1>26, <1>27, <1>28, <1>29, <1>30,
       <1>31, <1>32
       DEF Next, StepOfRun, Fault, RunEnds

LEMMA DoneKeeps ==
  ASSUME TypeOK, Configured, Done, [Next]_vars
  PROVE  Done'
<1> USE SetupAssumption DEF TypeOK, Configured, Done, FromDeps, FromConfig, FromBabysit,
              FromPlist, FromLoad, AfterLoad, FromColima
<1>1. CASE Run
  BY <1>1 DEF Run, At, Goto
<1>2. CASE Tools
  BY <1>2 DEF Tools, At, Goto
<1>3. CASE RunEnds
  BY <1>3, EndsLeave, FreshStep DEF At
<1>4. CASE Agent
  BY <1>4 DEF Agent, At, Goto, MayStop
<1>5. CASE Swap
  BY <1>5 DEF Swap, At
<1>6. CASE SwapFails
  BY <1>6 DEF SwapFails, At
<1>7. CASE Deps
  BY <1>7 DEF Deps, At, Goto
<1>8. CASE DepsFail
  BY <1>8 DEF DepsFail, At
<1>9. CASE Config
  <2>1. CASE files.config # Absent
    BY <1>9, <2>1 DEF Config, At, Goto
  <2>2. CASE files.config = Absent
    <3>1. files'.agent = files.agent /\ files'.deps = files.deps
            /\ At("config") /\ Goto("writeConfig") /\ UNCHANGED <<options, repo, loaded, vm>>
      BY <1>9, <2>2, EmptiedFiles DEF Config
    <3> QED BY <3>1 DEF At, Goto
  <2> QED BY <2>1, <2>2
<1>10. CASE WriteConfig
  BY <1>10 DEF WriteConfig, At, Goto
<1>11. CASE WriteConfigFails
  BY <1>11 DEF WriteConfigFails, At, GotoFault
<1>12. CASE BabysitSection
  <2>1. CASE files.babysit \/ ~Patchable
    BY <1>12, <2>1 DEF BabysitSection, At, Goto, Patchable
  <2>2. CASE ~(files.babysit \/ ~Patchable)
    <3>1. files'.babysit /\ files'.config # Absent
            /\ files' = [files EXCEPT !.babysit = TRUE, !.config = files'.config]
      BY <1>12, <2>2 DEF BabysitSection
    <3>2. At("babysit") /\ Goto("plist") /\ UNCHANGED <<options, repo, loaded, vm>>
      BY <1>12 DEF BabysitSection
    <3> HIDE DEF Configured
    <3> QED BY <3>1, <3>2 DEF At, Goto
  <2> QED BY <2>1, <2>2
<1>13. CASE BabysitFails
  BY <1>13 DEF BabysitFails, At, GotoFault
<1>14. CASE Plist
  BY <1>14 DEF Plist, At, Goto, MayStop
<1>15. CASE OpenPlist
  BY <1>15 DEF OpenPlist, At, Goto
<1>16. CASE WritePlist
  BY <1>16 DEF WritePlist, At
<1>17. CASE PlistFails
  BY <1>17 DEF PlistFails, At
<1>18. CASE Load
  <2>1. CASE loaded # Absent /\ ~Updated
    <3>1. loaded' = Started(loaded.plist) /\ loaded' # Absent /\ Goto(AfterAgent)
            /\ At("load") /\ UNCHANGED <<options, repo, files, vm>>
      BY <1>18, <2>1, StartedAgent DEF Load, Agents
    <3>2. /\ loaded'.agent = files.agent
          /\ files.agent \in Versions /\ files.deps => loaded'.answers = files.port
      BY <3>1, StartedAnswers
    <3> QED BY <3>1, <3>2 DEF At, Goto, AfterAgent
  <2>2. CASE ~(loaded # Absent /\ ~Updated)
    BY <1>18, <2>2 DEF Load, At, Goto
  <2> QED BY <2>1, <2>2
<1>19. CASE LoadFails
  BY <1>19 DEF LoadFails, At, GotoFault, AfterAgent
<1>20. CASE Bootstrap
  <2>1. loaded' = Started(files.plist) /\ loaded' # Absent /\ Goto(AfterAgent)
          /\ At("bootstrap") /\ UNCHANGED <<options, repo, files, vm>>
    BY <1>20, StartedAgent DEF Bootstrap, Agents
  <2>2. /\ loaded'.agent = files.agent
        /\ files.agent \in Versions /\ files.deps => loaded'.answers = files.port
    BY <2>1, StartedAnswers
  <2> QED BY <2>1, <2>2 DEF At, Goto, AfterAgent
<1>21. CASE BootstrapFails
  BY <1>21 DEF BootstrapFails, At, GotoFault, AfterAgent
<1>22. CASE Registry
  BY <1>22 DEF Registry, At
<1>23. CASE RegistryFails
  BY <1>23 DEF RegistryFails, At
<1>24. CASE Colima
  BY <1>24 DEF Colima, At, Goto
<1>25. CASE StopColima
  BY <1>25 DEF StopColima, At
<1>26. CASE StartColima
  BY <1>26 DEF StartColima, At, Goto
<1>27. CASE ColimaFails
  BY <1>27 DEF ColimaFails, At
<1>28. CASE Respawn
  BY <1>28 DEF Respawn, At, Started
<1>29. CASE Commit
  BY <1>29 DEF Commit, At
<1>30. CASE EditConfig
  BY <1>30 DEF EditConfig, At
<1>31. CASE Reboot
  BY <1>31 DEF Reboot, At, Started
<1>32. CASE UNCHANGED vars
  BY <1>32 DEF vars, At
<1> QED BY <1>1, <1>2, <1>3, <1>4, <1>5, <1>6, <1>7, <1>8, <1>9, <1>10,
       <1>11, <1>12, <1>13, <1>14, <1>15, <1>16, <1>17, <1>18, <1>19, <1>20,
       <1>21, <1>22, <1>23, <1>24, <1>25, <1>26, <1>27, <1>28, <1>29, <1>30,
       <1>31, <1>32
       DEF Next, StepOfRun, Fault, RunEnds

LEMMA ResultKeeps ==
  ASSUME Inv, [Next]_vars
  PROVE  ResultStands'
<1> USE DEF Inv, TypeOK, Configured, Done, ResultStands, FailuresAreKnown,
              Stuck, FromDeps, FromConfig, FromBabysit,
              FromPlist, FromLoad, AfterLoad, FromColima
<1>1. CASE Run
  BY <1>1 DEF Run, At, Goto
<1>2. CASE Tools
  BY <1>2 DEF Tools, At, Goto
<1>3. CASE RunEnds
  <2>1. CASE Verify
    BY <2>1, FreshStep DEF Verify, At, End, Checks
  <2>2. CASE ToolsFail \/ VerifyFails \/ Cancel
    BY <2>2, FreshStep DEF ToolsFail, VerifyFails, Cancel, At, End
  <2> QED BY <1>3, <2>1, <2>2 DEF RunEnds
<1>4. CASE Agent
  BY <1>4 DEF Agent, At, Goto, MayStop
<1>5. CASE Swap
  BY <1>5 DEF Swap, At
<1>6. CASE SwapFails
  BY <1>6 DEF SwapFails, At
<1>7. CASE Deps
  BY <1>7 DEF Deps, At, Goto
<1>8. CASE DepsFail
  BY <1>8 DEF DepsFail, At
<1>9. CASE Config
  BY <1>9 DEF Config, At, Goto, Emptied
<1>10. CASE WriteConfig
  BY <1>10 DEF WriteConfig, At, Goto
<1>11. CASE WriteConfigFails
  BY <1>11 DEF WriteConfigFails, At, GotoFault
<1>12. CASE BabysitSection
  BY <1>12 DEF BabysitSection, At, Goto, Patchable
<1>13. CASE BabysitFails
  BY <1>13 DEF BabysitFails, At, GotoFault
<1>14. CASE Plist
  BY <1>14 DEF Plist, At, Goto, MayStop
<1>15. CASE OpenPlist
  BY <1>15 DEF OpenPlist, At, Goto
<1>16. CASE WritePlist
  BY <1>16 DEF WritePlist, At
<1>17. CASE PlistFails
  BY <1>17 DEF PlistFails, At
<1>18. CASE Load
  BY <1>18 DEF Load, At, Goto, AfterAgent, Updated, Started
<1>19. CASE LoadFails
  BY <1>19 DEF LoadFails, At, GotoFault, AfterAgent
<1>20. CASE Bootstrap
  BY <1>20 DEF Bootstrap, At, Goto, AfterAgent, Started
<1>21. CASE BootstrapFails
  BY <1>21 DEF BootstrapFails, At, GotoFault, AfterAgent
<1>22. CASE Registry
  BY <1>22 DEF Registry, At
<1>23. CASE RegistryFails
  BY <1>23 DEF RegistryFails, At
<1>24. CASE Colima
  BY <1>24 DEF Colima, At, Goto
<1>25. CASE StopColima
  BY <1>25 DEF StopColima, At
<1>26. CASE StartColima
  BY <1>26 DEF StartColima, At, Goto
<1>27. CASE ColimaFails
  BY <1>27 DEF ColimaFails, At
<1>28. CASE Respawn
  BY <1>28 DEF Respawn, At, Started
<1>29. CASE Commit
  BY <1>29 DEF Commit, At
<1>30. CASE EditConfig
  BY <1>30 DEF EditConfig, At
<1>31. CASE Reboot
  BY <1>31 DEF Reboot, At, Started
<1>32. CASE UNCHANGED vars
  BY <1>32 DEF vars, At
<1> QED BY <1>1, <1>2, <1>3, <1>4, <1>5, <1>6, <1>7, <1>8, <1>9, <1>10,
       <1>11, <1>12, <1>13, <1>14, <1>15, <1>16, <1>17, <1>18, <1>19, <1>20,
       <1>21, <1>22, <1>23, <1>24, <1>25, <1>26, <1>27, <1>28, <1>29, <1>30,
       <1>31, <1>32
       DEF Next, StepOfRun, Fault, RunEnds

LEMMA InvHolds == Spec => []Inv
<1>1. Inv /\ [Next]_vars => Inv'
  BY TypeKeeps, ConfigKeeps, DoneKeeps, ResultKeeps DEF Inv
<1> QED BY Starts, <1>1, PTL DEF Spec

\* The types of the host's files and services, wherever runs are cut off or fail.
THEOREM HostIsTyped == Spec => []TypeOK
<1>1. Inv => TypeOK
  BY DEF Inv
<1> QED BY <1>1, InvHolds, PTL

\* A run in which no command failed says "All checks passed" only of a host that
\* runs what the repository holds, wherever earlier runs were cut off or failed
\* (setup-dev-host.sh:174-355, 435-492).
THEOREM OkMeansCurrent == Spec => []DoneMeansCurrent
<1>1. Inv => DoneMeansCurrent
  BY DEF Inv, TypeOK, ResultStands, DoneMeansCurrent
<1> QED BY <1>1, InvHolds, PTL

\* A run in which no command failed fails for one of two reasons, whatever earlier
\* runs left behind (setup-dev-host.sh:326-355, 399-492).
THEOREM OnlyKnownFailures == Spec => []FailuresAreKnown
<1>1. Inv => FailuresAreKnown
  BY DEF Inv, ResultStands
<1> QED BY <1>1, InvHolds, PTL

\* No run replaces the user's settings by its own, or changes the port in them,
\* wherever earlier runs were cut off or failed (setup-dev-host.sh:206-267).
THEOREM EditsAreKept == Spec => SettingsAreKept
<1> DEFINE Kept == /\ files'.config \in Users
                   /\ At("idle") \/ files'.port = files.port
<1>1. Inv /\ [Next]_vars => [files.config \in Users => Kept]_vars
  <2> SUFFICES ASSUME Inv, Next, files.config \in Users PROVE Kept
    OBVIOUS
  <2> USE SetupAssumption DEF Inv, TypeOK, Users
  <2>1. CASE Config \/ WriteConfig \/ WriteConfigFails
    BY <2>1 DEF Configured, Config, WriteConfig, WriteConfigFails, At
  <2>2. CASE EditConfig
    BY <2>2 DEF EditConfig
  <2>3. CASE Swap \/ SwapFails \/ Deps \/ OpenPlist \/ WritePlist \/ Registry
    BY <2>3 DEF Swap, SwapFails, Deps, OpenPlist, WritePlist, Registry
  <2>4. CASE BabysitSection
    BY <2>4 DEF BabysitSection
  <2>5. CASE UNCHANGED files
    BY <2>5
  <2> QED
    BY <2>1, <2>2, <2>3, <2>4, <2>5
       DEF Next, StepOfRun, Fault, vars, Run, Tools, ToolsFail, Agent, DepsFail,
           BabysitFails, Plist, PlistFails, Load, LoadFails, Bootstrap,
           BootstrapFails, RegistryFails, Colima, StopColima, StartColima,
           ColimaFails, Verify, VerifyFails, Cancel, Respawn, Commit, Reboot
<1> QED BY <1>1, InvHolds, PTL DEF Spec, SettingsAreKept
=============================================================================
