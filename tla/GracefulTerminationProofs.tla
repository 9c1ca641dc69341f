--------------------- MODULE GracefulTerminationProofs ---------------------
(* Theorems about GracefulTermination, for every group of instances.       *)
EXTENDS GracefulTermination, FiniteSetTheorems, TLAPS

-----------------------------------------------------------------------------
(* The case statement of the script: where it begins and what follows.     *)
LEMMA StepFacts ==
  /\ Head(Steps) \in Midway \ {"stopWorker"}
  /\ Head(Steps) \in Waits => Head(Steps) \in Processes
  /\ \A s : /\ NextStep(s) \in (Midway \ {"stopWorker"}) \cup {"done"}
            /\ NextStep(s) \in Waits => NextStep(s) \in Processes
<1>1. CASE NodeType = "master"
  BY <1>1 DEF Steps, StepMap, NextStep, Midway, Waits,
     Processes, ComponentMap
<1>2. CASE NodeType = "query"
  BY <1>2 DEF Steps, StepMap, NextStep, Midway, Waits,
     Processes, ComponentMap
<1>3. CASE NodeType = "data"
  BY <1>3 DEF Steps, StepMap, NextStep, Midway, Waits,
     Processes, ComponentMap
<1>4. CASE NodeType = "historical"
  BY <1>4 DEF Steps, StepMap, NextStep, Midway, Waits,
     Processes, ComponentMap
<1>5. CASE NodeType = "middleManager"
  BY <1>5 DEF Steps, StepMap, NextStep, Midway, Waits,
     Processes, ComponentMap
<1>6. QED
  BY <1>1, <1>2, <1>3, <1>4, <1>5, NodeTypeAssumption DEF ComponentMap

LEMMA GoToType ==
  ASSUME TypeOK, NEW i \in Instance, NEW s \in ScriptStates, GoTo(i, s)
  PROVE  /\ script' \in [Instance -> ScriptStates]
         /\ polling' \subseteq Instance /\ lastSleep' \subseteq Instance
         /\ loopAge' \in [Instance -> Nat]
BY DEF TypeOK, GoTo

-----------------------------------------------------------------------------
(* Type correctness: the states of the group, of the scripts and of the    *)
(* boots stay within those the code can produce.                           *)
LEMMA InitType == Init => TypeOK
<1> SUFFICES ASSUME Init PROVE TypeOK
  OBVIOUS
<1>1. Cardinality(Group) \in Nat
  BY GroupAssumption, FS_Subset, FS_CardinalityType
<1>2. QED
  BY <1>1, GroupAssumption, TimeAssumption
     DEF Init, TypeOK, Life, ScriptStates, Early, BootStates

LEMMA TerminateType ==
  ASSUME TypeOK, NEW S \in SUBSET Instance, Terminate(S)
  PROVE  life' \in [Instance -> Life] /\ tasks' \in [Instance -> Nat]
BY BoundAssumption DEF Terminate, TypeOK, Life

LEMMA GroupType == TypeOK /\ GroupNext => TypeOK'
<1> SUFFICES ASSUME TypeOK, GroupNext PROVE TypeOK'
  OBVIOUS
<1> USE DEF scriptVars, nodeVars, bootVars
<1>1. CASE StartBatch
  <2>1. PICK S \in SUBSET OldNodes : batch' = S /\ Terminate(S)
    BY <1>1 DEF StartBatch
  <2>2. S \subseteq Instance
    BY GroupAssumption DEF OldNodes
  <2>3. QED
    BY <1>1, <2>1, <2>2, TerminateType DEF StartBatch, TypeOK
<1>2. CASE CompleteUpdate
  BY <1>2 DEF CompleteUpdate, TypeOK
<1>3. CASE FailUpdate
  BY <1>3 DEF FailUpdate, TypeOK
<1>4. CASE ScaleOut
  BY <1>4 DEF ScaleOut, TypeOK
<1>5. ASSUME NEW n \in Instance, Launch(n) PROVE TypeOK'
  BY <1>5 DEF Launch, TypeOK, Life, BootStates, Checks, Terminating
<1>6. ASSUME NEW i \in Instance, ScaleIn(i) PROVE TypeOK'
  BY <1>6, TerminateType DEF ScaleIn, TypeOK
<1>7. ASSUME NEW i \in Instance, CompleteHook(i) PROVE TypeOK'
  BY <1>7 DEF CompleteHook, TypeOK, Life
<1>8. ASSUME NEW i \in Instance, HookTimeout(i) PROVE TypeOK'
  BY <1>8 DEF HookTimeout, TypeOK, Life
<1>9. QED
  BY <1>1, <1>2, <1>3, <1>4, <1>5, <1>6, <1>7, <1>8 DEF GroupNext

LEMMA ScriptType ==
  ASSUME TypeOK, NEW i \in Instance, ScriptNext(i)
  PROVE  TypeOK'
<1> USE DEF groupVars, bootVars, nodeVars
<1>1. \A s \in ScriptStates : GoTo(i, s) => /\ script' \in [Instance -> ScriptStates]
                                            /\ polling' \subseteq Instance
                                            /\ lastSleep' \subseteq Instance
                                            /\ loopAge' \in [Instance -> Nat]
  BY GoToType
<1>2. /\ Head(Steps) \in ScriptStates
      /\ \A s : NextStep(s) \in ScriptStates
      /\ Ended \cup Early \cup {"stopWorker"} \subseteq ScriptStates
  BY StepFacts DEF Midway, ScriptStates, Ended
<1>3. CASE StartScript(i)
  BY <1>1, <1>2, <1>3 DEF StartScript, TypeOK, Early
<1>4. CASE GetSecret(i)
  BY <1>1, <1>2, <1>4 DEF GetSecret, TypeOK, Early, Ended
<1>5. CASE PutParameter(i)
  BY <1>1, <1>2, <1>5 DEF PutParameter, TypeOK, Ended
<1>6. CASE DisableMiddleManager(i)
  BY <1>1, <1>2, <1>6 DEF DisableMiddleManager, TypeOK
<1>7. ASSUME NEW p \in Waits, CheckProcess(i, p) PROVE TypeOK'
  BY <1>1, <1>2, <1>7 DEF CheckProcess, TypeOK
<1>8. ASSUME NEW p \in Waits, PollStop(i, p) PROVE TypeOK'
  BY <1>1, <1>2, <1>8 DEF PollStop, TypeOK
<1>9. ASSUME NEW p \in Waits, PollExhausted(i, p) PROVE TypeOK'
  BY <1>1, <1>2, <1>9 DEF PollExhausted, TypeOK
<1>last. ASSUME NEW p \in Waits, PollLast(i, p) PROVE TypeOK'
  BY <1>last DEF PollLast, TypeOK
<1>10. CASE SeeNoTasks(i)
  BY <1>1, <1>2, <1>10 DEF SeeNoTasks, TypeOK
<1>11. CASE SeeNoWorker(i)
  BY <1>1, <1>2, <1>11 DEF SeeNoWorker, TypeOK, Ended
<1>12. CASE TasksExhausted(i)
  BY <1>1, <1>2, <1>12 DEF TasksExhausted, TypeOK
<1>13. CASE StopWorker(i)
  BY <1>1, <1>2, <1>13 DEF StopWorker, TypeOK, Ended
<1>14. CASE KillScript(i)
  BY <1>1, <1>2, <1>14 DEF KillScript, TypeOK, Ended
<1>15. QED
  BY <1>3, <1>4, <1>5, <1>6, <1>7, <1>8, <1>9, <1>last, <1>10, <1>11, <1>12, <1>13, <1>14
     DEF ScriptNext

LEMMA WorkerType ==
  ASSUME TypeOK, NEW i \in Instance, NodeNext(i)
  PROVE  TypeOK'
<1> USE DEF groupVars, scriptVars, bootVars
<1>1. ASSUME NEW p \in Processes, Crash(i, p) PROVE TypeOK'
  BY <1>1 DEF Crash, TypeOK
<1>2. ASSUME NEW p \in Processes, Restart(i, p) PROVE TypeOK'
  BY <1>2 DEF Restart, TypeOK
<1>3. CASE AssignTask(i)
  BY <1>3 DEF AssignTask, TypeOK
<1>4. CASE FinishTask(i)
  BY <1>4 DEF FinishTask, TypeOK
<1>5. QED
  BY <1>1, <1>2, <1>3, <1>4 DEF NodeNext

LEMMA BootType ==
  ASSUME TypeOK, NEW n \in Instance, BootNext(n)
  PROVE  TypeOK'
<1> USE DEF scriptVars, nodeVars, BootFrame, Advance, TypeOK, Life, BootStates, Checks
<1>1. CASE CheckLeader(n)
  BY <1>1 DEF CheckLeader
<1>2. CASE CheckHealth(n)
  BY <1>2 DEF CheckHealth
<1>3. CASE CheckProcessStatus(n)
  BY <1>3 DEF CheckProcessStatus
<1>4. CASE WaitForSegments(n) \/ CheckRaises(n)
  BY <1>4 DEF WaitForSegments, CheckRaises
<1>5. CASE ResetParameter(n)
  BY <1>5 DEF ResetParameter
<1>6. CASE SignalSuccess(n)
  BY <1>6 DEF SignalSuccess
<1>7. QED
  BY <1>1, <1>2, <1>3, <1>4, <1>5, <1>6 DEF BootNext

LEMMA TickType == TypeOK /\ Tick => TypeOK'
BY TimeAssumption DEF Tick, TypeOK, groupVars, nodeVars

LEMMA TypeCorrectStep == TypeOK /\ [Next]_vars => TypeOK'
<1> SUFFICES ASSUME TypeOK, [Next]_vars PROVE TypeOK'
  OBVIOUS
<1>1. CASE UNCHANGED vars
  BY <1>1 DEF vars, groupVars, scriptVars, nodeVars, bootVars, TypeOK
<1>2. CASE Rest
  BY <1>1, <1>2 DEF Rest
<1>3. QED
  BY <1>1, <1>2, GroupType, ScriptType, WorkerType, BootType, TickType DEF Next

(* Every state the specification reaches is of the types the code has.     *)
THEOREM TypeCorrect == Spec => []TypeOK
BY InitType, TypeCorrectStep, PTL DEF Spec

-----------------------------------------------------------------------------
(* A script only polls for a process that it found running and left so.    *)
LEMMA PollingStep ==
  TypeOK /\ PollingInv /\ [Next]_vars => PollingInv'
<1> SUFFICES ASSUME TypeOK, PollingInv, [Next]_vars PROVE PollingInv'
  OBVIOUS
<1> USE DEF PollingInv
<1>1. ASSUME UNCHANGED <<script, polling, lastSleep, procs>> PROVE PollingInv'
  BY <1>1
<1>2. CASE UNCHANGED vars \/ GroupNext \/ Tick \/ Rest
  BY <1>1, <1>2 DEF vars, GroupNext, StartBatch, CompleteUpdate, FailUpdate, ScaleOut,
     Launch, ScaleIn, CompleteHook, HookTimeout, Tick, Rest, scriptVars, nodeVars
<1>3. ASSUME NEW i \in Instance, BootNext(i) PROVE PollingInv'
  BY <1>1, <1>3 DEF BootNext, CheckLeader, CheckHealth, CheckProcessStatus,
     WaitForSegments, CheckRaises, ResetParameter, SignalSuccess, BootFrame, scriptVars, nodeVars
<1>4. ASSUME NEW i \in Instance, NodeNext(i) PROVE PollingInv'
  <2>1. CASE AssignTask(i) \/ FinishTask(i)
    BY <1>1, <2>1 DEF AssignTask, FinishTask, scriptVars
  <2>2. ASSUME NEW p \in Processes, Crash(i, p) \/ Restart(i, p) PROVE PollingInv'
    BY <2>2 DEF Crash, Restart, scriptVars, TypeOK
  <2>3. QED
    BY <1>4, <2>1, <2>2 DEF NodeNext
<1>5. ASSUME NEW i \in Instance, ScriptNext(i) PROVE PollingInv'
  <2>1. ASSUME NEW s, GoTo(i, s), UNCHANGED procs, s \in Waits => s \in Processes
        PROVE  PollingInv'
    BY <2>1 DEF GoTo, TypeOK
  <2>2. CASE StartScript(i) \/ GetSecret(i) \/ PutParameter(i) \/ KillScript(i)
    BY <2>1, <2>2, StepFacts
       DEF StartScript, GetSecret, PutParameter, KillScript, nodeVars, Waits
  <2>3. CASE DisableMiddleManager(i)
    BY <2>1, <2>3, StepFacts DEF DisableMiddleManager
  <2>4. CASE SeeNoTasks(i) \/ SeeNoWorker(i) \/ TasksExhausted(i)
    BY <2>1, <2>4, StepFacts DEF SeeNoTasks, SeeNoWorker, TasksExhausted, nodeVars, Waits
  <2>5. ASSUME NEW p \in Waits, CheckProcess(i, p) PROVE PollingInv'
    <3>1. CASE procs[i][p] = "running"
      BY <2>5, <3>1 DEF CheckProcess, Runs, nodeVars, TypeOK
    <3>2. CASE procs[i][p] # "running"
      BY <2>1, <2>5, <3>2, StepFacts DEF CheckProcess, nodeVars
    <3>3. QED
      BY <3>1, <3>2
  <2>6. ASSUME NEW p \in Waits, PollExhausted(i, p) PROVE PollingInv'
    BY <2>1, <2>6, StepFacts DEF PollExhausted, nodeVars
  <2>last. ASSUME NEW p \in Waits, PollLast(i, p) PROVE PollingInv'
    BY <2>last DEF PollLast, nodeVars
  <2>7. ASSUME NEW p \in Waits, PollStop(i, p) PROVE PollingInv'
    BY <2>7, StepFacts DEF PollStop, GoTo, TypeOK
  <2>8. CASE StopWorker(i)
    BY <2>8 DEF StopWorker, GoTo, TypeOK, Waits
  <2>9. QED
    BY <1>5, <2>2, <2>3, <2>4, <2>5, <2>6, <2>last, <2>7, <2>8 DEF ScriptNext
<1>6. QED
  BY <1>2, <1>3, <1>4, <1>5 DEF Next

(* What the steps of a script leave alone and where they can lead.         *)
LEMMA ScriptFrame ==
  ASSUME TypeOK, NEW i \in Instance, ScriptNext(i)
  PROVE  /\ life[i] = "terminating" /\ UNCHANGED <<groupVars, bootVars, hookAge>>
         /\ \A j \in Instance : j # i => script'[j] = script[j]
         /\ script[i] \notin Early => script'[i] \notin Early
         /\ script'[i] \in Midway => script[i] \in Midway \/ param' = i
         /\ param' # param => param' = i /\ script[i] = "param"
<1> USE DEF Runs
<1>1. /\ \A s : NextStep(s) \notin Early
      /\ Midway \cap (Early \cup Ended) = {}
      /\ {"disable", "tasks", "stopWorker"} \cup Waits \subseteq Midway
      /\ {"none", "secret", "param"} = Early
      /\ {"failed", "killed", "drained", "workerGone"} \subseteq Ended
  BY StepFacts DEF Midway, Waits, Early, Ended
<1>2. CASE StartScript(i) \/ GetSecret(i)
  BY <1>1, <1>2 DEF StartScript, GetSecret, GoTo, TypeOK
<1>3. CASE PutParameter(i)
  BY <1>1, <1>3 DEF PutParameter, GoTo, TypeOK
<1>4. CASE DisableMiddleManager(i)
  BY <1>1, <1>4 DEF DisableMiddleManager, GoTo, TypeOK
<1>5. ASSUME NEW p \in Waits,
             CheckProcess(i, p) \/ PollStop(i, p) \/ PollLast(i, p) \/ PollExhausted(i, p)
      PROVE  /\ life[i] = "terminating" /\ UNCHANGED <<groupVars, bootVars, hookAge, param>>
             /\ \A j \in Instance : j # i => script'[j] = script[j]
             /\ script[i] \in Midway /\ script'[i] \notin Early
  BY <1>1, <1>5 DEF CheckProcess, PollStop, PollLast, PollExhausted, GoTo, TypeOK
<1>6. CASE SeeNoTasks(i) \/ SeeNoWorker(i) \/ TasksExhausted(i)
  BY <1>1, <1>6 DEF SeeNoTasks, SeeNoWorker, TasksExhausted, GoTo, TypeOK
<1>7. CASE StopWorker(i) \/ KillScript(i)
  BY <1>1, <1>7 DEF StopWorker, KillScript, GoTo, TypeOK
<1>8. QED
  BY <1>1, <1>2, <1>3, <1>4, <1>5, <1>6, <1>7 DEF ScriptNext

LEMMA NodeFrame ==
  ASSUME NEW i \in Instance, NodeNext(i)
  PROVE  UNCHANGED <<groupVars, param, scriptVars, bootVars, hookAge>>
BY DEF NodeNext, Crash, Restart, AssignTask, FinishTask

(* An instance writes its id before a node launched after it is up: the    *)
(* clock that lets the boot go on has waited for the script.               *)
LEMMA BootStep ==
  TypeOK /\ BootInv /\ [Next]_vars => BootInv'
<1> SUFFICES ASSUME TypeOK, BootInv, [Next]_vars PROVE BootInv'
  OBVIOUS
<1> USE DEF BootInv, TypeOK, Checks
<1>1. ASSUME UNCHANGED <<life, boot, bootAge, after, script>> PROVE BootInv'
  BY <1>1
<1>2. CASE UNCHANGED vars \/ Rest \/ CompleteUpdate \/ FailUpdate \/ ScaleOut
  BY <1>1, <1>2 DEF vars, Rest, CompleteUpdate, FailUpdate, ScaleOut,
     groupVars, bootVars, scriptVars
<1>3. ASSUME NEW S \in SUBSET Instance, \A i \in S : life[i] = "inService",
             Terminate(S), UNCHANGED <<boot, bootAge, after, script>>
      PROVE  BootInv'
  BY <1>3 DEF Terminate
<1>4. CASE StartBatch
  BY <1>3, <1>4, GroupAssumption DEF StartBatch, OldNodes, bootVars, scriptVars
<1>5. ASSUME NEW i \in Instance, ScaleIn(i) PROVE BootInv'
  BY <1>3, <1>5 DEF ScaleIn, bootVars, scriptVars
<1>6. ASSUME NEW i \in Instance, CompleteHook(i) \/ HookTimeout(i) PROVE BootInv'
  BY <1>6 DEF CompleteHook, HookTimeout, bootVars, scriptVars
<1>7. ASSUME NEW n \in Instance, Launch(n) PROVE BootInv'
  BY <1>7 DEF Launch, Terminating, scriptVars
<1>8. ASSUME NEW i \in Instance, ScriptNext(i) PROVE BootInv'
  BY <1>8, ScriptFrame DEF groupVars, bootVars
<1>9. ASSUME NEW i \in Instance, NodeNext(i) PROVE BootInv'
  BY <1>1, <1>9, NodeFrame DEF groupVars, bootVars, scriptVars
<1>10. ASSUME NEW n \in Instance, BootNext(n) PROVE BootInv'
  <2> USE DEF BootFrame, Advance, scriptVars
  <2>1. CASE CheckLeader(n)
    BY <2>1 DEF CheckLeader
  <2>2. CASE CheckHealth(n)
    <3>1. ASSUME NEW s \in {"segments", "reset"}, Advance(n, "health", s), UNCHANGED life,
                 BootFrame
          PROVE  BootInv'
      BY <3>1
    <3>2. CASE Advance(n, "health", "failed") /\ life' = [life EXCEPT ![n] = "inService"]
      BY <2>2, <3>2 DEF CheckHealth
    <3>3. QED
      BY <2>2, <3>1, <3>2 DEF CheckHealth
  <2>3. CASE CheckProcessStatus(n)
    <3>1. CASE Advance(n, "process", "reset") /\ UNCHANGED life
      BY <2>3, <3>1 DEF CheckProcessStatus
    <3>2. CASE Advance(n, "process", "failed") /\ life' = [life EXCEPT ![n] = "inService"]
      BY <2>3, <3>2 DEF CheckProcessStatus
    <3>3. QED
      BY <2>3, <3>1, <3>2 DEF CheckProcessStatus
  <2>4. CASE WaitForSegments(n)
    BY <2>4 DEF WaitForSegments
  <2>raises. CASE CheckRaises(n)
    <3>1. PICK from \in {"leader", "segments"} : Advance(n, from, "failed")
      BY <2>raises DEF CheckRaises
    <3>2. QED
      BY <2>raises, <3>1 DEF CheckRaises
  <2>5. CASE ResetParameter(n)
    BY <2>5 DEF ResetParameter
  <2>6. CASE SignalSuccess(n)
    BY <2>6 DEF SignalSuccess
  <2>7. QED
    BY <1>10, <2>1, <2>2, <2>3, <2>4, <2>raises, <2>5, <2>6 DEF BootNext
<1>11. CASE Tick
  <2>1. \A i \in Instance : life[i] = "terminating" => script[i] \notin Early
    BY <1>11 DEF Tick, UrgentScript
  <2>2. QED
    BY <1>11, <2>1, TimeAssumption DEF Tick, groupVars, Booting, Checks
<1>12. QED
  BY <1>2, <1>4, <1>5, <1>6, <1>7, <1>8, <1>9, <1>10, <1>11 DEF Next, GroupNext

LEMMA InitBase == Init => PollingInv /\ BootInv
<1> SUFFICES ASSUME Init PROVE PollingInv /\ BootInv
  OBVIOUS
<1>1. PollingInv
  BY DEF Init, PollingInv, Waits
<1>2. BootInv
  BY DEF Init, BootInv, Checks
<1>3. QED
  BY <1>1, <1>2

LEMMA Base == Spec => [](TypeOK /\ PollingInv /\ BootInv)
BY TypeCorrect, InitBase, PollingStep, BootStep, PTL DEF Spec

(* Whatever fails: a script waits only for a process that its node type    *)
(* has and that it has not stopped, and it writes its id before a node     *)
(* launched after its termination can be up.                               *)
THEOREM BaseInvariant == Spec => []BaseInv
BY Base, PTL DEF BaseInv

-----------------------------------------------------------------------------
(* Who comes up, and when.                                                 *)

LEMMA GroupFrame ==
  ASSUME TypeOK, BootInv, GroupNext
  PROVE  /\ UNCHANGED <<param, script, procs>>
         /\ \A i \in Instance : Replaced(i)' => Replaced(i)
<1>1. UNCHANGED <<param, script, procs>>
  BY DEF GroupNext, StartBatch, CompleteUpdate, FailUpdate, ScaleOut, Launch, ScaleIn,
     CompleteHook, HookTimeout, scriptVars, nodeVars
<1>2. CASE UNCHANGED <<boot, after>>
  BY <1>1, <1>2 DEF Replaced, Up
<1>3. ASSUME NEW n \in Instance, Launch(n)
      PROVE  \A i \in Instance : Replaced(i)' => Replaced(i)
  BY <1>3 DEF Launch, Replaced, Up, TypeOK, BootInv
<1>4. QED
  BY <1>1, <1>2, <1>3 DEF GroupNext, StartBatch, CompleteUpdate, FailUpdate, ScaleOut,
     ScaleIn, CompleteHook, HookTimeout, bootVars

LEMMA BootFacts ==
  ASSUME TypeOK, NEW n \in Instance, BootNext(n)
  PROVE  /\ UNCHANGED <<update, batch, desired, script, procs, after>>
         /\ \A m \in Instance : m # n => boot'[m] = boot[m]
         /\ Up(n) => Up(n)'
         /\ ~ResetParameter(n) => param' = param /\ (Up(n)' => Up(n))
<1> USE DEF BootFrame, Advance, TypeOK, Up, scriptVars, nodeVars
<1>1. CASE CheckLeader(n)
  BY <1>1 DEF CheckLeader
<1>2. CASE CheckHealth(n)
  BY <1>2 DEF CheckHealth
<1>3. CASE CheckProcessStatus(n)
  BY <1>3 DEF CheckProcessStatus
<1>4. CASE WaitForSegments(n) \/ CheckRaises(n)
  BY <1>4 DEF WaitForSegments, CheckRaises
<1>5. CASE ResetParameter(n)
  BY <1>5 DEF ResetParameter
<1>6. CASE SignalSuccess(n)
  BY <1>6 DEF SignalSuccess
<1>7. QED
  BY <1>1, <1>2, <1>3, <1>4, <1>5, <1>6 DEF BootNext

(* A script that has not written its id yet has no replacement.            *)
LEMMA NotReplacedEarly ==
  ASSUME TypeOK, BootInv, BootTicks > 0, NEW i \in Instance,
         life[i] = "terminating", script[i] \in Early
  PROVE  ~Replaced(i)
BY TimeAssumption DEF TypeOK, BootInv, Replaced, Up

LEMMA ResetStep ==
  ASSUME BootTicks > 0, WriteFaults = FALSE
  PROVE  TypeOK /\ BootInv /\ ResetInv /\ [Next]_vars => ResetInv'
<1> SUFFICES ASSUME TypeOK, BootInv, ResetInv, [Next]_vars PROVE ResetInv'
  OBVIOUS
<1> USE DEF ResetInv
<1>1. ASSUME param' = param, \A i \in Instance : Replaced(i)' => Replaced(i)
      PROVE  ResetInv'
  BY <1>1
<1>2. ASSUME UNCHANGED <<param, boot, after>> PROVE ResetInv'
  BY <1>2 DEF Replaced, Up
<1>3. CASE UNCHANGED vars \/ Rest \/ Tick
  BY <1>2, <1>3 DEF vars, Rest, Tick, bootVars
<1>4. CASE GroupNext
  BY <1>1, <1>4, GroupFrame
<1>5. ASSUME NEW i \in Instance, NodeNext(i) PROVE ResetInv'
  BY <1>2, <1>5, NodeFrame DEF bootVars
<1>6. ASSUME NEW i \in Instance, ScriptNext(i) PROVE ResetInv'
  <2>1. UNCHANGED <<boot, after>>
    BY <1>6, ScriptFrame DEF bootVars
  <2>2. CASE param' = param
    BY <1>2, <2>1, <2>2
  <2>3. CASE param' # param
    <3>1. param' = i /\ script[i] \in Early /\ life[i] = "terminating"
      BY <1>6, <2>3, ScriptFrame DEF Early
    <3>2. ~Replaced(i)
      BY <3>1, NotReplacedEarly
    <3>3. QED
      BY <2>1, <3>1, <3>2 DEF Replaced, Up
  <2>4. QED
    BY <2>2, <2>3
<1>7. ASSUME NEW n \in Instance, BootNext(n) PROVE ResetInv'
  <2>1. CASE ResetParameter(n)
    BY <2>1, GroupAssumption DEF ResetParameter
  <2>2. CASE ~ResetParameter(n)
    <3>1. /\ param' = param /\ after' = after
          /\ \A m \in Instance : Up(m)' => Up(m)
      BY <1>7, <2>2, BootFacts DEF Up
    <3>2. QED
      BY <1>1, <3>1 DEF Replaced
  <2>3. QED
    BY <2>1, <2>2
<1>8. QED
  BY <1>3, <1>4, <1>5, <1>6, <1>7 DEF Next

(* The last read of a loop that finds no reset gives the script's own id.  *)
LEMMA GivingUp ==
  ASSUME TypeOK, PollingInv, [Next]_vars, NEW i \in Instance, GivesUpPolling(i)
  PROVE  param = i
<1> USE DEF GivesUpPolling
<1>1. script[i] \in Waits /\ script[i] \in Processes /\ procs[i][script[i]] # "stopped"
  BY DEF PollingInv
<1>2. PICK j \in Instance : ScriptNext(j)
  <2>1. ~(UNCHANGED vars \/ Rest \/ Tick \/ GroupNext)
    BY DEF vars, Rest, Tick, GroupNext, StartBatch, CompleteUpdate, FailUpdate, ScaleOut,
       Launch, ScaleIn, CompleteHook, HookTimeout, scriptVars
  <2>2. \A j \in Instance : ~NodeNext(j) /\ ~BootNext(j)
    BY DEF NodeNext, Crash, Restart, AssignTask, FinishTask, BootNext, CheckLeader,
       CheckHealth, CheckProcessStatus, WaitForSegments, CheckRaises, ResetParameter, SignalSuccess,
       BootFrame, scriptVars
  <2>3. QED
    BY <2>1, <2>2 DEF Next
<1>3. j = i
  BY <1>2 DEF ScriptNext, StartScript, GetSecret, PutParameter, DisableMiddleManager,
     CheckProcess, PollStop, PollLast, PollExhausted, SeeNoTasks, SeeNoWorker, TasksExhausted,
     StopWorker, KillScript, GoTo
<1>4. script[i] \notin Early \cup {"disable", "tasks", "stopWorker"}
  BY <1>1 DEF Waits, Early
<1>5. ~KillScript(i)
  BY DEF KillScript, GoTo, TypeOK
<1>6. PICK p \in Waits :
        CheckProcess(i, p) \/ PollStop(i, p) \/ PollLast(i, p) \/ PollExhausted(i, p)
  BY <1>2, <1>3, <1>4, <1>5 DEF ScriptNext, StartScript, GetSecret, PutParameter, Early,
     DisableMiddleManager, SeeNoTasks, SeeNoWorker, TasksExhausted, StopWorker, Runs
<1>7. ~CheckProcess(i, p) /\ ~PollExhausted(i, p)
  BY DEF CheckProcess, PollExhausted, PollingInv
<1>8. ~PollStop(i, p)
  BY <1>1 DEF PollStop, StopsByPoll, Runs, TypeOK
<1>9. QED
  BY <1>6, <1>7, <1>8 DEF PollLast

(* For every group, batch size and scaling: the new node's reset of the    *)
(* parameter is not lost, so that it never holds the id of a node whose    *)
(* replacement is up.                                                      *)
THEOREM ResetInvariant ==
  ASSUME BootTicks > 0, WriteFaults = FALSE
  PROVE  Spec => []ResetInv
<1>1. Init => ResetInv
  BY DEF Init, ResetInv, Replaced
<1>2. QED
  BY <1>1, Base, ResetStep, PTL DEF Spec

(* For every group, batch size and scaling: if the writes of the parameter *)
(* do not fail, a script that has a read to come when its replacement is   *)
(* up hears of it; only the sleep after the last read is deaf.             *)
THEOREM ResetIsHeard ==
  ASSUME BootTicks > 0, WriteFaults = FALSE
  PROVE  Spec => NoMissedReset
<1>1. TypeOK /\ PollingInv /\ ResetInv /\ [Next]_vars
        => [\A i \in Instance : GivesUpPolling(i) => ~Replaced(i)]_vars
  BY GivingUp DEF ResetInv
<1>2. QED
  BY <1>1, Base, ResetInvariant, PTL DEF Spec, NoMissedReset

-----------------------------------------------------------------------------
(* One replacement at a time.  The assumptions are those under which the   *)
(* single parameter suffices: batches of one instance (the default of      *)
(* rollingUpdatePolicy), no scaling, no failed read of the parameter, and  *)
(* user data that takes longer than the first steps of a script.           *)

LEMMA ActiveFinite ==
  /\ IsFiniteSet(Active) /\ Cardinality(Active) \in Nat
  /\ IsFiniteSet(OldNodes) /\ Cardinality(Group) \in Nat
<1>1. Active \in SUBSET Instance /\ OldNodes \in SUBSET Instance /\ Group \in SUBSET Instance
  BY GroupAssumption DEF Active, OldNodes
<1>2. QED
  BY <1>1, GroupAssumption, FS_Subset, FS_CardinalityType

(* A batch of one instance leaves the group one short.                     *)
LEMMA BatchOfOne ==
  ASSUME TypeOK, LaunchInv, MaxBatch = 1, StartBatch
  PROVE  \E b \in Instance :
           /\ life[b] = "inService" /\ batch' = {b}
           /\ life' = [life EXCEPT ![b] = "terminating"]
           /\ Missing' /\ Cardinality(Active)' <= desired
<1>1. PICK S \in SUBSET OldNodes :
        /\ S # {} /\ batch' = S /\ Terminate(S)
        /\ Cardinality(S) = MaxBatch \/ Cardinality(S) < MaxBatch
  BY DEF StartBatch
<1>2. IsFiniteSet(S) /\ Cardinality(S) \in Nat /\ Cardinality(S) # 0
  BY <1>1, ActiveFinite, FS_Subset, FS_CardinalityType, FS_EmptySet
<1>3. PICK b : S = {b}
  <2>1. Cardinality(S) = 1
    BY <1>1, <1>2
  <2>2. QED
    BY <1>2, <2>1, FS_Singleton, Zenon
<1>4. b \in Instance /\ life[b] = "inService"
  BY <1>1, <1>3, GroupAssumption DEF OldNodes
<1>5. life' = [life EXCEPT ![b] = "terminating"]
  BY <1>1, <1>3, <1>4 DEF Terminate, TypeOK
<1>6. Active' = Active \ {b} /\ b \in Active
  BY <1>4, <1>5 DEF Active, TypeOK
<1>7. Cardinality(Active') = Cardinality(Active) - 1
  BY <1>6, ActiveFinite, FS_RemoveElement
<1>8. desired' = desired /\ desired \in Nat /\ Cardinality(Active) <= desired
  BY DEF StartBatch, LaunchInv, TypeOK
<1>9. Missing' /\ Cardinality(Active)' <= desired
  BY <1>7, <1>8, ActiveFinite DEF Missing
<1>10. QED
  BY <1>1, <1>3, <1>4, <1>5, <1>9

(* What a step of check_druid_status.py means to the group.                *)
LEMMA BootLife ==
  ASSUME TypeOK, BootInv, NEW n \in Instance, BootNext(n)
  PROVE  /\ Active' = Active /\ Terminating' = Terminating
         /\ \A i \in Instance : life'[i] = "terminating" <=> life[i] = "terminating"
         /\ boot[n] \in Checks /\ boot'[n] \in Checks \cup {"failed", "done"}
         /\ owed' \subseteq owed
         /\ \A m \in owed : m \in owed' \/ boot'[m] = "done"
<1> USE DEF BootFrame, Advance, Checks
<1>1. CASE UNCHANGED life
  <2>1. Active' = Active /\ Terminating' = Terminating
    BY <1>1 DEF Active, Terminating
  <2>2. QED
    BY <1>1, <2>1 DEF BootNext, CheckLeader, CheckHealth, CheckProcessStatus,
       WaitForSegments, CheckRaises, ResetParameter, SignalSuccess, TypeOK
<1>2. CASE /\ life' = [life EXCEPT ![n] = "inService"] /\ UNCHANGED owed
           /\ \/ Advance(n, "leader", "failed") \/ Advance(n, "segments", "failed")
              \/ Advance(n, "health", "failed")
              \/ Advance(n, "process", "failed")
              \/ Advance(n, "reset", "signal")
  <2>1. life[n] = "booting"
    BY <1>2 DEF BootInv
  <2>2. /\ Active' = Active /\ Terminating' = Terminating
        /\ \A i \in Instance : life'[i] = "terminating" <=> life[i] = "terminating"
    BY <1>2, <2>1 DEF Active, Terminating, TypeOK
  <2>3. QED
    BY <1>2, <2>2 DEF TypeOK
<1>3. QED
  BY <1>1, <1>2 DEF BootNext, CheckLeader, CheckHealth, CheckProcessStatus,
     WaitForSegments, CheckRaises, ResetParameter, SignalSuccess

LEMMA LaunchInit == Init => LaunchInv
<1> SUFFICES ASSUME Init PROVE LaunchInv
  OBVIOUS
<1>1. Active = Group /\ Terminating = {}
  BY GroupAssumption DEF Init, Active, Terminating
<1>2. QED
  BY <1>1, ActiveFinite DEF Init, LaunchInv, Checks

LEMMA LaunchStep ==
  ASSUME MaxBatch = 1, MaxScale = 0
  PROVE  TypeOK /\ BootInv /\ LaunchInv /\ [Next]_vars => LaunchInv'
<1> SUFFICES ASSUME TypeOK, BootInv, LaunchInv, [Next]_vars PROVE LaunchInv'
  OBVIOUS
<1>1. ASSUME UNCHANGED <<life, update, batch, owed, desired, boot, after>>
      PROVE  LaunchInv'
  BY <1>1 DEF LaunchInv, Follows, Missing, Active, Terminating
<1>2. CASE UNCHANGED vars \/ Rest \/ Tick
  BY <1>1, <1>2 DEF vars, Rest, Tick, groupVars, bootVars
<1>3. ASSUME NEW i \in Instance, NodeNext(i) \/ ScriptNext(i) PROVE LaunchInv'
  BY <1>1, <1>3, NodeFrame, ScriptFrame DEF groupVars, bootVars
<1>4. CASE StartBatch
  <2>1. PICK b \in Instance :
           /\ life[b] = "inService" /\ batch' = {b}
           /\ life' = [life EXCEPT ![b] = "terminating"]
           /\ Missing' /\ Cardinality(Active)' <= desired
    BY <1>4, BatchOfOne
  <2>2. /\ owed = {} /\ update \in {"idle", "running"} /\ update' = "running"
        /\ UNCHANGED <<boot, desired>>
    BY <1>4 DEF StartBatch, bootVars
  <2>3. \A n \in Instance : boot[n] \notin Checks \cup {"failed"}
    BY <2>2 DEF LaunchInv
  <2>4. QED
    BY <2>1, <2>2, <2>3 DEF LaunchInv
<1>5. CASE CompleteUpdate \/ FailUpdate
  <2>1. /\ UNCHANGED <<life, batch, desired, boot, after>>
        /\ update' \in {"complete", "failed"}
    BY <1>5 DEF CompleteUpdate, FailUpdate, bootVars
  <2>2. Active' = Active
    BY <2>1 DEF Active
  <2>3. QED
    BY <2>1, <2>2 DEF LaunchInv, Follows
<1>6. ASSUME NEW n \in Instance, Launch(n) PROVE LaunchInv'
  <2>1. Active' = Active \cup {n} /\ n \notin Active
    BY <1>6 DEF Launch, Active, TypeOK
  <2>2. Cardinality(Active') = Cardinality(Active) + 1
    BY <2>1, ActiveFinite, FS_AddElement
  <2>3. Cardinality(Active)' <= desired /\ desired' = desired
    BY <1>6, <2>2, ActiveFinite DEF Launch, Missing, TypeOK
  <2>4. update # "idle"
    BY <1>6, ActiveFinite DEF Launch, Missing, LaunchInv
  <2>5. /\ Follows(n)' /\ boot'[n] = "leader"
        /\ \A m \in Instance : Follows(m) => Follows(m)'
        /\ \A m \in Instance : m # n => boot'[m] = boot[m]
    BY <1>6 DEF Launch, Follows, Terminating, TypeOK
  <2>6. /\ update' = update
        /\ owed' = IF update = "running" THEN owed \cup {n} ELSE owed
    BY <1>6 DEF Launch
  <2>7. QED
    BY <2>3, <2>4, <2>5, <2>6 DEF LaunchInv
<1>7. ASSUME NEW i \in Instance, CompleteHook(i) \/ HookTimeout(i) PROVE LaunchInv'
  <2>1. /\ UNCHANGED <<update, batch, owed, desired, boot, after>>
        /\ life[i] = "terminating" /\ life' = [life EXCEPT ![i] = "terminated"]
    BY <1>7 DEF CompleteHook, HookTimeout, bootVars
  <2>2. Active' = Active /\ Terminating' \subseteq Terminating
    BY <2>1 DEF Active, Terminating, TypeOK
  <2>3. \A m \in Instance : Follows(m) => Follows(m)'
    BY <2>1 DEF Follows, TypeOK
  <2>4. QED
    BY <2>1, <2>2, <2>3 DEF LaunchInv, Missing
<1>8. ~ScaleOut /\ \A i \in Instance : ~ScaleIn(i)
  BY DEF ScaleIn, ScaleOut, TypeOK
<1>9. ASSUME NEW n \in Instance, BootNext(n) PROVE LaunchInv'
  <2>1. UNCHANGED <<update, batch, desired, after>>
    BY <1>9, BootFacts
  <2>2. \A m \in Instance : Follows(m) <=> Follows(m)'
    BY <1>9, <2>1, BootLife DEF Follows, TypeOK
  <2>3. \A m \in Instance : boot[m] # "idle" => boot'[m] # "idle"
    BY <1>9, BootLife, BootFacts DEF Checks
  <2>4. Missing <=> Missing'
    BY <1>9, <2>1, BootLife DEF Missing
  <2>5. /\ \A m \in Instance : boot'[m] \in Checks => Follows(m)'
        /\ update' \in {"idle", "running"} =>
             \A m \in Instance : boot'[m] \in Checks \cup {"failed"} => m \in owed'
    BY <1>9, <2>1, <2>2, BootLife, BootFacts DEF LaunchInv, Checks
  <2>6. QED
    BY <1>9, <2>1, <2>2, <2>3, <2>4, <2>5, BootLife DEF LaunchInv
<1>10. QED
  BY <1>2, <1>3, <1>4, <1>5, <1>6, <1>7, <1>8, <1>9 DEF Next, GroupNext

LEMMA UpdateStep ==
  ASSUME MaxBatch = 1, MaxScale = 0, BootTicks > 0
  PROVE  TypeOK /\ BootInv /\ LaunchInv /\ UpdateInv /\ [Next]_vars => UpdateInv'
<1> SUFFICES ASSUME TypeOK, BootInv, LaunchInv, UpdateInv, [Next]_vars PROVE UpdateInv'
  OBVIOUS
<1>1. ASSUME UNCHANGED <<life, batch, param, script, boot, after>> PROVE UpdateInv'
  BY <1>1 DEF UpdateInv, Replaced, Up
<1>2. CASE UNCHANGED vars \/ Rest \/ Tick \/ CompleteUpdate \/ FailUpdate
  BY <1>1, <1>2 DEF vars, Rest, Tick, CompleteUpdate, FailUpdate, groupVars, bootVars,
     scriptVars
<1>3. ASSUME NEW i \in Instance, NodeNext(i) PROVE UpdateInv'
  BY <1>1, <1>3, NodeFrame DEF groupVars, bootVars, scriptVars
<1>4. CASE StartBatch
  <2>1. PICK b \in Instance :
           /\ life[b] = "inService" /\ batch' = {b}
           /\ life' = [life EXCEPT ![b] = "terminating"]
    BY <1>4, BatchOfOne
  <2>2. UNCHANGED <<param, script, boot, after>> /\ owed = {} /\ ~Missing
        /\ update \in {"idle", "running"}
    BY <1>4 DEF StartBatch, bootVars, scriptVars
  <2>3. \A i \in Instance : Replaced(i) <=> Replaced(i)'
    BY <2>2 DEF Replaced, Up
  <2>4. \A i \in Instance : life[i] = "terminating" => Replaced(i)
    <3>1. CASE update = "idle"
      BY <3>1 DEF LaunchInv, Terminating
    <3>2. CASE update = "running"
      <4>1. PICK n \in Instance : boot[n] # "idle" /\ Follows(n)
        BY <2>2, <3>2 DEF LaunchInv
      <4>2. Up(n)
        BY <2>2, <3>2, <4>1 DEF LaunchInv, TypeOK, BootStates, Up
      <4>3. QED
        BY <4>1, <4>2 DEF Follows, Replaced, UpdateInv
    <3>3. QED
      BY <2>2, <3>1, <3>2
  <2>5. script[b] \notin Midway
    BY <2>1 DEF BootInv, Midway, Waits
  <2>6. QED
    BY <2>1, <2>2, <2>3, <2>4, <2>5 DEF UpdateInv, TypeOK
<1>5. ASSUME NEW n \in Instance, Launch(n) PROVE UpdateInv'
  <2>1. /\ UNCHANGED <<batch, param, script>>
        /\ \A i \in Instance : life'[i] = "terminating" => life[i] = "terminating"
    BY <1>5 DEF Launch, TypeOK, scriptVars
  <2>2. \A m \in Instance : Up(m) => Up(m)' /\ after'[m] = after[m]
    BY <1>5 DEF Launch, Up, BootInv, TypeOK
  <2>3. QED
    BY <2>1, <2>2 DEF UpdateInv, Replaced
<1>6. ASSUME NEW i \in Instance, CompleteHook(i) \/ HookTimeout(i) PROVE UpdateInv'
  <2>1. /\ UNCHANGED <<batch, param, script, boot, after>>
        /\ \A j \in Instance : life'[j] = "terminating" => life[j] = "terminating"
    BY <1>6 DEF CompleteHook, HookTimeout, bootVars, scriptVars, TypeOK
  <2>2. \A j \in Instance : Replaced(j) <=> Replaced(j)'
    BY <2>1 DEF Replaced, Up
  <2>3. QED
    BY <2>1, <2>2 DEF UpdateInv
<1>7. ~ScaleOut /\ \A i \in Instance : ~ScaleIn(i)
  BY DEF ScaleIn, ScaleOut, TypeOK
<1>8. ASSUME NEW j \in Instance, ScriptNext(j) PROVE UpdateInv'
  <2>1. /\ UNCHANGED <<life, batch, boot, after>>
        /\ \A i \in Instance : Replaced(i) <=> Replaced(i)'
    BY <1>8, ScriptFrame DEF groupVars, bootVars, Replaced, Up
  <2>2. ASSUME NEW i \in Instance, life'[i] = "terminating", script'[i] \in Midway,
               param' # i
        PROVE  Replaced(i)
    <3>1. CASE param # i
      <4>1. script[i] \in Midway
        BY <1>8, <2>2, ScriptFrame
      <4>2. QED
        BY <2>1, <2>2, <3>1, <4>1 DEF UpdateInv
    <3>2. CASE param = i
      <4>1. life[j] = "terminating" /\ script[j] \in Early /\ j # i
        BY <1>8, <2>2, <3>2, ScriptFrame DEF Early
      <4>2. ~Replaced(j)
        BY <4>1, NotReplacedEarly
      <4>3. QED
        BY <2>1, <2>2, <4>1, <4>2 DEF UpdateInv
    <3>3. QED
      BY <3>1, <3>2
  <2>3. QED
    BY <2>1, <2>2 DEF UpdateInv
<1>9. ASSUME NEW n \in Instance, BootNext(n) PROVE UpdateInv'
  <2>1. /\ UNCHANGED <<batch, script, after>>
        /\ \A i \in Instance : life'[i] = "terminating" <=> life[i] = "terminating"
        /\ \A i \in Instance : Replaced(i) => Replaced(i)'
    BY <1>9, BootFacts, BootLife DEF Replaced, Up
  <2>2. ASSUME NEW i \in Instance, life[i] = "terminating", param' # param, i \in batch
        PROVE  Replaced(i)'
    <3>1. boot[n] \in Checks /\ Up(n)'
      BY <1>9, <2>2, BootLife, BootFacts DEF ResetParameter, Advance, Up, TypeOK
    <3>2. QED
      BY <2>1, <2>2, <3>1 DEF LaunchInv, Follows, Replaced
  <2>3. QED
    BY <2>1, <2>2 DEF UpdateInv
<1>10. QED
  BY <1>2, <1>3, <1>4, <1>5, <1>6, <1>7, <1>8, <1>9 DEF Next, GroupNext

LEMMA UpdateInit == Init => UpdateInv
BY DEF Init, UpdateInv

(* A process is stopped by a poll that read another value than its own id. *)
LEMMA StoppingReads ==
  ASSUME TypeOK, ReadFaults = FALSE, [Next]_vars, NEW i \in Instance, StopsByPoll(i)
  PROVE  life[i] = "terminating" /\ script[i] \in Midway /\ param # i
<1> USE DEF StopsByPoll
<1>1. procs' # procs /\ ~(UNCHANGED vars \/ Rest \/ Tick \/ GroupNext)
  BY DEF vars, Rest, Tick, GroupNext, StartBatch, CompleteUpdate, FailUpdate, ScaleOut,
     Launch, ScaleIn, CompleteHook, HookTimeout, nodeVars
<1>2. \A j \in Instance : ~BootNext(j)
  BY <1>1, BootFacts
<1>3. \A j \in Instance : ~NodeNext(j)
  <2>1. ASSUME NEW j \in Instance, NEW p \in Processes, Crash(j, p) \/ Restart(j, p)
        PROVE  FALSE
    BY <2>1 DEF Crash, Restart, TypeOK
  <2>2. QED
    BY <1>1, <2>1 DEF NodeNext, AssignTask, FinishTask
<1>4. PICK j \in Instance : ScriptNext(j)
  BY <1>1, <1>2, <1>3 DEF Next
<1>5. ~StopWorker(j)
  BY DEF StopWorker, TypeOK, Waits
<1>6. PICK p \in Waits : PollStop(j, p)
  BY <1>1, <1>4, <1>5 DEF ScriptNext, StartScript, GetSecret, PutParameter,
     DisableMiddleManager, CheckProcess, PollLast, PollExhausted, SeeNoTasks, SeeNoWorker,
     TasksExhausted, KillScript, nodeVars
<1>7. j = i
  BY <1>6 DEF PollStop, TypeOK
<1>8. QED
  BY <1>6, <1>7 DEF PollStop, Runs, Midway

(* Without scaling, the nodes that a group launches while it replaces one  *)
(* instance at a time are all the replacement of the instance it replaces. *)
THEOREM LaunchInvariant ==
  ASSUME MaxBatch = 1, MaxScale = 0
  PROVE  Spec => []LaunchInv
BY Base, LaunchInit, LaunchStep, PTL DEF Spec

(* Then a script that reads another value than its own id in the parameter *)
(* has a replacement: no other script can have written there.              *)
THEOREM UpdateInvariant ==
  ASSUME MaxBatch = 1, MaxScale = 0, BootTicks > 0
  PROVE  Spec => []UpdateInv
BY Base, LaunchInvariant, UpdateInit, UpdateStep, PTL DEF Spec

(* "The new node is up. Stopping old node..." is true whenever the script  *)
(* says so, for every group and every timing that the assumptions allow.   *)
THEOREM OneAtATimeIsSafe ==
  ASSUME MaxBatch = 1, MaxScale = 0, BootTicks > 0, ReadFaults = FALSE
  PROVE  Spec => StopsAfterReplacement
<1>1. TypeOK /\ UpdateInv /\ [Next]_vars
        => [\A i \in Instance : StopsByPoll(i) => Replaced(i)]_vars
  BY StoppingReads DEF UpdateInv
<1>2. QED
  BY <1>1, Base, UpdateInvariant, PTL DEF Spec, StopsAfterReplacement

(* Replacements stay, whoever acts.                                        *)
LEMMA ReplacedStays ==
  ASSUME TypeOK, BootInv, [Next]_vars, NEW i \in Instance, Replaced(i)
  PROVE  Replaced(i)'
<1>1. PICK n \in Instance : i \in after[n] /\ Up(n)
  BY DEF Replaced
<1>2. CASE UNCHANGED <<boot, after>>
  BY <1>2 DEF Replaced, Up
<1>3. CASE \E m \in Instance : Launch(m)
  BY <1>1, <1>3 DEF Launch, Replaced, Up, BootInv, TypeOK
<1>4. CASE \E m \in Instance : BootNext(m)
  BY <1>1, <1>4, BootFacts DEF Replaced, Up
<1>5. CASE \E m \in Instance : ScriptNext(m) \/ NodeNext(m)
  BY <1>2, <1>5, ScriptFrame, NodeFrame DEF bootVars
<1>6. QED
  BY <1>2, <1>3, <1>4, <1>5 DEF Next, GroupNext, StartBatch, CompleteUpdate, FailUpdate,
     ScaleOut, ScaleIn, CompleteHook, HookTimeout, Tick, Rest, vars, bootVars

(* What does not touch the group or the boots leaves its books alone.      *)
LEMMA BooksFrame ==
  ASSUME UNCHANGED <<life, desired, boot, after, procs>>, MatchInv
  PROVE  MatchInv'
BY DEF MatchInv, Gone, Launched, Unready, Stopped, Active, Missing, Replaced, Up

LEMMA MatchInit == Init => MatchInv
<1> SUFFICES ASSUME Init PROVE MatchInv
  OBVIOUS
<1>1. Active = Group /\ Gone = {} /\ Launched = {} /\ Stopped = {}
  BY GroupAssumption DEF Init, Active, Gone, Launched, Stopped
<1>2. QED
  BY <1>1, ActiveFinite DEF Init, MatchInv, Unready, Missing

(* A batch begins when all that was launched is up, and its old node has   *)
(* no replacement yet.                                                     *)
LEMMA MatchBatch ==
  ASSUME TypeOK, BootInv, LaunchInv, MatchInv, MaxBatch = 1, StartBatch
  PROVE  MatchInv'
<1>1. PICK b \in Instance :
        /\ life[b] = "inService" /\ batch' = {b}
        /\ life' = [life EXCEPT ![b] = "terminating"]
        /\ Missing' /\ Cardinality(Active)' <= desired
  BY BatchOfOne
<1>2. /\ UNCHANGED <<desired, boot, after, procs>>
      /\ update \in {"idle", "running"} /\ owed = {} /\ ~Missing /\ batch' \subseteq Group
  BY DEF StartBatch, OldNodes, bootVars
<1>3. b \in Group /\ b \notin Gone /\ b \in Active
  BY <1>1, <1>2 DEF Gone, Active
<1>4. Gone' = Gone \cup {b} /\ Active' = Active \ {b}
  BY <1>1 DEF Gone, Active, TypeOK
<1>5. UNCHANGED <<Launched, Unready, Stopped>> /\ \A i \in Instance : Replaced(i) <=> Replaced(i)'
  BY <1>2 DEF Launched, Unready, Stopped, Replaced, Up
<1>6. Unready = {}
  <2>1. \A n \in Instance : boot[n] \notin Checks \cup {"failed"}
    BY <1>2 DEF LaunchInv
  <2>2. QED
    BY <2>1 DEF Unready, Launched, Up, TypeOK, BootStates
<1>7. ~Replaced(b)
  BY <1>1 DEF Replaced, BootInv
<1>8. Cardinality(Active)' + 1 >= desired'
  <2>1. Cardinality(Active') = Cardinality(Active) - 1
    BY <1>3, <1>4, ActiveFinite, FS_RemoveElement
  <2>2. Cardinality(Active) >= desired /\ desired \in Nat
    BY <1>2, ActiveFinite DEF Missing, TypeOK
  <2>3. QED
    BY <1>2, <2>1, <2>2, ActiveFinite
<1>9. Active' = (Group \ Gone') \cup Launched' /\ Gone' \subseteq Group /\ Launched' \cap Group = {}
  BY <1>3, <1>4, <1>5 DEF MatchInv
<1>10. \E i \in Gone' : ~Replaced(i)'
  BY <1>4, <1>5, <1>7
<1>11. \A i \in Stopped' : i \in Gone' /\ Replaced(i)'
  BY <1>4, <1>5 DEF MatchInv, Stopped
<1>12. QED
  BY <1>5, <1>6, <1>8, <1>9, <1>10, <1>11 DEF MatchInv

(* The group launches the one node it misses.                              *)
LEMMA MatchLaunch ==
  ASSUME TypeOK, BootInv, MatchInv, NEW n \in Instance, Launch(n)
  PROVE  MatchInv'
<1>1. /\ life[n] = "absent" /\ Missing /\ life' = [life EXCEPT ![n] = "booting"]
      /\ boot' = [boot EXCEPT ![n] = "leader"]
      /\ UNCHANGED <<desired, procs>> /\ boot[n] = "idle"
      /\ \A m \in Instance : m # n => after'[m] = after[m]
  BY DEF Launch, BootInv, TypeOK, nodeVars
<1>2. Gone' = Gone /\ Active' = Active \cup {n} /\ n \notin Active /\ n \notin Gone
  BY <1>1 DEF Gone, Active, TypeOK
<1>3. Launched' = Launched \cup {n} /\ Unready' = Unready \cup {n}
  BY <1>1 DEF Launched, Unready, Up, TypeOK
<1>4. \A i \in Instance : Replaced(i) <=> Replaced(i)'
  BY <1>1 DEF Replaced, Up, TypeOK
<1>5. Unready = {} /\ \E i \in Gone : ~Replaced(i)
  BY <1>1 DEF MatchInv
<1>6. Cardinality(Active)' + 1 >= desired' /\ ~Missing'
  <2>1. Cardinality(Active') = Cardinality(Active) + 1
    BY <1>2, ActiveFinite, FS_AddElement
  <2>2. Cardinality(Active) + 1 >= desired /\ desired \in Nat
    BY DEF MatchInv, TypeOK
  <2>3. QED
    BY <1>1, <2>1, <2>2, ActiveFinite DEF Missing
<1>7. n \notin Group
  BY <1>2 DEF MatchInv
<1>8. /\ Active' = (Group \ Gone') \cup Launched'
      /\ Gone' \subseteq Group /\ Launched' \cap Group = {}
  BY <1>2, <1>3, <1>7 DEF MatchInv
<1>9. \E i \in Gone' : ~Replaced(i)'
  BY <1>2, <1>4, <1>5 DEF Gone
<1>10. \A i \in Stopped' : i \in Gone' /\ Replaced(i)'
  BY <1>1, <1>2, <1>4 DEF MatchInv, Stopped
<1>11. QED
  BY <1>3, <1>5, <1>6, <1>8, <1>9, <1>10 DEF MatchInv

(* The check of a new node goes on: when it comes up, nobody is missing.   *)
LEMMA MatchBoot ==
  ASSUME TypeOK, BootInv, MatchInv, NEW n \in Instance, BootNext(n)
  PROVE  MatchInv'
<1>1. /\ UNCHANGED <<desired, procs, after>> /\ Active' = Active
      /\ boot[n] \in Checks /\ boot'[n] \in Checks \cup {"failed", "done"}
      /\ \A m \in Instance : m # n => boot'[m] = boot[m]
      /\ Up(n) => Up(n)'
  BY BootFacts, BootLife
<1>2. Launched' = Launched
  BY <1>1 DEF Launched, Checks, TypeOK
<1>3. Gone' = Gone
  <2>1. life' = life \/ (life' = [life EXCEPT ![n] = "inService"] /\ life[n] = "booting")
    BY DEF BootNext, CheckLeader, CheckHealth, CheckProcessStatus, WaitForSegments, CheckRaises,
       ResetParameter, SignalSuccess, BootFrame, Advance, BootInv, Checks
  <2>2. QED
    BY <2>1 DEF Gone, TypeOK
<1>4. Unready' \subseteq Unready /\ (Missing <=> Missing')
  BY <1>1, <1>2 DEF Unready, Up, Missing, Launched
<1>5. \A i \in Instance : Replaced(i) => Replaced(i)'
  BY <1>1 DEF Replaced, Up
<1>6. Missing' \/ Unready' # {} => \E i \in Gone' : ~Replaced(i)'
  <2> SUFFICES ASSUME Missing' \/ Unready' # {} PROVE \E i \in Gone' : ~Replaced(i)'
    OBVIOUS
  <2>1. PICK i \in Gone : ~Replaced(i)
    BY <1>4 DEF MatchInv
  <2>2. ~Up(n) => ~Up(n)'
    <3>1. CASE Missing'
      BY <1>1, <1>4, <3>1 DEF MatchInv, Unready, Launched, Checks
    <3>2. CASE Unready' # {}
      <4>1. ASSUME ~Up(n) PROVE n \in Unready
        BY <1>1, <4>1 DEF Unready, Launched, Checks
      <4>2. QED
        BY <1>4, <3>2, <4>1 DEF MatchInv, Unready
    <3>3. QED
      BY <3>1, <3>2
  <2>3. ~Replaced(i)'
    BY <1>1, <2>1, <2>2 DEF Replaced, Up, Gone
  <2>4. QED
    BY <1>3, <2>1, <2>3
<1>7. \A i \in Stopped' : i \in Gone' /\ Replaced(i)'
  BY <1>1, <1>3, <1>5 DEF MatchInv, Stopped
<1>8. QED
  BY <1>1, <1>2, <1>3, <1>4, <1>6, <1>7 DEF MatchInv

(* A script stops a process only when its instance has been replaced.      *)
LEMMA MatchScript ==
  ASSUME TypeOK, BootInv, UpdateInv, MatchInv, ReadFaults = FALSE, [Next]_vars,
         NEW j \in Instance, ScriptNext(j) \/ NodeNext(j)
  PROVE  MatchInv'
<1>1. UNCHANGED <<life, desired, boot, after>>
  BY ScriptFrame, NodeFrame DEF groupVars, bootVars
<1>2. UNCHANGED <<Gone, Launched, Unready, Active>> /\ (Missing <=> Missing')
  BY <1>1 DEF Gone, Launched, Unready, Active, Missing, Up
<1>3. \A i \in Instance : Replaced(i) <=> Replaced(i)'
  BY <1>1 DEF Replaced, Up
<1>4. ASSUME NEW i \in Stopped' PROVE i \in Gone' /\ Replaced(i)'
  <2>1. CASE StopsByPoll(i)
    <3>1. life[i] = "terminating" /\ script[i] \in Midway /\ param # i
      BY <2>1, StoppingReads DEF Stopped
    <3>2. QED
      BY <1>2, <1>3, <3>1 DEF UpdateInv, Gone, Stopped
  <2>2. CASE ~StopsByPoll(i)
    <3>1. i \in Stopped
      BY <2>2 DEF Stopped, StopsByPoll
    <3>2. QED
      BY <1>2, <1>3, <3>1 DEF MatchInv, Stopped
  <2>3. QED
    BY <2>1, <2>2
<1>5. Missing' \/ Unready' # {} => \E i \in Gone' : ~Replaced(i)'
  BY <1>2, <1>3 DEF MatchInv, Gone
<1>6. QED
  BY <1>1, <1>2, <1>4, <1>5 DEF MatchInv

LEMMA MatchStep ==
  ASSUME MaxBatch = 1, MaxScale = 0, BootTicks > 0, ReadFaults = FALSE
  PROVE  TypeOK /\ BootInv /\ LaunchInv /\ UpdateInv /\ MatchInv /\ [Next]_vars => MatchInv'
<1> SUFFICES ASSUME TypeOK, BootInv, LaunchInv, UpdateInv, MatchInv, [Next]_vars
             PROVE  MatchInv'
  OBVIOUS
<1>1. CASE UNCHANGED vars \/ Rest \/ Tick \/ CompleteUpdate \/ FailUpdate
  BY <1>1, BooksFrame DEF vars, Rest, Tick, CompleteUpdate, FailUpdate, groupVars, bootVars,
     nodeVars
<1>2. ASSUME NEW i \in Instance, CompleteHook(i) \/ HookTimeout(i) PROVE MatchInv'
  <2>1. /\ UNCHANGED <<desired, boot, after, procs>>
        /\ life[i] = "terminating" /\ life' = [life EXCEPT ![i] = "terminated"]
    BY <1>2 DEF CompleteHook, HookTimeout, bootVars, nodeVars
  <2>2. Active' = Active /\ Gone' = Gone
    BY <2>1 DEF Active, Gone, TypeOK
  <2>3. QED
    BY <2>1, <2>2 DEF MatchInv, Launched, Unready, Stopped, Missing, Replaced, Up
<1>3. ~ScaleOut /\ \A i \in Instance : ~ScaleIn(i)
  BY DEF ScaleIn, ScaleOut, TypeOK
<1>4. QED
  BY <1>1, <1>2, <1>3, MatchBatch, MatchLaunch, MatchBoot, MatchScript DEF Next, GroupNext

(* The books of the update are kept, for every group and every timing that *)
(* the assumptions allow.                                                  *)
THEOREM MatchInvariant ==
  ASSUME MaxBatch = 1, MaxScale = 0, BootTicks > 0, ReadFaults = FALSE
  PROVE  Spec => []MatchInv
BY Base, LaunchInvariant, UpdateInvariant, MatchInit, MatchStep, PTL DEF Spec

LEMMA DisjointCount ==
  ASSUME NEW S, NEW T, IsFiniteSet(S), IsFiniteSet(T), S \cap T = {}
  PROVE  Cardinality(S \cup T) = Cardinality(S) + Cardinality(T)
<1>1. Cardinality(S \cup T) = Cardinality(S) + Cardinality(T) - Cardinality(S \cap T)
  BY FS_Union
<1>2. Cardinality(S \cap T) = 0
  BY FS_EmptySet
<1>3. Cardinality(S) \in Nat /\ Cardinality(T) \in Nat
  BY FS_CardinalityType
<1>4. QED
  BY <1>1, <1>2, <1>3

(* What the books say in numbers: everything launched is up but perhaps one, *)
(* and then, or when a node is missing, one old node is not yet replaced.  *)
LEMMA MatchCount ==
  ASSUME TypeOK, LaunchInv, MatchInv
  PROVE  StopsMatched
<1> DEFINE Ready    == {n \in Instance : Up(n)}
           Replaceds == {i \in Gone : Replaced(i)}
<1>1. /\ Group \in SUBSET Instance /\ Gone \in SUBSET Group /\ Launched \in SUBSET Instance
      /\ Ready \in SUBSET Instance /\ Unready \in SUBSET Instance
      /\ Replaceds \in SUBSET Gone /\ Stopped \in SUBSET Replaceds
  BY GroupAssumption DEF MatchInv, Launched, Unready, Stopped
<1>2. /\ Launched = Ready \cup Unready /\ Ready \cap Unready = {}
      /\ Active = (Group \ Gone) \cup Launched /\ (Group \ Gone) \cap Launched = {}
  BY DEF MatchInv, Launched, Unready, Up
<1>3. ASSUME NEW S \in SUBSET Instance PROVE IsFiniteSet(S) /\ Cardinality(S) \in Nat
  BY GroupAssumption, FS_Subset, FS_CardinalityType
<1> HIDE DEF Ready, Replaceds
<1>4. Cardinality(Launched) = Cardinality(Ready) + Cardinality(Unready)
  BY <1>1, <1>2, <1>3, DisjointCount
<1>5. Cardinality(Active) = Cardinality(Group \ Gone) + Cardinality(Launched)
  <2>1. (Group \ Gone) \in SUBSET Instance
    BY <1>1
  <2>2. QED
    BY <1>1, <1>2, <1>3, <2>1, DisjointCount
<1>6. Cardinality(Group) = Cardinality(Group \ Gone) + Cardinality(Gone)
  <2>1. (Group \ Gone) \in SUBSET Instance /\ Group = (Group \ Gone) \cup Gone
        /\ (Group \ Gone) \cap Gone = {} /\ Gone \in SUBSET Instance
    BY <1>1
  <2>2. QED
    BY <1>3, <2>1, DisjointCount
<1>7. Cardinality(Stopped) <= Cardinality(Replaceds)
  BY <1>1, <1>3, FS_Subset
<1>8. Cardinality(Replaceds) <= Cardinality(Gone)
  BY <1>1, <1>3, FS_Subset
<1>9. desired = Cardinality(Group) /\ Cardinality(Active) + 1 >= desired
  BY DEF LaunchInv, MatchInv
<1>nat. /\ Cardinality(Ready) \in Nat /\ Cardinality(Unready) \in Nat /\ Cardinality(Launched) \in Nat
      /\ Cardinality(Group \ Gone) \in Nat /\ Cardinality(Gone) \in Nat /\ Cardinality(Group) \in Nat
      /\ Cardinality(Stopped) \in Nat /\ Cardinality(Replaceds) \in Nat /\ Cardinality(Active) \in Nat
  <2>1. (Group \ Gone) \in SUBSET Instance /\ Stopped \in SUBSET Instance
        /\ Replaceds \in SUBSET Instance /\ Gone \in SUBSET Instance
    BY <1>1
  <2>2. QED
    BY <1>1, <1>3, <2>1, ActiveFinite
<1>10. Cardinality(Replaceds) <= Cardinality(Ready)
  <2>1. CASE ~Missing /\ Unready = {}
    <3>1. Cardinality(Unready) = 0 /\ Cardinality(Active) >= desired
      BY <1>9, <1>nat, <2>1, FS_EmptySet DEF Missing
    <3>2. QED
      BY <1>4, <1>5, <1>6, <1>8, <1>9, <1>nat, <3>1
  <2>2. CASE Missing \/ Unready # {}
    <3>1. Cardinality(Replaceds) + 1 <= Cardinality(Gone)
      <4>1. PICK i \in Gone : ~Replaced(i)
        BY <2>2 DEF MatchInv
      <4>2. Replaceds \in SUBSET (Gone \ {i})
        BY <4>1 DEF Replaceds
      <4>3. IsFiniteSet(Gone) /\ IsFiniteSet(Gone \ {i})
        BY <1>1, <1>3, FS_Subset
      <4>4. Cardinality(Gone \ {i}) = Cardinality(Gone) - 1
        BY <4>1, <4>3, FS_RemoveElement
      <4>5. Cardinality(Replaceds) <= Cardinality(Gone \ {i})
        BY <4>2, <4>3, FS_Subset
      <4>6. QED
        BY <1>nat, <4>4, <4>5
    <3>2. CASE Unready = {}
      <4>1. Cardinality(Unready) = 0
        BY <3>2, FS_EmptySet
      <4>2. QED
        BY <1>4, <1>5, <1>6, <1>9, <1>nat, <3>1, <4>1
    <3>3. CASE Unready # {}
      <4>1. Cardinality(Unready) = 1
        <5>1. PICK n \in Unready : TRUE
          BY <3>3
        <5>2. Unready = {n}
          BY <5>1 DEF MatchInv
        <5>3. QED
          BY <5>2, FS_Singleton
      <4>2. Cardinality(Active) >= desired
        BY <1>9, <1>nat, <3>3 DEF MatchInv, Missing
      <4>3. QED
        BY <1>4, <1>5, <1>6, <1>9, <1>nat, <3>1, <4>1, <4>2
    <3>4. QED
      BY <3>2, <3>3
  <2>3. QED
    BY <2>1, <2>2
<1>11. QED
  BY <1>7, <1>10, <1>nat DEF StopsMatched, Ready

(* No node is given away for nothing: the old nodes stopped are no more    *)
(* than the new nodes that are up, whatever fails but the read of the      *)
(* parameter.                                                              *)
THEOREM NoNodeForNothing ==
  ASSUME MaxBatch = 1, MaxScale = 0, BootTicks > 0, ReadFaults = FALSE
  PROVE  Spec => []StopsMatched
BY Base, LaunchInvariant, MatchInvariant, MatchCount, PTL

-----------------------------------------------------------------------------
(* Ingestion tasks.                                                        *)

(* Which steps touch the tasks of an instance, and when.                   *)
LEMMA TaskFrame ==
  ASSUME TypeOK, BootInv, [Next]_vars, NEW i \in Instance
  PROVE  /\ life[i] = "terminated" => life'[i] = "terminated"
         /\ script[i] \in Ended => script'[i] = script[i]
         /\ life[i] \in {"terminating", "terminated"} /\ tasks'[i] > tasks[i]
              => i \notin disabled /\ i \notin disabled' /\ life[i] = "terminating"
         /\ script[i] = "none" \/ life[i] \in {"terminating", "terminated"}
         /\ hookAge'[i] >= hookAge[i]
<1> USE DEF TypeOK
<1>1. script[i] = "none" \/ life[i] \in {"terminating", "terminated"}
  BY DEF BootInv
<1>2. CASE UNCHANGED vars \/ Rest
  BY <1>1, <1>2 DEF vars, Rest, groupVars, scriptVars, nodeVars
<1>3. CASE Tick
  BY <1>1, <1>3 DEF Tick, groupVars, nodeVars
<1>4. ASSUME NEW S \in SUBSET Instance, \A j \in S : life[j] = "inService", Terminate(S),
             UNCHANGED <<script, hookAge>>
      PROVE  /\ life[i] = "terminated" => life'[i] = "terminated"
             /\ life[i] \in {"terminating", "terminated"} => tasks'[i] = tasks[i]
  BY <1>4 DEF Terminate
<1>5. CASE GroupNext
  <2>1. CASE StartBatch
    BY <1>1, <1>4, <2>1, GroupAssumption DEF StartBatch, OldNodes, scriptVars
  <2>2. ASSUME NEW j \in Instance, ScaleIn(j)
        PROVE  /\ UNCHANGED <<script, hookAge>>
               /\ life[i] = "terminated" => life'[i] = "terminated"
               /\ life[i] \in {"terminating", "terminated"} => tasks'[i] = tasks[i]
    BY <1>4, <2>2 DEF ScaleIn, scriptVars
  <2>3. ASSUME NEW j \in Instance, Launch(j) \/ CompleteHook(j) \/ HookTimeout(j)
        PROVE  /\ UNCHANGED <<script, hookAge, tasks>>
               /\ life[i] = "terminated" => life'[i] = "terminated"
    BY <2>3 DEF Launch, CompleteHook, HookTimeout, scriptVars, nodeVars
  <2>4. CASE CompleteUpdate \/ FailUpdate \/ ScaleOut
    BY <1>1, <2>4 DEF CompleteUpdate, FailUpdate, ScaleOut, scriptVars, nodeVars
  <2>5. QED
    BY <1>1, <1>5, <2>1, <2>2, <2>3, <2>4 DEF GroupNext
<1>6. ASSUME NEW j \in Instance, ScriptNext(j)
      PROVE  /\ UNCHANGED <<life, hookAge, tasks>>
             /\ script[i] \in Ended => script'[i] = script[i]
  <2>1. UNCHANGED <<life, hookAge>> /\ i # j => script'[i] = script[i]
    BY <1>6, ScriptFrame DEF groupVars
  <2>2. UNCHANGED tasks /\ script[j] \notin Ended
    BY <1>6 DEF ScriptNext, StartScript, GetSecret, PutParameter, DisableMiddleManager,
       CheckProcess, PollStop, PollLast, PollExhausted, SeeNoTasks, SeeNoWorker, TasksExhausted,
       StopWorker, KillScript, Runs, nodeVars, Ended, Waits
  <2>3. QED
    BY <1>6, <2>1, <2>2, ScriptFrame DEF groupVars
<1>7. ASSUME NEW j \in Instance, NodeNext(j)
      PROVE  /\ UNCHANGED <<life, hookAge, script>>
             /\ tasks'[i] > tasks[i]
                  => i \notin disabled /\ i \notin disabled' /\ life[i] = "terminating"
  <2>1. UNCHANGED <<life, hookAge, script>>
    BY <1>7, NodeFrame DEF groupVars, scriptVars
  <2>2. ASSUME NEW p \in Processes, Crash(j, p) \/ Restart(j, p) PROVE tasks' = tasks
    BY <2>2 DEF Crash, Restart
  <2>3. CASE AssignTask(j)
    BY <2>1, <2>3 DEF AssignTask
  <2>4. CASE FinishTask(j)
    BY <2>1, <2>4 DEF FinishTask
  <2>5. QED
    BY <1>7, <2>1, <2>2, <2>3, <2>4 DEF NodeNext
<1>8. ASSUME NEW n \in Instance, BootNext(n)
      PROVE  /\ UNCHANGED <<hookAge, script, tasks>>
             /\ life[i] = "terminated" => life'[i] = "terminated"
  BY <1>8 DEF BootNext, CheckLeader, CheckHealth, CheckProcessStatus, WaitForSegments, CheckRaises,
     ResetParameter, SignalSuccess, BootFrame, Advance, BootInv, Checks, scriptVars, nodeVars
<1>9. QED
  BY <1>1, <1>2, <1>3, <1>5, <1>6, <1>7, <1>8 DEF Next

(* A worker is disabled before the script counts its tasks, and a script   *)
(* that is about to stop the worker, or has, has counted none.             *)
LEMMA DrainEntry ==
  ASSUME TypeOK, [Next]_vars, NEW i \in Instance
  PROVE  /\ i \notin disabled /\ i \in disabled'
              => /\ life[i] = "terminating" /\ script[i] = "disable"
                 /\ script'[i] \notin {"stopWorker", "drained"}
         /\ script'[i] \in {"stopWorker", "drained"}
              => script[i] \in {"stopWorker", "drained"} \/ (tasks[i] = 0 /\ tasks'[i] = 0)
<1> USE DEF TypeOK
<1>1. ASSUME UNCHANGED <<script, disabled>>
      PROVE  script'[i] = script[i] /\ disabled' = disabled
  BY <1>1
<1>2. CASE UNCHANGED vars \/ Rest \/ Tick \/ GroupNext
  BY <1>1, <1>2 DEF vars, Rest, Tick, GroupNext, StartBatch, CompleteUpdate, FailUpdate,
     ScaleOut, Launch, ScaleIn, CompleteHook, HookTimeout, scriptVars, nodeVars
<1>3. ASSUME NEW j \in Instance, NodeNext(j)
      PROVE  UNCHANGED script /\ disabled' \subseteq disabled
  BY <1>3 DEF NodeNext, Crash, Restart, AssignTask, FinishTask, scriptVars
<1>4. ASSUME NEW n \in Instance, BootNext(n) PROVE UNCHANGED <<script, disabled>>
  BY <1>4 DEF BootNext, CheckLeader, CheckHealth, CheckProcessStatus, WaitForSegments, CheckRaises,
     ResetParameter, SignalSuccess, BootFrame, scriptVars, nodeVars
<1>5. ASSUME NEW j \in Instance, ScriptNext(j)
      PROVE  /\ i \notin disabled /\ i \in disabled'
                  => /\ life[i] = "terminating" /\ script[i] = "disable"
                 /\ script'[i] \notin {"stopWorker", "drained"}
             /\ script'[i] \in {"stopWorker", "drained"}
                  => \/ script[i] \in {"stopWorker", "drained"}
                     \/ tasks[i] = 0 /\ tasks'[i] = 0
  <2> USE DEF GoTo, Runs
  <2>1. /\ Head(Steps) \notin {"stopWorker", "drained"}
        /\ \A s : NextStep(s) \notin {"stopWorker", "drained"}
    BY StepFacts DEF Midway, Waits
  <2>2. CASE StartScript(j) \/ GetSecret(j) \/ KillScript(j)
    BY <2>2 DEF StartScript, GetSecret, KillScript, nodeVars
  <2>3. CASE PutParameter(j)
    BY <2>1, <2>3 DEF PutParameter, nodeVars
  <2>4. CASE DisableMiddleManager(j)
    BY <2>1, <2>4 DEF DisableMiddleManager
  <2>5. ASSUME NEW p \in Waits,
               CheckProcess(j, p) \/ PollStop(j, p) \/ PollLast(j, p) \/ PollExhausted(j, p)
        PROVE  /\ UNCHANGED disabled
               /\ script'[i] \in {"stopWorker", "drained"} => script'[i] = script[i]
    BY <2>1, <2>5 DEF CheckProcess, PollStop, PollLast, PollExhausted, nodeVars
  <2>6. CASE SeeNoTasks(j) \/ SeeNoWorker(j) \/ TasksExhausted(j) \/ StopWorker(j)
    BY <2>1, <2>6 DEF SeeNoTasks, SeeNoWorker, TasksExhausted, StopWorker, nodeVars
  <2>7. QED
    BY <1>5, <2>2, <2>3, <2>4, <2>5, <2>6 DEF ScriptNext
<1>6. QED
  BY <1>2, <1>3, <1>4, <1>5 DEF Next

(* The end of a termination: by the automation's answer or by the timeout. *)
LEMMA EndOfLife ==
  ASSUME TypeOK, BootInv, [Next]_vars, NEW i \in Instance,
         life[i] # "terminated", life'[i] = "terminated"
  PROVE  /\ UNCHANGED <<tasks, script, disabled, hookAge>>
         /\ script[i] \in Ended \ {"killed"} \/ hookAge[i] >= HookTicks
<1> USE DEF TypeOK
<1>1. GroupNext
  <2>1. ~(UNCHANGED vars \/ Rest \/ Tick)
    BY DEF vars, Rest, Tick, groupVars
  <2>2. \A j \in Instance : ~ScriptNext(j) /\ ~NodeNext(j)
    BY ScriptFrame, NodeFrame DEF groupVars
  <2>3. \A n \in Instance : ~BootNext(n)
    BY DEF BootNext, CheckLeader, CheckHealth, CheckProcessStatus, WaitForSegments, CheckRaises,
       ResetParameter, SignalSuccess
  <2>4. QED
    BY <2>1, <2>2, <2>3 DEF Next
<1>2. PICK j \in Instance : CompleteHook(j) \/ HookTimeout(j)
  BY <1>1 DEF GroupNext, StartBatch, CompleteUpdate, FailUpdate, ScaleOut, Launch,
     ScaleIn, Terminate
<1>3. j = i
  BY <1>2 DEF CompleteHook, HookTimeout
<1>4. QED
  BY <1>2, <1>3 DEF CompleteHook, HookTimeout, scriptVars, nodeVars

(* For every timing and fault: the script never stops a middle manager it  *)
(* has disabled while that still runs tasks.                               *)
THEOREM WorkersDrainIdle == Spec => []DrainedMeansIdle
<1>1. Init => DrainedMeansIdle
  BY DEF Init, DrainedMeansIdle
<1>2. TypeOK /\ BootInv /\ DrainedMeansIdle /\ [Next]_vars => DrainedMeansIdle'
  <2> SUFFICES ASSUME TypeOK, BootInv, DrainedMeansIdle, [Next]_vars,
                      NEW i \in Instance, script'[i] \in {"stopWorker", "drained"}, i \in disabled'
               PROVE  tasks'[i] = 0
    BY DEF DrainedMeansIdle
  <2>1. CASE script[i] \notin {"stopWorker", "drained"}
    BY <2>1, DrainEntry
  <2>2. CASE script[i] \in {"stopWorker", "drained"}
    <3>1. i \in disabled
      BY <2>2, DrainEntry
    <3>2. tasks[i] = 0 /\ life[i] \in {"terminating", "terminated"}
      BY <2>2, <3>1, TaskFrame DEF DrainedMeansIdle
    <3>3. ~(tasks'[i] > tasks[i])
      BY <3>1, <3>2, TaskFrame
    <3>4. QED
      BY <3>2, <3>3, TypeCorrectStep DEF TypeOK
  <2>3. QED
    BY <2>1, <2>2
<1>3. QED
  BY <1>1, <1>2, Base, PTL DEF Spec

(* The script of a worker: of the types with a middle manager, and only    *)
(* there, it begins with the disabling, and it ends with the tasks.        *)
Drains == NodeType \in {"data", "middleManager"}

LEMMA DrainSteps ==
  /\ Head(Steps) = "disable" => Drains
  /\ \A s : NextStep(s) # "disable"
  /\ Drains => /\ NextStep("disable") # "done"
               /\ \A p \in Waits \cap Processes : NextStep(p) # "done"
<1> USE DEF Drains, Steps, StepMap, NextStep, Waits, Processes, ComponentMap
<1>1. CASE NodeType = "master"
  BY <1>1
<1>2. CASE NodeType = "query"
  BY <1>2
<1>3. CASE NodeType = "data"
  BY <1>3
<1>4. CASE NodeType = "historical"
  BY <1>4
<1>5. CASE NodeType = "middleManager"
  BY <1>5
<1>6. QED
  BY <1>1, <1>2, <1>3, <1>4, <1>5, NodeTypeAssumption

(* What a script has to do before it ends.  Its loop is never older than   *)
(* the termination, it fails only before the worker is disabled, and with  *)
(* a worker disabled it comes to its last line only through all attempts   *)
(* of waitForNoIngestionTasks.                                             *)
DrainInv ==
  /\ \A i \in Instance : loopAge[i] <= hookAge[i]
  /\ \A i \in Instance : script[i] = "disable" \/ i \in disabled => Drains
  /\ \A i \in disabled :
       /\ script[i] \notin Early \cup {"failed"}
       /\ script[i] = "done" => hookAge[i] >= TaskTicks

LEMMA ScriptEnds ==
  ASSUME TypeOK, PollingInv, NEW j \in Instance, ScriptNext(j), NEW i \in Instance
  PROVE  /\ loopAge'[i] = loopAge[i] \/ loopAge'[i] = 0
         /\ script'[i] = "disable" => script[i] = "disable" \/ Drains
         /\ script'[i] = "failed" => script[i] \in Early \cup {"failed"}
         /\ script'[i] = "done" => \/ script[i] = "done"
                                   \/ loopAge[i] >= TaskTicks
                                   \/ ~Drains
<1> USE DEF TypeOK, GoTo, Runs
<1>1. /\ Head(Steps) \notin {"failed", "done"}
      /\ \A s : NextStep(s) # "failed"
  BY StepFacts DEF Midway, Waits
<1>2. CASE StartScript(j) \/ GetSecret(j) \/ KillScript(j) \/ StopWorker(j)
  BY <1>2 DEF StartScript, GetSecret, KillScript, StopWorker, Early
<1>3. CASE PutParameter(j)
  BY <1>1, <1>3, DrainSteps DEF PutParameter, Early
<1>4. CASE DisableMiddleManager(j)
  BY <1>1, <1>4, DrainSteps DEF DisableMiddleManager
<1>5. ASSUME NEW p \in Waits,
             CheckProcess(j, p) \/ PollStop(j, p) \/ PollLast(j, p) \/ PollExhausted(j, p)
      PROVE  /\ loopAge'[i] = loopAge[i] \/ loopAge'[i] = 0
             /\ script'[i] = script[i] \/ script'[i] = NextStep(p)
             /\ p \in Waits \cap Processes
  BY <1>5 DEF CheckProcess, PollStop, PollLast, PollExhausted, PollingInv
<1>6. CASE SeeNoTasks(j) \/ SeeNoWorker(j) \/ TasksExhausted(j)
  BY <1>1, <1>6, DrainSteps DEF SeeNoTasks, SeeNoWorker, TasksExhausted
<1>7. QED
  BY <1>1, <1>2, <1>3, <1>4, <1>5, <1>6, DrainSteps DEF ScriptNext

(* The steps that are not the script's leave it where it is.               *)
LEMMA OtherSteps ==
  ASSUME TypeOK, [Next]_vars, NEW i \in Instance, \A j \in Instance : ~ScriptNext(j)
  PROVE  /\ script'[i] = script[i]
         /\ loopAge[i] <= hookAge[i] => loopAge'[i] <= hookAge'[i]
<1> USE DEF TypeOK
<1>1. CASE UNCHANGED vars \/ Rest \/ GroupNext
  BY <1>1 DEF vars, Rest, GroupNext, StartBatch, CompleteUpdate, FailUpdate, ScaleOut,
     Launch, ScaleIn, CompleteHook, HookTimeout, scriptVars
<1>2. CASE Tick
  BY <1>2 DEF Tick
<1>3. ASSUME NEW j \in Instance, NodeNext(j) PROVE UNCHANGED <<scriptVars, hookAge>>
  BY <1>3, NodeFrame
<1>4. ASSUME NEW n \in Instance, BootNext(n) PROVE UNCHANGED <<scriptVars, hookAge>>
  BY <1>4 DEF BootNext, CheckLeader, CheckHealth, CheckProcessStatus, WaitForSegments,
     CheckRaises, ResetParameter, SignalSuccess, BootFrame
<1>5. QED
  BY <1>1, <1>2, <1>3, <1>4 DEF Next, scriptVars

LEMMA DrainStep ==
  TypeOK /\ PollingInv /\ BootInv /\ DrainInv /\ [Next]_vars => DrainInv'
<1> SUFFICES ASSUME TypeOK, PollingInv, BootInv, DrainInv, [Next]_vars PROVE DrainInv'
  OBVIOUS
<1>1. /\ \A i \in Instance : loopAge[i] \in Nat /\ hookAge[i] \in Nat /\ hookAge'[i] \in Nat
      /\ TaskTicks \in Nat /\ disabled' \subseteq Instance
  BY TypeCorrectStep, TimeAssumption DEF TypeOK
<1>2. ASSUME NEW i \in Instance PROVE loopAge'[i] <= hookAge'[i]
  <2>1. ASSUME NEW j \in Instance, ScriptNext(j) PROVE loopAge'[i] <= hookAge'[i]
    <3>1. hookAge' = hookAge
      BY <2>1, ScriptFrame
    <3>2. QED
      BY <1>1, <2>1, <3>1, ScriptEnds DEF DrainInv
  <2>2. QED
    BY <2>1, OtherSteps DEF DrainInv
<1>3. ASSUME NEW i \in Instance, script'[i] = "disable" \/ i \in disabled' PROVE Drains
  BY <1>3, DrainEntry, ScriptEnds, OtherSteps DEF DrainInv
<1>4. ASSUME NEW i \in disabled'
      PROVE  /\ script'[i] \notin Early \cup {"failed"}
             /\ script'[i] = "done" => hookAge'[i] >= TaskTicks
  <2>1. i \in Instance /\ Drains
    BY <1>1, <1>3, <1>4
  <2>2. script[i] \notin Early \cup {"failed", "done"} \/ i \in disabled
    BY <1>4, <2>1, DrainEntry DEF Early
  <2>3. hookAge'[i] >= hookAge[i] /\ loopAge[i] <= hookAge[i]
    BY <2>1, TaskFrame DEF DrainInv
  <2>4. script[i] \notin Early \cup {"failed"}
    BY <2>2 DEF DrainInv
  <2>5. script[i] = "done" => hookAge[i] >= TaskTicks
    BY <2>2 DEF DrainInv
  <2>6. ASSUME NEW j \in Instance, ScriptNext(j)
        PROVE  /\ script'[i] \notin Early \cup {"failed"}
               /\ script'[i] = "done" => script[i] = "done" \/ loopAge[i] >= TaskTicks
    <3>1. script'[i] \notin Early
      BY <2>1, <2>4, <2>6, ScriptFrame
    <3>2. QED
      BY <2>1, <2>4, <2>6, <3>1, ScriptEnds
  <2>7. /\ script'[i] \notin Early \cup {"failed"}
        /\ script'[i] = "done" => script[i] = "done" \/ loopAge[i] >= TaskTicks
    BY <2>1, <2>4, <2>6, OtherSteps
  <2>8. QED
    BY <1>1, <2>1, <2>3, <2>5, <2>7
<1>5. QED
  BY <1>2, <1>3, <1>4 DEF DrainInv

(* For every node type and fault, if the hook waits at least as long as    *)
(* waitForNoIngestionTasks: a task of a disabled worker that answers is     *)
(* not cut off before its 75 minutes, whichever waits the script adds up.  *)
THEOREM TasksHaveTime ==
  ASSUME TaskTicks <= HookTicks
  PROVE  Spec => []TasksGetTheirTime
<1>1. Init => DrainInv /\ TasksGetTheirTime
  <2> SUFFICES ASSUME Init PROVE DrainInv /\ TasksGetTheirTime
    OBVIOUS
  <2>1. DrainInv
    BY DEF Init, DrainInv
  <2>2. TasksGetTheirTime
    BY DEF Init, TasksGetTheirTime
  <2>3. QED
    BY <2>1, <2>2
<1>2. TypeOK /\ BootInv /\ DrainedMeansIdle /\ DrainInv /\ TasksGetTheirTime /\ [Next]_vars
        => TasksGetTheirTime'
  <2> SUFFICES ASSUME TypeOK, BootInv, DrainedMeansIdle, DrainInv, TasksGetTheirTime,
                      [Next]_vars, NEW i \in Instance,
                      life'[i] = "terminated", i \in disabled', tasks'[i] > 0,
                      script'[i] # "workerGone"
               PROVE  hookAge'[i] >= TaskTicks
    BY DEF TasksGetTheirTime
  <2>1. /\ hookAge[i] \in Nat /\ hookAge'[i] \in Nat /\ hookAge'[i] >= hookAge[i]
        /\ TaskTicks \in Nat /\ HookTicks \in Nat /\ tasks[i] \in Nat /\ tasks'[i] \in Nat
    BY TypeCorrectStep, TaskFrame, TimeAssumption DEF TypeOK
  <2>2. CASE life[i] = "terminated"
    <3>1. tasks[i] > 0 /\ i \in disabled
      BY <2>1, <2>2, TaskFrame, DrainEntry
    <3>2. script[i] # "workerGone"
      BY TaskFrame DEF Ended
    <3>3. QED
      BY <2>1, <2>2, <3>1, <3>2 DEF TasksGetTheirTime
  <2>3. CASE life[i] # "terminated"
    <3>1. /\ UNCHANGED <<tasks, script, disabled, hookAge>>
          /\ script[i] \in Ended \ {"killed"} \/ hookAge[i] >= HookTicks
      BY <2>3, EndOfLife
    <3>2. script[i] = "done" \/ hookAge[i] >= HookTicks
      BY <2>1, <3>1 DEF DrainedMeansIdle, DrainInv, Ended
    <3>3. QED
      BY <2>1, <3>1, <3>2 DEF DrainInv
  <2>4. QED
    BY <2>2, <2>3
<1>3. QED
  BY <1>1, <1>2, Base, WorkersDrainIdle, DrainStep, PTL DEF Spec
=============================================================================
