------------------------ MODULE GracefulTermination ------------------------
(***************************************************************************)
(* The replacement of the EC2 nodes of one Druid tier.                     *)
(*                                                                         *)
(* Every Auto Scaling group has ONE SSM parameter through which the nodes  *)
(* that leave and the nodes that arrive talk to each other:                *)
(*   - terminate_druid_node.sh, run by the SSM automation of the           *)
(*     termination lifecycle hook, writes the id of its own instance and   *)
(*     polls until it reads anything else, then stops the Druid process;   *)
(*   - check_druid_status.py, run at the end of a new node's user data,    *)
(*     writes '__NOT_USED__' once the node is healthy.                     *)
(* Around them CloudFormation replaces the old nodes batch by batch,       *)
(* waiting for the new nodes' signals, the group launches what is missing, *)
(* and the lifecycle hook ends a termination that takes too long.          *)
(*                                                                         *)
(* Time: Tick advances every running timer.  A tick stands for a stretch   *)
(* of minutes, during which a script that has nothing to wait for takes    *)
(* all its steps: Tick waits for them (Urgent).                            *)
(***************************************************************************)
EXTENDS Naturals, FiniteSets, Sequences

CONSTANTS
  Instance,      \* every instance id that may ever exist
  Group,         \* the instances of the group before the update
  NotUsed,       \* '__NOT_USED__'
  NodeType,      \* "master", "data", "query", "historical" or "middleManager"
  MaxBatch,      \* rollingUpdatePolicy.maxBatchSize
  WaitTicks,     \* waitForProcess: 720 polls, one every 5 seconds (60 minutes)
  TaskTicks,     \* waitForNoIngestionTasks: 75 attempts, one a minute
  ExecTicks,     \* executionTimeout of the termination script (90 minutes)
  HookTicks,     \* heartbeatTimeout of the lifecycle hook (90 minutes)
  WatchdogTicks, \* wait_for_segments gives up (55 minutes)
  PauseTicks,    \* ROLLING_UPDATE_PAUSE_TIME (60 minutes)
  BootTicks,     \* the least time user data takes to reach its health check
  MaxTasks,      \* bound on the ingestion tasks of one middleManager
  MaxCrashes,    \* bound on process crashes
  MaxScale,      \* bound on the steps of the auto scaling policy
  ReadFaults,    \* may get-parameter fail?
  WriteFaults    \* may get-secret-value and put-parameter fail?

(* druid_component_map: the Druid processes of a node of each type.        *)
ComponentMap ==
  [master        |-> {"coordinator", "overlord"},
   query         |-> {"broker", "router"},
   data          |-> {"historical", "middleManager"},
   historical    |-> {"historical"},
   middleManager |-> {"middleManager"}]
Processes == ComponentMap[NodeType]

(* The case statement of the script: what it does for each type, in order. *)
StepMap ==
  [master        |-> <<"coordinator", "overlord">>,
   query         |-> <<"broker", "router">>,
   data          |-> <<"disable", "historical", "tasks">>,
   historical    |-> <<"historical">>,
   middleManager |-> <<"disable", "tasks">>]
Steps == StepMap[NodeType]

ASSUME GroupAssumption ==
  /\ NotUsed \notin Instance
  /\ Group \subseteq Instance
  /\ IsFiniteSet(Instance)
  /\ MaxBatch \in Nat \ {0}

ASSUME NodeTypeAssumption == NodeType \in DOMAIN ComponentMap

ASSUME TimeAssumption ==
  /\ {WaitTicks, TaskTicks, ExecTicks, HookTicks,
      WatchdogTicks, PauseTicks, BootTicks} \subseteq Nat
  /\ BootTicks <= WatchdogTicks /\ WatchdogTicks < PauseTicks

ASSUME BoundAssumption ==
  /\ {MaxTasks, MaxCrashes, MaxScale} \subseteq Nat
  /\ {ReadFaults, WriteFaults} \subseteq BOOLEAN

VARIABLES
  life,       \* what the group does with an instance
  update,     \* the state of CloudFormation's rolling update
  batch,      \* the old instances of the current or last batch
  owed,       \* new instances whose success signal the update waits for
  desired,    \* the group's desired capacity
  param,      \* the graceful termination parameter
  script,     \* where terminate_druid_node.sh is on an instance
  polling,    \* the instances inside a waitForProcess loop, with a read to come
  lastSleep,  \* those that have done their last read and sleep once more
  procs,      \* the state of every Druid process
  disabled,   \* the instances whose middleManager takes no new task
  tasks,      \* ingestion tasks running on a terminating instance
  boot,       \* where check_druid_status.py is on a new instance
  after,      \* history: who was terminating when an instance was launched
  hookAge,    \* ticks since the termination began
  loopAge,    \* ticks since the script's current loop began
  bootAge,    \* ticks since SYSTEM_START_TIME, counted up to PauseTicks
  crashes, scalings

groupVars  == <<life, update, batch, owed, desired, scalings>>
scriptVars == <<script, polling, lastSleep, loopAge>>
nodeVars   == <<procs, disabled, tasks, crashes>>
bootVars   == <<boot, after, bootAge>>
vars == <<groupVars, param, scriptVars, nodeVars, bootVars, hookAge>>

Life  == {"absent", "booting", "inService", "terminating", "terminated"}
Early == {"none", "secret", "param"}
Ended == {"done", "drained", "workerGone", "failed", "killed"}
Waits == {"coordinator", "overlord", "broker", "router", "historical"}
ScriptStates == Early \cup Waits \cup {"disable", "tasks", "stopWorker"} \cup Ended
Checks == {"leader", "health", "process", "segments", "reset", "signal"}
BootStates == {"idle", "done", "failed"} \cup Checks

Active      == {i \in Instance : life[i] \in {"booting", "inService"}}
Terminating == {i \in Instance : life[i] = "terminating"}
Booting     == {n \in Instance : boot[n] \in Checks}
OldNodes    == {i \in Group : life[i] = "inService"}
(* The check of a new node is over and has reset the parameter.            *)
Up(n)       == boot[n] \in {"signal", "done"}
(* A node launched since i began to terminate is up.                       *)
Replaced(i) == \E n \in Instance : i \in after[n] /\ Up(n)

(* The step of the script after s: the next one of the case, or exit 0.    *)
NextStep(s) ==
  IF \E k \in 1 .. Len(Steps) - 1 : Steps[k] = s
  THEN Steps[(CHOOSE k \in 1 .. Len(Steps) - 1 : Steps[k] = s) + 1]
  ELSE "done"

TypeOK ==
  /\ life \in [Instance -> Life]
  /\ update \in {"idle", "running", "complete", "failed"}
  /\ batch \subseteq Instance
  /\ owed \subseteq Instance
  /\ desired \in Nat
  /\ param \in Instance \cup {NotUsed}
  /\ script \in [Instance -> ScriptStates]
  /\ polling \subseteq Instance
  /\ lastSleep \subseteq Instance
  /\ procs \in [Instance -> [Processes -> {"running", "down", "stopped"}]]
  /\ disabled \subseteq Instance
  /\ tasks \in [Instance -> Nat]
  /\ boot \in [Instance -> BootStates]
  /\ after \in [Instance -> SUBSET Instance]
  /\ hookAge \in [Instance -> Nat]
  /\ loopAge \in [Instance -> Nat]
  /\ bootAge \in [Instance -> 0 .. PauseTicks]
  /\ crashes \in Nat
  /\ scalings \in Nat

(* The group runs in its full strength and its parameter was just created. *)
Init ==
  /\ life = [i \in Instance |-> IF i \in Group THEN "inService" ELSE "absent"]
  /\ update = "idle" /\ batch = {} /\ owed = {}
  /\ desired = Cardinality(Group)
  /\ param = NotUsed
  /\ script = [i \in Instance |-> "none"]
  /\ polling = {} /\ lastSleep = {}
  /\ procs = [i \in Instance |-> [p \in Processes |-> "running"]]
  /\ disabled = {}
  /\ tasks = [i \in Instance |-> 0]
  /\ boot = [i \in Instance |-> "idle"]
  /\ after = [i \in Instance |-> {}]
  /\ hookAge = [i \in Instance |-> 0]
  /\ loopAge = [i \in Instance |-> 0]
  /\ bootAge = [i \in Instance |-> 0]
  /\ crashes = 0 /\ scalings = 0

-----------------------------------------------------------------------------
(* The Auto Scaling group and the rolling update (external to the code,    *)
(* configured by druidAutoScalingGroup.ts).                                *)

Missing == Cardinality(Active) < desired

(* The instances of S enter Terminating:Wait, with whatever tasks they run. *)
Terminate(S) ==
  /\ life' = [i \in Instance |-> IF i \in S THEN "terminating" ELSE life[i]]
  /\ \E t \in [S -> 0 .. MaxTasks] :
       tasks' = [i \in Instance |-> IF i \in S THEN t[i] ELSE tasks[i]]

(* Mutation: the next batch does not wait for the signals of the last one. *)
StartBatchUnsignalled ==
  /\ update \in {"idle", "running"} /\ ~Missing
  /\ \E b \in OldNodes : batch' = {b} /\ Terminate({b})
  /\ update' = "running"
  /\ UNCHANGED <<owed, desired, scalings, param, scriptVars, procs, disabled,
                 crashes, bootVars, hookAge>>

(* The update takes its next batch once every signal it waited for is in.  *)
StartBatch ==
  /\ update \in {"idle", "running"}
  /\ owed = {} /\ ~Missing
  /\ \E S \in SUBSET OldNodes :
       /\ S # {}
       /\ \/ Cardinality(S) = MaxBatch
          \/ Cardinality(S) < MaxBatch /\ S = OldNodes
       /\ batch' = S
       /\ Terminate(S)
  /\ update' = "running"
  /\ UNCHANGED <<owed, desired, scalings, param, scriptVars, procs, disabled,
                 crashes, bootVars, hookAge>>

CompleteUpdate ==
  /\ update = "running"
  /\ owed = {} /\ ~Missing /\ OldNodes = {}
  /\ update' = "complete"
  /\ UNCHANGED <<life, batch, owed, desired, scalings, param, scriptVars, nodeVars,
                 bootVars, hookAge>>

(* A failure signal, or none within the pause time: the update stops.      *)
FailUpdate ==
  /\ update = "running"
  /\ \E n \in owed : boot[n] = "failed" \/ bootAge[n] = PauseTicks
  /\ update' = "failed" /\ owed' = {}
  /\ UNCHANGED <<life, batch, desired, scalings, param, scriptVars, nodeVars,
                 bootVars, hookAge>>

(* Mutation: the update forgets to wait for the signal of a new node.      *)
LaunchUnwatched(n) ==
  /\ life[n] = "absent" /\ Missing
  /\ life' = [life EXCEPT ![n] = "booting"]
  /\ boot' = [boot EXCEPT ![n] = "leader"]
  /\ after' = [after EXCEPT ![n] = Terminating]
  /\ UNCHANGED <<update, batch, owed, desired, scalings, param, scriptVars, nodeVars,
                 bootAge, hookAge>>

(* The group replaces what it lacks; a terminating instance does not count. *)
Launch(n) ==
  /\ life[n] = "absent" /\ Missing
  /\ life' = [life EXCEPT ![n] = "booting"]
  /\ boot' = [boot EXCEPT ![n] = "leader"]
  /\ after' = [after EXCEPT ![n] = Terminating]
  /\ owed' = IF update = "running" THEN owed \cup {n} ELSE owed
  /\ UNCHANGED <<update, batch, desired, scalings, param, scriptVars, nodeVars,
                 bootAge, hookAge>>

(* The auto scaling policy is suspended while a rolling update runs.       *)
ScaleIn(i) ==
  /\ update # "running" /\ scalings < MaxScale
  /\ life[i] = "inService" /\ desired > 1 /\ ~Missing
  /\ desired' = desired - 1 /\ scalings' = scalings + 1
  /\ Terminate({i})
  /\ UNCHANGED <<update, batch, owed, param, scriptVars, procs, disabled,
                 crashes, bootVars, hookAge>>

ScaleOut ==
  /\ update # "running" /\ scalings < MaxScale
  /\ desired' = desired + 1 /\ scalings' = scalings + 1
  /\ UNCHANGED <<life, update, batch, owed, param, scriptVars, nodeVars,
                 bootVars, hookAge>>

(* The automation answers the lifecycle hook with CONTINUE when the command *)
(* succeeded.  The script is piped through tee, so its exit 1 counts too.   *)
CompleteHook(i) ==
  /\ life[i] = "terminating" /\ script[i] \in Ended \ {"killed"}
  /\ life' = [life EXCEPT ![i] = "terminated"]
  /\ UNCHANGED <<update, batch, owed, desired, scalings, param, scriptVars,
                 nodeVars, bootVars, hookAge>>

(* Mutation: the heartbeat is renewed instead of ending the termination.   *)
HookRenewed(i) ==
  /\ life[i] = "terminating" /\ hookAge[i] >= HookTicks
  /\ hookAge' = [hookAge EXCEPT ![i] = 0]
  /\ UNCHANGED <<groupVars, param, scriptVars, nodeVars, bootVars>>

(* No answer in time: the hook's default result also ends the termination. *)
HookTimeout(i) ==
  /\ life[i] = "terminating" /\ hookAge[i] >= HookTicks
  /\ life' = [life EXCEPT ![i] = "terminated"]
  /\ UNCHANGED <<update, batch, owed, desired, scalings, param, scriptVars,
                 nodeVars, bootVars, hookAge>>

-----------------------------------------------------------------------------
(* terminate_druid_node.sh.                                                *)

Runs(i, s) == life[i] = "terminating" /\ script[i] = s

(* Mutation: leaving a loop does not end it.                               *)
GoToStillPolling(i, s) ==
  /\ script' = [script EXCEPT ![i] = s]
  /\ UNCHANGED <<polling, lastSleep>>
  /\ loopAge' = [loopAge EXCEPT ![i] = 0]

GoTo(i, s) ==
  /\ script' = [script EXCEPT ![i] = s]
  /\ polling' = polling \ {i} /\ lastSleep' = lastSleep \ {i}
  /\ loopAge' = [loopAge EXCEPT ![i] = 0]

(* EventBridge starts the automation, the automation starts the script.    *)
StartScript(i) ==
  /\ Runs(i, "none")
  /\ GoTo(i, "secret")
  /\ UNCHANGED <<groupVars, param, nodeVars, bootVars, hookAge>>

GetSecret(i) ==
  /\ Runs(i, "secret")
  /\ GoTo(i, "param") \/ (WriteFaults /\ GoTo(i, "failed"))
  /\ UNCHANGED <<groupVars, param, nodeVars, bootVars, hookAge>>

(* Mutation: the wrong variable is written.                                *)
PutWrongValue(i) ==
  /\ Runs(i, "param")
  /\ \/ GoTo(i, Head(Steps)) /\ param' = script[i]
     \/ WriteFaults /\ GoTo(i, "failed") /\ UNCHANGED param
  /\ UNCHANGED <<groupVars, nodeVars, bootVars, hookAge>>

PutParameter(i) ==
  /\ Runs(i, "param")
  /\ \/ GoTo(i, Head(Steps)) /\ param' = i
     \/ WriteFaults /\ GoTo(i, "failed") /\ UNCHANGED param
  /\ UNCHANGED <<groupVars, nodeVars, bootVars, hookAge>>

(* disableMiddleManager: ten attempts, and the script goes on either way.  *)
DisableMiddleManager(i) ==
  /\ Runs(i, "disable")
  /\ \/ procs[i]["middleManager"] = "running" /\ disabled' = disabled \cup {i}
     \/ UNCHANGED disabled
  /\ GoTo(i, NextStep("disable"))
  /\ UNCHANGED <<groupVars, param, procs, tasks, crashes, bootVars, hookAge>>

(* waitForProcess returns at once when the process is not RUNNING.         *)
CheckProcess(i, p) ==
  /\ Runs(i, p) /\ i \notin polling \cup lastSleep
  /\ IF procs[i][p] = "running"
     THEN polling' = polling \cup {i} /\ UNCHANGED <<script, lastSleep, loopAge>>
     ELSE GoTo(i, NextStep(p))
  /\ UNCHANGED <<groupVars, param, nodeVars, bootVars, hookAge>>

(* Mutation: the process is stopped whatever the parameter says.           *)
StopUnasked(i, p) ==
  /\ Runs(i, p) /\ i \in polling
  /\ procs' = [procs EXCEPT ![i][p] = "stopped"]
  /\ GoTo(i, NextStep(p))
  /\ UNCHANGED <<groupVars, param, disabled, tasks, crashes, bootVars, hookAge>>

(* A poll reads something else than this instance's id, an empty answer of *)
(* a failed call included: "The new node is up. Stopping old node...".     *)
PollStop(i, p) ==
  /\ Runs(i, p) /\ i \in polling
  /\ param # i \/ ReadFaults
  /\ procs' = [procs EXCEPT ![i][p] = "stopped"]
  /\ GoTo(i, NextStep(p))
  /\ UNCHANGED <<groupVars, param, disabled, tasks, crashes, bootVars, hookAge>>

(* Mutation: the last sleep begins without a look at the parameter.        *)
GiveUpUnread(i, p) ==
  /\ Runs(i, p) /\ i \in polling
  /\ loopAge[i] >= WaitTicks
  /\ polling' = polling \ {i} /\ lastSleep' = lastSleep \cup {i}
  /\ UNCHANGED <<groupVars, param, script, loopAge, nodeVars, bootVars, hookAge>>

(* The last of the 720 reads gives this instance's id once more.           *)
PollLast(i, p) ==
  /\ Runs(i, p) /\ i \in polling /\ param = i
  /\ loopAge[i] >= WaitTicks
  /\ polling' = polling \ {i} /\ lastSleep' = lastSleep \cup {i}
  /\ UNCHANGED <<groupVars, param, script, loopAge, nodeVars, bootVars, hookAge>>

(* Mutation: a process that was waited for in vain ends the whole script.  *)
GiveUpAltogether(i, p) ==
  /\ Runs(i, p) /\ i \in lastSleep
  /\ GoTo(i, "done")
  /\ UNCHANGED <<groupVars, param, nodeVars, bootVars, hookAge>>

(* The loop ends with the sleep that follows the last read, whatever the   *)
(* parameter has become meanwhile: the process is left running.            *)
PollExhausted(i, p) ==
  /\ Runs(i, p) /\ i \in lastSleep
  /\ GoTo(i, NextStep(p))
  /\ UNCHANGED <<groupVars, param, nodeVars, bootVars, hookAge>>

(* Mutation: any answer of the worker is taken for "[]".                   *)
SeeAnyTasks(i) ==
  /\ Runs(i, "tasks")
  /\ procs[i]["middleManager"] = "running"
  /\ GoTo(i, "stopWorker")
  /\ UNCHANGED <<groupVars, param, nodeVars, bootVars, hookAge>>

(* waitForNoIngestionTasks: the worker answers "[]", or nothing, or its    *)
(* attempts run out.                                                       *)
SeeNoTasks(i) ==
  /\ Runs(i, "tasks")
  /\ procs[i]["middleManager"] = "running" /\ tasks[i] = 0
  /\ GoTo(i, "stopWorker")
  /\ UNCHANGED <<groupVars, param, nodeVars, bootVars, hookAge>>

(* An empty answer: the worker is gone, or runs and does not answer.       *)
SeeNoWorker(i) ==
  /\ Runs(i, "tasks")
  /\ GoTo(i, "workerGone")
  /\ UNCHANGED <<groupVars, param, nodeVars, bootVars, hookAge>>

TasksExhausted(i) ==
  /\ Runs(i, "tasks")
  /\ loopAge[i] >= TaskTicks
  /\ GoTo(i, NextStep("tasks"))
  /\ UNCHANGED <<groupVars, param, nodeVars, bootVars, hookAge>>

StopWorker(i) ==
  /\ Runs(i, "stopWorker")
  /\ procs' = [procs EXCEPT ![i]["middleManager"] = "stopped"]
  /\ GoTo(i, "drained")
  /\ UNCHANGED <<groupVars, param, disabled, tasks, crashes, bootVars, hookAge>>

(* The run command reaches its executionTimeout: the automation fails and  *)
(* never answers the hook.                                                 *)
KillScript(i) ==
  /\ life[i] = "terminating" /\ script[i] \notin Ended
  /\ hookAge[i] >= ExecTicks
  /\ GoTo(i, "killed")
  /\ UNCHANGED <<groupVars, param, nodeVars, bootVars, hookAge>>

-----------------------------------------------------------------------------
(* The Druid processes of a terminating node (external, as the script sees *)
(* them): supervisord restarts what crashes, but not what it was told to   *)
(* stop; the overlord gives tasks to an enabled worker; tasks end.         *)

Crash(i, p) ==
  /\ life[i] = "terminating" /\ procs[i][p] = "running" /\ crashes < MaxCrashes
  /\ procs' = [procs EXCEPT ![i][p] = "down"]
  /\ crashes' = crashes + 1
  /\ UNCHANGED <<groupVars, param, scriptVars, disabled, tasks, bootVars, hookAge>>

(* A restarted worker may or may not remember that it was disabled.        *)
Restart(i, p) ==
  /\ life[i] = "terminating" /\ procs[i][p] = "down"
  /\ procs' = [procs EXCEPT ![i][p] = "running"]
  /\ \/ UNCHANGED disabled
     \/ p = "middleManager" /\ disabled' = disabled \ {i}
  /\ UNCHANGED <<groupVars, param, scriptVars, tasks, crashes, bootVars, hookAge>>

AssignTask(i) ==
  /\ life[i] = "terminating" /\ i \notin disabled /\ tasks[i] < MaxTasks
  /\ "middleManager" \in Processes /\ procs[i]["middleManager"] = "running"
  /\ tasks' = [tasks EXCEPT ![i] = @ + 1]
  /\ UNCHANGED <<groupVars, param, scriptVars, procs, disabled, crashes, bootVars,
                 hookAge>>

FinishTask(i) ==
  /\ life[i] = "terminating" /\ tasks[i] > 0
  /\ tasks' = [tasks EXCEPT ![i] = @ - 1]
  /\ UNCHANGED <<groupVars, param, scriptVars, procs, disabled, crashes, bootVars,
                 hookAge>>

-----------------------------------------------------------------------------
(* check_druid_status.py on a new node.                                    *)

Advance(n, from, to) ==
  /\ boot[n] = from
  /\ boot' = [boot EXCEPT ![n] = to]

BootFrame ==
  UNCHANGED <<update, batch, desired, scalings, scriptVars, nodeVars, after,
              bootAge, hookAge>>

(* Mutation: the parameter is reset before the node is checked.            *)
ResetFirst(n) ==
  /\ bootAge[n] >= BootTicks
  /\ Advance(n, "leader", "health") \/ Advance(n, "leader", "process")
  /\ param' = NotUsed
  /\ BootFrame /\ UNCHANGED <<life, owed>>

(* is_coordinator_leader_alive decides between the health of the processes *)
(* and their mere existence.                                               *)
CheckLeader(n) ==
  /\ bootAge[n] >= BootTicks
  /\ Advance(n, "leader", "health") \/ Advance(n, "leader", "process")
  /\ BootFrame /\ UNCHANGED <<life, owed, param>>

CheckHealth(n) ==
  /\ \/ /\ Advance(n, "health",
             IF NodeType \in {"historical", "data"} THEN "segments" ELSE "reset")
        /\ UNCHANGED life
     \/ /\ Advance(n, "health", "failed")
        /\ life' = [life EXCEPT ![n] = "inService"]
  /\ BootFrame /\ UNCHANGED <<owed, param>>

CheckProcessStatus(n) ==
  /\ \/ Advance(n, "process", "reset") /\ UNCHANGED life
     \/ /\ Advance(n, "process", "failed")
        /\ life' = [life EXCEPT ![n] = "inService"]
  /\ BootFrame /\ UNCHANGED <<owed, param>>

(* wait_for_segments ends when all are loaded or when the watchdog bites;  *)
(* main does not look at which.                                            *)
WaitForSegments(n) ==
  /\ Advance(n, "segments", "reset")
  /\ BootFrame /\ UNCHANGED <<life, owed, param>>

(* An exception that none of the handlers expects ends the check, such as  *)
(* a load status of another shape: python's exit status is signalled.      *)
CheckRaises(n) ==
  /\ bootAge[n] >= BootTicks
  /\ Advance(n, "leader", "failed") \/ Advance(n, "segments", "failed")
  /\ life' = [life EXCEPT ![n] = "inService"]
  /\ BootFrame /\ UNCHANGED <<owed, param>>

(* Mutation: the parameter is not reset.                                   *)
NoReset(n) ==
  /\ Advance(n, "reset", "signal")
  /\ life' = [life EXCEPT ![n] = "inService"]
  /\ BootFrame /\ UNCHANGED <<owed, param>>

(* reset_instance_termination_param: a failed put is logged, nothing more. *)
ResetParameter(n) ==
  /\ Advance(n, "reset", "signal")
  /\ life' = [life EXCEPT ![n] = "inService"]
  /\ param' = NotUsed \/ (WriteFaults /\ UNCHANGED param)
  /\ BootFrame /\ UNCHANGED owed

(* cfn-signal, the line of the user data after the check.                  *)
SignalSuccess(n) ==
  /\ Advance(n, "signal", "done")
  /\ owed' = owed \ {n}
  /\ BootFrame /\ UNCHANGED <<life, param>>

-----------------------------------------------------------------------------
(* What takes seconds, or is at its deadline, happens before time passes.  *)
UrgentScript(i) ==
  /\ life[i] = "terminating"
  /\ \/ script[i] \in Early \cup {"disable", "stopWorker"} \cup (Ended \ {"killed"})
     \/ script[i] \in Waits /\ (i \notin polling \/ param # i \/ loopAge[i] >= WaitTicks)
     \/ script[i] = "tasks" /\ loopAge[i] >= TaskTicks
     \/ script[i] # "killed" /\ hookAge[i] >= ExecTicks
     \/ hookAge[i] >= HookTicks

(* Mutation: the watchdog of wait_for_segments never bites.                *)
UrgentBootUnwatched(n) ==
  \/ boot[n] \in {"reset", "signal"}
  \/ n \in owed /\ (boot[n] = "failed" \/ bootAge[n] = PauseTicks)

UrgentBoot(n) ==
  \/ boot[n] \in {"reset", "signal"}
  \/ boot[n] = "segments" /\ bootAge[n] >= WatchdogTicks
  \/ n \in owed /\ (boot[n] = "failed" \/ bootAge[n] = PauseTicks)

Clocked == Terminating # {} \/ \E n \in Booting : bootAge[n] < PauseTicks

Tick ==
  /\ Clocked /\ ~Missing
  /\ \A i \in Instance : ~UrgentScript(i) /\ ~UrgentBoot(i)
  /\ hookAge' = [i \in Instance |->
                   IF i \in Terminating THEN hookAge[i] + 1 ELSE hookAge[i]]
  /\ loopAge' = [i \in Instance |->
                   IF i \in Terminating /\ (i \in polling \/ script[i] = "tasks")
                   THEN loopAge[i] + 1 ELSE loopAge[i]]
  /\ bootAge' = [n \in Instance |->
                   IF n \in Booting /\ bootAge[n] < PauseTicks
                   THEN bootAge[n] + 1 ELSE bootAge[n]]
  /\ UNCHANGED <<groupVars, param, script, polling, lastSleep, nodeVars, boot, after>>

(* Nothing is left to do: the model rests.                                 *)
Rest ==
  /\ update \in {"complete", "failed"} \/ OldNodes = {}
  /\ Terminating = {} /\ Booting = {} /\ ~Missing
  /\ UNCHANGED vars

GroupNext ==
  \/ StartBatch \/ CompleteUpdate \/ FailUpdate \/ ScaleOut
  \/ \E i \in Instance : Launch(i) \/ ScaleIn(i) \/ CompleteHook(i) \/ HookTimeout(i)

ScriptNext(i) ==
  \/ StartScript(i) \/ GetSecret(i) \/ PutParameter(i) \/ DisableMiddleManager(i)
  \/ \E p \in Waits : CheckProcess(i, p) \/ PollStop(i, p) \/ PollLast(i, p) \/ PollExhausted(i, p)
  \/ SeeNoTasks(i) \/ SeeNoWorker(i) \/ TasksExhausted(i) \/ StopWorker(i)
  \/ KillScript(i)

NodeNext(i) ==
  \/ \E p \in Processes : Crash(i, p) \/ Restart(i, p)
  \/ AssignTask(i) \/ FinishTask(i)

BootNext(n) ==
  \/ CheckLeader(n) \/ CheckHealth(n) \/ CheckProcessStatus(n)
  \/ WaitForSegments(n) \/ CheckRaises(n) \/ ResetParameter(n) \/ SignalSuccess(n)

Next ==
  \/ GroupNext
  \/ \E i \in Instance : ScriptNext(i) \/ NodeNext(i) \/ BootNext(i)
  \/ Tick
  \/ Rest

Spec == Init /\ [][Next]_vars

(* CloudFormation, the group, the scripts and the boots keep going; crashes, *)
(* tasks and scaling may or may not happen; time does not stop.             *)
GroupProgress ==
  \/ StartBatch \/ CompleteUpdate \/ FailUpdate
  \/ \E i \in Instance : Launch(i) \/ CompleteHook(i) \/ HookTimeout(i)

FairSpec ==
  /\ Spec
  /\ WF_vars(GroupProgress)
  /\ \A i \in Instance : WF_vars(ScriptNext(i)) /\ WF_vars(BootNext(i))
  /\ SF_vars(Tick)

-----------------------------------------------------------------------------
StopsByPoll(i) ==
  \E p \in Processes \cap Waits :
    procs[i][p] # "stopped" /\ procs'[i][p] = "stopped"

(* The last read of the loop is done and did not find a reset.             *)
GivesUpPolling(i) ==
  /\ i \in polling /\ i \notin polling'
  /\ script'[i] # "killed" /\ ~StopsByPoll(i)

(* The instances on which a script has stopped a process it waited for.    *)
Stopped ==
  {i \in Instance : \E p \in Processes \cap Waits : procs[i][p] = "stopped"}

(* The tier never trades a node for nothing: the old nodes whose processes *)
(* the scripts have stopped are no more than the new nodes that are up,    *)
(* although one parameter carries the ids and the resets of all of them.   *)
StopsMatched ==
  Cardinality(Stopped) <= Cardinality({n \in Instance : Up(n)})

(* "The new node is up. Stopping old node...": a node launched since the   *)
(* termination began has passed its check when the script says so.         *)
StopsAfterReplacement ==
  [][\A i \in Instance : StopsByPoll(i) => Replaced(i)]_vars

(* A script that has a read to come when its replacement is up hears of    *)
(* it, also at its last read: only a reset that lands in the sleep of five *)
(* seconds after that read is missed and leaves the process running.       *)
NoMissedReset ==
  [][\A i \in Instance : GivesUpPolling(i) => ~Replaced(i)]_vars

(* The check-then-stop of waitForNoIngestionTasks is safe on a worker that *)
(* disableMiddleManager did disable: no task runs when it is stopped.      *)
DrainedMeansIdle ==
  \A i \in Instance :
    script[i] \in {"stopWorker", "drained"} /\ i \in disabled => tasks[i] = 0

(* However the waits for historical, tasks, script and hook add up, and     *)
(* however the termination ends: the tasks of a disabled worker have had    *)
(* the 75 minutes of waitForNoIngestionTasks before they go down with the   *)
(* instance, unless the worker did not answer.                              *)
TasksGetTheirTime ==
  \A i \in Instance :
    life[i] = "terminated" /\ i \in disabled /\ tasks[i] > 0
      => script[i] = "workerGone" \/ hookAge[i] >= TaskTicks

(* The lifecycle hook lets no termination hang, whatever its script does.  *)
TerminationEnds ==
  \A i \in Instance : life[i] = "terminating" ~> life[i] = "terminated"

(* The check of a node that the update waits for has failed, or has not    *)
(* seen the node healthy when the pause time is over.                      *)
NotHealthy(n) ==
  \/ boot[n] = "failed"
  \/ boot[n] \in {"leader", "health", "process"} /\ bootAge[n] = PauseTicks

(* A rolling update whose new nodes become healthy in time completes: the  *)
(* loading of segments does not outlast the pause time, and old nodes that *)
(* hang in their scripts do not hold the update up.                        *)
UpdateCompletes ==
  [](\A n \in owed : ~NotHealthy(n))
    => (update = "running" ~> update = "complete")
-----------------------------------------------------------------------------
(* What the properties above rest on: the inductive invariants of the      *)
(* proofs, also checked by TLC.                                            *)

(* A script polls for a process of its own node that it has not stopped,   *)
(* and sleeps for the last time only after its last read.                  *)
PollingInv ==
  /\ \A i \in Instance : script[i] \in Waits => script[i] \in Processes
  /\ \A i \in polling : script[i] \in Waits /\ procs[i][script[i]] # "stopped"
  /\ polling \cap lastSleep = {}

(* The order of a termination and of the boots that follow it: an instance *)
(* writes its id before a node launched after it can be up.                *)
BootInv ==
  /\ \A i \in Instance :
       life[i] \notin {"terminating", "terminated"} => script[i] = "none"
  /\ \A n \in Instance : life[n] = "absent" => boot[n] = "idle"
  /\ \A n \in Instance : boot[n] \in Checks \ {"signal"} => life[n] = "booting"
  /\ \A n \in Instance : boot[n] = "idle" => bootAge[n] = 0
  /\ \A n \in Instance : boot[n] \notin {"idle", "leader"} => bootAge[n] >= BootTicks
  /\ \A n \in Instance : \A i \in after[n] :
       /\ life[i] \in {"terminating", "terminated"}
       /\ bootAge[n] > 0 /\ life[i] = "terminating" => script[i] \notin Early

BaseInv == PollingInv /\ BootInv

(* Once a replacement is up the parameter no longer holds the old node's id. *)
ResetInv == \A i \in Instance : Replaced(i) => param # i

(* The states in which a script has written its id and goes on.            *)
Midway == Waits \cup {"disable", "tasks", "stopWorker"}

(* One replacement at a time: all but the node of the current batch have   *)
(* theirs, and a script that reads another value than its id has one.      *)
UpdateInv ==
  /\ \A i \in Instance : life[i] = "terminating" => i \in batch \/ Replaced(i)
  /\ \A i, j \in batch : i = j
  /\ \A i \in Instance :
       life[i] = "terminating" /\ script[i] \in Midway /\ param # i => Replaced(i)

(* The nodes the group launches are the replacements of the current batch. *)
Follows(n) == \A i \in batch : life[i] = "terminating" => i \in after[n]
LaunchInv ==
  /\ \A n \in Instance : boot[n] \in Checks => Follows(n)
  /\ update \in {"idle", "running"} =>
       \A n \in Instance : boot[n] \in Checks \cup {"failed"} => n \in owed
  /\ update = "running" =>
       Missing \/ \E n \in Instance : boot[n] # "idle" /\ Follows(n)
  /\ update = "idle" => Terminating = {} /\ Active = Group
  /\ desired = Cardinality(Group) /\ Cardinality(Active) <= desired

(* The books of an update of batches of one: at most one old node is not   *)
(* yet made up for, by a node to be launched or one that is not up, and    *)
(* then some old node has no replacement and none of its processes stopped. *)
Gone     == {i \in Instance : life[i] \in {"terminating", "terminated"}}
Launched == {n \in Instance : boot[n] # "idle"}
Unready  == {n \in Launched : ~Up(n)}
MatchInv ==
  /\ Gone \subseteq Group /\ Launched \cap Group = {}
  /\ Active = (Group \ Gone) \cup Launched
  /\ Cardinality(Active) + 1 >= desired
  /\ \A m, n \in Unready : m = n
  /\ Unready # {} => ~Missing
  /\ Missing \/ Unready # {} => \E i \in Gone : ~Replaced(i)
  /\ \A i \in Stopped : i \in Gone /\ Replaced(i)
=============================================================================
