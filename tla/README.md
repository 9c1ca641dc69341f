# Verification of scalable analytics using Apache Druid on AWS

TLA+ models of the parts of this repository whose correctness depends on the
order of steps of several actors, the TLC runs that check them on small
instances, and theorems that the TLA+ proof system checks for every value of
the constants. `PROJECT.json` lists the components, the runs, which lines of
the source every definition stands for, the hazards the properties are aimed
at, and a mutation of the code that each property catches.

## Inventory

All paths are relative to `src/source/`.

| Component | State it keeps | Operations | What is hard | What makes it correct |
|---|---|---|---|---|
| Graceful node replacement: `lib/uploads/scripts/druid/terminate_druid_node.sh`, `check_druid_status.py`, `lib/constructs/druidAutoScalingGroup.ts`, `ssmAutomation.ts`, last lines of `lib/config/user_data/*` | one SSM parameter per group, supervisord's processes, the lifecycle state of instances, the update's signals | script on termination, check on boot, rolling update, scaling, lifecycle hook | one shared parameter, seven timeouts, failed AWS calls, crashes, tasks arriving during the drain | no old node stops before its replacement is up; a reset that comes before the last read is heard; terminations end, and updates whose nodes become healthy complete; a worker is not stopped under its tasks, and these have their 75 minutes |
| CloudWatch emitter: `DruidCloudwatchExtension/.../CloudwatchEmitter.java` | two queues, four counters | `emit` (any thread), two scheduled tasks, `start`, `close` | concurrent counting and collecting, failing requests, interrupts | every event accounted for once; queues and counters keep being emptied |
| Memory bound queue: `MemoryBoundLinkedBlockingQueue.java` | a queue, an atomic counter | `offer`, `take(n)`, `take()` | the counter is raised before the check; a blocking call under the monitor | exact memory; refuses only when full; never blocks with the monitor |
| Metric selection: `DruidMonitoringMetricsFactory.java`, `CloudwatchMetricUnits.java` | none | lookups and filters | nothing | not modelled |
| OIDC: `DruidOidcExtension/` | nothing but the sessions of pac4j; groups, mappings and roles are read from Druid for every request | two filters after Druid's own, an authorizer, a role provider | a chain of decisions with fall-through; reads one after the other while an update deletes and recreates what they read | every decision was right at some moment of the request |
| Role creation: `lib/lambdas/roleCreationLambda.ts`, `lib/constructs/druidRolePermissionCreator.ts` | Druid's roles, permissions and mappings | one custom resource: create, list, delete, recreate, with attempts | retries of calls that are not idempotent; `Promise.all` rejects with requests in flight | ends with exactly what is configured, and always ends |
| Retention rules: `lib/lambdas/retentionConfigLambda.ts`, `lib/constructs/retentionConfig.ts` | Druid's rules | post, with attempts | Druid is not reached; SUCCESS in any case | the rules are those configured if fewer calls fail than are made |
| Clean-up: `lib/lambdas/s3-clear`, `eni-delete`, `lib/constructs/loadBalancerControllerCleanupLambda.ts` | objects, interfaces, load balancers | list, delete, wait | logs and data written meanwhile, interfaces that go by themselves, a retried deletion that finds the clean-up gone | what the stack deletes afterwards can be deleted; the operation ends |
| ZooKeeper: `lib/constructs/zookeeper.ts`, `lib/config/user_data/zookeeper_user_data` | one group and one network interface per server | creation and replacement one after the other | an update under running Druid nodes | the ensemble keeps its quorum |
| EC2 and EKS deployment: `bin/druid-infra.ts`, `lib/stacks/`, `lib/constructs/` | the resource graph | validation, constructors, then CloudFormation's create, update, delete and roll back | order of tiers, failures anywhere, things that are no resources of the stack | no tier is touched before those it depends on; an accepted configuration is a complete cluster; operations end |
| Configuration rendering: `lib/uploads/scripts/druid/render_*.py`, sizing in `druidAutoScalingGroup.ts` | none | arithmetic | rounding, one processor, connections against threads | not modelled |
| Canary: `lib/canary.js`, `lib/stacks/druidStack.ts` | network interfaces | run, delete | its interfaces outlive it | its security group can be deleted |
| Certificate, app registry, operational metrics | none | single calls | nothing | not modelled |

How they interact: CloudFormation creates what the templates name in the order
of their dependencies; one group per tier comes with its parameter, hook and
automation. Nodes of a group talk through the parameter only, and to
CloudFormation through one signal per new node. The custom resources are called
by CloudFormation; roles and retention rules go to Druid through the load
balancer once the masters are there. Users' requests pass the OIDC extension,
which reads from Druid what the role creation writes. Druid calls the emitter
from its own threads, the emitter calls its two queues.

## Modules

| Module | What it is |
|---|---|
| `GracefulTermination` | The replacement of the nodes of one tier: scripts, boots, group, update, hook, timers |
| `BoundedQueue` | What the queue promises: atomic accept, refuse, take |
| `MemoryBoundQueue` | The queue's methods step by step, with the monitor and interrupts; implements `BoundedQueue` |
| `CloudwatchEmitter` | The emitter, over two instances of `BoundedQueue` |
| `RoleCreation` | The custom resource for roles and group mappings, request by request, against Druid |
| `OidcAccess` | `RoleCreation` composed with users' requests: filters, authorizer, role provider |
| `DruidConfig` | Which configurations the schema, the program and the stacks accept |
| `StackTemplate`, `Ec2Template`, `EksTemplate` | The resources of a stack and what each needs, for every configuration |
| `CloudFormation` | Abstract specification: how any template is created, updated, rolled back, deleted |
| `Deployment` | The life of a stack: the engine on the templates, with nodes, custom resources, data, logs, interfaces, load balancer; implements `CloudFormation` |
| `GracefulTerminationProofs`, `MemoryBoundQueueProofs`, `CloudwatchEmitterProofs`, `RoleCreationProofs`, `OidcAccessProofs`, `CloudFormationProofs`, `DeploymentProofs`, `RolloutProofs` | Their theorems |
| `MCGracefulTermination`, `MCMemoryBoundQueue`, `MCCloudwatchEmitter`, `MCRoleCreation`, `MCOidcAccess`, `MCDeployment` | Instances for TLC |

The `Mutation` operators are plausible bugs of the definition that follows
them; no specification uses them.

### GracefulTermination

`script[i]` is the position of `terminate_druid_node.sh` on instance `i`:
`secret`, `param`, then the steps of its `case` (a process name while it is in
`waitForProcess`, `disable`, `tasks`), `stopWorker` between the empty task list
and `supervisorctl stop`, and an end: `done` (the last line), `drained` (exit 0
after the stop), `workerGone` (exit 0 on an empty answer), `failed` (exit 1),
`killed` (execution timeout). `polling` holds the instances inside the loop of
`waitForProcess` that have a read of the parameter to come; its first line returns
when the process does not run. The 720th read (`PollLast`) is followed by a sleep of
five seconds (`lastSleep`) and the end of the loop (`PollExhausted`) without another
look: a reset in that sleep is missed, in the code and in the model.
`boot[n]` is the position of `check_druid_status.py` on a new node, `signal`
the `cfn-signal` line after it. `param` is the SSM parameter. `life`, `desired`,
`update`, `batch`, `owed` are the Auto Scaling group and CloudFormation as the
constructs configure them; `owed` are the new instances whose signal the update
waits for, and scaling is suspended while an update runs, as the CDK's rolling
update policy does. `after[n]` is a history variable: who was terminating when
`n` was launched; a node *replaces* those.

Every branch on an external answer is a choice: the coordinator's leader may
answer or not, health and process checks may fail, segments load or the watchdog
bites, a write of the parameter fails (`WriteFaults`), a read fails
(`ReadFaults`), a process crashes, `disable` is refused, a worker that runs does not
answer, and an exception nobody catches ends the check (`CheckRaises`).

Time. `Tick` advances all running timers by one. Whatever takes seconds (a
script's non-waiting steps, a poll that has something to see, a signal) is done
before time passes; `UrgentScript` and `UrgentBoot` say what. The constants keep
the order of the code's times: watchdog 55 min < signal timeout = poll limit
60 min < tasks 75 min < script timeout = heartbeat 90 min (`2 < 3 = 3 < 4 < 5`
ticks; in `drain` the heartbeat is 6, as `customLifecycleHookParams` allows, so
that `killed` is seen with the hook still waiting). `BootTicks` is the least time
user data needs before its health check: one tick, as it installs Druid first.
In `drain` it is zero: there a boot may overtake the script, reset the parameter too
early and leave the script waiting for its hour.

Simplifications: one script per instance (no duplicate events); an old node's
own boot is over before the update; the rollback after a failed update is not
modelled; the coordinator is not one of the modelled nodes.

### MemoryBoundQueue and BoundedQueue

`Offer`, then `Enqueue` or `Reject`, are the two halves of `offer` around the
reading of the sum; `Take`, then `TakeOne` and `Subtract` for every element, and
`Return`, are `take(n)`. `Enter` is the monitor. The refinement maps what a take
in progress has removed back in front of the queue: `take(n)` takes effect when
it returns. `Weight`, the size of what is queued, is the last of the sums of its
beginnings (`Sums`), a recursive function, so that it can be proved about.

### CloudwatchEmitter

`emit` is one action per outcome. `sender` and `publisher` are the two scheduled
tasks: `sendMetricToCloudwatch` checks a size, takes batches until one is empty
or a request fails, then does the same for the alerts; `publishCountsToCloudwatch`
resets the counters one by one while events go on, then makes its request.
`close` interrupts them and lets no other run begin. Events that no metric is
configured for change nothing and are left out.

### RoleCreation

`roles`, `permissions` and `mappings` are Druid's. `phase` is the kind of request
the handler waits for, `Follow` the order of its `await`s: roles, permissions,
mappings for a Create; list, deletions, mappings for an Update. `Begin` is
`onEventHandler`; `Send` puts the requests of one attempt in flight, each with
event and attempt, so that an answer that comes too late is told apart
(`Current`). `Serve` is Druid: it refuses to create what exists and to delete or
to change what does not (`Accepts`). A request may be lost, performed with its
answer lost, or abandoned by its sender and still on its way (`LoseRequest`,
`LoseAnswer`, `Abandon`). `Resolve`, `Retry` and `GiveUp` are `Promise.all` inside
`backOff`: the first failure rejects with the other requests still in flight. The
catch is per call in `createRoles` and around everything in
`updateGroupRoleMappings`, which is what `GiveUp` distinguishes; the list is not
retried. A Delete is answered without a request. `faults` and `late` are history
variables: failed requests per kind, and whether one outlived a pause.

Simplifications: one handler at a time (CloudFormation waits for its answer); the
roles are those of `permissionMap` that an instance looks at; every permission
has the pattern `.*`, which is left out.

### OidcAccess

A request is a record: what the basic, bearer and session filters find in it, the
form of its group claim and its groups. `Basic`, `Jwt`, `Oidc` and `Identity` are
the chain of filters with its fall-through; `Arrive` is `OidcAuthorizer` up to the
role provider; `ListGroups`, `ReadGroup`, `ReadRole`, `EndGroup` are the requests
that `BasicAuthenticationRoleProvider` makes one after the other, and `ReadFails`
what becomes of an exception in each. Nothing is cached: every request reads
again. Between two reads any step of `RoleCreation` may happen; `everHeld` and
`alwaysHeld` follow whether the user held the permission at some moment, or at
every moment, of the request.

The other history variables say what a decision can be right about. `readFailed`
and `lateSeen`: a read failed, or a request of the handler was late. `met` is set
once the request has seen an event under way, and `followed` collects the kinds of
the events that began after that. A request that lasts from the creations of one
event into the deletions of the next may read of each group what it had at another
time: it sees neither the new mapping of the first group nor the old one of the
second, although at every moment one of the two granted the permission. So
`DenyJustified` is stated for requests during which no event followed another.
A grant is right under more: only a request that outlives an Update or a Delete
and the beginning of the Create after it could combine old roles of a mapping with
new permissions, which is what `AllowJustified` leaves out.

### DruidConfig and the templates

A configuration is a record that keeps of texts what is decided on (a domain is
given or not). `Accepts` is the conjunction of the schema (`configScheme.ts`), the
checks of `druid-infra.ts` and those in the stacks' constructors, in the order in
which they throw. A template is a set of pairs, a resource and what it needs:
`addDependency`, references and `DependsOn` alike, translated construct by
construct. Resources that are created, changed and deleted together are one.
`Close` drops needs of what is not part of the template.

### CloudFormation and Deployment

`CloudFormation` is external to the repository and stated as far as the stacks
rely on it: `todo`, `working`, `ready`, `failed` are sets of resources, a resource
is begun when those it needs are dealt with (or, deleting, when its users are
gone), a failure cancels what is in progress and rolls back, a failed deletion
leaves the resource and what it needs. `Deployment` conjoins to every step of it
what happens in the world: `pages` of object versions in the buckets (`Copy`,
`Write`, `Clear`), the canary's interfaces (`RunCanary`, `DeleteCanary`, `Reclaim`,
`DeleteEnis`, `DeleteSg`), the load balancer of the EKS cluster, which the
controller makes and no template names (`Apply`, `Reconcile`, `CleanUp`,
`DeleteManifest`, `DeleteAcl`), and the attempts of the custom resources (`Send`,
`SendFails`, `GiveUp`). `Boot` is a ZooKeeper server or a group whose nodes
signal; what goes on inside a rolling update of one group is
`GracefulTermination`, of which `Boot` and `Breaks` are the two outcomes.

Simplifications: an update goes to a new release with the same configuration
(`Changed`): the copies of files carry a fresh version at every synthesis
(`baseInfrastructure.ts:346-400`), the user data of the nodes name the versions of
solution and files and their image is the latest one, so every group is replaced;
the custom resources for roles and rules have the configuration as their only
properties (`druidRolePermissionCreator.ts:54-63`, `retentionConfig.ts:60-69`), so
CloudFormation sends them nothing and what a create gave up on stays missing. What is ready
to start is started before anything else happens (`Startable`), which leaves out
only orders that a slower CloudFormation would show; passive resources never
fail; there are no failures during a roll back; a copy that was cancelled stops;
a bucket that is gone is no longer polled; only `loadBalancerController`'s own
load balancer is looked at.

## Runs

| Run | Instance | Shows |
|---|---|---|
| `rolling` | query tier, 2 nodes, 4 instances, batch 1, a crash, failing writes | Stopping always follows a replacement (`StopsAfterReplacement`), in numbers too (`StopsMatched`); the inductive invariants of the proofs, `MatchInv` among them |
| `batch` | historical tier, 2 nodes, 5 instances, batch 2, a scaling step | The parameter never holds the id of a node whose replacement is up (`ResetInv`); a script that has a read to come when its replacement is up does not give up waiting (`NoMissedReset`) |
| `drain` | data tier, 1 node and 1 replacement, a task, a crash, failing writes, a boot that may overtake the script | Tasks (`DrainedMeansIdle`, `TasksGetTheirTime`); `TerminationEnds` whatever fails, and `UpdateCompletes` if the new node is healthy in time |
| `batch_stops` | as `batch`, no scaling | Counterexample to `StopsAfterReplacement` |
| `read_fault` | as `rolling`, reads fail | Counterexample to `StopsAfterReplacement` |
| `queue` | 2 threads, sizes 1, 2 and 5, bound 4, takes of up to 3 | The queue implements `BoundedQueue`; exact memory; no spurious refusal; no wait with the monitor |
| `emitter` | 3 events, sizes 1 and 2, bound 3, requests of up to 2 | `EventsAddUp`, `QueuesDrain`, `LossesLeave` |
| `roles` | 2 groups, 2 roles, 2 configurations, 2 attempts, 2 events, 5 kinds of users' requests | `CreateComplete`, `UpdateSynced`, `EventsAnswered`; users' requests are decided rightly meanwhile (`AllowJustified`, `DenyJustified`) |
| `roles_update` | as `roles`, no users, nothing late | Counterexample to `UpdateInSync` |
| `deploy` | 19 configurations, 7 of them accepted, create and 2 more operations, a failure | `RolloutOrder`, `QuorumKept`, `ServiceComplete`, `RulesInForce`, `TrafficStopped`, `InstallRemovable`, `SgRemovable`, `OperationsEnd` |
| `deploy_sequential` | data and historical tiers side by side, an update | Counterexample to `OneGroupAtATime` |
| `data_removed` | `retainData` false, nothing fails, one write | Counterexample to `DataRemoved` |

Bounds. Two old nodes are what two scripts sharing a parameter need, and a
third replacement covers a failed boot or a scale-out; every timer can reach its
limit; one crash and one task suffice because no action compares two of them
(the theorems cover every number). The queue has no bound but its own. In the
emitter three events fill a queue, refuse one and leave one for the other
channel; requests may fail without limit.

In `roles` both groups grant the permission under one configuration, so that a user
keeps it while one of the two mappings is deleted, and none under the other, where
one has no mapping; two attempts are the first one and a retry, `MaxFaults = 1` lets
one request of every kind fail in an event, `MaxLate = 1` lets one outlive the pause,
and two events are a Create followed by an Update or a Delete (960 thousand states).
Other configurations and longer histories, in which several events pass during one
request, are what the theorems `AllowSound` and `DenySound` add.

In `deploy` the seven accepted configurations are: the defaults with OIDC roles
and data removed; tiers split into historical and middle manager, with a second
tier of each kind of node; data and historical side by side; a domain
without a certificate; everything imported; EKS with node groups; EKS on Fargate.
Twelve more are each refused for one reason of its own. Two attempts, two
pages per bucket, one written page, two operations after the creation and one
failure let every branch of every handler be taken (105 thousand states). The
stack may rest for ever, so deadlock is not checked there.

Fairness. `FairSpec` of `GracefulTermination` is weakly fair to the group and
CloudFormation, to each script and to each boot: they are processes that AWS or
the operating system keeps running. Crashes, restarts, tasks and scaling are
never forced. `UpdateCompletes` assumes of the new node that its check does not fail
and is past the health check within the pause time; that the loading of its segments
ends in time, through the watchdog if need be, is what it shows. `Tick` is strongly fair, because urgent steps disable it now and
then while time goes on in fact. `FairSpec` of `CloudwatchEmitter` is weakly fair
to the two tasks: the scheduler runs them again and again, and a request returns
or throws. `FairSpec` of `RoleCreation`, and `FairAccess` of `OidcAccess`, are weakly
fair to the handler and to the arrival of requests that are not lost: an invocation
runs on, and `fetch` settles. In `Deployment` weak fairness of `Progress` says that
CloudFormation, the handlers and the nodes go on; updates, deletions, writes and
failures are never forced.

## Findings

1. `terminate_druid_node.sh:88-94` with `rollingUpdatePolicy.maxBatchSize` above
   one (documented in `README.md:577`): two terminating nodes share the parameter,
   the id the second one writes looks like the reset to the first one, and it
   stops its process with no new node up (`batch_stops`). Concurrent scale-ins
   have the same effect.
2. `terminate_druid_node.sh:88`: a failed `get-parameter` gives an empty value,
   which also counts as "The new node is up" (`read_fault`).
3. `roleCreationLambda.ts:343`: an Update deletes all mappings and recreates them.
   When Druid performs a deletion and its answer is lost, every retry is refused,
   the attempts end in the catch, the creation is skipped and the event is
   answered with SUCCESS: no mapping is left (`roles_update`).
4. `README.md:571` promises that instances are replaced one after the other in
   the order data, query, master. Groups are chained within a family, and
   historicals before middle managers; a data group and a historical group
   are not ordered and are replaced side by side (`deploy_sequential`). The order
   of the stages does hold (`RolloutOrder`).
5. `README.md:169` says that data are removed when `retainData` is false. The
   clearing of the deep storage bucket (`baseInfrastructure.ts:459-471`) is ordered
   with the bucket only, so it comes first, while data nodes still write; the
   deletion of the bucket fails, and on a retry nothing is left that would clear
   it (`data_removed`). An imported network, S3's own late logs and the scan's
   bucket, which has no clearing resource, can have the same end.

More that the runs do not show. Without the condition `~lateSeen`,
`AllowJustified` fails with three events: permissions posted by a Create and
arriving during a later Update. Without the condition on `followed` it fails with
four (an Update, a Delete and a Create during one request), and `DenyJustified` with
two: the creations of a Create and the deletions of the Update after it. And after a Delete, which does nothing, a new
Create finds the old mappings and is refused them (`CreateComplete` is about the
first event).

## Proofs

`GracefulTerminationProofs`:

- `TypeCorrect`: `Spec => []TypeOK`.
- `BaseInvariant`: `Spec => []BaseInv`. `BaseInv` (`PollingInv`, `BootInv`) orders a
  termination and the boots after it: a clock that lets a boot reach its reset
  has waited for the script to write its id.
- `OneAtATimeIsSafe`: if `MaxBatch = 1`, `MaxScale = 0`, `ReadFaults = FALSE` and
  `BootTicks > 0` then `Spec => StopsAfterReplacement`. Findings 1 and 2 show that
  the first and the third assumption are needed. A poll stops a process when the
  parameter differs from the id; that this means a replacement is not inductive.
  `UpdateInv` (theorem `UpdateInvariant`) adds that at most one terminating
  instance, that of the batch, has no replacement; it needs `LaunchInv` (theorem
  `LaunchInvariant`): what the update waits for are replacements of the batch, and
  with one node missing at least one is launched.
- `ResetIsHeard`: if `WriteFaults = FALSE` and `BootTicks > 0` then
  `Spec => NoMissedReset`, for batches of any size and with scaling, along
  `ResetInv` (theorem `ResetInvariant`): once a replacement is up the parameter
  never again holds the old node's id, so the last read cannot find it there. The
  theorem is about reads. A reset that lands in the five seconds after the last one
  is not heard, and the process is then left running.
- `NoNodeForNothing`: under the assumptions of `OneAtATimeIsSafe`,
  `Spec => []StopsMatched`: the old nodes stopped are no more than the new ones
  that are up. A comparison of two numbers is not inductive; `MatchInv` (theorem
  `MatchInvariant`) keeps the books instead: what is active is the old group
  without those that are gone and with those launched, at least `desired - 1`
  of them; at most one launched node is not up; when one is missing or not up, some
  old node that is gone has no replacement; and who was stopped has one. Counting
  (`DisjointCount`, `MatchCount`) then gives as many launched as gone but one, and
  that one is not among the stopped.
- `WorkersDrainIdle`: `Spec => []DrainedMeansIdle`, without further assumptions.
- `TasksHaveTime`: if `TaskTicks <= HookTicks` (75 and 90 minutes; a configured
  heartbeat may be shorter) then `Spec => []TasksGetTheirTime`: the tasks of a
  disabled worker that answers have 75 minutes from the beginning of the
  termination, although a data node's script first waits up to 60 for its
  historical. `DrainInv` says why: with a worker disabled the script has its last
  line before it only behind `waitForNoIngestionTasks`, whose loop is never older
  than the termination, and it no longer fails.

`MemoryBoundQueueProofs`:

- `TakeNeverBlocks`: `Spec => []TakeFinds` for any threads and items, along
  `OneInside` (only the holder of the monitor is inside) and `TakenInv` (the state
  between the two halves of `take()`).
- `CounterExact`: `Spec => []MemoryExact`. Between two steps of a method the counter
  is not the size of the queue; `MemoryInv` is the equation that is kept: what the
  counter holds is the size of the queue, of what is being offered, and of what one
  take has removed and not yet subtracted (`Held`).
- `QueueImplements`: `Spec => Implements`, the refinement of `BoundedQueue`: the step
  at which a caller's view of the queue changes is the enqueuing of an offer or the
  return, or the interrupt, of a take; `BatchInv` says that a take in progress has no
  more than was asked for, and `MemoryInv` that what is accepted fits.
- `RefusalsJustified`: `Spec => RefusesOnlyWhenFull`, and `MemoryBounded`: what is
  queued never exceeds the bound.

They need what an item added or taken does to the weight of a sequence of any
length (`WeightAppend`, `WeightTail`). Induction is stated in first-order form, over
a set instead of an operator: a set of numbers that is not all of `Nat` has a least
number missing (`Everywhere`, `UpTo`, from the well-foundedness of `<`), which also
gives the recursive function its solution (`SumsExist`).

`CloudwatchEmitterProofs`, from `MaxPut > 0` (`PutAssumption`):

- `EmitterTyped`: `Spec => []TypeOK`, along `Typed` (where the two tasks are, what
  their batches hold, that the counters are numbers).
- `EventsAccounted`: `Spec => []EventsAddUp`. The sum over queue, losses, collected,
  published and failed is not inductive while the publisher resets one counter
  after the other; `Balanced` counts what has not been collected yet, and
  `CollectInv` says what a run of the publisher has behind it.

`RoleCreationProofs`, for all groups, roles, configurations and bounds:

- `RolesTyped`: `Spec => []TypeOK`.
- `FirstCreateCompletes`: `Spec => []CreateComplete`; `UpdateSyncs`:
  `Spec => []UpdateSynced`. What Druid holds says nothing as long as requests of
  an earlier attempt are in flight, so the invariant `IInv` is stated for calm
  events (no request outlived a pause): all requests are of the current
  attempt (`OwnRequests`), and at every moment each role, permission or mapping
  is in place, or its request is on its way, or something has failed. `Tried`
  bounds the attempts: one that failed had a fault of its own, or met what an
  earlier attempt had created, and then everything is created or on its way. The
  first attempt at permissions may meet a role that is not there yet, hence one
  more in the property.

`OidcAccessProofs`, for all groups, roles, configurations and logins, and any number
of events and faults:

- `UsersOnlyRead`: `AccessSpec => Spec`, so the theorems about `RoleCreation` hold among
  users' requests.
- `AllowSound`: `AccessSpec => []AllowJustified`, and `DenySound`:
  `AccessSpec => []DenyJustified`. Both rest on `Kinds` (`HandlerInvariant`): as long as
  no request of the handler is late, what it has on its way is either being added
  or being deleted, never both. `ReaderInv` says that the history tells the truth
  about the moment. What a request in the middle of its reads needs is different
  for the two decisions:
  - `AllowInv`: the permission has not been collected, and for the group in hand
    there is the set of roles its mapping had when it was read: it has them still,
    so that they are not enough, or they were deleted when they were not enough and
    nothing that is missing will come (`Frozen`, until a Create begins).
  - `DenyInv`: the permission has been collected, or a group that grants it now is
    still to be read or among whose roles still to be read one has it (`Covered`).
    While mappings may still be deleted (`Shrinking`) this must hold of every group
    that grants it, as any of them may be the one that is left; after the deletions
    one is enough, because a mapping that is there stays.

`CloudFormationProofs`, for every set of closed templates (`TemplatesClosed`):

- `EngineTyped`, `EngineGrounded` (no resource outlives one it needs) and
  `EngineOrdered`, along `Inv` = `EngineTypeOK`, `NeedsFirst` (what is in progress
  or done had its needs dealt with), `UsersFirst` (the same for deletions),
  `Whole` (what exists where nothing failed) and `Grounded`.

`DeploymentProofs`, for every set of configurations, from `TemplatesAssumption`
(the templates are the synthesized ones) and `LimitsAssumption`:

- `StackImplementsEngine`: `Spec => EngineSpec`, the refinement: every step of a
  stack is one of `CloudFormation` or leaves its variables alone, so the engine's
  theorems hold of every stack.
- `StackTyped`: `Spec => []TypeOK`.
- `StackTrafficStopped`: `Spec => []TrafficStopped`, from `UsersFirst` and what the
  templates say of network and load balancer (`VpcNeeds`, `AlbNeeds`).
- `SettingsInForce`: `Spec => []RulesInForce`, along `SettingsInv`: failed attempts
  are counted among the faults, so an answer without success used them up.
- `GroupRemovable`: `Spec => []SgRemovable`, along `SgInv`: an interface exists only
  while its canary or the resource that deletes interfaces does.
- `ImagesRemovable`: `Spec => []InstallRemovable`, along `InstallInv`: with the clearing
  resource gone the bucket is empty and nobody copies to it.

The template lemmas they rest on (`CloseNeeds`, `...Without`, `CanaryNeeds`,
`InstallNeeds`) look through all parts of a template for the needs of one
resource.

`RolloutProofs`, for every set of configurations, from `ConfigsAssumption` besides
(`WellFormed`: what an object read from `cdk.json` is in any case: its keys differ, a
key without a suffix belongs to its own family):

- `RolloutsOrdered`: `Spec => []RolloutOrder`. `Precedes` is the whole order of a
  rollout: images, stages, servers by number, tiers by position, EKS node groups by
  tier and zone. The template states it by direct needs only, so the lemma `Path`
  (for both platforms, over all cases of the order) says that what precedes a
  resource is, or precedes, one that the resource needs and that precedes it. The
  invariant `OrderInv` is: `WorkInOrder` (nothing in progress is preceded by what is
  still to do), `NothingPassed` (nothing done lies between two resources still to do;
  without it a roll back, which deals with part of the stack only, could not use
  `Path`), and `DoneInOrder`, which makes `NothingPassed` hold when an update fails.
- `EnsembleAvailable`: `Spec => []QuorumKept`. While the stack is created, `Path` puts
  all servers before any group; in an update at most one server is in progress, and
  the schema admits no ensemble of less than three (`Ensemble`); going back, a group
  that exists keeps the last server (`UsersFirst`), and each server the one before it.
- `ClustersComplete`: `Spec => []ServiceComplete`: from the checks of schema, program
  and stack to a node, or the manifest, for each of the six processes (`Ec2Runs`,
  `EksRuns`), and from an operation that rests to all resources being ready.

So every invariant of `deploy` is a theorem for all configurations; `OperationsEnd`
stays with TLC.

The assumptions on constants are named in the modules and evaluated by TLC.
Only model-checked: liveness, which is out of the prover's reach: `TerminationEnds`,
`UpdateCompletes`, `QueuesDrain`, `LossesLeave`, `EventsAnswered`, `OperationsEnd`. Every
other property of the runs that pass is a theorem, `StopsAfterReplacement`,
`StopsMatched` and their invariants under the assumptions named above.

## Not modelled

- Metric selection, the certificate, app registry and operational metrics: tables,
  or single calls with no state between them.
- The rendering of Druid's configuration and the sizing of its parameters
  (`render_*.py`, `druidAutoScalingGroup.ts`): arithmetic on one input. One thing to
  know of it: `README.md:319` wants a historical to have at least as many threads as
  all brokers have connections, and `druidAutoScalingGroup.ts:253` gives every broker
  the limit divided by the least number of nodes of its own tier, which a tier that
  scales out, or a second query tier, exceeds.
- Of the load balancer's clean-up its lookup by tags and its pages
  (`loadBalancerControllerCleanupLambda.ts:52` asks for the next page without a
  marker, so more than one page would not end), and the DNS records.
- What pods do once their manifest is applied; the order of the EBS add-on and of
  the ZooKeeper node group with the manifests, which no dependency states.
- IAM policies, suppressions, dashboards, alarms beyond their place in the order.
- The hand-over of a network interface between two instances of a ZooKeeper
  server; a duplicate event for one termination; the roll back of one group.
- Answers of Druid to the retention handler other than success or failure, an
  empty list of rules, and configurations that change between two deployments.
- The login with the identity provider (redirection, callback, session cookie).

## Done and left

1. Done: `GracefulTermination`, the queue with its refinement, the emitter, and
   their theorems.
2. Done: `RoleCreation` and `OidcAccess`, runs and theorems, the decisions about
   users' requests among them.
3. Done: configurations, templates, the engine, `Deployment`, its refinement and
   theorems; retention rules and clean-up functions as parts of it.
4. Left: duplicate events in `GracefulTermination`; a change of the configuration
   between two deployments; the clean-up of load balancers page by page; the
   arithmetic of `render_jvm_config.py` over bounded inputs.
