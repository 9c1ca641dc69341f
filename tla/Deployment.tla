----------------------------- MODULE Deployment -----------------------------
(* The life of a deployed stack: CloudFormation creates, updates and       *)
(* deletes it while ZooKeeper and Druid nodes start, the custom resources  *)
(* do their work, data and logs reach the buckets, and the interfaces and  *)
(* the load balancer that are no resources of the stack come and go.       *)
EXTENDS Ec2Template, EksTemplate, CloudFormation, FiniteSets

CONSTANTS
  Configs,        \* the configurations that are tried
  MaxAttempts,    \* CUSTOM_RESOURCE_MAX_ATTEMPTS
  MaxPages,       \* bound: pages of object versions in a bucket
  MaxWrites,      \* bound: pages written to buckets during the life of the stack
  MaxOperations,  \* bound: updates and deletions
  MaxFaults       \* bound: failures


(* cdk synth: a configuration that is not accepted yields no stack.        *)
Entries(config) ==
  IF config.platform = "ec2" THEN Ec2Template(config) ELSE EksTemplate(config)
Synthesize(config) == Close(Entries(config))
Accepted == {config \in Configs : Accepts(config)}

ASSUME ConfigsAssumption == \A config \in Configs : WellFormed(config)
ASSUME TemplatesAssumption == Templates = {Synthesize(config) : config \in Accepted}
ASSUME LimitsAssumption ==
  /\ MaxAttempts \in Nat \ {0} /\ MaxPages \in Nat \ {0}
  /\ MaxWrites \in Nat /\ MaxOperations \in Nat /\ MaxFaults \in Nat

VARIABLES
  c,         \* the configuration of the stack
  pages,     \* of every bucket: pages of object versions
  enis,      \* the canary's network interfaces: "none", "inUse", "free"
  ingress,   \* does the load balancer of the EKS cluster exist?
  tries,     \* failed attempts of the custom resources that talk to Druid
  applied,   \* those whose settings Druid has taken
  writes, operations, faults

world == <<pages, enis, ingress, tries, applied>>
counts == <<writes, operations, faults>>
vars == <<engine, c, world, counts>>

Buckets == {"logsBucket", "installBucket", "deepBucket", "scanBucket"}
Clears == [clearLogs |-> "logsBucket", clearInstall |-> "installBucket", clearDeep |-> "deepBucket"]
Settings == Rs({"retention", "roles"})
NodeKinds == {"zk", "group", "nodes"}
Is(r, kinds) == r[1] \in kinds
There(kind) == Exists(R(kind))

(* What an update to a new release changes: the files that are copied, and *)
(* the nodes, whose user data name the release and its files and whose     *)
(* image is the latest one.  The settings have no property but the         *)
(* configuration, which is the same: their handlers hear nothing of it.    *)
Changed == {r \in Resources : Is(r, NodeKinds \cup {"asset"})}

(* The resources that take a step of their own.                            *)
SlowKinds ==
  IF op \in Forward
  THEN NodeKinds \cup {"asset", "retention", "roles", "manifest", "canary"}
  ELSE DOMAIN Clears \cup {"enis", "canary", "canarySg", "cleanup", "manifest", "albController"}
         \cup {"webAcl", "group"} \cup (IF Destroyed(c) THEN Buckets ELSE {})
Quick == {r \in Resources : ~Is(r, SlowKinds)}

Init ==
  /\ c \in Accepted /\ EngineInit /\ needs = Synthesize(c)
  /\ pages = [b \in Buckets |-> 0] /\ enis = "none" /\ ingress = FALSE
  /\ tries = [r \in Settings |-> 0] /\ applied = {}
  /\ writes = 0 /\ operations = 0 /\ faults = 0

(* --------------------------------------------------------- CloudFormation *)

Fault == faults < MaxFaults /\ faults' = faults + 1 /\ UNCHANGED <<writes, operations>>

CreateStack == Create /\ UNCHANGED <<world, counts>>

Operation == operations < MaxOperations /\ operations' = operations + 1

UpdateStack ==
  /\ Update(Changed) /\ Operation
  /\ UNCHANGED <<world, writes, faults>>

DeleteStack == Delete /\ Operation /\ UNCHANGED <<world, writes, faults>>

Dispatch == Start(Quick) /\ UNCHANGED <<world, counts>>

Rest == Finish /\ UNCHANGED <<world, counts>>

(* A node does not signal, a copy or a chart fails.                        *)
Breaks(r) ==
  /\ Fault
  /\ Is(r, NodeKinds \cup {"asset", "manifest"})
  /\ FailCreate(r) \/ FailUpdate(r, Changed)
  /\ UNCHANGED world

(* ----------------------------------------------------------- Going forward *)

(* Mutation: a node signals only when the masters know it.                 *)
BootDiscovered(r) ==
  /\ op \in Forward /\ Is(r, NodeKinds)
  /\ Is(r, {"group"}) => <<"group", "master", 0>> \in ready
  /\ Succeed(r) /\ UNCHANGED <<world, counts>>

(* A ZooKeeper server signals when it answers by itself; a Druid node,     *)
(* when the masters know it or, as long as none is there, when its         *)
(* processes run.                                                          *)
Boot(r) ==
  /\ op \in Forward /\ Is(r, NodeKinds)
  /\ Succeed(r) /\ UNCHANGED <<world, counts>>

Copy(r) ==
  /\ op \in Forward /\ Is(r, {"asset"})
  /\ Succeed(r)
  /\ pages' = [pages EXCEPT !["installBucket"] = MaxPages]
  /\ UNCHANGED <<enis, ingress, tries, applied, counts>>

(* The canary's first run attaches interfaces.                             *)
RunCanary(r) ==
  /\ op \in Forward /\ r = R("canary")
  /\ Succeed(r) /\ enis' = "inUse"
  /\ UNCHANGED <<pages, ingress, tries, applied, counts>>

(* The manifests are applied; the controller sets up the load balancer.    *)
Apply(r) ==
  /\ op \in Forward /\ r = R("manifest")
  /\ Succeed(r) /\ ingress' = TRUE
  /\ UNCHANGED <<pages, enis, tries, applied, counts>>

(* Is Druid reached at the address the custom resources are given?  With a *)
(* domain it is HTTPS, which the listener speaks only with a certificate.  *)
Served == c.domain => Zone(c) \/ c.tlsCertificate

Send(r) ==
  /\ op \in Forward /\ r \in Settings /\ tries[r] < MaxAttempts
  /\ Served /\ Succeed(r) /\ applied' = applied \cup {r}
  /\ UNCHANGED <<pages, enis, ingress, tries, counts>>

(* Mutation: the attempts are counted from zero.                           *)
SendFailsOnceMore(r) ==
  /\ op \in Forward /\ r \in Settings \cap working /\ tries[r] <= MaxAttempts
  /\ (IF Served THEN Fault ELSE UNCHANGED counts)
  /\ tries' = [tries EXCEPT ![r] = @ + 1]
  /\ UNCHANGED <<engine, pages, enis, ingress, applied>>

(* No answer, or an error: another attempt.                                *)
SendFails(r) ==
  /\ op \in Forward /\ r \in Settings \cap working /\ tries[r] < MaxAttempts
  /\ (IF Served THEN Fault ELSE UNCHANGED counts)
  /\ tries' = [tries EXCEPT ![r] = @ + 1]
  /\ UNCHANGED <<engine, pages, enis, ingress, applied>>

(* Mutation: the first failure is answered.                                *)
GiveUpAtOnce(r) ==
  /\ op \in Forward /\ r \in Settings /\ tries[r] >= 1
  /\ Succeed(r) /\ UNCHANGED <<world, counts>>

(* The handlers answer SUCCESS when the attempts are used up.              *)
GiveUp(r) ==
  /\ op \in Forward /\ r \in Settings /\ tries[r] = MaxAttempts
  /\ Succeed(r) /\ UNCHANGED <<world, counts>>

(* ---------------------------------------------------------- Data and logs *)

Writing(family) == \E i \in DOMAIN c.groups : c.groups[i].family = family
                     /\ Exists(<<"group", c.groups[i].name, 0>>)

(* Tasks push segments and logs; the flow logs, the load balancer and the  *)
(* buckets themselves (late, and as S3 sees fit) log to the logs bucket;   *)
(* the scan writes reports.                                                *)
Writer(bucket) ==
  CASE bucket = "deepBucket" -> Writing("data") \/ Writing("middleManager") \/ There("manifest")
    [] bucket = "logsBucket" -> TRUE
    [] bucket = "scanBucket" -> There("scan")
    [] OTHER                 -> FALSE

Write(bucket) ==
  /\ writes < MaxWrites /\ writes' = writes + 1
  /\ There(bucket) /\ pages[bucket] < MaxPages /\ Writer(bucket)
  /\ pages' = [pages EXCEPT ![bucket] = @ + 1]
  /\ UNCHANGED <<engine, enis, ingress, tries, applied, operations, faults>>

(* ------------------------------------------------------------ Going back *)

(* Mutation: one page is taken for the whole bucket.                       *)
ClearFirstPage(r) ==
  /\ op \in Backward /\ Is(r, DOMAIN Clears)
  /\ LET b == Clears[r[1]] IN
       /\ pages' = [pages EXCEPT ![b] = IF @ = 0 THEN 0 ELSE @ - 1]
       /\ Succeed(r)
  /\ UNCHANGED <<enis, ingress, tries, applied, counts>>

(* s3-clear: every poll lists and deletes one page; an empty list ends it. *)
Clear(r) ==
  /\ op \in Backward /\ Is(r, DOMAIN Clears)
  /\ LET b == Clears[r[1]] IN
       \/ /\ pages[b] > 0 /\ r \in working
          /\ pages' = [pages EXCEPT ![b] = @ - 1]
          /\ UNCHANGED engine
       \/ pages[b] = 0 /\ Succeed(r) /\ UNCHANGED pages
  /\ UNCHANGED <<enis, ingress, tries, applied, counts>>

(* An object cannot be deleted, a call fails: the handler raises.          *)
ClearFails(r) ==
  /\ Fault /\ Is(r, DOMAIN Clears)
  /\ FailDelete(r) /\ UNCHANGED world

DeleteBucket(r) ==
  /\ op \in Backward /\ Is(r, Buckets)
  /\ IF pages[r[1]] = 0 THEN Succeed(r) ELSE FailDelete(r)
  /\ UNCHANGED <<world, counts>>

(* Mutation: an interface in use is passed over.                           *)
DeleteEnisInUse(r) ==
  /\ op \in Backward /\ r = R("enis")
  /\ Succeed(r) /\ enis' = IF enis = "free" THEN "none" ELSE enis
  /\ UNCHANGED <<pages, ingress, tries, applied, counts>>

(* eni-delete: the interfaces of the canary's group are deleted; as long   *)
(* as one is in use the handler answers nothing and is called again.       *)
DeleteEnis(r) ==
  /\ op \in Backward /\ r = R("enis") /\ enis # "inUse"
  /\ Succeed(r) /\ enis' = "none"
  /\ UNCHANGED <<pages, ingress, tries, applied, counts>>

(* Lambda takes an interface back by itself; it may do so between the list *)
(* and the deletion, which then fails.                                     *)
Reclaim ==
  /\ enis = "free" /\ enis' = "none"
  /\ UNCHANGED <<engine, pages, ingress, tries, applied, counts>>

ReclaimFirst(r) ==
  /\ Fault /\ r = R("enis") /\ enis = "free"
  /\ FailDelete(r) /\ enis' = "none"
  /\ UNCHANGED <<pages, ingress, tries, applied>>

(* The canary's function is deleted with it.                               *)
DeleteCanary(r) ==
  /\ op \in Backward /\ r = R("canary")
  /\ Succeed(r) /\ enis' = IF enis = "inUse" THEN "free" ELSE enis
  /\ UNCHANGED <<pages, ingress, tries, applied, counts>>

DeleteSg(r) ==
  /\ op \in Backward /\ r = R("canarySg")
  /\ IF enis = "none" THEN Succeed(r) ELSE FailDelete(r)
  /\ UNCHANGED <<world, counts>>

(* The clean-up deletes the load balancer.  As long as the manifests are   *)
(* there the controller sets it up again; deleted with the controller      *)
(* gone, they leave it behind.                                             *)
CleanUp(r) ==
  /\ op \in Backward /\ r = R("cleanup")
  /\ Succeed(r) /\ ingress' = FALSE
  /\ UNCHANGED <<pages, enis, tries, applied, counts>>

Reconcile ==
  /\ ~ingress /\ There("albController") /\ There("manifest")
  /\ writes < MaxWrites /\ writes' = writes + 1
  /\ ~There("cleanup") /\ ingress' = TRUE
  /\ UNCHANGED <<engine, pages, enis, tries, applied, operations, faults>>

DeleteManifest(r) ==
  /\ op \in Backward /\ r = R("manifest")
  /\ Succeed(r) /\ ingress' = (ingress /\ ~There("albController"))
  /\ UNCHANGED <<pages, enis, tries, applied, counts>>

DeleteController(r) ==
  /\ op \in Backward /\ r = R("albController")
  /\ Succeed(r) /\ UNCHANGED <<world, counts>>

DeleteGroup(r) ==
  /\ op \in Backward /\ Is(r, {"group"})
  /\ Succeed(r) /\ UNCHANGED <<world, counts>>

(* An ACL in use by a load balancer is not deleted.                        *)
DeleteAcl(r) ==
  /\ op \in Backward /\ r = R("webAcl")
  /\ IF ingress THEN FailDelete(r) ELSE Succeed(r)
  /\ UNCHANGED <<world, counts>>

(* --------------------------------------------------------- Specification *)

Work(r) ==
  \/ Boot(r) \/ Copy(r) \/ RunCanary(r) \/ Apply(r) \/ Send(r) \/ GiveUp(r)
  \/ Clear(r) \/ DeleteBucket(r) \/ DeleteEnis(r) \/ DeleteCanary(r) \/ DeleteSg(r)
  \/ CleanUp(r) \/ DeleteManifest(r) \/ DeleteController(r) \/ DeleteGroup(r) \/ DeleteAcl(r)

Trouble(r) == Breaks(r) \/ SendFails(r) \/ ClearFails(r) \/ ReclaimFirst(r)

Progress ==
  /\ UNCHANGED c
  /\ IF Startable # {} THEN Dispatch
     ELSE \/ CreateStack \/ Rest
          \/ \E r \in working : Work(r) \/ (~Served /\ SendFails(r))

Surroundings == UpdateStack \/ DeleteStack \/ Reclaim \/ Reconcile \/ \E b \in Buckets : Write(b)

(* What can be started is started before anything else happens.  The       *)
(* configuration stays the same while the stack lives.                     *)
Next ==
  \/ Progress
  \/ UNCHANGED c /\ Startable = {} /\ (Surroundings \/ \E r \in working : Trouble(r))

Spec == Init /\ [][Next]_vars

(* CloudFormation, the handlers and the nodes go on.                       *)
FairSpec == Spec /\ WF_vars(Progress)

(* ------------------------------------------------------------- Properties *)

(* Every state is well typed; attempts stay within their number, and only  *)
(* settings that are part of the template are ever applied.                *)
TypeOK ==
  /\ EngineTypeOK
  /\ pages \in [Buckets -> 0..MaxPages]
  /\ enis \in {"none", "inUse", "free"} /\ ingress \in BOOLEAN
  /\ tries \in [Settings -> 0..MaxAttempts] /\ applied \subseteq Settings \cap Resources
  /\ writes \in 0..MaxWrites /\ operations \in 0..MaxOperations /\ faults \in 0..MaxFaults

Family(name) ==
  IF Key(c, name) THEN (CHOOSE g \in {c.groups[i] : i \in DOMAIN c.groups} : g.name = name).family
  ELSE "none"

Data == {"data", "historical", "middleManager"}

(* The order of nodes in a rollout; 0 for what is not part of it.          *)
Stage(r) ==
  CASE r[1] = "zk" -> 1
    [] Is(r, {"group", "nodes"}) ->
         (CASE Family(r[2]) \in Data    -> 2
            [] Family(r[2]) = "query"  -> 3
            [] Family(r[2]) = "master" -> 4
            [] OTHER                   -> 0)
    [] r[1] = "operator" -> 5
    [] r[1] = "manifest" -> 6
    [] OTHER -> 0

(* A rollout goes from ZooKeeper over the data and query nodes to the      *)
(* masters (and to the operator and the Druid cluster on EKS): no node is  *)
(* touched while one of an earlier stage, of any tier, is still to be      *)
(* dealt with, historicals come before middle managers, and every node     *)
(* starts from the image this operation has copied.                        *)
RolloutOrder ==
  op \in Forward =>
    \A r \in working, q \in todo :
      /\ ~(0 < Stage(q) /\ Stage(q) < Stage(r))
      /\ ~(/\ Is(q, {"group"}) /\ Family(q[2]) = "historical"
           /\ Is(r, {"group"}) /\ Family(r[2]) = "middleManager")
      /\ q = <<"asset", "zookeeperImage", 0>> => Stage(r) = 0
      /\ q = <<"asset", "druidImage", 0>> => Stage(r) < 2

(* As long as a Druid node exists most of the ZooKeeper servers are up, in *)
(* every operation but a rollback (which replaces the servers that had     *)
(* been updated while the one that failed is still down).                  *)
QuorumKept ==
  op # "rollback" /\ (\E r \in Present : Is(r, {"group"})) =>
    2 * Cardinality({r \in ready : r[1] = "zk"}) > c.zookeeper

(* A stack that is created, and any that was updated or rolled back since, *)
(* has the retention rules and the roles in force, if the cluster is       *)
(* served at the address given to the handlers and fewer calls failed than *)
(* they make attempts.  (What a create gave up on no update puts right.)   *)
RulesInForce ==
  ~running /\ op \in Forward /\ Served /\ faults < MaxAttempts =>
    Settings \cap Resources \subseteq applied

(* The access logs are not cleared, nor is the clearing resource gone,     *)
(* while the network or the load balancer, which log all the time, exist:  *)
(* what is cleared then is final, but for S3's own late logs.              *)
TrafficStopped ==
  op \in Backward /\ c.ownVpc /\ Destroyed(c) /\ R("clearLogs") \notin ready =>
    Rs({"vpc", "alb"}) \cap Present = {}

(* Unless something failed, the bucket with the images can be deleted when *)
(* its turn comes, however many versions it holds.                         *)
InstallRemovable ==
  faults = 0 => R("installBucket") \notin failed

(* The canary's security group is never deleted while an interface of the  *)
(* canary uses it, whichever of the canary and the handler is first.       *)
SgRemovable == R("canarySg") \notin failed

(* Which nodes, or pods, run a process.                                    *)
Runs(r, process) ==
  \/ /\ Is(r, {"group", "nodes"})
     /\ CASE process \in {"coordinator", "overlord"} -> Family(r[2]) = "master"
          [] process \in {"broker", "router"}        -> Family(r[2]) = "query"
          [] OTHER                                   -> Family(r[2]) \in {"data", process}
  \/ r = R("manifest") /\ c.capacity = "fargate" /\ Key(c, process)

(* A configuration that is accepted makes a cluster that is complete:      *)
(* every Druid process runs somewhere once the stack is created.           *)
ServiceComplete ==
  ~running /\ op \in {"create", "update"} =>
    \A p \in {"coordinator", "overlord", "broker", "router", "historical", "middleManager"} :
      \E r \in ready : Runs(r, p)

(* Every operation comes to its end, on every template and after every     *)
(* failure: no resources wait for one another, and no node waits for one   *)
(* that is to be created after it.                                         *)
OperationsEnd == running ~> ~running

(* README.md:571: the default process is to replace the instances          *)
(* sequentially, one after the other in the order of their types.          *)
OneGroupAtATime == op = "update" => Cardinality({r \in working : Is(r, {"group"})}) <= 1

(* README.md:169: with retainData false the data are removed with the      *)
(* stack; here, when nothing fails.                                        *)
DataRemoved == ~running /\ op = "delete" /\ Destroyed(c) /\ faults = 0 => Present = {}
=============================================================================
