-------------------------- MODULE DeploymentProofs --------------------------
(* What holds of a deployed stack for every configuration that is accepted *)
(* and for every number of operations, writes and failures.                *)
EXTENDS Deployment, CloudFormationProofs

(* ----------------------------------------------------------- Templates *)

(* What a part of a template asks for is asked for by the template.        *)
LEMMA CloseNeeds ==
  ASSUME NEW t, NEW p \in t, NEW q \in p[2], \E o \in t : o[1] = q
  PROVE  p[1] \in DOMAIN Close(t) /\ q \in Close(t)[p[1]]
BY DEF Close

LEMMA CloseClosed ==
  ASSUME NEW t
  PROVE  Closed(Close(t))
BY DEF Close, Closed

LEMMA SynthesizeClosed ==
  ASSUME NEW d
  PROVE  Closed(Synthesize(d))
BY CloseClosed DEF Synthesize

LEMMA VpcEntries ==
  ASSUME NEW d, d.ownVpc, Destroyed(d)
  PROVE  /\ <<R("vpc"), Rs({"logsBucket", "clearLogs"})>> \in Entries(d)
         /\ \E p \in Entries(d) : p[1] = R("clearLogs")
<1>1. <<R("vpc"), Rs({"logsBucket", "clearLogs"})>> \in DruidStack(d)
  BY DEF DruidStack, BaseInfrastructure, Vpc, If, Part
<1>2. <<R("clearLogs"), Rs({"logsBucket", "clearFunction"})>> \in DruidStack(d)
  BY DEF DruidStack, BaseInfrastructure, Cleared, If, Part
<1>3. DruidStack(d) \subseteq Entries(d)
  BY DEF Entries, Ec2Template, EksTemplate
<1> QED
  BY <1>1, <1>2, <1>3

LEMMA VpcNeeds ==
  ASSUME NEW d, d.ownVpc, Destroyed(d)
  PROVE  /\ R("vpc") \in DOMAIN Synthesize(d)
         /\ R("clearLogs") \in Synthesize(d)[R("vpc")]
<1> DEFINE p == <<R("vpc"), Rs({"logsBucket", "clearLogs"})>>
<1>1. p \in Entries(d) /\ p[1] = R("vpc") /\ R("clearLogs") \in p[2]
  BY VpcEntries DEF Rs
<1>2. \E o \in Entries(d) : o[1] = R("clearLogs")
  BY VpcEntries
<1> HIDE DEF p
<1> QED
  BY <1>1, <1>2, CloseNeeds DEF Synthesize

(* A part of a template has no resource of a kind. *)
Without(t, k) == \A p \in t : p[1] # R(k)

LEMMA OtherKind ==
  ASSUME NEW j, NEW n, NEW i, NEW k, j # k
  PROVE  <<j, n, i>> # R(k)
<1>1. <<j, n, i>>[1] = j /\ R(k)[1] = k
  BY DEF R
<1> QED
  BY <1>1

LEMMA WithoutParts ==
  ASSUME NEW k
  PROVE  /\ \A j, n : j # k => Without(Part(j, n), k)
         /\ \A s, t : Without(s, k) /\ Without(t, k) => Without(s \cup t, k)
         /\ \A b, t : Without(t, k) => Without(If(b, t), k)
<1>1. \A j, n : j # k => Without(Part(j, n), k)
  <2> SUFFICES ASSUME NEW j, NEW n, j # k PROVE R(j) # R(k)
    BY DEF Without, Part
  <2> QED
    BY OtherKind DEF R
<1>2. \A s, t : Without(s, k) /\ Without(t, k) => Without(s \cup t, k)
  BY DEF Without
<1>3. \A b, t : Without(t, k) => Without(If(b, t), k)
  BY DEF Without, If
<1> QED
  BY <1>1, <1>2, <1>3

(* Kinds with one place in the templates. *)
Placed == {"alb", "canary", "enis", "installBucket"}

LEMMA StackWithout ==
  ASSUME NEW d, NEW k \in Placed, k = "installBucket" => d.platform # "ec2"
  PROVE  Without(DruidStack(d), k)
<1> USE DEF Placed
<1>1. \A bucket, clear, needed : bucket # k /\ clear # k =>
        Without(Cleared(d, bucket, clear, needed), k)
  BY WithoutParts DEF Cleared
<1>2. Without(ClearFunction(d), k) /\ Without(Vpc(d), k)
  BY WithoutParts DEF ClearFunction, Vpc
<1>3. Without(Installation(d), k)
  <2>1. CASE d.platform # "ec2"
    BY <2>1 DEF Installation, If, Without
  <2>2. CASE d.platform = "ec2"
    <3>1. Without({<<<<"asset", n, 0>>, Rs({"installBucket", "vpc"})>> : n \in Images \cup {"files"}}, k)
      <4> SUFFICES ASSUME NEW n PROVE <<"asset", n, 0>> # R(k)
        BY DEF Without
      <4> QED
        BY OtherKind
    <3> QED
      BY <1>1, <2>2, <3>1, WithoutParts DEF Installation
  <2> QED
    BY <2>1, <2>2
<1>4. Without(DeepStorage(d), k)
  BY <1>1, WithoutParts DEF DeepStorage
<1>5. Without(BaseInfrastructure(d), k)
  BY <1>1, <1>2, <1>3, <1>4, WithoutParts DEF BaseInfrastructure
<1>6. Without(VulnerabilityScan(d), k) /\ Without(AppRegistry, k)
  <2>1. /\ \A n : Without(Part("scanBucket", n), k) /\ Without(Part("scan", n), k)
        /\ \A n : Without(Part("application", n), k) /\ Without(Part("waiter", n), k)
        /\ \A n : Without(Part("insights", n), k)
    BY WithoutParts
  <2> QED
    BY <2>1, WithoutParts DEF VulnerabilityScan, AppRegistry
<1> QED
  BY <1>5, <1>6, WithoutParts DEF DruidStack

LEMMA StoreWithout ==
  ASSUME NEW d, NEW k \in Placed, NEW client
  PROVE  Without(MetadataStore(d, client), k)
<1>1. /\ \A n : Without(Part("secrets", n), k) /\ Without(Part("store", n), k)
      /\ \A n : Without(Part("storeKey", n), k) /\ Without(Part("backup", n), k)
  BY WithoutParts DEF Placed
<1> QED
  BY <1>1, WithoutParts DEF MetadataStore

LEMMA EksWithout ==
  ASSUME NEW d, d.platform # "ec2", NEW k \in Placed, NEW p \in EksTemplate(d), p[1] = R(k)
  PROVE  d.domain /\ p \in Canary(d)
<1> USE DEF Placed
<1>1. Without(EksBase(d), k)
  BY StoreWithout, WithoutParts DEF EksBase
<1>2. Without(DruidSecrets, k) /\ Without(Metrics, k)
  <2>1. /\ \A n : Without(Part("secretsChart", n), k) /\ Without(Part("secretsAccount", n), k)
        /\ \A n : Without(Part("secretStore", n), k) /\ Without(Part("externalSecret", n), k)
        /\ \A n : Without(Part("metrics", n), k)
    BY WithoutParts
  <2> QED
    BY <2>1, WithoutParts DEF DruidSecrets, Metrics
<1>3. Without(NodeGroups(d), k)
  <2>1. Without(AddOns, k)
    <3>1. /\ \A n : Without(Part("ebsAccount", n), k) /\ Without(Part("ebsAddon", n), k)
          /\ \A n : Without(Part("storageClass", n), k) /\ Without(Part("namespace", n), k)
          /\ \A n : Without(Part("agentAccounts", n), k) /\ Without(Part("agents", n), k)
      BY WithoutParts
    <3> QED
      BY <3>1, WithoutParts DEF AddOns
  <2>2. \A name, zone : Nodes(name, zone) # R(k)
    BY OtherKind DEF Nodes
  <2>3. Without(DataNodes(d), k)
    BY <2>2 DEF Without, DataNodes
  <2>4. \A name, zone, needed : Without({<<Nodes(name, zone), needed>>}, k)
    BY <2>2 DEF Without
  <2> QED
    BY <2>1, <2>3, <2>4, WithoutParts DEF NodeGroups
<1>4. Without(Fargate(d), k)
  <2>1. Without(FargateVolumes(d), k)
    <3> DEFINE tiers == Tiers(d, "historical") \cup Tiers(d, "middleManager")
               volumes == UNION {VolumesOf(d, d.groups[i]) : i \in tiers}
    <3>1. \A v \in volumes : v # R(k)
      BY OtherKind DEF VolumesOf
    <3>2. Without({<<v, Rs({"efs", "cluster"})>> : v \in volumes}, k)
      BY <3>1 DEF Without
    <3> QED
      BY <3>2, WithoutParts DEF FargateVolumes
  <2> QED
    BY <2>1, WithoutParts DEF Fargate
<1>5. Without(IF d.capacity = "ec2" THEN NodeGroups(d) ELSE Fargate(d), k)
  BY <1>3, <1>4
<1>6. /\ Without(DruidStack(d), k)
      /\ Without(Part("cleanup", Rs({"cluster", "webAcl", "certificate"})), k)
      /\ Without(Part("dashboard", Rs({"cluster", "store", "deepBucket"})), k)
      /\ Without(Part("alarms", Rs({"cluster", "store"})), k)
  BY StackWithout, WithoutParts
<1> QED
  BY <1>1, <1>2, <1>5, <1>6 DEF EksTemplate, Without, If

LEMMA Ec2Without ==
  ASSUME NEW d, NEW k \in {"enis", "canary"}, NEW p \in Ec2Template(d), p[1] = R(k)
  PROVE  p \in Canary(d)
<1> USE DEF Placed
<1>1. Without(DruidStack(d), k) /\ Without(MetadataStore(d, "sg"), k)
  BY StackWithout, StoreWithout
<1>2. /\ Without(Part("ca", Rs({"vpc"})), k) /\ Without(Part("sg", Rs({"vpc", "bastion"})), k)
      /\ Without(InstanceRole, k) /\ Without(Metrics, k)
  BY WithoutParts DEF InstanceRole, Metrics
<1>3. Without(LoadBalancer(d), k)
  <2>1. /\ \A n : Without(Part("alb", n), k) /\ Without(Part("targets", n), k)
        /\ \A n : Without(Part("listener", n), k) /\ Without(Part("association", n), k)
        /\ \A n : Without(Part("record", n), k)
    BY WithoutParts
  <2> QED
    BY <2>1, WithoutParts DEF LoadBalancer
<1>4. Without(DruidSettings(d), k) /\ Without(Monitoring(d), k)
  <2>1. /\ \A n : Without(Part("retention", n), k) /\ Without(Part("roles", n), k)
        /\ \A n : Without(Part("dashboard", n), k) /\ Without(Part("alarms", n), k)
    BY WithoutParts
  <2> QED
    BY <2>1, WithoutParts DEF DruidSettings, Monitoring
<1>5. Without(ZooKeeper(d), k)
  <2>1. \A i : Zk(i) # R(k)
    BY OtherKind DEF Zk
  <2>2. Without(Part("zkInterfaces", Rs({"vpc", "sg"})), k)
    BY WithoutParts
  <2> DEFINE needed(i) == Rs({"zkInterfaces", "sg", "vpc", "installBucket"})
                            \cup {<<"asset", "zookeeperImage", 0>>, Zk(i - 1)}
  <2> HIDE DEF needed
  <2> DEFINE servers == {<<Zk(i), needed(i)>> : i \in 1..d.zookeeper}
  <2>3. Without(servers, k)
    <3> SUFFICES ASSUME NEW i \in 1..d.zookeeper PROVE <<Zk(i), needed(i)>>[1] # R(k)
      BY DEF Without
    <3> QED
      BY <2>1
  <2> QED
    BY <2>2, <2>3, WithoutParts DEF ZooKeeper, needed
<1>6. \A family, more : Without(Chain(d, family, more), k)
  <2>1. \A g : Asg(g) # R(k)
    BY OtherKind DEF Asg
  <2> QED
    BY <2>1 DEF Chain, Without
<1>7. Without(DataTiers(d), k)
  <2>1. Without(HistoricalFirst(d), k)
    <3>1. \A g : Asg(g) # R(k)
      BY OtherKind DEF Asg
    <3> QED
      BY <3>1 DEF HistoricalFirst, If, Without
  <2> QED
    BY <1>6, <2>1, WithoutParts DEF DataTiers
<1>8. Without(QueryTiers(d), k) /\ Without(Master(d), k)
  BY <1>6, OtherKind DEF QueryTiers, Master, Without
<1> QED
  BY <1>1, <1>2, <1>3, <1>4, <1>5, <1>7, <1>8 DEF Ec2Template, Without

LEMMA AlbNeeds ==
  ASSUME NEW d, d.ownVpc, Destroyed(d), R("alb") \in DOMAIN Synthesize(d)
  PROVE  R("vpc") \in Synthesize(d)[R("alb")]
<1>1. PICK p \in Entries(d) : p[1] = R("alb")
  BY DEF Synthesize, Close
<1>2. \A q \in Canary(d) : q[1] # R("alb")
  BY WithoutParts DEF Canary, Without
<1>3. d.platform = "ec2"
  BY <1>1, <1>2, EksWithout DEF Entries, Placed
<1> DEFINE o == <<R("alb"), Rs({"vpc"}) \cup (IF d.agnostic THEN {} ELSE Rs({"logsBucket"}))>>
<1>4. o \in Entries(d) /\ o[1] = R("alb") /\ R("vpc") \in o[2]
  BY <1>3 DEF Entries, Ec2Template, LoadBalancer, Part, Rs
<1>5. \E q \in Entries(d) : q[1] = R("vpc")
  BY VpcEntries
<1> HIDE DEF o
<1> QED
  BY <1>4, <1>5, CloseNeeds DEF Synthesize

(* ---------------------------------------------------------------- Steps *)

LEMMA WorkSteps ==
  ASSUME NEW r, Work(r)
  PROVE  Succeed(r) \/ FailDelete(r) \/ UNCHANGED engine
BY DEF Work, Boot, Copy, RunCanary, Apply, Send, GiveUp, Clear, DeleteBucket, DeleteEnis, DeleteCanary,
       DeleteSg, CleanUp, DeleteManifest, DeleteController, DeleteGroup, DeleteAcl

LEMMA TroubleSteps ==
  ASSUME NEW r, Trouble(r)
  PROVE  FailCreate(r) \/ FailUpdate(r, Changed) \/ FailDelete(r) \/ UNCHANGED engine
BY DEF Trouble, Breaks, SendFails, ClearFails, ReclaimFirst

LEMMA SurroundingSteps ==
  ASSUME Surroundings
  PROVE  Update(Changed) \/ Delete \/ UNCHANGED engine
BY DEF Surroundings, UpdateStack, DeleteStack, Reclaim, Reconcile, Write

(* Every step is a step of CloudFormation or leaves it alone.              *)
LEMMA EngineStep ==
  ASSUME EngineTypeOK, Next
  PROVE  [EngineNext]_engine
<1>1. working \subseteq Resources
  BY DEF EngineTypeOK, Present
<1>2. Changed \in SUBSET Resources /\ Quick \in SUBSET Resources
  BY DEF Changed, Quick
<1>3. CASE Progress
  <2>1. CASE CreateStack \/ Dispatch \/ Rest
    BY <1>2, <2>1 DEF CreateStack, Dispatch, Rest, EngineNext
  <2>2. CASE \E r \in working : Work(r)
    BY <1>1, <2>2, WorkSteps DEF EngineNext
  <2>3. CASE \E r \in working : SendFails(r)
    BY <2>3 DEF SendFails
  <2> QED
    BY <1>3, <2>1, <2>2, <2>3 DEF Progress
<1>4. CASE Surroundings
  BY <1>2, <1>4, SurroundingSteps DEF EngineNext
<1>5. CASE \E r \in working : Trouble(r)
  BY <1>1, <1>2, <1>5, TroubleSteps DEF EngineNext
<1> QED
  BY <1>3, <1>4, <1>5 DEF Next

LEMMA NeedsKept ==
  ASSUME [EngineNext]_engine
  PROVE  needs' = needs
BY DEF EngineNext, engine, Create, Update, Delete, Operate, Start, Succeed, FailCreate, FailUpdate, FailDelete,
       Finish

StackInv == Inv /\ needs = Synthesize(c)

LEMMA StackInit == Init => StackInv
BY InitInv DEF Init, StackInv

LEMMA StackStep == StackInv /\ [Next]_vars => StackInv'
<1> SUFFICES ASSUME StackInv, [Next]_vars PROVE StackInv'
  OBVIOUS
<1>1. [EngineNext]_engine
  <2>1. CASE Next
    BY <2>1, EngineStep DEF StackInv, Inv
  <2>2. CASE UNCHANGED vars
    BY <2>2 DEF vars, engine
  <2> QED
    BY <2>1, <2>2
<1>2. c' = c
  BY DEF Next, Progress, vars
<1>3. Inv'
  BY <1>1, StepInv DEF StackInv
<1> QED
  BY <1>1, <1>2, <1>3, NeedsKept DEF StackInv

THEOREM StackInvariant == Spec => []StackInv
BY StackInit, StackStep, PTL DEF Spec

(* A deployed stack goes through what CloudFormation does with a template, *)
(* so all that is proved of CloudFormation holds of it.                    *)
THEOREM StackImplementsEngine == Spec => EngineSpec
<1>1. Init => EngineInit
  BY DEF Init
<1>2. StackInv /\ [Next]_vars => [EngineNext]_engine
  BY EngineStep DEF StackInv, Inv, vars, engine
<1> QED
  BY <1>1, <1>2, StackInvariant, PTL DEF Spec, EngineSpec

(* The access logs are cleared when nothing is left that writes traffic    *)
(* logs, in the stack of every configuration.                              *)
THEOREM StackTrafficStopped == Spec => []TrafficStopped
<1>1. StackInv => TrafficStopped
  <2> SUFFICES ASSUME StackInv, op \in Backward, c.ownVpc, Destroyed(c), R("clearLogs") \notin ready,
                      NEW r \in Rs({"vpc", "alb"}), r \in Present
               PROVE  FALSE
    BY DEF TrafficStopped
  <2>1. Present \subseteq Resources /\ Grounded /\ UsersFirst /\ EngineTypeOK
    BY DEF StackInv, Inv, EngineTypeOK
  <2>2. R("vpc") \in Present
    <3>1. r = R("vpc") \/ r = R("alb")
      BY DEF Rs
    <3>2. CASE r = R("alb")
      BY <2>1, <3>2, AlbNeeds DEF StackInv, Resources, Grounded
    <3> QED
      BY <3>1, <3>2
  <2>3. R("clearLogs") \in needs[R("vpc")]
    BY VpcNeeds DEF StackInv
  <2>4. R("clearLogs") \in Resources /\ R("vpc") \in users[R("clearLogs")]
    BY <2>1, <2>2, <2>3, UsersOf
  <2> QED
    BY <2>1, <2>2, <2>4 DEF UsersFirst
<1> QED
  BY <1>1, StackInvariant, PTL

(* -------------------------------------------------------------- Typing *)

WorldOK ==
  /\ pages \in [Buckets -> 0..MaxPages]
  /\ enis \in {"none", "inUse", "free"} /\ ingress \in BOOLEAN
  /\ tries \in [Settings -> 0..MaxAttempts] /\ applied \subseteq Settings \cap Resources
  /\ writes \in 0..MaxWrites /\ operations \in 0..MaxOperations /\ faults \in 0..MaxFaults

LEMMA WorldInit == Init => WorldOK
<1> SUFFICES ASSUME Init
             PROVE  WorldOK
  OBVIOUS
<1>1. MaxPages \in Nat /\ MaxAttempts \in Nat /\ MaxWrites \in Nat /\ MaxOperations \in Nat /\ MaxFaults \in Nat
  BY LimitsAssumption
<1>2. pages \in [Buckets -> 0..MaxPages]
  BY <1>1 DEF Init
<1>3. tries \in [Settings -> 0..MaxAttempts]
  BY <1>1 DEF Init
<1>4. enis = "none" /\ ingress = FALSE /\ applied = {}
  BY DEF Init
<1>5. writes \in 0..MaxWrites /\ operations \in 0..MaxOperations /\ faults \in 0..MaxFaults
  BY <1>1 DEF Init
<1> QED
  BY <1>2, <1>3, <1>4, <1>5 DEF WorldOK

LEMMA SameResources ==
  ASSUME [EngineNext]_engine
  PROVE  Resources' = Resources
BY NeedsKept DEF Resources

LEMMA WorldStep ==
  ASSUME StackInv, WorldOK, [Next]_vars
  PROVE  WorldOK'
<1>1. [EngineNext]_engine /\ Resources' = Resources
  BY EngineStep, SameResources DEF StackInv, Inv, vars, engine
<1>2. working \subseteq Resources
  BY DEF StackInv, Inv, EngineTypeOK, Present
<1> USE LimitsAssumption
<1>3. CASE UNCHANGED <<world, counts>>
  BY <1>1, <1>3 DEF world, counts, WorldOK
<1>4. CASE UpdateStack
  BY <1>1, <1>4 DEF UpdateStack, Operation, world, WorldOK
<1>5. CASE DeleteStack
  BY <1>1, <1>5 DEF DeleteStack, Operation, world, WorldOK
<1>6. ASSUME NEW r \in working, Work(r) PROVE WorldOK'
  <2>1. CASE Boot(r) \/ GiveUp(r) \/ DeleteBucket(r) \/ DeleteSg(r) \/ DeleteController(r) \/ DeleteGroup(r)
             \/ DeleteAcl(r)
    <3>1. UNCHANGED <<world, counts>>
      BY <2>1 DEF Boot, GiveUp, DeleteBucket, DeleteSg, DeleteController, DeleteGroup, DeleteAcl
    <3> QED
      BY <1>1, <3>1 DEF world, counts, WorldOK
  <2>2. CASE Copy(r)
    <3>1. UNCHANGED <<enis, ingress, tries, applied, writes, operations, faults>>
      BY <2>2 DEF Copy, counts
    <3>2. pages' = [pages EXCEPT !["installBucket"] = MaxPages]
      BY <2>2 DEF Copy
    <3>3. MaxPages \in 0..MaxPages
      OBVIOUS
    <3>4. pages' \in [Buckets -> 0..MaxPages]
      BY <3>2, <3>3 DEF WorldOK
    <3> QED
      BY <1>1, <3>1, <3>4 DEF WorldOK
  <2>3. CASE RunCanary(r) \/ DeleteEnis(r) \/ DeleteCanary(r)
    <3>1. UNCHANGED <<pages, ingress, tries, applied, writes, operations, faults>>
      BY <2>3 DEF RunCanary, DeleteEnis, DeleteCanary, counts
    <3>2. enis' \in {"none", "inUse", "free"}
      BY <2>3 DEF RunCanary, DeleteEnis, DeleteCanary, WorldOK
    <3> QED
      BY <1>1, <3>1, <3>2 DEF WorldOK
  <2>4. CASE Apply(r) \/ CleanUp(r) \/ DeleteManifest(r)
    <3>1. UNCHANGED <<pages, enis, tries, applied, writes, operations, faults>>
      BY <2>4 DEF Apply, CleanUp, DeleteManifest, counts
    <3>2. ingress' \in BOOLEAN
      BY <2>4 DEF Apply, CleanUp, DeleteManifest, WorldOK
    <3> QED
      BY <1>1, <3>1, <3>2 DEF WorldOK
  <2>5. CASE Send(r)
    BY <1>1, <1>2, <2>5 DEF Send, counts, WorldOK
  <2>6. CASE Clear(r)
    <3>1. UNCHANGED <<enis, ingress, tries, applied, writes, operations, faults>>
      BY <2>6 DEF Clear, counts
    <3>2. pages' = pages
          \/ \E b \in {Clears[r[1]]} : pages[b] > 0 /\ pages' = [pages EXCEPT ![b] = @ - 1]
      BY <2>6 DEF Clear
    <3>3. \A b \in Buckets : pages[b] > 0 => pages[b] - 1 \in 0..MaxPages
      BY DEF WorldOK
    <3>4. pages' \in [Buckets -> 0..MaxPages]
      BY <3>2, <3>3 DEF WorldOK
    <3> QED
      BY <1>1, <3>1, <3>4 DEF WorldOK
  <2> QED
    BY <1>6, <2>1, <2>2, <2>3, <2>4, <2>5, <2>6 DEF Work
<1>7. ASSUME NEW r \in working, SendFails(r) PROVE WorldOK'
  <2>1. tries' \in [Settings -> 0..MaxAttempts]
    BY <1>7 DEF SendFails, WorldOK
  <2> QED
    BY <1>1, <1>7, <2>1 DEF SendFails, Fault, counts, WorldOK
<1>8. ASSUME NEW r \in working, Trouble(r) PROVE WorldOK'
  <2>1. CASE Breaks(r) \/ ClearFails(r)
    BY <1>1, <2>1 DEF Breaks, ClearFails, Fault, world, WorldOK
  <2>2. CASE ReclaimFirst(r)
    BY <1>1, <2>2 DEF ReclaimFirst, Fault, WorldOK
  <2> QED
    BY <1>7, <1>8, <2>1, <2>2 DEF Trouble
<1>9. CASE Reclaim \/ Reconcile
  <2>1. CASE Reclaim
    BY <1>1, <2>1 DEF Reclaim, counts, WorldOK
  <2>2. CASE Reconcile
    <3>1. UNCHANGED <<pages, enis, tries, applied, operations, faults>>
      BY <2>2 DEF Reconcile
    <3>2. ingress' \in BOOLEAN /\ writes' \in 0..MaxWrites
      BY <2>2 DEF Reconcile, WorldOK
    <3> QED
      BY <1>1, <3>1, <3>2 DEF WorldOK
  <2> QED
    BY <1>9, <2>1, <2>2
<1>10. ASSUME NEW b \in Buckets, Write(b) PROVE WorldOK'
  <2>1. UNCHANGED <<enis, ingress, tries, applied, operations, faults>>
    BY <1>10 DEF Write
  <2>2. writes' \in 0..MaxWrites
    BY <1>10 DEF Write, WorldOK
  <2>3. pages' = [pages EXCEPT ![b] = @ + 1] /\ pages[b] < MaxPages
    BY <1>10 DEF Write
  <2>4. pages' \in [Buckets -> 0..MaxPages]
    BY <2>3 DEF WorldOK
  <2> QED
    BY <1>1, <2>1, <2>2, <2>4 DEF WorldOK
<1>11. CASE CreateStack \/ Dispatch \/ Rest \/ UNCHANGED vars
  BY <1>3, <1>11 DEF CreateStack, Dispatch, Rest, vars
<1>12. CASE Progress
  BY <1>6, <1>7, <1>11, <1>12 DEF Progress
<1>13. CASE Surroundings
  BY <1>4, <1>5, <1>9, <1>10, <1>13 DEF Surroundings
<1> QED
  BY <1>8, <1>11, <1>12, <1>13 DEF Next

THEOREM WorldInvariant == Spec => []WorldOK
<1>1. StackInv /\ WorldOK /\ [Next]_vars => WorldOK'
  BY WorldStep
<1> QED
  BY <1>1, WorldInit, StackInvariant, PTL DEF Spec

(* Every state is well typed and within its limits.                        *)
THEOREM StackTyped == Spec => []TypeOK
<1>1. StackInv /\ WorldOK => TypeOK
  BY DEF StackInv, Inv, WorldOK, TypeOK
<1> QED
  BY <1>1, StackInvariant, WorldInvariant, PTL

(* ------------------------------------------------------------- Settings *)

(* Attempts fail only with a fault, once the cluster is served; a setting  *)
(* of the template is to be dealt with or applied while fewer fail than    *)
(* there are attempts.                                                     *)
SettingsInv ==
  /\ Served => \A r \in Settings : tries[r] <= faults
  /\ op \in Forward /\ Served /\ faults < MaxAttempts =>
       Settings \cap Resources \subseteq todo \cup applied

LEMMA KindOf == \A k : R(k)[1] = k
BY Zenon DEF R

LEMMA SettingKinds == \A r \in Settings : Is(r, {"retention", "roles"})
BY KindOf DEF Settings, Rs, Is

(* The steps that go back leave the settings alone. *)
LEMMA BackwardWork ==
  ASSUME NEW r, Work(r), op \in Backward
  PROVE  UNCHANGED <<op, tries, applied, faults>>
<1> USE DEF Backward, Forward
<1>1. ~(Boot(r) \/ Copy(r) \/ RunCanary(r) \/ Apply(r) \/ Send(r) \/ GiveUp(r))
  BY DEF Boot, Copy, RunCanary, Apply, Send, GiveUp
<1>2. CASE Clear(r) \/ DeleteEnis(r) \/ DeleteCanary(r) \/ CleanUp(r) \/ DeleteManifest(r)
  BY <1>2 DEF Clear, DeleteEnis, DeleteCanary, CleanUp, DeleteManifest, Succeed, engine, counts
<1>3. CASE DeleteBucket(r) \/ DeleteSg(r) \/ DeleteController(r) \/ DeleteGroup(r) \/ DeleteAcl(r)
  BY <1>3 DEF DeleteBucket, DeleteSg, DeleteController, DeleteGroup, DeleteAcl, Succeed, FailDelete, world, counts
<1> QED
  BY <1>1, <1>2, <1>3 DEF Work

LEMMA ForwardWork ==
  ASSUME NEW r, Work(r), op \notin Backward
  PROVE  Boot(r) \/ Copy(r) \/ RunCanary(r) \/ Apply(r) \/ Send(r) \/ GiveUp(r)
BY DEF Work, Clear, DeleteBucket, DeleteEnis, DeleteCanary, DeleteSg, CleanUp, DeleteManifest, DeleteController,
       DeleteGroup, DeleteAcl

LEMMA SettingsStep ==
  ASSUME StackInv, WorldOK, SettingsInv, [Next]_vars
  PROVE  SettingsInv'
<1>1. Resources' = Resources /\ c' = c
  <2>1. [EngineNext]_engine
    BY EngineStep DEF StackInv, Inv, vars, engine
  <2> QED
    BY <2>1, SameResources DEF Next, Progress, vars
<1>2. (Served' <=> Served) /\ Settings' = Settings
  BY <1>1 DEF Served, Zone, Settings
<1>3. MaxAttempts \in Nat /\ faults \in Nat /\ \A r \in Settings : tries[r] \in Nat
  BY LimitsAssumption DEF WorldOK
<1>4. tries \in [Settings -> 0..MaxAttempts]
  BY DEF WorldOK
<1>5. CASE UNCHANGED <<op, todo, tries, applied, faults>>
  BY <1>1, <1>2, <1>5 DEF SettingsInv
<1>6. CASE op' \notin Forward /\ tries' = tries /\ faults' \in {faults, faults + 1}
  BY <1>2, <1>3, <1>6 DEF SettingsInv, Forward
<1>7. CASE CreateStack
  BY <1>1, <1>2, <1>7 DEF CreateStack, Create, Operate, world, counts, SettingsInv
<1>8. CASE UpdateStack
  <2>1. op \in Forward /\ todo = {} /\ UNCHANGED <<tries, applied, faults>>
    BY <1>8 DEF UpdateStack, Update, Operate, world, StackInv, Inv, Whole
  <2> QED
    BY <1>1, <1>2, <2>1 DEF SettingsInv
<1>9. CASE DeleteStack
  BY <1>6, <1>9 DEF DeleteStack, Delete, Operate, world, Forward
<1>10. CASE Dispatch
  <2>1. UNCHANGED <<op, tries, applied, faults>> /\ todo' = todo \ (Startable \cap Quick)
    BY <1>10 DEF Dispatch, Start, world, counts
  <2>2. op \in Forward => Settings \cap Quick = {}
    BY SettingKinds DEF Quick, SlowKinds, Is, Forward
  <2> QED
    BY <1>1, <1>2, <2>1, <2>2 DEF SettingsInv
<1>11. CASE Rest
  <2>1. UNCHANGED <<op, tries, applied, faults>> /\ (op \in Forward => todo' = todo)
    BY <1>11 DEF Rest, Finish, world, counts
  <2> QED
    BY <1>1, <1>2, <2>1 DEF SettingsInv, Forward
<1>12. ASSUME NEW r \in working, Work(r) PROVE SettingsInv'
  <2>1. CASE op \in Backward
    BY <1>6, <1>12, <2>1, BackwardWork DEF Backward, Forward
  <2>2. CASE Boot(r) \/ Copy(r) \/ RunCanary(r) \/ Apply(r)
    <3>1. UNCHANGED <<op, tries, applied, faults>> /\ todo' = todo \ {r}
      BY <2>2 DEF Boot, Copy, RunCanary, Apply, Succeed, world, counts
    <3>2. r \notin Settings
      BY <2>2, SettingKinds, KindOf DEF Boot, Copy, RunCanary, Apply, NodeKinds, Is
    <3> QED
      BY <1>1, <1>2, <3>1, <3>2 DEF SettingsInv
  <2>3. CASE Send(r)
    BY <1>1, <1>2, <2>3 DEF Send, Succeed, counts, SettingsInv
  <2>4. CASE GiveUp(r)
    <3>1. UNCHANGED <<op, tries, applied, faults>> /\ r \in Settings /\ tries[r] = MaxAttempts
      BY <2>4 DEF GiveUp, Succeed, world, counts
    <3> QED
      BY <1>1, <1>2, <1>3, <3>1 DEF SettingsInv
  <2> QED
    BY <1>12, <2>1, <2>2, <2>3, <2>4, ForwardWork
<1>13. ASSUME NEW r \in working, SendFails(r), Served => Fault PROVE SettingsInv'
  <2>1. UNCHANGED <<op, todo, applied>> /\ tries' = [tries EXCEPT ![r] = @ + 1]
    BY <1>13 DEF SendFails, engine
  <2>2. Served => faults' = faults + 1
    BY <1>13 DEF Fault
  <2> QED
    BY <1>1, <1>2, <1>3, <1>4, <2>1, <2>2 DEF SettingsInv
<1>14. ASSUME NEW r \in working, SendFails(r) PROVE SettingsInv'
  BY <1>13, <1>14 DEF SendFails
<1>15. ASSUME NEW r \in working, Breaks(r) \/ ClearFails(r) \/ ReclaimFirst(r) PROVE SettingsInv'
  <2>1. CASE op' \notin Forward
    BY <1>6, <1>15, <2>1 DEF Breaks, ClearFails, ReclaimFirst, Fault, world
  <2>2. CASE op' \in Forward
    <3>1. FailUpdate(r, Changed) /\ UNCHANGED <<tries, applied>> /\ faults' = faults + 1
      BY <1>15, <2>2 DEF Breaks, ClearFails, ReclaimFirst, Fault, FailCreate, FailDelete, world, Forward, Backward
    <3>2. Settings \cap todo = {} /\ op = "update"
      BY <3>1, SettingKinds DEF FailUpdate, Changed, NodeKinds, Is
    <3> QED
      BY <1>1, <1>2, <1>3, <3>1, <3>2 DEF SettingsInv, Forward
  <2> QED
    BY <2>1, <2>2
<1>16. CASE Reclaim \/ Reconcile \/ \E b \in Buckets : Write(b)
  BY <1>5, <1>16 DEF Reclaim, Reconcile, Write, engine, counts
<1>17. CASE UNCHANGED vars
  BY <1>5, <1>17 DEF vars, engine, world, counts
<1> QED
  BY <1>7, <1>8, <1>9, <1>10, <1>11, <1>12, <1>14, <1>15, <1>16, <1>17 DEF Next, Progress, Surroundings, Trouble

(* What is complete has its rules and roles in force, for every number of  *)
(* attempts, updates and failures below that number.                       *)
THEOREM SettingsInForce == Spec => []RulesInForce
<1>1. Init => SettingsInv
  BY LimitsAssumption DEF Init, EngineInit, SettingsInv, Forward
<1>2. StackInv /\ WorldOK /\ SettingsInv /\ [Next]_vars => SettingsInv'
  BY SettingsStep
<1>3. StackInv /\ SettingsInv => RulesInForce
  BY DEF StackInv, Inv, Whole, SettingsInv, RulesInForce
<1> QED
  BY <1>1, <1>2, <1>3, StackInvariant, WorldInvariant, PTL DEF Spec

(* ------------------------------------------------------- Security group *)

(* The handler that deletes the interfaces needs the canary's group and    *)
(* nothing the canary does not need, so it is there before the canary.     *)
LEMMA CanaryEntry ==
  ASSUME NEW d, NEW k \in {"enis", "canary"}, R(k) \in DOMAIN Synthesize(d)
  PROVE  /\ Canary(d) \subseteq Entries(d)
         /\ \A p \in Entries(d) : p[1] = R(k) => p \in Canary(d)
<1>1. PICK p \in Entries(d) : p[1] = R(k)
  BY DEF Synthesize, Close
<1>2. CASE d.platform = "ec2"
  BY <1>2, Ec2Without DEF Entries, Ec2Template
<1>3. CASE d.platform # "ec2"
  <2>1. d.domain
    BY <1>1, <1>3, EksWithout DEF Entries, Placed
  <2>2. Canary(d) \subseteq EksTemplate(d)
    BY <2>1 DEF EksTemplate, If
  <2> QED
    BY <1>3, <2>2, EksWithout DEF Entries, Placed
<1> QED
  BY <1>2, <1>3

LEMMA CanaryNeeds ==
  ASSUME NEW d
  PROVE  /\ R("enis") \in DOMAIN Synthesize(d) => R("canarySg") \in Synthesize(d)[R("enis")]
         /\ R("canary") \in DOMAIN Synthesize(d) =>
              /\ R("enis") \in DOMAIN Synthesize(d)
              /\ Synthesize(d)[R("enis")] \subseteq Synthesize(d)[R("canary")]
<1> DEFINE sg == <<R("canarySg"), Rs({"vpc"})>>
           enisEntry == <<R("enis"), Rs({"canarySg", "vpc"})>>
           canaryEntry == <<R("canary"), Rs({"canarySg", "vpc"}) \cup BaseUrl(d)>>
<1>1. Canary(d) = {sg, enisEntry, canaryEntry}
  BY DEF Canary, Part
<1>2. /\ sg[1] = R("canarySg") /\ enisEntry[1] = R("enis") /\ canaryEntry[1] = R("canary")
      /\ R("canarySg") \in enisEntry[2] /\ enisEntry[2] \subseteq canaryEntry[2]
  BY DEF Rs
<1>3. R("enis") # R("canarySg") /\ R("enis") # R("canary")
  BY KindOf
<1> HIDE DEF sg, enisEntry, canaryEntry
<1>4. ASSUME R("enis") \in DOMAIN Synthesize(d)
      PROVE  R("canarySg") \in Synthesize(d)[R("enis")]
  BY <1>1, <1>2, <1>4, CanaryEntry, CloseNeeds DEF Synthesize
<1>5. ASSUME R("canary") \in DOMAIN Synthesize(d)
      PROVE  /\ R("enis") \in DOMAIN Synthesize(d)
             /\ Synthesize(d)[R("enis")] \subseteq Synthesize(d)[R("canary")]
  <2>1. Canary(d) \subseteq Entries(d)
    BY <1>5, CanaryEntry
  <2>2. R("enis") \in DOMAIN Synthesize(d)
    BY <1>1, <1>2, <2>1, CloseNeeds DEF Synthesize
  <2>3. \A p \in Entries(d) : p[1] = R("enis") => p = enisEntry
    BY <1>1, <1>2, <1>3, <2>2, CanaryEntry
  <2>4. ASSUME NEW q \in Synthesize(d)[R("enis")]
        PROVE  q \in Synthesize(d)[R("canary")]
    <3>1. q \in enisEntry[2] /\ \E o \in Entries(d) : o[1] = q
      BY <2>2, <2>3, <2>4 DEF Synthesize, Close
    <3>2. canaryEntry \in Entries(d) /\ q \in canaryEntry[2]
      BY <1>1, <1>2, <2>1, <3>1
    <3> QED
      BY <1>2, <3>1, <3>2, CloseNeeds DEF Synthesize
  <2> QED
    BY <2>2, <2>4
<1> QED
  BY <1>4, <1>5

(* The group's turn to be deleted comes when the handler and the canary    *)
(* are gone; interfaces exist only as long as the handler does, and the    *)
(* handler is there before the canary starts.                              *)
SgInv ==
  /\ R("canarySg") \in working => op \in Backward /\ enis = "none"
  /\ R("enis") \in working => op \in Backward
  /\ enis # "none" => R("enis") \in Present
  /\ op \in Forward /\ R("canary") \in working => R("enis") \in Present
  /\ R("canarySg") \notin failed

LEMMA CanaryKinds ==
  /\ R("canarySg") # R("enis") /\ R("canarySg") # R("canary") /\ R("enis") # R("canary")
  /\ op \in Forward => {R("canarySg"), R("enis")} \cap Resources \subseteq Quick
  /\ op \in Backward => R("enis") \notin Quick
<1>1. /\ R("canarySg") # R("enis") /\ R("canarySg") # R("canary") /\ R("enis") # R("canary")
  BY KindOf
<1>2. op \in Forward => {R("canarySg"), R("enis")} \cap Resources \subseteq Quick
  BY KindOf DEF Quick, SlowKinds, NodeKinds, Is
<1>3. op \in Backward => R("enis") \notin Quick
  BY KindOf DEF Quick, SlowKinds, Is, Forward, Backward
<1> QED
  BY <1>1, <1>2, <1>3

LEMMA SgDispatch ==
  ASSUME StackInv, SgInv, Dispatch
  PROVE  SgInv'
<1>1. /\ Startable \subseteq todo \ working /\ todo \subseteq Resources /\ Present \subseteq Resources
      /\ op \in Forward \cup Backward
  BY DEF StackInv, Inv, EngineTypeOK, Whole, Startable, Dispatch, Start
<1>2. /\ working' = working \cup (Startable \ Quick) /\ failed' = failed \ Startable
      /\ ready' = (ready \ Startable) \cup (IF op \in Forward THEN Startable \cap Quick ELSE {})
      /\ op' = op /\ enis' = enis
  BY DEF Dispatch, Start, world
<1>3. CASE op \in Forward
  <2>1. Present \cup Startable \subseteq Present'
    BY <1>2, <1>3 DEF Present
  <2>2. R("canarySg") \notin working' /\ R("enis") \notin working'
    BY <1>1, <1>2, <1>3, CanaryKinds DEF SgInv, Forward, Backward
  <2>3. ASSUME R("canary") \in Startable
        PROVE  R("enis") \in Present'
    <3>1. R("canary") \in Resources /\ needs[R("canary")] \cap todo = {}
      BY <1>1, <1>3, <2>3 DEF Startable
    <3>2. R("enis") \in Resources /\ needs[R("enis")] \cap todo = {}
      BY <3>1, CanaryNeeds DEF StackInv, Resources
    <3>3. CASE R("enis") \in todo
      <4>1. R("enis") \notin working
        BY <1>3 DEF SgInv, Forward, Backward
      <4> QED
        BY <1>3, <2>1, <3>2, <3>3, <4>1 DEF Startable
    <3>4. CASE R("enis") \notin todo
      BY <1>3, <2>1, <3>2, <3>4 DEF StackInv, Inv, NeedsFirst, Present
    <3> QED
      BY <3>3, <3>4
  <2> QED
    BY <1>2, <2>1, <2>2, <2>3 DEF SgInv
<1>4. CASE op \in Backward
  <2>1. op \notin Forward
    BY <1>4 DEF Forward, Backward
  <2>2. R("enis") \in Present => R("enis") \in Present'
    BY <1>2, <1>4, CanaryKinds DEF Present
  <2>3. ASSUME R("canarySg") \in Startable
        PROVE  enis = "none"
    <3>1. users[R("canarySg")] \cap Present = {} /\ R("canarySg") \in Resources
      BY <1>1, <2>1, <2>3 DEF Startable
    <3>2. ASSUME enis # "none" PROVE FALSE
      <4>1. R("enis") \in Present /\ R("enis") \in Resources
        BY <1>1, <3>2 DEF SgInv
      <4>2. R("canarySg") \in needs[R("enis")]
        BY <4>1, CanaryNeeds DEF StackInv, Resources
      <4>3. R("enis") \in users[R("canarySg")]
        BY <3>1, <4>1, <4>2, UsersOf DEF StackInv, Inv
      <4> QED
        BY <3>1, <4>1, <4>3
    <3> QED
      BY <3>2
  <2> QED
    BY <1>2, <1>4, <2>1, <2>2, <2>3 DEF SgInv
<1> QED
  BY <1>1, <1>3, <1>4

LEMMA SgWork ==
  ASSUME StackInv, SgInv, NEW r \in working, Work(r)
  PROVE  SgInv'
<1> USE CanaryKinds
<1>1. CASE Succeed(r) /\ op \in Forward /\ (r = R("canary") \/ enis' = enis)
  <2>1. Present' = Present /\ working' \subseteq working /\ failed' = failed /\ op' = op
    BY <1>1 DEF Succeed, Present
  <2> QED
    BY <1>1, <2>1 DEF SgInv, Forward, Backward
<1>2. CASE Succeed(r) /\ op \in Backward /\ (r = R("enis") => enis' = "none")
           /\ (enis = "none" => enis' = "none")
  <2>1. Present' = Present \ {r} /\ working' = working \ {r} /\ failed' = failed /\ op' = op
    BY <1>2 DEF Succeed, Present, StackInv, Inv, EngineTypeOK, Forward, Backward
  <2> QED
    BY <1>2, <2>1 DEF SgInv, Forward, Backward
<1>3. CASE FailDelete(r) /\ r # R("canarySg") /\ enis' = enis
  <2>1. Present' = Present /\ working' = working \ {r} /\ failed' = failed \cup {r} /\ op' = op
    BY <1>3 DEF FailDelete, Present
  <2> QED
    BY <1>3, <2>1 DEF SgInv, FailDelete, Forward, Backward
<1>4. CASE UNCHANGED <<engine, enis>>
  BY <1>4 DEF engine, SgInv, Present
<1>5. CASE Boot(r) \/ Copy(r) \/ RunCanary(r) \/ Apply(r) \/ Send(r) \/ GiveUp(r)
  BY <1>1, <1>5 DEF Boot, Copy, RunCanary, Apply, Send, GiveUp, world
<1>6. CASE Clear(r)
  <2>1. r # R("enis")
    BY <1>6, KindOf DEF Clear, Is, Clears
  <2> QED
    BY <1>2, <1>4, <1>6, <2>1 DEF Clear
<1>7. CASE DeleteBucket(r) \/ DeleteAcl(r)
  <2>1. r # R("enis") /\ r # R("canarySg")
    BY <1>7, KindOf DEF DeleteBucket, DeleteAcl, Is, Buckets
  <2> QED
    BY <1>2, <1>3, <1>7, <2>1 DEF DeleteBucket, DeleteAcl, world
<1>8. CASE DeleteSg(r)
  <2>1. enis = "none"
    BY <1>8 DEF DeleteSg, SgInv
  <2> QED
    BY <1>2, <1>8, <2>1 DEF DeleteSg, world
<1>9. CASE DeleteEnis(r)
  BY <1>2, <1>9 DEF DeleteEnis
<1>10. CASE DeleteCanary(r)
  BY <1>2, <1>10 DEF DeleteCanary
<1>11. CASE CleanUp(r) \/ DeleteManifest(r) \/ DeleteController(r) \/ DeleteGroup(r)
  <2>1. r # R("enis")
    BY <1>11, KindOf DEF CleanUp, DeleteManifest, DeleteController, DeleteGroup, Is
  <2> QED
    BY <1>2, <1>11, <2>1 DEF CleanUp, DeleteManifest, DeleteController, DeleteGroup, world
<1> QED
  BY <1>5, <1>6, <1>7, <1>8, <1>9, <1>10, <1>11 DEF Work

LEMMA SgStep ==
  ASSUME StackInv, SgInv, [Next]_vars
  PROVE  SgInv'
<1>1. CASE UNCHANGED engine /\ enis' \in {enis, "none"}
  BY <1>1 DEF engine, SgInv, Present
<1>2. CASE CreateStack \/ UpdateStack \/ DeleteStack
  <2>1. working = {}
    BY <1>2 DEF CreateStack, UpdateStack, DeleteStack, Create, Update, Delete, Operate, StackInv, Inv, Whole
  <2>2. UNCHANGED <<ready, working, failed, enis>>
    BY <1>2 DEF CreateStack, UpdateStack, DeleteStack, Create, Update, Delete, Operate, world
  <2> QED
    BY <2>1, <2>2 DEF SgInv, Present
<1>3. CASE Rest
  BY <1>3 DEF Rest, Finish, world, SgInv, Present
<1>4. ASSUME NEW r \in working, Breaks(r) PROVE SgInv'
  <2>1. op \in Forward /\ op' \in {"cleanup", "rollback"} /\ working' = {} /\ failed' = failed \cup working
    BY <1>4 DEF Breaks, FailCreate, FailUpdate, Forward
  <2>2. ready' = ready /\ enis' = enis
    BY <1>4 DEF Breaks, FailCreate, FailUpdate, world
  <2> QED
    BY <2>1, <2>2 DEF SgInv, Present, Forward, Backward
<1>5. ASSUME NEW r \in working, ClearFails(r) \/ ReclaimFirst(r) PROVE SgInv'
  <2>1. FailDelete(r) /\ r # R("canarySg") /\ enis' \in {enis, "none"}
    BY <1>5, KindOf DEF ClearFails, ReclaimFirst, world, Is, Clears
  <2>2. Present' = Present /\ working' = working \ {r} /\ failed' = failed \cup {r} /\ op' = op
    BY <2>1 DEF FailDelete, Present
  <2> QED
    BY <2>1, <2>2 DEF SgInv
<1>6. ASSUME NEW r \in working, SendFails(r) PROVE SgInv'
  BY <1>1, <1>6 DEF SendFails
<1>7. CASE Reclaim \/ Reconcile \/ (\E b \in Buckets : Write(b)) \/ UNCHANGED vars
  BY <1>1, <1>7 DEF Reclaim, Reconcile, Write, vars, world
<1> QED
  BY <1>2, <1>3, <1>4, <1>5, <1>6, <1>7, SgDispatch, SgWork DEF Next, Progress, Surroundings, Trouble

(* The canary's group is deleted when no interface of the canary is left,  *)
(* for every configuration and whatever fails before.                      *)
THEOREM GroupRemovable == Spec => []SgRemovable
<1>1. Init => SgInv
  BY DEF Init, EngineInit, SgInv
<1>2. StackInv /\ SgInv /\ [Next]_vars => SgInv'
  BY SgStep
<1>3. SgInv => SgRemovable
  BY DEF SgInv, SgRemovable
<1> QED
  BY <1>1, <1>2, <1>3, StackInvariant, PTL DEF Spec

(* -------------------------------------------------- Installation bucket *)

LEMMA CanaryWithout == \A d : Without(Canary(d), "installBucket")
<1> SUFFICES ASSUME NEW d PROVE Without(Canary(d), "installBucket")
  OBVIOUS
<1>1. \A n : /\ Without(Part("canarySg", n), "installBucket")
             /\ Without(Part("enis", n), "installBucket")
             /\ Without(Part("canary", n), "installBucket")
  BY WithoutParts
<1> QED
  BY <1>1, WithoutParts DEF Canary

(* Where the images have a bucket that is not retained, a resource clears  *)
(* it and needs it.                                                        *)
LEMMA InstallNeeds ==
  ASSUME NEW d, Destroyed(d), R("installBucket") \in DOMAIN Synthesize(d)
  PROVE  /\ R("clearInstall") \in DOMAIN Synthesize(d)
         /\ R("installBucket") \in Synthesize(d)[R("clearInstall")]
<1>1. PICK p \in Entries(d) : p[1] = R("installBucket")
  BY DEF Synthesize, Close
<1>2. d.platform = "ec2"
  BY <1>1, EksWithout, CanaryWithout DEF Entries, Placed, Without
<1> DEFINE o == <<R("clearInstall"), Rs({"installBucket", "clearFunction"})>>
<1>3. o \in Installation(d)
  BY <1>2 DEF Installation, Cleared, If, Part
<1>4. o \in Entries(d) /\ o[1] = R("clearInstall") /\ R("installBucket") \in o[2]
  BY <1>2, <1>3 DEF Entries, Ec2Template, DruidStack, BaseInfrastructure, Rs
<1> HIDE DEF o
<1> QED
  BY <1>1, <1>4, CloseNeeds DEF Synthesize

(* As long as nothing failed: what is deleted had been complete; once the  *)
(* clearing resource is gone, and when the bucket's turn comes, it is      *)
(* empty, and nothing writes to it any more.                               *)
InstallInv ==
  /\ op \in {"cleanup", "rollback"} => faults > 0
  /\ R("installBucket") \in working => op \in Backward /\ Destroyed(c)
  /\ R("clearInstall") \in working => op \in Backward
  /\ faults = 0 /\ op = "delete" /\ R("clearInstall") \in Resources \ Present => pages["installBucket"] = 0
  /\ faults = 0 /\ R("installBucket") \in working => pages["installBucket"] = 0
  /\ faults = 0 => R("installBucket") \notin failed

LEMMA InstallKinds ==
  /\ R("installBucket") # R("clearInstall")
  /\ op \in Forward \/ ~Destroyed(c) => {R("installBucket")} \cap Resources \subseteq Quick
  /\ op \in Forward => {R("clearInstall")} \cap Resources \subseteq Quick
  /\ op \notin Forward => R("clearInstall") \notin Quick
<1>1. R("installBucket") # R("clearInstall")
  BY KindOf
<1>2. op \in Forward \/ ~Destroyed(c) => {R("installBucket")} \cap Resources \subseteq Quick
  BY KindOf DEF Quick, SlowKinds, NodeKinds, Is, Clears
<1>3. op \in Forward => {R("clearInstall")} \cap Resources \subseteq Quick
  BY KindOf DEF Quick, SlowKinds, NodeKinds, Is
<1>4. op \notin Forward => R("clearInstall") \notin Quick
  BY KindOf DEF Quick, SlowKinds, Is, Clears
<1> QED
  BY <1>1, <1>2, <1>3, <1>4

LEMMA InstallDispatch ==
  ASSUME StackInv, InstallInv, Dispatch, Resources' = Resources, c' = c, WorldOK
  PROVE  InstallInv'
<1>1. /\ Startable \subseteq todo \ working /\ todo \subseteq Resources /\ Present \subseteq Resources
      /\ op \in Forward \cup Backward
  BY DEF StackInv, Inv, EngineTypeOK, Whole, Startable, Dispatch, Start
<1>2. /\ working' = working \cup (Startable \ Quick) /\ failed' = failed \ Startable
      /\ ready' = (ready \ Startable) \cup (IF op \in Forward THEN Startable \cap Quick ELSE {})
      /\ op' = op /\ pages' = pages /\ faults' = faults
  BY DEF Dispatch, Start, world, counts
<1>3. CASE op \in Forward
  <2>1. R("installBucket") \notin working' /\ R("clearInstall") \notin working'
    BY <1>1, <1>2, <1>3, InstallKinds DEF InstallInv, Forward, Backward
  <2> QED
    BY <1>2, <1>3, <2>1 DEF InstallInv, Forward
<1>4. CASE op \in Backward
  <2>1. op \notin Forward
    BY <1>4 DEF Forward, Backward
  <2>2. R("clearInstall") \in Present => R("clearInstall") \in Present'
    BY <1>2, <2>1, InstallKinds DEF Present
  <2>3. (Destroyed(c))' <=> Destroyed(c)
    BY DEF Destroyed
  <2>4. ASSUME R("installBucket") \in Startable \ Quick, faults = 0
        PROVE  pages["installBucket"] = 0
    <3>1. /\ Destroyed(c) /\ R("installBucket") \in Resources /\ op = "delete"
          /\ users[R("installBucket")] \cap Present = {}
      BY <1>1, <1>4, <2>1, <2>4, InstallKinds DEF Startable, InstallInv, Backward, WorldOK
    <3>2. R("clearInstall") \in Resources /\ R("installBucket") \in needs[R("clearInstall")]
      BY <3>1, InstallNeeds DEF StackInv, Resources
    <3>3. R("clearInstall") \in users[R("installBucket")]
      BY <3>1, <3>2, UsersOf DEF StackInv, Inv
    <3> QED
      BY <2>4, <3>1, <3>2, <3>3 DEF InstallInv
  <2>5. R("installBucket") \in Startable \ Quick => Destroyed(c)
    BY <1>1, InstallKinds
  <2> QED
    BY <1>2, <1>4, <2>2, <2>3, <2>4, <2>5 DEF InstallInv
<1> QED
  BY <1>1, <1>3, <1>4

LEMMA InstallWork ==
  ASSUME StackInv, WorldOK, InstallInv, NEW r \in working, Work(r), Resources' = Resources, c' = c
  PROVE  InstallInv'
<1> USE InstallKinds
<1>1. (Destroyed(c))' <=> Destroyed(c)
  BY DEF Destroyed
<1>2. CASE Succeed(r) /\ op \in Forward /\ faults' = faults
  <2>1. Present' = Present /\ working' \subseteq working /\ failed' = failed /\ op' = op
    BY <1>2 DEF Succeed, Present
  <2> QED
    BY <1>1, <1>2, <2>1 DEF InstallInv, Forward, Backward
<1>3. CASE /\ Succeed(r) /\ op \in Backward /\ faults' = faults
           /\ r = R("clearInstall") => pages["installBucket"] = 0
           /\ pages["installBucket"] = 0 => pages'["installBucket"] = 0
  <2>1. Present' = Present \ {r} /\ working' = working \ {r} /\ failed' = failed /\ op' = op
    BY <1>3 DEF Succeed, Present, StackInv, Inv, EngineTypeOK, Forward, Backward
  <2> QED
    BY <1>1, <1>3, <2>1 DEF InstallInv
<1>4. CASE /\ FailDelete(r) /\ faults' = faults /\ pages' = pages
           /\ r = R("installBucket") => pages["installBucket"] # 0
  <2>1. Present' = Present /\ working' = working \ {r} /\ failed' = failed \cup {r} /\ op' = op
    BY <1>4 DEF FailDelete, Present
  <2> QED
    BY <1>1, <1>4, <2>1 DEF InstallInv
<1>5. CASE Boot(r) \/ Copy(r) \/ RunCanary(r) \/ Apply(r) \/ Send(r) \/ GiveUp(r)
  BY <1>2, <1>5 DEF Boot, Copy, RunCanary, Apply, Send, GiveUp, counts
<1>6. CASE Clear(r)
  <2>1. op \in Backward /\ faults' = faults /\ r[1] \in DOMAIN Clears
    BY <1>6 DEF Clear, counts, Is
  <2>2. CASE pages[Clears[r[1]]] > 0 /\ UNCHANGED engine /\ pages' = [pages EXCEPT ![Clears[r[1]]] = @ - 1]
    <3>1. pages["installBucket"] = 0 => pages'["installBucket"] = 0
      BY <2>2 DEF WorldOK, Buckets
    <3> QED
      BY <1>1, <2>1, <2>2, <3>1 DEF engine, InstallInv, Present
  <2>3. CASE pages[Clears[r[1]]] = 0 /\ Succeed(r) /\ UNCHANGED pages
    <3>1. r = R("clearInstall") => pages["installBucket"] = 0
      BY <2>3, KindOf DEF Clears
    <3> QED
      BY <1>3, <2>1, <2>3, <3>1
  <2> QED
    BY <1>6, <2>2, <2>3 DEF Clear
<1>7. CASE DeleteBucket(r)
  <2>1. r[1] = "installBucket" => (pages["installBucket"] = 0 <=> pages[r[1]] = 0)
    OBVIOUS
  <2>2. r # R("clearInstall") /\ (r = R("installBucket") => r[1] = "installBucket")
    BY <1>7, KindOf DEF DeleteBucket, Is, Buckets
  <2> QED
    BY <1>3, <1>4, <1>7, <2>1, <2>2 DEF DeleteBucket, world, counts
<1>8. CASE DeleteSg(r) \/ DeleteAcl(r)
  <2>1. r # R("clearInstall") /\ r # R("installBucket")
    BY <1>8, KindOf DEF DeleteSg, DeleteAcl
  <2> QED
    BY <1>3, <1>4, <1>8, <2>1 DEF DeleteSg, DeleteAcl, world, counts
<1>9. CASE \/ DeleteEnis(r) \/ DeleteCanary(r) \/ CleanUp(r)
           \/ DeleteManifest(r) \/ DeleteController(r) \/ DeleteGroup(r)
  <2>1. r # R("clearInstall")
    BY <1>9, KindOf DEF DeleteEnis, DeleteCanary, CleanUp, DeleteManifest, DeleteController, DeleteGroup, Is
  <2> QED
    BY <1>3, <1>9, <2>1
    DEF DeleteEnis, DeleteCanary, CleanUp, DeleteManifest, DeleteController, DeleteGroup, world, counts
<1> QED
  BY <1>5, <1>6, <1>7, <1>8, <1>9 DEF Work

LEMMA InstallStep ==
  ASSUME StackInv, WorldOK, InstallInv, [Next]_vars
  PROVE  InstallInv'
<1>1. Resources' = Resources /\ c' = c
  <2>1. [EngineNext]_engine
    BY EngineStep DEF StackInv, Inv, vars, engine
  <2> QED
    BY <2>1, SameResources DEF Next, Progress, vars
<1>2. ((Destroyed(c))' <=> Destroyed(c)) /\ faults \in Nat
  BY <1>1 DEF Destroyed, WorldOK
<1>3. CASE UNCHANGED <<engine, pages>> /\ faults' \in {faults, faults + 1}
  BY <1>1, <1>2, <1>3 DEF engine, InstallInv, Present
<1>4. CASE CreateStack \/ UpdateStack \/ DeleteStack
  <2>1. working = {} /\ todo = {}
    BY <1>4 DEF CreateStack, UpdateStack, DeleteStack, Create, Update, Delete, Operate, StackInv, Inv, Whole
  <2>2. UNCHANGED <<ready, working, failed, pages, faults>> /\ op' \in {"create", "update", "delete"}
    BY <1>4 DEF CreateStack, UpdateStack, DeleteStack, Create, Update, Delete, Operate, world, counts
  <2>3. faults = 0 /\ op' = "delete" /\ R("clearInstall") \in Resources \ Present => pages["installBucket"] = 0
    <3>1. SUFFICES ASSUME faults = 0, op' = "delete", R("clearInstall") \in Resources \ Present
                   PROVE  op = "delete"
      BY DEF InstallInv
    <3>2. Present # {}
      BY <1>4, <3>1 DEF CreateStack, UpdateStack, DeleteStack, Create, Update, Delete, Operate
    <3>3. op \notin Forward
      BY <2>1, <3>1 DEF StackInv, Inv, NeedsFirst, Present
    <3> QED
      BY <3>1, <3>2, <3>3 DEF StackInv, Inv, EngineTypeOK, Whole, InstallInv, Forward, Backward
  <2> QED
    BY <1>1, <2>1, <2>2, <2>3 DEF InstallInv, Present
<1>5. CASE Rest
  BY <1>1, <1>2, <1>5 DEF Rest, Finish, world, counts, InstallInv, Present
<1>6. ASSUME NEW r \in working, Breaks(r) PROVE InstallInv'
  <2>1. op' \in {"cleanup", "rollback"} /\ working' = {} /\ faults' = faults + 1
    BY <1>6 DEF Breaks, FailCreate, FailUpdate, Fault
  <2> QED
    BY <1>2, <2>1 DEF InstallInv
<1>7. ASSUME NEW r \in working, ClearFails(r) \/ ReclaimFirst(r) PROVE InstallInv'
  <2>1. FailDelete(r) /\ faults' = faults + 1 /\ pages' = pages
    BY <1>7 DEF ClearFails, ReclaimFirst, Fault, world
  <2>2. working' = working \ {r} /\ op' = op
    BY <2>1 DEF FailDelete
  <2> QED
    BY <1>2, <2>1, <2>2 DEF InstallInv
<1>8. ASSUME NEW r \in working, SendFails(r) PROVE InstallInv'
  BY <1>3, <1>8 DEF SendFails, Fault, counts
<1>9. ASSUME NEW b \in Buckets, Write(b) PROVE InstallInv'
  <2>1. b # "installBucket"
    BY <1>9 DEF Write, Writer
  <2>2. pages'["installBucket"] = pages["installBucket"] /\ faults' = faults /\ UNCHANGED engine
    BY <1>9, <2>1 DEF Write, WorldOK, Buckets
  <2> QED
    BY <1>1, <1>2, <2>2 DEF engine, InstallInv, Present
<1>10. CASE Reclaim \/ Reconcile \/ UNCHANGED vars
  BY <1>3, <1>10 DEF Reclaim, Reconcile, vars, world, counts
<1> QED
  BY <1>1, <1>4, <1>5, <1>6, <1>7, <1>8, <1>9, <1>10, InstallDispatch, InstallWork
  DEF Next, Progress, Surroundings, Trouble

(* Unless something fails, the bucket of the images is empty when its turn *)
(* to be deleted comes, for every number of pages and of updates.          *)
THEOREM ImagesRemovable == Spec => []InstallRemovable
<1>1. Init => InstallInv
  BY DEF Init, EngineInit, InstallInv
<1>2. StackInv /\ WorldOK /\ InstallInv /\ [Next]_vars => InstallInv'
  BY InstallStep
<1>3. InstallInv => InstallRemovable
  BY DEF InstallInv, InstallRemovable
<1> QED
  BY <1>1, <1>2, <1>3, StackInvariant, WorldInvariant, PTL DEF Spec
=============================================================================
