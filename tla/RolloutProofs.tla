---------------------------- MODULE RolloutProofs ----------------------------
(* The order of a rollout, the quorum of ZooKeeper and the completeness of *)
(* a cluster, for every configuration that is accepted.                    *)
EXTENDS DeploymentProofs, FiniteSetTheorems, WellFoundedInduction, NaturalsInduction

(* ------------------------------------------------------ Configurations *)

(* Some positions have a last one.                                         *)
LEMMA LatestExists ==
  ASSUME NEW n \in Nat, NEW s \in SUBSET (1..n), s # {}
  PROVE  \E i \in s : Latest(s) = {i}
<1> DEFINE t == {n - i : i \in s}
<1>1. t \subseteq Nat
  <2> SUFFICES ASSUME NEW i \in s PROVE n - i \in Nat
    OBVIOUS
  <2> QED
    OBVIOUS
<1>2. t # {}
  OBVIOUS
<1>3. PICK x \in t : \A y \in t : ~ (<<y, x>> \in OpToRel(<, Nat))
  BY <1>1, <1>2, NatLessThanWellFounded, WFMin
<1>4. \A y \in t : ~ (y < x)
  BY <1>1, <1>3 DEF OpToRel
<1>5. PICK i \in s : x = n - i
  BY <1>3
<1>6. \A j \in s : j <= i
  <2> SUFFICES ASSUME NEW j \in s PROVE j <= i
    OBVIOUS
  <2>1. n - j \in t
    OBVIOUS
  <2>2. ~(n - j < n - i)
    BY <1>4, <1>5, <2>1
  <2>3. i \in 1..n /\ j \in 1..n
    OBVIOUS
  <2> HIDE DEF t
  <2> QED
    BY <2>2, <2>3
<1>7. \A j \in Latest(s) : j = i
  BY <1>6 DEF Latest
<1> QED
  BY <1>6, <1>7 DEF Latest

(* What the proofs use of a configuration.                                 *)
Sound == WellFormed(c) /\ Accepts(c)

LEMMA Positions ==
  ASSUME Sound
  PROVE  /\ Len(c.groups) \in Nat
         /\ \A f : Tiers(c, f) \in SUBSET (1..Len(c.groups))
         /\ \A f : \A i \in Tiers(c, f) : i \in DOMAIN c.groups /\ c.groups[i].family = f
<1>1. c.groups \in Seq({c.groups[i] : i \in DOMAIN c.groups})
  BY DEF Sound, WellFormed
<1>2. Len(c.groups) \in Nat /\ DOMAIN c.groups = 1..Len(c.groups)
  BY <1>1
<1> QED
  BY <1>2 DEF Tiers

(* Within a family, a tier that is not the first has one just before it,   *)
(* and a family that is not empty has a last tier.                         *)
LEMMA TierBefore ==
  ASSUME Sound, NEW f, NEW i \in Tiers(c, f), NEW j \in Tiers(c, f), i < j
  PROVE  \E k \in Before(Tiers(c, f), j) : k \in Tiers(c, f) /\ i <= k /\ k < j
<1> DEFINE s == {k \in Tiers(c, f) : k < j}
<1>1. s \in SUBSET (1..Len(c.groups)) /\ s # {} /\ i \in s
  BY Positions
<1>2. PICK k \in s : Latest(s) = {k}
  BY <1>1, LatestExists, Positions
<1>3. i <= k
  BY <1>1, <1>2 DEF Latest
<1> QED
  BY <1>2, <1>3 DEF Before

LEMMA LastTier ==
  ASSUME Sound, NEW f, NEW i \in Tiers(c, f)
  PROVE  \E k \in Latest(Tiers(c, f)) : k \in Tiers(c, f) /\ i <= k
<1>1. PICK k \in Tiers(c, f) : Latest(Tiers(c, f)) = {k}
  BY LatestExists, Positions
<1> QED
  BY <1>1 DEF Latest

LEMMA FamilyOf ==
  ASSUME Sound, NEW i \in DOMAIN c.groups
  PROVE  Family(c.groups[i].name) = c.groups[i].family
<1> DEFINE name == c.groups[i].name
           all == {c.groups[j] : j \in DOMAIN c.groups}
<1>1. Key(c, name)
  BY DEF Key
<1>2. \A g \in all : g.name = name => g = c.groups[i]
  BY DEF Sound, WellFormed
<1>3. c.groups[i] \in all /\ c.groups[i].name = name
  OBVIOUS
<1>4. (CHOOSE g \in all : g.name = name) = c.groups[i]
  BY <1>2, <1>3
<1> QED
  BY <1>1, <1>4 DEF Family

(* A key without a suffix is the key of a tier of its family.              *)
LEMMA PlainKey ==
  ASSUME Sound, NEW f \in PlainFamilies, Key(c, f)
  PROVE  Family(f) = f /\ \E i \in Tiers(c, f) : c.groups[i].name = f
<1>1. PICK i \in DOMAIN c.groups : c.groups[i].name = f
  BY DEF Key
<1>2. c.groups[i].family = f /\ c.groups[i].word
  BY <1>1 DEF Sound, WellFormed
<1>3. i \in Tiers(c, f)
  BY <1>1, <1>2 DEF Tiers
<1> QED
  BY <1>1, <1>2, <1>3, FamilyOf

(* ----------------------------------------------------------- Templates *)

Group(i) == Asg(c.groups[i])
Image(n) == <<"asset", n, 0>>
MasterGroup == <<"group", "master", 0>>
Template == Synthesize(c)
In(r) == r \in DOMAIN Template
Tiered == {"data", "historical", "middleManager", "query"}

(* The kinds of the resources that a rollout puts in an order.             *)
Ordered == {"zk", "group", "nodes", "operator", "manifest"}

(* A part of a template has no resource of some kinds.                     *)
Lacks(t, kinds) == \A p \in t : p[1][1] \notin kinds

LEMMA LacksParts ==
  ASSUME NEW kinds
  PROVE  /\ \A j, n : j \notin kinds => Lacks(Part(j, n), kinds)
         /\ \A s, t : Lacks(s, kinds) /\ Lacks(t, kinds) => Lacks(s \cup t, kinds)
         /\ \A b, t : Lacks(t, kinds) => Lacks(If(b, t), kinds)
         /\ Lacks({}, kinds)
<1>1. ASSUME NEW j, NEW n, j \notin kinds
      PROVE  Lacks(Part(j, n), kinds)
  BY <1>1, KindOf DEF Lacks, Part
<1> QED
  BY <1>1 DEF Lacks, If

LEMMA InTemplate ==
  ASSUME NEW r
  PROVE  In(r) <=> \E p \in Entries(c) : p[1] = r
BY DEF In, Template, Synthesize, Close

LEMMA TemplateNeeds ==
  ASSUME NEW p \in Entries(c), NEW q \in p[2], In(q)
  PROVE  q \in Template[p[1]]
<1>1. \E o \in Entries(c) : o[1] = q
  BY InTemplate
<1> QED
  BY <1>1, CloseNeeds DEF Template, Synthesize

(* What both platforms share holds none of the kinds in question.          *)
LEMMA StackLacks ==
  /\ Lacks(DruidStack(c), Ordered)
  /\ c.platform # "ec2" => Lacks(DruidStack(c), {"asset"})
<1>1. ASSUME NEW kinds \in {Ordered, {"asset"}}, kinds = {"asset"} => c.platform # "ec2"
      PROVE  Lacks(DruidStack(c), kinds)
  <2> DEFINE some == {"clearFunction", "clearLogs", "clearInstall", "clearDeep", "logsBucket", "installBucket",
                      "deepBucket", "vpc", "deepKey", "bastion", "topic", "scanBucket", "scan", "application",
                      "waiter", "insights", "webAcl", "certificate"}
  <2>1. \A j \in some : \A n : Lacks(Part(j, n), kinds)
    <3>1. \A j \in some : j \notin kinds
      BY <1>1 DEF Ordered
    <3> QED
      BY <3>1, LacksParts
  <2>2. \A bucket \in some : \A clear \in some : \A needed : Lacks(Cleared(c, bucket, clear, needed), kinds)
    BY <2>1, LacksParts DEF Cleared
  <2>3. Lacks(ClearFunction(c), kinds) /\ Lacks(Vpc(c), kinds) /\ Lacks(DeepStorage(c), kinds)
    BY <2>1, <2>2, LacksParts DEF ClearFunction, Vpc, DeepStorage
  <2>4. Lacks(Installation(c), kinds)
    <3>1. CASE c.platform # "ec2"
      BY <3>1, LacksParts DEF Installation, If
    <3>2. CASE c.platform = "ec2"
      <4>1. "asset" \notin kinds
        BY <1>1, <3>2 DEF Ordered
      <4>2. Lacks({<<<<"asset", n, 0>>, Rs({"installBucket", "vpc"})>> : n \in Images \cup {"files"}}, kinds)
        BY <4>1 DEF Lacks
      <4> QED
        BY <2>2, <4>2, LacksParts DEF Installation
    <3> QED
      BY <3>1, <3>2
  <2>5. Lacks(BaseInfrastructure(c), kinds)
    BY <2>1, <2>2, <2>3, <2>4, LacksParts DEF BaseInfrastructure
  <2>6. Lacks(VulnerabilityScan(c), kinds) /\ Lacks(AppRegistry, kinds)
    BY <2>1, LacksParts DEF VulnerabilityScan, AppRegistry
  <2> QED
    BY <2>1, <2>5, <2>6, LacksParts DEF DruidStack
<1>2. Ordered # {"asset"}
  BY DEF Ordered
<1> QED
  BY <1>1, <1>2

LEMMA SharedLacks ==
  ASSUME NEW kinds \in {Ordered, {"asset"}}
  PROVE  /\ \A client : Lacks(MetadataStore(c, client), kinds)
         /\ Lacks(Canary(c), kinds) /\ Lacks(Metrics, kinds)
<1>1. \A j \in {"secrets", "store", "storeKey", "backup", "canarySg", "enis", "canary", "metrics"} :
        \A n : Lacks(Part(j, n), kinds)
  <2>1. \A j \in {"secrets", "store", "storeKey", "backup", "canarySg", "enis", "canary", "metrics"} : j \notin kinds
    BY DEF Ordered
  <2> QED
    BY <2>1, LacksParts
<1> QED
  BY <1>1, LacksParts DEF MetadataStore, Canary, Metrics

(* ------------------------------------------------- The template on EC2 *)

LEMMA Ec2Parts ==
  ASSUME NEW p \in Ec2Template(c), p[1][1] \in Ordered
  PROVE  p \in ZooKeeper(c) \cup DataTiers(c) \cup QueryTiers(c) \cup Master(c)
<1>1. \A j \in {"ca", "sg", "role", "alb", "targets", "listener", "association", "record", "retention", "roles",
                "dashboard", "alarms"} : \A n : Lacks(Part(j, n), Ordered)
  BY LacksParts DEF Ordered
<1>2. Lacks(InstanceRole, Ordered) /\ Lacks(LoadBalancer(c), Ordered)
  BY <1>1, LacksParts DEF InstanceRole, LoadBalancer
<1>3. Lacks(DruidSettings(c), Ordered) /\ Lacks(Monitoring(c), Ordered)
  BY <1>1, LacksParts DEF DruidSettings, Monitoring
<1> QED
  BY <1>1, <1>2, <1>3, StackLacks, SharedLacks DEF Ec2Template, Lacks

(* An ensemble of one of the numbers admitted has at least three servers.  *)
LEMMA Ensemble ==
  ASSUME Sound, c.platform = "ec2"
  PROVE  c.zookeeper \in Nat /\ c.zookeeper >= 3
<1>1. c.zookeeper \in Nat /\ (c.zookeeper % 5 = 0) # (c.zookeeper % 3 = 0)
  BY DEF Sound, WellFormed, Accepts, Schema, Ec2Schema
<1> QED
  BY <1>1

LEMMA Ec2Entries ==
  ASSUME c.platform = "ec2"
  PROVE  /\ Entries(c) = Ec2Template(c)
         /\ ZooKeeper(c) \cup DataTiers(c) \cup QueryTiers(c) \cup Master(c) \subseteq Entries(c)
BY DEF Entries, Ec2Template

(* The nodes of a cluster on EC2: the servers, the groups of the tiers and *)
(* the masters, nothing else.                                              *)
LEMMA Ec2Nodes ==
  ASSUME Sound, c.platform = "ec2", NEW r, In(r), r[1] \in Ordered
  PROVE  \/ \E i \in 1..c.zookeeper : r = Zk(i)
         \/ \E f \in Tiered : \E i \in Tiers(c, f) : r = Group(i)
         \/ r = MasterGroup
<1>1. PICK p \in Ec2Template(c) : p[1] = r
  BY InTemplate, Ec2Entries
<1>2. p \in ZooKeeper(c) \cup DataTiers(c) \cup QueryTiers(c) \cup Master(c)
  BY <1>1, Ec2Parts
<1>3. CASE p \in ZooKeeper(c)
  <2>1. \A n : Lacks(Part("zkInterfaces", n), Ordered)
    BY LacksParts DEF Ordered
  <2>2. p \notin Part("zkInterfaces", Rs({"vpc", "sg"}))
    BY <1>1, <2>1 DEF Lacks
  <2> QED
    BY <1>1, <1>3, <2>2 DEF ZooKeeper
<1>4. \A f, more : p \in Chain(c, f, more) => \E i \in Tiers(c, f) : r = Group(i)
  BY <1>1 DEF Chain, Group
<1>5. CASE p \in DataTiers(c)
  <2>1. p \in HistoricalFirst(c) => \E i \in Tiers(c, "middleManager") : r = Group(i)
    BY <1>1 DEF HistoricalFirst, Group
  <2> QED
    BY <1>4, <1>5, <2>1 DEF DataTiers, Tiered
<1>6. CASE p \in QueryTiers(c)
  BY <1>4, <1>6 DEF QueryTiers, Tiered
<1>7. CASE p \in Master(c)
  BY <1>1, <1>7 DEF Master, MasterGroup
<1> QED
  BY <1>2, <1>3, <1>5, <1>6, <1>7

LEMMA ServerNeeds ==
  ASSUME Sound, c.platform = "ec2", NEW i \in 1..c.zookeeper
  PROVE  /\ In(Zk(i))
         /\ In(Image("zookeeperImage")) => Image("zookeeperImage") \in Template[Zk(i)]
         /\ i > 1 => Zk(i - 1) \in Template[Zk(i)]
<1> DEFINE needed(j) == Rs({"zkInterfaces", "sg", "vpc", "installBucket"})
                          \cup {<<"asset", "zookeeperImage", 0>>, Zk(j - 1)}
           entry(j) == <<Zk(j), needed(j)>>
<1>1. \A j \in 1..c.zookeeper : entry(j) \in Entries(c)
  BY Ec2Entries DEF ZooKeeper
<1>2. /\ entry(i)[1] = Zk(i) /\ Zk(i - 1) \in entry(i)[2] /\ Image("zookeeperImage") \in entry(i)[2]
      /\ \A j : entry(j)[1] = Zk(j)
  BY DEF Image
<1> HIDE DEF entry
<1>3. \A j \in 1..c.zookeeper : In(Zk(j))
  BY <1>1, <1>2, InTemplate
<1>4. i > 1 => In(Zk(i - 1))
  <2>1. i > 1 => i - 1 \in 1..c.zookeeper
    BY Ensemble
  <2> QED
    BY <1>3, <2>1
<1> QED
  BY <1>1, <1>2, <1>3, <1>4, TemplateNeeds

(* What the group of a tier waits for.                                     *)
LEMMA TierNeeds ==
  ASSUME Sound, c.platform = "ec2", NEW f \in Tiered, NEW i \in Tiers(c, f)
  PROVE  /\ In(Group(i))
         /\ \A j \in Before(Tiers(c, f), i) : Group(j) \in Template[Group(i)]
         /\ f \in Data => Zk(c.zookeeper) \in Template[Group(i)]
         /\ f \in Data /\ In(Image("druidImage")) => Image("druidImage") \in Template[Group(i)]
         /\ f = "query" => DataAsgs(c) \subseteq Template[Group(i)]
         /\ f = "middleManager" /\ Before(Tiers(c, f), i) = {} =>
              \A j \in Latest(Tiers(c, "historical")) : Group(j) \in Template[Group(i)]
<1> DEFINE images == {<<"asset", "druidImage", 0>>, Zk(c.zookeeper)}
           chain(g, more) == Chain(c, g, more)
           entry(g, j, more) == <<Group(j), AsgNeeds(c) \cup more \cup {Group(k) : k \in Before(Tiers(c, g), j)}>>
<1>1. \A g, more : \A j \in Tiers(c, g) : entry(g, j, more) \in chain(g, more)
  BY DEF Chain, Group
<1>2. /\ \A g \in Data : chain(g, images) \subseteq Entries(c)
      /\ chain("query", Rs({"targets"}) \cup DataAsgs(c)) \subseteq Entries(c)
      /\ HistoricalFirst(c) \subseteq Entries(c)
  BY Ec2Entries DEF DataTiers, QueryTiers, Data
<1>3. \A g, j, more : /\ entry(g, j, more)[1] = Group(j) /\ more \subseteq entry(g, j, more)[2]
                      /\ {Group(k) : k \in Before(Tiers(c, g), j)} \subseteq entry(g, j, more)[2]
  OBVIOUS
<1> HIDE DEF entry, chain
<1>4. \A g \in Tiered : \A j \in Tiers(c, g) : \E more :
        /\ entry(g, j, more) \in Entries(c)
        /\ g \in Data => more = images
        /\ g = "query" => more = Rs({"targets"}) \cup DataAsgs(c)
  <2> HIDE DEF images
  <2> QED
    BY <1>1, <1>2 DEF Tiered, Data
<1>5. \A g \in Tiered : \A j \in Tiers(c, g) : In(Group(j))
  BY <1>3, <1>4, InTemplate
<1>6. PICK more : /\ entry(f, i, more) \in Entries(c)
                  /\ f \in Data => more = images
                  /\ f = "query" => more = Rs({"targets"}) \cup DataAsgs(c)
  BY <1>4
<1>7. \A q \in entry(f, i, more)[2] : In(q) => q \in Template[Group(i)]
  BY <1>3, <1>6, TemplateNeeds
<1>8. \A j \in Before(Tiers(c, f), i) : Group(j) \in Template[Group(i)]
  <2>1. Before(Tiers(c, f), i) \subseteq Tiers(c, f)
    BY DEF Before, Latest
  <2> QED
    BY <1>3, <1>5, <1>7, <2>1
<1>9. In(Zk(c.zookeeper))
  BY ServerNeeds, Ensemble
<1>10. f \in Data => Zk(c.zookeeper) \in Template[Group(i)]
  BY <1>3, <1>6, <1>7, <1>9
<1>11. f \in Data /\ In(Image("druidImage")) => Image("druidImage") \in Template[Group(i)]
  BY <1>3, <1>6, <1>7 DEF Image
<1>12. f = "query" => DataAsgs(c) \subseteq Template[Group(i)]
  <2>1. \A q \in DataAsgs(c) : In(q)
    BY <1>5 DEF DataAsgs, Asgs, Tiered, Group
  <2> QED
    BY <1>3, <1>6, <1>7, <2>1
<1>13. ASSUME f = "middleManager", Before(Tiers(c, f), i) = {}, NEW j \in Latest(Tiers(c, "historical"))
       PROVE  Group(j) \in Template[Group(i)]
  <2> DEFINE o == <<Group(i), {Group(k) : k \in Latest(Tiers(c, "historical"))}>>
  <2>1. o \in HistoricalFirst(c) /\ o[1] = Group(i) /\ Group(j) \in o[2]
    BY <1>13 DEF HistoricalFirst, Group
  <2>2. j \in Tiers(c, "historical")
    BY DEF Latest
  <2> HIDE DEF o
  <2> QED
    BY <1>2, <1>5, <2>1, <2>2, TemplateNeeds DEF Tiered
<1> QED
  BY <1>5, <1>8, <1>10, <1>11, <1>12, <1>13

LEMMA MasterNeeds ==
  ASSUME Sound, c.platform = "ec2"
  PROVE  In(MasterGroup) /\ \A i \in Tiers(c, "query") : Group(i) \in Template[MasterGroup]
<1> DEFINE o == <<MasterGroup, AsgNeeds(c) \cup Asgs(c, "query")>>
<1>1. o \in Entries(c) /\ o[1] = MasterGroup /\ \A i \in Tiers(c, "query") : Group(i) \in o[2]
  BY Ec2Entries DEF Master, MasterGroup, Asgs, Group
<1> HIDE DEF o
<1>2. \A i \in Tiers(c, "query") : In(Group(i))
  BY TierNeeds DEF Tiered
<1> QED
  BY <1>1, <1>2, InTemplate, TemplateNeeds

(* ------------------------------------------------- The template on EKS *)

DataNode(i, z) == Nodes(c.groups[i].name, z)
ZkNodes == Nodes("zookeeper", 0)
QueryNodes == Nodes("query", 0)
MasterNodes == Nodes("master", 0)
OnNodes == c.platform # "ec2" /\ c.capacity = "ec2"

LEMMA EksEntries ==
  ASSUME c.platform # "ec2"
  PROVE  /\ Entries(c) = EksTemplate(c)
         /\ EksBase(c) \subseteq Entries(c)
         /\ c.capacity = "ec2" => NodeGroups(c) \subseteq Entries(c)
         /\ c.capacity # "ec2" => Fargate(c) \subseteq Entries(c)
BY DEF Entries, EksTemplate

(* The parts that hold what a rollout orders.                              *)
LEMMA EksParts ==
  ASSUME c.platform # "ec2", NEW p \in Entries(c), p[1][1] \in Ordered
  PROVE  \/ p[1] = R("manifest") \/ p[1] = R("operator")
         \/ OnNodes /\ p \in DataNodes(c)
         \/ OnNodes /\ p[1] \in {ZkNodes, QueryNodes, MasterNodes}
<1> DEFINE some == {"cluster", "albController", "druidAccount", "externalDns", "zkChart", "secretsChart",
                    "secretsAccount", "secretStore", "externalSecret", "ebsAccount", "ebsAddon", "storageClass",
                    "namespace", "agentAccounts", "agents", "efs", "logging", "secretsProfile", "cleanup",
                    "dashboard", "alarms"}
<1>1. \A j \in some : \A n : Lacks(Part(j, n), Ordered)
  <2>1. \A j \in some : j \notin Ordered
    BY DEF Ordered
  <2> QED
    BY <2>1, LacksParts
<1>2. \A j, n : p \in Part(j, n) => p[1] = R(j)
  BY DEF Part
<1>3. p \in EksBase(c) => p[1] = R("manifest")
  <2>1. \A j \in some : \A n : p \notin Part(j, n)
    BY <1>1 DEF Lacks
  <2>2. \A n, b : p \notin If(b, Part("externalDns", n))
    BY <2>1 DEF If
  <2>3. p \notin MetadataStore(c, "cluster")
    BY SharedLacks DEF Lacks
  <2> QED
    BY <1>2, <2>1, <2>2, <2>3 DEF EksBase
<1>4. Lacks(DruidSecrets, Ordered) /\ Lacks(AddOns, Ordered)
  BY <1>1, LacksParts DEF DruidSecrets, AddOns
<1>5. \A name, z, n : p \in {<<Nodes(name, z), n>>} => p[1] = Nodes(name, z)
  OBVIOUS
<1>6. p \in NodeGroups(c) => \/ p \in DataNodes(c) \/ p[1] = R("operator")
                             \/ p[1] \in {ZkNodes, QueryNodes, MasterNodes}
  BY <1>2, <1>4, <1>5 DEF NodeGroups, Lacks, ZkNodes, QueryNodes, MasterNodes
<1>7. Lacks(FargateVolumes(c), Ordered)
  <2> DEFINE tiers == Tiers(c, "historical") \cup Tiers(c, "middleManager")
             volumes == UNION {VolumesOf(c, c.groups[i]) : i \in tiers}
  <2>1. \A v \in volumes : v[1] = "volume"
    BY DEF VolumesOf
  <2> HIDE DEF volumes
  <2>2. Lacks({<<v, Rs({"efs", "cluster"})>> : v \in volumes}, Ordered)
    BY <2>1 DEF Lacks, Ordered
  <2> USE DEF volumes
  <2> QED
    BY <1>1, <2>2, LacksParts DEF FargateVolumes
<1>8. p \in Fargate(c) => p[1] = R("operator")
  BY <1>1, <1>2, <1>7 DEF Fargate, Lacks
<1>9. p \notin DruidStack(c) /\ p \notin DruidSecrets /\ p \notin Metrics /\ p \notin If(c.domain, Canary(c))
  BY <1>4, StackLacks, SharedLacks, LacksParts DEF Lacks
<1>10. \A j \in {"cleanup", "dashboard", "alarms"} : \A n : p \notin Part(j, n)
  BY <1>1 DEF Lacks
<1>11. \/ p \in EksBase(c)
       \/ p \in IF c.capacity = "ec2" THEN NodeGroups(c) ELSE Fargate(c)
  BY <1>9, <1>10, EksEntries DEF EksTemplate
<1> QED
  BY <1>3, <1>6, <1>8, <1>11 DEF OnNodes

LEMMA EksNodes ==
  ASSUME Sound, c.platform # "ec2", NEW r, In(r), r[1] \in Ordered
  PROVE  \/ r = R("manifest") \/ r = R("operator")
         \/ OnNodes /\ \E i \in Tiers(c, "data") : \E z \in 1..c.zones : r = DataNode(i, z)
         \/ OnNodes /\ r \in {ZkNodes, QueryNodes, MasterNodes}
<1>1. PICK p \in Entries(c) : p[1] = r
  BY InTemplate
<1>2. p \in DataNodes(c) => \E i \in Tiers(c, "data") : \E z \in 1..c.zones : r = DataNode(i, z)
  BY <1>1 DEF DataNodes, DataNode
<1> QED
  BY <1>1, <1>2, EksParts

LEMMA DataNodeNeeds ==
  ASSUME Sound, OnNodes, NEW i \in Tiers(c, "data"), NEW z \in 1..c.zones
  PROVE  /\ In(DataNode(i, z))
         /\ z > 1 => DataNode(i, z - 1) \in Template[DataNode(i, z)]
         /\ z = 1 => \A j \in Before(Tiers(c, "data"), i) : DataNode(j, c.zones) \in Template[DataNode(i, z)]
<1> DEFINE before(k, y) == IF y > 1 THEN {DataNode(k, y - 1)}
                           ELSE {DataNode(j, c.zones) : j \in Before(Tiers(c, "data"), k)}
           entry(k, y) == <<DataNode(k, y), Rs({"cluster"}) \cup before(k, y)>>
<1>1. \A k \in Tiers(c, "data") : \A y \in 1..c.zones : entry(k, y) \in DataNodes(c)
  BY DEF DataNodes, DataNode
<1>2. DataNodes(c) \subseteq Entries(c)
  BY EksEntries DEF NodeGroups, OnNodes
<1>3. \A k, y : entry(k, y)[1] = DataNode(k, y) /\ before(k, y) \subseteq entry(k, y)[2]
  OBVIOUS
<1> HIDE DEF entry
<1>4. \A k \in Tiers(c, "data") : \A y \in 1..c.zones : In(DataNode(k, y))
  BY <1>1, <1>2, <1>3, InTemplate
<1>5. \A q \in before(i, z) : In(q) => q \in Template[DataNode(i, z)]
  <2> HIDE DEF before
  <2> QED
    BY <1>1, <1>2, <1>3, TemplateNeeds
<1>6. c.zones \in Nat \ {0}
  BY DEF Sound, WellFormed
<1>7. ASSUME z > 1
      PROVE  DataNode(i, z - 1) \in Template[DataNode(i, z)]
  <2>1. z - 1 \in 1..c.zones /\ DataNode(i, z - 1) \in before(i, z)
    BY <1>6, <1>7
  <2> QED
    BY <1>4, <1>5, <2>1
<1>8. ASSUME z = 1, NEW j \in Before(Tiers(c, "data"), i)
      PROVE  DataNode(j, c.zones) \in Template[DataNode(i, z)]
  <2>1. c.zones \in 1..c.zones /\ DataNode(j, c.zones) \in before(i, z) /\ j \in Tiers(c, "data")
    BY <1>6, <1>8 DEF Before, Latest
  <2> QED
    BY <1>4, <1>5, <2>1
<1> QED
  BY <1>4, <1>7, <1>8

LEMMA OtherNodeNeeds ==
  ASSUME Sound, c.platform # "ec2"
  PROVE  /\ In(R("manifest")) /\ In(R("operator")) /\ R("operator") \in Template[R("manifest")]
         /\ OnNodes => /\ In(QueryNodes) /\ In(MasterNodes)
                       /\ \A i \in Latest(Tiers(c, "data")) : DataNode(i, c.zones) \in Template[QueryNodes]
                       /\ QueryNodes \in Template[MasterNodes]
                       /\ MasterNodes \in Template[R("operator")]
<1> DEFINE more == Rs({"operator", "cluster", "deepBucket", "deepKey", "webAcl", "certificate"}) \cup StoreParts(c)
           manifest == <<R("manifest"), more>>
           query == <<QueryNodes, Rs({"cluster"}) \cup LastDataNodes(c)>>
           master == <<MasterNodes, Rs({"cluster"}) \cup {QueryNodes}>>
           operator == <<R("operator"), Rs({"cluster"}) \cup {MasterNodes}>>
           plain == <<R("operator"), Rs({"cluster"})>>
<1>1. manifest \in Entries(c)
  BY EksEntries DEF EksBase, Part
<1>2. manifest[1] = R("manifest") /\ R("operator") \in manifest[2]
  BY DEF Rs
<1>3. OnNodes => {query, master, operator} \subseteq Entries(c)
  BY EksEntries DEF NodeGroups, Part, OnNodes, QueryNodes, MasterNodes
<1>4. /\ query[1] = QueryNodes /\ LastDataNodes(c) \subseteq query[2]
      /\ master[1] = MasterNodes /\ QueryNodes \in master[2]
      /\ operator[1] = R("operator") /\ MasterNodes \in operator[2]
      /\ plain[1] = R("operator")
  OBVIOUS
<1>5. ~OnNodes => plain \in Entries(c)
  BY EksEntries DEF Fargate, Part, OnNodes
<1> HIDE DEF manifest, query, master, operator, plain
<1>6. In(R("manifest")) /\ In(R("operator")) /\ (OnNodes => In(QueryNodes) /\ In(MasterNodes))
  BY <1>1, <1>2, <1>3, <1>4, <1>5, InTemplate
<1>7. ASSUME OnNodes, NEW i \in Latest(Tiers(c, "data"))
      PROVE  DataNode(i, c.zones) \in Template[QueryNodes]
  <2>1. i \in Tiers(c, "data") /\ c.zones \in 1..c.zones /\ DataNode(i, c.zones) \in LastDataNodes(c)
    BY DEF Latest, LastDataNodes, DataNode, Sound, WellFormed
  <2> QED
    BY <1>3, <1>4, <1>7, <2>1, DataNodeNeeds, TemplateNeeds
<1>8. R("operator") \in Template[R("manifest")]
  BY <1>1, <1>2, <1>6, TemplateNeeds
<1>9. OnNodes => QueryNodes \in Template[MasterNodes]
  BY <1>3, <1>4, <1>6, TemplateNeeds
<1>10. OnNodes => MasterNodes \in Template[R("operator")]
  BY <1>3, <1>4, <1>6, TemplateNeeds
<1> QED
  BY <1>6, <1>7, <1>8, <1>9, <1>10

LEMMA NoAssets ==
  ASSUME c.platform # "ec2", NEW r, In(r)
  PROVE  r[1] # "asset"
<1>1. PICK p \in Entries(c) : p[1] = r
  BY InTemplate
<1> DEFINE some == {"cluster", "albController", "druidAccount", "externalDns", "zkChart", "secretsChart",
                    "secretsAccount", "secretStore", "externalSecret", "ebsAccount", "ebsAddon", "storageClass",
                    "namespace", "agentAccounts", "agents", "efs", "logging", "secretsProfile", "cleanup",
                    "dashboard", "alarms", "manifest", "operator"}
<1>2. \A j \in some : \A n : Lacks(Part(j, n), {"asset"})
  BY LacksParts
<1> HIDE DEF some
<1>3. Lacks(EksBase(c), {"asset"}) /\ Lacks(DruidSecrets, {"asset"}) /\ Lacks(AddOns, {"asset"})
  BY <1>2, SharedLacks, LacksParts DEF some, EksBase, DruidSecrets, AddOns
<1>4. Lacks(NodeGroups(c), {"asset"})
  <2>1. \A name, z : Nodes(name, z)[1] # "asset"
    BY DEF Nodes
  <2>2. Lacks(DataNodes(c), {"asset"})
    BY <2>1 DEF DataNodes, Lacks
  <2>3. \A name, z, n : Lacks({<<Nodes(name, z), n>>}, {"asset"})
    BY <2>1 DEF Lacks
  <2> QED
    BY <1>2, <1>3, <2>2, <2>3, LacksParts DEF NodeGroups, some
<1>5. Lacks(Fargate(c), {"asset"})
  <2> DEFINE tiers == Tiers(c, "historical") \cup Tiers(c, "middleManager")
             volumes == UNION {VolumesOf(c, c.groups[i]) : i \in tiers}
  <2>1. \A v \in volumes : v[1] = "volume"
    BY DEF VolumesOf
  <2> HIDE DEF volumes
  <2>2. Lacks({<<v, Rs({"efs", "cluster"})>> : v \in volumes}, {"asset"})
    BY <2>1 DEF Lacks
  <2> USE DEF volumes
  <2>3. Lacks(FargateVolumes(c), {"asset"})
    BY <1>2, <2>2, LacksParts DEF FargateVolumes, some
  <2> QED
    BY <1>2, <2>3, LacksParts DEF Fargate, some
<1>6. Lacks(Entries(c), {"asset"})
  <2>1. \A n : /\ Lacks(Part("cleanup", n), {"asset"}) /\ Lacks(Part("dashboard", n), {"asset"})
              /\ Lacks(Part("alarms", n), {"asset"})
    BY <1>2 DEF some
  <2>2. Lacks(IF c.capacity = "ec2" THEN NodeGroups(c) ELSE Fargate(c), {"asset"})
    BY <1>4, <1>5
  <2>3. Lacks(DruidStack(c), {"asset"}) /\ Lacks(If(c.domain, Canary(c)), {"asset"}) /\ Lacks(Metrics, {"asset"})
    BY StackLacks, SharedLacks, LacksParts
  <2>4. Lacks(EksTemplate(c), {"asset"})
    BY <1>3, <2>1, <2>2, <2>3 DEF EksTemplate, Lacks
  <2> QED
    BY <2>4, EksEntries
<1> QED
  BY <1>1, <1>6 DEF Lacks

(* ------------------------------------------------------------ The order *)

LEMMA ServerKind == \A i : Zk(i)[1] = "zk" /\ Zk(i)[3] = i
BY Zenon DEF Zk

LEMMA ServersDiffer == \A i, j : Zk(i) = Zk(j) => i = j
<1>1. \A i, j : Zk(i) = Zk(j) => Zk(i)[3] = Zk(j)[3]
  OBVIOUS
<1> QED
  BY <1>1, ServerKind

LEMMA GroupKind ==
  ASSUME Sound, NEW f, NEW i \in Tiers(c, f)
  PROVE  /\ Group(i)[1] = "group" /\ Family(Group(i)[2]) = f
         /\ \A g : \A j \in Tiers(c, g) : Group(i) = Group(j) => i = j /\ f = g
<1>1. i \in DOMAIN c.groups /\ c.groups[i].family = f
  BY Positions
<1>2. \A j \in DOMAIN c.groups : Group(j)[1] = "group" /\ Group(j)[2] = c.groups[j].name
  BY DEF Group, Asg
<1>3. Family(Group(i)[2]) = f
  BY <1>1, <1>2, FamilyOf
<1>4. \A j \in DOMAIN c.groups : Group(i) = Group(j) => i = j
  BY <1>1, <1>2 DEF Sound, WellFormed
<1> QED
  BY <1>1, <1>2, <1>3, <1>4, Positions

LEMMA Stages ==
  ASSUME Sound
  PROVE  /\ \A i : Stage(Zk(i)) = 1
         /\ \A f \in Data : \A i \in Tiers(c, f) : Stage(Group(i)) = 2
         /\ \A i \in Tiers(c, "query") : Stage(Group(i)) = 3
         /\ Family("master") = "master" => Stage(MasterGroup) = 4 /\ Stage(MasterNodes) = 4
         /\ Family("query") = "query" => Stage(QueryNodes) = 3
         /\ Stage(ZkNodes) = 0
         /\ \A i \in Tiers(c, "data") : \A z : Stage(DataNode(i, z)) = 2
         /\ Stage(R("operator")) = 5 /\ Stage(R("manifest")) = 6
         /\ \A r : Stage(r) # 0 => r[1] \in Ordered
<1>1. \A i : Stage(Zk(i)) = 1
  <2> SUFFICES ASSUME NEW i PROVE Stage(Zk(i)) = 1
    OBVIOUS
  <2>1. Zk(i)[1] = "zk"
    BY ServerKind
  <2> QED
    BY <2>1 DEF Stage, Is
<1>2. \A f \in Data : \A i \in Tiers(c, f) : Stage(Group(i)) = 2
  <2> SUFFICES ASSUME NEW f \in Data, NEW i \in Tiers(c, f) PROVE Stage(Group(i)) = 2
    OBVIOUS
  <2>1. Group(i)[1] = "group" /\ Family(Group(i)[2]) \in Data
    BY GroupKind
  <2> QED
    BY <2>1 DEF Stage, Is, Data
<1>3. \A i \in Tiers(c, "query") : Stage(Group(i)) = 3
  BY GroupKind DEF Stage, Is, Data
<1>4. Family("master") = "master" => Stage(MasterGroup) = 4 /\ Stage(MasterNodes) = 4
  BY DEF Stage, Is, Data, MasterGroup, MasterNodes, Nodes
<1>5. Family("query") = "query" => Stage(QueryNodes) = 3
  BY DEF Stage, Is, Data, QueryNodes, Nodes
<1>6. Stage(ZkNodes) = 0
  <2>1. Family("zookeeper") = "none"
    BY DEF Family, Sound, WellFormed
  <2> QED
    BY <2>1 DEF Stage, Is, Data, ZkNodes, Nodes
<1>7. \A i \in Tiers(c, "data") : \A z : Stage(DataNode(i, z)) = 2
  <2> SUFFICES ASSUME NEW i \in Tiers(c, "data"), NEW z PROVE Stage(DataNode(i, z)) = 2
    OBVIOUS
  <2>1. i \in DOMAIN c.groups /\ c.groups[i].family = "data"
    BY Positions
  <2>2. DataNode(i, z)[1] = "nodes" /\ Family(DataNode(i, z)[2]) = "data"
    BY <2>1, FamilyOf DEF DataNode, Nodes
  <2> QED
    BY <2>2 DEF Stage, Is, Data
<1>8. Stage(R("operator")) = 5 /\ Stage(R("manifest")) = 6
  BY KindOf DEF Stage, Is
<1>9. \A r : Stage(r) # 0 => r[1] \in Ordered
  BY DEF Stage, Is, Ordered
<1> QED
  BY <1>1, <1>2, <1>3, <1>4, <1>5, <1>6, <1>7, <1>8, <1>9

(* The order of a rollout between resources that come early and late.      *)
Precedes(q, r) ==
  \/ q = Image("zookeeperImage") /\ Stage(r) # 0
  \/ q = Image("druidImage") /\ Stage(r) >= 2
  \/ 0 < Stage(q) /\ Stage(q) < Stage(r)
  \/ \E i, j \in 1..c.zookeeper : i < j /\ q = Zk(i) /\ r = Zk(j)
  \/ \E f \in Tiered : \E i, j \in Tiers(c, f) : i < j /\ q = Group(i) /\ r = Group(j)
  \/ \E i \in Tiers(c, "historical"), j \in Tiers(c, "middleManager") : q = Group(i) /\ r = Group(j)
  \/ \E i, j \in Tiers(c, "data"), y, z \in 1..c.zones :
       (i < j \/ (i = j /\ y < z)) /\ q = DataNode(i, y) /\ r = DataNode(j, z)

(* The nodes by their stages.                                              *)
LEMMA Ec2Stage ==
  ASSUME Sound, c.platform = "ec2", NEW r, In(r)
  PROVE  /\ Family("master") = "master" /\ \E i \in Tiers(c, "query") : TRUE
         /\ \E f \in Data : \E i \in Tiers(c, f) : TRUE
         /\ Stage(r) \in 0..4
         /\ Stage(r) = 1 => \E i \in 1..c.zookeeper : r = Zk(i)
         /\ Stage(r) = 2 => \E f \in Data : \E i \in Tiers(c, f) : r = Group(i)
         /\ Stage(r) = 3 => \E i \in Tiers(c, "query") : r = Group(i)
         /\ Stage(r) = 4 => r = MasterGroup
<1>1. /\ Key(c, "master") /\ Key(c, "query")
      /\ Key(c, "data") \/ Key(c, "middleManager")
  BY DEF Sound, Accepts, Schema, Ec2Schema, Ec2Accepts
<1>2. Family("master") = "master" /\ \E i \in Tiers(c, "query") : TRUE
  BY <1>1, PlainKey DEF PlainFamilies
<1>3. \E f \in Data : \E i \in Tiers(c, f) : TRUE
  BY <1>1, PlainKey DEF PlainFamilies, Data
<1>4. CASE Stage(r) = 0
  BY <1>2, <1>3, <1>4
<1>5. CASE Stage(r) # 0
  <2>1. \/ \E i \in 1..c.zookeeper : r = Zk(i)
        \/ \E f \in Tiered : \E i \in Tiers(c, f) : r = Group(i)
        \/ r = MasterGroup
    BY <1>5, Stages, Ec2Nodes
  <2>2. ASSUME NEW i \in 1..c.zookeeper, r = Zk(i)
        PROVE  Stage(r) = 1
    BY <2>2, Stages
  <2>3. ASSUME NEW f \in Data, NEW i \in Tiers(c, f), r = Group(i)
        PROVE  Stage(r) = 2
    BY <2>3, Stages
  <2>4. ASSUME NEW i \in Tiers(c, "query"), r = Group(i)
        PROVE  Stage(r) = 3
    BY <2>4, Stages
  <2>5. CASE r = MasterGroup
    BY <1>2, <1>3, <2>5, Stages
  <2>6. \A f \in Tiered : f \in Data \/ f = "query"
    BY DEF Tiered, Data
  <2> QED
    BY <1>2, <1>3, <2>1, <2>2, <2>3, <2>4, <2>5, <2>6
<1> QED
  BY <1>4, <1>5

LEMMA EksStage ==
  ASSUME Sound, c.platform # "ec2", NEW r, In(r)
  PROVE  /\ OnNodes => /\ Family("master") = "master" /\ Family("query") = "query"
                       /\ \E i \in Tiers(c, "data") : TRUE
         /\ r[1] \notin {"asset", "zk", "group"}
         /\ Stage(r) \in {0, 2, 3, 4, 5, 6}
         /\ Stage(r) \in {2, 3, 4} => OnNodes
         /\ Stage(r) = 2 => \E i \in Tiers(c, "data") : \E z \in 1..c.zones : r = DataNode(i, z)
         /\ Stage(r) = 3 => r = QueryNodes
         /\ Stage(r) = 4 => r = MasterNodes
         /\ Stage(r) = 5 => r = R("operator")
         /\ Stage(r) = 6 => r = R("manifest")
<1>1. OnNodes => Key(c, "master") /\ Key(c, "query") /\ Key(c, "data")
  BY DEF OnNodes, Sound, Accepts, ProgramAccepts, EksAccepts, NodeGroupShape
<1>2. OnNodes => /\ Family("master") = "master" /\ Family("query") = "query"
                 /\ \E i \in Tiers(c, "data") : TRUE
  BY <1>1, PlainKey DEF PlainFamilies
<1>3. \A name, z : Nodes(name, z)[1] = "nodes"
  BY DEF Nodes
<1>4. r[1] \notin {"asset", "zk", "group"}
  <2>1. CASE r[1] \in Ordered
    BY <1>3, <2>1, EksNodes, KindOf, NoAssets DEF DataNode, ZkNodes, QueryNodes, MasterNodes
  <2>2. CASE r[1] \notin Ordered
    BY <2>2, NoAssets DEF Ordered
  <2> QED
    BY <2>1, <2>2
<1>5. CASE Stage(r) = 0
  BY <1>2, <1>4, <1>5
<1>6. CASE Stage(r) # 0
  <2>1. \/ r = R("manifest") \/ r = R("operator")
        \/ OnNodes /\ \E i \in Tiers(c, "data") : \E z \in 1..c.zones : r = DataNode(i, z)
        \/ OnNodes /\ r \in {ZkNodes, QueryNodes, MasterNodes}
    BY <1>6, Stages, EksNodes
  <2>2. CASE r = R("manifest") \/ r = R("operator")
    BY <1>2, <1>4, <2>2, Stages
  <2>3. ASSUME OnNodes, NEW i \in Tiers(c, "data"), NEW z \in 1..c.zones, r = DataNode(i, z)
        PROVE  Stage(r) = 2
    BY <2>3, Stages
  <2>4. CASE OnNodes /\ r \in {ZkNodes, QueryNodes, MasterNodes}
    <3>1. r # ZkNodes
      BY <1>6, Stages
    <3>2. CASE r = QueryNodes
      BY <1>2, <1>4, <2>4, <3>2, Stages
    <3>3. CASE r = MasterNodes
      BY <1>2, <1>4, <2>4, <3>3, Stages
    <3> QED
      BY <2>4, <3>1, <3>2, <3>3
  <2> QED
    BY <1>2, <1>4, <2>1, <2>2, <2>3, <2>4
<1> QED
  BY <1>5, <1>6

LEMMA DataNodesDiffer ==
  ASSUME Sound, NEW i \in Tiers(c, "data"), NEW j \in Tiers(c, "data"), NEW y, NEW z,
         DataNode(i, y) = DataNode(j, z)
  PROVE  i = j /\ y = z
<1>1. i \in DOMAIN c.groups /\ j \in DOMAIN c.groups
  BY Positions
<1>2. /\ DataNode(i, y)[2] = c.groups[i].name /\ DataNode(i, y)[3] = y
      /\ DataNode(j, z)[2] = c.groups[j].name /\ DataNode(j, z)[3] = z
  BY DEF DataNode, Nodes
<1> QED
  BY <1>1, <1>2 DEF Sound, WellFormed

(* Is m on a path from q to r, the last step of which is a need?           *)
Leads(q, m, r) == m \in Template[r] /\ (m = q \/ (Precedes(q, m) /\ Precedes(m, r)))

LEMMA EksPath ==
  ASSUME Sound, c.platform # "ec2", NEW q, NEW r, In(q), In(r), Precedes(q, r)
  PROVE  \E m : Leads(q, m, r)
<1>1. /\ q[1] \notin {"asset", "zk", "group"} /\ r[1] \notin {"asset", "zk", "group"}
      /\ Stage(q) \in {0, 2, 3, 4, 5, 6} /\ Stage(r) \in {0, 2, 3, 4, 5, 6}
  BY EksStage
<1>2. /\ \A n : Image(n)[1] = "asset"
      /\ \A i : Zk(i)[1] = "zk"
      /\ \A f : \A i \in Tiers(c, f) : Group(i)[1] = "group"
  BY ServerKind, GroupKind DEF Image
<1>3. \A i, j \in Tiers(c, "data"), y, z \in 1..c.zones :
        (i < j \/ (i = j /\ y < z)) => Precedes(DataNode(i, y), DataNode(j, z))
  BY DEF Precedes
<1>4. \A m, n : 0 < Stage(m) /\ Stage(m) < Stage(n) => Precedes(m, n)
  BY DEF Precedes
<1>5. c.zones \in Nat \ {0} /\ Tiers(c, "data") \subseteq Nat
  BY Positions DEF Sound, WellFormed
<1>6. \/ 0 < Stage(q) /\ Stage(q) < Stage(r)
      \/ \E i, j \in Tiers(c, "data"), y, z \in 1..c.zones :
           (i < j \/ (i = j /\ y < z)) /\ q = DataNode(i, y) /\ r = DataNode(j, z)
  BY <1>1, <1>2 DEF Precedes
<1>7. ASSUME NEW i \in Tiers(c, "data"), NEW j \in Tiers(c, "data"), NEW y \in 1..c.zones, NEW z \in 1..c.zones,
             i < j \/ (i = j /\ y < z), q = DataNode(i, y), r = DataNode(j, z)
      PROVE  \E m : Leads(q, m, r)
  <2>1. OnNodes
    BY <1>7, EksStage, Stages
  <2>2. CASE z > 1
    <3>1. z - 1 \in 1..c.zones /\ z - 1 < z
      BY <1>5, <2>2
    <3>2. DataNode(j, z - 1) \in Template[r]
      BY <1>7, <2>1, <2>2, DataNodeNeeds
    <3>3. Precedes(DataNode(j, z - 1), r)
      BY <1>3, <1>7, <3>1
    <3>4. DataNode(j, z - 1) = q \/ Precedes(q, DataNode(j, z - 1))
      <4>1. i < j \/ (i = j /\ y < z - 1) \/ (i = j /\ y = z - 1)
        BY <1>5, <1>7, <3>1
      <4> QED
        BY <1>3, <1>7, <3>1, <4>1
    <3> QED
      BY <3>2, <3>3, <3>4 DEF Leads
  <2>3. CASE ~(z > 1)
    <3>1. z = 1 /\ i < j
      BY <1>5, <1>7, <2>3
    <3>2. PICK k \in Before(Tiers(c, "data"), j) : k \in Tiers(c, "data") /\ i <= k /\ k < j
      BY <3>1, TierBefore
    <3>3. c.zones \in 1..c.zones
      BY <1>5
    <3>4. DataNode(k, c.zones) \in Template[r]
      BY <1>7, <2>1, <3>1, <3>2, DataNodeNeeds
    <3>5. Precedes(DataNode(k, c.zones), r)
      BY <1>3, <1>7, <3>2, <3>3
    <3>6. DataNode(k, c.zones) = q \/ Precedes(q, DataNode(k, c.zones))
      <4>1. i < k \/ (i = k /\ y < c.zones) \/ (i = k /\ y = c.zones)
        BY <1>5, <3>2
      <4> QED
        BY <1>3, <1>7, <3>2, <3>3, <4>1
    <3> QED
      BY <3>4, <3>5, <3>6 DEF Leads
  <2> QED
    BY <2>2, <2>3
<1>8. ASSUME 0 < Stage(q), Stage(q) < Stage(r)
      PROVE  \E m : Leads(q, m, r)
  <2>1. CASE Stage(r) = 3
    <3>1. Stage(q) = 2 /\ OnNodes /\ r = QueryNodes
      BY <1>1, <1>8, <2>1, EksStage
    <3>2. PICK i \in Tiers(c, "data"), y \in 1..c.zones : q = DataNode(i, y)
      BY <3>1, EksStage
    <3>3. PICK k \in Latest(Tiers(c, "data")) : k \in Tiers(c, "data") /\ i <= k
      BY LastTier
    <3>4. c.zones \in 1..c.zones
      BY <1>5
    <3>5. DataNode(k, c.zones) \in Template[r]
      BY <3>1, <3>3, OtherNodeNeeds DEF OnNodes
    <3>6. Precedes(DataNode(k, c.zones), r)
      BY <1>4, <2>1, <3>3, Stages
    <3>7. DataNode(k, c.zones) = q \/ Precedes(q, DataNode(k, c.zones))
      <4>1. i < k \/ (i = k /\ y < c.zones) \/ (i = k /\ y = c.zones)
        BY <1>5, <3>3
      <4> QED
        BY <1>3, <3>2, <3>3, <3>4, <4>1
    <3> QED
      BY <3>5, <3>6, <3>7 DEF Leads
  <2>2. CASE Stage(r) = 4
    <3>1. r = MasterNodes /\ OnNodes /\ Stage(q) \in {2, 3} /\ (Stage(q) = 3 => q = QueryNodes)
      BY <1>1, <1>8, <2>2, EksStage
    <3>2. Stage(QueryNodes) = 3 /\ QueryNodes \in Template[r]
      BY <3>1, EksStage, Stages, OtherNodeNeeds DEF OnNodes
    <3> QED
      BY <1>4, <1>8, <2>2, <3>1, <3>2 DEF Leads
  <2>3. CASE Stage(r) = 5
    <3>1. r = R("operator") /\ OnNodes /\ Stage(q) \in {2, 3, 4} /\ (Stage(q) = 4 => q = MasterNodes)
      BY <1>1, <1>8, <2>3, EksStage
    <3>2. Stage(MasterNodes) = 4 /\ MasterNodes \in Template[r]
      BY <3>1, EksStage, Stages, OtherNodeNeeds DEF OnNodes
    <3> QED
      BY <1>4, <1>8, <2>3, <3>1, <3>2 DEF Leads
  <2>4. CASE Stage(r) = 6
    <3>1. r = R("manifest") /\ Stage(q) \in {2, 3, 4, 5} /\ (Stage(q) = 5 => q = R("operator"))
      BY <1>1, <1>8, <2>4, EksStage
    <3>2. Stage(R("operator")) = 5 /\ R("operator") \in Template[r]
      BY <3>1, Stages, OtherNodeNeeds
    <3> QED
      BY <1>4, <1>8, <2>4, <3>1, <3>2 DEF Leads
  <2> QED
    BY <1>1, <1>8, <2>1, <2>2, <2>3, <2>4
<1> QED
  BY <1>6, <1>7, <1>8

LEMMA Ec2Path ==
  ASSUME Sound, c.platform = "ec2", NEW q, NEW r, In(q), In(r), Precedes(q, r)
  PROVE  \E m : Leads(q, m, r)
<1>1. /\ Stage(q) \in 0..4 /\ Stage(r) \in 0..4 /\ Family("master") = "master"
      /\ \A n : Image(n)[1] = "asset" /\ Stage(Image(n)) = 0
  BY Ec2Stage DEF Image, Stage, Is
<1>2. /\ \A m, n : 0 < Stage(m) /\ Stage(m) < Stage(n) => Precedes(m, n)
      /\ \A n : Stage(n) # 0 => Precedes(Image("zookeeperImage"), n)
      /\ \A n : Stage(n) >= 2 => Precedes(Image("druidImage"), n)
  BY DEF Precedes
<1>3. \A i, j \in 1..c.zookeeper : i < j => Precedes(Zk(i), Zk(j))
  BY DEF Precedes
<1>4. \A f \in Tiered : \A i, j \in Tiers(c, f) : i < j => Precedes(Group(i), Group(j))
  BY DEF Precedes
<1>5. \A i \in Tiers(c, "historical"), j \in Tiers(c, "middleManager") : Precedes(Group(i), Group(j))
  BY DEF Precedes
<1>6. c.zookeeper \in Nat /\ c.zookeeper \in 1..c.zookeeper /\ \A f : Tiers(c, f) \subseteq Nat
  BY Ensemble, Positions
<1>7. \/ q \in {Image("zookeeperImage"), Image("druidImage")}
      \/ 0 < Stage(q) /\ Stage(q) < Stage(r)
      \/ \E i, j \in 1..c.zookeeper : i < j /\ q = Zk(i) /\ r = Zk(j)
      \/ \E f \in Tiered : \E i, j \in Tiers(c, f) : i < j /\ q = Group(i) /\ r = Group(j)
      \/ \E i \in Tiers(c, "historical"), j \in Tiers(c, "middleManager") : q = Group(i) /\ r = Group(j)
  <2>1. \A i \in Tiers(c, "data") : \A z : ~In(DataNode(i, z))
    <3> SUFFICES ASSUME NEW i \in Tiers(c, "data"), NEW z, In(DataNode(i, z)) PROVE FALSE
      OBVIOUS
    <3>1. DataNode(i, z)[1] = "nodes"
      BY DEF DataNode, Nodes
    <3>2. \/ DataNode(i, z)[1] = "zk" \/ DataNode(i, z)[1] = "group"
      BY <3>1, Ec2Nodes, ServerKind, GroupKind DEF Ordered, MasterGroup
    <3> QED
      BY <3>1, <3>2
  <2> QED
    BY <2>1 DEF Precedes
<1>8. \A i, j \in 1..c.zookeeper : i < j => i <= j - 1 /\ j - 1 \in 1..c.zookeeper /\ j > 1 /\ j - 1 < j
  BY <1>6
\* the servers
<1>9. ASSUME NEW i \in 1..c.zookeeper, NEW j \in 1..c.zookeeper, i < j, q = Zk(i), r = Zk(j)
      PROVE  \E m : Leads(q, m, r)
  <2>1. Zk(j - 1) \in Template[r] /\ Precedes(Zk(j - 1), r)
    BY <1>3, <1>8, <1>9, ServerNeeds
  <2>2. Zk(j - 1) = q \/ Precedes(q, Zk(j - 1))
    <3>1. i = j - 1 \/ i < j - 1
      BY <1>6, <1>8, <1>9
    <3> QED
      BY <1>3, <1>8, <1>9, <3>1
  <2> QED
    BY <2>1, <2>2 DEF Leads
\* the tiers of a family
<1>10. ASSUME NEW f \in Tiered, NEW i \in Tiers(c, f), NEW j \in Tiers(c, f), i < j, q = Group(i), r = Group(j)
       PROVE  \E m : Leads(q, m, r)
  <2>1. PICK k \in Before(Tiers(c, f), j) : k \in Tiers(c, f) /\ i <= k /\ k < j
    BY <1>10, TierBefore
  <2>2. Group(k) \in Template[r] /\ Precedes(Group(k), r)
    BY <1>4, <1>10, <2>1, TierNeeds
  <2>3. i = k \/ i < k
    BY <1>6, <2>1
  <2>4. Group(k) = q \/ Precedes(q, Group(k))
    BY <1>4, <1>10, <2>1, <2>3
  <2> QED
    BY <2>2, <2>4 DEF Leads
\* historicals and middle managers
<1>11. ASSUME NEW i \in Tiers(c, "historical"), NEW j \in Tiers(c, "middleManager"), q = Group(i), r = Group(j)
       PROVE  \E m : Leads(q, m, r)
  <2> USE DEF Tiered
  <2>1. CASE Before(Tiers(c, "middleManager"), j) = {}
    <3>1. PICK k \in Latest(Tiers(c, "historical")) : k \in Tiers(c, "historical") /\ i <= k
      BY LastTier
    <3>2. Group(k) \in Template[r] /\ Precedes(Group(k), r)
      BY <1>5, <1>11, <2>1, <3>1, TierNeeds
    <3>3. i = k \/ i < k
      BY <1>6, <3>1
    <3>4. Group(k) = q \/ Precedes(q, Group(k))
      BY <1>4, <1>11, <3>1, <3>3
    <3> QED
      BY <3>2, <3>4 DEF Leads
  <2>2. ASSUME NEW k \in Before(Tiers(c, "middleManager"), j)
        PROVE  \E m : Leads(q, m, r)
    <3>1. k \in Tiers(c, "middleManager") /\ k < j
      BY DEF Before, Latest
    <3>2. Group(k) \in Template[r] /\ Precedes(Group(k), r)
      BY <1>4, <1>11, <3>1, TierNeeds
    <3>3. Precedes(q, Group(k))
      BY <1>5, <1>11, <3>1
    <3> QED
      BY <3>2, <3>3 DEF Leads
  <2> QED
    BY <2>1, <2>2
\* the stages
<1>12. ASSUME \/ q = Image("zookeeperImage") /\ Stage(r) # 0
              \/ q = Image("druidImage") /\ Stage(r) >= 2
              \/ 0 < Stage(q) /\ Stage(q) < Stage(r)
       PROVE  \E m : Leads(q, m, r)
  <2>1. Stage(r) \in 1..4
    BY <1>1, <1>12
  <2>2. CASE Stage(r) = 1
    <3>1. PICK j \in 1..c.zookeeper : r = Zk(j)
      BY <2>2, Ec2Stage
    <3>2. q = Image("zookeeperImage")
      BY <1>1, <1>12, <2>2
    <3>3. q \in Template[r]
      BY <3>1, <3>2, ServerNeeds
    <3> QED
      BY <3>3 DEF Leads
  <2>3. CASE Stage(r) = 2
    <3>1. PICK f \in Data : \E j \in Tiers(c, f) : r = Group(j)
      BY <2>3, Ec2Stage
    <3>2. PICK j \in Tiers(c, f) : r = Group(j)
      BY <3>1
    <3>3. f \in Tiered
      BY DEF Data, Tiered
    <3>4. Zk(c.zookeeper) \in Template[r] /\ Stage(Zk(c.zookeeper)) = 1
      BY <3>2, <3>3, TierNeeds, Stages
    <3>5. Precedes(Zk(c.zookeeper), r)
      BY <1>2, <2>3, <3>4
    <3>6. CASE q = Image("zookeeperImage")
      BY <1>2, <3>4, <3>5, <3>6 DEF Leads
    <3>7. CASE q = Image("druidImage")
      <4>1. q \in Template[r]
        BY <3>2, <3>3, <3>7, TierNeeds
      <4> QED
        BY <4>1 DEF Leads
    <3>8. CASE Stage(q) = 1
      <4>1. PICK i \in 1..c.zookeeper : q = Zk(i)
        BY <3>8, Ec2Stage
      <4>2. i = c.zookeeper \/ i < c.zookeeper
        BY <1>6
      <4> QED
        BY <1>3, <1>6, <3>4, <3>5, <4>1, <4>2 DEF Leads
    <3> QED
      BY <1>1, <1>12, <2>3, <3>6, <3>7, <3>8
  <2>4. CASE Stage(r) = 3
    <3>1. PICK j \in Tiers(c, "query") : r = Group(j)
      BY <2>4, Ec2Stage
    <3>2. DataAsgs(c) \subseteq Template[r]
      BY <3>1, TierNeeds DEF Tiered
    <3>3. \A f \in Data : \A i \in Tiers(c, f) : Group(i) \in Template[r] /\ Stage(Group(i)) = 2
      BY <3>2, Stages DEF DataAsgs, Asgs, Data, Group
    <3>4. CASE Stage(q) = 2
      <4>1. q \in Template[r]
        BY <3>3, <3>4, Ec2Stage
      <4> QED
        BY <4>1 DEF Leads
    <3>5. CASE Stage(q) # 2
      <4>1. PICK f \in Data : \E i \in Tiers(c, f) : TRUE
        BY Ec2Stage
      <4>2. PICK i \in Tiers(c, f) : TRUE
        BY <4>1
      <4>3. Group(i) \in Template[r] /\ Stage(Group(i)) = 2
        BY <3>3
      <4>4. Precedes(Group(i), r) /\ Precedes(q, Group(i))
        BY <1>1, <1>2, <1>12, <2>4, <3>5, <4>3
      <4> QED
        BY <4>3, <4>4 DEF Leads
    <3> QED
      BY <3>4, <3>5
  <2>5. CASE Stage(r) = 4
    <3>1. \A i \in Tiers(c, "query") : Group(i) \in Template[r] /\ Stage(Group(i)) = 3
      BY <2>5, Ec2Stage, MasterNeeds, Stages
    <3>2. CASE Stage(q) = 3
      <4>1. q \in Template[r]
        BY <3>1, <3>2, Ec2Stage
      <4> QED
        BY <4>1 DEF Leads
    <3>3. CASE Stage(q) # 3
      <4>1. PICK i \in Tiers(c, "query") : TRUE
        BY Ec2Stage
      <4>2. Group(i) \in Template[r] /\ Stage(Group(i)) = 3
        BY <3>1
      <4>3. Precedes(Group(i), r) /\ Precedes(q, Group(i))
        BY <1>1, <1>2, <1>12, <2>5, <3>3, <4>2
      <4> QED
        BY <4>2, <4>3 DEF Leads
    <3> QED
      BY <3>2, <3>3
  <2> QED
    BY <2>1, <2>2, <2>3, <2>4, <2>5
<1>13. \/ q = Image("zookeeperImage") /\ Stage(r) # 0
       \/ q = Image("druidImage") /\ Stage(r) >= 2
       \/ 0 < Stage(q) /\ Stage(q) < Stage(r)
       \/ ~(q \in {Image("zookeeperImage"), Image("druidImage")})
  <2>1. ASSUME q \in {Image("zookeeperImage"), Image("druidImage")}
        PROVE  \A i : q # Zk(i)
    BY <1>1, <2>1, ServerKind
  <2>2. ASSUME q \in {Image("zookeeperImage"), Image("druidImage")}, NEW f, NEW i \in Tiers(c, f)
        PROVE  q # Group(i)
    BY <1>1, <2>2, GroupKind
  <2>3. ASSUME q \in {Image("zookeeperImage"), Image("druidImage")}, NEW i, NEW z
        PROVE  q # DataNode(i, z)
    BY <1>1, <2>3 DEF DataNode, Nodes
  <2> QED
    BY <2>1, <2>2, <2>3 DEF Precedes
<1> QED
  BY <1>7, <1>9, <1>10, <1>11, <1>12, <1>13

(* What precedes a resource is, or precedes, one that the resource needs.  *)
LEMMA Path ==
  ASSUME Sound, NEW q, NEW r, In(q), In(r), Precedes(q, r)
  PROVE  \E m : Leads(q, m, r)
BY Ec2Path, EksPath

(* ---------------------------------------------------------- The rollout *)

SoundInv == StackInv /\ Sound

LEMMA SoundInit == Init => SoundInv
BY StackInit, ConfigsAssumption DEF Init, SoundInv, Sound, Accepted

LEMMA SoundStep == SoundInv /\ [Next]_vars => SoundInv'
<1> SUFFICES ASSUME SoundInv, [Next]_vars PROVE SoundInv'
  OBVIOUS
<1>1. c' = c
  BY DEF Next, Progress, vars
<1>2. Sound'
  BY <1>1 DEF SoundInv, Sound
<1> QED
  BY <1>2, StackStep DEF SoundInv

(* What happens to the resources in a step.                                *)
LEMMA RolloutStep ==
  ASSUME [Next]_vars
  PROVE  /\ c' = c
         /\ \/ Create \/ Update(Changed) \/ Delete \/ Start(Quick) \/ Finish \/ UNCHANGED engine
            \/ \E r \in working : \/ Succeed(r) \/ FailCreate(r) \/ FailUpdate(r, Changed)
                                  \/ FailDelete(r)
<1>1. c' = c
  BY DEF Next, Progress, vars
<1>2. CASE Progress
  BY <1>2, WorkSteps DEF Progress, CreateStack, Dispatch, Rest, SendFails
<1>3. CASE Surroundings
  BY <1>1, <1>3, SurroundingSteps
<1>4. CASE \E r \in working : Trouble(r)
  BY <1>1, <1>4, TroubleSteps
<1>5. CASE UNCHANGED vars
  BY <1>5 DEF vars
<1> QED
  BY <1>1, <1>2, <1>3, <1>4, <1>5 DEF Next

(* The order depends on the configuration only.                            *)
LEMMA OrderKept ==
  ASSUME c' = c
  PROVE  /\ \A q, r : Precedes(q, r)' <=> Precedes(q, r)
         /\ \A r : Stage(r)' = Stage(r)
<1>1. \A r : Stage(r)' = Stage(r)
  BY DEF Stage, Family, Key
<1>2. \A f : Tiers(c, f)' = Tiers(c, f)
  BY DEF Tiers
<1>3. \A i, z : Group(i)' = Group(i) /\ DataNode(i, z)' = DataNode(i, z)
  BY DEF Group, DataNode
<1> QED
  BY <1>1, <1>2, <1>3 DEF Precedes

LEMMA TemplateOf ==
  ASSUME SoundInv
  PROVE  needs = Template /\ \A r : In(r) <=> r \in Resources
BY DEF SoundInv, StackInv, Template, In, Resources

(* What precedes a resource that an update changes is changed by it.       *)
LEMMA ChangedFirst ==
  ASSUME SoundInv, NEW m \in Resources, NEW r \in Changed, Precedes(m, r)
  PROVE  m \in Changed
<1> DEFINE kinds == NodeKinds \cup {"asset"}
<1>1. In(m) /\ In(r) /\ r[1] \in kinds /\ Sound
  BY TemplateOf DEF Changed, Is, SoundInv
<1>2. SUFFICES m[1] \in kinds
  BY DEF Changed, Is
<1>3. m[1] = "asset" \/ Stage(m) # 0
  <2>1. \A n : Image(n)[1] = "asset"
    BY DEF Image
  <2>2. \A i : Stage(Zk(i)) # 0
    BY <1>1, Stages
  <2>3. \A f \in Tiered : \A i \in Tiers(c, f) : Stage(Group(i)) # 0
    BY <1>1, Stages DEF Tiered, Data
  <2>4. \A i \in Tiers(c, "data") : \A z : Stage(DataNode(i, z)) # 0
    BY <1>1, Stages
  <2> QED
    BY <2>1, <2>2, <2>3, <2>4 DEF Precedes, Tiered
<1>4. CASE Stage(m) # 0 /\ c.platform = "ec2"
  <2>1. Stage(m) \in 1..4
    BY <1>1, <1>4, Ec2Stage
  <2>2. m[1] \in {"zk", "group"}
    BY <1>1, <1>4, <2>1, Ec2Stage, ServerKind, GroupKind DEF MasterGroup
  <2> QED
    BY <2>2 DEF NodeKinds
<1>5. CASE Stage(m) # 0 /\ c.platform # "ec2"
  <2>1. Stage(r) \notin {5, 6}
    BY <1>1, <1>5, EksStage, KindOf DEF NodeKinds
  <2>2. Stage(m) \in {2, 3, 4, 5, 6} /\ m[1] \notin {"asset", "zk", "group"}
    BY <1>1, <1>5, EksStage
  <2>3. Stage(m) \notin {5, 6}
    <3>1. ASSUME NEW i \in Tiers(c, "data"), NEW z, m = DataNode(i, z)
          PROVE  Stage(m) = 2
      BY <1>1, <3>1, Stages
    <3>2. /\ \A n : Image(n)[1] = "asset"
          /\ \A i : Zk(i)[1] = "zk"
          /\ \A f : \A i \in Tiers(c, f) : Group(i)[1] = "group"
      BY <1>1, ServerKind, GroupKind DEF Image
    <3>3. \/ Stage(m) = 2
          \/ Stage(m) < Stage(r)
      BY <2>2, <3>1, <3>2 DEF Precedes
    <3>4. Stage(r) \in {0, 2, 3, 4}
      BY <1>1, <1>5, <2>1, EksStage
    <3> QED
      BY <2>2, <3>3, <3>4
  <2>4. m[1] = "nodes"
    <3>1. \A name, z : Nodes(name, z)[1] = "nodes"
      BY DEF Nodes
    <3>2. \/ \E i, z : m = DataNode(i, z)
          \/ m = QueryNodes \/ m = MasterNodes
      BY <1>1, <1>5, <2>2, <2>3, EksStage
    <3> QED
      BY <3>1, <3>2 DEF DataNode, QueryNodes, MasterNodes
  <2> QED
    BY <2>4 DEF NodeKinds
<1> QED
  BY <1>3, <1>4, <1>5

(* Between what is still to be dealt with nothing has been passed over:    *)
(* this is what the start of a resource needs to be in order, whatever the *)
(* operation has to deal with.                                             *)
NothingPassed ==
  op \in Forward =>
    \A r \in todo, m \in Resources \ todo, q \in todo : ~(Precedes(q, m) /\ Precedes(m, r))

WorkInOrder ==
  op \in Forward => \A r \in working, q \in todo : ~Precedes(q, r)

(* All that an operation deals with.                                       *)
Scope == IF op = "create" THEN Resources ELSE Changed

DoneInOrder ==
  op \in {"create", "update"} =>
    /\ todo \subseteq Scope
    /\ \A r \in Scope \ todo, q \in todo : ~Precedes(q, r)

OrderInv == NothingPassed /\ WorkInOrder /\ DoneInOrder

LEMMA StartInOrder ==
  ASSUME SoundInv, NothingPassed, op \in Forward, NEW r \in Startable, NEW q \in todo
  PROVE  ~Precedes(q, r)
<1>1. SUFFICES ASSUME Precedes(q, r) PROVE FALSE
  OBVIOUS
<1>2. r \in todo /\ needs[r] \cap todo = {}
  BY DEF Startable
<1>3. todo \subseteq Resources /\ \A n \in Resources : needs[n] \subseteq Resources
  BY UsersOf DEF SoundInv, StackInv, Inv, EngineTypeOK
<1>4. PICK m : Leads(q, m, r)
  BY <1>1, <1>2, <1>3, TemplateOf, Path DEF SoundInv
<1>5. m \in needs[r] /\ (m = q \/ (Precedes(q, m) /\ Precedes(m, r)))
  BY <1>4, TemplateOf DEF Leads
<1> QED
  BY <1>2, <1>3, <1>5 DEF NothingPassed

LEMMA OrderStep ==
  ASSUME SoundInv, OrderInv, [Next]_vars
  PROVE  OrderInv'
<1>1. /\ c' = c /\ Resources' = Resources /\ Changed' = Changed
      /\ \A q, r : Precedes(q, r)' <=> Precedes(q, r)
  <2>1. [EngineNext]_engine
    BY EngineStep DEF SoundInv, StackInv, Inv, vars, engine
  <2> QED
    BY <2>1, RolloutStep, OrderKept, SameResources DEF Changed
<1>2. todo \subseteq Resources /\ (running \/ (todo = {} /\ working = {})) /\ working \subseteq todo
  BY DEF SoundInv, StackInv, Inv, EngineTypeOK, Whole
<1> HIDE DEF Changed
<1>3. CASE Create
  BY <1>1, <1>2, <1>3 DEF Create, Operate, OrderInv, NothingPassed, WorkInOrder, DoneInOrder, Scope
<1>4. CASE Update(Changed)
  <2>1. todo' = Changed /\ working' = {} /\ op' = "update"
    BY <1>2, <1>4 DEF Update, Operate
  <2>2. NothingPassed'
    BY <1>1, <2>1, ChangedFirst DEF NothingPassed
  <2> QED
    BY <1>1, <2>1, <2>2 DEF OrderInv, WorkInOrder, DoneInOrder, Scope
<1>5. CASE op' \in Backward
  BY <1>5 DEF OrderInv, NothingPassed, WorkInOrder, DoneInOrder, Forward, Backward
<1>6. CASE op' = op /\ op' \in Forward /\ Start(Quick)
  <2> DEFINE done == Startable \cap Quick
  <2>1. todo' = todo \ done /\ working' \subseteq working \cup Startable
    BY <1>6 DEF Start
  <2>2. \A r \in Startable, q \in todo : ~Precedes(q, r)
    BY <1>6, StartInOrder DEF OrderInv
  <2> HIDE DEF done
  <2>3. done \subseteq Startable
    BY DEF done
  <2>4. NothingPassed'
    BY <1>1, <1>6, <2>1, <2>2, <2>3 DEF OrderInv, NothingPassed
  <2>5. WorkInOrder'
    BY <1>1, <1>6, <2>1, <2>2 DEF OrderInv, WorkInOrder
  <2>6. DoneInOrder'
    BY <1>1, <1>6, <2>1, <2>2, <2>3 DEF OrderInv, DoneInOrder, Scope
  <2> QED
    BY <2>4, <2>5, <2>6 DEF OrderInv
<1>7. ASSUME op' = op, op' \in Forward, NEW r0 \in working, Succeed(r0)
      PROVE  OrderInv'
  <2>1. todo' = todo \ {r0} /\ working' \subseteq working
    BY <1>7 DEF Succeed
  <2>2. \A q \in todo : ~Precedes(q, r0)
    BY <1>7 DEF OrderInv, WorkInOrder
  <2>3. NothingPassed'
    BY <1>1, <1>7, <2>1, <2>2 DEF OrderInv, NothingPassed
  <2>4. WorkInOrder'
    BY <1>1, <1>7, <2>1 DEF OrderInv, WorkInOrder
  <2>5. DoneInOrder'
    BY <1>1, <1>7, <2>1, <2>2 DEF OrderInv, DoneInOrder, Scope
  <2> QED
    BY <2>3, <2>4, <2>5 DEF OrderInv
<1>8. ASSUME NEW r0 \in working, FailUpdate(r0, Changed)
      PROVE  OrderInv'
  <2>1. op = "update" /\ op' = "rollback" /\ todo' = Changed \ (todo \ working) /\ working' = {}
    BY <1>8 DEF FailUpdate
  <2>2. NothingPassed'
    <3> SUFFICES ASSUME NEW r \in Changed \ (todo \ working), NEW m \in Resources \ (Changed \ (todo \ working)),
                        Precedes(m, r)
                 PROVE  FALSE
      BY <1>1, <2>1 DEF NothingPassed
    <3>1. m \in todo
      BY ChangedFirst
    <3>2. r \notin Changed \ todo
      BY <2>1, <3>1 DEF OrderInv, DoneInOrder, Scope
    <3>3. r \notin working
      BY <2>1, <3>1 DEF OrderInv, WorkInOrder, Forward
    <3> QED
      BY <3>2, <3>3
  <2> QED
    BY <2>1, <2>2 DEF OrderInv, WorkInOrder, DoneInOrder
<1>9. CASE op' = op /\ todo' = {} /\ working' = {}
  BY <1>9 DEF OrderInv, NothingPassed, WorkInOrder, DoneInOrder
<1>10. CASE UNCHANGED engine
  BY <1>1, <1>10 DEF engine, OrderInv, NothingPassed, WorkInOrder, DoneInOrder, Scope
<1>11. op \in {"none"} \cup Forward \cup Backward
  BY DEF SoundInv, StackInv, Inv, EngineTypeOK
<1>12. CASE Delete
  BY <1>5, <1>12 DEF Delete, Operate, Backward
<1>13. CASE Finish
  BY <1>9, <1>13 DEF Finish
<1>14. CASE op' = "none"
  BY <1>14 DEF OrderInv, NothingPassed, WorkInOrder, DoneInOrder, Forward
<1>15. CASE Start(Quick)
  BY <1>5, <1>6, <1>11, <1>14, <1>15 DEF Start
<1>16. ASSUME NEW r0 \in working, Succeed(r0) PROVE OrderInv'
  BY <1>5, <1>7, <1>11, <1>14, <1>16 DEF Succeed
<1>17. ASSUME NEW r0 \in working, FailCreate(r0) \/ FailDelete(r0) PROVE OrderInv'
  BY <1>5, <1>17 DEF FailCreate, FailDelete, Backward
<1> QED
  BY <1>3, <1>4, <1>8, <1>10, <1>12, <1>13, <1>15, <1>16, <1>17, RolloutStep

LEMMA OrderInit == Init => OrderInv
BY DEF Init, EngineInit, OrderInv, NothingPassed, WorkInOrder, DoneInOrder, Forward

THEOREM OrderInvariant == Spec => [](SoundInv /\ OrderInv)
<1>1. Init => SoundInv /\ OrderInv
  BY SoundInit, OrderInit
<1>2. SoundInv /\ OrderInv /\ [Next]_vars => (SoundInv /\ OrderInv)'
  BY SoundStep, OrderStep
<1> QED
  BY <1>1, <1>2, PTL DEF Spec

LEMMA StageType ==
  ASSUME Sound, NEW r, In(r)
  PROVE  Stage(r) \in 0..6
BY Ec2Stage, EksStage

(* A group is one of a tier or that of the masters, and there are groups   *)
(* on EC2 only.                                                            *)
LEMMA Groups ==
  ASSUME Sound, NEW r, In(r), Is(r, {"group"})
  PROVE  /\ c.platform = "ec2"
         /\ \/ \E f \in Tiered : \E i \in Tiers(c, f) : r = Group(i) /\ Family(r[2]) = f
            \/ r = MasterGroup /\ Family(r[2]) = "master"
<1>1. r[1] = "group" /\ r[1] \in Ordered
  BY DEF Is, Ordered
<1>2. c.platform = "ec2"
  BY <1>1, EksStage
<1>3. \A i \in 1..c.zookeeper : r # Zk(i)
  BY <1>1, ServerKind
<1>4. Family("master") = "master" /\ MasterGroup[2] = "master"
  BY <1>2, Ec2Stage DEF MasterGroup
<1> QED
  BY <1>1, <1>2, <1>3, <1>4, Ec2Nodes, GroupKind

(* Every rollout of every cluster keeps the order: the servers, the data   *)
(* nodes, historicals first, the query nodes, the masters, the operator,   *)
(* the manifests, each after its image.                                    *)
THEOREM RolloutsOrdered == Spec => []RolloutOrder
<1>1. SoundInv /\ OrderInv => RolloutOrder
  <2> SUFFICES ASSUME SoundInv, OrderInv, op \in Forward, NEW r \in working, NEW q \in todo
               PROVE  /\ ~(0 < Stage(q) /\ Stage(q) < Stage(r))
                      /\ ~(/\ Is(q, {"group"}) /\ Family(q[2]) = "historical"
                           /\ Is(r, {"group"}) /\ Family(r[2]) = "middleManager")
                      /\ q = <<"asset", "zookeeperImage", 0>> => Stage(r) = 0
                      /\ q = <<"asset", "druidImage", 0>> => Stage(r) < 2
    BY DEF RolloutOrder
  <2>1. ~Precedes(q, r)
    BY DEF OrderInv, WorkInOrder
  <2>2. In(q) /\ In(r) /\ Sound
    BY TemplateOf DEF SoundInv, StackInv, Inv, Whole, EngineTypeOK
  <2>3. ~(0 < Stage(q) /\ Stage(q) < Stage(r))
    BY <2>1 DEF Precedes
  <2>4. q = <<"asset", "zookeeperImage", 0>> => Stage(r) = 0
    BY <2>1 DEF Precedes, Image
  <2>5. q = <<"asset", "druidImage", 0>> => Stage(r) < 2
    <3>1. q = <<"asset", "druidImage", 0>> => ~(Stage(r) >= 2)
      BY <2>1 DEF Precedes, Image
    <3> QED
      BY <2>2, <3>1, StageType
  <2>6. ASSUME Is(q, {"group"}), Family(q[2]) = "historical", Is(r, {"group"}), Family(r[2]) = "middleManager"
        PROVE  FALSE
    <3>1. \E i \in Tiers(c, "historical") : q = Group(i)
      BY <2>2, <2>6, Groups
    <3>2. \E j \in Tiers(c, "middleManager") : r = Group(j)
      BY <2>2, <2>6, Groups
    <3> QED
      BY <2>1, <3>1, <3>2 DEF Precedes
  <2> QED
    BY <2>3, <2>4, <2>5, <2>6
<1> QED
  BY <1>1, OrderInvariant, PTL

(* ----------------------------------------------------------- The quorum *)

LEMMA AllButOne ==
  ASSUME NEW n \in Nat, n >= 1, NEW k
  PROVE  IsFiniteSet(1..n) /\ Cardinality((1..n) \ {k}) \in Nat /\ Cardinality((1..n) \ {k}) >= n - 1
<1>1. IsFiniteSet(1..n) /\ Cardinality(1..n) = n - 1 + 1
  <2>1. 1 \in Int /\ n \in Int /\ ~(1 > n)
    OBVIOUS
  <2> QED
    BY <2>1, FS_Interval
<1>2. Cardinality(1..n) = n
  BY <1>1
<1>3. Cardinality((1..n) \ {k}) = IF k \in 1..n THEN n - 1 ELSE n
  BY <1>1, <1>2, FS_RemoveElement
<1> QED
  BY <1>1, <1>3

(* If all the servers are ready, or all but one, most of them are.         *)
LEMMA MostReady ==
  ASSUME SoundInv, c.platform = "ec2", NEW k,
         \A i \in 1..c.zookeeper : i # k => Zk(i) \in ready
  PROVE  2 * Cardinality({r \in ready : r[1] = "zk"}) > c.zookeeper
<1> DEFINE n == c.zookeeper
           up == {i \in 1..n : Zk(i) \in ready}
           servers == {r \in ready : r[1] = "zk"}
           server == [i \in up |-> Zk(i)]
<1>1. n \in Nat /\ n >= 3
  BY Ensemble DEF SoundInv
<1>2. \A r \in servers : \E i \in up : r = Zk(i)
  <2> SUFFICES ASSUME NEW r \in servers PROVE \E i \in up : r = Zk(i)
    OBVIOUS
  <2>1. In(r) /\ r[1] = "zk" /\ r[1] \in Ordered /\ Sound
    BY TemplateOf DEF SoundInv, StackInv, Inv, EngineTypeOK, Present, Ordered
  <2>2. r # MasterGroup /\ \A f : \A i \in Tiers(c, f) : r # Group(i)
    BY <2>1, GroupKind DEF MasterGroup
  <2> QED
    BY <2>1, <2>2, Ec2Nodes DEF Tiered
<1>3. \A i \in up : Zk(i) \in servers
  BY ServerKind
<1>4. IsFiniteSet(1..n) /\ Cardinality((1..n) \ {k}) \in Nat /\ Cardinality((1..n) \ {k}) >= n - 1
  <2>1. \A m \in Nat : m >= 3 => /\ IsFiniteSet(1..m) /\ Cardinality((1..m) \ {k}) \in Nat
                                  /\ Cardinality((1..m) \ {k}) >= m - 1
    <3> SUFFICES ASSUME NEW m \in Nat, m >= 3
                 PROVE  /\ IsFiniteSet(1..m) /\ Cardinality((1..m) \ {k}) \in Nat
                        /\ Cardinality((1..m) \ {k}) >= m - 1
      OBVIOUS
    <3>1. m >= 1
      OBVIOUS
    <3> QED
      BY <3>1, AllButOne
  <2> QED
    BY <1>1, <2>1
<1>5. up \subseteq 1..n /\ (1..n) \ {k} \subseteq up
  OBVIOUS
<1> HIDE DEF servers, up
<1>6. server \in Bijection(up, servers)
  <2>1. server \in [up -> servers]
    BY <1>3
  <2>2. \A i, j \in up : server[i] = server[j] => i = j
    BY ServersDiffer
  <2>3. \A r \in servers : \E i \in up : server[i] = r
    BY <1>2
  <2> HIDE DEF server
  <2> QED
    BY <2>1, <2>2, <2>3 DEF Bijection, Injection, Surjection, IsInjective
<1>7. IsFiniteSet(up) /\ Cardinality(up) \in Nat
  BY <1>4, <1>5, FS_Subset, FS_CardinalityType
<1>8. Cardinality(servers) = Cardinality(up)
  BY <1>6, <1>7, FS_Bijection DEF ExistsBijection
<1>9. Cardinality((1..n) \ {k}) <= Cardinality(up)
  BY <1>5, <1>7, FS_Subset
<1>10. \A m, x, y \in Nat : m >= 3 /\ x >= m - 1 /\ x <= y => 2 * y > m
  OBVIOUS
<1>11. 2 * Cardinality(up) > n
  BY <1>1, <1>4, <1>7, <1>9, <1>10
<1> QED
  BY <1>8, <1>11 DEF servers

(* What a group that exists says of the servers.                           *)
LEMMA GroupsNeedServers ==
  ASSUME SoundInv, NEW r \in Present, Is(r, {"group"})
  PROVE  /\ c.platform = "ec2" /\ Stage(r) >= 2
         /\ \E f \in Data : \E i \in Tiers(c, f) : Group(i) \in Present
<1>1. In(r) /\ Sound /\ Grounded
  BY TemplateOf DEF SoundInv, StackInv, Inv, EngineTypeOK
<1>2. c.platform = "ec2"
  BY <1>1, Groups
<1>3. PICK f \in Data : \E i \in Tiers(c, f) : TRUE
  BY <1>1, <1>2, Ec2Stage
<1>4. PICK i \in Tiers(c, f) : TRUE
  BY <1>3
<1>5. \A q, m : q \in Present /\ m \in Template[q] => m \in Present
  BY <1>1, TemplateOf DEF Grounded
<1>6. ASSUME NEW j \in Tiers(c, "query"), Group(j) \in Present
      PROVE  Group(i) \in Present
  <2>1. DataAsgs(c) \subseteq Template[Group(j)]
    BY <1>1, <1>2, TierNeeds DEF Tiered
  <2>2. Group(i) \in DataAsgs(c)
    BY DEF DataAsgs, Asgs, Group, Data
  <2> QED
    BY <1>5, <1>6, <2>1, <2>2
<1>7. CASE \E g \in Tiered : \E j \in Tiers(c, g) : r = Group(j)
  <2>1. PICK g \in Tiered : \E j \in Tiers(c, g) : r = Group(j)
    BY <1>7
  <2>2. CASE g \in Data
    <3>1. Stage(r) = 2
      BY <1>1, <2>1, <2>2, Stages
    <3> QED
      BY <1>2, <2>1, <2>2, <3>1
  <2>3. CASE g = "query"
    <3>1. Stage(r) = 3
      BY <1>1, <2>1, <2>3, Stages
    <3> QED
      BY <1>2, <1>6, <2>1, <2>3, <3>1
  <2> QED
    BY <2>1, <2>2, <2>3 DEF Tiered, Data
<1>8. CASE r = MasterGroup
  <2>1. PICK j \in Tiers(c, "query") : TRUE
    BY <1>1, <1>2, Ec2Stage
  <2>2. Group(j) \in Present
    BY <1>1, <1>2, <1>5, <1>8, MasterNeeds
  <2>3. Stage(r) = 4
    BY <1>1, <1>2, <1>8, Ec2Stage, Stages
  <2> QED
    BY <1>2, <1>6, <2>2, <2>3
<1> QED
  BY <1>1, <1>7, <1>8, Groups

LEMMA BackwardServers ==
  ASSUME SoundInv, op \in Backward, NEW r \in Present, Is(r, {"group"}), NEW i \in 1..c.zookeeper
  PROVE  Zk(i) \in ready
<1> DEFINE down == {k \in 1..c.zookeeper : Zk(k) \notin ready}
<1>1. Sound /\ c.platform = "ec2" /\ c.zookeeper \in Nat
  BY GroupsNeedServers, Ensemble DEF SoundInv
<1>2. \A q, m : In(q) /\ q \in Present /\ m \in Template[q] => m \in ready
  <2> SUFFICES ASSUME NEW q, NEW m, In(q), q \in Present, m \in Template[q], m \notin ready PROVE FALSE
    OBVIOUS
  <2>1. q \in Resources /\ m \in needs[q]
    BY TemplateOf
  <2>2. m \in Resources /\ q \in users[m]
    BY <2>1, UsersOf DEF SoundInv, StackInv, Inv
  <2> QED
    BY <2>2 DEF SoundInv, StackInv, Inv, UsersFirst
<1>3. Zk(c.zookeeper) \in ready
  <2>1. PICK f \in Data : \E j \in Tiers(c, f) : Group(j) \in Present
    BY GroupsNeedServers
  <2>2. PICK j \in Tiers(c, f) : Group(j) \in Present
    BY <2>1
  <2>3. In(Group(j)) /\ Zk(c.zookeeper) \in Template[Group(j)]
    BY <1>1, TierNeeds DEF Tiered, Data
  <2> QED
    BY <1>2, <2>2, <2>3
<1>4. ASSUME down # {}
      PROVE  FALSE
  <2>1. PICK k \in down : Latest(down) = {k}
    BY <1>1, <1>4, LatestExists
  <2>2. \A j \in down : j <= k
    BY <2>1 DEF Latest
  <2>3. k \in 1..c.zookeeper /\ Zk(k) \notin ready /\ k # c.zookeeper
    BY <1>3
  <2>4. k + 1 \in 1..c.zookeeper /\ k + 1 - 1 = k /\ k + 1 > 1 /\ ~(k + 1 <= k)
    BY <1>1, <2>3
  <2>5. k + 1 \notin down
    BY <2>2, <2>4
  <2>6. Zk(k + 1) \in ready
    BY <2>4, <2>5
  <2>7. In(Zk(k + 1)) /\ Zk(k + 1 - 1) \in Template[Zk(k + 1)]
    BY <1>1, <2>4, ServerNeeds
  <2>8. Zk(k) \in Template[Zk(k + 1)]
    BY <2>4, <2>7
  <2> QED
    BY <1>2, <2>3, <2>6, <2>7, <2>8 DEF Present
<1> QED
  BY <1>4

LEMMA CreateServers ==
  ASSUME SoundInv, OrderInv, op = "create", NEW r \in Present, Is(r, {"group"}), NEW i \in 1..c.zookeeper
  PROVE  Zk(i) \in ready
<1>1. Sound /\ In(r) /\ In(Zk(i)) /\ c.platform = "ec2" /\ Stage(r) >= 2
  BY GroupsNeedServers, ServerNeeds, TemplateOf DEF SoundInv, StackInv, Inv, EngineTypeOK
<1>2. needs[r] \cap todo = {}
  BY DEF SoundInv, StackInv, Inv, Whole, NeedsFirst, Present, Forward
<1>3. Precedes(Zk(i), r)
  <2>1. Stage(Zk(i)) = 1 /\ Stage(r) \in 0..6
    BY <1>1, Stages, StageType
  <2> QED
    BY <1>1, <2>1 DEF Precedes
<1>4. PICK m : Leads(Zk(i), m, r)
  BY <1>1, <1>3, Path
<1>5. m \in Resources \ todo /\ (m = Zk(i) \/ Precedes(Zk(i), m))
  BY <1>1, <1>2, <1>4, TemplateOf, UsersOf DEF Leads, SoundInv, StackInv, Inv
<1>6. Zk(i) \notin todo
  BY <1>5 DEF OrderInv, DoneInOrder, Scope
<1> QED
  BY <1>1, <1>6, TemplateOf DEF SoundInv, StackInv, Inv, NeedsFirst, Forward

(* While an update replaces a server all the others are up.                *)
LEMMA UpdateServers ==
  ASSUME SoundInv, OrderInv, op = "update", c.platform = "ec2",
         NEW i \in 1..c.zookeeper, NEW j \in 1..c.zookeeper, i # j, Zk(i) \notin ready
  PROVE  Zk(j) \in ready
<1>1. SUFFICES ASSUME Zk(j) \notin ready PROVE FALSE
  OBVIOUS
<1>2. Zk(i) \in Resources /\ Zk(j) \in Resources
  BY ServerNeeds, TemplateOf DEF SoundInv
<1>3. Zk(i) \in working /\ Zk(j) \in working /\ working \subseteq todo
  BY <1>1, <1>2 DEF SoundInv, StackInv, Inv, Whole, Present
<1>4. i < j \/ j < i
  BY Ensemble DEF SoundInv
<1>5. Precedes(Zk(i), Zk(j)) \/ Precedes(Zk(j), Zk(i))
  BY <1>4 DEF Precedes
<1> QED
  BY <1>3, <1>5 DEF OrderInv, WorkInOrder, Forward

(* As long as there is a Druid node most of the servers of the ensemble    *)
(* are up: when the cluster is created, in every update, failed or not,    *)
(* and when the cluster is taken down.                                     *)
THEOREM EnsembleAvailable == Spec => []QuorumKept
<1>1. SoundInv /\ OrderInv => QuorumKept
  <2> SUFFICES ASSUME SoundInv, OrderInv, op # "rollback", NEW r \in Present, Is(r, {"group"})
               PROVE  2 * Cardinality({q \in ready : q[1] = "zk"}) > c.zookeeper
    BY DEF QuorumKept
  <2>1. c.platform = "ec2"
    BY GroupsNeedServers
  <2>2. op \in {"create", "update"} \cup Backward
    BY DEF SoundInv, StackInv, Inv, EngineTypeOK, Whole, Forward
  <2>3. \E k : \A i \in 1..c.zookeeper : i # k => Zk(i) \in ready
    <3>1. CASE op \in Backward
      BY <3>1, BackwardServers
    <3>2. CASE op = "create"
      BY <3>2, CreateServers
    <3>3. CASE op = "update"
      BY <2>1, <3>3, UpdateServers
    <3> QED
      BY <2>2, <3>1, <3>2, <3>3
  <2> QED
    BY <2>1, <2>3, MostReady
<1> QED
  BY <1>1, OrderInvariant, PTL

(* --------------------------------------------------------- The processes *)

Processes == {"coordinator", "overlord", "broker", "router", "historical", "middleManager"}

LEMMA Ec2Runs ==
  ASSUME Sound, c.platform = "ec2", NEW p \in Processes
  PROVE  \E r : In(r) /\ Runs(r, p)
<1>1. Family("master") = "master" /\ \E i \in Tiers(c, "query") : TRUE
  <2>1. Key(c, "master") /\ Key(c, "query")
    BY DEF Sound, Accepts, Schema, Ec2Schema
  <2> QED
    BY <2>1, PlainKey DEF PlainFamilies
<1>2. /\ \E f \in {"data", "historical"} : \E i \in Tiers(c, f) : TRUE
      /\ \E f \in {"data", "middleManager"} : \E i \in Tiers(c, f) : TRUE
  <2>1. (Key(c, "data") \/ Key(c, "middleManager")) /\ (Key(c, "data") \/ Key(c, "historical"))
    BY DEF Sound, Accepts, Ec2Accepts
  <2> QED
    BY <2>1, PlainKey DEF PlainFamilies
<1>3. ASSUME NEW f \in Tiered, NEW i \in Tiers(c, f)
      PROVE  In(Group(i)) /\ Is(Group(i), {"group", "nodes"}) /\ Family(Group(i)[2]) = f
  BY TierNeeds, GroupKind DEF Is
<1>4. CASE p \in {"coordinator", "overlord"}
  <2>1. In(MasterGroup) /\ Is(MasterGroup, {"group", "nodes"}) /\ Family(MasterGroup[2]) = "master"
    BY <1>1, MasterNeeds DEF MasterGroup, Is
  <2> QED
    BY <1>4, <2>1 DEF Runs
<1>5. CASE p \in {"broker", "router"}
  <2>1. PICK i \in Tiers(c, "query") : TRUE
    BY <1>1
  <2>2. In(Group(i)) /\ Is(Group(i), {"group", "nodes"}) /\ Family(Group(i)[2]) = "query"
    BY <1>3 DEF Tiered
  <2> QED
    BY <1>5, <2>2 DEF Runs
<1>6. CASE p \in {"historical", "middleManager"}
  <2>1. PICK f \in {"data", p} : \E i \in Tiers(c, f) : TRUE
    BY <1>2, <1>6
  <2>2. PICK i \in Tiers(c, f) : TRUE
    BY <2>1
  <2>3. In(Group(i)) /\ Is(Group(i), {"group", "nodes"}) /\ Family(Group(i)[2]) \in {"data", p}
    BY <1>3, <1>6, <2>1, <2>2 DEF Tiered
  <2> QED
    BY <1>6, <2>3 DEF Runs
<1> QED
  BY <1>4, <1>5, <1>6 DEF Processes

LEMMA EksRuns ==
  ASSUME Sound, c.platform # "ec2", NEW p \in Processes
  PROVE  \E r : In(r) /\ Runs(r, p)
<1>1. c.capacity \in {"fargate", "ec2"}
  BY DEF Sound, Accepts, Schema, EksSchema, ProgramAccepts
<1>2. CASE c.capacity = "fargate"
  <2>1. {"historical", "middleManager", "coordinator", "overlord", "router", "broker"}
          \subseteq {c.groups[i].name : i \in DOMAIN c.groups}
    BY <1>2 DEF Sound, Accepts, ProgramAccepts, EksAccepts, FargateShape
  <2>2. Key(c, p)
    BY <2>1 DEF Key, Processes
  <2> QED
    BY <1>2, <2>2, OtherNodeNeeds DEF Runs
<1>3. CASE c.capacity = "ec2"
  <2>1. OnNodes /\ Key(c, "master") /\ Key(c, "query") /\ Key(c, "data")
    BY <1>3 DEF OnNodes, Sound, Accepts, ProgramAccepts, EksAccepts, NodeGroupShape
  <2>2. Family("master") = "master" /\ Family("query") = "query" /\ Family("data") = "data"
    BY <2>1, PlainKey DEF PlainFamilies
  <2>3. PICK i \in Tiers(c, "data") : TRUE
    BY <2>1, PlainKey DEF PlainFamilies
  <2>4. 1 \in 1..c.zones
    BY DEF Sound, WellFormed
  <2>5. In(MasterNodes) /\ In(QueryNodes) /\ In(DataNode(i, 1))
    BY <2>1, <2>3, <2>4, OtherNodeNeeds, DataNodeNeeds
  <2>6. /\ Is(MasterNodes, {"group", "nodes"}) /\ Family(MasterNodes[2]) = "master"
        /\ Is(QueryNodes, {"group", "nodes"}) /\ Family(QueryNodes[2]) = "query"
        /\ Is(DataNode(i, 1), {"group", "nodes"}) /\ Family(DataNode(i, 1)[2]) = "data"
    <3>1. i \in DOMAIN c.groups /\ c.groups[i].family = "data"
      BY Positions
    <3> QED
      BY <2>2, <3>1, FamilyOf DEF MasterNodes, QueryNodes, DataNode, Nodes, Is
  <2>7. CASE p \in {"coordinator", "overlord"}
    BY <2>5, <2>6, <2>7 DEF Runs
  <2>8. CASE p \in {"broker", "router"}
    BY <2>5, <2>6, <2>8 DEF Runs
  <2>9. CASE p \in {"historical", "middleManager"}
    BY <2>5, <2>6, <2>9 DEF Runs
  <2> QED
    BY <2>7, <2>8, <2>9 DEF Processes
<1> QED
  BY <1>1, <1>2, <1>3

(* A configuration that passes the checks makes a cluster with every Druid *)
(* process, on both platforms and in all three forms.                      *)
THEOREM ClustersComplete == Spec => []ServiceComplete
<1>1. SoundInv => ServiceComplete
  <2> SUFFICES ASSUME SoundInv, ~running, op \in {"create", "update"}, NEW p \in Processes
               PROVE  \E r \in ready : Runs(r, p)
    BY DEF ServiceComplete, Processes
  <2>1. Resources \subseteq ready
    BY DEF SoundInv, StackInv, Inv, Whole, NeedsFirst, Forward
  <2>2. \E r : In(r) /\ Runs(r, p)
    BY Ec2Runs, EksRuns DEF SoundInv
  <2> QED
    BY <2>1, <2>2, TemplateOf
<1> QED
  BY <1>1, OrderInvariant, PTL
=============================================================================
