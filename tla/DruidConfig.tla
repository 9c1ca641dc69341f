---------------------------- MODULE DruidConfig ----------------------------
(* The configuration of a cluster and what it has to satisfy before there  *)
(* is a template: the schema (configScheme.ts), the checks of the program  *)
(* (druid-infra.ts), those of the stacks.  A configuration is a record; of *)
(* texts it keeps what is decided on.                                      *)
EXTENDS Naturals, Sequences

InSeq(s, P(_)) == \A i \in DOMAIN s : P(s[i])

(* The keys of the groups are kept in their order: family, tier and the    *)
(* whole key.  Only a word suffix makes a tier; the schema admits others.  *)
Key(c, name) == \E i \in DOMAIN c.groups : c.groups[i].name = name
Tiers(c, family) == {i \in DOMAIN c.groups : c.groups[i].family = family /\ c.groups[i].word}

(* The last of some positions, if there is one, and the one before i.      *)
Latest(s) == {i \in s : \A j \in s : j <= i}
Before(s, i) == Latest({j \in s : j < i})

PlainFamilies ==
  {"data", "historical", "middleManager", "query", "master", "coordinator", "overlord", "router", "broker"}

(* What an object read from cdk.json is in any case: its keys differ, the  *)
(* matching of a key without a suffix yields its own family, and the key   *)
(* of ZooKeeper is none of a group.                                        *)
WellFormed(c) ==
  /\ c.groups \in Seq({c.groups[i] : i \in DOMAIN c.groups})
  /\ \A i, j \in DOMAIN c.groups : c.groups[i].name = c.groups[j].name => i = j
  /\ \A i \in DOMAIN c.groups :
       c.groups[i].name \in PlainFamilies => c.groups[i].family = c.groups[i].name /\ c.groups[i].word
  /\ ~Key(c, "zookeeper")
  /\ c.zookeeper \in Nat /\ c.zones \in Nat \ {0}

InstanceConfig(g) == g.min >= 1 /\ g.max >= 1

(* druidEc2Config: exactly one of the two multiples.                       *)
Ec2Schema(c) ==
  /\ (c.zookeeper % 5 = 0) # (c.zookeeper % 3 = 0)
  /\ Key(c, "master") /\ Key(c, "query")
  /\ InSeq(c.groups, LAMBDA g : /\ g.family \in {"data", "historical", "middleManager", "query", "master"}
                                /\ g.family = "master" => g.name = "master"
                                /\ InstanceConfig(g))

(* capacityProviderConfig: one of two shapes, neither tied to the type.    *)
FargateShape(c) ==
  /\ {"historical", "middleManager", "coordinator", "overlord", "router", "broker"}
       \subseteq {c.groups[i].name : i \in DOMAIN c.groups}
  /\ c.zookeeper >= 1
  /\ InSeq(c.groups, LAMBDA g : g.family \notin {"master", "query", "data"} => InstanceConfig(g))

NodeGroupShape(c) ==
  /\ \A k \in {"master", "query", "data"} : Key(c, k)
  /\ c.zookeeper >= 1
  /\ InSeq(c.groups, LAMBDA g : g.family \in {"master", "query", "data"} => InstanceConfig(g))

EksSchema(c) ==
  /\ c.clusterMasterPrincipal
  /\ c.capacity \in {"fargate", "ec2"}
  /\ FargateShape(c) # NodeGroupShape(c)

StoreSchema(c) ==
  /\ c.store.type \in {"default", "aurora", "aurora_serverless", "custom"}
  /\ c.store.instances >= 1
  /\ c.store.backupDays \in 1..365

RuleTypes ==
  {"loadByPeriod", "loadForever", "loadByInterval", "dropByInterval", "dropForever", "dropByPeriod",
   "dropBeforeByPeriod", "broadcastForever", "broadcastByPeriod", "broadcastByInterval"}

AccessSchema(c) ==
  /\ c.emitter \in {"default", "statsd", "cloudwatch"}
  /\ c.rules \subseteq RuleTypes
  /\ c.oidc # {} => {"clientId", "clientSecretArn", "discoveryURI"} \subseteq c.oidc

(* The section of the platform is looked at; without it nothing starts.    *)
Schema(c) ==
  /\ c.platform \in {"ec2", "ecs", "eks"}
  /\ c.platform = "ec2" => Ec2Schema(c)
  /\ c.platform = "eks" => EksSchema(c)
  /\ StoreSchema(c) /\ AccessSchema(c)
  /\ c.concurrentQueryLimit >= 1

(* The program: Route 53 is used when both of its parameters are given.    *)
Zone(c) == c.zone = {"id", "name"}
Destroyed(c) == ~c.retainData

ProgramAccepts(c) ==
  /\ c.platform \in {"ec2", "eks"}
  /\ c.emitter = "statsd" => "statsd-emitter" \in c.extensions
  /\ c.fips => c.fipsRegion
  /\ c.platform = "ec2" => c.built

(* DruidStack: the imported certificate takes the identifier of the own    *)
(* one, so a stack cannot have both.                                       *)
StackAccepts(c) ==
  /\ Zone(c) \/ c.tlsCertificate => c.domain
  /\ ~(Zone(c) /\ c.tlsCertificate)

CronsDiffer(c) ==
  /\ InSeq(c.crons, LAMBDA s : s.valid)
  /\ \A i, j \in DOMAIN c.crons : c.crons[i].at = c.crons[j].at => i = j

(* Mutation: historical processes are not asked for.                       *)
Ec2AcceptsHalf(c) == CronsDiffer(c) /\ (Key(c, "data") \/ Key(c, "middleManager"))

(* DruidEc2Stack: data processes of both kinds, cron expressions that are  *)
(* valid and all different.                                                *)
Ec2Accepts(c) ==
  /\ Key(c, "data") \/ Key(c, "middleManager")
  /\ Key(c, "data") \/ Key(c, "historical")
  /\ CronsDiffer(c)

(* DruidEksStack and DruidEks: no rules, no roles; data nodes are spread   *)
(* evenly over the zones.                                                  *)
EksAccepts(c) ==
  /\ c.rules = {} /\ "groupRoleMappings" \notin c.oidc
  /\ c.capacity = "ec2" => \A i \in Tiers(c, "data") : c.groups[i].min % c.zones = 0
  /\ c.capacity = "ec2" => NodeGroupShape(c)
  /\ c.capacity = "fargate" => FargateShape(c)

Accepts(c) ==
  /\ Schema(c) /\ ProgramAccepts(c) /\ StackAccepts(c)
  /\ c.platform = "ec2" => Ec2Accepts(c)
  /\ c.platform = "eks" => EksAccepts(c)
=============================================================================
