---------------------------- MODULE EksTemplate ----------------------------
(* The template of a cluster on EKS: druidEksStack.ts, druidEksBase.ts and *)
(* its two forms, managed node groups (druidEks.ts) and Fargate            *)
(* (druidEksFargate.ts).                                                   *)
EXTENDS StackTemplate

Nodes(name, zone) == <<"nodes", name, zone>>

(* What both forms have: the operator's chart and the manifests of the     *)
(* Druid cluster, which name the store, the bucket, the ACL, the           *)
(* certificate.                                                            *)
EksBase(c) ==
  Part("cluster", Rs({"vpc"}))
  \cup Part("albController", Rs({"cluster"}))
  \cup Part("druidAccount", Rs({"cluster", "deepBucket", "deepKey", "secrets"}))
  \cup If(Zone(c), Part("externalDns", Rs({"cluster"})))
  \cup MetadataStore(c, "cluster")
  \cup Part("zkChart", Rs({"cluster"}))
  \cup Part("manifest", Rs({"operator", "cluster", "deepBucket", "deepKey", "webAcl", "certificate"})
                         \cup StoreParts(c))

(* External secrets: the two manifests wait for the chart, not for one     *)
(* another.                                                                *)
DruidSecrets ==
  Part("secretsChart", Rs({"cluster"}))
  \cup Part("secretsAccount", Rs({"cluster", "secrets"}))
  \cup Part("secretStore", Rs({"cluster", "secretsChart", "secretsAccount"}))
  \cup Part("externalSecret", Rs({"cluster", "secretsChart", "secrets"}))

(* The data nodes zone by zone, tier by tier: one chain.                   *)
DataNodes(c) ==
  LET tiers == Tiers(c, "data")
      at(i, z) == Nodes(c.groups[i].name, z)
      before(i, z) == IF z > 1 THEN {at(i, z - 1)} ELSE {at(j, c.zones) : j \in Before(tiers, i)}
  IN {<<at(i, z), Rs({"cluster"}) \cup before(i, z)>> : i \in tiers, z \in 1..c.zones}

LastDataNodes(c) == {Nodes(c.groups[i].name, c.zones) : i \in Latest(Tiers(c, "data"))}

AddOns ==
  Part("ebsAccount", Rs({"cluster"}))
  \cup Part("ebsAddon", Rs({"cluster", "ebsAccount"}))
  \cup Part("storageClass", Rs({"cluster"}))
  \cup Part("namespace", Rs({"cluster"}))
  \cup Part("agentAccounts", Rs({"cluster", "namespace"}))
  \cup Part("agents", Rs({"cluster", "namespace"}))

NodeGroups(c) ==
  AddOns \cup DataNodes(c)
  \cup {<<Nodes("zookeeper", 0), Rs({"cluster"})>>}
  \cup {<<Nodes("query", 0), Rs({"cluster"}) \cup LastDataNodes(c)>>}
  \cup {<<Nodes("master", 0), Rs({"cluster"}) \cup {Nodes("query", 0)}>>}
  \cup Part("operator", Rs({"cluster"}) \cup {Nodes("master", 0)})

(* Every tier gets as many volumes as the tier without a name has nodes.   *)
VolumesOf(c, g) ==
  LET plain == CHOOSE p \in {c.groups[i] : i \in DOMAIN c.groups} : p.name = g.family
  IN {<<"volume", g.name, i>> : i \in 1..plain.min}

FargateVolumes(c) ==
  LET tiers == Tiers(c, "historical") \cup Tiers(c, "middleManager") IN
  Part("efs", Rs({"vpc", "cluster"}))
  \cup Part("storageClass", Rs({"cluster"}))
  \cup {<<v, Rs({"efs", "cluster"})>> : v \in UNION {VolumesOf(c, c.groups[i]) : i \in tiers}}

Fargate(c) ==
  Part("namespace", Rs({"cluster"}))
  \cup Part("logging", Rs({"cluster", "namespace"}))
  \cup Part("secretsProfile", Rs({"cluster"}))
  \cup FargateVolumes(c)
  \cup Part("operator", Rs({"cluster"}))

(* The clean-up is to delete the load balancer first, when the stack is    *)
(* deleted; nothing orders it against the manifests or the controller.     *)
EksTemplate(c) ==
  DruidStack(c) \cup EksBase(c) \cup DruidSecrets
  \cup (IF c.capacity = "ec2" THEN NodeGroups(c) ELSE Fargate(c))
  \cup If(c.domain, Canary(c))
  \cup Metrics
  \cup Part("cleanup", Rs({"cluster", "webAcl", "certificate"}))
  \cup Part("dashboard", Rs({"cluster", "store", "deepBucket"}))
  \cup Part("alarms", Rs({"cluster", "store"}))
=============================================================================
