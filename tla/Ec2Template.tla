---------------------------- MODULE Ec2Template ----------------------------
(* The template of a cluster on EC2 instances: druidEc2Stack.ts with the   *)
(* ZooKeeper ensemble and the Auto Scaling groups, whose order is made of  *)
(* addDependency between the groups.                                       *)
EXTENDS StackTemplate

Zk(i) == <<"zk", "", i>>
Asg(g) == <<"group", g.name, 0>>
Asgs(c, family) == {Asg(c.groups[i]) : i \in Tiers(c, family)}
DataAsgs(c) == UNION {Asgs(c, f) : f \in {"data", "historical", "middleManager"}}

(* Mutation: the servers do not wait for one another.                      *)
ZooKeeperAtOnce(c) ==
  Part("zkInterfaces", Rs({"vpc", "sg"}))
  \cup {<<Zk(i), Rs({"zkInterfaces", "sg", "vpc", "installBucket"}) \cup {<<"asset", "zookeeperImage", 0>>}>> :
          i \in 1..c.zookeeper}

(* One network interface and one group per server, each group after the    *)
(* one before.                                                             *)
ZooKeeper(c) ==
  Part("zkInterfaces", Rs({"vpc", "sg"}))
  \cup {<<Zk(i),
           Rs({"zkInterfaces", "sg", "vpc", "installBucket"})
             \cup {<<"asset", "zookeeperImage", 0>>, Zk(i - 1)}>> :
          i \in 1..c.zookeeper}

(* What the launch template and the user data of a group refer to.         *)
AsgNeeds(c) ==
  Rs({"vpc", "sg", "role", "topic", "zkInterfaces", "installBucket", "deepBucket", "deepKey", "ca"})
    \cup StoreParts(c) \cup BaseUrl(c)

(* The groups of a family, each with the one before it in the              *)
(* configuration and, all of them, with more.                              *)
Chain(c, family, more) ==
  LET tiers == Tiers(c, family) IN
  {<<Asg(c.groups[i]), AsgNeeds(c) \cup more \cup {Asg(c.groups[j]) : j \in Before(tiers, i)}>> :
     i \in tiers}

(* The first middle manager waits for the last historical.                 *)
HistoricalFirst(c) ==
  LET m == Tiers(c, "middleManager") IN
  {<<Asg(c.groups[i]), {Asg(c.groups[j]) : j \in Latest(Tiers(c, "historical"))}>> :
     i \in {i \in m : Before(m, i) = {}}}

DataTiers(c) ==
  LET more == {<<"asset", "druidImage", 0>>, Zk(c.zookeeper)} IN
  Chain(c, "data", more) \cup Chain(c, "historical", more) \cup Chain(c, "middleManager", more)
  \cup HistoricalFirst(c)

(* Mutation: the query tiers wait for one data tier only.                  *)
QueryTiersEarly(c) ==
  Chain(c, "query", Rs({"targets"}) \cup {CHOOSE r \in DataAsgs(c) : TRUE})

QueryTiers(c) == Chain(c, "query", Rs({"targets"}) \cup DataAsgs(c))

Master(c) == {<<<<"group", "master", 0>>, AsgNeeds(c) \cup Asgs(c, "query")>>}

LoadBalancer(c) ==
  Part("alb", Rs({"vpc"}) \cup (IF c.agnostic THEN {} ELSE Rs({"logsBucket"})))
  \cup Part("targets", Rs({"vpc"}))
  \cup Part("listener", Rs({"alb", "targets", "certificate"}))
  \cup If(c.internetFacing, Part("association", Rs({"alb", "webAcl"})))
  \cup If(Zone(c), Part("record", Rs({"alb"})))

InstanceRole ==
  Part("role", Rs({"installBucket", "deepBucket", "deepKey", "secrets", "ca"}))

(* The custom resources that talk to Druid once the masters are there.     *)
DruidSettings(c) ==
  LET needed == Rs({"vpc", "secrets"}) \cup BaseUrl(c) \cup {<<"group", "master", 0>>} IN
  If(c.rules # {}, Part("retention", needed))
  \cup If("groupRoleMappings" \in c.oidc, Part("roles", needed))

Monitoring(c) ==
  LET groups == DataAsgs(c) \cup Asgs(c, "query") \cup {<<"group", "master", 0>>} IN
  Part("dashboard", groups \cup Rs({"alb", "store", "deepBucket", "canary"}))
  \cup Part("alarms", groups \cup Rs({"alb", "targets", "store"}))

Ec2Template(c) ==
  DruidStack(c)
  \cup Part("ca", Rs({"vpc"}))
  \cup Part("sg", Rs({"vpc", "bastion"}))
  \cup MetadataStore(c, "sg") \cup InstanceRole \cup LoadBalancer(c)
  \cup ZooKeeper(c) \cup DataTiers(c) \cup QueryTiers(c) \cup Master(c)
  \cup Metrics \cup DruidSettings(c) \cup Canary(c) \cup Monitoring(c)
=============================================================================
