--------------------------- MODULE StackTemplate ---------------------------
(* What the stacks of both platforms are made of: every resource with the  *)
(* resources it needs.  A construct is a resource, unless its parts are    *)
(* created, changed or deleted at different times.  A resource is a        *)
(* triple: its kind, its name and its number, the last two if it has       *)
(* siblings.  Needs that are not part of a template are dropped at the     *)
(* end: an imported bucket, for instance, is not a resource of the stack.  *)
EXTENDS DruidConfig


R(kind) == <<kind, "", 0>>
Rs(kinds) == {R(k) : k \in kinds}
If(condition, part) == IF condition THEN part ELSE {}
Part(kind, needed) == {<<R(kind), needed>>}

(* The needs of every resource of a template, among its resources.         *)
Close(t) ==
  LET resources == {p[1] : p \in t} IN
  [r \in resources |-> {q \in resources : \E p \in t : p[1] = r /\ q \in p[2]}]

(* The emptying function and its role; a custom resource per bucket.       *)
ClearFunction(c) == If(Destroyed(c), Part("clearFunction", {}))

Cleared(c, bucket, clear, needed) ==
  Part(bucket, {R("clearFunction")} \cup needed)
  \cup If(Destroyed(c), Part(clear, Rs({bucket, "clearFunction"})))

(* Mutation: the network does not wait for the clearing resource.          *)
VpcUncleared(c) == If(c.ownVpc, Part("vpc", Rs({"logsBucket"})))

(* The flow logs go to the bucket of the access logs.                      *)
Vpc(c) == If(c.ownVpc, Part("vpc", Rs({"logsBucket", "clearLogs"})))

Images == {"druidImage", "zookeeperImage"}

(* Scripts, extensions, configuration and certificates are "files".        *)
Installation(c) ==
  If(c.platform = "ec2",
     Cleared(c, "installBucket", "clearInstall", Rs({"logsBucket"}))
     \cup If(~c.selfManaged,
           {<<<<"asset", n, 0>>, Rs({"installBucket", "vpc"})>> : n \in Images \cup {"files"}}))

DeepStorage(c) ==
  If(~c.bucketArn,
     Cleared(c, "deepBucket", "clearDeep", Rs({"logsBucket", "deepKey"}))
     \cup If(~c.keyArn, Part("deepKey", {})))

BaseInfrastructure(c) ==
  ClearFunction(c)
  \cup Cleared(c, "logsBucket", "clearLogs", {})
  \cup Vpc(c) \cup Installation(c)
  \cup If(c.bastion, Part("bastion", Rs({"vpc"})))
  \cup DeepStorage(c)
  \cup Part("topic", {})

(* The scan's reports are the one bucket without a clearing resource.      *)
VulnerabilityScan(c) ==
  If(c.scan, Part("scanBucket", {}) \cup Part("scan", Rs({"scanBucket"})))

(* The waiter holds back the insights until the application's stack rests. *)
AppRegistry ==
  Part("application", {})
  \cup Part("waiter", Rs({"application", "vpc"}))
  \cup Part("insights", Rs({"waiter"}))

DruidStack(c) ==
  BaseInfrastructure(c)
  \cup If(c.internetFacing, Part("webAcl", {}))
  \cup If(Zone(c), Part("certificate", {}))
  \cup VulnerabilityScan(c) \cup AppRegistry

(* The address of the cluster is the domain or that of the load balancer.  *)
BaseUrl(c) == IF c.domain THEN {} ELSE Rs({"alb"})

Canary(c) ==
  Part("canarySg", Rs({"vpc"}))
  \cup Part("enis", Rs({"canarySg", "vpc"}))
  \cup Part("canary", Rs({"canarySg", "vpc"}) \cup BaseUrl(c))

(* Secrets and keys are created unless their ARN, or a snapshot, is given; *)
(* a custom store brings its own database.  client: the security group     *)
(* that may talk to it.                                                    *)
StoreParts(c) == Rs({"store", "secrets", "storeKey", "backup"})

MetadataStore(c, client) ==
  Part("secrets", {})
  \cup If(c.store.type # "custom",
        Part("store", Rs({"vpc", "secrets", "storeKey", client}))
        \cup If(~c.store.snapshot, Part("storeKey", {}))
        \cup If(c.store.backup, Part("backup", Rs({"store"}))))

Metrics == Part("metrics", Rs({"vpc"}))
=============================================================================
