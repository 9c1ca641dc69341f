---------------------------- MODULE MCDeployment ----------------------------
EXTENDS Deployment

CONSTANT Names  \* the configurations of a run

Group(family, name, min) == [family |-> family, word |-> TRUE, name |-> name, min |-> min, max |-> min]
G(name) == Group(name, name, 1)

(* Defaults of everything that can be left out. *)
Ec2 ==
  [platform |-> "ec2", capacity |-> "none", clusterMasterPrincipal |-> FALSE, zones |-> 2,
   groups |-> <<G("master"), G("query"), G("data")>>, zookeeper |-> 3,
   domain |-> FALSE, zone |-> {}, tlsCertificate |-> FALSE, internetFacing |-> TRUE,
   retainData |-> TRUE, bastion |-> FALSE, ownVpc |-> TRUE, agnostic |-> FALSE,
   selfManaged |-> FALSE, scan |-> FALSE, bucketArn |-> FALSE, keyArn |-> FALSE,
   store |-> [type |-> "default", instances |-> 1, snapshot |-> FALSE, backup |-> FALSE, backupDays |-> 7],
   oidc |-> {}, rules |-> {}, emitter |-> "default", extensions |-> {},
   fips |-> FALSE, fipsRegion |-> FALSE, built |-> TRUE, crons |-> <<>>, concurrentQueryLimit |-> 1]

Oidc == {"clientId", "clientSecretArn", "discoveryURI", "groupRoleMappings"}
Split == <<G("master"), G("query"), G("historical"), Group("historical", "historical_hot", 1),
           G("middleManager"), Group("query", "query_hot", 1)>>

Eks ==
  [Ec2 EXCEPT !.platform = "eks", !.capacity = "ec2", !.clusterMasterPrincipal = TRUE,
              !.groups = <<G("master"), G("query"), Group("data", "data", 2), Group("data", "data_hot", 2)>>,
              !.domain = TRUE, !.zone = {"id", "name"}]

Fargate2 ==
  [Eks EXCEPT !.capacity = "fargate",
              !.groups = <<G("coordinator"), G("overlord"), G("router"), G("broker"), G("historical"),
                           G("middleManager"), Group("historical", "historical_hot", 2)>>]

Known ==
  [simple      |-> [Ec2 EXCEPT !.oidc = Oidc, !.retainData = FALSE],
   split       |-> [Ec2 EXCEPT !.groups = Split, !.oidc = Oidc, !.bastion = TRUE, !.store.backup = TRUE],
   mixed       |-> [Ec2 EXCEPT !.groups = <<G("master"), G("query"), G("data")>> \o
                                          <<Group("historical", "historical_hot", 1)>>,
                               !.rules = {"loadForever"}],
   unserved    |-> [Ec2 EXCEPT !.domain = TRUE, !.rules = {"dropForever"}, !.selfManaged = TRUE],
   imported    |-> [Ec2 EXCEPT !.ownVpc = FALSE, !.bucketArn = TRUE, !.keyArn = TRUE, !.retainData = FALSE,
                               !.domain = TRUE, !.tlsCertificate = TRUE,
                               !.store.type = "custom", !.internetFacing = FALSE, !.agnostic = TRUE],
   eks         |-> [Eks EXCEPT !.retainData = FALSE],
   fargate     |-> Fargate2,
   \* refused
   noData      |-> [Ec2 EXCEPT !.groups = <<G("master"), G("query"), G("middleManager")>>],
   noTasks     |-> [Ec2 EXCEPT !.groups = <<G("master"), G("query"), G("historical")>>],
   noQuery     |-> [Ec2 EXCEPT !.groups = <<G("master"), Group("query", "query_hot", 1), G("data")>>],
   fifteen     |-> [Ec2 EXCEPT !.zookeeper = 15],
   noDomain    |-> [Ec2 EXCEPT !.zone = {"id", "name"}],
   twoCerts    |-> [Ec2 EXCEPT !.domain = TRUE, !.zone = {"id", "name"}, !.tlsCertificate = TRUE],
   statsd      |-> [Ec2 EXCEPT !.emitter = "statsd"],
   crons       |-> [Ec2 EXCEPT !.crons = <<[valid |-> TRUE, at |-> 1], [valid |-> TRUE, at |-> 1]>>],
   eksRules    |-> [Eks EXCEPT !.rules = {"loadForever"}],
   eksOdd      |-> [Eks EXCEPT !.groups = <<G("master"), G("query"), G("data")>>],
   eksShape    |-> [Eks EXCEPT !.capacity = "fargate"],
   ecs         |-> [Ec2 EXCEPT !.platform = "ecs"]]

Chosen == {Known[n] : n \in Names}
Synthesized == {Synthesize(config) : config \in {d \in Chosen : Accepts(d)}}
=============================================================================
