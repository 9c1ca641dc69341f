--------------------------- MODULE CloudFormation ---------------------------
(* How CloudFormation carries out a template, as far as the stacks rely on *)
(* it: a resource is created or updated after those it needs and deleted   *)
(* before them; a failed creation deletes what there is, a failed update   *)
(* takes back what it had begun, a failed deletion leaves the resource and *)
(* all it needs.  External to the repository; cdk derives the needs from   *)
(* references and from addDependency.                                      *)

CONSTANT Templates  \* each gives every resource of a stack the ones it needs

Closed(t) == t \in [DOMAIN t -> SUBSET DOMAIN t]

ASSUME TemplatesClosed == \A t \in Templates : Closed(t)

VARIABLES
  needs,    \* of every resource of the stack
  users,    \* the resources that need it
  op,       \* the last operation: "create", "cleanup" after a failed creation,
            \* "update", "rollback" after a failed update, or "delete"
  running,  \* is it under way?
  todo,     \* resources it has not dealt with
  ready, working, failed  \* the state of those that exist

engine == <<needs, users, op, running, todo, ready, working, failed>>

Resources == DOMAIN needs
Forward == {"create", "update", "rollback"}
Backward == {"cleanup", "delete"}

Exists(r) == r \in ready \/ r \in working \/ r \in failed
Present == ready \cup working \cup failed
Users(t) == [r \in DOMAIN t |-> {q \in DOMAIN t : r \in t[q]}]

Startable ==
  LET present == Present IN
  {r \in todo \ working : IF op \in Forward THEN needs[r] \cap todo = {}
                          ELSE users[r] \cap present = {}}

EngineInit ==
  /\ needs \in Templates /\ users = Users(needs)
  /\ op = "none" /\ running = FALSE /\ todo = {}
  /\ ready = {} /\ working = {} /\ failed = {}

(* An operation starts on the resources it is to change.                   *)
Operate(kind, resources) ==
  /\ ~running /\ running' = TRUE
  /\ op' = kind /\ todo' = resources
  /\ UNCHANGED <<needs, users, ready, working, failed>>

Create == op = "none" /\ Operate("create", Resources)

Update(changed) ==
  /\ op \in Forward /\ changed \subseteq Resources
  /\ Operate("update", changed)

Delete == Present # {} /\ Operate("delete", Present)

(* Every resource that can be is begun; those that take no step of their   *)
(* own are done at once.                                                   *)
Start(atOnce) ==
  LET starting == Startable
      done == starting \cap atOnce
  IN /\ starting # {}
     /\ todo' = todo \ done
     /\ working' = working \cup (starting \ atOnce)
     /\ ready' = (ready \ starting) \cup (IF op \in Forward THEN done ELSE {})
     /\ failed' = failed \ starting
     /\ UNCHANGED <<needs, users, op, running>>

Succeed(r) ==
  /\ r \in working
  /\ working' = working \ {r} /\ todo' = todo \ {r}
  /\ ready' = IF op \in Forward THEN ready \cup {r} ELSE ready
  /\ UNCHANGED <<needs, users, op, running, failed>>

(* A failure cancels what is in progress. *)
FailCreate(r) ==
  /\ r \in working /\ op = "create"
  /\ op' = "cleanup" /\ todo' = Present
  /\ working' = {} /\ failed' = failed \cup working
  /\ UNCHANGED <<needs, users, running, ready>>

(* What had been done is taken back; changed: all the update was to do.    *)
FailUpdate(r, changed) ==
  /\ r \in working /\ op = "update"
  /\ todo \subseteq changed /\ changed \subseteq Resources
  /\ op' = "rollback" /\ todo' = changed \ (todo \ working)
  /\ working' = {} /\ failed' = failed \cup working
  /\ UNCHANGED <<needs, users, running, ready>>

FailDelete(r) ==
  /\ r \in working /\ op \in Backward
  /\ working' = working \ {r} /\ failed' = failed \cup {r} /\ todo' = todo \ {r}
  /\ UNCHANGED <<needs, users, op, running, ready>>

(* Nothing is left, or a failed deletion blocks the rest.                  *)
Finish ==
  /\ running /\ working = {} /\ Startable = {}
  /\ op \in Forward => todo = {}
  /\ running' = FALSE /\ todo' = {}
  /\ UNCHANGED <<needs, users, op, ready, working, failed>>

EngineNext ==
  \/ Create \/ Delete \/ Finish
  \/ \E changed \in SUBSET Resources : Update(changed)
  \/ \E atOnce \in SUBSET Resources : Start(atOnce)
  \/ \E r \in Resources :
       \/ Succeed(r) \/ FailCreate(r) \/ FailDelete(r)
       \/ \E changed \in SUBSET Resources : FailUpdate(r, changed)

EngineSpec == EngineInit /\ [][EngineNext]_engine

EngineTypeOK ==
  /\ Closed(needs) /\ users = Users(needs)
  /\ op \in {"none"} \cup Forward \cup Backward
  /\ running \in BOOLEAN
  /\ todo \cup Present \subseteq Resources
  /\ ready \cap working = {} /\ ready \cap failed = {} /\ working \cap failed = {}

(* No resource outlives one it needs, whatever fails and however far an    *)
(* operation came: nothing refers to what is not there.                    *)
Grounded == \A r \in Present : needs[r] \subseteq Present
=============================================================================
