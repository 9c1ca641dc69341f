---------------------------- MODULE RoleCreation ----------------------------
(* The custom resource that keeps Druid's roles and group mappings as the  *)
(* configuration names them: roleCreationLambda.ts, the attempts of its    *)
(* backOff calls, and the requests that Promise.all leaves in flight when  *)
(* it rejects at the first failure.                                        *)
EXTENDS Naturals, FiniteSets

CONSTANTS
  Groups,         \* names a group mapping may have
  Roles,          \* roles of permissionMap that are looked at
  Configs,        \* values of groupRoleMappings; {} for a group not named
  NumOfAttempts,  \* NUM_OF_ATTEMPTS
  MaxEvents,      \* bound: CloudFormation events
  MaxFaults,      \* bound: requests that fail during one event
  MaxLate         \* bound: requests that outlive the pause before the next attempt

ReadWrite(types) == types \X {"READ", "WRITE"}

(* The permissions of a role: type of resource and action; every name is   *)
(* matched by the pattern ".*".                                            *)
permissionMap ==
  [administrator |-> ReadWrite({"CONFIG", "QUERY_CONTEXT", "SYSTEM_TABLE", "EXTERNAL",
                                "DATASOURCE", "STATE", "VIEW"}),
   manage        |-> ReadWrite({"DATASOURCE", "STATE", "CONFIG"}),
   read          |-> {"DATASOURCE", "STATE"} \X {"READ"},
   write         |-> ReadWrite({"DATASOURCE", "STATE"})]

ASSUME RolesAssumption == Roles \subseteq DOMAIN permissionMap
ASSUME ConfigsAssumption == Configs \subseteq [Groups -> SUBSET Roles]
ASSUME BoundsAssumption ==
  NumOfAttempts \in Nat \ {0} /\ MaxEvents \in Nat /\ MaxFaults \in Nat /\ MaxLate \in Nat

VARIABLES
  roles,        \* Druid: the roles that exist
  permissions,  \* Druid: the permissions of every role
  mappings,     \* Druid: the roles of every group, {} without a mapping
  installed,    \* CloudFormation: does the custom resource exist?
  events,       \* CloudFormation: events sent to the handler
  event,        \* the last of them
  config,       \* its groupRoleMappings
  phase,        \* the requests the handler is waiting for, "idle" when it has answered
  attempt,      \* attempts of that backOff call
  backingOff,   \* has the attempt failed?
  existing,     \* existingMappings
  secret,       \* did getSystemUserSecret find the secret?
  inflight,     \* requests on their way
  faults,       \* history: failed requests of this event, per kind
  late          \* history: has a request outlived a pause during this event?

druid == <<roles, permissions, mappings>>
stack == <<installed, events, event, config, secret>>
handler == <<phase, attempt, backingOff, existing>>
vars == <<druid, stack, handler, inflight, faults, late>>

Ops == {"role", "permissions", "map", "list", "unmap"}

Named(m) == {g \in Groups : m[g] # {}}

(* The requests of one attempt; list is a single one, whose key is unused. *)
Keys(op, cfg, old) ==
  CASE op \in {"role", "permissions"} -> Roles
    [] op = "map"                     -> Named(cfg)
    [] op = "unmap"                   -> old
    [] op = "list"                    -> {"all"}
    [] op = "idle"                    -> {}

Body(op, k, cfg) ==
  CASE op = "permissions" -> permissionMap[k]
    [] op = "map"         -> cfg[k]
    [] OTHER              -> {}

Requests(op, n, ev, cfg, old, auth) ==
  {[op |-> op, key |-> k, body |-> Body(op, k, cfg), event |-> ev, attempt |-> n, auth |-> auth] :
     k \in Keys(op, cfg, old)}

Current(r) == r.event = events /\ r.op = phase /\ r.attempt = attempt /\ ~backingOff

(* Druid refuses to create what exists, to delete what does not, and to    *)
(* give permissions to a role it does not have.                            *)
Accepts(r) ==
  /\ r.auth
  /\ r.op = "role"        => r.key \notin roles
  /\ r.op = "permissions" => r.key \in roles
  /\ r.op = "map"         => mappings[r.key] = {}
  /\ r.op = "unmap"       => mappings[r.key] # {}

Perform(r) ==
  \/ /\ r.op = "role" /\ roles' = roles \cup {r.key}
     /\ UNCHANGED <<permissions, mappings>>
  \/ /\ r.op = "permissions" /\ permissions' = [permissions EXCEPT ![r.key] = r.body]
     /\ UNCHANGED <<roles, mappings>>
  \/ /\ r.op \in {"map", "unmap"} /\ mappings' = [mappings EXCEPT ![r.key] = r.body]
     /\ UNCHANGED <<roles, permissions>>
  \/ r.op = "list" /\ UNCHANGED druid

(* The next requests are sent: of another kind, or once more.              *)
Send(op, n, old) ==
  /\ phase' = op /\ attempt' = n /\ existing' = old /\ backingOff' = FALSE
  /\ inflight' = inflight \cup Requests(op, n, events, config, old, secret)

(* Mutation: an update creates the new mappings without deleting the old.  *)
FollowUndeleted ==
  [role |-> "permissions", permissions |-> "map", list |-> "map", unmap |-> "map", map |-> "idle"]

Follow ==
  [role |-> "permissions", permissions |-> "map", list |-> "unmap", unmap |-> "map", map |-> "idle"]

(* --------------------------------------------------------- CloudFormation *)

NoFaults == [op \in Ops |-> 0]

(* onEventHandler: Create and Update read the secret first; without it the *)
(* requests carry no credentials.                                          *)
Begin(kind, cfg, auth) ==
  LET first == IF kind = "Create" THEN "role" ELSE "list" IN
  /\ phase = "idle" /\ events < MaxEvents
  /\ Cardinality(inflight) <= MaxLate
  /\ installed' = TRUE /\ events' = events + 1
  /\ event' = kind /\ config' = cfg /\ secret' = auth
  /\ phase' = first /\ attempt' = 1 /\ backingOff' = FALSE /\ existing' = {}
  /\ inflight' = inflight \cup Requests(first, 1, events + 1, cfg, {}, auth)
  /\ faults' = NoFaults /\ late' = (inflight # {})
  /\ UNCHANGED druid

CreateEvent == \E cfg \in Configs, auth \in BOOLEAN : ~installed /\ Begin("Create", cfg, auth)

UpdateEvent ==
  \E cfg \in Configs \ {config}, auth \in BOOLEAN : installed /\ Begin("Update", cfg, auth)

(* Any other event is answered without a request.                          *)
DeleteEvent ==
  /\ phase = "idle" /\ installed /\ events < MaxEvents
  /\ installed' = FALSE /\ events' = events + 1 /\ event' = "Delete"
  /\ UNCHANGED <<druid, config, secret, handler, inflight, faults, late>>

(* --------------------------------------------------------------- requests *)

(* A request reaches Druid, and its answer the handler if it still waits.  *)
Serve(r) ==
  /\ IF Accepts(r) THEN Perform(r) ELSE UNCHANGED druid
  /\ inflight' = inflight \ {r}
  /\ backingOff' = (backingOff \/ (Current(r) /\ ~Accepts(r)))
  /\ existing' = IF Current(r) /\ Accepts(r) /\ r.op = "list" THEN Named(mappings) ELSE existing
  /\ UNCHANGED <<stack, phase, attempt, faults, late>>

Failing(r) ==
  /\ Current(r)
  /\ \E op \in Ops : faults[op] < MaxFaults /\ op = r.op
  /\ faults' = [faults EXCEPT ![r.op] = @ + 1]
  /\ backingOff' = TRUE
  /\ UNCHANGED <<stack, phase, attempt, existing, late>>

(* A request is lost on its way.                                           *)
LoseRequest(r) == Failing(r) /\ inflight' = inflight \ {r} /\ UNCHANGED druid

(* A request is performed and its answer lost.                             *)
LoseAnswer(r) == Failing(r) /\ Accepts(r) /\ Perform(r) /\ inflight' = inflight \ {r}

(* A request is given up by its sender and still on its way to Druid.      *)
Abandon(r) == Failing(r) /\ UNCHANGED <<druid, inflight>>

(* -------------------------------------------------------------- backOff *)

(* Promise.all resolves.                                                   *)
Resolve ==
  /\ phase # "idle" /\ ~backingOff /\ ~\E r \in inflight : Current(r)
  /\ Send(Follow[phase], 1, existing)
  /\ UNCHANGED <<druid, stack, faults, late>>

(* Mutation: the attempts are never counted.                               *)
RetryForever ==
  /\ backingOff /\ phase # "list"
  /\ Cardinality(inflight) <= MaxLate
  /\ Send(phase, attempt, existing)
  /\ late' = (late \/ inflight # {})
  /\ UNCHANGED <<druid, stack, faults>>

(* Mutation: one attempt too many.                                         *)
RetryOnceMore ==
  /\ backingOff /\ phase # "list" /\ attempt <= NumOfAttempts
  /\ Cardinality(inflight) <= MaxLate
  /\ Send(phase, attempt + 1, existing)
  /\ late' = (late \/ inflight # {})
  /\ UNCHANGED <<druid, stack, faults>>

(* Promise.all has rejected: after a pause everything is sent once more.   *)
(* The list of the mappings is asked for only once.                        *)
Retry ==
  /\ backingOff /\ phase # "list" /\ attempt < NumOfAttempts
  /\ Cardinality(inflight) <= MaxLate
  /\ Send(phase, attempt + 1, existing)
  /\ late' = (late \/ inflight # {})
  /\ UNCHANGED <<druid, stack, faults>>

(* Mutation: the first call that fails ends a Create as it ends an Update. *)
GiveUpAll ==
  /\ backingOff /\ (phase = "list" \/ attempt = NumOfAttempts)
  /\ Send("idle", 1, existing)
  /\ UNCHANGED <<druid, stack, faults, late>>

(* The exception is logged: createRoles catches it per call and goes on,   *)
(* updateGroupRoleMappings around all its calls.                           *)
GiveUp ==
  /\ backingOff /\ (phase = "list" \/ attempt = NumOfAttempts)
  /\ Send(IF event = "Create" THEN Follow[phase] ELSE "idle", 1, existing)
  /\ UNCHANGED <<druid, stack, faults, late>>

Init ==
  /\ roles = {} /\ permissions = [r \in Roles |-> {}] /\ mappings = [g \in Groups |-> {}]
  /\ installed = FALSE /\ events = 0 /\ event = "none"
  /\ config = [g \in Groups |-> {}] /\ secret = TRUE
  /\ phase = "idle" /\ attempt = 1 /\ backingOff = FALSE /\ existing = {}
  /\ inflight = {} /\ faults = NoFaults /\ late = FALSE

Handler == Resolve \/ Retry \/ GiveUp

Served == \E r \in inflight : Serve(r)

Next ==
  \/ CreateEvent \/ UpdateEvent \/ DeleteEvent
  \/ Served
  \/ \E r \in inflight : LoseRequest(r) \/ LoseAnswer(r) \/ Abandon(r)
  \/ Handler

Spec == Init /\ [][Next]_vars

(* The handler runs on; a request that is not lost arrives.                *)
FairSpec == Spec /\ WF_vars(Handler) /\ WF_vars(Served)

(* ------------------------------------------------------------- properties *)

(* A request has the body that its kind and its key ask for.               *)
RequestOK(r) ==
  /\ r.op \in Ops /\ r.key \in Groups \cup Roles \cup {"all"}
  /\ r.event \in 1..MaxEvents /\ r.attempt \in 1..NumOfAttempts /\ r.auth \in BOOLEAN
  /\ IF r.op = "permissions" THEN r.body = permissionMap[r.key] ELSE r.body \subseteq Roles

(* Every state is well typed: no attempt is made beyond NUM_OF_ATTEMPTS    *)
(* (roleCreationLambda.ts:214), every request carries what its kind asks.  *)
TypeOK ==
  /\ roles \subseteq Roles
  /\ permissions \in [Roles -> {{}} \cup {permissionMap[r] : r \in Roles}]
  /\ mappings \in [Groups -> SUBSET Roles]
  /\ installed \in BOOLEAN /\ events \in 0..MaxEvents
  /\ event \in {"none", "Create", "Update", "Delete"}
  /\ config \in [Groups -> SUBSET Roles] /\ secret \in BOOLEAN
  /\ phase \in Ops \cup {"idle"} /\ attempt \in 1..NumOfAttempts
  /\ backingOff \in BOOLEAN /\ existing \subseteq Groups
  /\ \A r \in inflight : RequestOK(r)
  /\ faults \in [Ops -> Nat] /\ late \in BOOLEAN

(* The event has been answered and every request of it has arrived.        *)
Settled == phase = "idle" /\ inflight = {} /\ secret /\ ~late

(* A first Create ends with the configured roles, permissions and mappings *)
(* in Druid, although every attempt after a partial success is refused and *)
(* a role may come after the first attempt to give it permissions, as long *)
(* as fewer requests fail than there are attempts.                         *)
CreateComplete ==
  (/\ event = "Create" /\ events = 1 /\ Settled
   /\ faults["role"] < NumOfAttempts /\ faults["map"] < NumOfAttempts
   /\ faults["permissions"] + 1 < NumOfAttempts) =>
     /\ roles = Roles
     /\ \A r \in Roles : permissions[r] = permissionMap[r]
     /\ mappings = config

(* An Update whose list and deletions do not fail leaves exactly the       *)
(* configured mappings, whatever an earlier event left behind.             *)
UpdateSynced ==
  (/\ event = "Update" /\ Settled
   /\ faults["list"] = 0 /\ faults["unmap"] = 0 /\ faults["map"] < NumOfAttempts) =>
     mappings = config

(* Every event is answered: the attempts end.                              *)
EventsAnswered == (phase # "idle") ~> (phase = "idle")

(* "sync with mappings from cdk.json" (roleCreationLambda.ts:335), with    *)
(* retries for requests that fail: an Update during which fewer requests   *)
(* fail than there are attempts leaves the configured mappings.            *)
UpdateInSync ==
  (/\ event = "Update" /\ Settled
   /\ faults["list"] = 0 /\ faults["unmap"] < NumOfAttempts /\ faults["map"] < NumOfAttempts) =>
     mappings = config
=============================================================================
