------------------------- MODULE RoleCreationProofs -------------------------
(* Theorems about RoleCreation, for any groups, roles and configurations,  *)
(* any number of attempts and events and any requests that fail.           *)
EXTENDS RoleCreation, TLAPS

(* What a request carries, by its kind.                                    *)
Asks(r) ==
  /\ r.op \in Ops /\ r.event \in 1..MaxEvents /\ r.attempt \in 1..NumOfAttempts
  /\ r.op \in {"role", "permissions"} => r.key \in Roles
  /\ r.op \in {"map", "unmap"} => r.key \in Groups
  /\ r.op = "list" => r.key = "all"
  /\ IF r.op = "permissions" THEN r.body = permissionMap[r.key] ELSE r.body \subseteq Roles

(* The parts of TypeOK: what is a set, a number or a name, and the flags.  *)
Types ==
  /\ roles \subseteq Roles
  /\ permissions \in [Roles -> {{}} \cup {permissionMap[r] : r \in Roles}]
  /\ mappings \in [Groups -> SUBSET Roles] /\ config \in [Groups -> SUBSET Roles]
  /\ events \in 0..MaxEvents /\ event \in {"none", "Create", "Update", "Delete"}
  /\ phase \in Ops \cup {"idle"} /\ attempt \in 1..NumOfAttempts
  /\ existing \subseteq Groups /\ faults \in [Ops -> Nat]
  /\ \A r \in inflight : Asks(r)

Flags ==
  /\ installed \in BOOLEAN /\ secret \in BOOLEAN /\ backingOff \in BOOLEAN /\ late \in BOOLEAN
  /\ \A r \in inflight : r.auth \in BOOLEAN

-----------------------------------------------------------------------------
(* An event that found the secret and no request of an earlier event: all  *)
(* requests on their way are its own and, of the kind it waits for, of the *)
(* last attempt.                                                           *)
Calm == event \in {"Create", "Update"} /\ secret /\ ~late

(* The kinds of which a request may be on its way.                         *)
Sent ==
  CASE phase = "role"        -> {"role"}
    [] phase = "permissions" -> {"role", "permissions"}
    [] phase = "list"        -> {"list"}
    [] phase = "unmap"       -> {"list", "unmap"}
    [] OTHER                 -> IF event = "Create" THEN {"role", "permissions", "map"}
                                ELSE {"list", "unmap", "map"}

OwnRequests ==
  /\ phase \in IF event = "Create" THEN {"role", "permissions", "map", "idle"}
              ELSE {"list", "unmap", "map", "idle"}
  /\ \A r \in inflight :
       /\ r.event = events /\ r.op \in Sent
       /\ r.op = phase => r.attempt = attempt
       /\ r.op = "map" => r.key \in Named(config) /\ r.body = config[r.key]
       /\ r.op = "unmap" => r.body = {}

Authorised == \A r \in inflight : r.auth

(* Between two events, and before the first.                               *)
Empty == \A g \in Groups : mappings[g] = {}
Quiet ==
  /\ phase = "idle" => ~backingOff
  /\ events = 0 => phase = "idle" /\ inflight = {} /\ Empty

First == events = 1 /\ event = "Create"

(* A kind of request of which every attempt but the ones that a failed     *)
(* request explains leads to the goal.                                     *)
Tried(op, n, coming, done) ==
  \/ done
  \/ ~backingOff /\ n - 1 <= faults[op] /\ coming
  \/ backingOff /\ (n <= faults[op] \/ coming)

(* Every role exists or is being created.                                  *)
RolesComing == \A k \in Roles : k \in roles \/ \E r \in inflight : r.op = "role" /\ r.key = k

RolesInv ==
  /\ phase = "role" => Tried("role", attempt, RolesComing, roles = Roles)
  /\ phase # "role" /\ faults["role"] < NumOfAttempts => RolesComing

(* Every role has its permissions or is being given them.                  *)
PermsDone == \A k \in Roles : permissions[k] = permissionMap[k]
PermsComing ==
  \A k \in Roles : \/ permissions[k] = permissionMap[k]
                   \/ \E r \in inflight : r.op = "permissions" /\ r.key = k

(* The first attempt may come before the roles.                            *)
PermsInv ==
  faults["role"] < NumOfAttempts =>
    /\ phase = "permissions" /\ attempt = 1 => backingOff \/ PermsComing
    /\ phase = "permissions" /\ attempt > 1 =>
         roles = Roles /\ Tried("permissions", attempt - 1, PermsComing, PermsDone)
    /\ phase \notin {"role", "permissions"} /\ faults["permissions"] + 1 < NumOfAttempts =>
         /\ PermsComing
         /\ roles = Roles \/ \A r \in inflight : r.op # "permissions"

(* Every group has its mapping or is being given it.                       *)
MapsComing ==
  \A g \in Groups : \/ mappings[g] = config[g]
                    \/ mappings[g] = {} /\ \E r \in inflight : r.op = "map" /\ r.key = g

Clean ==
  /\ \A g \in Groups : mappings[g] = {} \/ mappings[g] = config[g]
  /\ \A r \in inflight : r.op # "unmap"

(* Updates whose list and deletions do not fail, and the first Create.     *)
Cleared ==
  \/ First
  \/ event = "Update" /\ faults["list"] = 0 /\ faults["unmap"] = 0

MapsInv ==
  /\ phase \in {"role", "permissions"} => Empty
  /\ phase = "list" =>
       /\ ~backingOff
       /\ existing = Named(mappings) \/ \E r \in inflight : r.op = "list"
  /\ phase = "unmap" =>
       /\ ~backingOff
       /\ \A g \in Groups : mappings[g] = {} \/ \E r \in inflight : r.op = "unmap" /\ r.key = g
       /\ \A r \in inflight : r.op = "unmap" => mappings[r.key] # {}
       /\ \A r, s \in inflight : r.op = "unmap" /\ s.op = "unmap" /\ r.key = s.key => r = s
  /\ phase = "map" => Clean /\ Tried("map", attempt, MapsComing, mappings = config)
  /\ phase = "idle" => Clean /\ (faults["map"] < NumOfAttempts => MapsComing)

IInv ==
  /\ Types /\ Flags /\ Quiet
  /\ Calm => /\ OwnRequests /\ Authorised
             /\ First => RolesInv /\ PermsInv
             /\ Cleared => MapsInv

-----------------------------------------------------------------------------
(* What the steps do.                                                      *)

LEMMA RequestFacts ==
  ASSUME NEW op, NEW n, NEW ev, NEW cfg, NEW old, NEW auth
  PROVE  /\ \A r \in Requests(op, n, ev, cfg, old, auth) :
              /\ r.op = op /\ r.key \in Keys(op, cfg, old) /\ r.body = Body(op, r.key, cfg)
              /\ r.event = ev /\ r.attempt = n /\ r.auth = auth
         /\ \A k \in Keys(op, cfg, old) :
              \E r \in Requests(op, n, ev, cfg, old, auth) : r.op = op /\ r.key = k
         /\ \A r, s \in Requests(op, n, ev, cfg, old, auth) : r.key = s.key => r = s
<1> DEFINE R(k) == [op |-> op, key |-> k, body |-> Body(op, k, cfg), event |-> ev, attempt |-> n,
                    auth |-> auth]
<1>1. \A k : /\ R(k).op = op /\ R(k).key = k /\ R(k).body = Body(op, k, cfg)
             /\ R(k).event = ev /\ R(k).attempt = n /\ R(k).auth = auth
  OBVIOUS
<1>2. Requests(op, n, ev, cfg, old, auth) = {R(k) : k \in Keys(op, cfg, old)}
  BY DEF Requests
<1> HIDE DEF R
<1>3. QED
  BY <1>1, <1>2

LEMMA AuthFact ==
  ASSUME NEW op, NEW n, NEW ev, NEW cfg, NEW old, NEW auth,
         NEW r \in Requests(op, n, ev, cfg, old, auth)
  PROVE  r.auth = auth
BY RequestFacts

LEMMA KeyFacts ==
  ASSUME NEW cfg, NEW old
  PROVE  /\ Keys("role", cfg, old) = Roles /\ Keys("permissions", cfg, old) = Roles
         /\ Keys("map", cfg, old) = Named(cfg) /\ Keys("unmap", cfg, old) = old
         /\ Keys("list", cfg, old) = {"all"} /\ Keys("idle", cfg, old) = {}
BY DEF Keys

LEMMA FollowFacts ==
  /\ Follow["role"] = "permissions" /\ Follow["permissions"] = "map"
  /\ Follow["list"] = "unmap" /\ Follow["unmap"] = "map" /\ Follow["map"] = "idle"
BY DEF Follow

LEMMA BeginEffect ==
  ASSUME NEW kind \in {"Create", "Update"}, NEW cfg, NEW auth, Begin(kind, cfg, auth),
         NEW first, first = IF kind = "Create" THEN "role" ELSE "list"
  PROVE  /\ events < MaxEvents /\ events' = events + 1 /\ event' = kind /\ config' = cfg
         /\ installed' = TRUE /\ secret' = auth /\ phase' = first /\ attempt' = 1
         /\ ~backingOff' /\ backingOff' = FALSE /\ existing' = {} /\ faults' = NoFaults
         /\ inflight' = inflight \cup Requests(first, 1, events + 1, cfg, {}, auth)
         /\ (~late' => inflight = {}) /\ late' \in BOOLEAN
         /\ UNCHANGED druid
<1>1. /\ events < MaxEvents /\ events' = events + 1 /\ event' = kind /\ config' = cfg
      /\ phase' = first /\ attempt' = 1 /\ existing' = {} /\ faults' = NoFaults
      /\ inflight' = inflight \cup Requests(first, 1, events + 1, cfg, {}, auth)
      /\ UNCHANGED druid
  BY DEF Begin
<1>2. /\ installed' = TRUE /\ secret' = auth /\ ~backingOff' /\ backingOff' = FALSE
      /\ (~late' => inflight = {}) /\ late' \in BOOLEAN
  BY Zenon DEF Begin
<1>3. QED
  BY <1>1, <1>2, Zenon

LEMMA SendEffect ==
  ASSUME NEW op, NEW n, NEW old, Send(op, n, old)
  PROVE  /\ phase' = op /\ attempt' = n /\ existing' = old
         /\ ~backingOff' /\ backingOff' = FALSE
         /\ inflight' = inflight \cup Requests(op, n, events, config, old, secret)
BY Zenon DEF Send

(* What a request to Druid leaves behind, performed or not.                *)
Changes(r) ==
  \/ UNCHANGED druid
  \/ /\ r.op = "role" /\ roles' = roles \cup {r.key} /\ UNCHANGED <<permissions, mappings>>
  \/ /\ r.op = "permissions" /\ permissions' = [permissions EXCEPT ![r.key] = r.body]
     /\ UNCHANGED <<roles, mappings>>
  \/ /\ r.op \in {"map", "unmap"} /\ mappings' = [mappings EXCEPT ![r.key] = r.body]
     /\ UNCHANGED <<roles, permissions>>

LEMMA ServeEffect ==
  ASSUME NEW r, Serve(r)
  PROVE  /\ Changes(r) /\ inflight' = inflight \ {r}
         /\ UNCHANGED <<events, event, config, phase, attempt, faults>>
         /\ installed' = installed /\ secret' = secret /\ late' = late /\ backingOff' \in BOOLEAN
         /\ Accepts(r) => Perform(r)
         /\ ~Accepts(r) => UNCHANGED druid
         /\ backingOff => backingOff'
         /\ ~backingOff' => ~backingOff /\ (Current(r) => Accepts(r))
         /\ ~backingOff /\ (Current(r) => Accepts(r)) => ~backingOff'
         /\ existing' = existing \/ existing' = Named(mappings)
         /\ Current(r) /\ Accepts(r) /\ r.op = "list" => existing' = Named(mappings)
         /\ r.op # "list" => existing' = existing
<1>1. /\ inflight' = inflight \ {r} /\ UNCHANGED <<stack, phase, attempt, faults, late>>
      /\ backingOff' = (backingOff \/ (Current(r) /\ ~Accepts(r)))
      /\ IF Accepts(r) THEN Perform(r) ELSE UNCHANGED druid
      /\ existing' = IF Current(r) /\ Accepts(r) /\ r.op = "list" THEN Named(mappings) ELSE existing
  BY Zenon DEF Serve
<1>2. UNCHANGED <<events, event, config, phase, attempt, faults>>
  BY <1>1, Zenon DEF stack
<1>3. installed' = installed /\ secret' = secret /\ late' = late /\ backingOff' \in BOOLEAN
  BY <1>1, Zenon DEF stack
<1>4. /\ Accepts(r) => Perform(r)
      /\ ~Accepts(r) => UNCHANGED druid
      /\ backingOff => backingOff'
      /\ ~backingOff' => ~backingOff /\ (Current(r) => Accepts(r))
      /\ ~backingOff /\ (Current(r) => Accepts(r)) => ~backingOff'
      /\ existing' = existing \/ existing' = Named(mappings)
      /\ Current(r) /\ Accepts(r) /\ r.op = "list" => existing' = Named(mappings)
      /\ r.op # "list" => existing' = existing
  BY <1>1, Zenon
<1>5. Changes(r)
  BY <1>4, Zenon DEF Changes, Perform
<1>6. QED
  BY <1>1, <1>2, <1>3, <1>4, <1>5, Zenon

(* A request that fails, in any of the three ways.                         *)
Fails(r) == LoseRequest(r) \/ LoseAnswer(r) \/ Abandon(r)

LEMMA FailEffect ==
  ASSUME NEW r, Fails(r)
  PROVE  /\ Changes(r) /\ inflight' \in {inflight, inflight \ {r}}
         /\ Current(r) /\ faults' = [faults EXCEPT ![r.op] = @ + 1]
         /\ UNCHANGED <<events, event, config, phase, attempt, existing>>
         /\ installed' = installed /\ secret' = secret /\ late' = late
         /\ backingOff' /\ backingOff' = TRUE
<1>1. Failing(r)
  BY Zenon DEF Fails, LoseRequest, LoseAnswer, Abandon
<1>2. /\ Current(r) /\ faults' = [faults EXCEPT ![r.op] = @ + 1]
      /\ UNCHANGED <<stack, phase, attempt, existing, late>>
      /\ backingOff' /\ backingOff' = TRUE
  BY <1>1, Zenon DEF Failing
<1>3. UNCHANGED <<events, event, config, phase, attempt, existing>>
  BY <1>2, Zenon DEF stack
<1>4. installed' = installed /\ secret' = secret /\ late' = late
  BY <1>2, Zenon DEF stack
<1>5. Changes(r) /\ inflight' \in {inflight, inflight \ {r}}
  <2>1. CASE LoseRequest(r) \/ Abandon(r)
    BY <2>1 DEF LoseRequest, Abandon, Changes
  <2>2. CASE LoseAnswer(r)
    BY <2>2 DEF LoseAnswer, Perform, Changes
  <2>3. QED
    BY <2>1, <2>2, Zenon DEF Fails
<1>6. QED
  BY <1>2, <1>3, <1>4, <1>5, Zenon

(* The kinds of step.                                                      *)
LEMMA StepKinds ==
  ASSUME [Next]_vars
  PROVE  \/ UNCHANGED vars
         \/ \E kind \in {"Create", "Update"}, cfg \in Configs, auth \in BOOLEAN : Begin(kind, cfg, auth)
         \/ DeleteEvent
         \/ \E r \in inflight : Serve(r)
         \/ \E r \in inflight : Fails(r)
         \/ Resolve \/ Retry \/ GiveUp
<1>1. CASE CreateEvent
  BY <1>1, Zenon DEF CreateEvent
<1>2. CASE UpdateEvent
  <2>1. Configs \ {config} \subseteq Configs
    OBVIOUS
  <2>2. QED
    BY <1>2, <2>1, Zenon DEF UpdateEvent
<1>3. QED
  BY <1>1, <1>2, Zenon DEF Next, Served, Handler, Fails

-----------------------------------------------------------------------------
(* Type correctness.                                                       *)

LEMMA SentAsks ==
  ASSUME NEW op \in Ops \cup {"idle"}, NEW n \in 1..NumOfAttempts, NEW ev \in 1..MaxEvents,
         NEW cfg \in [Groups -> SUBSET Roles], NEW old \in SUBSET Groups, NEW auth,
         NEW r \in Requests(op, n, ev, cfg, old, auth)
  PROVE  Asks(r)
<1>1. /\ r.op = op /\ r.key \in Keys(op, cfg, old) /\ r.body = Body(op, r.key, cfg)
      /\ r.event = ev /\ r.attempt = n
  BY RequestFacts
<1>2. op # "idle"
  BY <1>1, KeyFacts
<1>3. CASE op \in {"role", "permissions"}
  BY <1>1, <1>3, KeyFacts DEF Asks, Body, Ops
<1>4. CASE op \in {"map", "unmap"}
  BY <1>1, <1>4, KeyFacts DEF Asks, Body, Ops, Named
<1>5. CASE op = "list"
  BY <1>1, <1>5, KeyFacts DEF Asks, Body, Ops
<1>6. QED
  BY <1>2, <1>3, <1>4, <1>5 DEF Ops

LEMMA ChangesTypes ==
  ASSUME Types, NEW r, Asks(r), Changes(r)
  PROVE  /\ roles' \subseteq Roles
         /\ permissions' \in [Roles -> {{}} \cup {permissionMap[k] : k \in Roles}]
         /\ mappings' \in [Groups -> SUBSET Roles]
<1> USE DEF Types, Asks
<1>1. CASE UNCHANGED druid
  BY <1>1 DEF druid
<1>2. CASE r.op = "role" /\ roles' = roles \cup {r.key} /\ UNCHANGED <<permissions, mappings>>
  BY <1>2
<1>3. CASE /\ r.op = "permissions" /\ permissions' = [permissions EXCEPT ![r.key] = r.body]
           /\ UNCHANGED <<roles, mappings>>
  <2>1. r.body \in {{}} \cup {permissionMap[k] : k \in Roles}
    BY <1>3
  <2>2. QED
    BY <1>3, <2>1
<1>4. CASE /\ r.op \in {"map", "unmap"} /\ mappings' = [mappings EXCEPT ![r.key] = r.body]
           /\ UNCHANGED <<roles, permissions>>
  BY <1>4
<1>5. QED
  BY <1>1, <1>2, <1>3, <1>4 DEF Changes

(* The three steps that send requests, as one.                             *)
LEMMA SendKinds ==
  ASSUME Types, Quiet, Resolve \/ Retry \/ GiveUp
  PROVE  \E op \in Ops \cup {"idle"}, n \in 1..NumOfAttempts :
           Send(op, n, existing) /\ phase # "idle" /\ events > 0
<1>1. phase # "idle"
  <2>1. Resolve => phase # "idle"
    BY DEF Resolve
  <2>2. Retry \/ GiveUp => backingOff
    BY Zenon DEF Retry, GiveUp
  <2>3. QED
    BY <2>1, <2>2, Zenon DEF Quiet
<1>2. events > 0 /\ phase \in Ops /\ 1 \in 1..NumOfAttempts
  BY <1>1, BoundsAssumption DEF Types, Quiet
<1>3. Follow[phase] \in Ops \cup {"idle"}
  BY <1>2, FollowFacts DEF Ops
<1>4. CASE Resolve
  BY <1>1, <1>2, <1>3, <1>4, Zenon DEF Resolve
<1>5. CASE Retry
  <2>1. Send(phase, attempt + 1, existing) /\ attempt < NumOfAttempts
    BY <1>5, Zenon DEF Retry
  <2>2. attempt + 1 \in 1..NumOfAttempts
    BY <2>1, BoundsAssumption DEF Types
  <2>3. QED
    BY <1>1, <1>2, <2>1, <2>2, Zenon
<1>6. CASE GiveUp
  <2>1. Send(IF event = "Create" THEN Follow[phase] ELSE "idle", 1, existing)
    BY <1>6, Zenon DEF GiveUp
  <2>2. (IF event = "Create" THEN Follow[phase] ELSE "idle") \in Ops \cup {"idle"}
    BY <1>3
  <2>3. QED
    BY <1>1, <1>2, <2>1, <2>2, Zenon
<1>7. QED
  BY <1>4, <1>5, <1>6

(* What the three steps leave alone.                                       *)
LEMMA SendFrame ==
  ASSUME Resolve \/ Retry \/ GiveUp
  PROVE  /\ UNCHANGED <<roles, permissions, mappings, events, event, config, faults>>
         /\ installed' = installed /\ secret' = secret
         /\ late' = late \/ late' = (late \/ inflight # {})
<1>1. UNCHANGED <<druid, stack, faults>> /\ (late' = late \/ late' = (late \/ inflight # {}))
  BY Zenon DEF Resolve, Retry, GiveUp
<1>2. QED
  BY <1>1, Zenon DEF druid, stack

LEMMA TypesInit == Init => Types
BY BoundsAssumption DEF Init, Types, Ops, NoFaults

LEMMA TypesStep == Types /\ Quiet /\ [Next]_vars => Types'
<1> SUFFICES ASSUME Types, Quiet, [Next]_vars PROVE Types'
  OBVIOUS
<1>1. CASE UNCHANGED vars
  BY <1>1 DEF vars, druid, stack, handler, Types
<1>2. ASSUME NEW kind \in {"Create", "Update"}, NEW cfg \in Configs, NEW auth \in BOOLEAN,
             Begin(kind, cfg, auth)
      PROVE  Types'
  <2> DEFINE first == IF kind = "Create" THEN "role" ELSE "list"
  <2>1. /\ events < MaxEvents /\ events' = events + 1 /\ event' = kind /\ config' = cfg
        /\ phase' = first /\ attempt' = 1 /\ existing' = {} /\ faults' = NoFaults
        /\ inflight' = inflight \cup Requests(first, 1, events + 1, cfg, {}, auth)
        /\ UNCHANGED <<roles, permissions, mappings>>
    BY <1>2, BeginEffect DEF druid
  <2>2. /\ first \in Ops /\ cfg \in [Groups -> SUBSET Roles] /\ 1 \in 1..NumOfAttempts
        /\ events + 1 \in 1..MaxEvents /\ {} \in SUBSET Groups
    BY <2>1, ConfigsAssumption, BoundsAssumption DEF Ops, Types
  <2>3. \A r \in Requests(first, 1, events + 1, cfg, {}, auth) : Asks(r)
    <3> HIDE DEF first
    <3>1. QED
      BY <2>2, SentAsks
  <2>4. \A r \in inflight' : Asks(r)'
    <3>1. \A r \in inflight' : Asks(r)
      BY <2>1, <2>3 DEF Types
    <3>2. QED
      BY <3>1 DEF Asks
  <2>5. faults' \in [Ops -> Nat]
    BY <2>1 DEF NoFaults
  <2>6. QED
    BY <2>1, <2>2, <2>4, <2>5 DEF Types
<1>3. CASE DeleteEvent
  BY <1>3, BoundsAssumption DEF DeleteEvent, Types, druid, handler, Asks
<1>4. ASSUME NEW r \in inflight, Serve(r) PROVE Types'
  <2>1. /\ Changes(r) /\ inflight' = inflight \ {r}
        /\ UNCHANGED <<events, event, config, phase, attempt, faults>>
        /\ existing' = existing \/ existing' = Named(mappings)
    BY <1>4, ServeEffect
  <2>2. Asks(r)
    BY DEF Types
  <2>3. existing' \subseteq Groups
    BY <2>1 DEF Types, Named
  <2>4. \A k \in inflight' : Asks(k)'
    BY <2>1 DEF Types, Asks
  <2>5. QED
    BY <2>1, <2>2, <2>3, <2>4, ChangesTypes DEF Types
<1>5. ASSUME NEW r \in inflight, Fails(r) PROVE Types'
  <2>1. /\ Changes(r) /\ inflight' \in {inflight, inflight \ {r}}
        /\ faults' = [faults EXCEPT ![r.op] = @ + 1]
        /\ UNCHANGED <<events, event, config, phase, attempt, existing>>
    BY <1>5, FailEffect
  <2>2. Asks(r)
    BY DEF Types
  <2>3. faults' \in [Ops -> Nat]
    BY <2>1, <2>2 DEF Types, Asks
  <2>4. \A k \in inflight' : Asks(k)'
    BY <2>1 DEF Types, Asks
  <2>5. QED
    BY <2>1, <2>2, <2>3, <2>4, ChangesTypes DEF Types
<1>6. CASE Resolve \/ Retry \/ GiveUp
  <2> events > 0
    BY <1>6, SendKinds
  <2>1. PICK op \in Ops \cup {"idle"}, n \in 1..NumOfAttempts : Send(op, n, existing)
    BY <1>6, SendKinds, Zenon
  <2>2. /\ phase' = op /\ attempt' = n /\ existing' = existing
        /\ inflight' = inflight \cup Requests(op, n, events, config, existing, secret)
    BY <2>1, Zenon DEF Send
  <2>3. UNCHANGED <<roles, permissions, mappings, events, event, config, faults>>
    BY <1>6, SendFrame
  <2>4. events \in 1..MaxEvents /\ config \in [Groups -> SUBSET Roles] /\ existing \in SUBSET Groups
    BY <2>1, BoundsAssumption DEF Types
  <2>5. \A r \in Requests(op, n, events, config, existing, secret) : Asks(r)
    BY <2>4, SentAsks
  <2>6. \A r \in inflight' : Asks(r)'
    <3>1. \A r \in inflight' : Asks(r)
      BY <2>2, <2>5 DEF Types
    <3>2. QED
      BY <3>1 DEF Asks
  <2>7. QED
    BY <2>2, <2>3, <2>6 DEF Types
<1>7. QED
  BY <1>1, <1>2, <1>3, <1>4, <1>5, <1>6, StepKinds

LEMMA FlagsInit == Init => Flags
<1> SUFFICES ASSUME Init PROVE Flags
  OBVIOUS
<1>1. /\ installed = FALSE /\ secret = TRUE /\ backingOff = FALSE /\ late = FALSE
      /\ inflight = {}
  BY Zenon DEF Init
<1>2. QED
  BY <1>1, Zenon DEF Flags

LEMMA FlagsStep == Types /\ Quiet /\ Flags /\ [Next]_vars => Flags'
<1> SUFFICES ASSUME Types, Quiet, Flags, [Next]_vars PROVE Flags'
  OBVIOUS
<1>1. CASE UNCHANGED vars
  <2>1. /\ installed' = installed /\ secret' = secret /\ backingOff' = backingOff
        /\ late' = late /\ inflight' = inflight
    BY <1>1, Zenon DEF vars, stack, handler
  <2>2. QED
    BY <2>1, Zenon DEF Flags
<1>2. ASSUME NEW kind \in {"Create", "Update"}, NEW cfg \in Configs, NEW auth \in BOOLEAN,
             Begin(kind, cfg, auth)
      PROVE  Flags'
  <2> DEFINE first == IF kind = "Create" THEN "role" ELSE "list"
  <2>1. /\ installed' = TRUE /\ secret' = auth /\ backingOff' = FALSE /\ late' \in BOOLEAN
        /\ inflight' = inflight \cup Requests(first, 1, events + 1, cfg, {}, auth)
    BY <1>2, BeginEffect, Zenon
  <2> HIDE DEF first
  <2>2. \A r \in Requests(first, 1, events + 1, cfg, {}, auth) : r.auth = auth
    BY AuthFact, Zenon
  <2>3. QED
    BY <1>2, <2>1, <2>2, Zenon DEF Flags
<1>3. CASE DeleteEvent
  <2>1. /\ installed' = FALSE /\ secret' = secret /\ backingOff' = backingOff
        /\ late' = late /\ inflight' = inflight
    BY <1>3, Zenon DEF DeleteEvent, handler
  <2>2. QED
    BY <2>1, Zenon DEF Flags
<1>4. ASSUME NEW r \in inflight, Serve(r) PROVE Flags'
  <2>1. /\ installed' = installed /\ secret' = secret /\ late' = late /\ backingOff' \in BOOLEAN
        /\ inflight' = inflight \ {r}
    BY <1>4, ServeEffect, Zenon
  <2>2. QED
    BY <2>1, Zenon DEF Flags
<1>5. ASSUME NEW r \in inflight, Fails(r) PROVE Flags'
  <2>1. /\ installed' = installed /\ secret' = secret /\ late' = late /\ backingOff' = TRUE
        /\ inflight' \in {inflight, inflight \ {r}}
    BY <1>5, FailEffect, Zenon
  <2>2. QED
    BY <2>1, Zenon DEF Flags
<1>6. CASE Resolve \/ Retry \/ GiveUp
  <2>1. PICK op \in Ops \cup {"idle"}, n \in 1..NumOfAttempts : Send(op, n, existing)
    BY <1>6, SendKinds, Zenon
  <2>2. /\ backingOff' = FALSE
        /\ inflight' = inflight \cup Requests(op, n, events, config, existing, secret)
    BY <2>1, SendEffect, Zenon
  <2>3. \A r \in Requests(op, n, events, config, existing, secret) : r.auth = secret
    BY AuthFact, Zenon
  <2>4. /\ installed' = installed /\ secret' = secret
        /\ late' = late \/ late' = (late \/ inflight # {})
    BY <1>6, SendFrame, Zenon
  <2>5. QED
    BY <2>2, <2>3, <2>4, Zenon DEF Flags
<1>7. QED
  BY <1>1, <1>2, <1>3, <1>4, <1>5, <1>6, StepKinds, Zenon

LEMMA QuietInit == Init => Quiet
<1> SUFFICES ASSUME Init PROVE Quiet
  OBVIOUS
<1>1. ~backingOff /\ phase = "idle" /\ inflight = {} /\ mappings = [g \in Groups |-> {}]
  BY Zenon DEF Init
<1>2. QED
  BY <1>1 DEF Quiet, Empty

LEMMA QuietStep == Types /\ Quiet /\ [Next]_vars => Quiet'
<1> SUFFICES ASSUME Types, Quiet, [Next]_vars PROVE Quiet'
  OBVIOUS
<1>1. ASSUME UNCHANGED <<phase, events, inflight, mappings>>, backingOff' = backingOff
      PROVE  Quiet'
  BY <1>1, Zenon DEF Quiet, Empty
<1>2. ASSUME phase' # "idle" \/ ~backingOff', events' > 0 PROVE Quiet'
  BY <1>2 DEF Quiet
<1>3. CASE UNCHANGED vars
  BY <1>1, <1>3, Zenon DEF vars, druid, stack, handler
<1>4. ASSUME NEW kind \in {"Create", "Update"}, NEW cfg \in Configs, NEW auth \in BOOLEAN,
             Begin(kind, cfg, auth)
      PROVE  Quiet'
  <2>1. ~backingOff' /\ events' = events + 1
    BY <1>4, BeginEffect, Zenon
  <2>2. events' > 0
    BY <2>1, BoundsAssumption DEF Types
  <2>3. QED
    BY <1>2, <2>1, <2>2, Zenon
<1>5. CASE DeleteEvent
  <2>1. phase = "idle" /\ phase' = phase /\ backingOff' = backingOff /\ events' = events + 1
    BY <1>5, Zenon DEF DeleteEvent, handler
  <2>2. ~backingOff'
    BY <2>1, Zenon DEF Quiet
  <2>3. events' > 0
    BY <2>1, BoundsAssumption DEF Types
  <2>4. QED
    BY <1>2, <2>2, <2>3, Zenon
<1>6. ASSUME NEW r \in inflight, phase' = phase, events' = events, Current(r) \/ (~backingOff => ~backingOff')
      PROVE  Quiet'
  <2>1. events > 0
    BY BoundsAssumption DEF Quiet, Types
  <2>2. phase' # "idle" \/ ~backingOff'
    <3>1. CASE Current(r)
      BY <1>6, <3>1 DEF Current, Types, Asks, Ops
    <3>2. CASE ~backingOff => ~backingOff'
      BY <1>6, <3>2, Zenon DEF Quiet
    <3>3. QED
      BY <1>6, <3>1, <3>2, Zenon
  <2>3. QED
    BY <1>2, <1>6, <2>1, <2>2
<1>7. ASSUME NEW r \in inflight, Serve(r) PROVE Quiet'
  <2>1. phase' = phase /\ events' = events /\ (Current(r) \/ (~backingOff => ~backingOff'))
    BY <1>7, ServeEffect, Zenon
  <2>2. QED
    BY <1>6, <2>1, Zenon
<1>8. ASSUME NEW r \in inflight, Fails(r) PROVE Quiet'
  <2>1. phase' = phase /\ events' = events /\ Current(r)
    BY <1>8, FailEffect, Zenon
  <2>2. QED
    BY <1>6, <2>1, Zenon
<1>9. CASE Resolve \/ Retry \/ GiveUp
  <2>1. PICK op \in Ops \cup {"idle"}, n \in 1..NumOfAttempts : Send(op, n, existing) /\ events > 0
    BY <1>9, SendKinds, Zenon
  <2>2. ~backingOff' /\ events' = events
    BY <1>9, <2>1, SendEffect, SendFrame, Zenon
  <2>3. QED
    BY <1>2, <2>1, <2>2, Zenon
<1>10. QED
  BY <1>3, <1>4, <1>5, <1>7, <1>8, <1>9, StepKinds, Zenon

(* No attempt is made beyond NUM_OF_ATTEMPTS, and every request asks for   *)
(* what its kind does, whatever fails and arrives late.                    *)
THEOREM RolesTyped == Spec => []TypeOK
<1>1. Types /\ Flags => TypeOK
  <2> SUFFICES ASSUME Types, Flags PROVE TypeOK
    OBVIOUS
  <2>1. ASSUME NEW r \in inflight PROVE RequestOK(r)
    <3>1. Asks(r) /\ r.auth \in BOOLEAN
      BY <2>1, Zenon DEF Types, Flags
    <3>2. r.key \in Groups \cup Roles \cup {"all"}
      BY <3>1 DEF Asks, Ops
    <3>3. QED
      BY <3>1, <3>2, Zenon DEF RequestOK, Asks
  <2>2. QED
    BY <2>1, Zenon DEF TypeOK, Types, Flags
<1>2. QED
  BY <1>1, TypesInit, TypesStep, FlagsInit, FlagsStep, QuietInit, QuietStep, PTL DEF Spec

-----------------------------------------------------------------------------
(* The steps of a calm event.                                              *)

(* Accepts, but for the credentials.                                       *)
Allowed(r) ==
  /\ r.op = "role"        => r.key \notin roles
  /\ r.op = "permissions" => r.key \in roles
  /\ r.op = "map"         => mappings[r.key] = {}
  /\ r.op = "unmap"       => mappings[r.key] # {}

(* What a request with credentials makes of Druid.                         *)
Effect(r) ==
  /\ r.op = "role" => roles' = roles \cup {r.key} /\ UNCHANGED <<permissions, mappings>>
  /\ r.op = "permissions" =>
       /\ UNCHANGED <<roles, mappings>>
       /\ permissions' = IF r.key \in roles THEN [permissions EXCEPT ![r.key] = r.body] ELSE permissions
  /\ r.op = "map" =>
       /\ UNCHANGED <<roles, permissions>>
       /\ mappings' = IF mappings[r.key] = {} THEN [mappings EXCEPT ![r.key] = r.body] ELSE mappings
  /\ r.op = "unmap" =>
       /\ UNCHANGED <<roles, permissions>>
       /\ mappings' = IF mappings[r.key] # {} THEN [mappings EXCEPT ![r.key] = r.body] ELSE mappings
  /\ r.op = "list" => UNCHANGED <<roles, permissions, mappings>>

LEMMA CalmServe ==
  ASSUME Types, Authorised, NEW r \in inflight, Serve(r)
  PROVE  /\ Effect(r) /\ inflight' = inflight \ {r}
         /\ UNCHANGED <<events, event, config, phase, attempt, faults>>
         /\ backingOff => backingOff'
         /\ ~backingOff' => ~backingOff /\ (Current(r) => Allowed(r))
         /\ ~backingOff /\ (Current(r) => Allowed(r)) => ~backingOff'
         /\ r.op # "list" => existing' = existing
         /\ r.op = "list" /\ Current(r) => existing' = Named(mappings)
<1>1. Asks(r)
  BY DEF Types
<1>2. r.auth
  BY Zenon DEF Authorised
<1>3. Accepts(r) <=> Allowed(r)
  BY <1>2, Zenon DEF Accepts, Allowed
<1>4. Effect(r)
  <2>1. /\ Allowed(r) => Perform(r)
        /\ ~Allowed(r) => UNCHANGED druid
    BY <1>3, ServeEffect, Zenon
  <2>2. CASE Allowed(r)
    BY <1>1, <2>1, <2>2 DEF Perform, Effect, druid, Asks, Allowed, Ops
  <2>3. CASE ~Allowed(r)
    <3>1. UNCHANGED <<roles, permissions, mappings>>
      BY <2>1, <2>3 DEF druid
    <3>2. QED
      BY <1>1, <2>3, <3>1 DEF Effect, Allowed, Asks, Ops
  <2>4. QED
    BY <2>2, <2>3
<1>5. r.op = "list" => Allowed(r)
  BY DEF Allowed
<1>6. QED
  BY <1>3, <1>4, <1>5, ServeEffect, Zenon

LEMMA CalmFail ==
  ASSUME Types, NEW r \in inflight, Fails(r)
  PROVE  /\ \/ Effect(r) /\ inflight' = inflight \ {r}
            \/ UNCHANGED <<roles, permissions, mappings>> /\ inflight' \in {inflight, inflight \ {r}}
         /\ r.op = phase /\ ~backingOff /\ backingOff'
         /\ \A op \in Ops : faults'[op] = IF op = phase THEN faults[op] + 1 ELSE faults[op]
         /\ UNCHANGED <<events, event, config, phase, attempt, existing>>
<1>1. Asks(r)
  BY DEF Types
<1>2. r.op = phase /\ ~backingOff /\ backingOff' /\ faults' = [faults EXCEPT ![r.op] = @ + 1]
  BY FailEffect, Zenon DEF Current
<1>3. \A op \in Ops : faults'[op] = IF op = phase THEN faults[op] + 1 ELSE faults[op]
  <2>1. faults \in [Ops -> Nat] /\ r.op = phase /\ faults' = [faults EXCEPT ![r.op] = @ + 1]
    BY <1>2, Zenon DEF Types
  <2>2. QED
    BY <2>1
<1>4. \/ Effect(r) /\ inflight' = inflight \ {r}
      \/ UNCHANGED <<roles, permissions, mappings>> /\ inflight' \in {inflight, inflight \ {r}}
  <2>1. CASE LoseRequest(r) \/ Abandon(r)
    BY <2>1 DEF LoseRequest, Abandon, druid
  <2>2. CASE LoseAnswer(r)
    <3>1. Perform(r) /\ inflight' = inflight \ {r} /\ Allowed(r)
      BY <2>2, Zenon DEF LoseAnswer, Accepts, Allowed
    <3>2. QED
      BY <1>1, <3>1 DEF Perform, Effect, Allowed, Asks, Ops, druid
  <2>3. QED
    BY <2>1, <2>2, Zenon DEF Fails
<1>5. UNCHANGED <<events, event, config, phase, attempt, existing>>
  BY FailEffect, Zenon
<1>6. QED
  BY <1>2, <1>3, <1>4, <1>5, Zenon

(* Requests are sent: old ones stay, the new ones are those of the attempt. *)
Sends(op, n) ==
  /\ phase' = op /\ attempt' = n /\ ~backingOff' /\ existing' = existing
  /\ inflight \subseteq inflight'
  /\ \A r \in inflight' \ inflight :
       /\ r.op = op /\ r.key \in Keys(op, config, existing) /\ r.body = Body(op, r.key, config)
       /\ r.event = events /\ r.attempt = n
  /\ \A k \in Keys(op, config, existing) : \E r \in inflight' : r.op = op /\ r.key = k
  /\ \A r, s \in inflight' \ inflight : r.key = s.key => r = s
  /\ UNCHANGED <<roles, permissions, mappings, events, event, config, faults>>

LEMMA SendsFact ==
  ASSUME NEW op, NEW n, Send(op, n, existing), Resolve \/ Retry \/ GiveUp
  PROVE  Sends(op, n)
<1> DEFINE new == Requests(op, n, events, config, existing, secret)
<1>1. phase' = op /\ attempt' = n /\ existing' = existing /\ inflight' = inflight \cup new
  BY Zenon DEF Send
<1>2. ~backingOff'
  BY Zenon DEF Send
<1>3. UNCHANGED <<roles, permissions, mappings, events, event, config, faults>>
  BY SendFrame, Zenon
<1>4. /\ \A r \in new :
           /\ r.op = op /\ r.key \in Keys(op, config, existing) /\ r.body = Body(op, r.key, config)
           /\ r.event = events /\ r.attempt = n
      /\ \A k \in Keys(op, config, existing) : \E r \in new : r.op = op /\ r.key = k
      /\ \A r, s \in new : r.key = s.key => r = s
  BY RequestFacts
<1> HIDE DEF new
<1>5. /\ inflight \subseteq inflight' /\ inflight' \ inflight \subseteq new /\ new \subseteq inflight'
  BY <1>1
<1>6. QED
  BY <1>1, <1>2, <1>3, <1>4, <1>5, Zenon DEF Sends

LEMMA CalmResolve ==
  ASSUME OwnRequests, Resolve
  PROVE  /\ phase # "idle" /\ ~backingOff /\ \A r \in inflight : r.op # phase
         /\ Sends(Follow[phase], 1)
<1>1. /\ phase # "idle" /\ ~backingOff /\ ~\E r \in inflight : Current(r)
      /\ Send(Follow[phase], 1, existing)
  BY Zenon DEF Resolve
<1>2. ASSUME NEW r \in inflight, r.op = phase PROVE FALSE
  <2>1. r.event = events /\ r.attempt = attempt
    BY <1>2, Zenon DEF OwnRequests
  <2>2. QED
    BY <1>1, <1>2, <2>1, Zenon DEF Current
<1>3. QED
  BY <1>1, <1>2, SendsFact, Zenon

LEMMA CalmRetry ==
  ASSUME Retry, ~late'
  PROVE  /\ phase # "list" /\ backingOff /\ inflight = {} /\ attempt < NumOfAttempts
         /\ Sends(phase, attempt + 1)
<1>1. /\ phase # "list" /\ backingOff /\ attempt < NumOfAttempts /\ inflight = {}
      /\ Send(phase, attempt + 1, existing)
  BY Zenon DEF Retry
<1>2. QED
  BY <1>1, SendsFact, Zenon

LEMMA CalmGiveUp ==
  ASSUME GiveUp
  PROVE  /\ phase = "list" \/ attempt = NumOfAttempts
         /\ backingOff
         /\ Sends(IF event = "Create" THEN Follow[phase] ELSE "idle", 1)
<1>1. /\ phase = "list" \/ attempt = NumOfAttempts
      /\ backingOff
      /\ Send(IF event = "Create" THEN Follow[phase] ELSE "idle", 1, existing)
  BY Zenon DEF GiveUp
<1>2. QED
  BY <1>1, SendsFact, Zenon

-----------------------------------------------------------------------------
(* The requests on their way are those of the event.                       *)

(* Fewer requests of the same attempt.                                     *)
LEMMA OwnFewer ==
  ASSUME OwnRequests, inflight' \subseteq inflight,
         UNCHANGED <<events, event, config, phase, attempt>>
  PROVE  OwnRequests'
<1>1. Sent' = Sent
  BY DEF Sent
<1>2. QED
  BY <1>1 DEF OwnRequests, Named

LEMMA OwnServe ==
  ASSUME Types, Authorised, OwnRequests, NEW r \in inflight, Serve(r) \/ Fails(r)
  PROVE  OwnRequests'
<1>1. /\ inflight' \subseteq inflight
      /\ UNCHANGED <<events, event, config, phase, attempt>>
  <2>1. CASE Serve(r)
    BY <2>1, CalmServe
  <2>2. CASE Fails(r)
    BY <2>2, CalmFail
  <2>3. QED
    BY <2>1, <2>2
<1>2. QED
  BY <1>1, OwnFewer

(* The phase that follows, and what may be on its way then.                *)
LEMMA OwnSend ==
  ASSUME Types, OwnRequests, NEW op, NEW n \in Nat, Sends(op, n),
         \/ op = phase /\ inflight = {} /\ phase # "idle"
         \/ op = Follow[phase] /\ phase # "idle"
         \/ op = "idle"
  PROVE  OwnRequests'
<1>1. /\ op \in IF event = "Create" THEN {"role", "permissions", "map", "idle"}
                ELSE {"list", "unmap", "map", "idle"}
      /\ op # phase => Sent \subseteq Sent'
      /\ op # phase /\ phase # "idle" /\ op # "idle" => op \notin Sent
      /\ op # "idle" => op \in Sent'
  BY FollowFacts DEF OwnRequests, Sends, Sent
<1>2. ASSUME NEW r \in inflight' \ inflight
      PROVE  /\ r.event = events' /\ r.op \in Sent'
             /\ r.op = phase' => r.attempt = attempt'
             /\ r.op = "map" => r.key \in Named(config)' /\ r.body = config'[r.key]
             /\ r.op = "unmap" => r.body = {}
  <2>1. r.op = op /\ r.key \in Keys(op, config, existing) /\ op # "idle"
    BY <1>2, KeyFacts DEF Sends
  <2>2. r.op = "map" => r.key \in Named(config)' /\ r.body = config'[r.key]
    BY <1>2, <2>1, KeyFacts DEF Sends, Named, Body
  <2>3. r.op = "unmap" => r.body = {}
    BY <1>2, <2>1 DEF Sends, Body
  <2>4. QED
    BY <1>1, <1>2, <2>1, <2>2, <2>3 DEF Sends
<1>3. ASSUME NEW r \in inflight
      PROVE  /\ r.event = events' /\ r.op \in Sent' /\ r.op # phase'
             /\ r.op = "map" => r.key \in Named(config)' /\ r.body = config'[r.key]
             /\ r.op = "unmap" => r.body = {}
  <2>1. op # phase \/ phase = "idle"
    BY <1>3, FollowFacts DEF OwnRequests
  <2>2. r.op \in Ops /\ r.op # "idle"
    BY DEF Types, Asks, Ops
  <2>3. Sent \subseteq Sent'
    BY <1>1, <2>1 DEF Sent, Sends
  <2>4. QED
    BY <1>1, <2>1, <2>2, <2>3 DEF OwnRequests, Sends, Named
<1>4. QED
  BY <1>1, <1>2, <1>3 DEF OwnRequests, Sends

LEMMA AuthorisedSend ==
  ASSUME Types, Quiet, Authorised, secret, Resolve \/ Retry \/ GiveUp
  PROVE  Authorised'
<1>1. PICK op \in Ops \cup {"idle"}, n \in 1..NumOfAttempts : Send(op, n, existing)
  BY SendKinds, Zenon
<1>2. inflight' = inflight \cup Requests(op, n, events, config, existing, secret)
  BY <1>1, SendEffect, Zenon
<1>3. \A r \in Requests(op, n, events, config, existing, secret) : r.auth = secret
  BY AuthFact, Zenon
<1>4. QED
  BY <1>2, <1>3, Zenon DEF Authorised

-----------------------------------------------------------------------------
(* The roles of a first Create.                                            *)

(* No step of a request leads further away from the goal.                  *)
LEMMA RolesKept ==
  ASSUME Types, NEW r \in inflight, Effect(r), inflight' = inflight \ {r}
  PROVE  /\ RolesComing => RolesComing'
         /\ roles = Roles => roles' = Roles
<1>1. roles \subseteq roles' /\ roles' \subseteq Roles /\ (r.op = "role" => r.key \in roles')
  BY DEF Effect, Types, Asks, Ops
<1>2. QED
  BY <1>1 DEF RolesComing

LEMMA RolesServe ==
  ASSUME Types, Authorised, RolesInv, NEW r \in inflight, Serve(r)
  PROVE  RolesInv'
<1>1. /\ RolesComing => RolesComing'
      /\ roles = Roles => roles' = Roles
  BY CalmServe, RolesKept
<1>2. phase' = phase /\ attempt' = attempt /\ faults' = faults /\ (backingOff => backingOff')
  BY CalmServe, Zenon
<1>3. QED
  BY <1>1, <1>2, Zenon DEF RolesInv, Tried

LEMMA RolesFail ==
  ASSUME Types, RolesInv, NEW r \in inflight, Fails(r)
  PROVE  RolesInv'
<1>1. /\ r.op = phase /\ ~backingOff /\ backingOff' /\ phase' = phase /\ attempt' = attempt
      /\ \A op \in Ops : faults'[op] = IF op = phase THEN faults[op] + 1 ELSE faults[op]
  BY CalmFail, Zenon
<1>2. \/ Effect(r) /\ inflight' = inflight \ {r}
      \/ UNCHANGED <<roles, permissions, mappings>> /\ inflight' \in {inflight, inflight \ {r}}
  BY CalmFail, Zenon
<1>3. roles = Roles => roles' = Roles
  BY <1>2, RolesKept
<1>4. CASE phase = "role"
  <2>1. \/ roles = Roles
        \/ attempt - 1 <= faults["role"]
    BY <1>1, <1>4, Zenon DEF RolesInv, Tried
  <2>2. faults'["role"] = faults["role"] + 1 /\ faults["role"] \in Nat /\ attempt \in Nat
    BY <1>1, <1>4, BoundsAssumption DEF Types, Ops
  <2>3. roles' = Roles \/ attempt' <= faults'["role"]
    BY <1>1, <1>3, <2>1, <2>2
  <2>4. QED
    BY <1>1, <1>4, <2>3, Zenon DEF RolesInv, Tried
<1>5. CASE phase # "role"
  <2>1. faults'["role"] = faults["role"]
    BY <1>1, <1>5 DEF Ops
  <2>2. RolesComing => RolesComing'
    <3>1. CASE Effect(r) /\ inflight' = inflight \ {r}
      BY <3>1, RolesKept
    <3>2. CASE UNCHANGED <<roles, permissions, mappings>> /\ inflight' \in {inflight, inflight \ {r}}
      BY <1>1, <1>5, <3>2 DEF RolesComing
    <3>3. QED
      BY <1>2, <3>1, <3>2
  <2>3. QED
    BY <1>1, <1>5, <2>1, <2>2, Zenon DEF RolesInv
<1>6. QED
  BY <1>4, <1>5

LEMMA RolesSend ==
  ASSUME Types, Quiet, OwnRequests, RolesInv, event = "Create", ~late',
         Resolve \/ Retry \/ GiveUp
  PROVE  RolesInv'
<1>1. ASSUME NEW op, NEW n, Sends(op, n), RolesComing PROVE RolesComing'
  BY <1>1 DEF Sends, RolesComing
<1>2. ASSUME NEW op, NEW n, Sends(op, n), op # "role", phase = "role" => RolesComing
      PROVE  RolesInv'
  <2>1. phase' = op /\ faults' = faults
    BY <1>2, Zenon DEF Sends
  <2>2. faults["role"] < NumOfAttempts => RolesComing
    BY <1>2, Zenon DEF RolesInv
  <2>3. QED
    BY <1>1, <1>2, <2>1, <2>2, Zenon DEF RolesInv
<1>3. CASE Resolve
  <2>1. /\ phase # "idle" /\ ~backingOff /\ Sends(Follow[phase], 1)
    BY <1>3, CalmResolve
  <2>2. Follow[phase] # "role"
    BY <2>1, FollowFacts DEF OwnRequests
  <2>3. phase = "role" => RolesComing
    BY <2>1, Zenon DEF RolesInv, Tried, RolesComing
  <2>4. QED
    BY <1>2, <2>1, <2>2, <2>3, Zenon
<1>4. CASE Retry
  <2>1. backingOff /\ inflight = {} /\ Sends(phase, attempt + 1)
    BY <1>4, CalmRetry, Zenon
  <2>2. CASE phase # "role"
    BY <1>2, <2>1, <2>2, Zenon
  <2>3. CASE phase = "role"
    <3>1. phase' = "role" /\ attempt' = attempt + 1 /\ ~backingOff' /\ faults' = faults /\ roles' = roles
      BY <2>1, <2>3, Zenon DEF Sends
    <3>2. RolesComing'
      BY <2>1, <2>3, KeyFacts DEF Sends, RolesComing
    <3>3. RolesComing => roles = Roles
      BY <2>1 DEF RolesComing, Types
    <3>4. roles = Roles \/ attempt <= faults["role"]
      BY <2>1, <2>3, <3>3, Zenon DEF RolesInv, Tried
    <3>5. roles' = Roles \/ attempt' - 1 <= faults'["role"]
      BY <3>1, <3>4 DEF Types
    <3>6. QED
      BY <3>1, <3>2, <3>5, Zenon DEF RolesInv, Tried
  <2>4. QED
    BY <2>2, <2>3
<1>5. CASE GiveUp
  <2>1. /\ phase = "list" \/ attempt = NumOfAttempts
        /\ backingOff /\ Sends(Follow[phase], 1)
    BY <1>5, CalmGiveUp
  <2>2. phase # "idle" /\ Follow[phase] # "role"
    <3>1. phase # "idle"
      BY <2>1, Zenon DEF Quiet
    <3>2. QED
      BY <3>1, FollowFacts DEF OwnRequests
  <2>3. phase' = Follow[phase] /\ faults' = faults
    BY <2>1, Zenon DEF Sends
  <2>4. faults["role"] < NumOfAttempts => RolesComing
    <3>1. CASE phase = "role"
      <4>1. roles = Roles \/ attempt <= faults["role"] \/ RolesComing
        BY <2>1, <3>1, Zenon DEF RolesInv, Tried
      <4>2. attempt = NumOfAttempts /\ faults["role"] \in Nat /\ attempt \in Nat
        BY <2>1, <3>1, BoundsAssumption DEF Types, Ops
      <4>3. roles = Roles => RolesComing
        BY DEF RolesComing
      <4>4. QED
        BY <4>1, <4>2, <4>3
    <3>2. CASE phase # "role"
      BY <3>2, Zenon DEF RolesInv
    <3>3. QED
      BY <3>1, <3>2
  <2>5. QED
    BY <1>1, <2>1, <2>2, <2>3, <2>4, Zenon DEF RolesInv
<1>6. QED
  BY <1>3, <1>4, <1>5

LEMMA RolesBegin ==
  ASSUME NEW cfg, NEW auth, Begin("Create", cfg, auth)
  PROVE  RolesInv'
<1>1. /\ phase' = "role" /\ attempt' = 1 /\ ~backingOff' /\ faults' = NoFaults
      /\ inflight' = inflight \cup Requests("role", 1, events + 1, cfg, {}, auth)
  BY Zenon DEF Begin
<1>2. RolesComing'
  <2>1. \A k \in Roles : \E r \in Requests("role", 1, events + 1, cfg, {}, auth) :
          r.op = "role" /\ r.key = k
    BY RequestFacts, KeyFacts
  <2>2. QED
    BY <1>1, <2>1 DEF RolesComing
<1>3. attempt' - 1 <= faults'["role"]
  BY <1>1 DEF NoFaults, Ops
<1>4. QED
  BY <1>1, <1>2, <1>3, Zenon DEF RolesInv, Tried

-----------------------------------------------------------------------------
(* Their permissions.                                                      *)

LEMMA PermsKept ==
  ASSUME Types, NEW r \in inflight, Effect(r), inflight' = inflight \ {r},
         r.op = "permissions" => r.key \in roles
  PROVE  /\ PermsComing => PermsComing'
         /\ PermsDone => PermsDone'
         /\ roles = Roles => roles' = Roles
<1>1. roles = Roles => roles' = Roles
  BY RolesKept
<1>2. ASSUME NEW k \in Roles, permissions[k] = permissionMap[k] \/ (r.op = "permissions" /\ r.key = k)
      PROVE  permissions'[k] = permissionMap[k]
  BY <1>2 DEF Effect, Types, Asks, Ops
<1>3. QED
  BY <1>1, <1>2 DEF PermsComing, PermsDone

(* What the invariant says once the roles are made.                        *)
PermsPart ==
  /\ phase = "permissions" /\ attempt = 1 => backingOff \/ PermsComing
  /\ phase = "permissions" /\ attempt > 1 =>
       roles = Roles /\ Tried("permissions", attempt - 1, PermsComing, PermsDone)
  /\ phase \notin {"role", "permissions"} /\ faults["permissions"] + 1 < NumOfAttempts =>
       /\ PermsComing
       /\ roles = Roles \/ \A r \in inflight : r.op # "permissions"

LEMMA PermsSplit == PermsInv <=> (faults["role"] < NumOfAttempts => PermsPart)
BY Zenon DEF PermsInv, PermsPart

LEMMA PermsServe ==
  ASSUME Types, Authorised, OwnRequests, PermsPart, NEW r \in inflight, Serve(r)
  PROVE  PermsPart'
<1>1. /\ Effect(r) /\ inflight' = inflight \ {r}
      /\ phase' = phase /\ attempt' = attempt /\ faults' = faults
      /\ backingOff => backingOff'
      /\ ~backingOff' => ~backingOff /\ (Current(r) => Allowed(r))
  BY CalmServe, Zenon
<1>2. CASE phase = "permissions" /\ attempt = 1
  <2>1. ASSUME ~backingOff' PROVE PermsComing'
    <3>1. ~backingOff /\ (Current(r) => Allowed(r))
      BY <1>1, <2>1
    <3>2. r.op = "permissions" => Current(r)
      BY <1>2, <3>1, Zenon DEF Current, OwnRequests
    <3>3. r.op = "permissions" => r.key \in roles
      BY <3>1, <3>2, Zenon DEF Allowed
    <3>4. PermsComing
      BY <1>2, <3>1, Zenon DEF PermsPart
    <3>5. QED
      BY <1>1, <3>3, <3>4, PermsKept
  <2>2. QED
    BY <1>1, <1>2, <2>1 DEF PermsPart
<1>3. CASE phase = "permissions" /\ attempt > 1
  <2>1. roles = Roles /\ Tried("permissions", attempt - 1, PermsComing, PermsDone)
    BY <1>3, Zenon DEF PermsPart
  <2>2. r.op = "permissions" => r.key \in roles
    BY <2>1 DEF Types, Asks
  <2>3. /\ PermsComing => PermsComing'
        /\ PermsDone => PermsDone'
        /\ roles' = Roles
    BY <1>1, <2>1, <2>2, PermsKept
  <2>4. Tried("permissions", attempt - 1, PermsComing, PermsDone)'
    BY <1>1, <2>1, <2>3, Zenon DEF Tried
  <2>5. ~(attempt' = 1)
    BY <1>1, <1>3 DEF Types
  <2>6. QED
    BY <1>1, <1>3, <2>3, <2>4, <2>5, Zenon DEF PermsPart
<1>4. CASE phase # "permissions"
  <2>1. ASSUME phase \notin {"role", "permissions"}, faults["permissions"] + 1 < NumOfAttempts
        PROVE  PermsComing' /\ (roles' = Roles \/ \A k \in inflight' : k.op # "permissions")
    <3>1. PermsComing /\ (roles = Roles \/ \A k \in inflight : k.op # "permissions")
      BY <2>1, Zenon DEF PermsPart
    <3>2. r.op = "permissions" => r.key \in roles
      BY <3>1 DEF Types, Asks
    <3>3. PermsComing' /\ (roles = Roles => roles' = Roles)
      BY <1>1, <3>1, <3>2, PermsKept
    <3>4. QED
      BY <1>1, <3>1, <3>3
  <2>2. QED
    BY <1>1, <1>4, <2>1, Zenon DEF PermsPart
<1>5. attempt = 1 \/ attempt > 1
  BY BoundsAssumption DEF Types
<1>6. QED
  BY <1>2, <1>3, <1>4, <1>5

LEMMA PermsFail ==
  ASSUME Types, PermsPart, NEW r \in inflight, Fails(r)
  PROVE  PermsPart'
<1>1. /\ r.op = phase /\ ~backingOff /\ backingOff' /\ phase' = phase /\ attempt' = attempt
      /\ \A op \in Ops : faults'[op] = IF op = phase THEN faults[op] + 1 ELSE faults[op]
  BY CalmFail, Zenon
<1>2. \/ Effect(r) /\ inflight' = inflight \ {r}
      \/ UNCHANGED <<roles, permissions, mappings>> /\ inflight' \in {inflight, inflight \ {r}}
  BY CalmFail, Zenon
<1>3. roles = Roles => roles' = Roles
  BY <1>2, RolesKept
<1>4. CASE phase = "permissions" /\ attempt > 1
  <2>1. /\ roles = Roles
        /\ PermsDone \/ attempt - 1 - 1 <= faults["permissions"]
    BY <1>1, <1>4, Zenon DEF PermsPart, Tried
  <2>2. PermsDone => PermsDone'
    <3>1. r.op = "permissions" => r.key \in roles
      BY <2>1 DEF Types, Asks
    <3>2. CASE Effect(r) /\ inflight' = inflight \ {r}
      BY <3>1, <3>2, PermsKept
    <3>3. CASE UNCHANGED <<roles, permissions, mappings>>
      BY <3>3 DEF PermsDone
    <3>4. QED
      BY <1>2, <3>2, <3>3
  <2>3. faults'["permissions"] = faults["permissions"] + 1 /\ faults["permissions"] \in Nat
    BY <1>1, <1>4 DEF Types, Ops
  <2>4. PermsDone' \/ attempt' - 1 <= faults'["permissions"]
    BY <1>1, <2>1, <2>2, <2>3 DEF Types
  <2>5. ~(attempt' = 1)
    BY <1>1, <1>4 DEF Types
  <2>6. QED
    BY <1>1, <1>3, <1>4, <2>1, <2>4, <2>5, Zenon DEF PermsPart, Tried
<1>5. CASE phase = "permissions" /\ attempt = 1
  BY <1>1, <1>5 DEF PermsPart
<1>6. CASE phase # "permissions"
  <2>1. ASSUME phase \notin {"role", "permissions"}, faults["permissions"] + 1 < NumOfAttempts
        PROVE  PermsComing' /\ (roles' = Roles \/ \A k \in inflight' : k.op # "permissions")
    <3>1. PermsComing /\ (roles = Roles \/ \A k \in inflight : k.op # "permissions")
      BY <2>1, Zenon DEF PermsPart
    <3>2. PermsComing'
      <4>1. CASE Effect(r) /\ inflight' = inflight \ {r}
        BY <1>1, <1>6, <3>1, <4>1, PermsKept
      <4>2. CASE UNCHANGED <<roles, permissions, mappings>> /\ inflight' \in {inflight, inflight \ {r}}
        BY <1>1, <1>6, <3>1, <4>2 DEF PermsComing
      <4>3. QED
        BY <1>2, <4>1, <4>2
    <3>3. QED
      BY <1>2, <1>3, <3>1, <3>2
  <2>2. faults'["permissions"] = faults["permissions"]
    BY <1>1, <1>6 DEF Ops
  <2>3. QED
    BY <1>1, <1>6, <2>1, <2>2, Zenon DEF PermsPart
<1>7. attempt = 1 \/ attempt > 1
  BY BoundsAssumption DEF Types
<1>8. QED
  BY <1>4, <1>5, <1>6, <1>7

LEMMA PermsSend ==
  ASSUME Types, Quiet, OwnRequests, RolesInv, PermsPart, faults["role"] < NumOfAttempts,
         event = "Create", ~late', Resolve \/ Retry \/ GiveUp
  PROVE  PermsPart'
<1>1. ASSUME NEW op, NEW n, Sends(op, n), PermsComing PROVE PermsComing'
  BY <1>1 DEF Sends, PermsComing
(* The permissions are asked for.                                          *)
<1>2. ASSUME NEW n, Sends("permissions", n) PROVE PermsComing'
  BY <1>2, KeyFacts DEF Sends, PermsComing
(* They have been, and something else is asked for.                        *)
<1>3. ASSUME NEW op, NEW n, Sends(op, n), op \notin {"role", "permissions"},
             faults["permissions"] + 1 < NumOfAttempts =>
               PermsComing /\ (roles = Roles \/ \A r \in inflight : r.op # "permissions")
      PROVE  PermsPart'
  <2>1. phase' = op /\ faults' = faults /\ roles' = roles
    BY <1>3, Zenon DEF Sends
  <2>2. \A r \in inflight' \ inflight : r.op # "permissions"
    BY <1>3 DEF Sends
  <2>3. faults'["permissions"] + 1 < NumOfAttempts =>
          PermsComing' /\ (roles' = Roles \/ \A r \in inflight' : r.op # "permissions")
    BY <1>1, <1>3, <2>1, <2>2
  <2>4. QED
    BY <1>3, <2>1, <2>3 DEF PermsPart
<1>4. ASSUME Sends("permissions", 1) PROVE PermsPart'
  <2>1. phase' = "permissions" /\ attempt' = 1 /\ PermsComing'
    BY <1>2, <1>4 DEF Sends
  <2>2. QED
    BY <2>1 DEF PermsPart
<1>5. phase \in {"role", "permissions", "map", "idle"}
  BY DEF OwnRequests
<1>6. attempt = 1 \/ attempt > 1
  BY BoundsAssumption DEF Types
<1>7. CASE Resolve
  <2>1. /\ phase # "idle" /\ ~backingOff /\ \A r \in inflight : r.op # phase
        /\ Sends(Follow[phase], 1)
    BY <1>7, CalmResolve
  <2>2. CASE phase = "role"
    BY <1>4, <2>1, <2>2, FollowFacts
  <2>3. CASE phase = "permissions"
    <3>1. PermsComing
      <4>1. CASE attempt = 1
        BY <2>1, <2>3, <4>1, Zenon DEF PermsPart
      <4>2. CASE attempt > 1
        <5>1. PermsDone \/ PermsComing
          BY <2>1, <2>3, <4>2, Zenon DEF PermsPart, Tried
        <5>2. QED
          BY <5>1 DEF PermsDone, PermsComing
      <4>3. QED
        BY <1>6, <4>1, <4>2
    <3>2. QED
      BY <1>3, <2>1, <2>3, <3>1, FollowFacts
  <2>4. CASE phase = "map"
    <3>1. faults["permissions"] + 1 < NumOfAttempts =>
            PermsComing /\ (roles = Roles \/ \A r \in inflight : r.op # "permissions")
      BY <2>4 DEF PermsPart
    <3>2. QED
      BY <1>3, <2>1, <2>4, <3>1, FollowFacts
  <2>5. QED
    BY <1>5, <2>1, <2>2, <2>3, <2>4
<1>8. CASE Retry
  <2>1. backingOff /\ inflight = {} /\ Sends(phase, attempt + 1)
    BY <1>8, CalmRetry, Zenon
  <2>2. CASE phase = "role"
    BY <2>1, <2>2 DEF Sends, PermsPart
  <2>3. CASE phase = "permissions"
    <3>1. phase' = "permissions" /\ attempt' = attempt + 1 /\ ~backingOff' /\ UNCHANGED <<roles, permissions, faults>>
      BY <2>1, <2>3 DEF Sends
    <3>2. PermsComing'
      BY <1>2, <2>1, <2>3
    <3>3. roles = Roles
      <4>1. RolesComing
        BY <2>3, Zenon DEF RolesInv
      <4>2. QED
        BY <2>1, <4>1 DEF RolesComing, Types
    <3>4. PermsDone \/ attempt - 1 <= faults["permissions"]
      <4>1. CASE attempt = 1
        BY <4>1 DEF Types, Ops
      <4>2. CASE attempt > 1
        <5>1. PermsDone \/ attempt - 1 <= faults["permissions"] \/ PermsComing
          BY <2>1, <2>3, <4>2, Zenon DEF PermsPart, Tried
        <5>2. PermsComing => PermsDone
          BY <2>1 DEF PermsComing, PermsDone
        <5>3. QED
          BY <5>1, <5>2
      <4>3. QED
        BY <1>6, <4>1, <4>2
    <3>5. PermsDone' \/ attempt' - 1 - 1 <= faults'["permissions"]
      BY <3>1, <3>4 DEF PermsDone, Types
    <3>6. Tried("permissions", attempt - 1, PermsComing, PermsDone)'
      BY <3>1, <3>2, <3>5, Zenon DEF Tried
    <3>7. ~(attempt' = 1)
      BY <3>1, <1>6 DEF Types
    <3>8. QED
      BY <3>1, <3>3, <3>6, <3>7, Zenon DEF PermsPart
  <2>4. CASE phase = "map"
    <3>1. faults["permissions"] + 1 < NumOfAttempts =>
            PermsComing /\ (roles = Roles \/ \A r \in inflight : r.op # "permissions")
      BY <2>4 DEF PermsPart
    <3>2. QED
      BY <1>3, <2>1, <2>4, <3>1
  <2>5. phase # "idle"
    BY <2>1, Zenon DEF Quiet
  <2>6. QED
    BY <1>5, <2>2, <2>3, <2>4, <2>5
<1>9. CASE GiveUp
  <2>1. /\ phase = "list" \/ attempt = NumOfAttempts
        /\ backingOff /\ Sends(Follow[phase], 1)
    BY <1>9, CalmGiveUp
  <2>2. CASE phase = "role"
    BY <1>4, <2>1, <2>2, FollowFacts
  <2>3. CASE phase = "permissions"
    <3>1. ASSUME faults["permissions"] + 1 < NumOfAttempts PROVE PermsComing /\ roles = Roles
      <4>1. attempt = NumOfAttempts /\ attempt > 1 /\ ~(attempt - 1 <= faults["permissions"])
        BY <2>1, <2>3, <3>1, BoundsAssumption DEF Types, Ops
      <4>2. roles = Roles /\ (PermsDone \/ PermsComing)
        BY <2>1, <2>3, <4>1, Zenon DEF PermsPart, Tried
      <4>3. QED
        BY <4>2 DEF PermsDone, PermsComing
    <3>2. QED
      BY <1>3, <2>1, <2>3, <3>1, FollowFacts
  <2>4. CASE phase = "map"
    <3>1. faults["permissions"] + 1 < NumOfAttempts =>
            PermsComing /\ (roles = Roles \/ \A r \in inflight : r.op # "permissions")
      BY <2>4 DEF PermsPart
    <3>2. QED
      BY <1>3, <2>1, <2>4, <3>1, FollowFacts
  <2>5. phase # "idle"
    BY <2>1, Zenon DEF Quiet
  <2>6. QED
    BY <1>5, <2>2, <2>3, <2>4, <2>5
<1>10. QED
  BY <1>7, <1>8, <1>9

-----------------------------------------------------------------------------
(* The mappings, of a first Create or of an Update whose list and          *)
(* deletions do not fail.                                                  *)

(* A request that may be on its way when the mappings are posted.          *)
LEMMA MapsKept ==
  ASSUME Types, Clean, NEW r \in inflight, Effect(r), inflight' = inflight \ {r}, config' = config,
         r.op = "map" => r.key \in Named(config) /\ r.body = config[r.key]
  PROVE  /\ Clean'
         /\ MapsComing => MapsComing'
         /\ mappings = config => mappings' = config'
<1>1. r.op # "unmap" /\ Asks(r)
  BY DEF Clean, Types
<1>2. CASE r.op # "map"
  <2>1. mappings' = mappings
    BY <1>1, <1>2 DEF Effect, Asks, Ops
  <2>2. QED
    BY <1>2, <2>1 DEF Clean, MapsComing
<1>3. CASE r.op = "map"
  <2>1. r.key \in Groups /\ config[r.key] # {} /\ r.body = config[r.key]
    BY <1>3 DEF Named
  <2>2. \A g \in Groups : mappings'[g] = IF g = r.key THEN config[g] ELSE mappings[g]
    BY <1>3, <2>1 DEF Effect, Types, Clean
  <2>3. mappings' \in [Groups -> SUBSET Roles]
    BY <1>1, ChangesTypes, <1>3 DEF Effect, Changes, druid, Types, Asks
  <2>4. Clean' /\ (MapsComing => MapsComing')
    BY <2>1, <2>2 DEF Clean, MapsComing
  <2>5. mappings = config => mappings' = config
    BY <2>2, <2>3 DEF Types
  <2>6. QED
    BY <2>4, <2>5
<1>4. QED
  BY <1>2, <1>3

(* Which of the two it is.                                                 *)
LEMMA ClearedPhase ==
  ASSUME OwnRequests, Cleared
  PROVE  \/ event = "Create" /\ phase \in {"role", "permissions", "map", "idle"}
         \/ event = "Update" /\ phase \in {"list", "unmap", "map", "idle"}
BY DEF OwnRequests, Cleared, First

LEMMA MapsServe ==
  ASSUME Types, Authorised, OwnRequests, Cleared, MapsInv, NEW r \in inflight, Serve(r)
  PROVE  MapsInv'
<1>1. /\ Effect(r) /\ inflight' = inflight \ {r}
      /\ phase' = phase /\ attempt' = attempt /\ faults' = faults /\ config' = config
      /\ backingOff => backingOff'
      /\ ~backingOff /\ (Current(r) => Allowed(r)) => ~backingOff'
      /\ r.op = "list" /\ Current(r) => existing' = Named(mappings)
  BY CalmServe, Zenon
<1>2. Asks(r) /\ r.op \in Sent
  BY DEF Types, OwnRequests
<1>3. CASE phase \in {"role", "permissions"}
  <2>1. r.op \in {"role", "permissions"}
    BY <1>2, <1>3 DEF Sent
  <2>2. mappings' = mappings
    BY <1>1, <2>1 DEF Effect
  <2>3. QED
    BY <1>1, <1>3, <2>2 DEF MapsInv, Empty
<1>4. CASE phase = "list"
  <2>1. r.op = "list" /\ ~backingOff
    BY <1>2, <1>4 DEF Sent, MapsInv
  <2>2. mappings' = mappings
    BY <1>1, <2>1 DEF Effect
  <2>3. Current(r)
    BY <1>4, <2>1, Zenon DEF Current, OwnRequests
  <2>4. ~backingOff' /\ existing' = Named(mappings)
    <3>1. Allowed(r)
      BY <2>1 DEF Allowed
    <3>2. QED
      BY <1>1, <2>1, <2>3, <3>1, Zenon
  <2>5. Named(mappings)' = Named(mappings)
    BY <2>2 DEF Named
  <2>6. QED
    BY <1>1, <1>4, <2>4, <2>5 DEF MapsInv
<1>5. CASE phase = "unmap"
  <2>1. /\ ~backingOff
        /\ \A g \in Groups : mappings[g] = {} \/ \E k \in inflight : k.op = "unmap" /\ k.key = g
        /\ \A k \in inflight : k.op = "unmap" => mappings[k.key] # {}
        /\ \A k, l \in inflight : k.op = "unmap" /\ l.op = "unmap" /\ k.key = l.key => k = l
    BY <1>5, Zenon DEF MapsInv
  <2>2. r.op \in {"list", "unmap"}
    BY <1>2, <1>5 DEF Sent
  <2>3. Allowed(r)
    BY <2>1, <2>2 DEF Allowed
  <2>4. ~backingOff'
    BY <1>1, <2>1, <2>3, Zenon
  <2>5. \A k \in inflight' : k.op = "unmap" => mappings'[k.key] # {}
    BY <1>1, <1>2, <2>1, <2>2 DEF Effect, Types, Asks
  <2>6. \A g \in Groups : mappings'[g] = {} \/ \E k \in inflight' : k.op = "unmap" /\ k.key = g
    <3>1. CASE r.op = "list"
      BY <1>1, <2>1, <3>1 DEF Effect
    <3>2. CASE r.op = "unmap"
      <4>1. r.body = {} /\ r.key \in Groups
        BY <1>2, <3>2 DEF OwnRequests, Asks
      <4>2. \A g \in Groups : mappings'[g] = IF g = r.key THEN {} ELSE mappings[g]
        BY <1>1, <2>1, <3>2, <4>1 DEF Effect, Types
      <4>3. QED
        BY <1>1, <2>1, <4>2
    <3>3. QED
      BY <2>2, <3>1, <3>2
  <2>7. \A k, l \in inflight' : k.op = "unmap" /\ l.op = "unmap" /\ k.key = l.key => k = l
    BY <1>1, <2>1
  <2>8. phase' = "unmap"
    BY <1>1, <1>5
  <2>9. QED
    BY <2>4, <2>5, <2>6, <2>7, <2>8 DEF MapsInv
<1>6. CASE phase \in {"map", "idle"}
  <2>1. Clean
    BY <1>6 DEF MapsInv
  <2>2. r.op = "map" => r.key \in Named(config) /\ r.body = config[r.key]
    BY DEF OwnRequests
  <2>3. /\ Clean'
        /\ MapsComing => MapsComing'
        /\ mappings = config => mappings' = config'
    BY <1>1, <2>1, <2>2, MapsKept
  <2>4. CASE phase = "map"
    <3>1. Tried("map", attempt, MapsComing, mappings = config)
      BY <2>4, Zenon DEF MapsInv
    <3>2. Tried("map", attempt, MapsComing, mappings = config)'
      BY <1>1, <2>3, <3>1, Zenon DEF Tried
    <3>3. phase' = "map"
      BY <1>1, <2>4
    <3>4. phase' # "idle" /\ phase' \notin {"role", "permissions"} /\ phase' # "list" /\ phase' # "unmap"
      BY <3>3
    <3>5. QED
      BY <2>3, <3>2, <3>4, Zenon DEF MapsInv
  <2>5. CASE phase = "idle"
    BY <1>1, <2>3, <2>5 DEF MapsInv
  <2>6. QED
    BY <1>6, <2>4, <2>5
<1>7. QED
  BY <1>3, <1>4, <1>5, <1>6 DEF Types, Ops

LEMMA MapsFail ==
  ASSUME Types, OwnRequests, Cleared, Cleared', MapsInv, NEW r \in inflight, Fails(r)
  PROVE  MapsInv'
<1>1. /\ r.op = phase /\ ~backingOff /\ backingOff' /\ phase' = phase /\ attempt' = attempt
      /\ \A op \in Ops : faults'[op] = IF op = phase THEN faults[op] + 1 ELSE faults[op]
      /\ event' = event /\ config' = config
  BY CalmFail, Zenon
<1>2. \/ Effect(r) /\ inflight' = inflight \ {r}
      \/ UNCHANGED <<roles, permissions, mappings>> /\ inflight' \in {inflight, inflight \ {r}}
  BY CalmFail, Zenon
<1>3. Asks(r) /\ phase # "idle"
  BY <1>1 DEF Types, Asks, Ops
<1>4. phase \notin {"list", "unmap"}
  <2>1. ASSUME phase \in {"list", "unmap"} PROVE FALSE
    <3>1. event = "Update"
      BY <2>1, ClearedPhase
    <3>2. faults'["list"] = 0 /\ faults'["unmap"] = 0
      BY <1>1, <3>1 DEF Cleared, First
    <3>3. QED
      BY <1>1, <2>1, <3>2 DEF Types, Ops
  <2>2. QED
    BY <2>1
<1>5. CASE phase \in {"role", "permissions"}
  <2>1. mappings' = mappings
    BY <1>1, <1>2, <1>5 DEF Effect
  <2>2. QED
    BY <1>1, <1>5, <2>1 DEF MapsInv, Empty
<1>6. CASE phase = "map"
  <2>1. Clean /\ (mappings = config \/ attempt - 1 <= faults["map"])
    BY <1>1, <1>6, Zenon DEF MapsInv, Tried
  <2>2. r.op = "map" => r.key \in Named(config) /\ r.body = config[r.key]
    BY DEF OwnRequests
  <2>3. Clean' /\ (mappings = config => mappings' = config')
    <3>1. CASE Effect(r) /\ inflight' = inflight \ {r}
      BY <1>1, <2>1, <2>2, <3>1, MapsKept
    <3>2. CASE UNCHANGED <<roles, permissions, mappings>> /\ inflight' \in {inflight, inflight \ {r}}
      BY <1>1, <2>1, <3>2 DEF Clean
    <3>3. QED
      BY <1>2, <3>1, <3>2
  <2>4. faults'["map"] = faults["map"] + 1 /\ faults["map"] \in Nat
    BY <1>1, <1>6 DEF Types, Ops
  <2>5. mappings' = config' \/ attempt' <= faults'["map"]
    BY <1>1, <2>1, <2>3, <2>4 DEF Types
  <2>6. Tried("map", attempt, MapsComing, mappings = config)'
    BY <1>1, <2>5, Zenon DEF Tried
  <2>7. phase' # "idle" /\ phase' \notin {"role", "permissions"} /\ phase' # "list" /\ phase' # "unmap"
    BY <1>1, <1>6
  <2>8. QED
    BY <2>3, <2>6, <2>7, Zenon DEF MapsInv
<1>7. QED
  BY <1>3, <1>4, <1>5, <1>6 DEF Types, Ops

(* The mappings are posted to a Druid that has none, or anew.              *)
LEMMA MapsPosted ==
  ASSUME NEW n, Sends("map", n), Clean
  PROVE  MapsComing'
<1>1. ASSUME NEW g \in Groups, config[g] # {}
      PROVE  \E r \in inflight' : r.op = "map" /\ r.key = g
  BY <1>1, KeyFacts DEF Sends, Named
<1>2. mappings' = mappings /\ config' = config
  BY DEF Sends
<1>3. QED
  BY <1>1, <1>2 DEF MapsComing, Clean

LEMMA MapsSend ==
  ASSUME Types, Quiet, OwnRequests, Cleared, MapsInv, ~late', Resolve \/ Retry \/ GiveUp
  PROVE  MapsInv'
<1>1. \/ event = "Create" /\ phase \in {"role", "permissions", "map", "idle"}
      \/ event = "Update" /\ phase \in {"list", "unmap", "map", "idle"}
  BY ClearedPhase
(* From a Druid without mappings to their posts.                           *)
<1>2. ASSUME Sends("map", 1), Empty, \A r \in inflight : r.op # "unmap" PROVE MapsInv'
  <2>1. Clean
    BY <1>2 DEF Clean, Empty
  <2>2. MapsComing'
    BY <1>2, <2>1, MapsPosted
  <2>3. Clean'
    BY <1>2, <2>1 DEF Clean, Sends
  <2>4. phase' = "map" /\ attempt' - 1 <= faults'["map"] /\ ~backingOff'
    BY <1>2 DEF Sends, Types, Ops
  <2>5. phase' # "idle" /\ phase' \notin {"role", "permissions"} /\ phase' # "list" /\ phase' # "unmap"
    BY <2>4
  <2>6. QED
    BY <2>2, <2>3, <2>4, <2>5, Zenon DEF MapsInv, Tried
(* From their posts to the answer.                                         *)
<1>3. ASSUME Sends("idle", 1), Clean, faults["map"] < NumOfAttempts => MapsComing PROVE MapsInv'
  <2>1. inflight' = inflight
    BY <1>3, KeyFacts DEF Sends
  <2>2. Clean' /\ (MapsComing => MapsComing')
    BY <1>3, <2>1 DEF Sends, Clean, MapsComing
  <2>3. phase' = "idle" /\ faults' = faults
    BY <1>3 DEF Sends
  <2>4. QED
    BY <1>3, <2>2, <2>3 DEF MapsInv
<1>4. ASSUME NEW op \in {"role", "permissions"}, NEW n, Sends(op, n), Empty PROVE MapsInv'
  BY <1>4 DEF Sends, MapsInv, Empty
<1>5. CASE Resolve
  <2>1. /\ phase # "idle" /\ ~backingOff /\ \A r \in inflight : r.op # phase
        /\ Sends(Follow[phase], 1)
    BY <1>5, CalmResolve
  <2>2. CASE phase = "role"
    BY <1>4, <2>1, <2>2, FollowFacts DEF MapsInv
  <2>3. CASE phase = "permissions"
    BY <1>2, <2>1, <2>3, FollowFacts DEF MapsInv, OwnRequests, Sent
  <2>4. CASE phase = "list"
    <3>1. existing = Named(mappings) /\ Sends("unmap", 1) /\ inflight = {}
      BY <2>1, <2>4, FollowFacts DEF MapsInv, OwnRequests, Sent
    <3>2. phase' = "unmap" /\ ~backingOff' /\ mappings' = mappings
      BY <3>1 DEF Sends
    <3>3. \A g \in Groups : mappings'[g] = {} \/ \E k \in inflight' : k.op = "unmap" /\ k.key = g
      BY <3>1, KeyFacts DEF Sends, Named
    <3>4. \A k \in inflight' : k.op = "unmap" => mappings'[k.key] # {}
      BY <3>1, KeyFacts DEF Sends, Named
    <3>5. \A k, l \in inflight' : k.op = "unmap" /\ l.op = "unmap" /\ k.key = l.key => k = l
      BY <3>1 DEF Sends
    <3>6. QED
      BY <3>2, <3>3, <3>4, <3>5 DEF MapsInv
  <2>5. CASE phase = "unmap"
    <3>1. Empty
      BY <2>1, <2>5 DEF MapsInv, Empty
    <3>2. QED
      BY <1>2, <2>1, <2>5, <3>1, FollowFacts
  <2>6. CASE phase = "map"
    <3>1. Clean /\ (mappings = config \/ MapsComing)
      BY <2>1, <2>6, Zenon DEF MapsInv, Tried
    <3>2. MapsComing
      BY <3>1 DEF MapsComing
    <3>3. QED
      BY <1>3, <2>1, <2>6, <3>1, <3>2, FollowFacts
  <2>7. QED
    BY <1>1, <2>1, <2>2, <2>3, <2>4, <2>5, <2>6
<1>6. CASE Retry
  <2>1. phase # "list" /\ backingOff /\ inflight = {} /\ Sends(phase, attempt + 1)
    BY <1>6, CalmRetry, Zenon
  <2>2. CASE phase \in {"role", "permissions"}
    BY <1>4, <2>1, <2>2 DEF MapsInv
  <2>3. phase # "unmap" /\ phase # "idle"
    BY <2>1, Zenon DEF MapsInv, Quiet
  <2>4. CASE phase = "map"
    <3>1. Clean /\ (mappings = config \/ attempt <= faults["map"] \/ MapsComing)
      BY <2>1, <2>4, Zenon DEF MapsInv, Tried
    <3>2. MapsComing => mappings = config
      BY <2>1 DEF MapsComing, Types
    <3>3. MapsComing'
      BY <2>1, <2>4, <3>1, MapsPosted DEF Types
    <3>4. /\ phase' = "map" /\ ~backingOff' /\ attempt' = attempt + 1
          /\ UNCHANGED <<mappings, config, faults>>
      BY <2>1, <2>4 DEF Sends
    <3>5. Clean'
      BY <2>1, <2>4, <3>1, <3>4, KeyFacts DEF Clean, Sends
    <3>6. mappings' = config' \/ attempt' - 1 <= faults'["map"]
      BY <3>1, <3>2, <3>4 DEF Types
    <3>7. phase' # "idle" /\ phase' \notin {"role", "permissions"} /\ phase' # "list" /\ phase' # "unmap"
      BY <3>4
    <3>8. QED
      BY <3>3, <3>4, <3>5, <3>6, <3>7, Zenon DEF MapsInv, Tried
  <2>5. QED
    BY <1>1, <2>1, <2>2, <2>3, <2>4
<1>7. CASE GiveUp
  <2>1. /\ phase = "list" \/ attempt = NumOfAttempts
        /\ backingOff
        /\ Sends(IF event = "Create" THEN Follow[phase] ELSE "idle", 1)
    BY <1>7, CalmGiveUp, Zenon
  <2>2. phase \notin {"list", "unmap", "idle"}
    BY <2>1, Zenon DEF MapsInv, Quiet
  <2>3. CASE phase = "role"
    BY <1>1, <1>4, <2>1, <2>3, FollowFacts DEF MapsInv
  <2>4. CASE phase = "permissions"
    BY <1>1, <1>2, <2>1, <2>4, FollowFacts DEF MapsInv, OwnRequests, Sent
  <2>5. CASE phase = "map"
    <3>1. Clean /\ (mappings = config \/ attempt <= faults["map"] \/ MapsComing)
      BY <2>1, <2>5, Zenon DEF MapsInv, Tried
    <3>2. faults["map"] < NumOfAttempts => MapsComing
      <4>1. attempt = NumOfAttempts /\ faults["map"] \in Nat /\ attempt \in Nat
        BY <2>1, <2>5, BoundsAssumption DEF Types, Ops
      <4>2. mappings = config => MapsComing
        BY DEF MapsComing
      <4>3. QED
        BY <3>1, <4>1, <4>2
    <3>3. Sends("idle", 1)
      BY <2>1, <2>5, FollowFacts
    <3>4. QED
      BY <1>3, <3>1, <3>2, <3>3
  <2>6. QED
    BY <1>1, <2>2, <2>3, <2>4, <2>5
<1>8. QED
  BY <1>5, <1>6, <1>7

-----------------------------------------------------------------------------
(* Every step.                                                             *)

LEMMA CalmBegin ==
  ASSUME Types, Quiet, NEW kind \in {"Create", "Update"}, NEW cfg, NEW auth,
         Begin(kind, cfg, auth), Calm'
  PROVE  /\ OwnRequests' /\ Authorised'
         /\ First' => RolesInv' /\ PermsInv'
         /\ Cleared' => MapsInv'
<1> DEFINE first == IF kind = "Create" THEN "role" ELSE "list"
<1>1. /\ events' = events + 1 /\ event' = kind /\ config' = cfg /\ secret' = auth
      /\ phase' = first /\ attempt' = 1 /\ ~backingOff'
      /\ inflight' = inflight \cup Requests(first, 1, events + 1, cfg, {}, auth)
      /\ ~late' => inflight = {}
      /\ UNCHANGED druid
  BY BeginEffect, Zenon
<1>2. inflight = {} /\ secret'
  BY <1>1, Zenon DEF Calm
<1>3. inflight' = Requests(first, 1, events + 1, cfg, {}, auth)
  BY <1>1, <1>2
<1>4. mappings' = mappings
  BY <1>1, Zenon DEF druid
<1>5. OwnRequests'
  <2> HIDE DEF first
  <2>1. \A r \in inflight' : r.op = first /\ r.event = events + 1 /\ r.attempt = 1
    BY <1>3, RequestFacts
  <2>2. first \in {"role", "list"} /\ (kind = "Create" <=> first = "role")
    BY DEF first
  <2>3. Sent' = {first}
    BY <1>1, <2>2 DEF Sent
  <2>4. QED
    BY <1>1, <2>1, <2>2, <2>3 DEF OwnRequests
<1>6. Authorised'
  <2> HIDE DEF first
  <2>1. \A r \in inflight' : r.auth = auth
    BY <1>3, AuthFact, Zenon
  <2>2. QED
    BY <1>1, <1>2, <2>1, Zenon DEF Authorised
<1>7. CASE kind = "Create"
  <2>1. phase' = "role"
    BY <1>1, <1>7
  <2>2. RolesInv'
    BY <1>7, RolesBegin
  <2>3. PermsInv'
    BY <2>1 DEF PermsInv
  <2>4. Cleared' => Empty'
    <3>1. ASSUME Cleared' PROVE events = 0
      BY <1>1, <1>7, <3>1 DEF Cleared, First, Types
    <3>2. QED
      BY <1>4, <3>1 DEF Quiet, Empty
  <2>5. Cleared' => MapsInv'
    BY <2>1, <2>4 DEF MapsInv
  <2>6. QED
    BY <1>5, <1>6, <2>2, <2>3, <2>5
<1>8. CASE kind = "Update"
  <2>1. phase' = "list" /\ ~First'
    BY <1>1, <1>8 DEF First
  <2>2. \E r \in inflight' : r.op = "list"
    BY <1>3, <1>8, RequestFacts, KeyFacts
  <2>3. MapsInv'
    BY <1>1, <2>1, <2>2 DEF MapsInv
  <2>4. QED
    BY <1>5, <1>6, <2>1, <2>3
<1>9. QED
  BY <1>7, <1>8

(* What holds of the requests, the roles and the mappings of a calm event. *)
EventInv ==
  /\ OwnRequests /\ Authorised
  /\ First => RolesInv /\ PermsInv
  /\ Cleared => MapsInv

LEMMA CalmServeStep ==
  ASSUME Types, EventInv, NEW r \in inflight, Serve(r)
  PROVE  EventInv'
<1>1. /\ inflight' = inflight \ {r}
      /\ UNCHANGED <<events, event, config, phase, attempt, faults>>
  BY CalmServe, Zenon DEF EventInv
<1>2. OwnRequests' /\ Authorised'
  <2>1. OwnRequests'
    BY OwnServe, Zenon DEF EventInv
  <2>2. Authorised'
    BY <1>1, Zenon DEF EventInv, Authorised
  <2>3. QED
    BY <2>1, <2>2
<1>3. First' => First
  BY <1>1, Zenon DEF First
<1>4. Cleared' => Cleared
  BY <1>1, <1>3, Zenon DEF Cleared
<1>5. First => RolesInv'
  BY RolesServe, Zenon DEF EventInv
<1>6. First => PermsInv'
  <2>1. ASSUME First, faults["role"] < NumOfAttempts PROVE PermsPart'
    BY <2>1, PermsSplit, PermsServe, Zenon DEF EventInv
  <2>2. PermsInv' <=> (faults'["role"] < NumOfAttempts => PermsPart')
    BY Zenon DEF PermsInv, PermsPart
  <2>3. QED
    BY <1>1, <2>1, <2>2, Zenon
<1>7. Cleared => MapsInv'
  BY MapsServe, Zenon DEF EventInv
<1>8. QED
  BY <1>2, <1>3, <1>4, <1>5, <1>6, <1>7, Zenon DEF EventInv

LEMMA CalmFailStep ==
  ASSUME Types, EventInv, NEW r \in inflight, Fails(r)
  PROVE  EventInv'
<1>1. /\ UNCHANGED <<events, event, config, phase, attempt>>
      /\ \A op \in Ops : faults'[op] = IF op = phase THEN faults[op] + 1 ELSE faults[op]
  BY CalmFail, Zenon
<1>2. inflight' \subseteq inflight
  BY CalmFail
<1>3. OwnRequests' /\ Authorised'
  <2>1. OwnRequests'
    BY OwnServe, Zenon DEF EventInv
  <2>2. Authorised'
    BY <1>2, Zenon DEF EventInv, Authorised
  <2>3. QED
    BY <2>1, <2>2
<1>4. First' => First
  BY <1>1, Zenon DEF First
<1>5. \A op \in Ops : faults[op] \in Nat /\ faults'[op] >= faults[op]
  BY <1>1 DEF Types
<1>6. Cleared' => Cleared
  BY <1>1, <1>4, <1>5 DEF Cleared, Ops, First
<1>7. First => RolesInv'
  BY RolesFail, Zenon DEF EventInv
<1>8. First => PermsInv'
  <2>1. ASSUME First, faults["role"] < NumOfAttempts PROVE PermsPart'
    BY <2>1, PermsSplit, PermsFail, Zenon DEF EventInv
  <2>2. PermsInv' <=> (faults'["role"] < NumOfAttempts => PermsPart')
    BY Zenon DEF PermsInv, PermsPart
  <2>3. faults'["role"] < NumOfAttempts => faults["role"] < NumOfAttempts
    <3>1. faults'["role"] \in Nat
      BY <1>1 DEF Types, Ops
    <3>2. QED
      BY <1>5, <3>1, BoundsAssumption DEF Ops
  <2>4. QED
    BY <2>1, <2>2, <2>3, Zenon
<1>9. Cleared' => MapsInv'
  BY <1>6, MapsFail, Zenon DEF EventInv
<1>10. QED
  BY <1>3, <1>4, <1>7, <1>8, <1>9, Zenon DEF EventInv

LEMMA CalmSendStep ==
  ASSUME Types, Quiet, EventInv, secret, ~late', Resolve \/ Retry \/ GiveUp
  PROVE  EventInv'
<1>1. UNCHANGED <<roles, permissions, mappings, events, event, config, faults>>
  BY SendFrame, Zenon
<1>2. OwnRequests'
  <2>1. CASE Resolve
    <3>1. phase # "idle" /\ Sends(Follow[phase], 1)
      BY <2>1, CalmResolve, Zenon DEF EventInv
    <3>2. QED
      BY <3>1, OwnSend DEF EventInv
  <2>2. CASE Retry
    <3>1. inflight = {} /\ Sends(phase, attempt + 1)
      BY <2>2, CalmRetry, Zenon
    <3>2. phase # "idle"
      <4>1. backingOff
        BY <2>2, Zenon DEF Retry
      <4>2. QED
        BY <4>1, Zenon DEF Quiet
    <3>3. attempt + 1 \in Nat
      BY BoundsAssumption DEF Types
    <3>4. QED
      BY <3>1, <3>2, <3>3, OwnSend DEF EventInv
  <2>3. CASE GiveUp
    <3>1. Sends(IF event = "Create" THEN Follow[phase] ELSE "idle", 1) /\ backingOff
      BY <2>3, CalmGiveUp, Zenon
    <3>2. phase # "idle"
      BY <3>1, Zenon DEF Quiet
    <3>3. QED
      BY <3>1, <3>2, OwnSend DEF EventInv
  <2>4. QED
    BY <2>1, <2>2, <2>3
<1>3. Authorised'
  BY AuthorisedSend, Zenon DEF EventInv
<1>4. First' => First
  BY <1>1, Zenon DEF First
<1>5. Cleared' => Cleared
  BY <1>1, <1>4, Zenon DEF Cleared
<1>6. First => RolesInv'
  <2>1. First => event = "Create"
    BY DEF First
  <2>2. QED
    BY <2>1, RolesSend, Zenon DEF EventInv
<1>7. First => PermsInv'
  <2>1. ASSUME First, faults["role"] < NumOfAttempts PROVE PermsPart'
    <3>1. event = "Create"
      BY <2>1 DEF First
    <3>2. QED
      BY <2>1, <3>1, PermsSplit, PermsSend, Zenon DEF EventInv
  <2>2. PermsInv' <=> (faults'["role"] < NumOfAttempts => PermsPart')
    BY Zenon DEF PermsInv, PermsPart
  <2>3. QED
    BY <1>1, <2>1, <2>2, Zenon
<1>8. Cleared => MapsInv'
  BY MapsSend, Zenon DEF EventInv
<1>9. QED
  BY <1>2, <1>3, <1>4, <1>5, <1>6, <1>7, <1>8, Zenon DEF EventInv

LEMMA IInvStep == IInv /\ [Next]_vars => IInv'
<1> SUFFICES ASSUME IInv, [Next]_vars PROVE IInv'
  OBVIOUS
<1>1. Types /\ Flags /\ Quiet /\ (Calm => EventInv)
  BY Zenon DEF IInv, EventInv
<1>2. Types' /\ Flags' /\ Quiet'
  BY <1>1, TypesStep, FlagsStep, QuietStep, Zenon
<1>3. Calm' => EventInv'
  <2> SUFFICES ASSUME Calm' PROVE EventInv'
    OBVIOUS
  <2>1. ASSUME NEW kind \in {"Create", "Update"}, NEW cfg \in Configs, NEW auth \in BOOLEAN,
               Begin(kind, cfg, auth)
        PROVE  EventInv'
    BY <1>1, <2>1, CalmBegin, Zenon DEF EventInv
  <2>2. CASE DeleteEvent
    BY <2>2 DEF DeleteEvent, Calm
  <2>3. ASSUME event' = event, secret' = secret, late => late'
        PROVE  EventInv /\ secret /\ ~late'
    BY <1>1, <2>3, Zenon DEF Calm
  <2>4. ASSUME NEW r \in inflight, Serve(r) PROVE EventInv'
    <3>1. event' = event /\ secret' = secret /\ (late => late')
      BY <2>4, ServeEffect, Zenon
    <3>2. QED
      BY <1>1, <2>3, <2>4, <3>1, CalmServeStep, Zenon
  <2>5. ASSUME NEW r \in inflight, Fails(r) PROVE EventInv'
    <3>1. event' = event /\ secret' = secret /\ (late => late')
      BY <2>5, FailEffect, Zenon
    <3>2. QED
      BY <1>1, <2>3, <2>5, <3>1, CalmFailStep, Zenon
  <2>6. CASE Resolve \/ Retry \/ GiveUp
    <3>1. event' = event /\ secret' = secret
      BY <2>6, SendFrame, Zenon
    <3>2. late' = late \/ late' = (late \/ inflight # {})
      BY <2>6, SendFrame, Zenon
    <3>3. late => late'
      BY <3>2, Zenon
    <3>4. QED
      BY <1>1, <2>3, <2>6, <3>1, <3>3, CalmSendStep, Zenon
  <2>7. CASE UNCHANGED vars
    <3>1. /\ UNCHANGED <<roles, permissions, mappings, events, event, config, phase, attempt,
                         existing, inflight, faults>>
          /\ secret' = secret /\ late' = late /\ backingOff' = backingOff
      BY <2>7, Zenon DEF vars, druid, stack, handler
    <3>2. EventInv
      BY <2>3, <3>1, Zenon
    <3>3. (First => RolesInv') /\ (First => PermsInv') /\ (Cleared => MapsInv') /\ OwnRequests'
      BY <3>1, <3>2 DEF EventInv, RolesInv, PermsInv, MapsInv, OwnRequests, Sent, Tried,
         RolesComing, PermsComing, PermsDone, MapsComing, Clean, Empty, Named
    <3>4. Authorised'
      BY <3>1, <3>2, Zenon DEF EventInv, Authorised
    <3>5. (First' => First) /\ (Cleared' => Cleared)
      BY <3>1 DEF First, Cleared
    <3>6. QED
      BY <3>3, <3>4, <3>5, Zenon DEF EventInv
  <2>8. QED
    BY <2>1, <2>2, <2>4, <2>5, <2>6, <2>7, StepKinds, Zenon
<1>4. QED
  BY <1>2, <1>3, Zenon DEF IInv, EventInv

LEMMA IInvInit == Init => IInv
<1> SUFFICES ASSUME Init PROVE IInv
  OBVIOUS
<1>1. ~Calm
  BY DEF Init, Calm
<1>2. QED
  BY <1>1, TypesInit, FlagsInit, QuietInit, Zenon DEF IInv

(* For any roles, groups and number of attempts: a first Create during     *)
(* which fewer requests fail than there are attempts (one less for the     *)
(* permissions, whose first attempt may overtake the roles) ends with the  *)
(* roles, permissions and mappings of the configuration, although every    *)
(* attempt after a partial success is refused what it has already created. *)
THEOREM FirstCreateCompletes == Spec => []CreateComplete
<1>1. IInv => CreateComplete
  <2> SUFFICES ASSUME IInv, event = "Create", events = 1, Settled,
                      faults["role"] < NumOfAttempts, faults["map"] < NumOfAttempts,
                      faults["permissions"] + 1 < NumOfAttempts
               PROVE  /\ roles = Roles
                      /\ \A r \in Roles : permissions[r] = permissionMap[r]
                      /\ mappings = config
    BY Zenon DEF CreateComplete
  <2>1. phase = "idle" /\ inflight = {} /\ Calm
    BY Zenon DEF Settled, Calm
  <2>2. First /\ Cleared
    BY DEF First, Cleared
  <2>3. Types /\ RolesInv /\ PermsInv /\ MapsInv
    BY <2>1, <2>2, Zenon DEF IInv
  <2>4. RolesComing /\ PermsComing /\ MapsComing
    BY <2>1, <2>3 DEF RolesInv, PermsInv, MapsInv
  <2>5. roles = Roles /\ \A r \in Roles : permissions[r] = permissionMap[r]
    BY <2>1, <2>3, <2>4 DEF RolesComing, PermsComing, Types
  <2>6. mappings = config
    BY <2>1, <2>3, <2>4 DEF MapsComing, Types
  <2>7. QED
    BY <2>5, <2>6
<1>2. QED
  BY <1>1, IInvInit, IInvStep, PTL DEF Spec

(* For any history of events and of failed requests before it: an Update   *)
(* whose list and deletions do not fail leaves the configured mappings.    *)
THEOREM UpdateSyncs == Spec => []UpdateSynced
<1>1. IInv => UpdateSynced
  <2> SUFFICES ASSUME IInv, event = "Update", Settled,
                      faults["list"] = 0, faults["unmap"] = 0, faults["map"] < NumOfAttempts
               PROVE  mappings = config
    BY Zenon DEF UpdateSynced
  <2>1. phase = "idle" /\ inflight = {} /\ Calm
    BY Zenon DEF Settled, Calm
  <2>2. Cleared
    BY DEF Cleared
  <2>3. Types /\ MapsInv
    BY <2>1, <2>2, Zenon DEF IInv
  <2>4. QED
    BY <2>1, <2>3 DEF MapsInv, MapsComing, Types
<1>2. QED
  BY <1>1, IInvInit, IInvStep, PTL DEF Spec
=============================================================================
