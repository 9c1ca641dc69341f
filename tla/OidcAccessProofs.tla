-------------------------- MODULE OidcAccessProofs --------------------------
(* Theorems about OidcAccess, for any groups, roles, configurations and    *)
(* logins, any number of events and any requests that fail or come late.   *)
EXTENDS OidcAccess, RoleCreationProofs

(* A user's request changes nothing of what the handler and Druid keep.    *)
LEMMA AccessStep == [AccessNext]_allVars => [Next]_vars
<1>1. CASE UNCHANGED allVars
  BY <1>1, Zenon DEF allVars
<1>2. CASE Other(Next)
  BY <1>2, Zenon DEF Other
<1>3. CASE (\E l \in Logins : Arrive(l)) \/ Reads \/ ReadFails \/ Decide \/ Answer
  BY <1>3, Zenon DEF Arrive, Reads, ListGroups, ReadGroup, ReadRole, EndGroup, ReadFails,
     Decide, Answer
<1>4. QED
  BY <1>1, <1>2, <1>3, Zenon DEF AccessNext

(* So whatever holds of RoleCreation alone holds among users' requests.    *)
THEOREM UsersOnlyRead == AccessSpec => Spec
<1>1. AccessInit => Init
  BY Zenon DEF AccessInit
<1>2. QED
  BY <1>1, AccessStep, PTL DEF AccessSpec, Spec

-----------------------------------------------------------------------------
(* What the handler has on its way while no request of it is late: those   *)
(* that add to a mapping and those that delete one are never mixed, and    *)
(* the roles of a Create are not mixed with either deletions or lists.     *)
Adding   == {"role", "permissions", "map"}
Deleting == {"list", "unmap"}
Kinds ==
  /\ event \in {"none", "Delete"} => phase = "idle"
  /\ event = "Create" => phase \in Adding \cup {"idle"}
  /\ event = "Update" => phase \in Deleting \cup {"map", "idle"}
  /\ \A r \in inflight : r.op = "unmap" => r.body = {}
  /\ ~late =>
       /\ event = "Create" => \A r \in inflight : r.op \in Adding
       /\ phase \in Deleting => \A r \in inflight : r.op \in Deleting
       /\ (\E r \in inflight : r.op = "unmap") =>
            phase \in {"unmap", "idle"} /\ \A r \in inflight : r.op \in Deleting
       /\ phase = "unmap" => \A r \in inflight : r.op = "unmap" => r.attempt = attempt /\ r.event = events

LEMMA KindsInit == Init => Kinds
<1> SUFFICES ASSUME Init PROVE Kinds
  OBVIOUS
<1>1. event = "none" /\ phase = "idle" /\ inflight = {}
  BY Zenon DEF Init
<1>2. QED
  BY <1>1 DEF Kinds, Deleting

LEMMA KindsServe ==
  ASSUME Kinds, UNCHANGED <<event, events, phase, attempt>>, late' = late, inflight' \subseteq inflight
  PROVE  Kinds'
BY DEF Kinds

LEMMA KindsBegin ==
  ASSUME Types, Kinds, NEW kind \in {"Create", "Update"}, NEW cfg \in Configs, NEW auth \in BOOLEAN,
         Begin(kind, cfg, auth)
  PROVE  Kinds'
<1> DEFINE first == IF kind = "Create" THEN "role" ELSE "list"
           new   == Requests(first, 1, events + 1, cfg, {}, auth)
<1>1. /\ event' = kind /\ phase' = first /\ inflight' = inflight \cup new
      /\ (~late' => inflight = {})
  BY BeginEffect, Zenon
<1>2. \A r \in new : r.op = first
  BY RequestFacts
<1>3. first \in {"role", "list"} /\ (kind = "Create" <=> first = "role")
  OBVIOUS
<1> HIDE DEF first, new
<1>4. \A r \in inflight' : r.op = "unmap" => r.body = {}
  BY <1>1, <1>2, <1>3 DEF Kinds
<1>5. ~late' => \A r \in inflight' : r.op = first
  BY <1>1, <1>2, Zenon
<1>6. QED
  BY <1>1, <1>3, <1>4, <1>5 DEF Kinds, Adding, Deleting

LEMMA KindsResolve ==
  ASSUME Types, Quiet, Kinds, Resolve
  PROVE  Kinds'
<1>1. /\ phase # "idle" /\ ~backingOff /\ ~\E r \in inflight : Current(r)
      /\ Send(Follow[phase], 1, existing)
  BY Zenon DEF Resolve
<1>2. Sends(Follow[phase], 1) /\ late' = late
  BY <1>1, SendsFact, Zenon DEF Resolve
<1>3. ASSUME NEW r \in inflight' \ inflight
      PROVE  /\ r.op = Follow[phase] /\ r.attempt = 1 /\ r.event = events
             /\ r.op = "unmap" => r.body = {}
  BY <1>2, <1>3 DEF Sends, Body
<1>4. \A r \in inflight' : r.op = "unmap" => r.body = {}
  BY <1>3 DEF Kinds
<1>5. /\ phase' = Follow[phase] /\ attempt' = 1 /\ UNCHANGED <<event, events>>
      /\ \A r \in inflight' : r \in inflight \/ r.op = phase'
  BY <1>2, <1>3 DEF Sends
<1>6. /\ event = "Create" => phase \in Adding
      /\ event = "Update" => phase \in Deleting \cup {"map"}
      /\ event \in {"Create", "Update"}
  BY <1>1 DEF Kinds, Types
<1>7. CASE event = "Create"
  <2>1. phase' \in {"permissions", "map", "idle"}
    BY <1>5, <1>6, <1>7, FollowFacts DEF Adding
  <2>2. \A r \in inflight' \ inflight : r.op \in {"permissions", "map"}
    <3>1. phase' = "idle" => inflight' \subseteq inflight
      BY <1>2, <1>5, KeyFacts DEF Sends
    <3>2. QED
      BY <1>5, <2>1, <3>1
  <2>3. ~late' => \A r \in inflight : r.op \in Adding
    BY <1>2, <1>7, Zenon DEF Kinds
  <2>4. ~late' => \A r \in inflight' : r.op \in Adding
    BY <2>2, <2>3 DEF Adding
  <2>5. ~late' => \A r \in inflight' : r.op # "unmap"
    BY <2>4 DEF Adding
  <2>6. /\ event' = "Create" /\ phase' \in Adding \cup {"idle"} /\ phase' \notin Deleting
        /\ phase' # "unmap"
    BY <1>5, <1>7, <2>1 DEF Adding, Deleting
  <2>7. QED
    BY <1>4, <2>4, <2>5, <2>6, Zenon DEF Kinds
<1>8. CASE event = "Update"
  <2>1. CASE phase = "list"
    <3>1. phase' = "unmap" /\ attempt' = 1 /\ UNCHANGED <<event, events>>
      BY <1>5, <2>1, FollowFacts
    <3>2. ~late => \A r \in inflight : r.op \in Deleting /\ r.op # "unmap"
      BY <2>1 DEF Kinds, Deleting
    <3>3. \A r \in inflight' \ inflight : r.op = "unmap" /\ r.attempt = 1 /\ r.event = events
      BY <1>3, <2>1, FollowFacts
    <3>4. ~late' => \A r \in inflight' : r.op \in Deleting
      BY <1>2, <3>2, <3>3 DEF Deleting
    <3>5. ~late' => \A r \in inflight' : r.op = "unmap" => r.attempt = 1 /\ r.event = events
      BY <1>2, <3>2, <3>3
    <3>6. /\ event' = "Update" /\ phase' \in Deleting /\ phase' \in {"unmap", "idle"}
          /\ attempt' = 1 /\ events' = events
      BY <1>8, <3>1 DEF Deleting
    <3>7. QED
      BY <1>4, <3>4, <3>5, <3>6 DEF Kinds
  <2>2. CASE phase = "unmap"
    <3>1. ~late => \A r \in inflight : r.op # "unmap"
      BY <1>1, <2>2 DEF Kinds, Current
    <3>2. QED
      BY <1>2, <1>4, <1>5, <1>8, <2>2, <3>1, FollowFacts DEF Kinds, Deleting
  <2>3. CASE phase = "map"
    <3>1. inflight' \subseteq inflight
      BY <1>2, <2>3, KeyFacts, FollowFacts DEF Sends
    <3>2. QED
      BY <1>2, <1>4, <1>5, <1>8, <2>3, <3>1, FollowFacts DEF Kinds, Deleting
  <2>4. QED
    BY <1>6, <1>8, <2>1, <2>2, <2>3 DEF Deleting
<1>9. QED
  BY <1>6, <1>7, <1>8

LEMMA KindsRetry ==
  ASSUME Types, Quiet, Kinds, Retry
  PROVE  Kinds'
<1>1. /\ backingOff /\ Send(phase, attempt + 1, existing) /\ late' = (late \/ inflight # {})
      /\ phase # "list"
  BY Zenon DEF Retry
<1>2. Sends(phase, attempt + 1)
  BY <1>1, SendsFact, Zenon
<1>3. phase # "idle"
  BY <1>1, Zenon DEF Quiet
<1>4. /\ \A r \in inflight' \ inflight :
           /\ r.op = phase /\ r.attempt = attempt' /\ r.event = events
           /\ r.op = "unmap" => r.body = {}
      /\ phase' = phase /\ UNCHANGED <<event, events>>
  BY <1>2 DEF Sends, Body
<1>5. \A r \in inflight' : r.op = "unmap" => r.body = {}
  BY <1>4 DEF Kinds
<1>6. ~late' => inflight = {}
  BY <1>1, Zenon
<1>7. QED
  BY <1>3, <1>4, <1>5, <1>6 DEF Kinds, Adding, Deleting

LEMMA KindsGiveUp ==
  ASSUME Types, Quiet, Kinds, GiveUp
  PROVE  Kinds'
<1> DEFINE op == IF event = "Create" THEN Follow[phase] ELSE "idle"
<1>1. backingOff /\ Sends(op, 1) /\ late' = late
  BY CalmGiveUp, Zenon DEF GiveUp
<1>2. phase # "idle"
  BY <1>1, Zenon DEF Quiet
<1>3. /\ event = "Create" => phase \in Adding
      /\ event \in {"Create", "Update"}
  BY <1>2 DEF Kinds, Types
<1>4. /\ \A r \in inflight' \ inflight : r.op = op /\ (r.op = "unmap" => r.body = {})
      /\ phase' = op /\ UNCHANGED <<event, events>>
  BY <1>1 DEF Sends, Body
<1>5. \A r \in inflight' : r.op = "unmap" => r.body = {}
  BY <1>4 DEF Kinds
<1>6. CASE event = "Create"
  <2>1. op \in {"permissions", "map", "idle"}
    BY <1>3, <1>6, FollowFacts DEF Adding
  <2> HIDE DEF op
  <2>2. ~late' => \A r \in inflight' : r.op \in Adding
    <3>1. ~late' => \A r \in inflight : r.op \in Adding
      BY <1>1, <1>6, Zenon DEF Kinds
    <3>2. \A r \in inflight' \ inflight : r.op \in Adding
      <4>1. ASSUME NEW r \in inflight' \ inflight PROVE r.op \in Adding
        <5>1. op # "idle"
          BY <1>1, <4>1, KeyFacts DEF Sends
        <5>2. QED
          BY <1>4, <2>1, <4>1, <5>1 DEF Adding
      <4>2. QED
        BY <4>1
    <3>3. QED
      BY <3>1, <3>2
  <2>3. ~late' => \A r \in inflight' : r.op # "unmap"
    BY <2>2 DEF Adding
  <2>4. /\ event' = "Create" /\ phase' \in Adding \cup {"idle"} /\ phase' \notin Deleting
        /\ phase' # "unmap"
    BY <1>4, <1>6, <2>1 DEF Adding, Deleting
  <2>5. QED
    BY <1>5, <2>2, <2>3, <2>4, Zenon DEF Kinds
<1>7. CASE event = "Update"
  <2>1. op = "idle"
    BY <1>7
  <2>2. inflight' \subseteq inflight
    BY <1>1, <2>1, KeyFacts DEF Sends
  <2> HIDE DEF op
  <2>3. QED
    BY <1>1, <1>4, <1>5, <1>7, <2>1, <2>2 DEF Kinds, Deleting
<1>8. QED
  BY <1>3, <1>6, <1>7

LEMMA KindsStep == Types /\ Quiet /\ Kinds /\ [Next]_vars => Kinds'
<1> SUFFICES ASSUME Types, Quiet, Kinds, [Next]_vars PROVE Kinds'
  OBVIOUS
<1>1. CASE UNCHANGED vars
  <2>1. UNCHANGED <<event, events, phase, attempt>> /\ late' = late /\ inflight' = inflight
    BY <1>1, Zenon DEF vars, stack, handler
  <2>2. QED
    BY <2>1, KindsServe
<1>2. CASE DeleteEvent
  <2>1. /\ phase = "idle" /\ event' = "Delete" /\ phase' = phase /\ inflight' = inflight
        /\ late' = late
    BY <1>2, Zenon DEF DeleteEvent, handler
  <2>2. QED
    BY <2>1 DEF Kinds, Deleting
<1>3. ASSUME NEW r \in inflight, Serve(r) \/ Fails(r) PROVE Kinds'
  <2>1. UNCHANGED <<event, events, phase, attempt>> /\ late' = late
    BY <1>3, ServeEffect, FailEffect, Zenon
  <2>2. inflight' \in {inflight, inflight \ {r}}
    BY <1>3, ServeEffect, FailEffect, Zenon
  <2>3. QED
    BY <2>1, <2>2, KindsServe
<1>4. QED
  BY <1>1, <1>2, <1>3, KindsBegin, KindsResolve, KindsRetry, KindsGiveUp, StepKinds, Zenon

(* The permissions of a role are given at once.                            *)
PermsOK == \A r \in Roles : permissions[r] = {} \/ permissions[r] = permissionMap[r]

HandlerInv == Types /\ Flags /\ Quiet /\ Kinds /\ PermsOK

(* Roles and permissions are added, by requests of their kinds; a mapping  *)
(* is created where there is none or deleted.                              *)
Growing ==
  /\ roles \subseteq roles'
  /\ \A r \in Roles : permissions[r] \subseteq permissions'[r]
  /\ (\A r \in inflight : r.op \notin {"role", "permissions"}) => UNCHANGED <<roles, permissions>>

Mapping ==
  \E r \in inflight, g \in Groups :
    /\ UNCHANGED <<roles, permissions, event, phase>>
    /\ \A h \in Groups \ {g} : mappings'[h] = mappings[h]
    /\ \/ r.op = "map" /\ mappings[g] = {}
       \/ r.op = "unmap" /\ mappings'[g] = {}

LEMMA ChangeEffect ==
  ASSUME Types, PermsOK, NEW r \in inflight, Asks(r), Changes(r)
  PROVE  PermsOK' /\ Growing
<1> USE DEF Types, PermsOK, Growing, Asks
<1>1. CASE UNCHANGED druid
  BY <1>1 DEF druid
<1>2. CASE r.op = "role" /\ roles' = roles \cup {r.key} /\ UNCHANGED <<permissions, mappings>>
  BY <1>2
<1>3. CASE /\ r.op = "permissions" /\ permissions' = [permissions EXCEPT ![r.key] = r.body]
           /\ UNCHANGED <<roles, mappings>>
  BY <1>3
<1>4. CASE r.op \in {"map", "unmap"} /\ UNCHANGED <<roles, permissions>>
  BY <1>4
<1>5. QED
  BY <1>1, <1>2, <1>3, <1>4 DEF Changes

LEMMA MappingEffect ==
  ASSUME Types, Kinds, NEW r \in inflight, Asks(r), Changes(r), UNCHANGED <<event, phase>>,
         UNCHANGED druid \/ Accepts(r)
  PROVE  UNCHANGED mappings \/ Mapping
<1>1. CASE r.op \in {"map", "unmap"} /\ mappings' = [mappings EXCEPT ![r.key] = r.body]
           /\ UNCHANGED <<roles, permissions>> /\ Accepts(r)
  <2>1. r.key \in Groups /\ \A h \in Groups \ {r.key} : mappings'[h] = mappings[h]
    BY <1>1 DEF Types, Asks
  <2>2. r.op = "map" => mappings[r.key] = {}
    BY <1>1 DEF Accepts
  <2>3. r.op = "unmap" => mappings'[r.key] = {}
    BY <1>1, <2>1 DEF Kinds, Types
  <2>4. QED
    BY <1>1, <2>1, <2>2, <2>3 DEF Mapping
<1>2. QED
  BY <1>1 DEF Changes, druid

(* What a step of the handler or of its requests leaves in Druid.          *)
LEMMA DruidStep ==
  ASSUME HandlerInv, [Next]_vars
  PROVE  /\ PermsOK' /\ Growing
         /\ UNCHANGED mappings \/ Mapping
<1> USE DEF HandlerInv
<1>1. ASSUME UNCHANGED druid
      PROVE  PermsOK' /\ Growing /\ UNCHANGED mappings
  BY <1>1 DEF druid, PermsOK, Growing
<1>2. ASSUME NEW r \in inflight, Serve(r) \/ Fails(r)
      PROVE  PermsOK' /\ Growing /\ (UNCHANGED mappings \/ Mapping)
  <2>1. Changes(r) /\ UNCHANGED <<event, phase>>
    BY <1>2, ServeEffect, FailEffect, Zenon
  <2>2. Asks(r)
    BY DEF Types
  <2>3. UNCHANGED druid \/ Accepts(r)
    <3>1. CASE Serve(r)
      BY <3>1, ServeEffect, Zenon
    <3>2. CASE Fails(r)
      BY <3>2, Zenon DEF Fails, LoseRequest, LoseAnswer, Abandon
    <3>3. QED
      BY <1>2, <3>1, <3>2
  <2>4. QED
    BY <2>1, <2>2, <2>3, ChangeEffect, MappingEffect, Zenon
<1>3. ASSUME NEW kind \in {"Create", "Update"}, NEW cfg \in Configs, NEW auth \in BOOLEAN,
             Begin(kind, cfg, auth)
      PROVE  UNCHANGED druid
  BY <1>3, Zenon DEF Begin
<1>4. UNCHANGED vars \/ DeleteEvent \/ Resolve \/ Retry \/ GiveUp => UNCHANGED druid
  BY Zenon DEF vars, DeleteEvent, Resolve, Retry, GiveUp
<1>5. QED
  BY <1>1, <1>2, <1>3, <1>4, StepKinds, Zenon

(* The requests that a step sends are of the kind it then waits for.       *)
LEMMA SentStep ==
  ASSUME HandlerInv, [Next]_vars
  PROVE  \A r \in inflight' : r \in inflight \/ (r.op = phase' /\ phase' # "idle")
<1>1. ASSUME NEW kind \in {"Create", "Update"}, NEW cfg \in Configs, NEW auth \in BOOLEAN,
             Begin(kind, cfg, auth)
      PROVE  \A r \in inflight' : r \in inflight \/ (r.op = phase' /\ phase' # "idle")
  <2> DEFINE first == IF kind = "Create" THEN "role" ELSE "list"
             new   == Requests(first, 1, events + 1, cfg, {}, auth)
  <2>1. phase' = first /\ inflight' = inflight \cup new
    BY <1>1 DEF Begin
  <2>2. \A r \in new : r.op = first
    BY RequestFacts
  <2>3. first # "idle"
    OBVIOUS
  <2> HIDE DEF first, new
  <2>4. QED
    BY <2>1, <2>2, <2>3
<1>2. ASSUME Resolve \/ Retry \/ GiveUp
      PROVE  \A r \in inflight' : r \in inflight \/ (r.op = phase' /\ phase' # "idle")
  <2>1. PICK op \in Ops \cup {"idle"}, n \in 1..NumOfAttempts : Send(op, n, existing)
    BY <1>2, SendKinds, Zenon DEF HandlerInv
  <2>2. Sends(op, n)
    BY <1>2, <2>1, SendsFact, Zenon
  <2>3. QED
    BY <2>2, KeyFacts DEF Sends
<1>3. UNCHANGED vars \/ DeleteEvent => inflight' = inflight
  BY Zenon DEF vars, DeleteEvent
<1>4. ASSUME NEW r \in inflight, Serve(r) \/ Fails(r) PROVE inflight' \subseteq inflight
  <2>1. inflight' \in {inflight, inflight \ {r}}
    BY <1>4, ServeEffect, FailEffect, Zenon
  <2>2. QED
    BY <2>1
<1>5. inflight' \subseteq inflight => \A r \in inflight' : r \in inflight
  OBVIOUS
<1>6. inflight' = inflight => inflight' \subseteq inflight
  OBVIOUS
<1>7. QED
  BY <1>1, <1>2, <1>3, <1>4, <1>5, <1>6, StepKinds, Zenon

LEMMA HandlerInvariant == Spec => []HandlerInv
<1>1. Init => HandlerInv
  <2>1. Init => PermsOK
    BY DEF Init, PermsOK
  <2>2. QED
    BY <2>1, TypesInit, FlagsInit, QuietInit, KindsInit, Zenon DEF HandlerInv
<1>2. HandlerInv /\ [Next]_vars => HandlerInv'
  BY TypesStep, FlagsStep, QuietStep, KindsStep, DruidStep, Zenon DEF HandlerInv
<1>3. QED
  BY <1>1, <1>2, PTL DEF Spec

-----------------------------------------------------------------------------
(* What the proofs about a user's request keep.                            *)

Mine == GroupsOf(login, Identity(login))

(* Would these roles, all of them there, give the permission?              *)
Enough(M) == M \subseteq roles /\ \E r \in M : Wanted \in permissions[r]

(* The history tells the truth about the moment.                           *)
Truth ==
  /\ HoldsNow => everHeld
  /\ alwaysHeld => HoldsNow
  /\ late => lateSeen
  /\ UnderWay => met

ReaderInv ==
  /\ login \in Login
  /\ step \in {"idle", "list", "groups", "roles", "allow", "deny", "challenge"}
  /\ step \in {"groups", "roles"} => groupsLeft \subseteq Mine
  /\ step # "idle" => Truth

LEMMA HoldsFact == HoldsNow <=> \E g \in Mine : Enough(mappings[g])
BY DEF HoldsNow, Holds, Grants, Mine, Enough

LEMMA HoldsFactAfter == HoldsNow' <=> \E g \in Mine' : Enough(mappings[g])'
BY DEF HoldsNow, Holds, Grants, Mine, Enough

LEMMA MineFact == login \in Login => Mine \subseteq Groups
BY DEF Mine, GroupsOf, Login

(* What the history may do during a request.                               *)
Observed ==
  /\ HoldsNow' => everHeld'
  /\ everHeld => everHeld'
  /\ alwaysHeld' => alwaysHeld /\ HoldsNow'
  /\ late' => lateSeen'
  /\ lateSeen => lateSeen'
  /\ UnderWay' => met'
  /\ met => met'
  /\ readFailed => readFailed'
  /\ followed \subseteq followed'
  /\ met /\ phase = "idle" /\ phase' # "idle" => event' \in followed'

LEMMA WatchEffect ==
  ASSUME Watch, readFailed => readFailed'
  PROVE  Observed
<1>1. /\ HoldsNow' => everHeld'
      /\ everHeld => everHeld'
      /\ alwaysHeld' => alwaysHeld /\ HoldsNow'
      /\ late' => lateSeen'
      /\ lateSeen => lateSeen'
      /\ UnderWay' => met'
      /\ met => met'
  BY Zenon DEF Watch
<1>2. followed' = IF met /\ phase = "idle" /\ phase' # "idle" THEN followed \cup {event'} ELSE followed
  BY Zenon DEF Watch
<1>3. /\ followed \subseteq followed'
      /\ met /\ phase = "idle" /\ phase' # "idle" => event' \in followed'
  <2> HIDE <1>1
  <2>1. CASE met /\ phase = "idle" /\ phase' # "idle"
    <3>1. followed' = followed \cup {event'}
      BY <1>2, <2>1, Zenon
    <3>2. QED
      BY <3>1
  <2>2. CASE ~(met /\ phase = "idle" /\ phase' # "idle")
    <3>1. followed' = followed
      BY <1>2, <2>2, Zenon
    <3>2. QED
      BY <2>2, <3>1, Zenon
  <2>3. QED
    BY <2>1, <2>2, Zenon
<1>4. QED
  BY <1>1, <1>3, Zenon DEF Observed

(* A step of this request, or of anyone else while it lasts.               *)
OwnStep == UNCHANGED vars /\ (Reads \/ ReadFails \/ Decide)
ElseStep == [Next]_vars /\ UNCHANGED reader

LEMMA StepParts ==
  ASSUME ReaderInv, [AccessNext]_allVars
  PROVE  \/ step' = "idle" /\ login' \in Login
         \/ \E l \in Logins : Arrive(l) /\ Identity(l) # "basic"
         \/ step # "idle" /\ login' = login /\ Observed /\ (OwnStep \/ ElseStep)
<1>1. CASE UNCHANGED allVars
  <2>1. UNCHANGED <<vars, reader>> /\ everHeld' = everHeld /\ alwaysHeld' = alwaysHeld
        /\ lateSeen' = lateSeen /\ met' = met /\ readFailed' = readFailed /\ followed' = followed
    BY <1>1, Zenon DEF allVars, history
  <2>2. login' = login /\ step' = step
    BY <2>1, Zenon DEF reader
  <2>3. CASE step = "idle"
    BY <2>2, <2>3, Zenon DEF ReaderInv
  <2>4. CASE step # "idle"
    <3>1. UNCHANGED druid /\ late' = late /\ UNCHANGED <<phase, inflight>>
      BY <2>1, Zenon DEF vars, handler
    <3>2. HoldsNow' <=> HoldsNow
      BY <2>2, <3>1, Zenon DEF HoldsNow, druid
    <3>3. UnderWay' <=> UnderWay
      BY <3>1, Zenon DEF UnderWay
    <3>4. followed \subseteq followed' /\ phase' = phase
      BY <2>1, <3>1
    <3>5. Observed
      BY <2>1, <2>4, <3>1, <3>2, <3>3, <3>4, Zenon DEF Observed, ReaderInv, Truth
    <3>6. QED
      BY <2>1, <2>2, <2>4, <3>5, Zenon DEF ElseStep
  <2>5. QED
    BY <2>3, <2>4
<1>2. CASE Other(Next)
  <2>1. UNCHANGED reader /\ readFailed' = readFailed
    BY <1>2, Zenon DEF Other
  <2>2. login' = login /\ step' = step
    BY <2>1, Zenon DEF reader
  <2>3. CASE step = "idle"
    BY <2>2, <2>3, Zenon DEF ReaderInv
  <2>4. CASE step # "idle"
    <3>1. Next /\ Watch
      BY <1>2, <2>4, Zenon DEF Other
    <3>2. Observed
      BY <2>1, <3>1, WatchEffect, Zenon
    <3>3. QED
      BY <2>1, <2>2, <2>4, <3>1, <3>2, Zenon DEF ElseStep
  <2>5. QED
    BY <2>3, <2>4
<1>3. ASSUME NEW l \in Logins, Arrive(l)
      PROVE  \/ step' = "idle" /\ login' \in Login
             \/ Arrive(l) /\ Identity(l) # "basic"
  <2>1. CASE Identity(l) = "basic"
    <3>1. login' = NoLogin
      BY <1>3, <2>1, Zenon DEF Arrive
    <3>2. step' = "idle"
      <4>1. step' = CASE Identity(l) = "stop"  -> "challenge"
                      [] Identity(l) = "basic" -> "idle"
                      [] ~GroupClaim /\ Identity(l) \in {"jwt", "oidc"} -> "allow"
                      [] GroupClaim /\ Identity(l) \in {"jwt", "oidc"} ->
                           IF l.claim = "none" \/ (l.claim = "string" /\ Identity(l) = "jwt")
                           THEN "deny" ELSE "list"
        BY <1>3 DEF Arrive
      <4>2. QED
        BY <2>1, <4>1
    <3>3. QED
      BY <3>1, <3>2 DEF NoLogin, Login
  <2>2. QED
    BY <1>3, <2>1
<1>4. CASE Reads \/ ReadFails \/ Decide
  <2>1. Watch /\ UNCHANGED vars /\ login' = login /\ (readFailed' = readFailed \/ readFailed' = TRUE)
    BY <1>4, Zenon DEF Reads, ListGroups, ReadGroup, ReadRole, EndGroup, ReadFails, Decide
  <2>2. readFailed => readFailed'
    BY <2>1, Zenon
  <2>3. step # "idle"
    BY <1>4, Zenon DEF Reads, ListGroups, ReadGroup, ReadRole, EndGroup, ReadFails, Decide
  <2>4. Observed
    BY <2>1, <2>2, WatchEffect, Zenon
  <2>5. QED
    BY <1>4, <2>1, <2>3, <2>4, Zenon DEF OwnStep
<1>5. CASE Answer
  BY <1>5 DEF Answer, NoLogin, Login
<1>6. QED
  BY <1>1, <1>2, <1>3, <1>4, <1>5, Zenon DEF AccessNext

(* A request that arrives.                                                 *)
LEMMA ArriveEffect ==
  ASSUME NEW l \in Logins, Arrive(l), Identity(l) # "basic"
  PROVE  /\ UNCHANGED vars /\ login' = l /\ l \in Login
         /\ step' \in {"challenge", "allow", "deny", "list"}
         /\ step' = "allow" => ~GroupClaim
         /\ step' = "deny" => Mine' = {}
         /\ Truth'
<1>1. /\ UNCHANGED vars /\ login' = l
      /\ everHeld' = Holds(GroupsOf(l, Identity(l)), mappings, roles, permissions)
      /\ alwaysHeld' = everHeld' /\ lateSeen' = late /\ met' = UnderWay
  BY Zenon DEF Arrive
<1>2. l \in Login
  BY LoginsAssumption
<1>3. Identity(l) \in {"stop", "basic", "jwt", "oidc"}
  BY DEF Identity, Basic, Jwt, Oidc
<1>4. /\ step' \in {"challenge", "allow", "deny", "list"}
      /\ step' = "allow" => ~GroupClaim
      /\ step' = "deny" => l.claim = "none" \/ (l.claim = "string" /\ Identity(l) = "jwt")
  <2>1. step' = CASE Identity(l) = "stop"  -> "challenge"
                  [] Identity(l) = "basic" -> "idle"
                  [] ~GroupClaim /\ Identity(l) \in {"jwt", "oidc"} -> "allow"
                  [] GroupClaim /\ Identity(l) \in {"jwt", "oidc"} ->
                       IF l.claim = "none" \/ (l.claim = "string" /\ Identity(l) = "jwt")
                       THEN "deny" ELSE "list"
    BY DEF Arrive
  <2>2. QED
    BY <1>3, <2>1
<1>5. step' = "deny" => Mine' = {}
  BY <1>1, <1>4 DEF Mine, GroupsOf
<1>6. Truth'
  <2>1. UNCHANGED druid /\ late' = late /\ UNCHANGED <<phase, inflight>>
    BY <1>1, Zenon DEF vars, handler
  <2>2. HoldsNow' <=> Holds(GroupsOf(l, Identity(l)), mappings, roles, permissions)
    BY <1>1, <2>1, Zenon DEF HoldsNow, druid
  <2>3. UnderWay' <=> UnderWay
    BY <2>1, Zenon DEF UnderWay
  <2>4. QED
    BY <1>1, <2>1, <2>2, <2>3, Zenon DEF Truth
<1>7. QED
  BY <1>1, <1>2, <1>4, <1>5, <1>6, Zenon

LEMMA ReaderStep == ReaderInv /\ [AccessNext]_allVars => ReaderInv'
<1> SUFFICES ASSUME ReaderInv, [AccessNext]_allVars PROVE ReaderInv'
  OBVIOUS
<1>1. CASE step' = "idle" /\ login' \in Login
  BY <1>1 DEF ReaderInv
<1>2. ASSUME NEW l \in Logins, Arrive(l), Identity(l) # "basic" PROVE ReaderInv'
  <2>1. login' \in Login /\ step' \in {"challenge", "allow", "deny", "list"} /\ Truth'
    BY <1>2, ArriveEffect, Zenon
  <2>2. QED
    BY <2>1 DEF ReaderInv
<1>3. CASE step # "idle" /\ login' = login /\ Observed /\ (OwnStep \/ ElseStep)
  <2>1. Truth'
    BY <1>3, Zenon DEF Observed, ReaderInv, Truth
  <2>2. Mine' = Mine
    BY <1>3 DEF Mine
  <2>3. CASE UNCHANGED reader
    BY <1>3, <2>1, <2>2, <2>3 DEF ReaderInv, reader
  <2>4. CASE Reads \/ ReadFails \/ Decide
    <3>1. /\ step' \in {"groups", "roles", "allow", "deny"}
          /\ step' \in {"groups", "roles"} => groupsLeft' \subseteq Mine
      BY <2>4 DEF Reads, ListGroups, ReadGroup, ReadRole, EndGroup, ReadFails, Decide, ReaderInv, Mine
    <3>2. QED
      BY <1>3, <2>1, <2>2, <3>1 DEF ReaderInv
  <2>5. QED
    BY <1>3, <2>3, <2>4 DEF OwnStep, ElseStep
<1>4. QED
  BY <1>1, <1>2, <1>3, StepParts, Zenon

(* No role and no permission will come any more while this request lasts,  *)
(* unless a Create begins.                                                 *)
Frozen == met /\ event # "Create" /\ \A r \in inflight : r.op \notin {"role", "permissions"}

(* The group in hand had the roles M when its mapping was read: it has     *)
(* them still, or they have been deleted and were not enough.              *)
Reading(g, M) ==
  /\ M # {} /\ rolesLeft \subseteq M /\ M \ rolesLeft \subseteq roles
  /\ Wanted \in found => \E r \in M \ rolesLeft : Wanted \in permissions[r]
  /\ mappings[g] = M \/ (Frozen /\ ~Enough(M))

Unjustified == GroupClaim /\ ~lateSeen /\ "Create" \notin followed /\ ~everHeld

AllowInv ==
  Unjustified =>
    /\ step # "allow"
    /\ step \in {"groups", "roles"} => Wanted \notin collected
    /\ step = "roles" => \E g \in Mine, M \in SUBSET Roles : Reading(g, M)

(* Mappings may still be deleted while this request lasts, without another *)
(* event; until then none is created.                                      *)
Shrinking == ~met \/ phase \in {"list", "unmap"} \/ \E r \in inflight : r.op = "unmap"

(* The permission will be found with this group.                           *)
Covered(g) ==
  \/ g \in groupsLeft
  \/ /\ step = "roles" /\ rolesLeft \subseteq mappings[g]
     /\ Wanted \in found \/ \E r \in rolesLeft : Wanted \in permissions[r]

Unbroken == ~readFailed /\ ~lateSeen /\ followed = {} /\ alwaysHeld

DenyInv ==
  Unbroken =>
    /\ step # "deny"
    /\ step \in {"groups", "roles"} /\ Wanted \notin collected =>
         /\ \E g \in Mine : Enough(mappings[g]) /\ Covered(g)
         /\ Shrinking => \A g \in Mine : Enough(mappings[g]) => Covered(g)

(* An event begins, or the last one stays the last.                        *)
LEMMA EventStep ==
  ASSUME [Next]_vars
  PROVE  event' = event \/ event' = "Delete" \/ (phase = "idle" /\ phase' # "idle")
<1>1. ASSUME NEW kind \in {"Create", "Update"}, NEW cfg \in Configs, NEW auth \in BOOLEAN,
             Begin(kind, cfg, auth)
      PROVE  phase = "idle" /\ phase' # "idle"
  BY <1>1 DEF Begin
<1>2. DeleteEvent => event' = "Delete"
  BY Zenon DEF DeleteEvent
<1>3. ASSUME NEW r \in inflight, Serve(r) \/ Fails(r) PROVE event' = event
  BY <1>3, ServeEffect, FailEffect, Zenon
<1>4. UNCHANGED vars => event' = event
  BY Zenon DEF vars, stack
<1>5. Resolve \/ Retry \/ GiveUp => event' = event
  BY SendFrame, Zenon
<1>6. QED
  BY <1>1, <1>2, <1>3, <1>4, <1>5, StepKinds, Zenon

-----------------------------------------------------------------------------
(* Access that is granted.                                                 *)

(* Nothing that is missing will come.                                      *)
LEMMA FrozenStep ==
  ASSUME HandlerInv, HandlerInv', [Next]_vars, Observed, "Create" \notin followed', Frozen
  PROVE  Frozen' /\ UNCHANGED <<roles, permissions>>
<1>1. met' /\ met /\ event # "Create"
  BY Zenon DEF Frozen, Observed
<1>2. event' # "Create"
  BY <1>1, EventStep, Zenon DEF Observed
<1>3. phase' \notin {"role", "permissions"}
  BY <1>2 DEF HandlerInv, Types, Kinds, Deleting
<1>4. \A r \in inflight' : r.op \notin {"role", "permissions"}
  BY <1>3, SentStep DEF Frozen
<1>5. UNCHANGED <<roles, permissions>>
  BY DruidStep, Zenon DEF Growing, Frozen
<1>6. QED
  BY <1>1, <1>2, <1>4, <1>5, Zenon DEF Frozen

(* A mapping that is deleted was not enough, and will be enough no more.   *)
LEMMA FrozenStart ==
  ASSUME HandlerInv, [Next]_vars, Observed, UnderWay => met, ~late, Mapping,
         NEW g \in Groups, mappings[g] # {}, mappings'[g] # mappings[g]
  PROVE  Frozen' /\ UNCHANGED <<roles, permissions>>
<1>1. PICK r \in inflight, h \in Groups :
        /\ UNCHANGED <<roles, permissions, event, phase>>
        /\ \A k \in Groups \ {h} : mappings'[k] = mappings[k]
        /\ \/ r.op = "map" /\ mappings[h] = {}
           \/ r.op = "unmap" /\ mappings'[h] = {}
  BY Zenon DEF Mapping
<1>2. h = g /\ r.op = "unmap"
  BY <1>1
<1>3. Kinds
  BY Zenon DEF HandlerInv
<1>4. /\ \A s \in inflight : s.op \in Deleting
      /\ phase \in {"unmap", "idle"}
  BY <1>2, <1>3, Zenon DEF Kinds
<1>5. event' # "Create"
  <2>1. event = "Create" => r.op \in Adding
    BY <1>3, Zenon DEF Kinds
  <2>2. QED
    BY <1>1, <1>2, <2>1 DEF Adding
<1>6. met'
  BY <1>1, Zenon DEF UnderWay, Observed
<1>7. \A s \in inflight' : s.op \notin {"role", "permissions"}
  BY <1>1, <1>4, SentStep DEF Deleting
<1>8. QED
  BY <1>1, <1>5, <1>6, <1>7, Zenon DEF Frozen

LEMMA AllowElse ==
  ASSUME HandlerInv, HandlerInv', ReaderInv, AllowInv, step # "idle", login' = login, Observed,
         ElseStep
  PROVE  AllowInv'
<1> SUFFICES ASSUME Unjustified'
             PROVE  /\ step' # "allow"
                    /\ step' \in {"groups", "roles"} => Wanted \notin collected'
                    /\ step' = "roles" => \E g \in Mine', M \in SUBSET Roles : Reading(g, M)'
  BY Zenon DEF AllowInv
<1>1. UNCHANGED <<step, groupsLeft, rolesLeft, found, collected>> /\ [Next]_vars
  BY Zenon DEF ElseStep, reader
<1>2. /\ "Create" \notin followed' /\ "Create" \notin followed
      /\ GroupClaim /\ ~lateSeen /\ ~everHeld
  <2>1. followed \subseteq followed' /\ "Create" \notin followed'
    BY Zenon DEF Unjustified, Observed
  <2>2. "Create" \notin followed
    BY <2>1
  <2>3. QED
    BY <2>1, <2>2, Zenon DEF Unjustified, Observed
<1>3. /\ ~late /\ ~HoldsNow
      /\ UnderWay => met
  BY <1>2, Zenon DEF ReaderInv, Truth
<1>4. Unjustified
  BY <1>2, Zenon DEF Unjustified
<1>5. step' # "allow" /\ (step' \in {"groups", "roles"} => Wanted \notin collected')
  BY <1>1, <1>4 DEF AllowInv
<1>6. ASSUME step = "roles" PROVE \E g \in Mine, M \in SUBSET Roles : Reading(g, M)'
  <2>1. PICK g \in Mine, M \in SUBSET Roles : Reading(g, M)
    BY <1>4, <1>6, Zenon DEF AllowInv
  <2>2. Growing /\ (UNCHANGED mappings \/ Mapping)
    BY <1>1, DruidStep
  <2>3. g \in Groups
    BY MineFact, Zenon DEF ReaderInv
  <2>4. mappings[g] = M => ~Enough(M)
    BY <1>3, HoldsFact
  <2>5. mappings'[g] = M \/ (Frozen' /\ ~Enough(M)')
    <3>1. CASE Frozen /\ ~Enough(M)
      <4>1. Frozen' /\ UNCHANGED <<roles, permissions>>
        BY <1>1, <1>2, <3>1, FrozenStep
      <4>2. QED
        BY <3>1, <4>1 DEF Enough
    <3>2. CASE mappings[g] = M /\ mappings'[g] # M
      <4>1. M # {}
        BY <2>1, Zenon DEF Reading
      <4>2. Frozen' /\ UNCHANGED <<roles, permissions>>
        BY <1>1, <1>3, <2>2, <2>3, <3>2, <4>1, FrozenStart
      <4>3. QED
        BY <2>4, <3>2, <4>2 DEF Enough
    <3>3. QED
      BY <2>1, <3>1, <3>2, Zenon DEF Reading
  <2>6. /\ M # {} /\ rolesLeft' \subseteq M /\ M \ rolesLeft' \subseteq roles'
        /\ Wanted \in found' => \E r \in M \ rolesLeft' : Wanted \in permissions'[r]
    BY <1>1, <2>1, <2>2 DEF Reading, Growing
  <2>7. Reading(g, M)'
    BY <2>5, <2>6, Zenon DEF Reading
  <2>8. QED
    BY <2>7
<1>7. Mine' = Mine
  BY DEF Mine
<1>8. QED
  BY <1>1, <1>5, <1>6, <1>7

LEMMA AllowOwn ==
  ASSUME HandlerInv, ReaderInv, AllowInv, step # "idle", login' = login, Observed, OwnStep
  PROVE  AllowInv'
<1> SUFFICES ASSUME Unjustified'
             PROVE  /\ step' # "allow"
                    /\ step' \in {"groups", "roles"} => Wanted \notin collected'
                    /\ step' = "roles" => \E g \in Mine', M \in SUBSET Roles : Reading(g, M)'
  BY Zenon DEF AllowInv
<1>1. /\ UNCHANGED <<roles, permissions, mappings, event, inflight>>
      /\ Reads \/ ReadFails \/ Decide
  BY Zenon DEF OwnStep, vars, druid, stack
<1>2. /\ "Create" \notin followed
      /\ GroupClaim /\ ~lateSeen /\ ~everHeld
  <2>1. followed \subseteq followed' /\ "Create" \notin followed'
    BY Zenon DEF Unjustified, Observed
  <2>2. "Create" \notin followed
    BY <2>1
  <2>3. QED
    BY <2>1, <2>2, Zenon DEF Unjustified, Observed
<1>3. ~HoldsNow
  BY <1>2, Zenon DEF ReaderInv, Truth
<1>4. Unjustified
  BY <1>2, Zenon DEF Unjustified
<1>5. Mine' = Mine
  BY DEF Mine
<1>6. Frozen => Frozen'
  BY <1>1, Zenon DEF Frozen, Observed
<1>7. \A M : Enough(M)' <=> Enough(M)
  BY <1>1 DEF Enough
<1>8. CASE ListGroups
  BY <1>8 DEF ListGroups
<1>9. ASSUME NEW g \in groupsLeft, ReadGroup(g)
      PROVE  /\ step' # "allow"
             /\ step' \in {"groups", "roles"} => Wanted \notin collected'
             /\ step' = "roles" => \E h \in Mine', M \in SUBSET Roles : Reading(h, M)'
  <2>1. step = "groups" /\ collected' = collected /\ step' # "allow" /\ g \in Mine /\ g \in Groups
    BY <1>9, MineFact DEF ReadGroup, ReaderInv
  <2>2. Wanted \notin collected
    BY <1>4, <2>1 DEF AllowInv
  <2>3. ASSUME step' = "roles" PROVE Reading(g, mappings[g])'
    <3>1. mappings[g] # {} /\ rolesLeft' = mappings[g] /\ found' = {}
      BY <1>9, <2>3 DEF ReadGroup
    <3>2. QED
      BY <1>1, <3>1 DEF Reading
  <2>4. mappings[g] \in SUBSET Roles
    BY <2>1 DEF HandlerInv, Types
  <2>5. step' = "roles" => \E h \in Mine', M \in SUBSET Roles : Reading(h, M)'
    BY <1>1, <1>5, <2>1, <2>3, <2>4
  <2>6. QED
    BY <2>1, <2>2, <2>5
<1>10. ASSUME NEW r \in rolesLeft, ReadRole(r)
       PROVE  /\ step' # "allow"
              /\ step' \in {"groups", "roles"} => Wanted \notin collected'
              /\ step' = "roles" => \E h \in Mine', M \in SUBSET Roles : Reading(h, M)'
  <2>1. step = "roles" /\ collected' = collected /\ step' # "allow"
    BY <1>10 DEF ReadRole
  <2>2. Wanted \notin collected
    BY <1>4, <2>1 DEF AllowInv
  <2>3. ASSUME step' = "roles" PROVE \E h \in Mine', M \in SUBSET Roles : Reading(h, M)'
    <3>1. r \in roles /\ rolesLeft' = rolesLeft \ {r} /\ found' = found \cup permissions[r]
      BY <1>10, <2>3 DEF ReadRole
    <3>2. PICK g \in Mine, M \in SUBSET Roles : Reading(g, M)
      BY <1>4, <2>1, Zenon DEF AllowInv
    <3>3. mappings'[g] = M \/ (Frozen' /\ ~Enough(M)')
      BY <1>1, <1>6, <1>7, <3>2, Zenon DEF Reading
    <3>4. /\ M # {} /\ rolesLeft' \subseteq M /\ M \ rolesLeft' \subseteq roles'
          /\ Wanted \in found' => \E k \in M \ rolesLeft' : Wanted \in permissions'[k]
      BY <1>1, <3>1, <3>2 DEF Reading
    <3>5. Reading(g, M)'
      BY <3>3, <3>4, Zenon DEF Reading
    <3>6. QED
      BY <1>5, <3>5
  <2>4. QED
    BY <2>1, <2>2, <2>3
<1>11. CASE EndGroup
  <2>1. step = "roles" /\ rolesLeft = {} /\ step' = "groups" /\ collected' = collected \cup found
    BY <1>11 DEF EndGroup
  <2>2. PICK g \in Mine, M \in SUBSET Roles : Reading(g, M)
    BY <1>4, <2>1, Zenon DEF AllowInv
  <2>3. mappings[g] = M => ~Enough(M)
    BY <1>3, HoldsFact
  <2>4. ~Enough(M)
    BY <2>2, <2>3, Zenon DEF Reading
  <2>5. Wanted \notin found
    BY <2>1, <2>2, <2>4 DEF Reading, Enough
  <2>6. Wanted \notin collected
    BY <1>4, <2>1 DEF AllowInv
  <2>7. QED
    BY <2>1, <2>5, <2>6
<1>12. CASE ReadFails
  <2>1. step' = "groups" /\ (collected' = {} \/ (collected' = collected /\ step \in {"groups", "roles"}))
    BY <1>12 DEF ReadFails
  <2>2. step \in {"groups", "roles"} => Wanted \notin collected
    BY <1>4, Zenon DEF AllowInv
  <2>3. QED
    BY <2>1, <2>2
<1>13. CASE Decide
  <2>1. /\ step = "groups" /\ step' \in {"allow", "deny"}
        /\ step' = "allow" => Wanted \in collected
    BY <1>13 DEF Decide
  <2>2. Wanted \notin collected
    BY <1>4, <2>1 DEF AllowInv
  <2>3. QED
    BY <2>1, <2>2
<1>14. QED
  BY <1>1, <1>8, <1>9, <1>10, <1>11, <1>12, <1>13, Zenon DEF Reads

LEMMA AllowStep ==
  ASSUME HandlerInv, HandlerInv', ReaderInv, AllowInv, [AccessNext]_allVars
  PROVE  AllowInv'
<1>1. CASE step' = "idle"
  BY <1>1 DEF AllowInv
<1>2. ASSUME NEW l \in Logins, Arrive(l), Identity(l) # "basic" PROVE AllowInv'
  <2>1. /\ step' \in {"challenge", "allow", "deny", "list"}
        /\ step' = "allow" => ~GroupClaim
    BY <1>2, ArriveEffect, Zenon
  <2>2. QED
    BY <2>1, Zenon DEF AllowInv, Unjustified
<1>3. QED
  BY <1>1, <1>2, AllowElse, AllowOwn, StepParts, Zenon

-----------------------------------------------------------------------------
(* Access that is denied.                                                  *)

LEMMA PhaseStep ==
  ASSUME HandlerInv, [Next]_vars
  PROVE  \/ phase' = phase \/ phase' = "idle" \/ (phase = "idle" /\ phase' # "idle")
         \/ phase # "idle" /\ phase' = Follow[phase]
<1>1. ASSUME NEW kind \in {"Create", "Update"}, NEW cfg \in Configs, NEW auth \in BOOLEAN,
             Begin(kind, cfg, auth)
      PROVE  phase = "idle" /\ phase' # "idle"
  BY <1>1 DEF Begin
<1>2. UNCHANGED vars \/ DeleteEvent => phase' = phase
  BY Zenon DEF vars, DeleteEvent, handler
<1>3. ASSUME NEW r \in inflight, Serve(r) \/ Fails(r) PROVE phase' = phase
  BY <1>3, ServeEffect, FailEffect, Zenon
<1>4. Resolve => phase # "idle" /\ phase' = Follow[phase]
  BY Zenon DEF Resolve, Send
<1>5. Retry => phase' = phase
  BY Zenon DEF Retry, Send
<1>6. CASE GiveUp
  <2>1. phase' = IF event = "Create" THEN Follow[phase] ELSE "idle"
    BY <1>6, Zenon DEF GiveUp, Send
  <2>2. phase # "idle"
    BY <1>6, Zenon DEF GiveUp, HandlerInv, Quiet
  <2>3. QED
    BY <2>1, <2>2
<1>7. QED
  BY <1>1, <1>2, <1>3, <1>4, <1>5, <1>6, StepKinds, Zenon

(* Before and during the deletions nothing is added.                       *)
LEMMA ShrinkingStep ==
  ASSUME HandlerInv, [Next]_vars, ~late, UnderWay => met, Shrinking
  PROVE  /\ UNCHANGED <<roles, permissions>>
         /\ \A g \in Groups : mappings'[g] \in {mappings[g], {}}
<1>1. \A r \in inflight : r.op \in Deleting
  <2>1. CASE ~met
    BY <2>1, Zenon DEF UnderWay
  <2>2. CASE phase \in {"list", "unmap"} \/ \E r \in inflight : r.op = "unmap"
    BY <2>2 DEF HandlerInv, Kinds, Deleting
  <2>3. QED
    BY <2>1, <2>2, Zenon DEF Shrinking
<1>2. UNCHANGED <<roles, permissions>>
  BY <1>1, DruidStep DEF Growing, Deleting
<1>3. UNCHANGED mappings \/ Mapping
  BY DruidStep
<1>4. Mapping => \A g \in Groups : mappings'[g] \in {mappings[g], {}}
  BY <1>1 DEF Mapping, Deleting
<1>5. QED
  BY <1>2, <1>3, <1>4

(* After the deletions a mapping that is there stays, until the next event. *)
LEMMA StandingStep ==
  ASSUME HandlerInv, [Next]_vars, Observed, followed' = {}, ~Shrinking
  PROVE  /\ ~Shrinking'
         /\ \A g \in Groups : mappings[g] # {} => mappings'[g] = mappings[g]
<1>1. met /\ met' /\ phase \notin {"list", "unmap"} /\ ~\E r \in inflight : r.op = "unmap"
  BY Zenon DEF Shrinking, Observed
<1>2. ~(phase = "idle" /\ phase' # "idle")
  <2>1. met /\ phase = "idle" /\ phase' # "idle" => event' \in followed'
    BY Zenon DEF Observed
  <2>2. event' \notin followed'
    OBVIOUS
  <2>3. QED
    BY <1>1, <2>1, <2>2, Zenon
<1>3. phase' \notin {"list", "unmap"}
  <2>1. phase \in Ops \cup {"idle"}
    BY DEF HandlerInv, Types
  <2>2. QED
    BY <1>1, <1>2, <2>1, PhaseStep, FollowFacts DEF Ops
<1>4. ~\E r \in inflight' : r.op = "unmap"
  BY <1>1, <1>3, SentStep
<1>5. UNCHANGED mappings \/ Mapping
  BY DruidStep
<1>6. Mapping => \A g \in Groups : mappings[g] # {} => mappings'[g] = mappings[g]
  BY <1>1 DEF Mapping
<1>7. QED
  BY <1>1, <1>3, <1>4, <1>5, <1>6, Zenon DEF Shrinking

LEMMA CoveredStep ==
  ASSUME HandlerInv, Growing, UNCHANGED reader, NEW g \in Groups, mappings'[g] = mappings[g],
         Covered(g)
  PROVE  Covered(g)'
<1>1. UNCHANGED <<step, groupsLeft, rolesLeft, found>>
  BY Zenon DEF reader
<1>2. mappings[g] \subseteq Roles
  BY DEF HandlerInv, Types
<1>3. QED
  BY <1>1, <1>2 DEF Covered, Growing

(* A request of which nothing is missing so far had none missing before.   *)
LEMMA UnbrokenStep ==
  ASSUME ReaderInv, step # "idle", Observed, Unbroken'
  PROVE  /\ Unbroken /\ ~late /\ followed' = {} /\ HoldsNow /\ HoldsNow'
         /\ UnderWay => met
<1>1. followed \subseteq followed' /\ followed' = {}
  BY Zenon DEF Unbroken, Observed
<1>2. followed = {}
  BY <1>1
<1>3. Unbroken
  BY <1>2, Zenon DEF Unbroken, Observed
<1>4. QED
  BY <1>1, <1>3, Zenon DEF Unbroken, Observed, ReaderInv, Truth

(* What is kept while the groups are read.                                 *)
Promised ==
  Wanted \notin collected =>
    /\ \E g \in Mine : Enough(mappings[g]) /\ Covered(g)
    /\ Shrinking => \A g \in Mine : Enough(mappings[g]) => Covered(g)

LEMMA DenySplit ==
  DenyInv <=> (Unbroken => step # "deny" /\ (step \in {"groups", "roles"} => Promised))
BY Zenon DEF DenyInv, Promised

LEMMA DenySplitAfter ==
  DenyInv' <=> (Unbroken' => step' # "deny" /\ (step' \in {"groups", "roles"} => Promised'))
BY Zenon DEF DenyInv, Promised

LEMMA DenyElse ==
  ASSUME HandlerInv, ReaderInv, DenyInv, step # "idle", login' = login, Observed, ElseStep
  PROVE  DenyInv'
<1> SUFFICES ASSUME Unbroken'
             PROVE  step' # "deny" /\ (step' \in {"groups", "roles"} => Promised')
  BY DenySplitAfter, Zenon
<1>1. UNCHANGED reader /\ UNCHANGED <<step, collected>> /\ [Next]_vars
  BY Zenon DEF ElseStep, reader
<1>2. /\ Unbroken /\ ~late /\ followed' = {} /\ HoldsNow'
      /\ UnderWay => met
  BY UnbrokenStep, Zenon
<1>3. step # "deny" /\ (step \in {"groups", "roles"} => Promised)
  BY <1>2, DenySplit, Zenon
<1>4. ASSUME step \in {"groups", "roles"} PROVE Promised'
  <2> SUFFICES ASSUME Wanted \notin collected'
               PROVE  /\ \E g \in Mine' : Enough(mappings[g])' /\ Covered(g)'
                      /\ Shrinking' => \A g \in Mine' : Enough(mappings[g])' => Covered(g)'
    BY Zenon DEF Promised
  <2>1. /\ \E g \in Mine : Enough(mappings[g]) /\ Covered(g)
        /\ Shrinking => \A g \in Mine : Enough(mappings[g]) => Covered(g)
    BY <1>1, <1>3, <1>4 DEF Promised
  <2>2. Mine' = Mine /\ Mine \subseteq Groups
    BY MineFact DEF Mine, ReaderInv
  <2>3. Growing
    BY <1>1, DruidStep
  <2>4. CASE Shrinking
    <3>1. /\ UNCHANGED <<roles, permissions>>
          /\ \A g \in Groups : mappings'[g] \in {mappings[g], {}}
      BY <1>1, <1>2, <2>4, ShrinkingStep
    <3>2. ASSUME NEW g \in Mine, Enough(mappings[g])' PROVE Covered(g)'
      <4>1. mappings'[g] = mappings[g] /\ Enough(mappings[g])
        BY <2>2, <3>1, <3>2 DEF Enough
      <4>2. Covered(g) /\ g \in Groups
        BY <2>1, <2>2, <2>4, <4>1
      <4>3. QED
        BY <1>1, <2>3, <4>1, <4>2, CoveredStep
    <3>3. \E g \in Mine : Enough(mappings[g])'
      BY <1>2, <2>2, HoldsFactAfter
    <3>4. QED
      BY <2>2, <3>2, <3>3
  <2>5. CASE ~Shrinking
    <3>1. /\ ~Shrinking'
          /\ \A g \in Groups : mappings[g] # {} => mappings'[g] = mappings[g]
      BY <1>1, <1>2, <2>5, StandingStep
    <3>2. PICK g \in Mine : Enough(mappings[g]) /\ Covered(g)
      BY <2>1
    <3>3. g \in Groups /\ mappings[g] # {} /\ mappings[g] \in SUBSET Roles
      BY <2>2, <3>2 DEF Enough, HandlerInv, Types
    <3>4. mappings'[g] = mappings[g]
      BY <3>1, <3>3
    <3>5. Covered(g)'
      BY <1>1, <2>3, <3>2, <3>3, <3>4, CoveredStep
    <3>6. Enough(mappings[g])'
      <4>1. mappings[g] \subseteq roles /\ \E r \in mappings[g] : Wanted \in permissions[r]
        BY <3>2 DEF Enough
      <4>2. mappings[g] \subseteq roles' /\ \E r \in mappings[g] : Wanted \in permissions'[r]
        BY <2>3, <3>3, <4>1 DEF Growing
      <4>3. QED
        BY <3>4, <4>2 DEF Enough
    <3>7. QED
      BY <2>2, <3>1, <3>2, <3>5, <3>6
  <2>6. QED
    BY <2>4, <2>5
<1>5. QED
  BY <1>1, <1>3, <1>4

LEMMA DenyOwn ==
  ASSUME ReaderInv, DenyInv, step # "idle", login' = login, Observed, OwnStep
  PROVE  DenyInv'
<1> SUFFICES ASSUME Unbroken'
             PROVE  step' # "deny" /\ (step' \in {"groups", "roles"} => Promised')
  BY DenySplitAfter, Zenon
<1>1. /\ UNCHANGED <<roles, permissions, mappings, phase, inflight>>
      /\ Reads \/ ReadFails \/ Decide
  BY Zenon DEF OwnStep, vars, druid, handler
<1>2. Unbroken /\ HoldsNow
  BY UnbrokenStep, Zenon
<1>3. step # "deny" /\ (step \in {"groups", "roles"} => Promised)
  BY <1>2, DenySplit, Zenon
<1>4. Mine' = Mine
  BY DEF Mine
<1>5. \A g : Enough(mappings[g])' <=> Enough(mappings[g])
  BY <1>1 DEF Enough
<1>6. Shrinking' => Shrinking
  BY <1>1, Zenon DEF Shrinking, Observed
(* A step that leaves every group covered that is, or finds the permission. *)
<1>7. ASSUME step \in {"groups", "roles"},
             Wanted \in collected => Wanted \in collected',
             \A g \in Mine : Enough(mappings[g]) /\ Covered(g) => Covered(g)' \/ Wanted \in collected'
      PROVE  Promised'
  <2> SUFFICES ASSUME Wanted \notin collected'
               PROVE  /\ \E g \in Mine' : Enough(mappings[g])' /\ Covered(g)'
                      /\ Shrinking' => \A g \in Mine' : Enough(mappings[g])' => Covered(g)'
    BY Zenon DEF Promised
  <2>1. /\ \E g \in Mine : Enough(mappings[g]) /\ Covered(g)
        /\ Shrinking => \A g \in Mine : Enough(mappings[g]) => Covered(g)
    BY <1>3, <1>7, Zenon DEF Promised
  <2>2. QED
    BY <1>4, <1>5, <1>6, <1>7, <2>1, Zenon
<1>8. CASE ListGroups
  <2>1. /\ step' = "groups" /\ groupsLeft' = Named(mappings) \cap Mine
    BY <1>8 DEF ListGroups, Mine
  <2>2. Mine \subseteq Groups
    BY MineFact, Zenon DEF ReaderInv
  <2>3. ASSUME NEW g \in Mine, Enough(mappings[g]) PROVE Covered(g)'
    <3>1. mappings[g] # {}
      BY <2>3 DEF Enough
    <3>2. g \in groupsLeft'
      BY <2>1, <2>2, <3>1 DEF Named
    <3>3. QED
      BY <3>2 DEF Covered
  <2>4. \E g \in Mine : Enough(mappings[g])
    BY <1>2, HoldsFact, Zenon
  <2>5. Promised'
    BY <1>4, <1>5, <2>3, <2>4, Zenon DEF Promised
  <2>6. QED
    BY <2>1, <2>5
<1>9. ASSUME NEW h \in groupsLeft, ReadGroup(h)
      PROVE  step' # "deny" /\ Promised'
  <2>1. /\ step = "groups" /\ collected' = collected /\ groupsLeft' = groupsLeft \ {h}
        /\ step' = IF mappings[h] = {} THEN "groups" ELSE "roles"
        /\ rolesLeft' = mappings[h] /\ found' = {}
    BY <1>9 DEF ReadGroup
  <2>2. ASSUME NEW g \in Mine, Enough(mappings[g]), Covered(g) PROVE Covered(g)'
    <3>1. g \in groupsLeft
      BY <2>1, <2>2 DEF Covered
    <3>2. CASE g = h
      <4>1. step' = "roles" /\ rolesLeft' = mappings[g] /\ \E r \in mappings[g] : Wanted \in permissions[r]
        BY <2>1, <2>2, <3>2 DEF Enough
      <4>2. QED
        BY <1>1, <4>1 DEF Covered
    <3>3. CASE g # h
      BY <2>1, <3>1, <3>3 DEF Covered
    <3>4. QED
      BY <3>2, <3>3
  <2>3. QED
    BY <1>7, <2>1, <2>2
<1>10. ASSUME NEW r \in rolesLeft, ReadRole(r)
       PROVE  step' # "deny" /\ Promised'
  <2>1. /\ step = "roles" /\ collected' = collected /\ groupsLeft' = groupsLeft
        /\ step' \in {"groups", "roles"}
        /\ r \in roles => /\ rolesLeft' = rolesLeft \ {r} /\ found' = found \cup permissions[r]
                          /\ step' = step
    BY <1>10 DEF ReadRole
  <2>2. ASSUME NEW g \in Mine, Enough(mappings[g]), Covered(g) PROVE Covered(g)'
    <3>1. CASE g \in groupsLeft
      BY <2>1, <3>1 DEF Covered
    <3>2. CASE /\ rolesLeft \subseteq mappings[g]
               /\ Wanted \in found \/ \E k \in rolesLeft : Wanted \in permissions[k]
      <4>1. r \in roles
        BY <2>2, <3>2 DEF Enough
      <4>2. QED
        BY <1>1, <2>1, <3>2, <4>1 DEF Covered
    <3>3. QED
      BY <2>2, <3>1, <3>2, Zenon DEF Covered
  <2>3. QED
    BY <1>7, <2>1, <2>2
<1>11. CASE EndGroup
  <2>1. /\ step = "roles" /\ rolesLeft = {} /\ step' = "groups" /\ groupsLeft' = groupsLeft
        /\ collected' = collected \cup found
    BY <1>11 DEF EndGroup
  <2>2. ASSUME NEW g \in Mine, Enough(mappings[g]), Covered(g)
        PROVE  Covered(g)' \/ Wanted \in collected'
    BY <2>1, <2>2 DEF Covered
  <2>3. QED
    BY <1>7, <2>1, <2>2
<1>12. ~ReadFails
  BY <1>2, Zenon DEF ReadFails, Unbroken
<1>13. CASE Decide
  <2>1. /\ step = "groups" /\ groupsLeft = {}
        /\ step' = IF Wanted \in collected THEN "allow" ELSE "deny"
    BY <1>13 DEF Decide
  <2>2. \A g : ~Covered(g)
    BY <2>1 DEF Covered
  <2>3. Wanted \in collected
    BY <1>3, <2>1, <2>2, Zenon DEF Promised
  <2>4. QED
    BY <2>1, <2>3
<1>14. QED
  BY <1>1, <1>8, <1>9, <1>10, <1>11, <1>12, <1>13, Zenon DEF Reads

LEMMA DenyStep ==
  ASSUME HandlerInv, ReaderInv, DenyInv, [AccessNext]_allVars
  PROVE  DenyInv'
<1>1. CASE step' = "idle"
  BY <1>1 DEF DenyInv
<1>2. ASSUME NEW l \in Logins, Arrive(l), Identity(l) # "basic" PROVE DenyInv'
  <2>1. /\ step' \in {"challenge", "allow", "deny", "list"}
        /\ step' = "deny" => Mine' = {}
        /\ Truth'
    BY <1>2, ArriveEffect, Zenon
  <2>2. step' = "deny" => ~HoldsNow'
    BY <2>1, HoldsFactAfter
  <2>3. Unbroken' => step' # "deny"
    BY <2>1, <2>2, Zenon DEF Unbroken, Truth
  <2>4. step' \notin {"groups", "roles"}
    BY <2>1
  <2>5. QED
    BY <2>3, <2>4, DenySplitAfter, Zenon
<1>3. QED
  BY <1>1, <1>2, DenyElse, DenyOwn, StepParts, Zenon

-----------------------------------------------------------------------------
(* The theorems.                                                           *)

LEMMA AccessInvInit == AccessInit => ReaderInv /\ AllowInv /\ DenyInv
<1>1. AccessInit => step = "idle" /\ login = NoLogin
  BY Zenon DEF AccessInit
<1>2. QED
  BY <1>1 DEF ReaderInv, AllowInv, DenyInv, NoLogin, Login

(* Whatever the order in which groups, roles and permissions are read      *)
(* while updates delete and create them: access is granted only to a user  *)
(* who held the permission at some moment of the request, unless a request *)
(* of the handler was late or a Create followed another event meanwhile.   *)
THEOREM AllowSound == AccessSpec => []AllowJustified
<1>1. AllowInv => AllowJustified
  BY Zenon DEF AllowInv, AllowJustified, Unjustified
<1>2. AccessSpec => []HandlerInv
  BY UsersOnlyRead, HandlerInvariant, PTL
<1>3. QED
  BY <1>1, <1>2, AccessInvInit, ReaderStep, AllowStep, PTL DEF AccessSpec

(* And with every read answered it is denied only to a user who at some    *)
(* moment of the request did not hold the permission, unless a request of  *)
(* the handler was late or one event followed another meanwhile.           *)
THEOREM DenySound == AccessSpec => []DenyJustified
<1>1. DenyInv => DenyJustified
  BY Zenon DEF DenyInv, DenyJustified, Unbroken
<1>2. AccessSpec => []HandlerInv
  BY UsersOnlyRead, HandlerInvariant, PTL
<1>3. QED
  BY <1>1, <1>2, AccessInvInit, ReaderStep, DenyStep, PTL DEF AccessSpec
=============================================================================
