----------------------------- MODULE OidcAccess -----------------------------
(* Requests of users while the roles are set up and updated: the chain of  *)
(* authenticators (basic, jwt, oidc), OidcAuthorizer, and the role         *)
(* provider that reads groups, mappings and roles of Druid one by one.     *)
EXTENDS RoleCreation

CONSTANTS
  GroupClaim,  \* is groupClaimName configured?
  Logins,      \* requests a user may make, see Login
  Wanted       \* the permission they need, <<type, action>>

VARIABLES
  login,       \* the request in hand
  step,        \* where it is: "idle", "list", "groups", "roles", "allow", "deny", "challenge"
  groupsLeft,  \* matchedGroups still to be looked at
  rolesLeft,   \* its roles still to be looked at
  found,       \* permissions of the group in hand
  collected,   \* permissions of the groups before it
  everHeld,    \* history: did the user hold Wanted at some moment of the request?
  alwaysHeld,  \* history: at every moment?
  readFailed,  \* history: did a read fail?
  lateSeen,    \* history: was a request of the handler late during the request?
  met,         \* history: was an event under way at some moment of the request?
  followed     \* history: the kinds of events that began after it had met another

reader == <<login, step, groupsLeft, rolesLeft, found, collected>>
history == <<everHeld, alwaysHeld, readFailed, lateSeen, met, followed>>
allVars == <<vars, reader, history>>

(* A request: its basic credentials, its bearer token and its session, the *)
(* form in which the group claim comes, and the groups it names.           *)
Login ==
  [basic : {"none", "valid", "invalid"}, bearer : {"none", "valid", "nosub", "invalid"},
   session : {"none", "valid"}, claim : {"none", "array", "string"}, groups : SUBSET Groups]

NoLogin == [basic |-> "none", bearer |-> "none", session |-> "none", claim |-> "none", groups |-> {}]

ASSUME LoginsAssumption == Logins \subseteq Login

(* --------------------------------------------------------------- filters *)

(* The chain's first filter is Druid's own, with skipOnFailure=false.      *)
Basic(l) ==
  CASE l.basic = "valid"   -> "basic"
    [] l.basic = "invalid" -> "stop"
    [] OTHER               -> "next"

(* JwtAuthFilter: a token that does not validate is left to the next       *)
(* filter, one without a subject is an error.                              *)
Jwt(l) ==
  CASE l.bearer = "valid" -> "jwt"
    [] l.bearer = "nosub" -> "stop"
    [] OTHER              -> "next"

(* OidcFilter: a session with a profile, or a redirection to the provider. *)
Oidc(l) == IF l.session = "valid" THEN "oidc" ELSE "stop"

(* A filter passes on what an earlier one has authenticated.               *)
Identity(l) ==
  LET basic == Basic(l) jwt == Jwt(l) IN
  IF basic # "next" THEN basic ELSE IF jwt # "next" THEN jwt ELSE Oidc(l)

(* getGroupClaimAttributes keeps an array only; the authorizer takes the   *)
(* attribute of a session apart at its commas when it is not an array.     *)
GroupsOf(l, id) ==
  CASE l.claim = "none"                   -> {}
    [] l.claim = "string" /\ id = "jwt"   -> {}
    [] OTHER                              -> l.groups

(* ------------------------------------------------------------ permissions *)

(* What a mapping grants: a role that does not exist is an error, after    *)
(* which nothing of the group counts.                                      *)
Grants(g, maps, rs, perms) ==
  IF maps[g] \subseteq rs THEN UNION {perms[r] : r \in maps[g]} ELSE {}

Holds(gs, maps, rs, perms) == \E g \in gs : Wanted \in Grants(g, maps, rs, perms)

HoldsNow == Holds(GroupsOf(login, Identity(login)), mappings, roles, permissions)

(* The handler has not answered, or one of its requests is on its way.     *)
UnderWay == phase # "idle" \/ inflight # {}

(* The history of the request in hand, at every step of anyone.            *)
Watch ==
  /\ everHeld' = (everHeld \/ HoldsNow')
  /\ alwaysHeld' = (alwaysHeld /\ HoldsNow')
  /\ lateSeen' = (lateSeen \/ late')
  /\ met' = (met \/ UnderWay')
  /\ followed' = IF met /\ phase = "idle" /\ phase' # "idle" THEN followed \cup {event'} ELSE followed

(* ---------------------------------------------------------------- requests *)

(* OidcAuthorizer.authorize up to the role provider's first request; what  *)
(* the basic authenticator admits is not this authorizer's.                *)
Arrive(l) ==
  LET id == Identity(l) IN
  /\ step = "idle" /\ login' = IF id = "basic" THEN NoLogin ELSE l
  /\ step' = CASE id = "stop"  -> "challenge"
               [] id = "basic" -> "idle"
               [] ~GroupClaim /\ id \in {"jwt", "oidc"} -> "allow"
               [] GroupClaim /\ id \in {"jwt", "oidc"} ->
                    IF l.claim = "none" \/ (l.claim = "string" /\ id = "jwt")
                    THEN "deny" ELSE "list"
  /\ IF id = "basic" THEN UNCHANGED history
     ELSE /\ everHeld' = Holds(GroupsOf(l, id), mappings, roles, permissions)
          /\ alwaysHeld' = everHeld' /\ readFailed' = FALSE /\ lateSeen' = late
          /\ met' = UnderWay /\ followed' = {}
  /\ UNCHANGED <<vars, groupsLeft, rolesLeft, found, collected>>

(* Mutation: the names are not matched with the groups of the user.        *)
ListAllGroups ==
  /\ step = "list" /\ step' = "groups"
  /\ groupsLeft' = Named(mappings) /\ collected' = {}
  /\ UNCHANGED <<vars, login, rolesLeft, found, readFailed>>
  /\ Watch

(* getPermissions: the names of all mappings, of which the user's count.   *)
ListGroups ==
  /\ step = "list" /\ step' = "groups"
  /\ groupsLeft' = Named(mappings) \cap GroupsOf(login, Identity(login))
  /\ collected' = {}
  /\ UNCHANGED <<vars, login, rolesLeft, found, readFailed>>
  /\ Watch

(* getPermissionsForGroup: the roles of one group. A mapping that is gone  *)
(* is an exception: the group has no permissions.                          *)
ReadGroup(g) ==
  /\ step = "groups" /\ g \in groupsLeft
  /\ groupsLeft' = groupsLeft \ {g}
  /\ step' = IF mappings[g] = {} THEN "groups" ELSE "roles"
  /\ rolesLeft' = mappings[g] /\ found' = {}
  /\ UNCHANGED <<vars, login, collected, readFailed>>
  /\ Watch

(* Mutation: the last role's permissions replace those before it.          *)
ReadRoleAlone(r) ==
  /\ step = "roles" /\ r \in rolesLeft
  /\ IF r \in roles
     THEN /\ rolesLeft' = rolesLeft \ {r} /\ found' = permissions[r]
          /\ UNCHANGED step
     ELSE rolesLeft' = {} /\ found' = {} /\ step' = "groups"
  /\ UNCHANGED <<vars, login, groupsLeft, collected, readFailed>>
  /\ Watch

(* ... and one role of it.                                                 *)
ReadRole(r) ==
  /\ step = "roles" /\ r \in rolesLeft
  /\ IF r \in roles
     THEN /\ rolesLeft' = rolesLeft \ {r} /\ found' = found \cup permissions[r]
          /\ UNCHANGED step
     ELSE rolesLeft' = {} /\ found' = {} /\ step' = "groups"
  /\ UNCHANGED <<vars, login, groupsLeft, collected, readFailed>>
  /\ Watch

(* permissions.addAll                                                      *)
EndGroup ==
  /\ step = "roles" /\ rolesLeft = {} /\ step' = "groups"
  /\ collected' = collected \cup found
  /\ UNCHANGED <<vars, login, groupsLeft, rolesLeft, found, readFailed>>
  /\ Watch

(* A request to Druid fails: without the list there are no permissions,    *)
(* otherwise none of the group in hand.                                    *)
ReadFails ==
  /\ readFailed' = TRUE
  /\ \/ step = "list" /\ step' = "groups" /\ groupsLeft' = {} /\ collected' = {}
        /\ UNCHANGED <<rolesLeft, found>>
     \/ step = "groups" /\ (\E g \in groupsLeft : groupsLeft' = groupsLeft \ {g})
        /\ UNCHANGED <<step, rolesLeft, found, collected>>
     \/ step = "roles" /\ step' = "groups" /\ rolesLeft' = {} /\ found' = {}
        /\ UNCHANGED <<groupsLeft, collected>>
  /\ UNCHANGED <<vars, login>>
  /\ Watch

(* permissionCheck of every permission.                                    *)
Decide ==
  /\ step = "groups" /\ groupsLeft = {}
  /\ step' = IF Wanted \in collected THEN "allow" ELSE "deny"
  /\ UNCHANGED <<vars, login, groupsLeft, rolesLeft, found, collected, readFailed>>
  /\ Watch

Answer ==
  /\ step \in {"allow", "deny", "challenge"} /\ step' = "idle"
  /\ groupsLeft' = {} /\ rolesLeft' = {} /\ found' = {} /\ collected' = {}
  /\ everHeld' = FALSE /\ alwaysHeld' = FALSE /\ readFailed' = FALSE /\ lateSeen' = FALSE
  /\ met' = FALSE /\ followed' = {}
  /\ login' = NoLogin
  /\ UNCHANGED vars

AccessInit ==
  /\ Init
  /\ login = NoLogin /\ step = "idle"
  /\ groupsLeft = {} /\ rolesLeft = {} /\ found = {} /\ collected = {}
  /\ everHeld = FALSE /\ alwaysHeld = FALSE /\ readFailed = FALSE /\ lateSeen = FALSE
  /\ met = FALSE /\ followed = {}

Reads ==
  ListGroups \/ (\E g \in groupsLeft : ReadGroup(g)) \/ (\E r \in rolesLeft : ReadRole(r)) \/ EndGroup

(* A step of the handler, of its requests or of CloudFormation; between    *)
(* two requests of users the history is at rest.                           *)
Other(A) ==
  /\ A /\ UNCHANGED <<reader, readFailed>>
  /\ IF step = "idle" THEN UNCHANGED history ELSE Watch

AccessNext ==
  \/ Other(Next)
  \/ (\E l \in Logins : Arrive(l)) \/ Reads \/ ReadFails \/ Decide \/ Answer

AccessSpec == AccessInit /\ [][AccessNext]_allVars

(* As in RoleCreation: the handler runs on, and a request that is not lost *)
(* arrives. Of the users nothing is asked.                                 *)
FairAccess == AccessSpec /\ WF_vars(Handler) /\ WF_vars(Served)

(* ------------------------------------------------------------- properties *)

(* Access is granted only if the user held the permission at some moment   *)
(* of the request, although the groups, their roles and the permissions    *)
(* are read one after the other while an update deletes and recreates them *)
(* (BasicAuthenticationRoleProvider.getPermissions, OidcAuthorizer); unless *)
(* a request of the handler was late, or a Create followed another event   *)
(* and gave permissions to what was read of a mapping deleted since.       *)
AllowJustified ==
  (step = "allow" /\ GroupClaim /\ ~lateSeen /\ "Create" \notin followed) => everHeld

(* Access is denied, with every read answered, only if there was a moment  *)
(* of the request at which the user did not hold the permission; unless a  *)
(* request of the handler was late, or one event followed another, whose   *)
(* deletions may hide what the first one's creations came too late to show. *)
DenyJustified ==
  (step = "deny" /\ ~readFailed /\ ~lateSeen /\ followed = {}) => ~alwaysHeld
=============================================================================
