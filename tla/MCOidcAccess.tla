---------------------------- MODULE MCOidcAccess ----------------------------
(* Instances of OidcAccess for TLC: two groups whose roles change.         *)
EXTENDS OidcAccess

TwoGroups == {"g1", "g2"}
TwoRoles  == {"read", "write"}

(* Under the first both groups may write, so that a user of both may while *)
(* one mapping is deleted and the other is still there; under the second   *)
(* neither may, and one has no mapping.                                    *)
TwoConfigs ==
  {[g1 |-> {"read", "write"}, g2 |-> {"write"}], [g1 |-> {}, g2 |-> {"read"}]}

Writing == <<"DATASOURCE", "WRITE">>

Request0 == [basic |-> "none", bearer |-> "none", session |-> "none", claim |-> "array", groups |-> {"g1"}]

(* A user of one group with a session, one of both with a token; a claim   *)
(* that is a string; and requests that no look at the groups answers.      *)
SomeLogins ==
  {[Request0 EXCEPT !.session = "valid"],
   [Request0 EXCEPT !.bearer = "valid", !.groups = {"g1", "g2"}],
   [Request0 EXCEPT !.bearer = "valid", !.session = "valid", !.claim = "string"],
   [Request0 EXCEPT !.bearer = "nosub", !.session = "valid"],
   [Request0 EXCEPT !.basic = "valid"]}
=============================================================================
