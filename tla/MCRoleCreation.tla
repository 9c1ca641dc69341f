--------------------------- MODULE MCRoleCreation ---------------------------
(* An instance of RoleCreation for TLC: two groups whose roles change.     *)
EXTENDS RoleCreation

TwoGroups == {"g1", "g2"}
TwoRoles  == {"read", "write"}

TwoConfigs ==
  {[g1 |-> {"read"}, g2 |-> {"write"}], [g1 |-> {"write"}, g2 |-> {}]}
=============================================================================
