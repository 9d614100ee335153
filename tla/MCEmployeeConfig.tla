------------------------- MODULE MCEmployeeConfig --------------------------
(* Two managers and a caller; EmployeeConfig_revoke.cfg has two workspaces, one   *)
(* to take out and one to add, EmployeeConfig.cfg one workspace and two directories. *)
EXTENDS EmployeeConfig
============================================================================
