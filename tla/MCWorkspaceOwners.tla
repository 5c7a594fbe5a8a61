--------------------------- MODULE MCWorkspaceOwners ---------------------------
(* Instances of WorkspaceOwners for TLC. *)
EXTENDS WorkspaceOwners
=============================================================================
