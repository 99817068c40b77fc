--------------------------- MODULE MCPiaRecovery ----------------------------
(***************************************************************************)
(* Instances of PiaRecovery for TLC.  A region is a set of model values,   *)
(* so the .cfg files state the regions literally.                          *)
(***************************************************************************)
EXTENDS PiaRecovery

=============================================================================
