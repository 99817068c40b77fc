--------------------------- MODULE MCPiaRegister ----------------------------
(***************************************************************************)
(* Instance of PiaRegister for TLC.                                        *)
(***************************************************************************)
EXTENDS PiaRegister

=============================================================================
