----------------------------- MODULE MCContact ------------------------------
(***************************************************************************)
(* The instance of Contact for TLC; its constants are model values given   *)
(* in MCContact_all.cfg.                                                   *)
(***************************************************************************)
EXTENDS Contact

=============================================================================
