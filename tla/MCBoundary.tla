----------------------------- MODULE MCBoundary -----------------------------
(***************************************************************************)
(* Instance of Boundary for TLC.  One text is a prefix of the other; hosts *)
(* and origins differ by their port or scheme; one rule has a port and one *)
(* has none; an allowlist may be empty.                                    *)
(***************************************************************************)
EXTENDS Boundary

CONSTANT here

Texts == {<<97>>, <<97, 55357, 56832>>}
LocalHosts  == {[name |-> here, port |-> NoPort]}
HostRules   == {{}, {[name |-> here, port |-> 5010], BadHost}}
OriginRules == {{}, {[scheme |-> "https", name |-> here, port |-> NoPort]}}

=============================================================================
