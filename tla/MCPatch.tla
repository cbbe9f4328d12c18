------------------------------ MODULE MCPatch -------------------------------
(* Instances of Patch: the usual terminal, a large one and a tiny one.     *)
EXTENDS Patch

MCEnvironments == {<<Unset, Unset>>, <<Unset, 24>>}
MCSizes == {<<80, 24>>, <<132, 90>>, <<20, 10>>}
=============================================================================
