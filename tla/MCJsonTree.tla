----------------------------- MODULE MCJsonTree -----------------------------
(***************************************************************************)
(* Small instances of JsonTree and JsonValue for TLC.                      *)
(***************************************************************************)
EXTENDS JsonValue

Symmetry == Permutations(Nodes) \cup Permutations(Keys)
=============================================================================
