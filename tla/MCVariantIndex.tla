--------------------------- MODULE MCVariantIndex ---------------------------
(* Three types, up to three alternatives, every convertibility relation.  *)
EXTENDS VariantIndex

MCUniverse == {"int", "long", "bool"}
MCMaxTypes == 3
\* sizeof and alignof on an LP64 target
MCSizeOf  == [u \in MCUniverse |-> CASE u = "long" -> 8 [] u = "int" -> 4 [] OTHER -> 1]
MCAlignOf == MCSizeOf
=============================================================================
