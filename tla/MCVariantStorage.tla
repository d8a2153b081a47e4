-------------------------- MODULE MCVariantStorage --------------------------
(* Two Variant<T0, T1> objects, two values, five calls per behaviour.     *)
EXTENDS VariantStorage

MCAlts == {0, 1}
MCVals == {1, 2}
MCMaxOps == 5
=============================================================================
