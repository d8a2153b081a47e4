-------------------------- MODULE MCOptionalValue --------------------------
(* Two Optional<T> objects, two values of T, five calls per behaviour.     *)
EXTENDS OptionalValue

MCVals == {1, 2}
MCMaxOps == 5
=============================================================================
