------------------------------ MODULE Utility ------------------------------
(***************************************************************************)
(* The C++11 back-ports of std::conjunction and std::disjunction in        *)
(* include/ara/core/utility.h. A trait is a type with a static bool        *)
(* value; here a record of the type's name and its value. The templates   *)
(* do not compute a bool but inherit from one of their arguments, so the  *)
(* operators return the trait they derive from. A recursion over the pack *)
(* Bs... is a RECURSIVE operator over a sequence of traits.                *)
(***************************************************************************)
EXTENDS Integers, Sequences

TrueType  == [type |-> "true_type",  value |-> TRUE]
FalseType == [type |-> "false_type", value |-> FALSE]

(* Mutant of Conjunction: the two-argument specialisation picks its       *)
(* branches the way disjunction does, conditional<B1::value, B1, B2>.      *)
RECURSIVE ConjunctionSwappedPair(_)
ConjunctionSwappedPair(bs) ==
    CASE bs = <<>>     -> TrueType
      [] Len(bs) = 1   -> Head(bs)
      [] Len(bs) = 2   -> IF Head(bs).value THEN Head(bs) ELSE bs[2]
      [] OTHER         -> IF Head(bs).value THEN ConjunctionSwappedPair(Tail(bs))
                                            ELSE Head(bs)

(* conjunction<Bs...>: the four specialisations, empty pack, one trait,  *)
(* two traits, and B1 followed by a non-empty pack.                        *)
RECURSIVE Conjunction(_)
Conjunction(bs) ==
    CASE bs = <<>>     -> TrueType
      [] Len(bs) = 1   -> Head(bs)
      [] Len(bs) = 2   -> IF Head(bs).value THEN bs[2] ELSE Head(bs)
      [] OTHER         -> IF Head(bs).value THEN Conjunction(Tail(bs))
                                            ELSE Head(bs)

(* disjunction<Bs...>, with the same four specialisations.                 *)
RECURSIVE Disjunction(_)
Disjunction(bs) ==
    CASE bs = <<>>     -> FalseType
      [] Len(bs) = 1   -> Head(bs)
      [] Len(bs) = 2   -> IF Head(bs).value THEN Head(bs) ELSE bs[2]
      [] OTHER         -> IF Head(bs).value THEN Head(bs)
                                            ELSE Disjunction(Tail(bs))

-----------------------------------------------------------------------------
(* Reference, the C++17 definition [meta.logical]: conjunction of an      *)
(* empty pack is true_type, otherwise the first Bi whose value is false,  *)
(* or the last Bi when there is none; disjunction dually.                  *)
FirstWith(bs, b) ==
    LET hits == {i \in 1..Len(bs) : bs[i].value = b}
    IN IF hits = {} THEN Len(bs)
       ELSE CHOOSE i \in hits : \A j \in hits : i <= j

RefConjunction(bs) == IF bs = <<>> THEN TrueType ELSE bs[FirstWith(bs, FALSE)]
RefDisjunction(bs) == IF bs = <<>> THEN FalseType ELSE bs[FirstWith(bs, TRUE)]
=============================================================================
