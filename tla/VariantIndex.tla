---------------------------- MODULE VariantIndex ----------------------------
(***************************************************************************)
(* The compile-time index computations of ara::core::Variant               *)
(* (include/ara/core/variant.h, namespace internal), evaluated for every   *)
(* list of alternatives over a small universe of types and every           *)
(* "is_convertible" relation on it:                                        *)
(*   get_index_of_type      (emplace<T>, get<T>, holds_alternative)        *)
(*   get_type_at_index      (emplace_at_index<N>, get_at_index<N>)         *)
(*   get_direct_type_index,                                                *)
(*   get_convertible_type_index and T_detail (converting constructor       *)
(*   Variant(T&&): which alternative a value of type T becomes).           *)
(* A template recursion over Types... is a RECURSIVE operator over the     *)
(* sequence of alternatives; sizeof...(Types) of the tail is Len - 1.      *)
(***************************************************************************)
EXTENDS Integers, Sequences, SequencesExt, Utility

CONSTANTS
    Universe,      \* the C++ types a program may use
    MaxTypes,      \* bound on the number of alternatives
    InvalidIndex,  \* internal::invalid_index, index_type(-1)
    SizeOf,        \* sizeof of each type of Universe, in bytes
    AlignOf        \* alignof of each type of Universe

VARIABLES
    t,       \* the type T given to the template
    types,   \* the alternatives Types... of the Variant
    conv     \* std::is_convertible<From, To> as a set of pairs

vars == <<t, types, conv>>

TypeLists == BoundedSeq(Universe, MaxTypes) \ {<<>>}
Identity == {<<u, u>> : u \in Universe}

Convertible(from, to) == <<from, to>> \in conv

(* The trait std::is_convertible<From, To>, as Utility's operators take it. *)
IsConvertible(from, to) == [type |-> <<from, to>>, value |-> Convertible(from, to)]

-----------------------------------------------------------------------------
(* Mutant of VariantMax2: the comparison picks the smaller operand.        *)
VariantMax2Swapped(a, b) == IF b < a THEN b ELSE a

(* internal::max(a, b).                                                    *)
VariantMax2(a, b) == IF b < a THEN a ELSE b

(* internal::max(a, b, args...) == max(max(a, b), args...), and max(a).    *)
RECURSIVE VariantMax(_)
VariantMax(xs) ==
    CASE Len(xs) = 1 -> xs[1]
      [] Len(xs) = 2 -> VariantMax2(xs[1], xs[2])
      [] OTHER       -> VariantMax(<<VariantMax2(xs[1], xs[2])>> \o SubSeq(xs, 3, Len(xs)))

(* Variant's storage: m_storage is TYPE_SIZE = max(sizeof(Types)...)      *)
(* bytes, aligned to max(alignof(Types)...).                               *)
TypeSize(ts)     == VariantMax([i \in 1..Len(ts) |-> SizeOf[ts[i]]])
StorageAlign(ts) == VariantMax([i \in 1..Len(ts) |-> AlignOf[ts[i]]])

(* does_contain_type<T, Types...>::value.                                  *)
RECURSIVE DoesContainType(_, _)
DoesContainType(x, ts) ==
    /\ ts # <<>>
    /\ x = Head(ts) \/ DoesContainType(x, Tail(ts))

(* get_index_of_type<N, T, Types...>::index: counts up from N = 0 until    *)
(* the head is T (only instantiated when T is one of Types).               *)
RECURSIVE IndexOfTypeFrom(_, _, _)
IndexOfTypeFrom(n, x, ts) ==
    IF Head(ts) = x THEN n ELSE IndexOfTypeFrom(n + 1, x, Tail(ts))

IndexOfType(x, ts) == IndexOfTypeFrom(0, x, ts)

(* get_type_at_index<N, Index, Types...>::type.                            *)
RECURSIVE TypeAtIndexFrom(_, _, _)
TypeAtIndexFrom(n, i, ts) ==
    IF n = i THEN Head(ts) ELSE TypeAtIndexFrom(n + 1, i, Tail(ts))

TypeAtIndex(i, ts) == TypeAtIndexFrom(0, i, ts)

(* Mutant of GetDirectTypeIndex: counts the alternatives before T instead *)
(* of those after it.                                                      *)
GetDirectTypeIndexFromFront(x, ts) ==
    IF Contains(ts, x) THEN IndexOfType(x, ts) ELSE InvalidIndex

(* get_direct_type_index<T, N, Types...>::index: the number of            *)
(* alternatives after the first one that is T, or invalid_index.          *)
RECURSIVE GetDirectTypeIndex(_, _)
GetDirectTypeIndex(x, ts) ==
    CASE ts = <<>>    -> InvalidIndex
      [] Head(ts) = x -> Len(ts) - 1
      [] OTHER        -> GetDirectTypeIndex(x, Tail(ts))

(* Mutant of GetConvertibleTypeIndex: the ambiguity test is dropped.       *)
RECURSIVE GetConvertibleTypeIndexFirst(_, _)
GetConvertibleTypeIndexFirst(x, ts) ==
    CASE ts = <<>>                    -> InvalidIndex
      [] Convertible(x, Head(ts))     -> Len(ts) - 1
      [] OTHER                        -> GetConvertibleTypeIndexFirst(x, Tail(ts))

(* get_convertible_type_index<T, N, Types...>::index: at the first        *)
(* alternative T converts to, invalid_index when T also converts to a     *)
(* later one (disjunction<is_convertible<T, Types>...>), else the number of alternatives after it. *)
RECURSIVE GetConvertibleTypeIndex(_, _)
GetConvertibleTypeIndex(x, ts) ==
    CASE ts = <<>>                    -> InvalidIndex
      [] Convertible(x, Head(ts))     ->
           IF Disjunction([i \in 1..Len(Tail(ts)) |-> IsConvertible(x, Tail(ts)[i])]).value
           THEN InvalidIndex ELSE Len(ts) - 1
      [] OTHER                        -> GetConvertibleTypeIndex(x, Tail(ts))

(* T_detail<T, Types...>: T_index, T_valid, T_final, T_varIndex and        *)
(* T_varType, the alternative that Variant(T&&) constructs and the index  *)
(* it stores (T_varIndex = T_final - 1 is only used when T_valid).         *)
TDetail(x, ts) ==
    LET direct  == GetDirectTypeIndex(x, ts)
        present == direct # InvalidIndex
        index   == IF present THEN direct ELSE GetConvertibleTypeIndex(x, ts)
        valid   == index # InvalidIndex
        final   == IF valid THEN Len(ts) - index ELSE 0
    IN [valid    |-> valid,
        varIndex |-> final - 1,
        varType  |-> IF valid THEN (<<"void">> \o ts)[final + 1] ELSE "void"]

-----------------------------------------------------------------------------
Init ==
    /\ t \in Universe
    /\ types \in TypeLists
    /\ conv \in {Identity \cup r : r \in SUBSET ((Universe \X Universe) \ Identity)}

(* The next instantiation the compiler meets.                              *)
Next ==
    /\ t' \in Universe
    /\ types' \in TypeLists
    /\ conv' = conv

Spec == Init /\ [][Next]_vars

-----------------------------------------------------------------------------
(* Reference: the rule variant.h means to implement for the alternative  *)
(* a value of type T selects: the first alternative that is T itself      *)
(* (even when T occurs more than once), else the one alternative T        *)
(* converts to, else none (0-based position). Unlike std::variant's       *)
(* overload resolution it does not rank conversions (bool converts to int *)
(* and to long: std picks int, this rule none) and does not reject a      *)
(* repeated alternative.                                                   *)
RefSelect(x, ts) ==
    LET exact == {i \in 1..Len(ts) : ts[i] = x}
        convs == {i \in 1..Len(ts) : Convertible(x, ts[i])}
    IN CASE exact # {}          -> CHOOSE i \in exact : \A j \in exact : i <= j
         [] \E i \in convs : convs = {i} -> CHOOSE i \in convs : TRUE
         [] OTHER               -> 0

(* The converting constructor Variant(T&&) is enabled exactly when the     *)
(* rule above (exact match first, else a unique conversion) selects an    *)
(* alternative, and then stores that alternative's index and constructs   *)
(* a member of that alternative's type.                                    *)
ConvertingCtorSelects ==
    LET d == TDetail(t, types)
        r == RefSelect(t, types)
    IN /\ d.valid <=> r # 0
       /\ d.valid => /\ d.varIndex = r - 1
                     /\ d.varType = types[r]

(* A member constructed from a T that is itself an alternative is found   *)
(* again by get<T> and emplace<T>: the index the converting constructor   *)
(* stores is the one get_index_of_type computes, and get_type_at_index of *)
(* it is T.                                                                *)
ConstructThenGet ==
    DoesContainType(t, types) =>
        LET d == TDetail(t, types) IN
        /\ d.varIndex = IndexOfType(t, types)
        /\ TypeAtIndex(d.varIndex, types) = t

(* conjunction and disjunction of utility.h derive from the trait that   *)
(* C++17 names: the first false (true) one, else the last one, else       *)
(* true_type (false_type) for an empty pack. Checked for the pack         *)
(* is_convertible<T, Types>... of every instantiation, and its tails,      *)
(* which the recursion instantiates: get_convertible_type_index reads     *)
(* only the value, but a user of the public templates inherits every      *)
(* member of the trait they select.                                        *)
ConvertiblePack == [i \in 1..Len(types) |-> IsConvertible(t, types[i])]

LogicalTraitsMatchStd ==
    \A n \in 0..Len(ConvertiblePack) :
        LET bs == SubSeq(ConvertiblePack, n + 1, Len(ConvertiblePack))
        IN /\ Conjunction(bs) = RefConjunction(bs)
           /\ Disjunction(bs) = RefDisjunction(bs)

(* Every alternative fits the storage that placement new constructs it   *)
(* in: m_storage is as large as the largest alternative and aligned for   *)
(* each of them, and no larger than the largest (TYPE_SIZE is one of the  *)
(* sizes), for every list of alternatives.                                 *)
StorageFitsAlternatives ==
    /\ TypeSize(types) = Max(ToSet([i \in 1..Len(types) |-> SizeOf[types[i]]]))
    /\ \A i \in 1..Len(types) : StorageAlign(types) % AlignOf[types[i]] = 0

=============================================================================
