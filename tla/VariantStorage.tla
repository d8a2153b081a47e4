--------------------------- MODULE VariantStorage ---------------------------
(***************************************************************************)
(* Storage lifetime of ara::core::Variant<Types...>                         *)
(* (include/ara/core/variant.h): a byte buffer m_storage and a type index  *)
(* m_type_index (INVALID_VARIANT_INDEX when valueless).  The member living *)
(* in the buffer is constructed, destroyed, copied and moved through       *)
(* internal::call_at_index, keyed by the index, never by the object's own  *)
(* type.                                                                   *)
(*                                                                         *)
(* The state of all Variant objects of a single thread is one record st:  *)
(*   exists[v] : the Variant object v is alive (between ctor and dtor)    *)
(*   idx[v]    : m_type_index of v                                        *)
(*   store[v]  : the member object in v's buffer: its alternative, value  *)
(*               (Moved after it was moved from) and whether its lifetime *)
(*               has begun and not yet ended (live)                        *)
(*   built     : members constructed so far (placement new)               *)
(*   dead      : members destroyed so far (call_at_index::destructor)     *)
(* Each public member function is an operator from st to st; a function   *)
(* calling another (swap -> std::swap -> move ctor / move assignment) is  *)
(* the composition of their operators, so one call is one step.           *)
(***************************************************************************)
EXTENDS Naturals

CONSTANTS
    Vars,      \* the Variant objects the program declares
    Tmp,       \* the temporary Variant inside operator=(T&&) and std::swap
    Alts,      \* alternative indices 0..n-1 of Types...
    Vals,      \* values a member may be constructed with
    Invalid,   \* INVALID_VARIANT_INDEX
    Moved,     \* the value of a moved-from member
    MaxOps     \* bound on the number of calls in a behaviour

ASSUME /\ Tmp \notin Vars
       /\ Invalid \notin Alts
       /\ Moved \notin Vals
       /\ MaxOps \in Nat

Slots == Vars \cup {Tmp}

(* A buffer no member was ever constructed in ({0u}-initialised bytes).   *)
NoCell == [alt |-> Invalid, val |-> Invalid, live |-> FALSE]

VARIABLES
    st,     \* the Variant objects, see above
    last,   \* the call the last step made (history, for ValueSemantics)
    ops     \* calls made so far

vars == <<st, last, ops>>

-----------------------------------------------------------------------------
(* internal::call_at_index<0, Types...>: the per-member dispatch table.   *)

(* placement new of alternative a holding x in v's buffer.                 *)
NewAt(S, v, a, x) ==
    [S EXCEPT !.store[v] = [alt |-> a, val |-> x, live |-> TRUE],
              !.built = @ + 1]

(* destructor(index, ptr): ends the member's lifetime.                    *)
DestroyAt(S, v) == [S EXCEPT !.store[v].live = FALSE, !.dead = @ + 1]

(* moveConstructor(index, source, destination): the source member is     *)
(* left in place, moved from.                                              *)
MoveConstructAt(S, a, src, dst) ==
    [NewAt(S, dst, a, S.store[src].val) EXCEPT !.store[src].val = Moved]

(* move(index, source, destination): member move assignment.              *)
MoveAssignAt(S, src, dst) ==
    [S EXCEPT !.store[dst].val = S.store[src].val, !.store[src].val = Moved]

(* copyConstructor / copy(index, source, destination).                     *)
CopyConstructAt(S, a, src, dst) == NewAt(S, dst, a, S.store[src].val)
CopyAssignAt(S, src, dst) == [S EXCEPT !.store[dst].val = S.store[src].val]

(* Variant::call_element_destructor.                                       *)
CallElementDestructor(S, v) ==
    IF S.idx[v] # Invalid THEN DestroyAt(S, v) ELSE S

-----------------------------------------------------------------------------
(* The member functions of Variant.                                        *)

(* Variant() = default: valueless, zeroed buffer.                          *)
DefaultCtor(S, v) ==
    [S EXCEPT !.exists[v] = TRUE, !.idx[v] = Invalid, !.store[v] = NoCell]

(* Variant(T&&): index of T, then placement new of T.                     *)
CtorValue(S, v, a, x) ==
    NewAt([S EXCEPT !.exists[v] = TRUE, !.idx[v] = a, !.store[v] = NoCell], v, a, x)

(* Variant(const Variant&).                                                *)
CopyCtor(S, v, w) ==
    LET S1 == [S EXCEPT !.exists[v] = TRUE, !.idx[v] = S.idx[w], !.store[v] = NoCell]
    IN IF S1.idx[v] # Invalid THEN CopyConstructAt(S1, S1.idx[v], w, v) ELSE S1

(* Mutant of MoveCtor: the validity test is inverted.                      *)
MoveCtorNoConstruct(S, v, w) ==
    LET S1 == [S EXCEPT !.exists[v] = TRUE, !.idx[v] = S.idx[w], !.store[v] = NoCell]
        S2 == IF S1.idx[v] = Invalid THEN MoveConstructAt(S1, S1.idx[v], w, v) ELSE S1
    IN [S2 EXCEPT !.idx[w] = Invalid]

(* Variant(Variant&&): take the index, move-construct the member, mark the *)
(* source valueless.  The moved-from member is never destroyed.            *)
MoveCtor(S, v, w) ==
    LET S1 == [S EXCEPT !.exists[v] = TRUE, !.idx[v] = S.idx[w], !.store[v] = NoCell]
        S2 == IF S1.idx[v] # Invalid THEN MoveConstructAt(S1, S1.idx[v], w, v) ELSE S1
    IN [S2 EXCEPT !.idx[w] = Invalid]

(* operator=(const Variant&).                                              *)
CopyAssign(S, v, w) ==
    CASE v = w                -> S
      [] S.idx[v] # S.idx[w] ->
           LET S1 == [CallElementDestructor(S, v) EXCEPT !.idx[v] = S.idx[w]]
           IN IF S1.idx[v] # Invalid THEN CopyConstructAt(S1, S1.idx[v], w, v) ELSE S1
      [] OTHER                ->
           IF S.idx[v] # Invalid THEN CopyAssignAt(S, w, v) ELSE S

(* operator=(Variant&&): as the copy, then the source is marked valueless *)
(* in both branches; its moved-from member is never destroyed.            *)
MoveAssign(S, v, w) ==
    CASE v = w                -> S
      [] S.idx[v] # S.idx[w] ->
           LET S1 == [CallElementDestructor(S, v) EXCEPT !.idx[v] = S.idx[w]]
               S2 == IF S1.idx[v] # Invalid THEN MoveConstructAt(S1, S1.idx[v], w, v) ELSE S1
           IN [S2 EXCEPT !.idx[w] = Invalid]
      [] OTHER                ->
           LET S1 == IF S.idx[v] # Invalid THEN MoveAssignAt(S, w, v) ELSE S
           IN [S1 EXCEPT !.idx[w] = Invalid]

(* ~Variant.                                                               *)
Dtor(S, v) == [CallElementDestructor(S, v) EXCEPT !.exists[v] = FALSE]

(* operator=(T&&): build a temporary Variant from the value, destroy this *)
(* member, move-construct the temporary's member in, take its index; the  *)
(* temporary's destructor destroys its moved-from member.                 *)
AssignValue(S, v, a, x) ==
    LET S1 == CtorValue(S, Tmp, a, x)
        S2 == IF S1.idx[v] # Invalid THEN CallElementDestructor(S1, v) ELSE S1
        S3 == [MoveConstructAt(S2, S2.idx[Tmp], Tmp, v) EXCEPT !.idx[v] = S2.idx[Tmp]]
    IN Dtor(S3, Tmp)

(* Mutant of Emplace: the stored index is one past the type's position.   *)
EmplaceOffByOne(S, v, a, x) ==
    LET S1 == IF S.idx[v] # Invalid THEN CallElementDestructor(S, v) ELSE S
    IN [NewAt(S1, v, a, x) EXCEPT !.idx[v] = a + 1]

(* emplace<T> / emplace_at_index<N>: destroy the member, construct the new *)
(* one, set the index.                                                     *)
Emplace(S, v, a, x) ==
    LET S1 == IF S.idx[v] # Invalid THEN CallElementDestructor(S, v) ELSE S
    IN [NewAt(S1, v, a, x) EXCEPT !.idx[v] = a]

(* emplace_at_index<N> and emplace<N>, which forwards to it: unlike        *)
(* emplace<T>, call_element_destructor is called whatever the index; it   *)
(* tests the index itself.                                                 *)
EmplaceAtIndex(S, v, a, x) ==
    [NewAt(CallElementDestructor(S, v), v, a, x) EXCEPT !.idx[v] = a]

(* The initializer_list overloads emplace<N>(il, ...) and emplace<T>(il,   *)
(* ...): both destroy unconditionally, as emplace_at_index does.          *)
EmplaceList(S, v, a, x) == EmplaceAtIndex(S, v, a, x)

(* The in_place_index and in_place_type constructors: the members keep    *)
(* their default initialisers (valueless, zeroed buffer) and the body     *)
(* emplaces.                                                               *)
InPlaceCtor(S, v, a, x) == EmplaceAtIndex(DefaultCtor(S, v), v, a, x)

(* valueless_by_exception().                                               *)
Valueless(S, v) == S.idx[v] = Invalid

(* Mutant of Swap: returns early when either side is valueless.            *)
SwapEitherValueless(S, v, w) ==
    IF Valueless(S, v) \/ Valueless(S, w) THEN S
    ELSE Dtor(MoveAssign(MoveAssign(MoveCtor(S, Tmp, v), v, w), w, Tmp), Tmp)

(* swap: nothing when both are valueless, else std::swap of this and rhs:    *)
(* Variant tmp(move(a)); a = move(b); b = move(tmp); ~tmp.                 *)
Swap(S, v, w) ==
    IF Valueless(S, v) /\ Valueless(S, w) THEN S
    ELSE Dtor(MoveAssign(MoveAssign(MoveCtor(S, Tmp, v), v, w), w, Tmp), Tmp)

-----------------------------------------------------------------------------
(* The accessors.  A pointer into v's buffer is v itself; nullptr is       *)
(* NullPtr.  a is the position of the type T asked for.                    *)
NullPtr == "nullptr"

(* index().                                                                *)
Index(S, v) == S.idx[v]

(* has_bad_variant_element_access<T>(): the index is not T's position.    *)
HasBadVariantElementAccess(S, v, a) == S.idx[v] # a

(* get<T>() (const and non-const).                                         *)
Get(S, v, a) == IF HasBadVariantElementAccess(S, v, a) THEN NullPtr ELSE v

(* get_at_index<N>() (const and non-const).                                *)
GetAtIndex(S, v, a) == IF a # S.idx[v] THEN NullPtr ELSE v

(* get_if<T>(default): the default when T is not held, else get<T>().     *)
GetIf(S, v, a, d) == IF HasBadVariantElementAccess(S, v, a) THEN d ELSE Get(S, v, a)

(* holds_alternative<T>(variant): get<T>() is not nullptr.                 *)
HoldsAlternative(S, v, a) == Get(S, v, a) # NullPtr

(* The free get_if<T> on a Variant pointer: get<T>().                      *)
FreeGetIf(S, v, a) == Get(S, v, a)

-----------------------------------------------------------------------------
Init ==
    /\ st = [exists |-> [s \in Slots |-> FALSE],
             idx    |-> [s \in Slots |-> Invalid],
             store  |-> [s \in Slots |-> NoCell],
             built  |-> 0,
             dead   |-> 0]
    /\ last = [op |-> "none"]
    /\ ops = 0

(* One call of the program on Variant v (and w), with member a, value x.  *)
Call(op, v, w, a, x, S2) ==
    /\ ops < MaxOps
    /\ st' = S2
    /\ last' = [op |-> op, v |-> v, w |-> w, a |-> a, x |-> x]
    /\ ops' = ops + 1

Construct(v, w, a, x) ==
    /\ ~st.exists[v]
    /\ \/ Call("default", v, w, a, x, DefaultCtor(st, v))
       \/ Call("ctor", v, w, a, x, CtorValue(st, v, a, x))
       \/ Call("in_place", v, w, a, x, InPlaceCtor(st, v, a, x))
       \/ st.exists[w] /\ Call("copy_ctor", v, w, a, x, CopyCtor(st, v, w))
       \/ st.exists[w] /\ Call("move_ctor", v, w, a, x, MoveCtor(st, v, w))

Modify(v, w, a, x) ==
    /\ st.exists[v]
    /\ \/ st.exists[w] /\ Call("copy_assign", v, w, a, x, CopyAssign(st, v, w))
       \/ st.exists[w] /\ Call("move_assign", v, w, a, x, MoveAssign(st, v, w))
       \/ st.exists[w] /\ Call("swap", v, w, a, x, Swap(st, v, w))
       \/ Call("assign", v, w, a, x, AssignValue(st, v, a, x))
       \/ Call("emplace", v, w, a, x, Emplace(st, v, a, x))
       \/ Call("emplace_at_index", v, w, a, x, EmplaceAtIndex(st, v, a, x))
       \/ Call("emplace_list", v, w, a, x, EmplaceList(st, v, a, x))
       \/ Call("dtor", v, w, a, x, Dtor(st, v))

(* The call budget is used up: the behaviour ends.                         *)
Done == ops = MaxOps /\ UNCHANGED vars

Next == \/ \E v, w \in Vars, a \in Alts, x \in Vals :
              Construct(v, w, a, x) \/ Modify(v, w, a, x)
        \/ Done

Spec == Init /\ [][Next]_vars

-----------------------------------------------------------------------------
Cell == [alt : Alts \cup {Invalid}, val : Vals \cup {Moved, Invalid}, live : BOOLEAN]

TypeOK ==
    /\ st \in [exists : [Slots -> BOOLEAN], idx : [Slots -> Alts \cup {Invalid}],
               store : [Slots -> Cell], built : Nat, dead : Nat]
    /\ ops \in 0..MaxOps

(* What get<T>() returns for v: nothing when valueless, else the           *)
(* alternative the index names and the value in the buffer.                *)
Content(S, v) == IF S.idx[v] = Invalid THEN <<>> ELSE <<S.idx[v], S.store[v].val>>

(* Every accessor that hands out a pointer into the buffer -- get<T>,     *)
(* get_at_index<N>, get_if, the free get_if -- points at a live member of  *)
(* the type it casts to, and they all agree with holds_alternative and     *)
(* index(): the destructor and the copy/move dispatch of call_at_index,    *)
(* keyed by the same index, then also act on that live member.             *)
AccessorsReachLiveElement ==
    \A v \in Slots, a \in Alts :
        st.exists[v] =>
            /\ \A p \in {Get(st, v, a), GetAtIndex(st, v, a), FreeGetIf(st, v, a),
                        GetIf(st, v, a, NullPtr)} :
                  p # NullPtr => st.store[p].live /\ st.store[p].alt = a
            /\ HoldsAlternative(st, v, a) <=> GetAtIndex(st, v, a) # NullPtr
            /\ HoldsAlternative(st, v, a) <=> Index(st, v) = a
            /\ Index(st, v) # Invalid => st.store[v].live

(* Each call has the value semantics of a variant: copies and moves give   *)
(* the target the source's content (a copy leaves the source as it was),  *)
(* swap exchanges the two contents, operator=(T&&) and emplace install the *)
(* new member; no other Variant changes.                                   *)
ValueSemantics ==
    [][LET v == last'.v
           w == last'.w
           op == last'.op
           Target == CASE op \in {"copy_ctor", "copy_assign", "move_ctor", "move_assign"}
                               -> Content(st, w)
                       [] op = "swap" -> Content(st, w)
                       [] op \in {"ctor", "in_place", "assign", "emplace",
                                 "emplace_at_index", "emplace_list"} -> <<last'.a, last'.x>>
                       [] op = "default" -> <<>>
       IN /\ op # "dtor" => Content(st', v) = Target
          /\ op \in {"copy_ctor", "copy_assign"} => Content(st', w) = Content(st, w)
          /\ op = "swap" => Content(st', w) = Content(st, v)
          /\ \A u \in Vars \ {v, w} : Content(st', u) = Content(st, u)]_vars

(* Every member constructed in a Variant's buffer is destroyed by the time *)
(* every Variant is destroyed: no member outlives its Variant.             *)
ElementsDestroyed ==
    (\A v \in Slots : ~st.exists[v]) => st.built = st.dead

=============================================================================
