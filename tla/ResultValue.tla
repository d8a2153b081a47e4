---------------------------- MODULE ResultValue ----------------------------
(***************************************************************************)
(* ara::core::Result<T, E> (include/ara/core/result.h) with E = ErrorCode *)
(* (include/ara/core/error_code.h).  A Result is one member mData of type *)
(* Variant<T, E>: T is alternative 0, E alternative 1.  Its constructors,  *)
(* assignments, emplace and destructor are the Variant's (the defaulted   *)
(* special members forward to them), so the state is VariantStorage's st  *)
(* and each Result call is the composition of Variant operators it makes. *)
(* The observers (HasValue, Value, Error, ValueOr, ErrorOr, CheckError,   *)
(* ValueOrThrow, Resolve, Bind, ==, !=) are pure operators on the content *)
(* of mData.  ErrorCode and the exceptions ValueOrThrow throws are those  *)
(* of ErrorCodes.  The objects in VoidResults are Result<void, E>, whose  *)
(* mData is Variant<dummy, E>: the value slot holds the one value Dummy.  *)
(***************************************************************************)
EXTENDS Naturals, TLC, ErrorCodes

CONSTANTS
    Results,    \* the Result objects the program declares
    VoidResults,\* those of them that are Result<void, E>
    Dummy,      \* the value dummy{} of Result<void, E>'s T
    Tmp,        \* the temporary inside std::swap
    TVals,      \* values of T
    Errs,       \* ErrorCode values: [domain, value, support]
    Invalid,    \* INVALID_VARIANT_INDEX
    Moved,      \* the value of a moved-from member
    NullDeref,  \* a member function was called through a null pointer
    MaxOps      \* bound on the number of calls in a behaviour

ASSUME VoidResults \subseteq Results /\ Dummy \notin TVals

VARIABLES st, last, ops

vars == <<st, last, ops>>

V == INSTANCE VariantStorage WITH Vars <- Results, Alts <- {0, 1},
                                  Vals <- TVals \cup Errs \cup {Dummy}

-----------------------------------------------------------------------------
(* The Result constructors from a T and from an E (converting Variant     *)
(* constructor into alternative 0 or 1), and the factories that return    *)
(* them (the returned prvalue initialises the object directly).           *)
ValueCtor(S, r, x) == V!CtorValue(S, r, 0, x)
ErrorCtor(S, r, e) == V!CtorValue(S, r, 1, e)
FromValue(S, r, x) == ValueCtor(S, r, x)
FromError(S, r, e) == ErrorCtor(S, r, e)

(* The defaulted copy/move constructors and assignments, and ~Result.      *)
CopyCtor(S, r, w) == V!CopyCtor(S, r, w)
MoveCtor(S, r, w) == V!MoveCtor(S, r, w)
CopyAssign(S, r, w) == V!CopyAssign(S, r, w)
MoveAssign(S, r, w) == V!MoveAssign(S, r, w)
Dtor(S, r) == V!Dtor(S, r)

(* mData.emplace<T> and mData.emplace<E>.                                  *)
EmplaceErrorAsValue(S, r, e) == V!Emplace(S, r, 0, e)
EmplaceValue(S, r, x) == V!Emplace(S, r, 0, x)
EmplaceError(S, r, e) == V!Emplace(S, r, 1, e)

(* Swap: "using std::swap; swap(mData, other.mData)".  Variant has no     *)
(* free swap, so this is std::swap, not Variant::swap: a temporary        *)
(* Variant move-constructed from this, this = move(other), other =        *)
(* move(tmp), ~tmp; there is no test for two valueless Variants.          *)
Swap(S, r, w) ==
    Dtor(MoveAssign(MoveAssign(MoveCtor(S, Tmp, r), r, w), w, Tmp), Tmp)

(* The free function swap(lhs, rhs) calls lhs.Swap(rhs).                   *)
SwapFree(S, r, w) == Swap(S, r, w)

-----------------------------------------------------------------------------
(* Observers, on the content c of mData: <<>> when valueless, else        *)
(* <<index, member>>.                                                      *)

(* Variant::get<T>, used by get_if: a pointer to the member when the index *)
(* is that of T, else nullptr (a pointer is <<x>> or <<>>).                *)
GetIf(c, a) == IF c # <<>> /\ c[1] = a THEN <<c[2]>> ELSE <<>>

(* mData.index() == 0: index() is INVALID_VARIANT_INDEX when valueless.   *)
HasValue(c) == c # <<>> /\ c[1] = 0

Value(c) == IF GetIf(c, 0) # <<>> THEN GetIf(c, 0)[1] ELSE Terminate
Error(c) == IF GetIf(c, 1) # <<>> THEN GetIf(c, 1)[1] ELSE Terminate

ValueOr(c, d) == IF HasValue(c) THEN Value(c) ELSE d
ErrorOr(c, e) == IF HasValue(c) THEN e ELSE Error(c)

(* Error() == static_cast<E>(e), where Error() may have terminated.        *)
ErrorIs(c, e) == IF Error(c) = Terminate THEN Terminate ELSE ErrEq(Error(c), e)

CheckError(c, e) == IF HasValue(c) THEN FALSE ELSE ErrorIs(c, e)

(* ValueOrThrow: the value, else e->ThrowAsException() with e the pointer *)
(* get_if<E> returned, which is null when mData is valueless.             *)
ValueOrThrow(c) ==
    CASE GetIf(c, 0) # <<>> -> GetIf(c, 0)[1]
      [] GetIf(c, 1) # <<>> -> ThrowAsException(GetIf(c, 1)[1])
      [] OTHER              -> NullDeref

(* Resolve(f): the value, else f(Error()); f is a function from E to T.    *)
Resolve(c, f) ==
    IF HasValue(c) THEN Value(c)
    ELSE IF Error(c) = Terminate THEN Terminate ELSE f[Error(c)]

(* Bind(f) for an f returning a Result (its content), and for an f        *)
(* returning a plain U that the Result<U, E> constructor wraps.  The      *)
(* error branch builds U(Error()) / R(Error()).                            *)
BindResult(c, f) ==
    IF HasValue(c) THEN f[Value(c)]
    ELSE IF Error(c) = Terminate THEN Terminate ELSE <<1, Error(c)>>

BindValueUnmapped(c, g) ==
    IF HasValue(c) THEN <<0, Value(c)>>
    ELSE IF Error(c) = Terminate THEN Terminate ELSE <<1, Error(c)>>

BindValue(c, g) ==
    IF HasValue(c) THEN <<0, g[Value(c)]>>
    ELSE IF Error(c) = Terminate THEN Terminate ELSE <<1, Error(c)>>

(* Result == Result and !=: the bool conversions first, then the held     *)
(* alternatives.                                                           *)
EqRR(c1, c2) ==
    CASE HasValue(c1) # HasValue(c2) -> FALSE
      [] HasValue(c1)                -> Value(c1) = Value(c2)
      [] OTHER -> IF Error(c1) = Terminate \/ Error(c2) = Terminate THEN Terminate
                  ELSE ErrEq(Error(c1), Error(c2))

NeRR(c1, c2) ==
    CASE HasValue(c1) # HasValue(c2) -> TRUE
      [] HasValue(c1)                -> Value(c1) # Value(c2)
      [] OTHER -> IF Error(c1) = Terminate \/ Error(c2) = Terminate THEN Terminate
                  ELSE ErrNe(Error(c1), Error(c2))

(* Result == T, T == Result, and their negations.                          *)
EqRT(c, x) == IF HasValue(c) THEN Value(c) = x ELSE FALSE
EqTR(x, c) == IF HasValue(c) THEN x = Value(c) ELSE FALSE
NeRT(c, x) == IF HasValue(c) THEN Value(c) # x ELSE TRUE
NeTR(x, c) == IF HasValue(c) THEN x # Value(c) ELSE TRUE

(* Result == E, E == Result, and their negations: Error() when !lhs.       *)
EqRE(c, e) == IF HasValue(c) THEN FALSE ELSE ErrorIs(c, e)
EqER(e, c) == IF HasValue(c) THEN FALSE ELSE ErrorIs(c, e)
NeRE(c, e) ==
    IF HasValue(c) THEN TRUE
    ELSE IF Error(c) = Terminate THEN Terminate ELSE ErrNe(Error(c), e)
NeER(e, c) ==
    IF HasValue(c) THEN TRUE
    ELSE IF Error(c) = Terminate THEN Terminate ELSE ErrNe(e, Error(c))

-----------------------------------------------------------------------------
(* Result<void, E>.  The defaulted copy/move members and ~Result are      *)
(* those of Result<T, E>.  The members that Result<void, E> writes again   *)
(* the way Result<T, E> does:                                              *)
VoidFromError(S, r, e) == ErrorCtor(S, r, e)
VoidEmplaceError(S, r, e) == EmplaceError(S, r, e)
VoidSwap(S, r, w) == Swap(S, r, w)
VoidHasValue(c) == HasValue(c)
VoidError(c) == Error(c)
VoidErrorOr(c, e) == ErrorOr(c, e)
VoidCheckError(c, e) == CheckError(c, e)

(* and those that differ:                                                  *)

(* Result() : mData(T{}), and FromValue() which returns Result().          *)
VoidDefaultCtor(S, r) == ValueCtor(S, r, Dummy)
VoidFromValue(S, r) == VoidDefaultCtor(S, r)

(* EmplaceValue(): mData.emplace<T>() builds dummy{}.                      *)
VoidEmplaceValue(S, r) == V!Emplace(S, r, 0, Dummy)

(* What a void member function that returns normally gives back.          *)
VoidRet == "void"

(* Value() and operator*: return when get_if<T> is not null, else        *)
(* std::terminate.                                                          *)
VoidValue(c) == IF GetIf(c, 0) # <<>> THEN VoidRet ELSE Terminate

(* ValueOr(d): Value(), or the default cast to void.                       *)
VoidValueOr(c, d) == IF VoidHasValue(c) THEN VoidValue(c) ELSE VoidRet

(* ValueOrThrow(): return when a value, else e->ThrowAsException() through *)
(* the get_if<E> pointer, which is null when mData is valueless.           *)
VoidValueOrThrow(c) ==
    CASE GetIf(c, 0) # <<>> -> VoidRet
      [] GetIf(c, 1) # <<>> -> ThrowAsException(GetIf(c, 1)[1])
      [] OTHER              -> NullDeref

(* Resolve(f): Value(), or f(Error()); the result is the argument f was   *)
(* called with.                                                            *)
VoidResolve(c) ==
    IF VoidHasValue(c) THEN VoidValue(c)
    ELSE IF VoidError(c) = Terminate THEN Terminate ELSE [called |-> VoidError(c)]

(* Bind(f) for a nullary f returning the Result content u, and for one    *)
(* returning a plain x that Result<U, E> wraps; U(Error()) otherwise.      *)
VoidBindResult(c, u) ==
    IF VoidHasValue(c) THEN u
    ELSE IF VoidError(c) = Terminate THEN Terminate ELSE <<1, VoidError(c)>>

VoidBindValue(c, x) ==
    IF VoidHasValue(c) THEN <<0, x>>
    ELSE IF VoidError(c) = Terminate THEN Terminate ELSE <<1, VoidError(c)>>

-----------------------------------------------------------------------------
Init == V!Init

(* Two Result objects of one type: only these copy, move and swap.        *)
SameType(r, w) == (r \in VoidResults) = (w \in VoidResults)

(* A call that creates Result r: a factory from a T (FromValue() for a    *)
(* Result<void, E>) or an E, or a copy or move of the live Result w.       *)
Create(r) ==
    /\ ~st.exists[r]
    /\ \/ r \notin VoidResults /\
             \E x \in TVals : V!Call("FromValue", r, r, 0, x, FromValue(st, r, x))
       \/ r \in VoidResults /\ V!Call("FromValue", r, r, 0, Dummy, VoidFromValue(st, r))
       \/ r \notin VoidResults /\
             \E e \in Errs : V!Call("FromError", r, r, 1, e, FromError(st, r, e))
       \/ r \in VoidResults /\
             \E e \in Errs : V!Call("FromError", r, r, 1, e, VoidFromError(st, r, e))
       \/ \E w \in Results :
            /\ st.exists[w] /\ SameType(r, w)
            /\ \/ V!Call("copy_ctor", r, w, 0, Invalid, CopyCtor(st, r, w))
               \/ V!Call("move_ctor", r, w, 0, Invalid, MoveCtor(st, r, w))

(* A call on the live Result r.                                            *)
Modify(r) ==
    /\ st.exists[r]
    /\ \/ \E w \in Results :
            /\ st.exists[w] /\ SameType(r, w)
            /\ \/ V!Call("copy_assign", r, w, 0, Invalid, CopyAssign(st, r, w))
               \/ V!Call("move_assign", r, w, 0, Invalid, MoveAssign(st, r, w))
               \/ r \notin VoidResults /\ V!Call("Swap", r, w, 0, Invalid, Swap(st, r, w))
               \/ r \in VoidResults /\ V!Call("Swap", r, w, 0, Invalid, VoidSwap(st, r, w))
               \/ V!Call("swap", r, w, 0, Invalid, SwapFree(st, r, w))
       \/ r \notin VoidResults /\
             \E x \in TVals : V!Call("EmplaceValue", r, r, 0, x, EmplaceValue(st, r, x))
       \/ r \in VoidResults /\
             V!Call("EmplaceValue", r, r, 0, Dummy, VoidEmplaceValue(st, r))
       \/ r \notin VoidResults /\
             \E e \in Errs : V!Call("EmplaceError", r, r, 1, e, EmplaceError(st, r, e))
       \/ r \in VoidResults /\
             \E e \in Errs : V!Call("EmplaceError", r, r, 1, e, VoidEmplaceError(st, r, e))
       \/ V!Call("dtor", r, r, 0, Invalid, Dtor(st, r))

(* The call budget is used up: the behaviour ends.                         *)
Done == ops = MaxOps /\ UNCHANGED vars

Next ==
    \/ \E r \in Results : Create(r) \/ Modify(r)
    \/ Done

Spec == Init /\ [][Next]_vars

-----------------------------------------------------------------------------
(* The Variant storage is well typed, and the value slot holds a T and the *)
(* error slot an E (emplace<T> and emplace<E> fill the slot they name).    *)
TypeOK ==
    /\ V!TypeOK
    /\ \A r \in Results :
          st.exists[r] /\ st.idx[r] # Invalid =>
              st.store[r].val \in (IF st.idx[r] = 1 THEN Errs
                                       ELSE IF r \in VoidResults THEN {Dummy} ELSE TVals) \cup {Moved}

Content(r) == V!Content(st, r)

(* The Results alive that hold an alternative.                              *)
Held == {r \in Results : st.exists[r] /\ Content(r) # <<>>}

(* Reference definitions from the specification of Result: a Result holds *)
(* a value or an error; ErrorCodes are equal when domain and value are;   *)
(* ValueOrThrow on an error throws the exception of the error's domain    *)
(* carrying that very error (support data included), or terminates in a   *)
(* build without exceptions (spec sections 4.1 and 7).                     *)
IsVal(c) == c[1] = 0
SameError(a, b) == a.domain = b.domain /\ a.value = b.value
RefEq(c1, c2) ==
    c1[1] = c2[1] /\ IF IsVal(c1) THEN c1[2] = c2[2] ELSE SameError(c1[2], c2[2])

DomainException == (FutureId :> "FutureException") @@ (CoreId :> "CoreException")
                       @@ (OptionalId :> "OptionalException")
RefThrow(e) == IF NoExceptions THEN Terminate
               ELSE [thrown |-> DomainException[e.domain], error |-> e]

Resolvers == [Errs -> TVals]

(* Every observer of a Result that holds a value or an error answers as   *)
(* the specification of HasValue, Value/Error (abort on misuse), ValueOr, *)
(* ErrorOr, CheckError, ValueOrThrow, Resolve and the six equality        *)
(* operators says, ErrorCode equality ignoring the support data, and the  *)
(* exception thrown for an error reports that error and its message; a    *)
(* Result<void, E> answers the same with "void" in place of the value.     *)
ObserversMatchSpec ==
    /\ \A r \in Held \cap VoidResults, d \in TVals, e \in Errs :
        LET c == Content(r) IN
        /\ VoidHasValue(c) = IsVal(c)
        /\ VoidValue(c) = IF IsVal(c) THEN VoidRet ELSE Terminate
        /\ VoidError(c) = IF IsVal(c) THEN Terminate ELSE c[2]
        /\ VoidValueOr(c, d) = VoidRet
        /\ VoidErrorOr(c, e) = IF IsVal(c) THEN e ELSE c[2]
        /\ VoidCheckError(c, e) = (~IsVal(c) /\ SameError(c[2], e))
        /\ VoidValueOrThrow(c) = IF IsVal(c) THEN VoidRet ELSE RefThrow(c[2])
        /\ VoidResolve(c) = IF IsVal(c) THEN VoidRet ELSE [called |-> c[2]]
    /\ \A r \in Held \ VoidResults :
           LET c == Content(r) IN
           /\ \A f \in Resolvers : Resolve(c, f) = IF IsVal(c) THEN c[2] ELSE f[c[2]]
           /\ \A r2 \in Held \ VoidResults :
                 /\ EqRR(c, Content(r2)) = RefEq(c, Content(r2))
                 /\ NeRR(c, Content(r2)) = ~RefEq(c, Content(r2))
           /\ \A d \in TVals, e \in Errs :
                 /\ HasValue(c) = IsVal(c)
                 /\ Value(c) = IF IsVal(c) THEN c[2] ELSE Terminate
                 /\ Error(c) = IF IsVal(c) THEN Terminate ELSE c[2]
                 /\ ValueOr(c, d) = IF IsVal(c) THEN c[2] ELSE d
                 /\ ErrorOr(c, e) = IF IsVal(c) THEN e ELSE c[2]
                 /\ CheckError(c, e) = (~IsVal(c) /\ SameError(c[2], e))
                 /\ ValueOrThrow(c) = IF IsVal(c) THEN c[2] ELSE RefThrow(c[2])
                 /\ ~IsVal(c) /\ ~NoExceptions =>
                       ExceptionWhat(ValueOrThrow(c)) = Message(c[2])
                 /\ EqRT(c, d) = EqTR(d, c)
                 /\ EqRT(c, d) = (IsVal(c) /\ c[2] = d)
                 /\ NeRT(c, d) = ~EqRT(c, d) /\ NeTR(d, c) = ~EqRT(c, d)
                 /\ EqRE(c, e) = EqER(e, c)
                 /\ EqRE(c, e) = (~IsVal(c) /\ SameError(c[2], e))
                 /\ NeRE(c, e) = ~EqRE(c, e) /\ NeER(e, c) = ~EqRE(c, e)

(* Bind of a Result that holds a value or an error is f(value) (a plain   *)
(* result wrapped as a value), and a Result with the same error, f not    *)
(* called, otherwise.                                                      *)
BindMatchesSpec ==
    /\ \A r \in Held \cap VoidResults :
        LET c == Content(r) IN
        /\ \A u \in ({0} \X TVals) \cup ({1} \X Errs) :
              VoidBindResult(c, u) = IF IsVal(c) THEN u ELSE c
        /\ \A x \in TVals : VoidBindValue(c, x) = IF IsVal(c) THEN <<0, x>> ELSE c
    /\ \A r \in Held \ VoidResults :
        LET c == Content(r) IN
        /\ \A f \in [TVals -> ({0} \X TVals) \cup ({1} \X Errs)] :
              BindResult(c, f) = IF IsVal(c) THEN f[c[2]] ELSE c
        /\ \A g \in [TVals -> TVals] :
              BindValue(c, g) = IF IsVal(c) THEN <<0, g[c[2]]>> ELSE c

=============================================================================
