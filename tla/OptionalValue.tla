---------------------------- MODULE OptionalValue ----------------------------
(***************************************************************************)
(* ara::core::Optional<T> (include/ara/core/optional.h): a flag init and  *)
(* a std::unique_ptr<T> val.  The objects a single-threaded program holds *)
(* are Opts; lval is one local T the program passes by lvalue.  T is a    *)
(* value type whose moved-from value is MovedT (as an empty string).      *)
(* Each call is one step; the comparison operators are pure operators on  *)
(* the content of two Optionals, or of an Optional and a T or nullopt.    *)
(***************************************************************************)
EXTENDS Integers

CONSTANTS
    Opts,      \* the Optional<T> objects of the program
    Vals,      \* values of T the program constructs (positive ints)
    Calls,     \* the member functions the program calls
    Null,      \* the null unique_ptr
    MaxOps     \* bound on the number of calls in a behaviour

MovedT == 0                 \* the value a T has after it was moved from
TVals == Vals \cup {MovedT}

AllCalls == {"default", "copy_ctor", "move_ctor", "ctor_value", "assign_nullopt",
             "copy_assign", "move_assign", "assign_value", "assign_lvalue",
             "emplace", "reset", "swap", "dtor", "value_or_move", "set_local"}

ASSUME /\ Vals \subseteq Nat \ {0}
       /\ Calls \subseteq AllCalls
       /\ MaxOps \in Nat

VARIABLES
    exists,  \* exists[o]: Optional o is alive
    init,    \* init[o]: the flag has_value() returns
    val,     \* val[o]: the T val points to, or Null
    lval,    \* the program's local T
    crashed, \* the program died dereferencing a null val
    last,    \* the call the last step made (history)
    ops      \* calls made so far

vars == <<exists, init, val, lval, crashed, last, ops>>

-----------------------------------------------------------------------------
(* The content of an Optional as the comparison operators see it.         *)
Content(o) == [has |-> init[o], v |-> val[o]]

(* operator==(Optional, Optional): engaged states differ -> false; both   *)
(* empty -> true; else compare the values.                                 *)
EqOO(x, y) == IF x.has # y.has THEN FALSE ELSE IF ~x.has THEN TRUE ELSE x.v = y.v

(* operator!=(Optional, Optional): !(x == y).                              *)
NeOO(x, y) == ~EqOO(x, y)

(* Mutant of LtOO: x is tested before y.                                   *)
LtOOEmptyFirst(x, y) == IF ~x.has THEN TRUE ELSE IF ~y.has THEN FALSE ELSE x.v < y.v

(* operator<(Optional, Optional): y empty -> false; x empty -> true; else *)
(* std::less on the values.                                                *)
LtOO(x, y) == IF ~y.has THEN FALSE ELSE IF ~x.has THEN TRUE ELSE x.v < y.v

GtOO(x, y) == ~LtOO(x, y) /\ ~EqOO(x, y)
LeOO(x, y) == LtOO(x, y) \/ EqOO(x, y)
GeOO(x, y) == ~LtOO(x, y)

(* The comparisons with nullopt (x on the left, nullopt on the right and  *)
(* the mirrored forms).                                                    *)
EqON(x) == ~x.has
LtON(x) == FALSE
LtNO(x) == x.has
LeON(x) == LtON(x) \/ EqON(x)
LeNO(x) == LtNO(x) \/ EqON(x)
GtON(x) == ~LtON(x) /\ ~EqON(x)
GtNO(x) == ~LtNO(x) /\ ~EqON(x)
GeON(x) == ~LtON(x)
GeNO(x) == ~LtNO(x)

(* The comparisons with a T value v.                                       *)
EqOT(x, v) == IF x.has THEN x.v = v ELSE FALSE
LtOT(x, v) == IF x.has THEN x.v < v ELSE TRUE
LtTO(v, x) == IF x.has THEN v < x.v ELSE FALSE
LeOT(x, v) == LtOT(x, v) \/ EqOT(x, v)
LeTO(v, x) == LtTO(v, x) \/ EqOT(x, v)
GtOT(x, v) == ~LtOT(x, v) /\ ~EqOT(x, v)
GtTO(v, x) == ~LtTO(v, x) /\ ~EqOT(x, v)
GeOT(x, v) == ~LtOT(x, v)
GeTO(v, x) == ~LtTO(v, x)

(* value_or(d) const&: the held T, else d converted to T.                  *)
ValueOr(x, d) == IF x.has THEN x.v ELSE d

-----------------------------------------------------------------------------
(* The member functions; Opt(o, i, p) sets Optional o to flag i, pointer p.*)
Opt(f, o, x) == [f EXCEPT ![o] = x]

Init ==
    /\ exists = [o \in Opts |-> FALSE]
    /\ init = [o \in Opts |-> FALSE]
    /\ val = [o \in Opts |-> Null]
    /\ lval \in Vals
    /\ crashed = FALSE
    /\ last = [op |-> "none"]
    /\ ops = 0

(* One call op on Optional v (and w), with value x.                        *)
Step(op, v, w, x) ==
    /\ op \in Calls
    /\ ~crashed
    /\ ops < MaxOps
    /\ last' = [op |-> op, v |-> v, w |-> w, x |-> x]
    /\ ops' = ops + 1

(* *rhs.val on an Optional that says it has a value but holds a null      *)
(* pointer (only a moved-from one does): undefined behaviour, which the   *)
(* build turns into a crash of the program.                                *)
NullDeref(w) == init[w] /\ val[w] = Null

Crash == crashed' = TRUE /\ UNCHANGED <<exists, init, val, lval>>

(* Optional() / Optional(nullopt_t): init(false), val(nullptr).           *)
DefaultCtor(v, x) ==
    /\ ~exists[v] /\ Step("default", v, v, x)
    /\ exists' = Opt(exists, v, TRUE) /\ init' = Opt(init, v, FALSE) /\ val' = Opt(val, v, Null)
    /\ UNCHANGED <<lval, crashed>>

(* Optional(const Optional&): init(other.init), val(a copy of the other T).   *)
CopyCtor(v, w, x) ==
    /\ ~exists[v] /\ exists[w] /\ Step("copy_ctor", v, w, x)
    /\ \/ NullDeref(w) /\ Crash
       \/ /\ ~NullDeref(w)
          /\ exists' = Opt(exists, v, TRUE)
          /\ init' = Opt(init, v, init[w])
          /\ val' = Opt(val, v, IF init[w] THEN val[w] ELSE Null)
          /\ UNCHANGED <<lval, crashed>>

(* Optional(Optional&&): init(other.init), val(std::move(other.val)): the *)
(* source keeps init and loses its pointer.                                *)
MoveCtor(v, w, x) ==
    /\ ~exists[v] /\ exists[w] /\ Step("move_ctor", v, w, x)
    /\ exists' = Opt(exists, v, TRUE)
    /\ init' = Opt(init, v, init[w])
    /\ val' = [val EXCEPT ![v] = val[w], ![w] = Null]
    /\ UNCHANGED <<lval, crashed>>

(* Optional(const T&) / Optional(T&&): init(true), val(new T(v)).          *)
CtorValue(v, x) ==
    /\ ~exists[v] /\ Step("ctor_value", v, v, x)
    /\ exists' = Opt(exists, v, TRUE) /\ init' = Opt(init, v, TRUE) /\ val' = Opt(val, v, x)
    /\ UNCHANGED <<lval, crashed>>

(* operator=(nullopt_t) and reset(): init = false; val.reset(nullptr).     *)
Clear(op, v, x) ==
    /\ exists[v] /\ Step(op, v, v, x)
    /\ init' = Opt(init, v, FALSE) /\ val' = Opt(val, v, Null)
    /\ UNCHANGED <<exists, lval, crashed>>

(* operator=(const Optional&): init = rhs.init; val.reset(rhs.init ?       *)
(* a copy of the rhs T : nullptr).                                             *)
CopyAssign(v, w, x) ==
    /\ exists[v] /\ exists[w] /\ Step("copy_assign", v, w, x)
    /\ \/ NullDeref(w) /\ Crash
       \/ /\ ~NullDeref(w)
          /\ init' = Opt(init, v, init[w])
          /\ val' = Opt(val, v, IF init[w] THEN val[w] ELSE Null)
          /\ UNCHANGED <<exists, lval, crashed>>

(* operator=(Optional&&): as the copy, moving *rhs.val; the new T is built *)
(* before the old one is released, so a self-move keeps the value.         *)
MoveAssign(v, w, x) ==
    /\ exists[v] /\ exists[w] /\ Step("move_assign", v, w, x)
    /\ \/ NullDeref(w) /\ Crash
       \/ /\ ~NullDeref(w)
          /\ init' = Opt(init, v, init[w])
          /\ val' = [val EXCEPT ![w] = IF init[w] THEN MovedT ELSE @,
                                ![v] = IF init[w] THEN val[w] ELSE Null]
          /\ UNCHANGED <<exists, lval, crashed>>

(* operator=(U&&) with an rvalue: init = true; val.reset(new T(move(rhs))).*)
AssignValue(v, x) ==
    /\ exists[v] /\ Step("assign_value", v, v, x)
    /\ init' = Opt(init, v, TRUE) /\ val' = Opt(val, v, x)
    /\ UNCHANGED <<exists, lval, crashed>>

(* operator=(U&&) with the lvalue lval (U = T&): std::move(rhs) moves out *)
(* of the caller's object.                                                 *)
AssignLvalue(v, x) ==
    /\ exists[v] /\ Step("assign_lvalue", v, v, x)
    /\ init' = Opt(init, v, TRUE) /\ val' = Opt(val, v, lval)
    /\ lval' = MovedT
    /\ UNCHANGED <<exists, crashed>>

(* emplace(args...): *this = nullopt; init = true; val.reset(new T(args)).*)
Emplace(v, x) ==
    /\ exists[v] /\ Step("emplace", v, v, x)
    /\ init' = Opt(init, v, TRUE) /\ val' = Opt(val, v, x)
    /\ UNCHANGED <<exists, lval, crashed>>

(* Mutant of Swap: only the pointers are exchanged.                        *)
SwapValOnly(v, w, x) ==
    /\ exists[v] /\ exists[w] /\ Step("swap", v, w, x)
    /\ val' = [val EXCEPT ![v] = val[w], ![w] = val[v]]
    /\ UNCHANGED <<exists, init, lval, crashed>>

(* swap(rhs): std::swap(val, rhs.val); std::swap(init, rhs.init).         *)
Swap(v, w, x) ==
    /\ exists[v] /\ exists[w] /\ Step("swap", v, w, x)
    /\ val' = [val EXCEPT ![v] = val[w], ![w] = val[v]]
    /\ init' = [init EXCEPT ![v] = init[w], ![w] = init[v]]
    /\ UNCHANGED <<exists, lval, crashed>>

(* ~Optional() = default: the unique_ptr frees the T.                      *)
Dtor(v, x) ==
    /\ exists[v] /\ Step("dtor", v, v, x)
    /\ exists' = Opt(exists, v, FALSE) /\ val' = Opt(val, v, Null)
    /\ UNCHANGED <<init, lval, crashed>>

(* std::move(o).value_or(d): when engaged, the T is moved out into the    *)
(* result (through *val, a crash on a moved-from Optional) and o stays    *)
(* engaged with a moved-from T; else d is converted and o is untouched.   *)
ValueOrMove(v, x) ==
    /\ exists[v] /\ Step("value_or_move", v, v, x)
    /\ \/ NullDeref(v) /\ Crash
       \/ /\ ~NullDeref(v)
          /\ val' = IF init[v] THEN Opt(val, v, MovedT) ELSE val
          /\ UNCHANGED <<exists, init, lval, crashed>>

(* The program stores a new value into its local T.                        *)
SetLocal(x) ==
    /\ Step("set_local", CHOOSE o \in Opts : TRUE, CHOOSE o \in Opts : TRUE, x)
    /\ lval' = x
    /\ UNCHANGED <<exists, init, val, crashed>>

(* The call budget is used up, or the program crashed: the behaviour ends. *)
Done == (ops = MaxOps \/ crashed) /\ UNCHANGED vars

Next ==
    \/ \E v, w \in Opts, x \in Vals :
          \/ DefaultCtor(v, x) \/ CopyCtor(v, w, x) \/ MoveCtor(v, w, x) \/ CtorValue(v, x)
          \/ Clear("assign_nullopt", v, x) \/ Clear("reset", v, x)
          \/ CopyAssign(v, w, x) \/ MoveAssign(v, w, x)
          \/ AssignValue(v, x) \/ AssignLvalue(v, x) \/ Emplace(v, x)
          \/ Swap(v, w, x) \/ Dtor(v, x) \/ ValueOrMove(v, x) \/ SetLocal(x)
    \/ Done

Spec == Init /\ [][Next]_vars

-----------------------------------------------------------------------------
(* Reference order of std::optional: nullopt below every value, values    *)
(* ordered as T; a key per operand.                                        *)
Key(x) == IF x.has THEN x.v + 1 ELSE 0
NulloptKey == 0
TKey(v) == v + 1

(* All thirty comparison operators of optional.h agree with comparing     *)
(* the keys (==/!= with nullopt or a T, in either order, are EqON, EqOT   *)
(* and their negations), and value_or gives the default exactly for an empty Optional, *)
(* for every pair of live Optionals and every T value (a moved-from        *)
(* Optional is excluded: comparing it dereferences null, see DerefSafe).  *)
ComparisonLaws ==
    \A o1, o2 \in {o \in Opts : exists[o] /\ ~NullDeref(o)}, v \in TVals :
        LET x == Content(o1)
            y == Content(o2)
        IN /\ EqOO(x, y) = (Key(x) = Key(y)) /\ NeOO(x, y) = (Key(x) # Key(y))
           /\ ValueOr(x, v) = IF Key(x) = NulloptKey THEN v ELSE x.v
           /\ LtOO(x, y) = (Key(x) < Key(y))  /\ GtOO(x, y) = (Key(x) > Key(y))
           /\ LeOO(x, y) = (Key(x) <= Key(y)) /\ GeOO(x, y) = (Key(x) >= Key(y))
           /\ EqON(x) = (Key(x) = NulloptKey)
           /\ LtON(x) = (Key(x) < NulloptKey) /\ LtNO(x) = (NulloptKey < Key(x))
           /\ LeON(x) = (Key(x) <= NulloptKey) /\ LeNO(x) = (NulloptKey <= Key(x))
           /\ GtON(x) = (Key(x) > NulloptKey) /\ GtNO(x) = (NulloptKey > Key(x))
           /\ GeON(x) = (Key(x) >= NulloptKey) /\ GeNO(x) = (NulloptKey >= Key(x))
           /\ EqOT(x, v) = (Key(x) = TKey(v))
           /\ LtOT(x, v) = (Key(x) < TKey(v)) /\ LtTO(v, x) = (TKey(v) < Key(x))
           /\ LeOT(x, v) = (Key(x) <= TKey(v)) /\ LeTO(v, x) = (TKey(v) <= Key(x))
           /\ GtOT(x, v) = (Key(x) > TKey(v)) /\ GtTO(v, x) = (TKey(v) > Key(x))
           /\ GeOT(x, v) = (Key(x) >= TKey(v)) /\ GeTO(v, x) = (TKey(v) >= Key(x))

(* What has_value() and operator* present: nothing, or the T.              *)
SeenIn(i, p, o) == IF i[o] THEN <<p[o]>> ELSE <<>>
Seen(o) == SeenIn(init, val, o)
After(o) == SeenIn(init', val', o)

(* Each call leaves its target as std::optional would: a copy or a move *)
(* gives it the source's content, a value constructor, operator=(U&&) or  *)
(* emplace the new value, nullopt and reset() nothing, swap exchanges the *)
(* two, and no other Optional changes (the step that crashes excepted).   *)
TargetSemantics ==
    [][~crashed' =>
       LET v == last'.v
           w == last'.w
           op == last'.op
       IN /\ op \in {"copy_ctor", "copy_assign", "move_ctor", "move_assign"}
                => After(v) = Seen(w)
          /\ op \in {"ctor_value", "assign_value", "emplace"} => After(v) = <<last'.x>>
          /\ op = "assign_lvalue" => After(v) = <<lval>>
          /\ op \in {"default", "assign_nullopt", "reset"} => After(v) = <<>>
          /\ op = "swap" => After(v) = Seen(w) /\ After(w) = Seen(v)
          /\ \A u \in Opts \ {v, w} : exists'[u] => After(u) = Seen(u)]_vars

(* A copy leaves the object it copies from as it was: the copy            *)
(* constructor, copy assignment and operator=(U&&) given an lvalue of T   *)
(* (std::optional copies it) never change their argument.                 *)
SourcesUntouched ==
    [][LET w == last'.w
           op == last'.op
       IN /\ op \in {"copy_ctor", "copy_assign"} => After(w) = Seen(w)
          /\ op = "assign_lvalue" => lval' = lval]_vars

(* has_value() true means operator* and operator-> reach a T: a live       *)
(* engaged Optional never holds a null pointer.                            *)
DerefSafe == \A o \in Opts : exists[o] /\ init[o] => val[o] # Null

=============================================================================
