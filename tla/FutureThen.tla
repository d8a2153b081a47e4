----------------------------- MODULE FutureThen -----------------------------
(***************************************************************************)
(* ara::core Promise / Future / internal::State and the continuation      *)
(* protocol of Future::then (include/ara/core/future.h, promise.h).        *)
(*                                                                         *)
(* A producer thread fulfils Promise P0 once; a consumer thread builds a   *)
(* chain F0.then(f0).then(f1)...  of K continuations and finally polls the *)
(* last future with wait_for and reads it with GetResult.  Stage i owns    *)
(* the std::promise/std::future pair "delegate" i (value dval[i]) and the  *)
(* internal::State i (continuation slot cont[i]).  The std::future handle  *)
(* of stage i lives in Future Fi, is moved into State i by                 *)
(* SetContinuation, or into the Future handed to the continuation          *)
(* (handle[i]).  A continuation runs on whichever thread reaches it: the   *)
(* consumer inline inside then(), or the thread that fulfils stage i       *)
(* inside FireContinuation.                                                *)
(*                                                                         *)
(* A continuation that returns a Future (spec 4.4 case 1) makes an inner   *)
(* promise Q_i; its shared state and State are stage InnerOf(i), and the  *)
(* inner continuation that forwards Q_i's outcome into P(i+1) is the      *)
(* continuation slot InnerOf(i).  Shape "future" fulfils Q_i before it    *)
(* returns; shape "async" hands Q_i to a helper thread that fulfils it.   *)
(*                                                                         *)
(* Promise::set_value locks the Promise's own mutex_, Future::then locks   *)
(* State::mutex_: the two never exclude each other, so every step below    *)
(* that touches shared state is its own atomic step.                       *)
(***************************************************************************)
EXTENDS Integers, FiniteSets, Sequences, TLC

CONSTANTS
    K,          \* number of then() continuations in the consumer's chain
    Shapes,     \* the shapes of continuation the consumer may pass to then()
    Values,     \* values the producer may pass to set_value (positive ints)
    AppErrors,  \* ErrorCodes the producer may pass to SetError
    SerialUse,  \* TRUE: the user never overlaps set_value with then()
    Abandon,    \* TRUE: the producer may destroy P0 without fulfilling it
    Retry,      \* TRUE: the producer calls set_value/SetError on P0 a second time
    KeepFutures,\* TRUE: the consumer keeps F0..F(K-1) in named variables until
                \* it is done; FALSE: they are the temporaries of one chain
                \* expression, destroyed when its last then() returns
    UseGet,     \* TRUE: the consumer reads FK with the blocking get();
                \* FALSE: it polls FK with wait_for and then calls GetResult
    None        \* model value: empty std::shared state / no continuation

ASSUME /\ K \in Nat \ {0}
       /\ Shapes \subseteq {"value", "result", "void", "future", "async", "future_void"}
       /\ Values \subseteq Nat \ {0}
       /\ SerialUse \in BOOLEAN
       /\ Abandon \in BOOLEAN
       /\ Retry \in BOOLEAN
       /\ KeepFutures \in BOOLEAN
       /\ UseGet \in BOOLEAN

Conts   == 0..K-1          \* continuation i turns stage i into stage i+1
InnerOf(i) == K + 1 + i    \* the inner promise/State of continuation i
OuterOf(q) == q - K - 1
Inner   == {InnerOf(i) : i \in Conts}
Stages  == 0..K \cup Inner \* Promise/Future/State pairs
Slots   == Conts \cup Inner \* continuation slots that are ever filled

(* The user continuations: the shape of what f_i returns selects one of   *)
(* the then() overloads.  "value": f(in) = in.get() + 1;                  *)
(* "result": f(in) = in.GetResult().Bind(+1); "void": f(in) = in.wait();  *)
(* "future"/"async": f(in) returns Future<int>() (invalid) when           *)
(* in.GetResult() holds an error, else q.get_future() of a promise q that *)
(* gets in.GetResult().Value() + 1 from f itself ("future") or from a     *)
(* std::thread f starts ("async").  "future_void": f(in) returns a        *)
(* Future<void>, invalid on an error, else one whose promise f fulfilled  *)
(* with set_value().                                                       *)
(* The type f returns in each shape, as std::result_of_t names it.        *)
ReturnType(s) ==
    CASE s = "value"                -> "int"
      [] s = "result"               -> "Result<int>"
      [] s = "void"                 -> "void"
      [] s \in {"future", "async"}  -> "Future<int>"
      [] s = "future_void"          -> "Future<void>"

(* Future::is_future and Future::is_result: the partial specialisations  *)
(* match Future<U, G> and Result<U, G> for any U, void included.           *)
IsFuture(r) == r \in {"Future<int>", "Future<void>"}
IsResult(r) == r \in {"Result<int>", "Result<void>"}

(* The then() overloads whose enable_if default argument (CallableReturns- *)
(* Future / Result / ValueType / Void) accepts a continuation returning r. *)
Overloads(r) ==
    {o \in {"future", "result", "value", "void"} :
        CASE o = "future" -> IsFuture(r)
          [] o = "result" -> IsResult(r)
          [] o = "value"  -> ~IsFuture(r) /\ ~IsResult(r) /\ r # "void"
          [] o = "void"   -> r = "void"}

(* The overload then() calls for shape s.                                  *)
ThenOverload(s) == CHOOSE o \in Overloads(ReturnType(s)) : TRUE

FlatShapes == {s \in {"value", "result", "void", "future", "async", "future_void"} :
                 ThenOverload(s) = "future"}

Helper(i) == "helper" \o ToString(i)
Users   == {"producer", "consumer"}
Threads == Users \cup {Helper(i) : i \in Conts}

(* ara::core::Result<T, ErrorCode>; the void value is encoded as 0.        *)
Val(v) == [ok |-> TRUE, val |-> v]
Err(e) == [ok |-> FALSE, err |-> e]
UnitVal == Val(0)
MaxVal == (CHOOSE m \in Values : \A v \in Values : v <= m) + K

(* What a std::shared state can hold besides a Result: an exception.       *)
(* future_error(broken_promise) is stored by ~std::promise; runtime_error  *)
(* stands for what a user passes to set_exception.                         *)
BrokenExc == [exc |-> "broken_promise"]
StdExc    == [exc |-> "runtime_error"]

FutureErrs == {"broken_promise", "future_already_retrieved",
               "promise_already_satisfied", "no_state"}
Results == {Val(v) : v \in 0..MaxVal} \cup
           {Err(e) : e \in AppErrors \cup FutureErrs \cup {"kInvalidArgument"}}

VARIABLES
    dval,      \* dval[i]: content of std::shared state i (None = not ready)
    handle,    \* handle[i]: holder of std::future i
    cont,      \* cont[i]: State i's unique_continuation_ ("none"/"stored")
    shape,     \* shape[i]: return shape of user continuation f_i
    pc,        \* pc[t]: next step of thread t
    resume,    \* resume[t]: where t continues when its continuation chain ends
    ran,       \* ran[i]: how often continuation i was invoked (history)
    seen,      \* seen[i]: the Result continuation i read from its Future
    produced,  \* what the producer stored into stage 0 (history)
    final,     \* what the consumer's GetResult on FK returned
    dead       \* slots whose State was destroyed with the continuation in it

vars == <<dead, dval, handle, cont, shape, pc, resume, ran, seen, produced, final>>

-----------------------------------------------------------------------------
(* Mutant of Observe: the exception is reported by its own name, as if    *)
(* every exception were a std::future_error with a matching code.         *)
ObserveAnyExcAsCode(valid, d) ==
    CASE ~valid                  -> Err("no_state")
      [] "ok" \in DOMAIN d       -> d
      [] OTHER                   -> Err(d.exc)

(* Future::GetResult on a valid future: a stored Result is returned as    *)
(* is; a stored std::future_error is translated to its future_errc; any   *)
(* other std::exception becomes broken_promise.  An invalid future throws *)
(* future_error(no_state) from delegate_future_.get().                    *)
Observe(valid, d) ==
    CASE ~valid                  -> Err("no_state")
      [] "ok" \in DOMAIN d       -> d
      [] d.exc \in FutureErrs    -> Err(d.exc)
      [] OTHER                   -> Err("broken_promise")

(* Future::handle_future_error: a std::future_error caught around the     *)
(* continuation becomes SetError of the matching future_errc, an unknown  *)
(* code becomes CoreErrc::kInvalidArgument.                                *)
HandleFutureError(e) == IF e \in FutureErrs THEN Err(e) ELSE Err("kInvalidArgument")

(* Future::handle_exception: any other std::exception thrown by the       *)
(* continuation is logged and becomes SetError(broken_promise).           *)
HandleException == Err("broken_promise")

(* Mutant of Continue: the value-shape wrapper forwards the predecessor's *)
(* error instead of reporting the throwing continuation as broken_promise. *)
ContinueKeepsError(s, valid, d) ==
    LET in == Observe(valid, d) IN
    CASE s = "value"  -> IF in.ok THEN Val(in.val + 1) ELSE in
      [] s = "result" -> IF in.ok THEN Val(in.val + 1) ELSE in
      [] s = "void"   -> IF valid THEN UnitVal ELSE Err("no_state")

(* The fulfill_promise_* wrapper of the then() overload of shape s, run   *)
(* on the predecessor Future (valid or moved-from) whose shared state      *)
(* holds d: the Result it stores into the successor promise.               *)
(*  value : in.get() throws FutureException/CoreException on an error      *)
(*          (a std::exception) -> handle_exception -> broken_promise.      *)
(*  result: the Result's value or error is forwarded.                      *)
(*  void  : in.wait() throws future_error(no_state) on a moved-from        *)
(*          future -> handle_future_error -> no_state.                     *)
Continue(s, valid, d) ==
    LET in == Observe(valid, d) IN
    CASE ThenOverload(s) = "value"  -> IF in.ok THEN Val(in.val + 1) ELSE HandleException
      [] ThenOverload(s) = "result" -> IF in.ok THEN Val(in.val + 1) ELSE in
      [] ThenOverload(s) = "void"   -> IF valid THEN UnitVal ELSE HandleFutureError("no_state")

(* Mutant of HasContinuation: the slot is never seen as filled.            *)
HasContinuationLost(i) == FALSE

(* internal::State::HasContinuation: a continuation is stored in State i. *)
HasContinuation(i) == i \in Slots /\ cont[i] = "stored"

(* Mutant of IsReady: a readiness flag cached before fulfilment.           *)
IsReadyStale(i) == FALSE

(* Future::is_ready: wait_for(0) on the std::future reports ready.         *)
IsReady(i) == dval[i] # None

(* The consumer's next call after then() on Fi returned F(i+1).           *)
AfterThen(i) == IF i + 1 < K THEN [op |-> "then", i |-> i + 1]
                             ELSE [op |-> "wait", st |-> "none"]

Other(t) == CHOOSE u \in Users : u # t

(* Between two API calls of thread t; with SerialUse the user starts a    *)
(* producer or consumer call only while the other of the two is between  *)
(* calls (a helper thread started by a continuation is not the user's to  *)
(* order).                                                                 *)
BetweenCalls(t) == pc[t].op \in {"start", "again", "then", "wait", "done"}
MayStartCall(t) == SerialUse => BetweenCalls(Other(t))

-----------------------------------------------------------------------------
Init ==
    /\ dval = [i \in Stages |-> None]
    /\ handle = [i \in Stages |-> "future"]
    /\ cont = [i \in Slots |-> "none"]
    /\ shape \in [Conts -> Shapes]
    /\ pc = [t \in Threads |-> CASE t = "producer" -> [op |-> "start"]
                                 [] t = "consumer" -> [op |-> "then", i |-> 0]
                                 [] OTHER          -> [op |-> "idle"]]
    /\ resume = [t \in Threads |-> IF t = "producer" /\ Retry THEN [op |-> "again"]
                                                              ELSE [op |-> "done"]]
    /\ ran = [i \in Slots |-> 0]
    /\ seen = [i \in Slots |-> None]
    /\ produced = None
    /\ final = None
    /\ dead = {}

(* Promise::set_value / SetError / set_exception on P0: build the Result   *)
(* and go on to store it (the Promise mutex_ is uncontended).              *)
Fulfil ==
    /\ pc["producer"].op = "start"
    /\ MayStartCall("producer")
    /\ \E out \in {Val(v) : v \in Values} \cup {Err(e) : e \in AppErrors}
                  \cup {StdExc} :
         /\ produced' = out
         /\ pc' = [pc EXCEPT !["producer"] = [op |-> "set", i |-> 0, r |-> out]]
    /\ UNCHANGED <<dead, dval, handle, cont, shape, resume, ran, seen, final>>

(* A second set_value / SetError / set_exception on P0.                   *)
Refulfil ==
    /\ pc["producer"].op = "again"
    /\ MayStartCall("producer")
    /\ \E out \in {Val(v) : v \in Values} \cup {Err(e) : e \in AppErrors} \cup {StdExc} :
         pc' = [pc EXCEPT !["producer"] = [op |-> "set", i |-> 0, r |-> out]]
    /\ resume' = [resume EXCEPT !["producer"] = [op |-> "done"]]
    /\ UNCHANGED <<dead, dval, handle, cont, shape, ran, seen, produced, final>>

(* P0's std::promise gives up its unfulfilled state, which stores         *)
(* future_error(broken_promise); extra_state_ goes with it and no          *)
(* FireContinuation is called.                                             *)
AbandonState ==
    /\ Abandon
    /\ pc["producer"].op = "start"
    /\ MayStartCall("producer")
    /\ dval' = [dval EXCEPT ![0] = BrokenExc]
    /\ produced' = BrokenExc
    /\ pc' = [pc EXCEPT !["producer"] = [op |-> "done"]]
    /\ UNCHANGED <<dead, handle, cont, shape, resume, ran, seen, final>>

(* ~Promise on an unfulfilled P0 (its body is empty).                      *)
Drop == AbandonState

(* P0 = std::move(other) on an unfulfilled P0: both mutexes are taken, the *)
(* std::promise move assignment abandons P0's state and extra_state_ is   *)
(* overwritten by the other promise's.  Later calls on P0 reach the other *)
(* state, not this chain.                                                  *)
MoveAssignOver == AbandonState

(* delegate_promise_.set_value(r) inside set_value/SetError of Pi.        *)
SetDelegate(t) ==
    /\ pc[t].op = "set"
    /\ LET i == pc[t].i IN
         /\ dval[i] = None
         /\ dval' = [dval EXCEPT ![i] = pc[t].r]
         /\ pc' = [pc EXCEPT ![t] = [op |-> "fire", i |-> i]]
    /\ UNCHANGED <<dead, handle, cont, shape, resume, ran, seen, produced, final>>

(* delegate_promise_.set_value(r) on a satisfied promise: std::promise   *)
(* throws future_error(promise_already_satisfied) out of set_value /      *)
(* SetError, the Lock is released and FireContinuation is not reached.     *)
SetSatisfied(t) ==
    /\ pc[t].op = "set"
    /\ dval[pc[t].i] # None
    /\ pc' = [pc EXCEPT ![t] = resume[t]]
    /\ UNCHANGED <<dead, dval, handle, cont, shape, resume, ran, seen, produced, final>>

(* State::FireContinuation, first half: HasContinuation().                *)
Fire(t) ==
    /\ pc[t].op = "fire"
    /\ LET i == pc[t].i IN
         pc' = [pc EXCEPT ![t] = IF HasContinuation(i)
                                 THEN [op |-> "take", i |-> i]
                                 ELSE resume[t]]
    /\ UNCHANGED <<dead, dval, handle, cont, shape, resume, ran, seen, produced, final>>

(* State::FireContinuation, second half: State::get_future() moves        *)
(* State::delegate_future into the Future passed to the continuation; it  *)
(* is a moved-from (invalid) future if SetContinuation has not moved the  *)
(* predecessor's handle in yet.                                            *)
Take(t) ==
    /\ pc[t].op = "take"
    /\ LET i == pc[t].i
           valid == handle[i] = "state"
       IN /\ handle' = [handle EXCEPT ![i] = IF valid THEN "arg" ELSE @]
          /\ pc' = [pc EXCEPT ![t] = [op |-> "run", i |-> i, valid |-> valid]]
    /\ UNCHANGED <<dead, dval, cont, shape, resume, ran, seen, produced, final>>

(* The continuation lambda built by then(): fulfill_promise_<shape> runs  *)
(* f_i on the predecessor Future and stores the outcome into P(i+1) via   *)
(* set_value / SetError, which in turn fires State i+1.                   *)
RunContinuation(t) ==
    /\ pc[t].op = "run"
    /\ pc[t].i \in Conts
    /\ shape[pc[t].i] \notin FlatShapes
    /\ LET i == pc[t].i
           valid == pc[t].valid
       IN /\ ran' = [ran EXCEPT ![i] = @ + 1]
          /\ seen' = [seen EXCEPT ![i] = Observe(valid, dval[i])]
          /\ handle' = [handle EXCEPT ![i] = IF valid THEN "gone" ELSE @]
          /\ pc' = [pc EXCEPT ![t] = [op |-> "set", i |-> i + 1,
                                      r |-> Continue(shape[i], valid, dval[i])]]
    /\ UNCHANGED <<dead, dval, cont, shape, resume, produced, final>>

(* fulfill_promise_future, up to the readiness test: f_i runs on the     *)
(* predecessor Future.  On an error f returns an invalid Future and P(i+1) *)
(* gets SetError(broken_promise).  Otherwise f returns the future of Q_i,  *)
(* which is already fulfilled ("future") or which a new helper thread     *)
(* fulfils ("async"); the caller goes on to lock Q_i's State.              *)
RunFlatten(t) ==
    /\ pc[t].op = "run"
    /\ pc[t].i \in Conts
    /\ shape[pc[t].i] \in {"future", "async"}
    /\ LET i == pc[t].i
           valid == pc[t].valid
           in == Observe(valid, dval[i])
           q == InnerOf(i)
       IN /\ ran' = [ran EXCEPT ![i] = @ + 1]
          /\ seen' = [seen EXCEPT ![i] = in]
          /\ handle' = [handle EXCEPT ![i] = IF valid THEN "gone" ELSE @]
          /\ \/ /\ ~in.ok
                /\ pc' = [pc EXCEPT ![t] = [op |-> "set", i |-> i + 1,
                                            r |-> Err("broken_promise")]]
                /\ UNCHANGED dval
             \/ /\ in.ok
                /\ shape[i] = "future"
                /\ dval' = [dval EXCEPT ![q] = Val(in.val + 1)]
                /\ pc' = [pc EXCEPT ![t] = [op |-> "flat", i |-> q]]
             \/ /\ in.ok
                /\ shape[i] = "async"
                /\ pc' = [pc EXCEPT ![t] = [op |-> "flat", i |-> q],
                                    ![Helper(i)] = [op |-> "set", i |-> q,
                                                    r |-> Val(in.val + 1)]]
                /\ UNCHANGED dval
    /\ UNCHANGED <<dead, cont, shape, resume, produced, final>>

(* The fulfill_promise_future overload for a continuation returning a     *)
(* Future<void>: as above, f's future is of Q_i, already fulfilled with   *)
(* set_value(); its inner continuation calls outer_promise.set_value()     *)
(* without a value, or SetError.                                           *)
RunFlattenVoid(t) ==
    /\ pc[t].op = "run"
    /\ pc[t].i \in Conts
    /\ shape[pc[t].i] = "future_void"
    /\ LET i == pc[t].i
           valid == pc[t].valid
           in == Observe(valid, dval[i])
           q == InnerOf(i)
       IN /\ ran' = [ran EXCEPT ![i] = @ + 1]
          /\ seen' = [seen EXCEPT ![i] = in]
          /\ handle' = [handle EXCEPT ![i] = IF valid THEN "gone" ELSE @]
          /\ dval' = IF in.ok THEN [dval EXCEPT ![q] = UnitVal] ELSE dval
          /\ pc' = [pc EXCEPT ![t] = IF in.ok THEN [op |-> "flat", i |-> q]
                                     ELSE [op |-> "set", i |-> i + 1,
                                           r |-> Err("broken_promise")]]
    /\ UNCHANGED <<dead, cont, shape, resume, produced, final>>

(* fulfill_promise_future, under the lock of Q_i's State: if the inner    *)
(* future is ready, unlock and run the inner continuation inline, else    *)
(* SetContinuation on Q_i's State.  The helper's set_value takes Q_i's    *)
(* Promise mutex, not this one.                                            *)
FlattenCheck(t) ==
    /\ pc[t].op = "flat"
    /\ LET q == pc[t].i IN
         IF IsReady(q)
         THEN /\ handle' = [handle EXCEPT ![q] = "arg"]
              /\ pc' = [pc EXCEPT ![t] = [op |-> "run", i |-> q, valid |-> TRUE]]
         ELSE /\ pc' = [pc EXCEPT ![t] = [op |-> "store1", i |-> q]]
              /\ UNCHANGED handle
    /\ UNCHANGED <<dead, dval, cont, shape, resume, ran, seen, produced, final>>

(* The inner continuation of fulfill_promise_future: GetResult on Q_i's   *)
(* future, then set_value of its value or SetError of its error on the    *)
(* outer promise P(i+1).                                                   *)
RunInner(t) ==
    /\ pc[t].op = "run"
    /\ pc[t].i \in Inner
    /\ LET q == pc[t].i
           valid == pc[t].valid
       IN /\ ran' = [ran EXCEPT ![q] = @ + 1]
          /\ seen' = [seen EXCEPT ![q] = Observe(valid, dval[q])]
          /\ handle' = [handle EXCEPT ![q] = IF valid THEN "gone" ELSE @]
          /\ pc' = [pc EXCEPT ![t] = [op |-> "set", i |-> OuterOf(q) + 1,
                                      r |-> Observe(valid, dval[q])]]
    /\ UNCHANGED <<dead, dval, cont, shape, resume, produced, final>>

(* Mutant of ThenCheck: the else is dropped, a ready predecessor both    *)
(* runs the continuation inline and stores it.                             *)
ThenCheckNoElse ==
    /\ pc["consumer"].op = "then"
    /\ MayStartCall("consumer")
    /\ LET i == pc["consumer"].i IN
         IF IsReady(i)
         THEN /\ handle' = [handle EXCEPT ![i] = "arg"]
              /\ cont' = [cont EXCEPT ![i] = "stored"]
              /\ pc' = [pc EXCEPT !["consumer"] = [op |-> "run", i |-> i, valid |-> TRUE]]
              /\ resume' = [resume EXCEPT !["consumer"] = AfterThen(i)]
         ELSE /\ pc' = [pc EXCEPT !["consumer"] = [op |-> "store1", i |-> i]]
              /\ UNCHANGED <<dead, handle, resume, cont>>
    /\ UNCHANGED <<dead, dval, shape, ran, seen, produced, final>>

(* Future::then on Fi: lock State i, create P(i+1)/F(i+1) and test        *)
(* is_ready(); if ready, unlock and run the continuation inline on        *)
(* std::move of this, else go on to SetContinuation.                       *)
ThenCheck ==
    /\ pc["consumer"].op = "then"
    /\ MayStartCall("consumer")
    /\ LET i == pc["consumer"].i IN
         IF IsReady(i)
         THEN /\ handle' = [handle EXCEPT ![i] = "arg"]
              /\ pc' = [pc EXCEPT !["consumer"] = [op |-> "run", i |-> i, valid |-> TRUE]]
              /\ resume' = [resume EXCEPT !["consumer"] = AfterThen(i)]
         ELSE /\ pc' = [pc EXCEPT !["consumer"] = [op |-> "store1", i |-> i]]
              /\ UNCHANGED <<dead, handle, resume>>
    /\ UNCHANGED <<dead, dval, cont, shape, ran, seen, produced, final>>

(* State::SetContinuation, first statement: unique_continuation_ = func   *)
(* (from then() on stage i, or from fulfill_promise_future on Q_i).        *)
StoreContinuation(t) ==
    /\ pc[t].op = "store1"
    /\ LET i == pc[t].i IN
         /\ cont' = [cont EXCEPT ![i] = "stored"]
         /\ pc' = [pc EXCEPT ![t] = [op |-> "store2", i |-> i]]
    /\ UNCHANGED <<dead, dval, handle, shape, resume, ran, seen, produced, final>>

(* State::SetContinuation, second statement: delegate_future =            *)
(* std::move(predecessor.delegate_future_); then() returns F(i+1), a     *)
(* fulfill_promise_future returns to whoever ran the continuation.         *)
StoreDelegate(t) ==
    /\ pc[t].op = "store2"
    /\ LET i == pc[t].i IN
         /\ handle' = [handle EXCEPT ![i] = IF @ = "future" THEN "state" ELSE @]
         /\ pc' = [pc EXCEPT ![t] = IF i \in Conts THEN AfterThen(i) ELSE resume[t]]
    /\ UNCHANGED <<dead, dval, cont, shape, resume, ran, seen, produced, final>>

(* Future::wait_for on FK: kReady or kTimeout.                             *)
WaitFor ==
    /\ ~UseGet
    /\ pc["consumer"].op = "wait"
    /\ pc' = [pc EXCEPT !["consumer"] =
                IF IsReady(K) THEN [op |-> "get"] ELSE [op |-> "wait", st |-> "kTimeout"]]
    /\ UNCHANGED <<dead, dval, handle, cont, shape, resume, ran, seen, produced, final>>

(* Future::GetResult on FK after wait_for returned kReady.                 *)
GetResult ==
    /\ pc["consumer"].op = "get"
    /\ final' = Observe(TRUE, dval[K])
    /\ pc' = [pc EXCEPT !["consumer"] = [op |-> "done"]]
    /\ UNCHANGED <<dead, dval, handle, cont, shape, resume, ran, seen, produced>>

(* Future::get on FK: GetResult().ValueOrThrow().  GetResult blocks in    *)
(* delegate_future_.get() until stage K is set; ValueOrThrow returns the  *)
(* value or throws the exception of the error's domain, which carries the *)
(* same ErrorCode, so the consumer learns what GetResult returned.         *)
Get ==
    /\ UseGet
    /\ pc["consumer"].op = "wait"
    /\ IsReady(K)
    /\ final' = Observe(TRUE, dval[K])
    /\ pc' = [pc EXCEPT !["consumer"] = [op |-> "done"]]
    /\ UNCHANGED <<dead, dval, handle, cont, shape, resume, ran, seen, produced>>

-----------------------------------------------------------------------------
(* Ownership of internal::State.  State s is shared (shared_ptr) by the   *)
(* extra_state_ of its Promise Ps, of the Future Fs, and of the Future    *)
(* that get_future() hands to a running continuation.  A continuation     *)
(* lambda owns the promise it fulfils, and a stored lambda lives in        *)
(* unique_continuation_ until its State is destroyed; it is never reset   *)
(* after it ran.                                                           *)

(* The promise owned by the continuation lambda of slot j: then() moves   *)
(* next_promise P(j+1) into its lambda, the inner continuation of Q_j      *)
(* captures the outer promise P(j+1).                                      *)
HeldPromise(j) == IF j \in Conts THEN j + 1 ELSE OuterOf(j) + 1

(* fulfill_promise_future has moved P(j+1) out of then()'s lambda into    *)
(* the inner continuation (f_j returned a valid Future).                   *)
MovedToInner(j) == /\ j \in Conts /\ shape[j] \in FlatShapes
                   /\ ran[j] >= 1 /\ seen[j].ok

(* The lambda that owns Ps (s in 1..K).                                    *)
PromiseHolder(s) == IF MovedToInner(s - 1) THEN InnerOf(s - 1) ELSE s - 1

(* Mutant of PromiseAlive: the stored lambda keeps its own State alive    *)
(* (a shared_ptr cycle), so no promise of the chain is ever destroyed.    *)
PromiseAliveCycle(s) ==
    CASE s = 0      -> produced # BrokenExc
      [] s \in Inner -> shape[OuterOf(s)] = "async"
                         /\ pc[Helper(OuterOf(s))].op \notin {"idle", "done"}
      [] OTHER      -> TRUE

(* Promise Ps exists: P0 until the producer drops or overwrites it; Ps of  *)
(* the chain until the lambda that owns it is destroyed; Q_j of "async"   *)
(* until its helper thread returns (the promise of "future" and            *)
(* "future_void" is a local of f_j).                                       *)
PromiseAlive(s) ==
    CASE s = 0      -> produced # BrokenExc
      [] s \in Inner -> shape[OuterOf(s)] = "async"
                         /\ pc[Helper(OuterOf(s))].op \notin {"idle", "done"}
      [] OTHER      -> PromiseHolder(s) \notin dead

(* A Future object other than a continuation's argument holds State s:   *)
(* the consumer's Fs (FK always; the others while it builds the chain, or *)
(* until it is done with KeepFutures), or the local inner_future of the    *)
(* fulfill_promise_future that is registering on Q_j.                      *)
FutureHeld(s) ==
    IF s \in 0..K
    THEN s = K \/ KeepFutures \/ pc["consumer"].op \notin {"wait", "get", "done"}
    ELSE \E t \in Threads : pc[t].op \in {"flat", "store1", "store2"} /\ pc[t].i = s

(* FireContinuation's get_future() made the argument Future of a running  *)
(* continuation, which shares State s until the continuation returns.     *)
InUse(s) == \E t \in Threads : pc[t].op \in {"take", "run"} /\ pc[t].i = s

Owned(s) == PromiseAlive(s) \/ FutureHeld(s) \/ InUse(s)

(* The last shared_ptr to State j is released while unique_continuation_ *)
(* holds a lambda: ~State destroys the lambda, and with it the promise it *)
(* owns; ~std::promise on an unsatisfied state stores                      *)
(* future_error(broken_promise) and fires nothing (~Promise is empty).    *)
(* The destructor runs inside whichever step released the last owner.     *)
DestroyState(j) ==
    /\ cont[j] = "stored"
    /\ j \notin dead
    /\ ~Owned(j)
    /\ dead' = dead \cup {j}
    /\ LET s == HeldPromise(j) IN
         dval' = IF ~MovedToInner(j) /\ dval[s] = None
                 THEN [dval EXCEPT ![s] = BrokenExc] ELSE dval
    /\ UNCHANGED <<handle, cont, shape, pc, resume, ran, seen, produced, final>>

Producer == Fulfil \/ Refulfil \/ Drop \/ MoveAssignOver

AnyThread(t) == \/ SetDelegate(t) \/ SetSatisfied(t) \/ Fire(t) \/ Take(t) \/ RunContinuation(t)
                \/ RunFlatten(t) \/ RunFlattenVoid(t) \/ FlattenCheck(t) \/ RunInner(t)
                \/ StoreContinuation(t) \/ StoreDelegate(t)

Consumer == ThenCheck \/ WaitFor \/ GetResult \/ Get

Thread(t) == AnyThread(t) \/ (t = "producer" /\ Producer) \/ (t = "consumer" /\ Consumer)

(* Every thread returned (or was never started): the program ends.        *)
Terminated == /\ \A t \in Threads : pc[t].op \in {"done", "idle"}
              /\ UNCHANGED vars

Next == (\E t \in Threads : Thread(t)) \/ (\E j \in Slots : DestroyState(j)) \/ Terminated

(* All threads are OS threads that are never descheduled forever, and a   *)
(* State is destroyed inside the step that releases its last owner.       *)
Spec == /\ Init /\ [][Next]_vars
        /\ \A t \in Threads : WF_vars(Thread(t))
        /\ \A j \in Slots : WF_vars(DestroyState(j))

-----------------------------------------------------------------------------
(* Refinement mapping to FutureChain: the outcome of stage i is what      *)
(* GetResult on a valid Future i returns once its shared state is set;    *)
(* the producer's possible outcomes are what GetResult reports for what   *)
(* set_value / SetError / set_exception store; broken_promise from a      *)
(* destroyed promise is the abstract abandonment, and lost is the set of  *)
(* stages it reached.                                                     *)
ProducerStores == {Val(v) : v \in Values} \cup {Err(e) : e \in AppErrors} \cup {StdExc}

Chain == INSTANCE FutureChain WITH
           shp <- shape,
           out <- [i \in 0..K |-> IF dval[i] = None THEN None ELSE Observe(TRUE, dval[i])],
           lost <- {i \in 0..K : dval[i] = BrokenExc},
           Outcomes <- {Observe(TRUE, p) : p \in ProducerStores},
           MayAbandon <- Abandon

-----------------------------------------------------------------------------
Ops == {"start", "again", "set", "fire", "take", "run", "flat", "then", "store1",
        "store2", "wait", "get", "done", "idle"}

TypeOK ==
    /\ dval \in [Stages -> Results \cup {BrokenExc, StdExc, None}]
    /\ handle \in [Stages -> {"future", "state", "arg", "gone"}]
    /\ cont \in [Slots -> {"none", "stored"}]
    /\ shape \in [Conts -> Shapes]
    /\ \A t \in Threads : /\ pc[t].op \in Ops
                          /\ "i" \in DOMAIN pc[t] => pc[t].i \in Stages
                          /\ pc[t].op = "run" => pc[t].i \in Slots
    /\ ran \in [Slots -> 0..2]
    /\ seen \in [Slots -> Results \cup {None}]
    /\ final \in Results \cup {None}
    /\ dead \subseteq Slots

(* Continuation f_i is invoked at most once: then() either runs it inline  *)
(* or stores it, and only the single set_value of P_i fires it.            *)
ContinuationRunsAtMostOnce == \A i \in Slots : ran[i] <= 1

(* The Future a continuation receives yields exactly the Result that the   *)
(* predecessor promise stored: FireContinuation never hands it a           *)
(* moved-from future (State::SetContinuation / get_future).                *)
ContinuationSeesResult ==
    \A i \in Slots : seen[i] # None => seen[i] = Observe(TRUE, dval[i])

(* No continuation is left stranded: once stage i is fulfilled by a      *)
(* set_value / SetError / set_exception and no thread is still inside     *)
(* FireContinuation for it, a continuation stored in State i has run       *)
(* (then() vs Promise::set_value, spec section 5: "never neither"), the   *)
(* inner continuation of a Future-returning f_i included.  A stage that   *)
(* broken_promise reached by destruction is FinalResolved's concern.      *)
NoStrandedContinuation ==
    \A i \in Slots :
        (/\ cont[i] = "stored"
         /\ dval[i] \notin {None, BrokenExc}
         /\ ~\E t \in Threads : pc[t].op \in {"fire", "take", "run"} /\ pc[t].i = i)
        => ran[i] = 1

(* The chain implements FutureChain: stage i+1 resolves only after stage  *)
(* i, to the continuation of shape f_i applied to stage i's Result, each  *)
(* stage once, and (fairness) every ready continuation eventually runs and *)
(* the consumer's GetResult returns the end of the chain (spec sections   *)
(* 4.4 and 8, chaining law).                                               *)
ChainRefinement == Chain!Spec

(* The consumer's read of the last future (the wait_for loop, or the      *)
(* blocking get()) eventually returns, whatever the producer does: a dropped or        *)
(* overwritten P0, or a continuation stranded in its State, still reaches *)
(* FK as broken_promise through the destruction of the States and the     *)
(* promises their continuations own (spec section 7, broken_promise).     *)
FinalResolved == <>(pc["consumer"].op = "done")

=============================================================================
