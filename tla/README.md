# TLA+ models of ara::core (new_ModSar)

This directory has TLA+ models of the header-only `ara::core` library in
`src/projects/modsar/include/ara/core/`. The models are checked with TLC.
`PROJECT.json` lists every component, run, mutant, finding and hazard. Its
`map` names, for every definition that models code, the source lines it
translates.

## The system

| Part | Source | What it does |
|---|---|---|
| Promise / Future / `internal::State` | `future.h`, `promise.h` | `std::promise`/`std::future` wrapped so that they carry a `Result<T,E>`. Continuations are attached with `then()`. |
| Result | `result.h` | A value-or-ErrorCode sum built on Variant, with `Result<void,E>` as a specialisation. Monadic helpers (`Bind`, `Resolve`, `ValueOr`...). |
| Variant | `variant.h` | Tagged storage with an index. Hand-written construct, destroy, move, copy and swap. |
| Optional | `optional.h` | An `init` flag plus a `unique_ptr` to the value. |
| ErrorCode and domains | `error_code.h`, `error_domain.h`, `core_error_domain.h`, `future_error_domain.h`, `optional_error.h`, `exception.h` | Error values, the three domain singletons and the exceptions they throw. |
| utility, string_view, containers | `utility.h`, `string_view.h`, `string.h`, ... | Aliases and compile-time helpers. `conjunction`/`disjunction` are modelled in `Utility.tla`. The rest has no state. |
| ara::com | `include/ara/com`, `sources/ara/com` | Proxy/skeleton/RPC interface sketches. |

The parts interact on one path:

1. A producer thread calls `Promise::set_value`, `SetError` or
   `set_exception`, or destroys the promise, or move-assigns another promise
   over it. That stores a `Result` (or an exception) in the `std::promise`
   and, except on destruction or move assignment, calls
   `State::FireContinuation`.
2. Meanwhile a consumer thread calls `Future::then(f)`. `then()` creates the
   next promise/future pair and a continuation lambda.
3. If the predecessor is already ready, the lambda runs inline. Otherwise it
   is stored with `State::SetContinuation`.
4. The continuation runs `fulfill_promise_<shape>`. That calls `f`, turns its
   outcome or exception into a `Result` (errors are ErrorCodes of the Future
   or Core domain), and stores that into the next promise.
5. Storing into the next promise fires the next State.

So a chain `p.get_future().then(f0).then(f1)...` is driven partly by the
consumer and partly by the producer. A continuation that returns a Future
adds a third party: whoever fulfils the inner promise.

## Modules

### `FutureThen.tla` (with `MCFutureThen.tla`)

**Threads.**
- `"producer"` and `"consumer"`.
- One helper thread per continuation. The helper exists only for the
  `"async"` shape.

**Chain.** The consumer builds a chain of `K` continuations. It then polls
the last future with `wait_for` and reads it with `GetResult`.

**Shapes.** Each continuation `f_i` has a shape, and TLC explores every
choice:

| Shape | `then()` overload | What `f_i` returns |
|---|---|---|
| `value` | value | `in.get()+1` |
| `result` | Result | `GetResult()`, then +1 |
| `void` | void | nothing; it calls `in.wait()` |
| `future` | Future (`fulfill_promise_future`) | a `Future<int>` that `f` already fulfilled |
| `future_void` | Future (the `Future<void>` overload) | a `Future<void>` that `f` already fulfilled |
| `async` | Future | a `Future<int>` that a helper thread fulfils |

The shape fixes the type `f` returns (`ReturnType`). The model selects the
`then()` overload the way the code does: through `is_future`, `is_result` and
the four `CallableReturns*` enable_if aliases (`Overloads`, `ThenOverload`).

On an error, a Future-returning `f` returns an invalid Future. The inner
promise of continuation `i` is stage `InnerOf(i)`. Its inner continuation is
slot `InnerOf(i)`.

| Variable | Code |
|---|---|
| `dval[i]` | the content of the `std::` shared state of stage `i`: a `Result`, the `broken_promise` future_error, or a user exception |
| `handle[i]` | who holds `std::future` `i`: the `Future` (`delegate_future_`), the `State` (`delegate_future`), the continuation's argument, or gone |
| `cont[i]` | `State::unique_continuation_` |
| `pc[t]`, `resume[t]` | the next statement of each thread, and where it returns after running a continuation chain inline |
| `ran`, `seen`, `produced`, `final` | history: invocations of each continuation, the Result it read, the producer's input, the consumer's output |

Actions and the code they model:

| Action | Code |
|---|---|
| `Fulfil`, `Refulfil` | `Promise::set_value`/`SetError`/`set_exception`. `Refulfil` is a second call. |
| `SetSatisfied` | the second call throwing `promise_already_satisfied` out of `set_value` |
| `Drop`, `MoveAssignOver` | `~Promise` and `Promise::operator=(Promise&&)` on an unfulfilled `P0`. Both go through `AbandonState`. |
| `SetDelegate` | `delegate_promise_.set_value` |
| `Fire`, `Take` | the two halves of `FireContinuation`: the `HasContinuation` test, then `get_future` and the call |
| `ThenCheck` | `then()` up to the `is_ready()` test |
| `RunContinuation` | the lambda built by `then()` and the `fulfill_promise_*` wrapper |
| `RunFlatten`, `RunFlattenVoid` | the two `fulfill_promise_future` overloads up to the lock of the inner State |
| `FlattenCheck` | the inner `is_ready()` test: run the inner continuation inline, or `SetContinuation` |
| `RunInner` | the inner continuation, which forwards the inner Result to `P(i+1)` |
| `StoreContinuation`, `StoreDelegate` | the two statements of `SetContinuation` |
| `WaitFor`, `GetResult`, `Get` | the consumer's reads: the `wait_for` loop and `GetResult`, or `Future::get` |

`Observe` is `GetResult`, including its catch clauses. `Continue` is the
`fulfill_promise_*` wrappers, with `HandleException` and
`HandleFutureError`. Each step that touches shared state is its own atomic
step: `then()` locks `State::mutex_` and `set_value` locks `Promise::mutex_`,
so no lock orders them against each other.

**Ownership and destruction.** A `State` lives as long as a
`shared_ptr` to it does. Its owners are the Promise, the Future, and the
argument Future that `get_future` makes while a continuation runs. The lambda
that `then()` stores in `unique_continuation_` owns the next promise, and the
inner continuation of `fulfill_promise_future` owns the outer one. The lambda
stays stored after it ran, until `~State`. The model derives ownership from
the state rather than counting references:

| Definition | Code |
|---|---|
| `HeldPromise(j)` | the promise that the continuation stored in slot `j` owns (`next_promise`, `outer_promise`) |
| `MovedToInner(j)` | a `fulfill_promise_future` lambda that has already moved its promise into the inner continuation |
| `PromiseAlive(s)` | `P0` not yet destroyed; an inner promise while its helper runs; any other promise while the State holding it lives |
| `FutureHeld(s)` | the user's Future `s` (the last one always; the others only if `KeepFutures`), or a wrapper holding an inner Future |
| `InUse(s)` | the argument Future of a running continuation |
| `DestroyState(j)` | `~State` of a State with a stored continuation and no owner: destroying the lambda destroys its promise, whose `std::promise` stores `broken_promise` if the stage is unset. It does not fire the next State. |

The constants:
- `SerialUse` models a user who never overlaps the two calls
  (`future_test.cpp` does exactly this).
- `Abandon` lets the producer give up `P0` unfulfilled.
- `Retry` lets it call a setter twice.
- `KeepFutures` says that the consumer keeps `F0 .. F(K-1)` in named
  variables. Without it they are the temporaries of one expression
  `p.get_future().then(f).then(g)`, destroyed before the consumer waits.
- `UseGet` says that the consumer reads the last future with the blocking
  `get()` (action `Get`), instead of polling it with `wait_for` and calling
  `GetResult`. A `get()` that never returns is a deadlock of the model.

### `FutureChain.tla`

This is the abstract specification of a chain. There are no threads, locks
or slots:
- `out[i]` is the Result of stage `i`.
- Stage 0 resolves once to an outcome of the producer.
- Stage `i+1` resolves once, after stage `i`, to `RefApply(shape, out[i])`.
- If the producer may abandon (`MayAbandon`), stage 0 may instead resolve to
  `broken_promise` (`AbandonFirst`), and a stage after an abandoned one may
  resolve to `broken_promise` without its continuation running
  (`AbandonNext`). `lost` is the set of abandoned stages.
- The consumer reads `out[K]`.

`RefApply` is written from the chaining law of spec §4.4 and §8. A value
continuation reports `broken_promise` on an error, a Result continuation
forwards the error, and a void one gives the unit value. Weak fairness on
every step says that nothing ready is left undone.

`FutureThen` instantiates it with
`out[i] = GetResult of a valid Future i once its shared state is set`. Its
property `ChainRefinement == Chain!Spec` is the refinement check, fairness
included.

### `VariantStorage.tla` (with `MCVariantStorage.tla`)

This module models the storage lifetime of `Variant<Types...>` in
`variant.h`. All Variant objects of one thread are one record `st`:

| Field | Code |
|---|---|
| `exists[v]` | the Variant object `v` is alive |
| `idx[v]` | `m_type_index` (`Invalid` is `INVALID_VARIANT_INDEX`) |
| `store[v]` | the member in `m_storage`: its alternative, its value (`Moved` once moved from) and whether it is alive |
| `built`, `dead` | placement-`new`s so far and `call_at_index::destructor` calls so far |

- **Helpers.** `NewAt`, `DestroyAt`, `MoveConstructAt`, `MoveAssignAt`,
  `CopyConstructAt` and `CopyAssignAt` are the branches of
  `internal::call_at_index`.
- **Member functions.** Each one is an operator from `st` to `st`, so one
  call is one step:
  - constructors: `DefaultCtor`, `CtorValue`, `InPlaceCtor` (the
    `in_place_index`/`in_place_type` constructors), `CopyCtor`, `MoveCtor`;
  - assignments: `CopyAssign`, `MoveAssign`, `AssignValue`;
  - emplaces: `Emplace` (`emplace<T>`), `EmplaceAtIndex`
    (`emplace<N>`/`emplace_at_index`), `EmplaceList` (the
    `initializer_list` overloads);
  - `Swap` and `Dtor`.
  - Note: `emplace<T>` tests the index before it destroys, while
    `emplace_at_index` relies on `call_element_destructor`'s own test.
- **Accessors.** These are pure operators on `st`: `Index`,
  `HasBadVariantElementAccess`, `Get`, `GetAtIndex`, `GetIf` (with a
  default), `HoldsAlternative` and the free `FreeGetIf`.
- **Composition.** A function that calls others is the composition of their
  operators. For example, `Swap` is `std::swap`: a move constructor and two
  move assignments through `Tmp`, then `~Tmp`.

### `VariantIndex.tla` (with `MCVariantIndex.tla`)

This module models the compile-time template recursions of `variant.h`:
- `does_contain_type`, `get_index_of_type` and `get_type_at_index`;
- `get_direct_type_index` and `get_convertible_type_index`;
- `T_detail`;
- `internal::max`, which sizes `m_storage` (`TYPE_SIZE`) and its `alignas`.
  `SizeOf` and `AlignOf` give LP64 sizes (`long` 8, `int` 4, `bool` 1).

Each is a `RECURSIVE` operator over the sequence of alternatives. The state is
one instantiation: a type, a list of up to three alternatives over
`{int, long, bool}`, and an `is_convertible` relation. `RefSelect` is the
reference: the rule `variant.h` implements (the first exact match, even when
the type is repeated, else the only alternative the type converts to, else
none). It is not `std::variant`'s overload resolution: that ranks conversions
(`bool` to `int` beats `bool` to `long`, where this rule selects none) and
rejects a repeated alternative, which this rule accepts.

### `Utility.tla`

This module covers the C++11 back-ports of `std::conjunction` and
`std::disjunction` in `utility.h`. Each is four partial specialisations (an
empty pack, one trait, two traits, and a head with a non-empty tail). Each
inherits from one of its arguments rather than computing a bool.

- A trait is a record with a type name and a `value`.
- `Conjunction` and `Disjunction` are `RECURSIVE` operators over a sequence
  of traits. They return the trait the template derives from.
- `RefConjunction` and `RefDisjunction` are the C++17 definitions
  ([meta.logical]).

`VariantIndex` extends `Utility`, and `get_convertible_type_index` calls
`Disjunction` over the pack of `IsConvertible` traits, as variant.h:244 does.

### `OptionalValue.tla` (with `MCOptionalValue.tla`)

This module models `Optional<T>` in `optional.h`.

| Variable | Code |
|---|---|
| `init[o]` | the `init` flag |
| `val[o]` | what the `unique_ptr` points to: `Null`, a value, or `0` for a moved-from T |
| `lval` | a named T of the caller |
| `crashed` | the program hit undefined behaviour |

- **One action per member function:**
  - the constructors;
  - the four assignments, with `operator=(U&&)` split into the rvalue and
    the lvalue case;
  - `emplace`, `reset`, `swap`;
  - `value_or` on an rvalue (`ValueOrMove`), which moves the T out;
  - the destructor.
- **Null dereference.** A copy from an Optional that is engaged but holds a
  null pointer dereferences null. That is undefined behaviour, modelled as
  `Crash`.
- **Pure operators.** The comparison operators and `value_or` on an lvalue.

### `ErrorCodes.tla`

This module models `ErrorDomain`, `ErrorCode`, `Exception` and the Future,
Core and Optional domains:
- **ErrorCode.** An ErrorCode is a record of value, support data and domain
  id.
- **Equality.** `ErrEq`/`ErrNe` compare the domain and the value.
- **Messages.** `Message` dispatches to each domain's `switch`, including the
  `default` text.
- **Exceptions.** `ThrowAsException` dispatches to the domain's
  `ThrowOrTerminate<XException>`. That gives
  `[thrown |-> type, error |-> ec]`, or `Terminate` when `NoExceptions`
  (`ARA_NO_EXCEPTIONS`) is set.

### `ResultValue.tla` (with `MCResultValue.tla`)

This module models `Result<T, ErrorCode>` and `Result<void, ErrorCode>` in
`result.h`. It `EXTENDS ErrorCodes`. `mData` is a `Variant<T, E>`, so the
module `INSTANCE`s `VariantStorage` with alternatives `{0, 1}` and shares its
variables.

- **Calls.** Factories, the defaulted copy/move operations,
  `EmplaceValue`/`EmplaceError`, `Swap` and `~Result` are compositions of
  Variant operators. `Swap` is the generic `std::swap` on `mData`, not
  `Variant::swap`.
- **Observers.** The observers, `Bind`, `Resolve` and all equality operators
  are pure operators on the content of `mData`.
- **`Result<void, E>`.** The objects in `VoidResults` are
  `Result<void, E>`. Their value slot holds `Dummy`, which is `dummy{}`.
  - Members that the specialisation writes again the same way (`VoidError`,
    `VoidSwap`, ...) are operators of their own, defined by the `Result<T>`
    ones.
  - The members that differ (`VoidValue`, `VoidValueOr`,
    `VoidValueOrThrow`, `VoidResolve`, `VoidBind*`) are translated
    separately.
  - Only Results of one type copy, move or swap into each other
    (`SameType`).
- **Failures.** `Terminate` stands for `std::terminate()`. `NullDeref` stands
  for the null `e->ThrowAsException()` in `ValueOrThrow`.

## Runs

| Run | Constants | Checks | Result |
|---|---|---|---|
| `then_serial` | `K = 3`, serial use, shapes value/result/void/future/future_void, retry, abandon, temporaries | `TypeOK`, `NoStrandedContinuation`, `ChainRefinement`, `FinalResolved` | pass: without overlap, the chain implements `FutureChain`, fairness included. That covers Future-returning continuations, a second `set_value` (which throws and changes nothing) and an abandoned `P0`, whose `broken_promise` reaches the last future through the cascade of `~State`. The consumer reads with the blocking `get()`, and deadlock checking shows that it always returns |
| `then_concurrent` | concurrent, all shapes, abandon, retry | `ContinuationRunsAtMostOnce` | pass: no interleaving of producer, consumer and helper runs a continuation twice |
| `then_flatten_lost` | serial use, all shapes | `NoStrandedContinuation` | violation: the helper of an `async` continuation sets the inner promise and fires between the inner `is_ready()` test and `SetContinuation`. The inner continuation is stored after the fire and never runs, so the inner value is lost; the outer future resolves only with `broken_promise` when `~State` of the inner future destroys the lambda and its `outer_promise` |
| `then_torn_handoff` | concurrent | `ContinuationSeesResult` | violation: a fire between the two statements of `SetContinuation` gives the continuation a moved-from future. It reads `no_state` instead of the value |
| `then_abandoned` | serial, abandon, named intermediate futures | `FinalResolved` | violation: `~Promise` (or a move assignment over the promise) never fires. The kept intermediate Future keeps the State with the stored continuation alive, so no destruction cascade starts, the last future never becomes ready and `wait_for` polls forever |
| `variant_lifetime` | 2 Variants, 2 alternatives, 2 values, 5 calls | `TypeOK`, `AccessorsReachLiveElement`, `ValueSemantics` | pass (about 166k states): every accessor that returns a pointer reaches a live member of the type it names, all accessors agree with `index()`, and every call has value semantics |
| `variant_leak` | same | `ElementsDestroyed` | violation: `Variant(Variant&&)`/`operator=(Variant&&)` mark the source valueless without destroying its member |
| `variant_index` | 3 types, up to 3 alternatives, all convertibility relations | `ConvertingCtorSelects`, `ConstructThenGet`, `LogicalTraitsMatchStd`, `StorageFitsAlternatives` | pass: `T_detail` selects the first exact match, else the one convertible alternative, and `get<T>`/`emplace<T>` find the stored alternative. `internal::max` makes the storage large enough and aligned for every alternative. `conjunction`/`disjunction` derive from the trait C++17 names for every pack of `is_convertible` traits the run instantiates |
| `optional_semantics` | 2 Optionals, values {1,2}, 5 calls | `ComparisonLaws`, `TargetSemantics` | pass: the comparisons and `value_or` agree with the `std::optional` order, and every call gives its target the expected content |
| `optional_moved_from` | same | `DerefSafe` | violation: the move constructor leaves the source with `init == true` and a null pointer |
| `optional_lvalue_assign` | same | `SourcesUntouched` | violation: `opt = t` with a named `t` moves out of `t`, because `operator=(U&&)` applies `std::move` to a forwarding reference |
| `result_observers` | 2 `Result<T>` and 2 `Result<void>`, 2 values, 5 ErrorCodes, 4 calls | `TypeOK`, `ObserversMatchSpec`, `BindMatchesSpec` | pass: every observer, `Bind`, `Resolve` and equality operator of both specialisations answers as spec §4.1 and §4.3 say. `ValueOrThrow` throws the exception of the error's domain, carrying that error and its message |

The violations are recorded as findings in `PROJECT.json`.

There is also a divergence between spec and code with no run of its own,
because its root is the same as `variant_leak`. A Result that is moved from is
valueless. Then `HasValue()` is false, `Error()` terminates and
`ValueOrThrow()` dereferences null. Spec §3 says no valueless Result is
reachable. `result_observers` therefore restricts its observer properties to
Results that hold an alternative.

Each property of a passing run has a mutant in `PROJECT.json`. A mutant is a
plausible bug in the modelled code that the property catches. Examples:
- a dropped `else` in `then()`;
- an error forwarded instead of `broken_promise`;
- a stale readiness check;
- a move constructor that skips its construct;
- a swap that returns early;
- ErrorCode equality that compares support data.

## Bounds

**Futures:**
- `K = 3` in `then_serial` (about 109k states), so `broken_promise` reaches
  the last future through a cascade of two destructions, and every pair of
  shapes follows another stage.
- `K = 2` in the concurrent runs, where a chain has two continuations. That is enough for a
  continuation run by the producer to fire the next stage, for an inner
  continuation to fire the outer one, and for mixed shapes (an error passing
  through a `result` stage and then a `value` stage).
- `Values = {1,2}` and one application error.
- A runtime_error exception stands for `set_exception`.

**Variant.** Five calls on two Variants reach:
- swap with itself and swap with a valueless Variant;
- a move followed by an assignment into the moved-from object;
- an in-place construction followed by `emplace_at_index` on it.

**Optional.** Five calls reach every call after a move.

**Result:**
- Four calls reach a copy, a move or a swap after an emplace of the other
  alternative, for both specialisations.
- The five ErrorCodes are:
  - `broken_promise` with two support data values, which are equal
    ErrorCodes;
  - a Core error;
  - an Optional error;
  - a Future-domain value outside `future_errc`, which takes the `default`
    message.

Every run finishes in about a minute or less.

## Fairness

`FutureThen.Spec` has weak fairness per thread. The producer, the consumer
and the helpers are OS threads that the scheduler never starves. The
consumer's `wait_for` loop is always enabled, so weak fairness does not force
the producer's steps on it. Each `DestroyState(j)` is weakly fair as well:
`~State` runs inside the step that releases the last owner, so once no owner
is left it cannot be postponed forever. `Terminated` lets a finished program stutter, so
deadlock checking stays on.

`FutureChain.Spec` has weak fairness per step. `ChainRefinement` checks it
against the thread-level fairness of `FutureThen`.

The Variant, Optional and Result models are sequential and check only
safety, so they assume no fairness.

## Not modelled

- **`Future<void>` and `Promise<void>`.** They repeat `Future<T>` and
  `Promise<T>` member for member. The model runs the same operators for a
  stage whose value is void, and `map` names only the `<T>` copy. Two
  differences are recorded as hazards: their member order, and so the
  locking of the move constructors.
- **Moving Promise and Future handles between threads.** The spec makes this
  the user's job (§2: "not internally synchronized beyond that"). The lock
  order of the move constructors is recorded as hazards.
  - `Promise::swap` and the move constructors are not steps of the model.
  - The move assignment that abandons a promise is a step of the model.
- **`Future::wait`, `wait_until`.** These are other ways for the consumer to
  wait. They block like `get()` or poll like `wait_for`, which the model has.
- **Not modelled at all:**
  - `ErrorDomain::Name` and `operator<<` only format text.
  - ara::com is interface sketches without behaviour. `method_proxy_impl.hpp`
    is a code-generator template with unresolved `${name}` and `<#if ...>`
    placeholders, so it does not compile.
  - codelabs and examples are test drivers.
