----------------------------- MODULE FutureChain -----------------------------
(***************************************************************************)
(* What a chain p.get_future().then(f0)...then(f_{K-1}) promises, with no *)
(* threads, locks or continuation slots: the outcome of stage 0 appears   *)
(* once, each later stage's outcome appears once, after its predecessor's *)
(* and computed from it by the continuation's shape, and the consumer     *)
(* finally reads the last one (spec sections 4.4 and 8, "chaining law",   *)
(* "each of f, g executes exactly once").  out[i] is the Result that      *)
(* GetResult on Future i would return.  A producer that abandons its       *)
(* promise resolves stage 0 to broken_promise (section 7); a stage after  *)
(* an abandoned one may then be abandoned too, without its continuation   *)
(* running.  FutureThen implements this specification (ChainRefinement).  *)
(***************************************************************************)
EXTENDS Integers

CONSTANTS
    K,          \* number of continuations
    Shapes,     \* the continuation shapes in use
    Outcomes,   \* the Results GetResult may report for the producer's promise
    MayAbandon, \* the producer may abandon its promise
    None        \* model value: not yet available

VARIABLES
    shp,        \* shp[i]: shape of continuation i
    out,        \* out[i]: the Result stage i resolved to, or None
    final,      \* what the consumer read from the last stage
    lost        \* the stages whose promise was abandoned unfulfilled

avars == <<shp, out, final, lost>>

Val(v) == [ok |-> TRUE, val |-> v]
Err(e) == [ok |-> FALSE, err |-> e]

(* One continuation applied to its predecessor's Result: a continuation   *)
(* that needs a value (value and future-returning shapes) reports          *)
(* broken_promise on an error; a Result-returning one forwards the error; *)
(* a void one resolves to the unit value, and one returning a Future<void> *)
(* to the unit value or broken_promise.                                    *)
RefApply(s, r) ==
    CASE s \in {"value", "future", "async"} ->
              IF r.ok THEN Val(r.val + 1) ELSE Err("broken_promise")
      [] s = "result" -> IF r.ok THEN Val(r.val + 1) ELSE r
      [] s = "void"   -> Val(0)
      [] s = "future_void" -> IF r.ok THEN Val(0) ELSE Err("broken_promise")

Init ==
    /\ shp \in [0..K-1 -> Shapes]
    /\ out = [i \in 0..K |-> None]
    /\ final = None
    /\ lost = {}

(* The producer's promise resolves.                                        *)
Produce ==
    /\ out[0] = None
    /\ \E r \in Outcomes : out' = [out EXCEPT ![0] = r]
    /\ UNCHANGED <<shp, final, lost>>

(* The producer abandons its promise: stage 0 is broken_promise.           *)
AbandonFirst ==
    /\ MayAbandon
    /\ out[0] = None
    /\ out' = [out EXCEPT ![0] = Err("broken_promise")]
    /\ lost' = {0}
    /\ UNCHANGED <<shp, final>>

(* Continuation i runs, exactly once, on its predecessor's outcome.        *)
Step(i) ==
    /\ out[i] # None
    /\ out[i + 1] = None
    /\ out' = [out EXCEPT ![i + 1] = RefApply(shp[i], out[i])]
    /\ UNCHANGED <<shp, final, lost>>

(* After an abandoned stage i, stage i+1 is abandoned as well and its      *)
(* continuation never runs.                                                *)
AbandonNext(i) ==
    /\ i \in lost
    /\ out[i + 1] = None
    /\ out' = [out EXCEPT ![i + 1] = Err("broken_promise")]
    /\ lost' = lost \cup {i + 1}
    /\ UNCHANGED <<shp, final>>

(* The consumer reads the last stage.                                      *)
Read ==
    /\ out[K] # None
    /\ final = None
    /\ final' = out[K]
    /\ UNCHANGED <<shp, out, lost>>

Next == Produce \/ AbandonFirst \/ (\E i \in 0..K-1 : Step(i) \/ AbandonNext(i)) \/ Read

(* Nothing that is ready is left undone: the chain runs to the end and    *)
(* the consumer's read returns.                                            *)
Spec == /\ Init /\ [][Next]_avars
        /\ WF_avars(Produce \/ AbandonFirst)
        /\ \A i \in 0..K-1 : WF_avars(Step(i) \/ AbandonNext(i))
        /\ WF_avars(Read)

=============================================================================
