---------------------------- MODULE MCFutureThen ----------------------------
(* Model-checking instance of FutureThen: a chain of two continuations   *)
(* (three in the serial run),                                              *)
(* two producer values and one application error, so that every shape of  *)
(* continuation meets both a value and an error.  MCShapes are the shapes  *)
(* a caller who never overlaps its own calls can use without a helper      *)
(* thread (Future<int> and Future<void> returning ones included);          *)
(* MCAllShapes add the Future-returning continuation whose inner           *)
(* promise is fulfilled by a thread of its own.                            *)
EXTENDS FutureThen

MCK == 2
MCK3 == 3   \* the serial run: a three-stage chain, so that a stage is reached by a
            \* cascade of two destructions and one stage follows two others
MCValues == {1, 2}
MCAppErrors == {"kInvalidMetaModelPath"}
MCShapes == {"value", "result", "void", "future", "future_void"}
MCAllShapes == MCShapes \cup {"async"}
=============================================================================
