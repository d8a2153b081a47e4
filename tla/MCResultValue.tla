--------------------------- MODULE MCResultValue ---------------------------
(* Two Result<T, ErrorCode> and two Result<void, ErrorCode> objects, two  *)
(* values of T, and five ErrorCodes made as the program makes them:       *)
(* broken_promise with two support data (equal ErrorCodes that differ     *)
(* only there), a CoreErrc and an optional_errc of the other domains, and *)
(* a Future-domain value outside future_errc (the Message default).        *)
EXTENDS ResultValue

MCErrs == {MakeFutureErrorCode(FutureErrc.broken_promise, 0),
           MakeFutureErrorCode(FutureErrc.broken_promise, 1),
           MakeCoreErrorCode(CoreErrc.kInvalidArgument, 0),
           MakeOptionalErrorCode(OptionalErrc.bad_access, 0),
           ErrorCodeCtor(7, FutureId, 0)}
MCMaxOps == 4
=============================================================================
