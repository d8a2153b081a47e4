----------------------------- MODULE ErrorCodes -----------------------------
(***************************************************************************)
(* The error taxonomy of ara::core: ErrorDomain (error_domain.h),          *)
(* ErrorCode (error_code.h), Exception (exception.h) and the three        *)
(* domains FutureErrorDomain (future_error_domain.h), CoreErrorDomain      *)
(* (core_error_domain.h) and OptionalErrorDomain (optional_error.h).  All of it is pure: an ErrorCode is a record of  *)
(* its value, its support data and its domain; a domain is the constexpr   *)
(* singleton it names, identified by its kId (kept as its hex literal,    *)
(* the 64-bit value is only ever compared); virtual calls on a domain are *)
(* a CASE over the three domains.  A thrown exception is a record of its    *)
(* dynamic type and the ErrorCode it carries.                              *)
(***************************************************************************)
EXTENDS Integers

CONSTANTS
    NoExceptions,   \* the build defines ARA_NO_EXCEPTIONS
    Terminate       \* model value: std::terminate() was called

ASSUME NoExceptions \in BOOLEAN

(* enum class future_errc, CoreErrc and optional_errc.                     *)
FutureErrc == [broken_promise |-> 101, future_already_retrieved |-> 102,
               promise_already_satisfied |-> 103, no_state |-> 104]
CoreErrc == [kInvalidArgument |-> 22, kInvalidMetaModelShortname |-> 137,
             kInvalidMetaModelPath |-> 138]
OptionalErrc == [bad_access |-> 1]

(* The kId of FutureErrorDomain, CoreErrorDomain and OptionalErrorDomain, *)
(* given to the ErrorDomain(IdType) constructor of the singletons.         *)
FutureId == "0x8000000000000013"
CoreId   == "0x8000000000000014"
OptionalId == "0x6F7074696F6E616C"

-----------------------------------------------------------------------------
(* ErrorDomain::operator== and operator!=: the ids are compared.           *)
DomainEq(d1, d2) == d1 = d2
DomainNe(d1, d2) == d1 # d2

(* ErrorCode(CodeType value, ErrorDomain const& domain, data = 0).         *)
ErrorCodeCtor(value, domain, data) == [value |-> value, support |-> data, domain |-> domain]

(* MakeErrorCode(future_errc, data) and MakeErrorCode(CoreErrc, data),     *)
(* which the ErrorCode(EnumT, data) constructor calls.                     *)
MakeFutureErrorCode(code, data) == ErrorCodeCtor(code, FutureId, data)
MakeCoreErrorCode(code, data) == ErrorCodeCtor(code, CoreId, data)
MakeOptionalErrorCode(code, data) == ErrorCodeCtor(code, OptionalId, data)

(* Mutant of ErrEq: the support data takes part in the comparison.         *)
ErrEqWithSupport(a, b) ==
    DomainEq(a.domain, b.domain) /\ a.value = b.value /\ a.support = b.support

(* operator==(ErrorCode, ErrorCode): domain and value, not support data.   *)
ErrEq(a, b) == DomainEq(a.domain, b.domain) /\ a.value = b.value

(* operator!=(ErrorCode, ErrorCode).                                       *)
ErrNe(a, b) == DomainNe(a.domain, b.domain) \/ a.value # b.value

-----------------------------------------------------------------------------
(* FutureErrorDomain::Message: the switch over future_errc, with a        *)
(* default for every other value.                                          *)
FutureMessage(v) ==
    CASE v = FutureErrc.broken_promise            -> "broken promise"
      [] v = FutureErrc.future_already_retrieved  -> "future already retrieved"
      [] v = FutureErrc.promise_already_satisfied -> "promise already satisfied"
      [] v = FutureErrc.no_state                  -> "no state associated with this future"
      [] OTHER                                    -> "unknown future error"

(* CoreErrorDomain::Message.                                               *)
CoreMessage(v) ==
    CASE v = CoreErrc.kInvalidArgument           -> "Invalid argument"
      [] v = CoreErrc.kInvalidMetaModelShortname -> "Invalid meta model shortname"
      [] v = CoreErrc.kInvalidMetaModelPath      -> "Invalid meta model path"
      [] OTHER                                   -> "Unknown error"

(* OptionalErrorDomain::Message.                                           *)
OptionalMessage(v) ==
    IF v = OptionalErrc.bad_access
    THEN "Accessing an optional object that does not contain a value"
    ELSE "Unknown error"

(* The virtual ErrorDomain::Message of the domain with id d.               *)
DomainMessage(d, v) ==
    CASE d = FutureId -> FutureMessage(v)
      [] d = CoreId   -> CoreMessage(v)
      [] OTHER        -> OptionalMessage(v)

(* ErrorCode::Message: Domain().Message(Value()).                          *)
Message(ec) == DomainMessage(ec.domain, ec.value)

(* ThrowOrTerminate<ExceptionType>(errorCode): throw ExceptionType(code),  *)
(* whose Exception base stores the ErrorCode, or std::terminate() when the *)
(* build has no exceptions.                                                *)
ThrowOrTerminate(type, ec) ==
    IF NoExceptions THEN Terminate ELSE [thrown |-> type, error |-> ec]

(* FutureErrorDomain::ThrowAsException: ThrowOrTerminate<FutureException>. *)
FutureThrowAsException(ec) == ThrowOrTerminate("FutureException", ec)

(* CoreErrorDomain::ThrowAsException: ThrowOrTerminate<CoreException>.     *)
CoreThrowAsException(ec) == ThrowOrTerminate("CoreException", ec)

(* OptionalErrorDomain::ThrowAsException: ThrowOrTerminate<OptionalException>. *)
OptionalThrowAsException(ec) == ThrowOrTerminate("OptionalException", ec)

(* ErrorCode::ThrowAsException: the domain's ThrowAsException of this code. *)
ThrowAsException(ec) ==
    CASE ec.domain = FutureId -> FutureThrowAsException(ec)
      [] ec.domain = CoreId   -> CoreThrowAsException(ec)
      [] OTHER                -> OptionalThrowAsException(ec)

(* Exception::Error() and Exception::what() of a thrown exception x.       *)
ExceptionError(x) == x.error
ExceptionWhat(x) == DomainMessage(x.error.domain, x.error.value)

=============================================================================
