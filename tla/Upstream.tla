------------------------------ MODULE Upstream ------------------------------
(***************************************************************************)
(* How one HTTP exchange with the FNS cabinet (lknpd.nalog.ru) becomes the *)
(* status of a receipt: the error lknpd.doJSON returns for what happened   *)
(* on the wire, and the status httpapi.classifyUpstream gives that error.  *)
(* Pure operators: no variables.                                           *)
(***************************************************************************)
EXTENDS Naturals

(***************************************************************************)
(* An error of the client. `api` tells a *lknpd.APIError from any other    *)
(* error; `status` is 0 when no response was received; `cause` is what the *)
(* APIError wraps.                                                         *)
(***************************************************************************)
NoError == [api |-> FALSE, status |-> 0, cause |-> "no_error"]
PlainError == [api |-> FALSE, status |-> 0, cause |-> "none"]
ApiError(status, cause) == [api |-> TRUE, status |-> status, cause |-> cause]

(***************************************************************************)
(* What can come back for one request: nothing (`do` is the failure of     *)
(* httpClient.Do), or a response whose body cannot be read to the end      *)
(* ("cut": the connection breaks; "late": the client's timeout, which also *)
(* covers the body, expires), is empty, is not JSON, is JSON without the   *)
(* field asked for, or is complete.                                        *)
(***************************************************************************)
Bodies == {"cut", "late", "empty", "garbage", "lacking", "full"}

Response(status, body) == [do |-> "ok", status |-> status, body |-> body]
NoResponse(failure) == [do |-> failure, status |-> 0, body |-> "empty"]

IsSuccess(status) == status >= 200 /\ status < 300

(***************************************************************************)
(* lknpd.Client.doJSON: the error for what came back. A body that cannot   *)
(* be read, or a 2xx body that is not JSON, keeps the response's status.   *)
(***************************************************************************)
DoJSON(x) ==
    IF x.do # "ok" THEN ApiError(0, x.do)
    ELSE IF x.body = "cut" THEN ApiError(x.status, "transport")
    ELSE IF x.body = "late" THEN ApiError(x.status, "timeout")
    ELSE IF ~IsSuccess(x.status) THEN ApiError(x.status, "none")
    ELSE IF x.body = "garbage" THEN ApiError(x.status, "json")
    ELSE NoError

(* CreateIncome asks for approvedReceiptUuid: a success without it is      *)
(* ErrEmptyApprovedReceiptUUID. CancelIncome takes any success.            *)
(* Mutant: the UUID is not asked for.                                      *)
IncomeErrorUnchecked(x) == DoJSON(x)

IncomeError(x) ==
    IF DoJSON(x) = NoError /\ x.body # "full"
    THEN ApiError(0, "empty_uuid")
    ELSE DoJSON(x)

CancelError(x) == DoJSON(x)

(* accessTokenFor: a success without a token is an error of no API type.   *)
TokenError(x) ==
    IF DoJSON(x) = NoError /\ x.body # "full" THEN PlainError ELSE DoJSON(x)

(***************************************************************************)
(* httpapi.upstreamErrorCode: an error to the closed set of safe codes.    *)
(***************************************************************************)
StatusCode(status) ==
    CASE status = 429 -> "rate_limited"
      [] status \in {401, 403} -> "auth_rejected"
      [] status \in {400, 422} -> "validation_rejected"
      [] status >= 500 -> "upstream_5xx"
      [] status \in (402..499) \ {403, 422, 429} -> "request_rejected"
      [] OTHER -> "upstream_error"

UpstreamErrorCode(e) ==
    IF ~e.api THEN "upstream_error"
    ELSE IF e.cause = "empty_uuid" THEN "upstream_invalid_response"
    ELSE IF e.status # 0 THEN StatusCode(e.status)
    ELSE IF e.cause = "timeout" THEN "upstream_timeout"
    ELSE "upstream_transport"

AmbiguousCodes ==
    {"upstream_timeout", "upstream_transport", "upstream_5xx",
     "upstream_invalid_response"}

(* httpapi.classifyUpstream: the receipt status of a failed call. The      *)
(* event type is the status, so it is not kept apart.                      *)
(* Mutants: a server error, or a timeout, counts as a definite failure.    *)
ClassifyUpstream5xxFailed(e) ==
    IF UpstreamErrorCode(e) \in AmbiguousCodes \ {"upstream_5xx"}
    THEN "unknown" ELSE "failed"

ClassifyUpstreamTimeoutFailed(e) ==
    IF UpstreamErrorCode(e) \in AmbiguousCodes \ {"upstream_timeout"}
    THEN "unknown" ELSE "failed"

ClassifyUpstream(e) ==
    IF UpstreamErrorCode(e) \in AmbiguousCodes THEN "unknown" ELSE "failed"

(* What a call did, as the handler that made it sees it.                   *)
Outcome(e) == IF e = NoError THEN "ok" ELSE ClassifyUpstream(e)

Outcomes == {"ok", "failed", "unknown"}
=============================================================================
