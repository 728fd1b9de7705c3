----------------------------- MODULE BackendErrors -----------------------------
(***************************************************************************)
(* normalizeBackendError (errors.ts): how an error thrown by a backend     *)
(* becomes a typed one, whose status alone decides between failover, final *)
(* verdict and circuit breaker.  A raw error is a record                   *)
(*   origin  "typed": already a BackendError, its status is final;         *)
(*           "null": a TypeError of a client that was never initialised;   *)
(*           "rpc3010": a failed script evaluation reported by Ogmios;     *)
(*           "http": anything else                                         *)
(*   hint    the first group of message hints the message matches          *)
(*   pg      the body carries a PostgreSQL code of a provider-side class   *)
(*   status  the HTTP status, 500 when there is none                       *)
(***************************************************************************)
EXTENDS Naturals

Raw(origin, hint, pg, status) ==
  [origin |-> origin, hint |-> hint, pg |-> pg, status |-> status]

Http(hint, status) == Raw("http", hint, FALSE, status)

\* withTimeout rejects with a ProviderUnavailableError.
Timeout == Raw("typed", "none", FALSE, 503)

\* Mutation: the provider-side SQL faults are looked at after the statuses,
\* so a broken provider database reads as an invalid request.
NormalizeWithoutPg(e) ==
  IF e.origin = "typed" THEN e.status
  ELSE IF e.origin = "null" THEN 500
  ELSE IF e.origin = "rpc3010" THEN 400
  ELSE IF e.hint = "duplicate" THEN 409
  ELSE IF e.hint = "script" THEN 400
  ELSE IF e.hint = "address" THEN 404
  ELSE IF e.hint = "validation" THEN 400
  ELSE IF e.hint = "notfound" THEN 404
  ELSE IF e.status = 429 \/ e.hint = "rate" THEN 429
  ELSE IF e.status \in {400, 401, 403, 404} THEN e.status
  ELSE IF e.status = 422 THEN 400
  ELSE 503

\* The status of the typed error, in the order the code looks: type, message
\* hints, provider-side SQL faults (before the `does not exist' hint can
\* claim them), rate limit, status.  A 4xx the code has no class for is an
\* unavailable provider.
Normalize(e) ==
  IF e.origin = "typed" THEN e.status
  ELSE IF e.origin = "null" THEN 500
  ELSE IF e.origin = "rpc3010" THEN 400
  ELSE IF e.hint = "duplicate" THEN 409
  ELSE IF e.hint = "script" THEN 400
  ELSE IF e.hint = "address" THEN 404
  ELSE IF e.hint = "validation" THEN 400
  ELSE IF e.pg /\ e.status \in {400, 422} THEN 503
  ELSE IF e.hint = "notfound" THEN 404
  ELSE IF e.status = 429 \/ e.hint = "rate" THEN 429
  ELSE IF e.status \in {400, 401, 403, 404} THEN e.status
  ELSE IF e.status = 422 THEN 400
  ELSE 503

\* A 4xx is the verdict of a healthy backend; everything else is a fault.
IsClientError(status) == status >= 400 /\ status < 500

\* isNotFoundOnAllBackends on the errors of an AllBackendsFailedError: a
\* mixed result is no proof of absence.
NotFoundOnAll(errs) == errs # {} /\ \A e \in errs : e.status = 404
=============================================================================
