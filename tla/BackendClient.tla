----------------------------- MODULE BackendClient -----------------------------
(***************************************************************************)
(* The multi-backend client (cardano-client.ts) with its circuit breakers, *)
(* request coalescers and error classification: lazy initialisation, the   *)
(* walk over the backends of a request, failover, final verdicts and       *)
(* timeouts whose answer still arrives.                                    *)
(*                                                                         *)
(* A step is what the code runs between two awaits: the answer of a        *)
(* backend, its recording and the choice of the next backend are one step. *)
(***************************************************************************)
EXTENDS CircuitBreaker, BackendErrors, Sequences, FiniteSets, FiniteSetsExt

CONSTANTS
  Live,          \* the node (Ogmios)
  Historical,    \* the providers, in the order they are tried
  Unsupported,   \* Unsupported[b]: the methods b declares it has not
  Batching,      \* the backends that implement getTransactionsBatch
  CredBackend,   \* the backend getCredentialUtxos picks
  Calls,         \* concurrent requests
  Offered,       \* the methods the callers of this instance use
  NoCall, NoBackend,
  MaxRequests, MaxFlips, MaxAged    \* bounds on requests, outages, elapsed resets

Providers == {Historical[k] : k \in DOMAIN Historical}
Backends == Providers \cup {Live}

ASSUME ClientAssumption ==
  /\ Historical \in Seq(Providers) /\ CredBackend \in Backends
  /\ FailureThreshold \in Nat \ {0} /\ SuccessThreshold \in Nat \ {0}
  /\ Offered \subseteq {"tx", "batch", "cred", "account", "submit", "params"}
  /\ IsFiniteSet(Calls) /\ NoCall \notin Calls

\* tx: getTransaction; batch: getTransactionsBatch; cred: getCredentialUtxos;
\* account: isRewardAccountRegistered; submit: submitTransaction;
\* params: getProtocolParameters.

\* METHOD_ROUTING: what is asked of the node first.
PreferLive(m) == m \in {"account", "submit", "params"}

\* A rejection (4xx) of a submission is final: another backend submits to
\* the same ledger.
FinalOnClientError(m) == m = "submit"

\* Requests that share the promise of one in flight.
Coalesced(m) == m \in {"tx", "cred", "params"}

\* Requests that walk the backends through executeWithPriority; the others
\* call single backends and do not wait for the initialisation.
Routed(m) == m \in {"tx", "account", "submit", "params"}

Order(m) ==
  IF m = "cred" THEN <<CredBackend>>
  ELSE IF PreferLive(m) THEN <<Live>> \o Historical
  ELSE Append(Historical, Live)

Supports(b, m) ==
  /\ Routed(m) => m \notin Unsupported[b]
  /\ m = "batch" => b \in Batching

VARIABLES
  up,           \* up[b]: b answers (the environment's choice)
  uninit,       \* uninitializedBackends
  initialized,
  init,         \* the initialisation in flight: [todo, tries, failed], todo = <<>> when none
  circ,         \* circ[b]: b's breaker entry
  call,         \* call[c]: the request c works on
  pend,         \* pend[m]: the call whose promise the coalescer of m holds
  fresh,        \* the cached protocol parameters are within their lifetime
  mempool,      \* the ledger took the transaction
  late,         \* a submission that timed out may still reach the ledger
  account,      \* the truth about the reward account
  valid,        \* the truth about the transaction: the ledger accepts it
  requests, flips, ages,     \* how much of each bound is used
  missed,       \* history: faults of b while down since its last success
  verdicts,     \* history: client errors of b since its circuit was last half-opened
  good          \* history: good[c]: the backends usable throughout request c

vars == <<up, uninit, initialized, init, circ, call, pend, fresh, mempool,
          late, account, valid, requests, flips, ages, missed, verdicts, good>>
world == <<account, valid>>

Idle == [pc |-> "idle", m |-> "tx", at |-> NoBackend, todo |-> <<>>,
         errs |-> {}, res |-> "none"]

NoInit == [todo |-> <<>>, tries |-> 0, failed |-> {}]

Init ==
  /\ up \in [Backends -> BOOLEAN]
  /\ uninit = {} /\ initialized = FALSE /\ init = NoInit
  /\ circ = [b \in Backends |-> NewEntry]
  /\ call = [c \in Calls |-> Idle]
  /\ pend = [m \in {"tx", "cred", "params"} |-> NoCall]
  /\ fresh = FALSE /\ mempool = FALSE /\ late = FALSE
  /\ account \in IF "account" \in Offered
                THEN {"absent", "registered", "delegated"} ELSE {"delegated"}
  /\ valid \in IF "submit" \in Offered THEN BOOLEAN ELSE {TRUE}
  /\ requests = 0 /\ flips = 0 /\ ages = 0
  /\ missed = [b \in Backends |-> 0] /\ verdicts = [b \in Backends |-> 0]
  /\ good = [c \in Calls |-> {}]

\* Mutation: the walk looks at the next backend only.
WalkOnlyNext(r, ci) ==
  LET open == {k \in DOMAIN r.todo \cap {1} :
                 Supports(r.todo[k], r.m) /\ ShouldAttempt(ci[r.todo[k]])}
  IN IF open = {}
     THEN [r |-> [r EXCEPT !.pc = IF r.m = "batch" THEN "start" ELSE "failing",
                           !.m = IF @ = "batch" THEN "tx" ELSE @,
                           !.todo = <<>>, !.at = NoBackend],
           circ |-> ci]
     ELSE LET b == r.todo[1]
          IN [r |-> [r EXCEPT !.pc = IF b \in uninit THEN "lazy" ELSE "asked",
                              !.at = b, !.todo = Tail(r.todo)],
              circ |-> [ci EXCEPT ![b] = Attempted(@)]]

\* From the current place in a request's list to the next backend that
\* supports the method and whose circuit admits the call; a backend whose
\* init failed is initialised first.  Without one the request fails, and a
\* batch goes on with a coalesced getTransaction.
Walk(r, ci) ==
  LET open == {k \in DOMAIN r.todo :
                 Supports(r.todo[k], r.m) /\ ShouldAttempt(ci[r.todo[k]])}
  IN IF open = {}
     THEN [r |-> [r EXCEPT !.pc = IF r.m = "batch" THEN "start" ELSE "failing",
                           !.m = IF @ = "batch" THEN "tx" ELSE @,
                           !.todo = <<>>, !.at = NoBackend],
           circ |-> ci]
     ELSE LET k == Min(open)
              b == r.todo[k]
          IN [r |-> [r EXCEPT !.pc = IF b \in uninit THEN "lazy" ELSE "asked",
                              !.at = b,
                              !.todo = SubSeq(r.todo, k + 1, Len(r.todo))],
              circ |-> [ci EXCEPT ![b] = Attempted(@)]]

\* A circuit that turns half-open starts a new count of client errors.
VerdictsAfter(old, ci, v) ==
  [b \in Backends |-> IF old[b].state # "half-open" /\ ci[b].state = "half-open"
                      THEN 0 ELSE v[b]]

Walks(c, r, ci) ==
  LET w == Walk(r, ci)
  IN /\ call' = [call EXCEPT ![c] = w.r]
     /\ circ' = w.circ

\* b could serve a request made now.
Usable(b, m) ==
  up[b] /\ b \notin uninit /\ initialized /\ circ[b].state = "closed"
  /\ Supports(b, m)

\* History and what never changes; part of every action.
Observe ==
  /\ good' = [c \in Calls |->
       LET now == {b \in Backends : Usable(b, call[c].m)'}
       IN IF call[c].pc = "idle" /\ call'[c].pc = "start" THEN now
          ELSE IF call'[c].pc \in {"join", "idle"} THEN {} ELSE good[c] \cap now]
  /\ UNCHANGED world

-----------------------------------------------------------------------------
(* A request and its entry *)

Request(c, m) ==
  /\ call[c].pc = "idle" /\ requests < MaxRequests
  /\ requests' = requests + 1
  /\ call' = [call EXCEPT ![c] = [Idle EXCEPT !.pc = "start", !.m = m]]
  /\ UNCHANGED <<up, uninit, initialized, init, circ, pend, fresh, mempool,
                 late, flips, ages, missed, verdicts>>
  /\ Observe

\* Joins the promise of the same key, answers from the parameter cache,
\* waits for (and starts) the one initialisation, or walks.
Start(c) ==
  LET r == [call[c] EXCEPT !.todo = Order(call[c].m)]
      m == r.m
  IN /\ call[c].pc = "start"
     /\ IF m = "params" /\ fresh
        THEN /\ call' = [call EXCEPT ![c] = Idle]
             /\ UNCHANGED <<circ, pend, init, verdicts>>
        ELSE IF Coalesced(m) /\ pend[m] # NoCall
        THEN /\ call' = [call EXCEPT ![c].pc = "join", ![c].at = pend[m]]
             /\ UNCHANGED <<circ, pend, init, verdicts>>
        ELSE /\ pend' = IF Coalesced(m) THEN [pend EXCEPT ![m] = c] ELSE pend
             /\ IF Routed(m) /\ ~initialized
                THEN /\ call' = [call EXCEPT ![c] = [r EXCEPT !.pc = "init"]]
                     /\ init' = IF init.todo # <<>> THEN init
                                ELSE [NoInit EXCEPT !.todo = <<Live>> \o Historical]
                     /\ UNCHANGED <<circ, verdicts>>
                ELSE /\ Walks(c, r, circ)
                     /\ verdicts' = VerdictsAfter(circ, circ', verdicts)
                     /\ UNCHANGED init
     /\ UNCHANGED <<up, uninit, initialized, fresh, mempool, late,
                    requests, flips, ages, missed>>
     /\ Observe

-----------------------------------------------------------------------------
(* initBackends: one backend after the other, three attempts each *)

MaxInitAttempts == 3

\* The init of one backend is decided; the last one decides the client's:
\* if every backend failed, the promise is cleared and rejects its waiters.
InitDecided(failed) ==
  LET rest == Tail(init.todo)
      dead == rest = <<>> /\ failed = Backends
  IN /\ init' = IF rest = <<>> THEN NoInit
                ELSE [todo |-> rest, tries |-> 0, failed |-> failed]
     /\ initialized' = (initialized \/ (rest = <<>> /\ ~dead))
     /\ call' = [c \in Calls |->
                   IF dead /\ call[c].pc = "init"
                   THEN [call[c] EXCEPT !.pc = "failing"] ELSE call[c]]

InitSucceeds ==
  LET b == Head(init.todo)
  IN /\ init.todo # <<>> /\ up[b]
     /\ uninit' = uninit \ {b}
     /\ InitDecided(init.failed)
     /\ UNCHANGED <<up, circ, pend, fresh, mempool, late, requests, flips, ages,
                    missed, verdicts>>
     /\ Observe

\* A transient error is retried; a configuration error, or the third
\* attempt, leaves the backend for the lazy retry of later requests.
InitRetries ==
  /\ init.todo # <<>> /\ ~up[Head(init.todo)]
  /\ init.tries + 1 < MaxInitAttempts
  /\ init' = [init EXCEPT !.tries = @ + 1]
  /\ UNCHANGED <<up, uninit, initialized, circ, call, pend, fresh, mempool,
                 late, requests, flips, ages, missed, verdicts>>
  /\ Observe

InitFails ==
  LET b == Head(init.todo)
  IN /\ init.todo # <<>> /\ ~up[b]
     /\ uninit' = uninit \cup {b}
     /\ InitDecided(init.failed \cup {b})
     /\ UNCHANGED <<up, circ, pend, fresh, mempool, late, requests, flips,
                    ages, missed, verdicts>>
     /\ Observe

\* A request that waited for the initialisation goes on.
Resume(c) ==
  /\ call[c].pc = "init" /\ initialized
  /\ Walks(c, call[c], circ)
  /\ verdicts' = VerdictsAfter(circ, circ', verdicts)
  /\ UNCHANGED <<up, uninit, initialized, init, pend, fresh, mempool, late,
                 requests, flips, ages, missed>>
  /\ Observe

-----------------------------------------------------------------------------
(* ensureBackendInitialized *)

LazySucceeds(c) ==
  LET b == call[c].at
  IN /\ call[c].pc = "lazy" /\ up[b]
     /\ uninit' = uninit \ {b}
     /\ call' = [call EXCEPT ![c].pc = "asked"]
     /\ UNCHANGED <<up, initialized, init, circ, pend, fresh, mempool, late,
                    requests, flips, ages, missed, verdicts>>
     /\ Observe

\* executeWithPriority keeps the init error, callWithResilience drops it.
LazyFails(c) ==
  LET b == call[c].at
      ci == [circ EXCEPT ![b] = RecordFailure(@)]
      r == [call[c] EXCEPT !.errs = IF Routed(call[c].m)
                                    THEN @ \cup {[b |-> b, status |-> 500]} ELSE @]
  IN /\ call[c].pc = "lazy" /\ ~up[b]
     /\ Walks(c, r, ci)
     /\ missed' = [missed EXCEPT ![b] = Min({@ + 1, FailureThreshold})]
     /\ verdicts' = VerdictsAfter(circ, circ', verdicts)
     /\ UNCHANGED <<up, uninit, initialized, init, pend, fresh, mempool,
                    late, requests, flips, ages>>
     /\ Observe

-----------------------------------------------------------------------------
(* The answer of a backend *)

\* What b can throw: an outage in one of its shapes, or the verdict of a
\* healthy backend.  The node lists delegated credentials only.
Errors(b, m) ==
  IF ~up[b]
  THEN {Timeout, Http("none", 500), Raw("http", "notfound", TRUE, 400)}
  ELSE CASE m \in {"tx", "batch", "cred"} -> {Http("none", 404), Http("rate", 503)}
         [] m = "account" ->
              IF account = "absent" \/ (b = Live /\ account = "registered")
              THEN {Http("notfound", 500)} ELSE {Http("none", 429)}
         [] m = "submit" ->
              IF mempool THEN {Http("duplicate", 400)}
              ELSE IF valid THEN {} ELSE {Http("validation", 400)}
         [] OTHER -> {}

CanServe(b, m) ==
  /\ up[b]
  /\ m = "account" => account = "delegated" \/ (b # Live /\ account = "registered")
  /\ m = "submit" => valid /\ ~mempool

\* A request that has ended; of a verdict on the ledger the answer is kept.
Ended(r, res) ==
  IF r.m \in {"account", "submit"} THEN [Idle EXCEPT !.m = r.m, !.res = res] ELSE Idle

\* The end of a request that succeeded.  A coalescer drops its key and
\* everyone who joined gets the result.
Ends(c, res) ==
  call' = [d \in Calls |->
    IF d = c \/ (call[d].pc = "join" /\ call[d].at = c)
    THEN Ended(call[d], res)
    ELSE call[d]]

Dropped(m) == IF Coalesced(m) THEN [pend EXCEPT ![m] = NoCall] ELSE pend

AnswerOk(c) ==
  LET b == call[c].at
      m == call[c].m
  IN /\ call[c].pc = "asked" /\ CanServe(b, m)
     /\ circ' = [circ EXCEPT ![b] = RecordSuccess(@)]
     /\ missed' = [missed EXCEPT ![b] = 0]
     /\ pend' = IF m = "batch" THEN pend ELSE Dropped(m)
     /\ fresh' = (fresh \/ m = "params")
     /\ mempool' = (mempool \/ m = "submit")
     /\ Ends(c, "ok")
     /\ UNCHANGED <<up, uninit, initialized, init, late, requests, flips,
                    ages, verdicts>>
     /\ Observe

\* What a final client error tells the caller of submitTransaction.
Verdict(m, status) ==
  IF m # "submit" THEN "none" ELSE IF status = 409 THEN "already" ELSE "rejected"

\* A client error is no sign of bad health: the circuit is not told.  A
\* submission that failed otherwise may have reached the ledger before, or
\* may reach it later.
AnswerError(c) ==
  LET b == call[c].at
      m == call[c].m
  IN /\ call[c].pc = "asked"
     /\ \E e \in Errors(b, m) :
          LET status == Normalize(e)
              client == IsClientError(status)
              ci == IF client THEN circ ELSE [circ EXCEPT ![b] = RecordFailure(@)]
              r  == [call[c] EXCEPT !.errs = IF m = "batch" THEN @
                                             ELSE @ \cup {[b |-> b, status |-> status]}]
          IN /\ IF client /\ FinalOnClientError(m)
                THEN Ends(c, Verdict(m, status)) /\ circ' = ci
                ELSE Walks(c, r, ci)
             /\ verdicts' =
                  LET v == IF client /\ circ[b].state = "half-open"
                           THEN [verdicts EXCEPT ![b] = Min({@ + 1, SuccessThreshold})]
                           ELSE verdicts
                  IN VerdictsAfter(circ, circ', v)
             /\ missed' = IF up[b] THEN missed
                          ELSE [missed EXCEPT ![b] = Min({@ + 1, FailureThreshold})]
             /\ late' = (late \/ (m = "submit" /\ ~client /\ valid))
     /\ UNCHANGED <<up, uninit, initialized, init, pend, fresh, mempool,
                    requests, flips, ages>>
     /\ Observe

\* The backend took the transaction although its answer was given up.
LateAccept ==
  /\ late /\ ~mempool
  /\ mempool' = TRUE
  /\ UNCHANGED <<up, uninit, initialized, init, circ, call, pend, fresh,
                 late, requests, flips, ages, missed, verdicts>>
  /\ Observe

-----------------------------------------------------------------------------
(* The end of a request that failed *)

\* Mutation: a 404 of the node counts as one of a provider.
RegistrationTrustsNode(errs) ==
  IF \E e \in errs : e.status = 404 THEN "no"
  ELSE "failed"

\* isRewardAccountRegistered on the errors of all backends: a provider that
\* does not know the account decides, the node's silence proves nothing.
Registration(errs) ==
  IF \E e \in errs : e.b # Live /\ e.status = 404 THEN "no"
  ELSE IF NotFoundOnAll(errs) THEN "unknown"
  ELSE "failed"

\* The promise rejects.  A coalescer's catch drops the key at once; its
\* finally drops it again a turn later, when the callers are told.
Fail(c) ==
  LET m == call[c].m
  IN /\ call[c].pc = "failing"
     /\ pend' = Dropped(m)
     /\ IF Coalesced(m) /\ m # "params"
        THEN call' = [call EXCEPT ![c].pc = "settling"]
        ELSE Ends(c, IF m = "account" THEN Registration(call[c].errs) ELSE "failed")
     /\ UNCHANGED <<up, uninit, initialized, init, circ, fresh, mempool, late,
                    requests, flips, ages, missed, verdicts>>
     /\ Observe

Settle(c) ==
  /\ call[c].pc = "settling"
  /\ pend' = Dropped(call[c].m)
  /\ Ends(c, "failed")
  /\ UNCHANGED <<up, uninit, initialized, init, circ, fresh, mempool, late,
                 requests, flips, ages, missed, verdicts>>
  /\ Observe

-----------------------------------------------------------------------------
(* Other callers and the environment *)

\* recoverChainSyncBackend: the crawler retries the node's init past the
\* breaker while it paginates.
RecoverChainSync ==
  /\ Live \in uninit
  /\ \/ /\ up[Live]
        /\ uninit' = uninit \ {Live}
        /\ UNCHANGED <<circ, missed>>
     \/ /\ ~up[Live]
        /\ circ' = [circ EXCEPT ![Live] = RecordFailure(@)]
        /\ missed' = [missed EXCEPT ![Live] = Min({@ + 1, FailureThreshold})]
        /\ UNCHANGED uninit
  /\ UNCHANGED <<up, initialized, init, call, pend, fresh, mempool, late, requests,
                 flips, ages, verdicts>>
  /\ Observe

Flip(b) ==
  /\ flips < MaxFlips
  /\ up' = [up EXCEPT ![b] = ~@] /\ flips' = flips + 1
  /\ UNCHANGED <<uninit, initialized, init, circ, call, pend, fresh, mempool,
                 late, requests, ages, missed, verdicts>>
  /\ Observe

\* resetTimeoutMs has passed since the last failure of an open circuit.
Age(b) ==
  /\ circ[b].state = "open" /\ ~circ[b].aged /\ ages < MaxAged
  /\ circ' = [circ EXCEPT ![b].aged = TRUE] /\ ages' = ages + 1
  /\ UNCHANGED <<up, uninit, initialized, init, call, pend, fresh, mempool,
                 late, requests, flips, missed, verdicts>>
  /\ Observe

\* PROTOCOL_PARAMS_TTL_MS has passed.
ParamsAge ==
  /\ fresh /\ fresh' = FALSE
  /\ UNCHANGED <<up, uninit, initialized, init, circ, call, pend, mempool,
                 late, requests, flips, ages, missed, verdicts>>
  /\ Observe

-----------------------------------------------------------------------------
Next ==
  \/ \E c \in Calls, m \in Offered : Request(c, m)
  \/ \E c \in Calls : \/ Start(c) \/ Resume(c) \/ LazySucceeds(c) \/ LazyFails(c)
                      \/ AnswerOk(c) \/ AnswerError(c) \/ Fail(c) \/ Settle(c)
  \/ InitSucceeds \/ InitRetries \/ InitFails
  \/ RecoverChainSync \/ LateAccept
  \/ \E b \in Backends : Flip(b) \/ Age(b)
  \/ ParamsAge

Spec == Init /\ [][Next]_vars

-----------------------------------------------------------------------------
(* Properties *)

\* Failover finds a backend that works: a routed request fails only if every
\* backend that was reachable, initialised, supporting the method and behind
\* a closed circuit during the whole request gave a client-error verdict.
FailoverFindsHealthy ==
  \A c \in Calls :
    (call[c].pc = "failing" /\ Routed(call[c].m)) =>
      \A b \in good[c] : \E e \in call[c].errs : e.b = b /\ IsClientError(e.status)

\* An outage is recognised in every shape: a backend that answered
\* failureThreshold requests in a row while it was down is not offered to
\* every further request.
OutageOpensCircuit ==
  \A b \in Backends : missed[b] >= FailureThreshold => circ[b].state # "closed"

InFlight(b) == {c \in Calls : call[c].pc \in {"lazy", "asked"} /\ call[c].at = b}

\* Probe slots of a half-open circuit are held by requests in flight or were
\* lost to client errors, whatever overlaps with the opening of the circuit.
ProbesReleased ==
  \A b \in Backends : circ[b].state = "half-open" =>
    circ[b].probes <= Cardinality(InFlight(b)) + verdicts[b]

\* What the client says of the ledger is true of the ledger, under lost
\* answers, failover and classification: a registered account is never
\* reported missing, a transaction the ledger took is never reported as
\* rejected, and one reported accepted or known was taken.
AnswersAreTrue ==
  \A c \in Calls : call[c].pc = "idle" =>
    /\ call[c].m = "account" /\ call[c].res = "no" => account = "absent"
    /\ call[c].m = "submit" /\ call[c].res = "rejected" => ~mempool
    /\ call[c].m = "submit" /\ call[c].res \in {"ok", "already"} => mempool

\* A half-open circuit without a request in flight offers its backend to the
\* next request (circuit-breaker.ts: probe slots are `released on
\* success/failure').
HalfOpenStaysProbeable ==
  \A b \in Backends :
    circ[b].state = "half-open" /\ InFlight(b) = {} => ShouldAttempt(circ[b])

=============================================================================
