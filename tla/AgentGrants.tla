------------------------------ MODULE AgentGrants ------------------------------
(* Agent grants (utils/agent-grants.ts, agent-token-auth.ts, agent-grants-config  *)
(* .ts): bearer tokens with an allow list and a daily budget. One grant, several  *)
(* processes on one database, requests of the token holder and edits of an        *)
(* operator. A step is one database statement or transaction with the code up to  *)
(* the next await.                                                                *)
EXTENDS RateLimiter

CONSTANTS
  Procs, Requests, Clients,
  Flushers,           \* bound on the flushes of one process that run at once
  NoDay, NoMax, NoWallet, NoHash,
  MaxFailures,        \* failed attempts per client and window
  AdminRate,          \* adminRateLimit
  TokenCacheMax,      \* TOKEN_CACHE_MAX
  MaxDay,             \* bound on the days that pass
  Scenarios           \* configurations, first grants, edits and calls, with bounds

WalletActions == {"SubmitWalletJob", "CancelJob"}
FreeEvents == {"READ"}                      \* AGENT_ALWAYS_ALLOWED_EVENTS
Grantable == WalletActions \union {"Build"} \* AGENT_ALLOWLISTABLE_ACTIONS
Days == 0..MaxDay

(* What an operator may enter: an update names editable columns, not the token,    *)
(* the window or the counter (GRANT_EDITABLE_FIELDS).                               *)
RowFields == {"ver", "hash", "active", "acts", "wallet", "kinds", "max", "win", "used", "over"}
Editable == {"acts", "kinds", "max", "over"}

ASSUME GrantAssumption ==
  /\ MaxDay \in Nat /\ MaxFailures \in Nat /\ AdminRate \in Nat
  /\ IsFiniteSet(Requests) /\ IsFiniteSet(Procs) /\ IsFiniteSet(Clients) /\ IsFiniteSet(Flushers)
  /\ NoDay \notin Int /\ NoHash \notin Int /\ NoMax \notin Int
  /\ \A s \in Scenarios :
       /\ s.procs \subseteq Procs /\ s.days \in Days /\ s.tokens \subseteq Int /\ s.clients \subseteq Clients
       /\ DOMAIN s.row = RowFields /\ s.row.ver = 0 /\ s.row.hash = 0
       /\ s.row.max \in Nat \union {NoMax} /\ s.row.win = NoDay /\ s.row.used = 0
       /\ \A e \in s.edits :
            /\ e.kind \in {"revoke", "rotate", "update"} /\ DOMAIN e.patch \subseteq Editable
            /\ "max" \in DOMAIN e.patch => e.patch.max \in Int \union {NoMax}

VARIABLES
  row,      \* the row of CardanoAgentGrants; ver counts the edits (history)
  day,      \* the UTC day
  usage,    \* CardanoAgentGrantUsage of the one service and action, per day
  proc,     \* the memory of each process
  reqs,     \* the token requests
  edits,    \* the administration call of each process
  flushes,  \* the flushGrantUsage calls in progress, per process
  hist,     \* history: what was charged, admitted, recorded, lost, refused
  scene,    \* the scenario, fixed
  left      \* what the environment may still do

vars == <<row, day, usage, proc, reqs, edits, flushes, hist, scene, left>>

NoDelta == [calls |-> 0, refunded |-> 0]
FreshProc == [lane |-> "unset", cache |-> << >>, hashOf |-> NoHash, gen |-> 0,
              buf |-> << >>, armed |-> FALSE, fails |-> EmptyLimiter, admin |-> EmptyLimiter]
NoRequest == [pc |-> "idle", p |-> CHOOSE p \in Procs : TRUE, client |-> CHOOSE c \in Clients : TRUE,
              hash |-> 0, gen |-> 0, grant |-> << >>, call |-> << >>, parts |-> 0,
              today |-> NoDay, charged |-> FALSE, usageDay |-> NoDay]
NoEdit == [pc |-> "idle", tx |-> FALSE, kind |-> "none", patch |-> << >>]
NoFlush == [pc |-> "idle", todo |-> {}, day |-> NoDay, delta |-> NoDelta]
NoFlushes == [f \in Flushers |-> NoFlush]

NoGrant(g) == [g EXCEPT !.hash = NoHash, !.active = FALSE]

Init ==
  /\ \E s \in Scenarios : scene = s /\ row = NoGrant(s.row) /\ left = s.left
  /\ day = 0 /\ usage = << >>
  /\ proc = [p \in Procs |-> FreshProc]
  /\ reqs = [r \in Requests |-> NoRequest]
  /\ edits = [p \in Procs |-> NoEdit]
  /\ flushes = [p \in Procs |-> NoFlushes]
  /\ hist = [charged |-> [d \in Days |-> 0], admitted |-> [d \in Days |-> 0],
             recorded |-> 0, lost |-> 0, ceiling |-> row.max, early |-> FALSE,
             seen |-> [p \in Procs |-> 0], moved |-> [p \in Procs |-> FALSE], known |-> scene.row.hash,
             detail |-> [p \in Procs |-> [c \in Clients |-> 0]]]

Spend(what) == left[what] > 0 /\ left' = [left EXCEPT ![what] = @ - 1]
ReqGoto(r, pc) == reqs' = [reqs EXCEPT ![r].pc = pc]
End(r) == reqs' = [reqs EXCEPT ![r] = NoRequest]

--------------------------------------------------------------------------------
(* loadAgentGrantsConfig, activateAgentGrants: a wrong configuration leaves the   *)
(* feature off; a second activation changes nothing.                              *)
ValidConfig(c) == c.delegate = "known" \/ (c.delegate = "custom" /\ c.hostImpl)
Activate(p) ==
  /\ proc[p].lane = "unset"
  /\ proc' = [proc EXCEPT ![p].lane =
                IF scene.config.enabled /\ ValidConfig(scene.config) THEN "on" ELSE "off"]
  /\ UNCHANGED <<row, day, usage, reqs, edits, flushes, hist, scene, left>>

--------------------------------------------------------------------------------
(* The transport lane: a token becomes a grant row.                               *)

FailKey(c) == <<c, "agent-token">>

(* A failed attempt is counted, then answered: with the reason while it fits.     *)
Fail(r, pr, h) ==
  LET c == reqs[r].client
      key == FailKey(c)
      p == reqs[r].p
  IN /\ proc' = [pr EXCEPT ![p].fails = Checked(@, key, MaxFailures)]
     /\ hist' = [h EXCEPT !.detail[p][c] = IF CheckAllows(pr[p].fails, key, MaxFailures) THEN @ + 1 ELSE @]
     /\ End(r)

(* Requests are slots for what runs at the same time: any free one will do. *)
FreeSlot == CHOOSE r \in Requests : reqs[r].pc = "idle"

(* agentTokenLane, resolveAgentToken up to the SELECT. A cached row is used while  *)
(* it is young; its expiry is checked each time. A token is random: nobody has it   *)
(* before the rotation that made it was answered; a guess is a negative number.     *)
Present(r, p, c, h, call) ==
  LET q == [NoRequest EXCEPT !.p = p, !.client = c, !.hash = h, !.call = call, !.parts = scene.parts]
      hit == h \in DOMAIN proc[p].cache
  IN
  /\ r = FreeSlot /\ proc[p].lane = "on" /\ row.hash # NoHash /\ h <= hist.known /\ Spend("calls")
  /\ Fits(proc[p].fails, FailKey(c), MaxFailures)
  /\ \/ /\ hit
        /\ reqs' = [reqs EXCEPT ![r] = [q EXCEPT !.grant = proc[p].cache[h],
                      !.pc = IF proc[p].cache[h].over <= day THEN "fail" ELSE "enforce"]]
        /\ UNCHANGED proc
     \/ /\ reqs' = [reqs EXCEPT ![r] = [q EXCEPT !.pc = "select", !.gen = proc[p].gen]]
        /\ proc' = IF hit THEN [proc EXCEPT ![p].cache = Unbind(@, h)] ELSE proc
  /\ UNCHANGED <<row, day, usage, edits, flushes, hist, scene>>

FailCached(r) ==
  /\ reqs[r].pc = "fail" /\ Fail(r, proc, hist)
  /\ UNCHANGED <<row, day, usage, edits, flushes, scene, left>>

(* The SELECT sees committed rows only. *)
Select(r) ==
  LET q == reqs[r]
      found == row.hash = q.hash /\ row.active
      e == edits[q.p]
  IN
  /\ q.pc = "select"
  /\ reqs' = [reqs EXCEPT ![r].pc = "selected", ![r].grant = IF found THEN row ELSE << >>]
  /\ hist' = IF e.pc = "commit" THEN [hist EXCEPT !.early = TRUE] ELSE hist
  /\ UNCHANGED <<row, day, usage, proc, edits, flushes, scene, left>>

Remembered(m, h) ==
  LET full == Cardinality(DOMAIN m.cache) >= TokenCacheMax
  IN [m EXCEPT !.cache = Bind(IF full THEN << >> ELSE @, h.hash, h), !.hashOf = h.hash]

(* Variant: a lookup in flight always caches its row. *)
MayRememberAlways(r) == scene.cached
MayRemember(r) == scene.cached /\ reqs[r].gen = proc[reqs[r].p].gen

Resolve(r) ==
  LET q == reqs[r] IN
  /\ q.pc = "selected"
  /\ \/ q.grant = << >> /\ Fail(r, proc, hist)
     \/ q.grant # << >> /\ q.grant.over <= day /\ Fail(r, proc, hist)
     \/ /\ q.grant # << >> /\ q.grant.over > day
        /\ proc' = IF MayRemember(r) THEN [proc EXCEPT ![q.p] = Remembered(@, q.grant)] ELSE proc
        /\ ReqGoto(r, "enforce") /\ UNCHANGED hist
  /\ UNCHANGED <<row, day, usage, edits, flushes, scene, left>>

--------------------------------------------------------------------------------
(* enforceAgentGrant, before every event: allow list, wallet, budget, usage.      *)

Allowed(g, call) ==
  /\ call.event \in g.acts
  /\ call.event \in WalletActions =>
       /\ g.wallet # NoWallet
       /\ call.event = "SubmitWalletJob" =>
            /\ call.wallet \in {NoWallet, g.wallet}
            /\ g.kinds # {} => call.kind \in g.kinds

NextPart(r) ==
  IF reqs[r].parts > 1
  THEN [reqs EXCEPT ![r].pc = "enforce", ![r].parts = @ - 1, ![r].charged = FALSE, ![r].today = NoDay]
  ELSE [reqs EXCEPT ![r] = NoRequest]

(* The row of the request itself is looked at: a refused part ends, the others go  *)
(* on.                                                                             *)
Enforce(r) ==
  LET q == reqs[r]
      g == q.grant
      budgeted == g.max # NoMax
  IN
  /\ q.pc = "enforce"
  /\ IF g.over <= day \/ (q.call.event \notin FreeEvents /\ ~Allowed(g, q.call)) \/ q.call.event \in FreeEvents
     THEN reqs' = NextPart(r)
     ELSE reqs' = [reqs EXCEPT ![r].pc = IF scene.changeset THEN "changeset"
                                         ELSE IF budgeted THEN "reset" ELSE "record",
                               ![r].today = IF budgeted THEN day ELSE NoDay]
  /\ UNCHANGED <<row, day, usage, proc, edits, flushes, hist, scene, left>>

(* An edit's open transaction holds the row. *)
Locked == \E p \in Procs : edits[p].tx /\ edits[p].pc \in {"invalidate", "commit"}

Resets(now, g, today) == g.win # today /\ now.win = g.win

Charge(r, used) ==
  /\ row' = [row EXCEPT !.win = reqs[r].today, !.used = used]
  /\ hist' = [hist EXCEPT !.charged[reqs[r].today] = @ + 1]
  /\ reqs' = [reqs EXCEPT ![r].pc = "record", ![r].charged = TRUE]

(* consumeDailyBudget, first UPDATE: move the window, if it is still the one of    *)
(* the request's row.                                                              *)
ConsumeReset(r) ==
  /\ reqs[r].pc = "reset" /\ ~Locked
  /\ IF Resets(row, reqs[r].grant, reqs[r].today)
     THEN Charge(r, 1) /\ UNCHANGED left
     ELSE ReqGoto(r, "increment") /\ UNCHANGED <<row, hist, left>>
  /\ UNCHANGED <<day, usage, proc, edits, flushes, scene>>

(* The second: one more, below the daily maximum. Else 429. *)
(* Variant: up to and beyond it. *)
IncrementsPastMax(now, g, today) == now.win = today /\ now.used <= g.max
Increments(now, g, today) == now.win = today /\ now.used < g.max
ConsumeIncrement(r) ==
  LET q == reqs[r] IN
  /\ q.pc = "increment" /\ ~Locked
  /\ IF Increments(row, q.grant, q.today)
     THEN Charge(r, row.used + 1)
     ELSE reqs' = NextPart(r) /\ UNCHANGED <<row, hist>>
  /\ UNCHANGED <<day, usage, proc, edits, flushes, scene, left>>

(* In a changeset the hook writes on the request's transaction: charge, usage and  *)
(* the handler's work commit together or not at all.                               *)
ChangesetCall(r) ==
  LET q == reqs[r]
      reset == Resets(row, q.grant, q.today)
      can == q.today = NoDay \/ reset \/ Increments(row, q.grant, q.today)
      count == IF day \in DOMAIN usage THEN usage[day].calls ELSE 0
      back == IF day \in DOMAIN usage THEN usage[day].refunded ELSE 0
  IN
  /\ q.pc = "changeset" /\ ~Locked
  /\ \/ /\ can
        /\ row' = IF q.today = NoDay THEN row
                  ELSE [row EXCEPT !.win = q.today, !.used = IF reset THEN 1 ELSE @ + 1]
        /\ usage' = Bind(usage, day, [calls |-> count + 1, refunded |-> back])
        /\ hist' = LET h == [hist EXCEPT !.recorded = @ + 1]
                   IN IF q.today = NoDay THEN h
                      ELSE [h EXCEPT !.charged[q.today] = @ + 1, !.admitted[q.today] = @ + 1]
     \/ UNCHANGED <<row, usage, hist>>
  /\ reqs' = NextPart(r)
  /\ UNCHANGED <<day, proc, edits, flushes, scene, left>>

--------------------------------------------------------------------------------
(* Usage counters: buffered and flushed by a timer, or written at once.           *)

Plus(a, b) == [calls |-> a.calls + b.calls, refunded |-> a.refunded + b.refunded]
One == [calls |-> 1, refunded |-> 0]
OneBack == [calls |-> 0, refunded |-> 1]

(* bufferUsage: a timer is armed unless one is. *)
(* Variant: only the first delta of a buffer arms it. *)
ArmsOnce(m) == m.armed \/ (m.buf = << >> /\ usage = << >>)
Arms(m) == TRUE
Buffered(m, d, delta) ==
  [m EXCEPT !.buf = Bind(@, d, Plus(IF d \in DOMAIN @ THEN @[d] ELSE NoDelta, delta)), !.armed = Arms(m)]

(* A row still missing after the second UPDATE: the INSERT had failed for another  *)
(* reason than a lost race. *)
(* Variant: a failed INSERT is always a lost race. *)
StillMissingIsDone == "done"
StillMissing == "failed"

(* UPDATE, else INSERT, else UPDATE again: another writer may insert in between.  *)
(* A statement may throw, and then has changed nothing: after an INSERT that did,  *)
(* the row is looked for once more; any other one ends the upsert.                 *)
UpsertOutcomes(pc, d, delta) ==
  LET there == d \in DOMAIN usage
      to(p, u, l) == [pc |-> p, usage |-> u, left |-> l]
      bumped == to("done", [usage EXCEPT ![d] = Plus(@, delta)], left)
      missed(p) == to(p, usage, left)
      runs == CASE pc = "update" -> IF there THEN bumped ELSE missed("insert")
                [] pc = "insert" -> IF there THEN missed("again") ELSE to("done", Bind(usage, d, delta), left)
                [] pc = "again"  -> IF there THEN bumped ELSE missed(StillMissing)
      throws == to(IF pc = "insert" THEN "again" ELSE "failed", usage, [left EXCEPT !.faults = @ - 1])
  IN {runs} \union (IF left.faults > 0 THEN {throws} ELSE {})

(* recordGrantUsage never fails the request. *)
RecordDeferred(r) ==
  LET p == reqs[r].p IN
  /\ reqs[r].pc = "record" /\ scene.deferred
  /\ proc' = [proc EXCEPT ![p] = Buffered(@, day, One)]
  /\ reqs' = [reqs EXCEPT ![r].pc = "handler", ![r].usageDay = day]
  /\ hist' = [hist EXCEPT !.recorded = @ + 1]
  /\ UNCHANGED <<row, day, usage, edits, flushes, scene, left>>

RecordSync(r) ==
  /\ reqs[r].pc = "record" /\ ~scene.deferred
  /\ reqs' = [reqs EXCEPT ![r].pc = "update", ![r].usageDay = day]
  /\ hist' = [hist EXCEPT !.recorded = @ + 1]
  /\ UNCHANGED <<row, day, usage, proc, edits, flushes, scene, left>>

RecordStatement(r) ==
  /\ reqs[r].pc \in {"update", "insert", "again"}
  /\ \E o \in UpsertOutcomes(reqs[r].pc, reqs[r].usageDay, One) :
       /\ usage' = o.usage /\ left' = o.left
       /\ ReqGoto(r, IF o.pc \in {"done", "failed"} THEN "handler" ELSE o.pc)
       /\ hist' = IF o.pc = "failed" THEN [hist EXCEPT !.lost = @ + 1] ELSE hist
  /\ UNCHANGED <<row, day, proc, edits, flushes, scene>>

(* The handler: served; refused as invalid (400..428), which is refunded; failed  *)
(* otherwise (429, 5xx), which keeps the charge.                                   *)
Handle(r) ==
  LET q == reqs[r] IN
  /\ q.pc = "handler"
  /\ \/ /\ hist' = IF q.charged THEN [hist EXCEPT !.admitted[q.today] = @ + 1] ELSE hist
        /\ reqs' = NextPart(r)
     \/ /\ ReqGoto(r, IF q.charged THEN "refund" ELSE "refundUsage") /\ UNCHANGED hist
  /\ UNCHANGED <<row, day, usage, proc, edits, flushes, scene, left>>

Refunds(now, d) == now.win = d /\ now.used > 0

RefundDailyBudget(r) ==
  LET q == reqs[r] IN
  /\ q.pc = "refund" /\ ~Locked
  /\ \/ /\ row' = IF Refunds(row, q.today) THEN [row EXCEPT !.used = @ - 1] ELSE row
        /\ hist' = [hist EXCEPT !.charged[q.today] = @ - 1]
        /\ UNCHANGED left
     \/ Spend("faults") /\ UNCHANGED <<row, hist>>
  /\ ReqGoto(r, "refundUsage")
  /\ UNCHANGED <<day, usage, proc, edits, flushes, scene>>

RefundGrantUsage(r) ==
  LET q == reqs[r]
      d == q.usageDay
  IN
  /\ q.pc = "refundUsage"
  /\ \/ /\ scene.deferred
        /\ proc' = [proc EXCEPT ![q.p] = Buffered(@, d, OneBack)] /\ UNCHANGED <<usage, left>>
     \/ /\ ~scene.deferred /\ UNCHANGED <<proc, left>>
        /\ usage' = IF d \in DOMAIN usage THEN [usage EXCEPT ![d] = Plus(@, OneBack)] ELSE usage
     \/ ~scene.deferred /\ Spend("faults") /\ UNCHANGED <<usage, proc>>
  /\ reqs' = NextPart(r)
  /\ UNCHANGED <<row, day, edits, flushes, hist, scene>>

(* flushGrantUsage: the buffer is taken as a whole, then written key by key. Nothing *)
(* keeps the flushes of a process apart: the timer, a read of the usage and the      *)
(* shutdown each start one while others still write.                                 *)
Flush(p, armed) ==
  LET buf == proc[p].buf
      free == {f \in Flushers : flushes[p][f].pc = "idle"}
  IN
  /\ buf # << >> /\ free # {}
  /\ flushes' = [flushes EXCEPT ![p][CHOOSE f \in free : TRUE] =
                   [NoFlush EXCEPT !.pc = "next", !.todo = {<<d, buf[d]>> : d \in DOMAIN buf}]]
  /\ proc' = [proc EXCEPT ![p].armed = armed, ![p].buf = << >>]
  /\ UNCHANGED <<row, day, usage, reqs, edits, hist, scene>>

(* The timer is over when it fires; the other two leave it running, and it then may *)
(* find nothing to write.                                                           *)
FlushTimer(p) ==
  /\ proc[p].armed
  /\ \/ Flush(p, FALSE) /\ UNCHANGED left
     \/ /\ proc[p].buf = << >> /\ proc' = [proc EXCEPT ![p].armed = FALSE]
        /\ UNCHANGED <<row, day, usage, reqs, edits, flushes, hist, scene, left>>
GetGrantUsage(p) == Spend("reads") /\ Flush(p, proc[p].armed)
Shutdown(p) == Spend("stops") /\ Flush(p, proc[p].armed)

FlushNext(p, f) ==
  LET w == flushes[p][f] IN
  /\ w.pc = "next"
  /\ flushes' = [flushes EXCEPT ![p][f] =
       IF w.todo = {} THEN NoFlush
       ELSE LET e == CHOOSE x \in w.todo : TRUE
            IN [pc |-> "update", todo |-> w.todo \ {e}, day |-> e[1], delta |-> e[2]]]
  /\ UNCHANGED <<row, day, usage, proc, reqs, edits, hist, scene, left>>

(* A failed delta goes back into the buffer. *)
FlushStatement(p, f) ==
  LET w == flushes[p][f] IN
  /\ w.pc \in {"update", "insert", "again"}
  /\ \E o \in UpsertOutcomes(w.pc, w.day, w.delta) :
       /\ usage' = o.usage /\ left' = o.left
       /\ flushes' = [flushes EXCEPT ![p][f] =
            IF o.pc \in {"done", "failed"} THEN [NoFlush EXCEPT !.pc = "next", !.todo = w.todo]
            ELSE [w EXCEPT !.pc = o.pc]]
       /\ proc' = IF o.pc = "failed" THEN [proc EXCEPT ![p] = Buffered(@, w.day, w.delta)] ELSE proc
  /\ UNCHANGED <<row, day, reqs, edits, hist, scene>>

--------------------------------------------------------------------------------
(* Administration: the CAP actions run inside the request's transaction, which    *)
(* commits after the handler returned; the exported functions run on their own.   *)

(* validateGrantInput *)
ValidInput(n) ==
  /\ n.acts # {} /\ n.acts \subseteq Grantable
  /\ n.acts \intersect WalletActions # {} => n.wallet # NoWallet
  /\ n.kinds # {} => n.acts \intersect WalletActions # {}
  /\ n.max # NoMax => n.max >= 1

(* issueAgentGrant *)
IssueAgentGrant ==
  /\ row.hash = NoHash /\ ValidInput(scene.row)
  /\ row' = scene.row
  /\ UNCHANGED <<day, usage, proc, reqs, edits, flushes, hist, scene, left>>

Patched(g, patch) == [f \in DOMAIN g |-> IF f \in DOMAIN patch THEN patch[f] ELSE g[f]]

(* checkGrantAdmin, then updateAgentGrant's read and validation. *)
RequestEdit(p, tx, kind, patch) ==
  LET key == <<"operator", "grant-admin">>
      allowed == CheckAllows(proc[p].admin, key, AdminRate)
      ok == kind = "update" => /\ row.active /\ ValidInput(Patched(row, patch))
                               /\ "over" \in DOMAIN patch => patch.over > day
  IN
  /\ edits[p].pc = "idle" /\ row.hash # NoHash /\ Spend("edits")
  /\ proc' = IF tx THEN [proc EXCEPT ![p].admin = Checked(@, key, AdminRate)] ELSE proc
  /\ edits' = IF (tx => allowed) /\ ok
              THEN [edits EXCEPT ![p] = [pc |-> "write", tx |-> tx, kind |-> kind, patch |-> patch]]
              ELSE edits
  /\ UNCHANGED <<row, day, usage, reqs, flushes, hist, scene>>

Edited(e) ==
  LET g == CASE e.kind = "revoke" -> [row EXCEPT !.active = FALSE]
             [] e.kind = "rotate" -> [row EXCEPT !.hash = @ + 1]
             [] e.kind = "update" -> Patched(row, e.patch)
  IN [g EXCEPT !.ver = @ + 1]

Ceiling(g) == IF g.max = NoMax \/ hist.ceiling = NoMax THEN hist.ceiling
              ELSE IF g.max > hist.ceiling THEN g.max ELSE hist.ceiling

(* What a committed edit leaves behind: the ceiling, and that the token was       *)
(* replaced behind the back of the other processes.                                *)
Committed(h, p, e) ==
  [h EXCEPT !.ceiling = Ceiling(Edited(e)),
            !.moved = [q \in Procs |-> @[q] \/ (e.kind = "rotate" /\ q # p)]]

(* The UPDATE, conditional on isActive. *)
EditWrite(p) ==
  LET e == edits[p] IN
  /\ e.pc = "write" /\ ~Locked
  /\ IF ~row.active
     THEN edits' = [edits EXCEPT ![p].pc = "invalidate", ![p].kind = "none"] /\ UNCHANGED <<row, hist>>
     ELSE /\ edits' = [edits EXCEPT ![p].pc = "invalidate"]
          /\ IF e.tx THEN UNCHANGED <<row, hist>>
             ELSE row' = Edited(e) /\ hist' = Committed(hist, p, e)
  /\ UNCHANGED <<day, usage, proc, reqs, flushes, scene, left>>

(* invalidateTokenCache *)
Forgotten(m) ==
  [m EXCEPT !.gen = @ + 1, !.cache = IF m.hashOf = NoHash THEN @ ELSE Unbind(@, m.hashOf), !.hashOf = NoHash]

(* An answer tells the operator a rotated token. *)
Answered(h, p, kind, g) ==
  [h EXCEPT !.seen[p] = IF kind = "none" THEN @ ELSE g.ver, !.known = IF kind = "rotate" THEN g.hash ELSE @]

EditInvalidate(p) ==
  LET e == edits[p] IN
  /\ e.pc = "invalidate"
  /\ proc' = [proc EXCEPT ![p] = Forgotten(@)]
  /\ IF e.tx /\ e.kind # "none"
     THEN edits' = [edits EXCEPT ![p].pc = "commit"] /\ UNCHANGED hist
     ELSE edits' = [edits EXCEPT ![p] = NoEdit] /\ hist' = Answered(hist, p, e.kind, row)
  /\ UNCHANGED <<row, day, usage, reqs, flushes, scene, left>>

EditCommit(p) ==
  LET e == edits[p] IN
  /\ e.pc = "commit"
  /\ row' = Edited(e)
  /\ hist' = Answered(Committed(hist, p, e), p, e.kind, Edited(e))
  /\ edits' = [edits EXCEPT ![p] = NoEdit]
  /\ UNCHANGED <<day, usage, proc, reqs, flushes, scene, left>>

--------------------------------------------------------------------------------
(* The environment: days pass, hits leave the window, a process dies.             *)

Midnight ==
  /\ day < scene.days /\ day' = day + 1
  /\ UNCHANGED <<row, usage, proc, reqs, edits, flushes, hist, scene, left>>

AgeFailure(p, c) ==
  LET key == FailKey(c) IN
  /\ HitsOf(proc[p].fails, key) > 0 /\ Spend("ages")
  /\ proc' = [proc EXCEPT ![p].fails = Aged(@, key)]
  /\ hist' = [hist EXCEPT !.detail[p][c] = @ - 1]
  /\ UNCHANGED <<row, day, usage, reqs, edits, flushes, scene>>

Sweep(p) ==
  /\ Idle(proc[p].fails) # {} /\ proc' = [proc EXCEPT ![p].fails = Swept(@)]
  /\ UNCHANGED <<row, day, usage, reqs, edits, flushes, hist, scene, left>>

Pending(f) == IF f.pc \in {"update", "insert", "again"} THEN f.todo \union {<<f.day, f.delta>>} ELSE f.todo
CallsIn(deltas) == MapThenSumSet(LAMBDA x : x[2].calls, deltas)
PendingCalls(fl) == MapThenSumSet(LAMBDA f : CallsIn(Pending(fl[f])), Flushers)
BufferedCalls(m) == CallsIn({<<d, m.buf[d]>> : d \in DOMAIN m.buf})
InFlight(S) == Cardinality({r \in S : reqs[r].pc \in {"update", "insert", "again"}})

(* What a process keeps in memory is lost: budget units stay spent. *)
Crash(p) ==
  LET mine == {r \in Requests : reqs[r].p = p}
  IN
  /\ Spend("crashes")
  /\ proc' = [proc EXCEPT ![p] = FreshProc]
  /\ reqs' = [r \in Requests |-> IF r \in mine THEN NoRequest ELSE reqs[r]]
  /\ edits' = [edits EXCEPT ![p] = NoEdit] /\ flushes' = [flushes EXCEPT ![p] = NoFlushes]
  /\ hist' = [hist EXCEPT !.lost = @ + BufferedCalls(proc[p]) + PendingCalls(flushes[p]) + InFlight(mine),
                          !.detail[p] = [c \in Clients |-> 0]]
  /\ UNCHANGED <<row, day, usage, scene>>

RequestStep(r) ==
  \/ FailCached(r) \/ Select(r) \/ Resolve(r) \/ Enforce(r) \/ ConsumeReset(r) \/ ConsumeIncrement(r)
  \/ ChangesetCall(r)
  \/ RecordDeferred(r) \/ RecordSync(r) \/ RecordStatement(r) \/ Handle(r)
  \/ RefundDailyBudget(r) \/ RefundGrantUsage(r)
FlushStep(p) == \E f \in Flushers : FlushNext(p, f) \/ FlushStatement(p, f)
EditStep(p) == EditWrite(p) \/ EditInvalidate(p) \/ EditCommit(p)

Next ==
  \/ \E r \in Requests : RequestStep(r)
  \/ \E r \in Requests :
       /\ reqs[r].pc = "idle"
       /\ \E p \in scene.procs, c \in scene.clients, h \in scene.tokens, call \in scene.calls : Present(r, p, c, h, call)
  \/ \E p \in scene.procs :
       \/ Activate(p) \/ FlushStep(p) \/ FlushTimer(p) \/ GetGrantUsage(p) \/ Shutdown(p)
       \/ EditStep(p) \/ Sweep(p) \/ Crash(p) \/ \E c \in Clients : AgeFailure(p, c)
       \/ \E e \in scene.edits : RequestEdit(p, e.tx, e.kind, e.patch)
  \/ IssueAgentGrant \/ Midnight

(* Timers fire and statements return. *)
Fairness ==
  /\ \A p \in Procs : WF_vars(FlushTimer(p)) /\ WF_vars(FlushStep(p)) /\ WF_vars(EditStep(p))
  /\ \A r \in Requests : WF_vars(RequestStep(r))

Spec == Init /\ [][Next]_vars
FairSpec == Spec /\ Fairness

--------------------------------------------------------------------------------
(* No day admits more budgeted calls than the highest daily maximum the grant has  *)
(* had, with concurrent requests on several processes, rows read earlier, refunds  *)
(* and midnight in between (consumeDailyBudget), and the counter of the row's      *)
(* window is what was charged to that day less what was refunded to it: a refund   *)
(* after midnight does not reach the new day.                                      *)
BudgetHolds ==
  /\ hist.ceiling # NoMax => \A d \in Days : hist.admitted[d] <= hist.ceiling
  /\ row.win # NoDay => row.used = hist.charged[row.win]

(* Every recorded call is in the table, in a buffer or on its way, exactly once,   *)
(* whatever flushes overlap, race for the first insert or fail; only a crash or a  *)
(* failed write without a buffer loses one.                                        *)
UsageAddsUp ==
  LET written == MapThenSumSet(LAMBDA d : usage[d].calls, DOMAIN usage)
      held == MapThenSumSet(LAMBDA p : BufferedCalls(proc[p]) + PendingCalls(flushes[p]), Procs)
  IN written + held + InFlight(Requests) + hist.lost = hist.recorded

(* After an edit was answered, the process that made it holds no row from before   *)
(* it: the lookups in flight included. Left out: a lookup that read the row after  *)
(* an action had dropped the cache entry and before its transaction committed      *)
(* (early), and a process whose cache may hold two tokens of the grant because     *)
(* another one rotated it (moved): tokenHashOfGrant names one of them, and only    *)
(* that one is dropped.                                                            *)
LocalEditSeen ==
  hist.early \/
  \A p \in Procs : hist.moved[p] \/ \A h \in DOMAIN proc[p].cache : proc[p].cache[h].ver >= hist.seen[p]

(* However many attempts run at once, a client learns the reason of no more        *)
(* failures within a window than the limit, unless its key was evicted, and the    *)
(* limiter's keys, group counts and capacity agree after evictions and sweeps.     *)
FailuresThrottled ==
  \A p \in Procs :
    /\ Cardinality(Clients) <= MaxKeys => \A c \in Clients : hist.detail[p][c] <= MaxFailures
    /\ Consistent(proc[p].fails) /\ Consistent(proc[p].admin)

(* What is buffered reaches the table: a failed write arms the timer again. *)
UsageIsWritten ==
  \A p \in Procs :
    proc[p].buf # << >> ~> proc[p].buf = << >> /\ \A f \in Flushers : flushes[p][f].pc = "idle"

================================================================================
