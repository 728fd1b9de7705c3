-------------------------------- MODULE MCGrants --------------------------------
(* Small instances of the agent grants: two processes, two requests at a time, and *)
(* scenarios that each stress one part.                                            *)
EXTENDS AgentGrants

CONSTANTS P1, P2, C1, C2, W1, W2

Quiet == [calls |-> 0, edits |-> 0, faults |-> 0, crashes |-> 0, reads |-> 0, stops |-> 0, ages |-> 0]
On == [enabled |-> TRUE, delegate |-> "known", hostImpl |-> FALSE]
Grant == [ver |-> 0, hash |-> 0, active |-> TRUE, acts |-> {"Build"}, wallet |-> NoWallet, kinds |-> {},
          max |-> 2, win |-> NoDay, used |-> 0, over |-> 9]
Build == [event |-> "Build", wallet |-> NoWallet, kind |-> "none"]
Base == [config |-> On, row |-> Grant, deferred |-> TRUE, cached |-> TRUE, changeset |-> FALSE, parts |-> 1,
         procs |-> {P1}, days |-> 0, clients |-> {C1}, tokens |-> {0}, calls |-> {Build}, edits |-> {}, left |-> Quiet]
Edit(tx, kind, patch) == [tx |-> tx, kind |-> kind, patch |-> patch]

(* The budget: more calls than units, over a midnight, each process with its    *)
(* own cached row.                                                                 *)
BudgetScene == [Base EXCEPT !.procs = {P1, P2}, !.row = [Grant EXCEPT !.max = 1], !.days = 1, !.deferred = FALSE,
                            !.left = [Quiet EXCEPT !.calls = 3]]
FaultScene == [Base EXCEPT !.procs = {P1, P2}, !.row = [Grant EXCEPT !.max = NoMax],
                           !.left = [Quiet EXCEPT !.calls = 2, !.faults = 1, !.crashes = 1]]
(* Two flushes of one process at once, with deltas of two days, and an INSERT and  *)
(* the UPDATE after it that both fail.                                             *)
OverlapScene == [Base EXCEPT !.days = 1, !.row = [Grant EXCEPT !.max = NoMax],
                             !.left = [Quiet EXCEPT !.calls = 2, !.faults = 2, !.reads = 1]]
ShutdownScene == [Base EXCEPT !.left = [Quiet EXCEPT !.calls = 1, !.faults = 1, !.stops = 1, !.crashes = 1]]
SyncScene == [Base EXCEPT !.deferred = FALSE, !.cached = FALSE, !.procs = {P1, P2}, !.left = [Quiet EXCEPT !.calls = 2, !.faults = 1]]
BatchScene == [Base EXCEPT !.parts = 2, !.changeset = TRUE, !.left = [Quiet EXCEPT !.calls = 2]]
EditScene == [Base EXCEPT !.tokens = {0, 1, 2}, !.left = [Quiet EXCEPT !.calls = 3, !.edits = 2],
                !.calls = {[Build EXCEPT !.event = "READ"]},
                !.edits = {Edit(tx, kind, << >>) : tx \in BOOLEAN, kind \in {"revoke", "rotate"}}]
(* A token rotated on one process while the other has rows of both tokens, and a   *)
(* third lookup that finds the cache full.                                         *)
RotateScene == [EditScene EXCEPT !.procs = {P1, P2}, !.tokens = {0, 1}, !.edits = {Edit(FALSE, "rotate", << >>)},
                  !.left = [Quiet EXCEPT !.calls = 3, !.edits = 1]]
UpdateScene == [Base EXCEPT !.days = 1, !.deferred = FALSE, !.left = [Quiet EXCEPT !.calls = 2, !.edits = 1],
                  !.edits = {Edit(TRUE, "update", [max |-> 1]), Edit(FALSE, "update", [acts |-> {"CancelJob"}]),
                             Edit(TRUE, "update", [over |-> 1])}]
GuessScene == [Base EXCEPT !.tokens = {-1}, !.clients = {C1, C2}, !.left = [Quiet EXCEPT !.calls = 4, !.ages = 1]]
WalletScene == [Base EXCEPT !.left = [Quiet EXCEPT !.calls = 1],
                  !.row = [Grant EXCEPT !.acts = {"SubmitWalletJob"}, !.wallet = W1, !.kinds = {"simpleAda"}],
                  !.calls = {[event |-> "SubmitWalletJob", wallet |-> w, kind |-> k] :
                               w \in {NoWallet, W1, W2}, k \in {"simpleAda", "mint"}}]
OffScenes == {[Base EXCEPT !.config = c] : c \in {[On EXCEPT !.enabled = FALSE], [On EXCEPT !.delegate = "custom"]}}
MCScenarios == {BudgetScene, FaultScene, OverlapScene, ShutdownScene, SyncScene, BatchScene, EditScene, RotateScene,
                UpdateScene, GuessScene, WalletScene} \union OffScenes
================================================================================
