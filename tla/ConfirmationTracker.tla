------------------------ MODULE ConfirmationTracker ------------------------
(***************************************************************************)
(* The confirmation tracker of the wallet worker: it watches the           *)
(* transactions of submitted jobs until they are confirmationDepth blocks  *)
(* deep, from two sources that know nothing of each other: the block and   *)
(* reorg events of a crawler in the same process, and polls of a backend.  *)
(*                                                                         *)
(* A step is what JavaScript runs between two awaits; the task that is     *)
(* suspended at an await keeps its local state in `run`.  A backend's      *)
(* answer and the step that uses it are two actions, so an answer may be   *)
(* stale when it is used.                                                  *)
(*                                                                         *)
(* Abstracted: a transaction is its job; a block is the set of jobs it     *)
(* includes and its height is its position; slots order the blocks of one  *)
(* chain as heights do, so the slot of a confirmation point is its height. *)
(* Node and backends agree on one chain, which is only ever replaced by a  *)
(* longer one, and report the height of every transaction they find.       *)
(* WalletWorker models the life of a job up to `submitted`.                *)
(***************************************************************************)
EXTENDS Integers, Sequences

CONSTANTS
  Jobs,                \* submitted jobs, numbered in the order they are tracked
  ConfirmationDepth,   \* confirmationDepth
  ResubmitOnRollback,  \* resubmitOnRollback
  FeedTasks,           \* bound: tasks of block and reorg events suspended at once
  MaxHeight, MaxForks, \* bounds: length of the chain, chain switches
  MaxStops, MaxCrashes, \* bounds: stops, process crashes
  MaxDbFaults          \* bound: database calls that throw

Poll == "poll"
Tasks == FeedTasks \cup {Poll}
NoJob == 0
Heights == 0..MaxHeight   \* 0 is null (no height known)
Unanswered == -1          \* a lookup that failed inconclusively

ASSUME JobsAssumption == Jobs \subseteq Nat \ {0}
ASSUME DepthAssumption == ConfirmationDepth \in Nat \ {0}
ASSUME BoundsAssumption ==
  /\ MaxHeight \in Nat /\ MaxForks \in Nat
  /\ MaxStops \in Nat /\ MaxCrashes \in Nat /\ MaxDbFaults \in Nat
  /\ Poll \notin FeedTasks /\ ResubmitOnRollback \in BOOLEAN

VARIABLES
  chain,     \* the chain of node and backends
  mempool,   \* jobs whose transaction may be included
  status,    \* CardanoWalletJobs.status of the jobs
  point,     \* CardanoWalletJobs.confirmedHeight
  timedOut,  \* jobs submitted more than confirmationTimeoutMs ago
  feed,      \* a crawler runs in this process
  crawled,   \* the chain as the crawler has stored it
  up,        \* the tracker is running
  pending, found, seen, tip,  \* its memory; seen: looked up in the current round
  run,       \* its suspended tasks
  reached,   \* observation: the greatest depth each transaction ever had
  forks, stops, crashes, faults

chainVars == <<chain, mempool, reached, forks>>
rowVars   == <<status, point>>
ends      == <<stops, crashes>>
memory    == <<pending, found, seen, tip>>
vars == <<chainVars, rowVars, timedOut, feed, crawled, up, memory, run, ends, faults>>

Statuses == {"submitted", "confirmed", "failed"}
TaskType ==
  [pc : {"free", "record", "confirm", "drop", "tip", "ask", "told", "recheck", "rechecked",
         "anchor", "clear", "resubmit"},
   via : {"block", "reorg", "poll"},
   job : Jobs \cup {NoJob}, todo : SUBSET Jobs, tip : Heights,
   height : Heights \cup {Unanswered}]
Free == [pc |-> "free", via |-> "poll", job |-> NoJob, todo |-> {}, tip |-> 0, height |-> 0]

\* Rows, memory and suspended tasks hold values of their types.
TypeOK ==
  /\ chain \in Seq(SUBSET Jobs) /\ Len(chain) <= MaxHeight /\ mempool \subseteq Jobs
  /\ status \in [Jobs -> Statuses] /\ point \in [Jobs -> Heights] /\ timedOut \subseteq Jobs
  /\ feed \in BOOLEAN /\ crawled \in Seq(SUBSET Jobs) /\ Len(crawled) <= MaxHeight
  /\ up \in BOOLEAN /\ pending \subseteq Jobs
  /\ found \in [Jobs -> Heights] /\ seen \subseteq Jobs /\ tip \in Heights
  /\ run \in [Tasks -> TaskType]
  /\ reached \in [Jobs -> Heights] /\ forks \in 0..MaxForks
  /\ stops \in 0..MaxStops /\ crashes \in 0..MaxCrashes /\ faults \in 0..MaxDbFaults

Init ==
  /\ chain = <<>> /\ mempool = Jobs
  /\ status = [j \in Jobs |-> "submitted"] /\ point = [j \in Jobs |-> 0] /\ timedOut = {}
  /\ feed \in BOOLEAN /\ crawled = <<>>
  /\ up = TRUE /\ pending = Jobs
  /\ found = [j \in Jobs |-> 0] /\ seen = {} /\ tip = 0
  /\ run = [k \in Tasks |-> Free]
  /\ reached = [j \in Jobs |-> 0] /\ forks = 0 /\ stops = 0 /\ crashes = 0 /\ faults = 0

-----------------------------------------------------------------------------
(* Helpers.                                                                *)

Higher(a, b) == IF a >= b THEN a ELSE b
Lower(a, b)  == IF a <= b THEN a ELSE b
First(j, S)  == j \in S /\ \A k \in S : j <= k

On(c, j)       == \E h \in DOMAIN c : j \in c[h]
HeightOf(c, j) == IF On(c, j) THEN CHOOSE h \in DOMAIN c : j \in c[h] ELSE 0
Depth(c, j)    == IF On(c, j) THEN Len(c) - HeightOf(c, j) + 1 ELSE 0

DbThrows == faults < MaxDbFaults /\ faults' = faults + 1
DbOk     == UNCHANGED faults

Suspend(k, t) == run' = [run EXCEPT ![k] = t]
At(k, pc) == run[k].pc = pc

\* recordConfirmationPoint and clearConfirmationPoint touch submitted rows only.
SetPoint(j, h) == point' = IF status[j] = "submitted" THEN [point EXCEPT ![j] = h] ELSE point

-----------------------------------------------------------------------------
(* The loops, from where an await returns to the next one.                 *)

\* Mutant: the block that includes the transaction is not counted.
DeepEnoughExclusive(t) == {j \in t.todo : found[j] # 0 /\ t.tip - found[j] >= ConfirmationDepth}

\* Jobs still to be judged that were found and are deep enough below the captured tip.
DeepEnough(t) == {j \in t.todo : found[j] # 0 /\ t.tip - found[j] + 1 >= ConfirmationDepth}

\* Mutant: the polling path trusts what an earlier round found.
NeedsRecheckNever(t, j) == FALSE

\* Polling has no reorg signal: an inclusion not seen this round is looked up again.
NeedsRecheck(t, j) == t.via = "poll" /\ j \notin seen

\* confirmMature, from the next job on, with the tip it captured.
Mature(k, t) ==
  \/ (t.tip = 0 \/ DeepEnough(t) = {}) /\ Suspend(k, Free)
  \/ \E j \in DeepEnough(t) :
       /\ t.tip # 0 /\ First(j, DeepEnough(t))
       /\ Suspend(k, [t EXCEPT !.job = j, !.todo = {i \in t.todo : i > j},
                               !.pc = IF NeedsRecheck(t, j) THEN "recheck" ELSE "confirm"])

\* It goes through the jobs pending when it is called.
ConfirmMature(k, via, now, jobs) ==
  Mature(k, [Free EXCEPT !.via = via, !.tip = now, !.todo = jobs])

\* The lookup loop of pollOnce: the next job that is not found, then confirmMature.
LookUp(t, now, jobs) ==
  LET unseen == {j \in t.todo : found[j] = 0}
  IN \/ unseen = {} /\ ConfirmMature(Poll, "poll", now, jobs)
     \/ \E j \in unseen :
          /\ First(j, unseen)
          /\ Suspend(Poll, [t EXCEPT !.pc = "ask", !.job = j, !.todo = {i \in t.todo : i > j}])

\* forgetInclusion up to its first await.
Forget(k, t, j) ==
  /\ found' = [found EXCEPT ![j] = 0] /\ seen' = seen \ {j}
  /\ Suspend(k, [t EXCEPT !.pc = "clear", !.job = j])

\* The loop of onReorg over the live map; t.height is the fork.
Rewatch(k, t) ==
  LET rolledBack == {j \in pending : j > t.job /\ found[j] > t.height}
  IN \/ rolledBack = {} /\ Suspend(k, Free) /\ UNCHANGED <<found, seen>>
     \/ \E j \in rolledBack : First(j, rolledBack) /\ Forget(k, t, j)

-----------------------------------------------------------------------------
(* The crawler's events.  Listeners run inside the crawler's step.         *)

IsPrefix(c, d) == Len(c) <= Len(d) /\ c = SubSeq(d, 1, Len(c))

\* c and d have their first h blocks in common and differ in the next one.
ForkAt(c, d, h) == IsPrefix(SubSeq(c, 1, h), d) /\ ~IsPrefix(SubSeq(c, 1, h + 1), d)

\* A block is stored and onBlockIndexed runs up to its first await.  The source may
\* not report its tip; then the block's height stands for it.
BlockIndexed ==
  LET height == Len(crawled) + 1
      newly  == {j \in pending : found[j] = 0 /\ j \in chain[height]}
  IN /\ feed /\ IsPrefix(crawled, chain) /\ Len(crawled) < Len(chain)
     /\ crawled' = Append(crawled, chain[height])
     /\ IF ~up \/ pending = {} THEN UNCHANGED <<memory, run>>
        ELSE \E k \in FeedTasks :
               /\ At(k, "free")
               /\ tip' \in {Higher(tip, Len(chain)), Higher(tip, height)}
               /\ \/ /\ newly = {}
                     /\ ConfirmMature(k, "block", tip', pending)
                     /\ UNCHANGED found
                  \/ \E j \in newly :
                       /\ First(j, newly)
                       /\ found' = [found EXCEPT ![j] = height]
                       /\ Suspend(k, [Free EXCEPT !.pc = "record", !.via = "block", !.job = j,
                                                  !.todo = newly \ {j}, !.height = height])
               /\ UNCHANGED <<pending, seen>>
     /\ UNCHANGED <<chainVars, rowVars, timedOut, feed, up, ends, faults>>

\* The tip is clamped to the fork.
ClampTip(fork) == Lower(tip, fork)

\* A rollback is stored and onReorg runs up to its first await.  The crawler may
\* not know the height of the fork; then the tip is dropped.
Reorg ==
  /\ feed /\ ~IsPrefix(crawled, chain)
  /\ \E fork \in 0..(Len(crawled) - 1) :
       /\ ForkAt(crawled, chain, fork)
       /\ crawled' = SubSeq(crawled, 1, fork)
       /\ IF ~up THEN UNCHANGED <<memory, run>>
          ELSE \E k \in FeedTasks :
                 /\ At(k, "free")
                 /\ tip' \in {ClampTip(fork), 0}
                 /\ Rewatch(k, [Free EXCEPT !.via = "reorg", !.height = fork])
                 /\ UNCHANGED pending
  /\ UNCHANGED <<chainVars, rowVars, timedOut, feed, up, ends, faults>>

\* The detached tail of onBlockIndexed: store the point, take the next job of the
\* block, and when there is none left confirm what is deep enough.
RecordBlock(k) ==
  LET t == run[k]
  IN /\ At(k, "record") /\ t.via = "block"
     /\ \/ DbOk /\ SetPoint(t.job, t.height)
        \/ DbThrows /\ UNCHANGED point
     /\ \/ /\ t.todo = {}
           /\ ConfirmMature(k, "block", tip, pending)
           /\ UNCHANGED found
        \/ \E j \in t.todo :
             /\ First(j, t.todo)
             /\ found' = [found EXCEPT ![j] = t.height]
             /\ Suspend(k, [t EXCEPT !.job = j, !.todo = @ \ {j}])
     /\ UNCHANGED <<chainVars, status, timedOut, feed, crawled, up, pending, seen, tip, ends>>

-----------------------------------------------------------------------------
(* pollOnce.                                                               *)

\* A round begins; rounds do not overlap.
PollOnce ==
  /\ up /\ pending # {} /\ At(Poll, "free")
  /\ seen' = {}
  /\ Suspend(Poll, [Free EXCEPT !.pc = "tip"])
  /\ UNCHANGED <<chainVars, rowVars, timedOut, feed, crawled, up, pending, found, tip,
                 ends, faults>>

\* getLatestBlock; a failed lookup ends the round.
TipLearned ==
  /\ At(Poll, "tip")
  /\ tip' = Higher(tip, Len(chain))
  /\ LookUp([Free EXCEPT !.todo = pending], tip', pending)
  /\ UNCHANGED <<chainVars, rowVars, timedOut, feed, crawled, up, pending, found, seen,
                 ends, faults>>

TipFailed ==
  /\ At(Poll, "tip")
  /\ Suspend(Poll, Free)
  /\ UNCHANGED <<chainVars, rowVars, timedOut, feed, crawled, up, memory, ends, faults>>

\* getTransaction, in the lookup loop or in stillIncluded: a backend answers with
\* the height, with not found, or fails.
Answer(k) ==
  LET t == run[k]
  IN /\ t.pc \in {"ask", "recheck"}
     /\ \E h \in {HeightOf(chain, t.job), Unanswered} :
          Suspend(k, [t EXCEPT !.height = h, !.pc = IF @ = "ask" THEN "told" ELSE "rechecked"])
     /\ UNCHANGED <<chainVars, rowVars, timedOut, feed, crawled, up, memory, ends, faults>>

\* The lookup loop takes the answer.
PollTold ==
  LET t == run[Poll]
  IN /\ At(Poll, "told")
     /\ \/ /\ t.height > 0
           /\ found' = [found EXCEPT ![t.job] = t.height] /\ seen' = seen \cup {t.job}
           /\ Suspend(Poll, [t EXCEPT !.pc = "record"])
        \/ /\ t.height = 0 /\ t.job \in timedOut
           /\ Suspend(Poll, [t EXCEPT !.pc = "drop"])
           /\ UNCHANGED <<found, seen>>
        \/ /\ t.height = Unanswered \/ (t.height = 0 /\ t.job \notin timedOut)
           /\ LookUp(t, tip, pending)
           /\ UNCHANGED <<found, seen>>
     /\ UNCHANGED <<chainVars, rowVars, timedOut, feed, crawled, up, pending, tip, ends, faults>>

PollRecord ==
  LET t == run[Poll]
  IN /\ At(Poll, "record")
     /\ \/ DbOk /\ SetPoint(t.job, found[t.job])
        \/ DbThrows /\ UNCHANGED point
     /\ LookUp(t, tip, pending)
     /\ UNCHANGED <<chainVars, status, timedOut, feed, crawled, up, memory, ends>>

\* finalize(failed, TX_DROPPED): the job is forgotten once the row is written,
\* whoever wrote it.
Drop ==
  LET t == run[Poll]
  IN /\ At(Poll, "drop")
     /\ \/ /\ DbOk
           /\ status' = [status EXCEPT ![t.job] = IF @ = "submitted" THEN "failed" ELSE @]
           /\ pending' = pending \ {t.job}
        \/ DbThrows /\ UNCHANGED <<status, pending>>
     /\ LookUp(t, tip, pending')
     /\ UNCHANGED <<chainVars, point, timedOut, feed, crawled, up, found, seen, tip, ends>>

-----------------------------------------------------------------------------
(* confirmMature, stillIncluded and forgetInclusion.                       *)

\* Mutant: the job is forgotten although its outcome could not be stored.
ForgottenAlways(j, stored) == pending \ {j}

\* A job whose outcome could not be stored is kept for the next round.
Forgotten(j, stored) == IF stored THEN pending \ {j} ELSE pending

\* finalize(confirmed).
Confirm(k) ==
  LET t == run[k]
  IN /\ At(k, "confirm")
     /\ \/ /\ DbOk /\ pending' = Forgotten(t.job, TRUE)
           /\ status' = [status EXCEPT ![t.job] = IF @ = "submitted" THEN "confirmed" ELSE @]
        \/ DbThrows /\ pending' = Forgotten(t.job, FALSE) /\ UNCHANGED status
     /\ Mature(k, t)
     /\ UNCHANGED <<chainVars, point, timedOut, feed, crawled, up, found, seen, tip, ends>>

\* stillIncluded takes the answer: still there, moved, gone, or no answer.
Rechecked(k) ==
  LET t == run[k]
  IN /\ At(k, "rechecked")
     /\ \/ /\ t.height > 0 /\ t.height = found[t.job]
           /\ seen' = seen \cup {t.job}
           /\ Suspend(k, [t EXCEPT !.pc = "confirm"])
           /\ UNCHANGED <<found, tip>>
        \/ /\ t.height > 0 /\ t.height # found[t.job]
           /\ found' = [found EXCEPT ![t.job] = t.height] /\ seen' = seen \cup {t.job}
           /\ Suspend(k, [t EXCEPT !.pc = "anchor"])
           /\ UNCHANGED tip
        \/ t.height = 0 /\ tip' = 0 /\ Forget(k, t, t.job)
        \/ t.height = Unanswered /\ Mature(k, t) /\ UNCHANGED <<found, seen, tip>>
     /\ UNCHANGED <<chainVars, rowVars, timedOut, feed, crawled, up, pending, ends, faults>>

\* A moved transaction is judged at its new height.
Anchor(k) ==
  LET t == run[k]
  IN /\ At(k, "anchor")
     /\ \/ /\ DbOk /\ SetPoint(t.job, found[t.job])
           /\ IF t.tip - t.height + 1 >= ConfirmationDepth
              THEN Suspend(k, [t EXCEPT !.pc = "confirm"])
              ELSE Mature(k, t)
        \/ DbThrows /\ Mature(k, t) /\ UNCHANGED point
     /\ UNCHANGED <<chainVars, status, timedOut, feed, crawled, up, memory, ends>>

\* What follows forgetInclusion in its caller.
AfterForget(k, t) == IF t.via = "reorg" THEN Rewatch(k, t)
                     ELSE Mature(k, t) /\ UNCHANGED <<found, seen>>

ClearPoint(k) ==
  LET t == run[k]
  IN /\ At(k, "clear")
     /\ \/ DbOk /\ SetPoint(t.job, 0)
        \/ DbThrows /\ UNCHANGED point
     /\ IF ResubmitOnRollback
        THEN Suspend(k, [t EXCEPT !.pc = "resubmit"]) /\ UNCHANGED <<found, seen>>
        ELSE AfterForget(k, t)
     /\ UNCHANGED <<chainVars, status, timedOut, feed, crawled, up, pending, tip, ends>>

\* The same signed bytes are sent again; errors are logged.
Resubmit(k) ==
  LET t == run[k]
  IN /\ At(k, "resubmit")
     /\ mempool' \in {mempool, IF On(chain, t.job) THEN mempool ELSE mempool \cup {t.job}}
     /\ AfterForget(k, t)
     /\ UNCHANGED <<chain, reached, forks, rowVars, timedOut, feed, crawled, up, pending, tip,
                    ends, faults>>

-----------------------------------------------------------------------------
(* Life cycle.  Only the rows survive a crash; the crawl goes on elsewhere. *)

Crash ==
  /\ up /\ crashes < MaxCrashes
  /\ crashes' = crashes + 1 /\ up' = FALSE
  /\ pending' = {} /\ found' = [j \in Jobs |-> 0] /\ seen' = {} /\ tip' = 0
  /\ run' = [k \in Tasks |-> Free]
  /\ UNCHANGED <<chainVars, rowVars, timedOut, feed, crawled, stops, faults>>

\* stop(): the listeners are gone and nothing is watched any more, but tasks that are
\* suspended run to their end.
Stop ==
  /\ up /\ stops < MaxStops
  /\ stops' = stops + 1 /\ up' = FALSE /\ pending' = {}
  /\ UNCHANGED <<chainVars, rowVars, timedOut, feed, crawled, found, seen, tip, run,
                 crashes, faults>>

\* start() of the worker makes a new tracker: every submitted row is tracked from its
\* recorded point.  Assumed: the tasks of a stopped tracker have come to their end.
Start ==
  /\ ~up /\ up' = TRUE
  /\ \A k \in Tasks : At(k, "free")
  /\ seen' = {} /\ tip' = 0
  /\ pending' = {j \in Jobs : status[j] = "submitted"}
  /\ found' = [j \in Jobs |-> IF status[j] = "submitted" THEN point[j] ELSE 0]
  /\ UNCHANGED <<chainVars, rowVars, timedOut, feed, crawled, run, ends, faults>>

-----------------------------------------------------------------------------
(* The chain (external).                                                   *)

Extend(c) ==
  /\ chain' = c
  /\ reached' = [j \in Jobs |-> Higher(reached[j], Depth(c, j))]

MintBlock ==
  /\ Len(chain) < MaxHeight
  /\ \E S \in SUBSET mempool : Extend(Append(chain, S)) /\ mempool' = mempool \ S
  /\ UNCHANGED <<forks, rowVars, timedOut, feed, crawled, up, memory, run, ends, faults>>

\* The node adopts a longer chain that leaves the old one after height h.  Its
\* transactions are included again in one block of it, are back in the mempool, or lost.
SwitchChain ==
  /\ Len(chain) < MaxHeight /\ forks < MaxForks /\ forks' = forks + 1
  /\ \E h \in 0..(Len(chain) - 1) :
       LET rolledBack == {j \in Jobs : HeightOf(chain, j) > h}
       IN \E S \in SUBSET (mempool \cup rolledBack), at \in (h + 1)..(Len(chain) + 1) :
            /\ Extend([i \in 1..(Len(chain) + 1) |->
                         IF i <= h THEN chain[i] ELSE IF i = at THEN S ELSE {}])
            /\ \E lost \in SUBSET rolledBack : mempool' = ((mempool \cup rolledBack) \ S) \ lost
  /\ UNCHANGED <<rowVars, timedOut, feed, crawled, up, memory, run, ends, faults>>

\* confirmationTimeoutMs after submittedAt.
Timeout(j) ==
  /\ j \notin timedOut /\ timedOut' = timedOut \cup {j}
  /\ UNCHANGED <<chainVars, rowVars, feed, crawled, up, memory, run, ends, faults>>

-----------------------------------------------------------------------------
PollStep == TipLearned \/ TipFailed \/ PollTold \/ PollRecord \/ Drop
TaskStep(k) == \/ Answer(k) \/ Confirm(k) \/ Rechecked(k) \/ Anchor(k)
               \/ ClearPoint(k) \/ Resubmit(k) \/ RecordBlock(k)

Next == \/ BlockIndexed \/ Reorg
        \/ PollOnce \/ PollStep
        \/ \E k \in Tasks : TaskStep(k)
        \/ Crash \/ Stop \/ Start
        \/ MintBlock \/ SwitchChain
        \/ \E j \in Jobs : Timeout(j)

Spec == Init /\ [][Next]_vars

\* Timers fire, awaits return, a process that went down is started again, and
\* lookups that are repeated for ever are answered some time.
Fairness ==
  /\ WF_vars(Start) /\ WF_vars(PollOnce)
  /\ SF_vars(TipLearned)
  /\ WF_vars(PollStep) /\ \A k \in Tasks : WF_vars(TaskStep(k))
  /\ \A k \in Tasks : SF_vars(Answer(k) /\ run'[k].height # Unanswered)

FairSpec == Spec /\ Fairness

-----------------------------------------------------------------------------
(* Properties.                                                             *)

\* Without a crawler in the process, a job is confirmed only if its transaction
\* has been confirmationDepth blocks deep, whatever forks, restarts, failed
\* writes and stale answers came in between: polling re-validates.
PollingConfirmsAtDepth ==
  ~feed => \A j \in Jobs : status[j] = "confirmed" => reached[j] >= ConfirmationDepth

\* No submitted job is forgotten while the tracker runs: a job leaves `pending`
\* only when its outcome is stored.
NothingForgotten ==
  up => \A j \in Jobs : status[j] = "submitted" => j \in pending

\* A transaction that is deep enough and stays so gets its verdict.
DeepIsConfirmed ==
  \A j \in Jobs : status[j] = "submitted" /\ Depth(chain, j) >= ConfirmationDepth
                    ~> status[j] # "submitted" \/ Depth(chain, j) < ConfirmationDepth

=============================================================================
