--------------------------- MODULE TrackerProofs ---------------------------
(***************************************************************************)
(* Proofs about ConfirmationTracker: types, that no submitted job is       *)
(* forgotten, and that a tracker that only polls confirms no transaction   *)
(* that has not been confirmationDepth blocks deep.                        *)
(***************************************************************************)
EXTENDS ConfirmationTracker, TLAPS

-----------------------------------------------------------------------------
(* Types.                                                                  *)

\* A suspended task is about a job, and one that stores a point knows the height.
TaskShape(t) ==
  /\ t.pc \in {"record", "anchor", "clear", "resubmit"} => t.height \in Heights
  /\ t.pc \notin {"free", "tip"} => t.job \in Jobs

RunOK == run \in [Tasks -> TaskType] /\ \A k \in Tasks : TaskShape(run[k])
Typed == TypeOK /\ RunOK

\* The local state r in which confirmMature's loop leaves a task that entered it with t.
Matured(t, r) ==
  \/ r = Free
  \/ /\ r \in TaskType /\ r.pc \in {"recheck", "confirm"}
     /\ r.job \in t.todo /\ r.via = t.via /\ r.tip = t.tip
     /\ found[r.job] # 0 /\ t.tip - found[r.job] + 1 >= ConfirmationDepth
     /\ r.pc = "confirm" => t.via # "poll" \/ r.job \in seen

\* The same for the lookup loop of pollOnce.
LookedUp(t, now, jobs, r) ==
  \/ Matured([Free EXCEPT !.via = "poll", !.tip = now, !.todo = jobs], r)
  \/ r \in TaskType /\ r.pc = "ask" /\ r.job \in t.todo /\ r.via = t.via /\ r.tip = t.tip

\* The local state of a finished task is well typed.
LEMMA FreeTyped == Free \in TaskType /\ TaskShape(Free)
  BY BoundsAssumption DEF Free, TaskType, TaskShape, Heights, NoJob

\* confirmMature ends, or goes on with a job that is deep enough below the captured
\* tip; a polling round confirms without another lookup only what it has seen.
LEMMA MatureStep ==
  ASSUME NEW k, NEW t \in TaskType, Mature(k, t)
  PROVE  \E r : run' = [run EXCEPT ![k] = r] /\ Matured(t, r)
<1>1. CASE Suspend(k, Free)
  BY <1>1 DEF Suspend, Matured
<1>2. CASE ~Suspend(k, Free)
  <2>1. PICK j \in DeepEnough(t) :
          Suspend(k, [t EXCEPT !.job = j, !.todo = {i \in t.todo : i > j},
                               !.pc = IF NeedsRecheck(t, j) THEN "recheck" ELSE "confirm"])
    BY <1>2 DEF Mature
  <2> DEFINE r == [t EXCEPT !.job = j, !.todo = {i \in t.todo : i > j},
                            !.pc = IF NeedsRecheck(t, j) THEN "recheck" ELSE "confirm"]
  <2>2. j \in t.todo /\ j \in Jobs
    BY <2>1 DEF DeepEnough, TaskType
  <2>3. r \in TaskType /\ r.job = j /\ r.via = t.via /\ r.tip = t.tip
        /\ r.pc = IF NeedsRecheck(t, j) THEN "recheck" ELSE "confirm"
    BY <2>2 DEF TaskType
  <2>4. Matured(t, r)
    BY <2>1, <2>2, <2>3 DEF Matured, DeepEnough, NeedsRecheck
  <2> QED
    BY <2>1, <2>4 DEF Suspend
<1> QED
  BY <1>1, <1>2

\* The local state with which confirmMature begins.
LEMMA BeginMature ==
  ASSUME NEW via \in {"block", "reorg", "poll"}, NEW now \in Heights, NEW jobs \in SUBSET Jobs
  PROVE  LET t == [Free EXCEPT !.via = via, !.tip = now, !.todo = jobs]
         IN t \in TaskType /\ t.via = via /\ t.tip = now /\ t.todo = jobs /\ t.pc = "free"
<1>1. Free \in TaskType /\ Free.pc = "free"
  BY FreeTyped DEF Free
<1> QED
  BY <1>1 DEF TaskType

\* The lookup loop asks for the next job, or goes on as confirmMature does.
LEMMA LookUpStep ==
  ASSUME NEW t \in TaskType, NEW now \in Heights, NEW jobs \in SUBSET Jobs,
         LookUp(t, now, jobs)
  PROVE  \E r : run' = [run EXCEPT ![Poll] = r] /\ LookedUp(t, now, jobs, r)
<1>1. CASE ConfirmMature(Poll, "poll", now, jobs)
  <2> DEFINE u == [Free EXCEPT !.via = "poll", !.tip = now, !.todo = jobs]
  <2>1. u \in TaskType
    BY BeginMature
  <2>2. Mature(Poll, u)
    BY <1>1 DEF ConfirmMature
  <2>3. \E r : run' = [run EXCEPT ![Poll] = r] /\ Matured(u, r)
    <3> HIDE DEF u
    <3> QED  BY <2>1, <2>2, MatureStep
  <2> QED
    BY <2>3 DEF LookedUp
<1>2. CASE ~ConfirmMature(Poll, "poll", now, jobs)
  <2>1. PICK j \in t.todo :
          Suspend(Poll, [t EXCEPT !.pc = "ask", !.job = j, !.todo = {i \in t.todo : i > j}])
    BY <1>2 DEF LookUp
  <2> DEFINE r == [t EXCEPT !.pc = "ask", !.job = j, !.todo = {i \in t.todo : i > j}]
  <2>2. r \in TaskType /\ r.pc = "ask" /\ r.job = j /\ r.via = t.via /\ r.tip = t.tip
    BY DEF TaskType
  <2> QED
    BY <2>1, <2>2 DEF Suspend, LookedUp
<1> QED
  BY <1>1, <1>2

\* The tasks stay well typed when one of them changes to a well typed local state.
LEMMA RunStep ==
  ASSUME Typed, NEW k \in Tasks, NEW r \in TaskType, TaskShape(r),
         run' = [run EXCEPT ![k] = r]
  PROVE  RunOK'
  BY DEF Typed, RunOK

\* confirmMature's loop keeps the tasks well typed.
LEMMA MatureTyped ==
  ASSUME Typed, NEW k \in Tasks, NEW t \in TaskType, Mature(k, t)
  PROVE  RunOK'
<1>1. PICK r : run' = [run EXCEPT ![k] = r] /\ Matured(t, r)
  BY MatureStep
<1>2. r \in TaskType /\ TaskShape(r)
  BY <1>1, FreeTyped DEF Matured, TaskShape, TaskType
<1> QED
  BY <1>1, <1>2, RunStep

\* So does the call of confirmMature.
LEMMA ConfirmMatureTyped ==
  ASSUME Typed, NEW k \in Tasks, NEW via \in {"block", "reorg", "poll"},
         NEW now \in Heights, NEW jobs \in SUBSET Jobs, ConfirmMature(k, via, now, jobs)
  PROVE  RunOK'
<1> DEFINE t == [Free EXCEPT !.via = via, !.tip = now, !.todo = jobs]
<1>1. t \in TaskType /\ Mature(k, t)
  BY BeginMature DEF ConfirmMature
<1> HIDE DEF t
<1> QED
  BY <1>1, MatureTyped

\* So does the lookup loop of pollOnce.
LEMMA LookUpTyped ==
  ASSUME Typed, NEW t \in TaskType, NEW now \in Heights, NEW jobs \in SUBSET Jobs,
         LookUp(t, now, jobs)
  PROVE  RunOK'
<1>1. PICK r : run' = [run EXCEPT ![Poll] = r] /\ LookedUp(t, now, jobs, r)
  BY LookUpStep
<1> DEFINE u == [Free EXCEPT !.via = "poll", !.tip = now, !.todo = jobs]
<1>2. u \in TaskType
  BY BeginMature
<1>3. r \in TaskType /\ TaskShape(r)
  <2>1. CASE Matured(u, r)
    <3> HIDE DEF u
    <3> QED  BY <1>2, <2>1, FreeTyped DEF Matured, TaskShape, TaskType
  <2>2. CASE r \in TaskType /\ r.pc = "ask" /\ r.job \in t.todo
    BY <2>2 DEF TaskShape, TaskType
  <2> QED
    BY <1>1, <2>1, <2>2 DEF LookedUp
<1> QED
  BY <1>1, <1>3, RunStep DEF Tasks

\* onReorg's loop keeps the types of tasks and memory.
LEMMA RewatchTyped ==
  ASSUME Typed, NEW k \in Tasks, NEW t \in TaskType, t.height \in Heights, Rewatch(k, t)
  PROVE  RunOK' /\ found' \in [Jobs -> Heights] /\ seen' \in SUBSET Jobs
<1>1. CASE Suspend(k, Free) /\ UNCHANGED <<found, seen>>
  BY <1>1, RunStep, FreeTyped DEF Suspend, Typed, TypeOK
<1>2. CASE \E j \in pending : Forget(k, t, j)
  <2>1. PICK j \in pending : Forget(k, t, j)
    BY <1>2
  <2> DEFINE r == [t EXCEPT !.pc = "clear", !.job = j]
  <2>2. j \in Jobs
    BY DEF Typed, TypeOK
  <2>3. r \in TaskType /\ TaskShape(r)
    BY <2>2 DEF TaskType, TaskShape
  <2>4. run' = [run EXCEPT ![k] = r]
    BY <2>1 DEF Forget, Suspend
  <2>5. RunOK'
    BY <2>3, <2>4, RunStep
  <2>6. found' \in [Jobs -> Heights] /\ seen' \in SUBSET Jobs
    BY <2>1, BoundsAssumption, SMTT(60) DEF Forget, Typed, TypeOK, Heights
  <2> QED
    BY <2>5, <2>6
<1> QED
  BY <1>1, <1>2 DEF Rewatch

\* Heights and depths of the transactions of a chain.
LEMMA DepthTyped ==
  ASSUME NEW c \in Seq(SUBSET Jobs), Len(c) <= MaxHeight, NEW j
  PROVE  /\ HeightOf(c, j) \in Heights /\ HeightOf(c, j) <= Len(c)
         /\ Depth(c, j) \in Heights
         /\ HeightOf(c, j) > 0 => Depth(c, j) = Len(c) - HeightOf(c, j) + 1
<1>1. CASE On(c, j)
  <2>1. HeightOf(c, j) \in 1..Len(c)
    BY <1>1 DEF On, HeightOf
  <2> QED
    BY <1>1, <2>1, BoundsAssumption DEF Depth, Heights
<1>2. CASE ~On(c, j)
  BY <1>2, BoundsAssumption DEF HeightOf, Depth, Heights
<1> QED
  BY <1>1, <1>2

\* The initial states are well typed.
LEMMA TypedInit ==
  ASSUME Init
  PROVE  Typed
<1>1. RunOK
  BY FreeTyped DEF Init, RunOK
<1>2. TypeOK
  BY <1>1, BoundsAssumption DEF Init, RunOK, TypeOK, Heights, Statuses
<1> QED
  BY <1>1, <1>2 DEF Typed

\* Every step keeps the types.
LEMMA TypedStep ==
  ASSUME Typed, [Next]_vars
  PROVE  Typed'
<1> USE DEF chainVars, rowVars, memory, ends
<1>a. /\ TypeOK /\ RunOK /\ Poll \in Tasks /\ FeedTasks \subseteq Tasks
      /\ run \in [Tasks -> TaskType] /\ pending \in SUBSET Jobs /\ tip \in Heights
      /\ Len(chain) \in Heights /\ Len(crawled) \in Heights /\ 0 \in Heights
  BY BoundsAssumption DEF Typed, TypeOK, Tasks, Heights
<1>b. \A k \in Tasks : run[k] \in TaskType /\ TaskShape(run[k])
  BY <1>a DEF RunOK
<1>c. \A x, y \in Heights : Higher(x, y) \in Heights /\ Lower(x, y) \in Heights
  BY DEF Higher, Lower
<1>1. CASE BlockIndexed
  <2>1. Len(crawled) + 1 \in Heights /\ crawled' \in Seq(SUBSET Jobs)
        /\ Len(crawled') <= MaxHeight
    <3>a. Len(crawled) < Len(chain)
      BY <1>1 DEF BlockIndexed
    <3>1. Len(crawled) \in Nat /\ Len(chain) \in Nat /\ Len(chain) <= MaxHeight
          /\ Len(crawled) < Len(chain)
      BY <1>a, <3>a DEF TypeOK
    <3>2. chain[Len(crawled) + 1] \in SUBSET Jobs
      BY <3>1, <1>a DEF TypeOK
    <3>3. crawled' = Append(crawled, chain[Len(crawled) + 1])
      BY <1>1 DEF BlockIndexed
    <3>4. crawled' \in Seq(SUBSET Jobs) /\ Len(crawled') = Len(crawled) + 1
      BY <3>2, <3>3, <1>a DEF TypeOK
    <3> QED
      BY <3>1, <3>4, BoundsAssumption DEF Heights
  <2>2. CASE UNCHANGED <<memory, run>>
    BY <1>1, <1>a, <2>1, <2>2 DEF BlockIndexed, Typed, TypeOK, RunOK
  <2>3. CASE up /\ pending # {}
    <3> DEFINE height == Len(crawled) + 1
               newly  == {j \in pending : found[j] = 0 /\ j \in chain[height]}
    <3>1. PICK k \in FeedTasks :
            /\ tip' \in {Higher(tip, Len(chain)), Higher(tip, height)}
            /\ \/ newly = {} /\ ConfirmMature(k, "block", tip', pending) /\ UNCHANGED found
               \/ \E j \in newly :
                    /\ found' = [found EXCEPT ![j] = height]
                    /\ Suspend(k, [Free EXCEPT !.pc = "record", !.via = "block", !.job = j,
                                               !.todo = newly \ {j}, !.height = height])
            /\ UNCHANGED <<pending, seen>>
      BY <1>1, <2>3 DEF BlockIndexed
    <3>2. tip' \in Heights
      <4>1. Higher(tip, Len(chain)) \in Heights /\ Higher(tip, Len(crawled) + 1) \in Heights
        BY <2>1, <1>a, <1>c
      <4> QED
        BY <3>1, <4>1
    <3>3. RunOK' /\ found' \in [Jobs -> Heights]
      <4>1. CASE ConfirmMature(k, "block", tip', pending) /\ UNCHANGED found
        BY <4>1, <3>2, <1>a, ConfirmMatureTyped DEF TypeOK
      <4>2. CASE \E j \in newly :
                    /\ found' = [found EXCEPT ![j] = height]
                    /\ Suspend(k, [Free EXCEPT !.pc = "record", !.via = "block", !.job = j,
                                               !.todo = newly \ {j}, !.height = height])
        <5>1. PICK j \in newly :
                    /\ found' = [found EXCEPT ![j] = height]
                    /\ Suspend(k, [Free EXCEPT !.pc = "record", !.via = "block", !.job = j,
                                               !.todo = newly \ {j}, !.height = height])
          BY <4>2
        <5> DEFINE r == [Free EXCEPT !.pc = "record", !.via = "block", !.job = j,
                                     !.todo = newly \ {j}, !.height = height]
        <5>2. j \in Jobs /\ newly \ {j} \in SUBSET Jobs
          BY <1>a
        <5> HIDE DEF newly, height
        <5>3. r \in TaskType /\ TaskShape(r)
          BY <5>2, <2>1, FreeTyped DEF TaskType, TaskShape, height
        <5>4. found' \in [Jobs -> Heights]
          BY <5>1, <2>1, <1>a DEF TypeOK, height
        <5> QED
          BY <5>1, <5>3, <5>4, <1>a, RunStep DEF Suspend
      <4> QED
        BY <3>1, <4>1, <4>2
    <3>4. TypeOK'
      BY <1>1, <1>a, <2>1, <3>1, <3>2, <3>3 DEF BlockIndexed, TypeOK, RunOK
    <3> QED
      BY <3>3, <3>4 DEF Typed
  <2> QED
    BY <1>1, <2>2, <2>3 DEF BlockIndexed
<1>2. CASE Reorg
  <2>1. PICK fork \in 0..(Len(crawled) - 1) :
          /\ crawled' = SubSeq(crawled, 1, fork)
          /\ IF ~up THEN UNCHANGED <<memory, run>>
             ELSE \E k \in FeedTasks :
                    /\ At(k, "free")
                    /\ tip' \in {ClampTip(fork), 0}
                    /\ Rewatch(k, [Free EXCEPT !.via = "reorg", !.height = fork])
                    /\ UNCHANGED pending
    BY <1>2 DEF Reorg
  <2>2. fork \in Heights /\ crawled' \in Seq(SUBSET Jobs) /\ Len(crawled') <= MaxHeight
    BY <2>1, <1>a, BoundsAssumption, SMTT(60) DEF TypeOK, Heights
  <2>3. CASE UNCHANGED <<memory, run>>
    BY <1>2, <1>a, <2>2, <2>3 DEF Reorg, Typed, TypeOK, RunOK
  <2>4. CASE up
    <3>1. PICK k \in FeedTasks : /\ tip' \in {ClampTip(fork), 0}
                                 /\ Rewatch(k, [Free EXCEPT !.via = "reorg", !.height = fork])
                                 /\ UNCHANGED pending
      BY <2>1, <2>4
    <3> DEFINE t == [Free EXCEPT !.via = "reorg", !.height = fork]
    <3>2. t \in TaskType /\ t.height \in Heights
      BY <2>2, FreeTyped DEF TaskType
    <3>3. tip' \in Heights
      BY <3>1, <2>2, <1>a, <1>c DEF ClampTip
    <3>4. RunOK' /\ found' \in [Jobs -> Heights] /\ seen' \in SUBSET Jobs
      <4> HIDE DEF t
      <4>1. Rewatch(k, t)
        BY <3>1 DEF t
      <4> QED
        BY <4>1, <3>2, <1>a, RewatchTyped
    <3>5. TypeOK'
      BY <1>2, <1>a, <2>2, <3>1, <3>3, <3>4 DEF Reorg, TypeOK, RunOK
    <3> QED
      BY <3>4, <3>5 DEF Typed
  <2> QED
    BY <2>1, <2>3, <2>4
<1>3. CASE PollOnce
  <2> DEFINE r == [Free EXCEPT !.pc = "tip"]
  <2>1. r \in TaskType /\ TaskShape(r)
    BY FreeTyped DEF TaskType, TaskShape
  <2>2. RunOK'
    BY <1>3, <1>a, <2>1, RunStep DEF PollOnce, Suspend
  <2>3. TypeOK'
    BY <1>3, <1>a, <2>2 DEF PollOnce, TypeOK, RunOK
  <2> QED
    BY <2>2, <2>3 DEF Typed
<1>4. CASE TipLearned
  <2> DEFINE t == [Free EXCEPT !.todo = pending]
  <2>1. t \in TaskType
    BY <1>a, FreeTyped DEF TaskType
  <2>2. tip' \in Heights
    BY <1>4, <1>a, <1>c DEF TipLearned
  <2>3. RunOK'
    <3> HIDE DEF t
    <3>1. LookUp(t, tip', pending)
      BY <1>4 DEF TipLearned, t
    <3> QED
      BY <1>a, <2>1, <2>2, <3>1, LookUpTyped
  <2>4. TypeOK'
    BY <1>4, <1>a, <2>2, <2>3 DEF TipLearned, TypeOK, RunOK
  <2> QED
    BY <2>3, <2>4 DEF Typed
<1>5. CASE TipFailed
  <2>1. RunOK'
    BY <1>5, <1>a, FreeTyped, RunStep DEF TipFailed, Suspend
  <2>2. TypeOK'
    BY <1>5, <1>a, <2>1 DEF TipFailed, TypeOK, RunOK
  <2> QED
    BY <2>1, <2>2 DEF Typed
<1>6. CASE PollTold
  <2> DEFINE t == run[Poll]
  <2>1. t \in TaskType /\ t.job \in Jobs
    BY <1>6, <1>a, <1>b DEF PollTold, At, TaskShape
  <2>2. RunOK' /\ found' \in [Jobs -> Heights] /\ seen' \in SUBSET Jobs
    <3>1. CASE /\ t.height > 0
               /\ found' = [found EXCEPT ![t.job] = t.height] /\ seen' = seen \cup {t.job}
               /\ Suspend(Poll, [t EXCEPT !.pc = "record"])
      <4> DEFINE r == [t EXCEPT !.pc = "record"]
      <4>1. t.height \in Heights
        BY <2>1, <3>1 DEF TaskType, Unanswered
      <4>2. r \in TaskType /\ TaskShape(r)
        BY <2>1, <4>1 DEF TaskType, TaskShape
      <4> QED
        BY <1>a, <2>1, <3>1, <4>1, <4>2, RunStep DEF Suspend, TypeOK
    <3>2. CASE Suspend(Poll, [t EXCEPT !.pc = "drop"]) /\ UNCHANGED <<found, seen>>
      <4> DEFINE r == [t EXCEPT !.pc = "drop"]
      <4>1. r \in TaskType /\ TaskShape(r)
        BY <2>1 DEF TaskType, TaskShape
      <4> QED
        BY <1>a, <3>2, <4>1, RunStep DEF Suspend, TypeOK
    <3>3. CASE LookUp(t, tip, pending) /\ UNCHANGED <<found, seen>>
      BY <1>a, <2>1, <3>3, LookUpTyped DEF TypeOK
    <3> QED
      BY <1>6, <3>1, <3>2, <3>3 DEF PollTold
  <2>3. TypeOK'
    BY <1>6, <1>a, <2>2 DEF PollTold, TypeOK, RunOK
  <2> QED
    BY <2>2, <2>3 DEF Typed
<1>7. CASE PollRecord
  <2>1. RunOK'
    BY <1>7, <1>a, <1>b, LookUpTyped DEF PollRecord
  <2>2. point' \in [Jobs -> Heights] /\ faults' \in 0..MaxDbFaults
    BY <1>7, <1>a, <1>b, BoundsAssumption
       DEF PollRecord, SetPoint, DbOk, DbThrows, TypeOK, TaskShape, At
  <2>3. TypeOK'
    BY <1>7, <1>a, <2>1, <2>2 DEF PollRecord, TypeOK, RunOK
  <2> QED
    BY <2>1, <2>3 DEF Typed
<1>8. CASE Drop
  <2>1. pending' \in SUBSET Jobs /\ status' \in [Jobs -> Statuses] /\ faults' \in 0..MaxDbFaults
    BY <1>8, <1>a, BoundsAssumption DEF Drop, DbOk, DbThrows, TypeOK, Statuses
  <2>2. RunOK'
    BY <1>8, <1>a, <1>b, <2>1, LookUpTyped DEF Drop
  <2>3. TypeOK'
    BY <1>8, <1>a, <2>1, <2>2 DEF Drop, TypeOK, RunOK
  <2> QED
    BY <2>2, <2>3 DEF Typed
<1>9. ASSUME NEW k \in Tasks, Answer(k)
      PROVE  Typed'
  <2> DEFINE t == run[k]
  <2>1. PICK h \in {HeightOf(chain, t.job), Unanswered} :
          Suspend(k, [t EXCEPT !.height = h, !.pc = IF @ = "ask" THEN "told" ELSE "rechecked"])
    BY <1>9 DEF Answer
  <2> DEFINE r == [t EXCEPT !.height = h, !.pc = IF @ = "ask" THEN "told" ELSE "rechecked"]
  <2>2. h \in Heights \cup {Unanswered} /\ t \in TaskType /\ t.job \in Jobs
    BY <1>9, <1>a, <1>b, <2>1, DepthTyped DEF Answer, TaskShape, TypeOK
  <2>3. r \in TaskType /\ TaskShape(r)
    BY <2>2, ZenonT(80) DEF TaskType, TaskShape
  <2>4. RunOK'
    BY <2>1, <2>3, RunStep DEF Suspend
  <2>5. TypeOK'
    BY <1>9, <1>a, <2>4 DEF Answer, TypeOK, RunOK
  <2> QED
    BY <2>4, <2>5 DEF Typed
<1>10. ASSUME NEW k \in Tasks, Confirm(k)
       PROVE  Typed'
  <2>1. RunOK'
    BY <1>10, <1>b, MatureTyped DEF Confirm
  <2>2. pending' \in SUBSET Jobs /\ status' \in [Jobs -> Statuses] /\ faults' \in 0..MaxDbFaults
    BY <1>10, <1>a, BoundsAssumption DEF Confirm, Forgotten, DbOk, DbThrows, TypeOK, Statuses
  <2>3. TypeOK'
    BY <1>10, <1>a, <2>1, <2>2 DEF Confirm, TypeOK, RunOK
  <2> QED
    BY <2>1, <2>3 DEF Typed
<1>11. ASSUME NEW k \in Tasks, Rechecked(k)
       PROVE  Typed'
  <2> DEFINE t == run[k]
  <2>1. t \in TaskType /\ t.job \in Jobs
    BY <1>11, <1>b DEF Rechecked, At, TaskShape
  <2>2. RunOK' /\ found' \in [Jobs -> Heights] /\ seen' \in SUBSET Jobs /\ tip' \in Heights
    <3>1. CASE /\ seen' = seen \cup {t.job}
               /\ Suspend(k, [t EXCEPT !.pc = "confirm"]) /\ UNCHANGED <<found, tip>>
      <4> DEFINE r == [t EXCEPT !.pc = "confirm"]
      <4>1. r \in TaskType /\ TaskShape(r)
        BY <2>1 DEF TaskType, TaskShape
      <4> QED
        BY <1>a, <2>1, <3>1, <4>1, RunStep DEF Suspend, TypeOK
    <3>2. CASE /\ t.height > 0
               /\ found' = [found EXCEPT ![t.job] = t.height] /\ seen' = seen \cup {t.job}
               /\ Suspend(k, [t EXCEPT !.pc = "anchor"]) /\ UNCHANGED tip
      <4> DEFINE r == [t EXCEPT !.pc = "anchor"]
      <4>1. t.height \in Heights
        BY <2>1, <3>2 DEF TaskType, Unanswered
      <4>2. r \in TaskType /\ TaskShape(r)
        BY <2>1, <4>1 DEF TaskType, TaskShape
      <4> QED
        BY <1>a, <2>1, <3>2, <4>1, <4>2, RunStep DEF Suspend, TypeOK
    <3>3. CASE t.height = 0 /\ tip' = 0 /\ Forget(k, t, t.job)
      <4> DEFINE r == [t EXCEPT !.pc = "clear", !.job = t.job]
      <4>1. r \in TaskType /\ TaskShape(r)
        BY <1>a, <2>1, <3>3 DEF TaskType, TaskShape
      <4> QED
        BY <1>a, <2>1, <3>3, <4>1, RunStep DEF Forget, Suspend, TypeOK
    <3>4. CASE Mature(k, t) /\ UNCHANGED <<found, seen, tip>>
      BY <1>a, <2>1, <3>4, MatureTyped DEF TypeOK
    <3> QED
      BY <1>11, <3>1, <3>2, <3>3, <3>4 DEF Rechecked
  <2>3. TypeOK'
    BY <1>11, <1>a, <2>2 DEF Rechecked, TypeOK, RunOK
  <2> QED
    BY <2>2, <2>3 DEF Typed
<1>12. ASSUME NEW k \in Tasks, Anchor(k)
       PROVE  Typed'
  <2> DEFINE t == run[k]
  <2>1. t \in TaskType /\ t.job \in Jobs
    BY <1>12, <1>b DEF Anchor, At, TaskShape
  <2>2. RunOK'
    <3>1. CASE Suspend(k, [t EXCEPT !.pc = "confirm"])
      <4> DEFINE r == [t EXCEPT !.pc = "confirm"]
      <4>1. r \in TaskType /\ TaskShape(r)
        BY <2>1 DEF TaskType, TaskShape
      <4> QED
        BY <3>1, <4>1, RunStep DEF Suspend
    <3>2. CASE Mature(k, t)
      BY <2>1, <3>2, MatureTyped
    <3> QED
      BY <1>12, <3>1, <3>2 DEF Anchor
  <2>3. point' \in [Jobs -> Heights] /\ faults' \in 0..MaxDbFaults
    <3>1. SetPoint(t.job, found[t.job]) \/ UNCHANGED point
      BY <1>12 DEF Anchor
    <3>2. DbOk \/ DbThrows
      BY <1>12 DEF Anchor
    <3> QED
      BY <3>1, <3>2, <1>a, <2>1, BoundsAssumption DEF SetPoint, DbOk, DbThrows, TypeOK
  <2>4. TypeOK'
    BY <1>12, <1>a, <2>2, <2>3 DEF Anchor, TypeOK, RunOK
  <2> QED
    BY <2>2, <2>4 DEF Typed
<1>d. ASSUME NEW k \in Tasks, run[k].height \in Heights, AfterForget(k, run[k])
      PROVE  RunOK' /\ found' \in [Jobs -> Heights] /\ seen' \in SUBSET Jobs
  BY <1>a, <1>b, <1>d, RewatchTyped, MatureTyped DEF AfterForget, TypeOK
<1>13. ASSUME NEW k \in Tasks, ClearPoint(k)
       PROVE  Typed'
  <2> DEFINE t == run[k]
  <2>1. t \in TaskType /\ t.job \in Jobs /\ t.height \in Heights
    BY <1>13, <1>b DEF ClearPoint, At, TaskShape
  <2>2. RunOK' /\ found' \in [Jobs -> Heights] /\ seen' \in SUBSET Jobs
    <3>1. CASE Suspend(k, [t EXCEPT !.pc = "resubmit"]) /\ UNCHANGED <<found, seen>>
      <4> DEFINE r == [t EXCEPT !.pc = "resubmit"]
      <4>1. r \in TaskType /\ TaskShape(r)
        BY <2>1 DEF TaskType, TaskShape
      <4> QED
        BY <1>a, <3>1, <4>1, RunStep DEF Suspend, TypeOK
    <3>2. CASE AfterForget(k, t)
      BY <2>1, <3>2, <1>d
    <3> QED
      BY <1>13, <3>1, <3>2 DEF ClearPoint
  <2>3. point' \in [Jobs -> Heights] /\ faults' \in 0..MaxDbFaults
    <3>1. SetPoint(t.job, 0) \/ UNCHANGED point
      BY <1>13 DEF ClearPoint
    <3>2. DbOk \/ DbThrows
      BY <1>13 DEF ClearPoint
    <3> QED
      BY <3>1, <3>2, <1>a, <2>1, BoundsAssumption DEF SetPoint, DbOk, DbThrows, TypeOK
  <2>4. TypeOK'
    BY <1>13, <1>a, <2>2, <2>3 DEF ClearPoint, TypeOK, RunOK
  <2> QED
    BY <2>2, <2>4 DEF Typed
<1>14. ASSUME NEW k \in Tasks, Resubmit(k)
       PROVE  Typed'
  <2>1. run[k].job \in Jobs /\ run[k].height \in Heights
    BY <1>14, <1>b DEF Resubmit, At, TaskShape
  <2>2. RunOK' /\ found' \in [Jobs -> Heights] /\ seen' \in SUBSET Jobs
    BY <1>14, <2>1, <1>d DEF Resubmit
  <2>3. mempool' \in SUBSET Jobs
    BY <1>14, <1>a, <2>1 DEF Resubmit, TypeOK
  <2>4. TypeOK'
    BY <1>14, <1>a, <2>2, <2>3 DEF Resubmit, TypeOK, RunOK
  <2> QED
    BY <2>2, <2>4 DEF Typed
<1>15. ASSUME NEW k \in Tasks, RecordBlock(k)
       PROVE  Typed'
  <2> DEFINE t == run[k]
  <2>1. t \in TaskType /\ t.job \in Jobs /\ t.height \in Heights
    BY <1>15, <1>b DEF RecordBlock, At, TaskShape
  <2>2. RunOK' /\ found' \in [Jobs -> Heights]
    <3>1. CASE ConfirmMature(k, "block", tip, pending) /\ UNCHANGED found
      BY <1>a, <3>1, ConfirmMatureTyped DEF TypeOK
    <3>2. CASE \E j \in t.todo :
                 /\ found' = [found EXCEPT ![j] = t.height]
                 /\ Suspend(k, [t EXCEPT !.job = j, !.todo = @ \ {j}])
      <4>1. PICK j \in t.todo :
                 /\ found' = [found EXCEPT ![j] = t.height]
                 /\ Suspend(k, [t EXCEPT !.job = j, !.todo = @ \ {j}])
        BY <3>2
      <4> DEFINE r == [t EXCEPT !.job = j, !.todo = @ \ {j}]
      <4>2. j \in Jobs
        BY <2>1 DEF TaskType
      <4>3. r \in TaskType /\ TaskShape(r)
        BY <2>1, <4>2 DEF TaskType, TaskShape
      <4> QED
        BY <1>a, <2>1, <4>1, <4>3, RunStep DEF Suspend, TypeOK
    <3> QED
      BY <1>15, <3>1, <3>2 DEF RecordBlock
  <2>3. point' \in [Jobs -> Heights] /\ faults' \in 0..MaxDbFaults
    <3>1. SetPoint(t.job, t.height) \/ UNCHANGED point
      BY <1>15 DEF RecordBlock
    <3>2. DbOk \/ DbThrows
      BY <1>15 DEF RecordBlock
    <3> QED
      BY <3>1, <3>2, <1>a, <2>1, BoundsAssumption DEF SetPoint, DbOk, DbThrows, TypeOK
  <2>4. TypeOK'
    BY <1>15, <1>a, <2>2, <2>3 DEF RecordBlock, TypeOK, RunOK
  <2> QED
    BY <2>2, <2>4 DEF Typed
<1>16. CASE Crash
  <2>1. RunOK'
    BY <1>16, FreeTyped DEF Crash, RunOK
  <2>2. crashes' \in 0..MaxCrashes
    BY <1>16, <1>a, BoundsAssumption DEF Crash, TypeOK
  <2>3. TypeOK'
    BY <1>16, <1>a, <2>1, <2>2 DEF Crash, TypeOK, RunOK
  <2> QED
    BY <2>1, <2>3 DEF Typed
<1>17. CASE Stop
  <2>1. stops' \in 0..MaxStops
    BY <1>17, <1>a, BoundsAssumption DEF Stop, TypeOK
  <2> QED
    BY <1>17, <1>a, <2>1 DEF Stop, Typed, TypeOK, RunOK
<1>18. CASE Start
  BY <1>18, <1>a DEF Start, Typed, TypeOK, RunOK
<1>e. ASSUME NEW c \in Seq(SUBSET Jobs), Len(c) <= MaxHeight, Extend(c)
      PROVE  /\ chain' \in Seq(SUBSET Jobs) /\ Len(chain') <= MaxHeight
             /\ reached' \in [Jobs -> Heights]
  <2>1. \A j \in Jobs : Higher(reached[j], Depth(c, j)) \in Heights
    BY <1>a, <1>c, <1>e, DepthTyped DEF TypeOK
  <2> QED
    BY <1>e, <2>1 DEF Extend
<1>19. CASE MintBlock
  <2>1. PICK S \in SUBSET mempool : Extend(Append(chain, S)) /\ mempool' = mempool \ S
    BY <1>19 DEF MintBlock
  <2>2. Append(chain, S) \in Seq(SUBSET Jobs) /\ Len(Append(chain, S)) <= MaxHeight
    BY <1>19, <1>a, BoundsAssumption DEF MintBlock, TypeOK
  <2>3. chain' \in Seq(SUBSET Jobs) /\ Len(chain') <= MaxHeight /\ reached' \in [Jobs -> Heights]
    BY <2>1, <2>2, <1>e
  <2> QED
    BY <1>19, <1>a, <2>1, <2>3 DEF MintBlock, Typed, TypeOK, RunOK
<1>20. CASE SwitchChain
  <2>1. PICK h \in 0..(Len(chain) - 1) :
          LET rolledBack == {j \in Jobs : HeightOf(chain, j) > h}
          IN \E S \in SUBSET (mempool \cup rolledBack), at \in (h + 1)..(Len(chain) + 1) :
               /\ Extend([i \in 1..(Len(chain) + 1) |->
                            IF i <= h THEN chain[i] ELSE IF i = at THEN S ELSE {}])
               /\ \E lost \in SUBSET rolledBack :
                    mempool' = ((mempool \cup rolledBack) \ S) \ lost
    BY <1>20 DEF SwitchChain
  <2> DEFINE rolledBack == {j \in Jobs : HeightOf(chain, j) > h}
  <2>2. PICK S \in SUBSET (mempool \cup rolledBack), at \in (h + 1)..(Len(chain) + 1) :
               /\ Extend([i \in 1..(Len(chain) + 1) |->
                            IF i <= h THEN chain[i] ELSE IF i = at THEN S ELSE {}])
               /\ \E lost \in SUBSET rolledBack :
                    mempool' = ((mempool \cup rolledBack) \ S) \ lost
    BY <2>1
  <2> DEFINE c == [i \in 1..(Len(chain) + 1) |->
                     IF i <= h THEN chain[i] ELSE IF i = at THEN S ELSE {}]
  <2>3. Len(chain) \in Nat /\ Len(chain) < MaxHeight /\ mempool \subseteq Jobs
        /\ \A i \in 1..Len(chain) : chain[i] \subseteq Jobs
    BY <1>20, <1>a, SMTT(60) DEF SwitchChain, TypeOK
  <2>4. \A i \in 1..(Len(chain) + 1) : c[i] \in SUBSET Jobs
    BY <2>3
  <2>5. c \in Seq(SUBSET Jobs) /\ Len(c) = Len(chain) + 1
    BY <2>3, <2>4
  <2>6. Len(c) <= MaxHeight
    BY <2>3, <2>5, BoundsAssumption
  <2>7. mempool' \in SUBSET Jobs
    BY <2>2, <2>3
  <2>8. chain' \in Seq(SUBSET Jobs) /\ Len(chain') <= MaxHeight /\ reached' \in [Jobs -> Heights]
    <3>1. Extend(c)
      BY <2>2
    <3> HIDE DEF c
    <3> QED
      BY <2>5, <2>6, <3>1, <1>e
  <2>9. forks' \in 0..MaxForks
    BY <1>20, <1>a, BoundsAssumption DEF SwitchChain, TypeOK
  <2> QED
    BY <1>20, <1>a, <2>7, <2>8, <2>9 DEF SwitchChain, Typed, TypeOK, RunOK
<1>21. ASSUME NEW j \in Jobs, Timeout(j)
       PROVE  Typed'
  BY <1>21, <1>a DEF Timeout, Typed, TypeOK, RunOK
<1>22. CASE UNCHANGED vars
  BY <1>22, <1>a DEF vars, Typed, TypeOK, RunOK
<1> QED
  BY <1>1, <1>2, <1>3, <1>4, <1>5, <1>6, <1>7, <1>8, <1>9, <1>10, <1>11, <1>12, <1>13,
     <1>14, <1>15, <1>16, <1>17, <1>18, <1>19, <1>20, <1>21, <1>22
     DEF Next, PollStep, TaskStep

\* Every reachable state is well typed: rows, memory and suspended tasks of the tracker.
THEOREM TrackerTypeCorrect == Spec => []TypeOK
<1>1. Init => Typed
  BY TypedInit
<1>2. Typed /\ [Next]_vars => Typed'
  BY TypedStep
<1>3. Typed => TypeOK
  BY DEF Typed
<1> QED
  BY <1>1, <1>2, <1>3, PTL DEF Spec

-----------------------------------------------------------------------------
(* Nothing is forgotten.                                                   *)

\* finalize removes a job from `pending` in the step in which its row is terminal,
\* and start() reads every submitted row: no submitted job is forgotten while the
\* tracker runs, whatever fails.
THEOREM NothingIsForgotten == Spec => []NothingForgotten
<1>1. Init => NothingForgotten
  BY DEF Init, NothingForgotten
<1>2. TypeOK /\ NothingForgotten /\ [Next]_vars => NothingForgotten'
  <2> SUFFICES ASSUME TypeOK, NothingForgotten, [Next]_vars
               PROVE  NothingForgotten'
    OBVIOUS
  <2> USE DEF chainVars, rowVars, memory, ends
  <2>0. status \in [Jobs -> Statuses]
    BY DEF TypeOK
  <2>1. CASE Drop
    BY <2>0, <2>1 DEF Drop, NothingForgotten
  <2>2. ASSUME NEW k \in Tasks, Confirm(k)
        PROVE  NothingForgotten'
    BY <2>0, <2>2 DEF Confirm, Forgotten, NothingForgotten
  <2>3. CASE Crash \/ Stop \/ Start
    BY <2>3 DEF Crash, Stop, Start, NothingForgotten
  <2>4. CASE UNCHANGED <<status, pending, up>>
    BY <2>4 DEF NothingForgotten
  <2>5. CASE BlockIndexed \/ Reorg \/ PollOnce \/ TipLearned \/ TipFailed
    BY <2>5, <2>4 DEF BlockIndexed, Reorg, PollOnce, TipLearned, TipFailed
  <2>6. CASE PollTold \/ PollRecord \/ MintBlock \/ SwitchChain \/ (\E j \in Jobs : Timeout(j))
    BY <2>6, <2>4 DEF PollTold, PollRecord, MintBlock, SwitchChain, Timeout
  <2>7. ASSUME NEW k \in Tasks, Answer(k) \/ Rechecked(k) \/ Anchor(k)
        PROVE  NothingForgotten'
    BY <2>7, <2>4 DEF Answer, Rechecked, Anchor
  <2>8. ASSUME NEW k \in Tasks, ClearPoint(k) \/ Resubmit(k) \/ RecordBlock(k)
        PROVE  NothingForgotten'
    BY <2>8, <2>4 DEF ClearPoint, Resubmit, RecordBlock
  <2>9. CASE UNCHANGED vars
    BY <2>9, <2>4 DEF vars
  <2> QED
    BY <2>1, <2>2, <2>3, <2>5, <2>6, <2>7, <2>8, <2>9 DEF Next, PollStep, TaskStep
<1> QED
  BY <1>1, <1>2, TrackerTypeCorrect, PTL DEF Spec

-----------------------------------------------------------------------------
(* Polling confirms at depth.  The tip is never beyond the chain, and what a *)
(* backend answered is measured against a chain at least as long as the tip  *)
(* known then: so an inclusion seen in the current round has been as deep as *)
(* the tip, or the tip confirmMature captured, says.                         *)

\* The greatest tip the round may still measure against.
Cap == Higher(tip, run[Poll].tip)

\* What holds of the round of pollOnce when there is no crawler.
RoundInv ==
  /\ \A k \in FeedTasks : run[k].pc = "free"
  /\ run[Poll].via = "poll"
  /\ Cap <= Len(chain)
  /\ run[Poll].pc = "tip" => seen = {}
  /\ \A j \in seen : found[j] # 0 => reached[j] >= Cap - found[j] + 1
  /\ run[Poll].pc \in {"told", "rechecked", "anchor"} /\ run[Poll].height > 0
       => reached[run[Poll].job] >= Cap - run[Poll].height + 1
  /\ run[Poll].pc = "anchor" => run[Poll].height > 0
  /\ run[Poll].pc \in {"recheck", "rechecked"}
       => /\ found[run[Poll].job] # 0
          /\ run[Poll].tip - found[run[Poll].job] + 1 >= ConfirmationDepth
  /\ run[Poll].pc = "confirm" => reached[run[Poll].job] >= ConfirmationDepth

\* The inductive invariant.
DepthInv ==
  /\ \A j \in Jobs : reached[j] >= Depth(chain, j)
  /\ ~feed => RoundInv
  /\ PollingConfirmsAtDepth

\* The types the arithmetic below needs.
LEMMA RoundTypes ==
  ASSUME Typed
  PROVE  /\ Poll \in Tasks /\ Poll \notin FeedTasks /\ FeedTasks \subseteq Tasks
         /\ run \in [Tasks -> TaskType] /\ run[Poll] \in TaskType /\ TaskShape(run[Poll])
         /\ tip \in Nat /\ Len(chain) \in Nat /\ run[Poll].tip \in Nat
         /\ run[Poll].height \in Int
         /\ found \in [Jobs -> Nat] /\ reached \in [Jobs -> Nat] /\ seen \subseteq Jobs
         /\ pending \in SUBSET Jobs
         /\ tip \in Heights /\ Len(chain) \in Heights /\ run[Poll].tip \in Heights
         /\ Heights \subseteq Nat /\ 0 \in Heights /\ ConfirmationDepth \in Nat
  BY BoundsAssumption, DepthAssumption, SMTT(60)
     DEF Typed, RunOK, TypeOK, Tasks, TaskType, Heights, Unanswered

\* A round that goes on as confirmMature does, below a tip it may measure against.
LEMMA MaturedRound ==
  ASSUME Typed, NEW t \in TaskType, t.via = "poll", t.tip <= Len(chain), NEW r, Matured(t, r),
         run' = [run EXCEPT ![Poll] = r], tip' \in Heights, tip' <= Len(chain),
         \A k \in FeedTasks : run[k].pc = "free",
         UNCHANGED <<chain, reached, found, seen>>,
         \A j \in seen : found[j] # 0 => reached[j] >= Higher(tip', t.tip) - found[j] + 1
  PROVE  RoundInv'
<1>1. r \in TaskType /\ r.via = "poll" /\ (r.tip = 0 \/ r.tip = t.tip)
      /\ r.pc \in {"free", "recheck", "confirm"}
  <2>1. Free \in TaskType /\ Free.via = "poll" /\ Free.tip = 0 /\ Free.pc = "free"
    BY FreeTyped DEF Free
  <2> QED
    BY <2>1 DEF Matured
<1>2. run'[Poll] = r /\ \A k \in FeedTasks : run'[k] = run[k]
  BY RoundTypes
<1>3. t.tip \in Nat /\ tip' \in Nat /\ t.todo \in SUBSET Jobs
  BY RoundTypes DEF TaskType
<1>4. Cap' <= Len(chain) /\ Cap' <= Higher(tip', t.tip) /\ Cap' \in Nat
  BY <1>1, <1>2, <1>3, RoundTypes DEF Cap, Higher
<1>5. \A j \in seen : found[j] # 0 => reached[j] >= Cap' - found[j] + 1
  <2>1. Higher(tip', t.tip) \in Nat
    BY <1>3 DEF Higher
  <2> QED
    BY <1>4, <2>1, RoundTypes, SMTT(60)
<1>6. ASSUME r.pc = "confirm"
      PROVE  reached[r.job] >= ConfirmationDepth
  <2>1. r.job \in seen /\ found[r.job] # 0 /\ t.tip - found[r.job] + 1 >= ConfirmationDepth
    BY <1>6 DEF Matured, Free
  <2>2. Higher(tip', t.tip) \in Nat /\ Higher(tip', t.tip) >= t.tip
    BY <1>3 DEF Higher
  <2>3. reached[r.job] \in Nat /\ found[r.job] \in Nat
    BY <2>1, RoundTypes
  <2>4. reached[r.job] >= Higher(tip', t.tip) - found[r.job] + 1
    BY <2>1
  <2> HIDE DEF Higher
  <2> QED
    BY <1>3, <2>1, <2>2, <2>3, <2>4, RoundTypes, SMTT(60)
<1>7. r.pc = "recheck" => found[r.job] # 0 /\ r.tip - found[r.job] + 1 >= ConfirmationDepth
  BY DEF Matured, Free
<1> QED
  BY <1>1, <1>2, <1>4, <1>5, <1>6, <1>7 DEF RoundInv

\* A round in its lookup loop.
LEMMA LookUpRound ==
  ASSUME Typed, NEW t \in TaskType, t.via = "poll", t.tip <= Len(chain),
         tip' \in Heights, tip' <= Len(chain), NEW jobs \in SUBSET Jobs, LookUp(t, tip', jobs),
         \A k \in FeedTasks : run[k].pc = "free",
         UNCHANGED <<chain, reached, found, seen>>,
         \A j \in seen : found[j] # 0 => reached[j] >= Higher(tip', t.tip) - found[j] + 1
  PROVE  RoundInv'
<1>a. PICK now \in Heights : now = tip'
  OBVIOUS
<1>1. PICK r : run' = [run EXCEPT ![Poll] = r] /\ LookedUp(t, now, jobs, r)
  BY <1>a, LookUpStep
<1> DEFINE u == [Free EXCEPT !.via = "poll", !.tip = now, !.todo = jobs]
<1>2. u \in TaskType /\ u.via = "poll" /\ u.tip = tip'
  <2>1. u \in TaskType /\ u.via = "poll" /\ u.tip = now
    BY FreeTyped DEF TaskType
  <2> QED
    BY <1>a, <2>1
<1>3. t.tip \in Nat /\ tip' \in Nat
  BY RoundTypes DEF TaskType
<1>4. CASE Matured(u, r)
  <2> HIDE DEF u
  <2>1. Higher(tip', u.tip) <= Higher(tip', t.tip) /\ Higher(tip', u.tip) \in Nat
        /\ Higher(tip', t.tip) \in Nat
    BY <1>2, <1>3 DEF Higher
  <2>2. \A j \in seen : found[j] # 0 => reached[j] >= Higher(tip', u.tip) - found[j] + 1
    BY <2>1, RoundTypes, SMTT(60)
  <2> QED
    BY <1>1, <1>2, <1>4, <2>2, MaturedRound
<1>5. CASE r \in TaskType /\ r.pc = "ask" /\ r.via = t.via /\ r.tip = t.tip
  <2>1. run'[Poll] = r /\ \A k \in FeedTasks : run'[k] = run[k]
    BY <1>1, RoundTypes
  <2>2. Cap' = Higher(tip', t.tip)
    BY <1>5, <2>1 DEF Cap
  <2>3. Cap' <= Len(chain)
    BY <2>2, <1>3 DEF Higher
  <2> QED
    BY <1>5, <2>1, <2>2, <2>3 DEF RoundInv
<1> QED
  BY <1>1, <1>4, <1>5 DEF LookedUp

\* The chain gets longer, and the greatest depth of a transaction never shrinks.
LEMMA ChainGrows ==
  ASSUME Typed, Typed', MintBlock \/ SwitchChain
  PROVE  /\ Len(chain') >= Len(chain) /\ Len(chain') \in Nat
         /\ \A j \in Jobs : /\ reached'[j] >= reached[j] /\ reached'[j] \in Nat
                           /\ reached'[j] >= Depth(chain', j)
<1>1. \E c : Extend(c) /\ Len(c) = Len(chain) + 1
  <2>1. CASE MintBlock
    <3>1. PICK S \in SUBSET mempool : Extend(Append(chain, S))
      BY <2>1 DEF MintBlock
    <3>2. S \in SUBSET Jobs /\ chain \in Seq(SUBSET Jobs)
      BY DEF Typed, TypeOK
    <3>3. Len(Append(chain, S)) = Len(chain) + 1
      BY <3>2
    <3> QED
      BY <3>1, <3>3
  <2>2. CASE SwitchChain
    <3>1. PICK h, at, S : Extend([i \in 1..(Len(chain) + 1) |->
                            IF i <= h THEN chain[i] ELSE IF i = at THEN S ELSE {}])
      BY <2>2, ZenonT(80) DEF SwitchChain
    <3> QED
      BY <3>1, RoundTypes
  <2> QED
    BY <2>1, <2>2
<1>2. PICK c : Extend(c) /\ Len(c) = Len(chain) + 1
  BY <1>1
<1>3. chain' = c /\ \A j \in Jobs : reached'[j] = Higher(reached[j], Depth(c, j))
  BY <1>2 DEF Extend
<1>4. \A j \in Jobs : Depth(c, j) \in Nat /\ reached[j] \in Nat
  <2>1. c \in Seq(SUBSET Jobs) /\ Len(c) <= MaxHeight
    BY <1>3 DEF Typed, TypeOK
  <2> QED
    BY <2>1, DepthTyped, RoundTypes
<1> QED
  BY <1>2, <1>3, <1>4, RoundTypes DEF Higher

\* Without a crawler every step keeps the invariant of the round.
LEMMA RoundStep ==
  ASSUME Typed, RoundInv, ~feed, DepthInv, [Next]_vars, Typed'
  PROVE  RoundInv'
<1> USE DEF chainVars, rowVars, memory, ends
<1> DEFINE t == run[Poll]
<1>a. /\ t \in TaskType /\ t.via = "poll" /\ t.tip <= Len(chain) /\ tip <= Len(chain)
      /\ t.tip \in Nat /\ tip \in Heights /\ pending \in SUBSET Jobs
      /\ \A k \in FeedTasks : run[k].pc = "free"
      /\ \A j \in seen : found[j] # 0 => reached[j] >= Higher(tip, t.tip) - found[j] + 1
  BY RoundTypes DEF RoundInv, Cap, Higher
<1>b. ASSUME NEW k \in Tasks, run[k].pc # "free"
      PROVE  k = Poll
  BY <1>b, <1>a DEF Tasks
<1>c. Free \in TaskType /\ Free.via = "poll" /\ Free.tip = 0 /\ Free.pc = "free"
  BY FreeTyped DEF Free
<1>d. ASSUME NEW r, run' = [run EXCEPT ![Poll] = r]
      PROVE  run'[Poll] = r /\ \A k \in FeedTasks : run'[k] = run[k]
  BY <1>d, RoundTypes
<1>e. ASSUME Mature(Poll, t), UNCHANGED <<chain, reached, found, seen, tip>>
      PROVE  RoundInv'
  <2>1. PICK r : run' = [run EXCEPT ![Poll] = r] /\ Matured(t, r)
    BY <1>a, <1>e, MatureStep
  <2> QED
    BY <1>a, <1>e, <2>1, MaturedRound
<1>f. ASSUME NEW jobs \in SUBSET Jobs, LookUp(t, tip, jobs),
             UNCHANGED <<chain, reached, found, seen, tip>>
      PROVE  RoundInv'
  BY <1>a, <1>f, LookUpRound
<1>1. CASE BlockIndexed \/ Reorg
  BY <1>1 DEF BlockIndexed, Reorg
<1>2. CASE PollOnce
  <2> DEFINE r == [Free EXCEPT !.pc = "tip"]
  <2>1. r.pc = "tip" /\ r.via = "poll" /\ r.tip = 0
    BY <1>c DEF TaskType
  <2>2. run'[Poll] = r /\ \A k \in FeedTasks : run'[k] = run[k]
    BY <1>2, <1>d DEF PollOnce, Suspend
  <2> HIDE DEF r
  <2>3. UNCHANGED <<chain, reached, found, tip>> /\ seen' = {}
    BY <1>2 DEF PollOnce
  <2>4. Cap' <= Len(chain)
    BY <1>a, <2>1, <2>2, <2>3, RoundTypes DEF Cap, Higher
  <2> QED
    BY <1>a, <2>1, <2>2, <2>3, <2>4 DEF RoundInv
<1>3. CASE TipLearned
  <2> DEFINE u == [Free EXCEPT !.todo = pending]
  <2>1. u \in TaskType /\ u.via = "poll" /\ u.tip = 0
    BY <1>a, <1>c DEF TaskType
  <2>2. tip' \in Heights /\ tip' <= Len(chain)
    BY <1>3, <1>a, RoundTypes DEF TipLearned, Higher
  <2>3. seen = {}
    BY <1>3 DEF TipLearned, At, RoundInv
  <2>4. LookUp(u, tip', pending) /\ UNCHANGED <<chain, reached, found, seen>>
    BY <1>3 DEF TipLearned
  <2> HIDE DEF u
  <2>5. u.tip <= Len(chain)
    BY <2>1, RoundTypes
  <2> QED
    BY <1>a, <2>1, <2>2, <2>3, <2>4, <2>5, LookUpRound
<1>4. CASE TipFailed
  <2>1. run'[Poll] = Free /\ \A k \in FeedTasks : run'[k] = run[k]
    BY <1>4, <1>d DEF TipFailed, Suspend
  <2>2. UNCHANGED <<chain, reached, found, seen, tip>>
    BY <1>4 DEF TipFailed
  <2>3. seen = {}
    BY <1>4 DEF TipFailed, At, RoundInv
  <2>4. Cap' <= Len(chain)
    BY <1>a, <1>c, <2>1, <2>2, RoundTypes DEF Cap, Higher
  <2> QED
    BY <1>a, <1>c, <2>1, <2>2, <2>3, <2>4 DEF RoundInv
<1>5. CASE PollTold
  <2>0. t.pc = "told" /\ t.job \in Jobs /\ UNCHANGED <<chain, reached, tip>>
    BY <1>5, RoundTypes DEF PollTold, At, TaskShape
  <2>1. CASE /\ t.height > 0
             /\ found' = [found EXCEPT ![t.job] = t.height] /\ seen' = seen \cup {t.job}
             /\ Suspend(Poll, [t EXCEPT !.pc = "record"])
    <3> DEFINE r == [t EXCEPT !.pc = "record"]
    <3>1. r.pc = "record" /\ r.via = "poll" /\ r.tip = t.tip
      BY <1>a DEF TaskType
    <3>2. run'[Poll] = r /\ \A k \in FeedTasks : run'[k] = run[k]
      BY <2>1, <1>d DEF Suspend
    <3> HIDE DEF r
    <3>3. Cap' = Cap
      BY <2>0, <3>1, <3>2 DEF Cap
    <3>4. reached[t.job] >= Cap - t.height + 1
      BY <2>0, <2>1 DEF RoundInv
    <3>5. \A j \in seen' : found'[j] # 0 => reached'[j] >= Cap' - found'[j] + 1
      BY <2>0, <2>1, <3>3, <3>4, RoundTypes DEF RoundInv
    <3> QED
      BY <1>a, <2>0, <3>1, <3>2, <3>3, <3>5 DEF RoundInv
  <2>2. CASE Suspend(Poll, [t EXCEPT !.pc = "drop"]) /\ UNCHANGED <<found, seen>>
    <3> DEFINE r == [t EXCEPT !.pc = "drop"]
    <3>1. r.pc = "drop" /\ r.via = "poll" /\ r.tip = t.tip
      BY <1>a DEF TaskType
    <3>2. run'[Poll] = r /\ \A k \in FeedTasks : run'[k] = run[k]
      BY <2>2, <1>d DEF Suspend
    <3> HIDE DEF r
    <3>3. Cap' = Cap
      BY <2>0, <3>1, <3>2 DEF Cap
    <3> QED
      BY <1>a, <2>0, <2>2, <3>1, <3>2, <3>3 DEF RoundInv
  <2>3. CASE LookUp(t, tip, pending) /\ UNCHANGED <<found, seen>>
    BY <1>a, <1>f, <2>0, <2>3
  <2> QED
    BY <1>5, <2>1, <2>2, <2>3 DEF PollTold
<1>6. CASE PollRecord
  BY <1>6, <1>a, <1>f DEF PollRecord
<1>7. CASE Drop
  <2>1. pending' \in SUBSET Jobs
    BY RoundTypes DEF Typed, TypeOK
  <2> QED
    BY <1>7, <1>f, <2>1 DEF Drop
<1>8. CASE Answer(Poll)
  <2>1. PICK h \in {HeightOf(chain, t.job), Unanswered} :
          Suspend(Poll, [t EXCEPT !.height = h, !.pc = IF @ = "ask" THEN "told" ELSE "rechecked"])
    BY <1>8 DEF Answer
  <2> DEFINE r == [t EXCEPT !.height = h, !.pc = IF @ = "ask" THEN "told" ELSE "rechecked"]
  <2>2. t.pc \in {"ask", "recheck"} /\ t.job \in Jobs
        /\ UNCHANGED <<chain, reached, found, seen, tip>>
    BY <1>8, RoundTypes DEF Answer, TaskShape
  <2>3. /\ r.via = "poll" /\ r.tip = t.tip /\ r.height = h /\ r.job = t.job
        /\ r.pc = IF t.pc = "ask" THEN "told" ELSE "rechecked"
    BY <1>a DEF TaskType
  <2>4. run'[Poll] = r /\ \A k \in FeedTasks : run'[k] = run[k]
    BY <2>1, <1>d DEF Suspend
  <2> HIDE DEF r
  <2>5. Cap' = Cap /\ Cap \in Nat /\ Cap <= Len(chain)
    BY <1>a, <2>2, <2>3, <2>4, RoundTypes DEF Cap, Higher
  <2>6. h > 0 => reached[t.job] >= Cap - h + 1
    <3>1. CASE h = Unanswered
      BY <3>1 DEF Unanswered
    <3>2. CASE h = HeightOf(chain, t.job)
      <4>1. h \in Nat /\ (h > 0 => Depth(chain, t.job) = Len(chain) - h + 1)
        BY <3>2, DepthTyped, RoundTypes DEF Typed, TypeOK
      <4>2. reached[t.job] >= Depth(chain, t.job) /\ reached[t.job] \in Nat
        BY <2>2, RoundTypes DEF DepthInv
      <4> QED
        BY <2>5, <4>1, <4>2, RoundTypes
    <3> QED
      BY <3>1, <3>2
  <2> QED
    BY <1>a, <2>2, <2>3, <2>4, <2>5, <2>6 DEF RoundInv
<1>9. CASE Confirm(Poll)
  BY <1>9, <1>e DEF Confirm
<1>10. CASE Rechecked(Poll)
  <2>0. t.pc = "rechecked" /\ t.job \in Jobs /\ UNCHANGED <<chain, reached>>
    BY <1>10, RoundTypes DEF Rechecked, At, TaskShape
  <2>a. /\ t.height > 0 => reached[t.job] >= Cap - t.height + 1
        /\ found[t.job] # 0 /\ t.tip - found[t.job] + 1 >= ConfirmationDepth
        /\ Cap \in Nat /\ t.tip <= Cap
    BY <1>a, <2>0, RoundTypes DEF RoundInv, Cap, Higher
  <2>1. CASE /\ t.height > 0 /\ t.height = found[t.job]
             /\ seen' = seen \cup {t.job}
             /\ Suspend(Poll, [t EXCEPT !.pc = "confirm"]) /\ UNCHANGED <<found, tip>>
    <3> DEFINE r == [t EXCEPT !.pc = "confirm"]
    <3>1. r.pc = "confirm" /\ r.via = "poll" /\ r.tip = t.tip /\ r.job = t.job
      BY <1>a DEF TaskType
    <3>2. run'[Poll] = r /\ \A k \in FeedTasks : run'[k] = run[k]
      BY <2>1, <1>d DEF Suspend
    <3> HIDE DEF r
    <3>3. Cap' = Cap
      BY <2>1, <3>1, <3>2 DEF Cap
    <3>4. \A j \in seen' : found'[j] # 0 => reached'[j] >= Cap' - found'[j] + 1
      BY <2>0, <2>a, <2>1, <3>3, RoundTypes DEF RoundInv
    <3>5. reached[t.job] >= ConfirmationDepth
      BY <2>0, <2>a, <2>1, <1>a, RoundTypes, SMTT(60)
    <3> QED
      BY <1>a, <2>0, <3>1, <3>2, <3>3, <3>4, <3>5 DEF RoundInv
  <2>2. CASE /\ t.height > 0
             /\ found' = [found EXCEPT ![t.job] = t.height] /\ seen' = seen \cup {t.job}
             /\ Suspend(Poll, [t EXCEPT !.pc = "anchor"]) /\ UNCHANGED tip
    <3> DEFINE r == [t EXCEPT !.pc = "anchor"]
    <3>1. r.pc = "anchor" /\ r.via = "poll" /\ r.tip = t.tip /\ r.job = t.job
          /\ r.height = t.height
      BY <1>a DEF TaskType
    <3>2. run'[Poll] = r /\ \A k \in FeedTasks : run'[k] = run[k]
      BY <2>2, <1>d DEF Suspend
    <3> HIDE DEF r
    <3>3. Cap' = Cap
      BY <2>2, <3>1, <3>2 DEF Cap
    <3>4. \A j \in seen' : found'[j] # 0 => reached'[j] >= Cap' - found'[j] + 1
      BY <2>0, <2>a, <2>2, <3>3, RoundTypes DEF RoundInv
    <3> QED
      BY <1>a, <2>0, <2>a, <2>2, <3>1, <3>2, <3>3, <3>4 DEF RoundInv
  <2>3. CASE tip' = 0 /\ Forget(Poll, t, t.job)
    <3> DEFINE r == [t EXCEPT !.pc = "clear", !.job = t.job]
    <3>1. r.pc = "clear" /\ r.via = "poll" /\ r.tip = t.tip
      BY <1>a DEF TaskType
    <3>2. run'[Poll] = r /\ \A k \in FeedTasks : run'[k] = run[k]
      BY <2>3, <1>d DEF Forget, Suspend
    <3> HIDE DEF r
    <3>3. Cap' <= Cap /\ Cap' \in Nat /\ Cap <= Len(chain)
      BY <1>a, <2>3, <3>1, <3>2, RoundTypes DEF Cap, Higher
    <3>4. \A j \in seen' : found'[j] # 0 => reached'[j] >= Cap' - found'[j] + 1
      <4>1. ASSUME NEW j \in seen', found'[j] # 0
            PROVE  reached[j] >= Cap - found[j] + 1 /\ found'[j] = found[j] /\ j \in Jobs
        BY <4>1, <2>3, RoundTypes DEF RoundInv, Forget
      <4>2. \A j \in Jobs : found[j] \in Nat /\ reached[j] \in Nat /\ reached'[j] = reached[j]
        BY <2>0, RoundTypes
      <4> QED
        BY <4>1, <4>2, <2>a, <3>3, SMTT(60)
    <3> QED
      BY <1>a, <2>0, <2>a, <3>1, <3>2, <3>3, <3>4, RoundTypes, SMTT(60) DEF RoundInv
  <2>4. CASE Mature(Poll, t) /\ UNCHANGED <<found, seen, tip>>
    BY <1>e, <2>0, <2>4
  <2> QED
    BY <1>10, <2>1, <2>2, <2>3, <2>4 DEF Rechecked
<1>11. CASE Anchor(Poll)
  <2>0. t.pc = "anchor" /\ t.job \in Jobs /\ UNCHANGED <<chain, reached, found, seen, tip>>
    BY <1>11, RoundTypes DEF Anchor, At, TaskShape
  <2>1. CASE /\ t.tip - t.height + 1 >= ConfirmationDepth
             /\ Suspend(Poll, [t EXCEPT !.pc = "confirm"])
    <3> DEFINE r == [t EXCEPT !.pc = "confirm"]
    <3>1. r.pc = "confirm" /\ r.via = "poll" /\ r.tip = t.tip /\ r.job = t.job
      BY <1>a DEF TaskType
    <3>2. run'[Poll] = r /\ \A k \in FeedTasks : run'[k] = run[k]
      BY <2>1, <1>d DEF Suspend
    <3> HIDE DEF r
    <3>3. Cap' = Cap /\ Cap \in Nat /\ t.tip <= Cap
      BY <1>a, <2>0, <3>1, <3>2, RoundTypes DEF Cap, Higher
    <3>4. reached[t.job] >= Cap - t.height + 1
      BY <2>0 DEF RoundInv
    <3>5. reached[t.job] >= ConfirmationDepth
      BY <2>0, <2>1, <3>3, <3>4, <1>a, RoundTypes, SMTT(60)
    <3> QED
      BY <1>a, <2>0, <3>1, <3>2, <3>3, <3>5 DEF RoundInv
  <2>2. CASE Mature(Poll, t)
    BY <1>e, <2>0, <2>2
  <2> QED
    BY <1>11, <2>1, <2>2 DEF Anchor
<1>12. CASE ClearPoint(Poll)
  <2>0. t.pc = "clear" /\ UNCHANGED <<chain, reached, tip>>
    BY <1>12 DEF ClearPoint, At
  <2>1. CASE Suspend(Poll, [t EXCEPT !.pc = "resubmit"]) /\ UNCHANGED <<found, seen>>
    <3> DEFINE r == [t EXCEPT !.pc = "resubmit"]
    <3>1. r.pc = "resubmit" /\ r.via = "poll" /\ r.tip = t.tip
      BY <1>a DEF TaskType
    <3>2. run'[Poll] = r /\ \A k \in FeedTasks : run'[k] = run[k]
      BY <2>1, <1>d DEF Suspend
    <3> HIDE DEF r
    <3>3. Cap' = Cap
      BY <2>0, <3>1, <3>2 DEF Cap
    <3> QED
      BY <1>a, <2>0, <2>1, <3>1, <3>2, <3>3 DEF RoundInv
  <2>2. CASE AfterForget(Poll, t)
    BY <1>a, <1>e, <2>0, <2>2 DEF AfterForget
  <2> QED
    BY <1>12, <2>1, <2>2 DEF ClearPoint
<1>13. CASE Resubmit(Poll)
  BY <1>13, <1>a, <1>e DEF Resubmit, AfterForget
<1>14. CASE RecordBlock(Poll)
  BY <1>14, <1>a DEF RecordBlock
<1>15. CASE Crash
  <2>1. run'[Poll] = Free /\ (\A k \in FeedTasks : run'[k] = Free)
        /\ seen' = {} /\ tip' = 0 /\ UNCHANGED chain
    BY <1>15, RoundTypes DEF Crash
  <2>2. Cap' <= Len(chain)
    BY <1>c, <2>1, RoundTypes DEF Cap, Higher
  <2> QED
    BY <1>c, <2>1, <2>2 DEF RoundInv
<1>16. CASE Stop
  BY <1>16 DEF Stop, RoundInv, Cap
<1>17. CASE Start
  <2>1. UNCHANGED <<chain, run>> /\ seen' = {} /\ tip' = 0 /\ t.pc = "free"
    BY <1>17, RoundTypes DEF Start, At
  <2>2. Cap' <= Len(chain)
    BY <1>a, <2>1, RoundTypes DEF Cap, Higher
  <2> QED
    BY <1>a, <2>1, <2>2 DEF RoundInv
<1>18. CASE MintBlock \/ SwitchChain
  <2>1. UNCHANGED <<found, seen, tip, run>>
    BY <1>18 DEF MintBlock, SwitchChain
  <2>2. Len(chain') >= Len(chain) /\ Len(chain') \in Nat
    BY <1>18, ChainGrows
  <2>3. \A j \in Jobs : reached'[j] >= reached[j] /\ reached'[j] \in Nat
    BY <1>18, ChainGrows
  <2>4. Cap' = Cap /\ Cap \in Nat /\ Cap <= Len(chain')
    BY <1>a, <2>1, <2>2, RoundTypes DEF Cap, Higher
  <2>5. \A j \in seen : found[j] # 0 => reached'[j] >= Cap - found[j] + 1
    BY <2>3, <2>4, RoundTypes DEF RoundInv
  <2>6. t.pc \in {"told", "rechecked", "anchor", "confirm"} => t.job \in Jobs
    BY RoundTypes DEF TaskShape
  <2>7. t.pc \in {"told", "rechecked", "anchor"} /\ t.height > 0
          => reached'[t.job] >= Cap - t.height + 1
    <3>1. t.pc \in {"told", "rechecked", "anchor"} /\ t.height > 0
            => reached[t.job] >= Cap - t.height + 1
      BY DEF RoundInv
    <3>2. t.height \in Int /\ \A j \in Jobs : reached[j] \in Nat
      BY RoundTypes
    <3> QED
      BY <2>3, <2>4, <2>6, <3>1, <3>2, SMTT(60)
  <2>8. t.pc = "confirm" => reached'[t.job] >= ConfirmationDepth
    BY <2>3, <2>6, RoundTypes DEF RoundInv
  <2> QED
    BY <2>1, <2>4, <2>5, <2>7, <2>8 DEF RoundInv
<1>19. ASSUME NEW j \in Jobs, Timeout(j)
       PROVE  RoundInv'
  BY <1>19 DEF Timeout, RoundInv, Cap
<1>20. CASE UNCHANGED vars
  BY <1>20 DEF vars, RoundInv, Cap
<1>21. ASSUME NEW k \in Tasks, TaskStep(k)
       PROVE  k = Poll
  BY <1>21, <1>b DEF TaskStep, Answer, Confirm, Rechecked, Anchor, ClearPoint, Resubmit,
                    RecordBlock, At
<1> QED
  BY <1>1, <1>2, <1>3, <1>4, <1>5, <1>6, <1>7, <1>8, <1>9, <1>10, <1>11, <1>12, <1>13,
     <1>14, <1>15, <1>16, <1>17, <1>18, <1>19, <1>20, <1>21 DEF Next, PollStep, TaskStep

\* The initial states satisfy the invariant.
LEMMA DepthInit ==
  ASSUME Init
  PROVE  DepthInv
<1>1. Typed
  BY TypedInit
<1>2. \A j \in Jobs : Depth(chain, j) = 0
  <2>1. DOMAIN chain = {}
    BY DEF Init
  <2> QED
    BY <2>1 DEF Depth, On
<1>3. \A k \in Tasks : run[k] = Free
  BY DEF Init
<1>4. Free.pc = "free" /\ Free.via = "poll" /\ Free.tip = 0
  BY DEF Free
<1>5. RoundInv
  <2>1. tip = 0 /\ seen = {} /\ chain = <<>>
    BY DEF Init
  <2>2. run[Poll] = Free /\ \A k \in FeedTasks : run[k] = Free
    BY <1>3 DEF Tasks
  <2>3. Cap <= Len(chain)
    BY <1>4, <2>1, <2>2 DEF Cap, Higher
  <2> QED
    BY <1>4, <2>1, <2>2, <2>3 DEF RoundInv
<1> QED
  BY <1>2, <1>5 DEF Init, DepthInv, PollingConfirmsAtDepth

\* Every step keeps it.
LEMMA DepthStep ==
  ASSUME Typed, DepthInv, [Next]_vars
  PROVE  DepthInv'
<1> USE DEF chainVars, rowVars, memory, ends
<1>1. Typed'
  BY TypedStep
<1>a. CASE MintBlock \/ SwitchChain
  <2>1. UNCHANGED <<status, feed>>
    BY <1>a DEF MintBlock, SwitchChain
  <2>2. \A j \in Jobs : /\ reached'[j] >= reached[j] /\ reached'[j] \in Nat
                      /\ reached'[j] >= Depth(chain', j)
    BY <1>1, <1>a, ChainGrows
  <2>3. PollingConfirmsAtDepth'
    BY <2>1, <2>2, RoundTypes DEF DepthInv, PollingConfirmsAtDepth
  <2>4. ~feed' => RoundInv'
    BY <1>1, <2>1, RoundStep DEF DepthInv
  <2> QED
    BY <2>2, <2>3, <2>4 DEF DepthInv
<1>b. ASSUME UNCHANGED <<chain, reached, feed>>,
             ~feed => \A j \in Jobs : status'[j] = "confirmed" =>
                         status[j] = "confirmed" \/ reached[j] >= ConfirmationDepth
      PROVE  DepthInv'
  <2>1. ~feed' => RoundInv'
    BY <1>1, <1>b, RoundStep DEF DepthInv
  <2>2. PollingConfirmsAtDepth'
    BY <1>b DEF DepthInv, PollingConfirmsAtDepth
  <2> QED
    BY <1>b, <2>1, <2>2 DEF DepthInv
<1>2. CASE BlockIndexed \/ Reorg \/ PollOnce \/ TipLearned \/ TipFailed
  BY <1>2, <1>b DEF BlockIndexed, Reorg, PollOnce, TipLearned, TipFailed
<1>3. CASE PollTold \/ PollRecord \/ (\E j \in Jobs : Timeout(j)) \/ UNCHANGED vars
  BY <1>3, <1>b DEF PollTold, PollRecord, Timeout, vars
<1>4. CASE Crash \/ Stop \/ Start
  BY <1>4, <1>b DEF Crash, Stop, Start
<1>5. ASSUME NEW k \in Tasks, Answer(k) \/ Rechecked(k) \/ Anchor(k)
      PROVE  DepthInv'
  BY <1>5, <1>b DEF Answer, Rechecked, Anchor
<1>6. ASSUME NEW k \in Tasks, ClearPoint(k) \/ Resubmit(k) \/ RecordBlock(k)
      PROVE  DepthInv'
  BY <1>6, <1>b DEF ClearPoint, Resubmit, RecordBlock
<1>7. CASE Drop
  <2>1. status \in [Jobs -> Statuses]
    BY DEF Typed, TypeOK
  <2>2. UNCHANGED <<chain, reached, feed>>
    BY <1>7 DEF Drop
  <2>3. \A j \in Jobs : status'[j] = "confirmed" => status[j] = "confirmed"
    BY <1>7, <2>1 DEF Drop
  <2> QED
    BY <1>b, <2>2, <2>3
<1>8. ASSUME NEW k \in Tasks, Confirm(k)
      PROVE  DepthInv'
  <2>1. status \in [Jobs -> Statuses]
    BY DEF Typed, TypeOK
  <2>2. UNCHANGED <<chain, reached, feed>>
    BY <1>8 DEF Confirm
  <2>3. ASSUME NEW j \in Jobs, status'[j] = "confirmed", status[j] # "confirmed"
        PROVE  j = run[k].job
    BY <1>8, <2>1, <2>3 DEF Confirm
  <2>4. ~feed => k = Poll /\ reached[run[k].job] >= ConfirmationDepth
    BY <1>8, RoundTypes DEF Confirm, At, DepthInv, RoundInv, Tasks
  <2> QED
    BY <1>b, <2>2, <2>3, <2>4
<1> QED
  BY <1>a, <1>2, <1>3, <1>4, <1>5, <1>6, <1>7, <1>8 DEF Next, PollStep, TaskStep

\* Without a crawler in the process, pollOnce with its re-validation confirms a job
\* only if its transaction has been confirmationDepth blocks deep: for every number of
\* jobs, depth, length of the chain, forks, restarts and failing writes.
THEOREM PollingIsSafe == Spec => []PollingConfirmsAtDepth
<1>1. Init => Typed /\ DepthInv
  BY TypedInit, DepthInit
<1>2. Typed /\ DepthInv /\ [Next]_vars => (Typed /\ DepthInv)'
  BY TypedStep, DepthStep
<1>3. DepthInv => PollingConfirmsAtDepth
  BY DEF DepthInv
<1> QED
  BY <1>1, <1>2, <1>3, PTL DEF Spec

=============================================================================
