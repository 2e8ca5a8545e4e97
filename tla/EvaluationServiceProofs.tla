----------------------- MODULE EvaluationServiceProofs -----------------------
(***************************************************************************)
(* Safety of the evaluation service for any finite set of jobs, any set of *)
(* workers, any concurrency, attempt bound and fault budget.               *)
(*                                                                         *)
(* The inductive invariant relates four pieces of state that the code      *)
(* changes in separate steps: the row, the claim in progress, the asyncio  *)
(* task and the loop variable of its attempts.                             *)
(***************************************************************************)
EXTENDS EvaluationService, FiniteSetTheorems, TLAPS

\* A row exists from the commit of its POST on.
PostInv ==
    \A j \in Jobs :
        /\ post[j] \in {"none", "inserting"} => row[j] = "absent"
        /\ post[j] = "accepted" => row[j] # "absent"

\* What a claim in progress knows about its candidate.
CandInv ==
    \A w \in Workers :
        /\ pc[w] \in {"update", "get"} =>
               cand[w] \in Jobs /\ row[cand[w]] # "absent"
        /\ pc[w] = "get" => task[w][cand[w]] = "none"

HoldInv == OneHolder /\ RunningIsHeldOrLost

\* The candidate of a claim was the oldest queued job when it was selected,
\* and no older accepted job can become queued again.
OrderInv ==
    /\ \A j \in Jobs : \A i \in before[j] : i \in older[j] /\ row[i] # "absent"
    /\ \A w \in Workers :
           pc[w] = "update" => \A i \in before[cand[w]] : row[i] # "queued"
    /\ ClaimedInOrder

\* The loop variable of the one task that holds a job counts the calls made
\* for it by anyone.
CallsInv ==
    /\ JudgeCallsBounded
    /\ \A j \in Jobs : row[j] \in {"absent", "queued"} => calls[j] = 0
    /\ \A w \in Workers : pc[w] = "get" => calls[cand[w]] = 0
    /\ \A w \in Workers, j \in Jobs :
           /\ task[w][j] # "none" => calls[j] = attempt[w][j]
           /\ task[w][j] = "start" => attempt[w][j] = 0
           /\ task[w][j] \in {"evaluate", "finish"} =>
                  j \notin Unreadable /\ attempt[w][j] > 0

IInv ==
    TypeOK /\ PostInv /\ CandInv /\ HoldInv /\ OrderInv /\ CallsInv
    /\ JudgeOpenDuringEvaluation

USE DEF FaultKinds, JobStatuses, PostPhases, LoopPoints, Polling, Claiming,
        TaskPhases, apiVars, loopVars, taskVars, vars

------------------------------------------------------------------------------
LEMMA InitIInv == Init => IInv
  BY ServiceAssumption, SMTT(60)
  DEF Init, IInv, TypeOK, PostInv, CandInv, HoldInv, OneHolder,
      RunningIsHeldOrLost, Holds, OrderInv, ClaimedInOrder, CallsInv,
      JudgeCallsBounded, JudgeOpenDuringEvaluation

\* Every action keeps the types; a claim's candidate is a job.
LEMMA TypePreserved == TypeOK /\ CandInv /\ [Next]_vars => TypeOK'
<1> SUFFICES ASSUME TypeOK, CandInv, [Next]_vars PROVE TypeOK'
  OBVIOUS
<1> USE ServiceAssumption DEF TypeOK
<1>1. ASSUME NEW j \in Jobs, Api(j) PROVE TypeOK'
  <2>1. CASE SubmitEvaluation(j)
    <3>1. {i \in Jobs : post[i] # "none"} \in SUBSET Jobs OBVIOUS
    <3>2. {i \in Jobs : row[i] # "absent"} \in SUBSET Jobs OBVIOUS
    <3> QED BY <2>1, <3>1, <3>2, SMTT(30) DEF SubmitEvaluation
  <2>2. CASE CreateJob(j) BY <2>2, SMTT(30) DEF CreateJob
  <2>3. CASE CreateJobDbError(j)
    BY <2>3, SMTT(30) DEF CreateJobDbError, Spend
  <2> QED BY <1>1, <2>1, <2>2, <2>3 DEF Api
<1>2. ASSUME NEW w \in Workers, PollLoop(w) PROVE TypeOK'
  <2>1. CASE AcquireSlot(w) BY <2>1, SMTT(30) DEF AcquireSlot
  <2>2. CASE ClaimSelect(w) BY <2>2, SMTT(30) DEF ClaimSelect, OldestQueued
  <2>3. CASE ClaimNothing(w) BY <2>3, SMTT(30) DEF ClaimNothing
  <2>4. CASE PollAgain(w) BY <2>4, SMTT(30) DEF PollAgain
  <2>5. CASE ClaimWin(w)
    <3>1. cand[w] \in Jobs BY <2>5 DEF ClaimWin, CandInv
    <3> QED BY <2>5, <3>1, SMTT(30) DEF ClaimWin
  <2>6. CASE ClaimLose(w) BY <2>6, SMTT(30) DEF ClaimLose
  <2>7. CASE StartTask(w)
    <3>1. cand[w] \in Jobs BY <2>7 DEF StartTask, CandInv
    <3>2. task' \in [Workers -> [Jobs -> TaskPhases]]
      BY <2>7, <3>1 DEF StartTask
    <3>3. attempt' \in [Workers -> [Jobs -> Nat]]
      BY <2>7, <3>1 DEF StartTask
    <3> QED BY <2>7, <3>2, <3>3 DEF StartTask
  <2> QED BY <1>2, <2>1, <2>2, <2>3, <2>4, <2>5, <2>6, <2>7 DEF PollLoop
<1>3. ASSUME NEW w \in Workers, Process(w) PROVE TypeOK'
  <2>1. CASE ClaimDbError(w)
    <3>1. lost' \subseteq Jobs BY <2>1 DEF ClaimDbError, LeaveLoop, CandInv
    <3>2. pc' \in [Workers -> LoopPoints]
      BY <2>1 DEF ClaimDbError, LeaveLoop
    <3> QED BY <2>1, <3>1, <3>2 DEF ClaimDbError, LeaveLoop, Spend
  <2>2. CASE Stop(w)
    <3>1. lost' \subseteq Jobs BY <2>2 DEF Stop, LeaveLoop, CandInv
    <3>2. pc' \in [Workers -> LoopPoints] BY <2>2 DEF Stop, LeaveLoop
    <3> QED BY <2>2, <3>1, <3>2 DEF Stop, LeaveLoop, Spend
  <2>3. CASE Close(w) BY <2>3, SMTT(30) DEF Close
  <2>4. CASE StopAfterDeadLoop(w)
    BY <2>4, SMTT(30) DEF StopAfterDeadLoop, Vanish, Held, Spend
  <2>5. CASE Crash(w) BY <2>5, SMTT(30) DEF Crash, Vanish, Held, Spend
  <2>6. CASE Start(w) BY <2>6, SMTT(30) DEF Start
  <2> QED BY <1>3, <2>1, <2>2, <2>3, <2>4, <2>5, <2>6 DEF Process
<1>4. ASSUME NEW w \in Workers, NEW j \in Jobs, JobTask(w, j) PROVE TypeOK'
  <2>1. CallJudge(w, j) => /\ judge' \in [Workers -> {"none", "open"}]
                           /\ attempt' \in [Workers -> [Jobs -> Nat]]
                           /\ calls' \in [Jobs -> Nat]
    BY DEF CallJudge
  <2>0. ASSUME NEW p \in TaskPhases
        PROVE  [task EXCEPT ![w][j] = p] \in [Workers -> [Jobs -> TaskPhases]]
    BY Zenon, <2>0
  <2>2. CASE ReadStoredRequest(w, j)
    <3>1. \/ task' = [task EXCEPT ![w][j] = "fail"]
          \/ task' = [task EXCEPT ![w][j] = "evaluate"]
      BY <2>2 DEF ReadStoredRequest
    <3>2. task' \in [Workers -> [Jobs -> TaskPhases]] BY <2>0, <3>1
    <3> QED BY <2>1, <2>2, <3>2 DEF ReadStoredRequest
  <2>3. CASE EvaluateReturns(w, j) BY <2>3, SMTT(30) DEF EvaluateReturns
  <2>4. CASE EvaluateRaises(w, j)
    <3>1. task' = [task EXCEPT ![w][j] = "fail"] \/ UNCHANGED task
      BY <2>4 DEF EvaluateRaises
    <3>2. task' \in [Workers -> [Jobs -> TaskPhases]] BY <2>0, <3>1
    <3> QED BY <2>1, <2>4, <3>2 DEF EvaluateRaises
  <2>5. CASE FinishJob(w, j) BY <2>5, SMTT(30) DEF FinishJob, EndTask
  <2>6. CASE FailJob(w, j) BY <2>6, SMTT(30) DEF FailJob, EndTask
  <2>7. CASE SettleDbError(w, j)
    BY <2>7, SMTT(30) DEF SettleDbError, EndTask, Spend
  <2> QED BY <1>4, <2>2, <2>3, <2>4, <2>5, <2>6, <2>7 DEF JobTask
<1>5. CASE UNCHANGED vars BY <1>5
<1> QED BY <1>1, <1>2, <1>3, <1>4, <1>5 DEF Next

------------------------------------------------------------------------------
\* Only a task or a claim that won changes the row of a stored job.
LEMMA PostPreserved ==
  TypeOK /\ PostInv /\ CandInv /\ HoldInv /\ [Next]_vars => PostInv'
<1> SUFFICES ASSUME TypeOK, PostInv, CandInv, HoldInv, [Next]_vars
             PROVE  PostInv'
  OBVIOUS
<1> USE DEF TypeOK, PostInv
<1>1. ASSUME NEW j \in Jobs, Api(j) PROVE PostInv'
  BY <1>1, SMTT(30)
  DEF Api, SubmitEvaluation, CreateJob, CreateJobDbError
<1>2. ASSUME NEW w \in Workers, PollLoop(w) PROVE PostInv'
  <2>1. CASE ClaimWin(w)
    <3>1. cand[w] \in Jobs /\ row[cand[w]] # "absent"
      BY <2>1 DEF ClaimWin, CandInv
    <3> QED BY <2>1, <3>1 DEF ClaimWin
  <2>2. ASSUME ~ClaimWin(w) PROVE UNCHANGED <<row, post>>
    BY <1>2, <2>2
    DEF PollLoop, AcquireSlot, ClaimSelect, ClaimNothing, PollAgain,
        ClaimLose, StartTask
  <2> QED BY <2>1, <2>2
<1>3. ASSUME NEW w \in Workers, Process(w) PROVE PostInv'
  <2>1. UNCHANGED row
    BY <1>3 DEF Process, ClaimDbError, Stop, Close, StopAfterDeadLoop, Crash,
                Start, Vanish
  <2>2. \A j \in Jobs : post'[j] = post[j] \/ post'[j] = "refused"
    BY <1>3 DEF Process, ClaimDbError, Stop, Close, StopAfterDeadLoop, Crash,
                Start, Vanish
  <2> QED BY <2>1, <2>2
<1>4. ASSUME NEW w \in Workers, NEW j \in Jobs, JobTask(w, j) PROVE PostInv'
  <2>1. UNCHANGED post
    BY <1>4 DEF JobTask, ReadStoredRequest, EvaluateReturns, EvaluateRaises,
                FinishJob, FailJob, SettleDbError
  <2>2. \/ UNCHANGED row
        \/ /\ row[j] = "running"
           /\ \E s \in Settled : row' = [row EXCEPT ![j] = s]
    BY <1>4 DEF JobTask, ReadStoredRequest, EvaluateReturns, EvaluateRaises,
                FinishJob, FailJob, SettleDbError, HoldInv, OneHolder, Holds,
                Settled
  <2> QED BY <2>1, <2>2 DEF Settled
<1>5. CASE UNCHANGED vars BY <1>5
<1> QED BY <1>1, <1>2, <1>3, <1>4, <1>5 DEF Next

\* A claim keeps its candidate until it has been handed to a task.
LEMMA CandPreserved ==
  TypeOK /\ PostInv /\ CandInv /\ HoldInv /\ [Next]_vars => CandInv'
<1> SUFFICES ASSUME TypeOK, PostInv, CandInv, HoldInv, [Next]_vars
             PROVE  CandInv'
  OBVIOUS
<1> USE DEF TypeOK, CandInv
<1>1. ASSUME NEW j \in Jobs, Api(j) PROVE CandInv'
  BY <1>1, SMTT(30)
  DEF Api, SubmitEvaluation, CreateJob, CreateJobDbError
<1>2. ASSUME NEW w \in Workers, PollLoop(w) PROVE CandInv'
  <2>1. CASE AcquireSlot(w) BY <2>1 DEF AcquireSlot
  <2>2. CASE ClaimSelect(w) BY <2>2 DEF ClaimSelect, OldestQueued
  <2>3. CASE ClaimNothing(w) BY <2>3 DEF ClaimNothing
  <2>4. CASE PollAgain(w) BY <2>4 DEF PollAgain
  <2>5. CASE ClaimWin(w)
    <3>1. cand[w] \in Jobs /\ row[cand[w]] = "queued"
      BY <2>5 DEF ClaimWin, Claimable
    <3>2. task[w][cand[w]] = "none"
      BY <3>1 DEF HoldInv, OneHolder, Holds
    <3> QED BY <2>5, <3>1, <3>2 DEF ClaimWin
  <2>6. CASE ClaimLose(w) BY <2>6 DEF ClaimLose
  <2>7. CASE StartTask(w)
    <3>1. \A v \in Workers : v # w => task'[v] = task[v]
      BY <2>7 DEF StartTask
    <3> QED BY <2>7, <3>1 DEF StartTask
  <2> QED BY <1>2, <2>1, <2>2, <2>3, <2>4, <2>5, <2>6, <2>7 DEF PollLoop
<1>3. ASSUME NEW w \in Workers, Process(w) PROVE CandInv'
  <2>1. UNCHANGED row
    BY <1>3 DEF Process, ClaimDbError, Stop, Close, StopAfterDeadLoop, Crash,
                Start, Vanish
  <2>2. \A v \in Workers : v # w => /\ pc'[v] = pc[v]
                                    /\ cand'[v] = cand[v]
                                    /\ task'[v] = task[v]
    BY <1>3 DEF Process, ClaimDbError, Stop, Close, StopAfterDeadLoop, Crash,
                Start, Vanish, LeaveLoop
  <2>3. pc'[w] \notin {"update", "get"}
    BY <1>3 DEF Process, ClaimDbError, Stop, Close, StopAfterDeadLoop, Crash,
                Start, Vanish, LeaveLoop
  <2> QED BY <2>1, <2>2, <2>3
<1>4. ASSUME NEW w \in Workers, NEW j \in Jobs, JobTask(w, j) PROVE CandInv'
  <2>1. UNCHANGED <<pc, cand>>
    BY <1>4 DEF JobTask, ReadStoredRequest, EvaluateReturns, EvaluateRaises,
                FinishJob, FailJob, SettleDbError
  <2>2. \A i \in Jobs : row'[i] = "absent" => row[i] = "absent"
    BY <1>4 DEF JobTask, ReadStoredRequest, EvaluateReturns, EvaluateRaises,
                FinishJob, FailJob, SettleDbError
  <2>3. /\ task[w][j] # "none"
        /\ \A v \in Workers, i \in Jobs :
               v # w \/ i # j => task'[v][i] = task[v][i]
    BY <1>4 DEF JobTask, ReadStoredRequest, EvaluateReturns, EvaluateRaises,
                FinishJob, FailJob, SettleDbError, EndTask
  <2>4. ASSUME NEW v \in Workers, pc[v] \in {"update", "get"}
        PROVE  /\ cand[v] \in Jobs /\ row'[cand[v]] # "absent"
               /\ pc[v] = "get" => task'[v][cand[v]] = "none"
    <3>1. cand[v] \in Jobs /\ row[cand[v]] # "absent" BY <2>4
    <3>2. row'[cand[v]] # "absent" BY <2>2, <3>1
    <3>3. ASSUME pc[v] = "get" PROVE task'[v][cand[v]] = "none"
      <4>1. task[v][cand[v]] = "none" BY <3>3
      <4>2. v # w \/ cand[v] # j BY <2>3, <4>1
      <4> QED BY <2>3, <3>1, <4>1, <4>2
    <3> QED BY <3>1, <3>2, <3>3
  <2> QED BY <2>1, <2>4
<1>5. CASE UNCHANGED vars BY <1>5
<1> QED BY <1>1, <1>2, <1>3, <1>4, <1>5 DEF Next

------------------------------------------------------------------------------
\* A step that moves neither rows, claims, tasks nor losses keeps HoldInv.
LEMMA HoldUnchanged ==
  HoldInv /\ UNCHANGED <<row, pc, cand, task, lost>> => HoldInv'
BY DEF HoldInv, OneHolder, RunningIsHeldOrLost, Holds

\* At most one worker holds a job, and exactly the running rows are held or
\* lost: the conditional UPDATE hands a job over, StartTask moves it from the
\* claim to a task, and every way of dropping it either settles the row or
\* records the loss.
LEMMA HoldPreserved ==
  TypeOK /\ PostInv /\ CandInv /\ HoldInv /\ [Next]_vars => HoldInv'
<1> SUFFICES ASSUME TypeOK, PostInv, CandInv, HoldInv, [Next]_vars
             PROVE  HoldInv'
  OBVIOUS
<1> USE DEF TypeOK
<1>1. ASSUME NEW j \in Jobs, Api(j) PROVE HoldInv'
  <2>1. UNCHANGED <<pc, cand, task, lost>>
    BY <1>1 DEF Api, SubmitEvaluation, CreateJob, CreateJobDbError
  <2>2. \A i \in Jobs : row'[i] = "running" <=> row[i] = "running"
    BY <1>1 DEF Api, SubmitEvaluation, CreateJob, CreateJobDbError, PostInv
  <2>3. \A w \in Workers, i \in Jobs : Holds(w, i)' <=> Holds(w, i)
    BY <2>1 DEF Holds
  <2> QED
    BY <2>1, <2>2, <2>3 DEF HoldInv, OneHolder, RunningIsHeldOrLost
<1>2. ASSUME NEW w \in Workers, PollLoop(w) PROVE HoldInv'
  <2>1. CASE ClaimWin(w)
    <3> DEFINE c == cand[w]
    <3>1. c \in Jobs /\ row[c] = "queued" /\ pc[w] = "update"
      BY <2>1 DEF ClaimWin, CandInv, Claimable
    <3>2. \A v \in Workers, i \in Jobs :
              Holds(v, i)' <=> Holds(v, i) \/ (v = w /\ i = c)
      BY <2>1, <3>1 DEF ClaimWin, Holds
    <3>3. UNCHANGED lost /\ row' = [row EXCEPT ![c] = "running"]
      BY <2>1 DEF ClaimWin
    <3>4. c \notin lost /\ \A v \in Workers : ~Holds(v, c)
      BY <3>1 DEF HoldInv, OneHolder, RunningIsHeldOrLost
    <3> HIDE DEF c
    <3> QED
      BY <3>1, <3>2, <3>3, <3>4 DEF HoldInv, OneHolder, RunningIsHeldOrLost
  <2>2. CASE StartTask(w)
    <3> DEFINE c == cand[w]
    <3>1. c \in Jobs /\ pc[w] = "get" /\ task[w][c] = "none"
      BY <2>2 DEF StartTask, CandInv
    <3>2. UNCHANGED <<row, lost>>
      BY <2>2 DEF StartTask
    <3>3. \A v \in Workers : v # w => /\ pc'[v] = pc[v]
                                      /\ cand'[v] = cand[v]
                                      /\ task'[v] = task[v]
      BY <2>2 DEF StartTask
    <3>4. /\ pc'[w] = "acquire"
          /\ task'[w][c] = "start"
          /\ \A i \in Jobs : i # c => task'[w][i] = task[w][i]
      BY <2>2, <3>1 DEF StartTask
    <3>5. \A v \in Workers, i \in Jobs : Holds(v, i)' <=> Holds(v, i)
      BY <3>1, <3>3, <3>4 DEF Holds
    <3> QED BY <3>2, <3>5 DEF HoldInv, OneHolder, RunningIsHeldOrLost
  <2>3. ASSUME ~ClaimWin(w), ~StartTask(w) PROVE HoldInv'
    <3>1. UNCHANGED <<row, task, lost>>
      BY <1>2, <2>3
      DEF PollLoop, AcquireSlot, ClaimSelect, ClaimNothing, PollAgain,
          ClaimLose
    <3>2. /\ \A v \in Workers : v # w => pc'[v] = pc[v] /\ cand'[v] = cand[v]
          /\ pc[w] # "get" /\ pc'[w] # "get"
      BY <1>2, <2>3
      DEF PollLoop, AcquireSlot, ClaimSelect, ClaimNothing, PollAgain,
          ClaimLose
    <3>3. \A v \in Workers, i \in Jobs : Holds(v, i)' <=> Holds(v, i)
      BY <3>1, <3>2 DEF Holds
    <3> QED BY <3>1, <3>3 DEF HoldInv, OneHolder, RunningIsHeldOrLost
  <2> QED BY <2>1, <2>2, <2>3
<1>3. ASSUME NEW w \in Workers, Process(w) PROVE HoldInv'
  <2>1. UNCHANGED row
    BY <1>3 DEF Process, ClaimDbError, Stop, Close, StopAfterDeadLoop, Crash,
                Start, Vanish
  <2>2. \A v \in Workers, i \in Jobs :
            v # w => (Holds(v, i)' <=> Holds(v, i))
    BY <1>3 DEF Process, ClaimDbError, Stop, Close, StopAfterDeadLoop, Crash,
                Start, Vanish, LeaveLoop, Holds
  <2>3. \A i \in Jobs : Holds(w, i)' => Holds(w, i)
    BY <1>3 DEF Process, ClaimDbError, Stop, Close, StopAfterDeadLoop, Crash,
                Start, Vanish, LeaveLoop, Holds
  <2>4. \A i \in Jobs :
            i \in lost' <=> i \in lost \/ (Holds(w, i) /\ ~Holds(w, i)')
    <3>1. CASE ClaimDbError(w) \/ Stop(w)
      <4>1. /\ UNCHANGED task
            /\ pc'[w] # "get"
            /\ lost' = IF pc[w] = "get" THEN lost \cup {cand[w]} ELSE lost
        BY <3>1 DEF ClaimDbError, Stop, LeaveLoop
      <4>2. pc[w] = "get" => cand[w] \in Jobs /\ task[w][cand[w]] = "none"
        BY DEF CandInv
      <4>3. \A i \in Jobs : Holds(w, i)' <=> task[w][i] # "none"
        BY <4>1 DEF Holds
      <4> QED BY <4>1, <4>2, <4>3 DEF Holds
    <3>2. CASE Close(w) \/ Start(w)
      BY <3>2 DEF Close, Start, Holds
    <3>3. CASE StopAfterDeadLoop(w) \/ Crash(w)
      <4>1. Vanish(w) BY <3>3 DEF StopAfterDeadLoop, Crash
      <4>2. \A i \in Jobs : ~Holds(w, i)' BY <4>1 DEF Vanish, Holds
      <4>3. \A i \in Jobs : i \in lost' <=> i \in lost \/ Holds(w, i)
        BY <4>1 DEF Vanish, Held
      <4> QED BY <4>2, <4>3
    <3> QED BY <1>3, <3>1, <3>2, <3>3 DEF Process
  <2> QED
    BY <2>1, <2>2, <2>3, <2>4 DEF HoldInv, OneHolder, RunningIsHeldOrLost
<1>4. ASSUME NEW w \in Workers, NEW j \in Jobs, JobTask(w, j) PROVE HoldInv'
  <2>1. UNCHANGED <<pc, cand>> /\ task[w][j] # "none"
    BY <1>4 DEF JobTask, ReadStoredRequest, EvaluateReturns, EvaluateRaises,
                FinishJob, FailJob, SettleDbError
  <2>2. Holds(w, j) /\ row[j] = "running" /\ j \notin lost
    BY <2>1 DEF Holds, HoldInv, OneHolder
  <2>3. \A v \in Workers, i \in Jobs :
            v # w \/ i # j => (Holds(v, i)' <=> Holds(v, i))
    BY <1>4, <2>1
    DEF JobTask, ReadStoredRequest, EvaluateReturns, EvaluateRaises,
        FinishJob, FailJob, SettleDbError, EndTask, Holds
  <2>4. ~(pc[w] = "get" /\ cand[w] = j)
    BY <2>1 DEF CandInv
  <2>5. \/ Holds(w, j)' /\ UNCHANGED <<row, lost>>
        \/ /\ ~Holds(w, j)'
           /\ UNCHANGED lost
           /\ \E s \in Settled : row' = [row EXCEPT ![j] = s]
        \/ ~Holds(w, j)' /\ lost' = lost \cup {j} /\ UNCHANGED row
    <3>1. CASE ReadStoredRequest(w, j) \/ EvaluateReturns(w, j)
               \/ EvaluateRaises(w, j)
      BY <3>1, <2>1
      DEF ReadStoredRequest, EvaluateReturns, EvaluateRaises, Holds
    <3>2. CASE FinishJob(w, j) \/ FailJob(w, j)
      BY <3>2, <2>1, <2>4 DEF FinishJob, FailJob, EndTask, Holds, Settled
    <3>3. CASE SettleDbError(w, j)
      BY <3>3, <2>1, <2>4 DEF SettleDbError, EndTask, Holds
    <3> QED BY <1>4, <3>1, <3>2, <3>3 DEF JobTask
  <2>6. CASE Holds(w, j)' /\ UNCHANGED <<row, lost>>
    BY <2>2, <2>3, <2>6 DEF HoldInv, OneHolder, RunningIsHeldOrLost
  <2>7. ASSUME ~Holds(w, j)', UNCHANGED lost,
               NEW s \in Settled, row' = [row EXCEPT ![j] = s]
        PROVE  HoldInv'
    <3>1. row'[j] # "running" /\ \A i \in Jobs : i # j => row'[i] = row[i]
      BY <2>7 DEF Settled
    <3>2. \A v \in Workers : ~Holds(v, j)'
      BY <2>2, <2>3, <2>7 DEF HoldInv, OneHolder
    <3> QED
      BY <2>2, <2>3, <2>7, <3>1, <3>2
      DEF HoldInv, OneHolder, RunningIsHeldOrLost
  <2>8. CASE ~Holds(w, j)' /\ lost' = lost \cup {j} /\ UNCHANGED row
    <3>1. \A v \in Workers : ~Holds(v, j)'
      BY <2>2, <2>3, <2>8 DEF HoldInv, OneHolder
    <3> QED
      BY <2>2, <2>3, <2>8, <3>1 DEF HoldInv, OneHolder, RunningIsHeldOrLost
  <2> QED BY <2>5, <2>6, <2>7, <2>8
<1>5. CASE UNCHANGED vars BY <1>5, HoldUnchanged
<1> QED BY <1>1, <1>2, <1>3, <1>4, <1>5 DEF Next

------------------------------------------------------------------------------
\* Jobs are claimed in the order in which they were accepted: what was stored
\* before a candidate was submitted is older, was not queued when the
\* candidate was selected, and cannot be queued again.
LEMMA OrderPreserved ==
  TypeOK /\ PostInv /\ CandInv /\ HoldInv /\ OrderInv /\ [Next]_vars
    => OrderInv'
<1> SUFFICES ASSUME TypeOK, PostInv, CandInv, HoldInv, OrderInv, [Next]_vars
             PROVE  OrderInv'
  OBVIOUS
<1> USE DEF TypeOK
\* It is enough that no stored job is queued again, that a job leaves the
\* queue only as the candidate of a claim, and that a new candidate is oldest.
<1>0. ASSUME UNCHANGED <<older, before>>,
             \A i \in Jobs : row[i] # "absent" =>
                 /\ row'[i] # "absent"
                 /\ row[i] # "queued" => row'[i] # "queued",
             \A i \in Jobs : row'[i] \notin {"absent", "queued"} =>
                 \/ row[i] \notin {"absent", "queued"}
                 \/ \E v \in Workers : pc[v] = "update" /\ cand[v] = i,
             \A v \in Workers : pc'[v] = "update" =>
                 \/ pc[v] = "update" /\ cand'[v] = cand[v]
                 \/ cand'[v] \in OldestQueued
      PROVE  OrderInv'
  <2>1. \A j \in Jobs : \A i \in before[j] :
            /\ i \in Jobs /\ i \in older[j] /\ row[i] # "absent"
            /\ row'[i] # "absent"
            /\ row[i] # "queued" => row'[i] # "queued"
    BY <1>0 DEF OrderInv
  <2>2. \A v \in Workers : pc'[v] = "update" =>
            cand'[v] \in Jobs /\ \A i \in before[cand'[v]] : row[i] # "queued"
    BY <1>0, <2>1 DEF OrderInv, OldestQueued, CandInv
  <2>3. \A j \in Jobs : row'[j] \notin {"absent", "queued"} =>
            \A i \in before[j] : row[i] # "queued"
    BY <1>0 DEF OrderInv, ClaimedInOrder, CandInv
  <2> QED BY <1>0, <2>1, <2>2, <2>3 DEF OrderInv, ClaimedInOrder
<1>1. ASSUME NEW j \in Jobs, Api(j) PROVE OrderInv'
  <2>1. CASE SubmitEvaluation(j)
    <3>1. /\ row[j] = "absent"
          /\ UNCHANGED <<row, pc, cand>>
          /\ before'[j] = {i \in Jobs : row[i] # "absent"}
          /\ older'[j] = {i \in Jobs : post[i] # "none"}
          /\ \A i \in Jobs : i # j => /\ before'[i] = before[i]
                                      /\ older'[i] = older[i]
      BY <2>1 DEF SubmitEvaluation, PostInv
    <3>2. \A v \in Workers : pc[v] = "update" => cand[v] \in Jobs \ {j}
      BY <3>1 DEF CandInv
    <3>3. \A i \in before'[j] : i \in older'[j]
      BY <3>1 DEF PostInv
    <3>4. \A k \in Jobs : \A i \in before'[k] :
              i \in older'[k] /\ row'[i] # "absent"
      BY <3>1, <3>3 DEF OrderInv
    <3>5. \A v \in Workers :
              pc'[v] = "update" => \A i \in before'[cand'[v]] : row'[i] # "queued"
      BY <3>1, <3>2 DEF OrderInv
    <3>6. ClaimedInOrder'
      BY <3>1 DEF OrderInv, ClaimedInOrder
    <3> QED BY <3>4, <3>5, <3>6 DEF OrderInv
  <2>2. CASE CreateJob(j) \/ CreateJobDbError(j)
    <3>1. UNCHANGED <<older, before, pc, cand>> /\ row[j] = "absent"
      BY <2>2 DEF CreateJob, CreateJobDbError, PostInv
    <3>2. row' = row \/ row' = [row EXCEPT ![j] = "queued"]
      BY <2>2 DEF CreateJob, CreateJobDbError
    <3> QED BY <1>0, <3>1, <3>2
  <2> QED BY <1>1, <2>1, <2>2 DEF Api
<1>2. ASSUME NEW w \in Workers, PollLoop(w) PROVE OrderInv'
  <2>1. UNCHANGED <<older, before>>
    BY <1>2 DEF PollLoop, AcquireSlot, ClaimSelect, ClaimNothing, PollAgain,
                ClaimWin, ClaimLose, StartTask
  <2>2. CASE ClaimWin(w)
    <3>1. /\ cand[w] \in Jobs /\ pc[w] = "update"
          /\ row' = [row EXCEPT ![cand[w]] = "running"]
          /\ UNCHANGED cand
          /\ \A v \in Workers : pc'[v] = "update" => pc[v] = "update"
      BY <2>2 DEF ClaimWin, CandInv
    <3> QED BY <1>0, <2>1, <3>1
  <2>3. CASE ClaimSelect(w)
    <3>1. /\ UNCHANGED row
          /\ cand'[w] \in OldestQueued
          /\ \A v \in Workers : v # w => pc'[v] = pc[v] /\ cand'[v] = cand[v]
      BY <2>3 DEF ClaimSelect, OldestQueued
    <3> QED BY <1>0, <2>1, <3>1
  <2>4. ASSUME ~ClaimWin(w), ~ClaimSelect(w) PROVE OrderInv'
    <3>1. /\ UNCHANGED row /\ pc'[w] # "update"
          /\ \A v \in Workers : v # w => pc'[v] = pc[v] /\ cand'[v] = cand[v]
      BY <1>2, <2>4
      DEF PollLoop, AcquireSlot, ClaimNothing, PollAgain, ClaimLose, StartTask
    <3> QED BY <1>0, <2>1, <3>1
  <2> QED BY <2>2, <2>3, <2>4
<1>3. ASSUME NEW w \in Workers, Process(w) PROVE OrderInv'
  <2>1. UNCHANGED <<row, older, before>> /\ pc'[w] # "update"
    BY <1>3 DEF Process, ClaimDbError, Stop, Close, StopAfterDeadLoop, Crash,
                Start, Vanish, LeaveLoop
  <2>2. \A v \in Workers : v # w => pc'[v] = pc[v] /\ cand'[v] = cand[v]
    BY <1>3 DEF Process, ClaimDbError, Stop, Close, StopAfterDeadLoop, Crash,
                Start, Vanish, LeaveLoop
  <2> QED BY <1>0, <2>1, <2>2
<1>4. ASSUME NEW w \in Workers, NEW j \in Jobs, JobTask(w, j) PROVE OrderInv'
  <2>1. UNCHANGED <<older, before, pc, cand>>
    BY <1>4 DEF JobTask, ReadStoredRequest, EvaluateReturns, EvaluateRaises,
                FinishJob, FailJob, SettleDbError
  <2>2. row[j] = "running"
    BY <1>4 DEF JobTask, ReadStoredRequest, EvaluateReturns, EvaluateRaises,
                FinishJob, FailJob, SettleDbError, HoldInv, OneHolder, Holds
  <2>3. UNCHANGED row \/ \E s \in Settled : row' = [row EXCEPT ![j] = s]
    BY <1>4 DEF JobTask, ReadStoredRequest, EvaluateReturns, EvaluateRaises,
                FinishJob, FailJob, SettleDbError, Settled
  <2> QED BY <1>0, <2>1, <2>2, <2>3 DEF Settled
<1>5. CASE UNCHANGED vars BY <1>0, <1>5
<1> QED BY <1>1, <1>2, <1>3, <1>4, <1>5 DEF Next

------------------------------------------------------------------------------
\* The loop variable of the task that holds a job is the number of calls made
\* for it, so the bound on attempts bounds the calls of all workers together.
LEMMA CallsPreserved ==
  TypeOK /\ PostInv /\ CandInv /\ HoldInv /\ CallsInv /\ [Next]_vars
    => CallsInv'
<1> SUFFICES ASSUME TypeOK, PostInv, CandInv, HoldInv, CallsInv, [Next]_vars
             PROVE  CallsInv'
  OBVIOUS
<1> USE DEF TypeOK
<1>0. ASSUME UNCHANGED calls,
             \A i \in Jobs : /\ row'[i] \in {"absent", "queued"} =>
                                    row[i] \in {"absent", "queued"}
                             /\ row'[i] = "done" => row[i] = "done" \/ calls[i] > 0,
             \A v \in Workers : pc'[v] = "get" =>
                 /\ cand'[v] = cand[v]
                 /\ pc[v] = "get" \/ calls[cand[v]] = 0,
             \A v \in Workers, i \in Jobs :
                 task'[v][i] \in {"none", "fail"} \/ task'[v][i] = task[v][i],
             \A v \in Workers, i \in Jobs :
                 task'[v][i] # "none" =>
                     task[v][i] # "none" /\ attempt'[v][i] = attempt[v][i]
      PROVE  CallsInv'
  <2>1. JudgeCallsBounded' BY <1>0 DEF CallsInv, JudgeCallsBounded
  <2>2. \A j \in Jobs : row'[j] \in {"absent", "queued"} => calls'[j] = 0
    BY <1>0 DEF CallsInv
  <2>3. \A w \in Workers : pc'[w] = "get" => calls'[cand'[w]] = 0
    BY <1>0 DEF CallsInv
  <2>4. \A w \in Workers, j \in Jobs :
           /\ task'[w][j] # "none" => calls'[j] = attempt'[w][j]
           /\ task'[w][j] = "start" => attempt'[w][j] = 0
           /\ task'[w][j] \in {"evaluate", "finish"} =>
                  j \notin Unreadable /\ attempt'[w][j] > 0
    BY <1>0 DEF CallsInv
  <2> QED BY <2>1, <2>2, <2>3, <2>4 DEF CallsInv
<1>1. ASSUME NEW j \in Jobs, Api(j) PROVE CallsInv'
  <2>1. UNCHANGED <<calls, pc, cand, task, attempt>>
    BY <1>1 DEF Api, SubmitEvaluation, CreateJob, CreateJobDbError
  <2>2. UNCHANGED row \/ (row[j] = "absent" /\ row' = [row EXCEPT ![j] = "queued"])
    BY <1>1 DEF Api, SubmitEvaluation, CreateJob, CreateJobDbError, PostInv
  <2> QED BY <1>0, <2>1, <2>2
<1>2. ASSUME NEW w \in Workers, PollLoop(w) PROVE CallsInv'
  <2>1. CASE ClaimWin(w)
    <3>1. /\ cand[w] \in Jobs /\ row[cand[w]] = "queued"
          /\ row' = [row EXCEPT ![cand[w]] = "running"]
          /\ UNCHANGED <<cand, calls, task, attempt>>
          /\ \A v \in Workers : v # w => pc'[v] = pc[v]
      BY <2>1 DEF ClaimWin, CandInv, Claimable
    <3>2. calls[cand[w]] = 0 BY <3>1 DEF CallsInv
    <3> QED BY <1>0, <3>1, <3>2
  <2>2. CASE StartTask(w)
    <3> DEFINE c == cand[w]
    <3>1. /\ c \in Jobs /\ calls[c] = 0
          /\ UNCHANGED <<row, calls>>
          /\ task'[w][c] = "start" /\ attempt'[w][c] = 0
          /\ pc'[w] = "acquire"
      BY <2>2 DEF StartTask, CandInv, CallsInv
    <3>2. \A v \in Workers : v # w => /\ pc'[v] = pc[v]
                                      /\ cand'[v] = cand[v]
      BY <2>2 DEF StartTask
    <3>3. \A v \in Workers, i \in Jobs : v # w \/ i # c =>
              task'[v][i] = task[v][i] /\ attempt'[v][i] = attempt[v][i]
      BY <2>2, <3>1 DEF StartTask
    <3> HIDE DEF c
    <3>4. JudgeCallsBounded' BY <3>1 DEF CallsInv, JudgeCallsBounded
    <3>5. \A v \in Workers, i \in Jobs :
             /\ task'[v][i] # "none" => calls'[i] = attempt'[v][i]
             /\ task'[v][i] = "start" => attempt'[v][i] = 0
             /\ task'[v][i] \in {"evaluate", "finish"} =>
                    i \notin Unreadable /\ attempt'[v][i] > 0
      BY <3>1, <3>3 DEF CallsInv
    <3>6. \A i \in Jobs : row'[i] \in {"absent", "queued"} => calls'[i] = 0
      BY <3>1 DEF CallsInv
    <3>7. \A v \in Workers : pc'[v] = "get" => calls'[cand'[v]] = 0
      BY <3>1, <3>2 DEF CallsInv
    <3> QED BY <3>4, <3>5, <3>6, <3>7 DEF CallsInv
  <2>3. ASSUME ~ClaimWin(w), ~StartTask(w) PROVE CallsInv'
    <3>1. UNCHANGED <<row, calls, task, attempt>>
      BY <1>2, <2>3
      DEF PollLoop, AcquireSlot, ClaimSelect, ClaimNothing, PollAgain,
          ClaimLose
    <3>2. /\ \A v \in Workers : v # w => pc'[v] = pc[v] /\ cand'[v] = cand[v]
          /\ pc'[w] # "get"
      BY <1>2, <2>3
      DEF PollLoop, AcquireSlot, ClaimSelect, ClaimNothing, PollAgain,
          ClaimLose
    <3> QED BY <1>0, <3>1, <3>2
  <2> QED BY <2>1, <2>2, <2>3
<1>3. ASSUME NEW w \in Workers, Process(w) PROVE CallsInv'
  <2>1. UNCHANGED <<row, calls>> /\ pc'[w] # "get"
    BY <1>3 DEF Process, ClaimDbError, Stop, Close, StopAfterDeadLoop, Crash,
                Start, Vanish, LeaveLoop
  <2>2. \A v \in Workers : v # w => /\ pc'[v] = pc[v]
                                    /\ cand'[v] = cand[v]
                                    /\ task'[v] = task[v]
                                    /\ attempt'[v] = attempt[v]
    BY <1>3 DEF Process, ClaimDbError, Stop, Close, StopAfterDeadLoop, Crash,
                Start, Vanish, LeaveLoop
  <2>3. \/ task'[w] = task[w] /\ attempt'[w] = attempt[w]
        \/ \A i \in Jobs : task'[w][i] = "none"
    BY <1>3 DEF Process, ClaimDbError, Stop, Close, StopAfterDeadLoop, Crash,
                Start, Vanish, LeaveLoop
  <2> QED BY <1>0, <2>1, <2>2, <2>3
<1>4. ASSUME NEW w \in Workers, NEW j \in Jobs, JobTask(w, j) PROVE CallsInv'
  <2>1. UNCHANGED <<pc, cand>> /\ task[w][j] # "none"
    BY <1>4 DEF JobTask, ReadStoredRequest, EvaluateReturns, EvaluateRaises,
                FinishJob, FailJob, SettleDbError
  <2>2. /\ row[j] = "running"
        /\ \A v \in Workers : v # w => task[v][j] = "none"
        /\ \A v \in Workers : ~(pc[v] = "get" /\ cand[v] = j)
        /\ calls[j] = attempt[w][j]
    BY <2>1 DEF HoldInv, OneHolder, Holds, CandInv, CallsInv
  <2>3. \A v \in Workers, i \in Jobs : v # w \/ i # j =>
            task'[v][i] = task[v][i] /\ attempt'[v][i] = attempt[v][i]
    BY <1>4 DEF JobTask, ReadStoredRequest, EvaluateReturns, EvaluateRaises,
                FinishJob, FailJob, SettleDbError, EndTask, CallJudge
  <2>4. ASSUME CallJudge(w, j), task'[w][j] = "evaluate", UNCHANGED row,
               j \notin Unreadable, attempt[w][j] < AttemptsPerJob
        PROVE  CallsInv'
    <3>1. /\ calls'[j] = calls[j] + 1 /\ attempt'[w][j] = attempt[w][j] + 1
          /\ \A i \in Jobs : i # j => calls'[i] = calls[i]
      BY <2>4 DEF CallJudge
    <3>2. JudgeCallsBounded'
      BY <2>2, <2>4, <3>1, ServiceAssumption DEF CallsInv, JudgeCallsBounded
    <3>3. \A v \in Workers : pc'[v] = "get" => calls'[cand'[v]] = 0
      BY <2>1, <2>2, <3>1 DEF CallsInv, CandInv
    <3>4. \A i \in Jobs : row'[i] \in {"absent", "queued"} => calls'[i] = 0
      BY <2>2, <2>4, <3>1 DEF CallsInv
    <3>5. \A v \in Workers, i \in Jobs :
             /\ task'[v][i] # "none" => calls'[i] = attempt'[v][i]
             /\ task'[v][i] = "start" => attempt'[v][i] = 0
             /\ task'[v][i] \in {"evaluate", "finish"} =>
                    i \notin Unreadable /\ attempt'[v][i] > 0
      <4> TAKE v \in Workers, i \in Jobs
      <4>1. CASE v = w /\ i = j BY <2>2, <2>4, <3>1, <4>1
      <4>2. CASE i = j /\ v # w BY <2>2, <2>3, <4>2
      <4>3. CASE i # j BY <2>3, <3>1, <4>3 DEF CallsInv
      <4> QED BY <4>1, <4>2, <4>3
    <3> QED BY <3>2, <3>3, <3>4, <3>5 DEF CallsInv
  <2>5. CASE ReadStoredRequest(w, j)
    <3>1. task[w][j] = "start" /\ attempt[w][j] = 0 /\ UNCHANGED row
      BY <2>5 DEF ReadStoredRequest, CallsInv
    <3>2. CASE j \in Unreadable
      BY <1>0, <2>1, <2>3, <2>5, <3>1, <3>2 DEF ReadStoredRequest
    <3>3. CASE j \notin Unreadable
      BY <2>4, <2>5, <3>1, <3>3, ServiceAssumption DEF ReadStoredRequest
    <3> QED BY <3>2, <3>3
  <2>6. CASE EvaluateReturns(w, j)
    <3>1. /\ task[w][j] = "evaluate" /\ task'[w][j] = "finish"
          /\ UNCHANGED <<row, calls, attempt>>
      BY <2>6 DEF EvaluateReturns
    <3>2. j \notin Unreadable /\ attempt[w][j] > 0 BY <3>1 DEF CallsInv
    <3>3. \A v \in Workers, i \in Jobs :
             /\ task'[v][i] # "none" => calls'[i] = attempt'[v][i]
             /\ task'[v][i] = "start" => attempt'[v][i] = 0
             /\ task'[v][i] \in {"evaluate", "finish"} =>
                    i \notin Unreadable /\ attempt'[v][i] > 0
      BY <2>2, <2>3, <3>1, <3>2 DEF CallsInv
    <3> QED BY <2>1, <3>1, <3>3 DEF CallsInv, JudgeCallsBounded
  <2>7. CASE EvaluateRaises(w, j)
    <3>1. /\ task[w][j] = "evaluate" /\ UNCHANGED row
          /\ j \notin Unreadable
      BY <2>7 DEF EvaluateRaises, CallsInv
    <3>2. CASE MoreAttempts(w, j)
      BY <2>4, <2>7, <3>1, <3>2 DEF EvaluateRaises, MoreAttempts
    <3>3. CASE ~MoreAttempts(w, j)
      BY <1>0, <2>1, <2>3, <2>7, <3>1, <3>3 DEF EvaluateRaises
    <3> QED BY <3>2, <3>3
  <2>8. CASE FinishJob(w, j)
    <3>1. calls[j] > 0 BY <2>2, <2>8 DEF FinishJob, CallsInv
    <3> QED BY <1>0, <2>1, <2>2, <2>3, <2>8, <3>1 DEF FinishJob, EndTask
  <2>9. CASE FailJob(w, j) \/ SettleDbError(w, j)
    BY <1>0, <2>1, <2>2, <2>3, <2>9 DEF FailJob, SettleDbError, EndTask
  <2> QED BY <1>4, <2>5, <2>6, <2>7, <2>8, <2>9 DEF JobTask
<1>5. CASE UNCHANGED vars BY <1>0, <1>5
<1> QED BY <1>1, <1>2, <1>3, <1>4, <1>5 DEF Next

------------------------------------------------------------------------------
\* The judge client is closed only when no task of its worker is left.
LEMMA JudgePreserved ==
  TypeOK /\ CandInv /\ JudgeOpenDuringEvaluation /\ [Next]_vars
    => JudgeOpenDuringEvaluation'
<1> SUFFICES ASSUME TypeOK, CandInv, JudgeOpenDuringEvaluation, [Next]_vars
             PROVE  JudgeOpenDuringEvaluation'
  OBVIOUS
<1> USE DEF TypeOK, JudgeOpenDuringEvaluation
<1>1. ASSUME NEW j \in Jobs, Api(j) PROVE JudgeOpenDuringEvaluation'
  BY <1>1 DEF Api, SubmitEvaluation, CreateJob, CreateJobDbError
<1>2. ASSUME NEW w \in Workers, PollLoop(w)
      PROVE  JudgeOpenDuringEvaluation'
  <2>1. CASE StartTask(w)
    <3>1. cand[w] \in Jobs BY <2>1 DEF StartTask, CandInv
    <3>2. \A v \in Workers, i \in Jobs :
              task'[v][i] = task[v][i] \/ task'[v][i] = "start"
      BY <2>1, <3>1 DEF StartTask
    <3> QED BY <2>1, <3>2 DEF StartTask
  <2>2. ASSUME ~StartTask(w) PROVE JudgeOpenDuringEvaluation'
    <3>1. UNCHANGED <<judge, task>>
      BY <1>2, <2>2 DEF PollLoop, AcquireSlot, ClaimSelect, ClaimNothing,
                        PollAgain, ClaimWin, ClaimLose
    <3> QED BY <3>1
  <2> QED BY <2>1, <2>2
<1>3. ASSUME NEW w \in Workers, Process(w) PROVE JudgeOpenDuringEvaluation'
  <2>1. \A v \in Workers : v # w => judge'[v] = judge[v] /\ task'[v] = task[v]
    BY <1>3 DEF Process, ClaimDbError, Stop, Close, StopAfterDeadLoop, Crash,
                Start, Vanish
  <2>2. \/ judge'[w] = judge[w] /\ task'[w] = task[w]
        \/ \A i \in Jobs : task'[w][i] = "none"
    BY <1>3 DEF Process, ClaimDbError, Stop, Close, StopAfterDeadLoop, Crash,
                Start, Vanish, Tasks
  <2>3. ASSUME NEW v \in Workers, NEW i \in Jobs, task'[v][i] = "evaluate"
        PROVE  judge'[v] = "open"
    <3>1. CASE v = w /\ (\A k \in Jobs : task'[w][k] = "none")
      <4>1. task'[w][i] = "none" BY <3>1
      <4> QED BY <2>3, <3>1, <4>1
    <3>2. CASE judge'[v] = judge[v] /\ task'[v] = task[v]
      <4>1. task[v][i] = "evaluate" BY <2>3, <3>2
      <4> QED BY <3>2, <4>1
    <3> QED BY <2>1, <2>2, <3>1, <3>2
  <2> QED BY <2>3
<1>4. ASSUME NEW w \in Workers, NEW j \in Jobs, JobTask(w, j)
      PROVE  JudgeOpenDuringEvaluation'
  <2>1. \A v \in Workers, i \in Jobs :
            v # w \/ i # j => task'[v][i] = task[v][i]
    BY <1>4 DEF JobTask, ReadStoredRequest, EvaluateReturns, EvaluateRaises,
                FinishJob, FailJob, SettleDbError, EndTask
  <2>2. \A v \in Workers : judge'[v] = judge[v] \/ judge'[v] = "open"
    BY <1>4 DEF JobTask, ReadStoredRequest, EvaluateReturns, EvaluateRaises,
                FinishJob, FailJob, SettleDbError, CallJudge
  <2>3. task'[w][j] = "evaluate" =>
            task[w][j] = "evaluate" \/ judge'[w] = "open"
    BY <1>4 DEF JobTask, ReadStoredRequest, EvaluateReturns, EvaluateRaises,
                FinishJob, FailJob, SettleDbError, EndTask, CallJudge
  <2>4. ASSUME NEW v \in Workers, NEW i \in Jobs, task'[v][i] = "evaluate"
        PROVE  judge'[v] = "open"
    <3>1. CASE v = w /\ i = j BY <2>2, <2>3, <2>4, <3>1
    <3>2. CASE v # w \/ i # j BY <2>1, <2>2, <2>4, <3>2
    <3> QED BY <3>1, <3>2
  <2> QED BY <2>4
<1>5. CASE UNCHANGED vars BY <1>5
<1> QED BY <1>1, <1>2, <1>3, <1>4, <1>5 DEF Next

\* The invariant is inductive.
LEMMA NextIInv == IInv /\ [Next]_vars => IInv'
  BY TypePreserved, PostPreserved, CandPreserved, HoldPreserved,
     OrderPreserved, CallsPreserved, JudgePreserved DEF IInv

THEOREM Inductive == Spec => []IInv
  BY InitIInv, NextIInv, PTL DEF Spec

(***************************************************************************)
(* What follows from it.                                                   *)
(***************************************************************************)

\* Every variable keeps its type.
THEOREM TypeCorrect == Spec => []TypeOK
<1>1. IInv => TypeOK BY DEF IInv
<1> QED BY Inductive, <1>1, PTL

\* No two workers ever hold the same job: claim_next_queued_job hands every
\* job to at most one task, for any number of workers.
THEOREM ClaimExclusive == Spec => []OneHolder
<1>1. IInv => OneHolder BY DEF IInv, HoldInv
<1> QED BY Inductive, <1>1, PTL

\* A row says "running" exactly while somebody holds the job or has lost it.
THEOREM RunningAccounted == Spec => []RunningIsHeldOrLost
<1>1. IInv => RunningIsHeldOrLost BY DEF IInv, HoldInv
<1> QED BY Inductive, <1>1, PTL

\* Jobs are claimed in the order of their acceptance.
THEOREM FirstComeFirstServed == Spec => []ClaimedInOrder
<1>1. IInv => ClaimedInOrder BY DEF IInv, OrderInv
<1> QED BY Inductive, <1>1, PTL

\* A job costs the judge at most AttemptsPerJob evaluations, over all workers.
THEOREM JudgeBudget == Spec => []JudgeCallsBounded
<1>1. IInv => JudgeCallsBounded BY DEF IInv, CallsInv
<1> QED BY Inductive, <1>1, PTL

\* aclose never closes the judge client under a running evaluation.
THEOREM JudgeLifetime == Spec => []JudgeOpenDuringEvaluation
<1>1. IInv => JudgeOpenDuringEvaluation BY DEF IInv
<1> QED BY Inductive, <1>1, PTL

\* A job the API answered 202 for is in the table from then on.
THEOREM AcceptedStored == Spec => []AcceptedIsStored
<1>1. IInv => AcceptedIsStored BY DEF IInv, PostInv, AcceptedIsStored
<1> QED BY Inductive, <1>1, PTL

------------------------------------------------------------------------------
(***************************************************************************)
(* The semaphore, by counting tasks.                                       *)
(***************************************************************************)
Busy(w) == Cardinality(Tasks(w))

\* One worker's slots: a claim in progress or a task has each one it took.
SlotsInv(w) ==
    /\ permits[w] + Busy(w) + (IF pc[w] \in Claiming THEN 1 ELSE 0)
           <= WorkerConcurrency
    /\ pc[w] \in Polling =>
           permits[w] + Busy(w) + (IF pc[w] \in Claiming THEN 1 ELSE 0)
               = WorkerConcurrency
    /\ pc[w] = "stopped" => Busy(w) = 0

PermitInv == \A w \in Workers : SlotsInv(w)

\* There are finitely many jobs, so a worker's tasks can be counted.
LEMMA BusyIsNat == \A w \in Workers : IsFiniteSet(Tasks(w)) /\ Busy(w) \in Nat
<1> SUFFICES ASSUME NEW w \in Workers
             PROVE  IsFiniteSet(Tasks(w)) /\ Busy(w) \in Nat
  OBVIOUS
<1>1. Tasks(w) \in SUBSET Jobs BY DEF Tasks
<1>2. IsFiniteSet(Tasks(w)) BY <1>1, FS_Subset, ServiceAssumption
<1> QED BY <1>2, FS_CardinalityType DEF Busy

\* A new worker has all its slots.
LEMMA InitPermit == Init => PermitInv
<1> SUFFICES ASSUME Init, NEW w \in Workers PROVE SlotsInv(w)
  BY DEF PermitInv
<1>1. Tasks(w) = {} BY DEF Init, Tasks
<1>2. Busy(w) = 0 BY <1>1, FS_EmptySet DEF Busy
<1> QED BY <1>2, ServiceAssumption DEF Init, SlotsInv

\* The slots of a worker that a step does not concern.
LEMMA SlotsUnchanged ==
  ASSUME NEW w \in Workers, SlotsInv(w),
         permits'[w] = permits[w], pc'[w] = pc[w], task'[w] = task[w]
  PROVE  SlotsInv(w)'
<1>1. Tasks(w)' = Tasks(w) BY DEF Tasks
<1>2. Busy(w)' = Busy(w) BY <1>1 DEF Busy
<1> QED BY <1>2 DEF SlotsInv

\* The poll loop takes a slot before it claims and hands it to the task or
\* gives it back.
LEMMA PollPermit ==
  ASSUME TypeOK, CandInv, NEW w \in Workers, SlotsInv(w), PollLoop(w)
  PROVE  SlotsInv(w)'
<1> USE DEF TypeOK
<1>0. Busy(w) \in Nat /\ permits[w] \in Nat BY BusyIsNat
<1>1. CASE StartTask(w)
  <2> DEFINE c == cand[w]
  <2>1. c \in Jobs /\ pc[w] = "get" /\ task[w][c] = "none"
    BY <1>1 DEF StartTask, CandInv
  <2>2. task'[w] = [task[w] EXCEPT ![c] = "start"] BY <1>1 DEF StartTask
  <2>3. c \notin Tasks(w) /\ Tasks(w)' = Tasks(w) \cup {c}
    BY <2>1, <2>2 DEF Tasks
  <2>4. IsFiniteSet(Tasks(w)) BY BusyIsNat
  <2> HIDE DEF c
  <2>5. Busy(w)' = Busy(w) + 1 BY <2>3, <2>4, FS_AddElement DEF Busy
  <2>6. pc'[w] = "acquire" /\ permits'[w] = permits[w]
    BY <1>1 DEF StartTask
  <2>7. /\ permits[w] + Busy(w) + 1 = WorkerConcurrency
        /\ WorkerConcurrency \in Nat
    BY <2>1, ServiceAssumption DEF SlotsInv
  <2>8. permits'[w] + Busy(w)' = WorkerConcurrency
    BY <1>0, <2>5, <2>6, <2>7
  <2> QED BY <1>0, <2>5, <2>6, <2>7, <2>8 DEF SlotsInv
<1>2. ASSUME ~StartTask(w) PROVE SlotsInv(w)'
  <2>1. UNCHANGED task
    BY <1>2 DEF PollLoop, AcquireSlot, ClaimSelect, ClaimNothing, PollAgain,
                ClaimWin, ClaimLose, taskVars
  <2>2. Tasks(w)' = Tasks(w) BY <2>1 DEF Tasks
  <2>3. Busy(w)' = Busy(w) BY <2>2 DEF Busy
  <2> QED
    BY <1>0, <1>2, <2>3, ServiceAssumption
    DEF SlotsInv, PollLoop, AcquireSlot, ClaimSelect, ClaimNothing,
        PollAgain, ClaimWin, ClaimLose
<1> QED BY <1>1, <1>2

\* Only an ending task gives a slot back, and it is one that had one.
LEMMA TaskPermit ==
  ASSUME TypeOK, NEW w \in Workers, NEW j \in Jobs, SlotsInv(w),
         JobTask(w, j)
  PROVE  SlotsInv(w)'
<1> USE DEF TypeOK
<1>0. Busy(w) \in Nat /\ permits[w] \in Nat BY BusyIsNat
<1>1. UNCHANGED pc /\ j \in Tasks(w)
  BY DEF JobTask, ReadStoredRequest, EvaluateReturns, EvaluateRaises,
         FinishJob, FailJob, SettleDbError, Tasks
<1>2. CASE EndTask(w, j)
  <2>1. task'[w] = [task[w] EXCEPT ![j] = "none"] BY <1>2 DEF EndTask
  <2>2. Tasks(w)' = Tasks(w) \ {j} BY <2>1 DEF Tasks
  <2>3. IsFiniteSet(Tasks(w)) BY BusyIsNat
  <2>4. Busy(w)' = Busy(w) - 1
    BY <1>1, <2>2, <2>3, FS_RemoveElement DEF Busy
  <2>5. permits'[w] = permits[w] + 1 BY <1>2 DEF EndTask
  <2>6. Busy(w) # 0 BY <1>1, <2>3, FS_EmptySet DEF Busy
  <2>7. permits'[w] + Busy(w)' = permits[w] + Busy(w)
    BY <1>0, <2>4, <2>5
  <2>8. pc[w] # "stopped" /\ WorkerConcurrency \in Nat
    BY <2>6, ServiceAssumption DEF SlotsInv
  <2>9. CASE pc[w] \in Claiming
    <3>1. permits'[w] + Busy(w)' + 1 = permits[w] + Busy(w) + 1 BY <2>7
    <3> QED BY <1>1, <2>8, <2>9, <3>1 DEF SlotsInv
  <2>10. CASE pc[w] \notin Claiming
    <3>1. permits'[w] + Busy(w)' + 0 = permits[w] + Busy(w) + 0 BY <2>7
    <3> QED BY <1>1, <2>8, <2>10, <3>1 DEF SlotsInv
  <2> QED BY <2>9, <2>10
<1>3. CASE ~EndTask(w, j)
  <2>1. \/ ReadStoredRequest(w, j)
        \/ EvaluateReturns(w, j)
        \/ EvaluateRaises(w, j)
    BY <1>3 DEF JobTask, FinishJob, FailJob, SettleDbError
  <2>2. UNCHANGED permits
    BY <2>1 DEF ReadStoredRequest, EvaluateReturns, EvaluateRaises
  <2>3. \/ UNCHANGED task
        \/ \E p \in {"evaluate", "finish", "fail"} :
               task' = [task EXCEPT ![w][j] = p]
    BY <2>1 DEF ReadStoredRequest, EvaluateReturns, EvaluateRaises
  <2>4. Tasks(w)' = Tasks(w) BY <1>1, <2>3 DEF Tasks
  <2>5. Busy(w)' = Busy(w) BY <2>4 DEF Busy
  <2> QED BY <1>1, <2>2, <2>5 DEF SlotsInv
<1> QED BY <1>2, <1>3

\* A loop that ends keeps its slot, a process that ends keeps no task, and a
\* new process has all its slots.
LEMMA ProcessPermit ==
  ASSUME TypeOK, NEW w \in Workers, SlotsInv(w), Process(w)
  PROVE  SlotsInv(w)'
<1> USE DEF TypeOK
<1>0. Busy(w) \in Nat /\ permits[w] \in Nat BY BusyIsNat
<1>1. CASE StopAfterDeadLoop(w) \/ Crash(w)
  <2>1. Vanish(w) BY <1>1 DEF StopAfterDeadLoop, Crash
  <2>2. task'[w] = [j \in Jobs |-> "none"] BY <2>1 DEF Vanish
  <2>3. Tasks(w)' = {} BY <2>2 DEF Tasks
  <2>4. Busy(w)' = 0 BY <2>3, FS_EmptySet DEF Busy
  <2>5. pc'[w] = "stopped" /\ permits'[w] = permits[w] BY <2>1 DEF Vanish
  <2> QED BY <1>0, <2>4, <2>5, ServiceAssumption DEF SlotsInv
<1>2. CASE Close(w)
  <2>1. Tasks(w)' = {} /\ Tasks(w) = {} BY <1>2 DEF Close, Tasks
  <2>2. Busy(w)' = 0 BY <2>1, FS_EmptySet DEF Busy
  <2>3. pc'[w] = "stopped" /\ permits'[w] = permits[w] BY <1>2 DEF Close
  <2> QED BY <1>0, <2>2, <2>3, ServiceAssumption DEF SlotsInv
<1>3. CASE ClaimDbError(w) \/ Stop(w) \/ Start(w)
  <2>1. UNCHANGED task BY <1>3 DEF ClaimDbError, Stop, Start, LeaveLoop
  <2>2. Tasks(w)' = Tasks(w) BY <2>1 DEF Tasks
  <2>3. Busy(w)' = Busy(w) BY <2>2 DEF Busy
  <2> QED
    BY <1>0, <1>3, <2>3, ServiceAssumption
    DEF SlotsInv, ClaimDbError, Stop, Start, LeaveLoop
<1> QED BY <1>1, <1>2, <1>3 DEF Process

\* Every step concerns the slots of at most one worker.
LEMMA PermitPreserved ==
  TypeOK /\ CandInv /\ PermitInv /\ [Next]_vars => PermitInv'
<1> SUFFICES ASSUME TypeOK, CandInv, PermitInv, [Next]_vars,
                    NEW v \in Workers
             PROVE  SlotsInv(v)'
  BY DEF PermitInv
<1> USE DEF TypeOK
<1>0. SlotsInv(v) BY DEF PermitInv
<1>1. ASSUME NEW j \in Jobs, Api(j) PROVE SlotsInv(v)'
  <2>1. UNCHANGED <<permits, pc, task>>
    BY <1>1 DEF Api, SubmitEvaluation, CreateJob, CreateJobDbError
  <2> QED BY <1>0, <2>1, SlotsUnchanged
<1>2. ASSUME NEW w \in Workers, PollLoop(w) PROVE SlotsInv(v)'
  <2>1. CASE v = w BY <1>0, <1>2, <2>1, PollPermit
  <2>2. CASE v # w
    <3>1. permits'[v] = permits[v] /\ pc'[v] = pc[v] /\ task'[v] = task[v]
      BY <1>2, <2>2 DEF PollLoop, AcquireSlot, ClaimSelect, ClaimNothing,
                        PollAgain, ClaimWin, ClaimLose, StartTask
    <3> QED BY <1>0, <3>1, SlotsUnchanged
  <2> QED BY <2>1, <2>2
<1>3. ASSUME NEW w \in Workers, Process(w) PROVE SlotsInv(v)'
  <2>1. CASE v = w BY <1>0, <1>3, <2>1, ProcessPermit
  <2>2. CASE v # w
    <3>1. permits'[v] = permits[v] /\ pc'[v] = pc[v] /\ task'[v] = task[v]
      BY <1>3, <2>2 DEF Process, ClaimDbError, Stop, Close,
                        StopAfterDeadLoop, Crash, Start, Vanish, LeaveLoop
    <3> QED BY <1>0, <3>1, SlotsUnchanged
  <2> QED BY <2>1, <2>2
<1>4. ASSUME NEW w \in Workers, NEW j \in Jobs, JobTask(w, j)
      PROVE  SlotsInv(v)'
  <2>1. CASE v = w BY <1>0, <1>4, <2>1, TaskPermit
  <2>2. CASE v # w
    <3>1. permits'[v] = permits[v] /\ pc'[v] = pc[v] /\ task'[v] = task[v]
      BY <1>4, <2>2 DEF JobTask, ReadStoredRequest, EvaluateReturns,
                        EvaluateRaises, FinishJob, FailJob, SettleDbError,
                        EndTask
    <3> QED BY <1>0, <3>1, SlotsUnchanged
  <2> QED BY <2>1, <2>2
<1>5. CASE UNCHANGED vars BY <1>0, <1>5, SlotsUnchanged
<1> QED BY <1>1, <1>2, <1>3, <1>4, <1>5 DEF Next

\* A worker's semaphore neither leaks nor mints permits: worker_concurrency
\* is the number of jobs it can evaluate at once, after any failures.
THEOREM PermitsKept == Spec => []PermitsConserved
<1>1. Init => PermitInv BY InitPermit
<1>2. IInv /\ PermitInv /\ [Next]_vars => PermitInv'
  BY PermitPreserved DEF IInv
<1>3. IInv /\ PermitInv => PermitsConserved
  <2> SUFFICES ASSUME IInv, PermitInv, NEW w \in Workers
               PROVE  /\ permits[w] + (Busy(w) + (IF pc[w] \in Claiming
                                                  THEN 1 ELSE 0))
                             <= WorkerConcurrency
                      /\ pc[w] \in Polling =>
                             permits[w] + (Busy(w) + (IF pc[w] \in Claiming
                                                      THEN 1 ELSE 0))
                                 = WorkerConcurrency
    BY DEF PermitsConserved, Busy
  <2>1. Busy(w) \in Nat /\ permits[w] \in Nat
    BY BusyIsNat DEF IInv, TypeOK
  <2>2. SlotsInv(w) BY DEF PermitInv
  <2> QED BY <2>1, <2>2, ServiceAssumption DEF SlotsInv
<1> QED BY Inductive, <1>1, <1>2, <1>3, PTL DEF Spec

(***************************************************************************)
(* Action properties and refinement.                                       *)
(***************************************************************************)

\* What a poller has read never goes back: settled rows are final.
LEMMA SettledStep ==
  IInv /\ [Next]_vars =>
    [\A j \in Jobs :
        /\ row[j] \in Settled => row'[j] = row[j]
        /\ row[j] = "running" => row'[j] \in Settled \cup {"running"}
        /\ row[j] # "absent" => row'[j] # "absent"]_vars
<1> SUFFICES ASSUME IInv, Next
             PROVE  \A j \in Jobs :
                      /\ row[j] \in Settled => row'[j] = row[j]
                      /\ row[j] = "running" => row'[j] \in Settled \cup {"running"}
                      /\ row[j] # "absent" => row'[j] # "absent"
  OBVIOUS
<1> USE DEF IInv, TypeOK, Settled
<1>1. ASSUME NEW j \in Jobs, Api(j)
      PROVE  \/ UNCHANGED row
             \/ row[j] = "absent" /\ row' = [row EXCEPT ![j] = "queued"]
  <2>1. CASE SubmitEvaluation(j) BY <2>1 DEF SubmitEvaluation
  <2>2. CASE CreateJob(j) BY <2>2 DEF CreateJob, PostInv
  <2>3. CASE CreateJobDbError(j) BY <2>3 DEF CreateJobDbError, PostInv
  <2> QED BY <1>1, <2>1, <2>2, <2>3 DEF Api
<1>2. ASSUME NEW w \in Workers, PollLoop(w)
      PROVE  \/ UNCHANGED row
             \/ \E j \in Jobs : /\ row[j] = "queued"
                                /\ row' = [row EXCEPT ![j] = "running"]
  <2>1. CASE ClaimWin(w)
    BY <2>1 DEF ClaimWin, CandInv, Claimable
  <2>2. ASSUME ~ClaimWin(w) PROVE UNCHANGED row
    BY <1>2, <2>2 DEF PollLoop, AcquireSlot, ClaimSelect, ClaimNothing,
                      PollAgain, ClaimLose, StartTask
  <2> QED BY <2>1, <2>2
<1>3. ASSUME NEW w \in Workers, Process(w) PROVE UNCHANGED row
  BY <1>3 DEF Process, ClaimDbError, Stop, Close, StopAfterDeadLoop, Crash,
              Start, Vanish
<1>4. ASSUME NEW w \in Workers, NEW j \in Jobs, JobTask(w, j)
      PROVE  \/ UNCHANGED row
             \/ /\ row[j] = "running"
                /\ \E s \in Settled : row' = [row EXCEPT ![j] = s]
  BY <1>4 DEF JobTask, ReadStoredRequest, EvaluateReturns, EvaluateRaises,
              FinishJob, FailJob, SettleDbError, HoldInv, OneHolder, Holds
<1>5. \/ UNCHANGED row
      \/ \E j \in Jobs :
            \/ row[j] = "absent" /\ row' = [row EXCEPT ![j] = "queued"]
            \/ row[j] = "queued" /\ row' = [row EXCEPT ![j] = "running"]
            \/ /\ row[j] = "running"
               /\ \E s \in Settled : row' = [row EXCEPT ![j] = s]
  BY <1>1, <1>2, <1>3, <1>4 DEF Next
<1>6. CASE UNCHANGED row BY <1>6
<1>7. ASSUME NEW j \in Jobs, NEW s \in Settled \cup {"queued", "running"},
             row' = [row EXCEPT ![j] = s],
             \/ row[j] = "absent" /\ s = "queued"
             \/ row[j] = "queued" /\ s = "running"
             \/ row[j] = "running" /\ s \in Settled
      PROVE  \A i \in Jobs :
                /\ row[i] \in Settled => row'[i] = row[i]
                /\ row[i] = "running" => row'[i] \in Settled \cup {"running"}
                /\ row[i] # "absent" => row'[i] # "absent"
  BY <1>7
<1> QED BY <1>5, <1>6, <1>7

THEOREM SettledFinal == Spec => SettledIsFinal
  BY Inductive, SettledStep, PTL DEF Spec, SettledIsFinal

\* Every step of the service is a step of the job life cycle or leaves it
\* alone; the queueing order needs OrderInv, the bound on attempts CallsInv.
LEMMA LifecycleStep == IInv /\ [Next]_vars => [Lifecycle!Next]_(Lifecycle!vars)
<1> SUFFICES ASSUME IInv, [Next]_vars
             PROVE  Lifecycle!Next \/ UNCHANGED <<row, before, calls>>
  BY DEF Lifecycle!vars
<1> USE DEF IInv, TypeOK
<1>1. ASSUME NEW j \in Jobs, Api(j)
      PROVE  Lifecycle!Submit(j) \/ Lifecycle!Store(j)
             \/ UNCHANGED <<row, before, calls>>
  BY <1>1 DEF Api, SubmitEvaluation, CreateJob, CreateJobDbError, PostInv,
              Lifecycle!Submit, Lifecycle!Store
<1>2. ASSUME NEW w \in Workers, PollLoop(w)
      PROVE  (\E j \in Jobs : Lifecycle!Claim(j))
             \/ UNCHANGED <<row, before, calls>>
  <2>1. CASE ClaimWin(w)
    <3>1. cand[w] \in Jobs /\ \A i \in before[cand[w]] : row[i] # "queued"
      BY <2>1 DEF ClaimWin, CandInv, OrderInv
    <3>2. Lifecycle!Claim(cand[w])
      BY <2>1, <3>1 DEF ClaimWin, Claimable, Lifecycle!Claim
    <3> QED BY <3>1, <3>2
  <2>2. ASSUME ~ClaimWin(w) PROVE UNCHANGED <<row, before, calls>>
    BY <1>2, <2>2 DEF PollLoop, AcquireSlot, ClaimSelect, ClaimNothing,
                      PollAgain, ClaimLose, StartTask
  <2> QED BY <2>1, <2>2
<1>3. ASSUME NEW w \in Workers, Process(w)
      PROVE  UNCHANGED <<row, before, calls>>
  BY <1>3 DEF Process, ClaimDbError, Stop, Close, StopAfterDeadLoop, Crash,
              Start, Vanish
<1>4. ASSUME NEW w \in Workers, NEW j \in Jobs, JobTask(w, j)
      PROVE  Lifecycle!Attempt(j) \/ Lifecycle!Settle(j)
             \/ UNCHANGED <<row, before, calls>>
  <2>1. /\ row[j] = "running"
        /\ calls[j] = attempt[w][j]
        /\ task[w][j] \in {"evaluate", "finish"} => calls[j] > 0
        /\ task[w][j] = "start" => attempt[w][j] = 0
    BY <1>4 DEF JobTask, ReadStoredRequest, EvaluateReturns, EvaluateRaises,
                FinishJob, FailJob, SettleDbError, HoldInv, OneHolder, Holds,
                CallsInv
  <2>2. ASSUME CallJudge(w, j), UNCHANGED <<row, before>>,
               attempt[w][j] < AttemptsPerJob
        PROVE  Lifecycle!Attempt(j)
    BY <2>1, <2>2 DEF CallJudge, Lifecycle!Attempt
  <2>3. CASE ReadStoredRequest(w, j)
    BY <2>1, <2>2, <2>3, ServiceAssumption DEF ReadStoredRequest
  <2>4. CASE EvaluateReturns(w, j) BY <2>4 DEF EvaluateReturns
  <2>5. CASE EvaluateRaises(w, j)
    BY <2>2, <2>5 DEF EvaluateRaises, MoreAttempts
  <2>6. CASE FinishJob(w, j)
    BY <2>1, <2>6 DEF FinishJob, Lifecycle!Settle
  <2>7. CASE FailJob(w, j)
    BY <2>1, <2>7 DEF FailJob, Lifecycle!Settle
  <2>8. CASE SettleDbError(w, j) BY <2>8 DEF SettleDbError
  <2> QED BY <1>4, <2>3, <2>4, <2>5, <2>6, <2>7, <2>8 DEF JobTask
<1>5. CASE UNCHANGED vars BY <1>5
<1> QED BY <1>1, <1>2, <1>3, <1>4, <1>5 DEF Next, Lifecycle!Next

LEMMA LifecycleInit == Init => Lifecycle!Init
  BY DEF Init, Lifecycle!Init

\* The service implements JobLifecycle.
THEOREM Refinement == Spec => ImplementsJobLifecycle
<1>1. Init => Lifecycle!Init BY LifecycleInit
<1>2. IInv /\ [Next]_vars => [Lifecycle!Next]_(Lifecycle!vars)
  BY LifecycleStep
<1> QED BY Inductive, <1>1, <1>2, PTL
        DEF Spec, ImplementsJobLifecycle, Lifecycle!Spec
=============================================================================
