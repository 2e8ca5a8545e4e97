-------------------------- MODULE EvaluationService --------------------------
(***************************************************************************)
(* The asynchronous evaluation service: the HTTP API stores a job row, and *)
(* one or more workers poll the table, claim a row with a conditional      *)
(* UPDATE, evaluate it (at most AttemptsPerJob times) and settle it.       *)
(*                                                                         *)
(* One action per stretch of code between two awaits, so every             *)
(* interleaving of the asyncio tasks of several worker processes over the  *)
(* shared table is a behaviour: shutdown (cancellation of the poll loop at *)
(* any await), the crash of a process, and a failing database call are     *)
(* actions of their own.                                                   *)
(*                                                                         *)
(* A session's uncommitted work is invisible and rolled back on error, so  *)
(* an UPDATE and its COMMIT are one step: a failure before it is the error *)
(* action in the state before, a failure after it the error action in the  *)
(* state after.                                                            *)
(***************************************************************************)
EXTENDS Naturals, FiniteSets

CONSTANTS
    Jobs,              \* job ids (uuid4, so a new one per submission)
    Workers,           \* EvaluationWorker instances, one per process
    Embedded,          \* those that live inside the API process
    Unreadable,        \* jobs whose stored request no longer validates
    WorkerConcurrency, \* Settings.worker_concurrency
    AttemptsPerJob,    \* ATTEMPTS_PER_JOB
    FaultBudget,       \* how many stops, crashes and database errors may occur
    NoJob              \* "no candidate"

FaultKinds == {"stop", "crash", "db"}

ASSUME ServiceAssumption ==
    /\ IsFiniteSet(Jobs)
    /\ Embedded \subseteq Workers
    /\ Unreadable \subseteq Jobs
    /\ WorkerConcurrency \in Nat \ {0}
    /\ AttemptsPerJob \in Nat \ {0}
    /\ FaultBudget \in [FaultKinds -> Nat]
    /\ NoJob \notin Jobs

VARIABLES
    row,      \* row[j]: the status column ("absent": no such row)
    post,     \* post[j]: where the POST that creates j is
    older,    \* older[j]: jobs whose created_at precedes j's
    before,   \* before[j]: jobs already committed when j was stamped (history)
    pc,       \* pc[w]: the await at which w's poll loop is
    cand,     \* cand[w]: job_id, the claim's local variable
    permits,  \* permits[w]: free slots of w's semaphore
    task,     \* task[w][j]: how far w's asyncio task for j is
    attempt,  \* attempt[w][j]: the loop variable of _process
    judge,    \* judge[w]: the cached judge client
    calls,    \* calls[j]: evaluations started for j by anyone (history)
    lost,     \* jobs whose holder went away without settling them (history)
    budget    \* faults that may still occur

apiVars == <<post, older, before>>
loopVars == <<pc, cand>>
taskVars == <<task, attempt, judge, calls>>
vars == <<row, post, older, before, pc, cand, permits, task, attempt, judge,
          calls, lost, budget>>

JobStatuses == {"absent", "queued", "running", "done", "error"}
PostPhases == {"none", "inserting", "accepted", "refused"}
\* "dead": run_forever raised inside the API process, which lives on.
LoopPoints == {"acquire", "select", "update", "get", "sleep",
               "dead", "draining", "stopped"}
Polling == {"acquire", "select", "update", "get", "sleep"}
Claiming == {"select", "update", "get"}
TaskPhases == {"none", "start", "evaluate", "finish", "fail"}

Tasks(w) == {j \in Jobs : task[w][j] # "none"}

\* w has claimed j and has neither settled nor dropped it.
Holds(w, j) ==
    \/ task[w][j] # "none"
    \/ pc[w] = "get" /\ cand[w] = j

Held(w) == {j \in Jobs : Holds(w, j)}

Spend(kind) ==
    /\ budget[kind] > 0
    /\ budget' = [budget EXCEPT ![kind] = @ - 1]

TypeOK ==
    /\ row \in [Jobs -> JobStatuses]
    /\ post \in [Jobs -> PostPhases]
    /\ older \in [Jobs -> SUBSET Jobs]
    /\ before \in [Jobs -> SUBSET Jobs]
    /\ pc \in [Workers -> LoopPoints]
    /\ cand \in [Workers -> Jobs \cup {NoJob}]
    /\ permits \in [Workers -> Nat]
    /\ task \in [Workers -> [Jobs -> TaskPhases]]
    /\ attempt \in [Workers -> [Jobs -> Nat]]
    /\ judge \in [Workers -> {"none", "open"}]
    /\ calls \in [Jobs -> Nat]
    /\ lost \subseteq Jobs
    /\ budget \in [FaultKinds -> Nat]

Init ==
    /\ row = [j \in Jobs |-> "absent"]
    /\ post = [j \in Jobs |-> "none"]
    /\ older = [j \in Jobs |-> {}]
    /\ before = [j \in Jobs |-> {}]
    /\ pc = [w \in Workers |-> "acquire"]
    /\ cand = [w \in Workers |-> NoJob]
    /\ permits = [w \in Workers |-> WorkerConcurrency]
    /\ task = [w \in Workers |-> [j \in Jobs |-> "none"]]
    /\ attempt = [w \in Workers |-> [j \in Jobs |-> 0]]
    /\ judge = [w \in Workers |-> "none"]
    /\ calls = [j \in Jobs |-> 0]
    /\ lost = {}
    /\ budget = FaultBudget

(***************************************************************************)
(* The API.                                                                *)
(***************************************************************************)

\* The HTTP server stops taking requests before the lifespan tears down its
\* embedded worker, and it outlives a poll loop that died of an exception.
ApiUp == \A w \in Embedded : pc[w] \notin {"draining", "stopped"}

\* POST: the submission is valid and masked, and the flush gives the row its
\* created_at. Nothing is visible to another session yet.
SubmitEvaluation(j) ==
    /\ ApiUp
    /\ post[j] = "none"
    /\ post' = [post EXCEPT ![j] = "inserting"]
    /\ older' = [older EXCEPT ![j] = {i \in Jobs : post[i] # "none"}]
    /\ before' = [before EXCEPT ![j] = {i \in Jobs : row[i] # "absent"}]
    /\ UNCHANGED <<row, loopVars, permits, taskVars, lost, budget>>

\* POST: create_job commits and the client gets 202 with the id.
CreateJob(j) ==
    /\ post[j] = "inserting"
    /\ row' = [row EXCEPT ![j] = "queued"]
    /\ post' = [post EXCEPT ![j] = "accepted"]
    /\ UNCHANGED <<older, before, loopVars, permits, taskVars, lost, budget>>

\* POST: the database call raises and the client gets 503; the commit may
\* have taken effect although its answer was lost.
CreateJobDbError(j) ==
    /\ post[j] = "inserting"
    /\ Spend("db")
    /\ post' = [post EXCEPT ![j] = "refused"]
    /\ row' \in {row, [row EXCEPT ![j] = "queued"]}
    /\ UNCHANGED <<older, before, loopVars, permits, taskVars, lost>>

(***************************************************************************)
(* The poll loop of a worker: run_forever, run_once and the claim.         *)
(***************************************************************************)

AcquireSlot(w) ==
    /\ pc[w] = "acquire"
    /\ permits[w] > 0
    /\ permits' = [permits EXCEPT ![w] = @ - 1]
    /\ pc' = [pc EXCEPT ![w] = "select"]
    /\ UNCHANGED <<row, apiVars, cand, taskVars, lost, budget>>

\* Mutant: the candidate query without ORDER BY.
AnyQueued == {j \in Jobs : row[j] = "queued"}

\* SELECT ... WHERE status = 'queued' ORDER BY created_at, id LIMIT 1.
OldestQueued ==
    {j \in Jobs : /\ row[j] = "queued"
                  /\ \A i \in older[j] : row[i] # "queued"}

ClaimSelect(w) ==
    /\ pc[w] = "select"
    /\ \E j \in OldestQueued :
        /\ cand' = [cand EXCEPT ![w] = j]
        /\ pc' = [pc EXCEPT ![w] = "update"]
    /\ UNCHANGED <<row, apiVars, permits, taskVars, lost, budget>>

\* Mutant: the semaphore is not released when there is nothing to claim.
ClaimNothingKeepingSlot(w) ==
    /\ pc[w] = "select"
    /\ \A j \in Jobs : row[j] # "queued"
    /\ pc' = [pc EXCEPT ![w] = "sleep"]
    /\ UNCHANGED <<row, apiVars, cand, permits, taskVars, lost, budget>>

ClaimNothing(w) ==
    /\ pc[w] = "select"
    /\ \A j \in Jobs : row[j] # "queued"
    /\ permits' = [permits EXCEPT ![w] = @ + 1]
    /\ pc' = [pc EXCEPT ![w] = "sleep"]
    /\ UNCHANGED <<row, apiVars, cand, taskVars, lost, budget>>

PollAgain(w) ==
    /\ pc[w] = "sleep"
    /\ pc' = [pc EXCEPT ![w] = "acquire"]
    /\ UNCHANGED <<row, apiVars, cand, permits, taskVars, lost, budget>>

\* Mutant: the UPDATE of the claim is conditional on the id only.
ClaimableById(j) == TRUE

\* The WHERE clause of the UPDATE: its rowcount is 1 exactly when this holds.
Claimable(j) == row[j] = "queued"

ClaimWin(w) ==
    /\ pc[w] = "update"
    /\ Claimable(cand[w])
    /\ row' = [row EXCEPT ![cand[w]] = "running"]
    /\ pc' = [pc EXCEPT ![w] = "get"]
    /\ UNCHANGED <<apiVars, cand, permits, taskVars, lost, budget>>

\* rowcount == 0: another worker was faster; look for the next candidate.
ClaimLose(w) ==
    /\ pc[w] = "update"
    /\ ~Claimable(cand[w])
    /\ pc' = [pc EXCEPT ![w] = "select"]
    /\ cand' = [cand EXCEPT ![w] = NoJob]
    /\ UNCHANGED <<row, apiVars, permits, taskVars, lost, budget>>

\* session.get has returned the row: create_task, and round again.
StartTask(w) ==
    /\ pc[w] = "get"
    /\ task' = [task EXCEPT ![w][cand[w]] = "start"]
    /\ attempt' = [attempt EXCEPT ![w][cand[w]] = 0]
    /\ pc' = [pc EXCEPT ![w] = "acquire"]
    /\ cand' = [cand EXCEPT ![w] = NoJob]
    /\ UNCHANGED <<row, apiVars, permits, judge, calls, lost, budget>>

(***************************************************************************)
(* One job's task: _process_and_release and _process.                      *)
(***************************************************************************)

\* evaluate(..., judge=self._get_judge()): the shared client is created on
\* first use.
CallJudge(w, j) ==
    /\ judge' = [judge EXCEPT ![w] = "open"]
    /\ attempt' = [attempt EXCEPT ![w][j] = @ + 1]
    /\ calls' = [calls EXCEPT ![j] = @ + 1]

ReadStoredRequest(w, j) ==
    /\ task[w][j] = "start"
    /\ \/ /\ j \in Unreadable
          /\ task' = [task EXCEPT ![w][j] = "fail"]
          /\ UNCHANGED <<judge, attempt, calls>>
       \/ /\ j \notin Unreadable
          /\ task' = [task EXCEPT ![w][j] = "evaluate"]
          /\ CallJudge(w, j)
    /\ UNCHANGED <<row, apiVars, loopVars, permits, lost, budget>>

EvaluateReturns(w, j) ==
    /\ task[w][j] = "evaluate"
    /\ task' = [task EXCEPT ![w][j] = "finish"]
    /\ UNCHANGED <<row, apiVars, loopVars, permits, attempt, judge, calls,
                   lost, budget>>

\* Mutant: one retry too many.
OneMoreAttempt(w, j) == attempt[w][j] <= AttemptsPerJob

MoreAttempts(w, j) == attempt[w][j] < AttemptsPerJob

EvaluateRaises(w, j) ==
    /\ task[w][j] = "evaluate"
    /\ \/ /\ MoreAttempts(w, j)
          /\ CallJudge(w, j)
          /\ UNCHANGED task
       \/ /\ ~MoreAttempts(w, j)
          /\ task' = [task EXCEPT ![w][j] = "fail"]
          /\ UNCHANGED <<judge, attempt, calls>>
    /\ UNCHANGED <<row, apiVars, loopVars, permits, lost, budget>>

\* Mutant: the semaphore is not released.
EndTaskKeepingSlot(w, j) ==
    /\ task' = [task EXCEPT ![w][j] = "none"]
    /\ attempt' = [attempt EXCEPT ![w][j] = 0]
    /\ UNCHANGED permits

\* The finally clause and the done callback.
EndTask(w, j) ==
    /\ task' = [task EXCEPT ![w][j] = "none"]
    /\ attempt' = [attempt EXCEPT ![w][j] = 0]
    /\ permits' = [permits EXCEPT ![w] = @ + 1]

FinishJob(w, j) ==
    /\ task[w][j] = "finish"
    /\ row' = [row EXCEPT ![j] = "done"]
    /\ EndTask(w, j)
    /\ UNCHANGED <<apiVars, loopVars, judge, calls, lost, budget>>

\* Mutants: exhausted retries without fail_job; a failed job's task that
\* never ends.
GiveUpSilently(w, j) ==
    /\ task[w][j] = "fail"
    /\ EndTask(w, j)
    /\ UNCHANGED <<row, apiVars, loopVars, judge, calls, lost, budget>>

FailJobForever(w, j) ==
    /\ task[w][j] = "fail"
    /\ row' = [row EXCEPT ![j] = "error"]
    /\ UNCHANGED <<apiVars, loopVars, permits, taskVars, lost, budget>>

FailJob(w, j) ==
    /\ task[w][j] = "fail"
    /\ row' = [row EXCEPT ![j] = "error"]
    /\ EndTask(w, j)
    /\ UNCHANGED <<apiVars, loopVars, judge, calls, lost, budget>>

\* finish_job or fail_job raises: the task ends with an exception nobody
\* reads, and the row stays "running".
SettleDbError(w, j) ==
    /\ task[w][j] \in {"finish", "fail"}
    /\ Spend("db")
    /\ EndTask(w, j)
    /\ lost' = lost \cup {j}
    /\ UNCHANGED <<row, apiVars, loopVars, judge, calls>>

(***************************************************************************)
(* Failures and shutdown.                                                  *)
(***************************************************************************)

\* The poll loop ends with an exception at one of its awaits; a job it was
\* about to hand to a task is dropped with the frame.
LeaveLoop(w, next) ==
    /\ pc' = [pc EXCEPT ![w] = next]
    /\ cand' = [cand EXCEPT ![w] = NoJob]
    /\ lost' = IF pc[w] = "get" THEN lost \cup {cand[w]} ELSE lost

\* A database error inside the claim. run_standalone's finally clause drains;
\* nobody watches the embedded loop, so there the API goes on without it.
ClaimDbError(w) ==
    /\ pc[w] \in Claiming
    /\ Spend("db")
    /\ LeaveLoop(w, IF w \in Embedded THEN "dead" ELSE "draining")
    /\ UNCHANGED <<row, apiVars, permits, taskVars>>

\* Ctrl-C on a standalone worker, or the API's lifespan ending: the loop is
\* cancelled at whatever await it is in, then aclose runs.
Stop(w) ==
    /\ pc[w] \in Polling
    /\ Spend("stop")
    /\ w \in Embedded => \A j \in Jobs : post[j] # "inserting"
    /\ LeaveLoop(w, "draining")
    /\ UNCHANGED <<row, apiVars, permits, taskVars>>

\* Mutant: aclose without _drain.
CloseAtOnce(w) ==
    /\ pc[w] = "draining"
    /\ judge' = [judge EXCEPT ![w] = "none"]
    /\ pc' = [pc EXCEPT ![w] = "stopped"]
    /\ UNCHANGED <<row, apiVars, cand, permits, task, attempt, calls, lost,
                   budget>>

\* aclose: gather has seen every task end, the judge client is closed.
Close(w) ==
    /\ pc[w] = "draining"
    /\ Tasks(w) = {}
    /\ judge' = [judge EXCEPT ![w] = "none"]
    /\ pc' = [pc EXCEPT ![w] = "stopped"]
    /\ UNCHANGED <<row, apiVars, cand, permits, task, attempt, calls, lost,
                   budget>>

\* The process is gone with everything it had in memory.
Vanish(w) ==
    /\ pc' = [pc EXCEPT ![w] = "stopped"]
    /\ cand' = [cand EXCEPT ![w] = NoJob]
    /\ task' = [task EXCEPT ![w] = [j \in Jobs |-> "none"]]
    /\ attempt' = [attempt EXCEPT ![w] = [j \in Jobs |-> 0]]
    /\ judge' = [judge EXCEPT ![w] = "none"]
    /\ lost' = lost \cup Held(w)
    /\ UNCHANGED <<row, older, before, permits, calls>>

\* The lifespan awaits a poll loop that died of a database error: the error
\* is re-raised, aclose is skipped and the event loop drops the tasks.
StopAfterDeadLoop(w) ==
    /\ pc[w] = "dead"
    /\ Spend("stop")
    /\ \A j \in Jobs : post[j] # "inserting"
    /\ Vanish(w)
    /\ UNCHANGED post

Crash(w) ==
    /\ pc[w] # "stopped"
    /\ Spend("crash")
    /\ Vanish(w)
    /\ post' = [j \in Jobs |-> IF w \in Embedded /\ post[j] = "inserting"
                               THEN "refused" ELSE post[j]]

\* A new process for w. Nothing looks for rows left "running".
Start(w) ==
    /\ pc[w] = "stopped"
    /\ pc' = [pc EXCEPT ![w] = "acquire"]
    /\ permits' = [permits EXCEPT ![w] = WorkerConcurrency]
    /\ UNCHANGED <<row, apiVars, cand, taskVars, lost, budget>>

------------------------------------------------------------------------------
PollLoop(w) ==
    \/ AcquireSlot(w) \/ ClaimSelect(w) \/ ClaimNothing(w) \/ PollAgain(w)
    \/ ClaimWin(w) \/ ClaimLose(w) \/ StartTask(w)

JobTask(w, j) ==
    \/ ReadStoredRequest(w, j) \/ EvaluateReturns(w, j) \/ EvaluateRaises(w, j)
    \/ FinishJob(w, j) \/ FailJob(w, j) \/ SettleDbError(w, j)

Api(j) == SubmitEvaluation(j) \/ CreateJob(j) \/ CreateJobDbError(j)

Process(w) ==
    \/ ClaimDbError(w) \/ Stop(w) \/ Close(w) \/ StopAfterDeadLoop(w)
    \/ Crash(w) \/ Start(w)

Next ==
    \/ \E j \in Jobs : Api(j)
    \/ \E w \in Workers : PollLoop(w) \/ Process(w)
    \/ \E w \in Workers, j \in Jobs : JobTask(w, j)

Spec == Init /\ [][Next]_vars

------------------------------------------------------------------------------
(***************************************************************************)
(* Properties.                                                             *)
(***************************************************************************)

\* A job is held by at most one worker, and only while its row says
\* "running": the conditional UPDATE of claim_next_queued_job keeps two
\* workers that selected the same candidate from both processing it.
OneHolder ==
    \A j \in Jobs, w \in Workers :
        Holds(w, j) =>
            /\ row[j] = "running"
            /\ j \notin lost
            /\ \A v \in Workers : Holds(v, j) => v = w

\* A running row is being worked on, unless a crash, a cancelled claim or a
\* failed database call took its holder away: claim, task and row agree
\* although they are changed in separate steps.
RunningIsHeldOrLost ==
    \A j \in Jobs :
        row[j] = "running" <=> j \in lost \/ \E w \in Workers : Holds(w, j)

\* Jobs are claimed in the order in which they were accepted, although select
\* and update are two steps and another row may be inserted in between.
ClaimedInOrder ==
    \A j \in Jobs :
        row[j] \notin {"absent", "queued"} =>
            \A i \in before[j] : row[i] # "queued"

\* ATTEMPTS_PER_JOB bounds what a job costs the judge over all workers and
\* restarts, a result was judged, and an unreadable payload never is.
JudgeCallsBounded ==
    \A j \in Jobs :
        /\ calls[j] <= AttemptsPerJob
        /\ row[j] = "done" => calls[j] > 0
        /\ j \in Unreadable => calls[j] = 0

\* The semaphore neither leaks nor mints permits while the loop polls, so a
\* worker evaluates at most worker_concurrency jobs at a time and can always
\* get back to claiming.
PermitsConserved ==
    \A w \in Workers :
        LET inUse == Cardinality(Tasks(w))
                     + (IF pc[w] \in Claiming THEN 1 ELSE 0)
        IN /\ permits[w] + inUse <= WorkerConcurrency
           /\ pc[w] \in Polling => permits[w] + inUse = WorkerConcurrency

\* aclose waits for the tasks before it closes the judge they share.
JudgeOpenDuringEvaluation ==
    \A w \in Workers, j \in Jobs :
        task[w][j] = "evaluate" => judge[w] = "open"

\* What a poller may read changes only forward, and never once settled.
Settled == {"done", "error"}
SettledIsFinal ==
    [][\A j \in Jobs :
        /\ row[j] \in Settled => row'[j] = row[j]
        /\ row[j] = "running" => row'[j] \in Settled \cup {"running"}
        /\ row[j] # "absent" => row'[j] # "absent"]_vars

\* The service implements the life of a job it promises.
Lifecycle == INSTANCE JobLifecycle WITH status <- row, ahead <- before
ImplementsJobLifecycle == Lifecycle!Spec

\* A client that got 202 can read its job.
AcceptedIsStored == \A j \in Jobs : post[j] = "accepted" => row[j] # "absent"

\* worker.py: "`aclose` drains whatever was still in flight". A worker process
\* that was only ever stopped leaves no row in "running" once it has exited.
StopDrains ==
    (\A w \in Workers : pc[w] = "stopped") =>
        \A j \in Jobs : row[j] # "running"

(***************************************************************************)
(* Liveness: the asyncio loops of the processes run, an evaluation ends    *)
(* (every request of the judge client has a timeout and its retries are    *)
(* counted), a commit answers, and a process that has exited is started    *)
(* again (compose's restart policy, or the next deployment). Nobody has to *)
(* submit or to stop anything, and no fault has to happen.                 *)
(***************************************************************************)
TaskStep(w, j) ==
    \/ ReadStoredRequest(w, j) \/ EvaluateReturns(w, j) \/ EvaluateRaises(w, j)
    \/ FinishJob(w, j) \/ FailJob(w, j)

Fairness ==
    /\ \A w \in Workers :
        WF_vars(PollLoop(w)) /\ WF_vars(Close(w)) /\ WF_vars(Start(w))
    /\ \A w \in Workers, j \in Jobs : WF_vars(TaskStep(w, j))
    /\ \A j \in Jobs : WF_vars(CreateJob(j))

FairSpec == Spec /\ Fairness

\* README: "Submitting returns immediately with a job id; the worker evaluates
\* in the background". Every accepted job is settled, but for those whose
\* holder was lost: no race between workers and no restart starves a job.
AcceptedIsSettled ==
    \A j \in Jobs :
        post[j] = "accepted" ~> row[j] \in Settled \/ j \in lost

\* A stopped worker exits: the jobs it drains cannot keep it forever.
StopCompletes == \A w \in Workers : pc[w] = "draining" ~> pc[w] = "stopped"
=============================================================================
