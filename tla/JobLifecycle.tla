---------------------------- MODULE JobLifecycle ----------------------------
(***************************************************************************)
(* What the evaluation service promises a client about one job, whatever   *)
(* the number of workers and however their steps interleave: a job is      *)
(* queued, claimed once, judged a bounded number of times, and settled     *)
(* once; jobs are claimed in the order in which they were accepted.        *)
(*                                                                         *)
(* The module knows nothing of workers, semaphores, sessions or processes: *)
(* EvaluationService implements it.                                        *)
(***************************************************************************)
EXTENDS Naturals

CONSTANTS
    Jobs,            \* job ids a client may submit
    AttemptsPerJob   \* evaluations one job may cost

VARIABLES
    status,  \* status[j]: what GET /v1/evaluations/j reports ("absent": 404)
    ahead,   \* ahead[j]: the jobs already stored when j was submitted
    calls    \* calls[j]: evaluations started for j so far

vars == <<status, ahead, calls>>

Statuses == {"absent", "queued", "running", "done", "error"}

Init ==
    /\ status = [j \in Jobs |-> "absent"]
    /\ ahead = [j \in Jobs |-> {}]
    /\ calls = [j \in Jobs |-> 0]

\* A submission notes which jobs it must wait for; it is not visible yet.
Submit(j) ==
    /\ status[j] = "absent"
    /\ ahead' = [ahead EXCEPT ![j] = {i \in Jobs : status[i] # "absent"}]
    /\ UNCHANGED <<status, calls>>

Store(j) ==
    /\ status[j] = "absent"
    /\ status' = [status EXCEPT ![j] = "queued"]
    /\ UNCHANGED <<ahead, calls>>

\* First come, first served: nothing that was stored before j was submitted
\* may still be waiting when j is claimed.
Claim(j) ==
    /\ status[j] = "queued"
    /\ \A i \in ahead[j] : status[i] # "queued"
    /\ status' = [status EXCEPT ![j] = "running"]
    /\ UNCHANGED <<ahead, calls>>

Attempt(j) ==
    /\ status[j] = "running"
    /\ calls[j] < AttemptsPerJob
    /\ calls' = [calls EXCEPT ![j] = @ + 1]
    /\ UNCHANGED <<status, ahead>>

\* A result needs an evaluation; an error does not (an unreadable payload).
Settle(j) ==
    /\ status[j] = "running"
    /\ \/ /\ calls[j] > 0
          /\ status' = [status EXCEPT ![j] = "done"]
       \/ status' = [status EXCEPT ![j] = "error"]
    /\ UNCHANGED <<ahead, calls>>

Next ==
    \E j \in Jobs : Submit(j) \/ Store(j) \/ Claim(j) \/ Attempt(j) \/ Settle(j)

Spec == Init /\ [][Next]_vars
=============================================================================
