--------------------------- MODULE DeploymentCheck ---------------------------
(***************************************************************************)
(* run_deployment_check: the Compose stack is built, started, asked for    *)
(* one evaluation and taken down, as the experiment day runs it (without   *)
(* --keep-up). A stage is a command or a request with a time limit of its  *)
(* own, so each of them ends; what a failing one leaves behind is up to    *)
(* Docker.                                                                 *)
(***************************************************************************)
EXTENDS Naturals

CONSTANT
    Faults   \* how many things outside of the program may go wrong

ASSUME FaultsAssumption == Faults \in Nat

VARIABLES
    at,        \* the stage that runs next
    failures,  \* the stages that failed
    stack,     \* whether containers of the stack exist
    wrote,     \* the transcript has been written
    faults     \* faults that may still occur

deploymentVars == <<at, failures, stack, wrote>>

StageNames == {"docker", "config", "build", "up", "health", "submit", "logs",
               "down"}

DeploymentTypeOK ==
    /\ at \in StageNames \cup {"off", "uplogs", "updown", "write", "over"}
    /\ failures \subseteq StageNames
    /\ stack \in {"down", "up"}
    /\ wrote \in BOOLEAN
    /\ faults \in 0..Faults

DeploymentInit ==
    /\ at = "off" /\ failures = {} /\ stack = "down" /\ wrote = FALSE
    /\ faults = Faults

Fault ==
    /\ faults > 0
    /\ faults' = faults - 1

StartDeployment ==
    /\ at' = "docker"
    /\ failures' = {}
    /\ wrote' = FALSE
    /\ UNCHANGED <<stack, faults>>

\* The result has been returned, or the process is gone.
EndDeployment ==
    /\ at' = "off"
    /\ failures' = {}
    /\ wrote' = FALSE
    /\ UNCHANGED stack

Succeed(stage, next) ==
    /\ at = stage
    /\ at' = next
    /\ UNCHANGED <<failures, faults>>

FailAs(position, stage, next) ==
    /\ at = position
    /\ Fault
    /\ failures' = failures \cup {stage}
    /\ at' = next

Fail(stage, next) == FailAs(stage, stage, next)

\* docker version, compose config, compose build: a failure returns at once.
Prepare ==
    /\ \/ Succeed("docker", "config") \/ Fail("docker", "over")
       \/ Succeed("config", "build") \/ Fail("config", "over")
       \/ Succeed("build", "up") \/ Fail("build", "over")
    /\ UNCHANGED <<stack, wrote>>

\* Mutant: a stack that did not come up is left as it is.
UpOrLeave ==
    /\ \/ Succeed("up", "health") /\ stack' = "up"
       \/ Fail("up", "over") /\ stack' \in {stack, "up"}
    /\ UNCHANGED wrote

\* compose up --wait; a part of the stack may be up although it failed.
Up ==
    /\ \/ Succeed("up", "health") /\ stack' = "up"
       \/ Fail("up", "uplogs") /\ stack' \in {stack, "up"}
    /\ UNCHANGED wrote

\* The failed start is logged, taken down and returned.
CleanUp ==
    /\ \/ /\ Succeed("uplogs", "updown") \/ FailAs("uplogs", "logs", "updown")
          /\ UNCHANGED stack
       \/ Succeed("updown", "over") /\ stack' = "down"
       \/ FailAs("updown", "down", "over") /\ stack' \in {stack, "down"}
    /\ UNCHANGED wrote

Health ==
    /\ Succeed("health", "submit") \/ Fail("health", "logs")
    /\ UNCHANGED <<stack, wrote>>

\* submit_and_poll: the answer of the service names the job in "job_id", and
\* the check reads "id". The KeyError is handled like an error of the
\* request, so the stage fails either way and the job is never polled.
Submit ==
    /\ at = "submit"
    /\ failures' = failures \cup {"submit"}
    /\ at' = "logs"
    /\ UNCHANGED <<stack, wrote, faults>>

Logs ==
    /\ Succeed("logs", "down") \/ Fail("logs", "down")
    /\ UNCHANGED <<stack, wrote>>

Down ==
    /\ \/ Succeed("down", "write") /\ stack' = "down"
       \/ Fail("down", "write") /\ stack' \in {stack, "down"}
    /\ UNCHANGED wrote

Write ==
    /\ Succeed("write", "over")
    /\ wrote' = TRUE
    /\ UNCHANGED stack

DeploymentStep ==
    Prepare \/ Up \/ CleanUp \/ Health \/ Submit \/ Logs \/ Down \/ Write

------------------------------------------------------------------------------
\* Containers that are still there when the check is over are its report's
\* business: taking them down failed, or it never came to start them (they
\* are those of a check that was killed).
StackIsTakenDown ==
    at = "over" /\ stack = "up" =>
        failures \cap {"docker", "config", "build", "down"} # {}
=============================================================================
