----------------------------- MODULE TaskRunner -----------------------------
(***************************************************************************)
(* The unattended task runner (scripts/run_next_task.sh), the supervisor   *)
(* of a night (run_overnight.sh) and the cron entry that runs the same     *)
(* runner beside it. A runner takes the first task, lets an agent work in  *)
(* the repository, checks the work itself, and either keeps it or rolls    *)
(* the branch back; the supervisor decides from its exit code.             *)
(*                                                                         *)
(* The working tree and a commit are both a set of changes and the place   *)
(* of every task file. A change is red (make check or the hold-out tests   *)
(* fail on it), smelly (the smell check finds it in a diff), a BLOCKED     *)
(* note in PROGRESS.md, or sound; what git diff does not show, a skip in a *)
(* new file nobody has committed, counts as sound. The time is abstract: a *)
(* cooldown is on or has passed. While git or the disk is in trouble (an   *)
(* index.lock a killed process left, a full disk, a file that cannot be    *)
(* removed, a hook that refuses) every command of the runner that needs    *)
(* them may fail or not: one with "|| true" is passed over, any other one  *)
(* ends the runner (set -e).                                               *)
(***************************************************************************)
EXTENDS Naturals, FiniteSets

CONSTANTS Tasks,            \* numbers, in the order of the file names
          FIX_ATTEMPTS,     \* extra rounds of an agent after a red check
          MAX_CONSEC_FAILS, \* the supervisor's limits
          MAX_COOLDOWNS,
          AgentChanges,     \* bound: the changes agents make
          AgentMoves,       \* bound: the moves of task files agents make
          MaxChanges,       \* bound: changes of one task in the tree at once
          MaxFaults         \* bound: troubles, kills, crashes, cron runs

Kinds  == {"sound", "red", "smelly", "note"}
Change == [by : Tasks, kind : Kinds]
Places == {"todo", "done", "needs-review"}

ASSUME RunnerAssumption ==
    /\ Tasks \subseteq Nat /\ IsFiniteSet(Tasks)
    /\ FIX_ATTEMPTS \in Nat
    /\ MAX_CONSEC_FAILS \in Nat \ {0}
    /\ MAX_COOLDOWNS \in Nat
    /\ AgentChanges \subseteq Change /\ AgentMoves \subseteq Tasks \X Places
    /\ MaxChanges \in Nat /\ MaxFaults \in Nat

VARIABLES
    tree,       \* the working tree, new files included
    head,       \* the last commit of the agent's branch
    base,       \* the commit the running task started from
    patch,      \* the changes in FAILED_PATCH of the last task that was started
    saved,      \* no command that writes that patch has failed
    trouble,    \* git or the disk is in trouble
    pc,         \* where the runner that holds the lock is; "off": none
    caller,     \* who started it
    task, attempt, codex, verdict, \* TASK_FILE, ATTEMPT, CODEX_STATUS, VERDICT
    orphan,     \* what a killed runner left behind, which still holds the lock
    cooldown,   \* .quota-cooldown-until: no file, in the future, in the past
    night,      \* the supervisor; "off": none, "clean": its last exit code is 0
    rc, fails, cooldowns, \* its rc (1: any other code), FAILS and COOLDOWNS
    faults,     \* how many faults there were
    booked,     \* tasks whose place the runner has committed
    cutShort,   \* tasks a run of which ended before its verdict was committed
                \* or was not rolled back
    moved,      \* tasks whose file such a run may have left in another place
    calm        \* nothing from outside has disturbed this night

gitVars    == <<tree, head, base, patch, saved>>
runVars    == <<pc, caller, task, attempt, codex, verdict, orphan>>
nightVars  == <<night, rc, fails, cooldowns>>
pastVars   == <<faults, booked, cutShort, moved>>
vars == <<gitVars, trouble, runVars, nightVars, cooldown, pastVars, calm>>

Snapshot == [work : SUBSET Change, filed : [Tasks -> Places]]
Points   == {"off", "agent", "gates", "limited", "save", "reset", "file",
             "book"}

TypeOK ==
    /\ {tree, head, base} \subseteq Snapshot
    /\ patch \subseteq Change
    /\ saved \in BOOLEAN /\ trouble \in BOOLEAN /\ calm \in BOOLEAN
    /\ pc \in Points
    /\ caller \in {"night", "cron"}
    /\ task \in Tasks
    /\ attempt \in 1..(1 + FIX_ATTEMPTS)
    /\ codex \in {"ok", "error", "limit"}
    /\ verdict \in {"done", "needs-review"}
    /\ orphan \in {"none", "agent", "check"}
    /\ cooldown \in {"none", "on", "passed"}
    /\ night \in {"off", "call", "wait", "look", "sleep", "clean"}
    /\ rc \in {0, 1, 3}
    /\ fails \in 0..(MAX_CONSEC_FAILS - 1)
    /\ cooldowns \in 0..MAX_COOLDOWNS
    /\ faults \in 0..MaxFaults
    /\ {booked, cutShort, moved} \subseteq SUBSET Tasks

Init ==
    /\ tree = [work |-> {}, filed |-> [t \in Tasks |-> "todo"]]
    /\ head = tree /\ base = tree
    /\ patch = {} /\ saved = TRUE /\ trouble = FALSE
    /\ pc = "off" /\ caller = "night"
    /\ task \in Tasks /\ attempt = 1 /\ codex = "ok" /\ verdict = "done"
    /\ orphan = "none"
    /\ cooldown = "none"
    /\ night = "off" /\ rc = 0 /\ fails = 0 /\ cooldowns = 0
    /\ faults = 0 /\ booked = {} /\ cutShort = {} /\ moved = {}
    /\ calm = TRUE

------------------------------------------------------------------------------
(***************************************************************************)
(* The runner.                                                             *)
(***************************************************************************)

Todo == {t \in Tasks : tree.filed[t] = "todo"}

\* The lock is held by the runner and by every process it started.
LockFree == pc = "off" /\ orphan = "none"

\* The supervisor calls when it is its turn, cron at any time.
Calls(who) == who = "night" => night = "call"

\* The caller has its exit code; cron does not look at it.
Returns(who, code) ==
    IF who = "night" THEN night' = "look" /\ rc' = code
                     ELSE UNCHANGED <<night, rc>>

\* The n-th fault is still within the bound.
Fault(n) == faults' = faults + n /\ faults' <= MaxFaults

\* A commit of the runner (housekeeping, partial work or bookkeeping, each with
\* "|| true"): HEAD is the tree afterwards, or not.
Commit ==
    \/ head' = tree /\ booked' = booked \cup (Tasks \ Todo)
    \/ trouble /\ head # tree /\ UNCHANGED <<head, booked>>

\* The night does not get the run it asked for.
Disturbed(who) == calm' = (calm /\ who = "cron")

\* No work attempted: the kill switch, the lock, the quota, the cooldown, or
\* nothing to do. A cooldown that has passed is removed on the way.
Decline(who) ==
    /\ Calls(who)
    /\ \/ Disturbed(who) /\ UNCHANGED cooldown                   \* .agent-stop
       \/ ~LockFree /\ Disturbed(who) /\ UNCHANGED cooldown
       \/ LockFree /\ cooldown = "on" /\ UNCHANGED <<calm, cooldown>>
       \/ /\ LockFree /\ cooldown # "on" /\ cooldown' = "none"
          /\ \/ Disturbed(who)                                   \* the quota
             \/ Todo = {} /\ UNCHANGED calm
    /\ Returns(who, 3)
    /\ UNCHANGED <<gitVars, trouble, runVars, fails, cooldowns, pastVars>>

\* Mutant: the base is taken before the housekeeping commit.
BaseBeforeHousekeeping == head

\* BASE: the commit that housekeeping has left.
BaseOfTask == head'

\* A caller finds work to do, and commits what it finds in the tree.
Begins(who) ==
    /\ Calls(who)
    /\ LockFree
    /\ cooldown # "on" /\ cooldown' = "none"
    /\ Todo # {}
    /\ Commit
    /\ patch' = {} /\ saved' = TRUE
    /\ Fault(IF who = "cron" THEN 1 ELSE 0)

\* The first task, the housekeeping commit and BASE.
StartTask(who) ==
    /\ Begins(who)
    /\ base' = BaseOfTask
    /\ pc' = "agent" /\ caller' = who
    /\ task' \in Todo /\ \A t \in Todo : task' <= t
    /\ attempt' = 1
    /\ night' = IF who = "night" THEN "wait" ELSE night
    /\ UNCHANGED <<tree, trouble, codex, verdict, orphan, rc, fails, cooldowns,
                   cutShort, moved, calm>>

\* The first commands fail, before the runner has looked at anything.
Stumbles(who) ==
    /\ Calls(who)
    /\ LockFree
    /\ UNCHANGED <<gitVars, cooldown, booked, faults>>

\* Nothing protects touch, rm and mkdir, git checkout, git add and the files in
\* logs/: the runner ends at once, or before or after the housekeeping commit.
AbortStart(who) ==
    /\ trouble
    /\ Stumbles(who) \/ (Begins(who) /\ base' = head' /\ UNCHANGED tree)
    /\ Returns(who, 1)
    /\ calm' = FALSE
    /\ UNCHANGED <<trouble, runVars, fails, cooldowns, cutShort, moved>>

\* The changes since BASE.
Diff == tree.work \ base.work

\* The run of a task waits for its verdict.
Unsettled == pc \in {"agent", "gates", "limited", "save", "reset"}

\* Tasks whose file is not, or was not committed, where BASE has it.
Astray == {t \in Tasks : \/ tree.filed[t] # base.filed[t]
                         \/ head.filed[t] # base.filed[t]}

\* The run of a task ends without a committed verdict.
CutShort ==
    /\ cutShort' = cutShort \cup {task}
    /\ moved' = moved \cup {t \in Astray : Unsettled}

\* codex exec: it writes, takes back what it wrote, moves task files, commits
\* on its own. An agent whose runner was killed goes on.
AgentWorks ==
    /\ pc = "agent" \/ orphan = "agent"
    /\ \/ \E c \in {d \in AgentChanges : d.by = task} :
              /\ \/ tree' = [tree EXCEPT !.work = @ \ {c}]
                 \/ /\ Cardinality({d \in tree.work : d.by = task}) < MaxChanges
                    /\ tree' = [tree EXCEPT !.work = @ \cup {c}]
              /\ UNCHANGED <<head, moved>>
       \/ \E m \in AgentMoves :
              /\ tree' = [tree EXCEPT !.filed[m[1]] = m[2]]
              /\ moved' = moved \cup {t \in {m[1]} : orphan = "agent"}
              /\ UNCHANGED head
       \/ head' = tree /\ UNCHANGED <<tree, moved>>
    /\ UNCHANGED <<base, patch, saved, trouble, runVars, nightVars, cooldown,
                   faults, booked, cutShort, calm>>

\* An exit code other than 0 with a rate limit in the log starts a cooldown.
AgentEnds(status) ==
    /\ pc = "agent"
    /\ codex' = status
    /\ cooldown' = IF status = "limit" THEN "on" ELSE cooldown
    /\ pc' = "gates"
    /\ UNCHANGED <<gitVars, trouble, caller, task, attempt, verdict, orphan,
                   nightVars, pastVars, calm>>

\* Mutant: make check is run on what the task changed only.
CheckOfDiff == \A c \in Diff : c.kind # "red"

\* make check and the hold-out tests, on the whole tree.
CheckIsGreen == \A c \in tree.work : c.kind # "red"

\* The smell check: tests, suppressions, and any change of tasks/. It needs to
\* write what it finds to the log; where the log cannot be written, the run has
\* ended before (Abort).
Smells ==
    \/ \E c \in Diff : c.kind = "smelly"
    \/ tree.filed # base.filed
    \/ tree.filed # head.filed

Blocked == \E c \in Diff : c.kind = "note"
NoChange == tree = base /\ tree = head

Passed == codex = "ok" /\ CheckIsGreen /\ ~Smells /\ ~Blocked /\ ~NoChange

\* Only an ordinary failure earns another attempt.
Retry == /\ ~Passed /\ ~Blocked /\ ~Smells /\ codex # "limit"
         /\ attempt <= FIX_ATTEMPTS

Gates ==
    /\ pc = "gates"
    /\ verdict' = IF Passed THEN "done" ELSE "needs-review"
    /\ attempt' = IF Retry THEN attempt + 1 ELSE attempt
    /\ pc' = IF Retry THEN "agent"
             ELSE IF codex = "limit" THEN "limited"
             ELSE IF Passed THEN "file" ELSE "save"
    /\ UNCHANGED <<gitVars, trouble, caller, task, codex, orphan, nightVars,
                   cooldown, pastVars, calm>>

\* The runner is no more, and its variables with it; which task an orphan
\* works on is remembered in its command line.
Gone(code) ==
    /\ pc' = "off"
    /\ Returns(caller, code)
    /\ caller' = "night" /\ attempt' = 1 /\ codex' = "ok" /\ verdict' = "done"
    /\ base' = head' /\ patch' = {} /\ saved' = TRUE
    /\ UNCHANGED <<task, fails, cooldowns>>

\* The runner returns and lets go of the lock.
Exit(code) == Gone(code) /\ UNCHANGED orphan

\* A command without "|| true" fails, or the task's file is not where it was:
\* set -e ends the runner. A cooldown that could not be written is not one.
Abort ==
    /\ \/ trouble /\ pc \in {"gates", "limited", "save", "file", "book"}
       \/ pc = "file" /\ tree.filed[task] # "todo"
    /\ \/ UNCHANGED cooldown
       \/ pc = "gates" /\ trouble /\ codex = "limit" /\ cooldown' = "passed"
    /\ UNCHANGED <<tree, head, trouble, faults, booked>>
    /\ CutShort
    /\ Exit(1)
    /\ calm' = FALSE

\* A rate limit: the partial work is committed and the task stays in todo.
CommitPartialWork ==
    /\ pc = "limited"
    /\ Commit
    /\ CutShort
    /\ Exit(3)
    /\ UNCHANGED <<tree, trouble, cooldown, faults, calm>>

\* Mutant: the patch is the diff against HEAD.
DiffAgainstHead == tree.work \ head.work

\* What FAILED_PATCH holds.
Discarded == Diff

\* Without git add, the patch is what the agent has committed; a full disk
\* leaves none that can be applied.
SavePatch ==
    /\ pc = "save"
    /\ \/ patch' = Discarded /\ UNCHANGED saved
       \/ /\ trouble /\ saved' = FALSE
          /\ patch' \in {head.work \ base.work, {}}
    /\ pc' = "reset"
    /\ UNCHANGED <<tree, head, base, trouble, caller, task, attempt, codex,
                   verdict, orphan, nightVars, cooldown, pastVars, calm>>

\* Mutant: the branch is left where the agent's own commits put it.
HeadStays == head

\* git reset --hard BASE moves the branch.
HeadAfterReset == base

Notes == {c \in Diff : c.kind = "note"}

\* The tree is BASE again, except for a BLOCKED note.
Reset ==
    /\ head' = HeadAfterReset
    /\ tree' = [HeadAfterReset EXCEPT !.work = @ \cup Notes]
    /\ UNCHANGED <<cutShort, moved>>

\* git reset has failed or left files as they were, the files that git does not
\* know are removed all the same, and the run goes on.
ResetFails ==
    /\ trouble
    /\ head' \in {head, HeadAfterReset}
    /\ \E W \in SUBSET (tree.work \cup base.work), T \in SUBSET Astray :
          /\ (tree.work \cap base.work) \cup Notes \subseteq W
          /\ tree' = [work |-> W, filed |-> [t \in Tasks |->
                         IF t \in T THEN base.filed[t] ELSE tree.filed[t]]]
    /\ CutShort

RollBack ==
    /\ pc = "reset"
    /\ Reset \/ ResetFails
    /\ pc' = "file"
    /\ UNCHANGED <<base, patch, saved, trouble, caller, task, attempt, codex,
                   verdict, orphan, nightVars, cooldown, faults, booked, calm>>

FileTask ==
    /\ pc = "file"
    /\ tree.filed[task] = "todo"
    /\ tree' = [tree EXCEPT !.filed[task] = verdict]
    /\ pc' = "book"
    /\ UNCHANGED <<head, base, patch, saved, trouble, caller, task, attempt, codex,
                   verdict, orphan, nightVars, cooldown, pastVars, calm>>

\* The bookkeeping commit.
Book ==
    /\ pc = "book"
    /\ Commit
    /\ cutShort' = IF head' = tree THEN cutShort ELSE cutShort \cup {task}
    /\ Exit(IF verdict = "done" THEN 0 ELSE 1)
    /\ UNCHANGED <<tree, trouble, cooldown, faults, moved, calm>>

\* The runner dies, perhaps with the lock of git's index in its hands; its
\* child lives on and keeps the lock of the runner.
Kill ==
    /\ pc # "off"
    /\ orphan' = IF pc = "agent" THEN "agent"
                 ELSE IF pc = "gates" THEN "check" ELSE "none"
    /\ trouble' \in {trouble, TRUE}
    /\ UNCHANGED <<tree, head, cooldown, booked>>
    /\ Gone(1)
    /\ CutShort
    /\ Fault(1) /\ calm' = FALSE

OrphanEnds ==
    /\ orphan # "none"
    /\ orphan' = "none"
    /\ UNCHANGED <<gitVars, trouble, pc, caller, task, attempt, codex, verdict,
                   nightVars, cooldown, pastVars, calm>>

\* The machine goes down, with everything that runs on it.
Crash ==
    /\ Fault(1)
    /\ trouble' \in {trouble, TRUE}
    /\ calm' = FALSE
    /\ UNCHANGED <<tree, head, task, cooldown, booked>>
    /\ pc' = "off" /\ orphan' = "none"
    /\ caller' = "night" /\ attempt' = 1 /\ codex' = "ok" /\ verdict' = "done"
    /\ base' = head' /\ patch' = {} /\ saved' = TRUE
    /\ night' = "off" /\ rc' = 0 /\ fails' = 0 /\ cooldowns' = 0
    /\ IF pc = "off" THEN UNCHANGED <<cutShort, moved>> ELSE CutShort

\* Trouble comes, and goes.
Trouble ==
    /\ trouble' = ~trouble
    /\ Fault(IF trouble THEN 0 ELSE 1)
    /\ calm' = FALSE
    /\ UNCHANGED <<gitVars, runVars, nightVars, cooldown, booked, cutShort,
                   moved>>

------------------------------------------------------------------------------
(***************************************************************************)
(* The supervisor and the clock.                                           *)
(***************************************************************************)

StartNight ==
    /\ night \in {"off", "clean"}
    /\ night' = "call"
    /\ fails' = 0 /\ cooldowns' = 0
    /\ calm' = (LockFree /\ head = tree /\ ~trouble)
    /\ UNCHANGED <<gitVars, trouble, runVars, rc, cooldown, pastVars>>

\* Mutant: any exit code 3 is taken for an idle queue.
NeverCoolingDown == FALSE

\* The exit code 3 came with a cooldown that is still on.
CoolingDown == cooldown = "on"

\* Mutant: the rate limits of a night are not counted.
SameCooldowns == cooldowns

MoreCooldowns == cooldowns + 1

\* The supervisor exits with 0 ("clean") or 1.
Over(end) == night' = end /\ fails' = 0 /\ cooldowns' = 0

Look ==
    /\ night = "look"
    /\ \/ /\ rc = 0
          /\ fails' = 0 /\ cooldowns' = 0
          /\ night' = "call"
       \/ /\ rc = 3 /\ CoolingDown
          /\ \/ MoreCooldowns > MAX_COOLDOWNS /\ Over("off")
             \/ /\ MoreCooldowns <= MAX_COOLDOWNS
                /\ cooldowns' = MoreCooldowns
                /\ night' = "sleep" /\ UNCHANGED fails
       \/ rc = 3 /\ ~CoolingDown /\ Over("clean")
       \/ /\ rc \notin {0, 3}
          /\ \/ fails + 1 >= MAX_CONSEC_FAILS /\ Over("off")
             \/ /\ fails + 1 < MAX_CONSEC_FAILS
                /\ fails' = fails + 1
                /\ night' = "call" /\ UNCHANGED cooldowns
    /\ rc' = 0
    /\ UNCHANGED <<gitVars, trouble, runVars, cooldown, pastVars, calm>>

\* The supervisor sleeps until 30 seconds after the cooldown it has read.
CooldownPasses ==
    /\ cooldown = "on"
    /\ cooldown' = "passed"
    /\ night' = IF night = "sleep" THEN "call" ELSE night
    /\ calm' = (calm /\ night = "sleep")
    /\ UNCHANGED <<gitVars, trouble, runVars, rc, fails, cooldowns, pastVars>>

\* What the runner does by itself, and the supervisor.
Runner == CommitPartialWork \/ SavePatch \/ RollBack \/ FileTask \/ Book \/ Abort

Night == Decline("night") \/ StartTask("night") \/ AbortStart("night") \/ Look

Next ==
    \/ Runner \/ Night \/ CooldownPasses \/ StartNight
    \/ Decline("cron") \/ StartTask("cron") \/ AbortStart("cron")
    \/ AgentWorks \/ (\E status \in {"ok", "error", "limit"} : AgentEnds(status))
    \/ Gates \/ Kill \/ OrphanEnds \/ Crash \/ Trouble

\* An agent may go on for ever (TASK_TIMEOUT is 0 unless somebody sets it), and
\* so may make check: nothing is assumed of AgentEnds and of Gates.
Fairness == WF_vars(Runner) /\ WF_vars(Night) /\ WF_vars(CooldownPasses)

Spec == Init /\ [][Next]_vars /\ Fairness

------------------------------------------------------------------------------
(***************************************************************************)
(* Properties.                                                             *)
(***************************************************************************)

\* "discarded work saved to FAILED_PATCH": whatever the order of attempts,
\* kills, failing commits and resets and the agent's own commits, no step other
\* than the agent's loses a change once its patch was written whole: what was
\* in the tree is there or in the patch. Without the proviso this is false: the
\* runner goes on when the patch cannot be written, and deletes new files.
NoWorkIsLost ==
    [][~AgentWorks /\ saved => tree.work \subseteq tree'.work \cup patch']_vars

\* "On failure the working tree is ROLLED BACK to the task's base commit": between
\* the verdicts, of a task that needs review only its BLOCKED note is on the
\* branch, unless a run of it ended without a committed verdict (a rate limit, a
\* kill, a command that failed) or git reset failed, which the runner passes
\* over: that work becomes part of the next base.
FailedWorkIsRolledBack ==
    ~Unsettled =>
        \A t \in Tasks \ (cutShort \cup moved) :
            tree.filed[t] = "needs-review" =>
                \A c \in tree.work \cup head.work : c.by = t => c.kind = "note"

\* "ALL must pass for tasks/done/": between the verdicts, work of a done task
\* is green, even if the task was cut short, since make check sees the whole
\* tree; that nothing in it smells or is blocked holds only for the others, as
\* these gates see a diff. An agent that moves a file of tasks/ is caught by
\* the gates, unless its run ended before them. Of a task that was cut short a
\* smelly change may be done: partial work that was committed at a rate limit is
\* in the base of the next run.
DoneWasGated ==
    ~Unsettled =>
        \A t \in Tasks \ moved : tree.filed[t] = "done" =>
            \A c \in tree.work : c.by = t =>
                /\ c.kind # "red"
                /\ t \notin cutShort => c.kind = "sound"

\* A verdict the runner has committed is final: no later rollback, of whatever
\* task, after whatever failed commits and resets, brings the file back to
\* tasks/todo, and no agent's move of it outlives the gates.
BookedIsFinal ==
    ~Unsettled =>
        \A t \in booked \ moved :
            tree.filed[t] # "todo" /\ head.filed[t] = tree.filed[t]

\* "Sleeps through provider-limit cooldowns instead of exiting": a night that
\* nothing disturbed and that ended as idle has left no task behind and nothing
\* uncommitted, however many rate limits it met.
NightIsUsed == (night = "clean" /\ calm) => (Todo = {} /\ tree = head)

\* Agents and checks come to an end, each time; trouble goes; from some time on
\* no agent puts a task back in the queue. Without any one of these a night can
\* go on for ever: the first two hold up its runner, or undo what it has filed.
AgentsEnd == []<>(pc \notin {"agent", "gates"})
TroubleGoes == <>[]~trouble
QueueIsNotRefilled ==
    <>[][AgentWorks => \A t \in Tasks :
            tree'.filed[t] = "todo" => tree.filed[t] = "todo"]_vars

\* The supervisor then comes to an end, whatever kills, cron runs, rate limits,
\* moved files and failing commands did before.
NightEnds ==
    AgentsEnd /\ TroubleGoes /\ QueueIsNotRefilled =>
        ((night = "call") ~> (night \in {"off", "clean"}))
=============================================================================
