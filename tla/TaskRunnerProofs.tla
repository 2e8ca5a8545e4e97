-------------------------- MODULE TaskRunnerProofs --------------------------
(***************************************************************************)
(* Safety of the unattended task runner for any finite set of tasks, any   *)
(* changes agents may make, any limits and any number of faults.           *)
(*                                                                         *)
(* The inductive invariant follows a task whose runs were not cut short    *)
(* and whose file nobody has moved through the three copies of the         *)
(* repository, the working tree, HEAD and the base commit: while another   *)
(* task runs the three agree on its work, and while it runs itself the     *)
(* base knows nothing of it. What an agent does to files that are not its  *)
(* own counts only once a run is over: until then only BASE is trusted.    *)
(***************************************************************************)
EXTENDS TaskRunner, TLAPS

\* The task in the runner's hands.
Running(t) == pc # "off" /\ t = task

\* A file leaves tasks/todo in the tree first, then in HEAD, then in a base.
FiledInOrder ==
    \A t \in Tasks \ moved :
        /\ Running(t) => base.filed[t] = "todo"
        /\ ~Unsettled =>
              /\ head.filed[t] # "todo" => tree.filed[t] = head.filed[t]
              /\ base.filed[t] # "todo" => head.filed[t] = base.filed[t]

\* What the runner knows at each point, and what its end leaves running.
Progress ==
    /\ pc = "file" /\ task \notin moved => tree.filed[task] = "todo"
    /\ pc = "book" => tree.filed[task] = verdict
    /\ pc \in {"save", "reset"} => verdict = "needs-review"
    /\ pc = "reset" /\ saved => patch = Diff
    /\ pc = "limited" => codex = "limit"
    /\ orphan # "none" => pc = "off"
    /\ orphan = "agent" =>
          /\ task \in cutShort
          /\ task \notin moved => /\ tree.filed[task] = "todo"
                                 /\ head.filed[task] = "todo"
                                 /\ base.filed[task] = "todo"

\* No red change of a task in a set of changes.
GreenIn(t, W) == \A c \in W : c.by = t => c.kind # "red"

\* What is done is green, in every copy.
DoneIsGreen ==
    /\ \A t \in Tasks \ moved :
          /\ base.filed[t] = "done" =>
                GreenIn(t, tree.work) /\ GreenIn(t, head.work) /\ GreenIn(t, base.work)
          /\ ~Unsettled /\ head.filed[t] = "done" => GreenIn(t, head.work)
          /\ ~Unsettled /\ tree.filed[t] = "done" => GreenIn(t, tree.work)
    /\ (pc = "file" /\ verdict = "done") => CheckIsGreen

\* A task that was not cut short, was not moved and is not running.
AtRest ==
    \A t \in Tasks \ (cutShort \cup moved) : ~Running(t) =>
        /\ ~Unsettled => /\ tree.filed[t] = head.filed[t]
                         /\ head.filed[t] = base.filed[t]
        /\ \A c \in Change : c.by = t =>
               /\ c \in tree.work <=> c \in head.work
               /\ c \in head.work <=> c \in base.work
               /\ c \in base.work =>
                      \/ base.filed[t] = "done" /\ c.kind = "sound"
                      \/ base.filed[t] = "needs-review" /\ c.kind = "note"

\* A task that was not cut short, was not moved and is running.
InHand ==
    pc # "off" /\ task \notin cutShort \cup moved =>
        /\ \A c \in base.work : c.by # task
        /\ pc \in {"file", "book"} =>
              \A c \in Change : c.by = task =>
                  /\ c \in tree.work =>
                         c.kind = IF verdict = "done" THEN "sound" ELSE "note"
                  /\ (verdict = "needs-review") => c \notin head.work

\* What the runner has committed is filed, in all three copies between runs.
Booked ==
    \A t \in booked \ moved :
        /\ base.filed[t] # "todo"
        /\ ~Unsettled => /\ tree.filed[t] = base.filed[t]
                         /\ head.filed[t] = base.filed[t]

\* The supervisor waits for the runner it has started.
Waiting == (pc # "off" /\ caller = "night") => night = "wait"

\* A night that nothing has disturbed.
Undisturbed ==
    /\ calm => ~trouble
    /\ calm /\ night # "off" =>
          /\ orphan = "none"
          /\ pc = "off" => tree = head
          /\ (/\ pc \in {"gates", "limited"} /\ caller = "night"
              /\ codex = "limit") => cooldown = "on"
          /\ (night = "look" /\ rc = 3 /\ cooldown # "on") \/ night = "clean" =>
                 Todo = {} /\ pc = "off"

IInv == /\ TypeOK /\ FiledInOrder /\ Progress /\ DoneIsGreen /\ AtRest /\ InHand
        /\ Booked /\ Waiting /\ Undisturbed

------------------------------------------------------------------------------
(***************************************************************************)
(* The steps, those that touch neither the repository nor a runner taken   *)
(* together.                                                               *)
(***************************************************************************)

Outside ==
    \/ \E who \in {"night", "cron"} : Decline(who)
    \/ Look \/ CooldownPasses \/ StartNight \/ Trouble \/ UNCHANGED vars

LEMMA OutsideKeeps ==
  ASSUME Outside
  PROVE  UNCHANGED <<tree, head, base, patch, saved, pc, caller, task, attempt,
                     codex, verdict, orphan, booked, cutShort, moved>>
  BY DEF Outside, Decline, Look, CooldownPasses, StartNight, Trouble, vars,
         gitVars, runVars, nightVars, pastVars

LEMMA Steps ==
  ASSUME [Next]_vars
  PROVE  \/ Outside
         \/ \E status \in {"ok", "error", "limit"} : AgentEnds(status)
         \/ Gates \/ CommitPartialWork \/ SavePatch \/ RollBack \/ FileTask
         \/ Book \/ Abort
         \/ \E who \in {"night", "cron"} : StartTask(who)
         \/ \E who \in {"night", "cron"} : AbortStart(who)
         \/ AgentWorks \/ Kill \/ OrphanEnds \/ Crash
  BY DEF Next, Runner, Night, Outside

\* The gates look and touch nothing; what passes has moved no file.
LEMMA GatesStep ==
  ASSUME Gates
  PROVE  /\ UNCHANGED <<tree, head, base, patch, saved, task, codex, orphan,
                        booked, cutShort, moved>>
         /\ pc = "gates" /\ pc' \in {"agent", "limited", "file", "save"}
         /\ pc' = "limited" => codex = "limit"
         /\ pc' = "save" => verdict' = "needs-review"
         /\ pc' = "file" =>
               /\ verdict' = "done" /\ CheckIsGreen
               /\ tree.filed = base.filed /\ tree.filed = head.filed
               /\ \A c \in tree.work \ base.work : c.kind \notin {"smelly", "note"}
<1>1. Passed => /\ CheckIsGreen
                /\ tree.filed = base.filed /\ tree.filed = head.filed
                /\ \A c \in tree.work \ base.work : c.kind \notin {"smelly", "note"}
  BY DEF Passed, Smells, Blocked, Diff
<1> HIDE DEF CheckIsGreen
<1>2. UNCHANGED <<tree, head, base, patch, saved, task, codex, orphan, booked,
                  cutShort, moved>>
  BY DEF Gates, gitVars, pastVars
<1>3. /\ pc = "gates"
      /\ pc' = IF Retry THEN "agent"
               ELSE IF codex = "limit" THEN "limited"
               ELSE IF Passed THEN "file" ELSE "save"
      /\ verdict' = IF Passed THEN "done" ELSE "needs-review"
  BY DEF Gates
<1>4. Passed => ~Retry /\ codex # "limit"
  BY DEF Passed, Retry
<1> HIDE DEF Passed, Retry
<1> QED BY <1>1, <1>2, <1>3, <1>4

\* An agent changes its own work and moves files; a move by an agent whose
\* runner is gone is remembered.
LEMMA AgentStep ==
  ASSUME TypeOK, AgentWorks
  PROVE  /\ tree' \in Snapshot
         /\ \A c \in tree'.work \ tree.work : c.by = task
         /\ \A c \in tree.work \ tree'.work : c.by = task
         /\ head' = head \/ (head' = tree' /\ tree' = tree)
         /\ moved \subseteq moved' /\ moved' \subseteq Tasks
         /\ orphan = "agent" =>
               \A t \in Tasks \ moved' : tree'.filed[t] = tree.filed[t]
<1> USE DEF TypeOK, Snapshot, AgentWorks
<1>1. CASE UNCHANGED <<tree, moved>>
  BY <1>1
<1>2. ASSUME NEW c \in {d \in AgentChanges : d.by = task}, UNCHANGED moved,
             \/ tree' = [tree EXCEPT !.work = @ \ {c}]
             \/ tree' = [tree EXCEPT !.work = @ \cup {c}]
      PROVE  /\ tree'.filed = tree.filed /\ tree' \in Snapshot
             /\ \A d \in tree'.work \ tree.work : d.by = task
             /\ \A d \in tree.work \ tree'.work : d.by = task
  BY <1>2, RunnerAssumption
<1>3. ASSUME NEW m \in AgentMoves,
             tree' = [tree EXCEPT !.filed[m[1]] = m[2]],
             moved' = moved \cup {t \in {m[1]} : orphan = "agent"}
      PROVE  /\ tree' \in Snapshot /\ tree'.work = tree.work
             /\ moved \subseteq moved' /\ moved' \subseteq Tasks
             /\ orphan = "agent" =>
                   \A t \in Tasks \ moved' : tree'.filed[t] = tree.filed[t]
  <2>1. m[1] \in Tasks /\ m[2] \in Places
    BY RunnerAssumption
  <2> QED BY <1>3, <2>1
<1> QED BY <1>1, <1>2, <1>3

\* Files leave tasks/todo in the same order everywhere.
LEMMA FiledStep ==
  ASSUME IInv, [Next]_vars PROVE FiledInOrder'
<1> USE DEF IInv, gitVars, runVars, nightVars, pastVars, TypeOK,
        Snapshot, Places, FiledInOrder, Progress, Running, Unsettled
<1>1. CASE Outside
  BY <1>1, OutsideKeeps DEF Diff
<1>2. ASSUME NEW status \in {"ok", "error", "limit"}, AgentEnds(status)
      PROVE  FiledInOrder'
  BY <1>2 DEF AgentEnds
<1>3. CASE Gates
  BY <1>3, GatesStep
<1>4. CASE CommitPartialWork
  BY <1>4 DEF CommitPartialWork, Commit, CutShort, Astray, Exit, Gone, Todo
<1>5. CASE SavePatch
  BY <1>5 DEF SavePatch, Discarded, Diff
<1>6. CASE RollBack
  <2>1. CASE Reset
    BY <1>6, <2>1 DEF RollBack, Reset, HeadAfterReset, Notes, Diff
  <2>2. CASE ResetFails
    BY <1>6, <2>2 DEF RollBack, ResetFails, HeadAfterReset, CutShort, Astray
  <2> QED BY <1>6, <2>1, <2>2 DEF RollBack
<1>7. CASE FileTask
  BY <1>7 DEF FileTask
<1>8. CASE Book
  BY <1>8 DEF Book, Commit, Exit, Gone, Todo
<1>9. CASE Abort
  BY <1>9 DEF Abort, CutShort, Astray, Exit, Gone
<1>10. ASSUME NEW who \in {"night", "cron"}, StartTask(who)
      PROVE  FiledInOrder'
  BY <1>10 DEF StartTask, Begins, Commit, BaseOfTask, Todo, LockFree
<1>11. ASSUME NEW who \in {"night", "cron"}, AbortStart(who)
      PROVE  FiledInOrder'
  BY <1>11 DEF AbortStart, Stumbles, Begins, Commit, Todo, LockFree
<1>12. CASE AgentWorks
  BY <1>12, AgentStep DEF AgentWorks
<1>13. CASE Kill
  BY <1>13 DEF Kill, CutShort, Astray, Gone
<1>14. CASE OrphanEnds
  BY <1>14 DEF OrphanEnds
<1>15. CASE Crash
  BY <1>15 DEF Crash, CutShort, Astray
<1> QED BY <1>1, <1>2, <1>3, <1>4, <1>5, <1>6, <1>7, <1>8,
          <1>9, <1>10, <1>11, <1>12, <1>13, <1>14, <1>15, Steps

\* The file of the running task is where the runner thinks it is.
LEMMA ProgressStep ==
  ASSUME IInv, [Next]_vars PROVE Progress'
<1> USE DEF IInv, gitVars, runVars, nightVars, pastVars, TypeOK,
        Snapshot, Places, FiledInOrder, Progress, Running, Unsettled
<1>1. CASE Outside
  BY <1>1, OutsideKeeps DEF Diff
<1>2. ASSUME NEW status \in {"ok", "error", "limit"}, AgentEnds(status)
      PROVE  Progress'
  BY <1>2 DEF AgentEnds
<1>3. CASE Gates
  BY <1>3, GatesStep
<1>4. CASE CommitPartialWork
  BY <1>4 DEF CommitPartialWork, Commit, CutShort, Astray, Exit, Gone, Todo
<1>5. CASE SavePatch
  BY <1>5 DEF SavePatch, Discarded, Diff
<1>6. CASE RollBack
  <2>1. CASE Reset
    BY <1>6, <2>1 DEF RollBack, Reset, HeadAfterReset, Notes, Diff
  <2>2. CASE ResetFails
    BY <1>6, <2>2 DEF RollBack, ResetFails, HeadAfterReset, CutShort, Astray
  <2> QED BY <1>6, <2>1, <2>2 DEF RollBack
<1>7. CASE FileTask
  BY <1>7 DEF FileTask
<1>8. CASE Book
  BY <1>8 DEF Book, Commit, Exit, Gone, Todo
<1>9. CASE Abort
  BY <1>9 DEF Abort, CutShort, Astray, Exit, Gone
<1>10. ASSUME NEW who \in {"night", "cron"}, StartTask(who)
      PROVE  Progress'
  BY <1>10 DEF StartTask, Begins, Commit, BaseOfTask, Todo, LockFree
<1>11. ASSUME NEW who \in {"night", "cron"}, AbortStart(who)
      PROVE  Progress'
  BY <1>11 DEF AbortStart, Stumbles, Begins, Commit, Todo, LockFree
<1>12. CASE AgentWorks
  BY <1>12, AgentStep DEF AgentWorks
<1>13. CASE Kill
  BY <1>13 DEF Kill, CutShort, Astray, Gone
<1>14. CASE OrphanEnds
  BY <1>14 DEF OrphanEnds
<1>15. CASE Crash
  BY <1>15 DEF Crash, CutShort, Astray
<1> QED BY <1>1, <1>2, <1>3, <1>4, <1>5, <1>6, <1>7, <1>8,
          <1>9, <1>10, <1>11, <1>12, <1>13, <1>14, <1>15, Steps

\* Done work stays green, whoever commits or rolls back.
LEMMA GreenStep ==
  ASSUME IInv, [Next]_vars PROVE DoneIsGreen'
<1> USE DEF IInv, gitVars, runVars, nightVars, pastVars, TypeOK,
        Snapshot, Change, Kinds, FiledInOrder, Progress, Running, Unsettled,
        DoneIsGreen, GreenIn, CheckIsGreen
<1>1. CASE Outside
  BY <1>1, OutsideKeeps DEF Diff
<1>2. ASSUME NEW status \in {"ok", "error", "limit"}, AgentEnds(status)
      PROVE  DoneIsGreen'
  BY <1>2 DEF AgentEnds
<1>3. CASE Gates
  BY <1>3, GatesStep
<1>4. CASE CommitPartialWork
  BY <1>4 DEF CommitPartialWork, Commit, CutShort, Astray, Exit, Gone, Todo
<1>5. CASE SavePatch
  BY <1>5 DEF SavePatch, Discarded, Diff
<1>6. CASE RollBack
  <2>1. CASE Reset
    BY <1>6, <2>1 DEF RollBack, Reset, HeadAfterReset, Notes, Diff
  <2>2. CASE ResetFails
    BY <1>6, <2>2 DEF RollBack, ResetFails, HeadAfterReset, CutShort, Astray
  <2> QED BY <1>6, <2>1, <2>2 DEF RollBack
<1>7. CASE FileTask
  BY <1>7 DEF FileTask
<1>8. CASE Book
  BY <1>8 DEF Book, Commit, Exit, Gone, Todo
<1>9. CASE Abort
  BY <1>9 DEF Abort, CutShort, Astray, Exit, Gone
<1>10. ASSUME NEW who \in {"night", "cron"}, StartTask(who)
      PROVE  DoneIsGreen'
  BY <1>10 DEF StartTask, Begins, Commit, BaseOfTask, Todo, LockFree
<1>11. ASSUME NEW who \in {"night", "cron"}, AbortStart(who)
      PROVE  DoneIsGreen'
  BY <1>11 DEF AbortStart, Stumbles, Begins, Commit, Todo, LockFree
<1>12. CASE AgentWorks
  BY <1>12, AgentStep DEF AgentWorks
<1>13. CASE Kill
  BY <1>13 DEF Kill, CutShort, Astray, Gone
<1>14. CASE OrphanEnds
  BY <1>14 DEF OrphanEnds
<1>15. CASE Crash
  BY <1>15 DEF Crash, CutShort, Astray
<1> QED BY <1>1, <1>2, <1>3, <1>4, <1>5, <1>6, <1>7, <1>8,
          <1>9, <1>10, <1>11, <1>12, <1>13, <1>14, <1>15, Steps

\* Other tasks than the running one are left alone.
LEMMA RestStep ==
  ASSUME IInv, [Next]_vars PROVE AtRest'
<1> USE DEF IInv, gitVars, runVars, nightVars, pastVars, TypeOK,
        Snapshot, Change, Kinds, Places, Progress, FiledInOrder, AtRest,
        InHand, Running, Unsettled
<1>1. CASE Outside
  BY <1>1, OutsideKeeps DEF Diff
<1>2. ASSUME NEW status \in {"ok", "error", "limit"}, AgentEnds(status)
      PROVE  AtRest'
  BY <1>2 DEF AgentEnds
<1>3. CASE Gates
  BY <1>3, GatesStep
<1>4. CASE CommitPartialWork
  BY <1>4 DEF CommitPartialWork, Commit, CutShort, Astray, Exit, Gone, Todo
<1>5. CASE SavePatch
  BY <1>5 DEF SavePatch, Discarded, Diff
<1>6. CASE RollBack
  <2>1. CASE Reset
    BY <1>6, <2>1 DEF RollBack, Reset, HeadAfterReset, Notes, Diff
  <2>2. CASE ResetFails
    BY <1>6, <2>2 DEF RollBack, ResetFails, HeadAfterReset, CutShort, Astray
  <2> QED BY <1>6, <2>1, <2>2 DEF RollBack
<1>7. CASE FileTask
  BY <1>7 DEF FileTask
<1>8. CASE Book
  BY <1>8 DEF Book, Commit, Exit, Gone, Todo
<1>9. CASE Abort
  BY <1>9 DEF Abort, CutShort, Astray, Exit, Gone
<1>10. ASSUME NEW who \in {"night", "cron"}, StartTask(who)
      PROVE  AtRest'
  BY <1>10 DEF StartTask, Begins, Commit, BaseOfTask, Todo, LockFree
<1>11. ASSUME NEW who \in {"night", "cron"}, AbortStart(who)
      PROVE  AtRest'
  BY <1>11 DEF AbortStart, Stumbles, Begins, Commit, Todo, LockFree
<1>12. CASE AgentWorks
  <2>1. UNCHANGED <<base, pc, task, orphan, cutShort>>
    BY <1>12 DEF AgentWorks
  <2>2. pc = "agent" \/ orphan = "agent"
    BY <1>12 DEF AgentWorks
  <2>3. ASSUME NEW t \in Tasks \ (cutShort' \cup moved'), ~Running(t)',
               ~Unsettled'
        PROVE  /\ tree'.filed[t] = head'.filed[t]
               /\ head'.filed[t] = base'.filed[t]
    <3>1. orphan = "agent" /\ pc = "off" /\ task \in cutShort
      BY <2>1, <2>2, <2>3
    <3> QED BY <1>12, <2>1, <2>3, <3>1, AgentStep
  <2>4. ASSUME NEW t \in Tasks \ (cutShort' \cup moved'), ~Running(t)'
        PROVE  t # task /\ t \notin cutShort \cup moved /\ ~Running(t)
    BY <1>12, <2>1, <2>2, <2>4, AgentStep
  <2>5. ASSUME NEW t \in Tasks \ (cutShort' \cup moved'), ~Running(t)',
               NEW c \in Change, c.by = t
        PROVE  /\ c \in tree'.work <=> c \in head'.work
               /\ c \in head'.work <=> c \in base'.work
               /\ c \in base'.work =>
                      \/ base'.filed[t] = "done" /\ c.kind = "sound"
                      \/ base'.filed[t] = "needs-review" /\ c.kind = "note"
    BY <1>12, <2>1, <2>4, <2>5, AgentStep
  <2> QED BY <2>3, <2>5
<1>13. CASE Kill
  BY <1>13 DEF Kill, CutShort, Astray, Gone
<1>14. CASE OrphanEnds
  BY <1>14 DEF OrphanEnds
<1>15. CASE Crash
  BY <1>15 DEF Crash, CutShort, Astray
<1> QED BY <1>1, <1>2, <1>3, <1>4, <1>5, <1>6, <1>7, <1>8,
          <1>9, <1>10, <1>11, <1>12, <1>13, <1>14, <1>15, Steps

\* A task in hand leaves on the branch only what its verdict allows.
LEMMA HandStep ==
  ASSUME IInv, [Next]_vars PROVE InHand'
<1> USE DEF IInv, gitVars, runVars, nightVars, pastVars, TypeOK,
        Snapshot, Change, Kinds, Places, Progress, FiledInOrder, AtRest,
        InHand, Running, Unsettled
<1>1. CASE Outside
  BY <1>1, OutsideKeeps DEF Diff
<1>2. ASSUME NEW status \in {"ok", "error", "limit"}, AgentEnds(status)
      PROVE  InHand'
  BY <1>2 DEF AgentEnds
<1>3. CASE Gates
  <2> SUFFICES ASSUME pc' = "file", task \notin cutShort \cup moved
               PROVE  \A c \in Change : c.by = task =>
                          (c \in tree.work => c.kind = "sound")
    BY <1>3, GatesStep
  <2>1. \A c \in tree.work : c.by = task =>
            c.kind \notin {"smelly", "note", "red"}
    BY <1>3, GatesStep DEF CheckIsGreen
  <2> QED BY <2>1
<1>4. CASE CommitPartialWork
  BY <1>4 DEF CommitPartialWork, Commit, CutShort, Astray, Exit, Gone, Todo
<1>5. CASE SavePatch
  BY <1>5 DEF SavePatch, Discarded, Diff
<1>6. CASE RollBack
  <2>1. CASE Reset
    BY <1>6, <2>1 DEF RollBack, Reset, HeadAfterReset, Notes, Diff
  <2>2. CASE ResetFails
    BY <1>6, <2>2 DEF RollBack, ResetFails, HeadAfterReset, CutShort, Astray
  <2> QED BY <1>6, <2>1, <2>2 DEF RollBack
<1>7. CASE FileTask
  BY <1>7 DEF FileTask
<1>8. CASE Book
  BY <1>8 DEF Book, Commit, Exit, Gone, Todo
<1>9. CASE Abort
  BY <1>9 DEF Abort, CutShort, Astray, Exit, Gone
<1>10. ASSUME NEW who \in {"night", "cron"}, StartTask(who)
      PROVE  InHand'
  BY <1>10 DEF StartTask, Begins, Commit, BaseOfTask, Todo, LockFree
<1>11. ASSUME NEW who \in {"night", "cron"}, AbortStart(who)
      PROVE  InHand'
  BY <1>11 DEF AbortStart, Stumbles, Begins, Commit, Todo, LockFree
<1>12. CASE AgentWorks
  BY <1>12, AgentStep DEF AgentWorks
<1>13. CASE Kill
  BY <1>13 DEF Kill, CutShort, Astray, Gone
<1>14. CASE OrphanEnds
  BY <1>14 DEF OrphanEnds
<1>15. CASE Crash
  BY <1>15 DEF Crash, CutShort, Astray
<1> QED BY <1>1, <1>2, <1>3, <1>4, <1>5, <1>6, <1>7, <1>8,
          <1>9, <1>10, <1>11, <1>12, <1>13, <1>14, <1>15, Steps

\* No rollback reaches behind a committed verdict.
LEMMA BookedStep ==
  ASSUME IInv, [Next]_vars PROVE Booked'
<1> USE DEF IInv, gitVars, runVars, nightVars, pastVars, TypeOK,
        Snapshot, Places, Progress, FiledInOrder, Running, Unsettled, Booked
<1>1. CASE Outside
  BY <1>1, OutsideKeeps DEF Diff
<1>2. ASSUME NEW status \in {"ok", "error", "limit"}, AgentEnds(status)
      PROVE  Booked'
  BY <1>2 DEF AgentEnds
<1>3. CASE Gates
  BY <1>3, GatesStep
<1>4. CASE CommitPartialWork
  BY <1>4 DEF CommitPartialWork, Commit, CutShort, Astray, Exit, Gone, Todo
<1>5. CASE SavePatch
  BY <1>5 DEF SavePatch, Discarded, Diff
<1>6. CASE RollBack
  <2>1. CASE Reset
    BY <1>6, <2>1 DEF RollBack, Reset, HeadAfterReset, Notes, Diff
  <2>2. CASE ResetFails
    BY <1>6, <2>2 DEF RollBack, ResetFails, HeadAfterReset, CutShort, Astray
  <2> QED BY <1>6, <2>1, <2>2 DEF RollBack
<1>7. CASE FileTask
  BY <1>7 DEF FileTask
<1>8. CASE Book
  BY <1>8 DEF Book, Commit, Exit, Gone, Todo
<1>9. CASE Abort
  BY <1>9 DEF Abort, CutShort, Astray, Exit, Gone
<1>10. ASSUME NEW who \in {"night", "cron"}, StartTask(who)
      PROVE  Booked'
  BY <1>10 DEF StartTask, Begins, Commit, BaseOfTask, Todo, LockFree
<1>11. ASSUME NEW who \in {"night", "cron"}, AbortStart(who)
      PROVE  Booked'
  BY <1>11 DEF AbortStart, Stumbles, Begins, Commit, Todo, LockFree
<1>12. CASE AgentWorks
  BY <1>12, AgentStep DEF AgentWorks
<1>13. CASE Kill
  BY <1>13 DEF Kill, CutShort, Astray, Gone
<1>14. CASE OrphanEnds
  BY <1>14 DEF OrphanEnds
<1>15. CASE Crash
  BY <1>15 DEF Crash, CutShort, Astray
<1> QED BY <1>1, <1>2, <1>3, <1>4, <1>5, <1>6, <1>7, <1>8,
          <1>9, <1>10, <1>11, <1>12, <1>13, <1>14, <1>15, Steps

LEMMA Limits ==
  /\ FIX_ATTEMPTS \in Nat /\ MAX_CONSEC_FAILS \in Nat \ {0}
  /\ MAX_COOLDOWNS \in Nat /\ MaxFaults \in Nat
  BY RunnerAssumption

LEMMA CommitType ==
  ASSUME TypeOK, Commit
  PROVE  head' \in Snapshot /\ booked' \in SUBSET Tasks
  BY DEF Commit, TypeOK

LEMMA GoneType ==
  ASSUME TypeOK, NEW code \in {0, 1, 3}, Gone(code)
  PROVE  /\ pc' \in Points /\ caller' \in {"night", "cron"}
         /\ attempt' \in 1..(1 + FIX_ATTEMPTS)
         /\ codex' \in {"ok", "error", "limit"}
         /\ verdict' \in {"done", "needs-review"}
         /\ night' \in {night, "look"} /\ rc' \in {0, 1, 3}
         /\ task' = task /\ fails' = fails /\ cooldowns' = cooldowns
         /\ base' = head' /\ patch' = {} /\ saved' = TRUE
  BY Limits DEF Gone, Returns, TypeOK, Points

LEMMA CutShortType ==
  ASSUME TypeOK, CutShort
  PROVE  cutShort' \in SUBSET Tasks /\ moved' \in SUBSET Tasks
  BY DEF TypeOK, CutShort, Astray

LEMMA BeginsType ==
  ASSUME TypeOK, NEW who \in {"night", "cron"}, Begins(who)
  PROVE  /\ head' \in Snapshot /\ booked' \in SUBSET Tasks
         /\ cooldown' = "none" /\ patch' = {} /\ saved' = TRUE
         /\ faults' \in 0..MaxFaults
<1>1. faults' \in 0..MaxFaults
  BY Limits DEF TypeOK, Begins, Fault
<1> QED BY <1>1, CommitType DEF Begins

LEMMA ReturnsType ==
  ASSUME TypeOK, NEW code \in {0, 1, 3}, NEW who, Returns(who, code)
  PROVE  night' \in {night, "look"} /\ rc' \in {0, 1, 3}
  BY DEF Returns, TypeOK

LEMMA DeclineType ==
  ASSUME TypeOK, NEW who, Decline(who)
  PROVE  calm' \in BOOLEAN /\ cooldown' \in {cooldown, "none"}
  BY DEF Decline, Disturbed, TypeOK

\* Type correctness. The limits of the supervisor bound its counters.
LEMMA TypeStep ==
  ASSUME IInv, [Next]_vars PROVE TypeOK'
<1> USE Limits DEF IInv, gitVars, runVars, nightVars, pastVars, TypeOK,
        Snapshot, Points, Places, Waiting, Change
<1>1. ASSUME NEW status \in {"ok", "error", "limit"}, AgentEnds(status)
      PROVE  TypeOK'
  BY <1>1 DEF AgentEnds
<1>2. CASE Gates
  BY <1>2 DEF Gates, Retry
<1>3. CASE CommitPartialWork
  BY <1>3, CommitType, GoneType, CutShortType DEF CommitPartialWork, Exit
<1>4. CASE SavePatch
  <2>1. saved' \in BOOLEAN /\ trouble' \in BOOLEAN /\ calm' \in BOOLEAN
    BY <1>4 DEF SavePatch
  <2> QED BY <1>4, <2>1 DEF SavePatch, Discarded, Diff
<1>5. CASE RollBack
  <2>1. CASE Reset
    BY <1>5, <2>1 DEF RollBack, Reset, HeadAfterReset, Notes, Diff
  <2>2. CASE ResetFails
    <3>1. tree' \in Snapshot /\ head' \in Snapshot
      BY <2>2 DEF ResetFails, HeadAfterReset
    <3>2. cutShort' \in SUBSET Tasks /\ moved' \in SUBSET Tasks
      BY <2>2, CutShortType DEF ResetFails
    <3> QED BY <1>5, <3>1, <3>2 DEF RollBack
  <2> QED BY <1>5, <2>1, <2>2 DEF RollBack
<1>6. CASE FileTask
  BY <1>6 DEF FileTask
<1>7. CASE Book
  <2>1. /\ Gone(IF verdict = "done" THEN 0 ELSE 1) /\ Commit /\ tree' = tree
        /\ UNCHANGED <<trouble, cooldown, orphan, faults, moved, calm>>
        /\ cutShort' \in {cutShort, cutShort \cup {task}}
    BY <1>7 DEF Book, Exit
  <2>2. saved' \in BOOLEAN /\ trouble' \in BOOLEAN /\ calm' \in BOOLEAN
    BY <2>1, GoneType
  <2>3. head' \in Snapshot /\ booked' \in SUBSET Tasks /\ base' = head'
    BY <2>1, CommitType, GoneType
  <2>4. /\ pc' \in Points /\ caller' \in {"night", "cron"}
        /\ attempt' \in 1..(1 + FIX_ATTEMPTS) /\ task' = task
        /\ codex' \in {"ok", "error", "limit"} /\ patch' = {}
        /\ verdict' \in {"done", "needs-review"}
    BY <2>1, GoneType
  <2>5. /\ night' \in {night, "look"} /\ rc' \in {0, 1, 3}
        /\ fails' = fails /\ cooldowns' = cooldowns
    BY <2>1, GoneType
  <2> QED BY <2>1, <2>2, <2>3, <2>4, <2>5
<1>8. ASSUME NEW who \in {"night", "cron"}, StartTask(who)
      PROVE  TypeOK'
  <2>1. saved' \in BOOLEAN /\ trouble' \in BOOLEAN /\ calm' \in BOOLEAN
    BY <1>8, BeginsType DEF StartTask
  <2>2. /\ head' \in Snapshot /\ booked' \in SUBSET Tasks /\ base' = head'
        /\ cooldown' = "none" /\ patch' = {} /\ faults' \in 0..MaxFaults
    BY <1>8, BeginsType DEF StartTask, BaseOfTask
  <2> QED BY <1>8, <2>1, <2>2 DEF StartTask, Todo
<1>9. CASE AgentWorks
  <2>1. tree' \in Snapshot /\ head' \in Snapshot /\ moved' \in SUBSET Tasks
    BY <1>9, AgentStep
  <2>2. UNCHANGED <<base, patch, saved, trouble, runVars, nightVars, cooldown,
                    faults, booked, cutShort, calm>>
    BY <1>9 DEF AgentWorks
  <2> QED BY <2>1, <2>2
<1>10. CASE Kill
  <2>1. faults' \in 0..MaxFaults
    BY <1>10 DEF Kill, Fault
  <2>2. /\ Gone(1) /\ CutShort /\ calm' = FALSE /\ trouble' \in BOOLEAN
        /\ tree' = tree /\ head' = head /\ cooldown' = cooldown
        /\ booked' = booked /\ orphan' \in {"none", "agent", "check"}
    BY <1>10 DEF Kill
  <2> QED BY <2>1, <2>2, GoneType, CutShortType
<1>11. CASE OrphanEnds
  BY <1>11 DEF OrphanEnds
<1>12. CASE Crash
  <2>1. faults' \in 0..MaxFaults
    BY <1>12 DEF Crash, Fault
  <2>2. cutShort' \in SUBSET Tasks /\ moved' \in SUBSET Tasks
    BY <1>12, CutShortType DEF Crash
  <2>3. saved' \in BOOLEAN /\ trouble' \in BOOLEAN /\ calm' \in BOOLEAN
    BY <1>12 DEF Crash
  <2> QED BY <1>12, <2>1, <2>2, <2>3 DEF Crash
<1>13. ASSUME NEW who \in {"night", "cron"}, Decline(who)
      PROVE  TypeOK'
  BY <1>13, ReturnsType, DeclineType DEF Decline
<1>14. CASE Look
  BY <1>14 DEF Look, Over, MoreCooldowns
<1>15. CASE CooldownPasses
  BY <1>15 DEF CooldownPasses
<1>16. CASE StartNight
  BY <1>16 DEF StartNight
<1>17. CASE UNCHANGED vars
  BY <1>17 DEF vars
<1>18. CASE Abort
  <2>1. /\ Gone(1) /\ CutShort /\ calm' = FALSE
        /\ UNCHANGED <<tree, head, trouble, orphan, faults, booked>>
        /\ cooldown' \in {cooldown, "passed"}
    BY <1>18 DEF Abort, Exit
  <2> QED BY <2>1, GoneType, CutShortType
<1>19. ASSUME NEW who \in {"night", "cron"}, AbortStart(who)
      PROVE  TypeOK'
  <2>1. /\ Returns(who, 1) /\ tree' = tree /\ calm' = FALSE
        /\ UNCHANGED <<trouble, runVars, fails, cooldowns, cutShort, moved>>
    BY <1>19 DEF AbortStart, Stumbles
  <2>2. night' \in {night, "look"} /\ rc' \in {0, 1, 3}
    BY <2>1, ReturnsType
  <2>3. CASE Stumbles(who)
    <3>1. saved' \in BOOLEAN /\ trouble' \in BOOLEAN /\ calm' \in BOOLEAN
      BY <2>1, <2>3 DEF Stumbles
    <3>2. UNCHANGED <<tree, head, base, patch, cooldown, booked, faults>>
      BY <2>1, <2>3 DEF Stumbles
    <3> QED BY <2>1, <2>2, <3>1, <3>2
  <2>4. CASE Begins(who) /\ base' = head'
    <3>1. /\ head' \in Snapshot /\ booked' \in SUBSET Tasks /\ base' \in Snapshot
          /\ cooldown' = "none" /\ patch' = {} /\ faults' \in 0..MaxFaults
      BY <2>4, BeginsType
    <3>2. saved' \in BOOLEAN /\ trouble' \in BOOLEAN /\ calm' \in BOOLEAN
      BY <2>1, <2>4, BeginsType
    <3> QED BY <2>1, <2>2, <3>1, <3>2
  <2> QED BY <1>19, <2>3, <2>4 DEF AbortStart
<1>20. CASE Trouble
  <2>1. saved' \in BOOLEAN /\ trouble' \in BOOLEAN /\ calm' \in BOOLEAN
    BY <1>20 DEF Trouble
  <2>2. faults' \in 0..MaxFaults
    BY <1>20 DEF Trouble, Fault
  <2> QED BY <1>20, <2>1, <2>2 DEF Trouble
<1> QED BY <1>1, <1>2, <1>3, <1>4, <1>5, <1>6, <1>7, <1>8, <1>9, <1>10, <1>11,
          <1>12, <1>13, <1>14, <1>15, <1>16, <1>17, <1>18, <1>19, <1>20
     DEF Next, Runner, Night

\* Only the end of its own runner gives the supervisor an exit code to look at.
LEMMA WaitingStep ==
  ASSUME IInv, [Next]_vars PROVE Waiting'
<1> USE Limits DEF IInv, gitVars, runVars, nightVars, pastVars, TypeOK,
        Waiting
<1>1. ASSUME NEW status \in {"ok", "error", "limit"}, AgentEnds(status)
      PROVE  Waiting'
  BY <1>1 DEF AgentEnds
<1>2. CASE Gates
  BY <1>2 DEF Gates, Retry
<1>3. CASE CommitPartialWork
  BY <1>3 DEF CommitPartialWork, Exit, Gone, Returns
<1>4. CASE SavePatch
  BY <1>4 DEF SavePatch
<1>5. CASE RollBack
  BY <1>5 DEF RollBack
<1>6. CASE FileTask
  BY <1>6 DEF FileTask
<1>7. CASE Book
  BY <1>7 DEF Book, Exit, Gone, Returns
<1>8. ASSUME NEW who \in {"night", "cron"}, StartTask(who)
      PROVE  Waiting'
  BY <1>8 DEF StartTask, Begins, Calls
<1>9. CASE AgentWorks
  BY <1>9 DEF AgentWorks
<1>10. CASE Kill
  BY <1>10 DEF Kill, Gone, Returns
<1>11. CASE OrphanEnds
  BY <1>11 DEF OrphanEnds
<1>12. CASE Crash
  BY <1>12 DEF Crash
<1>13. ASSUME NEW who \in {"night", "cron"}, Decline(who)
      PROVE  Waiting'
  BY <1>13 DEF Decline, Returns, Calls
<1>14. CASE Look
  BY <1>14 DEF Look, Over
<1>15. CASE CooldownPasses
  BY <1>15 DEF CooldownPasses
<1>16. CASE StartNight
  BY <1>16 DEF StartNight
<1>17. CASE UNCHANGED vars
  BY <1>17 DEF vars
<1>18. CASE Abort
  BY <1>18 DEF Abort, Exit, Gone, Returns
<1>19. ASSUME NEW who \in {"night", "cron"}, AbortStart(who)
      PROVE  Waiting'
  BY <1>19 DEF AbortStart, Stumbles, Begins, Calls, LockFree, Returns
<1>20. CASE Trouble
  BY <1>20 DEF Trouble
<1> QED BY <1>1, <1>2, <1>3, <1>4, <1>5, <1>6, <1>7, <1>8, <1>9, <1>10, <1>11,
          <1>12, <1>13, <1>14, <1>15, <1>16, <1>17, <1>18, <1>19, <1>20
     DEF Next, Runner, Night

\* A night that nothing disturbs works off its tasks.
LEMMA NightStep ==
  ASSUME IInv, [Next]_vars PROVE Undisturbed'
<1> USE Limits DEF IInv, gitVars, runVars, nightVars, pastVars, TypeOK,
        Progress, Waiting, Undisturbed, Todo
<1>1. ASSUME NEW status \in {"ok", "error", "limit"}, AgentEnds(status)
      PROVE  Undisturbed'
  BY <1>1 DEF AgentEnds
<1>2. CASE Gates
  BY <1>2 DEF Gates, Retry
<1>3. CASE CommitPartialWork
  BY <1>3 DEF CommitPartialWork, Commit, Exit, Gone, Returns
<1>4. CASE SavePatch
  BY <1>4 DEF SavePatch
<1>5. CASE RollBack
  BY <1>5 DEF RollBack
<1>6. CASE FileTask
  BY <1>6 DEF FileTask
<1>7. CASE Book
  <2> SUFFICES ASSUME calm' PROVE Undisturbed'
    BY DEF Undisturbed
  <2>1. calm /\ ~trouble'
    BY <1>7 DEF Book
  <2>2. head' = tree
    BY <1>7, <2>1 DEF Book, Commit
  <2>3. /\ tree' = tree /\ cooldown' = cooldown /\ orphan' = orphan
        /\ pc = "book" /\ pc' = "off"
        /\ \/ night' = night /\ rc' = rc
           \/ night' = "look" /\ rc' # 3 /\ caller = "night"
    BY <1>7 DEF Book, Exit, Gone, Returns
  <2> QED BY <2>1, <2>2, <2>3
<1>8. ASSUME NEW who \in {"night", "cron"}, StartTask(who)
      PROVE  Undisturbed'
  <2> SUFFICES ASSUME calm' PROVE Undisturbed'
    BY DEF Undisturbed
  <2>1. calm /\ ~trouble'
    BY <1>8 DEF StartTask
  <2>2. /\ orphan = "none" /\ orphan' = orphan /\ pc = "off" /\ pc' = "agent"
        /\ cooldown # "on" /\ Todo # {} /\ rc' = rc
        /\ night' = IF who = "night" THEN "wait" ELSE night
    BY <1>8 DEF StartTask, Begins, LockFree
  <2> QED BY <2>1, <2>2
<1>9. CASE AgentWorks
  BY <1>9 DEF AgentWorks
<1>10. CASE Kill
  BY <1>10 DEF Kill
<1>11. CASE OrphanEnds
  BY <1>11 DEF OrphanEnds
<1>12. CASE Crash
  BY <1>12 DEF Crash
<1>13. ASSUME NEW who \in {"night", "cron"}, Decline(who)
      PROVE  Undisturbed'
  <2> SUFFICES ASSUME calm' PROVE Undisturbed'
    BY DEF Undisturbed
  <2>1. /\ tree' = tree /\ head' = head /\ pc' = pc /\ caller' = caller
        /\ codex' = codex /\ orphan' = orphan /\ trouble' = trouble
    BY <1>13 DEF Decline
  <2>2. calm /\ (cooldown' = cooldown \/ (pc = "off" /\ cooldown # "on"))
    BY <1>13 DEF Decline, Disturbed, LockFree
  <2>3. CASE who = "cron"
    <3>1. night' = night /\ rc' = rc
      BY <1>13, <2>3 DEF Decline, Returns
    <3> QED BY <2>1, <2>2, <3>1
  <2>4. CASE who = "night"
    <3>1. night = "call" /\ night' = "look" /\ rc' = 3
      BY <1>13, <2>4 DEF Decline, Returns, Calls
    <3>2. \/ cooldown' = "on" /\ cooldown = "on" /\ pc = "off"
          \/ Todo = {} /\ pc = "off"
      BY <1>13, <2>4 DEF Decline, Disturbed, LockFree
    <3> QED BY <2>1, <2>2, <3>1, <3>2
  <2> QED BY <2>3, <2>4
<1>14. CASE Look
  BY <1>14 DEF Look, Over, CoolingDown
<1>15. CASE CooldownPasses
  BY <1>15 DEF CooldownPasses
<1>16. CASE StartNight
  BY <1>16 DEF StartNight, LockFree
<1>17. CASE UNCHANGED vars
  BY <1>17 DEF vars
<1>18. CASE Abort
  BY <1>18 DEF Abort
<1>19. ASSUME NEW who \in {"night", "cron"}, AbortStart(who)
      PROVE  Undisturbed'
  BY <1>19 DEF AbortStart
<1>20. CASE Trouble
  BY <1>20 DEF Trouble
<1> QED BY <1>1, <1>2, <1>3, <1>4, <1>5, <1>6, <1>7, <1>8, <1>9, <1>10, <1>11,
          <1>12, <1>13, <1>14, <1>15, <1>16, <1>17, <1>18, <1>19, <1>20
     DEF Next, Runner, Night

LEMMA InitIInv == Init => IInv
<1> SUFFICES ASSUME Init PROVE IInv
  OBVIOUS
<1> USE Limits DEF Init
<1>1. TypeOK
  <2>1. saved \in BOOLEAN /\ trouble \in BOOLEAN /\ calm \in BOOLEAN
    OBVIOUS
  <2>2. tree \in Snapshot /\ head = tree /\ base = tree
    BY DEF Snapshot, Places
  <2> QED BY <2>1, <2>2 DEF TypeOK, Points
<1>2. FiledInOrder /\ Progress /\ DoneIsGreen
  BY DEF FiledInOrder, Progress, DoneIsGreen, GreenIn, Running
<1>3. AtRest /\ InHand /\ Booked
  BY DEF AtRest, InHand, Booked, Running
<1>4. Waiting /\ Undisturbed
  BY DEF Waiting, Undisturbed
<1> QED BY <1>1, <1>2, <1>3, <1>4 DEF IInv

\* The repository and the night, over all runs, agents and faults, with every
\* commit, patch and reset that may fail failing at any time.
THEOREM Inductive == Spec => []IInv
<1>1. IInv /\ [Next]_vars => IInv'
  BY TypeStep, FiledStep, ProgressStep, GreenStep, RestStep, HandStep,
     BookedStep, WaitingStep, NightStep DEF IInv
<1> QED BY InitIInv, <1>1, PTL DEF Spec

\* Type correctness: the counters of the supervisor stay within its limits.
THEOREM TypeCorrect == Spec => []TypeOK
<1>1. IInv => TypeOK BY DEF IInv
<1> QED BY Inductive, <1>1, PTL

\* Between the verdicts, work that failed its gates is not on the branch,
\* unless a run of the task was cut short, was not rolled back, or its file was
\* moved.
THEOREM RolledBack == Spec => []FailedWorkIsRolledBack
<1>1. IInv => FailedWorkIsRolledBack
  <2> SUFFICES ASSUME IInv, ~Unsettled, NEW t \in Tasks \ (cutShort \cup moved),
                      tree.filed[t] = "needs-review",
                      NEW c \in tree.work \cup head.work, c.by = t
               PROVE  c.kind = "note"
    BY DEF FailedWorkIsRolledBack
  <2>1. c \in Change
    BY DEF IInv, TypeOK, Snapshot
  <2>2. CASE Running(t)
    BY <2>1, <2>2 DEF IInv, TypeOK, Points, Unsettled, Running, Progress, InHand
  <2>3. CASE ~Running(t)
    BY <2>1, <2>3 DEF IInv, AtRest
  <2> QED BY <2>2, <2>3
<1> QED BY Inductive, <1>1, PTL

\* Between the verdicts, work of a done task is green, and passed every gate
\* unless a run of the task was cut short.
THEOREM Gated == Spec => []DoneWasGated
<1>1. IInv => DoneWasGated
  <2> SUFFICES ASSUME IInv, ~Unsettled, NEW t \in Tasks \ moved,
                      tree.filed[t] = "done", NEW c \in tree.work, c.by = t
               PROVE  c.kind # "red" /\ (t \notin cutShort => c.kind = "sound")
    BY DEF DoneWasGated
  <2>1. c \in Change
    BY DEF IInv, TypeOK, Snapshot
  <2>2. c.kind # "red"
    BY DEF IInv, DoneIsGreen, GreenIn
  <2>3. ASSUME t \notin cutShort, Running(t) PROVE c.kind = "sound"
    BY <2>1, <2>3 DEF IInv, TypeOK, Points, Unsettled, Running, Progress, InHand
  <2>4. ASSUME t \notin cutShort, ~Running(t) PROVE c.kind = "sound"
    BY <2>1, <2>4 DEF IInv, AtRest
  <2> QED BY <2>2, <2>3, <2>4
<1> QED BY Inductive, <1>1, PTL

\* A committed verdict survives every later rollback, whole or failed, and
\* every agent whose run gets to its gates.
THEOREM Final == Spec => []BookedIsFinal
<1>1. IInv => BookedIsFinal BY DEF IInv, Booked, BookedIsFinal
<1> QED BY Inductive, <1>1, PTL

\* A night that nothing disturbs ends as idle only when nothing is left.
THEOREM NightUsed == Spec => []NightIsUsed
<1>1. IInv => NightIsUsed BY DEF IInv, Undisturbed, NightIsUsed
<1> QED BY Inductive, <1>1, PTL

LEMMA NothingDropped ==
  IInv /\ [Next]_vars =>
      [~AgentWorks /\ saved => tree.work \subseteq tree'.work \cup patch']_vars
<1> SUFFICES ASSUME IInv, [Next]_vars, ~AgentWorks, saved
             PROVE  tree.work \subseteq tree'.work \cup patch'
  OBVIOUS
<1> USE DEF IInv, TypeOK, Snapshot, gitVars
<1>1. CASE RollBack
  <2>1. patch' = tree.work \ base.work
    BY <1>1 DEF RollBack, Progress, Diff
  <2>2. tree.work \cap base.work \subseteq tree'.work
    BY <1>1 DEF RollBack, Reset, ResetFails, HeadAfterReset
  <2> QED BY <2>1, <2>2
<1>2. CASE FileTask
  BY <1>2 DEF FileTask
<1>3. CASE Outside
  BY <1>3, OutsideKeeps
<1>4. ASSUME \/ \E status \in {"ok", "error", "limit"} : AgentEnds(status)
             \/ \E who \in {"night", "cron"} : StartTask(who) \/ AbortStart(who)
             \/ Gates \/ CommitPartialWork \/ SavePatch \/ Book \/ Abort
             \/ Kill \/ OrphanEnds \/ Crash
      PROVE  tree' = tree
  BY <1>4 DEF AgentEnds, StartTask, AbortStart, Stumbles, Gates, CommitPartialWork,
              SavePatch, Book, Abort, Kill, OrphanEnds, Crash
<1> QED BY <1>1, <1>2, <1>3, <1>4, Steps

\* What the runner takes out of the working tree is in a patch, if no command
\* that writes the patch has failed; a reset that fails loses nothing more.
THEOREM NothingLost == Spec => NoWorkIsLost
  BY Inductive, NothingDropped, PTL DEF Spec, NoWorkIsLost
=============================================================================
