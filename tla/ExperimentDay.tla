---------------------------- MODULE ExperimentDay ----------------------------
(***************************************************************************)
(* The experiment day: campaign.py gates, runs and bundles, experiment.py  *)
(* runs the judges of one matrix one after the other and then every        *)
(* analysis. The report directory outlives the process: the day may be     *)
(* killed at any point and started again over what it left, with other     *)
(* models or settings.                                                     *)
(*                                                                         *)
(* A leg's directory is reduced to what BenchRun's resume check sees of it *)
(* (whether it has rows and which settings its manifest names), a report   *)
(* file to the day that wrote it, an analysis to which judges it covered   *)
(* and how they ranked. Subprocesses are part of the campaign: each has a  *)
(* time limit, and one that fails or is killed by it ends its step.        *)
(***************************************************************************)
EXTENDS DeploymentCheck, Sequences, SequencesExt, FiniteSetsExt

CONSTANTS
    Tags,      \* local models that may be evaluated
    Cloud,     \* the model of the cloud judge
    External,  \* the model of the rows given with --include-rows
    Configs,   \* settings a judge may run under
    Plans,     \* arguments with which the campaign may be started
    F1Values,  \* held-out F1 scores in order; 0 is none, a real score, even
               \* one of exactly zero, is a number from 1 up
    MaxDays,   \* how often it may be started
    None       \* no such file

Places == {"primary", "ablation"}
Judges == Tags \cup {Cloud, External}
Leg == [model : Tags \cup {Cloud}, privacy : {"mask", "off"}]

\* Where a leg's rows are.
Dir == [place : Places, leg : Leg]

Plan == [models : Seq(Tags), conf : Configs, cloud : BOOLEAN,
         include : {"none", "file", "missing"}, lock : BOOLEAN,
         deploy : BOOLEAN]

ASSUME DayAssumption ==
    /\ Plans \subseteq Plan
    /\ \A p \in Plans : p.models # <<>>
    /\ Cloud \notin Tags /\ External \notin Tags /\ Cloud # External
    /\ F1Values \subseteq Nat /\ 0 \in F1Values
    /\ MaxDays \in Nat \ {0}
    /\ None \notin Configs

\* The files of the report, by who writes them.
Report == Places \X {"environment", "run_log", "results", "errors", "pii"}
Artifacts == Report \cup
    ({"campaign"} \X {"check", "lock", "models", "pii_json", "deployment"})

StepNames == {"check", "lock", "freeze", "preflight", "primary", "ablation",
              "pii", "deployment", "bundle"}
Results == {"none", "ok", "FAIL", "skipped"}

VARIABLES
    day,       \* how often the campaign has been started
    plan,      \* the arguments of the current one
    pc,        \* where it is
    models,    \* models still to preflight
    place,     \* the matrix that is running
    legs,      \* its legs that have not run
    done,      \* its legs with status "ok" or "partial"
    subject,   \* the model of the masking ablation
    steps,     \* Campaign.steps
    has_rows,  \* has_rows[d]: the rows file in d is not empty
    manifest,  \* manifest[d]: the settings the manifest in d names
    written,   \* written[a]: the day that wrote report file a, 0 if absent
    results,   \* results[p]: what results.json of matrix p says
    log,       \* campaign_log.md
    archive,   \* the .tar.gz
    outcome    \* how the campaign ended (history)

matrixVars == <<place, legs, done>>
diskVars == <<has_rows, manifest, written, results>>
vars == <<day, plan, pc, models, matrixVars, subject, steps, diskVars, log,
          archive, outcome, deploymentVars, faults>>

Gates == {"check", "lock", "freeze", "preflight"}
MatrixPoints == {"start", "legs", "log", "analyze", "errors", "privacy"}
Points == {"idle", "ablation", "pii", "deployment", "deploying", "finish",
           "bundle"} \cup Gates \cup MatrixPoints

\* None, or a truncated one.
NoArchive == [day |-> 0]

NoSteps == [s \in StepNames |-> "none"]
NoResults == [day |-> 0, legs |-> {}, f1 |-> [m \in Judges |-> 0]]

DayLog == [day : 0..MaxDays, steps : [StepNames -> Results]]

TypeOK ==
    /\ DeploymentTypeOK
    /\ day \in 0..MaxDays
    /\ plan \in Plans
    /\ pc \in Points
    /\ models \in Seq(Tags)
    /\ place \in Places
    /\ legs \in Seq(Leg)
    /\ done \subseteq Leg
    /\ subject \in Tags \cup {None}
    /\ steps \in [StepNames -> Results]
    /\ has_rows \in [Dir -> BOOLEAN]
    /\ manifest \in [Dir -> Configs \cup {None}]
    /\ written \in [Artifacts -> 0..MaxDays]
    /\ results \in [Places -> [day : 0..MaxDays, legs : SUBSET Leg,
                              f1 : [Judges -> F1Values]]]
    /\ log \in DayLog
    /\ archive \in {NoArchive} \cup [day : 1..MaxDays, log : DayLog,
                                    written : [Artifacts -> 0..MaxDays]]
    /\ outcome \in {"none", "stopped", "completed", "killed"}

Init ==
    /\ DeploymentInit
    /\ day = 0
    /\ plan \in Plans
    /\ pc = "idle"
    /\ models = <<>> /\ place = "primary" /\ legs = <<>> /\ done = {}
    /\ subject = None
    /\ steps = NoSteps
    /\ has_rows = [d \in Dir |-> FALSE]
    /\ manifest = [d \in Dir |-> None]
    /\ written = [a \in Artifacts |-> 0]
    /\ results = [p \in Places |-> NoResults]
    /\ log = [day |-> 0, steps |-> NoSteps]
    /\ archive = NoArchive
    /\ outcome = "none"

(***************************************************************************)
(* Steps of the campaign.                                                  *)
(***************************************************************************)

\* _finish, and the exit.
Exit(how, recorded) ==
    /\ steps' = recorded
    /\ log' = [day |-> day, steps |-> recorded]
    /\ pc' = "idle"
    /\ outcome' = how

\* The step is recorded, and the campaign goes on.
Continue(step, result, next) ==
    /\ steps' = [steps EXCEPT ![step] = result]
    /\ pc' = next
    /\ UNCHANGED <<log, outcome>>

\* A blocking step failed.
StopAt(step) == Exit("stopped", [steps EXCEPT ![step] = "FAIL"])

Wrote(files) ==
    written' = [a \in Artifacts |-> IF a \in files THEN day ELSE written[a]]

StartMatrix(p, planned) ==
    /\ place' = p
    /\ legs' = planned
    /\ done' = {}

StartCampaign(p) ==
    /\ pc = "idle"
    /\ day < MaxDays
    /\ day' = day + 1
    /\ plan' = p
    /\ models' = p.models
    /\ StartMatrix("primary", <<>>)
    /\ steps' = NoSteps
    /\ subject' = None
    /\ outcome' = "none"
    /\ pc' = "check"
    /\ UNCHANGED <<diskVars, log, archive, deploymentVars, faults>>

\* make check; its output is saved either way.
MakeCheck ==
    /\ pc = "check"
    /\ Wrote({<<"campaign", "check">>})
    /\ \/ Continue("check", "ok", "lock") /\ UNCHANGED faults
       \/ StopAt("check") /\ Fault
    /\ UNCHANGED <<day, plan, models, matrixVars, subject, has_rows, manifest,
                   results, archive, deploymentVars>>

VerifyLock ==
    /\ pc = "lock"
    /\ \/ /\ plan.lock
          /\ Continue("lock", "ok", "freeze")
          /\ Wrote({<<"campaign", "lock">>})
          /\ UNCHANGED faults
       \/ /\ plan.lock
          /\ StopAt("lock") /\ Fault
          /\ UNCHANGED written
       \/ /\ ~plan.lock
          /\ Continue("lock", "skipped", "freeze")
          /\ UNCHANGED <<written, faults>>
    /\ UNCHANGED <<day, plan, models, matrixVars, subject, has_rows, manifest,
                   results, archive, deploymentVars>>

\* Never blocks: a model that Ollama does not know is written as unknown.
Freeze ==
    /\ pc = "freeze"
    /\ \/ /\ Continue("freeze", "ok", "preflight")
          /\ Wrote({<<"campaign", "models">>})
          /\ UNCHANGED faults
       \/ /\ Continue("freeze", "FAIL", "preflight")
          /\ Fault
          /\ UNCHANGED written
    /\ UNCHANGED <<day, plan, models, matrixVars, subject, has_rows, manifest,
                   results, archive, deploymentVars>>

\* check_resume_compatibility: rows whose manifest is missing or names other
\* settings.
Refused(d) == has_rows[d] /\ manifest[d] # plan.conf

LegDir(p, l) == [place |-> p, leg |-> l]

\* check_output_dir is asked about rows/<tag>, and the leg will write to
\* rows/slm-<tag>: no leg has its rows where preflight looks.
PreflightDir(tag) == [place |-> "preflight", tag |-> tag]
OutputDirClear(d) == d \in Dir => ~Refused(d)

\* Every model in turn; its checks and its live probe.
Preflight ==
    /\ pc = "preflight"
    /\ models # <<>>
    /\ \/ /\ OutputDirClear(PreflightDir(Head(models)))
          /\ models' = Tail(models)
          /\ Continue("preflight", "ok", "preflight")
          /\ UNCHANGED faults
       \/ /\ StopAt("preflight") /\ Fault
          /\ UNCHANGED models
    /\ UNCHANGED <<day, plan, matrixVars, subject, diskVars, archive,
                   deploymentVars>>

(***************************************************************************)
(* experiment.main: one matrix.                                            *)
(***************************************************************************)
SlmLeg(tag, privacy) == [model |-> tag, privacy |-> privacy]

\* plan_legs.
PlanLegs(tags, withCloud, ablationModel) ==
    [i \in DOMAIN tags |-> SlmLeg(tags[i], "mask")]
    \o (IF ablationModel = None THEN <<>> ELSE <<SlmLeg(ablationModel, "off")>>)
    \o (IF withCloud THEN <<SlmLeg(Cloud, "mask")>> ELSE <<>>)

StartPrimary ==
    /\ pc = "preflight"
    /\ models = <<>>
    /\ StartMatrix("primary", PlanLegs(plan.models, plan.cloud, None))
    /\ pc' = "start"
    /\ UNCHANGED <<day, plan, models, subject, steps, diskVars, log, archive,
                   outcome, deploymentVars, faults>>

\* The samples are loaded and the machine is put on record.
LoadSamples ==
    /\ pc = "start"
    /\ Wrote({<<place, "environment">>})
    /\ pc' = "legs"
    /\ UNCHANGED <<day, plan, models, matrixVars, subject, steps, has_rows,
                   manifest, results, log, archive, outcome, deploymentVars,
                   faults>>

\* Mutant: the rows of every leg that has some are analysed.
LegOverAnyStatus(finished) ==
    /\ legs' = Tail(legs)
    /\ done' = done \cup {Head(legs)}

\* The next leg has run; "done" are those whose rows are analysed.
LegOver(finished) ==
    /\ legs' = Tail(legs)
    /\ done' = IF finished THEN done \cup {Head(legs)} ELSE done

NextLeg == pc = "legs" /\ legs # <<>>

\* No settings for the cloud judge.
SkipLeg ==
    /\ NextLeg
    /\ Head(legs).model = Cloud
    /\ Fault
    /\ LegOver(FALSE)
    /\ UNCHANGED <<day, plan, pc, models, place, subject, steps, diskVars, log,
                   archive, outcome, deploymentVars>>

RefuseLeg ==
    /\ NextLeg
    /\ Refused(LegDir(place, Head(legs)))
    /\ LegOver(FALSE)
    /\ UNCHANGED <<day, plan, pc, models, place, subject, steps, diskVars, log,
                   archive, outcome, deploymentVars, faults>>

\* run_benchmark returned: failed samples are rows too.
ScoreLeg ==
    /\ NextLeg
    /\ LET d == LegDir(place, Head(legs)) IN
       /\ ~Refused(d)
       /\ has_rows' = [has_rows EXCEPT ![d] = TRUE]
       /\ manifest' = [manifest EXCEPT ![d] = plan.conf]
    /\ LegOver(TRUE)
    /\ UNCHANGED <<day, plan, pc, models, place, subject, steps, written,
                   results, log, archive, outcome, deploymentVars, faults>>

\* Rows were written, but no manifest.
RowsAt(d) == has_rows' \in {has_rows, [has_rows EXCEPT ![d] = TRUE]}

\* run_benchmark raised; the next leg runs all the same.
FailLeg ==
    /\ NextLeg
    /\ ~Refused(LegDir(place, Head(legs)))
    /\ Fault
    /\ RowsAt(LegDir(place, Head(legs)))
    /\ LegOver(FALSE)
    /\ UNCHANGED <<day, plan, pc, models, place, subject, steps, manifest,
                   written, results, log, archive, outcome, deploymentVars>>

\* Rows scored elsewhere join the primary matrix.
Included == place = "primary" /\ plan.include # "none"

\* The exit code of the experiment decides about its step.
MatrixFails ==
    IF place = "primary" THEN StopAt("primary")
                         ELSE Continue("ablation", "FAIL", "pii")

\* --include-rows is looked at when every leg has run; then the run log is
\* written, and there must be something to analyse.
Collect ==
    /\ pc = "log"
    /\ \/ /\ Included /\ plan.include = "missing"
          /\ MatrixFails
          /\ UNCHANGED written
       \/ /\ ~(Included /\ plan.include = "missing")
          /\ Wrote({<<place, "run_log">>})
          /\ IF done = {} /\ ~Included
             THEN MatrixFails
             ELSE pc' = "analyze" /\ UNCHANGED <<steps, log, outcome>>
    /\ UNCHANGED <<day, plan, models, matrixVars, subject, has_rows, manifest,
                   results, archive, deploymentVars, faults>>

LegsDone ==
    /\ pc = "legs"
    /\ legs = <<>>
    /\ pc' = "log"
    /\ UNCHANGED <<day, plan, models, matrixVars, subject, steps, diskVars, log,
                   archive, outcome, deploymentVars, faults>>

\* The judges results.json lists.
Listed == {l.model : l \in done} \cup (IF Included THEN {External} ELSE {})

\* A judge has a held-out F1 or not, and only those listed can have one. The
\* scores of the ablation are never read back.
Analyze(f1) ==
    /\ pc = "analyze"
    /\ \A m \in Judges \ (IF place = "primary" THEN Listed ELSE {}) : f1[m] = 0
    /\ results' = [results EXCEPT ![place] =
                       [day |-> day, legs |-> done, f1 |-> f1]]
    /\ Wrote({<<place, "results">>})
    /\ pc' = "errors"
    /\ UNCHANGED <<day, plan, models, matrixVars, subject, steps, has_rows,
                   manifest, log, archive, outcome, deploymentVars, faults>>

\* _run_error_analysis and _run_privacy_evaluation swallow what they raise.
NeverFatal(point, file, next) ==
    /\ pc = point
    /\ \/ Wrote({<<place, file>>}) /\ UNCHANGED faults
       \/ Fault /\ UNCHANGED written
    /\ next

AnalyzeErrors ==
    /\ NeverFatal("errors", "errors", pc' = "privacy")
    /\ UNCHANGED <<day, plan, models, matrixVars, subject, steps, has_rows,
                   manifest, results, log, archive, outcome, deploymentVars>>

EvaluatePrivacy ==
    /\ NeverFatal("privacy", "pii",
           IF place = "primary" THEN Continue("primary", "ok", "ablation")
                                ELSE Continue("ablation", "ok", "pii"))
    /\ UNCHANGED <<day, plan, models, matrixVars, subject, has_rows, manifest,
                   results, archive, deploymentVars>>

\* Mutant: a matrix that fails does not stop the campaign.
MatrixDiesQuietly ==
    /\ pc \in MatrixPoints
    /\ Fault
    /\ IF pc = "legs" /\ legs # <<>> THEN RowsAt(LegDir(place, Head(legs)))
                                     ELSE UNCHANGED has_rows
    /\ IF place = "primary" THEN Continue("primary", "FAIL", "ablation")
                            ELSE Continue("ablation", "FAIL", "pii")
    /\ UNCHANGED <<day, plan, models, matrixVars, subject, manifest, written,
                   results, archive, deploymentVars>>

\* An exception that nothing catches (the dataset, an analysis, the disk), or
\* the time limit of the step.
MatrixDies ==
    /\ pc \in MatrixPoints
    /\ Fault
    /\ IF pc = "legs" /\ legs # <<>> THEN RowsAt(LegDir(place, Head(legs)))
                                     ELSE UNCHANGED has_rows
    /\ MatrixFails
    /\ UNCHANGED <<day, plan, models, matrixVars, subject, manifest, written,
                   results, archive, deploymentVars>>

(***************************************************************************)
(* After the primary matrix.                                               *)
(***************************************************************************)

\* Mutant: the comparison is the wrong way round.
WorstModel(f1) ==
    LET held == {m \in ToSet(plan.models) : f1[m] > 0} IN
    IF held = {} THEN {None}
    ELSE {m \in held : \A n \in held : f1[n] >= f1[m]}

\* _best_model; which of two equal ones comes first depends on the names.
BestModel(f1) ==
    LET held == {m \in ToSet(plan.models) : f1[m] > 0} IN
    IF held = {} THEN {None}
    ELSE {m \in held : \A n \in held : f1[n] <= f1[m]}

ChooseAblation ==
    /\ pc = "ablation"
    /\ \E m \in BestModel(results["primary"].f1) :
        /\ subject' = m
        /\ \/ /\ m = None
              /\ Continue("ablation", "skipped", "pii")
              /\ UNCHANGED matrixVars
           \/ /\ m # None
              /\ StartMatrix("ablation", PlanLegs(<<m>>, FALSE, m))
              /\ pc' = "start"
              /\ UNCHANGED <<steps, log, outcome>>
    /\ UNCHANGED <<day, plan, models, diskVars, archive, deploymentVars, faults>>

DetectPii ==
    /\ pc = "pii"
    /\ \/ /\ Continue("pii", "ok", "deployment")
          /\ Wrote({<<"primary", "pii">>, <<"campaign", "pii_json">>})
          /\ UNCHANGED faults
       \/ /\ Continue("pii", "FAIL", "deployment")
          /\ Fault
          /\ UNCHANGED written
    /\ UNCHANGED <<day, plan, models, matrixVars, subject, has_rows, manifest,
                   results, archive, deploymentVars>>

Deploy ==
    /\ pc = "deployment"
    /\ \/ /\ ~plan.deploy
          /\ Continue("deployment", "skipped", "finish")
          /\ UNCHANGED <<deploymentVars, faults>>
       \/ /\ plan.deploy
          /\ StartDeployment
          /\ pc' = "deploying"
          /\ UNCHANGED <<steps, log, outcome>>
    /\ UNCHANGED <<day, plan, models, matrixVars, subject, diskVars, archive>>

Deploying ==
    /\ pc = "deploying"
    /\ DeploymentStep
    /\ UNCHANGED <<day, plan, pc, models, matrixVars, subject, steps, diskVars,
                   log, archive, outcome>>

\* The exit code of the check.
Deployed ==
    /\ pc = "deploying"
    /\ at = "over"
    /\ Wrote(IF wrote THEN {<<"campaign", "deployment">>} ELSE {})
    /\ Continue("deployment", IF failures = {} THEN "ok" ELSE "FAIL", "finish")
    /\ EndDeployment
    /\ UNCHANGED <<day, plan, models, matrixVars, subject, has_rows, manifest,
                   results, archive, faults>>

\* The log is written before the bundle is made, so that it is part of it.
Finish ==
    /\ pc = "finish"
    /\ log' = [day |-> day, steps |-> steps]
    /\ pc' = "bundle"
    /\ UNCHANGED <<day, plan, models, matrixVars, subject, steps, diskVars,
                   archive, outcome, deploymentVars, faults>>

Required ==
    ({"primary"} \X {"environment", "run_log", "results", "errors", "pii"})
    \cup ({"campaign"} \X {"lock", "models", "pii_json"})

\* INDEX.md, MANIFEST.sha256 and the archive; a required file that is missing
\* fails the step, and the archive is there all the same.
Bundle ==
    /\ pc = "bundle"
    /\ archive' = [day |-> day, written |-> written, log |-> log]
    /\ steps' = [steps EXCEPT !["bundle"] =
           IF \E a \in Required : written[a] = 0 THEN "FAIL" ELSE "ok"]
    /\ pc' = "idle"
    /\ outcome' = "completed"
    /\ UNCHANGED <<day, plan, models, matrixVars, subject, diskVars, log,
                   deploymentVars, faults>>

BundleFails ==
    /\ pc = "bundle"
    /\ Fault
    /\ steps' = [steps EXCEPT !["bundle"] = "FAIL"]
    /\ pc' = "idle"
    /\ outcome' = "completed"
    /\ archive' \in {archive, NoArchive}
    /\ UNCHANGED <<day, plan, models, matrixVars, subject, diskVars, log,
                   deploymentVars>>

\* The machine is released, or the campaign is killed.
Kill ==
    /\ pc # "idle"
    /\ Fault
    /\ pc' = "idle"
    /\ outcome' = "killed"
    /\ IF pc = "legs" /\ legs # <<>> THEN RowsAt(LegDir(place, Head(legs)))
                                     ELSE UNCHANGED has_rows
    /\ archive' \in IF pc = "bundle" THEN {archive, NoArchive} ELSE {archive}
    /\ EndDeployment
    /\ UNCHANGED <<day, plan, models, matrixVars, subject, steps, manifest,
                   written, results, log>>

------------------------------------------------------------------------------
Campaign ==
    \/ MakeCheck \/ VerifyLock \/ Freeze \/ Preflight \/ StartPrimary
    \/ ChooseAblation \/ DetectPii \/ Deploy \/ Deploying \/ Deployed
    \/ Finish \/ Bundle \/ BundleFails

Matrix ==
    \/ LoadSamples \/ SkipLeg \/ RefuseLeg \/ ScoreLeg \/ FailLeg \/ LegsDone
    \/ Collect \/ AnalyzeErrors \/ EvaluatePrivacy \/ MatrixDies
    \/ \E f1 \in [Judges -> F1Values] : Analyze(f1)

Next ==
    \/ \E p \in Plans : StartCampaign(p)
    \/ Campaign \/ Matrix \/ Kill

Spec == Init /\ [][Next]_vars

------------------------------------------------------------------------------
(***************************************************************************)
(* Properties.                                                             *)
(***************************************************************************)

\* README: "must be identical for every judge, or the legs stop being
\* comparable". However often the day was killed and started again, with
\* whatever settings, all legs of an analysis were scored under the same ones,
\* and their manifests say so.
JudgesAreComparable ==
    \A p \in Places : \A k, l \in results[p].legs :
        LET d == LegDir(p, k)
        IN  /\ has_rows[d]
            /\ manifest[d] # None
            /\ manifest[d] = manifest[LegDir(p, l)]

\* _best_model: the ablation is run on a model of this campaign that was
\* scored in it, and no other model of it did better.
AblationIsOnTheBest ==
    (pc # "idle" /\ subject # None) =>
        /\ subject \in ToSet(plan.models)
        /\ SlmLeg(subject, "mask") \in results["primary"].legs
        /\ results["primary"].day = day
        /\ \A m \in ToSet(plan.models) :
               results["primary"].f1[m] <= results["primary"].f1[subject]

\* Files, and the step that was to write each of them again.
Excuses == {[file |-> <<"campaign", "lock">>, step |-> "lock"],
            [file |-> <<"campaign", "models">>, step |-> "freeze"],
            [file |-> <<"campaign", "pii_json">>, step |-> "pii"],
            [file |-> <<"campaign", "deployment">>, step |-> "deployment"],
            [file |-> <<"ablation", "results">>, step |-> "ablation"]}

\* RUNBOOK: the archive "is the deliverable". The numbers in it and its log
\* are of the day that made it, and any other file an earlier day left there
\* belongs to a step its log reports as failed or skipped.
ArchiveIsOfOneDay ==
    archive.day > 0 =>
        /\ archive.log.day = archive.day
        /\ archive.written[<<"campaign", "check">>] = archive.day
        /\ \A f \in {"environment", "run_log", "results"} :
               archive.written[<<"primary", f>>] = archive.day
        /\ \A e \in Excuses :
               \/ archive.written[e.file] \in {0, archive.day}
               \/ archive.log.steps[e.step] \in {"FAIL", "skipped"}

\* README: the campaign "gates each expensive step behind a cheap one, so a
\* misconfiguration fails in seconds rather than after hours of GPU time".
\* What preflight let through is not refused when the matrix gets to it.
PreflightForetells ==
    (pc = "start" /\ place = "primary") =>
        \A i \in DOMAIN legs : ~Refused(LegDir(place, legs[i]))
=============================================================================
