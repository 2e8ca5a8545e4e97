------------------------- MODULE ExperimentDayProofs -------------------------
(***************************************************************************)
(* Safety of the experiment day for any models, settings and plans, any    *)
(* number of days on one report directory and any number of faults.        *)
(*                                                                         *)
(* The inductive invariant follows the report from gate to gate: what a    *)
(* manifest may say, which legs may be analysed together, and which files  *)
(* are of today by the time the campaign has reached a point.              *)
(***************************************************************************)
EXTENDS ExperimentDay, SequenceTheorems, TLAPS

\* The legs of the primary matrix: every one of them masks.
MaskedLeg == {l \in Leg : l.privacy = "mask"}

\* Where the campaign is: in its first matrix, or past it.
InPrimary == pc \in MatrixPoints /\ place = "primary"
InAblation == pc \in MatrixPoints /\ place = "ablation"
PastAblation == {"pii", "deployment", "deploying", "finish", "bundle"}
PastPrimary == pc \in PastAblation \cup {"ablation"} \/ InAblation

\* A manifest is never without rows, so that a leg which may write to a
\* directory finds its own settings there or none; and the legs that are to be
\* analysed, and those of each analysis, agree on their settings.
ManifestsAgree ==
    /\ \A d \in Dir : manifest[d] # None => has_rows[d]
    /\ \A l \in done : manifest[LegDir(place, l)] = plan.conf
    /\ \A p \in Places : \E c \in Configs : \A l \in results[p].legs :
           manifest[LegDir(p, l)] = c

\* Whoever has a score in the primary matrix has a masked leg in it.
ScoresAreMasked ==
    /\ place = "primary" => legs \in Seq(MaskedLeg) /\ done \subseteq MaskedLeg
    /\ \A m \in Tags : results["primary"].f1[m] > 0 =>
           SlmLeg(m, "mask") \in results["primary"].legs

\* The model of the ablation is chosen once, after the primary matrix.
SubjectIsChosenLate ==
    pc \in Gates \cup {"ablation"} \/ InPrimary => subject = None

\* What of the report is of this day, by the point the campaign has reached.
ReportIsOfToday ==
    /\ pc \notin {"idle", "check"} => written[<<"campaign", "check">>] = day
    /\ pc \notin {"idle", "check", "lock"} =>
           written[<<"campaign", "lock">>] = day \/ steps["lock"] = "skipped"
    /\ pc \notin {"idle", "check", "lock", "freeze"} =>
           written[<<"campaign", "models">>] = day \/ steps["freeze"] = "FAIL"
    /\ (InPrimary /\ pc # "start") \/ PastPrimary =>
           written[<<"primary", "environment">>] = day
    /\ (InPrimary /\ pc \in {"analyze", "errors", "privacy"}) \/ PastPrimary =>
           written[<<"primary", "run_log">>] = day
    /\ (InPrimary /\ pc \in {"errors", "privacy"}) \/ PastPrimary =>
           /\ written[<<"primary", "results">>] = day
           /\ results["primary"].day = day
    /\ InAblation /\ pc \in {"errors", "privacy"} =>
           written[<<"ablation", "results">>] = day
    /\ pc \in PastAblation =>
           \/ written[<<"ablation", "results">>] = day
           \/ steps["ablation"] \in {"FAIL", "skipped"}
    /\ pc \in PastAblation \ {"pii"} =>
           written[<<"campaign", "pii_json">>] = day \/ steps["pii"] = "FAIL"
    /\ pc \in {"finish", "bundle"} =>
           \/ written[<<"campaign", "deployment">>] = day
           \/ steps["deployment"] \in {"FAIL", "skipped"}
    /\ pc = "bundle" => log = [day |-> day, steps |-> steps]

\* A campaign that runs was started.
DayIsCounted == pc # "idle" => day > 0

\* A failed start and a failed end of the stack are among the failures.
FailuresAreKept ==
    /\ at \in {"uplogs", "updown"} => "up" \in failures
    /\ at = "write" /\ stack = "up" => "down" \in failures
    /\ at = "over" => wrote \/ failures # {}

IInv ==
    /\ TypeOK /\ ManifestsAgree /\ ScoresAreMasked /\ SubjectIsChosenLate
    /\ AblationIsOnTheBest /\ ReportIsOfToday /\ ArchiveIsOfOneDay
    /\ DayIsCounted /\ FailuresAreKept /\ StackIsTakenDown

------------------------------------------------------------------------------
(***************************************************************************)
(* Plans, legs and files.                                                  *)
(***************************************************************************)

LEMMA PlanFields ==
  ASSUME NEW p \in Plans
  PROVE  /\ p.models \in Seq(Tags) /\ p.conf \in Configs
         /\ p.cloud \in BOOLEAN /\ p.lock \in BOOLEAN /\ p.deploy \in BOOLEAN
  BY DayAssumption DEF Plan

LEMMA PlannedLegs ==
  ASSUME NEW tags \in Seq(Tags), NEW withCloud \in BOOLEAN, NEW m
  PROVE  /\ m \in Tags \cup {None} => PlanLegs(tags, withCloud, m) \in Seq(Leg)
         /\ m = None => PlanLegs(tags, withCloud, m) \in Seq(MaskedLeg)
<1> DEFINE slm == [i \in DOMAIN tags |-> SlmLeg(tags[i], "mask")]
           off == IF m = None THEN <<>> ELSE <<SlmLeg(m, "off")>>
           cloud == IF withCloud THEN <<SlmLeg(Cloud, "mask")>> ELSE <<>>
<1>1. \A t \in Tags \cup {Cloud} : SlmLeg(t, "mask") \in MaskedLeg
  BY DEF SlmLeg, Leg, MaskedLeg
<1>2. slm \in Seq(MaskedLeg)
  <2>1. DOMAIN tags = 1..Len(tags) /\ Len(tags) \in Nat
    BY LenProperties
  <2>2. \A i \in 1..Len(tags) : tags[i] \in Tags BY ElementOfSeq
  <2>3. slm \in [1..Len(tags) -> MaskedLeg] BY <1>1, <2>1, <2>2
  <2> QED BY <2>1, <2>3, SeqDef
<1>3. cloud \in Seq(MaskedLeg)
  <2>1. CASE withCloud
    <3>1. SlmLeg(Cloud, "mask") \in MaskedLeg BY <1>1
    <3> HIDE DEF slm, off
    <3> QED BY <2>1, <3>1
  <2>2. CASE ~withCloud BY <2>2, EmptySeq
  <2> QED BY <2>1, <2>2
<1>4. MaskedLeg \subseteq Leg /\ Seq(MaskedLeg) \subseteq Seq(Leg)
  BY SeqMonotonic DEF MaskedLeg
<1>5. ASSUME m = None PROVE PlanLegs(tags, withCloud, m) \in Seq(MaskedLeg)
  <2>1. off = <<>> BY <1>5
  <2>2. slm \o off \in Seq(MaskedLeg)
    BY <1>2, <2>1, ConcatProperties, EmptySeq
  <2>3. (slm \o off) \o cloud \in Seq(MaskedLeg)
    BY <1>3, <2>2, ConcatProperties
  <2> QED BY <2>3 DEF PlanLegs
<1>6. ASSUME m \in Tags, m # None PROVE PlanLegs(tags, withCloud, m) \in Seq(Leg)
  <2>1. SlmLeg(m, "off") \in Leg BY <1>6 DEF SlmLeg, Leg
  <2>2. off \in Seq(Leg) BY <1>6, <2>1
  <2>3. slm \in Seq(Leg) /\ cloud \in Seq(Leg) BY <1>2, <1>3, <1>4
  <2>4. slm \o off \in Seq(Leg) BY <2>2, <2>3, ConcatProperties
  <2>5. (slm \o off) \o cloud \in Seq(Leg) BY <2>3, <2>4, ConcatProperties
  <2> QED BY <2>5 DEF PlanLegs
<1> QED BY <1>4, <1>5, <1>6

\* The files whose day the invariant speaks of.
LEMMA FilesOfTheReport ==
  /\ \A f \in {"check", "lock", "models", "pii_json", "deployment"} :
         <<"campaign", f>> \in Artifacts
  /\ \A p \in Places :
         \A f \in {"environment", "run_log", "results", "errors", "pii"} :
             <<p, f>> \in Artifacts
  BY DEF Artifacts, Report

\* Writing files puts them on today's date and leaves the others alone.
LEMMA WrittenFiles ==
  ASSUME NEW F, Wrote(F), day \in 0..MaxDays,
         written \in [Artifacts -> 0..MaxDays]
  PROVE  /\ written' \in [Artifacts -> 0..MaxDays]
         /\ \A x \in Artifacts :
                written'[x] = IF x \in F THEN day ELSE written[x]
  BY DEF Wrote

\* A step is recorded, and the campaign goes on or ends.
LEMMA StepRecorded ==
  ASSUME NEW s \in StepNames, NEW r \in Results, NEW next \in Points,
         steps \in [StepNames -> Results], Continue(s, r, next)
  PROVE  /\ steps' \in [StepNames -> Results] /\ pc' \in Points /\ pc' = next
         /\ log' = log /\ outcome' = outcome
         /\ steps'[s] = r
         /\ \A q \in StepNames \ {s} : steps'[q] = steps[q]
  BY DEF Continue

LEMMA StepStops ==
  ASSUME NEW s \in StepNames, StopAt(s), day \in 0..MaxDays,
         steps \in [StepNames -> Results]
  PROVE  /\ steps' \in [StepNames -> Results] /\ pc' = "idle"
         /\ log' \in DayLog /\ outcome' = "stopped"
  BY DEF StopAt, Exit, DayLog, Results

LEMMA FaultSpent ==
  ASSUME faults \in 0..Faults, Fault
  PROVE  faults' \in 0..Faults
  BY FaultsAssumption DEF Fault

LEMMA RowsTypes ==
  ASSUME NEW d, has_rows \in [Dir -> BOOLEAN], RowsAt(d)
  PROVE  has_rows' \in [Dir -> BOOLEAN]
  BY DEF RowsAt

\* What the deployment check does is all in its own variables.
LEMMA DeploymentTypes ==
  ASSUME DeploymentTypeOK, DeploymentStep
  PROVE  DeploymentTypeOK'
<1> USE FaultSpent DEF DeploymentTypeOK, Succeed, Fail, FailAs, StageNames
<1>1. CASE Prepare BY <1>1 DEF Prepare
<1>2. CASE Up BY <1>2 DEF Up
<1>3. CASE CleanUp BY <1>3 DEF CleanUp
<1>4. CASE Health BY <1>4 DEF Health
<1>5. CASE Submit BY <1>5 DEF Submit
<1>6. CASE Logs BY <1>6 DEF Logs
<1>7. CASE Down BY <1>7 DEF Down
<1>8. CASE Write BY <1>8 DEF Write
<1> QED
  BY <1>1, <1>2, <1>3, <1>4, <1>5, <1>6, <1>7, <1>8 DEF DeploymentStep

------------------------------------------------------------------------------
(***************************************************************************)
(* Types.                                                                  *)
(***************************************************************************)
LEMMA InitTypes == Init => TypeOK
<1> SUFFICES ASSUME Init PROVE TypeOK OBVIOUS
<1>1. DeploymentTypeOK
  <2>1. faults \in 0..Faults BY FaultsAssumption DEF Init, DeploymentInit
  <2>2. failures \subseteq StageNames BY DEF Init, DeploymentInit
  <2>3. wrote \in BOOLEAN BY DEF Init, DeploymentInit
  <2> QED BY <2>1, <2>2, <2>3 DEF Init, DeploymentInit, DeploymentTypeOK
<1>2. models \in Seq(Tags) /\ legs \in Seq(Leg) BY EmptySeq DEF Init
<1>3. NoSteps \in [StepNames -> Results] BY DEF NoSteps, Results
<1>4. NoResults \in [day : 0..MaxDays, legs : SUBSET Leg, f1 : [Judges -> F1Values]]
  BY DayAssumption DEF NoResults
<1>5. log \in DayLog BY <1>3, DayAssumption DEF Init, DayLog
<1> QED
  BY <1>1, <1>2, <1>3, <1>4, <1>5, DayAssumption
  DEF Init, TypeOK, Points, Places, NoArchive

\* The best model is one of the plan's.
LEMMA BestIsATag ==
  ASSUME plan \in Plans, NEW f1, NEW m \in BestModel(f1)
  PROVE  m \in Tags \cup {None}
<1>1. ToSet(plan.models) \subseteq Tags
  BY PlanFields, ElementOfSeq, LenProperties DEF ToSet
<1> QED BY <1>1 DEF BestModel

LEMMA Names ==
  /\ StepNames = {"check", "lock", "freeze", "preflight", "primary",
                  "ablation", "pii", "deployment", "bundle"}
  /\ Points = {"idle", "ablation", "pii", "deployment", "deploying", "finish",
               "bundle", "check", "lock", "freeze", "preflight", "start",
               "legs", "log", "analyze", "errors", "privacy"}
  /\ Results = {"none", "ok", "FAIL", "skipped"}
  BY DEF StepNames, Points, Gates, MatrixPoints, Results

\* The disjuncts of the next-state relation, one by one.
LEMMA TypesKept == TypeOK /\ DayIsCounted /\ [Next]_vars => TypeOK'
<1> SUFFICES ASSUME TypeOK, DayIsCounted, [Next]_vars PROVE TypeOK' OBVIOUS
<1> USE DayAssumption, FaultsAssumption
<1>1. ASSUME NEW p \in Plans, StartCampaign(p) PROVE TypeOK'
  BY <1>1, PlanFields, EmptySeq DEF StartCampaign, StartMatrix, NoSteps, TypeOK, DeploymentTypeOK, DayLog, StepNames, Results, Points, Gates, MatrixPoints, Places, deploymentVars, matrixVars, diskVars, Fault
<1>2. CASE MakeCheck
  BY <1>2, WrittenFiles DEF MakeCheck, Continue, StopAt, Exit, TypeOK, DeploymentTypeOK, DayLog, StepNames, Results, Points, Gates, MatrixPoints, Places, deploymentVars, matrixVars, diskVars, Fault
<1>3. CASE VerifyLock
  BY <1>3, WrittenFiles DEF VerifyLock, Continue, StopAt, Exit, TypeOK, DeploymentTypeOK, DayLog, StepNames, Results, Points, Gates, MatrixPoints, Places, deploymentVars, matrixVars, diskVars, Fault
<1>4. CASE Freeze
  <2>1. /\ steps' \in [StepNames -> Results] /\ pc' \in Points
        /\ log' = log /\ outcome' = outcome
    BY <1>4, StepRecorded, Names DEF Freeze, TypeOK
  <2>2. written' \in [Artifacts -> 0..MaxDays]
    BY <1>4, WrittenFiles DEF Freeze, TypeOK
  <2>3. faults' \in 0..Faults
    BY <1>4, FaultSpent DEF Freeze, TypeOK, DeploymentTypeOK
  <2> QED
    BY <1>4, <2>1, <2>2, <2>3
    DEF Freeze, TypeOK, DeploymentTypeOK, deploymentVars, matrixVars
<1>5. CASE Preflight
  <2>1. /\ steps' \in [StepNames -> Results] /\ pc' \in Points
        /\ log' \in DayLog /\ outcome' \in {"none", "stopped", "completed", "killed"}
    <3>1. CASE Continue("preflight", "ok", "preflight")
      <4>1. /\ steps' \in [StepNames -> Results] /\ pc' \in Points
            /\ log' = log /\ outcome' = outcome
        BY <3>1, StepRecorded, Names DEF TypeOK
      <4> QED BY <4>1 DEF TypeOK
    <3>2. CASE StopAt("preflight")
      BY <1>5, <3>2, StepStops, Names DEF TypeOK
    <3> QED BY <1>5, <3>1, <3>2 DEF Preflight
  <2>2. models' \in Seq(Tags)
    <3>1. CASE models' = models BY <3>1 DEF TypeOK
    <3>2. CASE models' = Tail(models)
      BY <1>5, <3>2, HeadTailProperties DEF Preflight, TypeOK
    <3> QED BY <1>5, <3>1, <3>2 DEF Preflight
  <2>3. faults' \in 0..Faults
    BY <1>5, FaultSpent DEF Preflight, TypeOK, DeploymentTypeOK
  <2> QED
    BY <1>5, <2>1, <2>2, <2>3
    DEF Preflight, TypeOK, DeploymentTypeOK, deploymentVars, matrixVars, diskVars
<1>6. CASE StartPrimary
  BY <1>6, PlannedLegs, PlanFields DEF StartPrimary, StartMatrix, TypeOK, DeploymentTypeOK, DayLog, StepNames, Results, Points, Gates, MatrixPoints, Places, deploymentVars, matrixVars, diskVars, Fault
<1>7. CASE LoadSamples
  BY <1>7, WrittenFiles DEF LoadSamples, TypeOK, DeploymentTypeOK, DayLog, StepNames, Results, Points, Gates, MatrixPoints, Places, deploymentVars, matrixVars, diskVars, Fault
<1>8. CASE SkipLeg
  BY <1>8, HeadTailProperties DEF SkipLeg, NextLeg, LegOver, TypeOK, DeploymentTypeOK, DayLog, StepNames, Results, Points, Gates, MatrixPoints, Places, deploymentVars, matrixVars, diskVars, Fault
<1>9. CASE RefuseLeg
  BY <1>9, HeadTailProperties DEF RefuseLeg, NextLeg, LegOver, TypeOK, DeploymentTypeOK, DayLog, StepNames, Results, Points, Gates, MatrixPoints, Places, deploymentVars, matrixVars, diskVars, Fault
<1>10. CASE ScoreLeg
  BY <1>10, HeadTailProperties, PlanFields DEF ScoreLeg, NextLeg, LegOver, LegDir, Dir, TypeOK, DeploymentTypeOK, DayLog, StepNames, Results, Points, Gates, MatrixPoints, Places, deploymentVars, matrixVars, diskVars, Fault
<1>11. CASE FailLeg
  <2>1. legs \in Seq(Leg) /\ legs # <<>> BY <1>11 DEF FailLeg, NextLeg, TypeOK
  <2>2. legs' \in Seq(Leg) /\ done' \subseteq Leg
    BY <1>11, <2>1, HeadTailProperties DEF FailLeg, LegOver, TypeOK
  <2>3. has_rows' \in [Dir -> BOOLEAN]
    BY <1>11, RowsTypes DEF FailLeg, TypeOK
  <2>4. faults' \in 0..Faults
    BY <1>11, FaultSpent DEF FailLeg, TypeOK, DeploymentTypeOK
  <2> QED
    BY <1>11, <2>2, <2>3, <2>4
    DEF FailLeg, TypeOK, DeploymentTypeOK, deploymentVars
<1>12. CASE LegsDone
  BY <1>12 DEF LegsDone, TypeOK, DeploymentTypeOK, DayLog, StepNames, Results, Points, Gates, MatrixPoints, Places, deploymentVars, matrixVars, diskVars, Fault
<1>13. CASE Collect
  BY <1>13, WrittenFiles DEF Collect, MatrixFails, Continue, StopAt, Exit, TypeOK, DeploymentTypeOK, DayLog, StepNames, Results, Points, Gates, MatrixPoints, Places, deploymentVars, matrixVars, diskVars, Fault
<1>14. CASE AnalyzeErrors
  BY <1>14, WrittenFiles DEF AnalyzeErrors, NeverFatal, TypeOK, DeploymentTypeOK, DayLog, StepNames, Results, Points, Gates, MatrixPoints, Places, deploymentVars, matrixVars, diskVars, Fault
<1>15. CASE EvaluatePrivacy
  <2>1. /\ steps' \in [StepNames -> Results] /\ pc' \in Points
        /\ log' = log /\ outcome' = outcome
    BY <1>15, StepRecorded, Names DEF EvaluatePrivacy, NeverFatal, TypeOK
  <2>2. written' \in [Artifacts -> 0..MaxDays]
    BY <1>15, WrittenFiles DEF EvaluatePrivacy, NeverFatal, TypeOK
  <2>3. faults' \in 0..Faults
    BY <1>15, FaultSpent DEF EvaluatePrivacy, NeverFatal, TypeOK, DeploymentTypeOK
  <2> QED
    BY <1>15, <2>1, <2>2, <2>3
    DEF EvaluatePrivacy, NeverFatal, TypeOK, DeploymentTypeOK, deploymentVars,
        matrixVars
<1>16. CASE MatrixDies
  <2>1. /\ steps' \in [StepNames -> Results] /\ pc' \in Points
        /\ log' \in DayLog /\ outcome' \in {"none", "stopped", "completed", "killed"}
    <3>1. CASE Continue("ablation", "FAIL", "pii")
      <4>1. /\ steps' \in [StepNames -> Results] /\ pc' \in Points
            /\ log' = log /\ outcome' = outcome
        BY <3>1, StepRecorded, Names DEF TypeOK
      <4> QED BY <4>1 DEF TypeOK
    <3>2. CASE StopAt("primary")
      BY <1>16, <3>2, StepStops, Names DEF TypeOK
    <3> QED BY <1>16, <3>1, <3>2 DEF MatrixDies, MatrixFails
  <2>2. has_rows' \in [Dir -> BOOLEAN]
    BY <1>16, RowsTypes DEF MatrixDies, TypeOK
  <2>3. faults' \in 0..Faults
    BY <1>16, FaultSpent DEF MatrixDies, TypeOK, DeploymentTypeOK
  <2> QED
    BY <1>16, <2>1, <2>2, <2>3
    DEF MatrixDies, TypeOK, DeploymentTypeOK, deploymentVars, matrixVars
<1>17. CASE ChooseAblation
  <2>1. PICK m \in BestModel(results["primary"].f1) :
          /\ subject' = m
          /\ \/ /\ m = None
                /\ Continue("ablation", "skipped", "pii")
                /\ UNCHANGED matrixVars
             \/ /\ m # None
                /\ StartMatrix("ablation", PlanLegs(<<m>>, FALSE, m))
                /\ pc' = "start"
                /\ UNCHANGED <<steps, log, outcome>>
    BY <1>17 DEF ChooseAblation
  <2>2. m \in Tags \cup {None} BY BestIsATag DEF TypeOK
  <2>3. CASE m = None
    <3>1. /\ steps' \in [StepNames -> Results] /\ pc' \in Points
          /\ log' = log /\ outcome' = outcome
      BY <2>1, <2>3, StepRecorded, Names DEF TypeOK
    <3> QED
      BY <1>17, <2>1, <2>2, <2>3, <3>1
      DEF ChooseAblation, TypeOK, DeploymentTypeOK, deploymentVars, matrixVars,
          diskVars
  <2>4. CASE m # None
    <3>1. <<m>> \in Seq(Tags) BY <2>2, <2>4
    <3>2. PlanLegs(<<m>>, FALSE, m) \in Seq(Leg) BY <2>2, <3>1, PlannedLegs
    <3> QED
      BY <1>17, <2>1, <2>2, <2>4, <3>2, Names
      DEF ChooseAblation, StartMatrix, TypeOK, DeploymentTypeOK, deploymentVars,
          diskVars, Places
  <2> QED BY <2>3, <2>4
<1>18. CASE DetectPii
  <2>1. /\ steps' \in [StepNames -> Results] /\ pc' \in Points
        /\ log' = log /\ outcome' = outcome
    BY <1>18, StepRecorded, Names DEF DetectPii, TypeOK
  <2>2. written' \in [Artifacts -> 0..MaxDays]
    BY <1>18, WrittenFiles DEF DetectPii, TypeOK
  <2>3. faults' \in 0..Faults
    BY <1>18, FaultSpent DEF DetectPii, TypeOK, DeploymentTypeOK
  <2> QED
    BY <1>18, <2>1, <2>2, <2>3
    DEF DetectPii, TypeOK, DeploymentTypeOK, deploymentVars, matrixVars
<1>19. CASE Deploy
  <2>1. /\ steps' \in [StepNames -> Results] /\ pc' \in Points
        /\ log' = log /\ outcome' = outcome
    BY <1>19, StepRecorded, Names DEF Deploy, TypeOK
  <2>2. DeploymentTypeOK'
    BY <1>19 DEF Deploy, StartDeployment, TypeOK, DeploymentTypeOK, deploymentVars,
                 StageNames
  <2> QED
    BY <1>19, <2>1, <2>2 DEF Deploy, TypeOK, matrixVars, diskVars
<1>20. CASE Deploying
  BY <1>20, DeploymentTypes DEF Deploying, TypeOK, DeploymentTypeOK, DayLog, StepNames, Results, Points, Gates, MatrixPoints, Places, deploymentVars, matrixVars, diskVars, Fault
<1>21. CASE Deployed
  BY <1>21, WrittenFiles DEF Deployed, Continue, EndDeployment, TypeOK, DeploymentTypeOK, DayLog, StepNames, Results, Points, Gates, MatrixPoints, Places, deploymentVars, matrixVars, diskVars, Fault
<1>22. CASE Finish
  BY <1>22 DEF Finish, TypeOK, DeploymentTypeOK, DayLog, StepNames, Results, Points, Gates, MatrixPoints, Places, deploymentVars, matrixVars, diskVars, Fault
<1>23. CASE Bundle
  <2>1. steps' \in [StepNames -> Results] /\ pc' \in Points
    BY <1>23, Names DEF Bundle, TypeOK
  <2>2. day > 0 BY <1>23 DEF Bundle, TypeOK, DayIsCounted
  <2>3. archive' \in [day : 1..MaxDays, log : DayLog,
                      written : [Artifacts -> 0..MaxDays]]
    BY <1>23, <2>2, DayAssumption DEF Bundle, TypeOK
  <2> QED
    BY <1>23, <2>1, <2>3
    DEF Bundle, TypeOK, DeploymentTypeOK, deploymentVars, matrixVars, diskVars
<1>24. CASE BundleFails
  BY <1>24 DEF BundleFails, NoArchive, TypeOK, DeploymentTypeOK, DayLog, StepNames, Results, Points, Gates, MatrixPoints, Places, deploymentVars, matrixVars, diskVars, Fault
<1>25. CASE Kill
  <2>1. has_rows' \in [Dir -> BOOLEAN] BY <1>25, RowsTypes DEF Kill, TypeOK
  <2>2. DeploymentTypeOK'
    BY <1>25, FaultSpent
    DEF Kill, EndDeployment, TypeOK, DeploymentTypeOK, StageNames
  <2>3. archive' \in {archive, NoArchive} BY <1>25 DEF Kill
  <2> QED
    BY <1>25, <2>1, <2>2, <2>3, Names DEF Kill, TypeOK, matrixVars
<1>26. ASSUME NEW f1 \in [Judges -> F1Values], Analyze(f1) PROVE TypeOK'
  BY <1>26, WrittenFiles DEF Analyze, TypeOK, DeploymentTypeOK, DayLog, StepNames, Results, Points, Gates, MatrixPoints, Places, deploymentVars, matrixVars, diskVars, Fault
<1>27. CASE UNCHANGED vars BY <1>27 DEF vars, TypeOK, DeploymentTypeOK, DayLog, StepNames, Results, Points, Gates, MatrixPoints, Places, deploymentVars, matrixVars, diskVars, Fault
<1> QED BY <1>1, <1>2, <1>3, <1>4, <1>5, <1>6, <1>7, <1>8, <1>9, <1>10, <1>11, <1>12, <1>13, <1>14, <1>15, <1>16, <1>17, <1>18, <1>19, <1>20, <1>21, <1>22, <1>23, <1>24, <1>25, <1>26, <1>27 DEF Next, Campaign, Matrix

------------------------------------------------------------------------------
(***************************************************************************)
(* Manifests.                                                              *)
(***************************************************************************)
LEMMA DirOfLeg ==
  ASSUME NEW p \in Places, NEW l \in Leg PROVE LegDir(p, l) \in Dir
  BY DEF LegDir, Dir

LEMMA NextLegIsALeg ==
  ASSUME TypeOK, NextLeg
  PROVE  Head(legs) \in Leg /\ LegDir(place, Head(legs)) \in Dir
  BY HeadTailProperties, DirOfLeg DEF TypeOK, NextLeg

\* What no step outside of a leg touches.
KeepsManifests == UNCHANGED <<plan, place, done, has_rows, manifest, results>>

LEMMA ManifestsUntouched ==
  ManifestsAgree /\ KeepsManifests => ManifestsAgree'
  BY DEF ManifestsAgree, KeepsManifests

\* Rows may come without a manifest; none is lost.
LEMMA ManifestsSurviveRows ==
  ASSUME TypeOK, ManifestsAgree, NEW d, UNCHANGED has_rows \/ RowsAt(d),
         UNCHANGED <<plan, place, manifest, results>>, done' \subseteq done
  PROVE  ManifestsAgree'
<1>1. \A e \in Dir : has_rows[e] => has_rows'[e] BY DEF TypeOK, RowsAt
<1> QED BY <1>1 DEF ManifestsAgree

LEMMA ManifestsKept ==
  TypeOK /\ ManifestsAgree /\ [Next]_vars => ManifestsAgree'
<1> SUFFICES ASSUME TypeOK, ManifestsAgree, [Next]_vars PROVE ManifestsAgree'
  OBVIOUS
<1>1. ASSUME NEW p \in Plans, StartCampaign(p) PROVE ManifestsAgree'
  BY <1>1 DEF StartCampaign, StartMatrix, ManifestsAgree, diskVars
<1>2. CASE StartPrimary
  BY <1>2 DEF StartPrimary, StartMatrix, ManifestsAgree, diskVars
<1>3. CASE ChooseAblation
  <2>1. UNCHANGED <<plan, has_rows, manifest, results>>
    BY <1>3 DEF ChooseAblation, diskVars
  <2>2. done' = {} \/ UNCHANGED <<place, done>>
    BY <1>3 DEF ChooseAblation, StartMatrix, matrixVars
  <2> QED BY <2>1, <2>2 DEF ManifestsAgree
<1>4. CASE SkipLeg \/ RefuseLeg
  BY <1>4 DEF SkipLeg, RefuseLeg, LegOver, ManifestsAgree, diskVars
<1>5. CASE ScoreLeg
  <2> DEFINE d == LegDir(place, Head(legs))
  <2>1. d \in Dir BY <1>5, NextLegIsALeg DEF ScoreLeg
  <2>2. plan.conf \in Configs BY PlanFields DEF TypeOK
  <2>3. has_rows' = [has_rows EXCEPT ![d] = TRUE] BY <1>5 DEF ScoreLeg
  <2>4. manifest' = [manifest EXCEPT ![d] = plan.conf] BY <1>5 DEF ScoreLeg
  <2>5. UNCHANGED <<plan, place, results>> /\ done' = done \cup {Head(legs)}
    BY <1>5 DEF ScoreLeg, LegOver
  <2>6. manifest[d] \in {None, plan.conf}
    BY <1>5, <2>1 DEF ScoreLeg, Refused, ManifestsAgree
  <2>7. manifest'[d] = plan.conf /\ has_rows'[d]
    BY <2>1, <2>3, <2>4 DEF TypeOK
  <2>8. \A e \in Dir \ {d} : manifest'[e] = manifest[e] /\ has_rows'[e] = has_rows[e]
    BY <2>1, <2>3, <2>4 DEF TypeOK
  <2> HIDE DEF d
  <2>9. \A e \in Dir : manifest[e] # None => manifest'[e] = manifest[e]
    BY <2>6, <2>7, <2>8
  <2>10. \A e \in Dir : manifest'[e] # None => has_rows'[e]
    BY <2>7, <2>8 DEF ManifestsAgree
  <2>11. \A l \in done' : manifest'[LegDir(place', l)] = plan'.conf
    <3>1. \A l \in done : LegDir(place, l) \in Dir BY DirOfLeg DEF TypeOK
    <3>2. \A l \in done : manifest[LegDir(place, l)] = plan.conf
      BY DEF ManifestsAgree
    <3>3. \A l \in done : manifest'[LegDir(place, l)] = plan.conf
      BY <2>2, <2>9, <3>1, <3>2, DayAssumption
    <3> QED BY <2>5, <2>7, <3>3 DEF d
  <2>12. \A p \in Places : \E c \in Configs : \A l \in results'[p].legs :
            manifest'[LegDir(p, l)] = c
    <3> SUFFICES ASSUME NEW p \in Places
                 PROVE  \E c \in Configs : \A l \in results'[p].legs :
                            manifest'[LegDir(p, l)] = c
      OBVIOUS
    <3>1. PICK c \in Configs : \A l \in results[p].legs : manifest[LegDir(p, l)] = c
      BY DEF ManifestsAgree
    <3>2. \A l \in results[p].legs : LegDir(p, l) \in Dir BY DirOfLeg DEF TypeOK
    <3>3. \A l \in results[p].legs : manifest'[LegDir(p, l)] = c
      BY <2>9, <3>1, <3>2, DayAssumption
    <3> QED BY <2>5, <3>3
  <2> QED BY <2>10, <2>11, <2>12 DEF ManifestsAgree
<1>6. CASE FailLeg
  BY <1>6, ManifestsSurviveRows DEF FailLeg, LegOver
<1>7. CASE MatrixDies
  BY <1>7, ManifestsSurviveRows DEF MatrixDies, matrixVars
<1>8. CASE Kill
  BY <1>8, ManifestsSurviveRows DEF Kill, matrixVars
<1>9. ASSUME NEW f1 \in [Judges -> F1Values], Analyze(f1) PROVE ManifestsAgree'
  <2>1. UNCHANGED <<plan, place, done, has_rows, manifest>>
    BY <1>9 DEF Analyze, matrixVars
  <2>2. results'[place].legs = done
    BY <1>9 DEF Analyze, TypeOK
  <2>3. \A p \in Places \ {place} : results'[p] = results[p]
    BY <1>9 DEF Analyze, TypeOK
  <2>4. plan.conf \in Configs BY PlanFields DEF TypeOK
  <2>5. \A l \in results'[place].legs : manifest'[LegDir(place, l)] = plan.conf
    BY <2>1, <2>2 DEF ManifestsAgree
  <2>6. \A p \in Places : \E c \in Configs : \A l \in results'[p].legs :
            manifest'[LegDir(p, l)] = c
    <3> SUFFICES ASSUME NEW p \in Places
                 PROVE  \E c \in Configs : \A l \in results'[p].legs :
                            manifest'[LegDir(p, l)] = c
      OBVIOUS
    <3>1. CASE p = place BY <2>4, <2>5, <3>1
    <3>2. CASE p # place
      <4>1. results'[p] = results[p] BY <2>3, <3>2
      <4> QED BY <2>1, <4>1 DEF ManifestsAgree
    <3> QED BY <3>1, <3>2
  <2> QED BY <2>1, <2>6 DEF ManifestsAgree
<1>10. CASE \/ MakeCheck \/ VerifyLock \/ Freeze \/ Preflight \/ LoadSamples
            \/ LegsDone \/ Collect \/ AnalyzeErrors \/ EvaluatePrivacy
            \/ DetectPii \/ Deploy \/ Deploying \/ Deployed \/ Finish
            \/ Bundle \/ BundleFails \/ UNCHANGED vars
  <2>1. KeepsManifests
    BY <1>10
    DEF MakeCheck, VerifyLock, Freeze, Preflight, LoadSamples, LegsDone, Collect,
        AnalyzeErrors, EvaluatePrivacy, DetectPii, Deploy, Deploying, Deployed,
        Finish, Bundle, BundleFails, vars, matrixVars, diskVars, KeepsManifests
  <2> QED BY <2>1, ManifestsUntouched
<1> QED
  BY <1>1, <1>2, <1>3, <1>4, <1>5, <1>6, <1>7, <1>8, <1>9, <1>10
  DEF Next, Campaign, Matrix

------------------------------------------------------------------------------
(***************************************************************************)
(* Scores and the model of the ablation.                                   *)
(***************************************************************************)
LEMMA MaskedKept ==
  TypeOK /\ ScoresAreMasked /\ [Next]_vars => ScoresAreMasked'
<1> SUFFICES ASSUME TypeOK, ScoresAreMasked, [Next]_vars PROVE ScoresAreMasked'
  OBVIOUS
<1>1. ASSUME NEW p \in Plans, StartCampaign(p) PROVE ScoresAreMasked'
  BY <1>1, EmptySeq DEF StartCampaign, StartMatrix, ScoresAreMasked, diskVars
<1>2. CASE StartPrimary
  <2>1. PlanLegs(plan.models, plan.cloud, None) \in Seq(MaskedLeg)
    BY PlanFields, PlannedLegs DEF TypeOK
  <2> QED
    BY <1>2, <2>1 DEF StartPrimary, StartMatrix, ScoresAreMasked, diskVars
<1>3. CASE ChooseAblation
  <2>1. UNCHANGED results BY <1>3 DEF ChooseAblation, diskVars
  <2>2. place' = "ablation" \/ UNCHANGED <<place, legs, done>>
    BY <1>3 DEF ChooseAblation, StartMatrix, matrixVars
  <2> QED BY <2>1, <2>2 DEF ScoresAreMasked
<1>4. CASE SkipLeg \/ RefuseLeg \/ ScoreLeg \/ FailLeg
  <2>1. NextLeg /\ legs' = Tail(legs) /\ done' \subseteq done \cup {Head(legs)}
        /\ UNCHANGED <<place, results>>
    BY <1>4 DEF SkipLeg, RefuseLeg, ScoreLeg, FailLeg, LegOver, diskVars
  <2>2. CASE place = "primary"
    <3>1. legs \in Seq(MaskedLeg) /\ legs # <<>>
      BY <2>1, <2>2 DEF ScoresAreMasked, NextLeg
    <3>2. Head(legs) \in MaskedLeg /\ Tail(legs) \in Seq(MaskedLeg)
      BY <3>1, HeadTailProperties
    <3> QED BY <2>1, <2>2, <3>2 DEF ScoresAreMasked
  <2>3. CASE place # "primary" BY <2>1, <2>3 DEF ScoresAreMasked
  <2> QED BY <2>2, <2>3
<1>5. ASSUME NEW f1 \in [Judges -> F1Values], Analyze(f1) PROVE ScoresAreMasked'
  <2>1. UNCHANGED <<place, legs, done>> BY <1>5 DEF Analyze, matrixVars
  <2>2. CASE place = "primary"
    <3>1. results'["primary"] = [day |-> day, legs |-> done, f1 |-> f1]
      BY <1>5, <2>2 DEF Analyze, TypeOK
    <3>2. ASSUME NEW m \in Tags, f1[m] > 0 PROVE SlmLeg(m, "mask") \in done
      <4>1. m \in Judges /\ m # External BY DayAssumption DEF Judges
      <4>2. m \in Listed BY <1>5, <2>2, <3>2, <4>1 DEF Analyze
      <4>3. PICK l \in done : l.model = m BY <4>1, <4>2 DEF Listed
      <4>4. l \in MaskedLeg BY <2>2 DEF ScoresAreMasked
      <4> QED BY <4>3, <4>4 DEF MaskedLeg, Leg, SlmLeg
    <3> QED BY <2>1, <3>1, <3>2 DEF ScoresAreMasked
  <2>3. CASE place # "primary"
    <3>1. results'["primary"] = results["primary"]
      BY <1>5, <2>3 DEF Analyze, TypeOK, Places
    <3> QED BY <2>1, <2>3, <3>1 DEF ScoresAreMasked
  <2> QED BY <2>2, <2>3
<1>6. CASE \/ MakeCheck \/ VerifyLock \/ Freeze \/ Preflight \/ LoadSamples
           \/ LegsDone \/ Collect \/ AnalyzeErrors \/ EvaluatePrivacy
           \/ MatrixDies \/ DetectPii \/ Deploy \/ Deploying \/ Deployed
           \/ Finish \/ Bundle \/ BundleFails \/ Kill \/ UNCHANGED vars
  <2>1. UNCHANGED <<place, legs, done, results>>
    BY <1>6
    DEF MakeCheck, VerifyLock, Freeze, Preflight, LoadSamples, LegsDone, Collect,
        AnalyzeErrors, EvaluatePrivacy, MatrixDies, DetectPii, Deploy, Deploying,
        Deployed, Finish, Bundle, BundleFails, Kill, vars, matrixVars, diskVars
  <2> QED BY <2>1 DEF ScoresAreMasked
<1> QED
  BY <1>1, <1>2, <1>3, <1>4, <1>5, <1>6 DEF Next, Campaign, Matrix

\* What holds of a campaign that runs is over with it.
LEMMA WhenIdle ==
  pc' = "idle" =>
      SubjectIsChosenLate' /\ AblationIsOnTheBest' /\ ReportIsOfToday' /\ DayIsCounted'
  BY DEF SubjectIsChosenLate, AblationIsOnTheBest, ReportIsOfToday, DayIsCounted,
         InPrimary, InAblation, PastPrimary, PastAblation, Gates, MatrixPoints

LEMMA DayKept ==
  TypeOK /\ DayIsCounted /\ [Next]_vars => DayIsCounted'
<1> SUFFICES ASSUME TypeOK, DayIsCounted, [Next]_vars PROVE DayIsCounted' OBVIOUS
<1>1. ASSUME NEW p \in Plans, StartCampaign(p) PROVE DayIsCounted'
  BY <1>1 DEF StartCampaign, DayIsCounted, TypeOK
<1>2. CASE Campaign
  BY <1>2
  DEF Campaign, MakeCheck, VerifyLock, Freeze, Preflight, StartPrimary,
      ChooseAblation, DetectPii, Deploy, Deploying, Deployed, Finish, Bundle,
      BundleFails, DayIsCounted
<1>3. CASE Matrix
  BY <1>3
  DEF Matrix, LoadSamples, SkipLeg, RefuseLeg, ScoreLeg, FailLeg, LegsDone,
      Collect, AnalyzeErrors, EvaluatePrivacy, MatrixDies, Analyze, NextLeg,
      NeverFatal, MatrixPoints, DayIsCounted
<1>4. CASE Kill BY <1>4 DEF Kill, DayIsCounted
<1>5. CASE UNCHANGED vars BY <1>5 DEF vars, DayIsCounted
<1> QED BY <1>1, <1>2, <1>3, <1>4, <1>5 DEF Next

LEMMA SubjectKept ==
  TypeOK /\ SubjectIsChosenLate /\ [Next]_vars => SubjectIsChosenLate'
<1> SUFFICES ASSUME TypeOK, SubjectIsChosenLate, [Next]_vars
             PROVE  SubjectIsChosenLate'
  OBVIOUS
<1> USE DEF SubjectIsChosenLate, InPrimary, Gates, MatrixPoints
<1>1. ASSUME NEW p \in Plans, StartCampaign(p) PROVE SubjectIsChosenLate'
  BY <1>1 DEF StartCampaign
<1>2. CASE MakeCheck \/ VerifyLock \/ Freeze \/ Preflight
  BY <1>2, WhenIdle
  DEF MakeCheck, VerifyLock, Freeze, Preflight, Continue, StopAt, Exit
<1>3. CASE StartPrimary BY <1>3 DEF StartPrimary
<1>4. CASE ChooseAblation
  BY <1>4 DEF ChooseAblation, StartMatrix, Continue
<1>5. CASE DetectPii \/ Deploy \/ Deploying \/ Deployed \/ Finish \/ Bundle
           \/ BundleFails \/ Kill
  BY <1>5
  DEF DetectPii, Deploy, Deploying, Deployed, Finish, Bundle, BundleFails, Kill,
      Continue
<1>6. CASE \/ LoadSamples \/ SkipLeg \/ RefuseLeg \/ ScoreLeg \/ FailLeg
           \/ LegsDone \/ AnalyzeErrors
  BY <1>6
  DEF LoadSamples, SkipLeg, RefuseLeg, ScoreLeg, FailLeg, LegsDone, AnalyzeErrors,
      NextLeg, NeverFatal, matrixVars
<1>7. CASE Collect \/ EvaluatePrivacy \/ MatrixDies
  BY <1>7
  DEF Collect, EvaluatePrivacy, MatrixDies, MatrixFails, NeverFatal, Continue,
      StopAt, Exit, matrixVars
<1>8. ASSUME NEW f1 \in [Judges -> F1Values], Analyze(f1) PROVE SubjectIsChosenLate'
  BY <1>8 DEF Analyze, matrixVars
<1>9. CASE UNCHANGED vars BY <1>9 DEF vars, matrixVars
<1> QED
  BY <1>1, <1>2, <1>3, <1>4, <1>5, <1>6, <1>7, <1>8, <1>9
  DEF Next, Campaign, Matrix

\* The choice: the best held-out score of the judges of the plan.
LEMMA BestIsBest ==
  ASSUME TypeOK, ScoresAreMasked, NEW m \in BestModel(results["primary"].f1),
         m # None
  PROVE  /\ m \in ToSet(plan.models)
         /\ SlmLeg(m, "mask") \in results["primary"].legs
         /\ \A n \in ToSet(plan.models) :
                results["primary"].f1[n] <= results["primary"].f1[m]
<1> DEFINE f1 == results["primary"].f1
           held == {n \in ToSet(plan.models) : f1[n] > 0}
<1>1. ToSet(plan.models) \subseteq Tags
  BY PlanFields, ElementOfSeq, LenProperties DEF ToSet, TypeOK
<1>2. f1 \in [Judges -> Nat] BY DayAssumption DEF TypeOK, Places
<1>3. m \in held /\ \A n \in held : f1[n] <= f1[m] BY DEF BestModel
<1>4. \A n \in ToSet(plan.models) : f1[n] \in Nat
  BY <1>1, <1>2 DEF Judges
<1>5. \A n \in ToSet(plan.models) : f1[n] <= f1[m]
  BY <1>3, <1>4
<1>6. SlmLeg(m, "mask") \in results["primary"].legs
  BY <1>1, <1>3 DEF ScoresAreMasked
<1> QED BY <1>3, <1>5, <1>6

LEMMA BestKept ==
  /\ TypeOK /\ ScoresAreMasked /\ SubjectIsChosenLate /\ ReportIsOfToday
  /\ AblationIsOnTheBest /\ [Next]_vars
  => AblationIsOnTheBest'
<1> SUFFICES ASSUME TypeOK, ScoresAreMasked, SubjectIsChosenLate, ReportIsOfToday,
                    AblationIsOnTheBest, [Next]_vars
             PROVE  AblationIsOnTheBest'
  OBVIOUS
<1>1. ASSUME NEW p \in Plans, StartCampaign(p) PROVE AblationIsOnTheBest'
  BY <1>1 DEF StartCampaign, AblationIsOnTheBest
<1>2. CASE ChooseAblation
  <2>1. PICK m \in BestModel(results["primary"].f1) : subject' = m
    BY <1>2 DEF ChooseAblation
  <2>2. UNCHANGED <<day, plan, results>> BY <1>2 DEF ChooseAblation, diskVars
  <2>3. results["primary"].day = day
    BY <1>2 DEF ChooseAblation, ReportIsOfToday, PastPrimary
  <2>4. CASE m = None BY <2>1, <2>4 DEF AblationIsOnTheBest
  <2>5. CASE m # None
    BY <2>1, <2>2, <2>3, <2>5, BestIsBest DEF AblationIsOnTheBest
  <2> QED BY <2>4, <2>5
<1>3. ASSUME NEW f1 \in [Judges -> F1Values], Analyze(f1) PROVE AblationIsOnTheBest'
  <2>1. UNCHANGED <<day, plan, subject>> /\ pc = "analyze" BY <1>3 DEF Analyze
  <2>2. CASE place = "primary"
    BY <2>1, <2>2
    DEF SubjectIsChosenLate, InPrimary, MatrixPoints, AblationIsOnTheBest
  <2>3. CASE place # "primary"
    <3>1. results'["primary"] = results["primary"]
      BY <1>3, <2>3 DEF Analyze, TypeOK, Places
    <3> QED BY <2>1, <3>1 DEF AblationIsOnTheBest
  <2> QED BY <2>2, <2>3
<1>4. ASSUME UNCHANGED <<day, plan, subject, results>>, pc # "idle"
      PROVE  AblationIsOnTheBest'
  BY <1>4 DEF AblationIsOnTheBest
<1>5. CASE MakeCheck \/ VerifyLock \/ Freeze \/ Preflight \/ StartPrimary
           \/ DetectPii \/ Deploy \/ Deploying \/ Deployed \/ Finish \/ Bundle
           \/ BundleFails \/ Kill
  BY <1>4, <1>5
  DEF MakeCheck, VerifyLock, Freeze, Preflight, StartPrimary, DetectPii, Deploy,
      Deploying, Deployed, Finish, Bundle, BundleFails, Kill, diskVars
<1>6. CASE \/ LoadSamples \/ SkipLeg \/ RefuseLeg \/ ScoreLeg \/ FailLeg
           \/ LegsDone \/ Collect \/ AnalyzeErrors \/ EvaluatePrivacy
           \/ MatrixDies
  BY <1>4, <1>6
  DEF LoadSamples, SkipLeg, RefuseLeg, ScoreLeg, FailLeg, LegsDone, Collect,
      AnalyzeErrors, EvaluatePrivacy, MatrixDies, NextLeg, NeverFatal,
      MatrixPoints, diskVars
<1>7. CASE UNCHANGED vars BY <1>7 DEF vars, diskVars, AblationIsOnTheBest
<1> QED
  BY <1>1, <1>2, <1>3, <1>5, <1>6, <1>7 DEF Next, Campaign, Matrix

------------------------------------------------------------------------------
(***************************************************************************)
(* The report and the archive.                                             *)
(***************************************************************************)

\* The files the invariant speaks of that are of today stay so.
StaysToday ==
    /\ \A f \in {"check", "lock", "models", "pii_json", "deployment"} :
           written[<<"campaign", f>>] = day => written'[<<"campaign", f>>] = day'
    /\ \A f \in {"environment", "run_log", "results"} :
           written[<<"primary", f>>] = day => written'[<<"primary", f>>] = day'
    /\ written[<<"ablation", "results">>] = day =>
           written'[<<"ablation", "results">>] = day'

\* Writing keeps what is of today, and so does writing nothing.
LEMMA TodayStays ==
  ASSUME TypeOK, UNCHANGED day, UNCHANGED written \/ \E F : Wrote(F)
  PROVE  StaysToday
<1>1. \A x \in Artifacts : written[x] = day => written'[x] = day'
  BY WrittenFiles, FilesOfTheReport DEF TypeOK
<1> QED BY <1>1, FilesOfTheReport DEF StaysToday, Places

\* The gates before the first matrix.
LEMMA ReportKeptByGates ==
  ASSUME TypeOK, ReportIsOfToday,
         MakeCheck \/ VerifyLock \/ Freeze \/ Preflight \/ StartPrimary
  PROVE  ReportIsOfToday'
<1> USE DEF ReportIsOfToday, InPrimary, InAblation, PastPrimary, PastAblation,
            MatrixPoints
<1>1. CASE MakeCheck
  <2>1. CASE StopAt("check") BY <2>1, WhenIdle DEF StopAt, Exit
  <2>2. CASE Continue("check", "ok", "lock")
    <3>1. written'[<<"campaign", "check">>] = day'
      BY <1>1, WrittenFiles, FilesOfTheReport DEF MakeCheck, TypeOK
    <3> QED BY <2>2, <3>1 DEF Continue
  <2> QED BY <1>1, <2>1, <2>2 DEF MakeCheck
<1>2. CASE VerifyLock
  <2>1. StaysToday
    BY <1>2, TodayStays DEF VerifyLock
  <2>2. CASE StopAt("lock") BY <2>2, WhenIdle DEF StopAt, Exit
  <2>3. CASE Continue("lock", "ok", "freeze") /\ Wrote({<<"campaign", "lock">>})
    <3>1. written'[<<"campaign", "lock">>] = day'
      BY <1>2, <2>3, WrittenFiles, FilesOfTheReport DEF VerifyLock, TypeOK
    <3> QED BY <1>2, <2>1, <2>3, <3>1 DEF Continue, VerifyLock, StaysToday
  <2>4. CASE Continue("lock", "skipped", "freeze")
    <3>1. pc' = "freeze" /\ steps'["lock"] = "skipped"
      BY <2>4, StepRecorded, Names DEF TypeOK
    <3> QED BY <1>2, <2>1, <3>1 DEF VerifyLock, StaysToday
  <2> QED BY <1>2, <2>2, <2>3, <2>4 DEF VerifyLock
<1>3. CASE Freeze
  <2>1. StaysToday
    BY <1>3, TodayStays DEF Freeze
  <2>2. pc' = "preflight" /\ steps'["lock"] = steps["lock"]
    BY <1>3 DEF Freeze, Continue, TypeOK, StepNames
  <2>3. \/ written'[<<"campaign", "models">>] = day'
        \/ steps'["freeze"] = "FAIL"
    <3>1. CASE Wrote({<<"campaign", "models">>})
      BY <1>3, <3>1, WrittenFiles, FilesOfTheReport DEF Freeze, TypeOK
    <3>2. CASE Continue("freeze", "FAIL", "preflight")
      BY <3>2, StepRecorded, Names DEF TypeOK
    <3> QED BY <1>3, <3>1, <3>2 DEF Freeze
  <2> QED BY <1>3, <2>1, <2>2, <2>3 DEF Freeze, StaysToday
<1>4. CASE Preflight
  <2>1. UNCHANGED <<day, written, results>> BY <1>4 DEF Preflight, diskVars
  <2>2. CASE StopAt("preflight") BY <2>2, WhenIdle DEF StopAt, Exit
  <2>3. CASE Continue("preflight", "ok", "preflight")
    <3>1. pc' = "preflight" /\ \A q \in {"lock", "freeze"} : steps'[q] = steps[q]
      BY <2>3 DEF Continue, TypeOK
    <3> QED BY <1>4, <2>1, <3>1 DEF Preflight
  <2> QED BY <1>4, <2>2, <2>3 DEF Preflight
<1>5. CASE StartPrimary
  BY <1>5 DEF StartPrimary, StartMatrix, diskVars
<1> QED BY <1>1, <1>2, <1>3, <1>4, <1>5

\* The steps of a matrix.
LEMMA ReportKeptByMatrix ==
  ASSUME TypeOK, ReportIsOfToday, Matrix
  PROVE  ReportIsOfToday'
<1> USE DEF ReportIsOfToday, InPrimary, InAblation, PastPrimary, PastAblation,
            MatrixPoints
<1>1. CASE LoadSamples
  <2>1. StaysToday
    BY <1>1, TodayStays DEF LoadSamples
  <2>2. written'[<<place, "environment">>] = day'
    BY <1>1, WrittenFiles, FilesOfTheReport DEF LoadSamples, TypeOK
  <2> QED BY <1>1, <2>1, <2>2
    DEF LoadSamples, matrixVars, StaysToday, TypeOK, Places
<1>2. CASE SkipLeg \/ RefuseLeg \/ ScoreLeg \/ FailLeg \/ LegsDone
  <2>1. /\ pc = "legs" /\ pc' \in {"legs", "log"}
        /\ UNCHANGED <<day, place, steps, written, results>>
    BY <1>2 DEF SkipLeg, RefuseLeg, ScoreLeg, FailLeg, LegsDone, NextLeg, LegOver,
                matrixVars, diskVars
  <2> QED BY <2>1
<1>3. CASE MatrixDies
  <2>1. UNCHANGED <<day, place, written, results>>
    BY <1>3 DEF MatrixDies, matrixVars
  <2>2. CASE StopAt("primary") BY <2>2, WhenIdle DEF StopAt, Exit
  <2>3. CASE Continue("ablation", "FAIL", "pii") /\ place = "ablation"
    <3>1. /\ pc' = "pii" /\ steps'["ablation"] = "FAIL"
          /\ \A q \in {"lock", "freeze"} : steps'[q] = steps[q]
      BY <2>3 DEF Continue, TypeOK, StepNames
    <3> QED BY <1>3, <2>1, <2>3, <3>1 DEF MatrixDies
  <2> QED BY <1>3, <2>2, <2>3 DEF MatrixDies, MatrixFails, TypeOK, Places
<1>4. CASE Collect
  <2>1. StaysToday
    BY <1>4, TodayStays DEF Collect
  <2>2. UNCHANGED <<day, place, results>> BY <1>4 DEF Collect, matrixVars
  <2>3. CASE StopAt("primary") BY <2>3, WhenIdle DEF StopAt, Exit
  <2>4. CASE Continue("ablation", "FAIL", "pii") /\ place = "ablation"
    <3>1. /\ pc' = "pii" /\ steps'["ablation"] = "FAIL"
          /\ \A q \in {"lock", "freeze"} : steps'[q] = steps[q]
      BY <2>4 DEF Continue, TypeOK, StepNames
    <3> QED BY <1>4, <2>1, <2>2, <2>4, <3>1 DEF Collect, StaysToday
  <2>5. CASE /\ pc' = "analyze" /\ UNCHANGED steps
             /\ Wrote({<<place, "run_log">>})
    <3>1. written'[<<place, "run_log">>] = day'
      BY <2>2, <2>5, WrittenFiles, FilesOfTheReport DEF TypeOK, Places
    <3> QED BY <1>4, <2>1, <2>2, <2>5, <3>1
      DEF Collect, StaysToday, TypeOK, Places
  <2> QED BY <1>4, <2>3, <2>4, <2>5 DEF Collect, MatrixFails, TypeOK, Places
<1>5. ASSUME NEW f1 \in [Judges -> F1Values], Analyze(f1) PROVE ReportIsOfToday'
  <2>1. StaysToday
    BY <1>5, TodayStays DEF Analyze
  <2>2. written'[<<place, "results">>] = day'
    BY <1>5, WrittenFiles, FilesOfTheReport DEF Analyze, TypeOK
  <2>3. /\ results'[place].day = day'
        /\ place # "primary" => results'["primary"] = results["primary"]
    BY <1>5 DEF Analyze, TypeOK, Places
  <2>4. /\ pc = "analyze" /\ pc' = "errors" /\ UNCHANGED <<day, place, steps>>
    BY <1>5 DEF Analyze, matrixVars
  <2>5. CASE place = "primary" BY <2>1, <2>2, <2>3, <2>4, <2>5 DEF StaysToday
  <2>6. CASE place = "ablation" BY <2>1, <2>2, <2>3, <2>4, <2>6 DEF StaysToday
  <2> QED BY <2>5, <2>6 DEF TypeOK, Places
<1>6. CASE AnalyzeErrors
  <2>1. StaysToday
    BY <1>6, TodayStays DEF AnalyzeErrors, NeverFatal
  <2> QED BY <1>6, <2>1 DEF AnalyzeErrors, NeverFatal, matrixVars, StaysToday
<1>7. CASE EvaluatePrivacy
  <2>1. StaysToday
    BY <1>7, TodayStays DEF EvaluatePrivacy, NeverFatal
  <2>2. /\ pc = "privacy" /\ UNCHANGED <<day, place, results>>
        /\ \A q \in {"lock", "freeze"} : steps'[q] = steps[q]
        /\ pc' = IF place = "primary" THEN "ablation" ELSE "pii"
    BY <1>7 DEF EvaluatePrivacy, NeverFatal, Continue, matrixVars, TypeOK,
                 StepNames
  <2> QED BY <2>1, <2>2 DEF TypeOK, Places, StaysToday
<1> QED BY <1>1, <1>2, <1>3, <1>4, <1>5, <1>6, <1>7 DEF Matrix

\* What comes after the first matrix.
LEMMA ReportKeptByTheRest ==
  ASSUME TypeOK, ReportIsOfToday, FailuresAreKept,
         \/ ChooseAblation \/ DetectPii \/ Deploy \/ Deploying \/ Deployed
         \/ Finish
  PROVE  ReportIsOfToday'
<1> USE DEF ReportIsOfToday, InPrimary, InAblation, PastPrimary, PastAblation,
            MatrixPoints
<1>1. CASE ChooseAblation
  <2>1. UNCHANGED <<day, written, results>> /\ pc = "ablation"
    BY <1>1 DEF ChooseAblation, diskVars
  <2>2. CASE Continue("ablation", "skipped", "pii")
    <3>1. /\ pc' = "pii" /\ steps'["ablation"] = "skipped"
          /\ \A q \in {"lock", "freeze"} : steps'[q] = steps[q]
      BY <2>2 DEF Continue, TypeOK, StepNames
    <3> QED BY <2>1, <3>1
  <2>3. CASE pc' = "start" /\ place' = "ablation" /\ UNCHANGED steps
    BY <2>1, <2>3
  <2> QED BY <1>1, <2>2, <2>3 DEF ChooseAblation, StartMatrix
<1>2. CASE DetectPii
  <2>1. StaysToday
    BY <1>2, TodayStays DEF DetectPii
  <2>2. /\ pc = "pii" /\ pc' = "deployment" /\ UNCHANGED <<day, results, place>>
        /\ \A q \in {"lock", "freeze", "ablation"} : steps'[q] = steps[q]
    BY <1>2 DEF DetectPii, Continue, TypeOK, matrixVars, StepNames
  <2>3. \/ written'[<<"campaign", "pii_json">>] = day'
        \/ steps'["pii"] = "FAIL"
    <3>1. CASE Wrote({<<"primary", "pii">>, <<"campaign", "pii_json">>})
      <4> DEFINE file == <<"campaign", "pii_json">>
                 both == {<<"primary", "pii">>, file}
      <4>1. file \in both /\ file \in Artifacts BY FilesOfTheReport
      <4>2. Wrote(both) BY <3>1
      <4> HIDE DEF both
      <4>3. written'[file] = day
        BY <4>1, <4>2, WrittenFiles DEF TypeOK
      <4> QED BY <2>2, <4>3
    <3>2. CASE Continue("pii", "FAIL", "deployment")
      BY <3>2, StepRecorded, Names DEF TypeOK
    <3> QED BY <1>2, <3>1, <3>2 DEF DetectPii
  <2> QED BY <2>1, <2>2, <2>3 DEF StaysToday
<1>3. CASE Deploy
  <2>1. pc = "deployment" /\ UNCHANGED <<day, written, results>>
    BY <1>3 DEF Deploy, diskVars
  <2>2. CASE Continue("deployment", "skipped", "finish")
    <3>1. /\ pc' = "finish" /\ steps'["deployment"] = "skipped"
          /\ \A q \in {"lock", "freeze", "ablation", "pii"} : steps'[q] = steps[q]
      BY <2>2 DEF Continue, TypeOK, StepNames
    <3> QED BY <2>1, <3>1
  <2>3. CASE pc' = "deploying" /\ UNCHANGED steps BY <2>1, <2>3
  <2> QED BY <1>3, <2>2, <2>3 DEF Deploy
<1>4. CASE Deploying BY <1>4 DEF Deploying, diskVars
<1>5. CASE Deployed
  <2>1. StaysToday
    BY <1>5, TodayStays DEF Deployed
  <2>2. /\ pc = "deploying" /\ pc' = "finish" /\ UNCHANGED <<day, results>>
        /\ \A q \in {"lock", "freeze", "ablation", "pii"} : steps'[q] = steps[q]
        /\ steps'["deployment"] = IF failures = {} THEN "ok" ELSE "FAIL"
    BY <1>5 DEF Deployed, Continue, TypeOK, StepNames
  <2>3. wrote \/ failures # {} BY <1>5 DEF Deployed, FailuresAreKept
  <2>4. wrote => written'[<<"campaign", "deployment">>] = day'
    BY <1>5, WrittenFiles, FilesOfTheReport DEF Deployed, TypeOK
  <2> QED BY <2>1, <2>2, <2>3, <2>4 DEF StaysToday
<1>6. CASE Finish BY <1>6 DEF Finish, diskVars
<1> QED BY <1>1, <1>2, <1>3, <1>4, <1>5, <1>6

LEMMA ReportKept ==
  TypeOK /\ ReportIsOfToday /\ FailuresAreKept /\ [Next]_vars => ReportIsOfToday'
<1> SUFFICES ASSUME TypeOK, ReportIsOfToday, FailuresAreKept, [Next]_vars
             PROVE  ReportIsOfToday'
  OBVIOUS
<1>1. ASSUME NEW p \in Plans, StartCampaign(p) PROVE ReportIsOfToday'
  BY <1>1
  DEF StartCampaign, StartMatrix, ReportIsOfToday, InPrimary, InAblation,
      PastPrimary, PastAblation, MatrixPoints
<1>2. CASE Bundle \/ BundleFails \/ Kill
  BY <1>2, WhenIdle DEF Bundle, BundleFails, Kill
<1>3. CASE UNCHANGED vars
  BY <1>3
  DEF vars, matrixVars, diskVars, ReportIsOfToday, InPrimary, InAblation,
      PastPrimary, PastAblation
<1> QED
  BY <1>1, <1>2, <1>3, ReportKeptByGates, ReportKeptByMatrix, ReportKeptByTheRest
  DEF Next, Campaign

LEMMA ArchiveKept ==
  TypeOK /\ ReportIsOfToday /\ ArchiveIsOfOneDay /\ [Next]_vars => ArchiveIsOfOneDay'
<1> SUFFICES ASSUME TypeOK, ReportIsOfToday, ArchiveIsOfOneDay, [Next]_vars
             PROVE  ArchiveIsOfOneDay'
  OBVIOUS
<1>1. CASE archive' = archive BY <1>1 DEF ArchiveIsOfOneDay
<1>2. CASE archive' = NoArchive BY <1>2 DEF ArchiveIsOfOneDay, NoArchive
<1>3. CASE Bundle
  <2>1. archive' = [day |-> day, written |-> written, log |-> log] /\ pc = "bundle"
    BY <1>3 DEF Bundle
  <2>2. log = [day |-> day, steps |-> steps] BY <2>1 DEF ReportIsOfToday
  <2>3. written[<<"campaign", "check">>] = day BY <2>1 DEF ReportIsOfToday
  <2>4. \A f \in {"environment", "run_log", "results"} :
            written[<<"primary", f>>] = day
    BY <2>1 DEF ReportIsOfToday, PastPrimary, PastAblation
  <2>5. \A e \in Excuses :
            written[e.file] = day \/ steps[e.step] \in {"FAIL", "skipped"}
    BY <2>1 DEF ReportIsOfToday, PastAblation, Excuses
  <2> QED BY <2>1, <2>2, <2>3, <2>4, <2>5 DEF ArchiveIsOfOneDay
<1>4. archive' \in {archive, NoArchive} \/ Bundle
  BY DEF Next, Campaign, Matrix, StartCampaign, MakeCheck, VerifyLock, Freeze,
     Preflight, StartPrimary, ChooseAblation, DetectPii, Deploy, Deploying,
     Deployed, Finish, BundleFails, LoadSamples, SkipLeg, RefuseLeg, ScoreLeg,
     FailLeg, LegsDone, Collect, AnalyzeErrors, EvaluatePrivacy, MatrixDies,
     Analyze, Kill, vars
<1> QED BY <1>1, <1>2, <1>3, <1>4

------------------------------------------------------------------------------
(***************************************************************************)
(* The deployment check.                                                   *)
(***************************************************************************)
LEMMA StageKept ==
  ASSUME DeploymentTypeOK, FailuresAreKept, StackIsTakenDown, DeploymentStep
  PROVE  FailuresAreKept' /\ StackIsTakenDown'
<1> USE DEF Succeed, Fail, FailAs
<1>1. CASE Prepare
  <2>1. CASE at' = "over"
    BY <1>1, <2>1 DEF Prepare, FailuresAreKept, StackIsTakenDown
  <2>2. CASE at' # "over"
    <3>1. at' \in {"config", "build", "up"} BY <1>1, <2>2 DEF Prepare
    <3> QED BY <3>1 DEF FailuresAreKept, StackIsTakenDown
  <2> QED BY <2>1, <2>2
<1>2. CASE Up BY <1>2 DEF Up, FailuresAreKept, StackIsTakenDown
<1>3. CASE CleanUp
  <2>1. "up" \in failures' BY <1>3 DEF CleanUp, FailuresAreKept
  <2>2. at' \in {"updown", "over"} BY <1>3 DEF CleanUp
  <2>3. at' = "over" => stack' = "down" \/ "down" \in failures'
    BY <1>3 DEF CleanUp
  <2>4. stack' = "down" \/ stack' = stack BY <1>3 DEF CleanUp
  <2> QED BY <2>1, <2>2, <2>3 DEF FailuresAreKept, StackIsTakenDown
<1>4. CASE Health \/ Submit \/ Logs
  <2>1. at' \in {"submit", "logs", "down"} BY <1>4 DEF Health, Submit, Logs
  <2> QED BY <2>1 DEF FailuresAreKept, StackIsTakenDown
<1>5. CASE Down BY <1>5 DEF Down, FailuresAreKept, StackIsTakenDown
<1>6. CASE Write BY <1>6 DEF Write, FailuresAreKept, StackIsTakenDown
<1> QED BY <1>1, <1>2, <1>3, <1>4, <1>5, <1>6 DEF DeploymentStep

LEMMA DeploymentKept ==
  TypeOK /\ FailuresAreKept /\ StackIsTakenDown /\ [Next]_vars
  => FailuresAreKept' /\ StackIsTakenDown'
<1> SUFFICES ASSUME TypeOK, FailuresAreKept, StackIsTakenDown, [Next]_vars
             PROVE  FailuresAreKept' /\ StackIsTakenDown'
  OBVIOUS
<1>1. CASE Deploying
  BY <1>1, StageKept DEF Deploying, TypeOK
<1>2. CASE UNCHANGED deploymentVars
  BY <1>2 DEF deploymentVars, FailuresAreKept, StackIsTakenDown
<1>3. CASE at' \in {"docker", "off"}
  BY <1>3 DEF FailuresAreKept, StackIsTakenDown
<1>4. Deploying \/ UNCHANGED deploymentVars \/ at' \in {"docker", "off"}
  BY DEF Next, Campaign, Matrix, StartCampaign, MakeCheck, VerifyLock, Freeze,
     Preflight, StartPrimary, ChooseAblation, DetectPii, Deploy, StartDeployment,
     Deployed, EndDeployment, Finish, Bundle, BundleFails, LoadSamples, SkipLeg,
     RefuseLeg, ScoreLeg, FailLeg, LegsDone, Collect, AnalyzeErrors,
     EvaluatePrivacy, MatrixDies, Analyze, Kill, vars
<1> QED BY <1>1, <1>2, <1>3, <1>4

------------------------------------------------------------------------------
(***************************************************************************)
(* The invariant, and what it says.                                        *)
(***************************************************************************)
LEMMA InitInvariant == Init => IInv
<1> SUFFICES ASSUME Init PROVE IInv OBVIOUS
<1>1. TypeOK BY InitTypes
<1>2. ManifestsAgree
  <2>1. \A p \in Places : results[p].legs = {} BY DEF Init, NoResults
  <2>2. plan.conf \in Configs BY PlanFields DEF Init
  <2> QED BY <2>1, <2>2 DEF Init, ManifestsAgree
<1>3. ScoresAreMasked
  <2>1. \A m \in Tags : results["primary"].f1[m] = 0
    BY DEF Init, NoResults, Judges, Places
  <2> QED BY <2>1, EmptySeq DEF Init, ScoresAreMasked
<1>4. SubjectIsChosenLate /\ AblationIsOnTheBest /\ ReportIsOfToday /\ DayIsCounted
  BY DEF Init, SubjectIsChosenLate, AblationIsOnTheBest, ReportIsOfToday,
     DayIsCounted, InPrimary, InAblation, PastPrimary, PastAblation, Gates,
     MatrixPoints
<1>5. ArchiveIsOfOneDay BY DEF Init, NoArchive, ArchiveIsOfOneDay
<1>6. FailuresAreKept /\ StackIsTakenDown
  BY DEF Init, DeploymentInit, FailuresAreKept, StackIsTakenDown
<1> QED BY <1>1, <1>2, <1>3, <1>4, <1>5, <1>6 DEF IInv

LEMMA StepInvariant == IInv /\ [Next]_vars => IInv'
  BY TypesKept, ManifestsKept, MaskedKept, SubjectKept, BestKept, DayKept,
     ReportKept, ArchiveKept, DeploymentKept
  DEF IInv

\* The inductive invariant holds of every reachable state (campaign.main,
\* experiment.main and run_deployment_check, day after day).
THEOREM Inductive == Spec => []IInv
  BY InitInvariant, StepInvariant, PTL DEF Spec

\* Type correctness: the ablation is only ever run on a model of the plan, and
\* an archive is of a day that was started.
THEOREM TypeCorrect == Spec => []TypeOK
  BY Inductive, PTL DEF IInv

\* All legs of a results.json were scored under the settings their manifests
\* name, and these are the same for all of them (check_resume_compatibility).
THEOREM ComparableJudges == Spec => []JudgesAreComparable
<1>1. IInv => JudgesAreComparable
  <2> SUFFICES ASSUME IInv, NEW p \in Places, NEW k \in results[p].legs,
                      NEW l \in results[p].legs
               PROVE  /\ has_rows[LegDir(p, k)]
                      /\ manifest[LegDir(p, k)] # None
                      /\ manifest[LegDir(p, k)] = manifest[LegDir(p, l)]
    BY DEF JudgesAreComparable
  <2>1. PICK c \in Configs : \A j \in results[p].legs : manifest[LegDir(p, j)] = c
    BY DEF IInv, ManifestsAgree
  <2>2. LegDir(p, k) \in Dir BY DirOfLeg DEF IInv, TypeOK
  <2> QED BY <2>1, <2>2, DayAssumption DEF IInv, ManifestsAgree
<1> QED BY <1>1, Inductive, PTL

\* The masking ablation is run on the best of the models that were scored in
\* this campaign (_best_model), whatever an earlier day left in results.json.
THEOREM AblatesTheBest == Spec => []AblationIsOnTheBest
  BY Inductive, PTL DEF IInv

\* The numbers and the log in the archive are of the day that made it, and any
\* older file in it is excused by the log.
THEOREM OneDayPerArchive == Spec => []ArchiveIsOfOneDay
  BY Inductive, PTL DEF IInv

\* A Compose stack that is still there after the check is in its report.
THEOREM StackTakenDown == Spec => []StackIsTakenDown
  BY Inductive, PTL DEF IInv

\* Whatever is started over a report directory, what a manifest says of the
\* rows beside it stays, and no rows are taken away.
SettingsStay ==
    \A d \in Dir : /\ manifest[d] # None => manifest'[d] = manifest[d]
                   /\ has_rows[d] => has_rows'[d]

\* check_resume_compatibility and write_run_manifest, over any number of days:
\* no day changes the settings of rows that another one scored.
THEOREM SettingsAreFinal == Spec => [][SettingsStay]_vars
<1>1. IInv /\ [Next]_vars => [SettingsStay]_vars
  <2> SUFFICES ASSUME IInv, Next PROVE SettingsStay
    BY DEF SettingsStay, vars, diskVars
  <2>1. CASE ScoreLeg
    <3> DEFINE e == LegDir(place, Head(legs))
    <3>1. e \in Dir BY <2>1, NextLegIsALeg DEF ScoreLeg, IInv
    <3>2. /\ has_rows' = [has_rows EXCEPT ![e] = TRUE]
          /\ manifest' = [manifest EXCEPT ![e] = plan.conf]
          /\ manifest[e] \in {None, plan.conf}
      BY <2>1, <3>1 DEF ScoreLeg, Refused, IInv, ManifestsAgree
    <3> HIDE DEF e
    <3> QED BY <3>1, <3>2 DEF SettingsStay, IInv, TypeOK
  <2>2. CASE UNCHANGED manifest /\ UNCHANGED has_rows
    BY <2>2 DEF SettingsStay
  <2>3. CASE UNCHANGED manifest /\ \E d \in Dir : RowsAt(d)
    BY <2>3 DEF SettingsStay, RowsAt, IInv, TypeOK
  <2>4. CASE FailLeg \/ MatrixDies \/ Kill
    <3>1. UNCHANGED manifest BY <2>4 DEF FailLeg, MatrixDies, Kill
    <3>2. \/ UNCHANGED has_rows
          \/ NextLeg /\ RowsAt(LegDir(place, Head(legs)))
      BY <2>4 DEF FailLeg, MatrixDies, Kill, NextLeg
    <3> QED BY <2>2, <2>3, <3>1, <3>2, NextLegIsALeg DEF IInv
  <2>5. CASE \E p \in Plans : StartCampaign(p)
    BY <2>2, <2>5 DEF StartCampaign, diskVars
  <2>6. CASE Campaign
    BY <2>2, <2>6
    DEF Campaign, MakeCheck, VerifyLock, Freeze, Preflight, StartPrimary,
        ChooseAblation, DetectPii, Deploy, Deploying, Deployed, Finish, Bundle,
        BundleFails, diskVars
  <2>7. CASE \/ LoadSamples \/ SkipLeg \/ RefuseLeg \/ LegsDone \/ Collect
             \/ AnalyzeErrors \/ EvaluatePrivacy
             \/ \E f1 \in [Judges -> F1Values] : Analyze(f1)
    BY <2>2, <2>7
    DEF LoadSamples, SkipLeg, RefuseLeg, LegsDone, Collect, AnalyzeErrors,
        EvaluatePrivacy, Analyze, diskVars
  <2> QED BY <2>1, <2>4, <2>5, <2>6, <2>7 DEF Next, Matrix
<1> QED BY <1>1, Inductive, PTL DEF Spec

==============================================================================
