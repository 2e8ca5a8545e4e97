# slm-rag-eval in TLA+

TLA+ models of `slm_rag_eval` (an evaluation service for retrieval-augmented answers judged by a
small language model, and the benchmark that measures the judges), TLC configurations that check
them on small instances, and TLAPS proofs that lift the main properties to every instance.

Paths below are relative to `src/slm_rag_eval/` in the repository, those that begin with `scripts/`
to its root.

## 1. The system

| Part | State it keeps | Operations | Interacts with | Where it is hard |
|---|---|---|---|---|
| Evaluation service (`service/api.py`, `db.py`, `worker.py`) | the `jobs` table (status, payload, result); per worker a semaphore, a set of asyncio tasks, a cached judge client | POST / GET, the poll loop with its claim, one task per job with its retry, `aclose` | SQL database, `evaluate`, the client that polls | several workers over one table; every `await` is a point where another task runs or a cancellation lands; database errors; processes that die |
| Judge client (`llm/client.py`, `structured.py`) | counters of two nested retry loops | `complete`, `generate_json` | the judge's HTTP endpoint | transient and permanent failures, answers that do not validate, refusals, truncation |
| Metrics (`metrics/`) | claims, verdict runs, the merged result | `evaluate`, faithfulness, relevance | judge client, sanitizer | a judge that answers a batch in another order; votes that tie; nothing to score |
| Privacy layer (`privacy/sanitizer.py`) | spans, placeholder map of one batch | `sanitize`, `restore` | Presidio, `evaluate` | overlapping findings, texts that already contain placeholders |
| Benchmark runner (`bench/run.py`) | rows file, manifest | `run_benchmark`, `--retry-failed`, resume check | datasets, `evaluate`, git | kills in the middle of a write, resumes under another configuration, commits during a run |
| Privacy evaluation (`privacy/evaluation.py`, `fixtures.py`) | none | `_Template.build`, `match_spans`, `evaluate_detection`, `detection_misses` | sanitizer | labels that keep their place while slots are filled; one-to-one matching when one merged span covers several labels |
| Datasets (`bench/datasets.py`, `dataset_lock.py`, `download.py`) | cached files, lock | `load`, `stratified_sample`, `verify_lock` | runner, preflight | exact size and balance of a draw |
| Analysis (`bench/analyze.py`, `errors.py`) | none (reads rows and manifests, writes a report) | series, thresholds, agreement, ablation, error buckets | rows files | rows of several runs in one table; a threshold tuned on what it is reported on |
| Experiment day (`bench/experiment.py`, `campaign.py`, `preflight.py`, `models.py`) | report directory, log | gates, legs, ablation | every part of `bench/` | one of many steps fails; the day is run again over its own output |
| Deployment check (`bench/deployment.py`) | Compose stack, transcript | build, up, health, submit and poll, down | Docker, the service | partial failure, teardown |
| Bundle, reproduction, resources, environment (`bench/bundle.py`, `reproduce.py`, `resources.py`, `environment.py`) | archive, counters | copy, compare, sample | report directory | completeness |
| Settings, CLI, demo (`core/`, `cli.py`, `demo.py`) | none | parse, print | the library | - |
| Unattended runner (`scripts/run_next_task.sh`, `run_overnight.sh`, `run_all_tasks.sh`) | git tree and branch, task files, cooldown file, counters | gates, retries, rollback, bookkeeping, supervision | git, an external agent, cron | kills, rate limits, git commands that fail and are passed over, an agent that commits and moves task files on its own or hangs, two callers of one runner |

What makes each part correct, in one line:

- *service*: an accepted job is stored, claimed by one worker, in order, judged at most
  `ATTEMPTS_PER_JOB` times, settled once, and settled at all unless its holder was lost;
- *judge client*: the retry loops cost what they multiply to and always end;
- *metrics*: no verdict is attached to another claim, a vote has a winner or is uncertain, a score
  is a share of what was decided;
- *privacy layer*: what was found is masked, a placeholder stands for one original and can be taken
  for nothing else, restoring inverts masking;
- *benchmark runner*: one row per sample, every drawn sample has a row, all rows of a file belong to
  the configuration its manifest names, every contributing commit is recorded;
- *datasets*: a draw has exactly the asked size, comes from the asked split and keeps every stratum's
  share to less than one sample;
- *analysis*: a series mixes neither judges, models, datasets nor runs; a reported threshold has not
  seen the half it is reported on; error lists and metrics count the same rows;
- *experiment day*: legs that are compared ran under the same settings, the ablation is on the best
  model of the day, log and archive are of one day, a failed gate stops the day before it spends;
- *deployment check*: what it started it takes down, or says that it could not;
- *privacy evaluation*: no other pairing catches more labels, the rows add up, and what is listed as
  missed is what the judge would have seen;
- *unattended runner*: no change is lost once its patch was written, failed work is off the branch
  unless the rollback failed, done work passed the gates, a committed verdict is final, a night that
  ends as idle has left nothing to do, and a night ends if its agents do;
- *reproduction*: see "Not modelled".

How the parts meet: the service and the benchmark both call `evaluate`; `evaluate` masks, asks the
judge client and merges two metrics; the runner writes the rows files the analysis reads; a leg of
the experiment is one run of the runner; the campaign starts preflight, experiment, privacy
evaluation, deployment check and bundle as subprocesses that share only the report directory. The
unattended runner develops the repository itself and shares nothing with the rest but its tests.

## 2. Modules

| Module | Models | Composes | Proofs |
|---|---|---|---|
| `JobLifecycle` | what the service promises about one job: submitted, stored, claimed in order, judged a bounded number of times, settled | - | - |
| `EvaluationService` | API, job table, workers, their tasks and their shutdown | refines `JobLifecycle` (`row` is its status, `before` its queue) | `EvaluationServiceProofs` |
| `JudgeCall` | one question to the judge: completions with transport retries inside, repairs of invalid JSON outside | - | through the next |
| `MetricEvaluation` | `evaluate` with faithfulness and relevance; every question is a `JudgeCall` | extends `JudgeCall` | `MetricEvaluationProofs` |
| `Sanitizer` | detection filter, span merge, placeholders of a batch, masking, restoring | - | through the next |
| `PrivacyEvaluation` | labelled documents, one-to-one matching, the table and the misses of the privacy report | extends `Sanitizer`, whose detection it measures | `PrivacyProofs` |
| `BenchRun` | sessions of the benchmark runner over one output directory | - | `BenchRunProofs` |
| `DeploymentCheck` | the stages of the Compose check and what they leave | - | through the next |
| `ExperimentDay` | campaign, preflight, matrix, ablation, bundle over one report directory | extends `DeploymentCheck`; a leg is a `BenchRun` session, reduced to whether its directory has rows and what its manifest names | `ExperimentDayProofs` |
| `Sampling` | `datasets.load`: split, limit, stratified draw | - | through the next |
| `Analysis` | rows files to series, thresholds, ablation pairs, agreement, error cases and rates | extends `Sampling` | `AnalysisProofs` |
| `TaskRunner` | a run of `run_next_task.sh`, the supervisor of a night, a second caller, the agent beside them | - | `TaskRunnerProofs` |

`FoldTheorems` models nothing: it holds the lemmas about folds, sums and counting that `PrivacyProofs` and
`AnalysisProofs` cite. `MC*` modules hold only the instances for TLC. Operators whose comment begins with "Mutant" are
deliberate mistakes, each the way a plausible bug would change the definition below it; with one of
them in place of its original the named property fails in the same run, which shows that the run
reaches the case.

### How state and actions correspond to the code

**EvaluationService.** `row` is the status column, `post` where the POST of a job is (flush and
commit are two steps, and a commit may take effect without an answer). `pc[w]` is the `await` at
which a worker's poll loop stands: `acquire` (semaphore), `select`, `update`, `get` (the claim's three
round trips), `sleep`; `draining` is `aclose`, `dead` an embedded loop that raised. `task[w][j]` is
how far the asyncio task of a job is. `Stop` cancels at whatever `await` the loop is; `Crash` takes
the whole process. A job that a crash, a cancelled claim or a database error took from its holder is
noted in `lost`: nothing in the code ever claims a running row again, and every property about running
rows has to account for those.

**JudgeCall, MetricEvaluation.** `call` is idle, waiting, answered or failed; `attempt` and `tries` are
the two loop counters. `stage` names the question being asked. A judge may answer anything that
validates: any list of claims (the second try too), verdicts for other claims than asked, in another
order, too few or repeated. `run` and `runs` are `_verify_claims`' verdict lists. Scores are fractions.

**Sanitizer.** Texts are sequences of tokens, a token a word or a placeholder; the analyzer may return
any list of spans, also ones outside the text. One step per span, in the code's order.

**PrivacyEvaluation.** No state of its own. A template is a sequence of words and markers with a value
for each slot; `Build` fills slot after slot and notes the spans. As soon as the sanitizer has detected
its first text, the properties compare `detected[1]` with the labels of every document with that text, so
the detector is any detector. Scores and rates of the report are quotients of the counts and left out.

**BenchRun.** `rows`, `loose`, `torn`, `junk` are the rows file as `read_rows` sees it: its rows, a
complete last row without its newline, a fragment, an unreadable line. `manifest` may be missing or cut
off. A session is refused, drops failed rows (in place), scores sample after sample and writes its
manifest last; a kill may hit between writes or in the middle of one.

**ExperimentDay.** `pc` is the campaign's step or, inside a matrix, the point of `experiment.main`.
`written[a]` is the day that wrote a report file, `results` what `results.json` says, `archive` a copy
of `written` and the log. Faults (a failing subprocess, an exception, a time limit, a kill) are counted
by one budget, shared with `DeploymentCheck`. F1 scores are numbers in order, 0 for a judge without one; a real score
of exactly zero, which the code accepts (`f1 > -1.0`), is a number from 1 up like any other.

**Sampling, Analysis.** Samples are positions in the shuffled dataset; since any order may come out of
the shuffle, a dataset is any sequence. A draw is a set: the code restores the dataset's order. Where
two strata lost equal remainders, the code's choice depends on floating-point rounding, so either may
get the sample. A run id, a hash of the run's fingerprint, is the fingerprint. F1 values are compared
exactly; the code compares floats, so mathematically equal values may be ordered by rounding (from
about eight samples of one class on). `holdout_fold` is an arbitrary function. Agreement is the set
of samples two series share and those on which their calls differ; the value of kappa is not computed.
`Shape` gives every sample its structural buckets.

**TaskRunner.** `tree`, `head` and `base` are the working tree, the last commit and the commit a task
started from; each is a set of changes and the place of every task file. A change carries the task whose agent
made it (`by`) and what the gates see in it: `red` fails `make check` or the hold-out tests, `smelly` is found
by the smell check, `note` is a BLOCKED entry, the rest is sound. `pc` is the point a run of
`run_next_task.sh` has reached, with the shell variables it still reads; `patch` is what `FAILED_PATCH`
holds. `AgentWorks` is any number of writes, removals, commits and moves of task files by the agent, also by one whose
runner was killed (`orphan`: it keeps the lock). Time is the cooldown file: none, in the future, in the past. The
supervisor is `night` with its counters; a night that is over may be followed by another.

`trouble` says that git or the disk may refuse: an `index.lock` that a killed process left, a full disk, a file that
cannot be removed, a hook. It comes by itself or with a kill or a crash, and goes. As long as it lasts every command that
needs git or the disk may fail or not, each for itself. Where the script passes over a failure with `|| true`, so does
the model: a `Commit` takes effect or not; `SavePatch` writes the whole patch, or only what the agent had committed, or
nothing that can be applied; after a `git reset` that fails (`ResetFails`) the branch is where it was or at the base, the
tree anything between what it was and the base, less the files git does not know, and the run goes on. Where the script
does not, `set -e` ends the run with the exit code 1 (`AbortStart` before the agent, `Abort` after it). `faults` bounds
troubles, kills, crashes and runs of cron.

Five variables are history: `saved` says that no command that writes the current patch has failed, `booked` are the
tasks whose verdict a commit of the runner contains, `cutShort` those of which a run ended without a committed verdict or
was not rolled back, `moved` those whose file such a run may have left in another place, `calm` says that nothing outside
has disturbed the current night. A disk that fills between two writes of one pass of the gates is left out: `make
check`'s output (194, 197) is taken to meet it first, which ends the run, and not the grep at 217, which would miss a smell.

## 3. Runs

| Run | Instance and bounds | Shows |
|---|---|---|
| `service` | two jobs (one unreadable), an embedded and a standalone worker with two slots each, two attempts; one stop, one crash, one database error; fairness | exclusive claims, order, accounting of running rows, permits, judge budget, open judge, refinement of `JobLifecycle`; accepted jobs whose holder is not lost are settled; a stopped worker exits |
| `service_drain` (violation) | one worker, one stop | finding 1 |
| `bench_safety` | two samples, two configurations, three sessions with retry and extended limit, two kills, a deletion, a commit | one row per sample, one configuration, coverage, recorded commits, durable rows |
| `bench_resume` (violation) | one killed session | finding 2 |
| `judge_pipeline` | one run over three claims in batches of two or over none, two runs over two claims, three over one; two POSTs and two completions a question; relevance selected before and after faithfulness; fairness | alignment, vote, score, the cost of a question and the number of questions, termination by fairness and by a measure that every step lowers |
| `sanitizer` | texts of three and one tokens, up to two findings of two types; every labelling of a text of three words | nothing found survives, unambiguous placeholders, restoring inverts; the privacy report's table is right and its misses are what was exposed |
| `experiment_day` | two models, four plans, two days, two faults, three F1 values | comparable legs, ablation on the best, archive and log of one day, stack taken down |
| `experiment_gate` (violation) | two days with different settings, no fault | finding 3 |
| `analysis` | all datasets of up to five samples in four strata and of up to three in two splits, limits one to four; over five samples one file with any of three scores or none, two files of any provenance (also with the same errors), three runs of one judge; three folds | exact balanced draws, pure series and pairs, blind thresholds, agreement over the same samples, error rates that are shares |
| `analysis_errors` (violation) | one file, any scores | finding 4 |
| `task_runner` | two tasks, three kinds of changes between them (sound, red, a BLOCKED note), two of a task at once, an agent that files the second task, one fix attempt, a night ends at its first failure or rate limit, one fault; nights repeat | work kept, failed work rolled back, done work gated, verdicts final, nights used |
| `runner_night` | two tasks, one of which gets work, an agent that puts its task back, two failures or two rate limits end a night, one fault; fairness | nights end |

Why the bounds are enough. Two workers and two jobs give every race over a row (select before update,
a row inserted between) and every order claim; one fault of each kind can hit the same job one after
the other. Two samples and two configurations are the least in which a file can mix or lose
something; three sessions allow finish, interrupt, resume. Three claims in batches of two have a full
and a short batch, two runs can tie, three are the least with a majority against a dissent and with a
three-way tie.
Two days and two faults let the second day meet what a failed or killed first one left, and fail
itself. Five samples are the least with both classes in both halves and one row to spare. Three words
and two findings let one merged span cover parts of two labels, and one label meet two findings. Two tasks let the
remains of one meet the base of the next; one fault cuts a run short anywhere; two changes of a task let an
agent commit one and leave the other. The task runner has two instances:
work, kinds of changes and attempts are what endangers the branch, the patch and the files; counters, cooldowns and a refilled
queue are what keeps a night going. No instance of the runner has a smelly change: the gates treat it as they treat a note, the
rollback as a red one; the proofs cover it. What holds by
counting alone is proved (section 5) for any sizes.

`CHECK_DEADLOCK FALSE` is set where the program ends: no more submissions and an idle or exited
worker, a finished session, evaluation, day or report. The task runner never stops: a supervisor may
always be started, and cron calls.

The violation runs keep all other properties out of their configurations, so what TLC finds is what the finding
says. Types are a theorem where a module has a `TypeCorrect`, part of the inductive invariant elsewhere; the
runs leave them to the proofs.

## 4. Fairness

Runs of safety properties alone assume none. `service` assumes weak fairness of each worker's loop, of its
shutdown, of its restart (compose's restart policy) and of each task's steps: asyncio runs ready
tasks, an evaluation ends because every request has a timeout and every retry loop a counter (checked
in `MetricEvaluation`, and proved to be used up by every step), and a database answers. It does not assume that
anyone submits, stops or fails. Strong fairness is not needed: a worker that loses a claim loses it to
another that made progress. `judge_pipeline` assumes that the one coroutine goes on. `runner_night` assumes
weak fairness of the runner's own steps, of the supervisor and of the clock (a cooldown passes): scripts run. Nothing is
assumed of the agent, of `make check`, of an orphan, of cron or of faults. `codex exec` has a limit only if somebody sets
`TASK_TIMEOUT` (the default is 0, and neither the supervisor nor the crontab sets it), and the gates have none, so an agent or a
check that hangs keeps the lock and the night for ever. `NightEnds` therefore has three premises and says what the
supervisor adds to them: agents and checks end (`AgentsEnd`), trouble goes (`TroubleGoes`), and from some time on
no agent puts a task back into the queue (`QueueIsNotRefilled`). Each is needed: without the second, commits and moves of files
may fail and the task be done again for ever; without the third, the agent of one task brings back the other. With
them a night ends, because each turn of the supervisor's loop moves a task out of `tasks/todo`, adds to
one of its counters, or is the last.

## 5. Proofs

TLAPS checks, for every value of the constants that the modules' `ASSUME`s allow:

- **EvaluationServiceProofs** (from `ServiceAssumption`: finitely many jobs, at least one slot and one
  attempt, any numbers of workers and faults). The type invariant, every safety property of
  `service`, that what got 202 is stored, finality of settled jobs and the refinement of
  `JobLifecycle`. The properties alone are not inductive: `PostInv` relates a POST's
  phase to its row, `CandInv` says that a claim's candidate exists and has no task yet, `HoldInv` relates rows
  to holders, `OrderInv` says of a selected candidate that nothing it must wait for is queued, `CallsInv` ties the
  evaluations counted for a job to the attempt of the task that holds it, which is the only one because of
  `HoldInv`. `PermitsConserved` counts tasks (the library's theorems about finite sets): `PermitInv` adds that a stopped
  worker has no tasks, without which a restart would mint permits, and `CandInv` that a claim starts a task
  which was not there, without which a task would have no slot of its own.
- **BenchRunProofs** (from `BenchAssumption`). The types and all five properties of `bench_safety`. `RewriteInv` says when
  rows are out of the file, `UniqueInv` that samples still to do have no row, `CoverInv` that
  every drawn sample is done, to do or swallowed, `SessionInv` what a session knows of its file, `ConfInv`
  that rows agree with the session or the manifest, `ShaInv` that every commit is in the manifest,
  the session's or `unrecorded`.
- **MetricEvaluationProofs** (from `EvaluationAssumption` and `CallAssumption`). Types, POSTs per question, the cost of
  an evaluation, alignment of every run with the claims, plurality of the vote for any number of runs, and the
  score. `CallInv` bounds a question's cost by its two counters, `InTurn` says which metric may ask, `Untouched` that
  nothing is recorded before verification starts, `Progress` that the current run covers the claims before the
  batch, `VotedOnAll` that verdicts are a vote over all runs, `Scored` that the score was computed from them;
  alignment (`RunsLineUp`) is itself inductive with them. Faithfulness runs once, however often it is selected,
  so what it left stays what its result was computed from. The cost needs `CostInv`: the questions asked so far are
  bounded by the stage, the finished runs and the batches verified in the current one, and as many batches of
  `BatchSize` as there are (a rounded-up quotient) cover the claims.
  Termination is proved as an action property, `EveryStepCounts`: each step lowers the tuple `Left` lexicographically
  (metrics, phase, runs, claims, second request, completions, POSTs, answer), and its eight counters stay natural
  numbers by `TermInv` (no question between metrics, no run or batch beyond the last). That such a descent is finite
  is the one step to `EvaluationEnds` that is not machine-checked, with the fairness that makes steps happen.
- **TaskRunnerProofs** (from `RunnerAssumption`: finitely many tasks, any changes, moves, limits and number of faults).
  The types and all five properties of `task_runner`, with every command that may fail. The
  invariant follows a task through the three copies of the repository: `AtRest` says that a task which is not running,
  was never cut short and whose file no stray agent has moved is the same in tree, HEAD and base, sound if done and at most a
  note if it needs review; `InHand` that the base of
  the running task knows nothing of it, so that resetting to the base removes all of it; `FiledInOrder` and
  `Booked` that a file leaves `tasks/todo` in the tree first and in a base last, so that no reset brings it back;
  `DoneIsGreen` that a done task's work is green in every copy, since `make check` sees the whole tree;
  `Undisturbed` that an exit code 3 without a cooldown means an empty queue. While an agent is at work it may move any
  file, so until the verdict only the base is trusted with the places of the files (`Unsettled`): the gates or the rollback bring
  tree and HEAD back to it, and a run that ends before them adds what is astray to `moved`. `Progress` says that a patch that was
  written whole is the difference to the base, from which `NothingLost` follows for a reset that fails halfway too: it keeps
  what the base has. Without `cutShort` `AtRest` is false: what a killed, rate-limited or not rolled back run leaves is
  part of the next base.

- **ExperimentDayProofs** (from `DayAssumption`, `FaultsAssumption`: any models, settings, plans, days and faults). The
  types, the four invariants of `experiment_day` and an action property, `SettingsStay`: no step of any day changes the
  manifest beside existing rows. `ManifestsAgree` says that a manifest is never without rows, which is why the resume
  check of a leg sees the settings of every row it would add to, and that the legs done so far have the plan's
  settings; `ScoresAreMasked` that a model with an F1 in the primary matrix has a masked leg there, so that the best
  model is not chosen from an ablation; `SubjectIsChosenLate` that it is chosen after the primary matrix;
  `ReportIsOfToday` walks through the gates and says which files are of today at each of them, or by which failed or
  skipped step they are excused; `FailuresAreKept` that the deployment check forgets no failure on its way down.
- **AnalysisProofs** (from `AnalysisAssumption`: any datasets, requests, files, thresholds, halves and shapes; a run id is not
  `None`). All five properties of `analysis`. The invariant is short: the files are those of the draw (`FilesAreOfTheDraw`),
  and what is reported was computed from them (`Unreported` or `Reported`). The theorems are about the operators: files of
  two runs never share a series, as the label then carries the run; a change of score in the reporting half leaves the
  counts of the other half, hence the threshold; each class of the reporting half is split by its calls; two series
  share what both have scored. `DrawBalanced` has an invariant of its own, `DrawnAsAsked`, and is arithmetic: the shares
  rounded down and the remainders add up to the limit (`QuotasAddUp`), and a stratum that lost nothing gets no
  sample more (`OnlyLostIsMadeUp`: each stratum lost less than one sample, so more strata lost something than there
  are samples to make up), so that no quota exceeds its stratum and none is a whole sample away from its share.
- **PrivacyProofs** (from `SanitizerAssumption`: any texts and words, and an analyzer that may return any list of spans).
  The three properties of the privacy layer. `BatchIsScanned` says that the spans to mask are in order, disjoint and
  cover exactly what a finding in the text covers (a fact about the merge, carried along its steps);
  `NumbersAreCounted` that the map of placeholders is finite; `PastIsNamed` that every span passed so
  far has its placeholder; `MaskedIsLast` that masking starts when no span is left. A free number
  exists because finitely many tokens are taken. That the masked text says exactly the rest is shown from the last span
  to the first: what is behind the span replaced last has been rewritten, what is before it is as it came.
- **PrivacyProofs**, second half (from `TemplateAssumption` besides: finitely many entity types, markers that are no token
  of a text, and slots in the order of their markers, as all 73 templates of the corpus have them). Both properties of the
  privacy evaluation, for every document and whatever the analyzer finds in it. The invariant is that of the sanitizer, since
  `BatchIsScanned` makes the detections a list of disjoint spans in order (`Neat`); the labels are one too, by a walk along
  `_Template.build` (`Filled`: up to the last label the text is final, from there on it is the rest of the template, so
  the next marker is found where the template has it). Two such lists cannot cross: what hits a later label
  comes later itself (`EdgesDoNotCross`). Then the first label a candidate hits is the best choice (`GreedyIsBest` in
  `FoldTheorems`): after every candidate and for every i, no pairing of the candidates so far with the first i labels is larger
  than what the loop has taken among these. Stated for all labels only, without the prefixes, it is not inductive. `Accounts` is the
  book the loop keeps: each label is missed or in exactly one pair, each candidate is spurious or in one, and a candidate that
  hits a label still missed was spent on another. The rows of the table and `MissesAreExposed` follow from it.
- **FoldTheorems**. What `FoldLeft`, `FlattenSeq` and `MapThenSumSet` of the community modules compute. They are recursive
  functions over subsets; the induction that the library states with an operator parameter is done by the least
  counterexample (`NatLessThanWellFounded`), for sets of numbers and sets by size. Besides: the place of a member in a
  linear order is a bijection (used for the sort and for the first n of a draw), counting by key adds up, and a greedy
  pairing of two lists that do not cross is a largest one.

Only model-checked: everything temporal with fairness (`AcceptedIsSettled`, `StopCompletes`, `EvaluationEnds`,
`NightEnds`), which is out of the prover's reach; of the third, `EvaluationRunsDown` is the proved half. Every invariant and every action property a passing run checks is a theorem.

## 6. Findings

1. *A stop can lose a claimed job* (`service_drain`, `service/worker.py:76`). A cancellation between the claim's
   commit and the creation of the task leaves a row that stays `running` for ever, although the process
   was shut down in an orderly way and `aclose` is documented to drain what was in flight.
2. *A first run that is killed cannot be resumed* (`bench_resume`, `bench/run.py:461`). The manifest is written last and a
   resume without one is refused; README 280-282 promises that an interrupted run continues.
3. *Preflight looks into the wrong directory* (`experiment_gate`, `bench/campaign.py:219`). It checks `rows/<tag>`, the legs write to
   `rows/slm-<tag>`; incompatible rows of an earlier day are met only after the matrix has begun.
4. *Unscored samples count as errors* (`analysis_errors`, `bench/errors.py:98`). The guards test for `None`, the data frame has
   made it NaN.

Seen while modelling, without a run of their own: the deployment check reads `id` where the service
answers `job_id` (`deployment.py:136`), so it fails on a healthy stack; the embedded poll loop ends at
its first database error while the API goes on accepting (`api.py:111`); the early returns of
`run_deployment_check` skip the transcript its caller points to; the campaign log is written at the
end, not "as it goes" (RUNBOOK 43); a missing `--include-rows` file is noticed after all legs have run; a
failed error analysis leaves an older file that the bundle lists as present; rows without a manifest are pooled
with the one run of the same judge that has one; the ablation pairs runs by judge, model and dataset, so
other settings may differ too. An empty rows file skips the resume check and leaves an old manifest in place
(`run.py:108`), so a second kill can leave one file with rows of two configurations; `OneConfiguration`
says what remains true. `errors.py` joins rows to samples by id alone, without the dataset.

Of the privacy report: "every false negative is PII that would have reached the judge" (`evaluation.py:229`) is
false of a label that a merged span covers but that was counted for its neighbour, and a label of
which only a part was masked counts as caught; with `--typed` the table and the list of misses use different
matchings; "offsets cannot drift" (`fixtures.py`, `_Template.build`) holds of slots in the order of the text, as all
templates have them.

Of the task runner, whose header (11-27) promises that all gates must pass for `tasks/done/`, that failed work is saved as
a patch and that the tree is rolled back to the base. Each exception is a variable in the properties; without it TLC refutes
the property on an instance that has the changes in question:

- `git add` and the diff that writes the patch are followed by `|| true` (`run_next_task.sh:322`); when one fails, the tree
  is reset and new files are removed all the same, and line 336 logs the work as saved (`saved` in `NoWorkIsLost`);
- `git reset` is followed by `|| true` too (324); when it fails, the task is filed and booked with whatever is in the
  tree, and the next task starts from that (`cutShort` in `FailedWorkIsRolledBack`);
- at a rate limit the partial work is committed (277) and becomes part of the next run's base, and so does what a kill leaves; the
  smell and BLOCKED checks read `git diff BASE` and do not see it (`cutShort` in `DoneWasGated`, which says what remains: the work
  is green in the whole tree);
- an agent that moves a task file behind the back of a run (after a kill, or before a rate limit) is found by no gate (`moved`).

Besides: a cooldown that expires while the gates still run makes the supervisor take the exit code for an
idle queue (`run_overnight.sh:79`; `NightIsUsed` counts that night as disturbed); a verdict `needs-review` does not
reset the count of cooldowns documented as "in a row"; a runner that ends with an error counts as a failed task (its exit
code is 1 too); the smell check reads `git diff`, so a skip or a
`type: ignore` in a new file that is not committed passes it (such a change is sound in the model).

## 7. Not modelled

Reproduction, resource sampling, environment report, dataset parsing, download and the lock's digests, command
line, demo, dashboard, service logging, settings: I/O, presentation or pure data. Of the analysis: the value of
kappa, ROC, correlations, bootstrap, cost, figures and tables (floating point and layout). Of the privacy evaluation: the
templates themselves and the rates. Of the task runner: the cross-review, the push and the quota probe, which
change nothing the runner reads. Two sessions of the benchmark over one directory at once (`run.py:384`): nothing in the
code locks it, so nothing can be promised. Presidio, the judge, git, Docker and the agent appear as whatever they may answer.

## 8. Plan

In order of importance.

1. Service: `JobLifecycle`, `EvaluationService`, proofs, refinement. *(done, the permits by counting included)*
2. Benchmark runner: `BenchRun`, proofs. *(done)*
3. Judge pipeline: `JudgeCall`, `MetricEvaluation`, `Sanitizer`, proofs. *(done)*
4. Experiment day and analysis: `DeploymentCheck`, `ExperimentDay`, `Sampling`, `Analysis` with agreement and error
   rates, proofs. *(done)*
5. Task runner: `TaskRunner`, proofs. *(done)*
6. Privacy evaluation: greedy matching against an optimal one, misses against what was exposed, proofs. *(done)*
7. Action properties of the analysis chain; the counterpart of `ErrorsAddUp` under the guard the code should have.
8. The dataset lock: `JudgesAreComparable` over versions of the data; reproduction.
