------------------------------ MODULE BenchRun ------------------------------
(***************************************************************************)
(* The benchmark runner's files over a series of sessions: every session   *)
(* of bench.run appends one row per sample to the rows file, skips samples *)
(* that already have one, may first drop the failed ones, and writes the   *)
(* manifest at its very end. The manifest of the last finished session is  *)
(* all that a later one can check before it appends to the same file.      *)
(*                                                                         *)
(* The rows file is modelled by what read_rows sees in it, plus the two    *)
(* things it does not: an unterminated last line and unparseable ones.     *)
(* Sessions do not overlap; a session may be killed at any point, the      *)
(* middle of a write included. The judge's answers, the order in which the *)
(* samples are drawn and the wording of rows are left out.                 *)
(***************************************************************************)
EXTENDS Naturals, FiniteSets

CONSTANTS
    Samples,     \* sample ids of the dataset
    Limits,      \* values of --limit that are used
    Draw,        \* Draw[l]: the samples load() returns for --limit l
    Configs,     \* run identities with their environments
    Budget,      \* how often each kind of event may occur
    NoManifest,  \* the manifest file does not exist
    Unparsable   \* a manifest file that was cut off

EventKinds == {"session", "crash", "delete", "commit"}

Row == [sample : Samples, failed : BOOLEAN, conf : Configs, code : Nat]
Manifest == [conf : Configs, limit : Limits, shas : SUBSET Nat]

ASSUME BenchAssumption ==
    /\ IsFiniteSet(Samples)
    /\ Draw \in [Limits -> SUBSET Samples]
    /\ Budget \in [EventKinds -> Nat]
    /\ NoManifest \notin Manifest
    /\ Unparsable \notin Manifest
    /\ NoManifest # Unparsable

VARIABLES
    rows,        \* the rows read_rows finds in the file
    loose,       \* the row of a complete last line that lacks its newline
    torn,        \* the last line is a fragment that lacks its newline
    junk,        \* some terminated line does not parse
    manifest,    \* the manifest file
    pc,          \* where run_benchmark is
    run,         \* the session's arguments and what it read from its files
    todo,        \* samples its loop has still to score
    kept,        \* rows it is about to write back
    wrote,       \* samples_written > 0
    head,        \* the commit checked out
    outcome,     \* how the last session ended (history)
    swallowed,   \* its samples whose rows were lost to a torn line (history)
    stale,       \* the rows were begun beside another run's manifest (history)
    unrecorded,  \* commits whose sessions wrote no manifest (history)
    budget       \* events that may still occur

file == <<rows, loose, torn, junk>>
history == <<swallowed, stale, unrecorded>>
vars == <<file, manifest, pc, run, todo, kept, wrote, head, outcome, history,
          budget>>

Phases == {"idle", "drop", "rewrite", "open", "score"}
Outcomes == {"none", "refused", "crashed", "finished"}

Session == [conf : Configs, limit : Limits, retry : BOOLEAN, fresh : BOOLEAN,
            code : Nat]

TypeOK ==
    /\ rows \subseteq Row
    /\ loose \subseteq rows
    /\ torn \in BOOLEAN
    /\ junk \in BOOLEAN
    /\ manifest \in Manifest \cup {NoManifest, Unparsable}
    /\ pc \in Phases
    /\ run \in Session
    /\ todo \subseteq Samples
    /\ kept \subseteq Row
    /\ wrote \in BOOLEAN
    /\ head \in Nat
    /\ outcome \in Outcomes
    /\ swallowed \subseteq Samples
    /\ stale \in BOOLEAN
    /\ unrecorded \subseteq Nat
    /\ budget \in [EventKinds -> Nat]

Init ==
    /\ rows = {} /\ loose = {} /\ torn = FALSE /\ junk = FALSE
    /\ manifest = NoManifest
    /\ pc = "idle"
    /\ \E c \in Configs, l \in Limits :
        run = [conf |-> c, limit |-> l, retry |-> FALSE, fresh |-> TRUE,
               code |-> 0]
    /\ todo = {} /\ kept = {} /\ wrote = FALSE
    /\ head = 0
    /\ outcome = "none"
    /\ swallowed = {} /\ stale = FALSE /\ unrecorded = {}
    /\ budget = Budget

Spend(kind) ==
    /\ budget[kind] > 0
    /\ budget' = [budget EXCEPT ![kind] = @ - 1]

(***************************************************************************)
(* Starting a session: check_resume_compatibility.                         *)
(***************************************************************************)

\* The rows file does not exist or has no bytes.
FileEmpty == rows = {} /\ ~torn /\ ~junk

\* Mutant: the manifest only has to exist.
AnyManifest(c) == manifest \in Manifest

\* The manifest parses and names the same run identity and environment.
Resumable(c) == manifest \in Manifest /\ manifest.conf = c

Refuse(c) ==
    /\ pc = "idle"
    /\ Spend("session")
    /\ ~FileEmpty
    /\ ~Resumable(c)
    /\ outcome' = "refused"
    /\ UNCHANGED <<file, manifest, pc, run, todo, kept, wrote, head, history>>

\* On an empty file nothing is compared, whatever the manifest says.
Begin(c, l, retry) ==
    /\ pc = "idle"
    /\ Spend("session")
    /\ FileEmpty \/ Resumable(c)
    /\ run' = [conf |-> c, limit |-> l, retry |-> retry, fresh |-> FileEmpty,
               code |-> head]
    /\ pc' = IF retry THEN "drop" ELSE "open"
    /\ outcome' = "none"
    /\ swallowed' = {}
    /\ stale' = IF FileEmpty THEN manifest \in Manifest /\ manifest.conf # c
                ELSE stale
    /\ UNCHANGED <<file, manifest, todo, kept, wrote, head, unrecorded>>

(***************************************************************************)
(* --retry-failed: drop_failed_rows.                                       *)
(***************************************************************************)

Failed == {r \in rows : r.failed}

\* Mutant: the filter is the wrong way round.
OnlyFailed == {r \in rows : r.failed}

Scored == {r \in rows : ~r.failed}

\* Opening the file for writing empties it; with nothing to retry it is left
\* alone, a torn last line included.
DropFailed ==
    /\ pc = "drop"
    /\ \/ /\ Failed # {}
          /\ kept' = Scored
          /\ rows' = {} /\ loose' = {} /\ torn' = FALSE /\ junk' = FALSE
          /\ pc' = "rewrite"
       \/ /\ Failed = {}
          /\ pc' = "open"
          /\ UNCHANGED <<file, kept>>
    /\ UNCHANGED <<manifest, run, todo, wrote, head, outcome, history, budget>>

WriteBack ==
    /\ pc = "rewrite"
    /\ rows' = kept
    /\ kept' = {}
    /\ pc' = "open"
    /\ UNCHANGED <<loose, torn, junk, manifest, run, todo, wrote, head,
                   outcome, history, budget>>

(***************************************************************************)
(* The loop over the samples.                                              *)
(***************************************************************************)

\* Mutant: samples with a failed row are scored again without dropping it.
AlreadyScored == {r.sample : r \in Scored}

\* completed_sample_ids: a failed row counts.
AlreadyDone == {r.sample : r \in rows}

Open ==
    /\ pc = "open"
    /\ todo' = Draw[run.limit] \ AlreadyDone
    /\ wrote' = FALSE
    /\ pc' = "score"
    /\ UNCHANGED <<file, manifest, run, kept, head, outcome, history, budget>>

\* evaluate_sample's row, or failure_row's when it raised.
RowOf(s, failed) ==
    [sample |-> s, failed |-> failed, conf |-> run.conf, code |-> run.code]

Terminated == ~torn /\ loose = {}

\* Mutant: a sample that raises leaves no row.
ScoreOnlySuccess(s, failed) ==
    /\ pc = "score"
    /\ s \in todo
    /\ Terminated
    /\ rows' = IF failed THEN rows ELSE rows \cup {RowOf(s, failed)}
    /\ todo' = todo \ {s}
    /\ wrote' = (wrote \/ ~failed)
    /\ UNCHANGED <<loose, torn, junk, manifest, pc, run, kept, head, outcome,
                   history, budget>>

Score(s, failed) ==
    /\ pc = "score"
    /\ s \in todo
    /\ Terminated
    /\ rows' = rows \cup {RowOf(s, failed)}
    /\ todo' = todo \ {s}
    /\ wrote' = (wrote \/ ~failed)
    /\ UNCHANGED <<loose, torn, junk, manifest, pc, run, kept, head, outcome,
                   history, budget>>

\* The append continues an unterminated line: neither what was there nor the
\* new row parses any more, and the line is now terminated.
ScoreOntoTornLine(s, failed) ==
    /\ pc = "score"
    /\ s \in todo
    /\ ~Terminated
    /\ rows' = rows \ loose
    /\ loose' = {} /\ torn' = FALSE /\ junk' = TRUE
    /\ swallowed' = swallowed \cup {s} \cup {r.sample : r \in loose}
    /\ todo' = todo \ {s}
    /\ wrote' = (wrote \/ ~failed)
    /\ UNCHANGED <<manifest, pc, run, kept, head, outcome, stale, unrecorded,
                   budget>>

(***************************************************************************)
(* The end of a session.                                                   *)
(***************************************************************************)

\* Mutant: the commits of earlier sessions are not carried over.
OwnSha == IF wrote THEN {head} ELSE {}

\* git_sha is asked after the last row, not before the first.
ContributingShas ==
    (IF run.fresh THEN {} ELSE manifest.shas)
    \cup (IF wrote THEN {head} ELSE {})

Finish ==
    /\ pc = "score"
    /\ todo = {}
    /\ manifest' = [conf |-> run.conf, limit |-> run.limit,
                    shas |-> ContributingShas]
    /\ pc' = "idle"
    /\ outcome' = "finished"
    /\ stale' = (stale /\ ~run.fresh)
    /\ unrecorded' = unrecorded \cup (IF wrote THEN {run.code} \ {head} ELSE {})
    /\ UNCHANGED <<file, run, todo, kept, wrote, head, swallowed, budget>>

\* The session is killed; what it had not written is forgotten.
Die ==
    /\ Spend("crash")
    /\ pc' = "idle"
    /\ outcome' = "crashed"
    /\ todo' = {} /\ kept' = {} /\ wrote' = FALSE
    /\ unrecorded' = IF pc = "score" THEN unrecorded \cup {run.code}
                     ELSE unrecorded
    /\ UNCHANGED <<run, head, stale>>

CrashBetweenWrites ==
    /\ pc \in {"drop", "open", "score"}
    /\ Die
    /\ UNCHANGED <<file, manifest, swallowed>>

\* Part of the rows has reached the disk, the last one perhaps in part.
CrashInRewrite ==
    /\ pc = "rewrite"
    /\ Die
    /\ rows' \in SUBSET kept
    /\ \/ loose' = {} /\ torn' \in (IF rows' = kept THEN {FALSE} ELSE BOOLEAN)
       \/ torn' = FALSE /\ \E r \in rows' : loose' = {r}
    /\ UNCHANGED <<junk, manifest, swallowed>>

\* Part of a row's line has reached the disk: a fragment, or all but the
\* newline. After an unterminated line both are fragments.
CrashInAppend(s, failed) ==
    /\ pc = "score"
    /\ s \in todo
    /\ Die
    /\ \/ /\ torn' = TRUE
          /\ rows' = rows \ loose
          /\ loose' = {}
          /\ swallowed' = swallowed \cup {r.sample : r \in loose}
       \/ /\ Terminated
          /\ rows' = rows \cup {RowOf(s, failed)}
          /\ loose' = {RowOf(s, failed)}
          /\ UNCHANGED <<torn, swallowed>>
    /\ UNCHANGED <<junk, manifest>>

CrashInManifest ==
    /\ pc = "score"
    /\ todo = {}
    /\ Die
    /\ manifest' = Unparsable
    /\ UNCHANGED <<file, swallowed>>

(***************************************************************************)
(* Between sessions.                                                       *)
(***************************************************************************)

\* What the refusal advises: "or delete {rows_path}".
DeleteRows ==
    /\ pc = "idle"
    /\ Spend("delete")
    /\ rows' = {} /\ loose' = {} /\ torn' = FALSE /\ junk' = FALSE
    /\ outcome' = "none"
    /\ UNCHANGED <<manifest, pc, run, todo, kept, wrote, head, history>>

\* The checkout moves, perhaps while a session is running the older code.
Commit ==
    /\ Spend("commit")
    /\ head' = head + 1
    /\ UNCHANGED <<file, manifest, pc, run, todo, kept, wrote, outcome,
                   history>>

------------------------------------------------------------------------------
Next ==
    \/ \E c \in Configs : Refuse(c)
    \/ \E c \in Configs, l \in Limits, retry \in BOOLEAN : Begin(c, l, retry)
    \/ DropFailed \/ WriteBack \/ Open \/ Finish
    \/ \E s \in Samples, failed \in BOOLEAN :
        Score(s, failed) \/ ScoreOntoTornLine(s, failed)
    \/ CrashBetweenWrites \/ CrashInRewrite \/ CrashInManifest
    \/ \E s \in Samples, failed \in BOOLEAN : CrashInAppend(s, failed)
    \/ DeleteRows \/ Commit

Spec == Init /\ [][Next]_vars

------------------------------------------------------------------------------
(***************************************************************************)
(* Properties.                                                             *)
(***************************************************************************)

\* drop_failed_rows: "keeps exactly one row per sample". No series of
\* interrupted, extended and retried sessions gives a sample a second row.
OneRowPerSample ==
    \A r, q \in rows : r.sample = q.sample => r = q

\* run_identity: the rows of a file can all be attributed to one
\* configuration, and it is the manifest's once a session has finished,
\* unless the rows were begun beside the manifest of another run.
OneConfiguration ==
    ~stale =>
        /\ \A r, q \in rows : r.conf = q.conf
        /\ outcome = "finished" => \A r \in rows : r.conf = manifest.conf

\* failure_row: a sample must not vanish from the file. A finished session
\* has a row for every sample it was asked for, whatever earlier sessions
\* left, but for those whose line was appended to an unterminated one.
FinishedCoversDraw ==
    outcome = "finished" =>
        \A s \in Draw[manifest.limit] :
            s \in swallowed \/ \E r \in rows : r.sample = s

\* "Every commit whose rows are in this file" is in git_shas, over any number
\* of resumes, but for the commits of sessions that were killed or overtaken
\* by a commit while they ran.
GitShasCoverRows ==
    outcome = "finished" =>
        \A r \in rows : r.failed \/ r.code \in manifest.shas \cup unrecorded

\* The rows that survive if the session goes on.
Durable == IF pc = "rewrite" THEN kept ELSE rows

\* A row that was written stays, through every resume: only an explicit retry
\* drops a row, and then a failed one; a kill while the file is being
\* rewritten, an unterminated line and the operator are the only other ways.
RowsAreKept ==
    [][\A r \in Durable :
        \/ r \in Durable'
        \/ r.failed /\ pc = "drop" /\ run.retry
        \/ r \in loose
        \/ pc = "rewrite" /\ outcome' = "crashed"
        \/ pc = "idle"]_vars

\* README: "an interrupted 200-sample run continues where it stopped".
InterruptedRunContinues ==
    outcome = "crashed" => FileEmpty \/ Resumable(run.conf)
=============================================================================
