---------------------------- MODULE BenchRunProofs ----------------------------
(***************************************************************************)
(* Safety of the benchmark runner's files for any finite set of samples,   *)
(* any draws and configurations, and any number of sessions, kills,        *)
(* deletions and commits.                                                  *)
(*                                                                         *)
(* What has to be carried from step to step is the relation between the    *)
(* three things that are written at different times: the rows, the         *)
(* manifest, and what the running session read of both when it began.      *)
(***************************************************************************)
EXTENDS BenchRun, TLAPS

\* Rows that are being written back, and nothing else, are out of the file.
RewriteInv ==
    /\ pc # "rewrite" => kept = {}
    /\ pc = "rewrite" => rows = {} /\ loose = {} /\ ~torn /\ ~junk
    /\ pc \in {"drop", "rewrite"} => run.retry
    /\ outcome = "finished" => pc = "idle" /\ manifest \in Manifest

\* A sample has at most one row, and none while it is still to be scored.
UniqueInv ==
    /\ OneRowPerSample
    /\ \A r, q \in kept : r.sample = q.sample => r = q
    /\ pc = "score" => \A s \in todo, r \in rows : r.sample # s

\* Every sample of the draw is to be scored, swallowed, or in the file.
CoverInv ==
    /\ pc = "score" =>
           \A s \in Draw[run.limit] :
               s \in todo \/ s \in swallowed \/ \E r \in rows : r.sample = s
    /\ FinishedCoversDraw

\* What a session that appends knows of the manifest, and one that began on
\* an empty file of its rows.
SessionInv ==
    pc # "idle" =>
        /\ ~run.fresh => Resumable(run.conf)
        /\ ~stale /\ manifest \in Manifest => manifest.conf = run.conf
        /\ run.fresh /\ pc # "score" => rows = {} /\ kept = {}
        /\ run.fresh /\ pc = "score" =>
               \A r \in rows :
                   /\ r.conf = run.conf
                   /\ r.failed \/ (wrote /\ r.code = run.code)

\* Between sessions the manifest speaks for the rows, during one the session
\* does, unless the rows were begun beside the manifest of another run.
ConfInv ==
    ~stale =>
        /\ pc # "idle" => \A r \in rows \cup kept : r.conf = run.conf
        /\ pc = "idle" /\ manifest \in Manifest =>
               \A r \in rows : r.conf = manifest.conf
        /\ \A r, q \in rows : r.conf = q.conf

\* The commit of a scored row is known: from the manifest, from the session
\* that is running, or as that of a session without a manifest.
Known(r) ==
    \/ r.failed
    \/ r.code \in unrecorded
    \/ manifest \in Manifest /\ r.code \in manifest.shas
    \/ pc = "score" /\ wrote /\ r.code = run.code

ShaInv ==
    \/ manifest = Unparsable /\ pc = "idle"
    \/ \A r \in rows \cup kept : Known(r)

IInv ==
    /\ TypeOK
    /\ RewriteInv
    /\ UniqueInv
    /\ CoverInv
    /\ SessionInv
    /\ ConfInv
    /\ ShaInv

(***************************************************************************)
(* Each part is preserved by every step.                                   *)
(***************************************************************************)

LEMMA InitIInv == Init => IInv
<1> SUFFICES ASSUME Init PROVE IInv
  OBVIOUS
<1> USE DEF Init
<1>1. TypeOK
  <2>1. run \in Session BY DEF Session
  <2>2. budget \in [EventKinds -> Nat] BY BenchAssumption
  <2> QED BY <2>1, <2>2 DEF TypeOK, Phases, Outcomes
<1>2. RewriteInv /\ UniqueInv /\ CoverInv
  BY DEF RewriteInv, UniqueInv, CoverInv, OneRowPerSample, FinishedCoversDraw
<1>3. SessionInv /\ ConfInv /\ ShaInv
  BY DEF SessionInv, ConfInv, ShaInv
<1> QED BY <1>1, <1>2, <1>3 DEF IInv

LEMMA RowOfType ==
  TypeOK => \A s \in Samples, failed \in BOOLEAN : RowOf(s, failed) \in Row
  BY DEF TypeOK, RowOf, Row, Session

LEMMA SpendType ==
  TypeOK => \A kind \in EventKinds :
                Spend(kind) => budget' \in [EventKinds -> Nat]
  BY DEF TypeOK, Spend

LEMMA DieType ==
  ASSUME TypeOK, Die
  PROVE  /\ pc' \in Phases /\ run' \in Session /\ todo' \subseteq Samples
         /\ kept' \subseteq Row /\ wrote' \in BOOLEAN /\ head' \in Nat
         /\ outcome' \in Outcomes /\ stale' \in BOOLEAN
         /\ unrecorded' \subseteq Nat /\ budget' \in [EventKinds -> Nat]
<1>1. budget' \in [EventKinds -> Nat]
  BY SpendType DEF Die, EventKinds
<1>2. run.code \in Nat
  BY DEF TypeOK, Session
<1> QED BY <1>1, <1>2 DEF TypeOK, Die, Phases, Outcomes

LEMMA FinishType ==
  ASSUME TypeOK, SessionInv, Finish
  PROVE  manifest' \in Manifest
<1>1. ContributingShas \subseteq Nat
  BY DEF TypeOK, Finish, ContributingShas, SessionInv, Resumable, Manifest
<1> QED BY <1>1 DEF TypeOK, Finish, Manifest, Session

\* Every variable keeps its type.
LEMMA TypePreserved ==
  TypeOK /\ RewriteInv /\ SessionInv /\ [Next]_vars => TypeOK'
<1> SUFFICES ASSUME TypeOK, RewriteInv, SessionInv, [Next]_vars
             PROVE  TypeOK'
  OBVIOUS
<1> USE DEF vars, file, history, TypeOK, Phases, Outcomes, EventKinds
<1>1. ASSUME NEW c \in Configs, Refuse(c)
      PROVE  TypeOK'
  BY <1>1, SpendType DEF Refuse
<1>2. ASSUME NEW c \in Configs, NEW l \in Limits,
             NEW retry \in BOOLEAN, Begin(c, l, retry)
      PROVE  TypeOK'
  <2>1. run' \in Session BY <1>2 DEF Begin, Session, FileEmpty
  <2>2. budget' \in [EventKinds -> Nat] BY <1>2, SpendType DEF Begin
  <2> QED BY <1>2, <2>1, <2>2 DEF Begin
<1>3. CASE DropFailed
  BY <1>3 DEF DropFailed, Scored
<1>4. CASE WriteBack
  BY <1>4 DEF WriteBack, RewriteInv
<1>5. CASE Open
  BY <1>5, BenchAssumption DEF Open, Session
<1>6. CASE Finish
  <2>2. manifest' \in Manifest BY <1>6, FinishType
  <2>3. unrecorded' \subseteq Nat BY <1>6 DEF Finish, Session
  <2>4. stale' \in BOOLEAN BY <1>6 DEF Finish
  <2> QED BY <1>6, <2>2, <2>3, <2>4 DEF Finish
<1>7. ASSUME NEW s \in Samples, NEW failed \in BOOLEAN, Score(s, failed)
      PROVE  TypeOK'
  BY <1>7, RowOfType DEF Score
<1>8. ASSUME NEW s \in Samples, NEW failed \in BOOLEAN, ScoreOntoTornLine(s, failed)
      PROVE  TypeOK'
  <2>1. {r.sample : r \in loose} \subseteq Samples BY DEF Row
  <2> QED BY <1>8, <2>1 DEF ScoreOntoTornLine
<1>9. CASE CrashBetweenWrites
  BY <1>9, DieType DEF CrashBetweenWrites
<1>10. CASE CrashInRewrite
  <2>1. rows' \subseteq Row /\ loose' \subseteq rows' /\ torn' \in BOOLEAN
    BY <1>10 DEF CrashInRewrite
  <2> QED BY <1>10, <2>1, DieType DEF CrashInRewrite
<1>11. CASE CrashInManifest
  BY <1>11, DieType DEF CrashInManifest
<1>12. ASSUME NEW s \in Samples, NEW failed \in BOOLEAN, CrashInAppend(s, failed)
      PROVE  TypeOK'
  <2>1. {r.sample : r \in loose} \subseteq Samples BY DEF Row
  <2>2. /\ rows' \subseteq Row /\ loose' \subseteq rows' /\ torn' \in BOOLEAN
        /\ swallowed' \subseteq Samples
    BY <1>12, <2>1, RowOfType DEF CrashInAppend
  <2> QED BY <1>12, <2>2, DieType DEF CrashInAppend
<1>13. CASE DeleteRows
  <2>1. budget' \in [EventKinds -> Nat] BY <1>13, SpendType DEF DeleteRows
  <2> QED BY <1>13, <2>1 DEF DeleteRows
<1>14. CASE Commit
  <2>1. budget' \in [EventKinds -> Nat] BY <1>14, SpendType DEF Commit
  <2> QED BY <1>14, <2>1 DEF Commit
<1>15. CASE UNCHANGED vars BY <1>15
<1> QED
  BY <1>1, <1>2, <1>3, <1>4, <1>5, <1>6, <1>7, <1>8, <1>9,
     <1>10, <1>11, <1>12, <1>13, <1>14, <1>15 DEF Next

\* Only DropFailed takes rows out of the file to write them back.
LEMMA RewritePreserved ==
  TypeOK /\ RewriteInv /\ SessionInv /\ [Next]_vars => RewriteInv'
<1> SUFFICES ASSUME TypeOK, RewriteInv, SessionInv, [Next]_vars
             PROVE  RewriteInv'
  OBVIOUS
<1> USE DEF vars, file, history, TypeOK, RewriteInv
<1>1. ASSUME NEW c \in Configs, Refuse(c)
      PROVE  RewriteInv'
  BY <1>1 DEF Refuse
<1>2. ASSUME NEW c \in Configs, NEW l \in Limits,
             NEW retry \in BOOLEAN, Begin(c, l, retry)
      PROVE  RewriteInv'
  BY <1>2 DEF Begin
<1>3. CASE DropFailed
  BY <1>3 DEF DropFailed
<1>4. CASE WriteBack
  BY <1>4 DEF WriteBack
<1>5. CASE Open
  BY <1>5 DEF Open
<1>6. CASE Finish
  BY <1>6, FinishType DEF Finish
<1>7. ASSUME NEW s \in Samples, NEW failed \in BOOLEAN, Score(s, failed)
      PROVE  RewriteInv'
  BY <1>7 DEF Score
<1>8. ASSUME NEW s \in Samples, NEW failed \in BOOLEAN, ScoreOntoTornLine(s, failed)
      PROVE  RewriteInv'
  BY <1>8 DEF ScoreOntoTornLine
<1>9. CASE CrashBetweenWrites
  BY <1>9 DEF CrashBetweenWrites, Die
<1>10. CASE CrashInRewrite
  BY <1>10 DEF CrashInRewrite, Die
<1>11. CASE CrashInManifest
  BY <1>11 DEF CrashInManifest, Die
<1>12. ASSUME NEW s \in Samples, NEW failed \in BOOLEAN, CrashInAppend(s, failed)
      PROVE  RewriteInv'
  BY <1>12 DEF CrashInAppend, Die
<1>13. CASE DeleteRows
  BY <1>13 DEF DeleteRows
<1>14. CASE Commit
  BY <1>14 DEF Commit
<1>15. CASE UNCHANGED vars BY <1>15
<1> QED
  BY <1>1, <1>2, <1>3, <1>4, <1>5, <1>6, <1>7, <1>8, <1>9,
     <1>10, <1>11, <1>12, <1>13, <1>14, <1>15 DEF Next

\* A row is added for a sample that has none, and only then.
LEMMA UniquePreserved ==
  TypeOK /\ RewriteInv /\ UniqueInv /\ [Next]_vars => UniqueInv'
<1> SUFFICES ASSUME TypeOK, RewriteInv, UniqueInv, [Next]_vars
             PROVE  UniqueInv'
  OBVIOUS
<1> USE DEF vars, file, history, TypeOK, RewriteInv, UniqueInv, OneRowPerSample
<1>1. ASSUME NEW c \in Configs, Refuse(c)
      PROVE  UniqueInv'
  BY <1>1 DEF Refuse
<1>2. ASSUME NEW c \in Configs, NEW l \in Limits,
             NEW retry \in BOOLEAN, Begin(c, l, retry)
      PROVE  UniqueInv'
  BY <1>2 DEF Begin
<1>3. CASE DropFailed
  BY <1>3 DEF DropFailed, Scored
<1>4. CASE WriteBack
  BY <1>4 DEF WriteBack
<1>5. CASE Open
  BY <1>5 DEF Open, AlreadyDone
<1>6. CASE Finish
  BY <1>6 DEF Finish
<1>7. ASSUME NEW s \in Samples, NEW failed \in BOOLEAN, Score(s, failed)
      PROVE  UniqueInv'
  BY <1>7 DEF Score, RowOf
<1>8. ASSUME NEW s \in Samples, NEW failed \in BOOLEAN, ScoreOntoTornLine(s, failed)
      PROVE  UniqueInv'
  BY <1>8 DEF ScoreOntoTornLine, RowOf
<1>9. CASE CrashBetweenWrites
  BY <1>9 DEF CrashBetweenWrites, Die
<1>10. CASE CrashInRewrite
  BY <1>10 DEF CrashInRewrite, Die
<1>11. CASE CrashInManifest
  BY <1>11 DEF CrashInManifest, Die
<1>12. ASSUME NEW s \in Samples, NEW failed \in BOOLEAN, CrashInAppend(s, failed)
      PROVE  UniqueInv'
  BY <1>12 DEF CrashInAppend, Die, RowOf
<1>13. CASE DeleteRows
  BY <1>13 DEF DeleteRows
<1>14. CASE Commit
  BY <1>14 DEF Commit
<1>15. CASE UNCHANGED vars BY <1>15
<1> QED
  BY <1>1, <1>2, <1>3, <1>4, <1>5, <1>6, <1>7, <1>8, <1>9,
     <1>10, <1>11, <1>12, <1>13, <1>14, <1>15 DEF Next

\* A sample leaves todo only for the file or for a swallowed line.
LEMMA CoverPreserved ==
  TypeOK /\ RewriteInv /\ CoverInv /\ [Next]_vars => CoverInv'
<1> SUFFICES ASSUME TypeOK, RewriteInv, CoverInv, [Next]_vars
             PROVE  CoverInv'
  OBVIOUS
<1> USE DEF vars, file, history, TypeOK, RewriteInv, CoverInv, FinishedCoversDraw
<1>1. ASSUME NEW c \in Configs, Refuse(c)
      PROVE  CoverInv'
  BY <1>1 DEF Refuse
<1>2. ASSUME NEW c \in Configs, NEW l \in Limits,
             NEW retry \in BOOLEAN, Begin(c, l, retry)
      PROVE  CoverInv'
  BY <1>2 DEF Begin
<1>3. CASE DropFailed
  BY <1>3 DEF DropFailed, Scored
<1>4. CASE WriteBack
  BY <1>4 DEF WriteBack
<1>5. CASE Open
  BY <1>5 DEF Open, AlreadyDone
<1>6. CASE Finish
  BY <1>6 DEF Finish
<1>7. ASSUME NEW s \in Samples, NEW failed \in BOOLEAN, Score(s, failed)
      PROVE  CoverInv'
  <2>1. RowOf(s, failed) \in rows' /\ RowOf(s, failed).sample = s
    BY <1>7 DEF Score, RowOf
  <2>2. \A t \in Draw[run.limit] :
           t \in todo' \/ t \in swallowed \/ \E r \in rows' : r.sample = t
    BY <1>7, <2>1 DEF Score
  <2> QED BY <1>7, <2>2 DEF Score
<1>8. ASSUME NEW s \in Samples, NEW failed \in BOOLEAN, ScoreOntoTornLine(s, failed)
      PROVE  CoverInv'
  BY <1>8 DEF ScoreOntoTornLine
<1>9. CASE CrashBetweenWrites
  BY <1>9 DEF CrashBetweenWrites, Die
<1>10. CASE CrashInRewrite
  BY <1>10 DEF CrashInRewrite, Die
<1>11. CASE CrashInManifest
  BY <1>11 DEF CrashInManifest, Die
<1>12. ASSUME NEW s \in Samples, NEW failed \in BOOLEAN, CrashInAppend(s, failed)
      PROVE  CoverInv'
  BY <1>12 DEF CrashInAppend, Die, RowOf
<1>13. CASE DeleteRows
  BY <1>13 DEF DeleteRows
<1>14. CASE Commit
  BY <1>14 DEF Commit
<1>15. CASE UNCHANGED vars BY <1>15
<1> QED
  BY <1>1, <1>2, <1>3, <1>4, <1>5, <1>6, <1>7, <1>8, <1>9,
     <1>10, <1>11, <1>12, <1>13, <1>14, <1>15 DEF Next

\* The manifest does not change under a session.
LEMMA SessionPreserved ==
  TypeOK /\ RewriteInv /\ SessionInv /\ [Next]_vars => SessionInv'
<1> SUFFICES ASSUME TypeOK, RewriteInv, SessionInv, [Next]_vars
             PROVE  SessionInv'
  OBVIOUS
<1> USE DEF vars, file, history, TypeOK, RewriteInv, SessionInv
<1>1. ASSUME NEW c \in Configs, Refuse(c)
      PROVE  SessionInv'
  BY <1>1 DEF Refuse
<1>2. ASSUME NEW c \in Configs, NEW l \in Limits,
             NEW retry \in BOOLEAN, Begin(c, l, retry)
      PROVE  SessionInv'
  BY <1>2 DEF Begin, Resumable, FileEmpty, Session
<1>3. CASE DropFailed
  BY <1>3 DEF DropFailed, Resumable, Failed, Scored
<1>4. CASE WriteBack
  BY <1>4 DEF WriteBack, Resumable
<1>5. CASE Open
  BY <1>5 DEF Open, Resumable
<1>6. CASE Finish
  BY <1>6 DEF Finish
<1>7. ASSUME NEW s \in Samples, NEW failed \in BOOLEAN, Score(s, failed)
      PROVE  SessionInv'
  <2>1. RowOf(s, failed).conf = run.conf /\ RowOf(s, failed).code = run.code
        /\ RowOf(s, failed).failed = failed
    BY DEF RowOf
  <2>2. \A r \in rows' : r \in rows \/ r = RowOf(s, failed)
    BY <1>7 DEF Score
  <2>3. wrote' = (wrote \/ ~failed) /\ UNCHANGED <<run, manifest, stale, pc>>
    BY <1>7 DEF Score
  <2>4. pc = "score" BY <1>7 DEF Score
  <2> QED BY <2>1, <2>2, <2>3, <2>4 DEF Resumable
<1>8. ASSUME NEW s \in Samples, NEW failed \in BOOLEAN, ScoreOntoTornLine(s, failed)
      PROVE  SessionInv'
  BY <1>8 DEF ScoreOntoTornLine, Resumable
<1>9. CASE CrashBetweenWrites
  BY <1>9 DEF CrashBetweenWrites, Die
<1>10. CASE CrashInRewrite
  BY <1>10 DEF CrashInRewrite, Die
<1>11. CASE CrashInManifest
  BY <1>11 DEF CrashInManifest, Die
<1>12. ASSUME NEW s \in Samples, NEW failed \in BOOLEAN, CrashInAppend(s, failed)
      PROVE  SessionInv'
  BY <1>12 DEF CrashInAppend, Die
<1>13. CASE DeleteRows
  BY <1>13 DEF DeleteRows
<1>14. CASE Commit
  BY <1>14 DEF Commit, Resumable
<1>15. CASE UNCHANGED vars BY <1>15 DEF Resumable
<1> QED
  BY <1>1, <1>2, <1>3, <1>4, <1>5, <1>6, <1>7, <1>8, <1>9,
     <1>10, <1>11, <1>12, <1>13, <1>14, <1>15 DEF Next

\* A session appends rows of its own configuration to rows of the same.
LEMMA ConfPreserved ==
  TypeOK /\ RewriteInv /\ SessionInv /\ ConfInv /\ [Next]_vars => ConfInv'
<1> SUFFICES ASSUME TypeOK, RewriteInv, SessionInv, ConfInv, [Next]_vars
             PROVE  ConfInv'
  OBVIOUS
<1> USE DEF vars, file, history, TypeOK, RewriteInv, SessionInv, ConfInv
<1>1. ASSUME NEW c \in Configs, Refuse(c)
      PROVE  ConfInv'
  BY <1>1 DEF Refuse
<1>2. ASSUME NEW c \in Configs, NEW l \in Limits,
             NEW retry \in BOOLEAN, Begin(c, l, retry)
      PROVE  ConfInv'
  BY <1>2 DEF Begin, Resumable, FileEmpty
<1>3. CASE DropFailed
  BY <1>3 DEF DropFailed, Scored
<1>4. CASE WriteBack
  BY <1>4 DEF WriteBack
<1>5. CASE Open
  BY <1>5 DEF Open
<1>6. CASE Finish
  BY <1>6 DEF Finish
<1>7. ASSUME NEW s \in Samples, NEW failed \in BOOLEAN, Score(s, failed)
      PROVE  ConfInv'
  BY <1>7 DEF Score, RowOf
<1>8. ASSUME NEW s \in Samples, NEW failed \in BOOLEAN, ScoreOntoTornLine(s, failed)
      PROVE  ConfInv'
  BY <1>8 DEF ScoreOntoTornLine
<1>9. CASE CrashBetweenWrites
  BY <1>9 DEF CrashBetweenWrites, Die
<1>10. CASE CrashInRewrite
  BY <1>10 DEF CrashInRewrite, Die
<1>11. CASE CrashInManifest
  BY <1>11, BenchAssumption DEF CrashInManifest, Die
<1>12. ASSUME NEW s \in Samples, NEW failed \in BOOLEAN, CrashInAppend(s, failed)
      PROVE  ConfInv'
  BY <1>12 DEF CrashInAppend, Die, RowOf
<1>13. CASE DeleteRows
  BY <1>13 DEF DeleteRows
<1>14. CASE Commit
  BY <1>14 DEF Commit
<1>15. CASE UNCHANGED vars BY <1>15
<1> QED
  BY <1>1, <1>2, <1>3, <1>4, <1>5, <1>6, <1>7, <1>8, <1>9,
     <1>10, <1>11, <1>12, <1>13, <1>14, <1>15 DEF Next

\* A scored row's commit is handed from the session to the manifest.
LEMMA ShaPreserved ==
  TypeOK /\ RewriteInv /\ SessionInv /\ ShaInv /\ [Next]_vars => ShaInv'
<1> SUFFICES ASSUME TypeOK, RewriteInv, SessionInv, ShaInv, [Next]_vars
             PROVE  ShaInv'
  OBVIOUS
<1> USE DEF vars, file, history, TypeOK, RewriteInv, SessionInv, ShaInv, Known
<1>1. ASSUME NEW c \in Configs, Refuse(c)
      PROVE  ShaInv'
  BY <1>1 DEF Refuse
<1>2. ASSUME NEW c \in Configs, NEW l \in Limits,
             NEW retry \in BOOLEAN, Begin(c, l, retry)
      PROVE  ShaInv'
  BY <1>2, BenchAssumption DEF Begin, Resumable, FileEmpty
<1>3. CASE DropFailed
  BY <1>3 DEF DropFailed, Scored
<1>4. CASE WriteBack
  BY <1>4 DEF WriteBack
<1>5. CASE Open
  BY <1>5 DEF Open, Resumable
<1>6. CASE Finish
  BY <1>6 DEF Finish, ContributingShas, Manifest, Resumable, Session
<1>7. ASSUME NEW s \in Samples, NEW failed \in BOOLEAN, Score(s, failed)
      PROVE  ShaInv'
  <2>1. RowOf(s, failed).code = run.code /\ RowOf(s, failed).failed = failed
    BY DEF RowOf
  <2>2. \A r \in rows' \cup kept' : r \in rows \cup kept \/ r = RowOf(s, failed)
    BY <1>7 DEF Score
  <2>3. /\ wrote' = (wrote \/ ~failed)
        /\ UNCHANGED <<run, manifest, unrecorded, pc>>
    BY <1>7 DEF Score
  <2>4. pc = "score" BY <1>7 DEF Score
  <2> QED BY <2>1, <2>2, <2>3, <2>4
<1>8. ASSUME NEW s \in Samples, NEW failed \in BOOLEAN, ScoreOntoTornLine(s, failed)
      PROVE  ShaInv'
  BY <1>8 DEF ScoreOntoTornLine
<1>9. CASE CrashBetweenWrites
  BY <1>9 DEF CrashBetweenWrites, Die
<1>10. CASE CrashInRewrite
  BY <1>10 DEF CrashInRewrite, Die
<1>11. CASE CrashInManifest
  BY <1>11 DEF CrashInManifest, Die
<1>12. ASSUME NEW s \in Samples, NEW failed \in BOOLEAN, CrashInAppend(s, failed)
      PROVE  ShaInv'
  BY <1>12 DEF CrashInAppend, Die, RowOf
<1>13. CASE DeleteRows
  BY <1>13 DEF DeleteRows
<1>14. CASE Commit
  BY <1>14 DEF Commit
<1>15. CASE UNCHANGED vars BY <1>15
<1> QED
  BY <1>1, <1>2, <1>3, <1>4, <1>5, <1>6, <1>7, <1>8, <1>9,
     <1>10, <1>11, <1>12, <1>13, <1>14, <1>15 DEF Next

LEMMA NextIInv == IInv /\ [Next]_vars => IInv'
  BY TypePreserved, RewritePreserved, UniquePreserved, CoverPreserved,
     SessionPreserved, ConfPreserved, ShaPreserved DEF IInv

\* The inductive invariant holds in every reachable state.
THEOREM Inductive == Spec => []IInv
  BY InitIInv, NextIInv, PTL DEF Spec

(***************************************************************************)
(* What follows from it.                                                   *)
(***************************************************************************)

\* Every variable keeps its type.
THEOREM TypeCorrect == Spec => []TypeOK
<1>1. IInv => TypeOK BY DEF IInv
<1> QED BY Inductive, <1>1, PTL

\* No series of sessions gives a sample two rows.
THEOREM UniqueRows == Spec => []OneRowPerSample
<1>1. IInv => OneRowPerSample BY DEF IInv, UniqueInv
<1> QED BY Inductive, <1>1, PTL

\* Rows that were not begun beside another run's manifest share one
\* configuration, however the sessions ended.
THEOREM Attributable == Spec => []OneConfiguration
<1>1. IInv => OneConfiguration
  BY DEF IInv, ConfInv, RewriteInv, OneConfiguration
<1> QED BY Inductive, <1>1, PTL

\* A finished session covers its draw, whatever earlier ones left behind.
THEOREM Coverage == Spec => []FinishedCoversDraw
<1>1. IInv => FinishedCoversDraw BY DEF IInv, CoverInv
<1> QED BY Inductive, <1>1, PTL

\* git_shas names the commit of every scored row, but for those of sessions
\* that wrote no manifest or were overtaken by a commit.
THEOREM Provenance == Spec => []GitShasCoverRows
<1>1. IInv => GitShasCoverRows
  BY BenchAssumption DEF IInv, ShaInv, Known, RewriteInv, GitShasCoverRows
<1> QED BY Inductive, <1>1, PTL

\* One step of the runner keeps the rows that RowsAreKept says it keeps.
LEMMA KeptStep ==
  IInv /\ [Next]_vars =>
    [\A r \in Durable :
        \/ r \in Durable'
        \/ r.failed /\ pc = "drop" /\ run.retry
        \/ r \in loose
        \/ pc = "rewrite" /\ outcome' = "crashed"
        \/ pc = "idle"]_vars
<1> SUFFICES ASSUME IInv, Next, NEW r \in Durable, pc # "idle",
                    r \notin loose,
                    ~(r.failed /\ pc = "drop" /\ run.retry),
                    ~(pc = "rewrite" /\ outcome' = "crashed")
             PROVE  r \in Durable'
  OBVIOUS
<1> USE DEF IInv, TypeOK, RewriteInv, Durable, vars, file, history
<1>1. CASE DropFailed BY <1>1 DEF DropFailed, Scored
<1>2. CASE WriteBack BY <1>2 DEF WriteBack
<1>3. CASE CrashInRewrite BY <1>3 DEF CrashInRewrite, Die
<1>4. ASSUME NEW s \in Samples, NEW failed \in BOOLEAN,
             \/ Score(s, failed) \/ ScoreOntoTornLine(s, failed)
             \/ CrashInAppend(s, failed)
      PROVE  r \in Durable'
  BY <1>4 DEF Score, ScoreOntoTornLine, CrashInAppend, Die
<1>5. CASE Open \/ Finish \/ CrashBetweenWrites \/ CrashInManifest \/ Commit
  BY <1>5 DEF Open, Finish, CrashBetweenWrites, CrashInManifest, Commit, Die
<1>6. ASSUME NEW c \in Configs, NEW l \in Limits, NEW retry \in BOOLEAN,
             Refuse(c) \/ Begin(c, l, retry) \/ DeleteRows
      PROVE  FALSE
  BY <1>6 DEF Refuse, Begin, DeleteRows
<1>7. ASSUME NEW c \in Configs, Refuse(c) PROVE FALSE BY <1>7 DEF Refuse
<1>8. CASE DeleteRows BY <1>8 DEF DeleteRows
<1> QED BY <1>1, <1>2, <1>3, <1>4, <1>5, <1>6, <1>7, <1>8 DEF Next

\* Rows are durable over every resume.
THEOREM Durability == Spec => RowsAreKept
  BY Inductive, KeptStep, PTL DEF Spec, RowsAreKept
===============================================================================
