------------------------ MODULE RecordingFilesProofs ------------------------
(***************************************************************************)
(* Theorems about the recordings of RecordingPipeline: the files on disk,  *)
(* who may delete one, and that nobody deletes one that is still needed.   *)
(***************************************************************************)
EXTENDS RecordingPipelineProofs

USE NoneAssumption, BoundAssumption, ProcAssumption
USE DEF Jobs, Procs, Sweepers, Live, Over, JobStatus, MeetingStatus, Ages,
        Adopting, Failing, WorkerPCs, RequestPCs, Announcing, RunPCs,
        rows, procs, sweeps

Row(j) == status[j] # "none"
Spent(j) == status[j] \in Over \cup {"gone"}

\* A step that makes no row: rows keep what they were made with, an attempt that
\* is over stays over, and only a queued attempt starts to run.
OldRows ==
    /\ UNCHANGED <<meeting, rec>>
    /\ \A j \in Jobs : Row(j) => Row(j)'
    /\ \A j \in Jobs : Row(j)' => Row(j)
    /\ \A j \in Jobs : Spent(j) => Spent(j)'
    /\ \A j \in Jobs : status'[j] = "queued" => status[j] = "queued"
    /\ \A j \in Jobs : status'[j] = "running" => status[j] \in Live

LEMMA OldRowsSame == ASSUME UNCHANGED <<status, meeting, rec>> PROVE OldRows
BY DEF OldRows, Row, Spent

LEMMA OldRowsOne ==
    ASSUME TypeOK, NEW j \in Jobs, NEW st \in Over, Row(j), SetStatus(j, st)
    PROVE  OldRows
BY DEF OldRows, Row, Spent, SetStatus, TypeOK

LEMMA RowSteps ==
    ASSUME Inv, [Next]_vars
    PROVE  \/ \E r \in Requests, m \in Meetings : UploadRecording(r, m)
           \/ \E r \in Requests : RestartCommit(r)
           \/ OldRows
<1> USE DEF Inv
<1>1. CASE UNCHANGED vars
  BY <1>1, OldRowsSame DEF vars
<1>2. ASSUME NEW r \in Requests, RequestStep(r),
             ~RestartCommit(r), \A m \in Meetings : ~UploadRecording(r, m)
      PROVE  OldRows
  <2>1. CASE \/ Enqueue(r) \/ EnqueueFails(r) \/ DropRecording(r) \/ RequestDies(r)
             \/ \E m \in Meetings : UploadDies(r, m)
             \/ \E m \in Meetings, j \in Jobs : RestartRename(r, m, j)
    <3>1. UNCHANGED <<status, meeting, rec>>
      BY <2>1 DEF Enqueue, EnqueueFails, DropRecording, RequestDies, UploadDies, RestartRename
    <3> QED BY <3>1, OldRowsSame
  <2>2. ASSUME NEW m \in Meetings, NEW j \in Jobs, CancelTranscription(r, m, j) PROVE OldRows
    <3>1. Row(j) /\ SetStatus(j, "cancelled")
      BY <2>2 DEF CancelTranscription, LiveJobs, Row
    <3> QED BY <3>1, OldRowsOne
  <2> QED BY <1>2, <2>1, <2>2 DEF RequestStep
<1>3. ASSUME NEW w \in Workers, WorkerStep(w) PROVE OldRows
  <2>1. CASE UNCHANGED <<status, meeting, rec>>
    BY <2>1, OldRowsSame
  <2>2. CASE ~UNCHANGED <<status, meeting, rec>>
    <3>1. \/ MarkUnannounced(w) /\ SetStatus(on[w], "failed")
          \/ MarkPublished(w) /\ SetStatus(on[w], "done")
      BY <1>3, <2>2 DEF WorkerStep, Task, Deliver, DeleteDeclined, Decode, LeaveAdopt, StopJob, Publish,
         WriteTranscript, MarkUnannounced, MarkPublished,
         ClaimJob, ClaimMissing, StageFails, PublishFails, WorkerDies, HeartBeat
    <3>2. on[w] \in Jobs /\ Row(on[w])
      BY <3>1 DEF MarkUnannounced, MarkPublished, ProcsOK, Row
    <3> QED BY <3>1, <3>2, OldRowsOne
  <2> QED BY <2>1, <2>2
<1>4. ASSUME NEW p \in Procs, MarkFailed(p) PROVE OldRows
  <2>1. CASE MarkFailedRead(p) \/ MarkFailedJob(p)
    <3>1. UNCHANGED <<status, meeting, rec>>
      BY <2>1 DEF MarkFailedRead, MarkFailedJob
    <3> QED BY <3>1, OldRowsSame
  <2>2. CASE MarkFailedCommit(p)
    <3>1. on[p] \in Jobs /\ Row(on[p]) /\ SetStatus(on[p], "failed")
      BY <2>2 DEF MarkFailedCommit, ProcsOK, Row
    <3> QED BY <3>1, OldRowsOne
  <2> QED BY <1>4, <2>1, <2>2 DEF MarkFailed
<1>5. ASSUME NEW s \in Sweepers, Sweep(s) PROVE OldRows
  <2>1. CASE SweepMark(s) \/ SweepAborts(s)
    <3>1. UNCHANGED <<status, meeting, rec>>
      BY <2>1 DEF SweepMark, SweepAborts
    <3> QED BY <3>1, OldRowsSame
  <2>2. CASE SweepFinish(s)
    <3>1. /\ status' = [j \in Jobs |-> IF j \in doomed[s] THEN "failed"
                                       ELSE IF j \in Claimed(s) THEN "running" ELSE status[j]]
          /\ UNCHANGED <<meeting, rec>>
      BY <2>2 DEF SweepFinish
    <3>2. \A j \in doomed[s] : Row(j)
      BY DEF RowsOK, Row
    <3>3. \A j \in Claimed(s) : status[j] = "queued"
      BY DEF Claimed
    <3> QED BY <3>1, <3>2, <3>3 DEF OldRows, Row, Spent
  <2> QED BY <1>5, <2>1, <2>2 DEF Sweep
<1>6. CASE SweepBegin \/ \E j \in Jobs : GoQuiet(j) \/ GrowOld(j) \/ LoseMessage(j)
  <2>1. UNCHANGED <<status, meeting, rec>>
    BY <1>6 DEF SweepBegin, GoQuiet, GrowOld, LoseMessage
  <2> QED BY <2>1, OldRowsSame
<1>7. ASSUME NEW m \in Meetings, DeleteMeeting(m) \/ ExpireMeeting(m) PROVE OldRows
  <2>1. /\ status' = [j \in Jobs |-> IF meeting[j] = m THEN "gone" ELSE status[j]]
        /\ UNCHANGED <<meeting, rec>>
    BY <1>7 DEF DeleteMeeting, ExpireMeeting, Erase, JobsOf
  <2>2. \A j \in Jobs : meeting[j] = m => Row(j)
    BY DEF RowsOK, Row
  <2> QED BY <2>1, <2>2 DEF OldRows, Row, Spent
<1> QED BY <1>1, <1>2, <1>3, <1>4, <1>5, <1>6, <1>7 DEF Next

\* A step that puts no file in the directory: files stay or go, no restart takes
\* one, and a worker that starts to write has deleted its own.
OldFiles ==
    /\ \A n \in Jobs : file'[n] \in {file[n], None}
    /\ nextJob' = nextJob
    /\ \A r \in Requests : pc'[r] = "renamed" => pc[r] = "renamed" /\ on'[r] = on[r] /\ old'[r] = old[r]
    /\ \A w \in Workers : pc'[w] = "write" =>
           on'[w] = on[w] /\ pc[w] # "idle" /\ (pc[w] = "write" \/ file'[on[w]] = None)

LEMMA AckFiles ==
    ASSUME TypeOK, NEW w \in Workers, Ack(w), nextJob' = nextJob,
           \A n \in Jobs : file'[n] \in {file[n], None}
    PROVE  OldFiles
BY DEF TypeOK, Ack, Leave, OldFiles

LEMMA LeaveFiles ==
    ASSUME TypeOK, NEW p \in Procs, Leave(p), nextJob' = nextJob,
           \A n \in Jobs : file'[n] \in {file[n], None}
    PROVE  OldFiles
BY DEF TypeOK, Leave, OldFiles

LEMMA GotoFiles ==
    ASSUME TypeOK, NEW p \in Procs, NEW l, Goto(p, l), l \notin {"renamed", "write"}, nextJob' = nextJob,
           \A n \in Jobs : file'[n] \in {file[n], None}
    PROVE  OldFiles
BY DEF TypeOK, Goto, OldFiles

LEMMA FileSteps ==
    ASSUME Inv, [Next]_vars
    PROVE  \/ \E r \in Requests, m \in Meetings : UploadRecording(r, m) \/ UploadDies(r, m)
           \/ \E r \in Requests, m \in Meetings, j \in Jobs : RestartRename(r, m, j)
           \/ OldFiles
<1> USE DEF Inv
<1>1. CASE UNCHANGED vars
  BY <1>1 DEF vars, OldFiles
<1>2. ASSUME NEW r \in Requests, RequestStep(r),
             \A m \in Meetings : ~UploadRecording(r, m) /\ ~UploadDies(r, m),
             \A m \in Meetings, j \in Jobs : ~RestartRename(r, m, j)
      PROVE  OldFiles
  <2>1. CASE Enqueue(r) \/ RequestDies(r)
    BY <2>1, LeaveFiles DEF Enqueue, RequestDies
  <2>2. CASE DropRecording(r)
    <3>1. nextJob' = nextJob /\ Leave(r) /\ \A n \in Jobs : file'[n] \in {file[n], None}
      BY <2>2 DEF DropRecording, Deleted, TypeOK
    <3> QED BY <3>1, LeaveFiles
  <2>3. CASE EnqueueFails(r)
    <3>1. nextJob' = nextJob /\ Goto(r, "fail") /\ file' = file
      BY <2>3 DEF EnqueueFails
    <3> QED BY <3>1, GotoFiles
  <2>4. CASE RestartCommit(r)
    <3>1. /\ file' = file /\ nextJob' = nextJob /\ on' = on
          /\ pc' = [pc EXCEPT ![r] = "enqueue"] /\ old' = [old EXCEPT ![r] = None]
      BY <2>4 DEF RestartCommit
    <3> QED BY <3>1 DEF OldFiles, TypeOK
  <2>5. ASSUME NEW m \in Meetings, NEW j \in Jobs, CancelTranscription(r, m, j) PROVE OldFiles
    <3>1. /\ file' = file /\ nextJob' = nextJob
          /\ \/ UNCHANGED procs
             \/ pc' = [pc EXCEPT ![r] = "drop"] /\ on' = [on EXCEPT ![r] = j] /\ old' = old
      BY <2>5 DEF CancelTranscription, Begin
    <3>2. r \notin Workers
      OBVIOUS
    <3> QED BY <3>1, <3>2 DEF OldFiles, TypeOK
  <2> QED BY <1>2, <2>1, <2>2, <2>3, <2>4, <2>5 DEF RequestStep
<1>3. ASSUME NEW w \in Workers, WorkerStep(w) PROVE OldFiles
  <2>1. CASE DeleteDeclined(w) \/ StopJob(w) \/ MarkUnannounced(w) \/ MarkPublished(w)
    <3>1. Ack(w) /\ nextJob' = nextJob /\ \A n \in Jobs : file'[n] \in {file[n], None}
      BY <2>1 DEF DeleteDeclined, StopJob, MarkUnannounced, MarkPublished, Deleted, TypeOK
    <3> QED BY <3>1, AckFiles
  <2>2. CASE Decode(w) \/ WriteTranscript(w) \/ Publish(w) \/ PublishFails(w) \/ StageFails(w)
    <3>1. /\ nextJob' = nextJob /\ \A n \in Jobs : file'[n] \in {file[n], None}
          /\ \E l \in {"fail", "listen", "publish", "published", "unannounced"} : Goto(w, l)
      BY <2>2 DEF Decode, WriteTranscript, Publish, PublishFails, StageFails, Deleted, TypeOK
    <3> QED BY <3>1, GotoFiles
  <2>3. CASE LeaveAdopt(w)
    <3>1. /\ file' = [file EXCEPT ![on[w]] = None] /\ nextJob' = nextJob /\ UNCHANGED <<on, old>>
          /\ pc' = [pc EXCEPT ![w] = "write"] /\ on[w] \in Jobs /\ pc[w] = "listen"
      BY <2>3 DEF LeaveAdopt, Deleted, Goto, ProcsOK
    <3>2. \A v \in Workers : pc'[v] = "write" => pc[v] # "idle" /\ (pc[v] = "write" \/ file'[on[v]] = None)
      BY <3>1 DEF TypeOK
    <3>3. \A q \in Requests : pc'[q] = pc[q]
      BY <3>1 DEF TypeOK
    <3> QED BY <3>1, <3>2, <3>3 DEF OldFiles, TypeOK
  <2>4. CASE Deliver(w)
    <3>1. /\ file' = file /\ nextJob' = nextJob
          /\ \/ UNCHANGED procs
             \/ \E j \in Jobs : Begin(w, "claim", j)
      BY <2>4 DEF Deliver, ClaimJob, ClaimMissing
    <3> QED BY <3>1 DEF OldFiles, Begin, TypeOK
  <2>5. CASE WorkerDies(w)
    BY <2>5, LeaveFiles DEF WorkerDies
  <2>6. CASE HeartBeat(w)
    BY <2>6 DEF HeartBeat, OldFiles
  <2> QED BY <1>3, <2>1, <2>2, <2>3, <2>4, <2>5, <2>6 DEF WorkerStep, Task
<1>4. ASSUME NEW p \in Procs, MarkFailed(p) PROVE OldFiles
  <2>1. /\ file' = file /\ nextJob' = nextJob
        /\ \/ Leave(p)
           \/ \E l \in {"drop", "failRead", "failMark", "failSkip"} : Goto(p, l)
    BY <1>4 DEF MarkFailed, MarkFailedRead, MarkFailedJob, MarkFailedCommit, AfterFailure, Ack
  <2> QED BY <2>1, LeaveFiles, GotoFiles
<1>5. ASSUME NEW s \in Sweepers, Sweep(s) PROVE OldFiles
  <2>1. nextJob' = nextJob /\ \A n \in Jobs : file'[n] \in {file[n], None}
    BY <1>5 DEF Sweep, SweepMark, SweepFinish, SweepAborts, TypeOK
  <2>2. CASE UNCHANGED procs
    BY <2>1, <2>2 DEF OldFiles
  <2>3. CASE ~UNCHANGED procs
    <3>1. s \in Workers
      BY <1>5, <2>3 DEF Sweep, SweepMark, SweepFinish, SweepAborts
    <3>2. Ack(s) \/ \E l \in {"decode", "decline"} : Goto(s, l)
      BY <1>5, <2>3 DEF Sweep, SweepMark, SweepFinish, SweepAborts, AfterClaim
    <3> QED BY <2>1, <3>1, <3>2, AckFiles, GotoFiles
  <2> QED BY <2>2, <2>3
<1>6. CASE SweepBegin \/ \E j \in Jobs : GoQuiet(j) \/ GrowOld(j) \/ LoseMessage(j)
  <2>1. UNCHANGED <<file, nextJob, pc, on, old>>
    BY <1>6 DEF SweepBegin, GoQuiet, GrowOld, LoseMessage
  <2> QED BY <2>1 DEF OldFiles
<1>7. ASSUME NEW m \in Meetings, DeleteMeeting(m) \/ ExpireMeeting(m) PROVE OldFiles
  <2>1. UNCHANGED <<nextJob, pc, on, old>> /\ \A n \in Jobs : file'[n] \in {file[n], None}
    BY <1>7 DEF DeleteMeeting, ExpireMeeting, TypeOK
  <2> QED BY <2>1 DEF OldFiles
<1> QED BY <1>1, <1>2, <1>3, <1>4, <1>5, <1>6, <1>7 DEF Next

LEMMA TranscriptSteps ==
    ASSUME Inv, [Next]_vars
    PROVE  \/ \E w \in Workers : WriteTranscript(w)
           \/ \A m \in Meetings : transcript'[m] \in {transcript[m], None}
<1>1. CASE UNCHANGED vars
  BY <1>1 DEF vars
<1>2. ASSUME NEW r \in Requests, RequestStep(r) PROVE transcript' = transcript
  BY <1>2 DEF RequestStep, Enqueue, EnqueueFails, RestartCommit, DropRecording, RequestDies,
     UploadRecording, UploadDies, CancelTranscription, RestartRename
<1>3. ASSUME NEW w \in Workers, WorkerStep(w), ~WriteTranscript(w) PROVE transcript' = transcript
  BY <1>3 DEF WorkerStep, Task, Deliver, DeleteDeclined, Decode, LeaveAdopt, StopJob, Publish,
     MarkUnannounced, MarkPublished, ClaimJob, ClaimMissing, StageFails, PublishFails, WorkerDies, HeartBeat
<1>4. ASSUME NEW p \in Procs, MarkFailed(p) PROVE transcript' = transcript
  BY <1>4 DEF MarkFailed, MarkFailedRead, MarkFailedJob, MarkFailedCommit
<1>5. ASSUME NEW s \in Sweepers, Sweep(s) PROVE transcript' = transcript
  BY <1>5 DEF Sweep, SweepMark, SweepFinish, SweepAborts
<1>6. CASE SweepBegin \/ \E j \in Jobs : GoQuiet(j) \/ GrowOld(j) \/ LoseMessage(j)
  BY <1>6 DEF SweepBegin, GoQuiet, GrowOld, LoseMessage
<1>7. ASSUME NEW m \in Meetings, DeleteMeeting(m) \/ ExpireMeeting(m)
      PROVE  \A n \in Meetings : transcript'[n] \in {transcript[n], None}
  BY <1>7 DEF DeleteMeeting, ExpireMeeting, Erase, Inv, TypeOK
<1> QED BY <1>1, <1>2, <1>3, <1>4, <1>5, <1>6, <1>7 DEF Next

-----------------------------------------------------------------------------
(* The directory                                                           *)

\* No file is there before its id is handed out, no recording is there twice,
\* and a row's file is the recording the attempt was made for.
DirOK ==
    /\ \A n \in Jobs : file[n] # None => n < nextJob /\ file[n] < nextJob
    /\ \A n \in Jobs : Row(n) /\ file[n] # None => file[n] = rec[n]
    /\ \A n, k \in Jobs : file[n] # None /\ file[n] = file[k] => n = k

\* The attempts at one recording are of one meeting, and only the newest of
\* them may hold the file.
ChainOK ==
    /\ \A j \in Jobs : Row(j) => rec[j] <= j
    /\ \A j, k \in Jobs : Row(j) /\ Row(k) /\ rec[j] = rec[k] => meeting[j] = meeting[k]
    /\ \A j, k \in Jobs : Row(j) /\ Row(k) /\ rec[j] = rec[k] /\ k < j => file[k] = None

\* A restart after its rename: the recording is under the new name or nowhere.
MoveOK ==
    \A r \in Requests : pc[r] = "renamed" =>
        /\ file[old[r]] = None
        /\ file[on[r]] \in {None, rec[old[r]]}

\* A worker that has left adopt has deleted its file.
WriteOK ==
    \A w \in Workers : pc[w] = "write" => file[on[w]] = None

\* The attempt that wrote a transcript has no file, is the last one made for its
\* recording, and no restart is taking it over.
SpokenOK ==
    \A m \in Meetings : transcript[m] # None =>
        /\ file[transcript[m]] = None
        /\ \A k \in Jobs : Row(k) /\ rec[k] = rec[transcript[m]] => k <= transcript[m]
        /\ \A r \in Requests : pc[r] = "renamed" => old[r] # transcript[m]

FilesOK == DirOK /\ ChainOK /\ MoveOK /\ WriteOK /\ SpokenOK

LEMMA FilesInit == Init => FilesOK
BY DEF Init, FilesOK, DirOK, ChainOK, MoveOK, WriteOK, SpokenOK, Row

\* A row's transcript is a row.
LEMMA SpokenRow == ASSUME Inv, NEW m \in Meetings, transcript[m] # None
                   PROVE  transcript[m] \in Jobs /\ Row(transcript[m]) /\ transcript[m] < nextJob
BY DEF Inv, TypeOK, WroteOK, Wrote, RowsOK, Row

LEMMA FilesFewer ==
    ASSUME Inv, Inv', FilesOK, OldRows, OldFiles,
           \A m \in Meetings : transcript'[m] \in {transcript[m], None}
    PROVE  FilesOK'
<1> USE DEF Inv
<1>1. DirOK'
  <2>1. \A n \in Jobs : file'[n] # None => n < nextJob' /\ file'[n] < nextJob'
    BY DEF OldFiles, FilesOK, DirOK
  <2>2. \A n \in Jobs : Row(n)' /\ file'[n] # None => file'[n] = rec'[n]
    BY DEF OldRows, OldFiles, FilesOK, DirOK
  <2>3. \A n, k \in Jobs : file'[n] # None /\ file'[n] = file'[k] => n = k
    BY DEF OldFiles, FilesOK, DirOK
  <2> QED BY <2>1, <2>2, <2>3 DEF DirOK
<1>2. ChainOK'
  <2>1. \A j \in Jobs : Row(j)' => rec'[j] <= j
    BY DEF OldRows, FilesOK, ChainOK
  <2>2. \A j, k \in Jobs : Row(j)' /\ Row(k)' /\ rec'[j] = rec'[k] => meeting'[j] = meeting'[k]
    BY DEF OldRows, FilesOK, ChainOK
  <2>3. \A j, k \in Jobs : Row(j)' /\ Row(k)' /\ rec'[j] = rec'[k] /\ k < j => file'[k] = None
    BY DEF OldRows, OldFiles, FilesOK, ChainOK
  <2> QED BY <2>1, <2>2, <2>3 DEF ChainOK
<1>3. MoveOK'
  <2> SUFFICES ASSUME NEW r \in Requests, pc'[r] = "renamed"
               PROVE  file'[old'[r]] = None /\ file'[on'[r]] \in {None, rec'[old'[r]]}
    BY DEF MoveOK
  <2>1. pc[r] = "renamed" /\ on'[r] = on[r] /\ old'[r] = old[r] /\ on[r] \in Jobs /\ old[r] \in Jobs
    BY DEF OldFiles, RestartOK, ProcsOK
  <2>2. file[old[r]] = None /\ file[on[r]] \in {None, rec[old[r]]}
    BY <2>1 DEF FilesOK, MoveOK
  <2> QED BY <2>1, <2>2 DEF OldFiles, OldRows
<1>4. WriteOK'
  <2> SUFFICES ASSUME NEW w \in Workers, pc'[w] = "write"
               PROVE  file'[on'[w]] = None
    BY DEF WriteOK
  <2>1. on'[w] = on[w] /\ on[w] \in Jobs /\ (pc[w] = "write" \/ file'[on[w]] = None)
    BY DEF OldFiles, ProcsOK
  <2> QED BY <2>1 DEF OldFiles, FilesOK, WriteOK
<1>5. SpokenOK'
  <2> SUFFICES ASSUME NEW m \in Meetings, transcript'[m] # None
               PROVE  /\ file'[transcript'[m]] = None
                      /\ \A k \in Jobs : Row(k)' /\ rec'[k] = rec'[transcript'[m]] => k <= transcript'[m]
                      /\ \A r \in Requests : pc'[r] = "renamed" => old'[r] # transcript'[m]
    BY DEF SpokenOK
  <2>1. transcript'[m] = transcript[m] /\ transcript[m] \in Jobs
    BY DEF TypeOK
  <2>2. /\ file[transcript[m]] = None
        /\ \A k \in Jobs : Row(k) /\ rec[k] = rec[transcript[m]] => k <= transcript[m]
        /\ \A r \in Requests : pc[r] = "renamed" => old[r] # transcript[m]
    BY <2>1 DEF FilesOK, SpokenOK
  <2>3. file'[transcript[m]] = None
    BY <2>1, <2>2 DEF OldFiles
  <2>4. \A k \in Jobs : Row(k)' /\ rec'[k] = rec'[transcript[m]] => k <= transcript[m]
    BY <2>2 DEF OldRows
  <2>5. \A r \in Requests : pc'[r] = "renamed" => old'[r] # transcript[m]
    BY <2>2 DEF OldFiles
  <2> QED BY <2>1, <2>3, <2>4, <2>5
<1> QED BY <1>1, <1>2, <1>3, <1>4, <1>5 DEF FilesOK

\* A file for an id nobody had: what a dead upload leaves.
LEMMA FilesUploadDies ==
    ASSUME Inv, FilesOK, NEW r \in Requests, NEW m \in Meetings, UploadDies(r, m)
    PROVE  FilesOK'
<1> USE DEF Inv
<1>a. /\ nextJob \in Jobs /\ nextJob' = nextJob + 1 /\ file' = [file EXCEPT ![nextJob] = nextJob]
      /\ UNCHANGED <<transcript, status, meeting, rec, pc, on, old>>
  BY DEF UploadDies
<1>b. \A j \in Jobs : Row(j) => j < nextJob
  BY DEF RowsOK, Row
<1>c. file[nextJob] = None /\ \A n \in Jobs \ {nextJob} : file'[n] = file[n]
  BY <1>a DEF FilesOK, DirOK, TypeOK
<1>1. DirOK'
  <2>1. \A n \in Jobs : file'[n] # None => n < nextJob' /\ file'[n] < nextJob'
    BY <1>a, <1>c DEF FilesOK, DirOK, TypeOK
  <2>2. \A n \in Jobs : Row(n)' /\ file'[n] # None => file'[n] = rec'[n]
    BY <1>a, <1>b, <1>c DEF FilesOK, DirOK, Row
  <2>3. \A n, k \in Jobs : file'[n] # None /\ file'[n] = file'[k] => n = k
    BY <1>a, <1>c DEF FilesOK, DirOK, TypeOK
  <2> QED BY <2>1, <2>2, <2>3 DEF DirOK
<1>2. ChainOK'
  BY <1>a, <1>b, <1>c DEF FilesOK, ChainOK, Row
<1>3. MoveOK'
  <2> SUFFICES ASSUME NEW q \in Requests, pc[q] = "renamed"
               PROVE  file'[old[q]] = None /\ file'[on[q]] \in {None, rec[old[q]]}
    BY <1>a DEF MoveOK
  <2>1. on[q] \in Jobs \ {nextJob} /\ old[q] \in Jobs \ {nextJob}
    BY <1>a, <1>b DEF RestartOK, ProcsOK, Row
  <2> QED BY <1>c, <2>1 DEF FilesOK, MoveOK
<1>4. WriteOK'
  <2> SUFFICES ASSUME NEW w \in Workers, pc[w] = "write"
               PROVE  file'[on[w]] = None
    BY <1>a DEF WriteOK
  <2>1. on[w] \in Jobs \ {nextJob}
    BY <1>a, <1>b DEF ProcsOK, Row
  <2> QED BY <1>c, <2>1 DEF FilesOK, WriteOK
<1>5. SpokenOK'
  <2> SUFFICES ASSUME NEW n \in Meetings, transcript[n] # None
               PROVE  file'[transcript[n]] = None
    BY <1>a DEF FilesOK, SpokenOK, Row
  <2>1. transcript[n] \in Jobs \ {nextJob}
    BY <1>a, SpokenRow
  <2> QED BY <1>c, <2>1 DEF FilesOK, SpokenOK
<1> QED BY <1>1, <1>2, <1>3, <1>4, <1>5 DEF FilesOK

\* A new recording, and the first attempt at it.
LEMMA FilesUpload ==
    ASSUME Inv, FilesOK, NEW r \in Requests, NEW m \in Meetings, UploadRecording(r, m)
    PROVE  FilesOK'
<1> USE DEF Inv
<1>a. /\ nextJob \in Jobs /\ nextJob' = nextJob + 1 /\ file' = [file EXCEPT ![nextJob] = nextJob]
      /\ rec' = [rec EXCEPT ![nextJob] = nextJob]
      /\ meeting' = [meeting EXCEPT ![nextJob] = m]
      /\ UNCHANGED <<transcript, old>>
      /\ pc' = [pc EXCEPT ![r] = "enqueue"] /\ on' = [on EXCEPT ![r] = nextJob]
      /\ r \notin Workers /\ r \in Procs
  BY DEF UploadRecording, Begin
<1>b. \A j \in Jobs : Row(j) => j < nextJob
  BY DEF RowsOK, Row
<1>c. file[nextJob] = None /\ \A n \in Jobs \ {nextJob} : file'[n] = file[n]
  BY <1>a DEF FilesOK, DirOK, TypeOK
<1>d. \A j \in Jobs : Row(j)' => Row(j) \/ j = nextJob
  <2>1. \A j \in Jobs \ {nextJob} : status'[j] # "none" => status[j] # "none"
    BY DEF UploadRecording, LiveJobs
  <2> QED BY <2>1 DEF Row
<1>e. \A j \in Jobs : Row(j) => rec'[j] = rec[j] /\ meeting'[j] = meeting[j] /\ rec[j] \in Jobs /\ rec[j] < nextJob
  <2>1. \A j \in Jobs : Row(j) => j # nextJob /\ rec[j] \in Jobs /\ rec[j] <= j
    BY <1>b DEF FilesOK, ChainOK, RowsOK, Row
  <2> QED BY <1>a, <1>b, <2>1 DEF TypeOK
<1>f. rec'[nextJob] = nextJob /\ file'[nextJob] = nextJob
  BY <1>a DEF TypeOK
<1>1. DirOK'
  <2>1. \A n \in Jobs : file'[n] # None => n < nextJob' /\ file'[n] < nextJob'
    BY <1>a, <1>c DEF FilesOK, DirOK, TypeOK
  <2>2. \A n \in Jobs : Row(n)' /\ file'[n] # None => file'[n] = rec'[n]
    BY <1>b, <1>c, <1>d, <1>e, <1>f DEF FilesOK, DirOK
  <2>3. \A n, k \in Jobs : file'[n] # None /\ file'[n] = file'[k] => n = k
    BY <1>a, <1>c DEF FilesOK, DirOK, TypeOK
  <2> QED BY <2>1, <2>2, <2>3 DEF DirOK
<1>2. ChainOK'
  <2>1. \A j \in Jobs : Row(j)' => rec'[j] <= j
    BY <1>a, <1>d, <1>e, <1>f DEF FilesOK, ChainOK
  <2>2. \A j, k \in Jobs : Row(j)' /\ Row(k)' /\ rec'[j] = rec'[k] /\ j # k =>
          Row(j) /\ Row(k) /\ rec[j] = rec[k]
    <3> SUFFICES ASSUME NEW j \in Jobs, NEW k \in Jobs, Row(j)', Row(k)', rec'[j] = rec'[k], j # k
                 PROVE  Row(j) /\ Row(k) /\ rec[j] = rec[k]
      OBVIOUS
    <3>1. ASSUME NEW i \in Jobs, Row(i) PROVE rec'[i] # nextJob
      BY <1>a, <1>e, <3>1
    <3>2. Row(j) /\ Row(k)
      BY <1>d, <1>f, <3>1
    <3> QED BY <1>e, <3>2
  <2>3. \A j, k \in Jobs : Row(j)' /\ Row(k)' /\ rec'[j] = rec'[k] => meeting'[j] = meeting'[k]
    BY <1>e, <2>2 DEF FilesOK, ChainOK
  <2>4. \A j, k \in Jobs : Row(j)' /\ Row(k)' /\ rec'[j] = rec'[k] /\ k < j => file'[k] = None
    <3> SUFFICES ASSUME NEW j \in Jobs, NEW k \in Jobs, Row(j)', Row(k)', rec'[j] = rec'[k], k < j
                 PROVE  file'[k] = None
      OBVIOUS
    <3>1. Row(j) /\ Row(k) /\ rec[j] = rec[k]
      BY <2>2
    <3>2. k \in Jobs \ {nextJob}
      BY <1>a, <1>b, <3>1
    <3> QED BY <1>c, <3>1, <3>2 DEF FilesOK, ChainOK
  <2> QED BY <2>1, <2>3, <2>4 DEF ChainOK
<1>3. MoveOK'
  <2> SUFFICES ASSUME NEW q \in Requests, pc'[q] = "renamed"
               PROVE  file'[old'[q]] = None /\ file'[on'[q]] \in {None, rec'[old'[q]]}
    BY DEF MoveOK
  <2>1. pc[q] = "renamed" /\ on'[q] = on[q] /\ old'[q] = old[q]
    BY <1>a DEF TypeOK
  <2>2. on[q] \in Jobs \ {nextJob} /\ old[q] \in Jobs \ {nextJob} /\ Row(old[q])
    BY <1>a, <1>b, <2>1 DEF RestartOK, ProcsOK, Row
  <2> QED BY <1>c, <1>e, <2>1, <2>2 DEF FilesOK, MoveOK
<1>4. WriteOK'
  <2> SUFFICES ASSUME NEW w \in Workers, pc'[w] = "write"
               PROVE  file'[on'[w]] = None
    BY DEF WriteOK
  <2>1. pc[w] = "write" /\ on'[w] = on[w]
    BY <1>a DEF TypeOK
  <2>2. on[w] \in Jobs \ {nextJob}
    BY <1>a, <1>b, <2>1 DEF ProcsOK, Row
  <2> QED BY <1>c, <2>1, <2>2 DEF FilesOK, WriteOK
<1>5. SpokenOK'
  <2> SUFFICES ASSUME NEW n \in Meetings, transcript[n] # None
               PROVE  /\ file'[transcript[n]] = None
                      /\ \A k \in Jobs : Row(k)' /\ rec'[k] = rec'[transcript[n]] => k <= transcript[n]
                      /\ \A q \in Requests : pc'[q] = "renamed" => old'[q] # transcript[n]
    BY <1>a DEF SpokenOK
  <2>1. transcript[n] \in Jobs \ {nextJob} /\ Row(transcript[n])
    BY <1>a, SpokenRow
  <2>2. /\ file[transcript[n]] = None
        /\ \A k \in Jobs : Row(k) /\ rec[k] = rec[transcript[n]] => k <= transcript[n]
        /\ \A q \in Requests : pc[q] = "renamed" => old[q] # transcript[n]
    BY DEF FilesOK, SpokenOK
  <2>3. file'[transcript[n]] = None
    BY <1>c, <2>1, <2>2
  <2>4. ASSUME NEW k \in Jobs, Row(k)', rec'[k] = rec'[transcript[n]] PROVE k <= transcript[n]
    <3>1. rec'[transcript[n]] = rec[transcript[n]] /\ rec[transcript[n]] < nextJob
      BY <1>e, <2>1
    <3>2. Row(k)
      BY <1>a, <1>d, <1>f, <2>4, <3>1
    <3> QED BY <1>e, <2>2, <2>4, <3>1, <3>2
  <2>5. \A q \in Requests : pc'[q] = "renamed" => old'[q] # transcript[n]
    BY <1>a, <2>2 DEF TypeOK
  <2> QED BY <2>3, <2>4, <2>5
<1> QED BY <1>1, <1>2, <1>3, <1>4, <1>5 DEF FilesOK

\* The rename takes the file from a live attempt, which wrote no transcript.
LEMMA FilesRename ==
    ASSUME Inv, FilesOK, NEW r \in Requests, NEW m \in Meetings, NEW j \in Jobs, RestartRename(r, m, j)
    PROVE  FilesOK'
<1> USE DEF Inv
<1>a. /\ nextJob \in Jobs /\ nextJob' = nextJob + 1
      /\ file' = [file EXCEPT ![j] = None, ![nextJob] = file[j]]
      /\ pc' = [pc EXCEPT ![r] = "renamed"] /\ on' = [on EXCEPT ![r] = nextJob]
      /\ old' = [old EXCEPT ![r] = j]
      /\ UNCHANGED <<transcript, status, meeting, rec, mstatus>>
      /\ mstatus[m] = "analyzing" /\ status[j] \in Live /\ meeting[j] = m /\ file[j] # None
      /\ pc[r] = "idle" /\ r \notin Workers /\ r \in Procs
  BY DEF RestartRename, LiveJobs
<1>b. \A k \in Jobs : Row(k) => k < nextJob
  BY DEF RowsOK, Row
<1>c. j # nextJob /\ Row(j)
  BY <1>a, <1>b DEF Row
<1>d. /\ file[nextJob] = None /\ file'[nextJob] = file[j] /\ file'[j] = None
      /\ \A n \in Jobs \ {nextJob, j} : file'[n] = file[n]
  BY <1>a, <1>c DEF FilesOK, DirOK, TypeOK
<1>e. \A k \in Jobs : Row(k)' <=> Row(k)
  BY <1>a DEF Row
<1>f. file[j] = rec[j]
  BY <1>a, <1>c DEF FilesOK, DirOK
<1>1. DirOK'
  <2>1. \A n \in Jobs : file'[n] # None => n < nextJob' /\ file'[n] < nextJob'
    BY <1>a, <1>d DEF FilesOK, DirOK, TypeOK
  <2>2. \A n \in Jobs : Row(n)' /\ file'[n] # None => file'[n] = rec'[n]
    <3> SUFFICES ASSUME NEW n \in Jobs, Row(n), file'[n] # None PROVE file'[n] = rec[n]
      BY <1>a, <1>e
    <3>1. n \in Jobs \ {nextJob, j}
      BY <1>a, <1>b, <1>d
    <3> QED BY <1>d, <3>1 DEF FilesOK, DirOK
  <2>3. \A n, k \in Jobs : file'[n] # None /\ file'[n] = file'[k] => n = k
    BY <1>a, <1>d DEF FilesOK, DirOK, TypeOK
  <2> QED BY <2>1, <2>2, <2>3 DEF DirOK
<1>2. ChainOK'
  <2>1. \A k \in Jobs : Row(k) => file'[k] \in {file[k], None}
    BY <1>b, <1>d
  <2> QED BY <1>a, <1>e, <2>1 DEF FilesOK, ChainOK
<1>3. MoveOK'
  <2> SUFFICES ASSUME NEW q \in Requests, pc'[q] = "renamed"
               PROVE  file'[old'[q]] = None /\ file'[on'[q]] \in {None, rec[old'[q]]}
    BY <1>a DEF MoveOK
  <2>1. CASE q = r
    <3>1. old'[q] = j /\ on'[q] = nextJob
      BY <1>a, <2>1 DEF TypeOK
    <3> QED BY <1>d, <1>f, <3>1
  <2>2. CASE q # r
    <3>1. pc[q] = "renamed" /\ on'[q] = on[q] /\ old'[q] = old[q]
      BY <1>a, <2>2 DEF TypeOK
    <3>2. on[q] \in Jobs \ {nextJob, j} /\ old[q] \in Jobs \ {nextJob}
      BY <1>a, <1>b, <3>1 DEF RestartOK, ProcsOK, Row
    <3>3. file[old[q]] = None /\ file[on[q]] \in {None, rec[old[q]]}
      BY <3>1 DEF FilesOK, MoveOK
    <3> QED BY <1>d, <3>1, <3>2, <3>3
  <2> QED BY <2>1, <2>2
<1>4. WriteOK'
  <2> SUFFICES ASSUME NEW w \in Workers, pc'[w] = "write"
               PROVE  file'[on'[w]] = None
    BY DEF WriteOK
  <2>1. pc[w] = "write" /\ on'[w] = on[w]
    BY <1>a DEF TypeOK
  <2>2. on[w] \in Jobs \ {nextJob}
    BY <1>a, <1>b, <2>1 DEF ProcsOK, Row
  <2> QED BY <1>d, <2>1, <2>2 DEF FilesOK, WriteOK
<1>5. SpokenOK'
  <2> SUFFICES ASSUME NEW n \in Meetings, transcript[n] # None
               PROVE  /\ file'[transcript[n]] = None
                      /\ \A q \in Requests : pc'[q] = "renamed" => old'[q] # transcript[n]
    <3>1. ASSUME NEW n \in Meetings, transcript[n] # None
          PROVE  \A k \in Jobs : Row(k)' /\ rec'[k] = rec'[transcript[n]] => k <= transcript[n]
      <4>1. \A k \in Jobs : Row(k) /\ rec[k] = rec[transcript[n]] => k <= transcript[n]
        BY <3>1 DEF FilesOK, SpokenOK
      <4> QED BY <1>a, <1>e, <4>1
    <3> QED BY <1>a, <3>1 DEF SpokenOK
  <2>1. transcript[n] \in Jobs \ {nextJob} /\ Row(transcript[n])
    BY <1>a, SpokenRow
  <2>2. /\ file[transcript[n]] = None
        /\ \A q \in Requests : pc[q] = "renamed" => old[q] # transcript[n]
    BY DEF FilesOK, SpokenOK
  <2>3. transcript[n] # j
    <3>1. Wrote(transcript[n])
      BY DEF Wrote
    <3>2. status[transcript[n]] \in Live => mstatus[meeting[transcript[n]]] # "analyzing"
      BY <2>1, <3>1 DEF WroteOK
    <3> QED BY <1>a, <3>2
  <2>4. file'[transcript[n]] = None
    BY <1>d, <2>1, <2>2, <2>3
  <2>5. \A q \in Requests : pc'[q] = "renamed" => old'[q] # transcript[n]
    BY <1>a, <2>2, <2>3 DEF TypeOK
  <2> QED BY <2>4, <2>5
<1> QED BY <1>1, <1>2, <1>3, <1>4, <1>5 DEF FilesOK

\* The new row takes the recording over; the old one was the newest with it.
LEMMA FilesCommit ==
    ASSUME Inv, FilesOK, NEW r \in Requests, RestartCommit(r)
    PROVE  FilesOK'
<1> USE DEF Inv
<1> PICK a, o : a = on[r] /\ o = old[r]
  OBVIOUS
<1>a. /\ pc[r] = "renamed" /\ a \in Jobs /\ o \in Jobs /\ r \in Procs /\ r \notin Workers
      /\ status[a] = "none" /\ status[o] \in Live /\ a < nextJob /\ o < a
      /\ \A k \in Jobs : Row(k) /\ meeting[k] = meeting[o] => k < a
  BY DEF RestartCommit, ProcsOK, RestartOK, Row
<1>b. /\ status' = [status EXCEPT ![o] = "superseded", ![a] = "queued"]
      /\ meeting' = [meeting EXCEPT ![a] = meeting[o]]
      /\ rec' = [rec EXCEPT ![a] = rec[o]]
      /\ pc' = [pc EXCEPT ![r] = "enqueue"] /\ old' = [old EXCEPT ![r] = None]
      /\ UNCHANGED <<on, mstatus, transcript, file, nextJob>>
  BY DEF RestartCommit
<1>c. /\ Row(o) /\ ~Row(a)
      /\ \A k \in Jobs : Row(k)' => Row(k) \/ k = a
  BY <1>a, <1>b DEF Row, TypeOK
<1>d. /\ \A k \in Jobs : Row(k) => rec'[k] = rec[k] /\ meeting'[k] = meeting[k]
      /\ rec'[a] = rec[o] /\ meeting'[a] = meeting[o]
  BY <1>a, <1>b, <1>c DEF TypeOK
<1>e. file[o] = None /\ file[a] \in {None, rec[o]}
  BY <1>a DEF FilesOK, MoveOK
<1>f. \A k \in Jobs : Row(k) /\ rec[k] = rec[o] => meeting[k] = meeting[o] /\ k <= o /\ k < a
  <2> SUFFICES ASSUME NEW k \in Jobs, Row(k), rec[k] = rec[o] PROVE meeting[k] = meeting[o] /\ k <= o /\ k < a
    OBVIOUS
  <2>1. meeting[k] = meeting[o]
    BY <1>a, <1>c DEF FilesOK, ChainOK
  <2>2. k <= o
    BY <1>a, <2>1 DEF NewestLive, Row
  <2> QED BY <1>a, <2>1, <2>2
<1>1. DirOK'
  <2>1. \A n \in Jobs : Row(n)' /\ file[n] # None => file[n] = rec'[n]
    BY <1>c, <1>d, <1>e DEF FilesOK, DirOK
  <2> QED BY <1>b, <2>1 DEF FilesOK, DirOK
<1>2. ChainOK'
  <2>1. \A j \in Jobs : Row(j)' => rec'[j] <= j
    <3>1. rec[o] \in Jobs /\ rec[o] <= o
      BY <1>a, <1>c DEF FilesOK, ChainOK, RowsOK, Row
    <3> QED BY <1>a, <1>c, <1>d, <3>1 DEF FilesOK, ChainOK
  <2>2. \A j, k \in Jobs : Row(j)' /\ Row(k)' /\ rec'[j] = rec'[k] => meeting'[j] = meeting'[k]
    BY <1>c, <1>d, <1>f DEF FilesOK, ChainOK
  <2>3. ASSUME NEW j \in Jobs, NEW k \in Jobs, Row(j)', Row(k)', rec'[j] = rec'[k], k < j
        PROVE  file[k] = None
    <3>1. CASE j = a
      <4>1. Row(k) /\ rec[k] = rec[o]
        BY <1>c, <1>d, <2>3, <3>1
      <4>2. CASE k = o
        BY <1>e, <4>2
      <4>3. CASE k # o
        <5>1. k < o
          BY <1>a, <1>f, <4>1, <4>3
        <5> QED BY <1>a, <1>c, <4>1, <5>1 DEF FilesOK, ChainOK
      <4> QED BY <4>2, <4>3
    <3>2. CASE j # a
      <4>1. Row(j)
        BY <1>c, <2>3, <3>2
      <4>2. k # a
        <5> SUFFICES ASSUME k = a PROVE FALSE
          OBVIOUS
        <5>1. rec[j] = rec[o]
          BY <1>d, <2>3, <4>1
        <5>2. j < a
          BY <1>f, <4>1, <5>1
        <5> QED BY <1>a, <2>3, <5>2
      <4>3. Row(k) /\ rec[j] = rec[k]
        BY <1>c, <1>d, <2>3, <4>1, <4>2
      <4> QED BY <2>3, <4>1, <4>3 DEF FilesOK, ChainOK
    <3> QED BY <3>1, <3>2
  <2> QED BY <1>b, <2>1, <2>2, <2>3 DEF ChainOK
<1>3. MoveOK'
  <2> SUFFICES ASSUME NEW q \in Requests, pc'[q] = "renamed"
               PROVE  file[old'[q]] = None /\ file[on[q]] \in {None, rec'[old'[q]]}
    BY <1>b DEF MoveOK
  <2>1. q # r /\ pc[q] = "renamed" /\ old'[q] = old[q]
    BY <1>a, <1>b DEF TypeOK
  <2>2. old[q] \in Jobs /\ Row(old[q])
    BY <2>1 DEF RestartOK, Row
  <2>3. file[old[q]] = None /\ file[on[q]] \in {None, rec[old[q]]}
    BY <2>1 DEF FilesOK, MoveOK
  <2> QED BY <1>d, <2>1, <2>2, <2>3
<1>4. WriteOK'
  <2>1. \A w \in Workers : pc'[w] = pc[w]
    BY <1>a, <1>b DEF TypeOK
  <2> QED BY <1>b, <2>1 DEF FilesOK, WriteOK
<1>5. SpokenOK'
  <2> SUFFICES ASSUME NEW n \in Meetings, transcript[n] # None
               PROVE  /\ file[transcript[n]] = None
                      /\ \A k \in Jobs : Row(k)' /\ rec'[k] = rec'[transcript[n]] => k <= transcript[n]
                      /\ \A q \in Requests : pc'[q] = "renamed" => old'[q] # transcript[n]
    BY <1>b DEF SpokenOK
  <2>1. transcript[n] \in Jobs /\ Row(transcript[n])
    BY SpokenRow
  <2>2. /\ file[transcript[n]] = None
        /\ \A k \in Jobs : Row(k) /\ rec[k] = rec[transcript[n]] => k <= transcript[n]
        /\ \A q \in Requests : pc[q] = "renamed" => old[q] # transcript[n]
    BY DEF FilesOK, SpokenOK
  <2>3. rec[o] # rec[transcript[n]]
    <3> SUFFICES ASSUME rec[o] = rec[transcript[n]] PROVE FALSE
      OBVIOUS
    <3>1. o <= transcript[n] /\ transcript[n] <= o
      BY <1>a, <1>c, <1>f, <2>1, <2>2
    <3>2. o # transcript[n]
      BY <1>a, <2>2
    <3> QED BY <1>a, <2>1, <3>1, <3>2
  <2>4. ASSUME NEW k \in Jobs, Row(k)', rec'[k] = rec'[transcript[n]] PROVE k <= transcript[n]
    <3>1. rec'[transcript[n]] = rec[transcript[n]]
      BY <1>d, <2>1
    <3>2. k # a
      BY <1>d, <2>3, <2>4, <3>1
    <3>3. Row(k)
      BY <1>c, <2>4, <3>2
    <3> QED BY <1>d, <2>2, <2>4, <3>1, <3>3
  <2>5. \A q \in Requests : pc'[q] = "renamed" => old'[q] # transcript[n]
    BY <1>a, <1>b, <2>2 DEF TypeOK
  <2> QED BY <2>2, <2>4, <2>5
<1> QED BY <1>1, <1>2, <1>3, <1>4, <1>5 DEF FilesOK

\* The writer's attempt is running, so the newest; its lock keeps restarts out.
LEMMA FilesWrite ==
    ASSUME Inv, FilesOK, NEW w \in Workers, WriteTranscript(w)
    PROVE  FilesOK'
<1> USE DEF Inv
<1>a. /\ pc[w] = "write" /\ on[w] \in Jobs /\ status[on[w]] = "running" /\ ~JobLocked(on[w])
      /\ transcript' = [transcript EXCEPT ![meeting[on[w]]] = on[w]]
      /\ pc' = [pc EXCEPT ![w] = "publish"]
      /\ UNCHANGED <<status, meeting, rec, file, on, old, nextJob>> /\ w \notin Requests
      /\ meeting[on[w]] \in Meetings
  BY DEF WriteTranscript, Fence, Goto, ProcsOK, RowsOK
<1>b. /\ \A k \in Jobs : Row(k)' <=> Row(k)
      /\ \A q \in Requests : pc'[q] = pc[q]
      /\ \A v \in Workers : pc'[v] = "write" => pc[v] = "write"
  BY <1>a DEF Row, TypeOK
<1>1. DirOK' /\ ChainOK' /\ MoveOK' /\ WriteOK'
  BY <1>a, <1>b DEF FilesOK, DirOK, ChainOK, MoveOK, WriteOK
<1>2. SpokenOK'
  <2> SUFFICES ASSUME NEW n \in Meetings, transcript'[n] # None
               PROVE  /\ file[transcript'[n]] = None
                      /\ \A k \in Jobs : Row(k) /\ rec[k] = rec[transcript'[n]] => k <= transcript'[n]
                      /\ \A q \in Requests : pc[q] = "renamed" => old[q] # transcript'[n]
    BY <1>a, <1>b DEF SpokenOK
  <2>1. CASE n # meeting[on[w]]
    <3>1. transcript'[n] = transcript[n]
      BY <1>a, <2>1 DEF TypeOK
    <3> QED BY <3>1 DEF FilesOK, SpokenOK
  <2>2. CASE n = meeting[on[w]]
    <3>1. transcript'[n] = on[w]
      BY <1>a, <2>2 DEF TypeOK
    <3>2. file[on[w]] = None
      BY <1>a DEF FilesOK, WriteOK
    <3>3. ASSUME NEW k \in Jobs, Row(k), rec[k] = rec[on[w]] PROVE k <= on[w]
      <4>1. meeting[k] = meeting[on[w]]
        BY <1>a, <3>3 DEF FilesOK, ChainOK, Row
      <4> QED BY <1>a, <3>3, <4>1 DEF NewestLive, Row
    <3>4. \A q \in Requests : pc[q] = "renamed" => old[q] # on[w]
      BY <1>a DEF JobLocked
    <3> QED BY <3>1, <3>2, <3>3, <3>4
  <2> QED BY <2>1, <2>2
<1> QED BY <1>1, <1>2 DEF FilesOK

LEMMA FilesStep == ASSUME Inv, FilesOK, [Next]_vars PROVE FilesOK'
<1>1. CASE \E r \in Requests, m \in Meetings : UploadRecording(r, m) \/ UploadDies(r, m)
  BY <1>1, FilesUpload, FilesUploadDies
<1>2. CASE \E r \in Requests, m \in Meetings, j \in Jobs : RestartRename(r, m, j)
  BY <1>2, FilesRename
<1>3. CASE \E r \in Requests : RestartCommit(r)
  BY <1>3, FilesCommit
<1>4. CASE \E w \in Workers : WriteTranscript(w)
  BY <1>4, FilesWrite
<1>5. CASE OldRows /\ OldFiles /\ \A m \in Meetings : transcript'[m] \in {transcript[m], None}
  <2>1. Inv'
    BY NextInv
  <2> QED BY <1>5, <2>1, FilesFewer
<1>6. \/ \E r \in Requests, m \in Meetings : UploadRecording(r, m)
      \/ \E r \in Requests : RestartCommit(r)
      \/ OldRows
  BY RowSteps
<1>7. \/ \E r \in Requests, m \in Meetings : UploadRecording(r, m) \/ UploadDies(r, m)
      \/ \E r \in Requests, m \in Meetings, j \in Jobs : RestartRename(r, m, j)
      \/ OldFiles
  BY FileSteps
<1>8. \/ \E w \in Workers : WriteTranscript(w)
      \/ \A m \in Meetings : transcript'[m] \in {transcript[m], None}
  BY TranscriptSteps
<1> QED BY <1>1, <1>2, <1>3, <1>4, <1>5, <1>6, <1>7, <1>8

LEMMA FilesInvariance == Spec => [](Inv /\ FilesOK)
<1>1. Init => Inv /\ FilesOK
  BY InitInv, FilesInit
<1>2. Inv /\ FilesOK /\ [Next]_vars => (Inv /\ FilesOK)'
  BY NextInv, FilesStep
<1> QED BY <1>1, <1>2, PTL DEF Spec

\* original_audio_deleted is true: once a transcript is committed, no row of its
\* recording has a file, although a restart may have renamed it meanwhile.
THEOREM AudioIsGone == Spec => []TranscriptMeansAudioGone
<1>1. Inv /\ FilesOK => TranscriptMeansAudioGone
  <2> SUFFICES ASSUME Inv, FilesOK, NEW m \in Meetings, transcript[m] # None,
                      NEW n \in Jobs, file[n] = rec[transcript[m]], Row(n)
               PROVE  FALSE
    BY DEF TranscriptMeansAudioGone, Row
  <2> DEFINE t == transcript[m]
  <2>1. t \in Jobs /\ Row(t) /\ rec[t] \in Jobs /\ file[t] = None
    BY SpokenRow DEF Inv, RowsOK, Row, FilesOK, SpokenOK
  <2>2. file[n] # None
    BY <2>1
  <2>3. rec[n] = rec[t]
    BY <2>2 DEF FilesOK, DirOK
  <2>4. n <= t /\ n # t
    BY <2>1, <2>2, <2>3 DEF FilesOK, SpokenOK
  <2>5. n < t
    BY <2>1, <2>4
  <2> HIDE DEF t
  <2> QED BY <2>1, <2>2, <2>3, <2>5 DEF FilesOK, ChainOK
<1> QED BY <1>1, FilesInvariance, PTL

-----------------------------------------------------------------------------
(* The recordings that are still needed                                    *)

\* Its recording is still to be read, or being read.
Needed(j) ==
    \/ status[j] = "queued"
    \/ status[j] = "running" /\ \E w \in Workers : on[w] = j /\ pc[w] \in Adopting

\* Whoever is about to delete a file on its own finds the attempt over; what a
\* sweep read as overdue stays overdue; a restart after its rename holds a
\* recording that is there.
KeptOK ==
    /\ RecordingKept
    /\ \A r \in Requests : pc[r] = "renamed" =>
           file[on[r]] = rec[old[r]] \/ age[rec[old[r]]] = "overdue"
    /\ \A p \in Procs : pc[p] \in {"decline", "drop"} => Spent(on[p])
    /\ \A s \in Sweepers : \A j \in doomed[s] : age[rec[j]] = "overdue"

LEMMA KeptInit == Init => KeptOK
BY DEF Init, KeptOK, RecordingKept

\* A recording only grows older.
LEMMA AgesGrow ==
    ASSUME Inv, [Next]_vars, NEW r \in Jobs, age[r] = "overdue" PROVE age'[r] = "overdue"
<1>1. age' = age \/ \E q \in Jobs : GrowOld(q)
  <2>1. CASE UNCHANGED vars
    BY <2>1 DEF vars
  <2>2. ASSUME NEW q \in Requests, RequestStep(q) PROVE age' = age
    BY <2>2 DEF RequestStep, Enqueue, EnqueueFails, RestartCommit, DropRecording, RequestDies,
       UploadRecording, UploadDies, CancelTranscription, RestartRename
  <2>3. ASSUME NEW w \in Workers, WorkerStep(w) PROVE age' = age
    BY <2>3 DEF WorkerStep, Task, Deliver, DeleteDeclined, Decode, LeaveAdopt, StopJob, Publish,
       WriteTranscript, MarkUnannounced, MarkPublished, ClaimJob, ClaimMissing, StageFails,
       PublishFails, WorkerDies, HeartBeat
  <2>4. ASSUME NEW p \in Procs, MarkFailed(p) PROVE age' = age
    BY <2>4 DEF MarkFailed, MarkFailedRead, MarkFailedJob, MarkFailedCommit
  <2>5. ASSUME NEW s \in Sweepers, Sweep(s) PROVE age' = age
    BY <2>5 DEF Sweep, SweepMark, SweepFinish, SweepAborts
  <2>6. CASE SweepBegin \/ \E j \in Jobs : GoQuiet(j) \/ LoseMessage(j)
    BY <2>6 DEF SweepBegin, GoQuiet, LoseMessage
  <2>7. ASSUME NEW m \in Meetings, DeleteMeeting(m) \/ ExpireMeeting(m) PROVE age' = age
    BY <2>7 DEF DeleteMeeting, ExpireMeeting
  <2> QED BY <2>1, <2>2, <2>3, <2>4, <2>5, <2>6, <2>7 DEF Next
<1>2. ASSUME NEW q \in Jobs, GrowOld(q) PROVE age'[r] = "overdue"
  BY <1>2 DEF GrowOld, Inv, TypeOK
<1> QED BY <1>1, <1>2

\* Rows keep their recordings, and what is over stays over.
LEMMA RowsKeep ==
    ASSUME Inv, [Next]_vars, NEW j \in Jobs
    PROVE  /\ Row(j) => Row(j)' /\ rec'[j] = rec[j] /\ meeting'[j] = meeting[j]
           /\ Spent(j) => Spent(j)'
           /\ status'[j] = "running" => status[j] \in Live
           /\ Row(j) /\ status'[j] = "queued" => status[j] = "queued"
<1> USE DEF Inv
<1>1. ASSUME NEW r \in Requests, NEW m \in Meetings, UploadRecording(r, m)
      PROVE  /\ Row(j) => Row(j)' /\ rec'[j] = rec[j] /\ meeting'[j] = meeting[j]
             /\ Spent(j) => Spent(j)'
             /\ status'[j] = "running" => status[j] \in Live
             /\ Row(j) /\ status'[j] = "queued" => status[j] = "queued"
  <2>1. /\ status' = [k \in Jobs |-> IF k = nextJob THEN "queued"
                                     ELSE IF k \in LiveJobs(m) THEN "superseded" ELSE status[k]]
        /\ meeting' = [meeting EXCEPT ![nextJob] = m]
        /\ rec' = [rec EXCEPT ![nextJob] = nextJob]
        /\ nextJob \in Jobs
    BY <1>1 DEF UploadRecording
  <2>2. j = nextJob => ~Row(j) /\ ~Spent(j)
    BY <2>1 DEF RowsOK, Row, Spent
  <2>3. j # nextJob => rec'[j] = rec[j] /\ meeting'[j] = meeting[j] /\ status'[j] \in {status[j], "superseded"}
    BY <2>1 DEF TypeOK
  <2>4. j = nextJob => status'[j] = "queued"
    BY <2>1
  <2> QED BY <2>2, <2>3, <2>4 DEF Row, Spent
<1>2. ASSUME NEW r \in Requests, RestartCommit(r)
      PROVE  /\ Row(j) => Row(j)' /\ rec'[j] = rec[j] /\ meeting'[j] = meeting[j]
             /\ Spent(j) => Spent(j)'
             /\ status'[j] = "running" => status[j] \in Live
             /\ Row(j) /\ status'[j] = "queued" => status[j] = "queued"
  <2>1. /\ status' = [status EXCEPT ![old[r]] = "superseded", ![on[r]] = "queued"]
        /\ meeting' = [meeting EXCEPT ![on[r]] = meeting[old[r]]]
        /\ rec' = [rec EXCEPT ![on[r]] = rec[old[r]]]
        /\ on[r] \in Jobs /\ old[r] \in Jobs /\ status[on[r]] = "none"
    BY <1>2 DEF RestartCommit, RestartOK, ProcsOK
  <2>2. j = on[r] => ~Row(j) /\ ~Spent(j) /\ status'[j] = "queued"
    BY <2>1 DEF Row, Spent, TypeOK
  <2>3. j # on[r] => rec'[j] = rec[j] /\ meeting'[j] = meeting[j] /\ status'[j] \in {status[j], "superseded"}
    BY <2>1 DEF TypeOK
  <2> QED BY <2>2, <2>3 DEF Row, Spent
<1>3. CASE OldRows
  BY <1>3 DEF OldRows
<1> QED BY <1>1, <1>2, <1>3, RowSteps

\* What a sweep deletes is over, or has had its six hours.
LEMMA SweepDeletes ==
    ASSUME Inv, FilesOK, KeptOK, NEW s \in Sweepers, NEW n \in Swept(s), n \in Jobs, file[n] # None
    PROVE  Spent(n) \/ age[file[n]] = "overdue"
<1> USE DEF Inv
<1>1. CASE n \in doomed[s]
  <2>1. Row(n) /\ age[rec[n]] = "overdue"
    BY <1>1 DEF RowsOK, Row, KeptOK
  <2> QED BY <2>1 DEF FilesOK, DirOK
<1>2. CASE n \in Orphans(Keep(s))
  BY <1>2 DEF Orphans, Overdue, Spent
<1> QED BY <1>1, <1>2 DEF Swept

\* Why a file leaves its name: its attempt is over, its six hours are, the
\* worker that was reading it has stopped, or a restart has renamed it.
LEMMA FileGoes ==
    ASSUME Inv, FilesOK, KeptOK, [Next]_vars, NEW n \in Jobs, file[n] # None, file'[n] # file[n]
    PROVE  \/ Spent(n)
           \/ age[file[n]] = "overdue"
           \/ \E w \in Workers : on[w] = n /\ pc[w] \in Adopting /\ pc'[w] \notin Adopting
           \/ status[n] \in Live /\ \E k \in Jobs : file'[k] = file[n]
<1> USE DEF Inv
<1> DEFINE Why == \/ Spent(n)
                  \/ age[file[n]] = "overdue"
                  \/ \E w \in Workers : on[w] = n /\ pc[w] \in Adopting /\ pc'[w] \notin Adopting
                  \/ status[n] \in Live /\ \E k \in Jobs : file'[k] = file[n]
<1>a. nextJob \in Jobs => file[nextJob] = None
  BY DEF FilesOK, DirOK, TypeOK
<1>1. CASE UNCHANGED vars
  BY <1>1 DEF vars
<1>2. ASSUME NEW r \in Requests, RequestStep(r) PROVE Why
  <2>1. ASSUME NEW m \in Meetings, UploadRecording(r, m) \/ UploadDies(r, m) PROVE Why
    BY <1>a, <2>1 DEF UploadRecording, UploadDies, TypeOK
  <2>2. ASSUME NEW m \in Meetings, NEW j \in Jobs, RestartRename(r, m, j) PROVE Why
    <3>1. /\ file' = [file EXCEPT ![j] = None, ![nextJob] = file[j]]
          /\ nextJob \in Jobs /\ status[j] \in Live
      BY <2>2 DEF RestartRename, LiveJobs
    <3>2. n = j
      BY <1>a, <3>1 DEF TypeOK
    <3>3. file'[nextJob] = file[n]
      BY <3>1, <3>2 DEF TypeOK
    <3> QED BY <3>1, <3>2, <3>3
  <2>3. CASE DropRecording(r)
    <3>1. pc[r] = "drop" /\ n = on[r]
      BY <2>3 DEF DropRecording, Deleted, TypeOK
    <3> QED BY <3>1 DEF KeptOK
  <2> QED BY <1>2, <2>1, <2>2, <2>3 DEF RequestStep, Enqueue, EnqueueFails, RestartCommit, RequestDies,
                                       CancelTranscription
<1>3. ASSUME NEW w \in Workers, WorkerStep(w) PROVE Why
  <2>1. CASE DeleteDeclined(w)
    <3>1. pc[w] = "decline" /\ n = on[w]
      BY <2>1 DEF DeleteDeclined, Deleted, TypeOK
    <3> QED BY <3>1 DEF KeptOK
  <2>2. CASE LeaveAdopt(w) \/ StopJob(w) \/ StageFails(w)
    <3>1. pc[w] \in Adopting /\ n = on[w]
      BY <2>2 DEF LeaveAdopt, StopJob, StageFails, Deleted, TypeOK
    <3>2. pc'[w] \in {"write", "idle", "fail"}
      BY <2>2 DEF LeaveAdopt, StopJob, StageFails, Goto, Ack, Leave, TypeOK
    <3> QED BY <3>1, <3>2
  <2> QED BY <1>3, <2>1, <2>2 DEF WorkerStep, Task, Deliver, Decode, Publish, WriteTranscript,
        MarkUnannounced, MarkPublished, ClaimJob, ClaimMissing, PublishFails, WorkerDies, HeartBeat
<1>4. ASSUME NEW p \in Procs, MarkFailed(p) PROVE Why
  BY <1>4 DEF MarkFailed, MarkFailedRead, MarkFailedJob, MarkFailedCommit
<1>5. ASSUME NEW s \in Sweepers, Sweep(s) PROVE Why
  <2>1. n \in Swept(s)
    BY <1>5 DEF Sweep, SweepMark, SweepFinish, SweepAborts
  <2> QED BY <2>1, SweepDeletes
<1>6. CASE SweepBegin \/ \E j \in Jobs : GoQuiet(j) \/ GrowOld(j) \/ LoseMessage(j)
  BY <1>6 DEF SweepBegin, GoQuiet, GrowOld, LoseMessage
<1>7. ASSUME NEW m \in Meetings, DeleteMeeting(m) \/ ExpireMeeting(m) PROVE Why
  <2>1. meeting[n] = m /\ LiveJobs(m) = {}
    BY <1>7 DEF DeleteMeeting, ExpireMeeting, JobsOf
  <2>2. status[n] \notin Live /\ status[n] # "none"
    BY <2>1 DEF LiveJobs, RowsOK
  <2> QED BY <2>2 DEF Spent, TypeOK
<1> QED BY <1>1, <1>2, <1>3, <1>4, <1>5, <1>6, <1>7 DEF Next

\* A worker that is reading was reading, or has claimed a queued attempt.
LEMMA ReaderSteps ==
    ASSUME Inv, [Next]_vars, NEW v \in Workers, pc'[v] \in Adopting
    PROVE  on'[v] = on[v] /\ on[v] \in Jobs /\ (pc[v] \in Adopting \/ status[on[v]] = "queued")
<1> USE DEF Inv
<1> DEFINE Was == on'[v] = on[v] /\ on[v] \in Jobs /\ (pc[v] \in Adopting \/ status[on[v]] = "queued")
<1>1. CASE pc'[v] = pc[v] /\ on'[v] = on[v]
  BY <1>1 DEF ProcsOK
<1>2. CASE UNCHANGED vars
  BY <1>1, <1>2 DEF vars
<1>3. ASSUME NEW r \in Requests, RequestStep(r) PROVE Was
  BY <1>1, <1>3 DEF RequestStep, Enqueue, EnqueueFails, RestartCommit, DropRecording, RequestDies,
     UploadRecording, UploadDies, CancelTranscription, RestartRename, Begin, Leave, Goto, TypeOK
<1>4. ASSUME NEW w \in Workers, WorkerStep(w) PROVE Was
  <2>1. CASE w # v
    <3>1. pc'[v] = pc[v] /\ on'[v] = on[v]
      BY <1>4, <2>1 DEF WorkerStep, Task, Deliver, DeleteDeclined, Decode, LeaveAdopt, StopJob, Publish,
         WriteTranscript, MarkUnannounced, MarkPublished, ClaimJob, ClaimMissing, StageFails,
         PublishFails, WorkerDies, HeartBeat, Begin, Ack, Leave, Goto, TypeOK
    <3> QED BY <1>1, <3>1
  <2>2. CASE w = v
    <3>1. CASE Decode(w)
      BY <2>2, <3>1 DEF Decode, Goto, ProcsOK
    <3>2. CASE (\E j \in Jobs : ClaimMissing(w, j)) \/ HeartBeat(w)
      BY <1>1, <2>2, <3>2 DEF ClaimMissing, HeartBeat
    <3>3. CASE \/ DeleteDeclined(w) \/ StopJob(w) \/ MarkUnannounced(w) \/ MarkPublished(w) \/ WorkerDies(w)
      BY <2>2, <3>3 DEF DeleteDeclined, StopJob, MarkUnannounced, MarkPublished, WorkerDies, Ack, Leave, TypeOK
    <3>4. CASE LeaveAdopt(w) \/ Publish(w) \/ WriteTranscript(w) \/ StageFails(w) \/ PublishFails(w)
      BY <2>2, <3>4 DEF LeaveAdopt, Publish, WriteTranscript, StageFails, PublishFails, Goto, TypeOK
    <3>5. CASE \E j \in Jobs : ClaimJob(w, j)
      BY <2>2, <3>5 DEF ClaimJob, Begin, TypeOK
    <3> QED BY <1>4, <3>1, <3>2, <3>3, <3>4, <3>5 DEF WorkerStep, Task, Deliver
  <2> QED BY <2>1, <2>2
<1>5. ASSUME NEW p \in Procs, MarkFailed(p) PROVE Was
  <2>1. Leave(p) \/ \E l \in {"drop", "failRead", "failMark", "failSkip"} : Goto(p, l)
    BY <1>5 DEF MarkFailed, MarkFailedRead, MarkFailedJob, MarkFailedCommit, AfterFailure, Ack
  <2> QED BY <1>1, <2>1 DEF Leave, Goto, TypeOK
<1>6. ASSUME NEW s \in Sweepers, Sweep(s) PROVE Was
  <2>1. CASE UNCHANGED procs
    BY <1>1, <2>1
  <2>2. CASE ~UNCHANGED procs
    <3>0. SweepFinish(s) \/ SweepAborts(s)
      BY <1>6, <2>2 DEF Sweep, SweepMark
    <3>1. s \in Workers /\ (Ack(s) \/ (SweepFinish(s) /\ AfterClaim(s)))
      <4>1. s # Beat
        BY <2>2, <3>0 DEF SweepFinish, SweepAborts
      <4>2. SweepFinish(s) => AfterClaim(s)
        BY <4>1 DEF SweepFinish
      <4>3. SweepAborts(s) => Ack(s)
        BY <4>1 DEF SweepAborts
      <4> QED BY <3>0, <4>1, <4>2, <4>3
    <3>2. CASE Ack(s)
      BY <1>1, <3>1, <3>2 DEF Ack, Leave, TypeOK
    <3>3. CASE SweepFinish(s) /\ AfterClaim(s) /\ ~Ack(s)
      <4>1. pc[s] = "claim"
        BY <3>1, <3>3 DEF SweepFinish, ProcsOK
      <4>2. on' = on /\ on[s] \in Jobs
        BY <3>3, <4>1, <3>1 DEF AfterClaim, Goto, ProcsOK
      <4>3. \/ status[on[s]] = "queued"
            \/ pc' = [pc EXCEPT ![s] = "decline"]
        BY <3>3 DEF AfterClaim, Goto
      <4>4. v # s => pc'[v] = pc[v]
        BY <3>3 DEF AfterClaim, Goto, TypeOK
      <4>5. v = s => status[on[v]] = "queued"
        BY <3>1, <4>3 DEF TypeOK
      <4> QED BY <1>1, <4>2, <4>4, <4>5
    <3> QED BY <3>1, <3>2, <3>3
  <2> QED BY <2>1, <2>2
<1>7. CASE \/ SweepBegin \/ (\E j \in Jobs : GoQuiet(j) \/ GrowOld(j) \/ LoseMessage(j))
           \/ \E m \in Meetings : DeleteMeeting(m) \/ ExpireMeeting(m)
  BY <1>1, <1>7 DEF SweepBegin, GoQuiet, GrowOld, LoseMessage, DeleteMeeting, ExpireMeeting
<1> QED BY <1>2, <1>3, <1>4, <1>5, <1>6, <1>7 DEF Next

\* A new attempt finds its recording under its own name.
LEMMA NewRow ==
    ASSUME Inv, FilesOK, KeptOK, [Next]_vars, NEW j \in Jobs, ~Row(j), status'[j] = "queued"
    PROVE  /\ rec'[j] \in Jobs
           /\ file'[j] = rec'[j] \/ age'[rec'[j]] = "overdue"
<1> USE DEF Inv
<1>1. CASE \E r \in Requests, m \in Meetings : UploadRecording(r, m)
  <2>1. PICK r \in Requests, m \in Meetings : UploadRecording(r, m)
    BY <1>1
  <2>2. j = nextJob
    BY <2>1 DEF UploadRecording, Row, LiveJobs
  <2> QED BY <2>1, <2>2 DEF UploadRecording, TypeOK
<1>2. CASE \E r \in Requests : RestartCommit(r)
  <2>1. PICK r \in Requests : RestartCommit(r)
    BY <1>2
  <2>2. /\ pc[r] = "renamed" /\ on[r] \in Jobs /\ old[r] \in Jobs /\ Row(old[r])
        /\ rec' = [rec EXCEPT ![on[r]] = rec[old[r]]] /\ file' = file /\ age' = age
        /\ status' = [status EXCEPT ![old[r]] = "superseded", ![on[r]] = "queued"]
    BY <2>1 DEF RestartCommit, RestartOK, ProcsOK, Row
  <2>3. j = on[r]
    BY <2>2 DEF Row, TypeOK
  <2>4. rec'[j] = rec[old[r]] /\ rec[old[r]] \in Jobs
    BY <2>2, <2>3 DEF TypeOK, RowsOK, Row
  <2>5. file[on[r]] = rec[old[r]] \/ age[rec[old[r]]] = "overdue"
    BY <2>2 DEF KeptOK
  <2> QED BY <2>2, <2>3, <2>4, <2>5
<1>3. CASE OldRows
  BY <1>3 DEF OldRows, Row
<1> QED BY <1>1, <1>2, <1>3, RowSteps

\* An attempt needs its recording because it did before, or is new.
LEMMA StillNeeded ==
    ASSUME Inv, [Next]_vars, NEW j \in Jobs, Row(j), Needed(j)'
    PROVE  /\ Needed(j)
           /\ status[j] \in Live
           /\ \A w \in Workers : on[w] = j /\ pc[w] \in Adopting => pc'[w] \in Adopting
<1> USE DEF Inv
<1>1. CASE status'[j] = "queued"
  <2>1. status[j] = "queued"
    BY <1>1, RowsKeep
  <2> QED BY <2>1 DEF Needed, RunOK
<1>2. CASE status'[j] # "queued"
  <2>1. PICK v \in Workers : status'[j] = "running" /\ on'[v] = j /\ pc'[v] \in Adopting
    BY <1>2 DEF Needed
  <2>2. status[j] \in Live /\ on[v] = j /\ (pc[v] \in Adopting \/ status[j] = "queued")
    BY <2>1, RowsKeep, ReaderSteps
  <2>3. Needed(j)
    BY <2>2 DEF Needed
  <2>4. \A w \in Workers : on[w] = j /\ pc[w] \in Adopting => pc'[w] \in Adopting
    <3> SUFFICES ASSUME NEW w \in Workers, on[w] = j, pc[w] \in Adopting PROVE pc'[w] \in Adopting
      OBVIOUS
    <3>1. status[j] # "queued"
      BY DEF RunOK
    <3>2. w = v
      BY <2>2, <3>1 DEF RunOK
    <3> QED BY <2>1, <3>2
  <2> QED BY <2>2, <2>3, <2>4
<1> QED BY <1>1, <1>2

LEMMA KeptIs ==
    RecordingKept <=> \A j \in Jobs : Needed(j) => OnDisk(rec[j]) \/ age[rec[j]] = "overdue"
BY DEF RecordingKept, Needed

LEMMA KeptIsNext ==
    RecordingKept' <=> \A j \in Jobs : Needed(j)' => OnDisk(rec[j])' \/ age'[rec'[j]] = "overdue"
BY DEF RecordingKept, Needed

LEMMA RecordingStep ==
    ASSUME Inv, FilesOK, KeptOK, [Next]_vars
    PROVE  RecordingKept'
<1> USE DEF Inv
<1> SUFFICES ASSUME NEW j \in Jobs, Needed(j)'
             PROVE  OnDisk(rec[j])' \/ age'[rec'[j]] = "overdue"
  BY KeptIsNext
<1>1. CASE ~Row(j)
  <2>1. status'[j] = "queued"
    BY <1>1, RowsKeep DEF Needed, Row
  <2> QED BY <1>1, <2>1, NewRow DEF OnDisk
<1>2. CASE Row(j)
  <2>1. /\ Needed(j) /\ status[j] \in Live
        /\ \A w \in Workers : on[w] = j /\ pc[w] \in Adopting => pc'[w] \in Adopting
    BY <1>2, StillNeeded
  <2>2. rec'[j] = rec[j] /\ rec[j] \in Jobs
    BY <1>2, RowsKeep DEF RowsOK, Row
  <2>3. CASE age[rec[j]] = "overdue"
    BY <2>2, <2>3, AgesGrow
  <2>4. CASE OnDisk(rec[j])
    <3>1. PICK n \in Jobs : file[n] = rec[j]
      BY <2>4 DEF OnDisk
    <3>2. CASE file'[n] = file[n]
      BY <2>2, <3>1, <3>2 DEF OnDisk
    <3>3. CASE file'[n] # file[n]
      <4>1. file[n] # None
        BY <2>2, <3>1
      \* A row that holds the recording of a live attempt is that attempt.
      <4>2. Row(n) => n = j
        <5> SUFFICES ASSUME Row(n), n # j PROVE FALSE
          OBVIOUS
        <5>1. rec[n] = rec[j]
          BY <3>1, <4>1 DEF FilesOK, DirOK
        <5>2. meeting[n] = meeting[j]
          BY <1>2, <5>1 DEF FilesOK, ChainOK
        <5>3. n < j
          BY <2>1, <5>2 DEF NewestLive, Row
        <5> QED BY <1>2, <4>1, <5>1, <5>3 DEF FilesOK, ChainOK
      <4>3. ~Spent(n)
        BY <2>1, <4>2 DEF Spent, Row
      <4>4. ASSUME NEW w \in Workers, on[w] = n, pc[w] \in Adopting PROVE pc'[w] \in Adopting
        <5>1. Row(n)
          BY <4>4 DEF ProcsOK, Row
        <5> QED BY <2>1, <4>2, <4>4, <5>1
      <4>5. CASE age[file[n]] = "overdue"
        BY <2>2, <3>1, <4>5, AgesGrow
      <4>6. CASE \E k \in Jobs : file'[k] = file[n]
        BY <2>2, <3>1, <4>6 DEF OnDisk
      <4> QED BY <3>3, <4>1, <4>3, <4>4, <4>5, <4>6, FileGoes
    <3> QED BY <3>2, <3>3
  <2> QED BY <2>1, <2>3, <2>4, KeptIs DEF KeptOK
<1> QED BY <1>1, <1>2

LEMMA MovedStep ==
    ASSUME Inv, FilesOK, KeptOK, [Next]_vars, NEW r \in Requests, pc'[r] = "renamed"
    PROVE  file'[on'[r]] = rec'[old'[r]] \/ age'[rec'[old'[r]]] = "overdue"
<1> USE DEF Inv
<1>1. ASSUME NEW q \in Requests, NEW m \in Meetings, NEW j \in Jobs, RestartRename(q, m, j), q = r
      PROVE  file'[on'[r]] = rec'[old'[r]]
  <2>1. /\ file' = [file EXCEPT ![j] = None, ![nextJob] = file[j]] /\ nextJob \in Jobs
        /\ on' = [on EXCEPT ![q] = nextJob] /\ old' = [old EXCEPT ![q] = j]
        /\ rec' = rec /\ file[j] # None /\ Row(j)
    BY <1>1 DEF RestartRename, LiveJobs, Row
  <2>2. file[j] = rec[j]
    BY <2>1 DEF FilesOK, DirOK
  <2> QED BY <1>1, <2>1, <2>2 DEF TypeOK
<1>2. CASE pc[r] = "renamed" /\ on'[r] = on[r] /\ old'[r] = old[r]
  <2>1. on[r] \in Jobs /\ old[r] \in Jobs /\ ~Row(on[r]) /\ Row(old[r])
    BY <1>2 DEF RestartOK, ProcsOK, Row
  <2>2. rec'[old[r]] = rec[old[r]] /\ rec[old[r]] \in Jobs
    BY <2>1, RowsKeep DEF RowsOK, Row
  <2>3. file[on[r]] = rec[old[r]] \/ age[rec[old[r]]] = "overdue"
    BY <1>2 DEF KeptOK
  <2>4. CASE age[rec[old[r]]] = "overdue"
    BY <1>2, <2>2, <2>4, AgesGrow
  <2>5. CASE file[on[r]] = rec[old[r]]
    <3>1. CASE file'[on[r]] = file[on[r]]
      BY <1>2, <2>2, <2>5, <3>1
    <3>2. CASE file'[on[r]] # file[on[r]]
      <4>1. file[on[r]] # None
        BY <2>2, <2>5
      <4>2. ~Spent(on[r]) /\ status[on[r]] \notin Live
        BY <2>1 DEF Spent, Row
      <4>3. \A w \in Workers : pc[w] \in Adopting => on[w] # on[r]
        BY <2>1 DEF ProcsOK, Row
      <4>4. age[file[on[r]]] = "overdue"
        BY <2>1, <3>2, <4>1, <4>2, <4>3, FileGoes
      <4> QED BY <2>4, <2>5, <4>4
    <3> QED BY <3>1, <3>2
  <2> QED BY <2>3, <2>4, <2>5
<1>3. CASE OldFiles
  BY <1>2, <1>3 DEF OldFiles
<1>4. ASSUME NEW q \in Requests, NEW m \in Meetings, UploadRecording(q, m) \/ UploadDies(q, m)
      PROVE  pc[r] = "renamed" /\ on'[r] = on[r] /\ old'[r] = old[r]
  BY <1>4 DEF UploadRecording, UploadDies, Begin, TypeOK
<1>5. ASSUME NEW q \in Requests, NEW m \in Meetings, NEW j \in Jobs, RestartRename(q, m, j), q # r
      PROVE  pc[r] = "renamed" /\ on'[r] = on[r] /\ old'[r] = old[r]
  BY <1>5 DEF RestartRename, TypeOK
<1> QED BY <1>1, <1>2, <1>3, <1>4, <1>5, FileSteps

\* Only a cancel, a declined claim and a failed enqueue go on to delete a file,
\* and only once the attempt is over.
LEMMA DropStep ==
    ASSUME Inv, FilesOK, KeptOK, [Next]_vars, NEW p \in Procs, pc'[p] \in {"decline", "drop"}
    PROVE  Spent(on[p])'
<1> USE DEF Inv
<1>1. CASE pc'[p] = pc[p] /\ on'[p] = on[p]
  <2>1. on[p] \in Jobs /\ Spent(on[p])
    BY <1>1 DEF ProcsOK, KeptOK
  <2>2. Spent(on[p]) => status'[on[p]] \in Over \cup {"gone"}
    BY <2>1, RowsKeep DEF Spent
  <2> QED BY <1>1, <2>1, <2>2 DEF Spent
<1>2. CASE UNCHANGED vars
  BY <1>1, <1>2 DEF vars
<1>3. ASSUME NEW r \in Requests, RequestStep(r) PROVE Spent(on[p])'
  <2>1. ASSUME NEW m \in Meetings, NEW j \in Jobs, CancelTranscription(r, m, j) PROVE Spent(on[p])'
    <3>1. CASE p = r
      <4>1. pc[r] = "idle" /\ status' = [status EXCEPT ![j] = "cancelled"]
        BY <2>1 DEF CancelTranscription, SetStatus
      <4>2. on'[p] = j
        BY <2>1, <3>1, <4>1 DEF CancelTranscription, Begin, TypeOK
      <4> QED BY <4>1, <4>2 DEF Spent, TypeOK
    <3>2. CASE p # r
      BY <1>1, <2>1, <3>2 DEF CancelTranscription, Begin, TypeOK
    <3> QED BY <3>1, <3>2
  <2>2. CASE \A m \in Meetings, j \in Jobs : ~CancelTranscription(r, m, j)
    <3>1. pc'[p] = pc[p] /\ on'[p] = on[p]
      BY <1>3, <2>2 DEF RequestStep, Enqueue, EnqueueFails, RestartCommit, DropRecording, RequestDies,
         UploadRecording, UploadDies, RestartRename, Begin, Leave, Goto, TypeOK
    <3> QED BY <1>1, <3>1
  <2> QED BY <2>1, <2>2
<1>4. ASSUME NEW w \in Workers, WorkerStep(w) PROVE Spent(on[p])'
  <2>1. pc'[p] = pc[p] /\ on'[p] = on[p]
    <3>1. CASE p # w
      BY <1>4, <3>1 DEF WorkerStep, Task, Deliver, DeleteDeclined, Decode, LeaveAdopt, StopJob, Publish,
         WriteTranscript, MarkUnannounced, MarkPublished, ClaimJob, ClaimMissing, StageFails,
         PublishFails, WorkerDies, HeartBeat, Begin, Ack, Leave, Goto, TypeOK
    <3>2. CASE p = w
      <4>1. CASE \/ DeleteDeclined(w) \/ StopJob(w) \/ MarkUnannounced(w) \/ MarkPublished(w) \/ WorkerDies(w)
        BY <3>2, <4>1 DEF DeleteDeclined, StopJob, MarkUnannounced, MarkPublished, WorkerDies, Ack, Leave, TypeOK
      <4>2. CASE \/ Decode(w) \/ LeaveAdopt(w) \/ Publish(w) \/ WriteTranscript(w) \/ StageFails(w)
                 \/ PublishFails(w)
        BY <3>2, <4>2 DEF Decode, LeaveAdopt, Publish, WriteTranscript, StageFails, PublishFails, Goto, TypeOK
      <4>3. CASE HeartBeat(w) \/ Deliver(w)
        BY <3>2, <4>3 DEF HeartBeat, Deliver, ClaimJob, ClaimMissing, Begin, TypeOK
      <4> QED BY <1>4, <4>1, <4>2, <4>3 DEF WorkerStep, Task
    <3> QED BY <3>1, <3>2
  <2> QED BY <1>1, <2>1
<1>5. ASSUME NEW q \in Procs, MarkFailed(q) PROVE Spent(on[p])'
  <2>1. CASE p # q
    BY <1>1, <1>5, <2>1 DEF MarkFailed, MarkFailedRead, MarkFailedJob, MarkFailedCommit, AfterFailure,
       Ack, Leave, Goto, TypeOK
  <2>2. CASE p = q
    <3>1. /\ on[q] \in Jobs /\ status[on[q]] # "none"
          /\ pc[q] \in Failing
      BY <1>5 DEF MarkFailed, MarkFailedRead, MarkFailedJob, MarkFailedCommit, ProcsOK
    <3>2. AfterFailure(q) /\ status'[on[q]] \notin Live
      BY <1>5, <2>2, <3>1 DEF MarkFailed, MarkFailedRead, MarkFailedJob, MarkFailedCommit, SetStatus, Goto, TypeOK
    <3>3. on'[q] = on[q]
      BY <2>2, <3>2 DEF AfterFailure, Ack, Leave, Goto, TypeOK
    <3>4. status'[on[q]] \in JobStatus /\ status'[on[q]] # "none"
      <4>1. TypeOK'
        BY NextInv
      <4>2. Row(on[q]) => status'[on[q]] # "none"
        BY <3>1, RowsKeep DEF Row
      <4> QED BY <3>1, <4>1, <4>2 DEF Row, TypeOK
    <3> QED BY <2>2, <3>2, <3>3, <3>4 DEF Spent
  <2> QED BY <2>1, <2>2
<1>6. ASSUME NEW s \in Sweepers, Sweep(s) PROVE Spent(on[p])'
  <2>1. CASE UNCHANGED procs
    BY <1>1, <2>1
  <2>2. CASE ~UNCHANGED procs
    <3>0. SweepFinish(s) \/ SweepAborts(s)
      BY <1>6, <2>2 DEF Sweep, SweepMark
    <3>1. s \in Workers /\ (Ack(s) \/ (SweepFinish(s) /\ AfterClaim(s)))
      <4>1. s # Beat
        BY <2>2, <3>0 DEF SweepFinish, SweepAborts
      <4>2. SweepFinish(s) => AfterClaim(s)
        BY <4>1 DEF SweepFinish
      <4>3. SweepAborts(s) => Ack(s)
        BY <4>1 DEF SweepAborts
      <4> QED BY <3>0, <4>1, <4>2, <4>3
    <3>2. CASE Ack(s)
      BY <1>1, <3>1, <3>2 DEF Ack, Leave, TypeOK
    <3>3. CASE SweepFinish(s) /\ AfterClaim(s) /\ ~Ack(s)
      <4>1. on' = on
        BY <3>3 DEF AfterClaim, Goto
      <4>2. p # s => pc'[p] = pc[p]
        BY <3>3 DEF AfterClaim, Goto, TypeOK
      <4>3. CASE p = s
        <5>1. status[on[s]] \notin {"queued", "running"}
          BY <3>1, <3>3, <4>3 DEF AfterClaim, OwnsFile, Goto, TypeOK
        <5>2. on[s] \in Jobs /\ status[on[s]] # "none"
          BY <3>1, <3>3 DEF SweepFinish, ProcsOK
        <5>3. Spent(on[s])
          BY <5>1, <5>2 DEF Spent, TypeOK
        <5>4. Spent(on[s]) => status'[on[s]] \in Over \cup {"gone"}
          BY <5>2, RowsKeep DEF Spent
        <5> QED BY <4>1, <4>3, <5>3, <5>4 DEF Spent
      <4> QED BY <1>1, <4>1, <4>2, <4>3
    <3> QED BY <3>1, <3>2, <3>3
  <2> QED BY <2>1, <2>2
<1>7. CASE \/ SweepBegin \/ (\E j \in Jobs : GoQuiet(j) \/ GrowOld(j) \/ LoseMessage(j))
           \/ \E m \in Meetings : DeleteMeeting(m) \/ ExpireMeeting(m)
  BY <1>1, <1>7 DEF SweepBegin, GoQuiet, GrowOld, LoseMessage, DeleteMeeting, ExpireMeeting
<1> QED BY <1>2, <1>3, <1>4, <1>5, <1>6, <1>7 DEF Next

\* A sweep lists only what is overdue.
LEMMA DoomedStep ==
    ASSUME Inv, FilesOK, KeptOK, [Next]_vars, NEW s \in Sweepers, NEW j \in doomed'[s]
    PROVE  age'[rec'[j]] = "overdue"
<1> USE DEF Inv
<1>1. j \in doomed[s] \/ \E k : j \in Abandoned(k)
  <2>1. CASE UNCHANGED vars
    BY <2>1 DEF vars
  <2>2. ASSUME NEW r \in Requests, RequestStep(r) PROVE doomed' = doomed
    BY <2>2 DEF RequestStep, Enqueue, EnqueueFails, RestartCommit, DropRecording, RequestDies,
       UploadRecording, UploadDies, CancelTranscription, RestartRename
  <2>3. ASSUME NEW w \in Workers, WorkerStep(w) PROVE j \in doomed[s] \/ \E k : j \in Abandoned(k)
    <3>1. CASE WorkerDies(w)
      BY <3>1 DEF WorkerDies, SweepOver, TypeOK
    <3>2. ASSUME NEW i \in Jobs, ClaimJob(w, i) PROVE j \in doomed[s] \/ \E k : j \in Abandoned(k)
      <4>1. doomed' = [doomed EXCEPT ![w] = Abandoned(i)]
        BY <3>2 DEF ClaimJob, SweepRead
      <4> QED BY <4>1 DEF TypeOK
    <3>3. CASE ~WorkerDies(w) /\ \A i \in Jobs : ~ClaimJob(w, i)
      <4>1. doomed' = doomed
        BY <2>3, <3>3 DEF WorkerStep, Task, Deliver, DeleteDeclined, Decode, LeaveAdopt, StopJob, Publish,
           WriteTranscript, MarkUnannounced, MarkPublished, ClaimMissing, StageFails, PublishFails, HeartBeat
      <4> QED BY <4>1
    <3> QED BY <3>1, <3>2, <3>3
  <2>4. ASSUME NEW p \in Procs, MarkFailed(p) PROVE doomed' = doomed
    BY <2>4 DEF MarkFailed, MarkFailedRead, MarkFailedJob, MarkFailedCommit
  <2>5. ASSUME NEW t \in Sweepers, Sweep(t) PROVE j \in doomed[s]
    <3>1. doomed' = doomed \/ doomed' = [doomed EXCEPT ![t] = {}]
      BY <2>5 DEF Sweep, SweepMark, SweepFinish, SweepAborts, SweepOver
    <3> QED BY <3>1 DEF TypeOK
  <2>6. CASE SweepBegin
    <3>1. doomed' = [doomed EXCEPT ![Beat] = Abandoned(None)]
      BY <2>6 DEF SweepBegin, SweepRead
    <3> QED BY <3>1 DEF TypeOK
  <2>7. CASE \/ (\E i \in Jobs : GoQuiet(i) \/ GrowOld(i) \/ LoseMessage(i))
             \/ \E m \in Meetings : DeleteMeeting(m) \/ ExpireMeeting(m)
    BY <2>7 DEF GoQuiet, GrowOld, LoseMessage, DeleteMeeting, ExpireMeeting
  <2> QED BY <2>1, <2>2, <2>3, <2>4, <2>5, <2>6, <2>7 DEF Next
<1>2. j \in Jobs /\ Row(j) /\ age[rec[j]] = "overdue"
  <2>1. CASE j \in doomed[s]
    BY <2>1 DEF TypeOK, RowsOK, Row, KeptOK
  <2>2. ASSUME NEW k, j \in Abandoned(k) PROVE j \in Jobs /\ Row(j) /\ age[rec[j]] = "overdue"
    <3>1. j \in Jobs /\ Row(j) /\ file[j] # None /\ age[file[j]] = "overdue"
      BY <2>2 DEF Abandoned, Overdue, Row
    <3> QED BY <3>1 DEF FilesOK, DirOK
  <2> QED BY <1>1, <2>1, <2>2
<1>3. rec'[j] = rec[j] /\ rec[j] \in Jobs
  BY <1>2, RowsKeep DEF RowsOK, Row
<1> QED BY <1>2, <1>3, AgesGrow

LEMMA KeptStep == ASSUME Inv, FilesOK, KeptOK, [Next]_vars PROVE KeptOK'
<1>1. RecordingKept'
  BY RecordingStep
<1>2. \A r \in Requests : pc'[r] = "renamed" =>
        file'[on'[r]] = rec'[old'[r]] \/ age'[rec'[old'[r]]] = "overdue"
  BY MovedStep
<1>3. \A p \in Procs : pc'[p] \in {"decline", "drop"} => Spent(on[p])'
  BY DropStep
<1>4. \A s \in Sweepers : \A j \in doomed'[s] : age'[rec'[j]] = "overdue"
  BY DoomedStep
<1> QED BY <1>1, <1>2, <1>3, <1>4 DEF KeptOK

\* Nobody deletes a recording an attempt still needs before its six hours are over.
THEOREM RecordingIsKept == Spec => []RecordingKept
<1>1. Init => Inv /\ FilesOK /\ KeptOK
  BY InitInv, FilesInit, KeptInit
<1>2. Inv /\ FilesOK /\ KeptOK /\ [Next]_vars => (Inv /\ FilesOK /\ KeptOK)'
  BY NextInv, FilesStep, KeptStep
<1>3. KeptOK => RecordingKept
  BY DEF KeptOK
<1> QED BY <1>1, <1>2, <1>3, PTL DEF Spec
=============================================================================
