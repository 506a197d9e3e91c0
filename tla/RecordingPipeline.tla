-------------------------- MODULE RecordingPipeline --------------------------
(***************************************************************************)
(* Module A's recording pipeline: an upload, the attempts (aud_jobs) to    *)
(* transcribe it, the file on disk each attempt owns, the at-least-once    *)
(* queue, the workers, the orphan sweep, and the requests that cancel,     *)
(* restart and delete.  modules/audio/src/autune_audio: service.py,        *)
(* tasks.py, router.py, storage.py, meeting_deletion.py, retention.py.     *)
(*                                                                         *)
(* A step is one transaction, or one file or broker operation.  Statements *)
(* that take no lock (mark_failed) are split between their reads and       *)
(* writes; a FOR UPDATE or an uncommitted UPDATE keeps others out of the   *)
(* row until its transaction ends (JobLocked, MeetingLocked).              *)
(***************************************************************************)
EXTENDS Naturals

CONSTANTS
    Meetings,     \* rows of meetings
    Workers,      \* processes of the gpu queue
    Requests,     \* API requests in flight at once
    Beat,         \* the periodic sweep
    None,
    MaxJobs,      \* bound: attempts (rows of aud_jobs) ever made
    NConsumers,   \* tasks subscribed to transcript.ready, told one by one
    MaxFaults     \* bound: deaths, losses and exceptions in one behaviour

ASSUME NoneAssumption == None \notin (1..MaxJobs) \cup Meetings
ASSUME BoundAssumption == MaxJobs \in Nat /\ NConsumers \in Nat \ {0} /\ MaxFaults \in Nat
ASSUME ProcAssumption == Workers \cap Requests = {} /\ Beat \notin Workers \cup Requests

VARIABLES
    mstatus,      \* meetings.status; "gone" is a deleted row
    transcript,   \* the attempt whose utterances the meeting holds
    status,       \* aud_jobs.status; "none" and "gone": no row yet, or no more
    meeting,      \* aud_jobs.meeting_id
    rec,          \* the recording an attempt was made for
    quiet,        \* attempts is_stalled would call stalled
    file,         \* file[n]: the recording in n.upload, named after attempt n
    age,          \* mtime of a recording: a rename keeps it
    broker,       \* attempts with a message not yet acknowledged
    pc, on,       \* workers and requests: where each is, on which attempt
    old,          \* the attempt a restart supersedes
    spc,          \* sweep_orphans under way: in a worker's claim, or Beat's
    doomed,       \* attempts that sweep read as live and overdue
    hit,          \* meetings it will mark failed
    told,         \* told[j]: consumers sent attempt j's transcript
    nextJob,
    faults

rows == <<status, meeting, rec, quiet>>
procs == <<pc, on, old>>
sweeps == <<spc, doomed, hit>>
vars == <<mstatus, transcript, rows, file, age, broker, procs, sweeps, told, nextJob, faults>>

Jobs == 1..MaxJobs
Procs == Workers \cup Requests
Sweepers == Workers \cup {Beat}

Live == {"queued", "running"}
Over == {"done", "failed", "superseded", "cancelled"}
JobStatus == Live \cup Over \cup {"none", "gone"}
MeetingStatus == {"scheduled", "analyzing", "complete", "failed", "gone"}
Ages == {"fresh", "late", "overdue"}

\* with adopt(...): the block that holds the recording
Adopting == {"decode", "listen"}
\* mark_failed under way
Failing == {"fail", "failRead", "failMark", "failSkip"}
WorkerPCs == Adopting \cup Failing \cup
             {"idle", "claim", "decline", "write", "publish", "published", "unannounced"}
RequestPCs == Failing \cup {"idle", "enqueue", "renamed", "drop"}

-----------------------------------------------------------------------------
LiveJobs(m) == {j \in Jobs : meeting[j] = m /\ status[j] \in Live}
JobsOf(m) == {j \in Jobs : meeting[j] = m}
OnDisk(r) == \E n \in Jobs : file[n] = r
Overdue(n) == file[n] # None /\ age[file[n]] = "overdue"

\* A row another transaction has locked, or updated and not yet committed.
JobLocked(j) ==
    \/ \E p \in Procs : on[p] = j /\ pc[p] \in {"failMark", "failSkip", "claim"}
    \/ \E r \in Requests : pc[r] = "renamed" /\ old[r] = j
    \/ \E s \in Sweepers : spc[s] = "marked" /\ j \in doomed[s]

MeetingLocked(m) == \E r \in Requests : pc[r] = "renamed" /\ meeting[old[r]] = m

\* Attempt j moves to a status; how long it may stay silent starts again.
SetStatus(j, st) ==
    /\ status' = [status EXCEPT ![j] = st]
    /\ quiet' = quiet \ {j}
    /\ UNCHANGED <<meeting, rec>>

SetMeeting(m, st) == mstatus' = [mstatus EXCEPT ![m] = st]

\* _delete: unlink, and confirm that the file is gone.
UnlinkUnconfirmed(n) == file
Deleted(n) == [file EXCEPT ![n] = None]

Fault == faults < MaxFaults /\ faults' = faults + 1
Goto(p, l) == pc' = [pc EXCEPT ![p] = l] /\ UNCHANGED <<on, old>>
Begin(p, l, j) == pc' = [pc EXCEPT ![p] = l] /\ on' = [on EXCEPT ![p] = j] /\ UNCHANGED old
Leave(p) ==
    /\ pc' = [pc EXCEPT ![p] = "idle"]
    /\ on' = [on EXCEPT ![p] = None]
    /\ old' = [old EXCEPT ![p] = None]
\* The task ends, by returning or raising: the message is acknowledged.
Ack(w) == Leave(w) /\ broker' = broker \ {on[w]}

-----------------------------------------------------------------------------
(* The API: upload, cancel, restart, delete                                *)

\* handover, start_transcription, assign and the commit: the status flip is
\* the claim, an attempt still live is superseded, the file takes the new
\* attempt's name.  A refusal deletes the temporary file and changes nothing.
UploadRecording(r, m) ==
    LET live == LiveJobs(m) IN
    /\ pc[r] = "idle"
    /\ nextJob \in Jobs
    /\ mstatus[m] \in {"scheduled", "failed"}
    /\ ~MeetingLocked(m)
    /\ \A j \in live : ~JobLocked(j)
    /\ status' = [j \in Jobs |-> IF j = nextJob THEN "queued"
                                 ELSE IF j \in live THEN "superseded" ELSE status[j]]
    /\ meeting' = [meeting EXCEPT ![nextJob] = m]
    /\ rec' = [rec EXCEPT ![nextJob] = nextJob]
    /\ quiet' = quiet \ live
    /\ SetMeeting(m, "analyzing")
    /\ file' = [file EXCEPT ![nextJob] = nextJob]
    /\ Begin(r, "enqueue", nextJob)
    /\ nextJob' = nextJob + 1
    /\ UNCHANGED <<transcript, age, broker, sweeps, told, faults>>

\* The process dies between writing the file and the commit: a file no row
\* knows, under a temporary name or under an attempt's.
UploadDies(r, m) ==
    /\ pc[r] = "idle"
    /\ nextJob \in Jobs
    /\ mstatus[m] \in {"scheduled", "failed"}
    /\ Fault
    /\ file' = [file EXCEPT ![nextJob] = nextJob]
    /\ nextJob' = nextJob + 1
    /\ UNCHANGED <<mstatus, transcript, rows, age, broker, procs, sweeps, told>>

Enqueue(r) ==
    /\ pc[r] = "enqueue"
    /\ broker' = broker \cup {on[r]}
    /\ Leave(r)
    /\ UNCHANGED <<mstatus, transcript, rows, file, age, sweeps, told, nextJob, faults>>

\* The send raised; the broker may have taken the message all the same.
EnqueueFails(r) ==
    /\ pc[r] = "enqueue"
    /\ Fault
    /\ broker' \in {broker, broker \cup {on[r]}}
    /\ Goto(r, "fail")
    /\ UNCHANGED <<mstatus, transcript, rows, file, age, sweeps, told, nextJob>>

\* Only a stalled attempt's recording is the API's to delete, after the commit.
CancelTranscription(r, m, j) ==
    /\ pc[r] = "idle"
    /\ mstatus[m] = "analyzing"
    /\ j \in LiveJobs(m)
    /\ ~MeetingLocked(m) /\ ~JobLocked(j)
    /\ SetStatus(j, "cancelled")
    /\ SetMeeting(m, "failed")
    /\ IF j \in quiet THEN Begin(r, "drop", j) ELSE UNCHANGED procs
    /\ UNCHANGED <<transcript, file, age, broker, sweeps, told, nextJob, faults>>

\* restart_transcription up to the rename, with both rows locked.
RestartRename(r, m, j) ==
    /\ pc[r] = "idle"
    /\ nextJob \in Jobs
    /\ mstatus[m] = "analyzing"
    /\ j \in LiveJobs(m) /\ j \in quiet
    /\ ~MeetingLocked(m) /\ ~JobLocked(j)
    /\ file[j] # None /\ age[file[j]] = "fresh"
    /\ file' = [file EXCEPT ![j] = None, ![nextJob] = file[j]]
    /\ pc' = [pc EXCEPT ![r] = "renamed"]
    /\ on' = [on EXCEPT ![r] = nextJob]
    /\ old' = [old EXCEPT ![r] = j]
    /\ nextJob' = nextJob + 1
    /\ UNCHANGED <<mstatus, transcript, rows, age, broker, sweeps, told, faults>>

RestartKeepsOld(r) ==
    /\ pc[r] = "renamed"
    /\ status' = [status EXCEPT ![on[r]] = "queued"]
    /\ meeting' = [meeting EXCEPT ![on[r]] = meeting[old[r]]]
    /\ rec' = [rec EXCEPT ![on[r]] = rec[old[r]]]
    /\ quiet' = quiet \ {old[r]}
    /\ pc' = [pc EXCEPT ![r] = "enqueue"]
    /\ old' = [old EXCEPT ![r] = None]
    /\ UNCHANGED <<on, mstatus, transcript, file, age, broker, sweeps, told, nextJob, faults>>

RestartCommit(r) ==
    /\ pc[r] = "renamed"
    /\ status' = [status EXCEPT ![old[r]] = "superseded", ![on[r]] = "queued"]
    /\ meeting' = [meeting EXCEPT ![on[r]] = meeting[old[r]]]
    /\ rec' = [rec EXCEPT ![on[r]] = rec[old[r]]]
    /\ quiet' = quiet \ {old[r]}
    /\ pc' = [pc EXCEPT ![r] = "enqueue"]
    /\ old' = [old EXCEPT ![r] = None]
    /\ UNCHANGED <<on, mstatus, transcript, file, age, broker, sweeps, told, nextJob, faults>>

\* delete_orphan by the request: after a cancel, or after mark_failed when
\* the enqueue failed.
DropRecording(r) ==
    /\ pc[r] = "drop"
    /\ file' = Deleted(on[r])
    /\ Leave(r)
    /\ UNCHANGED <<mstatus, transcript, rows, age, broker, sweeps, told, nextJob, faults>>

\* Also a commit that fails: what was not committed is rolled back.
RequestDies(r) ==
    /\ pc[r] # "idle"
    /\ Fault
    /\ Leave(r)
    /\ UNCHANGED <<mstatus, transcript, rows, file, age, broker, sweeps, told, nextJob>>

\* The cascade takes the attempts.
Erase(m) ==
    /\ ~MeetingLocked(m)
    /\ \A j \in JobsOf(m) : ~JobLocked(j)
    /\ SetMeeting(m, "gone")
    /\ transcript' = [transcript EXCEPT ![m] = None]
    /\ status' = [j \in Jobs |-> IF j \in JobsOf(m) THEN "gone" ELSE status[j]]
    /\ quiet' = quiet \ JobsOf(m)
    /\ UNCHANGED <<meeting, rec>>

\* forget_recordings deletes the attempts' files.
DeleteMeeting(m) ==
    /\ mstatus[m] # "gone"
    /\ LiveJobs(m) = {}
    /\ Erase(m)
    /\ file' = [n \in Jobs |-> IF n \in JobsOf(m) THEN None ELSE file[n]]
    /\ UNCHANGED <<age, broker, procs, sweeps, told, nextJob, faults>>

\* retention.sweep: no question about attempts, and no file deleted.  The
\* window is at least 30 days from the last upload (assumption on time: by then
\* its recordings are past their six hours and no process is at work on it).
ExpireMeeting(m) ==
    /\ mstatus[m] \notin {"gone", "scheduled"}
    /\ \A n \in JobsOf(m) : file[n] # None => Overdue(n)
    /\ \A p \in Procs : on[p] \notin JobsOf(m)
    /\ Erase(m)
    /\ UNCHANGED <<file, age, broker, procs, sweeps, told, nextJob, faults>>

-----------------------------------------------------------------------------
(* mark_failed: no lock, so three steps.  Read the attempt; UPDATE it and  *)
(* read its meeting; UPDATE the meeting and commit.                        *)

\* The meetings it will fail: of those attempts, and analyzing.
FailAnyMeeting(js) == {m \in Meetings : \E j \in js : meeting[j] = m}
FailNoMeeting(js) == {}
Analyzing(js) == {m \in Meetings : mstatus[m] = "analyzing" /\ \E j \in js : meeting[j] = m}

\* The task raises; the request goes on to delete the file.
AfterFailure(p) ==
    \/ p \in Workers /\ Ack(p)
    \/ p \in Requests /\ Goto(p, "drop") /\ UNCHANGED broker

MarkFailedRead(p) ==
    /\ pc[p] = "fail"
    /\ \/ status[on[p]] \in Live /\ Goto(p, "failRead") /\ UNCHANGED broker
       \/ status[on[p]] \notin Live /\ AfterFailure(p)
    /\ UNCHANGED <<mstatus, transcript, rows, file, age, sweeps, told, nextJob, faults>>

MarkFailedJob(p) ==
    /\ pc[p] = "failRead"
    /\ ~JobLocked(on[p])
    /\ \/ /\ status[on[p]] # "gone"
          /\ Goto(p, IF Analyzing({on[p]}) # {} THEN "failMark" ELSE "failSkip")
          /\ UNCHANGED broker
       \/ status[on[p]] = "gone" /\ AfterFailure(p)    \* no row to update
    /\ UNCHANGED <<mstatus, transcript, rows, file, age, sweeps, told, nextJob, faults>>

MarkFailedCommit(p) ==
    /\ \/ /\ pc[p] = "failMark"
          /\ ~MeetingLocked(meeting[on[p]])
          /\ SetMeeting(meeting[on[p]], "failed")
       \/ pc[p] = "failSkip" /\ UNCHANGED mstatus
    /\ SetStatus(on[p], "failed")
    /\ AfterFailure(p)
    /\ UNCHANGED <<transcript, file, age, sweeps, told, nextJob, faults>>

-----------------------------------------------------------------------------
(* sweep_orphans: read the files and their attempts; fail the attempts     *)
(* that are overdue; delete the files and commit.                          *)

AbandonedNever(keep) == {}
Abandoned(keep) == {n \in Jobs \ {keep} : Overdue(n) /\ status[n] \in Live}

Orphans(keep) == {n \in Jobs \ {keep} : /\ file[n] # None
                                        /\ \/ status[n] \in Over
                                           \/ status[n] \in {"none", "gone"} /\ Overdue(n)}

Keep(s) == IF s = Beat THEN None ELSE on[s]
Swept(s) == doomed[s] \cup Orphans(Keep(s))

SweepRead(s, keep) ==
    /\ spc' = [spc EXCEPT ![s] = "read"]
    /\ doomed' = [doomed EXCEPT ![s] = Abandoned(keep)]
    /\ UNCHANGED hit

SweepOver(s) ==
    /\ spc' = [spc EXCEPT ![s] = "idle"]
    /\ doomed' = [doomed EXCEPT ![s] = {}]
    /\ hit' = [hit EXCEPT ![s] = {}]

\* The periodic task, when there is anything for it to do.
SweepBegin ==
    /\ spc[Beat] = "idle"
    /\ Abandoned(None) \cup Orphans(None) # {}
    /\ SweepRead(Beat, None)
    /\ UNCHANGED <<mstatus, transcript, rows, file, age, broker, procs, told, nextJob, faults>>

\* mark_failed on what was read as live, without reading it again.
SweepMark(s) ==
    /\ spc[s] = "read"
    /\ doomed[s] # {}
    /\ \A j \in doomed[s] : ~JobLocked(j) /\ status[j] # "gone"
    /\ spc' = [spc EXCEPT ![s] = "marked"]
    /\ hit' = [hit EXCEPT ![s] = Analyzing(doomed[s])]
    /\ UNCHANGED <<doomed, mstatus, transcript, rows, file, age, broker, procs, told, nextJob, faults>>

\* Claim.owns_file: a first delivery still running deletes its own.
OwnsAnyFile(j) == TRUE
OwnsFile(j) == status[j] # "running"

\* A worker's sweep is part of its claim, which commits here too.
Claimed(s) == IF s # Beat /\ status[on[s]] = "queued" THEN {on[s]} ELSE {}

AfterClaim(w) ==
    \/ status[on[w]] = "queued" /\ Goto(w, "decode") /\ UNCHANGED broker
    \/ status[on[w]] # "queued" /\ OwnsFile(on[w]) /\ Goto(w, "decline") /\ UNCHANGED broker
    \/ status[on[w]] # "queued" /\ ~OwnsFile(on[w]) /\ Ack(w)

SweepFinish(s) ==
    /\ \/ spc[s] = "read" /\ doomed[s] = {}
       \/ spc[s] = "marked"
    /\ \A m \in hit[s] : ~MeetingLocked(m)
    /\ status' = [j \in Jobs |-> IF j \in doomed[s] THEN "failed"
                                 ELSE IF j \in Claimed(s) THEN "running" ELSE status[j]]
    /\ quiet' = (quiet \ doomed[s]) \ Claimed(s)
    /\ mstatus' = [m \in Meetings |-> IF m \in hit[s] THEN "failed" ELSE mstatus[m]]
    /\ file' = [n \in Jobs |-> IF n \in Swept(s) THEN None ELSE file[n]]
    /\ SweepOver(s)
    /\ IF s = Beat THEN UNCHANGED <<procs, broker>> ELSE AfterClaim(s)
    /\ UNCHANGED <<meeting, rec, transcript, age, told, nextJob, faults>>

\* A file that will not go, or an attempt deleted meanwhile, raises: the
\* transaction is rolled back, files already deleted stay deleted.
SweepAborts(s) ==
    /\ \/ spc[s] = "read" /\ (\E j \in doomed[s] : status[j] = "gone") /\ UNCHANGED faults
       \/ spc[s] # "idle" /\ Fault
    /\ file' \in {file, [n \in Jobs |-> IF n \in Swept(s) THEN None ELSE file[n]]}
    /\ SweepOver(s)
    /\ IF s = Beat THEN UNCHANGED <<procs, broker>> ELSE Ack(s)
    /\ UNCHANGED <<mstatus, transcript, rows, age, told, nextJob>>

-----------------------------------------------------------------------------
(* process_recording                                                       *)

\* claim_job takes the row; the sweep that follows is in the transaction.  A
\* message is delivered again while its first delivery is at work (the
\* broker's visibility timeout) or after its worker died.
ClaimJob(w, j) ==
    /\ pc[w] = "idle"
    /\ j \in broker
    /\ ~JobLocked(j)
    /\ status[j] # "gone"
    /\ Begin(w, "claim", j)
    /\ SweepRead(w, j)
    /\ UNCHANGED <<mstatus, transcript, rows, file, age, broker, told, nextJob, faults>>

ClaimMissing(w, j) ==
    /\ pc[w] = "idle"
    /\ j \in broker
    /\ status[j] = "gone"
    /\ broker' = broker \ {j}
    /\ UNCHANGED <<mstatus, transcript, rows, file, age, procs, sweeps, told, nextJob, faults>>

\* A declined attempt's file: nobody else will delete it.
DeleteDeclined(w) ==
    /\ pc[w] = "decline"
    /\ file' = Deleted(on[w])
    /\ Ack(w)
    /\ UNCHANGED <<mstatus, transcript, rows, age, sweeps, told, nextJob, faults>>

Decode(w) ==
    /\ pc[w] = "decode"
    /\ Goto(w, IF file[on[w]] = None THEN "fail" ELSE "listen")
    /\ UNCHANGED <<mstatus, transcript, rows, file, age, broker, sweeps, told, nextJob, faults>>

\* Transcribed and diarized; adopt deletes the file on the way out.
LeaveAdopt(w) ==
    /\ pc[w] = "listen"
    /\ file' = Deleted(on[w])
    /\ Goto(w, "write")
    /\ UNCHANGED <<mstatus, transcript, rows, age, broker, sweeps, told, nextJob, faults>>

\* lock_running_job: still the current attempt, read under both locks.
NoFence(j) == TRUE
Fence(j) == status[j] = "running"

\* lock_running_job, persist_transcript, mark_complete, one commit.
WriteTranscript(w) ==
    LET m == meeting[on[w]] IN
    /\ pc[w] = "write"
    /\ ~MeetingLocked(m) /\ ~JobLocked(on[w])
    /\ Fence(on[w])
    /\ transcript' = [transcript EXCEPT ![m] = on[w]]
    /\ SetMeeting(m, "complete")
    /\ Goto(w, "publish")
    /\ UNCHANGED <<rows, file, age, broker, sweeps, told, nextJob, faults>>

\* JobStopped: from the guard's flag at any report, or from the fence.
StopJob(w) ==
    /\ pc[w] \in Adopting \cup {"write"}
    /\ ~JobLocked(on[w])
    /\ ~Fence(on[w])
    /\ file' = IF pc[w] \in Adopting THEN Deleted(on[w]) ELSE file
    /\ Ack(w)
    /\ UNCHANGED <<mstatus, transcript, rows, age, sweeps, told, nextJob, faults>>

\* Any exception before the transcript is committed.  The one from adopt's
\* own deletion leaves the file behind.
StageFails(w) ==
    /\ pc[w] \in Adopting \cup {"write"}
    /\ Fault
    /\ IF pc[w] \in Adopting THEN file' \in {file, Deleted(on[w])} ELSE UNCHANGED file
    /\ Goto(w, "fail")
    /\ UNCHANGED <<mstatus, transcript, rows, age, broker, sweeps, told, nextJob>>

LastConsumerOffByOne(j) == told[j] = NConsumers
LastConsumer(j) == told[j] + 1 = NConsumers

\* publish sends to each subscriber in turn.
Publish(w) ==
    /\ pc[w] = "publish"
    /\ told' = [told EXCEPT ![on[w]] = @ + 1]
    /\ Goto(w, IF LastConsumer(on[w]) THEN "published" ELSE "publish")
    /\ UNCHANGED <<mstatus, transcript, rows, file, age, broker, sweeps, nextJob, faults>>

PublishFails(w) ==
    /\ pc[w] = "publish"
    /\ Fault
    /\ Goto(w, "unannounced")
    /\ UNCHANGED <<mstatus, transcript, rows, file, age, broker, sweeps, told, nextJob>>

MarkUnannounced(w) ==
    /\ pc[w] = "unannounced"
    /\ ~JobLocked(on[w]) /\ ~MeetingLocked(meeting[on[w]])
    /\ \/ status[on[w]] = "gone" /\ UNCHANGED <<rows, mstatus>>
       \/ /\ status[on[w]] # "gone"
          /\ SetStatus(on[w], "failed")
          /\ SetMeeting(meeting[on[w]], "failed")
    /\ Ack(w)
    /\ UNCHANGED <<transcript, file, age, sweeps, told, nextJob, faults>>

MarkPublished(w) ==
    /\ pc[w] = "published"
    /\ ~JobLocked(on[w])
    /\ \/ status[on[w]] = "gone" /\ UNCHANGED rows
       \/ status[on[w]] # "gone" /\ SetStatus(on[w], "done")
    /\ Ack(w)
    /\ UNCHANGED <<mstatus, transcript, file, age, sweeps, told, nextJob, faults>>

\* Killed: nothing uncommitted survives, no finally runs, the message stays.
WorkerDies(w) ==
    /\ pc[w] # "idle"
    /\ Fault
    /\ Leave(w)
    /\ SweepOver(w)
    /\ UNCHANGED <<mstatus, transcript, rows, file, age, broker, told, nextJob>>

-----------------------------------------------------------------------------
(* Clocks and the broker                                                   *)

\* JobGuard.poll: written whatever else is true of the attempt.
HeartBeat(w) ==
    /\ pc[w] \in Adopting \cup Failing \cup {"write"}
    /\ on[w] \in quiet /\ status[on[w]] = "running"
    /\ ~JobLocked(on[w])
    /\ quiet' = quiet \ {on[w]}
    /\ UNCHANGED <<status, meeting, rec>>
    /\ UNCHANGED <<mstatus, transcript, file, age, broker, procs, sweeps, told, nextJob, faults>>

\* is_stalled becomes true: too long in the queue, or no heartbeat for
\* stall_after_s because the worker is gone, or only slow.
GoQuiet(j) ==
    /\ status[j] \in Live /\ j \notin quiet
    /\ quiet' = quiet \cup {j}
    /\ UNCHANGED <<status, meeting, rec>>
    /\ UNCHANGED <<mstatus, transcript, file, age, broker, procs, sweeps, told, nextJob, faults>>

\* Less than RESTART_NEEDS of the window left; then none.
GrowOld(r) ==
    /\ OnDisk(r)
    /\ age[r] # "overdue"
    /\ age' = [age EXCEPT ![r] = IF @ = "fresh" THEN "late" ELSE "overdue"]
    /\ UNCHANGED <<mstatus, transcript, rows, file, broker, procs, sweeps, told, nextJob, faults>>

LoseMessage(j) ==
    /\ j \in broker
    /\ Fault
    /\ broker' = broker \ {j}
    /\ UNCHANGED <<mstatus, transcript, rows, file, age, procs, sweeps, told, nextJob>>

-----------------------------------------------------------------------------
Init ==
    /\ mstatus = [m \in Meetings |-> "scheduled"]
    /\ transcript = [m \in Meetings |-> None]
    /\ status = [j \in Jobs |-> "none"]
    /\ meeting = [j \in Jobs |-> None]
    /\ rec = [j \in Jobs |-> None]
    /\ quiet = {}
    /\ file = [n \in Jobs |-> None]
    /\ age = [r \in Jobs |-> "fresh"]
    /\ broker = {}
    /\ pc = [p \in Procs |-> "idle"]
    /\ on = [p \in Procs |-> None]
    /\ old = [p \in Procs |-> None]
    /\ spc = [s \in Sweepers |-> "idle"]
    /\ doomed = [s \in Sweepers |-> {}]
    /\ hit = [s \in Sweepers |-> {}]
    /\ told = [j \in Jobs |-> 0]
    /\ nextJob = 1
    /\ faults = 0

RequestStep(r) ==
    \/ Enqueue(r) \/ EnqueueFails(r) \/ RestartCommit(r) \/ DropRecording(r) \/ RequestDies(r)
    \/ \E m \in Meetings : UploadRecording(r, m) \/ UploadDies(r, m)
    \/ \E m \in Meetings, j \in Jobs : CancelTranscription(r, m, j) \/ RestartRename(r, m, j)

\* What process_recording does of its own accord once it has a message.
Task(w) ==
    \/ DeleteDeclined(w) \/ Decode(w) \/ LeaveAdopt(w) \/ WriteTranscript(w) \/ StopJob(w)
    \/ Publish(w) \/ MarkUnannounced(w) \/ MarkPublished(w)

Deliver(w) == \E j \in Jobs : ClaimJob(w, j) \/ ClaimMissing(w, j)

WorkerStep(w) ==
    Task(w) \/ Deliver(w) \/ StageFails(w) \/ PublishFails(w) \/ WorkerDies(w) \/ HeartBeat(w)

MarkFailed(p) == MarkFailedRead(p) \/ MarkFailedJob(p) \/ MarkFailedCommit(p)
Sweep(s) == SweepMark(s) \/ SweepFinish(s) \/ SweepAborts(s)

Next ==
    \/ \E r \in Requests : RequestStep(r)
    \/ \E w \in Workers : WorkerStep(w)
    \/ \E p \in Procs : MarkFailed(p)
    \/ SweepBegin
    \/ \E s \in Sweepers : Sweep(s)
    \/ \E j \in Jobs : GoQuiet(j) \/ GrowOld(j) \/ LoseMessage(j)
    \/ \E m \in Meetings : DeleteMeeting(m) \/ ExpireMeeting(m)

Spec == Init /\ [][Next]_vars

-----------------------------------------------------------------------------
(* Fairness.  Celery runs what it has accepted, a request runs to its end, *)
(* beat fires hourly, and a file's age only grows.  Nothing obliges anyone *)
(* to upload, cancel, restart or delete, or a heartbeat to be on time.     *)

RequestEnds(r) == Enqueue(r) \/ RestartCommit(r) \/ DropRecording(r)

Fairness ==
    /\ \A r \in Requests : WF_vars(RequestEnds(r))
    /\ \A w \in Workers : WF_vars(Task(w)) /\ WF_vars(Deliver(w))
    /\ \A p \in Procs : WF_vars(MarkFailed(p))
    /\ WF_vars(SweepBegin)
    /\ \A s \in Sweepers : WF_vars(Sweep(s))
    /\ \A r \in Jobs : WF_vars(GrowOld(r))

FairSpec == Spec /\ Fairness

-----------------------------------------------------------------------------
\* The shape of the tables, the directory and the processes.
TypeOK ==
    /\ mstatus \in [Meetings -> MeetingStatus]
    /\ transcript \in [Meetings -> Jobs \cup {None}]
    /\ status \in [Jobs -> JobStatus]
    /\ meeting \in [Jobs -> Meetings \cup {None}]
    /\ rec \in [Jobs -> Jobs \cup {None}]
    /\ quiet \subseteq Jobs
    /\ file \in [Jobs -> Jobs \cup {None}]
    /\ age \in [Jobs -> Ages]
    /\ broker \subseteq Jobs
    /\ pc \in [Procs -> WorkerPCs \cup RequestPCs]
    /\ on \in [Procs -> Jobs \cup {None}]
    /\ old \in [Procs -> Jobs \cup {None}]
    /\ spc \in [Sweepers -> {"idle", "read", "marked"}]
    /\ doomed \in [Sweepers -> SUBSET Jobs]
    /\ hit \in [Sweepers -> SUBSET Meetings]
    /\ told \in [Jobs -> 0..NConsumers]
    /\ nextJob \in 1..(MaxJobs + 1)
    /\ faults \in 0..MaxFaults

\* At most one attempt of a meeting is queued or running (latest_job relies on
\* it), whatever uploads, restarts, late failures and redeliveries interleave.
OneLiveJob ==
    \A m \in Meetings : \A j, k \in LiveJobs(m) : j = k

\* A meeting that is analyzing has an attempt a person can cancel or, once it
\* is stalled, restart: no interleaving of the unlocked mark_failed leaves it
\* analyzing with every attempt over.
AnalyzingHasLiveJob ==
    \A m \in Meetings : mstatus[m] = "analyzing" => LiveJobs(m) # {}

\* An attempt a person cancelled writes no transcript and tells no consumer,
\* however late its worker hears of the cancel.
CancelledStaysSilent ==
    \A j \in Jobs : status[j] = "cancelled" =>
        told[j] = 0 /\ \A m \in Meetings : transcript[m] # j

\* A slow attempt never writes its transcript over the one of an attempt made
\* after it, by an upload or by a restart of the same recording.
TranscriptMovesForward ==
    [][\A m \in Meetings : transcript[m] # None /\ transcript'[m] # transcript[m] =>
          transcript'[m] = None \/ transcript'[m] > transcript[m]]_vars

\* original_audio_deleted is true: no row's file holds the recording a stored
\* transcript was made from.  (A restart that dies after its rename leaves it
\* under a name no row knows: AudioGone, below.)
TranscriptMeansAudioGone ==
    \A m \in Meetings : transcript[m] # None =>
        \A n \in Jobs : file[n] = rec[transcript[m]] => status[n] = "none"

\* Nobody deletes the recording of an attempt that is waiting, or that its
\* worker is reading, before its six hours are over: not a redelivery of the
\* same message, a cancel, a sweep, or a request whose enqueue half failed.
RecordingKept ==
    \A j \in Jobs :
        /\ \/ status[j] = "queued"
           \/ status[j] = "running" /\ \E w \in Workers : on[w] = j /\ pc[w] \in Adopting
        => OnDisk(rec[j]) \/ age[rec[j]] = "overdue"

\* Someone has read an attempt of m as live and will write "failed" over
\* whatever it has become since.
FailsLate(m) ==
    \/ \E p \in Procs : pc[p] = "failMark" /\ meeting[on[p]] = m /\ status[on[p]] \notin Live
    \/ \E s \in Sweepers : \E j \in doomed[s] : meeting[j] = m /\ status[j] \notin Live

\* A complete meeting accepts another recording only after a publish raised:
\* the failure of the attempt that wrote the transcript, noticed by the sweep
\* or by a request whose enqueue half failed, does not reopen it.
ReopenedOnlyUnannounced ==
    [][\A m \in Meetings : mstatus[m] = "complete" /\ mstatus'[m] = "failed" =>
          \/ \E w \in Workers : pc[w] = "unannounced" /\ meeting[on[w]] = m
          \/ FailsLate(m)]_vars

\* The attempt that is queued or running holds its meeting.
Holder(m) == IF LiveJobs(m) = {} THEN None ELSE CHOOSE j \in LiveJobs(m) : TRUE

\* The pipeline keeps the promise of MeetingAttempts.
Attempts == INSTANCE MeetingAttempts WITH
    Attempts <- Jobs,
    holder <- [m \in Meetings |-> Holder(m)],
    written <- transcript,
    used <- {j \in Jobs : status[j] # "none"},
    erased <- {m \in Meetings : mstatus[m] = "gone"}

ImplementsAttempts == Attempts!Spec

\* Invariant 11: every recording on disk is eventually deleted, whoever died.
EveryRecordingGoes == \A r \in Jobs : OnDisk(r) ~> ~OnDisk(r)

-----------------------------------------------------------------------------
(* What the documentation says and the code does not do                    *)

\* mark_failed: "A superseded or finished job does not touch the meeting."
FailedMeansOver ==
    \A m \in Meetings : mstatus[m] = "failed" => LiveJobs(m) = {}

\* handover: a true original_audio_deleted while the file is still there
\* would be "a lie four modules act on".
AudioGone ==
    \A m \in Meetings : transcript[m] # None => ~OnDisk(rec[transcript[m]])

\* persist_transcript: "a worker that dies after writing and before
\* acknowledging gets the same recording again".
CompleteIsAnnounced ==
    \A j \in Jobs : (\E m \in Meetings : transcript[m] = j /\ mstatus[m] = "complete")
        ~> told[j] = NConsumers \/ \A m \in Meetings : transcript[m] = j => mstatus[m] # "complete"
=============================================================================
