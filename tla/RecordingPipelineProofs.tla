----------------------- MODULE RecordingPipelineProofs -----------------------
(***************************************************************************)
(* Theorems about RecordingPipeline, for any number of meetings, workers,  *)
(* requests, attempts, consumers and faults.                               *)
(***************************************************************************)
EXTENDS RecordingPipeline, TLAPS

\* The transcript is committed; the consumers are being told.
Announcing == {"publish", "published", "unannounced"}
\* Where a worker is between its claim and the end of its run.
RunPCs == Adopting \cup Failing \cup {"write"} \cup Announcing

\* Attempt j has got as far as committing its transcript.
Wrote(j) ==
    \/ told[j] # 0
    \/ \E m \in Meetings : transcript[m] = j
    \/ \E w \in Workers : on[w] = j /\ pc[w] \in Announcing

\* Who is where, and on which attempt.
ProcsOK ==
    /\ \A w \in Workers : pc[w] \in WorkerPCs
    /\ \A r \in Requests : pc[r] \in RequestPCs
    /\ \A p \in Procs : pc[p] # "idle" => on[p] \in Jobs
    /\ \A p \in Procs : pc[p] \notin {"idle", "renamed"} => status[on[p]] # "none"
    /\ \A w \in Workers : pc[w] = "claim" <=> spc[w] # "idle"

\* A row that exists has a meeting and a recording, and its id was handed out;
\* what is queued, or about to be failed, is a row.
RowsOK ==
    /\ \A j \in Jobs : status[j] # "none" => meeting[j] \in Meetings /\ rec[j] \in Jobs
    /\ \A j \in Jobs : status[j] # "none" => j < nextJob
    /\ \A j \in Jobs : status[j] = "none" => meeting[j] = None
    /\ \A j \in broker : status[j] # "none"
    /\ \A s \in Sweepers : \A j \in doomed[s] : status[j] # "none"

\* The live attempt of a meeting is the newest one it has.
NewestLive ==
    \A j, k \in Jobs :
        status[j] \in Live /\ status[k] # "none" /\ meeting[k] = meeting[j] => k <= j

\* A restart between its rename and its commit holds the old attempt's row
\* alone, and the id of the new one is its own and the meeting's newest.
RestartOK ==
    \A r \in Requests : pc[r] = "renamed" =>
        /\ old[r] \in Jobs
        /\ status[old[r]] \in Live
        /\ status[on[r]] = "none"
        /\ on[r] < nextJob
        /\ \A k \in Jobs : status[k] # "none" /\ meeting[k] = meeting[old[r]] => k < on[r]
        /\ \A q \in Requests \ {r} : pc[q] = "renamed" => old[q] # old[r] /\ on[q] # on[r]
        /\ \A p \in Procs : pc[p] \in {"failMark", "failSkip", "claim"} => on[p] # old[r]
        /\ \A s \in Sweepers : spc[s] = "marked" => old[r] \notin doomed[s]

\* An attempt is run by one worker, once.
RunOK ==
    /\ \A w \in Workers : pc[w] \in RunPCs => status[on[w]] # "queued"
    /\ \A v, w \in Workers : pc[v] \in RunPCs /\ pc[w] \in RunPCs /\ on[v] = on[w] => v = w
    /\ \A w \in Workers : pc[w] \in Adopting \cup {"write"} => told[on[w]] = 0
    /\ \A w \in Workers : pc[w] = "publish" => told[on[w]] < NConsumers

\* An attempt that has committed its transcript cannot be cancelled any more:
\* if it is still live, its meeting is not analyzing.
WroteOK ==
    /\ \A m \in Meetings : transcript[m] # None => meeting[transcript[m]] = m
    /\ \A j \in Jobs : Wrote(j) =>
        /\ status[j] \notin {"none", "queued", "cancelled"}
        /\ status[j] = "running" => mstatus[meeting[j]] # "analyzing"

\* Whoever is about to fail an attempt and not its meeting has found the
\* meeting not analyzing.
FailOK ==
    /\ \A p \in Procs : pc[p] = "failSkip" /\ status[on[p]] \in Live =>
           mstatus[meeting[on[p]]] # "analyzing"
    /\ \A s \in Sweepers : spc[s] = "marked" => \A j \in doomed[s] :
           status[j] \in Live => meeting[j] \in hit[s] \/ mstatus[meeting[j]] # "analyzing"
    /\ \A s \in Sweepers : spc[s] # "marked" => hit[s] = {}

\* Process p alone moves: out of its run, or on to l in it.
Moved(p, l, j, o) ==
    /\ pc' = [pc EXCEPT ![p] = l]
    /\ on' = [on EXCEPT ![p] = j]
    /\ old' = [old EXCEPT ![p] = o]
    /\ \/ l = "idle" /\ j = None /\ o = None
       \/ l # "idle" /\ j = on[p] /\ o = old[p]
    /\ broker' \subseteq broker

Inv ==
    /\ TypeOK /\ ProcsOK /\ RowsOK /\ NewestLive
    /\ RestartOK /\ RunOK /\ WroteOK /\ FailOK /\ AnalyzingHasLiveJob

USE NoneAssumption, BoundAssumption, ProcAssumption
USE DEF Jobs, Procs, Sweepers, Live, Over, JobStatus, MeetingStatus, Ages,
        Adopting, Failing, WorkerPCs, RequestPCs, Announcing, RunPCs,
        rows, procs, sweeps

LEMMA InitInv == Init => Inv
BY DEF Init, Inv, TypeOK, ProcsOK, RowsOK, NewestLive, RestartOK, RunOK, WroteOK, Wrote, FailOK,
       AnalyzingHasLiveJob, LiveJobs

LEMMA AckMoves == ASSUME NEW w \in Workers, Ack(w) PROVE Moved(w, "idle", None, None)
BY DEF Ack, Leave, Moved

LEMMA AfterFailureMoves ==
    ASSUME TypeOK, NEW p \in Procs, pc[p] \in Failing, AfterFailure(p)
    PROVE  \E l, j, o : Moved(p, l, j, o) /\ l \in {"idle", "drop"} /\ (p \in Workers => l # "drop")
<1>1. CASE p \in Workers /\ Ack(p)
  <2>1. Moved(p, "idle", None, None)
    BY <1>1, AckMoves
  <2> QED BY <2>1
<1>2. CASE p \in Requests /\ Goto(p, "drop") /\ UNCHANGED broker
  <2>1. Moved(p, "drop", on[p], old[p])
    BY <1>2 DEF Goto, Moved, TypeOK
  <2> QED BY <1>2, <2>1
<1> QED BY <1>1, <1>2 DEF AfterFailure

LEMMA UploadRecordingInv == ASSUME Inv, NEW r \in Requests, NEW m \in Meetings, UploadRecording(r, m) PROVE Inv'
<1> USE DEF Inv
<1>a. /\ r \in Procs /\ r \notin Workers /\ pc[r] = "idle" /\ nextJob \in Jobs
      /\ status[nextJob] = "none" /\ meeting[nextJob] = None
      /\ mstatus[m] \in {"scheduled", "failed"}
  BY DEF UploadRecording, RowsOK
<1>b. /\ \A j \in Jobs : status[j] \in Live /\ meeting[j] = m => ~JobLocked(j)
      /\ ~MeetingLocked(m)
  BY DEF UploadRecording, LiveJobs
<1>c. /\ status' = [j \in Jobs |-> IF j = nextJob THEN "queued"
                                 ELSE IF status[j] \in Live /\ meeting[j] = m THEN "superseded" ELSE status[j]]
      /\ meeting' = [meeting EXCEPT ![nextJob] = m]
      /\ rec' = [rec EXCEPT ![nextJob] = nextJob]
      /\ quiet' \subseteq quiet
      /\ mstatus' = [mstatus EXCEPT ![m] = "analyzing"]
      /\ file' = [file EXCEPT ![nextJob] = nextJob]
  BY DEF UploadRecording, LiveJobs, SetMeeting
<1>d. /\ pc' = [pc EXCEPT ![r] = "enqueue"]
      /\ on' = [on EXCEPT ![r] = nextJob]
      /\ nextJob' = nextJob + 1
      /\ UNCHANGED <<old, transcript, age, broker, sweeps, told, faults>>
  BY DEF UploadRecording, Begin
<1>e. \A p \in Procs : pc[p] \notin {"idle", "renamed"} => on[p] # nextJob
  BY <1>a DEF ProcsOK
<1>f. \A s \in Sweepers : nextJob \notin doomed[s]
  BY <1>a DEF RowsOK
<1>1. TypeOK'
  <2>7. nextJob' \in 1..(MaxJobs + 1)
    BY <1>a, <1>d
  <2> QED BY <2>7, <1>a, <1>c, <1>d DEF TypeOK
<1>2. ProcsOK'
  BY <1>a, <1>c, <1>d DEF TypeOK, ProcsOK
<1>3. RowsOK'
  BY <1>c, <1>d DEF TypeOK, RowsOK
<1>4. NewestLive'
  BY <1>c DEF RowsOK, NewestLive
<1>5. RestartOK'
  BY <1>a, <1>b, <1>c, <1>d DEF ProcsOK, RowsOK, RestartOK, MeetingLocked
<1>6. RunOK'
  <2>1. (\A w \in Workers : pc[w] \in RunPCs => status[on[w]] # "queued")'
    BY <1>c, <1>d, <1>e DEF ProcsOK, RunOK
  <2>2. (\A v, w \in Workers : pc[v] \in RunPCs /\ pc[w] \in RunPCs /\ on[v] = on[w] => v = w)'
    BY <1>d DEF RunOK
  <2>3. (\A w \in Workers : pc[w] \in Adopting \cup {"write"} => told[on[w]] = 0)'
    BY <1>d DEF RunOK
  <2>4. (\A w \in Workers : pc[w] = "publish" => told[on[w]] < NConsumers)'
    BY <1>d DEF RunOK
  <2> QED BY <2>1, <2>2, <2>3, <2>4 DEF RunOK
<1>7. WroteOK'
  BY <1>a, <1>b, <1>c, <1>d DEF WroteOK, Wrote
<1>8. FailOK'
  <2>1. ASSUME NEW k \in Jobs, k # nextJob, status'[k] \in Live
        PROVE  status[k] \in Live /\ meeting'[k] = meeting[k] /\ meeting[k] # m
    BY <1>c, <2>1
  <2>2. \A k \in Jobs : status[k] # "none" => meeting[k] \in Meetings
    BY DEF RowsOK
  <2>3. \A k \in Meetings : k # m => mstatus'[k] = mstatus[k]
    BY <1>c
  <2>4. (\A p \in Procs : pc[p] = "failSkip" /\ status[on[p]] \in Live =>
         mstatus[meeting[on[p]]] # "analyzing")'
    <3> SUFFICES ASSUME NEW p \in Procs, pc'[p] = "failSkip", status'[on'[p]] \in Live
                 PROVE  mstatus'[meeting'[on'[p]]] # "analyzing"
      OBVIOUS
    <3>1. pc[p] = "failSkip" /\ on'[p] = on[p] /\ on[p] \in Jobs /\ on[p] # nextJob
      BY <1>a, <1>d DEF ProcsOK
    <3>2. status[on[p]] \in Live /\ meeting'[on[p]] = meeting[on[p]] /\ meeting[on[p]] # m
      BY <2>1, <3>1
    <3> QED BY <2>2, <2>3, <3>1, <3>2 DEF FailOK
  <2>5. (\A s \in Sweepers : spc[s] = "marked" => \A j \in doomed[s] :
         status[j] \in Live => meeting[j] \in hit[s] \/ mstatus[meeting[j]] # "analyzing")'
    BY <1>d, <2>1, <2>3 DEF TypeOK, RowsOK, FailOK
  <2>6. (\A s \in Sweepers : spc[s] # "marked" => hit[s] = {})'
    BY <1>d DEF FailOK
  <2> QED BY <2>4, <2>5, <2>6 DEF FailOK
<1>9. AnalyzingHasLiveJob'
  BY <1>a, <1>b, <1>c, <1>d, <1>e, <1>f DEF TypeOK, ProcsOK, RowsOK, RestartOK, WroteOK, FailOK, AnalyzingHasLiveJob, LiveJobs, Wrote
<1> QED BY <1>1, <1>2, <1>3, <1>4, <1>5, <1>6, <1>7, <1>8, <1>9

LEMMA UploadDiesInv == ASSUME Inv, NEW r \in Requests, NEW m \in Meetings, UploadDies(r, m) PROVE Inv'
<1> USE DEF Inv, UploadDies, Fault
<1>1. TypeOK'
  <2>2. nextJob' \in 1..(MaxJobs + 1)
    OBVIOUS
  <2>3. faults' \in 0..MaxFaults
    BY DEF TypeOK
  <2> QED BY <2>2, <2>3 DEF TypeOK
<1>2. ProcsOK'
  BY DEF ProcsOK
<1>3. RowsOK'
  BY DEF RowsOK
<1>4. NewestLive'
  BY DEF NewestLive
<1>5. RestartOK'
  BY DEF ProcsOK, RestartOK
<1>6. RunOK'
  BY DEF RunOK
<1>7. WroteOK'
  BY DEF WroteOK, Wrote
<1>8. FailOK'
  BY DEF FailOK
<1>9. AnalyzingHasLiveJob'
  BY DEF AnalyzingHasLiveJob, LiveJobs
<1> QED BY <1>1, <1>2, <1>3, <1>4, <1>5, <1>6, <1>7, <1>8, <1>9

LEMMA EnqueueInv == ASSUME Inv, NEW r \in Requests, Enqueue(r) PROVE Inv'
<1> USE DEF Inv, Enqueue, Leave
<1>1. TypeOK'
  <2>1. on[r] \in Jobs
    BY DEF ProcsOK
  <2>2. broker' \subseteq Jobs
    BY <2>1 DEF TypeOK
  <2> QED BY <2>2 DEF TypeOK
<1>2. ProcsOK'
  BY DEF TypeOK, ProcsOK
<1>3. RowsOK'
  <2>1. on[r] \in Jobs /\ status[on[r]] # "none"
    BY DEF ProcsOK
  <2> QED BY <2>1 DEF RowsOK
<1>4. NewestLive'
  BY DEF NewestLive
<1>5. RestartOK'
  BY DEF RestartOK
<1>6. RunOK'
  BY DEF RunOK
<1>7. WroteOK'
  BY DEF WroteOK, Wrote
<1>8. FailOK'
  BY DEF FailOK
<1>9. AnalyzingHasLiveJob'
  BY DEF AnalyzingHasLiveJob, LiveJobs
<1> QED BY <1>1, <1>2, <1>3, <1>4, <1>5, <1>6, <1>7, <1>8, <1>9

LEMMA EnqueueFailsInv == ASSUME Inv, NEW r \in Requests, EnqueueFails(r) PROVE Inv'
<1> USE DEF Inv, EnqueueFails, Fault, Goto
<1>1. TypeOK'
  BY DEF TypeOK, ProcsOK, RunOK
<1>2. ProcsOK'
  BY DEF ProcsOK
<1>3. RowsOK'
  <2>1. on[r] \in Jobs /\ status[on[r]] # "none"
    BY DEF ProcsOK
  <2> QED BY <2>1 DEF RowsOK
<1>4. NewestLive'
  BY DEF NewestLive
<1>5. RestartOK'
  BY DEF RestartOK
<1>6. RunOK'
  BY DEF RunOK
<1>7. WroteOK'
  BY DEF WroteOK, Wrote
<1>8. FailOK'
  BY DEF FailOK
<1>9. AnalyzingHasLiveJob'
  BY DEF AnalyzingHasLiveJob, LiveJobs
<1> QED BY <1>1, <1>2, <1>3, <1>4, <1>5, <1>6, <1>7, <1>8, <1>9

LEMMA CancelTranscriptionInv == ASSUME Inv, NEW r \in Requests, NEW m \in Meetings, NEW j \in Jobs, CancelTranscription(r, m, j) PROVE Inv'
<1> USE DEF Inv
<1>a. r \in Procs /\ r \notin Workers /\ pc[r] = "idle"
  BY DEF CancelTranscription
<1>b. PICK l, k : /\ pc' = [pc EXCEPT ![r] = l]
                  /\ on' = [on EXCEPT ![r] = k]
                  /\ old' = old
                  /\ \/ l = "idle" /\ k = on[r]
                     \/ l = "drop" /\ k = j
  BY DEF CancelTranscription, Begin, TypeOK
<1>c. /\ status' = [status EXCEPT ![j] = "cancelled"]
      /\ mstatus' = [mstatus EXCEPT ![m] = "failed"]
      /\ quiet' = quiet \ {j}
      /\ UNCHANGED <<meeting, rec, transcript, file, age, broker, sweeps, told, nextJob, faults>>
  BY DEF CancelTranscription, SetStatus, SetMeeting
<1>d. /\ mstatus[m] = "analyzing" /\ status[j] \in Live /\ meeting[j] = m
      /\ ~MeetingLocked(m) /\ ~JobLocked(j)
  BY DEF CancelTranscription, LiveJobs
<1>1. TypeOK'
  BY <1>b, <1>c DEF TypeOK
<1>2. ProcsOK'
  BY <1>b, <1>c DEF TypeOK, ProcsOK
<1>3. RowsOK'
  BY <1>c, <1>d DEF RowsOK
<1>4. NewestLive'
  BY <1>c, <1>d DEF NewestLive
<1>5. RestartOK'
  BY <1>a, <1>b, <1>c, <1>d DEF RestartOK, MeetingLocked
<1>6. RunOK'
  BY <1>b, <1>c DEF RunOK
<1>7. WroteOK'
  BY <1>b, <1>c, <1>d DEF WroteOK, Wrote
<1>8. FailOK'
  BY <1>a, <1>b, <1>c DEF FailOK
<1>9. AnalyzingHasLiveJob'
  BY <1>c, <1>d DEF TypeOK, AnalyzingHasLiveJob, LiveJobs
<1> QED BY <1>1, <1>2, <1>3, <1>4, <1>5, <1>6, <1>7, <1>8, <1>9

LEMMA RestartRenameInv == ASSUME Inv, NEW r \in Requests, NEW m \in Meetings, NEW j \in Jobs, RestartRename(r, m, j) PROVE Inv'
<1> USE DEF Inv
<1>a. /\ r \in Procs /\ r \notin Workers /\ pc[r] = "idle" /\ nextJob \in Jobs
      /\ status[nextJob] = "none" /\ status[j] \in Live
      /\ \A k \in Jobs : status[k] # "none" => k < nextJob
  BY DEF RestartRename, LiveJobs, RowsOK
<1>b. /\ pc' = [pc EXCEPT ![r] = "renamed"]
      /\ on' = [on EXCEPT ![r] = nextJob]
      /\ old' = [old EXCEPT ![r] = j]
      /\ nextJob' = nextJob + 1
      /\ UNCHANGED <<mstatus, transcript, rows, age, broker, sweeps, told, faults>>
  BY DEF RestartRename
<1>c. file' \in [Jobs -> Jobs \cup {None}]
  BY DEF RestartRename, TypeOK
<1>d. /\ \A p \in Procs : pc[p] \in {"failMark", "failSkip", "claim"} => on[p] # j
      /\ \A q \in Requests : pc[q] = "renamed" => old[q] # j
      /\ \A s \in Sweepers : spc[s] = "marked" => j \notin doomed[s]
  BY DEF RestartRename, JobLocked
<1>1. TypeOK'
  <2>3. nextJob' \in 1..(MaxJobs + 1)
    BY <1>a, <1>b
  <2> QED BY <2>3, <1>a, <1>b, <1>c DEF TypeOK
<1>2. ProcsOK'
  BY <1>a, <1>b DEF TypeOK, ProcsOK
<1>3. RowsOK'
  BY <1>a, <1>b DEF RowsOK
<1>4. NewestLive'
  BY <1>b DEF NewestLive
<1>5. RestartOK'
  BY <1>a, <1>b, <1>d DEF TypeOK, ProcsOK, RowsOK, RestartOK
<1>6. RunOK'
  BY <1>b DEF RunOK
<1>7. WroteOK'
  BY <1>b DEF RunOK, WroteOK, Wrote
<1>8. FailOK'
  BY <1>a, <1>b DEF FailOK
<1>9. AnalyzingHasLiveJob'
  BY <1>b DEF AnalyzingHasLiveJob, LiveJobs
<1> QED BY <1>1, <1>2, <1>3, <1>4, <1>5, <1>6, <1>7, <1>8, <1>9

LEMMA RestartCommitInv == ASSUME Inv, NEW r \in Requests, RestartCommit(r) PROVE Inv'
<1> USE DEF Inv
<1>a. /\ r \in Procs /\ r \notin Workers /\ pc[r] = "renamed"
      /\ on[r] \in Jobs /\ old[r] \in Jobs /\ on[r] # old[r]
      /\ status[on[r]] = "none" /\ status[old[r]] \in Live
      /\ meeting[old[r]] \in Meetings /\ rec[old[r]] \in Jobs
  BY DEF RestartCommit, ProcsOK, RestartOK, RowsOK
<1>b. /\ status' = [k \in Jobs |-> IF k = on[r] THEN "queued"
                                 ELSE IF k = old[r] THEN "superseded" ELSE status[k]]
      /\ meeting' = [meeting EXCEPT ![on[r]] = meeting[old[r]]]
      /\ rec' = [rec EXCEPT ![on[r]] = rec[old[r]]]
      /\ quiet' = quiet \ {old[r]}
  BY DEF RestartCommit, TypeOK
<1>c. /\ pc' = [pc EXCEPT ![r] = "enqueue"]
      /\ old' = [old EXCEPT ![r] = None]
      /\ UNCHANGED <<on, mstatus, transcript, file, age, broker, sweeps, told, nextJob, faults>>
  BY DEF RestartCommit
<1>d. \A k \in Jobs : status[k] # "none" /\ meeting[k] = meeting[old[r]] => k < on[r]
  BY <1>a DEF RestartOK
<1>e. /\ \A k \in Jobs \ {on[r]} : meeting'[k] = meeting[k]
      /\ meeting'[on[r]] = meeting[old[r]]
  BY <1>a, <1>b DEF TypeOK
<1>f. \A p \in Procs : pc[p] \notin {"idle", "renamed"} => on[p] # on[r]
  BY <1>a DEF ProcsOK
<1>g. \A s \in Sweepers : on[r] \notin doomed[s]
  BY <1>a DEF RowsOK
<1>1. TypeOK'
  BY <1>a, <1>b, <1>c DEF TypeOK
<1>2. ProcsOK'
  BY <1>a, <1>b, <1>c DEF ProcsOK
<1>3. RowsOK'
  <2>1. (\A j \in Jobs : status[j] # "none" => meeting[j] \in Meetings /\ rec[j] \in Jobs)'
    BY <1>a, <1>b DEF TypeOK, RowsOK
  <2>2. (\A j \in Jobs : status[j] # "none" => j < nextJob)'
    BY <1>a, <1>b, <1>c DEF RowsOK, RestartOK
  <2>3. (\A j \in Jobs : status[j] = "none" => meeting[j] = None)'
    BY <1>b DEF RowsOK
  <2>4. (\A j \in broker : status[j] # "none")'
    BY <1>b, <1>c DEF TypeOK, RowsOK
  <2>5. (\A s \in Sweepers : \A j \in doomed[s] : status[j] # "none")'
    BY <1>b, <1>c DEF TypeOK, RowsOK
  <2> QED BY <2>1, <2>2, <2>3, <2>4, <2>5 DEF RowsOK
<1>4. NewestLive'
  BY <1>a, <1>b, <1>c, <1>d, <1>e, <1>f, <1>g DEF TypeOK, RowsOK, NewestLive, RestartOK
<1>5. RestartOK'
  <2> SUFFICES ASSUME NEW q \in Requests, pc'[q] = "renamed"
               PROVE  /\ old'[q] \in Jobs
                      /\ status'[old'[q]] \in Live
                      /\ status'[on'[q]] = "none"
                      /\ on'[q] < nextJob'
                      /\ \A k \in Jobs : status'[k] # "none" /\ meeting'[k] = meeting'[old'[q]] => k < on'[q]
                      /\ \A t \in Requests \ {q} : pc'[t] = "renamed" => old'[t] # old'[q] /\ on'[t] # on'[q]
                      /\ \A p \in Procs : pc'[p] \in {"failMark", "failSkip", "claim"} => on'[p] # old'[q]
                      /\ \A s \in Sweepers : spc'[s] = "marked" => old'[q] \notin doomed'[s]
    BY DEF RestartOK
  <2>1. /\ q # r /\ pc[q] = "renamed" /\ on[q] \in Jobs
        /\ old'[q] = old[q] /\ on'[q] = on[q]
    BY <1>c DEF TypeOK, ProcsOK
  <2>2. /\ old[q] \in Jobs /\ status[old[q]] \in Live /\ status[on[q]] = "none" /\ on[q] < nextJob
        /\ old[q] # old[r] /\ on[q] # on[r]
    BY <1>a, <2>1 DEF RestartOK
  <2>3. old[q] # on[r] /\ on[q] # old[r] /\ meeting[old[q]] # meeting[old[r]]
    BY <1>a, <2>2 DEF NewestLive
  <2>4. \A k \in Jobs : status'[k] # "none" /\ meeting'[k] = meeting'[old[q]] => k < on[q]
    BY <1>b, <1>e, <2>1, <2>3 DEF RestartOK
  <2>5. \A t \in Requests \ {q} : pc'[t] = "renamed" => old'[t] # old[q] /\ on'[t] # on[q]
    BY <1>c DEF RestartOK
  <2>6. \A p \in Procs : pc'[p] \in {"failMark", "failSkip", "claim"} => on'[p] # old[q]
    BY <1>c DEF RestartOK
  <2>7. \A s \in Sweepers : spc'[s] = "marked" => old[q] \notin doomed'[s]
    BY <1>c DEF RestartOK
  <2> QED BY <1>b, <1>c, <2>1, <2>2, <2>3, <2>4, <2>5, <2>6, <2>7
<1>6. RunOK'
  BY <1>b, <1>c, <1>f DEF TypeOK, ProcsOK, RunOK, WroteOK, Wrote
<1>7. WroteOK'
  BY <1>a, <1>b, <1>c DEF WroteOK, Wrote
<1>8. FailOK'
  BY <1>a, <1>b, <1>c, <1>d, <1>e, <1>f, <1>g DEF TypeOK, ProcsOK, RowsOK, FailOK, RestartOK
<1>9. AnalyzingHasLiveJob'
  <2> SUFFICES ASSUME NEW m \in Meetings, mstatus'[m] = "analyzing"
               PROVE  \E k \in Jobs : meeting'[k] = m /\ status'[k] \in Live
    BY DEF AnalyzingHasLiveJob, LiveJobs
  <2>1. CASE m = meeting[old[r]]
    BY <1>a, <1>b, <1>e, <2>1
  <2>2. CASE m # meeting[old[r]]
    <3>1. PICK k \in Jobs : meeting[k] = m /\ status[k] \in Live
      BY <1>c DEF AnalyzingHasLiveJob, LiveJobs
    <3>2. k # old[r] /\ k # on[r]
      BY <1>a, <2>2, <3>1
    <3> QED BY <1>b, <1>e, <3>1, <3>2
  <2> QED BY <2>1, <2>2
<1> QED BY <1>1, <1>2, <1>3, <1>4, <1>5, <1>6, <1>7, <1>8, <1>9

LEMMA DropRecordingInv == ASSUME Inv, NEW r \in Requests, DropRecording(r) PROVE Inv'
<1> USE DEF Inv, DropRecording, Deleted, Leave
<1>1. TypeOK'
  BY DEF TypeOK
<1>2. ProcsOK'
  BY DEF TypeOK, ProcsOK
<1>3. RowsOK'
  BY DEF RowsOK
<1>4. NewestLive'
  BY DEF NewestLive
<1>5. RestartOK'
  BY DEF RestartOK
<1>6. RunOK'
  BY DEF RunOK
<1>7. WroteOK'
  BY DEF WroteOK, Wrote
<1>8. FailOK'
  BY DEF FailOK
<1>9. AnalyzingHasLiveJob'
  BY DEF AnalyzingHasLiveJob, LiveJobs
<1> QED BY <1>1, <1>2, <1>3, <1>4, <1>5, <1>6, <1>7, <1>8, <1>9

LEMMA RequestDiesInv == ASSUME Inv, NEW r \in Requests, RequestDies(r) PROVE Inv'
<1> USE DEF Inv, RequestDies, Fault, Leave
<1>1. TypeOK'
  <2>3. faults' \in 0..MaxFaults
    BY DEF TypeOK
  <2> QED BY <2>3 DEF TypeOK
<1>2. ProcsOK'
  BY DEF TypeOK, ProcsOK
<1>3. RowsOK'
  BY DEF RowsOK
<1>4. NewestLive'
  BY DEF NewestLive
<1>5. RestartOK'
  BY DEF TypeOK, RestartOK
<1>6. RunOK'
  BY DEF RunOK
<1>7. WroteOK'
  BY DEF WroteOK, Wrote
<1>8. FailOK'
  BY DEF TypeOK, FailOK
<1>9. AnalyzingHasLiveJob'
  BY DEF AnalyzingHasLiveJob, LiveJobs
<1> QED BY <1>1, <1>2, <1>3, <1>4, <1>5, <1>6, <1>7, <1>8, <1>9

LEMMA DeleteMeetingInv == ASSUME Inv, NEW m \in Meetings, DeleteMeeting(m) PROVE Inv'
<1> USE DEF Inv, DeleteMeeting, LiveJobs, JobsOf, Erase, JobLocked, MeetingLocked, SetMeeting
<1>1. TypeOK'
  BY DEF TypeOK
<1>2. ProcsOK'
  BY DEF ProcsOK
<1>3. RowsOK'
  BY DEF TypeOK, RowsOK
<1>4. NewestLive'
  BY DEF NewestLive
<1>5. RestartOK'
  BY DEF ProcsOK, RowsOK, RestartOK
<1>6. RunOK'
  BY DEF ProcsOK, RunOK
<1>7. WroteOK'
  BY DEF WroteOK, Wrote
<1>8. FailOK'
  BY DEF TypeOK, ProcsOK, FailOK
<1>9. AnalyzingHasLiveJob'
  BY DEF AnalyzingHasLiveJob
<1> QED BY <1>1, <1>2, <1>3, <1>4, <1>5, <1>6, <1>7, <1>8, <1>9

LEMMA ExpireMeetingInv == ASSUME Inv, NEW m \in Meetings, ExpireMeeting(m) PROVE Inv'
<1> USE DEF Inv, ExpireMeeting, JobsOf, Erase, JobLocked, MeetingLocked, SetMeeting, Overdue
<1>1. TypeOK'
  BY DEF TypeOK
<1>2. ProcsOK'
  BY DEF ProcsOK
<1>3. RowsOK'
  BY DEF TypeOK, RowsOK
<1>4. NewestLive'
  BY DEF NewestLive
<1>5. RestartOK'
  BY DEF ProcsOK, RestartOK
<1>6. RunOK'
  BY DEF ProcsOK, RunOK
<1>7. WroteOK'
  BY DEF WroteOK, Wrote
<1>8. FailOK'
  BY DEF TypeOK, ProcsOK, FailOK
<1>9. AnalyzingHasLiveJob'
  BY DEF TypeOK, AnalyzingHasLiveJob, LiveJobs
<1> QED BY <1>1, <1>2, <1>3, <1>4, <1>5, <1>6, <1>7, <1>8, <1>9

LEMMA MarkFailedReadInv == ASSUME Inv, NEW p \in Procs, MarkFailedRead(p) PROVE Inv'
<1> USE DEF Inv
<1>a. p \in Procs /\ pc[p] \in Failing /\ on[p] \in Jobs /\ status[on[p]] # "none"
  BY DEF MarkFailedRead, ProcsOK
<1>b. PICK l, j, o : Moved(p, l, j, o) /\ l \in {"idle", "failRead", "drop"} /\ (p \in Workers => l # "drop")
  <2>1. CASE status[on[p]] \in Live
    BY <2>1 DEF MarkFailedRead, Goto, Moved, TypeOK
  <2>2. CASE status[on[p]] \notin Live
    BY <2>2, AfterFailureMoves DEF MarkFailedRead
  <2> QED BY <2>1, <2>2
<1>c. UNCHANGED <<mstatus, transcript, rows, file, age, sweeps, told, nextJob, faults>>
  BY DEF MarkFailedRead
<1>1. TypeOK'
  <2>1. pc' \in [Procs -> WorkerPCs \cup RequestPCs]
    BY <1>b DEF TypeOK, Moved
  <2>2. on' \in [Procs -> Jobs \cup {None}] /\ old' \in [Procs -> Jobs \cup {None}]
    BY <1>b DEF TypeOK, Moved
  <2>3. broker' \subseteq Jobs
    BY <1>b DEF TypeOK, Moved
  <2> QED BY <2>1, <2>2, <2>3, <1>c DEF TypeOK
<1>2. ProcsOK'
  BY <1>a, <1>b, <1>c DEF TypeOK, ProcsOK, Moved
<1>3. RowsOK'
  BY <1>b, <1>c DEF RowsOK, Moved
<1>4. NewestLive'
  BY <1>c DEF NewestLive
<1>5. RestartOK'
  BY <1>a, <1>b, <1>c DEF RestartOK, Moved
<1>6. RunOK'
  BY <1>a, <1>b, <1>c DEF TypeOK, RunOK, Moved
<1>7. WroteOK'
  BY <1>b, <1>c DEF WroteOK, Wrote, Moved
<1>8. FailOK'
  BY <1>b, <1>c DEF TypeOK, FailOK, Moved
<1>9. AnalyzingHasLiveJob'
  BY <1>c DEF AnalyzingHasLiveJob, LiveJobs
<1> QED BY <1>1, <1>2, <1>3, <1>4, <1>5, <1>6, <1>7, <1>8, <1>9

LEMMA MarkFailedJobInv == ASSUME Inv, NEW p \in Procs, MarkFailedJob(p) PROVE Inv'
<1> USE DEF Inv
<1>a. p \in Procs /\ pc[p] \in Failing /\ on[p] \in Jobs /\ status[on[p]] # "none"
  BY DEF MarkFailedJob, ProcsOK
<1>b. PICK l, j, o : Moved(p, l, j, o) /\ l \in {"idle", "failMark", "failSkip", "drop"} /\ (p \in Workers => l # "drop")
  <2>1. CASE status[on[p]] # "gone"
    BY <2>1 DEF MarkFailedJob, Goto, Moved, TypeOK
  <2>2. CASE status[on[p]] = "gone"
    BY <2>2, AfterFailureMoves DEF MarkFailedJob
  <2> QED BY <2>1, <2>2
<1>c. l = "failSkip" => Analyzing({on[p]}) = {}
  BY <1>b DEF MarkFailedJob, Goto, Moved, AfterFailure, Ack, Leave, TypeOK
<1>d. /\ ~JobLocked(on[p])
      /\ UNCHANGED <<mstatus, transcript, rows, file, age, sweeps, told, nextJob, faults>>
  BY DEF MarkFailedJob
<1>1. TypeOK'
  <2>1. pc' \in [Procs -> WorkerPCs \cup RequestPCs]
    BY <1>b DEF TypeOK, Moved
  <2>2. on' \in [Procs -> Jobs \cup {None}] /\ old' \in [Procs -> Jobs \cup {None}]
    BY <1>b DEF TypeOK, Moved
  <2>3. broker' \subseteq Jobs
    BY <1>b DEF TypeOK, Moved
  <2> QED BY <2>1, <2>2, <2>3, <1>d DEF TypeOK
<1>2. ProcsOK'
  BY <1>a, <1>b, <1>d DEF TypeOK, ProcsOK, Moved
<1>3. RowsOK'
  BY <1>b, <1>d DEF RowsOK, Moved
<1>4. NewestLive'
  BY <1>d DEF NewestLive
<1>5. RestartOK'
  BY <1>a, <1>b, <1>d DEF RestartOK, Moved, JobLocked
<1>6. RunOK'
  BY <1>a, <1>b, <1>d DEF TypeOK, ProcsOK, RunOK, Moved
<1>7. WroteOK'
  BY <1>b, <1>d DEF WroteOK, Wrote, Moved
<1>8. FailOK'
  BY <1>a, <1>b, <1>c, <1>d DEF TypeOK, RowsOK, FailOK, Moved, Analyzing
<1>9. AnalyzingHasLiveJob'
  BY <1>d DEF AnalyzingHasLiveJob, LiveJobs
<1> QED BY <1>1, <1>2, <1>3, <1>4, <1>5, <1>6, <1>7, <1>8, <1>9

LEMMA MarkFailedCommitInv == ASSUME Inv, NEW p \in Procs, MarkFailedCommit(p) PROVE Inv'
<1> USE DEF Inv
<1>a. p \in Procs /\ pc[p] \in Failing /\ on[p] \in Jobs /\ status[on[p]] # "none"
  BY DEF MarkFailedCommit, ProcsOK
<1>b. PICK l, j, o : Moved(p, l, j, o) /\ l \in {"idle", "drop"} /\ (p \in Workers => l # "drop")
  BY AfterFailureMoves DEF MarkFailedCommit
<1>c. /\ status' = [status EXCEPT ![on[p]] = "failed"]
      /\ quiet' = quiet \ {on[p]}
      /\ UNCHANGED <<meeting, rec, transcript, file, age, sweeps, told, nextJob, faults>>
  BY DEF MarkFailedCommit, SetStatus
<1>d. \/ /\ pc[p] = "failMark"
         /\ ~MeetingLocked(meeting[on[p]])
         /\ mstatus' = [mstatus EXCEPT ![meeting[on[p]]] = "failed"]
      \/ pc[p] = "failSkip" /\ mstatus' = mstatus
  BY DEF MarkFailedCommit, SetMeeting
<1>e. meeting[on[p]] \in Meetings
  BY <1>a DEF RowsOK
<1>1. TypeOK'
  <2>2. status' \in [Jobs -> JobStatus] /\ quiet' \subseteq Jobs
    BY <1>c DEF TypeOK
  <2>3. pc' \in [Procs -> WorkerPCs \cup RequestPCs]
    BY <1>b DEF TypeOK, Moved
  <2>4. on' \in [Procs -> Jobs \cup {None}] /\ old' \in [Procs -> Jobs \cup {None}]
    BY <1>b DEF TypeOK, Moved
  <2>5. broker' \subseteq Jobs
    BY <1>b DEF TypeOK, Moved
  <2> QED BY <2>2, <2>3, <2>4, <2>5, <1>b, <1>c, <1>d, <1>e DEF TypeOK
<1>2. ProcsOK'
  BY <1>b, <1>c, <1>d DEF TypeOK, ProcsOK, Moved
<1>3. RowsOK'
  BY <1>b, <1>c, <1>e DEF RowsOK, Moved
<1>4. NewestLive'
  BY <1>a, <1>c DEF NewestLive
<1>5. RestartOK'
  BY <1>a, <1>b, <1>c, <1>d DEF RestartOK, Moved
<1>6. RunOK'
  BY <1>b, <1>c DEF TypeOK, RunOK, Moved
<1>7. WroteOK'
  BY <1>b, <1>c, <1>d DEF TypeOK, RowsOK, WroteOK, Wrote, Moved
<1>8. FailOK'
  BY <1>b, <1>c, <1>d DEF TypeOK, ProcsOK, RowsOK, FailOK, Moved
<1>9. AnalyzingHasLiveJob'
  BY <1>c, <1>d DEF TypeOK, FailOK, AnalyzingHasLiveJob, LiveJobs
<1> QED BY <1>1, <1>2, <1>3, <1>4, <1>5, <1>6, <1>7, <1>8, <1>9

LEMMA SweepBeginInv == ASSUME Inv, SweepBegin PROVE Inv'
<1> USE DEF Inv, SweepBegin, Abandoned, Overdue, Orphans, SweepRead
<1>1. TypeOK'
  BY DEF TypeOK
<1>2. ProcsOK'
  BY DEF ProcsOK
<1>3. RowsOK'
  BY DEF RowsOK
<1>4. NewestLive'
  BY DEF NewestLive
<1>5. RestartOK'
  BY DEF RestartOK
<1>6. RunOK'
  BY DEF RunOK
<1>7. WroteOK'
  BY DEF WroteOK, Wrote
<1>8. FailOK'
  BY DEF FailOK
<1>9. AnalyzingHasLiveJob'
  BY DEF AnalyzingHasLiveJob, LiveJobs
<1> QED BY <1>1, <1>2, <1>3, <1>4, <1>5, <1>6, <1>7, <1>8, <1>9

LEMMA SweepMarkInv == ASSUME Inv, NEW s \in Sweepers, SweepMark(s) PROVE Inv'
<1> USE DEF Inv, SweepMark, JobLocked, Analyzing
<1>1. TypeOK'
  BY DEF TypeOK
<1>2. ProcsOK'
  BY DEF ProcsOK
<1>3. RowsOK'
  BY DEF RowsOK
<1>4. NewestLive'
  BY DEF NewestLive
<1>5. RestartOK'
  BY DEF RestartOK
<1>6. RunOK'
  BY DEF RunOK
<1>7. WroteOK'
  BY DEF WroteOK, Wrote
<1>8. FailOK'
  BY DEF TypeOK, RowsOK, FailOK
<1>9. AnalyzingHasLiveJob'
  BY DEF AnalyzingHasLiveJob, LiveJobs
<1> QED BY <1>1, <1>2, <1>3, <1>4, <1>5, <1>6, <1>7, <1>8, <1>9

LEMMA SweepFinishInv == ASSUME Inv, NEW s \in Sweepers, SweepFinish(s) PROVE Inv'
<1> USE DEF Inv
<1>a. PICK l, j, o : /\ Moved(s, l, j, o) /\ l \in {"idle", "decode", "decline"}
                     /\ s \in Workers => pc[s] = "claim" /\ (l = "decode" <=> status[on[s]] = "queued")
  <2>1. CASE s = Beat
    <3>1. s \notin Procs /\ UNCHANGED <<pc, on, old, broker>>
      BY <2>1 DEF SweepFinish
    <3>2. Moved(s, "idle", None, None)
      BY <3>1 DEF Moved, TypeOK
    <3> QED BY <2>1, <3>2
  <2>2. CASE s # Beat
    <3>1. s \in Workers /\ pc[s] = "claim" /\ AfterClaim(s)
      BY <2>2 DEF SweepFinish, ProcsOK
    <3>2. CASE Ack(s) /\ status[on[s]] # "queued"
      <4>1. Moved(s, "idle", None, None)
        BY <3>1, <3>2, AckMoves
      <4> QED BY <3>1, <3>2, <4>1
    <3>3. CASE Goto(s, "decode") /\ status[on[s]] = "queued" /\ UNCHANGED broker
      <4>1. Moved(s, "decode", on[s], old[s])
        BY <3>3 DEF Goto, Moved, TypeOK
      <4> QED BY <3>1, <3>3, <4>1
    <3>4. CASE Goto(s, "decline") /\ status[on[s]] # "queued" /\ UNCHANGED broker
      <4>1. Moved(s, "decline", on[s], old[s])
        BY <3>4 DEF Goto, Moved, TypeOK
      <4> QED BY <3>1, <3>4, <4>1
    <3> QED BY <3>1, <3>2, <3>3, <3>4 DEF AfterClaim
  <2> QED BY <2>1, <2>2
<1>b. /\ status' = [k \in Jobs |-> IF k \in doomed[s] THEN "failed"
                                 ELSE IF k \in Claimed(s) THEN "running" ELSE status[k]]
      /\ mstatus' = [m \in Meetings |-> IF m \in hit[s] THEN "failed" ELSE mstatus[m]]
      /\ quiet' \subseteq quiet
      /\ \A m \in hit[s] : ~MeetingLocked(m)
      /\ spc[s] # "idle"
      /\ spc[s] # "marked" => doomed[s] = {}
      /\ UNCHANGED <<meeting, rec, transcript, age, told, nextJob, faults>>
  BY DEF SweepFinish
<1>c. /\ spc' = [spc EXCEPT ![s] = "idle"]
      /\ doomed' = [doomed EXCEPT ![s] = {}]
      /\ hit' = [hit EXCEPT ![s] = {}]
  BY DEF SweepFinish, SweepOver
<1>d. file' \in [Jobs -> Jobs \cup {None}]
  BY DEF SweepFinish, TypeOK
<1>e. /\ s \in Workers => on[s] \in Jobs /\ pc[s] = "claim"
      /\ s \notin Workers => Claimed(s) = {}
      /\ s \in Workers => Claimed(s) = IF status[on[s]] = "queued" THEN {on[s]} ELSE {}
      /\ doomed[s] \subseteq Jobs /\ hit[s] \subseteq Meetings
  BY <1>a DEF Claimed, ProcsOK, TypeOK
<1>1. TypeOK'
  <2>4. pc' \in [Procs -> WorkerPCs \cup RequestPCs]
    BY <1>a DEF TypeOK, Moved
  <2>5. on' \in [Procs -> Jobs \cup {None}] /\ old' \in [Procs -> Jobs \cup {None}]
    <3>1. CASE s \in Workers
      BY <1>a DEF Moved, TypeOK
    <3>2. CASE s \notin Workers
      BY <1>a DEF Moved, TypeOK
    <3> QED BY <3>1, <3>2
  <2>6. broker' \subseteq Jobs
    BY <1>a DEF TypeOK, Moved
  <2> QED BY <2>4, <2>5, <2>6, <1>b, <1>c, <1>d DEF TypeOK
<1>2. ProcsOK'
  <2>1. (\A w \in Workers : pc[w] \in WorkerPCs)'
    BY <1>a DEF ProcsOK, Moved
  <2>2. (\A r \in Requests : pc[r] \in RequestPCs)'
    BY <1>a DEF ProcsOK, Moved
  <2>3. (\A p \in Procs : pc[p] # "idle" => on[p] \in Jobs)'
    BY <1>a DEF TypeOK, ProcsOK, Moved
  <2>4. (\A p \in Procs : pc[p] \notin {"idle", "renamed"} => status[on[p]] # "none")'
    BY <1>a, <1>b DEF TypeOK, ProcsOK, Moved
  <2>5. (\A w \in Workers : pc[w] = "claim" <=> spc[w] # "idle")'
    BY <1>a, <1>c DEF TypeOK, ProcsOK, Moved
  <2> QED BY <2>1, <2>2, <2>3, <2>4, <2>5 DEF ProcsOK
<1>3. RowsOK'
  <2>1. \A k \in Jobs : status'[k] = "none" <=> status[k] = "none"
    BY <1>b, <1>e DEF RowsOK
  <2>2. broker' \subseteq broker
    BY <1>a DEF Moved
  <2>3. \A t \in Sweepers : doomed'[t] \subseteq doomed[t]
    BY <1>c
  <2> QED BY <1>b, <2>1, <2>2, <2>3 DEF TypeOK, RowsOK
<1>4. NewestLive'
  BY <1>a, <1>b, <1>e DEF RowsOK, NewestLive
<1>5. RestartOK'
  BY <1>a, <1>b, <1>c, <1>e DEF ProcsOK, RowsOK, RestartOK, Moved
<1>6. RunOK'
  BY <1>a, <1>b, <1>e DEF ProcsOK, RunOK, WroteOK, Wrote, Moved
<1>7. WroteOK'
  BY <1>a, <1>b, <1>e DEF RowsOK, WroteOK, Wrote, Moved
<1>8. FailOK'
  BY <1>a, <1>b, <1>c, <1>e DEF TypeOK, ProcsOK, RowsOK, FailOK, Moved
<1>9. AnalyzingHasLiveJob'
  BY <1>b, <1>c, <1>d, <1>e DEF TypeOK, ProcsOK, RowsOK, WroteOK, FailOK, AnalyzingHasLiveJob, LiveJobs, Wrote, Moved
<1> QED BY <1>1, <1>2, <1>3, <1>4, <1>5, <1>6, <1>7, <1>8, <1>9

LEMMA SweepAbortsInv == ASSUME Inv, NEW s \in Sweepers, SweepAborts(s) PROVE Inv'
<1> USE DEF Inv
<1>a. PICK l, j, o : /\ Moved(s, l, j, o) /\ l \in {"idle"}
                     /\ s \in Workers => pc[s] = "claim"
  <2>1. CASE s = Beat
    <3>1. s \notin Procs /\ UNCHANGED <<pc, on, old, broker>>
      BY <2>1 DEF SweepAborts
    <3>2. Moved(s, "idle", None, None)
      BY <3>1 DEF Moved, TypeOK
    <3> QED BY <2>1, <3>2
  <2>2. CASE s # Beat
    <3>1. s \in Workers /\ Ack(s)
      BY <2>2 DEF SweepAborts
    <3>2. Moved(s, "idle", None, None)
      BY <3>1, AckMoves
    <3>3. spc[s] # "idle"
      BY DEF SweepAborts
    <3> QED BY <3>2, <3>3 DEF ProcsOK
  <2> QED BY <2>1, <2>2
<1>b. /\ spc' = [spc EXCEPT ![s] = "idle"]
      /\ doomed' = [doomed EXCEPT ![s] = {}]
      /\ hit' = [hit EXCEPT ![s] = {}]
      /\ UNCHANGED <<mstatus, transcript, rows, age, told, nextJob>>
  BY DEF SweepAborts, SweepOver
<1>c. file' \in [Jobs -> Jobs \cup {None}] /\ faults' \in 0..MaxFaults
  BY DEF SweepAborts, Fault, TypeOK
<1>1. TypeOK'
  <2>3. pc' \in [Procs -> WorkerPCs \cup RequestPCs]
    BY <1>a DEF TypeOK, Moved
  <2>4. on' \in [Procs -> Jobs \cup {None}] /\ old' \in [Procs -> Jobs \cup {None}]
    BY <1>a DEF TypeOK, Moved
  <2>5. broker' \subseteq Jobs
    BY <1>a DEF TypeOK, Moved
  <2> QED BY <2>3, <2>4, <2>5, <1>b, <1>c DEF TypeOK
<1>2. ProcsOK'
  BY <1>a, <1>b DEF TypeOK, ProcsOK, Moved
<1>3. RowsOK'
  BY <1>a, <1>b DEF RowsOK, Moved
<1>4. NewestLive'
  BY <1>b DEF NewestLive
<1>5. RestartOK'
  BY <1>a, <1>b DEF RestartOK, Moved
<1>6. RunOK'
  BY <1>a, <1>b DEF RunOK, Moved
<1>7. WroteOK'
  BY <1>a, <1>b DEF WroteOK, Wrote, Moved
<1>8. FailOK'
  BY <1>a, <1>b DEF TypeOK, RowsOK, FailOK, Moved
<1>9. AnalyzingHasLiveJob'
  BY <1>b DEF AnalyzingHasLiveJob, LiveJobs
<1> QED BY <1>1, <1>2, <1>3, <1>4, <1>5, <1>6, <1>7, <1>8, <1>9

LEMMA ClaimJobInv == ASSUME Inv, NEW w \in Workers, NEW j \in Jobs, ClaimJob(w, j) PROVE Inv'
<1> USE DEF Inv, ClaimJob, JobLocked, Begin, SweepRead, Abandoned, Overdue
<1>1. TypeOK'
  BY DEF TypeOK
<1>2. ProcsOK'
  BY DEF TypeOK, ProcsOK, RowsOK
<1>3. RowsOK'
  BY DEF RowsOK
<1>4. NewestLive'
  BY DEF NewestLive
<1>5. RestartOK'
  BY DEF TypeOK, RestartOK
<1>6. RunOK'
  BY DEF RunOK
<1>7. WroteOK'
  BY DEF WroteOK, Wrote
<1>8. FailOK'
  <2>1. spc[w] = "idle" /\ hit[w] = {}
    BY DEF ProcsOK, FailOK
  <2> QED BY <2>1 DEF FailOK
<1>9. AnalyzingHasLiveJob'
  BY DEF AnalyzingHasLiveJob, LiveJobs
<1> QED BY <1>1, <1>2, <1>3, <1>4, <1>5, <1>6, <1>7, <1>8, <1>9

LEMMA ClaimMissingInv == ASSUME Inv, NEW w \in Workers, NEW j \in Jobs, ClaimMissing(w, j) PROVE Inv'
<1> USE DEF Inv, ClaimMissing
<1>1. TypeOK'
  BY DEF TypeOK
<1>2. ProcsOK'
  BY DEF ProcsOK
<1>3. RowsOK'
  BY DEF RowsOK
<1>4. NewestLive'
  BY DEF NewestLive
<1>5. RestartOK'
  BY DEF RestartOK
<1>6. RunOK'
  BY DEF RunOK
<1>7. WroteOK'
  BY DEF WroteOK, Wrote
<1>8. FailOK'
  BY DEF FailOK
<1>9. AnalyzingHasLiveJob'
  BY DEF AnalyzingHasLiveJob, LiveJobs
<1> QED BY <1>1, <1>2, <1>3, <1>4, <1>5, <1>6, <1>7, <1>8, <1>9

LEMMA DeleteDeclinedInv == ASSUME Inv, NEW w \in Workers, DeleteDeclined(w) PROVE Inv'
<1> USE DEF Inv, DeleteDeclined, Deleted, Ack, Leave
<1>1. TypeOK'
  BY DEF TypeOK
<1>2. ProcsOK'
  BY DEF TypeOK, ProcsOK
<1>3. RowsOK'
  BY DEF RowsOK
<1>4. NewestLive'
  BY DEF NewestLive
<1>5. RestartOK'
  BY DEF RestartOK
<1>6. RunOK'
  BY DEF RunOK
<1>7. WroteOK'
  BY DEF WroteOK, Wrote
<1>8. FailOK'
  BY DEF FailOK
<1>9. AnalyzingHasLiveJob'
  BY DEF AnalyzingHasLiveJob, LiveJobs
<1> QED BY <1>1, <1>2, <1>3, <1>4, <1>5, <1>6, <1>7, <1>8, <1>9

LEMMA DecodeInv == ASSUME Inv, NEW w \in Workers, Decode(w) PROVE Inv'
<1> USE DEF Inv, Decode, Goto
<1>1. TypeOK'
  BY DEF TypeOK
<1>2. ProcsOK'
  BY DEF ProcsOK
<1>3. RowsOK'
  BY DEF RowsOK
<1>4. NewestLive'
  BY DEF NewestLive
<1>5. RestartOK'
  BY DEF RestartOK
<1>6. RunOK'
  BY DEF RunOK
<1>7. WroteOK'
  BY DEF WroteOK, Wrote
<1>8. FailOK'
  BY DEF FailOK
<1>9. AnalyzingHasLiveJob'
  BY DEF AnalyzingHasLiveJob, LiveJobs
<1> QED BY <1>1, <1>2, <1>3, <1>4, <1>5, <1>6, <1>7, <1>8, <1>9

LEMMA LeaveAdoptInv == ASSUME Inv, NEW w \in Workers, LeaveAdopt(w) PROVE Inv'
<1> USE DEF Inv, LeaveAdopt, Deleted, Goto
<1>1. TypeOK'
  BY DEF TypeOK
<1>2. ProcsOK'
  BY DEF ProcsOK
<1>3. RowsOK'
  BY DEF RowsOK
<1>4. NewestLive'
  BY DEF NewestLive
<1>5. RestartOK'
  BY DEF RestartOK
<1>6. RunOK'
  BY DEF RunOK
<1>7. WroteOK'
  BY DEF WroteOK, Wrote
<1>8. FailOK'
  BY DEF FailOK
<1>9. AnalyzingHasLiveJob'
  BY DEF AnalyzingHasLiveJob, LiveJobs
<1> QED BY <1>1, <1>2, <1>3, <1>4, <1>5, <1>6, <1>7, <1>8, <1>9

LEMMA WriteTranscriptInv == ASSUME Inv, NEW w \in Workers, WriteTranscript(w) PROVE Inv'
<1> USE DEF Inv, WriteTranscript, JobLocked, MeetingLocked, SetMeeting, Goto, Fence
<1>1. TypeOK'
  BY DEF TypeOK
<1>2. ProcsOK'
  BY DEF ProcsOK
<1>3. RowsOK'
  BY DEF RowsOK
<1>4. NewestLive'
  BY DEF NewestLive
<1>5. RestartOK'
  BY DEF RestartOK
<1>6. RunOK'
  BY DEF RunOK
<1>7. WroteOK'
  BY DEF TypeOK, RowsOK, WroteOK, Wrote
<1>8. FailOK'
  BY DEF FailOK
<1>9. AnalyzingHasLiveJob'
  BY DEF AnalyzingHasLiveJob, LiveJobs
<1> QED BY <1>1, <1>2, <1>3, <1>4, <1>5, <1>6, <1>7, <1>8, <1>9

LEMMA StopJobInv == ASSUME Inv, NEW w \in Workers, StopJob(w) PROVE Inv'
<1> USE DEF Inv, StopJob, JobLocked, Deleted, Ack, Leave, Fence
<1>1. TypeOK'
  BY DEF TypeOK
<1>2. ProcsOK'
  BY DEF TypeOK, ProcsOK
<1>3. RowsOK'
  BY DEF RowsOK
<1>4. NewestLive'
  BY DEF NewestLive
<1>5. RestartOK'
  BY DEF RestartOK
<1>6. RunOK'
  BY DEF TypeOK, RunOK
<1>7. WroteOK'
  BY DEF WroteOK, Wrote
<1>8. FailOK'
  BY DEF FailOK
<1>9. AnalyzingHasLiveJob'
  BY DEF AnalyzingHasLiveJob, LiveJobs
<1> QED BY <1>1, <1>2, <1>3, <1>4, <1>5, <1>6, <1>7, <1>8, <1>9

LEMMA StageFailsInv == ASSUME Inv, NEW w \in Workers, StageFails(w) PROVE Inv'
<1> USE DEF Inv
<1>a. w \in Procs /\ pc[w] \in Adopting \cup {"write"} /\ on[w] \in Jobs
  BY DEF StageFails, ProcsOK
<1>b. /\ pc' = [pc EXCEPT ![w] = "fail"]
      /\ UNCHANGED <<on, old, mstatus, transcript, rows, age, broker, sweeps, told, nextJob>>
  BY DEF StageFails, Goto
<1>c. file' \in [Jobs -> Jobs \cup {None}]
  <2>1. file' = file \/ file' = Deleted(on[w])
    BY DEF StageFails
  <2> QED BY <2>1 DEF Deleted, TypeOK
<1>d. faults' \in 0..MaxFaults
  BY DEF StageFails, Fault, TypeOK
<1>1. TypeOK'
  BY <1>b, <1>c, <1>d DEF TypeOK
<1>2. ProcsOK'
  BY <1>a, <1>b DEF ProcsOK
<1>3. RowsOK'
  BY <1>b DEF RowsOK
<1>4. NewestLive'
  BY <1>b DEF NewestLive
<1>5. RestartOK'
  BY <1>b DEF RestartOK
<1>6. RunOK'
  BY <1>a, <1>b DEF RunOK
<1>7. WroteOK'
  BY <1>b DEF WroteOK, Wrote
<1>8. FailOK'
  BY <1>b DEF FailOK
<1>9. AnalyzingHasLiveJob'
  BY <1>b DEF AnalyzingHasLiveJob, LiveJobs
<1> QED BY <1>1, <1>2, <1>3, <1>4, <1>5, <1>6, <1>7, <1>8, <1>9

LEMMA PublishInv == ASSUME Inv, NEW w \in Workers, Publish(w) PROVE Inv'
<1> USE DEF Inv, Publish, Goto, LastConsumer
<1>1. TypeOK'
  <2>2. told' \in [Jobs -> 0..NConsumers]
    BY DEF TypeOK, ProcsOK, RunOK
  <2> QED BY <2>2 DEF TypeOK
<1>2. ProcsOK'
  BY DEF ProcsOK
<1>3. RowsOK'
  BY DEF RowsOK
<1>4. NewestLive'
  BY DEF NewestLive
<1>5. RestartOK'
  BY DEF RestartOK
<1>6. RunOK'
  BY DEF TypeOK, RunOK
<1>7. WroteOK'
  BY DEF WroteOK, Wrote
<1>8. FailOK'
  BY DEF FailOK
<1>9. AnalyzingHasLiveJob'
  BY DEF AnalyzingHasLiveJob, LiveJobs
<1> QED BY <1>1, <1>2, <1>3, <1>4, <1>5, <1>6, <1>7, <1>8, <1>9

LEMMA PublishFailsInv == ASSUME Inv, NEW w \in Workers, PublishFails(w) PROVE Inv'
<1> USE DEF Inv, PublishFails, Fault, Goto
<1>1. TypeOK'
  <2>2. faults' \in 0..MaxFaults
    BY DEF TypeOK
  <2> QED BY <2>2 DEF TypeOK
<1>2. ProcsOK'
  BY DEF ProcsOK
<1>3. RowsOK'
  BY DEF RowsOK
<1>4. NewestLive'
  BY DEF NewestLive
<1>5. RestartOK'
  BY DEF RestartOK
<1>6. RunOK'
  BY DEF RunOK
<1>7. WroteOK'
  BY DEF WroteOK, Wrote
<1>8. FailOK'
  BY DEF FailOK
<1>9. AnalyzingHasLiveJob'
  BY DEF AnalyzingHasLiveJob, LiveJobs
<1> QED BY <1>1, <1>2, <1>3, <1>4, <1>5, <1>6, <1>7, <1>8, <1>9

LEMMA MarkUnannouncedInv == ASSUME Inv, NEW w \in Workers, MarkUnannounced(w) PROVE Inv'
<1> USE DEF Inv
<1>a. w \in Procs /\ pc[w] = "unannounced" /\ on[w] \in Jobs /\ status[on[w]] \notin {"none", "queued", "cancelled"}
  BY DEF MarkUnannounced, ProcsOK, WroteOK, Wrote
<1>b. /\ status' = [status EXCEPT ![on[w]] = IF status[on[w]] = "gone" THEN "gone" ELSE "failed"]
      /\ UNCHANGED <<meeting, rec>>
      /\ quiet' \subseteq quiet
  BY DEF MarkUnannounced, SetStatus, TypeOK
<1>c. /\ pc' = [pc EXCEPT ![w] = "idle"]
      /\ on' = [on EXCEPT ![w] = None]
      /\ old' = [old EXCEPT ![w] = None]
      /\ broker' = broker \ {on[w]}
  BY DEF MarkUnannounced, Ack, Leave
<1>d. /\ meeting[on[w]] \in Meetings
      /\ \/ status[on[w]] = "gone" /\ mstatus' = mstatus
         \/ mstatus' = [mstatus EXCEPT ![meeting[on[w]]] = "failed"]
  BY <1>a DEF MarkUnannounced, SetMeeting, RowsOK
<1>e. /\ ~JobLocked(on[w])
      /\ UNCHANGED <<transcript, file, age, sweeps, told, nextJob, faults>>
  BY DEF MarkUnannounced
<1>1. TypeOK'
  <2>1. mstatus' \in [Meetings -> MeetingStatus] /\ transcript' \in [Meetings -> Jobs \cup {None}]
    BY <1>d, <1>e DEF TypeOK
  <2> QED BY <2>1, <1>b, <1>c, <1>e DEF TypeOK
<1>2. ProcsOK'
  BY <1>a, <1>b, <1>c, <1>e DEF TypeOK, ProcsOK
<1>3. RowsOK'
  BY <1>b, <1>c, <1>d, <1>e DEF RowsOK
<1>4. NewestLive'
  BY <1>a, <1>b DEF NewestLive
<1>5. RestartOK'
  BY <1>a, <1>b, <1>c, <1>e DEF RestartOK, JobLocked
<1>6. RunOK'
  BY <1>b, <1>c, <1>e DEF TypeOK, RunOK
<1>7. WroteOK'
  BY <1>b, <1>c, <1>d, <1>e DEF TypeOK, RowsOK, WroteOK, Wrote
<1>8. FailOK'
  BY <1>b, <1>c, <1>d, <1>e DEF TypeOK, ProcsOK, RowsOK, FailOK
<1>9. AnalyzingHasLiveJob'
  BY <1>b, <1>c, <1>d, <1>e DEF TypeOK, AnalyzingHasLiveJob, LiveJobs
<1> QED BY <1>1, <1>2, <1>3, <1>4, <1>5, <1>6, <1>7, <1>8, <1>9

LEMMA MarkPublishedInv == ASSUME Inv, NEW w \in Workers, MarkPublished(w) PROVE Inv'
<1> USE DEF Inv
<1>a. w \in Procs /\ pc[w] = "published" /\ on[w] \in Jobs /\ status[on[w]] \notin {"none", "queued", "cancelled"}
  BY DEF MarkPublished, ProcsOK, WroteOK, Wrote
<1>b. /\ status' = [status EXCEPT ![on[w]] = IF status[on[w]] = "gone" THEN "gone" ELSE "done"]
      /\ UNCHANGED <<meeting, rec>>
      /\ quiet' \subseteq quiet
  BY DEF MarkPublished, SetStatus, TypeOK
<1>c. /\ pc' = [pc EXCEPT ![w] = "idle"]
      /\ on' = [on EXCEPT ![w] = None]
      /\ old' = [old EXCEPT ![w] = None]
      /\ broker' = broker \ {on[w]}
  BY DEF MarkPublished, Ack, Leave
<1>d. /\ ~JobLocked(on[w])
      /\ UNCHANGED <<mstatus, transcript, file, age, sweeps, told, nextJob, faults>>
  BY DEF MarkPublished
<1>1. TypeOK'
  BY <1>b, <1>c, <1>d DEF TypeOK
<1>2. ProcsOK'
  BY <1>a, <1>b, <1>c, <1>d DEF TypeOK, ProcsOK
<1>3. RowsOK'
  BY <1>a, <1>b, <1>c, <1>d DEF RowsOK
<1>4. NewestLive'
  BY <1>a, <1>b DEF NewestLive
<1>5. RestartOK'
  BY <1>a, <1>b, <1>c, <1>d DEF RestartOK, JobLocked
<1>6. RunOK'
  BY <1>b, <1>c, <1>d DEF TypeOK, RunOK
<1>7. WroteOK'
  BY <1>b, <1>c, <1>d DEF WroteOK, Wrote
<1>8. FailOK'
  BY <1>a, <1>b, <1>c, <1>d DEF FailOK
<1>9. AnalyzingHasLiveJob'
  BY <1>a, <1>b, <1>d DEF WroteOK, AnalyzingHasLiveJob, LiveJobs, Wrote
<1> QED BY <1>1, <1>2, <1>3, <1>4, <1>5, <1>6, <1>7, <1>8, <1>9

LEMMA WorkerDiesInv == ASSUME Inv, NEW w \in Workers, WorkerDies(w) PROVE Inv'
<1> USE DEF Inv, WorkerDies, Fault, Leave, SweepOver
<1>1. TypeOK'
  <2>4. faults' \in 0..MaxFaults
    BY DEF TypeOK
  <2> QED BY <2>4 DEF TypeOK
<1>2. ProcsOK'
  BY DEF TypeOK, ProcsOK
<1>3. RowsOK'
  BY DEF RowsOK
<1>4. NewestLive'
  BY DEF NewestLive
<1>5. RestartOK'
  BY DEF RestartOK
<1>6. RunOK'
  BY DEF TypeOK, RunOK
<1>7. WroteOK'
  BY DEF WroteOK, Wrote
<1>8. FailOK'
  BY DEF TypeOK, FailOK
<1>9. AnalyzingHasLiveJob'
  BY DEF AnalyzingHasLiveJob, LiveJobs
<1> QED BY <1>1, <1>2, <1>3, <1>4, <1>5, <1>6, <1>7, <1>8, <1>9

LEMMA HeartBeatInv == ASSUME Inv, NEW w \in Workers, HeartBeat(w) PROVE Inv'
<1> USE DEF Inv, HeartBeat, JobLocked
<1>1. TypeOK'
  BY DEF TypeOK
<1>2. ProcsOK'
  BY DEF ProcsOK
<1>3. RowsOK'
  BY DEF RowsOK
<1>4. NewestLive'
  BY DEF NewestLive
<1>5. RestartOK'
  BY DEF RestartOK
<1>6. RunOK'
  BY DEF RunOK
<1>7. WroteOK'
  BY DEF WroteOK, Wrote
<1>8. FailOK'
  BY DEF FailOK
<1>9. AnalyzingHasLiveJob'
  BY DEF AnalyzingHasLiveJob, LiveJobs
<1> QED BY <1>1, <1>2, <1>3, <1>4, <1>5, <1>6, <1>7, <1>8, <1>9

LEMMA GoQuietInv == ASSUME Inv, NEW j \in Jobs, GoQuiet(j) PROVE Inv'
<1> USE DEF Inv, GoQuiet
<1>1. TypeOK'
  BY DEF TypeOK
<1>2. ProcsOK'
  BY DEF ProcsOK
<1>3. RowsOK'
  BY DEF RowsOK
<1>4. NewestLive'
  BY DEF NewestLive
<1>5. RestartOK'
  BY DEF RestartOK
<1>6. RunOK'
  BY DEF RunOK
<1>7. WroteOK'
  BY DEF WroteOK, Wrote
<1>8. FailOK'
  BY DEF FailOK
<1>9. AnalyzingHasLiveJob'
  BY DEF AnalyzingHasLiveJob, LiveJobs
<1> QED BY <1>1, <1>2, <1>3, <1>4, <1>5, <1>6, <1>7, <1>8, <1>9

LEMMA GrowOldInv == ASSUME Inv, NEW r \in Jobs, GrowOld(r) PROVE Inv'
<1> USE DEF Inv, GrowOld, OnDisk
<1>1. TypeOK'
  BY DEF TypeOK
<1>2. ProcsOK'
  BY DEF ProcsOK
<1>3. RowsOK'
  BY DEF RowsOK
<1>4. NewestLive'
  BY DEF NewestLive
<1>5. RestartOK'
  BY DEF RestartOK
<1>6. RunOK'
  BY DEF RunOK
<1>7. WroteOK'
  BY DEF WroteOK, Wrote
<1>8. FailOK'
  BY DEF FailOK
<1>9. AnalyzingHasLiveJob'
  BY DEF AnalyzingHasLiveJob, LiveJobs
<1> QED BY <1>1, <1>2, <1>3, <1>4, <1>5, <1>6, <1>7, <1>8, <1>9

LEMMA LoseMessageInv == ASSUME Inv, NEW j \in Jobs, LoseMessage(j) PROVE Inv'
<1> USE DEF Inv, LoseMessage, Fault
<1>1. TypeOK'
  <2>2. faults' \in 0..MaxFaults
    BY DEF TypeOK
  <2> QED BY <2>2 DEF TypeOK
<1>2. ProcsOK'
  BY DEF ProcsOK
<1>3. RowsOK'
  BY DEF RowsOK
<1>4. NewestLive'
  BY DEF NewestLive
<1>5. RestartOK'
  BY DEF RestartOK
<1>6. RunOK'
  BY DEF RunOK
<1>7. WroteOK'
  BY DEF WroteOK, Wrote
<1>8. FailOK'
  BY DEF FailOK
<1>9. AnalyzingHasLiveJob'
  BY DEF AnalyzingHasLiveJob, LiveJobs
<1> QED BY <1>1, <1>2, <1>3, <1>4, <1>5, <1>6, <1>7, <1>8, <1>9

-----------------------------------------------------------------------------
\* Inv is inductive.
LEMMA NextInv == ASSUME Inv, [Next]_vars PROVE Inv'
<1>1. CASE UNCHANGED vars
  BY <1>1 DEF vars, Inv, TypeOK, ProcsOK, RowsOK, NewestLive, RestartOK, RunOK, WroteOK, Wrote, FailOK,
              AnalyzingHasLiveJob, LiveJobs
<1>2. ASSUME NEW r \in Requests, RequestStep(r) PROVE Inv'
  BY <1>2, EnqueueInv, EnqueueFailsInv, RestartCommitInv, DropRecordingInv, RequestDiesInv,
     UploadRecordingInv, UploadDiesInv, CancelTranscriptionInv, RestartRenameInv DEF RequestStep
<1>3. ASSUME NEW w \in Workers, WorkerStep(w) PROVE Inv'
  <2>1. ASSUME Task(w) PROVE Inv'
    BY <2>1, DeleteDeclinedInv, DecodeInv, LeaveAdoptInv, WriteTranscriptInv, StopJobInv, PublishInv,
       MarkUnannouncedInv, MarkPublishedInv DEF Task
  <2>2. ASSUME Deliver(w) PROVE Inv'
    BY <2>2, ClaimJobInv, ClaimMissingInv DEF Deliver
  <2> QED BY <1>3, <2>1, <2>2, StageFailsInv, PublishFailsInv, WorkerDiesInv, HeartBeatInv DEF WorkerStep
<1>4. ASSUME NEW p \in Procs, MarkFailed(p) PROVE Inv'
  BY <1>4, MarkFailedReadInv, MarkFailedJobInv, MarkFailedCommitInv DEF MarkFailed
<1>5. ASSUME NEW s \in Sweepers, Sweep(s) PROVE Inv'
  BY <1>5, SweepMarkInv, SweepFinishInv, SweepAbortsInv DEF Sweep
<1>6. ASSUME NEW j \in Jobs, GoQuiet(j) \/ GrowOld(j) \/ LoseMessage(j) PROVE Inv'
  BY <1>6, GoQuietInv, GrowOldInv, LoseMessageInv
<1>7. ASSUME NEW m \in Meetings, DeleteMeeting(m) \/ ExpireMeeting(m) PROVE Inv'
  BY <1>7, DeleteMeetingInv, ExpireMeetingInv
<1> QED BY <1>1, <1>2, <1>3, <1>4, <1>5, <1>6, <1>7, SweepBeginInv DEF Next

THEOREM Invariance == Spec => []Inv
<1>1. Init => Inv
  BY InitInv
<1>2. Inv /\ [Next]_vars => Inv'
  BY NextInv
<1> QED BY <1>1, <1>2, PTL DEF Spec

-----------------------------------------------------------------------------
\* The tables, the directory and the processes keep their shape; in
\* particular no attempt tells more consumers than there are.
THEOREM TypeCorrect == Spec => []TypeOK
<1>1. Inv => TypeOK
  BY DEF Inv
<1> QED BY <1>1, Invariance, PTL

\* At most one attempt of a meeting is queued or running.
THEOREM AtMostOneLive == Spec => []OneLiveJob
<1>1. Inv => OneLiveJob
  <2> SUFFICES ASSUME Inv, NEW m \in Meetings, NEW j \in LiveJobs(m), NEW k \in LiveJobs(m)
               PROVE  j = k
    BY DEF OneLiveJob
  <2>1. j <= k /\ k <= j
    BY DEF Inv, NewestLive, LiveJobs
  <2> QED BY <2>1 DEF LiveJobs
<1> QED BY <1>1, Invariance, PTL

\* A meeting that is analyzing always has an attempt a person can cancel.
THEOREM NeverStuck == Spec => []AnalyzingHasLiveJob
<1>1. Inv => AnalyzingHasLiveJob
  BY DEF Inv
<1> QED BY <1>1, Invariance, PTL

\* A cancelled attempt has written nothing and told nobody.
THEOREM CancelHolds == Spec => []CancelledStaysSilent
<1>1. Inv => CancelledStaysSilent
  BY DEF Inv, WroteOK, Wrote, CancelledStaysSilent
<1> QED BY <1>1, Invariance, PTL

\* A transcript is replaced only by a newer attempt's: whoever may write, by
\* the fence, is its meeting's newest attempt.
THEOREM NoLateTranscript == Spec => TranscriptMovesForward
<1> DEFINE Forward == \A m \in Meetings : transcript[m] # None /\ transcript'[m] # transcript[m] =>
                          transcript'[m] = None \/ transcript'[m] > transcript[m]
<1>1. ASSUME Inv, NEW w \in Workers, WriteTranscript(w) PROVE Forward
  <2>1. /\ on[w] \in Jobs /\ status[on[w]] = "running"
        /\ transcript' = [transcript EXCEPT ![meeting[on[w]]] = on[w]]
    BY <1>1 DEF WriteTranscript, Fence, Inv, ProcsOK
  <2>2. ASSUME NEW m \in Meetings, transcript[m] # None, transcript'[m] # transcript[m]
        PROVE  transcript'[m] > transcript[m]
    <3>1. m = meeting[on[w]] /\ transcript'[m] = on[w]
      BY <1>1, <2>1, <2>2 DEF Inv, TypeOK
    <3>2. transcript[m] \in Jobs /\ meeting[transcript[m]] = m
      BY <1>1, <2>2 DEF Inv, TypeOK, WroteOK
    <3>3. status[transcript[m]] # "none"
      BY <1>1, <3>2 DEF Inv, WroteOK, Wrote
    <3>4. transcript[m] <= on[w]
      BY <1>1, <2>1, <3>1, <3>2, <3>3 DEF Inv, NewestLive
    <3> QED BY <2>1, <2>2, <3>1, <3>2, <3>4
  <2> QED BY <2>2
<1>2. ASSUME NEW m \in Meetings, Inv, DeleteMeeting(m) \/ ExpireMeeting(m) PROVE Forward
  BY <1>2 DEF DeleteMeeting, ExpireMeeting, Erase, Inv, TypeOK
<1>3. ASSUME transcript' = transcript PROVE Forward
  BY <1>3
<1>4. ASSUME NEW r \in Requests, RequestStep(r) PROVE transcript' = transcript
  BY <1>4 DEF RequestStep, Enqueue, EnqueueFails, RestartCommit, DropRecording, RequestDies,
              UploadRecording, UploadDies, CancelTranscription, RestartRename
<1>5. ASSUME NEW w \in Workers, WorkerStep(w), ~WriteTranscript(w) PROVE transcript' = transcript
  BY <1>5 DEF WorkerStep, Task, Deliver, DeleteDeclined, Decode, LeaveAdopt, StopJob, Publish,
              MarkUnannounced, MarkPublished, ClaimJob, ClaimMissing, StageFails, PublishFails, WorkerDies, HeartBeat
<1>6. ASSUME NEW p \in Procs, MarkFailed(p) PROVE transcript' = transcript
  BY <1>6 DEF MarkFailed, MarkFailedRead, MarkFailedJob, MarkFailedCommit
<1>7. ASSUME NEW s \in Sweepers, SweepBegin \/ Sweep(s) PROVE transcript' = transcript
  BY <1>7 DEF SweepBegin, Sweep, SweepMark, SweepFinish, SweepAborts
<1>8. ASSUME NEW j \in Jobs, GoQuiet(j) \/ GrowOld(j) \/ LoseMessage(j) PROVE transcript' = transcript
  BY <1>8 DEF GoQuiet, GrowOld, LoseMessage
<1>9. Inv /\ [Next]_vars => [Forward]_vars
  <2> SUFFICES ASSUME Inv, Next PROVE Forward
    OBVIOUS
  <2> QED BY <1>1, <1>2, <1>3, <1>4, <1>5, <1>6, <1>7, <1>8 DEF Next
<1> QED BY <1>9, Invariance, PTL DEF Spec, TranscriptMovesForward

-----------------------------------------------------------------------------
(* Deleted meetings, and meetings somebody is about to fail               *)

\* A deleted meeting has deleted attempts; a row somebody holds is there; a
\* sweep fails the meetings of the attempts it fails.
GoneOK ==
    /\ \A j \in Jobs : status[j] \notin {"none", "gone"} => mstatus[meeting[j]] # "gone"
    /\ \A p \in Procs : pc[p] \in {"failMark", "failSkip", "claim"} => status[on[p]] # "gone"
    /\ \A s \in Sweepers : spc[s] = "marked" => \A j \in doomed[s] : status[j] # "gone"
    /\ \A s \in Sweepers : \A m \in hit[s] : \E j \in doomed[s] : meeting[j] = m

\* A live attempt whose meeting somebody is about to fail is locked, so that the
\* meeting does not become complete meanwhile.
LateOK ==
    /\ \A p \in Procs : pc[p] = "failMark" /\ status[on[p]] \in Live =>
           mstatus[meeting[on[p]]] # "complete"
    /\ \A s \in Sweepers : spc[s] = "marked" => \A j \in doomed[s] :
           status[j] \in Live /\ meeting[j] \in hit[s] => mstatus[meeting[j]] # "complete"

\* A step that touches no row, and takes and lists no attempt.
LEMMA RowsStay ==
    ASSUME Inv, GoneOK, LateOK, UNCHANGED <<status, meeting, mstatus>>,
           \A p \in Procs : pc'[p] \in {"failMark", "failSkip", "claim"} =>
               pc'[p] = pc[p] /\ on'[p] = on[p],
           \A s \in Sweepers : \/ spc'[s] = spc[s] /\ doomed'[s] = doomed[s] /\ hit'[s] = hit[s]
                               \/ spc'[s] # "marked" /\ hit'[s] = {}
    PROVE  GoneOK' /\ LateOK'
BY DEF GoneOK, LateOK

LEMMA RowsTasks ==
    ASSUME Inv, GoneOK, LateOK, NEW w \in Workers,
           \/ DeleteDeclined(w) \/ Decode(w) \/ LeaveAdopt(w) \/ StopJob(w) \/ Publish(w)
           \/ StageFails(w) \/ PublishFails(w) \/ WorkerDies(w) \/ HeartBeat(w)
           \/ \E j \in Jobs : ClaimMissing(w, j)
    PROVE  GoneOK' /\ LateOK'
<1>1. UNCHANGED <<status, meeting, mstatus>>
  BY DEF DeleteDeclined, Decode, LeaveAdopt, StopJob, Publish, StageFails, PublishFails, WorkerDies,
         HeartBeat, ClaimMissing
<1>2. \A p \in Procs : pc'[p] \in {"failMark", "failSkip", "claim"} => pc'[p] = pc[p] /\ on'[p] = on[p]
  BY DEF Inv, TypeOK, DeleteDeclined, Decode, LeaveAdopt, StopJob, Publish, StageFails, PublishFails,
         WorkerDies, HeartBeat, ClaimMissing, Ack, Leave, Goto
<1>3. \A s \in Sweepers : \/ spc'[s] = spc[s] /\ doomed'[s] = doomed[s] /\ hit'[s] = hit[s]
                          \/ spc'[s] # "marked" /\ hit'[s] = {}
  <2>1. CASE WorkerDies(w)
    BY <2>1 DEF Inv, TypeOK, WorkerDies, SweepOver
  <2>2. CASE ~WorkerDies(w)
    <3>1. spc' = spc /\ doomed' = doomed /\ hit' = hit
      BY <2>2 DEF DeleteDeclined, Decode, LeaveAdopt, StopJob, Publish, StageFails, PublishFails,
                  HeartBeat, ClaimMissing
    <3> QED BY <3>1
  <2> QED BY <2>1, <2>2
<1> QED BY <1>1, <1>2, <1>3, RowsStay

LEMMA RowsRequests ==
    ASSUME Inv, GoneOK, LateOK, NEW r \in Requests,
           \/ Enqueue(r) \/ EnqueueFails(r) \/ DropRecording(r) \/ RequestDies(r)
           \/ \E m \in Meetings : UploadDies(r, m)
           \/ \E m \in Meetings, j \in Jobs : RestartRename(r, m, j)
    PROVE  GoneOK' /\ LateOK'
<1>1. UNCHANGED <<status, meeting, mstatus>> /\ spc' = spc /\ doomed' = doomed /\ hit' = hit
  BY DEF Enqueue, EnqueueFails, DropRecording, RequestDies, UploadDies, RestartRename
<1>2. \A p \in Procs : pc'[p] \in {"failMark", "failSkip", "claim"} => pc'[p] = pc[p] /\ on'[p] = on[p]
  <2>1. CASE Enqueue(r) \/ EnqueueFails(r)
    BY <2>1 DEF Inv, TypeOK, Enqueue, EnqueueFails, Leave, Goto
  <2>2. CASE DropRecording(r) \/ RequestDies(r)
    BY <2>2 DEF Inv, TypeOK, DropRecording, RequestDies, Leave, Goto
  <2>3. ASSUME NEW m \in Meetings, UploadDies(r, m) PROVE UNCHANGED <<pc, on>>
    BY <2>3 DEF UploadDies
  <2>4. ASSUME NEW m \in Meetings, NEW j \in Jobs, RestartRename(r, m, j)
        PROVE  \A p \in Procs : pc'[p] \in {"failMark", "failSkip", "claim"} =>
                   pc'[p] = pc[p] /\ on'[p] = on[p]
    BY <2>4 DEF Inv, TypeOK, RestartRename
  <2> QED BY <2>1, <2>2, <2>3, <2>4
<1> QED BY <1>1, <1>2, RowsStay

LEMMA RowsUpload ==
    ASSUME Inv, GoneOK, LateOK, NEW r \in Requests, NEW m \in Meetings, UploadRecording(r, m)
    PROVE  GoneOK' /\ LateOK'
<1> USE DEF Inv
<1>a. /\ r \in Procs /\ nextJob \in Jobs /\ status[nextJob] = "none"
      /\ mstatus[m] \in {"scheduled", "failed"}
  BY DEF UploadRecording, RowsOK
<1>b. /\ status' = [j \in Jobs |-> IF j = nextJob THEN "queued"
                                 ELSE IF status[j] \in Live /\ meeting[j] = m THEN "superseded" ELSE status[j]]
      /\ meeting' = [meeting EXCEPT ![nextJob] = m]
      /\ mstatus' = [mstatus EXCEPT ![m] = "analyzing"]
      /\ pc' = [pc EXCEPT ![r] = "enqueue"]
      /\ on' = [on EXCEPT ![r] = nextJob]
      /\ UNCHANGED sweeps
  BY DEF UploadRecording, LiveJobs, SetMeeting, Begin
<1>c. \A p \in Procs : pc'[p] \in {"failMark", "failSkip", "claim"} =>
        pc[p] = pc'[p] /\ on'[p] = on[p] /\ on[p] \in Jobs \ {nextJob}
  BY <1>a, <1>b DEF TypeOK, ProcsOK
<1>d. \A s \in Sweepers : doomed[s] \subseteq Jobs \ {nextJob}
  BY <1>a DEF TypeOK, RowsOK
<1>e. \A j \in Jobs \ {nextJob} : meeting'[j] = meeting[j] /\ (status[j] # "none" => meeting[j] \in Meetings)
  BY <1>b DEF TypeOK, RowsOK
<1>1. GoneOK'
  BY <1>a, <1>b, <1>c, <1>d, <1>e DEF GoneOK, TypeOK
<1>2. LateOK'
  BY <1>a, <1>b, <1>c, <1>d, <1>e DEF LateOK, TypeOK, ProcsOK, RowsOK
<1> QED BY <1>1, <1>2

LEMMA RowsCancel ==
    ASSUME Inv, GoneOK, LateOK, NEW r \in Requests, NEW m \in Meetings, NEW j \in Jobs,
           CancelTranscription(r, m, j)
    PROVE  GoneOK' /\ LateOK'
<1> USE DEF Inv
<1>a. /\ status' = [status EXCEPT ![j] = "cancelled"]
      /\ mstatus' = [mstatus EXCEPT ![m] = "failed"]
      /\ UNCHANGED <<meeting, sweeps>>
      /\ mstatus[m] = "analyzing" /\ status[j] \in Live /\ meeting[j] = m
  BY DEF CancelTranscription, SetStatus, SetMeeting, LiveJobs
<1>b. \A p \in Procs : pc'[p] \in {"failMark", "failSkip", "claim"} => pc[p] = pc'[p] /\ on'[p] = on[p]
  BY DEF TypeOK, CancelTranscription, Begin
<1>1. GoneOK'
  BY <1>a, <1>b DEF GoneOK, TypeOK
<1>2. LateOK'
  BY <1>a, <1>b DEF LateOK, TypeOK, ProcsOK, RowsOK
<1> QED BY <1>1, <1>2

LEMMA RowsRestart ==
    ASSUME Inv, GoneOK, LateOK, NEW r \in Requests, RestartCommit(r)
    PROVE  GoneOK' /\ LateOK'
<1> USE DEF Inv
<1>a. /\ r \in Procs /\ r \notin Workers /\ pc[r] = "renamed"
      /\ on[r] \in Jobs /\ old[r] \in Jobs /\ on[r] # old[r]
      /\ status[on[r]] = "none" /\ status[old[r]] \in Live
      /\ meeting[old[r]] \in Meetings
  BY DEF RestartCommit, ProcsOK, RestartOK, RowsOK
<1>b. /\ status' = [k \in Jobs |-> IF k = on[r] THEN "queued"
                                 ELSE IF k = old[r] THEN "superseded" ELSE status[k]]
      /\ meeting' = [meeting EXCEPT ![on[r]] = meeting[old[r]]]
      /\ pc' = [pc EXCEPT ![r] = "enqueue"]
      /\ UNCHANGED <<on, mstatus, sweeps>>
  BY <1>a DEF RestartCommit, TypeOK
<1>c. \A p \in Procs : pc'[p] \in {"failMark", "failSkip", "claim"} =>
        pc[p] = pc'[p] /\ on[p] \in Jobs \ {on[r]}
  BY <1>a, <1>b DEF TypeOK, ProcsOK
<1>d. \A s \in Sweepers : doomed[s] \subseteq Jobs \ {on[r]}
  BY <1>a DEF TypeOK, RowsOK
<1>e. \A j \in Jobs \ {on[r]} : meeting'[j] = meeting[j]
  BY <1>a, <1>b DEF TypeOK
<1>1. GoneOK'
  BY <1>a, <1>b, <1>c, <1>d, <1>e DEF GoneOK, TypeOK
<1>2. LateOK'
  BY <1>a, <1>b, <1>c, <1>d, <1>e DEF LateOK, TypeOK
<1> QED BY <1>1, <1>2

LEMMA RowsErase ==
    ASSUME Inv, GoneOK, LateOK, NEW m \in Meetings, DeleteMeeting(m) \/ ExpireMeeting(m)
    PROVE  GoneOK' /\ LateOK'
<1> USE DEF Inv
<1>a. /\ status' = [j \in Jobs |-> IF meeting[j] = m THEN "gone" ELSE status[j]]
      /\ mstatus' = [mstatus EXCEPT ![m] = "gone"]
      /\ UNCHANGED <<meeting, pc, on, spc, doomed, hit>>
      /\ \A j \in Jobs : meeting[j] = m => ~JobLocked(j)
  BY DEF DeleteMeeting, ExpireMeeting, Erase, SetMeeting, JobsOf
<1>1. GoneOK'
  BY <1>a DEF GoneOK, TypeOK, ProcsOK, JobLocked
<1>2. LateOK'
  BY <1>a DEF LateOK, TypeOK, ProcsOK, JobLocked
<1> QED BY <1>1, <1>2

LEMMA RowsFailing ==
    ASSUME Inv, GoneOK, LateOK, NEW p \in Procs, MarkFailedRead(p) \/ MarkFailedJob(p)
    PROVE  GoneOK' /\ LateOK'
<1> USE DEF Inv
<1>a. /\ UNCHANGED <<status, meeting, mstatus, spc, doomed, hit>>
      /\ pc[p] \in {"fail", "failRead"} /\ on[p] \in Jobs /\ status[on[p]] # "none"
  BY DEF MarkFailedRead, MarkFailedJob, ProcsOK
<1>b. PICK l, j, o : Moved(p, l, j, o) /\ l \in {"idle", "drop", "failRead", "failMark", "failSkip"}
                     /\ (l \in {"failMark", "failSkip"} => status[on[p]] # "gone")
                     /\ (l = "failMark" => Analyzing({on[p]}) # {})
  <2>1. CASE AfterFailure(p)
    <3>1. PICK l, j, o : Moved(p, l, j, o) /\ l \in {"idle", "drop"}
      BY <1>a, <2>1, AfterFailureMoves
    <3> QED BY <3>1
  <2>2. CASE ~AfterFailure(p)
    <3>1. \E l : /\ Goto(p, l) /\ UNCHANGED broker /\ l \in {"failRead", "failMark", "failSkip"}
                 /\ (l \in {"failMark", "failSkip"} => status[on[p]] # "gone")
                 /\ (l = "failMark" => Analyzing({on[p]}) # {})
      BY <2>2 DEF MarkFailedRead, MarkFailedJob
    <3>2. PICK l : /\ Goto(p, l) /\ UNCHANGED broker /\ l \in {"failRead", "failMark", "failSkip"}
                   /\ (l \in {"failMark", "failSkip"} => status[on[p]] # "gone")
                   /\ (l = "failMark" => Analyzing({on[p]}) # {})
      BY <3>1
    <3>3. Moved(p, l, on[p], old[p])
      BY <3>2 DEF Moved, Goto, TypeOK
    <3> QED BY <3>2, <3>3
  <2> QED BY <2>1, <2>2
<1>c. l = "failMark" => mstatus[meeting[on[p]]] = "analyzing"
  BY <1>b DEF Analyzing
<1>1. GoneOK'
  BY <1>a, <1>b DEF GoneOK, TypeOK, Moved
<1>2. LateOK'
  BY <1>a, <1>b, <1>c DEF LateOK, TypeOK, Moved
<1> QED BY <1>1, <1>2

LEMMA RowsFailed ==
    ASSUME Inv, GoneOK, LateOK, NEW p \in Procs, MarkFailedCommit(p)
    PROVE  GoneOK' /\ LateOK'
<1> USE DEF Inv
<1>a. /\ pc[p] \in {"failMark", "failSkip"} /\ on[p] \in Jobs /\ status[on[p]] \notin {"none", "gone"}
      /\ meeting[on[p]] \in Meetings
  BY DEF MarkFailedCommit, ProcsOK, RowsOK, GoneOK
<1>b. PICK l, j, o : Moved(p, l, j, o) /\ l \in {"idle", "drop"}
  BY <1>a, AfterFailureMoves DEF MarkFailedCommit
<1>c. /\ status' = [status EXCEPT ![on[p]] = "failed"]
      /\ UNCHANGED <<meeting, spc, doomed, hit>>
      /\ \/ mstatus' = mstatus
         \/ mstatus' = [mstatus EXCEPT ![meeting[on[p]]] = "failed"]
  BY DEF MarkFailedCommit, SetStatus, SetMeeting
<1>1. GoneOK'
  BY <1>a, <1>b, <1>c DEF GoneOK, TypeOK, Moved, RowsOK
<1>2. LateOK'
  <2>1. \A m \in Meetings : mstatus'[m] = "complete" => mstatus[m] = "complete"
    BY <1>a, <1>c DEF TypeOK
  <2>2. \A k \in Jobs : status'[k] \in Live => status[k] \in Live /\ k # on[p]
    BY <1>a, <1>c DEF TypeOK, Live
  <2>3. \A k \in Jobs : status[k] \in Live => meeting[k] \in Meetings
    BY DEF RowsOK, Live
  <2>4. ASSUME NEW q \in Procs, pc'[q] = "failMark", status'[on'[q]] \in Live
        PROVE  mstatus'[meeting'[on'[q]]] # "complete"
    <3>1. q # p /\ pc[q] = "failMark" /\ on'[q] = on[q]
      BY <1>a, <1>b, <2>4 DEF Moved, TypeOK
    <3>2. on[q] \in Jobs
      BY <3>1 DEF ProcsOK
    <3> QED BY <1>c, <2>1, <2>2, <2>3, <2>4, <3>1, <3>2 DEF LateOK
  <2>5. ASSUME NEW s \in Sweepers, spc'[s] = "marked", NEW k \in doomed'[s],
               status'[k] \in Live, meeting'[k] \in hit'[s]
        PROVE  mstatus'[meeting'[k]] # "complete"
    <3>1. k \in Jobs
      BY <1>c, <2>5 DEF TypeOK
    <3> QED BY <1>c, <2>1, <2>2, <2>3, <2>5, <3>1 DEF LateOK
  <2> QED BY <2>4, <2>5 DEF LateOK
<1> QED BY <1>1, <1>2

LEMMA RowsSweep ==
    ASSUME Inv, GoneOK, LateOK, NEW s \in Sweepers, SweepMark(s) \/ SweepAborts(s)
    PROVE  GoneOK' /\ LateOK'
<1> USE DEF Inv
<1>a. UNCHANGED <<status, meeting, mstatus>>
  BY DEF SweepMark, SweepAborts
<1>1. CASE SweepMark(s)
  <2>1. /\ UNCHANGED <<pc, on, doomed>>
        /\ spc' = [spc EXCEPT ![s] = "marked"]
        /\ hit' = [hit EXCEPT ![s] = Analyzing(doomed[s])]
        /\ \A j \in doomed[s] : status[j] # "gone"
        /\ doomed[s] \subseteq Jobs
    BY <1>1 DEF SweepMark, TypeOK
  <2>2. \A m \in Analyzing(doomed[s]) : mstatus[m] = "analyzing" /\ \E j \in doomed[s] : meeting[j] = m
    BY DEF Analyzing
  <2>3. GoneOK'
    BY <1>a, <2>1, <2>2 DEF GoneOK, TypeOK
  <2>4. LateOK'
    BY <1>a, <2>1, <2>2 DEF LateOK, TypeOK
  <2> QED BY <2>3, <2>4
<1>2. CASE SweepAborts(s)
  <2>1. \A p \in Procs : pc'[p] \in {"failMark", "failSkip", "claim"} => pc'[p] = pc[p] /\ on'[p] = on[p]
    BY <1>2 DEF SweepAborts, Ack, Leave, TypeOK
  <2>2. \A t \in Sweepers : \/ spc'[t] = spc[t] /\ doomed'[t] = doomed[t] /\ hit'[t] = hit[t]
                            \/ spc'[t] # "marked" /\ hit'[t] = {}
    BY <1>2 DEF SweepAborts, SweepOver, TypeOK
  <2> QED BY <1>a, <2>1, <2>2, RowsStay
<1> QED BY <1>1, <1>2

LEMMA RowsSwept ==
    ASSUME Inv, GoneOK, LateOK, NEW s \in Sweepers, SweepFinish(s)
    PROVE  GoneOK' /\ LateOK'
<1> USE DEF Inv
<1>a. /\ status' = [j \in Jobs |-> IF j \in doomed[s] THEN "failed"
                                   ELSE IF j \in Claimed(s) THEN "running" ELSE status[j]]
      /\ mstatus' = [m \in Meetings |-> IF m \in hit[s] THEN "failed" ELSE mstatus[m]]
      /\ UNCHANGED meeting
      /\ spc' = [spc EXCEPT ![s] = "idle"]
      /\ doomed' = [doomed EXCEPT ![s] = {}]
      /\ hit' = [hit EXCEPT ![s] = {}]
      /\ (spc[s] = "read" /\ doomed[s] = {}) \/ spc[s] = "marked"
  BY DEF SweepFinish, SweepOver
<1>b. \A p \in Procs : pc'[p] \in {"failMark", "failSkip", "claim"} => pc'[p] = pc[p] /\ on'[p] = on[p]
  BY DEF SweepFinish, AfterClaim, Ack, Leave, Goto, TypeOK
<1>c. \A j \in Claimed(s) : status[j] = "queued"
  BY DEF Claimed
<1>d. /\ \A j \in doomed[s] : status[j] \notin {"none", "gone"} /\ mstatus[meeting[j]] # "gone"
      /\ doomed[s] \subseteq Jobs
  BY <1>a DEF GoneOK, RowsOK, TypeOK
<1>e. \A m \in hit[s] : mstatus[m] # "gone"
  BY <1>d DEF GoneOK
<1>1. GoneOK'
  <2>1. \A j \in Jobs : status'[j] \notin {"none", "gone"} => status[j] \notin {"none", "gone"}
    BY <1>a, <1>c, <1>d
  <2>2. \A j \in Jobs : status'[j] = "gone" => status[j] = "gone"
    BY <1>a
  <2>3. \A m \in Meetings : mstatus'[m] = "gone" => mstatus[m] = "gone"
    BY <1>a
  <2> QED BY <1>a, <1>b, <2>1, <2>2, <2>3 DEF GoneOK, TypeOK, ProcsOK, RowsOK
<1>2. LateOK'
  <2>1. \A j \in Jobs : status'[j] \in Live => status[j] \in Live
    BY <1>a, <1>c
  <2>2. \A m \in Meetings : mstatus'[m] = "complete" => mstatus[m] = "complete"
    BY <1>a
  <2> QED BY <1>a, <1>b, <2>1, <2>2 DEF LateOK, TypeOK, ProcsOK, RowsOK
<1> QED BY <1>1, <1>2

LEMMA RowsClaim ==
    ASSUME Inv, GoneOK, LateOK, NEW w \in Workers, NEW j \in Jobs, ClaimJob(w, j)
    PROVE  GoneOK' /\ LateOK'
<1> USE DEF Inv
<1>a. /\ UNCHANGED <<status, meeting, mstatus>> /\ status[j] # "gone"
      /\ pc' = [pc EXCEPT ![w] = "claim"] /\ on' = [on EXCEPT ![w] = j]
      /\ spc' = [spc EXCEPT ![w] = "read"] /\ hit' = hit /\ spc[w] = "idle"
      /\ \A s \in Sweepers \ {w} : doomed'[s] = doomed[s]
  BY DEF ClaimJob, Begin, SweepRead, ProcsOK, TypeOK
<1>b. \A s \in Sweepers : hit'[s] = hit[s] /\ (s = w => hit[s] = {})
  BY <1>a DEF FailOK
<1>1. GoneOK'
  <2>1. \A s \in Sweepers : \A m \in hit'[s] : \E k \in doomed'[s] : meeting'[k] = m
    BY <1>a, <1>b DEF GoneOK
  <2> QED BY <1>a, <2>1 DEF GoneOK, TypeOK
<1>2. LateOK'
  BY <1>a DEF LateOK, TypeOK
<1> QED BY <1>1, <1>2

LEMMA RowsBegin == ASSUME Inv, GoneOK, LateOK, SweepBegin PROVE GoneOK' /\ LateOK'
<1> USE DEF Inv
<1>a. /\ UNCHANGED <<status, meeting, mstatus, pc, on>>
      /\ spc' = [spc EXCEPT ![Beat] = "read"] /\ hit' = hit /\ spc[Beat] = "idle"
      /\ \A s \in Sweepers \ {Beat} : doomed'[s] = doomed[s]
  BY DEF SweepBegin, SweepRead, TypeOK
<1>b. \A s \in Sweepers : hit'[s] = hit[s] /\ (s = Beat => hit[s] = {})
  BY <1>a DEF FailOK
<1>1. GoneOK'
  <2>1. \A s \in Sweepers : \A m \in hit'[s] : \E k \in doomed'[s] : meeting'[k] = m
    BY <1>a, <1>b DEF GoneOK
  <2> QED BY <1>a, <2>1 DEF GoneOK, TypeOK
<1>2. LateOK'
  BY <1>a DEF LateOK, TypeOK
<1> QED BY <1>1, <1>2

\* A meeting becomes complete while its live attempt is nobody else's.
LEMMA RowsWrite ==
    ASSUME Inv, GoneOK, LateOK, NEW w \in Workers, WriteTranscript(w)
    PROVE  GoneOK' /\ LateOK'
<1> USE DEF Inv
<1>a. /\ pc[w] = "write" /\ on[w] \in Jobs /\ status[on[w]] = "running" /\ ~JobLocked(on[w])
      /\ meeting[on[w]] \in Meetings
      /\ mstatus' = [mstatus EXCEPT ![meeting[on[w]]] = "complete"]
      /\ pc' = [pc EXCEPT ![w] = "publish"]
      /\ UNCHANGED <<status, meeting, on, spc, doomed, hit>>
  BY DEF WriteTranscript, Fence, SetMeeting, Goto, ProcsOK, RowsOK
<1>b. \A j \in Jobs : status[j] \in Live /\ meeting[j] = meeting[on[w]] => j = on[w]
  BY <1>a DEF NewestLive
<1>1. GoneOK'
  BY <1>a DEF GoneOK, TypeOK
<1>2. LateOK'
  BY <1>a, <1>b DEF LateOK, TypeOK, ProcsOK, JobLocked
<1> QED BY <1>1, <1>2

LEMMA RowsTold ==
    ASSUME Inv, GoneOK, LateOK, NEW w \in Workers, MarkUnannounced(w) \/ MarkPublished(w)
    PROVE  GoneOK' /\ LateOK'
<1> USE DEF Inv
<1>a. /\ w \in Procs /\ pc[w] \in Announcing /\ on[w] \in Jobs /\ status[on[w]] # "none"
      /\ meeting[on[w]] \in Meetings
  BY DEF MarkUnannounced, MarkPublished, ProcsOK, RowsOK
<1>b. /\ \A p \in Procs : pc'[p] \in {"failMark", "failSkip", "claim"} => pc'[p] = pc[p] /\ on'[p] = on[p]
      /\ UNCHANGED <<meeting, spc, doomed, hit>>
  BY DEF MarkUnannounced, MarkPublished, SetStatus, Ack, Leave, TypeOK
<1>c. \/ UNCHANGED <<status, mstatus>>
      \/ /\ status[on[w]] # "gone"
         /\ status' \in {[status EXCEPT ![on[w]] = "failed"], [status EXCEPT ![on[w]] = "done"]}
         /\ mstatus' \in {mstatus, [mstatus EXCEPT ![meeting[on[w]]] = "failed"]}
  BY DEF MarkUnannounced, MarkPublished, SetStatus, SetMeeting
<1>d. \A j \in Jobs : status'[j] = "gone" => status[j] = "gone"
  BY <1>a, <1>c DEF TypeOK
<1>f. \A j \in Jobs : status'[j] \notin {"none", "gone"} => status[j] \notin {"none", "gone"}
  BY <1>a, <1>c DEF TypeOK
<1>g. \A j \in Jobs : status'[j] \in Live => status[j] \in Live
  BY <1>a, <1>c DEF TypeOK
<1>e. /\ \A m \in Meetings : mstatus'[m] = "complete" => mstatus[m] = "complete"
      /\ \A m \in Meetings : mstatus'[m] = "gone" => mstatus[m] = "gone"
  BY <1>a, <1>c DEF TypeOK
<1>1. GoneOK'
  <2>1. \A j \in Jobs : status'[j] \notin {"none", "gone"} => mstatus'[meeting'[j]] # "gone"
    BY <1>b, <1>f, <1>e DEF GoneOK, RowsOK
  <2>2. \A p \in Procs : pc'[p] \in {"failMark", "failSkip", "claim"} => status'[on'[p]] # "gone"
    <3> SUFFICES ASSUME NEW p \in Procs, pc'[p] \in {"failMark", "failSkip", "claim"}
                 PROVE  status'[on'[p]] # "gone"
      OBVIOUS
    <3>1. on'[p] = on[p] /\ pc'[p] = pc[p] /\ on[p] \in Jobs
      BY <1>b DEF ProcsOK
    <3>2. status[on[p]] # "gone"
      BY <3>1 DEF GoneOK
    <3> QED BY <1>d, <3>1, <3>2
  <2>3. \A s \in Sweepers : spc'[s] = "marked" => \A j \in doomed'[s] : status'[j] # "gone"
    BY <1>b, <1>d DEF GoneOK, TypeOK
  <2>4. \A s \in Sweepers : \A m \in hit'[s] : \E j \in doomed'[s] : meeting'[j] = m
    BY <1>b DEF GoneOK
  <2> QED BY <2>1, <2>2, <2>3, <2>4 DEF GoneOK
<1>2. LateOK'
  <2>1. ASSUME NEW p \in Procs, pc'[p] = "failMark", status'[on'[p]] \in Live
        PROVE  mstatus'[meeting'[on'[p]]] # "complete"
    <3>1. on'[p] = on[p] /\ pc[p] = "failMark" /\ on[p] \in Jobs
      BY <1>b, <2>1 DEF ProcsOK
    <3>2. status[on[p]] \in Live /\ meeting[on[p]] \in Meetings
      BY <1>g, <2>1, <3>1 DEF RowsOK
    <3>3. mstatus[meeting[on[p]]] # "complete"
      BY <3>1, <3>2 DEF LateOK
    <3> QED BY <1>b, <1>e, <3>1, <3>2, <3>3
  <2>2. ASSUME NEW s \in Sweepers, spc'[s] = "marked", NEW j \in doomed'[s],
               status'[j] \in Live, meeting'[j] \in hit'[s]
        PROVE  mstatus'[meeting'[j]] # "complete"
    <3>1. spc[s] = "marked" /\ j \in doomed[s] /\ j \in Jobs /\ meeting'[j] = meeting[j] /\ meeting[j] \in hit[s]
      BY <1>b, <2>2 DEF TypeOK
    <3>2. status[j] \in Live /\ meeting[j] \in Meetings
      BY <1>g, <2>2, <3>1 DEF RowsOK
    <3>3. mstatus[meeting[j]] # "complete"
      BY <3>1, <3>2 DEF LateOK
    <3> QED BY <1>e, <3>1, <3>2, <3>3
  <2> QED BY <2>1, <2>2 DEF LateOK
<1> QED BY <1>1, <1>2

LEMMA GoneInit == Init => GoneOK /\ LateOK
BY DEF Init, GoneOK, LateOK

LEMMA GoneStep == ASSUME Inv, GoneOK, LateOK, [Next]_vars PROVE GoneOK' /\ LateOK'
<1>1. CASE UNCHANGED vars
  BY <1>1, RowsStay DEF vars
<1>2. ASSUME NEW r \in Requests, RequestStep(r) PROVE GoneOK' /\ LateOK'
  BY <1>2, RowsRequests, RowsUpload, RowsCancel, RowsRestart DEF RequestStep
<1>3. ASSUME NEW w \in Workers, WorkerStep(w) PROVE GoneOK' /\ LateOK'
  BY <1>3, RowsTasks, RowsWrite, RowsTold, RowsClaim DEF WorkerStep, Task, Deliver
<1>4. ASSUME NEW p \in Procs, MarkFailed(p) PROVE GoneOK' /\ LateOK'
  BY <1>4, RowsFailing, RowsFailed DEF MarkFailed
<1>5. ASSUME NEW s \in Sweepers, Sweep(s) PROVE GoneOK' /\ LateOK'
  BY <1>5, RowsSweep, RowsSwept DEF Sweep
<1>6. ASSUME NEW j \in Jobs, GoQuiet(j) \/ GrowOld(j) \/ LoseMessage(j) PROVE GoneOK' /\ LateOK'
  <2>1. UNCHANGED <<status, meeting, mstatus, pc, on, spc, doomed, hit>>
    BY <1>6 DEF GoQuiet, GrowOld, LoseMessage
  <2> QED BY <2>1, RowsStay
<1>7. ASSUME NEW m \in Meetings, DeleteMeeting(m) \/ ExpireMeeting(m) PROVE GoneOK' /\ LateOK'
  BY <1>7, RowsErase
<1> QED BY <1>1, <1>2, <1>3, <1>4, <1>5, <1>6, <1>7, RowsBegin DEF Next

LEMMA RowsInvariance == Spec => [](Inv /\ GoneOK /\ LateOK)
<1>1. Init => Inv /\ GoneOK /\ LateOK
  BY InitInv, GoneInit
<1>2. Inv /\ GoneOK /\ LateOK /\ [Next]_vars => (Inv /\ GoneOK /\ LateOK)'
  BY NextInv, GoneStep
<1> QED BY <1>1, <1>2, PTL DEF Spec

\* A complete meeting accepts another recording only after a publish raised, or
\* after a late mark_failed of an attempt that is no longer live.
THEOREM ReopenedRarely == Spec => ReopenedOnlyUnannounced
<1> DEFINE Reopened(m) == \/ \E w \in Workers : pc[w] = "unannounced" /\ meeting[on[w]] = m
                          \/ FailsLate(m)
<1>1. ASSUME Inv, GoneOK, LateOK, [Next]_vars, NEW m \in Meetings,
             mstatus[m] = "complete", mstatus'[m] = "failed"
      PROVE  Reopened(m)
  <2> USE DEF Inv
  <2>1. CASE UNCHANGED vars
    BY <1>1, <2>1 DEF vars
  <2>2. ASSUME NEW r \in Requests, RequestStep(r) PROVE Reopened(m)
    BY <1>1, <2>2 DEF RequestStep, Enqueue, EnqueueFails, RestartCommit, DropRecording, RequestDies,
       UploadRecording, UploadDies, CancelTranscription, RestartRename, SetMeeting, TypeOK
  <2>3. ASSUME NEW w \in Workers, WorkerStep(w) PROVE Reopened(m)
    <3>1. mstatus' = mstatus \/ WriteTranscript(w) \/ MarkUnannounced(w)
      BY <2>3 DEF WorkerStep, Task, Deliver, DeleteDeclined, Decode, LeaveAdopt, StopJob, Publish,
         MarkPublished, ClaimJob, ClaimMissing, StageFails, PublishFails, WorkerDies, HeartBeat
    <3>2. CASE WriteTranscript(w)
      BY <1>1, <3>2 DEF WriteTranscript, SetMeeting, TypeOK
    <3>3. CASE MarkUnannounced(w)
      BY <1>1, <3>3 DEF MarkUnannounced, SetMeeting, TypeOK
    <3> QED BY <1>1, <3>1, <3>2, <3>3
  <2>4. ASSUME NEW p \in Procs, MarkFailed(p) PROVE Reopened(m)
    <3>1. pc[p] = "failMark" /\ mstatus' = [mstatus EXCEPT ![meeting[on[p]]] = "failed"]
      BY <1>1, <2>4 DEF MarkFailed, MarkFailedRead, MarkFailedJob, MarkFailedCommit, SetMeeting
    <3>2. meeting[on[p]] = m
      BY <1>1, <3>1 DEF TypeOK
    <3>3. status[on[p]] \notin Live
      BY <1>1, <3>1, <3>2 DEF LateOK
    <3> QED BY <3>1, <3>2, <3>3 DEF FailsLate
  <2>5. CASE SweepBegin
    BY <1>1, <2>5 DEF SweepBegin
  <2>6. ASSUME NEW s \in Sweepers, Sweep(s) PROVE Reopened(m)
    <3>1. mstatus' = [n \in Meetings |-> IF n \in hit[s] THEN "failed" ELSE mstatus[n]]
      BY <1>1, <2>6 DEF Sweep, SweepMark, SweepFinish, SweepAborts
    <3>2. m \in hit[s]
      BY <1>1, <3>1
    <3>3. spc[s] = "marked"
      BY <1>1, <3>2 DEF FailOK
    <3>4. PICK j \in doomed[s] : meeting[j] = m
      BY <1>1, <3>2 DEF GoneOK
    <3>5. status[j] \notin Live
      BY <1>1, <3>2, <3>3, <3>4 DEF LateOK
    <3> QED BY <3>4, <3>5 DEF FailsLate
  <2>7. ASSUME NEW j \in Jobs, GoQuiet(j) \/ GrowOld(j) \/ LoseMessage(j) PROVE Reopened(m)
    BY <1>1, <2>7 DEF GoQuiet, GrowOld, LoseMessage
  <2>8. ASSUME NEW n \in Meetings, DeleteMeeting(n) \/ ExpireMeeting(n) PROVE Reopened(m)
    BY <1>1, <2>8 DEF DeleteMeeting, ExpireMeeting, Erase, SetMeeting, TypeOK
  <2> QED BY <1>1, <2>1, <2>2, <2>3, <2>4, <2>5, <2>6, <2>7, <2>8 DEF Next
<1>2. Inv /\ GoneOK /\ LateOK /\ [Next]_vars =>
        [\A m \in Meetings : mstatus[m] = "complete" /\ mstatus'[m] = "failed" => Reopened(m)]_vars
  BY <1>1
<1> QED BY <1>2, RowsInvariance, PTL DEF Spec, ReopenedOnlyUnannounced

-----------------------------------------------------------------------------
(* The pipeline implements MeetingAttempts: every step is one of its steps *)
(* or a stutter                                                            *)

LEMMA HolderIs ==
    ASSUME NEW m \in Meetings, NEW j \in LiveJobs(m), \A k \in LiveJobs(m) : k = j
    PROVE  Holder(m) = j
BY DEF Holder

LEMMA HolderIsNext ==
    ASSUME NEW m \in Meetings, NEW j \in LiveJobs(m)', \A k \in LiveJobs(m)' : k = j
    PROVE  Holder(m)' = j
BY DEF Holder

LEMMA OneHolder ==
    ASSUME Inv, NEW m \in Meetings, NEW j \in LiveJobs(m)
    PROVE  Holder(m) = j /\ j \in Jobs
<1>1. \A k \in LiveJobs(m) : k = j
  <2> SUFFICES ASSUME NEW k \in LiveJobs(m) PROVE k = j
    OBVIOUS
  <2>1. j \in Jobs /\ k \in Jobs /\ k <= j /\ j <= k
    BY DEF Inv, NewestLive, LiveJobs
  <2> QED BY <2>1
<1> QED BY <1>1, HolderIs DEF LiveJobs

\* A step that only ends live attempts is a release, or nothing.
LEMMA Releases ==
    ASSUME Inv, transcript' = transcript,
           \A j \in Jobs : status'[j] = "none" => status[j] = "none",
           \A j \in Jobs : status[j] = "none" => status'[j] = "none",
           \A j \in Jobs : status'[j] \in Live => status[j] \in Live /\ meeting'[j] = meeting[j],
           \A m \in Meetings : mstatus'[m] = "gone" => mstatus[m] = "gone",
           \A m \in Meetings : mstatus[m] = "gone" => mstatus'[m] = "gone"
    PROVE  Attempts!Next
<1> DEFINE ms == {m \in Meetings : LiveJobs(m)' = {}}
<1>1. ASSUME NEW m \in Meetings PROVE Holder(m)' = IF m \in ms THEN None ELSE Holder(m)
  <2>1. CASE m \in ms
    BY <2>1 DEF Holder
  <2>2. CASE m \notin ms
    <3>1. PICK j \in LiveJobs(m)' : TRUE
      BY <2>2
    <3>2. LiveJobs(m)' \subseteq LiveJobs(m)
      BY DEF LiveJobs
    <3>3. \A k \in LiveJobs(m) : k = Holder(m)
      BY OneHolder
    <3>4. Holder(m)' = j
      BY <3>1, <3>2, <3>3, HolderIsNext
    <3> QED BY <2>2, <3>1, <3>2, <3>3, <3>4
  <2> QED BY <2>1, <2>2
<1>2. [m \in Meetings |-> Holder(m)]' =
        [m \in Meetings |-> IF m \in ms THEN None ELSE [n \in Meetings |-> Holder(n)][m]]
  BY <1>1
<1>3. {j \in Jobs : status[j] # "none"}' = {j \in Jobs : status[j] # "none"}
  OBVIOUS
<1>4. {m \in Meetings : mstatus[m] = "gone"}' = {m \in Meetings : mstatus[m] = "gone"}
  OBVIOUS
<1>5. Attempts!Release(ms)
  BY <1>2, <1>3, <1>4 DEF Attempts!Release
<1> QED BY <1>5 DEF Attempts!Next

\* Attempt a, new, is the only live one its meeting has after the step.
LEMMA Admits ==
    ASSUME Inv, NEW m \in Meetings, NEW a \in Jobs, transcript' = transcript, mstatus[m] # "gone",
           status[a] = "none",
           {j \in Jobs : status'[j] # "none"} = {j \in Jobs : status[j] # "none"} \cup {a},
           {n \in Meetings : mstatus'[n] = "gone"} = {n \in Meetings : mstatus[n] = "gone"},
           LiveJobs(m)' = {a},
           \A n \in Meetings \ {m} : LiveJobs(n)' = LiveJobs(n)
    PROVE  Attempts!Next
<1>1. Holder(m)' = a
  <2>1. a \in LiveJobs(m)' /\ \A k \in LiveJobs(m)' : k = a
    OBVIOUS
  <2> QED BY <2>1, HolderIsNext
<1>2. ASSUME NEW n \in Meetings \ {m} PROVE Holder(n)' = Holder(n)
  <2>1. LiveJobs(n)' = LiveJobs(n)
    OBVIOUS
  <2> QED BY <2>1 DEF Holder
<1>3. [n \in Meetings |-> Holder(n)]' = [[n \in Meetings |-> Holder(n)] EXCEPT ![m] = a]
  BY <1>1, <1>2
<1>4. Attempts!Admit(m, a)
  BY <1>3 DEF Attempts!Admit
<1> QED BY <1>4 DEF Attempts!Next

LEMMA WriteCommits == ASSUME Inv, GoneOK, NEW w \in Workers, WriteTranscript(w) PROVE Attempts!Next
<1> USE DEF Inv
<1> DEFINE m == meeting[on[w]]
<1>1. /\ on[w] \in Jobs /\ status[on[w]] = "running" /\ m \in Meetings
      /\ transcript' = [transcript EXCEPT ![m] = on[w]]
      /\ mstatus' = [mstatus EXCEPT ![m] = "complete"]
      /\ UNCHANGED <<status, meeting>>
      /\ on[w] \in LiveJobs(m) /\ mstatus[m] # "gone"
  BY DEF WriteTranscript, Fence, ProcsOK, RowsOK, SetMeeting, LiveJobs, GoneOK
<1> HIDE DEF m
<1>2. Holder(m) = on[w] /\ Holder(m) # None
  BY <1>1, OneHolder
<1>3. [n \in Meetings |-> Holder(n)]' = [n \in Meetings |-> Holder(n)]
  BY <1>1 DEF Holder, LiveJobs
<1>4. {n \in Meetings : mstatus[n] = "gone"}' = {n \in Meetings : mstatus[n] = "gone"}
  BY <1>1 DEF TypeOK
<1>5. Attempts!Commit(m)
  BY <1>1, <1>2, <1>3, <1>4 DEF Attempts!Commit
<1> QED BY <1>1, <1>5 DEF Attempts!Next

LEMMA UploadAdmits ==
    ASSUME Inv, GoneOK, NEW r \in Requests, NEW m \in Meetings, UploadRecording(r, m)
    PROVE  Attempts!Next
<1> USE DEF Inv
<1>1. /\ nextJob \in Jobs /\ status[nextJob] = "none" /\ mstatus[m] # "gone"
      /\ transcript' = transcript
      /\ status' = [j \in Jobs |-> IF j = nextJob THEN "queued"
                                 ELSE IF status[j] \in Live /\ meeting[j] = m THEN "superseded" ELSE status[j]]
      /\ meeting' = [meeting EXCEPT ![nextJob] = m]
      /\ mstatus' = [mstatus EXCEPT ![m] = "analyzing"]
  BY DEF UploadRecording, RowsOK, LiveJobs, SetMeeting
<1>2. {j \in Jobs : status'[j] # "none"} = {j \in Jobs : status[j] # "none"} \cup {nextJob}
  BY <1>1
<1>3. {n \in Meetings : mstatus'[n] = "gone"} = {n \in Meetings : mstatus[n] = "gone"}
  BY <1>1 DEF TypeOK
<1>4. LiveJobs(m)' = {nextJob}
  BY <1>1 DEF LiveJobs, TypeOK
<1>5. \A n \in Meetings \ {m} : LiveJobs(n)' = LiveJobs(n)
  BY <1>1 DEF LiveJobs, TypeOK
<1> QED BY <1>1, <1>2, <1>3, <1>4, <1>5, Admits

LEMMA RestartAdmits ==
    ASSUME Inv, GoneOK, NEW r \in Requests, RestartCommit(r)
    PROVE  Attempts!Next
<1> USE DEF Inv
<1> PICK m, a : m = meeting[old[r]] /\ a = on[r]
  OBVIOUS
<1>1. /\ a \in Jobs /\ old[r] \in Jobs /\ a # old[r] /\ m \in Meetings
      /\ status[a] = "none" /\ status[old[r]] \in Live /\ mstatus[m] # "gone"
      /\ UNCHANGED <<transcript, mstatus>>
      /\ status' = [k \in Jobs |-> IF k = a THEN "queued" ELSE IF k = old[r] THEN "superseded" ELSE status[k]]
      /\ meeting' = [meeting EXCEPT ![a] = m]
  <2>1. on[r] \in Jobs /\ old[r] \in Jobs /\ status[on[r]] = "none" /\ status[old[r]] \in Live
    BY DEF RestartCommit, ProcsOK, RestartOK
  <2>2. on[r] # old[r] /\ meeting[old[r]] \in Meetings
    BY <2>1 DEF RowsOK
  <2>3. mstatus[meeting[old[r]]] # "gone"
    BY <2>1 DEF GoneOK
  <2>4. /\ UNCHANGED <<transcript, mstatus>>
        /\ status' = [k \in Jobs |-> IF k = on[r] THEN "queued" ELSE IF k = old[r] THEN "superseded" ELSE status[k]]
        /\ meeting' = [meeting EXCEPT ![on[r]] = meeting[old[r]]]
    BY <2>1, <2>2 DEF RestartCommit, TypeOK
  <2> QED BY <2>1, <2>2, <2>3, <2>4
<1>2. \A j \in LiveJobs(m) : j = old[r]
  <2>1. old[r] \in LiveJobs(m)
    BY <1>1 DEF LiveJobs
  <2>2. Holder(m) = old[r]
    BY <1>1, <2>1, OneHolder
  <2> QED BY <1>1, <2>2, OneHolder
<1>3. {j \in Jobs : status'[j] # "none"} = {j \in Jobs : status[j] # "none"} \cup {a}
  BY <1>1
<1>4. LiveJobs(m)' = {a}
  <2>1. \A j \in LiveJobs(m)' : j = a
    <3> SUFFICES ASSUME NEW j \in LiveJobs(m)', j # a PROVE FALSE
      OBVIOUS
    <3>1. j \in Jobs /\ status'[j] \in Live /\ meeting'[j] = m
      BY DEF LiveJobs
    <3>2. status[j] \in Live /\ j # old[r] /\ meeting[j] = m
      BY <1>1, <3>1 DEF TypeOK
    <3> QED BY <1>2, <3>1, <3>2 DEF LiveJobs
  <2>2. a \in LiveJobs(m)'
    BY <1>1 DEF LiveJobs, TypeOK
  <2> QED BY <2>1, <2>2
<1>5. \A n \in Meetings \ {m} : LiveJobs(n)' = LiveJobs(n)
  <2>1. meeting[old[r]] = m
    OBVIOUS
  <2>2. \A j \in Jobs \ {a} : meeting'[j] = meeting[j]
    BY <1>1 DEF TypeOK
  <2>3. \A j \in Jobs \ {a, old[r]} : status'[j] = status[j]
    BY <1>1
  <2>4. meeting'[a] = m /\ status'[a] = "queued" /\ status'[old[r]] = "superseded"
    BY <1>1 DEF TypeOK
  <2>5. ASSUME NEW n \in Meetings \ {m}, NEW j \in Jobs
        PROVE  (meeting'[j] = n /\ status'[j] \in Live) <=> (meeting[j] = n /\ status[j] \in Live)
    <3>1. CASE j = a
      BY <1>1, <2>4, <3>1
    <3>2. CASE j = old[r]
      BY <1>1, <2>1, <2>2, <2>4, <3>2
    <3>3. CASE j \notin {a, old[r]}
      BY <2>2, <2>3, <3>3
    <3> QED BY <3>1, <3>2, <3>3
  <2> QED BY <2>5 DEF LiveJobs
<1> QED BY <1>1, <1>3, <1>4, <1>5, Admits

LEMMA ErasesMeeting ==
    ASSUME Inv, GoneOK, NEW m \in Meetings, DeleteMeeting(m) \/ ExpireMeeting(m)
    PROVE  Attempts!Next
<1> USE DEF Inv
<1>1. /\ status' = [j \in Jobs |-> IF meeting[j] = m THEN "gone" ELSE status[j]]
      /\ mstatus' = [mstatus EXCEPT ![m] = "gone"]
      /\ transcript' = [transcript EXCEPT ![m] = None]
      /\ meeting' = meeting
  BY DEF DeleteMeeting, ExpireMeeting, Erase, SetMeeting, JobsOf
<1>2. {j \in Jobs : status[j] # "none"}' = {j \in Jobs : status[j] # "none"}
  BY <1>1 DEF RowsOK
<1>3. {n \in Meetings : mstatus[n] = "gone"}' = {n \in Meetings : mstatus[n] = "gone"} \cup {m}
  BY <1>1 DEF TypeOK
<1>4. LiveJobs(m)' = {} /\ \A n \in Meetings \ {m} : LiveJobs(n)' = LiveJobs(n)
  <2>1. \A j \in Jobs : meeting[j] = m => status'[j] = "gone"
    BY <1>1
  <2>2. \A j \in Jobs : meeting[j] # m => status'[j] = status[j]
    BY <1>1
  <2>3. LiveJobs(m)' = {}
    BY <1>1, <2>1 DEF LiveJobs
  <2>4. ASSUME NEW n \in Meetings \ {m} PROVE LiveJobs(n)' = LiveJobs(n)
    BY <1>1, <2>2 DEF LiveJobs
  <2> QED BY <2>3, <2>4
<1>5. [n \in Meetings |-> Holder(n)]' = [[n \in Meetings |-> Holder(n)] EXCEPT ![m] = None]
  <2>1. Holder(m)' = None
    BY <1>4 DEF Holder
  <2>2. ASSUME NEW n \in Meetings \ {m} PROVE Holder(n)' = Holder(n)
    <3>1. LiveJobs(n)' = LiveJobs(n)
      BY <1>4
    <3> QED BY <3>1 DEF Holder
  <2> QED BY <2>1, <2>2
<1>6. Attempts!Erase(m)
  BY <1>1, <1>2, <1>3, <1>5 DEF Attempts!Erase
<1> QED BY <1>6 DEF Attempts!Next

\* A step that touches no row is a stutter.
LEMMA Stutters ==
    ASSUME UNCHANGED <<status, meeting, mstatus, transcript>>
    PROVE  UNCHANGED Attempts!vars
<1>1. [n \in Meetings |-> Holder(n)]' = [n \in Meetings |-> Holder(n)]
  BY DEF Holder, LiveJobs
<1>2. {j \in Jobs : status[j] # "none"}' = {j \in Jobs : status[j] # "none"}
  OBVIOUS
<1>3. {n \in Meetings : mstatus[n] = "gone"}' = {n \in Meetings : mstatus[n] = "gone"}
  OBVIOUS
<1> QED BY <1>1, <1>2, <1>3 DEF Attempts!vars

LEMMA EndsReleases ==
    ASSUME Inv, GoneOK, NEW w \in Workers, MarkUnannounced(w) \/ MarkPublished(w)
    PROVE  [Attempts!Next]_Attempts!vars
<1> USE DEF Inv
<1>a. /\ w \in Procs /\ on[w] \in Jobs /\ status[on[w]] # "none" /\ meeting[on[w]] \in Meetings
      /\ UNCHANGED <<meeting, transcript>>
  BY DEF MarkUnannounced, MarkPublished, SetStatus, ProcsOK, RowsOK
<1>1. CASE UNCHANGED <<status, mstatus>>
  BY <1>a, <1>1, Stutters
<1>2. CASE ~UNCHANGED <<status, mstatus>>
  <2>1. /\ status[on[w]] # "gone"
        /\ status' \in {[status EXCEPT ![on[w]] = "failed"], [status EXCEPT ![on[w]] = "done"]}
        /\ mstatus' \in {mstatus, [mstatus EXCEPT ![meeting[on[w]]] = "failed"]}
    BY <1>2 DEF MarkUnannounced, MarkPublished, SetStatus, SetMeeting
  <2>2. mstatus[meeting[on[w]]] # "gone"
    BY <1>a, <2>1 DEF GoneOK
  <2>3. \A j \in Jobs : /\ status'[j] = "none" => status[j] = "none"
                        /\ status[j] = "none" => status'[j] = "none"
                        /\ status'[j] \in Live => status[j] \in Live
    BY <1>a, <2>1 DEF TypeOK
  <2>4. \A m \in Meetings : /\ mstatus'[m] = "gone" => mstatus[m] = "gone"
                            /\ mstatus[m] = "gone" => mstatus'[m] = "gone"
    BY <1>a, <2>1, <2>2 DEF TypeOK
  <2> QED BY <1>a, <2>3, <2>4, Releases
<1> QED BY <1>1, <1>2

LEMMA FailureReleases ==
    ASSUME Inv, GoneOK, NEW p \in Procs, MarkFailedCommit(p)
    PROVE  Attempts!Next
<1> USE DEF Inv
<1>a. /\ on[p] \in Jobs /\ status[on[p]] \notin {"none", "gone"} /\ meeting[on[p]] \in Meetings
      /\ UNCHANGED <<meeting, transcript>>
      /\ status' = [status EXCEPT ![on[p]] = "failed"]
      /\ mstatus' \in {mstatus, [mstatus EXCEPT ![meeting[on[p]]] = "failed"]}
  BY DEF MarkFailedCommit, SetStatus, SetMeeting, ProcsOK, RowsOK, GoneOK
<1>b. mstatus[meeting[on[p]]] # "gone"
  BY <1>a DEF GoneOK
<1>1. \A j \in Jobs : /\ status'[j] = "none" => status[j] = "none"
                      /\ status[j] = "none" => status'[j] = "none"
                      /\ status'[j] \in Live => status[j] \in Live
  BY <1>a DEF TypeOK
<1>2. \A m \in Meetings : /\ mstatus'[m] = "gone" => mstatus[m] = "gone"
                          /\ mstatus[m] = "gone" => mstatus'[m] = "gone"
  BY <1>a, <1>b DEF TypeOK
<1> QED BY <1>a, <1>1, <1>2, Releases

LEMMA CancelReleases ==
    ASSUME Inv, NEW r \in Requests, NEW m \in Meetings, NEW j \in Jobs, CancelTranscription(r, m, j)
    PROVE  Attempts!Next
<1> USE DEF Inv
<1>a. /\ status[j] \in Live /\ mstatus[m] = "analyzing"
      /\ UNCHANGED <<meeting, transcript>>
      /\ status' = [status EXCEPT ![j] = "cancelled"]
      /\ mstatus' = [mstatus EXCEPT ![m] = "failed"]
  BY DEF CancelTranscription, SetStatus, SetMeeting, LiveJobs
<1>1. \A k \in Jobs : /\ status'[k] = "none" => status[k] = "none"
                      /\ status[k] = "none" => status'[k] = "none"
                      /\ status'[k] \in Live => status[k] \in Live
  BY <1>a DEF TypeOK
<1>2. \A n \in Meetings : /\ mstatus'[n] = "gone" => mstatus[n] = "gone"
                          /\ mstatus[n] = "gone" => mstatus'[n] = "gone"
  BY <1>a DEF TypeOK
<1> QED BY <1>a, <1>1, <1>2, Releases

LEMMA SweepReleases ==
    ASSUME Inv, GoneOK, NEW s \in Sweepers, SweepFinish(s)
    PROVE  Attempts!Next
<1> USE DEF Inv
<1>a. /\ status' = [j \in Jobs |-> IF j \in doomed[s] THEN "failed"
                                   ELSE IF j \in Claimed(s) THEN "running" ELSE status[j]]
      /\ mstatus' = [m \in Meetings |-> IF m \in hit[s] THEN "failed" ELSE mstatus[m]]
      /\ UNCHANGED <<meeting, transcript>>
      /\ (spc[s] = "read" /\ doomed[s] = {}) \/ spc[s] = "marked"
  BY DEF SweepFinish
<1>b. \A j \in doomed[s] : j \in Jobs /\ status[j] \notin {"none", "gone"} /\ mstatus[meeting[j]] # "gone"
  BY <1>a DEF GoneOK, RowsOK, TypeOK
<1>c. \A m \in hit[s] : mstatus[m] # "gone"
  BY <1>b DEF GoneOK
<1>d. \A j \in Claimed(s) : status[j] = "queued"
  BY DEF Claimed
<1>1. \A j \in Jobs : /\ status'[j] = "none" => status[j] = "none"
                      /\ status[j] = "none" => status'[j] = "none"
                      /\ status'[j] \in Live => status[j] \in Live
  BY <1>a, <1>b, <1>d
<1>2. \A m \in Meetings : /\ mstatus'[m] = "gone" => mstatus[m] = "gone"
                          /\ mstatus[m] = "gone" => mstatus'[m] = "gone"
  BY <1>a, <1>c
<1> QED BY <1>a, <1>1, <1>2, Releases

LEMMA StepRefines == ASSUME Inv, GoneOK, [Next]_vars PROVE [Attempts!Next]_Attempts!vars
<1>1. CASE UNCHANGED vars
  BY <1>1, Stutters DEF vars
<1>2. ASSUME NEW r \in Requests, RequestStep(r) PROVE [Attempts!Next]_Attempts!vars
  <2>1. CASE \/ Enqueue(r) \/ EnqueueFails(r) \/ DropRecording(r) \/ RequestDies(r)
             \/ \E m \in Meetings : UploadDies(r, m)
             \/ \E m \in Meetings, j \in Jobs : RestartRename(r, m, j)
    <3>1. UNCHANGED <<status, meeting, mstatus, transcript>>
      BY <2>1 DEF Enqueue, EnqueueFails, DropRecording, RequestDies, UploadDies, RestartRename
    <3> QED BY <3>1, Stutters
  <2> QED BY <1>2, <2>1, UploadAdmits, RestartAdmits, CancelReleases DEF RequestStep
<1>3. ASSUME NEW w \in Workers, WorkerStep(w) PROVE [Attempts!Next]_Attempts!vars
  <2>1. CASE \/ DeleteDeclined(w) \/ Decode(w) \/ LeaveAdopt(w) \/ StopJob(w) \/ Publish(w) \/ Deliver(w)
             \/ StageFails(w) \/ PublishFails(w) \/ WorkerDies(w) \/ HeartBeat(w)
    <3>1. UNCHANGED <<status, meeting, mstatus, transcript>>
      BY <2>1 DEF DeleteDeclined, Decode, LeaveAdopt, StopJob, Publish, Deliver, ClaimJob, ClaimMissing,
         StageFails, PublishFails, WorkerDies, HeartBeat
    <3> QED BY <3>1, Stutters
  <2> QED BY <1>3, <2>1, WriteCommits, EndsReleases DEF WorkerStep, Task
<1>4. ASSUME NEW p \in Procs, MarkFailed(p) PROVE [Attempts!Next]_Attempts!vars
  <2>1. CASE MarkFailedRead(p) \/ MarkFailedJob(p)
    <3>1. UNCHANGED <<status, meeting, mstatus, transcript>>
      BY <2>1 DEF MarkFailedRead, MarkFailedJob
    <3> QED BY <3>1, Stutters
  <2> QED BY <1>4, <2>1, FailureReleases DEF MarkFailed
<1>5. ASSUME NEW s \in Sweepers, Sweep(s) PROVE [Attempts!Next]_Attempts!vars
  <2>1. CASE SweepMark(s) \/ SweepAborts(s)
    <3>1. UNCHANGED <<status, meeting, mstatus, transcript>>
      BY <2>1 DEF SweepMark, SweepAborts
    <3> QED BY <3>1, Stutters
  <2> QED BY <1>5, <2>1, SweepReleases DEF Sweep
<1>6. CASE SweepBegin \/ \E j \in Jobs : GoQuiet(j) \/ GrowOld(j) \/ LoseMessage(j)
  <2>1. UNCHANGED <<status, meeting, mstatus, transcript>>
    BY <1>6 DEF SweepBegin, GoQuiet, GrowOld, LoseMessage
  <2> QED BY <2>1, Stutters
<1>7. ASSUME NEW m \in Meetings, DeleteMeeting(m) \/ ExpireMeeting(m) PROVE [Attempts!Next]_Attempts!vars
  BY <1>7, ErasesMeeting
<1> QED BY <1>1, <1>2, <1>3, <1>4, <1>5, <1>6, <1>7 DEF Next

\* The pipeline implements MeetingAttempts: uploads and restarts admit an attempt
\* where none holds the meeting, the fence of write_transcript lets only the holder
\* write, endings release it, a deletion erases it, and nothing else touches it.
THEOREM AttemptsRefined == Spec => ImplementsAttempts
<1>1. Init => Attempts!Init
  <2> SUFFICES ASSUME Init PROVE Attempts!Init
    OBVIOUS
  <2>1. \A m \in Meetings : Holder(m) = None
    BY DEF Init, Holder, LiveJobs
  <2> QED BY <2>1 DEF Init, Attempts!Init
<1>2. Inv /\ GoneOK /\ LateOK /\ [Next]_vars => [Attempts!Next]_Attempts!vars
  BY StepRefines
<1> QED BY <1>1, <1>2, RowsInvariance, PTL DEF Spec, Attempts!Spec, ImplementsAttempts
=============================================================================
