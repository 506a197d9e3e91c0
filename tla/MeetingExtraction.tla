-------------------------- MODULE MeetingExtraction --------------------------
(* Module B's extraction of one meeting: the run on TranscriptReady, the       *)
(* count of its failures (attempts.py), the sweep that tries again, the sweep  *)
(* that follows consent, a person's "extract again", the announcement to D and *)
(* E, and the notice to the team once the tries are spent.                     *)
(*                                                                             *)
(* All of them run on the worker's processes, and none excludes another except *)
(* by the statements modelled here.  A run reads the speech it may use, asks   *)
(* its models with no transaction open, stores its rows in one transaction and *)
(* announces them after it: a worker can die between any two of these.         *)
(*                                                                             *)
(* Speech is a number: 1 is the transcript, each consent change is the next.   *)
(* A stored result is a number too, since every rebuild gives its rows new     *)
(* ids.  Clocks are the actions HoldLapses and AdoptUnextracted's freedom to   *)
(* happen at any time.                                                         *)
EXTENDS Integers, FiniteSets

CONSTANTS
    Procs,          \* worker processes
    MaxAttempts,    \* attempts.MAX_ATTEMPTS
    MaxSpoken,      \* bound on transcripts and consent changes
    MaxPresses,     \* bound on "extract again"
    MaxMishaps      \* bound on errors of a model, a publish or a notice, on
                    \* workers that die and on deliveries that are lost

ASSUME BoundsAssumption ==
    /\ MaxAttempts \in Nat \ {0}
    /\ MaxSpoken \in Nat /\ MaxPresses \in Nat
    /\ MaxMishaps \in Nat

VARIABLES
    spoken,     \* the speech the meeting's speakers consent to, 0 before any
    event,      \* TranscriptReady is in B's queue, or being worked on
    read,       \* ext_extraction_runs: the speech the last stored run read
    stored,     \* the result on the board
    heard,      \* the last ExtractionResult D and E were told
    row,        \* ext_extraction_attempts
    run,        \* what each process is doing
    presses, mishaps

vars == <<spoken, event, read, stored, heard, row, run, presses, mishaps>>

NotPublished == "NotPublished"
PartlyUnread == "PartlyUnread"
Error == "Error"
NotExtracted == "NotExtracted"

Idle == [kind |-> "idle", pc |-> "idle", read |-> 0, result |-> 0, error |-> "none"]
NoRow == [known |-> FALSE, failures |-> 0, reason |-> "none", held |-> FALSE,
          told |-> FALSE, requested |-> FALSE]

Init ==
    /\ spoken = 0 /\ event = FALSE
    /\ read = 0 /\ stored = 0 /\ heard = 0
    /\ row = NoRow
    /\ run = [p \in Procs |-> Idle]
    /\ presses = 0 /\ mishaps = 0

Spends(n, max) == n < max /\ n' = n + 1

Starts(p, kind, pc) == run' = [run EXCEPT ![p] = [Idle EXCEPT !.kind = kind, !.pc = pc]]
Goes(p, pc) == run' = [run EXCEPT ![p].pc = pc]
Ends(p) == run' = [run EXCEPT ![p] = Idle]
FailsWith(p, error) == run' = [run EXCEPT ![p].pc = "failed", ![p].error = error]
Free(p) == run[p].kind = "idle"

(* The event is acknowledged when its task is over, raised or not.             *)
Acknowledges(p) == event' = (event /\ run[p].kind # "event")

(* attempts._count: one statement; a partial read's reason stays.              *)
Counted(r, reason) ==
    [r EXCEPT !.known = TRUE, !.failures = @ + 1, !.held = TRUE,
              !.reason = IF @ = PartlyUnread THEN @ ELSE reason]

(* Mutant: the count ends and its reason stays.                                *)
SettledCountOnly(r) == [r EXCEPT !.failures = 0, !.held = FALSE, !.told = FALSE]

(* attempts.note_success: an update, so no row is made by it.                  *)
Settled(r) ==
    [r EXCEPT !.failures = 0, !.reason = "none", !.held = FALSE, !.told = FALSE]

(* Mutant: the hold is not asked for.                                          *)
RetryableHeldToo(r) == r.failures > 0 /\ r.failures < MaxAttempts

(* attempts._retryable: failed, tries left, not held.                          *)
Retryable(r) == r.failures > 0 /\ r.failures < MaxAttempts /\ ~r.held

(* attempts.owed_notices.                                                      *)
Owed(r) == r.failures >= MaxAttempts /\ r.reason # PartlyUnread /\ ~r.told

InRetry(p) ==
    /\ run[p].kind \in {"retry", "republish"}
    /\ run[p].pc # "due"

-----------------------------------------------------------------------------
(* What the run works on.                                                      *)

TranscriptReady ==
    /\ spoken = 0 /\ MaxSpoken > 0
    /\ spoken' = 1
    /\ event' = TRUE
    /\ UNCHANGED <<read, stored, heard, row, run, presses, mishaps>>

(* Module A's attest_consent: nothing announces it.                            *)
ConsentChanges ==
    /\ spoken > 0 /\ spoken < MaxSpoken
    /\ spoken' = spoken + 1
    /\ UNCHANGED <<event, read, stored, heard, row, run, presses, mishaps>>

(* A press after the cooldown, so a request may be there already.              *)
RequestExtraction ==
    /\ spoken > 0
    /\ Spends(presses, MaxPresses)
    /\ row' = [row EXCEPT !.known = TRUE, !.requested = TRUE]
    /\ UNCHANGED <<spoken, event, read, stored, heard, run, mishaps>>

-----------------------------------------------------------------------------
(* The ways a run begins.                                                      *)

OnTranscriptReady(p) ==
    /\ Free(p) /\ event
    /\ \A q \in Procs : run[q].kind # "event"
    /\ Starts(p, "event", "reading")
    /\ UNCHANGED <<spoken, event, read, stored, heard, row, presses, mishaps>>

(* retry_failed_extractions: half an hour after the last line, a transcript    *)
(* with neither a run nor a failure on record counts as failed once.           *)
AdoptUnextracted ==
    /\ spoken > 0 /\ read = 0 /\ ~row.known
    /\ row' = Counted(row, NotExtracted)
    /\ UNCHANGED <<spoken, event, read, stored, heard, run, presses, mishaps>>

(* The sweep lists what is due, and what of it only has to be announced.       *)
DueForRetry(p) ==
    /\ Free(p)
    /\ Retryable(row)
    /\ Starts(p, IF row.reason = NotPublished THEN "republish" ELSE "retry", "due")
    /\ UNCHANGED <<spoken, event, read, stored, heard, row, presses, mishaps>>

(* attempts.claim_retry, asked again just before the run.                      *)
ClaimRetry(p) ==
    /\ run[p].pc = "due"
    /\ \/ /\ Retryable(row)
          /\ row' = [row EXCEPT !.held = TRUE]
          /\ Goes(p, IF run[p].kind = "republish" THEN "rereading" ELSE "reading")
       \/ /\ ~Retryable(row)
          /\ Ends(p)
          /\ UNCHANGED row
    /\ UNCHANGED <<spoken, event, read, stored, heard, presses, mishaps>>

(* Mutant: a meeting that ever had a failure on record is passed over.         *)
ConsentChangedFresh(p) ==
    /\ Free(p)
    /\ read # 0 /\ read # spoken
    /\ ~row.known
    /\ Starts(p, "consent", "reading")
    /\ UNCHANGED <<spoken, event, read, stored, heard, row, presses, mishaps>>

(* reextract_consent_changes lists the meetings first and runs them in turn.   *)
ConsentChanged(p) ==
    /\ Free(p)
    /\ read # 0 /\ read # spoken
    /\ row.failures = 0
    /\ Starts(p, "consent", "reading")
    /\ UNCHANGED <<spoken, event, read, stored, heard, row, presses, mishaps>>

(* attempts.take_requests: the flag goes with the read, before the run.        *)
TakeRequest(p) ==
    /\ Free(p)
    /\ row.requested
    /\ row' = [row EXCEPT !.requested = FALSE]
    /\ Starts(p, "request", "reading")
    /\ UNCHANGED <<spoken, event, read, stored, heard, presses, mishaps>>

-----------------------------------------------------------------------------
(* The run: _extract, _announce, and what is counted when they raise.          *)

Read(p) ==
    /\ run[p].pc = "reading"
    /\ run' = [run EXCEPT ![p].read = spoken, ![p].pc = "asking"]
    /\ UNCHANGED <<spoken, event, read, stored, heard, row, presses, mishaps>>

(* Mutant: whatever a run raises is counted as a result not passed on.         *)
RunFailsUnpublished(p) ==
    /\ run[p].pc = "asking"
    /\ Spends(mishaps, MaxMishaps)
    /\ FailsWith(p, NotPublished)
    /\ UNCHANGED <<spoken, event, read, stored, heard, row, presses>>

(* The models answer, or one raises, or the write does: rolled back.           *)
RunFails(p) ==
    /\ run[p].pc = "asking"
    /\ Spends(mishaps, MaxMishaps)
    /\ FailsWith(p, Error)
    /\ UNCHANGED <<spoken, event, read, stored, heard, row, presses>>

(* One transaction: the rows, the record of what was read, the count, and the  *)
(* result built from them.  A partly unread transcript counts as a failure.    *)
Store(p) ==
    /\ run[p].pc = "asking"
    /\ stored' = stored + 1
    /\ read' = run[p].read
    /\ run' = [run EXCEPT ![p].result = stored', ![p].pc = "announcing"]
    /\ \/ /\ row' = Settled(row)
          /\ UNCHANGED mishaps
       \/ /\ row' = Counted(row, PartlyUnread)
          /\ Spends(mishaps, MaxMishaps)
    /\ UNCHANGED <<spoken, event, heard, presses>>

(* _republish_counted reads the stored result back.                            *)
ReadBack(p) ==
    /\ run[p].pc = "rereading"
    /\ run' = [run EXCEPT ![p].result = stored, ![p].pc = "announcing"]
    /\ UNCHANGED <<spoken, event, read, stored, heard, row, presses, mishaps>>

Announce(p) ==
    /\ run[p].pc = "announcing"
    /\ heard' = run[p].result
    /\ IF run[p].kind = "republish" THEN Goes(p, "settling") ELSE Ends(p)
    /\ Acknowledges(p)
    /\ UNCHANGED <<spoken, read, stored, row, presses, mishaps>>

(* A republication that went through ends the count in a transaction of its    *)
(* own, whatever was counted meanwhile.                                        *)
SettleRepublished(p) ==
    /\ run[p].pc = "settling"
    /\ row' = Settled(row)
    /\ Ends(p)
    /\ UNCHANGED <<spoken, event, read, stored, heard, presses, mishaps>>

(* The publish raises; or it is a privacy refusal, or what follows it raises,  *)
(* and that is counted as itself.                                              *)
AnnounceFails(p) ==
    /\ run[p].pc = "announcing"
    /\ Spends(mishaps, MaxMishaps)
    /\ \/ FailsWith(p, NotPublished) /\ UNCHANGED heard
       \/ FailsWith(p, Error) /\ heard' \in {heard, run[p].result}
    /\ UNCHANGED <<spoken, event, read, stored, row, presses>>

(* note_failure, in a transaction of its own.                                  *)
NoteFailure(p) ==
    /\ run[p].pc = "failed"
    /\ row' = Counted(row, run[p].error)
    /\ Ends(p)
    /\ Acknowledges(p)
    /\ UNCHANGED <<spoken, read, stored, heard, presses, mishaps>>

-----------------------------------------------------------------------------
(* _tell_teams, at the end of each sweep.                                      *)

OwedNotice(p) ==
    /\ Free(p)
    /\ Owed(row)
    /\ Starts(p, "tell", "owed")
    /\ UNCHANGED <<spoken, event, read, stored, heard, row, presses, mishaps>>

(* claim_notice asks only that nobody has told it.                             *)
ClaimNotice(p) ==
    /\ run[p].pc = "owed"
    /\ row' = [row EXCEPT !.told = TRUE]
    /\ IF row.told THEN Ends(p) ELSE Goes(p, "posting")
    /\ UNCHANGED <<spoken, event, read, stored, heard, presses, mishaps>>

PostNotice(p) ==
    /\ run[p].pc = "posting"
    /\ Ends(p)
    /\ UNCHANGED <<spoken, event, read, stored, heard, row, presses, mishaps>>

ReleaseNotice(p) ==
    /\ run[p].pc = "posting"
    /\ Spends(mishaps, MaxMishaps)
    /\ row' = [row EXCEPT !.told = FALSE]
    /\ Ends(p)
    /\ UNCHANGED <<spoken, event, read, stored, heard, presses>>

-----------------------------------------------------------------------------
(* Nine minutes pass: longer than a run, so not while a retry is under way.    *)
HoldLapses ==
    /\ row.held
    /\ \A p \in Procs : ~InRetry(p)
    /\ row' = [row EXCEPT !.held = FALSE]
    /\ UNCHANGED <<spoken, event, read, stored, heard, run, presses, mishaps>>

(* A worker dies: its event is delivered again, its sweep begins afresh.       *)
Dies(p) ==
    /\ ~Free(p)
    /\ Spends(mishaps, MaxMishaps)
    /\ Ends(p)
    /\ UNCHANGED <<spoken, event, read, stored, heard, row, presses>>

(* The delivery goes with a broker or a worker that a deploy recreated.        *)
EventIsLost ==
    /\ event
    /\ \A p \in Procs : run[p].kind # "event"
    /\ Spends(mishaps, MaxMishaps)
    /\ event' = FALSE
    /\ UNCHANGED <<spoken, read, stored, heard, row, run, presses>>

RunGoesOn(p) ==
    ClaimRetry(p) \/ Read(p) \/ Store(p) \/ ReadBack(p) \/ Announce(p)
        \/ SettleRepublished(p) \/ NoteFailure(p) \/ ClaimNotice(p) \/ PostNotice(p)

Next ==
    \/ TranscriptReady \/ ConsentChanges \/ RequestExtraction
    \/ AdoptUnextracted \/ HoldLapses \/ EventIsLost
    \/ \E p \in Procs :
          \/ OnTranscriptReady(p) \/ DueForRetry(p) \/ ConsentChanged(p)
          \/ TakeRequest(p) \/ OwedNotice(p)
          \/ RunGoesOn(p)
          \/ RunFails(p) \/ AnnounceFails(p) \/ ReleaseNotice(p)
          \/ Dies(p)

Spec == Init /\ [][Next]_vars

(* The queue is worked off, the sweeps run every ten minutes, a task that      *)
(* runs goes on, and time passes.                                              *)
Fairness ==
    /\ WF_vars(AdoptUnextracted)
    /\ WF_vars(HoldLapses)
    /\ WF_vars(\E p \in Procs : OnTranscriptReady(p))
    /\ SF_vars(\E p \in Procs : DueForRetry(p))
    /\ SF_vars(\E p \in Procs : ConsentChanged(p))
    /\ WF_vars(\E p \in Procs : TakeRequest(p))
    /\ \A p \in Procs : WF_vars(RunGoesOn(p))

FairSpec == Spec /\ Fairness

-----------------------------------------------------------------------------
Reasons == {"none", Error, NotPublished, PartlyUnread, NotExtracted}

(* Every variable has its type; a count without a reason, or a reason without  *)
(* a count, never stands in the row.                                           *)
TypeOK ==
    /\ spoken \in 0 .. MaxSpoken /\ read \in 0 .. MaxSpoken
    /\ event \in BOOLEAN
    /\ stored \in Nat /\ heard \in 0 .. stored
    /\ row \in [known : BOOLEAN, failures : Nat, reason : Reasons, held : BOOLEAN,
                told : BOOLEAN, requested : BOOLEAN]
    /\ row.failures > 0 <=> row.reason # "none"
    /\ \A p \in Procs :
          run[p] \in [kind : {"idle", "event", "retry", "republish", "consent",
                              "request", "tell"},
                      pc : {"idle", "due", "reading", "asking", "rereading",
                            "announcing", "settling", "failed", "owed", "posting"},
                      read : 0 .. MaxSpoken, result : 0 .. stored,
                      error : {"none", Error, NotPublished}]

(* Of two overlapping sweeps that both list a meeting as due, one runs it      *)
(* (attempts.claim_retry, RETRY_HOLD).                                         *)
OneRetryAtATime ==
    \A p, q \in Procs : InRetry(p) /\ InRetry(q) => p = q

(* A board that holds a partial read says so until another result is stored:   *)
(* "the reason stays this one until a run reads everything, because the board  *)
(* still holds the partial read" (attempts.py:103).                            *)
PartialReadStaysSaid ==
    [][ row.reason = PartlyUnread /\ row'.reason # PartlyUnread =>
          stored' # stored ]_vars

(* A failure once counted is forgotten only by a new stored result or by a     *)
(* republication that settles: no sweep, press, notice, lapse or death of a    *)
(* worker ends a count, so a meeting that keeps failing does reach its last    *)
(* try (attempts.py, note_success has these two callers).                      *)
FailuresAreKept ==
    [][ row'.failures < row.failures =>
          \/ stored' # stored
          \/ \E p \in Procs : run[p].pc = "settling" /\ run'[p] = Idle ]_vars

(* A sweep that only has to announce has something to announce: the reason     *)
(* NotPublished stands for a stored result, whatever was counted, settled or   *)
(* requested since, so _republish_counted never tells D and E of nothing.      *)
RepublishHasResult ==
    /\ row.reason = NotPublished => stored > 0
    /\ \A p \in Procs :
          /\ run[p].kind = "republish" => stored > 0
          /\ run[p].pc \in {"announcing", "settling"} => run[p].result > 0

(* Nothing is extracted, and somebody pressed "extract again": that alone      *)
(* makes a row, and a row keeps adopt_unextracted away.                        *)
PressedFirst == row.known /\ row.failures = 0 /\ read = 0

(* Whatever was said is extracted in the end, or its tries are spent: through  *)
(* failures, dead workers and a lost delivery, but for a meeting in the state  *)
(* PressedFirst whose run then dies.                                           *)
EveryVersionSettles ==
    \A v \in 1 .. MaxSpoken :
        spoken >= v ~> read >= v \/ row.failures >= MaxAttempts \/ PressedFirst
=============================================================================
