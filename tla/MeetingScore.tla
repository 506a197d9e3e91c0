----------------------------- MODULE MeetingScore ----------------------------
(***************************************************************************)
(* Module E's aggregation of one meeting: B, C and D report, each as often *)
(* as it reruns, into one row of intel_completion; the meeting is scored   *)
(* when all have reported or a countdown runs out, and again when a report *)
(* comes after that.  modules/intelligence/src/autune_intelligence:        *)
(* tasks.py, service.py.                                                   *)
(*                                                                         *)
(* A step is one transaction on the row (an upsert or FOR UPDATE, so each  *)
(* is atomic), one send to the broker, or one round of direct messages.    *)
(***************************************************************************)
EXTENDS Naturals

CONSTANTS
    Sources,      \* extraction, gap, context
    Workers,
    None,
    MaxReports,   \* bound: reports made; a report is its number
    MaxFaults     \* bound: deaths, redeliveries, exceptions

Jobs == {"aggregate", "requiet", "countdown", "feedback"}

ASSUME SourcesAssumption == Sources # {} /\ Sources \cap Jobs = {}
ASSUME ScoreBounds == MaxReports \in Nat /\ MaxFaults \in Nat

VARIABLES
    reported,     \* the sources with an arrival time; {}: no row yet
    payload,      \* the report each source's payload is from
    elapsed,      \* aggregate_timeout_seconds have passed since first_seen_at
    aggregated,   \* aggregated_at is set
    score,        \* the payloads the stored score was made from; all 0: none
    directs,      \* rounds of personal speaking-ratio messages sent
    issued,       \* reports made
    queue,        \* messages waiting, and how many of each
    pc, task, note,
    raised,       \* history: an exception ended a task, which acknowledges it
    faults

row == <<reported, payload, elapsed, aggregated, score>>
procs == <<pc, task, note>>
vars == <<row, directs, issued, queue, procs, raised, faults>>

Reports == 0..MaxReports
Unscored == [s \in Sources |-> 0]

\* aggregate with notify (as enqueued, or by the countdown) and without.
Aggregations == {"aggregate", "requiet", "countdown"}
Messages == (Sources \X (1..MaxReports)) \cup (Jobs \X {0})
PCs == {"idle", "start", "recorded", "late", "reopened", "publish", "announced"}
\* What _record read in its transaction.
Reading == [first : BOOLEAN, ready : BOOLEAN]

-----------------------------------------------------------------------------
Kind(w) == task[w][1]
AllIn == reported = Sources

Fault == faults < MaxFaults /\ faults' = faults + 1
Goto(w, l) == pc' = [pc EXCEPT ![w] = l] /\ UNCHANGED <<task, note>>
Ack(w) ==
    /\ pc' = [pc EXCEPT ![w] = "idle"]
    /\ task' = [task EXCEPT ![w] = None]
    /\ note' = [note EXCEPT ![w] = None]
Put(m) == queue' = [queue EXCEPT ![m] = @ + 1]

Ripe(m) == m[1] = "countdown" => elapsed

Take(w) ==
    /\ pc[w] = "idle"
    /\ \E m \in Messages :
         /\ queue[m] > 0
         /\ Ripe(m)
         /\ queue' = [queue EXCEPT ![m] = @ - 1]
         /\ task' = [task EXCEPT ![w] = m]
    /\ pc' = [pc EXCEPT ![w] = "start"]
    /\ UNCHANGED <<note, row, directs, issued, raised, faults>>

-----------------------------------------------------------------------------
(* on_extraction_completed, on_gap_completed, on_context_completed         *)

RecordReadsBefore(w) ==
    /\ pc[w] = "start" /\ Kind(w) \in Sources
    /\ reported' = reported \cup {Kind(w)}
    /\ payload' = [payload EXCEPT ![Kind(w)] = task[w][2]]
    /\ pc' = [pc EXCEPT ![w] = IF aggregated THEN "late" ELSE "recorded"]
    /\ note' = [note EXCEPT ![w] = [first |-> reported = {}, ready |-> AllIn]]
    /\ UNCHANGED <<task, elapsed, aggregated, score, directs, issued, queue, raised, faults>>

RecordIgnoresScore(w) ==
    LET in == reported \cup {Kind(w)} IN
    /\ pc[w] = "start" /\ Kind(w) \in Sources
    /\ reported' = in
    /\ payload' = [payload EXCEPT ![Kind(w)] = task[w][2]]
    /\ pc' = [pc EXCEPT ![w] = "recorded"]
    /\ note' = [note EXCEPT ![w] = [first |-> reported = {}, ready |-> in = Sources \/ elapsed]]
    /\ UNCHANGED <<task, elapsed, aggregated, score, directs, issued, queue, raised, faults>>

RecordLateUnarrived(w) ==
    LET in == IF aggregated THEN reported ELSE reported \cup {Kind(w)} IN
    /\ pc[w] = "start" /\ Kind(w) \in Sources
    /\ reported' = in
    /\ payload' = [payload EXCEPT ![Kind(w)] = task[w][2]]
    /\ pc' = [pc EXCEPT ![w] = IF aggregated THEN "late" ELSE "recorded"]
    /\ note' = [note EXCEPT ![w] = [first |-> reported = {}, ready |-> in = Sources \/ elapsed]]
    /\ UNCHANGED <<task, elapsed, aggregated, score, directs, issued, queue, raised, faults>>

\* record_completion, and what _record reads after it: the arrival time is
\* the first report's, the payload whatever was processed last.
Record(w) ==
    LET in == reported \cup {Kind(w)} IN
    /\ pc[w] = "start" /\ Kind(w) \in Sources
    /\ reported' = in
    /\ payload' = [payload EXCEPT ![Kind(w)] = task[w][2]]
    /\ pc' = [pc EXCEPT ![w] = IF aggregated THEN "late" ELSE "recorded"]
    /\ note' = [note EXCEPT ![w] = [first |-> reported = {}, ready |-> in = Sources \/ elapsed]]
    /\ UNCHANGED <<task, elapsed, aggregated, score, directs, issued, queue, raised, faults>>

ReopenNothing(w) ==
    /\ pc[w] = "late"
    /\ Goto(w, "reopened")
    /\ UNCHANGED <<row, directs, issued, queue, raised, faults>>

Reopen(w) ==
    /\ pc[w] = "late"
    /\ aggregated' = FALSE
    /\ Goto(w, "reopened")
    /\ UNCHANGED <<reported, payload, elapsed, score, directs, issued, queue, raised, faults>>

\* A late report changes nothing about who spoke: no second direct message.
AggregateAgain(w) ==
    /\ pc[w] = "reopened"
    /\ Put(<<"requiet", 0>>)
    /\ Ack(w)
    /\ UNCHANGED <<row, directs, issued, raised, faults>>

ArmNothing(w) ==
    /\ pc[w] = "recorded" /\ note[w].first
    /\ note' = [note EXCEPT ![w].first = FALSE]
    /\ UNCHANGED <<pc, task, queue, row, directs, issued, raised, faults>>

ArmCountdown(w) ==
    /\ pc[w] = "recorded" /\ note[w].first
    /\ Put(<<"countdown", 0>>)
    /\ note' = [note EXCEPT ![w].first = FALSE]
    /\ UNCHANGED <<pc, task, row, directs, issued, raised, faults>>

AggregateNow(w) ==
    /\ pc[w] = "recorded" /\ ~note[w].first
    /\ IF note[w].ready THEN Put(<<"aggregate", 0>>) ELSE UNCHANGED queue
    /\ Ack(w)
    /\ UNCHANGED <<row, directs, issued, raised, faults>>

-----------------------------------------------------------------------------
(* aggregate, send_personal_feedback                                       *)

Due == reported # {} /\ ~aggregated

Aggregate(w) ==
    /\ pc[w] = "start" /\ Kind(w) \in Aggregations
    /\ Due
    /\ score' = payload
    /\ aggregated' = TRUE
    /\ Goto(w, "publish")
    /\ UNCHANGED <<reported, payload, elapsed, directs, issued, queue, raised, faults>>

AggregateSkipped(w) ==
    /\ pc[w] = "start" /\ Kind(w) \in Aggregations
    /\ ~Due
    /\ Ack(w)
    /\ UNCHANGED <<row, directs, issued, queue, raised, faults>>

Publish(w) ==
    /\ pc[w] = "publish"
    /\ IF Kind(w) = "requiet" THEN Ack(w) ELSE Goto(w, "announced")
    /\ UNCHANGED <<row, directs, issued, queue, raised, faults>>

AskFeedback(w) ==
    /\ pc[w] = "announced"
    /\ Put(<<"feedback", 0>>)
    /\ Ack(w)
    /\ UNCHANGED <<row, directs, issued, raised, faults>>

\* Or skipped: the meeting is gone, or the team has no Slack.
SendPersonalFeedback(w) ==
    /\ pc[w] = "start" /\ Kind(w) = "feedback"
    /\ directs' \in {directs, directs + 1}
    /\ Ack(w)
    /\ UNCHANGED <<row, issued, queue, raised, faults>>

-----------------------------------------------------------------------------
(* What happens to tasks, and to the world                                 *)

\* Killed: the message is delivered again.
WorkerDies(w) ==
    /\ pc[w] # "idle"
    /\ Fault
    /\ Put(task[w])
    /\ Ack(w)
    /\ UNCHANGED <<row, directs, issued, raised>>

TaskRaises(w) ==
    /\ pc[w] # "idle"
    /\ Fault
    /\ raised' = TRUE
    /\ Ack(w)
    /\ UNCHANGED <<row, directs, issued, queue>>

\* The visibility timeout: delivered again while it is being worked on.
Redelivered(w) ==
    /\ pc[w] # "idle"
    /\ Fault
    /\ Put(task[w])
    /\ UNCHANGED <<row, directs, issued, procs, raised>>

\* B, C or D finishes a meeting, or finishes it again.
Report(s) ==
    /\ issued < MaxReports
    /\ issued' = issued + 1
    /\ Put(<<s, issued + 1>>)
    /\ UNCHANGED <<row, directs, procs, raised, faults>>

TimeoutElapses ==
    /\ reported # {} /\ ~elapsed
    /\ elapsed' = TRUE
    /\ UNCHANGED <<reported, payload, aggregated, score, directs, issued, queue, procs, raised, faults>>

-----------------------------------------------------------------------------
Init ==
    /\ reported = {}
    /\ payload = Unscored
    /\ elapsed = FALSE /\ aggregated = FALSE
    /\ score = Unscored
    /\ directs = 0
    /\ issued = 0
    /\ queue = [m \in Messages |-> 0]
    /\ pc = [w \in Workers |-> "idle"]
    /\ task = [w \in Workers |-> None]
    /\ note = [w \in Workers |-> None]
    /\ raised = FALSE
    /\ faults = 0

\* What a task does of its own accord.
Step(w) ==
    \/ Record(w) \/ Reopen(w) \/ AggregateAgain(w) \/ ArmCountdown(w) \/ AggregateNow(w)
    \/ Aggregate(w) \/ AggregateSkipped(w) \/ Publish(w) \/ AskFeedback(w)
    \/ SendPersonalFeedback(w)

Next ==
    \/ \E w \in Workers :
         Take(w) \/ Step(w) \/ WorkerDies(w) \/ TaskRaises(w) \/ Redelivered(w)
    \/ \E s \in Sources : Report(s)
    \/ TimeoutElapses

Spec == Init /\ [][Next]_vars

\* Celery runs what it has accepted, to its end, and clocks run.  No source
\* owes a report.
Fairness ==
    /\ \A w \in Workers : WF_vars(Take(w)) /\ WF_vars(Step(w))
    /\ WF_vars(TimeoutElapses)

FairSpec == Spec /\ Fairness

-----------------------------------------------------------------------------
\* The shape of the row, the queue and the tasks: a source has a payload in the
\* row exactly when it has an arrival time (record_completion).
TypeOK ==
    /\ reported \subseteq Sources
    /\ payload \in [Sources -> Reports]
    /\ \A s \in Sources : s \in reported <=> payload[s] > 0
    /\ elapsed \in BOOLEAN /\ aggregated \in BOOLEAN
    /\ score \in [Sources -> Reports]
    /\ directs \in Nat
    /\ issued \in Reports
    /\ queue \in [Messages -> Nat]
    /\ pc \in [Workers -> PCs]
    /\ task \in [Workers -> Messages \cup {None}]
    /\ note \in [Workers -> Reading \cup {None}]
    /\ raised \in BOOLEAN
    /\ faults \in 0..MaxFaults

\* Messages of these kinds wait, or a worker holds one it has yet to act on.
Coming(kinds) ==
    \/ \E m \in Messages : m[1] \in kinds /\ queue[m] > 0
    \/ \E w \in Workers : pc[w] = "start" /\ Kind(w) \in kinds

\* The score was made from the payloads in the row, or the report that
\* changed them is still to reopen it: no report slips in beside a scoring.
StaleScoreIsCovered ==
    aggregated /\ score # payload /\ ~raised =>
        \/ Coming(Sources)
        \/ \E w \in Workers : pc[w] = "late"

\* A meeting all three reported on, or one reopened after its score, is about
\* to be scored: whoever died between reopening it and asking for the score.
UnscoredIsCovered ==
    (AllIn \/ score # Unscored) /\ ~aggregated /\ ~raised =>
        \/ Coming(Sources \cup Aggregations)
        \/ \E w \in Workers : pc[w] \in {"recorded", "reopened"} /\ (pc[w] = "recorded" => note[w].ready)

\* A meeting is scored only once all have reported or the timeout has passed,
\* although aggregate itself asks for neither: whoever sends for it has looked,
\* and no late, repeated or redelivered message is early.
ScoredWhenReady == [][~aggregated /\ aggregated' => AllIn \/ elapsed]_vars

\* No personal ratio goes out for a meeting that has no score: feedback is
\* asked for after the commit of an aggregation, and no later aggregation,
\* late report or redelivery takes that score away.
FeedbackFollowsScore == directs > 0 => score # Unscored

\* A source that is in the score stays in it: a meeting scored again, by
\* whichever task, is scored from what it was scored from or a later report.
ScoreKeepsItsSources == [][\A s \in Sources : score[s] > 0 => score'[s] > 0]_vars

\* The row keeps the promise of ScoreBoard, through every message, death and
\* redelivery: a score is a reading of all payloads in one moment, made in time.
Board == INSTANCE ScoreBoard WITH
    Texts <- 1..MaxReports, Nothing <- 0, said <- payload, over <- elapsed

ImplementsBoard == Board!Spec

\* With nobody dying, one report is enough: the countdown scores what there is.
OneReportIsScored == [](faults = 0) => (reported # {} ~> score # Unscored)

\* A meeting all three reported on is scored, and scored again however late and
\* however often a source reports, whichever worker dies.
LateReportIsScored ==
    [](~raised) =>
        \A s \in Sources : AllIn /\ payload[s] # score[s] ~> payload[s] = score[s]

-----------------------------------------------------------------------------
(* What the documentation says and the code does not do                    *)

\* aggregate: "the personal speaking-ratio DM goes out once, not again each time
\* a late source reopens the meeting."
FeedbackOnce == directs <= 1

\* aggregate: "Fires when B, C and D have all reported or the timeout countdown
\* elapses."  Nobody arms the countdown for a worker that died before it.
TimeoutIsScored == [](~raised) => (reported # {} ~> score # Unscored)
=============================================================================
