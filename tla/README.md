# AUTUNE, specified

AUTUNE turns the recordings of a team's meetings into transcripts, action items,
detected gaps, links to earlier meetings, and a score. It is a Python monorepo
(FastAPI, Celery over Redis, PostgreSQL). This directory holds TLA+ modules that
model how it behaves when its processes interleave, die, repeat themselves and
answer late, the TLC configurations that check them on small instances, and
proofs, checked by TLAPS, of what holds for every size.

Paths below are relative to the repository; `A/` is
`modules/audio/src/autune_audio/`, `B/` `modules/extraction/src/autune_extraction/`,
`D/` `modules/context/src/autune_context/`, `E/`
`modules/intelligence/src/autune_intelligence/`, `core/` `packages/core/src/autune_core/`,
`agent/` `agent/src/autune_agent/`.

## 1. The system

### How the parts talk

    upload --> A --transcript.ready--> B --extraction.completed--> E, D
                                   \-> C --gap.completed---------> E
                                   \-> D --context.completed-----> E --intelligence.completed--> agent

    microphone --> A live --(one claim per meeting)--> A
    agent: event, tick, chat turn --> run --> card --approver--> action
    B: edit of an item --> sync --> the item's page in Notion

Every arrow between modules is `core/events.py` `publish`: one Celery message to each registered
consumer, one after the other, in the publisher's process. There is no outbox:
a publisher that dies in between has told some of them.

Every task is acknowledged late (`acks_late`, `reject_on_worker_lost`), so a
killed worker's message is delivered again, and a task that outlives Redis's
visibility timeout is delivered again *while it runs*. A task that raises is
acknowledged and, unless it says `autoretry_for`, lost. PostgreSQL runs at READ
COMMITTED: two transactions are apart only where the code takes a row lock
(`SELECT ... FOR UPDATE`), an advisory lock, or relies on a unique key.

These four facts are the whole of the difficulty, and every module here has
them as actions: a step is one transaction, one file operation, or one send.

### Components

| part | state | operations | what makes it correct |
|---|---|---|---|
| A, recording pipeline (`A/service.py`, `tasks.py`, `router.py`, `storage.py`, `retention.py`, `meeting_deletion.py`) | `meetings.status`, `aud_jobs`, utterances, the files of `storage_dir` | upload, claim, transcribe, write, announce, cancel, restart, fail, sweep, delete, expire | one live attempt per meeting; no recording deleted under its reader, none left for good; a cancelled or superseded attempt never writes; a complete meeting is announced |
| A, live sessions (`A/live/`) | in-process registry, tickets; `meetings.status` | hello, claim, stop, drop, give up for an upload | one session per meeting, none left claimed by nobody; nothing commits under a live one; the event loop never waits for itself |
| A, teams and deletion | members, invitations, consents | invite, accept, leave, delete | a team keeps a member; deletion forgets everything in every module |
| A, masking, recognition, speakers | none shared | | signal and language processing |
| B, extraction (`B/tasks.py`, `attempts.py`) | action items, the runs and attempts of a meeting | extract, count failures, retry, adopt, follow consent, press, announce, tell the team | one retry at a time; a partial result says so; everything said is extracted or its tries are spent |
| B, outbound copies (`B/service.py`, `sync_state.py`) | refs, failures, cleanup owed; Jira, Notion, Google | claim, create, follow, trash, drain | one page per item; its edits arrive, in order; a deleted item's page goes |
| C, gap detection; agenda writing | gaps; queue of calendar lines | detect, write into events, take out again | a line goes out once and comes back out |
| D, publication (`D/tasks.py`, `service.py`, `rederive.py`) | `ctx_meeting_status`, topic links, decision lineage | two halves, publish gate, fallback, republish, two Slack notices | E ends with what the rows say; one notice each; an owed warning paid |
| D, briefs and threads | briefs, lineage threads | claim, send, thread | a brief goes out once |
| E, aggregation (`E/tasks.py`, `service.py`) | `intel_completion`, scores | record a report, countdown, aggregate, reopen, publish | no score left behind the payloads; every meeting scored; one direct message |
| E, reports | weekly and meeting reports | compile, correct | |
| agent (`agent/main/`) | `agent_runs`, pending actions | wake, judge, queue, supersede, tell, approve, reject, act | approved once, done once; a newer judgment replaces the older; a redelivery repeats nothing; every wake-up judged |
| core | accounts, OAuth state, sessions; event registry | sign in, revoke; publish | a revoked session is dead |
| contracts, integrations, apps, infra, tools | none of their own | | wiring, clients, schemas, interfaces |

`PROJECT.json` lists all of them with the status of each, and the hazards at
their lines.

### What is hard here

* **Locks that hold nothing.** `mark_failed` reads an attempt without a lock and
  writes what it read. `SELECT ... FOR UPDATE` on a status row that does not exist
  yet locks no one out.
* **At-least-once tasks and exactly-once effects.** A redelivered message finds its
  first delivery still holding the file, or a claim already committed whose
  effect (a publish, a notice, a countdown) never happened.
* **Reruns.** B, C and D may each run again after their results were used. What was
  sent must be sent again, by whoever notices, and nobody notices twice.
* **A file system beside a database.** A rename before a commit, an unlink after
  one, and nothing that undoes either.
* **An event loop that takes row locks.** A hello holds the loop while it waits for a
  row whose holder needs the loop to commit.
* **Effects in other people's systems.** A page made by a call whose answer is lost, a
  page a person removes, an approved action whose process dies: nothing rolls back.
* **Timeouts beside late answers.** D publishes without B after ten minutes, E
  scores without anyone after ten; the late answer comes anyway.

## 2. The modules

### RecordingPipeline (and MeetingAttempts)

One table row per meeting (`mstatus`, `transcript`) and per attempt (`status`,
`meeting`, `rec`); the directory (`file[n]` is the recording in the file named
after attempt n, `age` its mtime); the queue (`broker`); where each worker and
request is (`pc`, `on`, `old`); and the sweep in progress in each worker or in
the beat (`spc`, `doomed`, `hit`).

| code | actions |
|---|---|
| `router.py` upload, `service.start_transcription`, `storage.assign` | `UploadRecording`, `UploadDies`, `Enqueue`, `EnqueueFails` |
| `service.cancel_transcription` | `CancelTranscription`, `DropRecording` |
| `service.restart_transcription` | `RestartRename`, `RestartCommit` |
| `service.claim_job`, with the sweep it runs | `ClaimJob`, `ClaimMissing`, `SweepMark`, `SweepFinish`, `DeleteDeclined` |
| `tasks.process_recording`, `storage.adopt` | `Decode`, `LeaveAdopt`, `WriteTranscript`, `StopJob`, `StageFails`, `Publish`, `PublishFails`, `MarkUnannounced`, `MarkPublished`, `HeartBeat` |
| `service.mark_failed` | `MarkFailedRead`, `MarkFailedJob`, `MarkFailedCommit` |
| `service.sweep_orphans` on the beat | `SweepBegin`, `SweepMark`, `SweepFinish`, `SweepAborts` |
| `meeting_deletion`, `retention.sweep` | `DeleteMeeting`, `ExpireMeeting` |
| Celery, processes, clocks | `LoseMessage`, `WorkerDies`, `RequestDies`, `GoQuiet`, `GrowOld` |

`JobLocked` and `MeetingLocked` are the rows another open transaction holds. An
attempt's id is taken from a counter and never used again. `MeetingAttempts` is
what all this promises about a meeting's attempts: one at a time holds the
meeting, each holds it once, only the holder writes the transcript, and an
erased meeting is never held again. `ImplementsAttempts` is the refinement, the
holder being `Holder`, the attempt that is queued or running.

### ContextGate (and ContextFeed)

One meeting's row of `ctx_meeting_status`, with the contents the row gates counted
in generations (`links`, `lineage`): what E was last sent (`sent`) is a pair of
generations, so that a stale message shows. Messages are a bag (`queue`), workers
hold one each (`task`) with what they read in their transaction (`note`).

| code (`D/tasks.py`, `D/service.py`) | actions |
|---|---|
| `on_transcript_ready`, `rederive_topics`, `_link_topics` | `LinkTopics`, `RederiveRefused`, `RouteLinks`, `ArmFallback` |
| `on_extraction_completed`, `build_decision_lineage` | `BuildLineage`, `RouteLineage` |
| `_upsert_status` with no row to lock | `InsertStatus`, `InsertConflicts` |
| `publish_if_ready`, `republish` | `PublishIfReady`, `NotReady`, `Announce` |
| `notify_context_events`, `notify_late_drift` and their claims | `ClaimNotice`, `ClaimLateDrift`, `PostNotices`, `SlackFails`, `ReleaseClaim`, `Retry` |
| Celery and the world | `Take`, `WorkerDies`, `TaskRaises`, `Redelivered`, `Event`, `DeadlinePasses`, `SlackChanges` |

`steady` and `raised` are history: whether Slack kept still, and whether a task's
exception was acknowledged and so lost. They appear only as preconditions.

`ContextFeed` is what D promises those who read a meeting's links: E is told both halves of
one moment, nothing before the topics are there, and the team hears of topics and of drift
only what E was told of before.

### MeetingScore (and ScoreBoard)

One row of `intel_completion`: who reported (`reported`), which report each payload
is from (`payload`), the payloads the score was made from (`score`), and whether it
is aggregated. Reports are numbered, so that a score made from an older payload
shows. `ScoreBoard` is what the aggregation promises: a score is made of the reports that
are in, all of them at one moment, and only once every source has reported or the wait is
over.

| code (`E/tasks.py`, `E/service.py`) | actions |
|---|---|
| `on_*_completed`, `record_completion` | `Record`, `Reopen`, `AggregateAgain`, `ArmCountdown`, `AggregateNow` |
| `aggregate` | `Aggregate`, `AggregateSkipped`, `Publish`, `AskFeedback` |
| `send_personal_feedback` | `SendPersonalFeedback` |
| Celery and the world | `Take`, `WorkerDies`, `TaskRaises`, `Redelivered`, `Report`, `TimeoutElapses` |

### LiveSockets

The live microphone channel of one meeting: the meeting's status, the row lock
(`lock`), the registry's one entry (`claim`), the socket whose hello holds the event
loop (`loop`), where each socket and each HTTP request is, and whether an upload has queued
an attempt yet (`jobs`). A hello runs from its
first statement to its claim without an await, so nothing else on the loop does;
handlers run in threads, but their commit is a dependency's teardown, which the loop
starts. Slots are used again, so the behaviours are unbounded. From the first upload on, an attempt may write the
meeting's status at any time the row is free, late and superseded ones included: which of
them still may is RecordingPipeline's question. A restart of an attempt keeps the status and
is to this module what a rename is.

| code | actions |
|---|---|
| `A/live/routes.py` `live`, `_finish` | `Hello`, `RefuseHello`, `Claim`, `WarmUp`, `WarmUpFails`, `Stop`, `Disconnect`, `Finish` |
| `A/live/registry.py` | `Release`, `MayGiveUp`, `Claim` (operators of the actions that call them) |
| `A/service.py` `begin_live` | `BeginLive` |
| `A/service.py` `start_transcription`, `A/router.py` upload | `UploadLocks`, `UploadLooks`, `UploadAsks`, `UploadCommits`, `Fails` |
| `A/service.py` `cancel_transcription` | `CancelLocks` |
| `A/meeting_deletion.py`, rename | `OtherLocks`, `NotFound`, `DeleteLooks`, `DeleteReturns` |
| `A/service.py` `mark_complete`; `mark_failed`, `mark_unannounced` | `MarkComplete`, `MarkFailed` |
| `core/db.py` sessions | `Arrive`, `Teardown` |
| the process | `Deploy` |

### MeetingExtraction

B's extraction of one meeting: what was said (`spoken`, a number that each consent
change raises), the speech the stored result read (`read`), the result on the board
(`stored`), the one D and E were told (`heard`), the attempts row (`row`) and what each
worker is doing (`run`).

| code | actions |
|---|---|
| `B/tasks.py` `on_transcript_ready`, `_extract`, `_announce` | `OnTranscriptReady`, `Read`, `RunFails`, `Store`, `Announce`, `AnnounceFails` |
| `retry_failed_extractions`, `attempts.claim_retry`, `adopt_unextracted` | `DueForRetry`, `ClaimRetry`, `AdoptUnextracted`, `HoldLapses` |
| `_republish_counted` | `ReadBack`, `Announce`, `SettleRepublished` |
| `reextract_consent_changes` | `ConsentChanged` |
| `B/router.py` `request_extraction`, `run_requested_extractions` | `RequestExtraction`, `TakeRequest` |
| `attempts.note_failure`, `note_success`, `_count` | `NoteFailure`, `Counted`, `Settled` |
| `_tell_teams` | `OwedNotice`, `ClaimNotice`, `PostNotice`, `ReleaseNotice` |
| A's publications | `TranscriptReady`, `ConsentChanges` |
| Celery; the broker (external) | `Dies`; `EventIsLost` |

### ApprovalQueue (and CardDecisions)

The agent's plan mode: the runs in the order they committed (`runs`), the card of each
(`cards`), the events still to be acknowledged, what each process holds (`proc`), what
each approver has claimed (`deciding`), and, as a history, how often each action was
carried out (`acted`). One UPDATE sees the rows committed before it (`looked`).
`CardDecisions` is what this promises an approver: a card waits until it is approved or
withdrawn, and an approved action runs once, in the hands of whoever approved it.

| code (`agent/main/`) | actions |
|---|---|
| `triggers.py` `on_event`, `_already_ran`, `on_tick`, chat | `OnEvent`, `CheckRan`, `Ask` |
| `store.py` `run_and_record`, `pending.py` `queue_l2`, `retire_team_wide` | `Judge`, `RunFails`, `RunIsLost`, `Commit` |
| `notify.py` | `Tell` |
| `pending.py` `_claim`, `approve`, `reject`; `actions.py` | `Claim`, `RunAction`, `RecordOutcome` |
| `models.py` foreign keys | `DeleteMeeting` |
| E's publication | `Publish` |
| Celery, processes | `Redelivered`, `ProcDies`, `ApprovalDies` |

### ItemCopies

An action item's page in the team's Notion: the item and its last edit, the ref row as
committed (`ref`) and who holds it (`lock`), the pages of the workspace and what they
say, the failure on the board, the cleanup owed for each page (`owed`), the background threads
(`sync`) and the request that deletes (`deletion`). A sync holds its transaction open
over its calls. A page's debt is a row with the tries it has had; a row that is no more
remembers how it ended: its tries spent (`dropped`), refused by Notion at once
(`refused`), or never written because the write itself failed (`unrecorded`).

| code (`B/`) | actions |
|---|---|
| `router.py` edits, "send again" | `Edit`, `SendAgain` |
| `tasks.py` `sync_action_item`, `service.py` `sync_action_item_to_notion` | `Start`, `LockRef`, `Claim`, `Create`, `Follow`, `Commit` |
| `_sync_failed`, `_record_failure`, `_sync_went` | `Ends` |
| `delete_action_item`, `trash_notion_page` | `DeleteItem`, `LookForPage`, `TrashPage` (`Trashed`, `TrashFails`), `DeleteRows` |
| `_owe_external_cleanup` | `Owes` |
| `drain_external_cleanup`, `_clean_up_one` | `Drain`, `Counts` |
| people, the API's process (external) | `PersonRemoves`, `ApiRestarts` |

The definitions named like an action with a twist (`RestartKeepsOld`, `ClaimBlind`,
`ReopenNothing`, ...) are no part of any specification. They are plausible bugs, one
per property: substituted for the action they stand beside, each makes TLC find
its property violated under the run's own configuration.

## 3. The runs

| run | instance | what it checks |
|---|---|---|
| `recording_safety` | 1 meeting, 2 workers, 1 request, 2 attempts, 2 consumers, 2 faults | `RecordingKept`, `TranscriptMeansAudioGone`, `CancelledStaysSilent`, `OneLiveJob`, `AnalyzingHasLiveJob`, `TranscriptMovesForward`, `ReopenedOnlyUnannounced` hold |
| `recording_liveness` | 1 worker, 2 attempts, 1 fault, fair | `EveryRecordingGoes`, `ImplementsAttempts` hold |
| `context_gate` | 2 workers, 2 events, 1 fault, 1 retry, fair | `StaleIsCovered`, `OwedIsCovered`, `WarnedOnce`, `LinkedIsPublished`, `LineageIsSent` hold |
| `score_gate` | 2 sources, 2 workers, 2 reports, 1 fault, fair | `StaleScoreIsCovered`, `UnscoredIsCovered`, `OneReportIsScored`, `LateReportIsScored` hold |
| `live_sockets` | 2 sockets, 2 requests, 2 people, unbounded, fair | `ClaimIsStreaming`, `StreamKeepsClaim`, `CommitSparesLive`, `EveryClaimEnds` hold |
| `extraction_runs` | 2 processes, 2 tries, 2 versions of the speech, 1 press, 2 mishaps, fair | `OneRetryAtATime`, `RepublishHasResult`, `EveryVersionSettles` hold |
| `approval_queue` | 2 meetings, 2 processes, 1 approver, 1 event, 1 decided card, 1 extra, fair | `ActedOnce`, `LaterJudgmentReplaces`, `RepeatOverlaps`, `WakeupIsRecorded` hold |
| `item_copies` | 2 syncs, 3 pages, 3 edits, 1 removal, 1 mishap, 2 cleanup tries, fair | `SentOnce`, `PageNeverGoesBack`, `EditReachesPage`, `DeletedPageGoes` hold |
| `dead_announcer` | 1 attempt, 1 fault, fair | `CompleteIsAnnounced` **violated** |
| `live_hello` | 1 socket, 1 request, fair | `HelloReturns` **violated** |
| `approval_overlap` | as `approval_queue` | `OneJudgmentWaiting` **violated** |
| `item_stale_send` | 2 syncs, nothing fails | `LastSentIsLatest` **violated** |

The passing runs but `recording_liveness` also check their module's `TypeOK`.

### What the violations are

* `dead_announcer`. Between the transcript's commit and the announcement a death
  leaves the attempt running, so that the redelivered message is declined: nobody
  announces, and the complete meeting accepts no further upload.
* `live_hello`. `begin_live` waits for the meeting's row on the event loop's own thread. A
  deletion or rename that holds the row commits in the teardown of a dependency,
  which the same loop has to start: neither goes on. `routes.py:10` says that "each
  database touch here is short and scoped".
* `approval_overlap`. Two overlapping team-wide runs each retire what had committed
  before both, and each insert a card: both wait, against `pending.py:114-115`.
* `item_stale_send`. With no ref row there is nothing to lock, and the item is sent as
  the session cached it before the claim. An edit that moves the item back to
  "needs confirmation" in between finds no copy to follow, and the page keeps the
  earlier edit with nothing failed, against the docstring of `B/service.py:6302-6306`.

Six more statements are written down in the modules without a run: TLC finds each of
them violated, and the hazards that no other property covers say so.
`FailedMeansOver` (`mark_failed` writes "failed" over a
meeting that a cancel and a new upload have given another attempt), `AudioGone` (a
restart's rename, rolled back, under a slow worker's unlink), `TranscriptIsPublished`
(D's two halves insert the same status row and one is lost), `FeedbackOnce` (a
countdown between a late report's reopen and its quiet aggregation),
`TimeoutIsScored` (a death between a first report and arming its countdown) and
`PartialReadStaysSaid`. The last is the rule of `B/attempts.py:103-105`, that a meeting counted as partly
unread stays so "until a run reads everything": a sweep that republishes a stored result
ends the count with `note_success` (`B/tasks.py:987`), whatever was counted meanwhile, and so
clears the reason that a run somebody asked for has just written for a new, partial
result. The board then holds a partial read, and no sweep tries it again.

One docstring is simply out of date: `B/models.py:705-707` says of the ref row that "deleting the item
deletes this row and leaves the Notion page where it is". `delete_action_item` retitles
the page and moves it to the trash first (`B/tasks.py:2737`), and that is what ItemCopies models.

### Bounds, and why they are enough

The bounds are constants and appear in guards: `MaxJobs` ends uploads and
restarts, `MaxFaults`, `MaxMishaps` and `MaxExtras` deaths, losses and exceptions,
`MaxEvents`, `MaxReports`, `MaxSpoken`, `MaxEdits` and `MaxPresses` what the world asks.
Two workers are enough for every race here, since each is between two
transactions on one row, and a queue that repeats a message gives each worker
its copy. Two attempts show an attempt and its successor. Two faults
in `recording_safety` let a death follow a half-failed send. `context_gate`'s two
events are the two halves, or one of them and its rerun; a redelivery is the one fault. Two of E's
three sources are a first and a last; the third is another in between. `score_gate`'s two
reports are both sources in, one of them repeated by the one fault.
The retries of D's notices are 1 where the code has 3: one release and one retry is the
cycle that repeats. `MaxRuns` in ContextGate is the sum of the bounds behind runs and is
never reached. Several meetings in one sweep are covered by the proofs alone.

`live_sockets` has no bound but its slots, which are used again; two sockets are an old
one on its way out beside its successor, two requests an upload beside a deletion.
In `extraction_runs` two tries are one retry and the end of them, two versions of the speech
a transcript and one consent change, and two mishaps a failure and the death of what
repairs it. In `approval_queue` the one approver decides every card (two approvers racing for a card are
in the theorem `ActsOnce` alone); one event wakes two subagents, `Requests` (`Asked`) offers
one chat turn or one tick of the team-wide one, and the single extra is that, a death or
a redelivery: two runs of one kind, one after or inside the other. `MaxDecided`
bounds the decided cards in the instance, since every decided one is one more state.
In `item_copies` three edits are a confirmation, a change, and a move back; three pages
a first, the one a lost answer made, and a replacement of one a person removed. The one
mishap makes the deletion's own trash fail; the drain's calls fail without spending it, so that
the two tries of `CleanupMax` are a repeated one and the last.

Workers are interchangeable in `recording_safety` (symmetry); runs with liveness
properties use none. `live_sockets` and `live_hello` check deadlock; the others say
`CHECK_DEADLOCK FALSE`, since with its bounds used up the system rests.

### Fairness

Weak fairness on taking a message and on each next step of a task: Celery runs
what it has accepted to its end, and a step's lock waits end because their holders
move. Weak fairness on the sweep (beat fires hourly), on the deadlines and on the
age of a file: clocks run. Nobody owes an upload, a cancel, a report or a rerun;
in particular B never has to answer. Liveness properties that assume no death, or
no exception, say so themselves (`[](faults = 0) => ...`, `[](~raised) => ...`): a
task that raises is lost in this code, deliberately.

* LiveSockets: weak, on each socket's and each request's next step; the session limit
  ends a session nobody stops. Nobody owes an upload or a stop. `EveryClaimEnds` assumes
  that the loop comes free again and again, which `live_hello` shows it may not.
* MeetingExtraction: weak on a started run, on the queue and on the pressed requests;
  strong on the two sweeps, which beat starts every ten minutes but which find nothing due
  while a run is under way. `EveryVersionSettles` leaves out the state `PressedFirst`, in
  which a press has made the row that keeps `adopt_unextracted` away.
* ApprovalQueue: weak on workers and on an approver's request once it began. Nobody owes a
  decision.
* ItemCopies: strong on a sync's next step and on the deletion's, since both wait for a row
  lock that PostgreSQL hands on to whoever waits; weak on the drain.

## 4. The proofs

The theorems hold for every value of the constants, from the named assumptions
only: bounds are naturals, process names distinct (`NoneAssumption`,
`BoundAssumption`, `ProcAssumption`; `GateBounds`; `SourcesAssumption`, `ScoreBounds`;
`SlotsAssumption`; `BoundsAssumption`; `QueueBounds`, `RequestsAssumption`, `NoneIsNobody`,
`NoneIsNoClaim`;
`NobodyAssumption`).

| module | theorems |
|---|---|
| `RecordingPipelineProofs` | `TypeCorrect`, `AtMostOneLive` (`OneLiveJob`), `NeverStuck` (`AnalyzingHasLiveJob`), `CancelHolds` (`CancelledStaysSilent`), `NoLateTranscript` (`TranscriptMovesForward`), `ReopenedRarely` (`ReopenedOnlyUnannounced`), `AttemptsRefined` (`ImplementsAttempts`) |
| `RecordingFilesProofs` | `AudioIsGone` (`TranscriptMeansAudioGone`), `RecordingIsKept` (`RecordingKept`) |
| `ContextGateProofs` | `TypeCorrect`, `StaleCovered`, `OwedCovered`, `WarnsOnce`, `TeamHearsLast`\*, `SendsMoveForward`\*, `FeedRefined`\* |
| `MeetingScoreProofs` | `TypeCorrect`, `StaleCovered`, `UnscoredCovered`, `ScoresWhenReady`\*, `FeedbackIsOfAScore`\*, `ScoreIsNotLost`\*, `BoardRefined`\* |
| `LiveSocketsProofs` | `TypeCorrect`, `ClaimStreams` (`ClaimIsStreaming`), `ClaimIsKept` (`StreamKeepsClaim`), `CommitsSpareLive` (`CommitSparesLive`), `LifeMovesOn`\* |
| `MeetingExtractionProofs` | `TypeCorrect`, `RetriesAlone` (`OneRetryAtATime`), `RepublishesSomething` (`RepublishHasResult`), `FailuresKept`\* |
| `ApprovalQueueProofs` | `TypeCorrect`, `ActsOnce` (`ActedOnce`), `JudgmentReplaces` (`LaterJudgmentReplaces`), `RepeatsOverlap` (`RepeatOverlaps`), `DecisionsHold`\*, `DecisionsRefined`\* |
| `ItemCopiesProofs` | `TypeCorrect`, `NeverGoesBack` (`PageNeverGoesBack`), `PageMadeOnce` (`SentOnce`), `DeletionIsFinal`\* |

\* of a formula no run states; see the end of this section.

**Recording pipeline.** None of its invariants is inductive: that a meeting has one
live attempt depends on ids growing, on a restart's locks, and on who may still
write. `Inv` adds: who is where (`ProcsOK`); that a row has a meeting, a recording and
an id already handed out (`RowsOK`); that the live attempt is the meeting's newest
(`NewestLive`), which is what makes a second one impossible; that a restart between
its rename and its commit has the old row to itself and the meeting's newest id
(`RestartOK`); that an attempt is run by one worker, once (`RunOK`, from the claim);
that an attempt which committed its transcript can no longer be cancelled, since
its meeting is not analyzing (`WroteOK`); and that whoever will fail an attempt and
*not* its meeting has found the meeting not analyzing (`FailOK`), without which a
meeting could stay analyzing with nobody at work. One lemma per action; then
`Invariance`, and each theorem from it.

`ReopenedRarely` also needs what a late failure may have read. `GoneOK`: a row somebody
holds, or that a sweep has listed, is there, and the attempts of a deleted meeting went
with it. `LateOK`: while someone is about to fail a live attempt and its meeting, the
meeting is not complete. `write_transcript` is the only step to make it complete, and it
waits for the row lock the failure holds.

*The refinement.* `Holder` maps the tables to `MeetingAttempts`: the attempt that is queued
or running, unique by `OneLive`. Each kind of step has its lemma: uploads and restarts are
`Admit` (the id is new, and what it replaces ends in the same commit), the fenced write
is `Commit` (the writer is live, hence the holder), endings by worker, cancel, failure
or a sweep of many meetings are `Release`, deletion and retention are `Erase`, and
`Stutters` disposes of the rest. `StepRefines` puts them together.

*The files.* The two theorems about recordings are proved over `Inv /\ FilesOK`, which says
what the names in the directory mean. `DirOK`: no recording is there twice, and the file
of a row is the recording the row was made for. `ChainOK`: the attempts at one recording
are of one meeting, and only the newest may have the file, since every restart renames
it away from its predecessor. `MoveOK`: between a restart's rename and its commit the old
name is free. `WriteOK`: a worker past `adopt` has no file left. `SpokenOK`: the attempt a
transcript is from was the last made for its recording and is not being restarted;
without it a restart could bring the audio back under a name with a row. `AudioIsGone`
follows. For `RecordingIsKept`, `KeptOK` says of each who is about to delete a file why
it may: a declined delivery or a dropping request finds its attempt over, what a sweep
listed is past its six hours and ages never shrink, and a restart after its rename still
has what it renamed.

**Context gate.** `StaleInv` says a published meeting has links, the transaction that
inserts the row precedes any publish, and stale content has somebody who has read
`published` and will republish. `OwedInv` says a warning is only owed once the lineage
is in and the meeting published, so that the catch-up that pays it is never refused
by the gate. `OnceInv` says that while Slack holds steady no claim is given back, so at
most one task has each notice in hand, and the first notices carry the drift only
when no late warning is or can become due.

`SentInv` says what each task on its way stands for: who is to announce follows a
publication, who is to warn of drift follows a lineage that went out (`Told`), and so
does every message in the queue that will make somebody do it (`Follows`); a published
meeting has sent topics, and one that owes nothing late has sent the lineage it has (`Out`).
From it, `TeamHearsLast`: no notice runs ahead of what it is about. `SendsMoveForward`
follows from `Out` too: whoever sends sends what the rows hold under the lock (`WhoSends`),
which is never older than what went out.

`FeedRefined`: a half's commit is the feed's `LinkTopics` or `BuildLineage`, a send is its
`Tell`, also one whose transaction is then lost, and a batch of posts, whole or cut short,
is its `Notify`, which `SentInv` allows; routing, claims, retries and deaths stutter.

**Meeting score.** `StaleInv`: `Record` reads, in the transaction that replaces a payload,
whether a score was made, and if so its worker is the one to reopen it. `UnscoredInv`:
nothing is scored before all are in or the timeout has passed (`ReadyBehind`), so that
whoever records a report after that finds the meeting ready and asks for the score
itself; this is what carries a meeting over the death of a worker between
reopening it and asking. `ScoresWhenReady` follows from the same: `aggregate` looks at neither
the reports nor the clock, so that a score is never early depends on whoever sent for it.
`ArrivedInv`: a source that reported has its payload, and so has one that is in the score;
hence a rescoring leaves nobody out (`ScoreIsNotLost`) and a score, once there, is
never lost (`ScoredStays`), by which every message and task that ends in a
personal ratio still has a score behind it (`FeedbackInv`).

`BoardRefined`: `Record` is the board's `Say`, `TimeoutElapses` its `WaitEnds`, `Aggregate` its
`Score`, and every other step stutters. That the row is not silent when it is scored is
`ArrivedInv`; that the scoring is not early, though `aggregate` does not ask, is
`UnscoredInv`.

**Live sockets.** `ClaimInv`: a hello that holds the loop found no claim, which is what lets
the claim follow its check across `begin_live`'s wait. `SparesInv`: a request that met a socket
keeps the meeting's row until it is over, so that no session begins under it, and when
it may commit that socket has let go. `ReadInv`: what an upload or a deletion read of the
status when it took the row holds for as long as it has the row (`HolderWrites`: only the
holder writes then), although the write comes steps later. An attempt does not ask what the
status is before it writes. `JobsInv` is why it needs not: once there was an upload, the
meeting is neither scheduled nor recording again, so a late "complete" or "failed" lands on
a meeting that is analyzing, complete or failed, and never on one that a live session
is about to begin. Both together give `LifeMovesOn`.

**Extraction.** `HoldInv`: while a retry is under way, its meeting's row is held or its
count was ended by another run; either way no sweep finds it retryable. `ResultInv`: an announcement that failed leaves "not published" in its
process and then in the row, and each of them says that a result is stored; so what is only
republished exists (`RepublishesSomething`). `FailuresKept` needs only types, one lemma per
way the row is written: only a run that stores and a republication that settles end a count
(`WhoEditsRow`).

**Approval queue.** `ActedInv`: the card an approver is carrying out is claimed by that
approver, approved, and not carried out yet; a decided card never waits again. `JudgeInv`:
a team-wide run that judged has in hand every card that waited when it looked, even
one whose run a deletion took since. `RanInv`: what a delivery saw when it asked held no
answered run of its own task. `DecisionsRefined` maps the pending cards to those that wait
and a claim not yet acted on to the approver's hand: a commit is `Propose`, a claim `Approve` or
`Withdraw`, the action `Act` (by `ActedInv`, the first), a refusal or a lost request `LetGo`,
and recording an outcome changes nothing, since by `ActedInv` the card had left "pending".
`DecisionsHold` is its other side, for the cards themselves: an outcome is written
without a look at the status, so that it lands on a card still approved by the same person
rests on `ActedInv` too.

**Item copies.** `Inv`: exactly the syncs past their claim hold the row, and what the
holder sends is no older than what the page says; versions alone would not do, since a sync
reads the item long before its call is answered. `OnceInv`: of the live pages, all but the
item's own, or the one about to be committed as its own, are one mishap's each, a count
that lemmas on cardinalities carry through each step. `GoneInv`: of an item whose deletion
is committed there is no row and no failure, and no sync is past its claim, since the
deletion of the row waited for whoever held it; a sync that starts or claims afterwards finds
nothing to send. `DeletionIsFinal` adds to it what each step may do to a page (`GonePages`).

**Only model-checked**: the ten liveness properties `EveryRecordingGoes`,
`LinkedIsPublished`, `LineageIsSent`, `OneReportIsScored`, `LateReportIsScored`,
`EveryClaimEnds`, `EveryVersionSettles`, `WakeupIsRecorded`, `EditReachesPage` and
`DeletedPageGoes`, since fairness and ENABLED are out of TLAPS's reach here. Every
invariant and every action property that a passing run checks, and the refinement
`ImplementsAttempts`, is a theorem.

Twelve theorems go further than the runs. TLC finds no error in their formulas on the
instances of the runs:

| theorem | formula | in words |
|---|---|---|
| `DecisionsRefined` | `ImplementsDecisions` | plan mode implements `CardDecisions` |
| `DecisionsHold` | `DecisionsStand` | no approver, run, crash or late outcome undoes a decision |
| `ScoresWhenReady` | `ScoredWhenReady` | no score before all are in or the timeout has passed |
| `FeedbackIsOfAScore` | `FeedbackFollowsScore` | no personal ratio for a meeting without a score |
| `ScoreIsNotLost` | `ScoreKeepsItsSources` | a rescoring leaves out no source |
| `BoardRefined` | `ImplementsBoard` | the aggregation implements `ScoreBoard` |
| `LifeMovesOn` | `LifeGoesForward` | whatever requests, sockets and late attempts write, a status changes only along the meeting's life: an uploaded meeting is never scheduled or recorded again |
| `FailuresKept` | `FailuresAreKept` | a failure is forgotten by a result or a republication only |
| `DeletionIsFinal` | `GoneIsFinal` | no late sync brings a deleted item back |
| `TeamHearsLast` | `NoticesFollowSending` | no notice of what was not sent |
| `SendsMoveForward` | `SentGoesForward` | nothing older is sent after something newer |
| `FeedRefined` | `ImplementsFeed` | the gate implements `ContextFeed` |

One neighbour of `FailuresKept` does not hold and is stated nowhere: that a meeting marked
as told is out of tries. `claim_notice` (`B/attempts.py:329`) asks only that nobody told
the team, so a sweep that listed the meeting before a run went through tells it, and marks
it, with the count at zero. Until the next success clears the mark, the meeting's new
failures are told to nobody.

## 5. What the models leave out

* RecordingPipeline: the meeting status `recording` of a live session and the refusal of
  an upload beside one, which are LiveSockets'; team deletion. `ExpireMeeting` assumes that within 30 days of an
  upload its recordings are past their six hours and no process is at work on them.
  `RecordingKept` is about attempts that are queued or running: a slow worker whose attempt was
  cancelled may lose its file, and `CancelledStaysSilent` says what it then may not do.
  `ReopenedOnlyUnannounced` leaves out a late failure of an attempt that is over by the time it is
  written (`FailsLate`), which is what `FailedMeansOver` shows.
* ContextGate: one meeting, so the re-threading of other meetings' lineages, for
  which a run takes the team's advisory lock, appears only as mutual exclusion.
  Every lineage is assumed to carry a drift warning, and to be published with its
  extraction (`extraction_seen` and `lineage_done` are set together). A publish is
  assumed not to fit between `_upsert_status`'s read and its insert, two adjacent
  statements, because its task has first to be taken from the queue. The backfill script
  of `rederive.py` runs in its own process, where nothing redelivers it: the model has
  the task only.
* MeetingScore: the meeting exists; the score's arithmetic; reports and corrections.
* LiveSockets: one meeting and one API process; one-use tickets, frames, segmentation and
  speakers; what attempts do before they write the status, and which of them still may; a rename
  that changes nothing. `CommitSparesLive` speaks of requests that met a socket: one that takes
  the row between a hello's commit and its claim met none, a gap that the docstring of `A/live/registry.py` accepts.
* MeetingExtraction: what is said and what is found are numbers; a hold is assumed longer
  than a run, as `RETRY_HOLD` intends; the hours in which a notice may be sent; the order
  in which results are announced, which no document promises.
* ApprovalQueue: one proposal that needs approval per run; an action that needs none is another
  module's write; a run stopped by its budget is an answered run with nothing proposed; every
  approver may decide every card; Slack messages hold no state; the graph's routing.
* ItemCopies: Notion only, with the team's connection always there, so that the drain never waits for
  one; a retitle is refused only of a page a person removed; a call that timed out has landed
  or never will; that the next sync takes over the page a lost create made is an action
  (`Create`) and no property, since `SentOnce` allows a page more for each mishap; whether a page's title still is
  the item's is either; the drain takes one row at a time; a failure that cannot have
  arrived is "rejected" whatever its code. Jira, calendar, decisions and minutes repeat
  the same claim with other calls and are not modelled. A page made while its
  item's deletion looked for one stays in Notion: the code promises only the pages it found.
* That a notice lost between its claim and its post stays lost is documented in
  `D/models.py` (210-214) as the price of never posting twice, and is not a property.
* Masking, recognition, extraction, matching, prompting: computations whose outcome
  is a success or a failure of one step.

## 6. Plan

Done: recording pipeline; D's gate; E's score; live sockets; B's extraction and its copies in
Notion; the agent's approval queue; each with its runs and its proofs. `MeetingAttempts`,
`CardDecisions`, `ScoreBoard` and `ContextFeed` are the abstract specifications. Next, in order:

1. Teams: last member, invitations, the deletion hooks of every module, consent withdrawn
   under a running attempt.
2. C's agenda lines: the queue that writes them into calendars and takes them out.
3. D and E composed: the order in which the broker delivers D's messages to E; A composed
   with its consumers, for a publish that told only some of them.
4. B's copies in Jira and calendars, decisions and minutes.
5. core's sign-in state and session revocation.

Theorems still worth proving: more abstract specifications in the manner of `MeetingAttempts`
(a copy's life in Notion, an extraction's tries) and their refinements; and the same
invariants over the modules above, once they are there.
Runs and bounds stay of the size above: two actors, one object, one or two faults.
