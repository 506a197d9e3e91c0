----------------------------- MODULE ContextGate -----------------------------
(***************************************************************************)
(* Module D's publication of one meeting's ContextLinks: two halves (topic *)
(* links off the transcript, decision lineage off B's extraction) written  *)
(* by at-least-once tasks, the row of ctx_meeting_status that gates the    *)
(* publish, the fallback when B is late, republishing after a rerun, and   *)
(* the two Slack notices with their claims.                                *)
(* modules/context/src/autune_context: tasks.py, service.py.               *)
(*                                                                         *)
(* A step is one transaction on the row (they take it FOR UPDATE, so each  *)
(* is atomic), one send to the broker, or one batch of Slack posts.  The   *)
(* exception is the row's first insert, which nothing locks (InsertStatus).*)
(***************************************************************************)
EXTENDS Naturals

CONSTANTS
    Workers,
    None,
    MaxRetries,   \* _NOTIFY_RETRY: max_retries
    MaxEvents,    \* bound: transcripts, extractions and re-derivations
    MaxFaults     \* bound: deaths, redeliveries, exceptions, changes of Slack

ASSUME GateBounds == MaxRetries \in Nat /\ MaxEvents \in Nat /\ MaxFaults \in Nat

VARIABLES
    links,        \* generation of the topic links stored; 0: topic_linking_done is false
    lineage,      \* generation of the decision lineage; 0: extraction_seen is false
    timedOut,     \* deadline_at has passed
    published,    \* published_at is set
    notified,     \* notified_at is set
    lateNotified, \* late_drift_notified_at is set
    due,          \* late_drift_due_at is set
    sent,         \* the generations in the last ContextLinks sent
    slack,        \* the team has a Slack channel
    topicPosts,   \* posts of the topic-link notices
    driftPosts,   \* posts of the drift warnings
    queue,        \* messages waiting, and how many of each
    pc, task, note,
    steady,       \* history: Slack neither failed nor came or went
    raised,       \* history: an exception ended a task, which acknowledges it
    events, faults

status == <<timedOut, published, notified, lateNotified, due>>
content == <<links, lineage>>
posts == <<topicPosts, driftPosts>>
procs == <<pc, task, note>>
vars == <<status, content, sent, slack, posts, queue, procs, steady, raised, events, faults>>

\* Each run has an event or a fault behind it, so this bound is never reached.
MaxRuns == MaxEvents + MaxFaults
Generations == 0..MaxRuns

Linking == {"transcript", "rederive"}
Deriving == Linking \cup {"extraction"}
Forced == {"catchup", "republish"}
\* A message: what it asks for, and the deadline it was armed for (fallback)
\* or the retries behind it (notify, lateNotify).
Messages ==
    ((Deriving \cup Forced \cup {"check"}) \X {0})
        \cup ({"fallback"} \X Generations)
        \cup ({"notify", "lateNotify"} \X (0..MaxRetries))
PCs == {"idle", "start", "insert", "routed", "arm", "announce", "post", "release", "retry"}
\* LineageOutcome, or what a notice carries.
Notes == {"first", "late", "rebuilt", "topics", "both", "owed", "unowed", None}

-----------------------------------------------------------------------------
Kind(w) == task[w][1]
RowExists == links > 0 \/ lineage > 0
\* The transaction that has read no row and not yet inserted it.
Inserting == \E w \in Workers : pc[w] = "insert"

Fault == faults < MaxFaults /\ faults' = faults + 1
Goto(w, l, n) == pc' = [pc EXCEPT ![w] = l] /\ note' = [note EXCEPT ![w] = n] /\ UNCHANGED task
\* The task ends and its message is acknowledged.
Ack(w) ==
    /\ pc' = [pc EXCEPT ![w] = "idle"]
    /\ task' = [task EXCEPT ![w] = None]
    /\ note' = [note EXCEPT ![w] = None]
Put(m) == queue' = [queue EXCEPT ![m] = @ + 1]

\* A countdown runs out no sooner than the deadline it was armed for.
Ripe(m) == m[1] = "fallback" => timedOut \/ links > m[2]

Take(w) ==
    /\ pc[w] = "idle"
    /\ \E m \in Messages :
         /\ queue[m] > 0
         /\ Ripe(m)
         /\ queue' = [queue EXCEPT ![m] = @ - 1]
         /\ task' = [task EXCEPT ![w] = m]
    /\ pc' = [pc EXCEPT ![w] = "start"]
    /\ UNCHANGED <<note, status, content, sent, slack, posts, steady, raised, events, faults>>

-----------------------------------------------------------------------------
(* on_transcript_ready, rederive_topics                                    *)

\* _link_topics commits: the links, a new deadline, and whether they were out.
LinksWritten(w, outcome) ==
    /\ links < MaxRuns
    /\ links' = links + 1
    /\ timedOut' = FALSE
    /\ Goto(w, "routed", outcome)
    /\ UNCHANGED <<lineage, published, notified, lateNotified, due>>

LinkTopicsBlind(w) ==
    /\ pc[w] = "start" /\ Kind(w) \in Linking
    /\ Kind(w) = "rederive" => links > 0
    /\ IF RowExists THEN LinksWritten(w, "first")
                    ELSE Goto(w, "insert", None) /\ UNCHANGED <<content, status>>
    /\ UNCHANGED <<sent, slack, posts, queue, steady, raised, events, faults>>

LinkTopics(w) ==
    /\ pc[w] = "start" /\ Kind(w) \in Linking
    /\ Kind(w) = "rederive" => links > 0
    /\ IF RowExists THEN LinksWritten(w, IF published THEN "rebuilt" ELSE "first")
                    ELSE Goto(w, "insert", None) /\ UNCHANGED <<content, status>>
    /\ UNCHANGED <<sent, slack, posts, queue, steady, raised, events, faults>>

RederiveRefused(w) ==
    /\ pc[w] = "start" /\ Kind(w) = "rederive"
    /\ links = 0
    /\ Ack(w)
    /\ UNCHANGED <<status, content, sent, slack, posts, queue, steady, raised, events, faults>>

RouteLinks(w) ==
    /\ pc[w] = "routed" /\ Kind(w) \in Linking
    /\ IF note[w] = "rebuilt" THEN Put(<<"republish", 0>>) /\ Ack(w)
                              ELSE Put(<<"check", 0>>) /\ Goto(w, "arm", None)
    /\ UNCHANGED <<status, content, sent, slack, posts, steady, raised, events, faults>>

ArmFallback(w) ==
    /\ pc[w] = "arm"
    /\ Put(<<"fallback", links>>)
    /\ Ack(w)
    /\ UNCHANGED <<status, content, sent, slack, posts, steady, raised, events, faults>>

-----------------------------------------------------------------------------
(* on_extraction_completed                                                 *)

\* The outcome recomputed from this run alone: a redelivery finds nothing owed.
LineageWrittenOnce(w, wasPublished) ==
    LET late == wasPublished /\ lineage = 0 IN
    /\ lineage < MaxRuns
    /\ lineage' = lineage + 1
    /\ due' = (due \/ late)
    /\ Goto(w, "routed", IF late THEN "late" ELSE IF wasPublished THEN "rebuilt" ELSE "first")
    /\ UNCHANGED <<links, timedOut, published, notified, lateNotified>>

LineageWritten(w, wasPublished) ==
    LET owed == due \/ (wasPublished /\ lineage = 0) IN
    /\ lineage < MaxRuns
    /\ lineage' = lineage + 1
    /\ due' = owed
    /\ Goto(w, "routed", IF owed THEN "late" ELSE IF wasPublished THEN "rebuilt" ELSE "first")
    /\ UNCHANGED <<links, timedOut, published, notified, lateNotified>>

\* The team's advisory lock keeps two of these apart.
BuildLineage(w) ==
    /\ pc[w] = "start" /\ Kind(w) = "extraction"
    /\ \A v \in Workers : pc[v] = "insert" => Kind(v) # "extraction"
    /\ IF RowExists THEN LineageWritten(w, published)
                    ELSE Goto(w, "insert", None) /\ UNCHANGED <<content, status>>
    /\ UNCHANGED <<sent, slack, posts, queue, steady, raised, events, faults>>

RouteLineage(w) ==
    /\ pc[w] = "routed" /\ Kind(w) = "extraction"
    /\ Put(<<CASE note[w] = "rebuilt" -> "republish"
               [] note[w] = "late" -> "catchup"
               [] note[w] = "first" -> "check", 0>>)
    /\ Ack(w)
    /\ UNCHANGED <<status, content, sent, slack, posts, steady, raised, events, faults>>

\* _upsert_status when the locking read found no row: it reads again and
\* inserts.  Both halves can be here, and the second insert of the key raises.
InsertStatus(w) ==
    /\ pc[w] = "insert"
    /\ IF Kind(w) = "extraction" THEN LineageWritten(w, FALSE) ELSE LinksWritten(w, "first")
    /\ UNCHANGED <<sent, slack, posts, queue, steady, raised, events, faults>>

InsertConflicts(w) ==
    /\ pc[w] = "insert" /\ RowExists
    /\ Ack(w)
    /\ raised' = TRUE
    /\ UNCHANGED <<status, content, sent, slack, posts, queue, steady, events, faults>>

-----------------------------------------------------------------------------
(* publish_if_ready, republish                                             *)

MayPublishWithB(kind) ==
    /\ links > 0
    /\ published = (kind \in Forced)
    /\ kind \in Forced \/ lineage > 0

MayPublishUnlinked(kind) ==
    /\ published = (kind \in Forced)
    /\ kind \in Forced \/ lineage > 0 \/ timedOut

MayPublishOnce(kind) ==
    /\ links > 0
    /\ ~published
    /\ kind \in Forced \/ lineage > 0 \/ timedOut

\* The gate: a first publish waits for B or the deadline; a forced one only
\* ever follows another.
MayPublish(kind) ==
    /\ links > 0
    /\ published = (kind \in Forced)
    /\ kind \in Forced \/ lineage > 0 \/ timedOut

PublishTask(w) == pc[w] = "start" /\ Kind(w) \in Forced \cup {"check", "fallback"}

\* The send is in the transaction.  (A task has to be taken from the queue
\* before it publishes: that does not fit between InsertStatus's statements.)
PublishIfReady(w) ==
    /\ PublishTask(w)
    /\ MayPublish(Kind(w))
    /\ ~Inserting
    /\ sent' = content
    /\ published' = TRUE
    /\ IF Kind(w) = "republish" THEN Ack(w) ELSE Goto(w, "announce", None)
    /\ UNCHANGED <<timedOut, notified, lateNotified, due, content, slack, posts, queue, steady, raised, events, faults>>

NotReady(w) ==
    /\ PublishTask(w)
    /\ ~MayPublish(Kind(w))
    /\ Ack(w)
    /\ UNCHANGED <<status, content, sent, slack, posts, queue, steady, raised, events, faults>>

Announce(w) ==
    /\ pc[w] = "announce"
    /\ Put(<<IF Kind(w) = "catchup" THEN "lateNotify" ELSE "notify", 0>>)
    /\ Ack(w)
    /\ UNCHANGED <<status, content, sent, slack, posts, steady, raised, events, faults>>

-----------------------------------------------------------------------------
(* notify_context_events, notify_late_drift                                *)

DriftUnlessSent == lineage > 0 /\ ~lateNotified
\* Drift is left to notify_late_drift when that was sent, or is owed.
DriftHere == lineage > 0 /\ ~lateNotified /\ ~due

\* Claimed before anything is sent.
ClaimNotice(w) ==
    /\ pc[w] = "start" /\ Kind(w) = "notify"
    /\ IF notified \/ ~slack
         THEN Ack(w) /\ UNCHANGED notified
         ELSE notified' = TRUE /\ Goto(w, "post", IF DriftHere THEN "both" ELSE "topics")
    /\ UNCHANGED <<timedOut, published, lateNotified, due, content, sent, slack, posts, queue, steady, raised, events, faults>>

ClaimLateDrift(w) ==
    /\ pc[w] = "start" /\ Kind(w) = "lateNotify"
    /\ \/ lateNotified /\ Ack(w) /\ UNCHANGED <<lateNotified, due>>
       \/ ~lateNotified /\ ~slack /\ due' = FALSE /\ Ack(w) /\ UNCHANGED lateNotified
       \/ /\ ~lateNotified /\ slack
          /\ lateNotified' = TRUE
          /\ due' = FALSE
          /\ Goto(w, "post", IF due THEN "owed" ELSE "unowed")
    /\ UNCHANGED <<timedOut, published, notified, content, sent, slack, posts, queue, steady, raised, events, faults>>

CarriesTopics(w) == note[w] \in {"topics", "both"}
CarriesDrift(w) == note[w] \in {"both", "owed", "unowed"}

PostNotices(w) ==
    /\ pc[w] = "post"
    /\ topicPosts' = topicPosts + (IF CarriesTopics(w) THEN 1 ELSE 0)
    /\ driftPosts' = driftPosts + (IF CarriesDrift(w) THEN 1 ELSE 0)
    /\ Ack(w)
    /\ UNCHANGED <<status, content, sent, slack, queue, steady, raised, events, faults>>

\* A rate limit or a timeout, with the batch half out.
SlackFails(w) ==
    /\ pc[w] = "post"
    /\ Fault
    /\ steady' = FALSE
    /\ topicPosts' \in {topicPosts, topicPosts + (IF CarriesTopics(w) THEN 1 ELSE 0)}
    /\ driftPosts' \in {driftPosts, driftPosts + (IF CarriesDrift(w) THEN 1 ELSE 0)}
    /\ Goto(w, "release", note[w])
    /\ UNCHANGED <<status, content, sent, slack, queue, raised, events>>

ReleaseClaim(w) ==
    /\ pc[w] = "release"
    /\ IF Kind(w) = "notify"
         THEN notified' = FALSE /\ UNCHANGED <<lateNotified, due>>
         ELSE lateNotified' = FALSE /\ due' = (note[w] = "owed") /\ UNCHANGED notified
    /\ Goto(w, "retry", None)
    /\ UNCHANGED <<timedOut, published, content, sent, slack, posts, queue, steady, raised, events, faults>>

\* autoretry_for: the same task again, until max_retries.
Retry(w) ==
    /\ pc[w] = "retry"
    /\ \/ task[w][2] < MaxRetries /\ Put(<<Kind(w), task[w][2] + 1>>) /\ UNCHANGED raised
       \/ task[w][2] = MaxRetries /\ raised' = TRUE /\ UNCHANGED queue
    /\ Ack(w)
    /\ UNCHANGED <<status, content, sent, slack, posts, steady, events, faults>>

-----------------------------------------------------------------------------
(* What happens to tasks, and to the world                                 *)

\* A publish that had sent and not committed leaves its message sent.
HalfPublished(w) ==
    \/ UNCHANGED sent
    \/ PublishTask(w) /\ MayPublish(Kind(w)) /\ ~Inserting /\ sent' = content

\* Killed: the message is delivered again.
WorkerDies(w) ==
    /\ pc[w] # "idle"
    /\ Fault
    /\ Put(task[w])
    /\ HalfPublished(w)
    /\ Ack(w)
    /\ UNCHANGED <<status, content, slack, posts, steady, raised, events>>

\* Any other exception (the model server, the broker, a refusal by Slack).
TaskRaises(w) ==
    /\ pc[w] # "idle"
    /\ Fault
    /\ raised' = TRUE
    /\ HalfPublished(w)
    /\ Ack(w)
    /\ UNCHANGED <<status, content, slack, posts, queue, steady, events>>

\* The visibility timeout: delivered again while it is being worked on.
Redelivered(w) ==
    /\ pc[w] # "idle"
    /\ Fault
    /\ Put(task[w])
    /\ UNCHANGED <<status, content, sent, slack, posts, procs, steady, raised, events>>

Event(kind) ==
    /\ events < MaxEvents
    /\ events' = events + 1
    /\ Put(<<kind, 0>>)
    /\ UNCHANGED <<status, content, sent, slack, posts, procs, steady, raised, faults>>

TranscriptReady == Event("transcript")
\* B works from a transcript, and anyone may ask it to run again.
ExtractionCompleted == events > 0 /\ Event("extraction")
RederiveTopics == Event("rederive")

DeadlinePasses ==
    /\ links > 0 /\ ~timedOut
    /\ timedOut' = TRUE
    /\ UNCHANGED <<published, notified, lateNotified, due, content, sent, slack, posts, queue, procs, steady, raised, events, faults>>

SlackChanges ==
    /\ Fault
    /\ slack' = ~slack
    /\ steady' = FALSE
    /\ UNCHANGED <<status, content, sent, posts, queue, procs, raised, events>>

-----------------------------------------------------------------------------
Init ==
    /\ links = 0 /\ lineage = 0
    /\ timedOut = FALSE /\ published = FALSE
    /\ notified = FALSE /\ lateNotified = FALSE /\ due = FALSE
    /\ sent = <<0, 0>>
    /\ slack \in BOOLEAN
    /\ topicPosts = 0 /\ driftPosts = 0
    /\ queue = [m \in Messages |-> 0]
    /\ pc = [w \in Workers |-> "idle"]
    /\ task = [w \in Workers |-> None]
    /\ note = [w \in Workers |-> None]
    /\ steady = TRUE /\ raised = FALSE
    /\ events = 0 /\ faults = 0

\* What a task does of its own accord.
Step(w) ==
    \/ LinkTopics(w) \/ RederiveRefused(w) \/ RouteLinks(w) \/ ArmFallback(w)
    \/ BuildLineage(w) \/ RouteLineage(w) \/ InsertStatus(w)
    \/ PublishIfReady(w) \/ NotReady(w) \/ Announce(w)
    \/ ClaimNotice(w) \/ ClaimLateDrift(w) \/ PostNotices(w) \/ ReleaseClaim(w) \/ Retry(w)

Mishap(w) ==
    InsertConflicts(w) \/ SlackFails(w) \/ WorkerDies(w) \/ TaskRaises(w) \/ Redelivered(w)

Next ==
    \/ \E w \in Workers : Take(w) \/ Step(w) \/ Mishap(w)
    \/ TranscriptReady \/ ExtractionCompleted \/ RederiveTopics
    \/ DeadlinePasses \/ SlackChanges

Spec == Init /\ [][Next]_vars

\* Celery runs what it has accepted, to its end, and clocks run.  B owes nothing.
Fairness ==
    /\ \A w \in Workers : WF_vars(Take(w)) /\ WF_vars(Step(w))
    /\ WF_vars(DeadlinePasses)

FairSpec == Spec /\ Fairness

-----------------------------------------------------------------------------
\* The shape of the row, the queue and the tasks: a row that says the links are
\* out has links (publish_if_ready, topic_linking_done).
TypeOK ==
    /\ links \in Generations /\ lineage \in Generations
    /\ timedOut \in BOOLEAN /\ published \in BOOLEAN
    /\ published => links > 0
    /\ notified \in BOOLEAN /\ lateNotified \in BOOLEAN /\ due \in BOOLEAN
    /\ sent \in Generations \X Generations
    /\ slack \in BOOLEAN
    /\ topicPosts \in Nat /\ driftPosts \in Nat
    /\ queue \in [Messages -> Nat]
    /\ pc \in [Workers -> PCs]
    /\ task \in [Workers -> Messages \cup {None}]
    /\ note \in [Workers -> Notes]
    /\ steady \in BOOLEAN /\ raised \in BOOLEAN
    /\ events \in 0..MaxEvents /\ faults \in 0..MaxFaults

\* Messages of these kinds wait, or a worker holds one it has yet to act on.
Coming(kinds) ==
    \/ \E m \in Messages : m[1] \in kinds /\ queue[m] > 0
    \/ \E w \in Workers : pc[w] = "start" /\ Kind(w) \in kinds

\* What E was sent is what the rows say, or a task that will send it again is
\* on its way: no order of reruns, publishes, deaths and redeliveries leaves E
\* with links or lineage that a rerun has replaced.
StaleIsCovered ==
    published /\ sent # content /\ ~raised =>
        \/ Coming(Deriving \cup Forced)
        \/ \E w \in Workers : pc[w] = "routed" /\ note[w] \in {"late", "rebuilt"}

\* A drift warning owed to the team has a task on its way to pay it, whichever
\* worker died since the lineage that owed it was committed.
OwedIsCovered ==
    due /\ ~raised =>
        \/ Coming({"extraction", "catchup", "lateNotify"})
        \/ \E w \in Workers : pc[w] = "routed" /\ note[w] = "late"
        \/ \E w \in Workers : pc[w] \in {"announce", "retry"} /\ Kind(w) \in {"catchup", "lateNotify"}

\* Two tasks can carry the drift warnings, each can be delivered twice, and the
\* lineage can arrive while either is queued: the team is told once, unless
\* Slack failed halfway or was connected in between.
WarnedOnce == steady => topicPosts <= 1 /\ driftPosts <= 1

\* The team is told of topics only once ContextLinks is published, and warned of
\* drift only once the lineage went out to E: the notice that carries both takes
\* the drift along only where no late publication of it is owed, though the flags
\* it reads and the publication were written by other tasks (tasks.py
\* publish_if_ready, notify_context_events, notify_late_drift).
NoticesFollowSending ==
    /\ topicPosts > 0 => published
    /\ driftPosts > 0 => sent[2] > 0

\* E is never sent older topics or an older lineage after newer ones, whichever
\* of a check, a fallback, a catch-up and a republish sends next.
SentGoesForward ==
    [][sent' # sent => sent'[1] >= sent[1] /\ sent'[2] >= sent[2]]_vars

\* Through every order of halves, checks, fallbacks and notices, and every death
\* between two transactions, D keeps the promise of ContextFeed: E is told both
\* halves of one moment, and the team nothing E was not told (tasks.py, service.py).
Feed == INSTANCE ContextFeed WITH
    known <- content, told <- sent, topics <- topicPosts, warnings <- driftPosts

ImplementsFeed == Feed!Spec

\* Whatever becomes of B, and whichever worker dies, a meeting whose topics
\* are linked is published.
LinkedIsPublished == [](~raised) => (links > 0 ~> published)

\* The lineage reaches E, on time or late.
LineageIsSent == [](~raised) => (links > 0 /\ lineage > 0 ~> sent[2] > 0)

-----------------------------------------------------------------------------
(* What the documentation says and the code does not do                    *)

\* async-pipeline.md: "D publishes ContextLinks once both halves are in, or - if
\* B never reports -" at the timeout.  The halves can collide on the row.
TranscriptIsPublished == [](faults = 0) => (queue[<<"transcript", 0>>] > 0 ~> published)
=============================================================================
