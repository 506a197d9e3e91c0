---------------------------- MODULE ApprovalQueue ----------------------------
(***************************************************************************)
(* The agent layer's plan mode: an event, a timer or a chat turn runs a    *)
(* subagent; what it proposes waits as a card until an approver decides,   *)
(* and an approved card's action runs once.  agent/src/autune_agent/main:  *)
(* triggers.py, store.py, pending.py, notify.py.                           *)
(*                                                                         *)
(* Each run proposes at most one action that needs approval.  An L1 action *)
(* is another module's write, committed while the subagent judges; nothing *)
(* here reads it back.  Every approver may decide every card.              *)
(***************************************************************************)
EXTENDS Naturals, Sequences, FiniteSets

CONSTANTS
    Meetings,
    Procs,        \* a Celery worker or an API request, one run at a time
    Approvers,
    None,
    Reported,     \* bound: the meetings events are published about
    Requests,     \* bound: the chat turns and ticks there may be
    MaxEvents,    \* bound: publications of intelligence.completed
    MaxDecided,   \* bound: decided cards kept
    MaxExtras     \* bound: chat turns, timer ticks, deaths and redeliveries

ASSUME QueueBounds == MaxEvents \in Nat /\ MaxDecided \in Nat /\ MaxExtras \in Nat
ASSUME RequestsAssumption ==
    Reported \subseteq Meetings /\
    Requests \subseteq [kind : {"chat", "tick"}, sub : {"workload", "report"},
                       mtg : Meetings \cup {None}]
ASSUME NoneIsNobody == None \notin Meetings \cup Approvers
ASSUME NoneIsNoClaim == None \notin [card : Nat, at : {"act", "record"}, ok : BOOLEAN]

VARIABLES
    alive,        \* the meetings not deleted
    events,       \* the tasks published: [mtg, state]
    runs,         \* agent_runs, in the order they committed
    cards,        \* cards[i]: agent_pending_actions of run i, or None
    proc,         \* what each process is doing
    deciding,     \* the card an approver has claimed and is carrying out
    acted,        \* history: how often the action of card i was carried out
    extras        \* how many of those there were

vars == <<alive, events, runs, cards, proc, deciding, acted, extras>>

\* SUBAGENT_NAMES order, of the two kinds there are: one judges the team
\* (proposals_per = "team"), the other one meeting.
Woken == <<"workload", "report">>
Subagents == {"workload", "report"}
TeamWide == {"workload"}
Periodic == {"workload"}
Tools(s) == IF s \in TeamWide THEN {"reassign"} ELSE {"post", "correct"}

Kinds == {"event", "chat", "tick"}
Statuses == {"pending", "approved", "rejected", "superseded", "failed"}
Names == Meetings \cup {None}
\* Nothing to propose, whether the subagent's read succeeded or not.
Silent(s) == [tool : {None}, names : {None}, ok : IF s \in TeamWide THEN BOOLEAN ELSE {TRUE}]
\* A team's judgment names the item's meeting, a report its own unless the run
\* has none.
Proposals(s, m) ==
    Silent(s) \cup [tool : Tools(s), ok : {TRUE},
                 names : IF s \in TeamWide \/ m = None THEN Meetings ELSE {None}]
Idle == [at |-> "idle", kind |-> "chat", task |-> 0, mtg |-> None, todo |-> << >>, saw |-> 0,
         looked |-> 0, left |-> {}, card |-> None, judged |-> FALSE]

-----------------------------------------------------------------------------
Committed == Len(runs)
Sub(p) == Head(proc[p].todo)
Waits(i) == cards[i] # None /\ cards[i].status = "pending"
RunGone(i) == runs[i].mtg # None /\ runs[i].mtg \notin alive
FromChat(i) == ~RunGone(i) /\ runs[i].kind = "chat"
Extra == extras < MaxExtras /\ extras' = extras + 1
Set(p, r) == proc' = [proc EXCEPT ![p] = r]

OnwardPast(p) ==
    [Idle EXCEPT !.at = "check", !.kind = proc[p].kind, !.task = proc[p].task,
                 !.mtg = proc[p].mtg, !.todo = Tail(proc[p].todo)]

\* on_event's loop, after one subagent: the next, or telling the approvers.
Onward(p) ==
    IF Len(proc[p].todo) = 1
    THEN [Idle EXCEPT !.at = "tell", !.kind = proc[p].kind, !.task = proc[p].task]
    ELSE [Idle EXCEPT !.at = "check", !.kind = proc[p].kind, !.task = proc[p].task,
                      !.mtg = proc[p].mtg, !.todo = Tail(proc[p].todo)]

-----------------------------------------------------------------------------
(* The triggers                                                            *)

\* Module E publishes intelligence.completed, again after a late report.
Publish(m) ==
    /\ Len(events) < MaxEvents
    /\ events' = Append(events, [mtg |-> m, state |-> "queued"])
    /\ UNCHANGED <<alive, runs, cards, proc, deciding, acted, extras>>

\* A worker takes the event; a deleted meeting has nothing to run on.
OnEvent(p, t) ==
    /\ proc[p] = Idle
    /\ events[t].state = "queued"
    /\ IF events[t].mtg \in alive
       THEN /\ events' = [events EXCEPT ![t].state = "taken"]
            /\ Set(p, [Idle EXCEPT !.at = "check", !.kind = "event", !.task = t,
                                   !.mtg = events[t].mtg, !.todo = Woken])
       ELSE /\ events' = [events EXCEPT ![t].state = "done"]
            /\ UNCHANGED proc
    /\ UNCHANGED <<alive, runs, cards, deciding, acted, extras>>

Answered(i, t, s) ==
    ~RunGone(i) /\ runs[i].task = t /\ runs[i].sub = s /\ runs[i].outcome = "answered"
AlreadyTried(t, s) ==
    \E i \in DOMAIN runs :
        ~RunGone(i) /\ runs[i].task = t /\ runs[i].sub = s /\ runs[i].outcome = "failed"

AlreadyRan(t, s) == \E i \in DOMAIN runs : Answered(i, t, s)

\* The redelivery guard, by the task id.
CheckRan(p) ==
    /\ proc[p].at = "check"
    /\ Set(p, IF AlreadyRan(proc[p].task, Sub(p)) THEN Onward(p)
              ELSE [proc[p] EXCEPT !.at = "judge", !.saw = Committed])
    /\ UNCHANGED <<alive, events, runs, cards, deciding, acted, extras>>

\* A chat turn about a meeting or the team, or a tick that found s due.
Ask(p, r) ==
    /\ proc[p] = Idle
    /\ Extra
    /\ r.kind = "tick" => r.sub \in Periodic /\ r.mtg = None
    /\ r.mtg \in alive \cup {None}
    /\ Set(p, [Idle EXCEPT !.at = "judge", !.kind = r.kind, !.mtg = r.mtg, !.todo = <<r.sub>>,
                           !.saw = Committed])
    /\ UNCHANGED <<alive, events, runs, cards, deciding, acted>>

-----------------------------------------------------------------------------
(* run_and_record                                                          *)

\* The run's own row cannot be written once its meeting is deleted.
HasMeeting(p) == proc[p].mtg \in alive \cup {None}

Record(p, outcome) ==
    /\ runs' = Append(runs, [task |-> proc[p].task, sub |-> Sub(p), mtg |-> proc[p].mtg,
                             kind |-> proc[p].kind, outcome |-> outcome])
    /\ acted' = Append(acted, 0)

\* The graph raises: the failed run is recorded, the other subagents go on.
RunFails(p) ==
    /\ proc[p].at = "judge" /\ HasMeeting(p)
    /\ Record(p, "failed")
    /\ cards' = Append(cards, None)
    /\ Set(p, Onward(p))
    /\ UNCHANGED <<alive, events, deciding, extras>>

\* Nothing of a run whose meeting was deleted meanwhile is kept.
RunIsLost(p) ==
    /\ proc[p].at = "judge" /\ ~HasMeeting(p)
    /\ Set(p, Onward(p))
    /\ UNCHANGED <<alive, events, runs, cards, deciding, acted, extras>>

CardMeeting(p, prop) ==
    LET own == proc[p].mtg IN
    IF (Sub(p) \in TeamWide /\ prop.names # None) \/ own = None THEN prop.names ELSE own

\* The proposal is queued unless it names a meeting that is gone.
Queues(p, prop) == prop.tool # None /\ CardMeeting(p, prop) \in alive \cup {None}
\* A team-wide run that could read, and has nothing to propose.
Retires(p, prop) == prop.tool = None /\ prop.ok /\ Sub(p) \in TeamWide

WaitingWithRun(p) == {i \in DOMAIN cards : Waits(i) /\ cards[i].sub = Sub(p) /\ ~RunGone(i)}

\* _waiting_before: a card whose run was deleted is older than any run.
WaitingBefore(p) == {i \in DOMAIN cards : Waits(i) /\ cards[i].sub = Sub(p)}

\* A report replaces its meeting's; from chat, the pipeline's only of its kind.
Replaces(p, prop, i) ==
    \/ Sub(p) \in TeamWide
    \/ /\ CardMeeting(p, prop) # None /\ cards[i].mtg = CardMeeting(p, prop)
       /\ proc[p].kind = "chat" => FromChat(i) \/ cards[i].tool = prop.tool

Supersedes(p, prop) ==
    IF Queues(p, prop) THEN {i \in WaitingBefore(p) : Replaces(p, prop, i)}
    ELSE IF Retires(p, prop) THEN WaitingBefore(p) ELSE {}

NewCard(p, prop) ==
    IF ~Queues(p, prop) THEN None
    ELSE [sub |-> Sub(p), mtg |-> CardMeeting(p, prop), tool |-> prop.tool,
          status |-> "pending", by |-> None, result |-> "unset"]

\* The graph runs, and queue_l2 or retire_team_wide after it: their UPDATE sees
\* the cards committed by now.
Judge(p) ==
    /\ proc[p].at = "judge" /\ HasMeeting(p)
    /\ \E prop \in Proposals(Sub(p), proc[p].mtg) :
         Set(p, [proc[p] EXCEPT !.at = "commit", !.looked = Committed,
                                !.left = Supersedes(p, prop), !.card = NewCard(p, prop),
                                !.judged = Queues(p, prop) \/ Retires(p, prop)])
    /\ UNCHANGED <<alive, events, runs, cards, deciding, acted, extras>>

\* A card decided since is no longer pending when the UPDATE reaches it.
Superseded(p) ==
    [i \in DOMAIN cards |-> IF i \in proc[p].left /\ Waits(i)
                            THEN [cards[i] EXCEPT !.status = "superseded"] ELSE cards[i]]

\* The inserted rows hold their meetings until the commit: one deleted since
\* Judge is deleted after it, card and all.
CardNow(p) ==
    IF proc[p].card # None /\ proc[p].card.mtg \in alive \cup {None} THEN proc[p].card ELSE None

\* The run, its card and what the card replaces, in one commit.
Commit(p) ==
    /\ proc[p].at = "commit"
    /\ Record(p, "answered")
    /\ cards' = Append(Superseded(p), CardNow(p))
    /\ Set(p, Onward(p))
    /\ UNCHANGED <<alive, events, deciding, extras>>

\* tell_approvers: how many cards wait, if one of these runs left one waiting.
Tell(p) ==
    /\ proc[p].at = "tell"
    /\ events' = IF proc[p].kind = "event"
                 THEN [events EXCEPT ![proc[p].task].state = "done"] ELSE events
    /\ Set(p, Idle)
    /\ UNCHANGED <<alive, runs, cards, deciding, acted, extras>>

-----------------------------------------------------------------------------
(* approve, reject                                                         *)

MayDecide(u) ==
    /\ deciding[u] = None
    /\ Cardinality({i \in DOMAIN cards : cards[i] # None /\ cards[i].by # None}) < MaxDecided

ClaimUnchecked(u, i, status) ==
    /\ deciding[u] = None
    /\ cards[i] # None /\ cards[i].status \in {"pending", "approved"}
    /\ cards' = [cards EXCEPT ![i].status = status, ![i].by = u]
    /\ deciding' = IF status = "approved"
                   THEN [deciding EXCEPT ![u] = [card |-> i, at |-> "act", ok |-> FALSE]]
                   ELSE deciding
    /\ UNCHANGED <<alive, events, runs, proc, acted, extras>>

\* _claim: a card leaves "pending" once, committed before anything is done.
Claim(u, i, status) ==
    /\ MayDecide(u)
    /\ Waits(i)
    /\ cards' = [cards EXCEPT ![i].status = status, ![i].by = u]
    /\ deciding' = IF status = "approved"
                   THEN [deciding EXCEPT ![u] = [card |-> i, at |-> "act", ok |-> FALSE]]
                   ELSE deciding
    /\ UNCHANGED <<alive, events, runs, proc, acted, extras>>

\* run_action: the module's own commit, or a refusal.
RunAction(u) ==
    /\ deciding[u] # None /\ deciding[u].at = "act"
    /\ LET i == deciding[u].card IN
       \E ok \in BOOLEAN :
         /\ ok => cards[i] # None
         /\ deciding' = [deciding EXCEPT ![u].at = "record", ![u].ok = ok]
         /\ acted' = IF ok THEN [acted EXCEPT ![i] = @ + 1] ELSE acted
    /\ UNCHANGED <<alive, events, runs, cards, proc, extras>>

\* The outcome refines the status; a card deleted meanwhile takes none.
RecordOutcome(u) ==
    /\ deciding[u] # None /\ deciding[u].at = "record"
    /\ LET d == deciding[u] IN
       cards' = IF cards[d.card] = None THEN cards
                ELSE [cards EXCEPT ![d.card].status = IF d.ok THEN "approved" ELSE "failed",
                                   ![d.card].result = IF d.ok THEN "ok" ELSE "not_ok"]
    /\ deciding' = [deciding EXCEPT ![u] = None]
    /\ UNCHANGED <<alive, events, runs, proc, acted, extras>>

-----------------------------------------------------------------------------
(* Deletion and failure                                                    *)

\* The cascade takes the meeting's cards and runs; a card of another meeting
\* keeps waiting with no run.
DeleteMeeting(m) ==
    /\ m \in alive
    /\ alive' = alive \ {m}
    /\ cards' = [i \in DOMAIN cards |-> IF cards[i] # None /\ cards[i].mtg = m
                                        THEN None ELSE cards[i]]
    /\ UNCHANGED <<events, runs, proc, deciding, acted, extras>>

ProcDiesAcked(p) ==
    /\ proc[p] # Idle
    /\ Extra
    /\ Set(p, Idle)
    /\ events' = IF proc[p].kind = "event"
                 THEN [events EXCEPT ![proc[p].task].state = "done"] ELSE events
    /\ UNCHANGED <<alive, runs, cards, deciding, acted>>

\* A worker lost mid-task: an unacknowledged event is delivered again.
ProcDies(p) ==
    /\ proc[p] # Idle
    /\ Extra
    /\ Set(p, Idle)
    /\ events' = IF proc[p].kind = "event"
                 THEN [events EXCEPT ![proc[p].task].state = "queued"] ELSE events
    /\ UNCHANGED <<alive, runs, cards, deciding, acted>>

\* Redis' visibility timeout: an event delivered again while it is worked on.
Redelivered(t) ==
    /\ events[t].state = "taken"
    /\ Extra
    /\ events' = [events EXCEPT ![t].state = "queued"]
    /\ UNCHANGED <<alive, runs, cards, proc, deciding, acted>>

\* An approver's request lost between its claim and its outcome.
ApprovalDies(u) ==
    /\ deciding[u] # None
    /\ Extra
    /\ deciding' = [deciding EXCEPT ![u] = None]
    /\ UNCHANGED <<alive, events, runs, cards, proc, acted>>

-----------------------------------------------------------------------------
Init ==
    /\ alive = Meetings
    /\ events = << >> /\ runs = << >> /\ cards = << >> /\ acted = << >>
    /\ proc = [p \in Procs |-> Idle]
    /\ deciding = [u \in Approvers |-> None]
    /\ extras = 0

Work(p) ==
    \/ \E t \in DOMAIN events : OnEvent(p, t)
    \/ CheckRan(p) \/ Judge(p) \/ RunFails(p) \/ RunIsLost(p) \/ Commit(p) \/ Tell(p)
CarryOut(u) == RunAction(u) \/ RecordOutcome(u)

Next ==
    \/ \E m \in Reported : Publish(m)
    \/ \E m \in Meetings : DeleteMeeting(m)
    \/ \E p \in Procs : Work(p) \/ ProcDies(p)
    \/ \E p \in Procs, r \in Requests : Ask(p, r)
    \/ \E u \in Approvers, i \in DOMAIN cards :
         Claim(u, i, "approved") \/ Claim(u, i, "rejected")
    \/ \E u \in Approvers : CarryOut(u) \/ ApprovalDies(u)
    \/ \E t \in DOMAIN events : Redelivered(t)

Spec == Init /\ [][Next]_vars
\* Workers run and take what waits; a request that is not lost finishes.
FairSpec == Spec /\ (\A p \in Procs : WF_vars(Work(p))) /\ \A u \in Approvers : WF_vars(CarryOut(u))

-----------------------------------------------------------------------------
RunIds == DOMAIN runs
TypeOK ==
    /\ alive \subseteq Meetings
    /\ events \in Seq([mtg : Meetings, state : {"queued", "taken", "done"}])
    /\ runs \in Seq([task : Nat, sub : Subagents, mtg : Names, kind : Kinds,
                     outcome : {"answered", "failed"}])
    /\ Len(cards) = Len(runs) /\ Len(acted) = Len(runs)
    /\ \A i \in RunIds :
         cards[i] = None \/ cards[i] \in [sub : Subagents, mtg : Names,
            tool : UNION {Tools(s) : s \in Subagents}, status : Statuses,
            by : Approvers \cup {None}, result : {"unset", "ok", "not_ok"}]
    /\ acted \in Seq(Nat)
    /\ \A u \in Approvers : deciding[u] = None \/ deciding[u].card \in RunIds
    /\ \A p \in Procs : /\ proc[p].kind \in Kinds /\ proc[p].left \subseteq RunIds
                        /\ proc[p].at \in {"check", "judge", "commit"} => proc[p].todo # << >>
                        /\ proc[p].kind = "event" => proc[p].task \in DOMAIN events

\* An action is carried out at most once, and only for the approver whose claim
\* stands: no second approver, crash, redelivery or newer run repeats it or runs
\* what was rejected or superseded (pending.py: "Execution is at-most-once").
ActedOnce ==
    \A i \in RunIds : /\ acted[i] <= 1
                      /\ acted[i] = 1 /\ cards[i] # None =>
                            cards[i].status = "approved" /\ cards[i].by # None

\* A decision stands: a card that left "pending" keeps its decider and never
\* waits, is approved, rejected or superseded again, by whichever approver, run
\* or late outcome; an approval ends as "failed" only if nothing was carried out,
\* and a deleted card stays deleted (pending._claim, and the outcome's update).
DecisionsStand ==
    [][\A i \in DOMAIN cards :
         /\ cards[i] = None => cards'[i] = None
         /\ cards[i] # None /\ ~Waits(i) /\ cards'[i] # None =>
              /\ cards'[i].by = cards[i].by
              /\ \/ cards'[i].status = cards[i].status
                 \/ cards[i].status = "approved" /\ cards'[i].status = "failed" /\ acted'[i] = 0]_vars

\* A run of p is committed in this step.
Commits(p) == proc[p].at = "commit" /\ proc'[p] # proc[p] /\ Committed < Len(runs')

\* A team-wide run that judged leaves nothing waiting of what it could see, even
\* a card whose run was deleted: one item is not left proposed to two people
\* by runs one after the other (queue_l2, retire_team_wide; #636, #1096).
LaterJudgmentReplaces ==
    [][\A p \in Procs, i \in RunIds :
         Commits(p) /\ proc[p].judged /\ Sub(p) \in TeamWide /\ i <= proc[p].looked
             => ~(Waits(i)' /\ cards'[i].sub = Sub(p))]_vars

\* One task wakes a subagent twice only if the second delivery looked for the
\* first's run before it committed (_already_ran).
RepeatOverlaps ==
    [][\A p \in Procs, i \in RunIds :
         Commits(p) /\ proc[p].kind = "event" /\ Answered(i, proc[p].task, Sub(p))
             => proc[p].saw < i]_vars

\* The card u has approved and is about to carry out.
Hand(u) ==
    IF deciding[u] # None /\ deciding[u].at = "act" THEN {deciding[u].card} ELSE {}

\* The queue keeps the promise of CardDecisions.
Decisions == INSTANCE CardDecisions WITH
    waiting <- {i \in DOMAIN cards : Waits(i)},
    hands <- [u \in Approvers |-> Hand(u)]

ImplementsDecisions == Decisions!Spec

\* An event about a living meeting ends with a run of every subagent it woke,
\* whatever died on the way (acks_late and the per-subagent guard).
WakeupIsRecorded ==
    \A t \in 1..MaxEvents :
        (t \in DOMAIN events) ~>
            \/ t \in DOMAIN events /\ events[t].mtg \notin alive
            \/ \A s \in Subagents : \E i \in RunIds : runs[i].task = t /\ runs[i].sub = s

\* Two runs of a team-wide subagent never leave two cards waiting (#636).
OneJudgmentWaiting ==
    \A i, j \in RunIds :
        Waits(i) /\ Waits(j) /\ cards[i].sub = cards[j].sub /\ cards[i].sub \in TeamWide => i = j
=============================================================================
