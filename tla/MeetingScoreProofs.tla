-------------------------- MODULE MeetingScoreProofs --------------------------
(***************************************************************************)
(* What MeetingScore promises for any sources, workers, reports and        *)
(* faults: a score is never left behind the payloads, and a meeting that   *)
(* is to be scored has a task that will.                                   *)
(***************************************************************************)
EXTENDS MeetingScore, TLAPS

\* What a worker at each place has in hand.
InHand(w) ==
    /\ pc[w] # "idle" => task[w] \in Messages
    /\ pc[w] \in {"recorded", "late", "reopened"} => Kind(w) \in Sources
    /\ pc[w] = "recorded" => note[w] \in Reading
    /\ pc[w] = "publish" => Kind(w) \in Aggregations
    /\ pc[w] = "announced" => Kind(w) \in {"aggregate", "countdown"}

TypeInv == TypeOK /\ \A w \in Workers : InHand(w)

LEMMA MessageShape ==
    /\ \A m \in Messages : m = <<m[1], m[2]>> /\ m[1] \in Sources \cup Jobs
    /\ \A m \in Messages : m[1] \in Sources => m[2] \in Reports
    /\ \A j \in Jobs : <<j, 0>> \in Messages
    /\ Aggregations \subseteq Jobs /\ "feedback" \in Jobs
    /\ \A s \in Sources : s \notin Jobs
BY SourcesAssumption, ScoreBounds DEF Messages, Jobs, Aggregations, Reports

LEMMA TypeInit == Init => TypeInv
<1> SUFFICES ASSUME Init PROVE TypeInv OBVIOUS
<1>1. 0 \in Reports /\ 0 \in 0..MaxFaults /\ ~(0 > 0)
  BY ScoreBounds DEF Reports
<1> QED BY <1>1 DEF Init, TypeInv, TypeOK, InHand, PCs, Unscored

LEMMA TaskEnds ==
    ASSUME TypeInv, NEW w \in Workers, Ack(w)
    PROVE  /\ pc' \in [Workers -> PCs]
           /\ task' \in [Workers -> Messages \cup {None}]
           /\ note' \in [Workers -> Reading \cup {None}]
           /\ \A v \in Workers : InHand(v)'
BY DEF TypeInv, TypeOK, Ack, InHand, Kind, PCs

LEMMA MessagePut ==
    ASSUME TypeInv, NEW m \in Messages, Put(m)
    PROVE  /\ queue' \in [Messages -> Nat] /\ queue'[m] > 0
           /\ \A k \in Messages : queue[k] > 0 => queue'[k] > 0
           /\ \A k \in Messages : queue'[k] > 0 => queue[k] > 0 \/ k = m
BY DEF TypeInv, TypeOK, Put

LEMMA TypeStep == TypeInv /\ [Next]_vars => TypeInv'
<1> SUFFICES ASSUME TypeInv, [Next]_vars PROVE TypeInv'
  OBVIOUS
<1> USE MessageShape, TaskEnds, MessagePut DEF row, procs, TypeInv, TypeOK
<1>1. ASSUME NEW w \in Workers, Take(w) PROVE TypeInv'
  <2>1. queue' \in [Messages -> Nat] /\ task' \in [Workers -> Messages \cup {None}]
    BY <1>1 DEF Take
  <2>2. \A v \in Workers : InHand(v)'
    BY <1>1 DEF Take, InHand, Kind
  <2> QED BY <1>1, <2>1, <2>2 DEF Take, PCs
<1>2. ASSUME NEW w \in Workers, Record(w) PROVE TypeInv'
  <2>1. reported' \subseteq Sources /\ payload' \in [Sources -> Reports]
    BY <1>2 DEF Record, InHand, Kind
  <2>2. /\ pc' \in [Workers -> PCs] /\ note' \in [Workers -> Reading \cup {None}]
        /\ pc'[w] \in {"recorded", "late"} /\ note'[w] \in Reading
    BY <1>2 DEF Record, Reading, PCs
  <2>3. \A v \in Workers : InHand(v)'
    BY <1>2, <2>2 DEF Record, InHand, Kind
  <2>4. \A s \in Sources : s \in reported' <=> payload'[s] > 0
    <3>1. task[w] \in Messages /\ Kind(w) \in Sources
      BY <1>2 DEF Record, InHand
    <3>2. task[w][2] > 0
      BY <3>1, SourcesAssumption, ScoreBounds DEF Messages, Kind
    <3> QED BY <1>2, <3>1, <3>2 DEF Record
  <2> QED BY <1>2, <2>1, <2>2, <2>3, <2>4 DEF Record
<1>3. ASSUME NEW w \in Workers, Reopen(w) PROVE TypeInv'
  BY <1>3 DEF Reopen, Goto, InHand, Kind, PCs
<1>4. ASSUME NEW w \in Workers, AggregateAgain(w) PROVE TypeInv'
  BY <1>4 DEF AggregateAgain, Jobs
<1>5. ASSUME NEW w \in Workers, ArmCountdown(w) PROVE TypeInv'
  <2>1. note' \in [Workers -> Reading \cup {None}] /\ note'[w] \in Reading
    BY <1>5 DEF ArmCountdown, InHand, Reading
  <2>2. \A v \in Workers : InHand(v)'
    BY <1>5, <2>1 DEF ArmCountdown, InHand, Kind
  <2> QED BY <1>5, <2>1, <2>2 DEF ArmCountdown, Jobs
<1>6. ASSUME NEW w \in Workers, AggregateNow(w) PROVE TypeInv'
  BY <1>6 DEF AggregateNow, Jobs
<1>7. ASSUME NEW w \in Workers, Aggregate(w) PROVE TypeInv'
  BY <1>7 DEF Aggregate, Goto, InHand, Kind, PCs
<1>8. ASSUME NEW w \in Workers, AggregateSkipped(w) PROVE TypeInv'
  BY <1>8 DEF AggregateSkipped
<1>9. ASSUME NEW w \in Workers, Publish(w) PROVE TypeInv'
  <2>1. CASE Kind(w) = "requiet"
    BY <1>9, <2>1 DEF Publish
  <2>2. CASE Kind(w) # "requiet"
    BY <1>9, <2>2 DEF Publish, Goto, InHand, Kind, PCs, Aggregations
  <2> QED BY <2>1, <2>2
<1>10. ASSUME NEW w \in Workers, AskFeedback(w) PROVE TypeInv'
  BY <1>10 DEF AskFeedback
<1>11. ASSUME NEW w \in Workers, SendPersonalFeedback(w) PROVE TypeInv'
  BY <1>11 DEF SendPersonalFeedback
<1>12. ASSUME NEW w \in Workers, WorkerDies(w) PROVE TypeInv'
  BY <1>12, ScoreBounds DEF WorkerDies, Fault, InHand
<1>13. ASSUME NEW w \in Workers, TaskRaises(w) PROVE TypeInv'
  BY <1>13, ScoreBounds DEF TaskRaises, Fault
<1>14. ASSUME NEW w \in Workers, Redelivered(w) PROVE TypeInv'
  BY <1>14, ScoreBounds DEF Redelivered, Fault, InHand, Kind
<1>15. ASSUME NEW s \in Sources, Report(s) PROVE TypeInv'
  <2>1. issued' \in Reports /\ <<s, issued + 1>> \in Messages
    BY <1>15, ScoreBounds DEF Report, Reports, Messages
  <2> QED BY <1>15, <2>1 DEF Report, InHand, Kind
<1>16. CASE TimeoutElapses
  BY <1>16 DEF TimeoutElapses, InHand, Kind
<1>17. CASE UNCHANGED vars
  BY <1>17 DEF vars, InHand, Kind
<1> QED
  BY <1>1, <1>2, <1>3, <1>4, <1>5, <1>6, <1>7, <1>8, <1>9, <1>10, <1>11, <1>12, <1>13, <1>14, <1>15,
     <1>16, <1>17 DEF Next, Step

-----------------------------------------------------------------------------
(* StaleScoreIsCovered.  Record reads, in the transaction that replaces a  *)
(* payload, whether the score was made; if so, its worker reopens it.      *)

WillReopen ==
    \/ \E m \in Messages : m[1] \in Sources /\ queue[m] > 0
    \/ \E w \in Workers : (pc[w] = "start" /\ Kind(w) \in Sources) \/ pc[w] = "late"

StaleInv == aggregated /\ score # payload /\ ~raised => WillReopen

\* A step of worker w that replaces no payload and no score.
LEMMA ReopenKept ==
    ASSUME TypeInv, StaleInv, NEW w \in Workers,
           UNCHANGED <<payload, score>>, aggregated' => aggregated, raised => raised',
           \A m \in Messages : queue[m] > 0 => queue'[m] > 0,
           \A v \in Workers \ {w} : pc'[v] = pc[v] /\ task'[v] = task[v],
           (pc[w] = "start" /\ Kind(w) \in Sources) \/ pc[w] = "late" =>
             ~aggregated' \/ raised' \/ WillReopen'
    PROVE  StaleInv'
BY DEF StaleInv, WillReopen, Kind

LEMMA StaleStep == TypeInv /\ StaleInv /\ [Next]_vars => StaleInv'
<1> SUFFICES ASSUME TypeInv, StaleInv, [Next]_vars PROVE StaleInv'
  OBVIOUS
<1> USE MessageShape DEF row, procs
<1>1. ASSUME NEW w \in Workers, Take(w) PROVE StaleInv'
  <2>1. PICK m \in Messages : /\ queue[m] > 0 /\ task' = [task EXCEPT ![w] = m]
                              /\ queue' = [queue EXCEPT ![m] = @ - 1]
    BY <1>1 DEF Take
  <2>2. ASSUME NEW k \in Messages, k[1] \in Sources, queue[k] > 0 PROVE WillReopen'
    <3>1. CASE k = m
      BY <1>1, <2>1, <2>2, <3>1 DEF Take, WillReopen, Kind, TypeInv, TypeOK
    <3>2. CASE k # m
      BY <2>1, <2>2, <3>2 DEF WillReopen, TypeInv, TypeOK
    <3> QED BY <3>1, <3>2
  <2>3. ASSUME NEW v \in Workers, (pc[v] = "start" /\ Kind(v) \in Sources) \/ pc[v] = "late"
        PROVE  WillReopen'
    BY <1>1, <2>1, <2>3 DEF Take, WillReopen, Kind, TypeInv, TypeOK
  <2> QED BY <1>1, <2>2, <2>3 DEF Take, StaleInv, WillReopen
<1>2. ASSUME NEW w \in Workers, Record(w) PROVE StaleInv'
  <2>1. aggregated' => pc'[w] = "late"
    BY <1>2 DEF Record, TypeInv, TypeOK
  <2> QED BY <2>1 DEF StaleInv, WillReopen
<1>3. ASSUME NEW w \in Workers, Reopen(w) PROVE StaleInv'
  BY <1>3 DEF Reopen, StaleInv
<1>4. ASSUME NEW w \in Workers, AggregateAgain(w) PROVE StaleInv'
  BY <1>4, MessagePut, ReopenKept DEF AggregateAgain, Ack, Jobs, TypeInv, TypeOK
<1>5. ASSUME NEW w \in Workers, ArmCountdown(w) PROVE StaleInv'
  BY <1>5, MessagePut, ReopenKept DEF ArmCountdown, Jobs, TypeInv, TypeOK
<1>6. ASSUME NEW w \in Workers, AggregateNow(w) PROVE StaleInv'
  BY <1>6, MessagePut, ReopenKept DEF AggregateNow, Ack, Jobs, TypeInv, TypeOK
<1>7. ASSUME NEW w \in Workers, Aggregate(w) PROVE StaleInv'
  BY <1>7 DEF Aggregate, StaleInv
<1>8. ASSUME NEW w \in Workers, AggregateSkipped(w) PROVE StaleInv'
  BY <1>8, ReopenKept DEF AggregateSkipped, Ack, TypeInv, TypeOK
<1>9. ASSUME NEW w \in Workers, Publish(w) PROVE StaleInv'
  BY <1>9, ReopenKept DEF Publish, Goto, Ack, TypeInv, TypeOK
<1>10. ASSUME NEW w \in Workers, AskFeedback(w) PROVE StaleInv'
  BY <1>10, MessagePut, ReopenKept DEF AskFeedback, Ack, TypeInv, TypeOK
<1>11. ASSUME NEW w \in Workers, SendPersonalFeedback(w) PROVE StaleInv'
  BY <1>11, ReopenKept DEF SendPersonalFeedback, Ack, TypeInv, TypeOK
<1>12. ASSUME NEW w \in Workers, WorkerDies(w) PROVE StaleInv'
  <2>1. task[w] \in Messages
    BY <1>12 DEF WorkerDies, InHand, TypeInv
  <2>2. queue'[task[w]] > 0 /\ \A m \in Messages : queue[m] > 0 => queue'[m] > 0
    BY <1>12, <2>1, MessagePut DEF WorkerDies
  <2>3. (pc[w] = "start" /\ Kind(w) \in Sources) \/ pc[w] = "late" => WillReopen'
    BY <2>1, <2>2 DEF WillReopen, Kind, InHand, TypeInv
  <2> QED BY <1>12, <2>2, <2>3, ReopenKept DEF WorkerDies, Ack, TypeInv, TypeOK
<1>13. ASSUME NEW w \in Workers, TaskRaises(w) PROVE StaleInv'
  BY <1>13 DEF TaskRaises, StaleInv
<1>14. ASSUME NEW w \in Workers, Redelivered(w) PROVE StaleInv'
  <2>1. task[w] \in Messages
    BY <1>14 DEF Redelivered, InHand, TypeInv
  <2>2. \A m \in Messages : queue[m] > 0 => queue'[m] > 0
    BY <1>14, <2>1, MessagePut DEF Redelivered
  <2> QED BY <1>14, <2>2 DEF Redelivered, StaleInv, WillReopen, Kind
<1>15. ASSUME NEW s \in Sources, Report(s) PROVE StaleInv'
  <2>1. <<s, issued + 1>> \in Messages
    BY <1>15, ScoreBounds DEF Report, Reports, Messages, TypeInv, TypeOK
  <2>2. \A m \in Messages : queue[m] > 0 => queue'[m] > 0
    BY <1>15, <2>1, MessagePut DEF Report
  <2> QED BY <1>15, <2>2 DEF Report, StaleInv, WillReopen, Kind
<1>16. CASE TimeoutElapses
  BY <1>16 DEF TimeoutElapses, StaleInv, WillReopen, Kind
<1>17. CASE UNCHANGED vars
  BY <1>17 DEF vars, StaleInv, WillReopen, Kind
<1> QED
  BY <1>1, <1>2, <1>3, <1>4, <1>5, <1>6, <1>7, <1>8, <1>9, <1>10, <1>11, <1>12, <1>13, <1>14, <1>15,
     <1>16, <1>17 DEF Next, Step

-----------------------------------------------------------------------------
(* UnscoredIsCovered.  Nothing is scored before every source is in or the  *)
(* timeout has passed, so whoever records a report after that finds the    *)
(* meeting ready, and asks for the score itself.                           *)

Ready == AllIn \/ elapsed

ReadyBehind ==
    /\ \A m \in Messages : queue[m] > 0 /\ m[1] \in {"aggregate", "requiet"} => Ready
    /\ \A w \in Workers :
         /\ pc[w] # "idle" /\ Kind(w) \in Aggregations => Ready
         /\ pc[w] = "recorded" /\ note[w].ready => Ready
         /\ pc[w] \in {"late", "reopened"} => Ready
    /\ aggregated \/ score # Unscored => Ready /\ reported # {}

Scoring(w) ==
    \/ pc[w] = "start" /\ Kind(w) \in Sources \cup Aggregations
    \/ pc[w] = "recorded" /\ note[w].ready
    \/ pc[w] = "reopened"
WillScore ==
    \/ \E m \in Messages : m[1] \in Sources \cup Aggregations /\ queue[m] > 0
    \/ \E w \in Workers : Scoring(w)

UnscoredInv ==
    /\ ReadyBehind
    /\ (AllIn \/ score # Unscored) /\ ~aggregated /\ ~raised => WillScore

LEMMA UnscoredInit == Init => UnscoredInv
BY SourcesAssumption DEF Init, UnscoredInv, ReadyBehind, AllIn

LEMMA UnscoredImplies == UnscoredInv => UnscoredIsCovered
BY DEF UnscoredInv, UnscoredIsCovered, WillScore, Scoring, Coming

\* A step of worker w that leaves the row alone.
LEMMA ScoringKept ==
    ASSUME TypeInv, UnscoredInv, NEW w \in Workers,
           UNCHANGED <<reported, elapsed, aggregated, score>>, raised => raised',
           \A m \in Messages : queue[m] > 0 => queue'[m] > 0,
           \A m \in Messages : queue'[m] > 0 /\ m[1] \in {"aggregate", "requiet"} => queue[m] > 0 \/ Ready,
           \A v \in Workers \ {w} : pc'[v] = pc[v] /\ task'[v] = task[v] /\ note'[v] = note[v],
           pc'[w] # "idle" => pc[w] # "idle" /\ task'[w] = task[w],
           pc'[w] = "recorded" => pc[w] = "recorded" /\ note'[w].ready = note[w].ready,
           pc'[w] \notin {"late", "reopened"},
           Scoring(w) /\ (AllIn \/ score # Unscored) /\ ~aggregated /\ ~raised' => WillScore'
    PROVE  UnscoredInv'
<1>1. ReadyBehind'
  BY DEF UnscoredInv, ReadyBehind, Ready, AllIn, Kind
<1>2. ASSUME NEW v \in Workers, v # w, Scoring(v) PROVE WillScore'
  BY <1>2 DEF Scoring, WillScore, Kind
<1>3. ASSUME NEW m \in Messages, m[1] \in Sources \cup Aggregations, queue[m] > 0 PROVE WillScore'
  BY <1>3 DEF WillScore
<1> QED BY <1>1, <1>2, <1>3 DEF UnscoredInv, WillScore, AllIn

LEMMA UnscoredStep == TypeInv /\ UnscoredInv /\ [Next]_vars => UnscoredInv'
<1> SUFFICES ASSUME TypeInv, UnscoredInv, [Next]_vars PROVE UnscoredInv'
  OBVIOUS
<1> USE MessageShape DEF row, procs
<1>1. ASSUME NEW w \in Workers, Take(w) PROVE UnscoredInv'
  <2>1. PICK m \in Messages : /\ queue[m] > 0 /\ Ripe(m) /\ task' = [task EXCEPT ![w] = m]
                              /\ queue' = [queue EXCEPT ![m] = @ - 1]
    BY <1>1 DEF Take
  <2>2. \A k \in Messages : queue'[k] > 0 => queue[k] > 0
    BY <2>1 DEF TypeInv, TypeOK
  <2>3. ReadyBehind'
    BY <1>1, <2>1, <2>2 DEF Take, Ripe, Aggregations, UnscoredInv, ReadyBehind, Ready, AllIn, Kind, TypeInv, TypeOK
  <2>4. ASSUME NEW k \in Messages, k[1] \in Sources \cup Aggregations, queue[k] > 0 PROVE WillScore'
    <3>1. CASE k = m
      BY <1>1, <2>1, <2>4, <3>1 DEF Take, WillScore, Scoring, Kind, TypeInv, TypeOK
    <3>2. CASE k # m
      BY <2>1, <2>4, <3>2 DEF WillScore, TypeInv, TypeOK
    <3> QED BY <3>1, <3>2
  <2>5. ASSUME NEW v \in Workers, Scoring(v) PROVE WillScore'
    BY <1>1, <2>1, <2>5 DEF Take, WillScore, Scoring, Kind, TypeInv, TypeOK
  <2> QED BY <1>1, <2>3, <2>4, <2>5 DEF Take, UnscoredInv, WillScore, AllIn
<1>2. ASSUME NEW w \in Workers, Record(w) PROVE UnscoredInv'
  <2>1. Kind(w) \in Sources /\ reported \subseteq reported' /\ reported' \subseteq Sources
    BY <1>2 DEF Record, TypeInv, TypeOK
  <2>2. Ready => Ready'
    BY <1>2, <2>1 DEF Record, Ready, AllIn
  <2>3. /\ pc'[w] = (IF aggregated THEN "late" ELSE "recorded") /\ task' = task
        /\ (note'[w].ready <=> Ready')
        /\ \A v \in Workers \ {w} : pc'[v] = pc[v] /\ note'[v] = note[v]
        /\ UNCHANGED <<aggregated, score, queue, raised>>
    BY <1>2 DEF Record, Ready, AllIn, TypeInv, TypeOK
  <2>4. ReadyBehind'
    BY <2>1, <2>2, <2>3 DEF UnscoredInv, ReadyBehind, Kind
  <2>5. (AllIn' \/ score' # Unscored) /\ ~aggregated' => Scoring(w)'
    BY <2>2, <2>3 DEF UnscoredInv, ReadyBehind, Scoring, Ready
  <2> QED BY <2>4, <2>5 DEF UnscoredInv, WillScore
<1>3. ASSUME NEW w \in Workers, Reopen(w) PROVE UnscoredInv'
  <2>1. /\ pc'[w] = "reopened" /\ task' = task /\ pc[w] = "late"
        /\ \A v \in Workers \ {w} : pc'[v] = pc[v] /\ note'[v] = note[v]
        /\ UNCHANGED <<reported, elapsed, score, queue>> /\ ~aggregated'
    BY <1>3 DEF Reopen, Goto, TypeInv, TypeOK
  <2>2. ReadyBehind'
    BY <2>1 DEF UnscoredInv, ReadyBehind, Ready, AllIn, Kind
  <2> QED BY <2>1, <2>2 DEF UnscoredInv, WillScore, Scoring
<1>4. ASSUME NEW w \in Workers, AggregateAgain(w) PROVE UnscoredInv'
  <2>1. Put(<<"requiet", 0>>) /\ <<"requiet", 0>> \in Messages /\ Ready
    BY <1>4 DEF AggregateAgain, Jobs, UnscoredInv, ReadyBehind
  <2>2. WillScore'
    BY <2>1, MessagePut DEF WillScore, Aggregations
  <2> QED BY <1>4, <2>1, <2>2, MessagePut, ScoringKept DEF AggregateAgain, Ack, TypeInv, TypeOK
<1>5. ASSUME NEW w \in Workers, ArmCountdown(w) PROVE UnscoredInv'
  <2>1. Put(<<"countdown", 0>>) /\ <<"countdown", 0>> \in Messages
    BY <1>5 DEF ArmCountdown, Jobs
  <2>2. WillScore'
    BY <2>1, MessagePut DEF WillScore, Aggregations
  <2>3. note'[w].ready = note[w].ready
    BY <1>5 DEF ArmCountdown, InHand, Reading, TypeInv, TypeOK
  <2>4. /\ \A m \in Messages : queue[m] > 0 => queue'[m] > 0
        /\ \A m \in Messages : queue'[m] > 0 /\ m[1] \in {"aggregate", "requiet"} => queue[m] > 0
    BY <2>1 DEF Put, TypeInv, TypeOK
  <2> QED BY <1>5, <2>2, <2>3, <2>4, ScoringKept DEF ArmCountdown, TypeInv, TypeOK
<1>6. ASSUME NEW w \in Workers, AggregateNow(w) PROVE UnscoredInv'
  <2>1. CASE note[w].ready
    <3>1. Put(<<"aggregate", 0>>) /\ <<"aggregate", 0>> \in Messages /\ Ready
      BY <1>6, <2>1 DEF AggregateNow, Jobs, UnscoredInv, ReadyBehind
    <3>2. WillScore'
      BY <3>1, MessagePut DEF WillScore, Aggregations
    <3> QED BY <1>6, <3>1, <3>2, MessagePut, ScoringKept DEF AggregateNow, Ack, TypeInv, TypeOK
  <2>2. CASE ~note[w].ready
    BY <1>6, <2>2, ScoringKept DEF AggregateNow, Ack, Scoring, TypeInv, TypeOK
  <2> QED BY <2>1, <2>2
<1>7. ASSUME NEW w \in Workers, Aggregate(w) PROVE UnscoredInv'
  <2>1. /\ pc'[w] = "publish" /\ task' = task /\ pc[w] = "start" /\ Ready /\ reported # {}
        /\ \A v \in Workers \ {w} : pc'[v] = pc[v] /\ note'[v] = note[v]
        /\ UNCHANGED <<reported, elapsed, queue>> /\ aggregated'
    BY <1>7 DEF Aggregate, Due, Goto, UnscoredInv, ReadyBehind, TypeInv, TypeOK
  <2>2. ReadyBehind'
    BY <2>1 DEF UnscoredInv, ReadyBehind, Ready, AllIn, Kind
  <2> QED BY <2>1, <2>2 DEF UnscoredInv
<1>8. ASSUME NEW w \in Workers, AggregateSkipped(w) PROVE UnscoredInv'
  <2>1. aggregated \/ ~(AllIn \/ score # Unscored)
    BY <1>8, SourcesAssumption DEF AggregateSkipped, Due, AllIn, UnscoredInv, ReadyBehind
  <2> QED BY <1>8, <2>1, ScoringKept DEF AggregateSkipped, Ack, TypeInv, TypeOK
<1>9. ASSUME NEW w \in Workers, Publish(w) PROVE UnscoredInv'
  BY <1>9, ScoringKept DEF Publish, Goto, Ack, Scoring, TypeInv, TypeOK
<1>10. ASSUME NEW w \in Workers, AskFeedback(w) PROVE UnscoredInv'
  <2>1. Put(<<"feedback", 0>>) /\ <<"feedback", 0>> \in Messages
    BY <1>10 DEF AskFeedback
  <2>2. /\ \A m \in Messages : queue[m] > 0 => queue'[m] > 0
        /\ \A m \in Messages : queue'[m] > 0 /\ m[1] \in {"aggregate", "requiet"} => queue[m] > 0
    BY <2>1 DEF Put, TypeInv, TypeOK
  <2> QED BY <1>10, <2>2, ScoringKept DEF AskFeedback, Ack, Scoring, TypeInv, TypeOK
<1>11. ASSUME NEW w \in Workers, SendPersonalFeedback(w) PROVE UnscoredInv'
  BY <1>11, ScoringKept DEF SendPersonalFeedback, Ack, Scoring, Jobs, Aggregations, TypeInv, TypeOK
<1>12. ASSUME NEW w \in Workers, WorkerDies(w) PROVE UnscoredInv'
  <2>1. task[w] \in Messages
    BY <1>12 DEF WorkerDies, InHand, TypeInv
  <2>2. /\ queue'[task[w]] > 0 /\ \A m \in Messages : queue[m] > 0 => queue'[m] > 0
        /\ \A m \in Messages : queue'[m] > 0 => queue[m] > 0 \/ m = task[w]
    BY <1>12, <2>1 DEF WorkerDies, Put, TypeInv, TypeOK
  <2>3. \A m \in Messages : queue'[m] > 0 /\ m[1] \in {"aggregate", "requiet"} => queue[m] > 0 \/ Ready
    BY <1>12, <2>2 DEF WorkerDies, UnscoredInv, ReadyBehind, Kind, Aggregations
  <2>4. Scoring(w) => WillScore'
    BY <2>1, <2>2 DEF Scoring, WillScore, Kind, InHand, TypeInv
  <2> QED BY <1>12, <2>2, <2>3, <2>4, ScoringKept DEF WorkerDies, Ack, TypeInv, TypeOK
<1>13. ASSUME NEW w \in Workers, TaskRaises(w) PROVE UnscoredInv'
  BY <1>13, ScoringKept DEF TaskRaises, Ack, TypeInv, TypeOK
<1>14. ASSUME NEW w \in Workers, Redelivered(w) PROVE UnscoredInv'
  <2>1. task[w] \in Messages
    BY <1>14 DEF Redelivered, InHand, TypeInv
  <2>2. /\ \A m \in Messages : queue[m] > 0 => queue'[m] > 0
        /\ \A m \in Messages : queue'[m] > 0 => queue[m] > 0 \/ m = task[w]
    BY <1>14, <2>1 DEF Redelivered, Put, TypeInv, TypeOK
  <2>3. ReadyBehind'
    BY <1>14, <2>2 DEF Redelivered, UnscoredInv, ReadyBehind, Ready, AllIn, Kind, Aggregations
  <2> QED BY <1>14, <2>2, <2>3 DEF Redelivered, UnscoredInv, WillScore, Scoring, AllIn, Kind
<1>15. ASSUME NEW s \in Sources, Report(s) PROVE UnscoredInv'
  <2>1. <<s, issued + 1>> \in Messages
    BY <1>15, ScoreBounds DEF Report, Reports, Messages, TypeInv, TypeOK
  <2>2. /\ \A m \in Messages : queue[m] > 0 => queue'[m] > 0
        /\ \A m \in Messages : queue'[m] > 0 /\ m[1] \in {"aggregate", "requiet"} => queue[m] > 0
    BY <1>15, <2>1 DEF Report, Put, Jobs, TypeInv, TypeOK
  <2>3. ReadyBehind'
    BY <1>15, <2>2 DEF Report, UnscoredInv, ReadyBehind, Ready, AllIn, Kind
  <2> QED BY <1>15, <2>2, <2>3 DEF Report, UnscoredInv, WillScore, Scoring, AllIn, Kind
<1>16. CASE TimeoutElapses
  <2>1. ReadyBehind'
    BY <1>16 DEF TimeoutElapses, UnscoredInv, ReadyBehind, Ready, AllIn, Kind
  <2> QED BY <1>16, <2>1 DEF TimeoutElapses, UnscoredInv, WillScore, Scoring, AllIn, Kind
<1>17. CASE UNCHANGED vars
  BY <1>17 DEF vars, UnscoredInv, ReadyBehind, Ready, WillScore, Scoring, AllIn, Kind
<1> QED
  BY <1>1, <1>2, <1>3, <1>4, <1>5, <1>6, <1>7, <1>8, <1>9, <1>10, <1>11, <1>12, <1>13, <1>14, <1>15,
     <1>16, <1>17 DEF Next, Step

-----------------------------------------------------------------------------
(* FeedbackFollowsScore, ScoreKeepsItsSources.  A report that came in has  *)
(* its payload, and no step takes one away.                                *)

ArrivedInv ==
    /\ \A s \in Sources : s \in reported => payload[s] > 0
    /\ \A s \in Sources : score[s] > 0 => payload[s] > 0

LEMMA ArrivedStep ==
    ASSUME TypeInv, ArrivedInv, [Next]_vars
    PROVE  ArrivedInv' /\ \A s \in Sources : score[s] > 0 => score'[s] > 0
<1>0. /\ payload \in [Sources -> Reports] /\ score \in [Sources -> Reports]
      /\ \A s \in Sources : payload[s] \in Nat /\ score[s] \in Nat
  BY ScoreBounds DEF TypeInv, TypeOK, Reports
<1>1. ASSUME NEW w \in Workers, Record(w)
      PROVE  ArrivedInv' /\ \A s \in Sources : score[s] > 0 => score'[s] > 0
  <2>1. task[w] \in Messages /\ Kind(w) \in Sources
    BY <1>1 DEF Record, TypeInv, InHand
  <2>2. task[w][2] \in 1..MaxReports
    BY <2>1, SourcesAssumption DEF Messages, Kind
  <2> QED BY <1>0, <1>1, <2>1, <2>2, ScoreBounds DEF Record, ArrivedInv
<1>2. ASSUME NEW w \in Workers, Aggregate(w)
      PROVE  ArrivedInv' /\ \A s \in Sources : score[s] > 0 => score'[s] > 0
  BY <1>2 DEF Aggregate, ArrivedInv
<1>3. ASSUME UNCHANGED <<reported, payload, score>>
      PROVE  ArrivedInv' /\ \A s \in Sources : score[s] > 0 => score'[s] > 0
  BY <1>3 DEF ArrivedInv
<1> QED
  BY <1>1, <1>2, <1>3
     DEF Next, Step, vars, row, Take, Reopen, AggregateAgain, ArmCountdown, AggregateNow,
         AggregateSkipped, Publish, AskFeedback, SendPersonalFeedback, WorkerDies, TaskRaises,
         Redelivered, Report, TimeoutElapses

Scored == score # Unscored

FeedbackInv ==
    /\ \A m \in Messages : m[1] = "feedback" /\ queue[m] > 0 => Scored
    /\ \A w \in Workers :
         /\ pc[w] # "idle" /\ Kind(w) = "feedback" => Scored
         /\ pc[w] \in {"publish", "announced"} => Scored
    /\ directs > 0 => Scored

LEMMA ScoredStays ==
    ASSUME TypeInv, ArrivedInv, [Next]_vars, Scored
    PROVE  Scored'
<1>1. PICK s \in Sources : score[s] > 0
  <2>1. score \in [Sources -> Reports] /\ \A s \in Sources : score[s] \in Nat
    BY ScoreBounds DEF TypeInv, TypeOK, Reports
  <2> QED BY <2>1 DEF Scored, Unscored
<1> QED BY <1>1, ArrivedStep DEF Scored, Unscored

\* A step of worker w that asks for no feedback.
LEMMA FeedbackKept ==
    ASSUME TypeInv, FeedbackInv, Scored => Scored', NEW w \in Workers,
           \A m \in Messages : m[1] = "feedback" /\ queue'[m] > 0 => queue[m] > 0 \/ Scored,
           \A v \in Workers \ {w} : pc'[v] = pc[v] /\ task'[v] = task[v],
           pc'[w] # "idle" => pc[w] # "idle" /\ task'[w] = task[w],
           pc'[w] \in {"publish", "announced"} => pc[w] \in {"publish", "announced"} \/ Scored',
           directs' > 0 => directs > 0 \/ Scored
    PROVE  FeedbackInv'
BY DEF FeedbackInv, Kind

LEMMA FeedbackStep == TypeInv /\ ArrivedInv /\ FeedbackInv /\ [Next]_vars => FeedbackInv'
<1> SUFFICES ASSUME TypeInv, ArrivedInv, FeedbackInv, [Next]_vars PROVE FeedbackInv'
  OBVIOUS
<1>0. Scored => Scored'
  BY ScoredStays
<1> USE MessageShape, <1>0, FeedbackKept DEF row, procs
<1>1. ASSUME NEW w \in Workers, Take(w) PROVE FeedbackInv'
  <2>1. PICK m \in Messages : /\ queue[m] > 0 /\ task' = [task EXCEPT ![w] = m]
                              /\ queue' = [queue EXCEPT ![m] = @ - 1]
    BY <1>1 DEF Take
  <2>2. \A k \in Messages : queue'[k] > 0 => queue[k] > 0
    BY <2>1 DEF TypeInv, TypeOK
  <2> QED BY <1>1, <2>1, <2>2 DEF Take, FeedbackInv, Kind, TypeInv, TypeOK
<1>2. ASSUME NEW w \in Workers, Record(w) PROVE FeedbackInv'
  BY <1>2 DEF Record, TypeInv, TypeOK
<1>3. ASSUME NEW w \in Workers, Reopen(w) PROVE FeedbackInv'
  BY <1>3 DEF Reopen, Goto, TypeInv, TypeOK
<1>4. ASSUME NEW w \in Workers, NEW j \in Jobs \ {"feedback"}, Put(<<j, 0>>), Ack(w), directs' = directs
      PROVE  FeedbackInv'
  BY <1>4, MessagePut DEF Ack, TypeInv, TypeOK
<1>5. ASSUME NEW w \in Workers, ArmCountdown(w) PROVE FeedbackInv'
  <2>1. Put(<<"countdown", 0>>) /\ <<"countdown", 0>> \in Messages
    BY <1>5 DEF ArmCountdown, Jobs
  <2> QED BY <1>5, <2>1, MessagePut DEF ArmCountdown, TypeInv, TypeOK
<1>6. ASSUME NEW w \in Workers, AggregateAgain(w) \/ AggregateNow(w) PROVE FeedbackInv'
  <2>1. ASSUME Ack(w), UNCHANGED <<queue, directs>> PROVE FeedbackInv'
    BY <2>1 DEF Ack, TypeInv, TypeOK
  <2> QED BY <1>4, <1>6, <2>1 DEF AggregateAgain, AggregateNow, Jobs
<1>7. ASSUME NEW w \in Workers, Aggregate(w) PROVE FeedbackInv'
  <2>1. PICK s \in Sources : s \in reported
    BY <1>7 DEF Aggregate, Due, TypeInv, TypeOK
  <2>2. Scored'
    BY <1>7, <2>1 DEF Aggregate, ArrivedInv, Scored, Unscored
  <2> QED BY <1>7, <2>2 DEF Aggregate, Goto, TypeInv, TypeOK
<1>8. ASSUME NEW w \in Workers, AggregateSkipped(w) PROVE FeedbackInv'
  BY <1>8 DEF AggregateSkipped, Ack, TypeInv, TypeOK
<1>9. ASSUME NEW w \in Workers, Publish(w) PROVE FeedbackInv'
  BY <1>9 DEF Publish, Goto, Ack, TypeInv, TypeOK
<1>10. ASSUME NEW w \in Workers, AskFeedback(w) PROVE FeedbackInv'
  <2>1. Put(<<"feedback", 0>>) /\ <<"feedback", 0>> \in Messages /\ Scored
    BY <1>10 DEF AskFeedback, FeedbackInv
  <2> QED BY <1>10, <2>1, MessagePut DEF AskFeedback, Ack, TypeInv, TypeOK
<1>11. ASSUME NEW w \in Workers, SendPersonalFeedback(w) PROVE FeedbackInv'
  <2>1. Scored
    BY <1>11 DEF SendPersonalFeedback, FeedbackInv
  <2> QED BY <1>11, <2>1 DEF SendPersonalFeedback, Ack, TypeInv, TypeOK
<1>12. ASSUME NEW w \in Workers, pc[w] # "idle", Put(task[w]), directs' = directs,
              Ack(w) \/ UNCHANGED procs
       PROVE  FeedbackInv'
  <2>1. task[w] \in Messages
    BY <1>12 DEF InHand, TypeInv
  <2>2. \A m \in Messages : queue'[m] > 0 => queue[m] > 0 \/ m = task[w]
    BY <1>12, <2>1, MessagePut
  <2>3. \A m \in Messages : m[1] = "feedback" /\ queue'[m] > 0 => queue[m] > 0 \/ Scored
    BY <1>12, <2>2 DEF FeedbackInv, Kind
  <2> QED BY <1>12, <2>3 DEF Ack, TypeInv, TypeOK
<1>13. ASSUME NEW w \in Workers, WorkerDies(w) \/ Redelivered(w) PROVE FeedbackInv'
  BY <1>12, <1>13 DEF WorkerDies, Redelivered
<1>14. ASSUME NEW w \in Workers, TaskRaises(w) PROVE FeedbackInv'
  BY <1>14 DEF TaskRaises, Ack, TypeInv, TypeOK
<1>15. ASSUME NEW s \in Sources, Report(s) PROVE FeedbackInv'
  <2>1. <<s, issued + 1>> \in Messages
    BY <1>15, ScoreBounds DEF Report, Reports, Messages, TypeInv, TypeOK
  <2>2. \A m \in Messages : m[1] = "feedback" /\ queue'[m] > 0 => queue[m] > 0
    BY <1>15, <2>1, MessagePut DEF Report
  <2> QED BY <1>15, <2>2 DEF Report, FeedbackInv, Kind
<1>16. CASE TimeoutElapses
  BY <1>16 DEF TimeoutElapses, FeedbackInv, Kind
<1>17. CASE UNCHANGED vars
  BY <1>17 DEF vars, FeedbackInv, Kind
<1> QED
  BY <1>1, <1>2, <1>3, <1>5, <1>6, <1>7, <1>8, <1>9, <1>10, <1>11, <1>13, <1>14, <1>15, <1>16, <1>17
     DEF Next, Step

-----------------------------------------------------------------------------
(* The theorems                                                            *)

LEMMA TypeAlways == Spec => []TypeInv
<1>1. Init => TypeInv BY TypeInit
<1>2. TypeInv /\ [Next]_vars => TypeInv' BY TypeStep
<1> QED BY <1>1, <1>2, PTL DEF Spec

\* TypeOK, for any sources, workers, reports and faults.
THEOREM TypeCorrect == Spec => []TypeOK
<1>1. TypeInv => TypeOK BY DEF TypeInv
<1> QED BY <1>1, TypeAlways, PTL

\* StaleScoreIsCovered: no report slips in beside a scoring.
THEOREM StaleCovered == Spec => []StaleScoreIsCovered
<1>1. Init => StaleInv BY DEF Init, StaleInv
<1>2. TypeInv /\ StaleInv /\ [Next]_vars => StaleInv' BY StaleStep
<1>3. StaleInv => StaleScoreIsCovered BY DEF StaleInv, StaleScoreIsCovered, WillReopen, Coming
<1> QED BY <1>1, <1>2, <1>3, TypeAlways, PTL DEF Spec

\* UnscoredIsCovered: a meeting that is to be scored, or scored again, has a
\* task on its way to do it, whoever died.
THEOREM UnscoredCovered == Spec => []UnscoredIsCovered
<1>1. Init => UnscoredInv BY UnscoredInit
<1>2. TypeInv /\ UnscoredInv /\ [Next]_vars => UnscoredInv' BY UnscoredStep
<1>3. UnscoredInv => UnscoredIsCovered BY UnscoredImplies
<1> QED BY <1>1, <1>2, <1>3, TypeAlways, PTL DEF Spec

\* ScoredWhenReady: "Fires when B, C and D have all reported or the timeout
\* countdown elapses", for every way a task to aggregate can come about.
THEOREM ScoresWhenReady == Spec => ScoredWhenReady
<1>1. Init => UnscoredInv BY UnscoredInit
<1>2. TypeInv /\ UnscoredInv /\ [Next]_vars => UnscoredInv' BY UnscoredStep
<1>3. UnscoredInv /\ [Next]_vars => [~aggregated /\ aggregated' => AllIn \/ elapsed]_vars
  <2> SUFFICES ASSUME UnscoredInv, Next, ~aggregated, aggregated' PROVE AllIn \/ elapsed
    BY DEF vars
  <2>1. PICK w \in Workers : Aggregate(w)
    BY DEF Next, Step, Take, Record, Reopen, AggregateAgain, ArmCountdown, AggregateNow,
           AggregateSkipped, Publish, AskFeedback, SendPersonalFeedback, WorkerDies, TaskRaises,
           Redelivered, Report, TimeoutElapses, row
  <2> QED BY <2>1 DEF Aggregate, UnscoredInv, ReadyBehind, Ready
<1> QED BY <1>1, <1>2, <1>3, TypeAlways, PTL DEF Spec, ScoredWhenReady

LEMMA ArrivedAlways == Spec => []ArrivedInv
<1>1. Init => ArrivedInv BY DEF Init, ArrivedInv, Unscored
<1>2. TypeInv /\ ArrivedInv /\ [Next]_vars => ArrivedInv' BY ArrivedStep
<1> QED BY <1>1, <1>2, TypeAlways, PTL DEF Spec

\* FeedbackFollowsScore: no ratio is sent for a meeting without a score,
\* whatever is redelivered or late.
THEOREM FeedbackIsOfAScore == Spec => []FeedbackFollowsScore
<1>1. Init => FeedbackInv BY DEF Init, FeedbackInv
<1>2. TypeInv /\ ArrivedInv /\ FeedbackInv /\ [Next]_vars => FeedbackInv' BY FeedbackStep
<1>3. FeedbackInv => FeedbackFollowsScore BY DEF FeedbackInv, FeedbackFollowsScore, Scored
<1> QED BY <1>1, <1>2, <1>3, TypeAlways, ArrivedAlways, PTL DEF Spec

\* ScoreKeepsItsSources: no aggregation leaves out a source that an earlier
\* one had.
THEOREM ScoreIsNotLost == Spec => ScoreKeepsItsSources
<1>1. TypeInv /\ ArrivedInv /\ [Next]_vars =>
        [\A s \in Sources : score[s] > 0 => score'[s] > 0]_vars
  BY ArrivedStep
<1> QED BY <1>1, TypeAlways, ArrivedAlways, PTL DEF Spec, ScoreKeepsItsSources

-----------------------------------------------------------------------------
(* The row implements ScoreBoard                                           *)

\* What is no report, no end of the wait and no aggregation leaves the score,
\* the payloads and the wait alone.
LEMMA WhoMovesTheBoard ==
    ASSUME [Next]_vars
    PROVE  \/ UNCHANGED <<payload, elapsed, score>>
           \/ TimeoutElapses
           \/ \E w \in Workers : Record(w) \/ Aggregate(w)
BY DEF Next, Step, vars, row, Take, Reopen, AggregateAgain, ArmCountdown, AggregateNow,
       AggregateSkipped, Publish, AskFeedback, SendPersonalFeedback, WorkerDies, TaskRaises,
       Redelivered, Report

\* Somebody reported: the row is not silent.
LEMMA NotSilent ==
    ASSUME TypeInv, ArrivedInv, reported # {}
    PROVE  payload # Board!Silence
<1>1. PICK s \in Sources : s \in reported
  BY DEF TypeInv, TypeOK
<1>2. payload[s] > 0
  BY <1>1 DEF ArrivedInv
<1> QED BY <1>2 DEF Board!Silence

LEMMA BoardStep ==
    ASSUME TypeInv, ArrivedInv, UnscoredInv, [Next]_vars
    PROVE  [Board!Next]_(Board!vars)
<1>1. CASE UNCHANGED <<payload, elapsed, score>>
  BY <1>1 DEF Board!vars
<1>2. CASE TimeoutElapses
  BY <1>2, NotSilent DEF TimeoutElapses, Board!Next, Board!WaitEnds
<1>3. ASSUME NEW w \in Workers, Record(w) PROVE Board!Next
  <2>1. task[w] \in Messages /\ Kind(w) \in Sources
    BY <1>3 DEF Record, TypeInv, InHand
  <2>2. task[w][2] \in 1..MaxReports
    BY <2>1, SourcesAssumption DEF Messages, Kind
  <2>3. Board!Say(Kind(w), task[w][2])
    BY <1>3 DEF Record, Board!Say
  <2> QED BY <2>1, <2>2, <2>3 DEF Board!Next
<1>4. ASSUME NEW w \in Workers, Aggregate(w) PROVE Board!Next
  <2>1. payload # Board!Silence
    BY <1>4, NotSilent DEF Aggregate, Due
  <2>2. elapsed \/ AllIn
    BY <1>4 DEF Aggregate, UnscoredInv, ReadyBehind, Ready
  <2>3. AllIn => \A s \in Sources : payload[s] # 0
    BY DEF AllIn, ArrivedInv
  <2>4. Board!Score
    BY <1>4, <2>1, <2>2, <2>3 DEF Aggregate, Board!Score
  <2> QED BY <2>4 DEF Board!Next
<1> QED BY <1>1, <1>2, <1>3, <1>4, WhoMovesTheBoard

\* The aggregation implements ScoreBoard: whoever asked for a score, it is of
\* what was in at one moment, and never early.
THEOREM BoardRefined == Spec => ImplementsBoard
<1>1. Init => Board!Init
  BY DEF Init, Board!Init, Board!Silence, Unscored
<1>2. TypeInv /\ ArrivedInv /\ UnscoredInv /\ [Next]_vars => [Board!Next]_(Board!vars)
  BY BoardStep
<1>3. Spec => []UnscoredInv
  <2>1. Init => UnscoredInv BY UnscoredInit
  <2>2. TypeInv /\ UnscoredInv /\ [Next]_vars => UnscoredInv' BY UnscoredStep
  <2> QED BY <2>1, <2>2, TypeAlways, PTL DEF Spec
<1> QED BY <1>1, <1>2, <1>3, TypeAlways, ArrivedAlways, PTL DEF Spec, ImplementsBoard, Board!Spec
=============================================================================
