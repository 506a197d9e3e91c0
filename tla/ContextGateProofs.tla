-------------------------- MODULE ContextGateProofs --------------------------
(***************************************************************************)
(* What ContextGate promises, for any number of workers, events, faults    *)
(* and retries: E is never left with rows that a rerun replaced, a drift   *)
(* warning that is owed stays in somebody's hands, and no warning goes out *)
(* twice.  Each invariant is strengthened by what the tasks under way have *)
(* already read, and shown to hold in Init and across every action.        *)
(***************************************************************************)
EXTENDS ContextGate, TLAPS

\* What a worker at each place has in hand.
InHand(w) ==
    /\ pc[w] # "idle" => task[w] \in Messages
    /\ pc[w] = "insert" => Kind(w) \in {"transcript", "extraction"}
    /\ pc[w] = "routed" =>
         \/ Kind(w) \in Linking /\ note[w] \in {"first", "rebuilt"}
         \/ Kind(w) = "extraction" /\ note[w] \in {"first", "late", "rebuilt"}
    /\ pc[w] = "announce" => Kind(w) \in {"check", "fallback", "catchup"}
    /\ pc[w] \in {"post", "release"} =>
         \/ Kind(w) = "notify" /\ note[w] \in {"topics", "both"}
         \/ Kind(w) = "lateNotify" /\ note[w] \in {"owed", "unowed"}
    /\ pc[w] = "retry" => Kind(w) \in {"notify", "lateNotify"}

TypeInv == TypeOK /\ \A w \in Workers : InHand(w)

\* A message is a pair, and every pair the tasks send is one.
LEMMA MessageShape ==
    /\ \A m \in Messages : m = <<m[1], m[2]>> /\ m[2] \in Nat
    /\ \A k \in Deriving \cup Forced \cup {"check"} : <<k, 0>> \in Messages
    /\ \A n \in Generations : <<"fallback", n>> \in Messages
    /\ \A k \in {"notify", "lateNotify"}, n \in 0..MaxRetries : <<k, n>> \in Messages
    /\ \A m \in Messages : m[1] \in {"notify", "lateNotify"} => m[2] \in 0..MaxRetries
BY GateBounds DEF Messages, Deriving, Linking, Forced, Generations, MaxRuns

LEMMA TypeInit == Init => TypeInv
<1> SUFFICES ASSUME Init PROVE TypeInv OBVIOUS
<1>1. 0 \in Generations /\ 0 \in 0..MaxFaults /\ 0 \in 0..MaxEvents
  BY GateBounds DEF Generations, MaxRuns
<1>2. TypeOK
  BY <1>1 DEF Init, TypeOK, PCs, Notes
<1>3. \A w \in Workers : InHand(w)
  BY DEF Init, InHand
<1> QED BY <1>2, <1>3 DEF TypeInv

\* A worker that moves on, and those that do not.
LEMMA TaskEnds ==
    ASSUME TypeInv, NEW w \in Workers, Ack(w)
    PROVE  /\ pc' \in [Workers -> PCs]
           /\ task' \in [Workers -> Messages \cup {None}]
           /\ note' \in [Workers -> Notes]
           /\ \A v \in Workers : InHand(v)'
BY DEF TypeInv, TypeOK, Ack, InHand, Kind, PCs, Notes

LEMMA MessagePut ==
    ASSUME TypeInv, NEW m \in Messages, Put(m)
    PROVE  queue' \in [Messages -> Nat] /\ queue'[m] > 0
           /\ \A k \in Messages : queue[k] > 0 => queue'[k] > 0
BY DEF TypeInv, TypeOK, Put

LEMMA TaskMoves ==
    ASSUME TypeInv, NEW w \in Workers, pc[w] # "idle",
           NEW l \in PCs, NEW n \in Notes, Goto(w, l, n),
           l = "insert" => Kind(w) \in {"transcript", "extraction"},
           l = "routed" =>
             \/ Kind(w) \in Linking /\ n \in {"first", "rebuilt"}
             \/ Kind(w) = "extraction" /\ n \in {"first", "late", "rebuilt"},
           l = "announce" => Kind(w) \in {"check", "fallback", "catchup"},
           l \in {"post", "release"} =>
             \/ Kind(w) = "notify" /\ n \in {"topics", "both"}
             \/ Kind(w) = "lateNotify" /\ n \in {"owed", "unowed"},
           l = "retry" => Kind(w) \in {"notify", "lateNotify"}
    PROVE  /\ pc' \in [Workers -> PCs]
           /\ task' \in [Workers -> Messages \cup {None}]
           /\ note' \in [Workers -> Notes]
           /\ \A v \in Workers : InHand(v)'
BY DEF TypeInv, TypeOK, Goto, InHand, Kind

\* The two halves' commits, from the task or from the insert.
LEMMA LinksType ==
    ASSUME TypeInv, NEW w \in Workers, pc[w] # "idle", Kind(w) \in Linking,
           NEW o \in {"first", "rebuilt"}, LinksWritten(w, o),
           UNCHANGED <<sent, slack, posts, queue, steady, raised, events, faults>>
    PROVE  TypeInv'
<1>1. links' \in Generations /\ links' > 0
  BY GateBounds DEF LinksWritten, TypeInv, TypeOK, Generations, MaxRuns
<1>2. /\ pc' \in [Workers -> PCs]
      /\ task' \in [Workers -> Messages \cup {None}]
      /\ note' \in [Workers -> Notes]
      /\ \A v \in Workers : InHand(v)'
  BY TaskMoves DEF LinksWritten, PCs, Notes, Deriving
<1> QED
  BY <1>1, <1>2 DEF LinksWritten, TypeInv, TypeOK, posts

LEMMA LineageType ==
    ASSUME TypeInv, NEW w \in Workers, pc[w] # "idle", Kind(w) = "extraction",
           NEW b \in BOOLEAN, LineageWritten(w, b),
           UNCHANGED <<sent, slack, posts, queue, steady, raised, events, faults>>
    PROVE  TypeInv'
<1>1. lineage' \in Generations /\ due' \in BOOLEAN
  BY GateBounds DEF LineageWritten, TypeInv, TypeOK, Generations, MaxRuns
<1>2. /\ pc' \in [Workers -> PCs]
      /\ task' \in [Workers -> Messages \cup {None}]
      /\ note' \in [Workers -> Notes]
      /\ \A v \in Workers : InHand(v)'
  BY TaskMoves DEF LineageWritten, PCs, Notes, Deriving
<1> QED
  BY <1>1, <1>2 DEF LineageWritten, TypeInv, TypeOK, posts

LEMMA TypeStep == TypeInv /\ [Next]_vars => TypeInv'
<1> SUFFICES ASSUME TypeInv, [Next]_vars PROVE TypeInv'
  OBVIOUS
<1> USE MessageShape, TaskEnds, TaskMoves, MessagePut
        DEF status, content, posts, procs, TypeInv, TypeOK
<1>1. ASSUME NEW w \in Workers, Take(w) PROVE TypeInv'
  <2>1. queue' \in [Messages -> Nat] /\ task' \in [Workers -> Messages \cup {None}]
    BY <1>1 DEF Take
  <2>2. \A v \in Workers : InHand(v)'
    BY <1>1 DEF Take, InHand, Kind
  <2> QED BY <1>1, <2>1, <2>2 DEF Take, PCs
<1>2. ASSUME NEW w \in Workers, LinkTopics(w) PROVE TypeInv'
  <2>1. CASE RowExists
    BY <1>2, <2>1, LinksType DEF LinkTopics
  <2>2. CASE ~RowExists
    BY <1>2, <2>2 DEF LinkTopics, PCs, Notes, Linking, RowExists
  <2> QED BY <2>1, <2>2
<1>3. ASSUME NEW w \in Workers, RederiveRefused(w) PROVE TypeInv'
  BY <1>3 DEF RederiveRefused
<1>4. ASSUME NEW w \in Workers, RouteLinks(w) PROVE TypeInv'
  BY <1>4 DEF RouteLinks, PCs, Notes, Forced
<1>5. ASSUME NEW w \in Workers, ArmFallback(w) PROVE TypeInv'
  BY <1>5 DEF ArmFallback
<1>6. ASSUME NEW w \in Workers, BuildLineage(w) PROVE TypeInv'
  <2>1. CASE RowExists
    BY <1>6, <2>1, LineageType DEF BuildLineage
  <2>2. CASE ~RowExists
    BY <1>6, <2>2 DEF BuildLineage, PCs, Notes
  <2> QED BY <2>1, <2>2
<1>7. ASSUME NEW w \in Workers, RouteLineage(w) PROVE TypeInv'
  <2>1. PICK m \in Messages : Put(m)
    BY <1>7 DEF RouteLineage, InHand, Forced
  <2> QED BY <1>7, <2>1 DEF RouteLineage
<1>8. ASSUME NEW w \in Workers, InsertStatus(w) PROVE TypeInv'
  <2>1. Kind(w) = "extraction" \/ Kind(w) \in Linking
    BY <1>8 DEF InsertStatus, InHand, Linking
  <2> QED BY <1>8, <2>1, LineageType, LinksType DEF InsertStatus, Linking
<1>9. ASSUME NEW w \in Workers, InsertConflicts(w) PROVE TypeInv'
  BY <1>9 DEF InsertConflicts
<1>10. ASSUME NEW w \in Workers, PublishIfReady(w) PROVE TypeInv'
  BY <1>10 DEF PublishIfReady, MayPublish, PublishTask, Forced, PCs, Notes
<1>11. ASSUME NEW w \in Workers, NotReady(w) PROVE TypeInv'
  BY <1>11 DEF NotReady
<1>12. ASSUME NEW w \in Workers, Announce(w) PROVE TypeInv'
  <2>1. PICK m \in Messages : Put(m)
    BY <1>12, GateBounds DEF Announce
  <2> QED BY <1>12, <2>1 DEF Announce
<1>13. ASSUME NEW w \in Workers, ClaimNotice(w) PROVE TypeInv'
  BY <1>13 DEF ClaimNotice, PCs, Notes
<1>14. ASSUME NEW w \in Workers, ClaimLateDrift(w) PROVE TypeInv'
  BY <1>14 DEF ClaimLateDrift, PCs, Notes
<1>15. ASSUME NEW w \in Workers, PostNotices(w) PROVE TypeInv'
  BY <1>15 DEF PostNotices
<1>16. ASSUME NEW w \in Workers, SlackFails(w) PROVE TypeInv'
  <2>1. /\ pc' \in [Workers -> PCs]
        /\ task' \in [Workers -> Messages \cup {None}]
        /\ note' \in [Workers -> Notes]
        /\ \A v \in Workers : InHand(v)'
    BY <1>16 DEF SlackFails, InHand, PCs, Notes
  <2>2. topicPosts' \in Nat /\ driftPosts' \in Nat /\ faults' \in 0..MaxFaults
    BY <1>16, GateBounds DEF SlackFails, Fault
  <2> QED BY <1>16, <2>1, <2>2 DEF SlackFails
<1>17. ASSUME NEW w \in Workers, ReleaseClaim(w) PROVE TypeInv'
  BY <1>17 DEF ReleaseClaim, InHand, PCs, Notes
<1>18. ASSUME NEW w \in Workers, Retry(w) PROVE TypeInv'
  <2>1. UNCHANGED queue \/ \E m \in Messages : Put(m)
    BY <1>18, GateBounds DEF Retry, InHand, Kind
  <2> QED BY <1>18, <2>1 DEF Retry
<1>19. ASSUME NEW w \in Workers, HalfPublished(w) PROVE sent' \in Generations \X Generations
  BY <1>19 DEF HalfPublished
<1>20. ASSUME NEW w \in Workers, WorkerDies(w) \/ TaskRaises(w) PROVE TypeInv'
  <2>1. sent' \in Generations \X Generations /\ faults' \in 0..MaxFaults
    BY <1>19, <1>20, GateBounds DEF WorkerDies, TaskRaises, Fault
  <2>3. raised' \in BOOLEAN /\ queue' \in [Messages -> Nat]
    <3>1. CASE WorkerDies(w) BY <3>1 DEF WorkerDies, InHand
    <3>2. CASE TaskRaises(w) BY <3>2 DEF TaskRaises
    <3> QED BY <1>20, <3>1, <3>2
  <2>2. Ack(w) /\ UNCHANGED <<status, content, slack, posts, steady, events>>
    BY <1>20 DEF WorkerDies, TaskRaises
  <2> QED BY <2>1, <2>2, <2>3
<1>21. ASSUME NEW w \in Workers, Redelivered(w) PROVE TypeInv'
  BY <1>21, GateBounds DEF Redelivered, Fault, InHand, Kind
<1>22. ASSUME NEW k \in Deriving, Event(k) PROVE TypeInv'
  BY <1>22, GateBounds DEF Event, InHand, Kind
<1>23. CASE DeadlinePasses
  BY <1>23 DEF DeadlinePasses, InHand, Kind
<1>24. CASE SlackChanges
  <2>1. slack' \in BOOLEAN /\ faults' \in 0..MaxFaults
    BY <1>24, GateBounds DEF SlackChanges, Fault
  <2>2. \A v \in Workers : InHand(v)'
    BY <1>24 DEF SlackChanges, InHand, Kind
  <2> QED BY <1>24, <2>1, <2>2 DEF SlackChanges
<1>25. CASE UNCHANGED vars
  BY <1>25 DEF vars, InHand, Kind
<1> QED
  BY <1>1, <1>2, <1>3, <1>4, <1>5, <1>6, <1>7, <1>8, <1>9, <1>10, <1>11, <1>12, <1>13, <1>14, <1>15,
     <1>16, <1>17, <1>18, <1>20, <1>21, <1>22, <1>23, <1>24, <1>25
     DEF Next, Step, Mishap, TranscriptReady, ExtractionCompleted, RederiveTopics, Deriving, Linking

-----------------------------------------------------------------------------
(* StaleIsCovered.  Whoever changes the content of a published row reads,  *)
(* in that transaction, that it is published, and is then in hand of the   *)
(* republish; a first publish, which nothing will repeat, sends the        *)
(* content as it is.                                                       *)

\* Worker w will see to it that the content is sent.
Resending(w) ==
    \/ pc[w] = "start" /\ Kind(w) \in Deriving \cup Forced
    \/ pc[w] = "routed" /\ note[w] \in {"late", "rebuilt"}
WillResend ==
    \/ \E m \in Messages : m[1] \in Deriving \cup Forced /\ queue[m] > 0
    \/ \E w \in Workers : Resending(w)

StaleInv ==
    /\ published => links > 0
    /\ \A w \in Workers : pc[w] = "insert" => ~published
    /\ published /\ sent # content /\ ~raised => WillResend

LEMMA StaleInit == Init => StaleInv
BY DEF Init, StaleInv

LEMMA StaleImplies == StaleInv => StaleIsCovered
BY DEF StaleInv, StaleIsCovered, WillResend, Resending, Coming

\* A step of worker w that leaves the content and what was sent alone.
LEMMA ResendKept ==
    ASSUME TypeInv, StaleInv, NEW w \in Workers,
           \A m \in Messages : queue[m] > 0 => queue'[m] > 0,
           UNCHANGED <<content, sent, published>>, raised => raised',
           \A v \in Workers \ {w} : pc'[v] = pc[v] /\ task'[v] = task[v] /\ note'[v] = note[v],
           pc'[w] # "insert",
           Resending(w) /\ published /\ ~raised' => WillResend'
    PROVE  StaleInv'
<1>1. ASSUME NEW v \in Workers, v # w, Resending(v) PROVE WillResend'
  BY <1>1 DEF Resending, WillResend, Kind
<1>2. ASSUME NEW m \in Messages, m[1] \in Deriving \cup Forced, queue[m] > 0 PROVE WillResend'
  BY <1>2 DEF WillResend
<1> QED
  BY <1>1, <1>2 DEF StaleInv, WillResend, content

LEMMA StaleStep == TypeInv /\ StaleInv /\ [Next]_vars => StaleInv'
<1> SUFFICES ASSUME TypeInv, StaleInv, [Next]_vars PROVE StaleInv'
  OBVIOUS
<1> USE MessageShape DEF status, content, posts, procs
<1>1. ASSUME NEW w \in Workers, Take(w) PROVE StaleInv'
  <2>1. PICK m \in Messages : /\ queue[m] > 0 /\ task' = [task EXCEPT ![w] = m]
                              /\ queue' = [queue EXCEPT ![m] = @ - 1]
    BY <1>1 DEF Take
  <2>2. ASSUME WillResend PROVE WillResend'
    <3>1. ASSUME NEW v \in Workers, Resending(v) PROVE WillResend'
      BY <1>1, <2>1, <3>1 DEF Take, Resending, WillResend, Kind, TypeInv, TypeOK
    <3>2. ASSUME NEW k \in Messages, k[1] \in Deriving \cup Forced, queue[k] > 0 PROVE WillResend'
      <4>1. CASE k = m
        BY <1>1, <2>1, <3>2, <4>1 DEF Take, Resending, WillResend, Kind, TypeInv, TypeOK
      <4>2. CASE k # m
        BY <1>1, <2>1, <3>2, <4>2 DEF WillResend, TypeInv, TypeOK
      <4> QED BY <4>1, <4>2
    <3> QED BY <2>2, <3>1, <3>2 DEF WillResend
  <2> QED BY <1>1, <2>2 DEF Take, StaleInv, TypeInv, TypeOK
<1>2. ASSUME NEW w \in Workers, LinkTopics(w) PROVE StaleInv'
  <2>1. CASE RowExists
    <3>1. published => Resending(w)'
      BY <1>2, <2>1 DEF LinkTopics, LinksWritten, Goto, Resending, TypeInv, TypeOK
    <3> QED
      BY <1>2, <2>1, <3>1 DEF LinkTopics, LinksWritten, Goto, StaleInv, WillResend, TypeInv, TypeOK, Generations
  <2>2. CASE ~RowExists
    BY <1>2, <2>2 DEF LinkTopics, Goto, StaleInv, RowExists, TypeInv, TypeOK, Generations
  <2> QED BY <2>1, <2>2
<1>3. ASSUME NEW w \in Workers, RederiveRefused(w) PROVE StaleInv'
  <2>1. ~published
    BY <1>3 DEF RederiveRefused, StaleInv
  <2> QED BY <1>3, <2>1, ResendKept DEF RederiveRefused, Ack, TypeInv, TypeOK
<1>4. ASSUME NEW w \in Workers, RouteLinks(w) PROVE StaleInv'
  <2>1. note[w] = "rebuilt" => WillResend'
    BY <1>4, MessagePut DEF RouteLinks, WillResend, Forced
  <2>2. \A m \in Messages : queue[m] > 0 => queue'[m] > 0
    BY <1>4, MessagePut DEF RouteLinks, Forced
  <2>3. note[w] # "late"
    BY <1>4 DEF RouteLinks, InHand, TypeInv, Linking, Kind
  <2> QED BY <1>4, <2>1, <2>2, <2>3, ResendKept DEF RouteLinks, Ack, Goto, Resending, TypeInv, TypeOK
<1>5. ASSUME NEW w \in Workers, ArmFallback(w) PROVE StaleInv'
  BY <1>5, MessagePut, ResendKept DEF ArmFallback, Ack, Resending, TypeInv, TypeOK
<1>6. ASSUME NEW w \in Workers, BuildLineage(w) PROVE StaleInv'
  <2>1. CASE RowExists
    <3>1. published => Resending(w)'
      BY <1>6, <2>1 DEF BuildLineage, LineageWritten, Goto, Resending, TypeInv, TypeOK
    <3> QED
      BY <1>6, <2>1, <3>1 DEF BuildLineage, LineageWritten, Goto, StaleInv, WillResend, TypeInv, TypeOK
  <2>2. CASE ~RowExists
    BY <1>6, <2>2 DEF BuildLineage, Goto, StaleInv, RowExists, TypeInv, TypeOK, Generations
  <2> QED BY <2>1, <2>2
<1>7. ASSUME NEW w \in Workers, RouteLineage(w) PROVE StaleInv'
  <2>1. PICK k \in {"republish", "catchup", "check"} :
          Put(<<k, 0>>) /\ (note[w] # "first" => k \in Forced)
    BY <1>7 DEF RouteLineage, InHand, TypeInv, Linking, Forced
  <2>2. <<k, 0>> \in Messages
    BY DEF Forced
  <2>3. queue'[<<k, 0>>] > 0 /\ \A m \in Messages : queue[m] > 0 => queue'[m] > 0
    BY <2>1, <2>2, MessagePut
  <2>4. note[w] # "first" => WillResend'
    BY <2>1, <2>2, <2>3 DEF WillResend
  <2> QED BY <1>7, <2>3, <2>4, ResendKept DEF RouteLineage, Ack, Resending, TypeInv, TypeOK
<1>8. ASSUME NEW w \in Workers, InsertStatus(w) PROVE StaleInv'
  <2>1. ~published /\ ~published'
    BY <1>8 DEF InsertStatus, LinksWritten, LineageWritten, StaleInv
  <2> QED BY <2>1 DEF StaleInv
<1>9. ASSUME NEW w \in Workers, InsertConflicts(w) PROVE StaleInv'
  BY <1>9, ResendKept DEF InsertConflicts, Ack, Resending, TypeInv, TypeOK
<1>10. ASSUME NEW w \in Workers, PublishIfReady(w) PROVE StaleInv'
  BY <1>10 DEF PublishIfReady, MayPublish, Inserting, Ack, Goto, StaleInv, TypeInv, TypeOK
<1>11. ASSUME NEW w \in Workers, NotReady(w) PROVE StaleInv'
  <2>1. Resending(w) => ~published
    BY <1>11 DEF NotReady, PublishTask, MayPublish, Resending, StaleInv, Deriving, Linking, Forced
  <2> QED BY <1>11, <2>1, ResendKept DEF NotReady, PublishTask, Ack, TypeInv, TypeOK
<1>12. ASSUME NEW w \in Workers, Announce(w) PROVE StaleInv'
  <2>1. PICK m \in Messages : Put(m)
    BY <1>12, GateBounds DEF Announce
  <2> QED BY <1>12, <2>1, MessagePut, ResendKept DEF Announce, Ack, Resending, TypeInv, TypeOK
<1>13. ASSUME NEW w \in Workers, ClaimNotice(w) PROVE StaleInv'
  BY <1>13, ResendKept DEF ClaimNotice, Ack, Goto, Resending, Deriving, Linking, Forced, TypeInv, TypeOK
<1>14. ASSUME NEW w \in Workers, ClaimLateDrift(w) PROVE StaleInv'
  BY <1>14, ResendKept DEF ClaimLateDrift, Ack, Goto, Resending, Deriving, Linking, Forced, TypeInv, TypeOK
<1>15. ASSUME NEW w \in Workers, PostNotices(w) PROVE StaleInv'
  BY <1>15, ResendKept DEF PostNotices, Ack, Resending, TypeInv, TypeOK
<1>16. ASSUME NEW w \in Workers, SlackFails(w) PROVE StaleInv'
  BY <1>16, ResendKept DEF SlackFails, Goto, Resending, TypeInv, TypeOK
<1>17. ASSUME NEW w \in Workers, ReleaseClaim(w) PROVE StaleInv'
  BY <1>17, ResendKept DEF ReleaseClaim, Goto, Resending, TypeInv, TypeOK
<1>18. ASSUME NEW w \in Workers, Retry(w) PROVE StaleInv'
  <2>1. UNCHANGED queue \/ \E m \in Messages : Put(m)
    BY <1>18, GateBounds DEF Retry, InHand, Kind, TypeInv, TypeOK
  <2> QED BY <1>18, <2>1, MessagePut, ResendKept DEF Retry, Ack, Resending, TypeInv, TypeOK
<1>19. ASSUME NEW w \in Workers, WorkerDies(w) PROVE StaleInv'
  <2>1. task[w] \in Messages
    BY <1>19 DEF WorkerDies, InHand, TypeInv
  <2>2. queue'[task[w]] > 0 /\ \A m \in Messages : queue[m] > 0 => queue'[m] > 0
    BY <1>19, <2>1, MessagePut DEF WorkerDies
  <2>3. Resending(w) => WillResend'
    BY <2>1, <2>2 DEF Resending, WillResend, InHand, TypeInv, Kind, Deriving
  <2>4. CASE UNCHANGED sent
    BY <1>19, <2>2, <2>3, <2>4, ResendKept DEF WorkerDies, Ack, TypeInv, TypeOK
  <2>5. CASE sent' = content
    BY <1>19, <2>5 DEF WorkerDies, Ack, StaleInv, TypeInv, TypeOK
  <2> QED BY <1>19, <2>4, <2>5 DEF WorkerDies, HalfPublished
<1>20. ASSUME NEW w \in Workers, TaskRaises(w) PROVE StaleInv'
  BY <1>20 DEF TaskRaises, Ack, StaleInv, TypeInv, TypeOK
<1>21. ASSUME NEW w \in Workers, Redelivered(w) PROVE StaleInv'
  <2>1. task[w] \in Messages
    BY <1>21 DEF Redelivered, InHand, TypeInv
  <2> QED BY <1>21, <2>1, MessagePut DEF Redelivered, StaleInv, WillResend, Resending, Kind
<1>22. ASSUME NEW k \in Deriving, Event(k) PROVE StaleInv'
  BY <1>22, MessagePut DEF Event, StaleInv, WillResend, Resending, Kind
<1>23. CASE DeadlinePasses
  BY <1>23 DEF DeadlinePasses, StaleInv, WillResend, Resending, Kind
<1>24. CASE SlackChanges
  BY <1>24 DEF SlackChanges, StaleInv, WillResend, Resending, Kind
<1>25. CASE UNCHANGED vars
  BY <1>25 DEF vars, StaleInv, WillResend, Resending, Kind
<1> QED
  BY <1>1, <1>2, <1>3, <1>4, <1>5, <1>6, <1>7, <1>8, <1>9, <1>10, <1>11, <1>12, <1>13, <1>14, <1>15,
     <1>16, <1>17, <1>18, <1>19, <1>20, <1>21, <1>22, <1>23, <1>24, <1>25
     DEF Next, Step, Mishap, TranscriptReady, ExtractionCompleted, RederiveTopics, Deriving, Linking

-----------------------------------------------------------------------------
(* OwedIsCovered.  A drift warning is owed only once the lineage is in and *)
(* the meeting published, so the catch-up that pays it is never refused.   *)

\* Lineage is in wherever a catch-up or a late warning is under way.
LineageBehind ==
    /\ \A m \in Messages : queue[m] > 0 /\ m[1] \in {"catchup", "lateNotify"} => lineage > 0
    /\ \A w \in Workers :
         /\ pc[w] # "idle" /\ Kind(w) \in {"catchup", "lateNotify"} => lineage > 0
         /\ pc[w] = "routed" /\ Kind(w) = "extraction" => lineage > 0

DueOpen ==
    /\ due => published /\ ~lateNotified
    /\ due \/ lateNotified => lineage > 0
    /\ \A w \in Workers : pc[w] \in {"post", "release"} /\ note[w] = "owed" => published

\* Worker w will see to it that the warning goes out.
Paying(w) ==
    \/ pc[w] = "start" /\ Kind(w) \in {"extraction", "catchup", "lateNotify"}
    \/ pc[w] = "routed" /\ note[w] = "late"
    \/ pc[w] \in {"announce", "retry"} /\ Kind(w) \in {"catchup", "lateNotify"}
WillPay ==
    \/ \E m \in Messages : m[1] \in {"extraction", "catchup", "lateNotify"} /\ queue[m] > 0
    \/ \E w \in Workers : Paying(w)

OwedInv == LineageBehind /\ DueOpen /\ (due /\ ~raised => WillPay)

LEMMA OwedInit == Init => OwedInv
BY DEF Init, OwedInv, LineageBehind, DueOpen

LEMMA OwedImplies == OwedInv => OwedIsCovered
BY DEF OwedInv, OwedIsCovered, WillPay, Paying, Coming

\* A step of worker w that leaves the lineage and the claims of the late
\* warning alone.
LEMMA OwedKept ==
    ASSUME TypeInv, OwedInv, NEW w \in Workers,
           UNCHANGED <<lineage, due, lateNotified>>, published => published', raised => raised',
           \A m \in Messages : queue[m] > 0 => queue'[m] > 0,
           \A m \in Messages :
             queue'[m] > 0 /\ m[1] \in {"catchup", "lateNotify"} => queue[m] > 0 \/ lineage > 0,
           \A v \in Workers \ {w} : pc'[v] = pc[v] /\ task'[v] = task[v] /\ note'[v] = note[v],
           pc'[w] # "idle" => pc[w] # "idle" /\ task'[w] = task[w],
           pc'[w] # "routed",
           pc'[w] \in {"post", "release"} /\ note'[w] = "owed" => pc[w] = "post" /\ note[w] = "owed",
           Paying(w) /\ due /\ ~raised' => WillPay'
    PROVE  OwedInv'
<1>1. LineageBehind'
  BY DEF OwedInv, LineageBehind, Kind
<1>2. DueOpen'
  BY DEF OwedInv, DueOpen
<1>3. ASSUME NEW v \in Workers, v # w, Paying(v) PROVE WillPay'
  BY <1>3 DEF Paying, WillPay, Kind
<1>4. ASSUME NEW m \in Messages, m[1] \in {"extraction", "catchup", "lateNotify"}, queue[m] > 0
      PROVE  WillPay'
  BY <1>4 DEF WillPay
<1> QED
  BY <1>1, <1>2, <1>3, <1>4 DEF OwedInv, WillPay

\* The lineage committed: the worker that wrote it is in hand of what is owed.
LEMMA OwedWritten ==
    ASSUME TypeInv, OwedInv, NEW w \in Workers, pc[w] # "idle", Kind(w) = "extraction",
           LineageWritten(w, published), UNCHANGED queue
    PROVE  OwedInv'
<1>1. lineage' > 0 /\ lineage \in Nat
  BY GateBounds DEF LineageWritten, TypeInv, TypeOK, Generations, MaxRuns
<1>2. LineageBehind'
  BY <1>1 DEF LineageBehind
<1>3. DueOpen'
  BY <1>1 DEF LineageWritten, OwedInv, DueOpen, Goto, TypeInv, TypeOK
<1>4. due' => Paying(w)'
  BY DEF LineageWritten, Goto, Paying, TypeInv, TypeOK
<1> QED BY <1>2, <1>3, <1>4 DEF OwedInv, WillPay

LEMMA OwedStep == TypeInv /\ StaleInv /\ OwedInv /\ [Next]_vars => OwedInv'
<1> SUFFICES ASSUME TypeInv, StaleInv, OwedInv, [Next]_vars PROVE OwedInv'
  OBVIOUS
<1> USE MessageShape DEF status, content, posts, procs
<1>1. ASSUME NEW w \in Workers, Take(w) PROVE OwedInv'
  <2>1. PICK m \in Messages : /\ queue[m] > 0 /\ task' = [task EXCEPT ![w] = m]
                              /\ queue' = [queue EXCEPT ![m] = @ - 1]
    BY <1>1 DEF Take
  <2>2. \A k \in Messages : queue'[k] > 0 => queue[k] > 0
    BY <2>1 DEF TypeInv, TypeOK
  <2>3. LineageBehind'
    BY <1>1, <2>1, <2>2 DEF Take, OwedInv, LineageBehind, Kind, TypeInv, TypeOK
  <2>4. DueOpen'
    BY <1>1 DEF Take, OwedInv, DueOpen, TypeInv, TypeOK
  <2>5. ASSUME WillPay PROVE WillPay'
    <3>1. ASSUME NEW v \in Workers, Paying(v) PROVE WillPay'
      BY <1>1, <2>1, <3>1 DEF Take, Paying, WillPay, Kind, TypeInv, TypeOK
    <3>2. ASSUME NEW k \in Messages, k[1] \in {"extraction", "catchup", "lateNotify"}, queue[k] > 0
          PROVE  WillPay'
      <4>1. CASE k = m
        BY <1>1, <2>1, <3>2, <4>1 DEF Take, Paying, WillPay, Kind, TypeInv, TypeOK
      <4>2. CASE k # m
        BY <1>1, <2>1, <3>2, <4>2 DEF WillPay, TypeInv, TypeOK
      <4> QED BY <4>1, <4>2
    <3> QED BY <2>5, <3>1, <3>2 DEF WillPay
  <2> QED BY <1>1, <2>3, <2>4, <2>5 DEF Take, OwedInv
<1>2. ASSUME NEW w \in Workers, LinkTopics(w) PROVE OwedInv'
  <2>1. /\ UNCHANGED <<lineage, due, lateNotified, published, raised, queue, task>>
        /\ pc'[w] \in {"routed", "insert"} /\ pc[w] = "start" /\ Kind(w) \in Linking
        /\ \A v \in Workers \ {w} : pc'[v] = pc[v] /\ note'[v] = note[v]
    BY <1>2 DEF LinkTopics, LinksWritten, Goto, TypeInv, TypeOK
  <2>2. LineageBehind'
    BY <2>1 DEF OwedInv, LineageBehind, Kind, Linking
  <2>3. DueOpen'
    BY <2>1 DEF OwedInv, DueOpen
  <2>4. ASSUME NEW v \in Workers, Paying(v) PROVE Paying(v)'
    BY <2>1, <2>4 DEF Paying, Kind, Linking
  <2> QED BY <2>1, <2>2, <2>3, <2>4 DEF OwedInv, WillPay
<1>3. ASSUME NEW w \in Workers, RederiveRefused(w) PROVE OwedInv'
  BY <1>3, OwedKept DEF RederiveRefused, Ack, Paying, TypeInv, TypeOK
<1>4. ASSUME NEW w \in Workers, RouteLinks(w) PROVE OwedInv'
  <2>1. PICK k \in {"republish", "check"} : Put(<<k, 0>>)
    BY <1>4 DEF RouteLinks
  <2>2. <<k, 0>> \in Messages
    BY DEF Forced
  <2>3. \A m \in Messages : queue'[m] > 0 /\ m[1] \in {"catchup", "lateNotify"} => queue[m] > 0
    BY <2>1, <2>2 DEF Put, TypeInv, TypeOK
  <2>4. note[w] # "late"
    BY <1>4 DEF RouteLinks, InHand, TypeInv, Linking, Kind
  <2> QED BY <1>4, <2>1, <2>2, <2>3, <2>4, MessagePut, OwedKept
          DEF RouteLinks, Ack, Goto, Paying, TypeInv, TypeOK
<1>5. ASSUME NEW w \in Workers, ArmFallback(w) PROVE OwedInv'
  <2>1. <<"fallback", links>> \in Messages
    BY DEF TypeInv, TypeOK
  <2>2. \A m \in Messages : queue'[m] > 0 /\ m[1] \in {"catchup", "lateNotify"} => queue[m] > 0
    BY <1>5, <2>1 DEF ArmFallback, Put, TypeInv, TypeOK
  <2> QED BY <1>5, <2>1, <2>2, MessagePut, OwedKept DEF ArmFallback, Ack, Paying, TypeInv, TypeOK
<1>6. ASSUME NEW w \in Workers, BuildLineage(w) PROVE OwedInv'
  <2>1. CASE RowExists
    BY <1>6, <2>1, OwedWritten DEF BuildLineage
  <2>2. CASE ~RowExists
    <3>1. ~due
      BY <2>2 DEF OwedInv, DueOpen, RowExists
    <3> QED BY <1>6, <2>2, <3>1, OwedKept DEF BuildLineage, Goto, TypeInv, TypeOK
  <2> QED BY <2>1, <2>2
<1>7. ASSUME NEW w \in Workers, RouteLineage(w) PROVE OwedInv'
  <2>1. PICK k \in {"republish", "catchup", "check"} :
          Put(<<k, 0>>) /\ (note[w] = "late" => k = "catchup")
    BY <1>7 DEF RouteLineage, InHand, TypeInv, Linking
  <2>2. <<k, 0>> \in Messages
    BY DEF Forced
  <2>3. queue'[<<k, 0>>] > 0 /\ \A m \in Messages : queue[m] > 0 => queue'[m] > 0
    BY <2>1, <2>2, MessagePut
  <2>4. lineage > 0
    BY <1>7 DEF RouteLineage, OwedInv, LineageBehind
  <2>5. note[w] = "late" => WillPay'
    BY <2>1, <2>2, <2>3 DEF WillPay
  <2> QED BY <1>7, <2>3, <2>4, <2>5, OwedKept DEF RouteLineage, Ack, Paying, TypeInv, TypeOK
<1>8. ASSUME NEW w \in Workers, InsertStatus(w) PROVE OwedInv'
  <2>1. ~published /\ (Kind(w) = "extraction" \/ Kind(w) = "transcript")
    BY <1>8 DEF InsertStatus, StaleInv, InHand, TypeInv
  <2>2. CASE Kind(w) = "extraction"
    <3>1. LineageWritten(w, published)
      BY <1>8, <2>1, <2>2 DEF InsertStatus, LineageWritten, TypeInv, TypeOK
    <3> QED BY <1>8, <2>2, <3>1, OwedWritten DEF InsertStatus
  <2>3. CASE Kind(w) = "transcript"
    <3>1. /\ UNCHANGED <<lineage, due, lateNotified, published, queue, task>> /\ ~due
          /\ pc'[w] = "routed"
          /\ \A v \in Workers \ {w} : pc'[v] = pc[v] /\ note'[v] = note[v]
      BY <1>8, <2>1, <2>3 DEF InsertStatus, LinksWritten, Goto, OwedInv, DueOpen, TypeInv, TypeOK
    <3>2. LineageBehind' /\ DueOpen'
      BY <2>3, <3>1 DEF OwedInv, LineageBehind, DueOpen, Kind
    <3> QED BY <3>1, <3>2 DEF OwedInv
  <2> QED BY <2>1, <2>2, <2>3
<1>9. ASSUME NEW w \in Workers, InsertConflicts(w) PROVE OwedInv'
  BY <1>9, OwedKept DEF InsertConflicts, Ack, Paying, TypeInv, TypeOK
<1>10. ASSUME NEW w \in Workers, PublishIfReady(w) PROVE OwedInv'
  <2>1. Paying(w) => WillPay'
    BY <1>10 DEF PublishIfReady, PublishTask, Goto, Ack, Paying, WillPay, Kind, Forced, TypeInv, TypeOK
  <2> QED BY <1>10, <2>1, OwedKept DEF PublishIfReady, PublishTask, Goto, Ack, TypeInv, TypeOK
<1>11. ASSUME NEW w \in Workers, NotReady(w) PROVE OwedInv'
  <2>1. ~(Paying(w) /\ due)
    BY <1>11 DEF NotReady, PublishTask, MayPublish, Paying, OwedInv, DueOpen, StaleInv, Forced
  <2> QED BY <1>11, <2>1, OwedKept DEF NotReady, PublishTask, Ack, TypeInv, TypeOK
<1>12. ASSUME NEW w \in Workers, Announce(w) PROVE OwedInv'
  <2>1. PICK k \in {"lateNotify", "notify"} : Put(<<k, 0>>) /\ (k = "lateNotify" <=> Kind(w) = "catchup")
    BY <1>12 DEF Announce
  <2>2. <<k, 0>> \in Messages
    BY GateBounds
  <2>3. queue'[<<k, 0>>] > 0 /\ \A m \in Messages : queue[m] > 0 => queue'[m] > 0
    BY <2>1, <2>2, MessagePut
  <2>4. \A m \in Messages : queue'[m] > 0 /\ m[1] \in {"catchup", "lateNotify"} => queue[m] > 0 \/ lineage > 0
    BY <1>12, <2>1, <2>2 DEF Announce, Put, OwedInv, LineageBehind, TypeInv, TypeOK
  <2>5. Paying(w) => WillPay'
    BY <1>12, <2>1, <2>2, <2>3 DEF Announce, Paying, WillPay, InHand, TypeInv
  <2> QED BY <1>12, <2>3, <2>4, <2>5, OwedKept DEF Announce, Ack, TypeInv, TypeOK
<1>13. ASSUME NEW w \in Workers, ClaimNotice(w) PROVE OwedInv'
  BY <1>13, OwedKept DEF ClaimNotice, Ack, Goto, Paying, TypeInv, TypeOK
<1>14. ASSUME NEW w \in Workers, ClaimLateDrift(w) PROVE OwedInv'
  <2>1. lineage > 0 /\ UNCHANGED <<lineage, published, queue, raised>>
    BY <1>14 DEF ClaimLateDrift, OwedInv, LineageBehind
  <2>2. LineageBehind'
    BY <1>14, <2>1 DEF LineageBehind
  <2>3. CASE lateNotified
    <3>1. ~due /\ ~due' /\ lateNotified'
      BY <1>14, <2>3 DEF ClaimLateDrift, OwedInv, DueOpen
    <3>2. \A v \in Workers : (pc'[v] = pc[v] /\ note'[v] = note[v]) \/ pc'[v] = "idle"
      BY <1>14, <2>3 DEF ClaimLateDrift, Ack, TypeInv, TypeOK
    <3> QED BY <2>1, <2>2, <3>1, <3>2 DEF OwedInv, DueOpen
  <2>4. CASE ~lateNotified
    <3>1. ~due'
      BY <1>14, <2>4 DEF ClaimLateDrift
    <3>2. \A v \in Workers : pc'[v] \in {"post", "release"} /\ note'[v] = "owed" =>
                              (pc[v] \in {"post", "release"} /\ note[v] = "owed") \/ due
      BY <1>14, <2>4 DEF ClaimLateDrift, Ack, Goto, TypeInv, TypeOK
    <3> QED BY <2>1, <2>2, <3>1, <3>2 DEF OwedInv, DueOpen
  <2> QED BY <2>3, <2>4
<1>15. ASSUME NEW w \in Workers, PostNotices(w) PROVE OwedInv'
  BY <1>15, OwedKept DEF PostNotices, Ack, Paying, TypeInv, TypeOK
<1>16. ASSUME NEW w \in Workers, SlackFails(w) PROVE OwedInv'
  BY <1>16, OwedKept DEF SlackFails, Goto, Paying, TypeInv, TypeOK
<1>17. ASSUME NEW w \in Workers, ReleaseClaim(w) PROVE OwedInv'
  <2>1. CASE Kind(w) = "notify"
    BY <1>17, <2>1, OwedKept DEF ReleaseClaim, Goto, Paying, TypeInv, TypeOK
  <2>2. CASE Kind(w) # "notify"
    <3>1. Kind(w) = "lateNotify" /\ lineage > 0
      BY <1>17, <2>2 DEF ReleaseClaim, InHand, TypeInv, OwedInv, LineageBehind
    <3>2. LineageBehind'
      BY <1>17, <3>1 DEF ReleaseClaim, LineageBehind
    <3>3. DueOpen'
      BY <1>17, <2>2, <3>1 DEF ReleaseClaim, Goto, OwedInv, DueOpen, TypeInv, TypeOK
    <3>4. Paying(w)'
      BY <1>17, <3>1 DEF ReleaseClaim, Goto, Paying, Kind, TypeInv, TypeOK
    <3> QED BY <3>2, <3>3, <3>4 DEF OwedInv, WillPay
  <2> QED BY <2>1, <2>2
<1>18. ASSUME NEW w \in Workers, Retry(w) PROVE OwedInv'
  <2>0. Kind(w) \in {"notify", "lateNotify"} /\ task[w][2] \in 0..MaxRetries
    BY <1>18 DEF Retry, InHand, Kind, TypeInv
  <2>1. \/ raised' /\ UNCHANGED queue
        \/ \E k \in {"notify", "lateNotify"}, n \in 0..MaxRetries : k = Kind(w) /\ Put(<<k, n>>)
    <3>1. task[w][2] < MaxRetries => task[w][2] + 1 \in 0..MaxRetries
      BY <2>0, GateBounds
    <3> QED BY <1>18, <2>0, <3>1 DEF Retry
  <2>2. CASE raised' /\ UNCHANGED queue
    BY <1>18, <2>2, OwedKept DEF Retry, Ack, TypeInv, TypeOK
  <2>3. ASSUME NEW k \in {"notify", "lateNotify"}, NEW n \in 0..MaxRetries, k = Kind(w), Put(<<k, n>>)
        PROVE  OwedInv'
    <3>1. queue'[<<k, n>>] > 0 /\ \A m \in Messages : queue[m] > 0 => queue'[m] > 0
      BY <2>3, MessagePut
    <3>2. \A m \in Messages : queue'[m] > 0 /\ m[1] \in {"catchup", "lateNotify"} => queue[m] > 0 \/ lineage > 0
      BY <1>18, <2>3 DEF Retry, Put, OwedInv, LineageBehind, TypeInv, TypeOK
    <3>3. Paying(w) => WillPay'
      BY <1>18, <2>3, <3>1 DEF Retry, Paying, WillPay, InHand, TypeInv
    <3> QED BY <1>18, <3>1, <3>2, <3>3, OwedKept DEF Retry, Ack, TypeInv, TypeOK
  <2> QED BY <2>1, <2>2, <2>3
<1>19. ASSUME NEW w \in Workers, WorkerDies(w) PROVE OwedInv'
  <2>1. task[w] \in Messages
    BY <1>19 DEF WorkerDies, InHand, TypeInv
  <2>2. queue'[task[w]] > 0 /\ \A m \in Messages : queue[m] > 0 => queue'[m] > 0
    BY <1>19, <2>1, MessagePut DEF WorkerDies
  <2>3. \A m \in Messages : queue'[m] > 0 /\ m[1] \in {"catchup", "lateNotify"} => queue[m] > 0 \/ lineage > 0
    BY <1>19, <2>1 DEF WorkerDies, Put, OwedInv, LineageBehind, Kind, TypeInv, TypeOK
  <2>4. Paying(w) => Kind(w) \in {"extraction", "catchup", "lateNotify"}
    BY DEF Paying, InHand, TypeInv
  <2>5. Paying(w) => WillPay'
    BY <2>1, <2>2, <2>4 DEF WillPay, Kind
  <2> QED BY <1>19, <2>2, <2>3, <2>5, OwedKept DEF WorkerDies, Ack, TypeInv, TypeOK
<1>20. ASSUME NEW w \in Workers, TaskRaises(w) PROVE OwedInv'
  BY <1>20, OwedKept DEF TaskRaises, Ack, TypeInv, TypeOK
<1>21. ASSUME NEW w \in Workers, Redelivered(w) PROVE OwedInv'
  <2>1. task[w] \in Messages
    BY <1>21 DEF Redelivered, InHand, TypeInv
  <2>2. \A m \in Messages : queue[m] > 0 => queue'[m] > 0
    BY <1>21, <2>1, MessagePut DEF Redelivered
  <2>3. \A m \in Messages : queue'[m] > 0 /\ m[1] \in {"catchup", "lateNotify"} => queue[m] > 0 \/ lineage > 0
    BY <1>21, <2>1 DEF Redelivered, Put, OwedInv, LineageBehind, Kind, TypeInv, TypeOK
  <2> QED BY <1>21, <2>2, <2>3 DEF Redelivered, OwedInv, LineageBehind, DueOpen, WillPay, Paying, Kind
<1>22. ASSUME NEW k \in Deriving, Event(k) PROVE OwedInv'
  <2>1. <<k, 0>> \in Messages /\ k \notin {"catchup", "lateNotify"}
    BY DEF Deriving, Linking
  <2>2. \A m \in Messages : queue[m] > 0 => queue'[m] > 0
    BY <1>22, <2>1, MessagePut DEF Event
  <2>3. \A m \in Messages : queue'[m] > 0 /\ m[1] \in {"catchup", "lateNotify"} => queue[m] > 0
    BY <1>22, <2>1 DEF Event, Put, TypeInv, TypeOK
  <2> QED BY <1>22, <2>2, <2>3 DEF Event, OwedInv, LineageBehind, DueOpen, WillPay, Paying, Kind
<1>23. CASE DeadlinePasses
  BY <1>23 DEF DeadlinePasses, OwedInv, LineageBehind, DueOpen, WillPay, Paying, Kind
<1>24. CASE SlackChanges
  BY <1>24 DEF SlackChanges, OwedInv, LineageBehind, DueOpen, WillPay, Paying, Kind
<1>25. CASE UNCHANGED vars
  BY <1>25 DEF vars, OwedInv, LineageBehind, DueOpen, WillPay, Paying, Kind
<1> QED
  BY <1>1, <1>2, <1>3, <1>4, <1>5, <1>6, <1>7, <1>8, <1>9, <1>10, <1>11, <1>12, <1>13, <1>14, <1>15,
     <1>16, <1>17, <1>18, <1>19, <1>20, <1>21, <1>22, <1>23, <1>24, <1>25
     DEF Next, Step, Mishap, TranscriptReady, ExtractionCompleted, RederiveTopics, Deriving, Linking

-----------------------------------------------------------------------------
(* WarnedOnce.  While Slack holds steady no claim is ever given back, so   *)
(* one task at most has each in hand.  The first notices carry the drift   *)
(* only when no late warning is, or can become, due.                       *)

Catching == {"catchup", "lateNotify"}
LateOpen == due \/ lateNotified
Settled == lineage > 0 /\ ~due /\ ~lateNotified

\* Wherever a late warning is under way, it is owed or claimed.
LateAlive ==
    /\ \A m \in Messages : queue[m] > 0 /\ m[1] \in Catching => LateOpen
    /\ \A w \in Workers :
         /\ pc[w] # "idle" /\ Kind(w) \in Catching => LateOpen
         /\ pc[w] = "routed" /\ note[w] = "late" => LateOpen

\* What a worker about to post holds, and nobody else.
Holds(w) ==
    /\ Kind(w) = "notify" => notified /\ topicPosts = 0
    /\ Kind(w) = "lateNotify" => lateNotified
    /\ note[w] = "both" => Settled
    /\ CarriesDrift(w) => driftPosts = 0
    /\ \A v \in Workers : v # w /\ pc[v] = "post" => Kind(v) # Kind(w)

Posted ==
    /\ topicPosts <= 1 /\ driftPosts <= 1
    /\ topicPosts > 0 => notified
    /\ driftPosts > 0 => lateNotified \/ (Settled /\ notified)

OnceFacts ==
    /\ \A w \in Workers : pc[w] \notin {"release", "retry"}
    /\ slack => LateAlive
    /\ ~slack => topicPosts = 0 /\ driftPosts = 0 /\ \A w \in Workers : pc[w] # "post"
    /\ \A w \in Workers : pc[w] = "post" => Holds(w)
    /\ Posted
OnceInv == steady => OnceFacts

LEMMA OnceInit == Init => OnceInv
BY DEF Init, OnceInv, OnceFacts, LateAlive, Posted

LEMMA OnceImplies == OnceInv => WarnedOnce
BY DEF OnceInv, OnceFacts, Posted, WarnedOnce

\* A step of worker w that leaves the lineage, the claims of the late warning
\* and what was posted alone, and claims nothing.
LEMMA OnceKept ==
    ASSUME TypeInv, OnceInv, NEW w \in Workers,
           UNCHANGED <<lineage, due, lateNotified, slack, topicPosts, driftPosts>>,
           steady' => steady, notified => notified',
           \A m \in Messages :
             slack /\ steady /\ queue'[m] > 0 /\ m[1] \in Catching => queue[m] > 0 \/ LateOpen,
           \A v \in Workers \ {w} : pc'[v] = pc[v] /\ task'[v] = task[v] /\ note'[v] = note[v],
           pc'[w] \notin {"post", "release", "retry"},
           pc'[w] # "idle" => pc[w] # "idle" /\ task'[w] = task[w],
           pc'[w] = "routed" => note'[w] # "late"
    PROVE  OnceInv'
<1> SUFFICES ASSUME steady' PROVE OnceFacts'
  BY DEF OnceInv, OnceFacts
<1>1. slack => LateAlive'
  BY DEF OnceInv, OnceFacts, LateAlive, LateOpen, Kind
<1>2. \A v \in Workers : pc'[v] = "post" => v # w /\ pc[v] = "post" /\ Holds(v)
  BY DEF OnceInv, OnceFacts
<1>3. \A v \in Workers : pc'[v] = "post" => Holds(v)'
  BY <1>2 DEF Holds, Settled, Kind, CarriesDrift
<1>4. Posted'
  BY DEF OnceInv, OnceFacts, Posted, Settled
<1>5. \A v \in Workers : pc'[v] \notin {"release", "retry"}
  BY DEF OnceInv, OnceFacts
<1> QED BY <1>1, <1>2, <1>3, <1>4, <1>5 DEF OnceInv, OnceFacts

LEMMA OnceWritten ==
    ASSUME TypeInv, OwedInv, OnceInv, NEW w \in Workers, NEW b \in BOOLEAN,
           LineageWritten(w, b), pc[w] \in {"start", "insert"}, Kind(w) = "extraction",
           UNCHANGED <<slack, topicPosts, driftPosts, steady, queue>>
    PROVE  OnceInv'
<1> SUFFICES ASSUME steady' PROVE OnceFacts'
  BY DEF OnceInv, OnceFacts
<1>1. lineage \in Nat /\ lineage' = lineage + 1 /\ (due => due') /\ UNCHANGED <<lateNotified, notified>>
  BY GateBounds DEF LineageWritten, TypeInv, TypeOK, Generations, MaxRuns
<1>2. Settled => Settled'
  BY <1>1 DEF LineageWritten, Settled, TypeInv, TypeOK
<1>3. /\ pc'[w] = "routed" /\ (note'[w] = "late" => due') /\ task' = task
      /\ \A v \in Workers \ {w} : pc'[v] = pc[v] /\ note'[v] = note[v]
  BY DEF LineageWritten, Goto, TypeInv, TypeOK
<1>4. slack => LateAlive'
  BY <1>1, <1>3 DEF OnceInv, OnceFacts, LateAlive, LateOpen, Kind, Catching
<1>5. \A v \in Workers : pc'[v] = "post" => v # w /\ pc[v] = "post" /\ Holds(v)
  BY <1>3 DEF OnceInv, OnceFacts
<1>6. \A v \in Workers : pc'[v] = "post" => Holds(v)'
  BY <1>1, <1>2, <1>3, <1>5 DEF Holds, Kind, CarriesDrift
<1>7. Posted'
  BY <1>1, <1>2 DEF OnceInv, OnceFacts, Posted
<1> QED BY <1>3, <1>4, <1>5, <1>6, <1>7 DEF OnceInv, OnceFacts

LEMMA OnceStep == TypeInv /\ OwedInv /\ OnceInv /\ [Next]_vars => OnceInv'
<1> SUFFICES ASSUME TypeInv, OwedInv, OnceInv, [Next]_vars PROVE OnceInv'
  OBVIOUS
<1> USE MessageShape DEF status, content, posts, procs
<1>1. ASSUME NEW w \in Workers, Take(w) PROVE OnceInv'
  <2>1. PICK m \in Messages : /\ queue[m] > 0 /\ task' = [task EXCEPT ![w] = m]
                              /\ queue' = [queue EXCEPT ![m] = @ - 1]
    BY <1>1 DEF Take
  <2>2. \A k \in Messages : queue'[k] > 0 => queue[k] > 0
    BY <2>1 DEF TypeInv, TypeOK
  <2>3. LateAlive => LateAlive'
    BY <1>1, <2>1, <2>2 DEF Take, LateAlive, LateOpen, Kind, TypeInv, TypeOK
  <2>4. \A v \in Workers : pc'[v] = "post" => pc[v] = "post" /\ task'[v] = task[v]
    BY <1>1, <2>1 DEF Take, TypeInv, TypeOK
  <2>5. steady => \A v \in Workers : pc'[v] = "post" => Holds(v)'
    BY <1>1, <2>4 DEF Take, OnceInv, OnceFacts, Holds, Settled, Kind, CarriesDrift
  <2>6. \A v \in Workers : pc'[v] \in {"release", "retry"} => pc[v] = pc'[v]
    BY <1>1 DEF Take, TypeInv, TypeOK
  <2> QED BY <1>1, <2>3, <2>4, <2>5, <2>6 DEF Take, OnceInv, OnceFacts, Posted, Settled
<1>2. ASSUME NEW w \in Workers, LinkTopics(w) PROVE OnceInv'
  BY <1>2, OnceKept DEF LinkTopics, LinksWritten, Goto, TypeInv, TypeOK
<1>3. ASSUME NEW w \in Workers, RederiveRefused(w) PROVE OnceInv'
  BY <1>3, OnceKept DEF RederiveRefused, Ack, TypeInv, TypeOK
<1>4. ASSUME NEW w \in Workers, RouteLinks(w) PROVE OnceInv'
  <2>1. PICK k \in {"republish", "check"} : Put(<<k, 0>>)
    BY <1>4 DEF RouteLinks
  <2>2. \A m \in Messages : queue'[m] > 0 /\ m[1] \in Catching => queue[m] > 0
    BY <2>1 DEF Put, Catching, TypeInv, TypeOK
  <2> QED BY <1>4, <2>2, OnceKept DEF RouteLinks, Ack, Goto, TypeInv, TypeOK
<1>5. ASSUME NEW w \in Workers, ArmFallback(w) PROVE OnceInv'
  <2>1. \A m \in Messages : queue'[m] > 0 /\ m[1] \in Catching => queue[m] > 0
    BY <1>5 DEF ArmFallback, Put, Catching, TypeInv, TypeOK
  <2> QED BY <1>5, <2>1, OnceKept DEF ArmFallback, Ack, TypeInv, TypeOK
<1>6. ASSUME NEW w \in Workers, BuildLineage(w) PROVE OnceInv'
  <2>1. CASE RowExists
    BY <1>6, <2>1, OnceWritten DEF BuildLineage, TypeInv, TypeOK
  <2>2. CASE ~RowExists
    BY <1>6, <2>2, OnceKept DEF BuildLineage, Goto, TypeInv, TypeOK
  <2> QED BY <2>1, <2>2
<1>7. ASSUME NEW w \in Workers, RouteLineage(w) PROVE OnceInv'
  <2>1. PICK k \in {"republish", "catchup", "check"} :
          Put(<<k, 0>>) /\ (k = "catchup" => note[w] = "late")
    BY <1>7 DEF RouteLineage, InHand, TypeInv, Linking
  <2>2. k = "catchup" /\ slack /\ steady => LateOpen
    BY <1>7, <2>1 DEF RouteLineage, OnceInv, OnceFacts, LateAlive
  <2>3. \A m \in Messages :
          slack /\ steady /\ queue'[m] > 0 /\ m[1] \in Catching => queue[m] > 0 \/ LateOpen
    BY <2>1, <2>2 DEF Put, Catching, TypeInv, TypeOK
  <2> QED BY <1>7, <2>3, OnceKept DEF RouteLineage, Ack, TypeInv, TypeOK
<1>8. ASSUME NEW w \in Workers, InsertStatus(w) PROVE OnceInv'
  <2>1. CASE Kind(w) = "extraction"
    BY <1>8, <2>1, OnceWritten DEF InsertStatus
  <2>2. CASE Kind(w) # "extraction"
    BY <1>8, <2>2, OnceKept DEF InsertStatus, LinksWritten, Goto, TypeInv, TypeOK
  <2> QED BY <2>1, <2>2
<1>9. ASSUME NEW w \in Workers, InsertConflicts(w) PROVE OnceInv'
  BY <1>9, OnceKept DEF InsertConflicts, Ack, TypeInv, TypeOK
<1>10. ASSUME NEW w \in Workers, PublishIfReady(w) PROVE OnceInv'
  BY <1>10, OnceKept DEF PublishIfReady, PublishTask, Ack, Goto, TypeInv, TypeOK
<1>11. ASSUME NEW w \in Workers, NotReady(w) PROVE OnceInv'
  BY <1>11, OnceKept DEF NotReady, Ack, TypeInv, TypeOK
<1>12. ASSUME NEW w \in Workers, Announce(w) PROVE OnceInv'
  <2>1. PICK k \in {"lateNotify", "notify"} : Put(<<k, 0>>) /\ (k = "lateNotify" => Kind(w) = "catchup")
    BY <1>12 DEF Announce
  <2>2. k = "lateNotify" /\ slack /\ steady => LateOpen
    BY <1>12, <2>1 DEF Announce, OnceInv, OnceFacts, LateAlive, Catching
  <2>3. \A m \in Messages :
          slack /\ steady /\ queue'[m] > 0 /\ m[1] \in Catching => queue[m] > 0 \/ LateOpen
    BY <2>1, <2>2 DEF Put, Catching, TypeInv, TypeOK
  <2> QED BY <1>12, <2>3, OnceKept DEF Announce, Ack, TypeInv, TypeOK
<1>13. ASSUME NEW w \in Workers, ClaimNotice(w) PROVE OnceInv'
  <2>1. CASE notified \/ ~slack
    BY <1>13, <2>1, OnceKept DEF ClaimNotice, Ack, TypeInv, TypeOK
  <2>2. CASE ~notified /\ slack /\ steady
    <3>1. /\ pc'[w] = "post" /\ note'[w] \in {"both", "topics"} /\ task' = task /\ pc[w] = "start"
          /\ note'[w] = "both" => Settled
          /\ \A v \in Workers \ {w} : pc'[v] = pc[v] /\ note'[v] = note[v]
          /\ UNCHANGED <<lineage, due, lateNotified, slack, steady, topicPosts, driftPosts, queue>>
          /\ notified' /\ Kind(w) = "notify"
      BY <1>13, <2>2 DEF ClaimNotice, Goto, DriftHere, Settled, TypeInv, TypeOK
    <3>2. topicPosts = 0 /\ (Settled => driftPosts = 0)
      BY <2>2 DEF OnceInv, OnceFacts, Posted, Settled, TypeInv, TypeOK
    <3>3. \A v \in Workers : pc[v] = "post" => Kind(v) # "notify" /\ Holds(v)
      BY <2>2 DEF OnceInv, OnceFacts, Holds
    <3>4. Holds(w)'
      BY <3>1, <3>2, <3>3 DEF Holds, Settled, Kind, CarriesDrift
    <3>5. \A v \in Workers : v # w /\ pc'[v] = "post" => Holds(v)'
      BY <3>1, <3>3 DEF Holds, Settled, Kind, CarriesDrift
    <3>6. LateAlive'
      BY <2>2, <3>1 DEF OnceInv, OnceFacts, LateAlive, LateOpen, Kind
    <3>7. Posted'
      BY <2>2, <3>1 DEF OnceInv, OnceFacts, Posted, Settled
    <3>8. \A v \in Workers : pc'[v] \notin {"release", "retry"}
      BY <2>2, <3>1 DEF OnceInv, OnceFacts
    <3> QED BY <2>2, <3>1, <3>4, <3>5, <3>6, <3>7, <3>8 DEF OnceInv, OnceFacts
  <2> QED BY <1>13, <2>1, <2>2 DEF ClaimNotice, OnceInv, OnceFacts
<1>14. ASSUME NEW w \in Workers, ClaimLateDrift(w) PROVE OnceInv'
  <2>1. CASE lateNotified
    BY <1>14, <2>1, OnceKept DEF ClaimLateDrift, Ack, TypeInv, TypeOK
  <2>2. CASE ~lateNotified /\ ~slack /\ steady
    <3>1. \A v \in Workers : pc'[v] = pc[v] \/ pc'[v] = "idle"
      BY <1>14, <2>2 DEF ClaimLateDrift, Ack, TypeInv, TypeOK
    <3> QED BY <1>14, <2>2, <3>1 DEF ClaimLateDrift, OnceInv, OnceFacts, Posted, TypeInv, TypeOK
  <2>3. CASE ~lateNotified /\ slack /\ steady
    <3>1. /\ pc'[w] = "post" /\ note'[w] \in {"owed", "unowed"} /\ task' = task /\ pc[w] = "start"
          /\ \A v \in Workers \ {w} : pc'[v] = pc[v] /\ note'[v] = note[v]
          /\ UNCHANGED <<lineage, notified, slack, steady, topicPosts, driftPosts, queue>>
          /\ lateNotified' /\ Kind(w) = "lateNotify"
      BY <1>14, <2>3 DEF ClaimLateDrift, Goto, TypeInv, TypeOK
    <3>2. due
      BY <2>3, <3>1 DEF OnceInv, OnceFacts, LateAlive, LateOpen, Catching
    <3>3. driftPosts = 0
      BY <2>3, <3>2 DEF OnceInv, OnceFacts, Posted, Settled, TypeInv, TypeOK
    <3>4. \A v \in Workers : pc[v] = "post" => Kind(v) # "lateNotify" /\ note[v] # "both" /\ Holds(v)
      BY <2>3, <3>2 DEF OnceInv, OnceFacts, Holds, Settled
    <3>5. Holds(w)'
      BY <3>1, <3>3, <3>4 DEF Holds, Kind, CarriesDrift
    <3>6. \A v \in Workers : v # w /\ pc'[v] = "post" => Holds(v)'
      BY <3>1, <3>3, <3>4 DEF Holds, Kind, CarriesDrift
    <3>7. LateAlive'
      BY <3>1 DEF LateAlive, LateOpen
    <3>8. Posted'
      BY <2>3, <3>1 DEF OnceInv, OnceFacts, Posted
    <3>9. \A v \in Workers : pc'[v] \notin {"release", "retry"}
      BY <2>3, <3>1 DEF OnceInv, OnceFacts
    <3> QED BY <2>3, <3>1, <3>5, <3>6, <3>7, <3>8, <3>9 DEF OnceInv, OnceFacts
  <2> QED BY <1>14, <2>1, <2>2, <2>3 DEF ClaimLateDrift, OnceInv, OnceFacts
<1>15. ASSUME NEW w \in Workers, PostNotices(w), steady PROVE OnceInv'
  <2>1. /\ Holds(w) /\ pc[w] = "post" /\ pc'[w] = "idle"
        /\ \A v \in Workers \ {w} : pc'[v] = pc[v] /\ note'[v] = note[v] /\ task'[v] = task[v]
        /\ UNCHANGED <<lineage, due, lateNotified, notified, slack, steady, queue>>
    BY <1>15 DEF PostNotices, Ack, OnceInv, OnceFacts, TypeInv, TypeOK
  <2>2. \/ Kind(w) = "notify" /\ note[w] \in {"topics", "both"}
        \/ Kind(w) = "lateNotify" /\ note[w] \in {"owed", "unowed"}
    BY <2>1 DEF TypeInv, InHand
  <2>3. \A v \in Workers : v # w /\ pc[v] = "post" =>
          /\ Holds(v) /\ Kind(v) # Kind(w)
          /\ \/ Kind(v) = "notify" /\ note[v] \in {"topics", "both"}
             \/ Kind(v) = "lateNotify" /\ note[v] \in {"owed", "unowed"}
    BY <1>15, <2>1 DEF OnceInv, OnceFacts, Holds, TypeInv, InHand
  <2>4. \A v \in Workers : v # w /\ pc[v] = "post" => ~(CarriesDrift(v) /\ CarriesDrift(w))
    BY <2>1, <2>2, <2>3 DEF Holds, CarriesDrift, Settled
  <2>5. \A v \in Workers : pc'[v] = "post" => Holds(v)'
    <3> SUFFICES ASSUME NEW v \in Workers, pc'[v] = "post" PROVE Holds(v)'
      OBVIOUS
    <3>1. v # w /\ pc[v] = "post" /\ Holds(v) /\ Kind(v) # Kind(w)
      BY <2>1, <2>3
    <3>2. Kind(v) = "notify" => topicPosts' = 0
      BY <1>15, <2>2, <3>1 DEF PostNotices, CarriesTopics, Holds, TypeInv, TypeOK
    <3>3. CarriesDrift(v) => driftPosts' = 0
      BY <1>15, <2>4, <3>1 DEF PostNotices, Holds, TypeInv, TypeOK
    <3> QED BY <2>1, <3>1, <3>2, <3>3 DEF Holds, Kind, CarriesDrift, Settled
  <2>6. Posted'
    BY <1>15, <2>1, <2>2 DEF PostNotices, CarriesTopics, CarriesDrift, Holds, OnceInv, OnceFacts, Posted, Settled,
       TypeInv, TypeOK
  <2>7. LateAlive => LateAlive'
    BY <2>1 DEF LateAlive, LateOpen, Kind
  <2>8. slack
    BY <1>15, <2>1 DEF OnceInv, OnceFacts
  <2> QED BY <1>15, <2>1, <2>5, <2>6, <2>7, <2>8 DEF OnceInv, OnceFacts
<1>16. ASSUME NEW w \in Workers, SlackFails(w) PROVE OnceInv'
  BY <1>16 DEF SlackFails, OnceInv, OnceFacts
<1>17. ASSUME NEW w \in Workers, ReleaseClaim(w) \/ Retry(w) \/ (PostNotices(w) /\ ~steady) PROVE OnceInv'
  BY <1>17 DEF ReleaseClaim, Retry, PostNotices, OnceInv, OnceFacts
<1>18. ASSUME NEW w \in Workers, WorkerDies(w) PROVE OnceInv'
  <2>1. \A m \in Messages :
          slack /\ steady /\ queue'[m] > 0 /\ m[1] \in Catching => queue[m] > 0 \/ LateOpen
    <3>1. task[w] \in Messages
      BY <1>18 DEF WorkerDies, InHand, TypeInv
    <3> QED BY <1>18, <3>1 DEF WorkerDies, Put, OnceInv, OnceFacts, LateAlive, Kind, TypeInv, TypeOK
  <2> QED BY <1>18, <2>1, OnceKept DEF WorkerDies, Ack, TypeInv, TypeOK
<1>19. ASSUME NEW w \in Workers, TaskRaises(w) PROVE OnceInv'
  BY <1>19, OnceKept DEF TaskRaises, Ack, TypeInv, TypeOK
<1>20. ASSUME NEW w \in Workers, Redelivered(w) PROVE OnceInv'
  <2>1. \A m \in Messages :
          slack /\ steady /\ queue'[m] > 0 /\ m[1] \in Catching => queue[m] > 0 \/ LateOpen
    <3>1. task[w] \in Messages
      BY <1>20 DEF Redelivered, InHand, TypeInv
    <3> QED BY <1>20, <3>1 DEF Redelivered, Put, OnceInv, OnceFacts, LateAlive, Kind, TypeInv, TypeOK
  <2> QED BY <1>20, <2>1 DEF Redelivered, OnceInv, OnceFacts, LateAlive, LateOpen, Holds, Posted, Settled, Kind, CarriesDrift
<1>21. ASSUME NEW k \in Deriving, Event(k) PROVE OnceInv'
  <2>1. \A m \in Messages : queue'[m] > 0 /\ m[1] \in Catching => queue[m] > 0
    BY <1>21 DEF Event, Put, Deriving, Linking, Catching, TypeInv, TypeOK
  <2> QED BY <1>21, <2>1 DEF Event, OnceInv, OnceFacts, LateAlive, LateOpen, Holds, Posted, Settled, Kind, CarriesDrift
<1>22. CASE DeadlinePasses
  BY <1>22 DEF DeadlinePasses, OnceInv, OnceFacts, LateAlive, LateOpen, Holds, Posted, Settled, Kind, CarriesDrift
<1>23. CASE SlackChanges
  BY <1>23 DEF SlackChanges, OnceInv, OnceFacts
<1>24. CASE UNCHANGED vars
  BY <1>24 DEF vars, OnceInv, OnceFacts, LateAlive, LateOpen, Holds, Posted, Settled, Kind, CarriesDrift
<1> QED
  BY <1>1, <1>2, <1>3, <1>4, <1>5, <1>6, <1>7, <1>8, <1>9, <1>10, <1>11, <1>12, <1>13, <1>14, <1>15,
     <1>16, <1>17, <1>18, <1>19, <1>20, <1>21, <1>22, <1>23, <1>24
     DEF Next, Step, Mishap, TranscriptReady, ExtractionCompleted, RederiveTopics, Deriving, Linking

-----------------------------------------------------------------------------
(* The theorems                                                            *)

\* TypeOK, for any number of workers, events, faults and retries.
THEOREM TypeCorrect == Spec => []TypeOK
<1>1. Init => TypeInv BY TypeInit
<1>2. TypeInv /\ [Next]_vars => TypeInv' BY TypeStep
<1>3. TypeInv => TypeOK BY DEF TypeInv
<1> QED BY <1>1, <1>2, <1>3, PTL DEF Spec

LEMMA TypeAlways == Spec => []TypeInv
<1>1. Init => TypeInv BY TypeInit
<1>2. TypeInv /\ [Next]_vars => TypeInv' BY TypeStep
<1> QED BY <1>1, <1>2, PTL DEF Spec

LEMMA StaleAlways == Spec => []StaleInv
<1>1. Init => StaleInv BY StaleInit
<1>2. TypeInv /\ StaleInv /\ [Next]_vars => StaleInv' BY StaleStep
<1> QED BY <1>1, <1>2, TypeAlways, PTL DEF Spec

\* StaleIsCovered: no order of reruns, publishes, deaths and redeliveries
\* leaves E with rows that a rerun replaced and nobody on the way to resend.
THEOREM StaleCovered == Spec => []StaleIsCovered
<1>1. StaleInv => StaleIsCovered BY StaleImplies
<1> QED BY <1>1, StaleAlways, PTL

LEMMA OwedAlways == Spec => []OwedInv
<1>1. Init => OwedInv BY OwedInit
<1>2. TypeInv /\ StaleInv /\ OwedInv /\ [Next]_vars => OwedInv' BY OwedStep
<1> QED BY <1>1, <1>2, TypeAlways, StaleAlways, PTL DEF Spec

\* OwedIsCovered: a drift warning owed to the team is in somebody's hands until
\* it is paid, whichever worker died since the lineage was committed.
THEOREM OwedCovered == Spec => []OwedIsCovered
<1>1. OwedInv => OwedIsCovered BY OwedImplies
<1> QED BY <1>1, OwedAlways, PTL

\* WarnedOnce: neither redelivery nor the race of the two notices warns the
\* team twice, as long as Slack neither fails halfway nor comes or goes.
THEOREM WarnsOnce == Spec => []WarnedOnce
<1>1. Init => OnceInv BY OnceInit
<1>2. TypeInv /\ OwedInv /\ OnceInv /\ [Next]_vars => OnceInv' BY OnceStep
<1>3. OnceInv => WarnedOnce BY OnceImplies
<1> QED BY <1>1, <1>2, <1>3, TypeAlways, OwedAlways, PTL DEF Spec

-----------------------------------------------------------------------------
(* What was sent, and who was told                                         *)

\* What the task of a message takes for granted.
Follows(m) ==
    /\ m[1] = "notify" => published
    /\ m[1] = "lateNotify" => sent[2] > 0

\* What a task under way takes for granted.
Told(w) ==
    /\ pc[w] # "idle" => Follows(task[w])
    /\ pc[w] = "announce" => published
    /\ pc[w] = "announce" /\ Kind(w) = "catchup" => sent[2] > 0
    /\ pc[w] = "post" /\ CarriesDrift(w) => sent[2] > 0

\* A lineage a published meeting is not owed has been sent.
Out ==
    /\ sent[1] <= links /\ sent[2] <= lineage
    /\ published => sent[1] > 0
    /\ published /\ lineage > 0 /\ ~due => sent[2] > 0

SentInv ==
    /\ Out
    /\ \A m \in Messages : queue[m] > 0 => Follows(m)
    /\ \A w \in Workers : Told(w)
    /\ NoticesFollowSending

\* Numbers, once for all.
LEMMA SentNat ==
    ASSUME TypeInv
    PROVE  /\ links \in Nat /\ lineage \in Nat /\ sent[1] \in Nat /\ sent[2] \in Nat
           /\ topicPosts \in Nat /\ driftPosts \in Nat /\ sent = <<sent[1], sent[2]>>
BY GateBounds DEF TypeInv, TypeOK, Generations, MaxRuns

\* A step of worker w that publishes nothing.
LEMMA SentKept ==
    ASSUME TypeInv, SentInv, NEW w \in Workers,
           UNCHANGED <<sent, published>>, Out',
           \A m \in Messages : queue'[m] > 0 => queue[m] > 0 \/ Follows(m),
           \A v \in Workers \ {w} : pc'[v] = pc[v] /\ task'[v] = task[v] /\ note'[v] = note[v],
           pc'[w] # "idle" => pc[w] # "idle" /\ task'[w] = task[w],
           pc'[w] # "announce",
           pc'[w] = "post" /\ note'[w] \in {"both", "owed", "unowed"} => sent[2] > 0,
           topicPosts' > 0 => topicPosts > 0 \/ published,
           driftPosts' > 0 => driftPosts > 0 \/ sent[2] > 0
    PROVE  SentInv'
<1>1. \A m : Follows(m)' <=> Follows(m)
  BY DEF Follows
<1>2. \A m \in Messages : queue'[m] > 0 => Follows(m)'
  BY <1>1 DEF SentInv
<1>3. \A v \in Workers : v # w => Told(v)'
  BY <1>1 DEF SentInv, Told, Kind, CarriesDrift
<1>4. Told(w)'
  BY <1>1 DEF SentInv, Told, Kind, CarriesDrift
<1>5. NoticesFollowSending'
  BY DEF SentInv, NoticesFollowSending
<1> QED BY <1>2, <1>3, <1>4, <1>5 DEF SentInv

\* Out is kept by what neither writes a half nor settles what is owed.
LEMMA OutKept ==
    ASSUME TypeInv, SentInv, UNCHANGED <<sent, published, content, due>>
    PROVE  Out'
BY DEF SentInv, Out, content

\* The two halves' commits only add to what is to be sent.
LEMMA OutLinks ==
    ASSUME TypeInv, SentInv, NEW w \in Workers, NEW o, LinksWritten(w, o), UNCHANGED sent
    PROVE  Out'
<1>1. links' = links + 1 /\ UNCHANGED <<lineage, published, due>>
  BY DEF LinksWritten
<1> QED BY <1>1, SentNat DEF SentInv, Out

LEMMA OutLineage ==
    ASSUME TypeInv, SentInv, NEW w \in Workers, NEW b \in BOOLEAN, LineageWritten(w, b), UNCHANGED sent,
           published => b
    PROVE  Out'
<1>1. /\ lineage' = lineage + 1 /\ UNCHANGED <<links, published>>
      /\ due' = (due \/ (b /\ lineage = 0))
  BY DEF LineageWritten
<1>2. published /\ ~due' => lineage > 0 /\ ~due
  <2>2. due \/ (b /\ lineage = 0) => due'
    BY <1>1
  <2>3. lineage = 0 \/ lineage > 0
    BY SentNat
  <2> QED BY <2>2, <2>3, Zenon
<1>3. sent'[1] <= links' /\ sent'[2] <= lineage'
  BY <1>1, SentNat DEF SentInv, Out
<1>4. published' => sent'[1] > 0
  BY <1>1 DEF SentInv, Out
<1>5. published' /\ lineage' > 0 /\ ~due' => sent'[2] > 0
  BY <1>1, <1>2 DEF SentInv, Out
<1> QED BY <1>3, <1>4, <1>5 DEF Out

\* Sending what the rows say: nothing sent goes back, and nobody is told less.
LEMMA SendMoves ==
    ASSUME TypeInv, SentInv, sent' = content, UNCHANGED <<content, due>>,
           published' => published \/ links > 0
    PROVE  /\ Out' /\ sent'[1] >= sent[1] /\ sent'[2] >= sent[2]
           /\ sent[2] > 0 => sent'[2] > 0
<1>1. sent'[1] = links /\ sent'[2] = lineage /\ links' = links /\ lineage' = lineage
  BY DEF content
<1>2. /\ sent'[1] <= links' /\ sent'[2] <= lineage'
      /\ sent'[1] >= sent[1] /\ sent'[2] >= sent[2]
      /\ sent[2] > 0 => sent'[2] > 0
  BY <1>1, SentNat DEF SentInv, Out
<1>3. published' => sent'[1] > 0
  BY <1>1, SentNat DEF SentInv, Out
<1>4. lineage' > 0 => sent'[2] > 0
  BY <1>1
<1> QED BY <1>2, <1>3, <1>4 DEF Out

\* A task that sends, and then ends, dies or goes on to announce.
LEMMA SentSends ==
    ASSUME TypeInv, SentInv, NEW w \in Workers,
           sent' = content, UNCHANGED <<content, due, topicPosts, driftPosts>>,
           published => published', published' => published \/ links > 0,
           \A m \in Messages : queue'[m] > 0 => queue[m] > 0 \/ m = task[w],
           pc[w] # "idle", pc'[w] \in {"idle", "announce"}, task'[w] \in {None, task[w]},
           \A v \in Workers \ {w} : pc'[v] = pc[v] /\ task'[v] = task[v] /\ note'[v] = note[v],
           pc'[w] = "announce" =>
             task'[w] = task[w] /\ published' /\ (Kind(w) = "catchup" => lineage > 0)
    PROVE  SentInv'
<1>1. Out' /\ (sent[2] > 0 => sent'[2] > 0)
  BY SendMoves
<1>2. \A m : Follows(m) => Follows(m)'
  BY <1>1 DEF Follows
<1>3. sent'[2] = lineage
  BY DEF content
<1>4. \A m \in Messages : queue'[m] > 0 => Follows(m)'
  BY <1>2 DEF SentInv, Told
<1>5. \A v \in Workers : v # w => Told(v)'
  BY <1>1, <1>2 DEF SentInv, Told, Kind, CarriesDrift
<1>6. Told(w)'
  BY <1>2, <1>3 DEF SentInv, Told, Kind, CarriesDrift
<1>7. NoticesFollowSending'
  BY <1>1 DEF SentInv, NoticesFollowSending
<1> QED BY <1>1, <1>4, <1>5, <1>6, <1>7 DEF SentInv

LEMMA SentInit == Init => SentInv
<1> SUFFICES ASSUME Init PROVE SentInv OBVIOUS
<1>1. Out
  BY DEF Init, Out
<1>2. (\A m \in Messages : queue[m] > 0 => Follows(m)) /\ \A w \in Workers : Told(w)
  BY DEF Init, Told
<1> QED BY <1>1, <1>2 DEF Init, SentInv, NoticesFollowSending

\* The steps of worker w that write a half, route it or wait for the other.
LEMMA SentHalf ==
    ASSUME TypeInv, StaleInv, SentInv, NEW w \in Workers,
           LinkTopics(w) \/ RederiveRefused(w) \/ RouteLinks(w) \/ ArmFallback(w)
             \/ BuildLineage(w) \/ RouteLineage(w) \/ InsertStatus(w) \/ InsertConflicts(w)
    PROVE  SentInv'
<1> USE MessageShape DEF status, content, posts, procs
<1>1. CASE LinkTopics(w)
  <2>1. CASE RowExists
    <3>1. PICK o : LinksWritten(w, o) /\ UNCHANGED <<sent, queue, topicPosts, driftPosts>>
      BY <1>1, <2>1 DEF LinkTopics
    <3>2. Out'
      BY <3>1, OutLinks
    <3> QED BY <1>1, <3>1, <3>2, SentKept DEF LinkTopics, LinksWritten, Goto, TypeInv, TypeOK
  <2>2. CASE ~RowExists
    <3>1. UNCHANGED <<sent, published, content, due, queue, topicPosts, driftPosts>>
      BY <1>1, <2>2 DEF LinkTopics
    <3>2. Out'
      BY <3>1, OutKept
    <3> QED BY <1>1, <2>2, <3>1, <3>2, SentKept DEF LinkTopics, Goto, TypeInv, TypeOK
  <2> QED BY <2>1, <2>2
<1>2. CASE RederiveRefused(w)
  <2>1. Out'
    BY <1>2, OutKept DEF RederiveRefused
  <2> QED BY <1>2, <2>1, SentKept DEF RederiveRefused, Ack, TypeInv, TypeOK
<1>3. CASE RouteLinks(w)
  <2>1. PICK k \in {"republish", "check"} : Put(<<k, 0>>)
    BY <1>3 DEF RouteLinks
  <2>2. \A m \in Messages : queue'[m] > 0 => queue[m] > 0 \/ Follows(m)
    BY <2>1 DEF Put, Follows, TypeInv, TypeOK
  <2>3. Out'
    BY <1>3, OutKept DEF RouteLinks
  <2> QED BY <1>3, <2>2, <2>3, SentKept DEF RouteLinks, Ack, Goto, TypeInv, TypeOK
<1>4. CASE ArmFallback(w)
  <2>1. \A m \in Messages : queue'[m] > 0 => queue[m] > 0 \/ Follows(m)
    BY <1>4 DEF ArmFallback, Put, Follows, TypeInv, TypeOK
  <2>2. Out'
    BY <1>4, OutKept DEF ArmFallback
  <2> QED BY <1>4, <2>1, <2>2, SentKept DEF ArmFallback, Ack, TypeInv, TypeOK
<1>5. CASE BuildLineage(w)
  <2>1. CASE RowExists
    <3>1. /\ LineageWritten(w, published) /\ UNCHANGED <<sent, queue, topicPosts, driftPosts>>
          /\ published \in BOOLEAN
      BY <1>5, <2>1 DEF BuildLineage, TypeInv, TypeOK
    <3>2. Out'
      BY <3>1, OutLineage
    <3> QED BY <1>5, <3>1, <3>2, SentKept DEF BuildLineage, LineageWritten, Goto, TypeInv, TypeOK
  <2>2. CASE ~RowExists
    <3>1. UNCHANGED <<sent, published, content, due, queue, topicPosts, driftPosts>>
      BY <1>5, <2>2 DEF BuildLineage
    <3>2. Out'
      BY <3>1, OutKept
    <3> QED BY <1>5, <2>2, <3>1, <3>2, SentKept DEF BuildLineage, Goto, TypeInv, TypeOK
  <2> QED BY <2>1, <2>2
<1>6. CASE RouteLineage(w)
  <2>1. PICK k \in {"republish", "catchup", "check"} : Put(<<k, 0>>)
    BY <1>6 DEF RouteLineage, InHand, TypeInv, Linking
  <2>2. \A m \in Messages : queue'[m] > 0 => queue[m] > 0 \/ Follows(m)
    BY <2>1 DEF Put, Follows, TypeInv, TypeOK
  <2>3. Out'
    BY <1>6, OutKept DEF RouteLineage
  <2> QED BY <1>6, <2>2, <2>3, SentKept DEF RouteLineage, Ack, TypeInv, TypeOK
<1>7. CASE InsertStatus(w)
  <2>0. ~published
    BY <1>7 DEF InsertStatus, StaleInv
  <2>1. CASE Kind(w) = "extraction"
    <3>1. LineageWritten(w, FALSE) /\ UNCHANGED <<sent, queue, topicPosts, driftPosts>>
      BY <1>7, <2>1 DEF InsertStatus
    <3>2. Out'
      BY <2>0, <3>1, OutLineage
    <3> QED BY <1>7, <3>1, <3>2, SentKept DEF InsertStatus, LineageWritten, Goto, TypeInv, TypeOK
  <2>2. CASE Kind(w) # "extraction"
    <3>1. LinksWritten(w, "first") /\ UNCHANGED <<sent, queue, topicPosts, driftPosts>>
      BY <1>7, <2>2 DEF InsertStatus
    <3>2. Out'
      BY <3>1, OutLinks
    <3> QED BY <1>7, <3>1, <3>2, SentKept DEF InsertStatus, LinksWritten, Goto, TypeInv, TypeOK
  <2> QED BY <2>1, <2>2
<1>8. CASE InsertConflicts(w)
  <2>1. Out'
    BY <1>8, OutKept DEF InsertConflicts
  <2> QED BY <1>8, <2>1, SentKept DEF InsertConflicts, Ack, TypeInv, TypeOK
<1> QED BY <1>1, <1>2, <1>3, <1>4, <1>5, <1>6, <1>7, <1>8

\* The steps of worker w that claim, post and retry the notices.
LEMMA SentNotice ==
    ASSUME TypeInv, OwedInv, SentInv, NEW w \in Workers,
           ClaimNotice(w) \/ ClaimLateDrift(w) \/ PostNotices(w) \/ SlackFails(w)
             \/ ReleaseClaim(w) \/ Retry(w)
    PROVE  SentInv'
<1> USE MessageShape DEF status, content, posts, procs
<1>0. /\ Told(w) /\ Out /\ pc[w] # "idle" /\ task[w] \in Messages
      /\ Kind(w) = "notify" => published
      /\ Kind(w) = "lateNotify" => sent[2] > 0
  BY DEF SentInv, Told, Follows, Kind, TypeInv, InHand, ClaimNotice, ClaimLateDrift, PostNotices,
         SlackFails, ReleaseClaim, Retry
<1>1. CASE ClaimNotice(w)
  <2>1. Out'
    BY <1>1, OutKept DEF ClaimNotice
  <2>2. pc'[w] = "post" /\ note'[w] \in {"both", "owed", "unowed"} => sent[2] > 0
    BY <1>0, <1>1 DEF ClaimNotice, Ack, Goto, DriftHere, Out, TypeInv, TypeOK
  <2> QED BY <1>1, <2>1, <2>2, SentKept DEF ClaimNotice, Ack, Goto, TypeInv, TypeOK
<1>2. CASE ClaimLateDrift(w)
  <2>1. Out'
    BY <1>0, <1>2 DEF ClaimLateDrift, Out
  <2> QED BY <1>0, <1>2, <2>1, SentKept DEF ClaimLateDrift, Ack, Goto, TypeInv, TypeOK
<1>3. CASE PostNotices(w) \/ SlackFails(w)
  <2>1. Out'
    BY <1>3, OutKept DEF PostNotices, SlackFails
  <2>2. /\ topicPosts' > 0 => topicPosts > 0 \/ published
        /\ driftPosts' > 0 => driftPosts > 0 \/ sent[2] > 0
    BY <1>0, <1>3, SentNat DEF PostNotices, SlackFails, CarriesTopics, CarriesDrift, Told, InHand, TypeInv
  <2>3. pc'[w] \in {"idle", "release"}
    BY <1>3 DEF PostNotices, SlackFails, Ack, Goto, TypeInv, TypeOK
  <2> QED BY <1>3, <2>1, <2>2, <2>3, SentKept DEF PostNotices, SlackFails, Ack, Goto, TypeInv, TypeOK
<1>4. CASE ReleaseClaim(w)
  <2>1. Kind(w) = "notify" \/ Kind(w) = "lateNotify"
    BY <1>4 DEF ReleaseClaim, TypeInv, InHand
  <2>2. Out'
    BY <1>0, <1>4, <2>1 DEF ReleaseClaim, Out
  <2> QED BY <1>4, <2>2, SentKept DEF ReleaseClaim, Goto, TypeInv, TypeOK
<1>5. CASE Retry(w)
  <2>1. Out'
    BY <1>5, OutKept DEF Retry
  <2>2. \A m \in Messages : queue'[m] > 0 => queue[m] > 0 \/ Follows(m)
    BY <1>0, <1>5 DEF Retry, Put, Follows, TypeInv, TypeOK
  <2> QED BY <1>5, <2>1, <2>2, SentKept DEF Retry, Ack, TypeInv, TypeOK
<1> QED BY <1>1, <1>2, <1>3, <1>4, <1>5

\* The steps of worker w that publish, refuse to, or are cut short.
LEMMA SentPublish ==
    ASSUME TypeInv, OwedInv, SentInv, NEW w \in Workers,
           PublishIfReady(w) \/ NotReady(w) \/ Announce(w) \/ WorkerDies(w) \/ TaskRaises(w)
    PROVE  SentInv'
<1> USE MessageShape DEF status, content, posts, procs
<1>0. /\ Told(w) /\ Out /\ pc[w] # "idle" /\ task[w] \in Messages /\ Follows(task[w])
      /\ Kind(w) = "catchup" => lineage > 0
  BY DEF SentInv, Told, Kind, TypeInv, InHand, OwedInv, LineageBehind, PublishIfReady, NotReady,
         Announce, WorkerDies, TaskRaises, PublishTask
<1>1. CASE PublishIfReady(w)
  <2>1. /\ sent' = content /\ UNCHANGED <<content, due, topicPosts, driftPosts, queue>>
        /\ published' /\ links > 0
    BY <1>1 DEF PublishIfReady, MayPublish
  <2>2. /\ pc'[w] \in {"idle", "announce"} /\ task'[w] \in {None, task[w]}
        /\ pc'[w] = "announce" => task'[w] = task[w]
        /\ \A v \in Workers \ {w} : pc'[v] = pc[v] /\ task'[v] = task[v] /\ note'[v] = note[v]
    BY <1>1 DEF PublishIfReady, Ack, Goto, TypeInv, TypeOK
  <2> QED BY <1>0, <2>1, <2>2, SentSends
<1>2. CASE NotReady(w)
  <2>1. Out'
    BY <1>2, OutKept DEF NotReady
  <2> QED BY <1>2, <2>1, SentKept DEF NotReady, Ack, TypeInv, TypeOK
<1>3. CASE Announce(w)
  <2>1. Out'
    BY <1>3, OutKept DEF Announce
  <2>2. PICK k \in {"lateNotify", "notify"} :
          Put(<<k, 0>>) /\ (k = "lateNotify" => Kind(w) = "catchup")
    BY <1>3 DEF Announce
  <2>3. \A m \in Messages : queue'[m] > 0 => queue[m] > 0 \/ Follows(m)
    BY <1>0, <1>3, <2>2 DEF Announce, Told, Put, Follows, TypeInv, TypeOK
  <2> QED BY <1>3, <2>1, <2>3, SentKept DEF Announce, Ack, TypeInv, TypeOK
<1>4. CASE WorkerDies(w) \/ TaskRaises(w)
  <2>1. \A m \in Messages : queue'[m] > 0 => queue[m] > 0 \/ m = task[w]
    BY <1>0, <1>4 DEF WorkerDies, TaskRaises, Put, TypeInv, TypeOK
  <2>2. /\ pc'[w] = "idle" /\ task'[w] = None
        /\ \A v \in Workers \ {w} : pc'[v] = pc[v] /\ task'[v] = task[v] /\ note'[v] = note[v]
        /\ UNCHANGED <<content, due, published, topicPosts, driftPosts>>
    BY <1>4 DEF WorkerDies, TaskRaises, Ack, TypeInv, TypeOK
  <2>3. CASE UNCHANGED sent
    <3>1. Out'
      BY <2>2, <2>3, OutKept
    <3>2. \A m \in Messages : queue'[m] > 0 => queue[m] > 0 \/ Follows(m)
      BY <1>0, <2>1
    <3> QED BY <2>2, <2>3, <3>1, <3>2, SentKept
  <2>4. CASE sent' = content
    BY <1>0, <2>1, <2>2, <2>4, SentSends
  <2> QED BY <1>4, <2>3, <2>4 DEF WorkerDies, TaskRaises, HalfPublished
<1> QED BY <1>1, <1>2, <1>3, <1>4

LEMMA SentStep == TypeInv /\ StaleInv /\ OwedInv /\ SentInv /\ [Next]_vars => SentInv'
<1> SUFFICES ASSUME TypeInv, StaleInv, OwedInv, SentInv, [Next]_vars PROVE SentInv'
  OBVIOUS
<1> USE MessageShape DEF status, content, posts, procs
<1>1. ASSUME NEW w \in Workers, Take(w) PROVE SentInv'
  <2>1. PICK m \in Messages : /\ queue[m] > 0 /\ task' = [task EXCEPT ![w] = m]
                              /\ queue' = [queue EXCEPT ![m] = @ - 1]
    BY <1>1 DEF Take
  <2>2. \A k \in Messages : queue'[k] > 0 => queue[k] > 0
    BY <2>1 DEF TypeInv, TypeOK
  <2>3. Follows(m) /\ \A k : Follows(k)' <=> Follows(k)
    BY <1>1, <2>1 DEF SentInv, Take, Follows
  <2>4. pc'[w] = "start" /\ task'[w] = m
        /\ \A v \in Workers \ {w} : pc'[v] = pc[v] /\ task'[v] = task[v]
    BY <1>1, <2>1 DEF Take, TypeInv, TypeOK
  <2>5. \A v \in Workers : Told(v)'
    BY <1>1, <2>3, <2>4 DEF SentInv, Take, Told, Kind, CarriesDrift
  <2>6. Out' /\ NoticesFollowSending'
    BY <1>1, OutKept DEF Take, SentInv, NoticesFollowSending
  <2> QED BY <2>2, <2>3, <2>5, <2>6 DEF SentInv
<1>2. ASSUME NEW w \in Workers, Step(w) \/ Mishap(w), ~ Redelivered(w) PROVE SentInv'
  BY <1>2, SentHalf, SentNotice, SentPublish DEF Step, Mishap
<1>3. ASSUME UNCHANGED <<sent, published, content, due, topicPosts, driftPosts, pc, task, note>>,
             \A m \in Messages : queue'[m] > 0 => queue[m] > 0 \/ Follows(m)
      PROVE  SentInv'
  <2>1. Out'
    BY <1>3, OutKept
  <2> QED BY <1>3, <2>1 DEF SentInv, Told, Follows, Kind, CarriesDrift, NoticesFollowSending
<1>4. ASSUME NEW w \in Workers, Redelivered(w) PROVE SentInv'
  <2>1. task[w] \in Messages /\ Follows(task[w])
    BY <1>4 DEF Redelivered, SentInv, Told, InHand, TypeInv
  <2>2. \A m \in Messages : queue'[m] > 0 => queue[m] > 0 \/ Follows(m)
    BY <1>4, <2>1 DEF Redelivered, Put, TypeInv, TypeOK
  <2> QED BY <1>3, <1>4, <2>2 DEF Redelivered
<1>5. ASSUME NEW k \in Deriving, Event(k) PROVE SentInv'
  <2>1. \A m \in Messages : queue'[m] > 0 => queue[m] > 0 \/ Follows(m)
    BY <1>5 DEF Event, Put, Follows, Deriving, Linking, TypeInv, TypeOK
  <2> QED BY <1>3, <1>5, <2>1 DEF Event
<1>6. CASE DeadlinePasses \/ SlackChanges \/ UNCHANGED vars
  BY <1>3, <1>6 DEF DeadlinePasses, SlackChanges, vars
<1> QED
  BY <1>1, <1>2, <1>4, <1>5, <1>6
     DEF Next, TranscriptReady, ExtractionCompleted, RederiveTopics, Deriving, Linking

LEMMA SentAlways == Spec => []SentInv
<1>1. Init => SentInv BY SentInit
<1>2. TypeInv /\ StaleInv /\ OwedInv /\ SentInv /\ [Next]_vars => SentInv' BY SentStep
<1> QED BY <1>1, <1>2, TypeAlways, StaleAlways, OwedAlways, PTL DEF Spec

\* NoticesFollowSending: nobody is told in Slack what E has not been sent.
THEOREM TeamHearsLast == Spec => []NoticesFollowSending
<1>1. SentInv => NoticesFollowSending BY DEF SentInv
<1> QED BY <1>1, SentAlways, PTL

\* Only a publication, or one cut short after its send, sends anything.
LEMMA WhoSends ==
    ASSUME [Next]_vars, sent' # sent
    PROVE  sent' = content /\ UNCHANGED content
<1>1. ASSUME NEW w \in Workers, Step(w) PROVE PublishIfReady(w)
  BY <1>1 DEF Step, LinkTopics, RederiveRefused, RouteLinks, ArmFallback, BuildLineage, RouteLineage,
     InsertStatus, NotReady, Announce, ClaimNotice, ClaimLateDrift, PostNotices, ReleaseClaim, Retry
<1>2. ASSUME NEW w \in Workers, Mishap(w) PROVE HalfPublished(w) /\ UNCHANGED content
  BY <1>2 DEF Mishap, InsertConflicts, SlackFails, WorkerDies, TaskRaises, Redelivered
<1> QED BY <1>1, <1>2 DEF Next, Take, PublishIfReady, HalfPublished, TranscriptReady,
           ExtractionCompleted, RederiveTopics, Event, DeadlinePasses, SlackChanges, vars

\* SentGoesForward: E is never sent older rows after newer ones.
THEOREM SendsMoveForward == Spec => SentGoesForward
<1>1. ASSUME TypeInv, SentInv, [Next]_vars
      PROVE  sent' # sent => sent'[1] >= sent[1] /\ sent'[2] >= sent[2]
  <2> SUFFICES ASSUME sent' # sent PROVE sent'[1] >= sent[1] /\ sent'[2] >= sent[2] OBVIOUS
  <2>1. sent' = content
    BY <1>1, WhoSends
  <2>2. sent'[1] = links /\ sent'[2] = lineage
    BY <2>1 DEF content
  <2> QED BY <1>1, <2>2, SentNat DEF SentInv, Out
<1> QED BY <1>1, TypeAlways, SentAlways, PTL DEF Spec, SentGoesForward

-----------------------------------------------------------------------------
(* The gate implements ContextFeed                                         *)

\* What a step does to the halves, to what E was sent and to the posts.
LEMMA WhoMovesTheFeed ==
    ASSUME TypeInv, [Next]_vars
    PROVE  \/ UNCHANGED <<content, sent, posts>>
           \/ UNCHANGED <<sent, posts>> /\ links' = links + 1 /\ lineage' = lineage
           \/ UNCHANGED <<sent, posts>> /\ links' = links /\ lineage' = lineage + 1
           \/ UNCHANGED <<content, posts>> /\ sent' = content /\ links > 0
           \/ \E w \in Workers : PostNotices(w) \/ SlackFails(w)
<1> USE DEF content
<1>1. ASSUME NEW w \in Workers, LinkTopics(w) \/ BuildLineage(w) \/ InsertStatus(w)
      PROVE  \/ UNCHANGED <<content, sent, posts>>
             \/ UNCHANGED <<sent, posts>> /\ links' = links + 1 /\ lineage' = lineage
             \/ UNCHANGED <<sent, posts>> /\ links' = links /\ lineage' = lineage + 1
  BY <1>1 DEF LinkTopics, BuildLineage, InsertStatus, LinksWritten, LineageWritten
<1>2. ASSUME NEW w \in Workers, PublishIfReady(w)
      PROVE  UNCHANGED <<content, posts>> /\ sent' = content /\ links > 0
  BY <1>2 DEF PublishIfReady, MayPublish
<1>3. ASSUME NEW w \in Workers, WorkerDies(w) \/ TaskRaises(w)
      PROVE  \/ UNCHANGED <<content, sent, posts>>
             \/ UNCHANGED <<content, posts>> /\ sent' = content /\ links > 0
  BY <1>3 DEF WorkerDies, TaskRaises, HalfPublished, MayPublish
<1>4. ASSUME NEW w \in Workers,
             \/ Take(w) \/ RederiveRefused(w) \/ RouteLinks(w) \/ ArmFallback(w) \/ RouteLineage(w)
             \/ NotReady(w) \/ Announce(w) \/ ClaimNotice(w) \/ ClaimLateDrift(w)
             \/ ReleaseClaim(w) \/ Retry(w) \/ InsertConflicts(w) \/ Redelivered(w)
      PROVE  UNCHANGED <<content, sent, posts>>
  BY <1>4 DEF Take, RederiveRefused, RouteLinks, ArmFallback, RouteLineage, NotReady, Announce,
     ClaimNotice, ClaimLateDrift, ReleaseClaim, Retry, InsertConflicts, Redelivered
<1>5. ASSUME \/ TranscriptReady \/ ExtractionCompleted \/ RederiveTopics
             \/ DeadlinePasses \/ SlackChanges \/ UNCHANGED vars
      PROVE  UNCHANGED <<content, sent, posts>>
  BY <1>5 DEF TranscriptReady, ExtractionCompleted, RederiveTopics, Event, DeadlinePasses,
     SlackChanges, vars
<1> QED BY <1>1, <1>2, <1>3, <1>4, <1>5 DEF Next, Step, Mishap

\* A notice posts what E was sent: its task follows from a publication.
LEMMA NoticeOfFeed ==
    ASSUME TypeInv, SentInv, NEW w \in Workers, PostNotices(w) \/ SlackFails(w)
    PROVE  \E t, d \in 0..1 : Feed!Notify(t, d)
<1>1. /\ Kind(w) = "notify" => sent[1] > 0
      /\ CarriesDrift(w) => sent[2] > 0
  BY DEF SentInv, Told, Follows, Out, Kind, PostNotices, SlackFails
<1>2. CarriesTopics(w) => Kind(w) = "notify"
  BY DEF CarriesTopics, TypeInv, InHand, PostNotices, SlackFails
<1>3. PICK t \in 0..1 : topicPosts' = topicPosts + t /\ (t > 0 => CarriesTopics(w))
  BY SentNat DEF PostNotices, SlackFails
<1>4. PICK d \in 0..1 : driftPosts' = driftPosts + d /\ (d > 0 => CarriesDrift(w))
  BY SentNat DEF PostNotices, SlackFails
<1>5. Feed!Notify(t, d)
  BY <1>1, <1>2, <1>3, <1>4 DEF Feed!Notify, PostNotices, SlackFails
<1> QED BY <1>5

LEMMA FeedStep ==
    ASSUME TypeInv, SentInv, [Next]_vars
    PROVE  [Feed!Next]_(Feed!vars)
<1>1. CASE UNCHANGED <<content, sent, posts>>
  BY <1>1 DEF Feed!vars, posts
<1>2. CASE UNCHANGED <<sent, posts>> /\ links' = links + 1 /\ lineage' = lineage
  <2>1. Feed!LinkTopics
    BY <1>2 DEF Feed!LinkTopics, content, posts
  <2> QED BY <2>1 DEF Feed!Next
<1>3. CASE UNCHANGED <<sent, posts>> /\ links' = links /\ lineage' = lineage + 1
  <2>1. Feed!BuildLineage
    BY <1>3 DEF Feed!BuildLineage, content, posts
  <2> QED BY <2>1 DEF Feed!Next
<1>4. CASE UNCHANGED <<content, posts>> /\ sent' = content /\ links > 0
  <2>1. Feed!Tell
    BY <1>4 DEF Feed!Tell, content, posts
  <2> QED BY <2>1 DEF Feed!Next
<1>5. ASSUME NEW w \in Workers, PostNotices(w) \/ SlackFails(w) PROVE Feed!Next
  BY <1>5, NoticeOfFeed DEF Feed!Next
<1> QED BY <1>1, <1>2, <1>3, <1>4, <1>5, WhoMovesTheFeed

\* The gate implements ContextFeed: E is told both halves of one moment, never
\* before the topics are there, and the team only of what E was told.
THEOREM FeedRefined == Spec => ImplementsFeed
<1>1. Init => Feed!Init
  BY DEF Init, Feed!Init, content
<1>2. TypeInv /\ SentInv /\ [Next]_vars => [Feed!Next]_(Feed!vars)
  BY FeedStep
<1> QED BY <1>1, <1>2, TypeAlways, SentAlways, PTL DEF Spec, ImplementsFeed, Feed!Spec
=============================================================================
