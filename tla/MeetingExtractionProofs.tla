------------------------ MODULE MeetingExtractionProofs ------------------------
(***************************************************************************)
(* What MeetingExtraction promises for any worker processes and bounds:    *)
(* overlapping sweeps retry a meeting once, no failure is forgotten, and a *)
(* republication has a result to announce.                                 *)
(***************************************************************************)
EXTENDS MeetingExtraction, TLAPS

-----------------------------------------------------------------------------
(* The row of ext_extraction_attempts                                      *)

Rows == [known : BOOLEAN, failures : Nat, reason : Reasons, held : BOOLEAN, told : BOOLEAN,
         requested : BOOLEAN]
\* A count has a reason, and a reason a count.
Consistent(r) == r.failures > 0 <=> r.reason # "none"
CountedTo(r, n, x) == [r EXCEPT !.known = TRUE, !.failures = n, !.held = TRUE, !.reason = x]

LEMMA CountEdit ==
    ASSUME NEW r \in Rows, NEW n \in Nat, NEW x \in Reasons
    PROVE  /\ CountedTo(r, n, x) \in Rows
           /\ CountedTo(r, n, x).failures = n /\ CountedTo(r, n, x).reason = x
<1>1. CountedTo(r, n, x) \in Rows
  BY DEF Rows, CountedTo
<1>2. CountedTo(r, n, x).failures = n
  BY DEF Rows, CountedTo
<1>3. CountedTo(r, n, x).reason = x
  BY DEF Rows, CountedTo
<1> QED BY <1>1, <1>2, <1>3

LEMMA CountedIsRow ==
    ASSUME NEW r \in Rows, NEW reason \in Reasons \ {"none"}
    PROVE  Counted(r, reason) \in Rows /\ Consistent(Counted(r, reason))
<1> DEFINE n == r.failures + 1
           x == IF r.reason = PartlyUnread THEN r.reason ELSE reason
<1>1. n \in Nat /\ n > 0
  BY DEF Rows
<1>2. x \in Reasons /\ x # "none"
  BY DEF Rows, PartlyUnread
<1>3. Counted(r, reason) = CountedTo(r, n, x)
  BY DEF Counted, CountedTo
<1> HIDE DEF n, x
<1>4. /\ CountedTo(r, n, x) \in Rows
      /\ CountedTo(r, n, x).failures = n /\ CountedTo(r, n, x).reason = x
  BY <1>1, <1>2, CountEdit
<1> QED BY <1>1, <1>2, <1>3, <1>4 DEF Consistent

LEMMA SettledIsRow ==
    ASSUME NEW r \in Rows
    PROVE  Settled(r) \in Rows /\ Consistent(Settled(r))
<1>1. Settled(r) \in Rows
  BY DEF Rows, Settled, Reasons
<1>2. Settled(r).failures = 0
  BY DEF Rows, Settled
<1>3. Settled(r).reason = "none"
  BY DEF Rows, Settled
<1> QED BY <1>1, <1>2, <1>3 DEF Consistent

\* Neither a hold, a notice nor a request touches the count.
LEMMA FlagsOfRow ==
    ASSUME NEW r \in Rows, Consistent(r), NEW b \in BOOLEAN
    PROVE  /\ [r EXCEPT !.held = b] \in Rows /\ Consistent([r EXCEPT !.held = b])
           /\ [r EXCEPT !.told = b] \in Rows /\ Consistent([r EXCEPT !.told = b])
           /\ [r EXCEPT !.requested = b] \in Rows /\ Consistent([r EXCEPT !.requested = b])
           /\ [r EXCEPT !.known = TRUE, !.requested = b] \in Rows
           /\ Consistent([r EXCEPT !.known = TRUE, !.requested = b])
<1>1. [r EXCEPT !.held = b] \in Rows /\ Consistent([r EXCEPT !.held = b])
  BY DEF Rows, Consistent
<1>2. [r EXCEPT !.told = b] \in Rows /\ Consistent([r EXCEPT !.told = b])
  BY DEF Rows, Consistent
<1>3. [r EXCEPT !.requested = b] \in Rows /\ Consistent([r EXCEPT !.requested = b])
  BY DEF Rows, Consistent
<1>4. /\ [r EXCEPT !.known = TRUE, !.requested = b] \in Rows
      /\ Consistent([r EXCEPT !.known = TRUE, !.requested = b])
  BY DEF Rows, Consistent
<1> QED BY <1>1, <1>2, <1>3, <1>4

-----------------------------------------------------------------------------
(* Types                                                                   *)

RunKinds == {"idle", "event", "retry", "republish", "consent", "request", "tell"}
Places == {"idle", "due", "reading", "asking", "rereading", "announcing", "settling", "failed",
           "owed", "posting"}
Runs(n) == [kind : RunKinds, pc : Places, read : 0 .. MaxSpoken, result : 0 .. n,
            error : {"none", Error, NotPublished}]

NumbersOK ==
    /\ spoken \in 0 .. MaxSpoken /\ read \in 0 .. MaxSpoken
    /\ stored \in Nat /\ heard \in 0 .. stored
    /\ presses \in Nat /\ mishaps \in Nat
RowOK == row \in Rows /\ Consistent(row)

\* A process that failed has its error, an idle one is at rest.
RunsOK ==
    /\ run \in [Procs -> Runs(stored)]
    /\ \A p \in Procs : run[p].pc = "failed" => run[p].error # "none"

TypeInv == NumbersOK /\ event \in BOOLEAN /\ RowOK /\ RunsOK

LEMMA TypeInvImplies == TypeInv => TypeOK
BY DEF TypeInv, NumbersOK, RowOK, RunsOK, TypeOK, Runs, RunKinds, Places, Rows, Consistent

LEMMA TypeInit == Init => TypeInv
<1> SUFFICES ASSUME Init PROVE TypeInv OBVIOUS
<1>1. NumbersOK
  BY BoundsAssumption DEF Init, NumbersOK
<1>4. event \in BOOLEAN
  BY DEF Init
<1>2. RowOK
  <2>1. NoRow \in Rows
    <3>1. "none" \in Reasons /\ FALSE \in BOOLEAN /\ 0 \in Nat
      BY DEF Reasons
    <3> QED BY <3>1, Zenon DEF NoRow, Rows
  <2>2. NoRow.failures = 0 /\ NoRow.reason = "none"
    BY DEF NoRow
  <2> QED BY <2>1, <2>2 DEF Init, RowOK, Consistent
<1>3. RunsOK
  BY BoundsAssumption DEF Init, Idle, RunsOK, Runs, RunKinds, Places
<1> QED BY <1>1, <1>2, <1>3, <1>4 DEF TypeInv

\* What one step may do to the row.
LEMMA RowMoves ==
    ASSUME TypeInv, [Next]_vars
    PROVE  \/ row' = row
           \/ row' = Settled(row)
           \/ \E reason \in Reasons \ {"none"} : row' = Counted(row, reason)
           \/ \E b \in BOOLEAN : \/ row' = [row EXCEPT !.held = b]
                                \/ row' = [row EXCEPT !.told = b]
                                \/ row' = [row EXCEPT !.requested = b]
                                \/ row' = [row EXCEPT !.known = TRUE, !.requested = b]
<1>1. ASSUME NEW p \in Procs, NoteFailure(p)
      PROVE  \E reason \in Reasons \ {"none"} : row' = Counted(row, reason)
  <2>1. run[p].error \in Reasons \ {"none"}
    <3>1. run[p].error \in {"none", Error, NotPublished}
      BY DEF TypeInv, RunsOK, Runs
    <3>2. run[p].error # "none"
      BY <1>1 DEF NoteFailure, TypeInv, RunsOK
    <3> QED BY <3>1, <3>2 DEF Reasons
  <2> QED BY <1>1, <2>1 DEF NoteFailure
<1>2. AdoptUnextracted => \E reason \in Reasons \ {"none"} : row' = Counted(row, reason)
  BY DEF AdoptUnextracted, Reasons, NotExtracted
<1>3. ASSUME NEW p \in Procs, Store(p)
      PROVE  \/ row' = Settled(row)
             \/ \E reason \in Reasons \ {"none"} : row' = Counted(row, reason)
  BY <1>3 DEF Store, Reasons, PartlyUnread
<1> QED
  BY <1>1, <1>2, <1>3
     DEF Next, vars, TranscriptReady, ConsentChanges, RequestExtraction, HoldLapses, EventIsLost,
         OnTranscriptReady, DueForRetry, ConsentChanged, TakeRequest, OwedNotice, RunGoesOn,
         ClaimRetry, Read, ReadBack, Announce, SettleRepublished, ClaimNotice, PostNotice,
         RunFails, AnnounceFails, ReleaseNotice, Dies

LEMMA RowStep == TypeInv /\ [Next]_vars => RowOK'
BY RowMoves, CountedIsRow, SettledIsRow, FlagsOfRow DEF TypeInv, RowOK

LEMMA NumbersStep == TypeInv /\ [Next]_vars => NumbersOK' /\ stored <= stored'
<1> SUFFICES ASSUME TypeInv, [Next]_vars PROVE NumbersOK' /\ stored <= stored' OBVIOUS
<1>0. /\ NumbersOK
      /\ \A p \in Procs : run[p].read \in 0 .. MaxSpoken /\ run[p].result \in 0 .. stored
  BY DEF TypeInv, RunsOK, Runs
<1> USE BoundsAssumption DEF NumbersOK
<1>1. CASE TranscriptReady
  BY <1>0, <1>1 DEF TranscriptReady
<1>2. CASE ConsentChanges
  BY <1>0, <1>2 DEF ConsentChanges
<1>3. CASE RequestExtraction
  BY <1>0, <1>3 DEF RequestExtraction, Spends
<1>4. ASSUME NEW p \in Procs, Store(p) PROVE NumbersOK' /\ stored <= stored'
  BY <1>0, <1>4 DEF Store, Spends
<1>5. ASSUME NEW p \in Procs, Announce(p) PROVE NumbersOK' /\ stored <= stored'
  BY <1>0, <1>5 DEF Announce
<1>6. ASSUME NEW p \in Procs,
             RunFails(p) \/ AnnounceFails(p) \/ ReleaseNotice(p) \/ Dies(p) \/ EventIsLost
      PROVE  NumbersOK' /\ stored <= stored'
  BY <1>0, <1>6 DEF RunFails, AnnounceFails, FailsWith, ReleaseNotice, Dies, EventIsLost, Spends
<1>7. CASE UNCHANGED <<spoken, read, stored, heard, presses, mishaps>>
  BY <1>0, <1>7
<1>8. CASE EventIsLost
  BY <1>0, <1>8 DEF EventIsLost, Spends
<1> QED
  BY <1>1, <1>2, <1>3, <1>4, <1>5, <1>6, <1>7, <1>8
     DEF Next, vars, HoldLapses, AdoptUnextracted, OnTranscriptReady, DueForRetry, ConsentChanged,
         TakeRequest, OwedNotice, RunGoesOn, ClaimRetry, Read, ReadBack, SettleRepublished,
         NoteFailure, ClaimNotice, PostNotice

LEMMA RunsStep == TypeInv /\ [Next]_vars => RunsOK'
<1> SUFFICES ASSUME TypeInv, [Next]_vars PROVE RunsOK' OBVIOUS
<1>0. /\ run \in [Procs -> Runs(stored)]
      /\ \A p \in Procs : run[p].pc = "failed" => run[p].error # "none"
      /\ spoken \in 0 .. MaxSpoken /\ stored \in Nat /\ stored' \in Nat /\ stored <= stored'
      /\ Runs(stored) \subseteq Runs(stored')
  BY NumbersStep DEF TypeInv, NumbersOK, RunsOK, Runs
<1> USE BoundsAssumption DEF Runs, RunKinds, Places, Idle
<1>1. ASSUME NEW p \in Procs, NEW k \in RunKinds \ {"idle"},
             NEW l \in {"due", "reading", "owed"}, Starts(p, k, l), stored' = stored
      PROVE  RunsOK'
  <2> DEFINE r == [Idle EXCEPT !.kind = k, !.pc = l]
  <2>1. Idle \in Runs(stored) /\ k \in RunKinds /\ l \in Places
    BY <1>0
  <2>2. r \in Runs(stored) /\ r.pc # "failed"
    BY <1>0, <2>1
  <2>3. run' = [run EXCEPT ![p] = r]
    BY <1>1 DEF Starts
  <2> HIDE DEF r
  <2> QED BY <1>0, <1>1, <2>2, <2>3 DEF RunsOK
<1>2. ASSUME NEW p \in Procs, NEW l \in Places \ {"failed"}, Goes(p, l), stored' = stored
      PROVE  RunsOK'
  BY <1>0, <1>2 DEF Goes, RunsOK
<1>3. ASSUME NEW p \in Procs, Ends(p), stored' = stored PROVE RunsOK'
  BY <1>0, <1>3 DEF Ends, RunsOK
<1>4. ASSUME NEW p \in Procs, Read(p) PROVE RunsOK'
  BY <1>0, <1>4 DEF Read, RunsOK
<1>5. ASSUME NEW p \in Procs, Store(p) PROVE RunsOK'
  <2>1. /\ run' = [run EXCEPT ![p].result = stored', ![p].pc = "announcing"]
        /\ stored' \in 0 .. stored'
    BY <1>0, <1>5 DEF Store
  <2>2. run'[p] \in Runs(stored') /\ run'[p].pc = "announcing"
    BY <1>0, <2>1
  <2>3. \A q \in Procs : q # p => run'[q] = run[q]
    BY <1>0, <2>1
  <2>4. run' \in [Procs -> Runs(stored')]
    BY <1>0, <2>1, <2>2, <2>3
  <2> QED BY <1>0, <2>2, <2>3, <2>4 DEF RunsOK
<1>6. ASSUME NEW p \in Procs, ReadBack(p) PROVE RunsOK'
  BY <1>0, <1>6 DEF ReadBack, RunsOK
<1>7. ASSUME NEW p \in Procs, RunFails(p) \/ AnnounceFails(p) PROVE RunsOK'
  BY <1>0, <1>7 DEF RunFails, AnnounceFails, FailsWith, RunsOK, Error, NotPublished
<1>8. CASE UNCHANGED <<run, stored>>
  BY <1>0, <1>8 DEF RunsOK
<1>9. ASSUME NEW p \in Procs,
             OnTranscriptReady(p) \/ DueForRetry(p) \/ ConsentChanged(p) \/ TakeRequest(p)
                \/ OwedNotice(p)
      PROVE  RunsOK'
  BY <1>1, <1>9 DEF OnTranscriptReady, DueForRetry, ConsentChanged, TakeRequest, OwedNotice
<1>10. ASSUME NEW p \in Procs,
              ClaimRetry(p) \/ Announce(p) \/ SettleRepublished(p) \/ NoteFailure(p)
                 \/ ClaimNotice(p) \/ PostNotice(p) \/ ReleaseNotice(p) \/ Dies(p)
       PROVE  RunsOK'
  BY <1>2, <1>3, <1>10 DEF ClaimRetry, Announce, SettleRepublished, NoteFailure, ClaimNotice,
                           PostNotice, ReleaseNotice, Dies
<1>11. CASE TranscriptReady \/ ConsentChanges \/ RequestExtraction \/ AdoptUnextracted
               \/ HoldLapses \/ EventIsLost \/ UNCHANGED vars
  BY <1>8, <1>11 DEF TranscriptReady, ConsentChanges, RequestExtraction, AdoptUnextracted,
                     HoldLapses, EventIsLost, vars
<1> QED
  BY <1>4, <1>5, <1>6, <1>7, <1>9, <1>10, <1>11 DEF Next, RunGoesOn

LEMMA TypeStep == TypeInv /\ [Next]_vars => TypeInv'
<1>1. TypeInv /\ [Next]_vars => event' \in BOOLEAN
  <2> SUFFICES ASSUME TypeInv, [Next]_vars PROVE event' \in BOOLEAN OBVIOUS
  <2>1. event \in BOOLEAN
    BY DEF TypeInv
  <2> QED
    BY <2>1
       DEF Next, vars, TranscriptReady, ConsentChanges, RequestExtraction, AdoptUnextracted,
           HoldLapses, EventIsLost, OnTranscriptReady, DueForRetry, ConsentChanged, TakeRequest,
           OwedNotice, RunGoesOn, ClaimRetry, Read, Store, ReadBack, Announce, SettleRepublished,
           NoteFailure, ClaimNotice, PostNotice, RunFails, AnnounceFails, ReleaseNotice, Dies,
           Acknowledges
<1> QED BY <1>1, NumbersStep, RowStep, RunsStep DEF TypeInv

-----------------------------------------------------------------------------
(* The hold                                                                *)

\* While a retry is under way its meeting is held, or its count was ended by
\* another run: either way no sweep finds it retryable.
HoldInv ==
    /\ OneRetryAtATime
    /\ \A p \in Procs : InRetry(p) => row.held \/ row.failures = 0

\* A step that puts nobody in a retry and leaves a held row held, or ends the
\* count, keeps the hold.
LEMMA HoldKept ==
    ASSUME HoldInv,
           \A p \in Procs : InRetry(p)' => InRetry(p),
           row.held \/ row.failures = 0 => row'.held \/ row'.failures = 0
    PROVE  HoldInv'
BY DEF HoldInv, OneRetryAtATime

LEMMA NobodyJoins ==
    ASSUME TypeInv, [Next]_vars, \A p \in Procs : ~ClaimRetry(p)
    PROVE  \A p \in Procs : InRetry(p)' => InRetry(p)
<1>0. run \in [Procs -> Runs(stored)]
  BY DEF TypeInv, RunsOK
<1> USE DEF InRetry, Runs
<1>1. ASSUME NEW p \in Procs, NEW k \in RunKinds, NEW l \in Places, Starts(p, k, l),
             k \in {"retry", "republish"} => l = "due"
      PROVE  \A q \in Procs : InRetry(q)' => InRetry(q)
  BY <1>0, <1>1 DEF Starts, Idle
<1>2. ASSUME NEW p \in Procs, NEW l \in Places, Goes(p, l), run[p].pc # "due"
      PROVE  \A q \in Procs : InRetry(q)' => InRetry(q)
  BY <1>0, <1>2 DEF Goes
<1>3. ASSUME NEW p \in Procs, Ends(p) PROVE \A q \in Procs : InRetry(q)' => InRetry(q)
  BY <1>0, <1>3 DEF Ends, Idle
<1>4. ASSUME NEW p \in Procs,
             OnTranscriptReady(p) \/ DueForRetry(p) \/ ConsentChanged(p) \/ TakeRequest(p)
                \/ OwedNotice(p)
      PROVE  \A q \in Procs : InRetry(q)' => InRetry(q)
  BY <1>1, <1>4 DEF OnTranscriptReady, DueForRetry, ConsentChanged, TakeRequest, OwedNotice,
                    RunKinds, Places
<1>5. ASSUME NEW p \in Procs,
             Announce(p) \/ SettleRepublished(p) \/ NoteFailure(p)
                \/ ClaimNotice(p) \/ PostNotice(p) \/ ReleaseNotice(p) \/ Dies(p)
      PROVE  \A q \in Procs : InRetry(q)' => InRetry(q)
  BY <1>2, <1>3, <1>5 DEF Announce, SettleRepublished, NoteFailure, ClaimNotice, PostNotice,
                          ReleaseNotice, Dies, Places
<1>6. ASSUME NEW p \in Procs,
             Read(p) \/ RunFails(p) \/ Store(p) \/ ReadBack(p) \/ AnnounceFails(p)
      PROVE  \A q \in Procs : InRetry(q)' => InRetry(q)
  BY <1>0, <1>6 DEF Read, RunFails, Store, ReadBack, AnnounceFails, FailsWith
<1>7. ASSUME run' = run PROVE \A q \in Procs : InRetry(q)' => InRetry(q)
  BY <1>7
<1> QED
  BY <1>4, <1>5, <1>6, <1>7
     DEF Next, RunGoesOn, vars, TranscriptReady, ConsentChanges, RequestExtraction,
         AdoptUnextracted, HoldLapses, EventIsLost

LEMMA HoldStep == TypeInv /\ HoldInv /\ [Next]_vars => HoldInv'
<1> SUFFICES ASSUME TypeInv, HoldInv, [Next]_vars PROVE HoldInv' OBVIOUS
<1>0. row \in Rows /\ run \in [Procs -> Runs(stored)]
  BY DEF TypeInv, RowOK, RunsOK
<1>1. ASSUME NEW p \in Procs, ClaimRetry(p) PROVE HoldInv'
  <2>1. CASE Retryable(row)
    <3>1. \A q \in Procs : ~InRetry(q)
      BY <1>0, <2>1 DEF Retryable, HoldInv, Rows
    <3>2. \A q \in Procs : q # p => ~InRetry(q)'
      BY <1>0, <1>1, <2>1, <3>1 DEF ClaimRetry, Goes, InRetry
    <3>3. row'.held
      BY <1>0, <1>1, <2>1 DEF ClaimRetry, Rows
    <3> QED BY <3>2, <3>3 DEF HoldInv, OneRetryAtATime
  <2>2. CASE ~Retryable(row)
    <3>1. \A q \in Procs : InRetry(q)' => InRetry(q)
      BY <1>0, <1>1, <2>2 DEF ClaimRetry, Ends, InRetry, Idle
    <3>2. row' = row
      BY <1>1, <2>2 DEF ClaimRetry
    <3> QED BY <3>1, <3>2, HoldKept
  <2> QED BY <2>1, <2>2
<1>2. CASE HoldLapses
  <2>1. \A q \in Procs : ~InRetry(q)'
    BY <1>2 DEF HoldLapses, InRetry
  <2> QED BY <2>1 DEF HoldInv, OneRetryAtATime
<1>3. ASSUME \A p \in Procs : ~ClaimRetry(p), ~HoldLapses PROVE HoldInv'
  <2>1. \A p \in Procs : InRetry(p)' => InRetry(p)
    BY <1>3, NobodyJoins
  <2>2. row.held \/ row.failures = 0 => row'.held \/ row'.failures = 0
    <3>1. ASSUME row' = Settled(row) PROVE row'.failures = 0
      BY <1>0, <3>1 DEF Settled, Rows
    <3>2. ASSUME NEW reason, row' = Counted(row, reason) PROVE row'.held
      BY <1>0, <3>2 DEF Counted, Rows
    <3>3. ASSUME NEW b \in BOOLEAN,
                 \/ row' = [row EXCEPT !.told = b] \/ row' = [row EXCEPT !.requested = b]
                 \/ row' = [row EXCEPT !.known = TRUE, !.requested = b]
          PROVE  row'.held = row.held /\ row'.failures = row.failures
      BY <1>0, <3>3 DEF Rows
    <3>4. AdoptUnextracted => \E reason : row' = Counted(row, reason)
      BY DEF AdoptUnextracted
    <3>5. ASSUME NEW p \in Procs, Store(p) \/ NoteFailure(p) \/ SettleRepublished(p)
          PROVE  row' = Settled(row) \/ \E reason : row' = Counted(row, reason)
      BY <3>5 DEF Store, NoteFailure, SettleRepublished
    <3>6. ASSUME NEW p \in Procs, TakeRequest(p) \/ ClaimNotice(p) \/ ReleaseNotice(p)
          PROVE  \E b \in BOOLEAN : \/ row' = [row EXCEPT !.told = b]
                                   \/ row' = [row EXCEPT !.requested = b]
                                   \/ row' = [row EXCEPT !.known = TRUE, !.requested = b]
      BY <3>6 DEF TakeRequest, ClaimNotice, ReleaseNotice
    <3>7. RequestExtraction =>
            \E b \in BOOLEAN : row' = [row EXCEPT !.known = TRUE, !.requested = b]
      BY DEF RequestExtraction
    <3>8. \/ row' = row
          \/ AdoptUnextracted \/ RequestExtraction
          \/ \E p \in Procs : \/ Store(p) \/ NoteFailure(p) \/ SettleRepublished(p)
                             \/ TakeRequest(p) \/ ClaimNotice(p) \/ ReleaseNotice(p)
      BY <1>3 DEF Next, RunGoesOn, vars, TranscriptReady, ConsentChanges, EventIsLost,
                  OnTranscriptReady, DueForRetry, ConsentChanged, OwedNotice, Read, ReadBack,
                  Announce, PostNotice, RunFails, AnnounceFails, Dies
    <3> QED BY <3>1, <3>2, <3>3, <3>4, <3>5, <3>6, <3>7, <3>8
  <2> QED BY <2>1, <2>2, HoldKept
<1> QED BY <1>1, <1>2, <1>3

-----------------------------------------------------------------------------
(* The theorems                                                            *)

LEMMA TypeAlways == Spec => []TypeInv
<1>1. Init => TypeInv BY TypeInit
<1>2. TypeInv /\ [Next]_vars => TypeInv' BY TypeStep
<1> QED BY <1>1, <1>2, PTL DEF Spec

\* TypeOK, for any processes and bounds.
THEOREM TypeCorrect == Spec => []TypeOK
<1>1. TypeInv => TypeOK BY TypeInvImplies
<1> QED BY <1>1, TypeAlways, PTL

\* OneRetryAtATime: overlapping sweeps run a meeting's retry once, whatever other
\* runs, presses and failures do to its row meanwhile.
THEOREM RetriesAlone == Spec => []OneRetryAtATime
<1>1. Init => HoldInv
  BY DEF Init, HoldInv, OneRetryAtATime, InRetry, Idle
<1>2. TypeInv /\ HoldInv /\ [Next]_vars => HoldInv'
  BY HoldStep
<1>3. HoldInv => OneRetryAtATime BY DEF HoldInv
<1> QED BY <1>1, <1>2, <1>3, TypeAlways, PTL DEF Spec

\* What a hold, a notice and a request do to the row.
FlagEdit(b) ==
    \/ row' = [row EXCEPT !.held = b]
    \/ row' = [row EXCEPT !.told = b]
    \/ row' = [row EXCEPT !.requested = b]
    \/ row' = [row EXCEPT !.known = TRUE, !.requested = b]

\* Only a run that stores and a republication that settles may end a count.
LEMMA WhoEditsRow ==
    ASSUME [Next]_vars
    PROVE  \/ row' = row
           \/ \E reason : row' = Counted(row, reason)
           \/ \E b \in BOOLEAN : FlagEdit(b)
           \/ \E p \in Procs : Store(p) \/ SettleRepublished(p)
BY DEF Next, RunGoesOn, vars, TranscriptReady, ConsentChanges, RequestExtraction,
       AdoptUnextracted, HoldLapses, EventIsLost, OnTranscriptReady, DueForRetry, ClaimRetry,
       ConsentChanged, TakeRequest, OwedNotice, Read, ReadBack, Announce, NoteFailure,
       ClaimNotice, PostNotice, ReleaseNotice, RunFails, AnnounceFails, Dies, FlagEdit

\* FailuresAreKept: only a new stored result or a republication that settles
\* lowers the count.
THEOREM FailuresKept == Spec => FailuresAreKept
<1>1. TypeInv /\ [Next]_vars =>
        [ row'.failures < row.failures =>
            \/ stored' # stored
            \/ \E p \in Procs : run[p].pc = "settling" /\ run'[p] = Idle ]_vars
  <2> SUFFICES ASSUME TypeInv, [Next]_vars, row'.failures < row.failures
               PROVE  \/ stored' # stored
                      \/ \E p \in Procs : run[p].pc = "settling" /\ run'[p] = Idle
    OBVIOUS
  <2>0. row \in Rows /\ run \in [Procs -> Runs(stored)] /\ stored \in Nat
    BY DEF TypeInv, RowOK, RunsOK, NumbersOK
  <2>1. ASSUME NEW reason, row' = Counted(row, reason) PROVE FALSE
    <3>1. row'.failures = row.failures + 1
      BY <2>0, <2>1 DEF Counted, Rows
    <3> QED BY <2>0, <3>1 DEF Rows
  <2>2. ASSUME NEW b \in BOOLEAN, FlagEdit(b) PROVE FALSE
    <3>1. row'.failures = row.failures
      BY <2>0, <2>2 DEF Rows, FlagEdit
    <3> QED BY <2>0, <3>1 DEF Rows
  <2>3. ASSUME NEW p \in Procs, Store(p) PROVE stored' # stored
    BY <2>0, <2>3 DEF Store
  <2>4. ASSUME NEW p \in Procs, SettleRepublished(p) PROVE run[p].pc = "settling" /\ run'[p] = Idle
    BY <2>0, <2>4 DEF SettleRepublished, Ends
  <2>5. row'.failures # row.failures
    BY <2>0 DEF Rows
  <2> QED BY <2>1, <2>2, <2>3, <2>4, <2>5, WhoEditsRow
<1> QED BY <1>1, TypeAlways, PTL DEF Spec, FailuresAreKept

-----------------------------------------------------------------------------
(* A republication has a result                                            *)

\* Who has read the speech knows some, and who announces has a result: an error
\* of an announcement and a republication both say that there is one.
HasResult(p) ==
    /\ run[p].kind = "republish" => stored > 0
    /\ run[p].pc \in {"announcing", "settling"} => run[p].result > 0 /\ stored > 0
    /\ run[p].error = NotPublished => stored > 0
    /\ run[p].pc = "rereading" => run[p].kind = "republish"
ResultInv ==
    /\ row.reason = NotPublished => stored > 0
    /\ \A p \in Procs : HasResult(p)

LEMMA ResultStep == TypeInv /\ ResultInv /\ [Next]_vars => ResultInv'
<1> SUFFICES ASSUME TypeInv, ResultInv, [Next]_vars PROVE ResultInv' OBVIOUS
<1>0. /\ row \in Rows /\ run \in [Procs -> Runs(stored)]
      /\ stored \in Nat /\ stored' \in Nat /\ stored <= stored'
      /\ row.reason = NotPublished => stored > 0
      /\ \A p \in Procs : HasResult(p)
  BY NumbersStep DEF TypeInv, RowOK, RunsOK, NumbersOK, ResultInv
\* The row: only a failed announcement gives it that reason.
<1>1. row'.reason = NotPublished => stored' > 0
  <2>1. ASSUME row'.reason = row.reason PROVE row'.reason = NotPublished => stored' > 0
    BY <1>0, <2>1
  <2>2. ASSUME NEW p \in Procs, NoteFailure(p)
        PROVE  row'.reason = NotPublished => stored' > 0
    <3>1. row'.reason \in {row.reason, run[p].error}
      BY <1>0, <2>2 DEF NoteFailure, Counted, Rows
    <3> QED BY <1>0, <3>1 DEF HasResult
  <2>3. ASSUME NEW p \in Procs, Store(p) PROVE stored' > 0
    BY <1>0, <2>3 DEF Store
  <2>4. ASSUME NEW p \in Procs, SettleRepublished(p) PROVE row'.reason = "none"
    BY <1>0, <2>4 DEF SettleRepublished, Settled, Rows
  <2>5. ASSUME AdoptUnextracted PROVE row'.reason \in {row.reason, NotExtracted}
    BY <1>0, <2>5 DEF AdoptUnextracted, Counted, Rows
  <2>6. ASSUME NEW b \in BOOLEAN, FlagEdit(b) PROVE row'.reason = row.reason
    BY <1>0, <2>6 DEF Rows, FlagEdit
  <2>7. \/ row' = row
        \/ \E b \in BOOLEAN : FlagEdit(b)
        \/ AdoptUnextracted
        \/ \E p \in Procs : Store(p) \/ SettleRepublished(p) \/ NoteFailure(p)
    BY DEF Next, RunGoesOn, vars, TranscriptReady, ConsentChanges, RequestExtraction,
           HoldLapses, EventIsLost, OnTranscriptReady, DueForRetry, ClaimRetry,
           ConsentChanged, TakeRequest, OwedNotice, Read, ReadBack, Announce,
           ClaimNotice, PostNotice, ReleaseNotice, RunFails, AnnounceFails, Dies, FlagEdit
  <2> QED
    BY <1>0, <2>1, <2>2, <2>3, <2>4, <2>5, <2>6, <2>7 DEF NotPublished, NotExtracted
\* The processes.
<1> USE DEF Runs, HasResult, Idle, NotPublished
<1>2. ASSUME NEW p \in Procs, run' = [run EXCEPT ![p] = Idle] PROVE \A q \in Procs : HasResult(q)'
  BY <1>0, <1>2
<1>3. ASSUME NEW p \in Procs, NEW k \in RunKinds, NEW l \in {"due", "reading", "owed"},
             Starts(p, k, l), k = "republish" => stored > 0
      PROVE  \A q \in Procs : HasResult(q)'
  BY <1>0, <1>3 DEF Starts, RunKinds, Places
<1>4. ASSUME NEW p \in Procs, DueForRetry(p) PROVE \A q \in Procs : HasResult(q)'
  BY <1>0, <1>3, <1>4 DEF DueForRetry, RunKinds
<1>5. ASSUME NEW p \in Procs,
             OnTranscriptReady(p) \/ ConsentChanged(p) \/ TakeRequest(p) \/ OwedNotice(p)
      PROVE  \A q \in Procs : HasResult(q)'
  BY <1>3, <1>5 DEF OnTranscriptReady, ConsentChanged, TakeRequest, OwedNotice, RunKinds
<1>6. ASSUME NEW p \in Procs, ClaimRetry(p) PROVE \A q \in Procs : HasResult(q)'
  BY <1>0, <1>2, <1>6 DEF ClaimRetry, Goes, Ends
<1>7. ASSUME NEW p \in Procs, Read(p) PROVE \A q \in Procs : HasResult(q)'
  BY <1>0, <1>7 DEF Read
<1>8. ASSUME NEW p \in Procs, RunFails(p) PROVE \A q \in Procs : HasResult(q)'
  BY <1>0, <1>8 DEF RunFails, FailsWith, Error
<1>9. ASSUME NEW p \in Procs, Store(p) PROVE \A q \in Procs : HasResult(q)'
  BY <1>0, <1>9 DEF Store
<1>10. ASSUME NEW p \in Procs, ReadBack(p) PROVE \A q \in Procs : HasResult(q)'
  BY <1>0, <1>10 DEF ReadBack
<1>11. ASSUME NEW p \in Procs, Announce(p) PROVE \A q \in Procs : HasResult(q)'
  BY <1>0, <1>2, <1>11 DEF Announce, Goes, Ends
<1>12. ASSUME NEW p \in Procs, AnnounceFails(p) PROVE \A q \in Procs : HasResult(q)'
  BY <1>0, <1>12 DEF AnnounceFails, FailsWith, Error
<1>13. ASSUME NEW p \in Procs,
              SettleRepublished(p) \/ NoteFailure(p) \/ PostNotice(p) \/ ReleaseNotice(p) \/ Dies(p)
       PROVE  \A q \in Procs : HasResult(q)'
  BY <1>2, <1>13 DEF SettleRepublished, NoteFailure, PostNotice, ReleaseNotice, Dies, Ends
<1>14. ASSUME NEW p \in Procs, ClaimNotice(p) PROVE \A q \in Procs : HasResult(q)'
  BY <1>0, <1>2, <1>14 DEF ClaimNotice, Goes, Ends
<1>15. ASSUME run' = run PROVE \A q \in Procs : HasResult(q)'
  BY <1>0, <1>15
<1>16. \A q \in Procs : HasResult(q)'
  BY <1>4, <1>5, <1>6, <1>7, <1>8, <1>9, <1>10, <1>11, <1>12, <1>13, <1>14, <1>15
     DEF Next, RunGoesOn, vars, TranscriptReady, ConsentChanges, RequestExtraction,
         AdoptUnextracted, HoldLapses, EventIsLost
<1> QED BY <1>1, <1>16 DEF ResultInv

\* RepublishHasResult: what only has to be announced is there to be announced.
THEOREM RepublishesSomething == Spec => []RepublishHasResult
<1>1. Init => ResultInv
  BY DEF Init, ResultInv, HasResult, Idle, NoRow, NotPublished
<1>2. TypeInv /\ ResultInv /\ [Next]_vars => ResultInv'
  BY ResultStep
<1>3. ResultInv => RepublishHasResult
  BY DEF ResultInv, HasResult, RepublishHasResult
<1> QED BY <1>1, <1>2, <1>3, TypeAlways, PTL DEF Spec
=============================================================================
