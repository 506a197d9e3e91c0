-------------------------- MODULE ApprovalQueueProofs --------------------------
(***************************************************************************)
(* What ApprovalQueue promises for any meetings, processes, approvers and  *)
(* bounds: an action is carried out at most once, a later team-wide        *)
(* judgment replaces the earlier, and a repeated run overlapped the first. *)
(***************************************************************************)
EXTENDS ApprovalQueue, TLAPS

-----------------------------------------------------------------------------
(* Types                                                                   *)

AllTools == UNION {Tools(s) : s \in Subagents}
CardType == [sub : Subagents, mtg : Names, tool : AllTools, status : Statuses,
             by : Approvers \cup {None}, result : {"unset", "ok", "not_ok"}]
RunType == [task : Nat, sub : Subagents, mtg : Names, kind : Kinds,
            outcome : {"answered", "failed"}]
EventType == [mtg : Meetings, state : {"queued", "taken", "done"}]
Places == {"idle", "check", "judge", "commit", "tell"}

\* What a process has in hand.
ProcType == [at : Places, kind : Kinds, task : Nat, mtg : Names, todo : Seq(Subagents),
             saw : Nat, looked : Nat, left : SUBSET Nat, card : CardType \cup {None},
             judged : BOOLEAN]

LEMMA IdleIsProc == Idle \in ProcType
BY DEF Idle, ProcType, Places, Kinds, Names

LEMMA HeadTail ==
    ASSUME NEW S, NEW q \in Seq(S), q # << >>
    PROVE  /\ Head(q) \in S /\ Tail(q) \in Seq(S)
           /\ Len(q) # 1 => Tail(q) # << >>
<1>1. Len(q) \in Nat /\ Len(q) > 0
  OBVIOUS
<1>2. Head(q) \in S
  BY <1>1
<1>3. Tail(q) \in Seq(S)
  BY <1>1
<1>4. Len(Tail(q)) = Len(q) - 1
  BY <1>1
<1>5. Len(q) # 1 => Len(Tail(q)) # 0
  BY <1>1, <1>4
<1>6. Len(<< >>) = 0
  OBVIOUS
<1>7. Len(q) # 1 => Tail(q) # << >>
  BY <1>5, <1>6, Zenon
<1> QED BY <1>2, <1>3, <1>7, Zenon

LEMMA OnwardIsProc ==
    ASSUME NEW p, proc[p] \in ProcType, proc[p].todo # << >>
    PROVE  /\ Onward(p) \in ProcType
           /\ Onward(p).at \in {"check", "tell"}
           /\ Onward(p).at = "check" => Onward(p).todo # << >>
           /\ Onward(p).kind = proc[p].kind /\ Onward(p).task = proc[p].task
           /\ Onward(p).left = {}
BY HeadTail, IdleIsProc DEF Onward, ProcType, Idle, Places

LEMMA AppendGrows ==
    ASSUME NEW S, NEW q \in Seq(S), NEW x \in S
    PROVE  /\ Append(q, x) \in Seq(S) /\ Len(Append(q, x)) = Len(q) + 1
           /\ DOMAIN q = 1 .. Len(q) /\ DOMAIN Append(q, x) = 1 .. Len(q) + 1
           /\ \A i \in DOMAIN q : Append(q, x)[i] = q[i]
           /\ Append(q, x)[Len(q) + 1] = x
OBVIOUS

LEMMA MapIsSeq ==
    ASSUME NEW S, NEW n \in Nat, NEW f, f = [i \in 1 .. n |-> f[i]], \A i \in 1 .. n : f[i] \in S
    PROVE  f \in Seq(S) /\ Len(f) = n /\ DOMAIN f = 1 .. n
OBVIOUS

Decision == [card : Nat, at : {"act", "record"}, ok : BOOLEAN]

SeqsOK ==
    /\ runs \in Seq(RunType) /\ cards \in Seq(CardType \cup {None}) /\ acted \in Seq(Nat)
    /\ Len(cards) = Len(runs) /\ Len(acted) = Len(runs)
EventsOK == alive \subseteq Meetings /\ events \in Seq(EventType)
ProcsOK ==
    /\ proc \in [Procs -> ProcType]
    /\ \A p \in Procs : /\ proc[p].at \in {"check", "judge", "commit"} => proc[p].todo # << >>
                        /\ proc[p].kind = "event" => proc[p].task \in DOMAIN events
                        /\ proc[p].left \subseteq DOMAIN runs
DecidingOK ==
    /\ deciding \in [Approvers -> Decision \cup {None}]
    /\ \A u \in Approvers : deciding[u] # None => deciding[u].card \in DOMAIN runs

TypeInv == SeqsOK /\ EventsOK /\ ProcsOK /\ DecidingOK

LEMMA TypeInit == Init => TypeInv
<1> SUFFICES ASSUME Init PROVE TypeInv OBVIOUS
<1>1. SeqsOK /\ EventsOK
  BY DEF Init, SeqsOK, EventsOK
<1>2. ProcsOK
  <2>1. Idle.at = "idle" /\ Idle.kind = "chat" /\ Idle.left = {}
    BY DEF Idle
  <2> QED BY <2>1, IdleIsProc DEF Init, ProcsOK
<1>3. DecidingOK
  BY DEF Init, DecidingOK
<1> QED BY <1>1, <1>2, <1>3 DEF TypeInv

\* What becomes of card i in one step: it is deleted, or it keeps its subagent
\* and is pending only if it was.
CardKept(i) ==
    \/ cards'[i] = None
    \/ /\ cards[i] # None /\ cards'[i].sub = cards[i].sub
       /\ cards'[i].status = "pending" => cards[i].status = "pending"

CardsGrow ==
    /\ cards' \in Seq(CardType \cup {None}) /\ DOMAIN cards \subseteq DOMAIN cards'
    /\ \A i \in DOMAIN cards : CardKept(i)

LEMMA RunsGrow ==
    ASSUME TypeInv, NEW p \in Procs, NEW o \in {"answered", "failed"}, Record(p, o),
           proc[p].todo # << >>
    PROVE  /\ runs' \in Seq(RunType) /\ Len(runs') = Len(runs) + 1
           /\ acted' \in Seq(Nat) /\ Len(acted') = Len(acted) + 1
           /\ \A i \in DOMAIN runs : runs'[i] = runs[i] /\ acted'[i] = acted[i]
           /\ acted'[Len(runs) + 1] = 0
           /\ runs'[Len(runs) + 1] = [task |-> proc[p].task, sub |-> Sub(p), mtg |-> proc[p].mtg,
                                     kind |-> proc[p].kind, outcome |-> o]
<1> DEFINE r == [task |-> proc[p].task, sub |-> Sub(p), mtg |-> proc[p].mtg,
                 kind |-> proc[p].kind, outcome |-> o]
<1>1. proc[p].todo \in Seq(Subagents)
  BY DEF TypeInv, ProcsOK, ProcType
<1>2. Sub(p) \in Subagents
  BY <1>1, HeadTail DEF Sub
<1>3. r \in RunType
  BY <1>2 DEF TypeInv, ProcsOK, ProcType, RunType
<1>4. runs' = Append(runs, r) /\ acted' = Append(acted, 0)
  BY DEF Record
<1> HIDE DEF r
<1>5. runs \in Seq(RunType) /\ acted \in Seq(Nat) /\ Len(acted) = Len(runs) /\ 0 \in Nat
  BY DEF TypeInv, SeqsOK
<1>6. /\ Append(runs, r) \in Seq(RunType) /\ Len(Append(runs, r)) = Len(runs) + 1
      /\ \A i \in DOMAIN runs : Append(runs, r)[i] = runs[i]
      /\ Append(runs, r)[Len(runs) + 1] = r
  BY <1>3, <1>5, AppendGrows
<1>7. /\ Append(acted, 0) \in Seq(Nat) /\ Len(Append(acted, 0)) = Len(acted) + 1
      /\ \A i \in DOMAIN acted : Append(acted, 0)[i] = acted[i]
      /\ Append(acted, 0)[Len(acted) + 1] = 0
  BY <1>5, AppendGrows
<1>8. DOMAIN runs = DOMAIN acted
  BY <1>5
<1> QED BY <1>4, <1>5, <1>6, <1>7, <1>8 DEF r

-----------------------------------------------------------------------------
(* The cards, action by action                                             *)

LEMMA CardsAreCards ==
    TypeInv => /\ cards \in Seq(CardType \cup {None}) /\ DOMAIN cards = 1 .. Len(cards)
               /\ Len(cards) \in Nat /\ DOMAIN cards = DOMAIN runs /\ DOMAIN acted = DOMAIN runs
               /\ \A i \in DOMAIN cards : cards[i] # None => cards[i] \in CardType
BY DEF TypeInv, SeqsOK

LEMMA SupersededCards ==
    ASSUME TypeInv, NEW p \in Procs
    PROVE  /\ Superseded(p) \in Seq(CardType \cup {None})
           /\ DOMAIN Superseded(p) = DOMAIN cards /\ Len(Superseded(p)) = Len(cards)
           /\ \A i \in DOMAIN cards :
                 Superseded(p)[i] = IF i \in proc[p].left /\ Waits(i)
                                    THEN [cards[i] EXCEPT !.status = "superseded"] ELSE cards[i]
<1> DEFINE f == Superseded(p)
<1>1. f = [i \in 1 .. Len(cards) |-> f[i]]
  BY CardsAreCards DEF Superseded
<1>2. \A i \in 1 .. Len(cards) : f[i] \in CardType \cup {None}
  <2> SUFFICES ASSUME NEW i \in 1 .. Len(cards) PROVE f[i] \in CardType \cup {None} OBVIOUS
  <2>1. CASE i \in proc[p].left /\ Waits(i)
    <3>1. cards[i] \in CardType /\ "superseded" \in Statuses
      BY <2>1, CardsAreCards DEF Waits, Statuses
    <3>2. [cards[i] EXCEPT !.status = "superseded"] \in CardType
      BY <3>1 DEF CardType
    <3> QED BY <2>1, <3>2, CardsAreCards DEF Superseded
  <2>2. CASE ~(i \in proc[p].left /\ Waits(i))
    BY <2>2, CardsAreCards DEF Superseded
  <2> QED BY <2>1, <2>2
<1>3. f \in Seq(CardType \cup {None}) /\ Len(f) = Len(cards) /\ DOMAIN f = 1 .. Len(cards)
  <2> HIDE DEF f
  <2> QED BY <1>1, <1>2, MapIsSeq, CardsAreCards
<1>4. \A i \in DOMAIN cards :
        f[i] = IF i \in proc[p].left /\ Waits(i)
               THEN [cards[i] EXCEPT !.status = "superseded"] ELSE cards[i]
  BY DEF Superseded
<1> QED BY <1>3, <1>4, CardsAreCards

\* What a run's commit does to the cards and the runs.
LEMMA CommitCards ==
    ASSUME TypeInv, NEW p \in Procs, Commit(p)
    PROVE  /\ CardsGrow /\ SeqsOK'
           /\ DOMAIN runs' = 1 .. Len(runs) + 1
           /\ \A i \in DOMAIN runs : runs'[i] = runs[i] /\ acted'[i] = acted[i]
           /\ acted'[Len(runs) + 1] = 0
           /\ \A i \in DOMAIN cards :
                 \/ cards'[i] = cards[i]
                 \/ Waits(i) /\ cards'[i].status = "superseded"
           /\ \A i \in DOMAIN cards :
                 i \in proc[p].left /\ Waits(i) => cards'[i].status = "superseded"
<1>0. proc[p].todo # << >> /\ Record(p, "answered") /\ cards' = Append(Superseded(p), CardNow(p))
  BY DEF Commit, TypeInv, ProcsOK
<1>1. /\ runs' \in Seq(RunType) /\ Len(runs') = Len(runs) + 1
      /\ acted' \in Seq(Nat) /\ Len(acted') = Len(acted) + 1
      /\ \A i \in DOMAIN runs : runs'[i] = runs[i] /\ acted'[i] = acted[i]
      /\ acted'[Len(runs) + 1] = 0
  BY <1>0, RunsGrow
<1>2. CardNow(p) \in CardType \cup {None}
  BY DEF CardNow, TypeInv, ProcsOK, ProcType
<1>3. /\ cards' \in Seq(CardType \cup {None}) /\ Len(cards') = Len(cards) + 1
      /\ DOMAIN cards' = 1 .. Len(cards) + 1
      /\ \A i \in DOMAIN cards : cards'[i] = Superseded(p)[i]
  BY <1>0, <1>2, SupersededCards, AppendGrows
<1>4. ASSUME NEW i \in DOMAIN cards, i \in proc[p].left, Waits(i)
      PROVE  cards'[i].status = "superseded" /\ cards'[i].sub = cards[i].sub
  <2>1. cards'[i] = [cards[i] EXCEPT !.status = "superseded"] /\ cards[i] \in CardType
    BY <1>3, <1>4, SupersededCards, CardsAreCards DEF Waits
  <2> QED BY <2>1 DEF CardType
<1>5. ASSUME NEW i \in DOMAIN cards, ~(i \in proc[p].left /\ Waits(i)) PROVE cards'[i] = cards[i]
  BY <1>3, <1>5, SupersededCards
<1>6. CardsGrow
  BY <1>3, <1>4, <1>5, CardsAreCards DEF CardsGrow, CardKept, Waits
<1>7. SeqsOK'
  BY <1>1, <1>3 DEF SeqsOK, TypeInv
<1>8. DOMAIN runs' = 1 .. Len(runs) + 1
  BY <1>1
<1> QED BY <1>1, <1>4, <1>5, <1>6, <1>7, <1>8

LEMMA FailCards ==
    ASSUME TypeInv, NEW p \in Procs, RunFails(p)
    PROVE  /\ CardsGrow /\ SeqsOK'
           /\ DOMAIN runs' = 1 .. Len(runs) + 1
           /\ \A i \in DOMAIN runs : runs'[i] = runs[i] /\ acted'[i] = acted[i]
           /\ acted'[Len(runs) + 1] = 0
           /\ runs'[Len(runs) + 1].outcome = "failed"
           /\ \A i \in DOMAIN cards : cards'[i] = cards[i]
<1>0. proc[p].todo # << >> /\ Record(p, "failed") /\ cards' = Append(cards, None)
  BY DEF RunFails, TypeInv, ProcsOK
<1>1. /\ runs' \in Seq(RunType) /\ Len(runs') = Len(runs) + 1
      /\ acted' \in Seq(Nat) /\ Len(acted') = Len(acted) + 1
      /\ \A i \in DOMAIN runs : runs'[i] = runs[i] /\ acted'[i] = acted[i]
      /\ acted'[Len(runs) + 1] = 0
  BY <1>0, RunsGrow
<1>5. runs'[Len(runs) + 1] = [task |-> proc[p].task, sub |-> Sub(p), mtg |-> proc[p].mtg,
                              kind |-> proc[p].kind, outcome |-> "failed"]
  BY <1>0, RunsGrow
<1>6. runs'[Len(runs) + 1].outcome = "failed"
  BY <1>5
<1>2. /\ cards' \in Seq(CardType \cup {None}) /\ Len(cards') = Len(cards) + 1
      /\ DOMAIN cards' = 1 .. Len(cards) + 1
      /\ \A i \in DOMAIN cards : cards'[i] = cards[i]
  BY <1>0, CardsAreCards, AppendGrows
<1>3. CardsGrow
  BY <1>2, CardsAreCards DEF CardsGrow, CardKept
<1>4. SeqsOK' /\ DOMAIN runs' = 1 .. Len(runs) + 1
  BY <1>1, <1>2 DEF SeqsOK, TypeInv
<1> QED BY <1>1, <1>2, <1>3, <1>4, <1>6

LEMMA ClaimCards ==
    ASSUME TypeInv, NEW u \in Approvers, NEW i \in DOMAIN cards,
           NEW s \in {"approved", "rejected"}, Claim(u, i, s)
    PROVE  /\ CardsGrow /\ SeqsOK' /\ UNCHANGED <<runs, acted>>
           /\ \A j \in DOMAIN cards : j # i => cards'[j] = cards[j]
           /\ cards'[i].status = s /\ cards'[i].by = u
<1>1. cards[i] \in CardType /\ s \in Statuses /\ cards \in Seq(CardType \cup {None})
  BY CardsAreCards DEF Claim, Waits, Statuses
<1>2. cards' = [cards EXCEPT ![i].status = s, ![i].by = u]
  BY DEF Claim
<1>3. cards'[i] \in CardType
  BY <1>1, <1>2 DEF CardType
<1>4. cards'[i].status = s /\ cards'[i].by = u /\ cards'[i].sub = cards[i].sub
  BY <1>1, <1>2 DEF CardType
<1>5. \A j \in DOMAIN cards : j # i => cards'[j] = cards[j]
  BY <1>1, <1>2
<1>6. cards' = [j \in 1 .. Len(cards) |-> cards'[j]] /\ Len(cards) \in Nat
  BY <1>1, <1>2, CardsAreCards
<1>7. \A j \in 1 .. Len(cards) : cards'[j] \in CardType \cup {None}
  BY <1>3, <1>5, CardsAreCards
<1>8. /\ cards' \in Seq(CardType \cup {None}) /\ Len(cards') = Len(cards)
      /\ DOMAIN cards' = DOMAIN cards
  BY <1>6, <1>7, CardsAreCards, MapIsSeq
<1>9. CardsGrow
  BY <1>4, <1>5, <1>8 DEF CardsGrow, CardKept, Claim, Waits
<1> QED BY <1>4, <1>5, <1>8, <1>9 DEF Claim, SeqsOK, TypeInv

LEMMA OutcomeCards ==
    ASSUME TypeInv, NEW u \in Approvers, RecordOutcome(u)
    PROVE  /\ CardsGrow /\ SeqsOK' /\ UNCHANGED <<runs, acted>>
           /\ \A j \in DOMAIN cards : j # deciding[u].card => cards'[j] = cards[j]
           /\ LET c == deciding[u].card IN
              \/ cards[c] = None /\ cards' = cards
              \/ /\ cards'[c].by = cards[c].by
                 /\ cards'[c].status = IF deciding[u].ok THEN "approved" ELSE "failed"
<1> DEFINE i == deciding[u].card
           s == IF deciding[u].ok THEN "approved" ELSE "failed"
           r == IF deciding[u].ok THEN "ok" ELSE "not_ok"
<1>0. i \in DOMAIN cards /\ cards \in Seq(CardType \cup {None})
  BY CardsAreCards DEF TypeInv, DecidingOK, RecordOutcome
<1>1. CASE cards[i] = None
  <2>1. cards' = cards
    BY <1>1 DEF RecordOutcome
  <2> QED BY <1>1, <2>1, CardsAreCards DEF RecordOutcome, CardsGrow, CardKept, SeqsOK, TypeInv
<1>2. CASE cards[i] # None
  <2>1. cards[i] \in CardType /\ s \in Statuses /\ r \in {"unset", "ok", "not_ok"}
    BY <1>0, <1>2, CardsAreCards DEF Statuses
  <2>2. cards' = [cards EXCEPT ![i].status = s, ![i].result = r]
    BY <1>2 DEF RecordOutcome
  <2>0. s # "pending"
    OBVIOUS
  <2> HIDE DEF s, r, i
  <2>3. cards'[i] \in CardType
    BY <1>0, <2>1, <2>2 DEF CardType
  <2>4. cards'[i].status = s /\ cards'[i].by = cards[i].by /\ cards'[i].sub = cards[i].sub
    BY <1>0, <2>1, <2>2 DEF CardType
  <2>5. \A j \in DOMAIN cards : j # i => cards'[j] = cards[j]
    BY <1>0, <2>1, <2>2
  <2>6. cards' = [j \in 1 .. Len(cards) |-> cards'[j]] /\ Len(cards) \in Nat
    BY <1>0, <2>1, <2>2, CardsAreCards
  <2>7. \A j \in 1 .. Len(cards) : cards'[j] \in CardType \cup {None}
    BY <2>3, <2>5, CardsAreCards
  <2>8. /\ cards' \in Seq(CardType \cup {None}) /\ Len(cards') = Len(cards)
        /\ DOMAIN cards' = DOMAIN cards
    BY <2>6, <2>7, CardsAreCards, MapIsSeq
  <2>9. CardsGrow
    BY <1>2, <2>0, <2>4, <2>5, <2>8 DEF CardsGrow, CardKept
  <2> QED BY <1>2, <2>4, <2>5, <2>8, <2>9 DEF i, s, RecordOutcome, SeqsOK, TypeInv
<1> QED BY <1>1, <1>2

LEMMA DeleteCards ==
    ASSUME TypeInv, NEW m \in Meetings, DeleteMeeting(m)
    PROVE  /\ CardsGrow /\ SeqsOK' /\ UNCHANGED <<runs, acted>>
           /\ \A i \in DOMAIN cards : cards'[i] = cards[i] \/ cards'[i] = None
<1>1. cards' = [i \in 1 .. Len(cards) |-> cards'[i]]
  BY CardsAreCards DEF DeleteMeeting
<1>2. \A i \in 1 .. Len(cards) : cards'[i] = cards[i] \/ cards'[i] = None
  BY CardsAreCards DEF DeleteMeeting
<1>3. \A i \in 1 .. Len(cards) : cards'[i] \in CardType \cup {None}
  BY <1>2, CardsAreCards
<1>4. /\ cards' \in Seq(CardType \cup {None}) /\ Len(cards') = Len(cards)
      /\ DOMAIN cards' = 1 .. Len(cards)
  BY <1>1, <1>3, MapIsSeq, CardsAreCards
<1>5. CardsGrow
  BY <1>2, <1>4, CardsAreCards DEF CardsGrow, CardKept
<1> QED BY <1>2, <1>4, <1>5, CardsAreCards DEF DeleteMeeting, SeqsOK, TypeInv

-----------------------------------------------------------------------------
(* The types hold in every step                                            *)

LEMMA EventWrites ==
    ASSUME EventsOK, NEW t \in DOMAIN events, NEW s \in {"queued", "taken", "done"},
           alive' \subseteq alive, events' = [events EXCEPT ![t].state = s]
    PROVE  EventsOK' /\ DOMAIN events' = DOMAIN events
<1>1. events \in Seq(EventType) /\ DOMAIN events = 1 .. Len(events) /\ Len(events) \in Nat
  BY DEF EventsOK
<1>2. events[t] \in EventType
  BY <1>1
<1>3. events'[t] \in EventType
  BY <1>2 DEF EventType
<1>4. \A j \in 1 .. Len(events) : events'[j] \in EventType
  BY <1>1, <1>3
<1>5. events' = [j \in 1 .. Len(events) |-> events'[j]]
  BY <1>1
<1>6. events' \in Seq(EventType) /\ DOMAIN events' = DOMAIN events
  <2>1. \A n \in Nat : \A f : f = [j \in 1 .. n |-> f[j]] /\ (\A j \in 1 .. n : f[j] \in EventType)
                              => f \in Seq(EventType) /\ DOMAIN f = 1 .. n
    BY MapIsSeq
  <2> QED BY <1>1, <1>4, <1>5, <2>1
<1> QED BY <1>6 DEF EventsOK

LEMMA EventsSame ==
    EventsOK /\ alive' \subseteq alive /\ UNCHANGED events => EventsOK' /\ DOMAIN events' = DOMAIN events
BY DEF EventsOK

LEMMA SeqsSame == SeqsOK /\ UNCHANGED <<runs, cards, acted>> => SeqsOK' /\ DOMAIN runs' = DOMAIN runs
BY DEF SeqsOK

\* What process p may have in hand once the events and the runs are what they become.
MayHold(r) ==
    /\ r \in ProcType
    /\ r.at \in {"check", "judge", "commit"} => r.todo # << >>
    /\ r.kind = "event" => r.task \in DOMAIN events'
    /\ r.left \subseteq DOMAIN runs'

LEMMA ProcSet ==
    ASSUME ProcsOK, NEW p \in Procs, proc' = [proc EXCEPT ![p] = proc'[p]], MayHold(proc'[p]),
           DOMAIN events \subseteq DOMAIN events', DOMAIN runs \subseteq DOMAIN runs'
    PROVE  ProcsOK'
BY DEF ProcsOK, MayHold

LEMMA ProcSame ==
    ASSUME ProcsOK, UNCHANGED proc, DOMAIN events \subseteq DOMAIN events',
           DOMAIN runs \subseteq DOMAIN runs'
    PROVE  ProcsOK'
BY DEF ProcsOK

LEMMA DecidingSame ==
    DecidingOK /\ UNCHANGED deciding /\ DOMAIN runs \subseteq DOMAIN runs' => DecidingOK'
BY DEF DecidingOK

LEMMA IdleMayBe == MayHold(Idle)
<1>1. Idle.at = "idle" /\ Idle.kind = "chat" /\ Idle.left = {}
  BY DEF Idle
<1> QED BY <1>1, IdleIsProc DEF MayHold

LEMMA OnwardMayBe ==
    ASSUME TypeInv, NEW p \in Procs, proc[p].todo # << >>, DOMAIN events \subseteq DOMAIN events'
    PROVE  MayHold(Onward(p))
<1>1. proc[p] \in ProcType /\ (proc[p].kind = "event" => proc[p].task \in DOMAIN events)
  BY DEF TypeInv, ProcsOK
<1>2. /\ Onward(p) \in ProcType
      /\ Onward(p).at \in {"check", "tell"}
      /\ Onward(p).at = "check" => Onward(p).todo # << >>
      /\ Onward(p).kind = proc[p].kind /\ Onward(p).task = proc[p].task
      /\ Onward(p).left = {}
  BY <1>1, OnwardIsProc
<1> QED BY <1>1, <1>2 DEF MayHold

\* The record a run's judgment leaves with its process.
LEMMA JudgeMayBe ==
    ASSUME TypeInv, NEW p \in Procs, Judge(p)
    PROVE  MayHold(proc'[p]) /\ proc' = [proc EXCEPT ![p] = proc'[p]]
<1>1. PICK prop \in Proposals(Sub(p), proc[p].mtg) :
        Set(p, [proc[p] EXCEPT !.at = "commit", !.looked = Committed,
                               !.left = Supersedes(p, prop), !.card = NewCard(p, prop),
                               !.judged = Queues(p, prop) \/ Retires(p, prop)])
  BY DEF Judge
<1>2. proc[p] \in ProcType /\ proc[p].todo # << >> /\ proc[p].mtg \in Names
  BY DEF Judge, TypeInv, ProcsOK, ProcType
<1>3. Sub(p) \in Subagents
  BY <1>2, HeadTail DEF Sub, ProcType
<1>4. prop.tool \in AllTools \cup {None} /\ prop.names \in Names
  <2>1. Tools(Sub(p)) \subseteq AllTools
    BY <1>3 DEF AllTools
  <2>2. CASE prop \in Silent(Sub(p))
    BY <2>2 DEF Silent, Names
  <2>3. CASE prop \notin Silent(Sub(p))
    <3>1. prop \in [tool : Tools(Sub(p)), ok : {TRUE},
                    names : IF Sub(p) \in TeamWide \/ proc[p].mtg = None THEN Meetings ELSE {None}]
      BY <2>3 DEF Proposals
    <3>2. prop.tool \in Tools(Sub(p))
      BY <3>1
    <3>3. prop.names \in Names
      BY <3>1 DEF Names
    <3> QED BY <2>1, <3>2, <3>3
  <2> QED BY <2>2, <2>3
<1>5. CardMeeting(p, prop) \in Names
  BY <1>2, <1>4 DEF CardMeeting
<1>6. NewCard(p, prop) \in CardType \cup {None}
  BY <1>3, <1>4, <1>5 DEF NewCard, Queues, CardType, Statuses
<1>7. Supersedes(p, prop) \subseteq DOMAIN cards /\ DOMAIN cards \subseteq Nat
  BY CardsAreCards DEF Supersedes, WaitingBefore
<1>8. Supersedes(p, prop) \in SUBSET Nat /\ Supersedes(p, prop) \subseteq DOMAIN runs'
  BY <1>7, CardsAreCards DEF Judge
<1>9. Committed \in Nat /\ (Queues(p, prop) \/ Retires(p, prop)) \in BOOLEAN
  BY CardsAreCards DEF Committed, TypeInv, SeqsOK
<1> DEFINE c == NewCard(p, prop)
           l == Supersedes(p, prop)
           j == Queues(p, prop) \/ Retires(p, prop)
           n == Committed
<1>10. proc'[p] = [proc[p] EXCEPT !.at = "commit", !.looked = n, !.left = l, !.card = c, !.judged = j]
  BY <1>1 DEF Set, TypeInv, ProcsOK
<1>11. c \in CardType \cup {None} /\ l \in SUBSET Nat /\ j \in BOOLEAN /\ n \in Nat
  BY <1>6, <1>8, <1>9
<1>12. l \subseteq DOMAIN runs'
  BY <1>8
<1> HIDE DEF c, l, j, n
<1>13. /\ proc'[p] \in ProcType /\ proc'[p].todo = proc[p].todo /\ proc'[p].kind = proc[p].kind
       /\ proc'[p].task = proc[p].task /\ proc'[p].left = l
  BY <1>2, <1>10, <1>11 DEF ProcType, Places
<1>14. proc[p].kind = "event" => proc[p].task \in DOMAIN events'
  BY DEF Judge, TypeInv, ProcsOK
<1>15. MayHold(proc'[p])
  BY <1>2, <1>12, <1>13, <1>14 DEF MayHold
<1>16. proc' = [proc EXCEPT ![p] = proc'[p]]
  BY <1>1 DEF Set, TypeInv, ProcsOK
<1> QED BY <1>15, <1>16

\* The process steps that write neither runs nor cards.
LEMMA ProcStepTypes ==
    ASSUME TypeInv, NEW p \in Procs
    PROVE  /\ \A t \in DOMAIN events : OnEvent(p, t) => TypeInv'
           /\ CheckRan(p) \/ Judge(p) \/ RunIsLost(p) \/ Tell(p) \/ ProcDies(p) => TypeInv'
           /\ \A r \in Requests : Ask(p, r) => TypeInv'
<1>0. proc[p] \in ProcType /\ SeqsOK /\ EventsOK /\ ProcsOK /\ DecidingOK
  BY DEF TypeInv, ProcsOK
<1>1. ASSUME NEW t \in DOMAIN events, OnEvent(p, t) PROVE TypeInv'
  <2>1. EventsOK' /\ DOMAIN events' = DOMAIN events
    BY <1>0, <1>1, EventWrites, EventsSame DEF OnEvent
  <2>2. SeqsOK' /\ DOMAIN runs' = DOMAIN runs
    BY <1>0, <1>1, SeqsSame DEF OnEvent
  <2>3. DecidingOK'
    BY <1>0, <1>1, <2>2, DecidingSame DEF OnEvent
  <2>4. CASE events[t].mtg \in alive
    <3> DEFINE r == [Idle EXCEPT !.at = "check", !.kind = "event", !.task = t,
                                 !.mtg = events[t].mtg, !.todo = Woken]
    <3>1. proc' = [proc EXCEPT ![p] = r]
      BY <1>1, <2>4 DEF OnEvent, Set
    <3>2. Woken \in Seq(Subagents) /\ Woken # << >>
      BY DEF Woken, Subagents
    <3>3. t \in Nat /\ events[t].mtg \in Names
      <4>1. t \in Nat /\ events[t] \in EventType
        BY <1>0 DEF EventsOK
      <4> QED BY <4>1 DEF EventType, Names
    <3>4. r \in ProcType /\ r.todo = Woken /\ r.task = t /\ r.left = {}
      BY <3>2, <3>3, IdleIsProc DEF Idle, ProcType, Places, Kinds
    <3>5. proc'[p] = r
      BY <1>0, <3>1 DEF ProcsOK
    <3> HIDE DEF r
    <3>6. MayHold(proc'[p])
      BY <2>1, <3>2, <3>4, <3>5 DEF MayHold
    <3>7. ProcsOK'
      BY <1>0, <2>1, <2>2, <3>1, <3>5, <3>6, ProcSet
    <3> QED BY <2>1, <2>2, <2>3, <3>7 DEF TypeInv
  <2>5. CASE events[t].mtg \notin alive
    <3>1. ProcsOK'
      BY <1>0, <1>1, <2>1, <2>2, <2>5, ProcSame DEF OnEvent
    <3> QED BY <2>1, <2>2, <2>3, <3>1 DEF TypeInv
  <2> QED BY <2>4, <2>5
<1>2. ASSUME CheckRan(p) \/ Judge(p) \/ RunIsLost(p) \/ Tell(p) \/ ProcDies(p) PROVE TypeInv'
  <2>1. SeqsOK' /\ DOMAIN runs' = DOMAIN runs
    BY <1>0, <1>2, SeqsSame DEF CheckRan, Judge, RunIsLost, Tell, ProcDies
  <2>2. DecidingOK'
    BY <1>0, <1>2, <2>1, DecidingSame DEF CheckRan, Judge, RunIsLost, Tell, ProcDies
  <2>3. EventsOK' /\ DOMAIN events' = DOMAIN events
    <3>1. proc[p].kind = "event" => proc[p].task \in DOMAIN events
      BY <1>0 DEF ProcsOK
    <3>2. CASE CheckRan(p) \/ Judge(p) \/ RunIsLost(p)
      BY <1>0, <3>2, EventsSame DEF CheckRan, Judge, RunIsLost
    <3>3. CASE Tell(p)
      BY <1>0, <3>1, <3>3, EventsSame, EventWrites DEF Tell
    <3>4. CASE ProcDies(p)
      BY <1>0, <3>1, <3>4, EventsSame, EventWrites DEF ProcDies
    <3> QED BY <1>2, <3>2, <3>3, <3>4
  <2>4. proc' = [proc EXCEPT ![p] = proc'[p]] /\ MayHold(proc'[p])
    <3>1. CASE CheckRan(p)
      <4>1. CASE AlreadyRan(proc[p].task, Sub(p))
        <5>1. proc[p].todo # << >> /\ proc' = [proc EXCEPT ![p] = Onward(p)]
          BY <1>0, <3>1, <4>1 DEF CheckRan, Set, ProcsOK
        <5>2. proc'[p] = Onward(p)
          BY <1>0, <5>1 DEF ProcsOK
        <5>3. MayHold(Onward(p))
          BY <2>3, <5>1, OnwardMayBe
        <5> QED BY <5>1, <5>2, <5>3
      <4>2. CASE ~AlreadyRan(proc[p].task, Sub(p))
        <5>1. proc' = [proc EXCEPT ![p] = [proc[p] EXCEPT !.at = "judge", !.saw = Committed]]
          BY <3>1, <4>2 DEF CheckRan, Set
        <5>2. proc'[p] = [proc[p] EXCEPT !.at = "judge", !.saw = Committed]
          BY <1>0, <5>1 DEF ProcsOK
        <5>3. Committed \in Nat /\ proc[p].at = "check"
          BY <1>0, <3>1 DEF CheckRan, Committed, SeqsOK
        <5>4. /\ proc'[p] \in ProcType /\ proc'[p].todo = proc[p].todo
              /\ proc'[p].kind = proc[p].kind /\ proc'[p].task = proc[p].task
              /\ proc'[p].left = proc[p].left
          BY <1>0, <5>2, <5>3 DEF ProcType, Places
        <5>5. MayHold(proc'[p])
          BY <1>0, <2>1, <2>3, <5>3, <5>4 DEF MayHold, ProcsOK
        <5> QED BY <5>1, <5>2, <5>5
      <4> QED BY <4>1, <4>2
    <3>2. CASE Judge(p)
      BY <3>2, JudgeMayBe
    <3>3. CASE RunIsLost(p)
      <4>1. proc[p].todo # << >> /\ proc' = [proc EXCEPT ![p] = Onward(p)]
        BY <1>0, <3>3 DEF RunIsLost, Set, ProcsOK
      <4>2. proc'[p] = Onward(p)
        BY <1>0, <4>1 DEF ProcsOK
      <4>3. MayHold(Onward(p))
        BY <2>3, <4>1, OnwardMayBe
      <4> QED BY <4>1, <4>2, <4>3
    <3>4. CASE Tell(p) \/ ProcDies(p)
      <4>1. proc' = [proc EXCEPT ![p] = Idle]
        BY <3>4 DEF Tell, ProcDies, Set
      <4>2. proc'[p] = Idle
        BY <1>0, <4>1 DEF ProcsOK
      <4> QED BY <4>1, <4>2, IdleMayBe
    <3> QED BY <1>2, <3>1, <3>2, <3>3, <3>4
  <2>5. ProcsOK'
    BY <1>0, <2>1, <2>3, <2>4, ProcSet
  <2> QED BY <2>1, <2>2, <2>3, <2>5 DEF TypeInv
<1>3. ASSUME NEW r \in Requests, Ask(p, r) PROVE TypeInv'
  <2>1. SeqsOK' /\ DOMAIN runs' = DOMAIN runs
    BY <1>0, <1>3, SeqsSame DEF Ask
  <2>2. DecidingOK'
    BY <1>0, <1>3, <2>1, DecidingSame DEF Ask
  <2>3. EventsOK' /\ DOMAIN events' = DOMAIN events
    BY <1>0, <1>3, EventsSame DEF Ask
  <2> DEFINE n == [Idle EXCEPT !.at = "judge", !.kind = r.kind, !.mtg = r.mtg,
                               !.todo = <<r.sub>>, !.saw = Committed]
  <2>4. proc' = [proc EXCEPT ![p] = n]
    BY <1>3 DEF Ask, Set
  <2>5. proc'[p] = n
    BY <1>0, <2>4 DEF ProcsOK
  <2>6. r.kind \in {"chat", "tick"} /\ r.sub \in Subagents /\ r.mtg \in Names
    BY RequestsAssumption DEF Subagents, Names
  <2>7. Committed \in Nat
    BY <1>0 DEF Committed, SeqsOK
  <2>8. <<r.sub>> \in Seq(Subagents) /\ <<r.sub>> # << >>
    BY <2>6
  <2>9. n \in ProcType /\ n.todo = <<r.sub>> /\ n.kind # "event" /\ n.left = {}
    BY <2>6, <2>7, <2>8, IdleIsProc DEF Idle, ProcType, Places, Kinds
  <2> HIDE DEF n
  <2>10. MayHold(proc'[p])
    BY <2>5, <2>8, <2>9 DEF MayHold
  <2>11. ProcsOK'
    BY <1>0, <2>1, <2>3, <2>4, <2>5, <2>10, ProcSet
  <2> QED BY <2>1, <2>2, <2>3, <2>11 DEF TypeInv
<1> QED BY <1>1, <1>2, <1>3

\* What a run that ends leaves: its record, and its process onward.
LEMMA RunEndsTypes ==
    ASSUME TypeInv, NEW p \in Procs, Commit(p) \/ RunFails(p)
    PROVE  TypeInv'
<1>0. proc[p] \in ProcType /\ SeqsOK /\ EventsOK /\ ProcsOK /\ DecidingOK
  BY DEF TypeInv, ProcsOK
<1>1. SeqsOK' /\ DOMAIN runs' = 1 .. Len(runs) + 1
  BY CommitCards, FailCards
<1>2. DOMAIN runs \subseteq DOMAIN runs'
  BY <1>0, <1>1 DEF SeqsOK
<1>3. EventsOK' /\ DOMAIN events' = DOMAIN events
  BY <1>0, EventsSame DEF Commit, RunFails
<1>4. DecidingOK'
  BY <1>0, <1>2, DecidingSame DEF Commit, RunFails
<1>5. proc[p].todo # << >> /\ proc' = [proc EXCEPT ![p] = Onward(p)]
  BY <1>0 DEF Commit, RunFails, Set, ProcsOK
<1>6. proc'[p] = Onward(p)
  BY <1>0, <1>5 DEF ProcsOK
<1>7. MayHold(Onward(p))
  BY <1>3, <1>5, OnwardMayBe
<1>8. ProcsOK'
  BY <1>0, <1>2, <1>3, <1>5, <1>6, <1>7, ProcSet
<1> QED BY <1>1, <1>3, <1>4, <1>8 DEF TypeInv

\* The approvers' steps.
LEMMA DecisionTypes ==
    ASSUME TypeInv, NEW u \in Approvers
    PROVE  /\ \A i \in DOMAIN cards : Claim(u, i, "approved") \/ Claim(u, i, "rejected") => TypeInv'
           /\ RunAction(u) \/ RecordOutcome(u) \/ ApprovalDies(u) => TypeInv'
<1>0. SeqsOK /\ EventsOK /\ ProcsOK /\ DecidingOK
  BY DEF TypeInv
<1>1. ASSUME NEW i \in DOMAIN cards, NEW s \in {"approved", "rejected"}, Claim(u, i, s) PROVE TypeInv'
  <2>1. SeqsOK' /\ UNCHANGED runs
    BY <1>1, ClaimCards
  <2>2. EventsOK' /\ DOMAIN events' = DOMAIN events
    BY <1>0, <1>1, EventsSame DEF Claim
  <2>3. ProcsOK'
    BY <1>0, <1>1, <2>1, <2>2, ProcSame DEF Claim
  <2>4. DecidingOK'
    <3> DEFINE d == [card |-> i, at |-> "act", ok |-> FALSE]
    <3>1. i \in Nat /\ i \in DOMAIN runs
      BY CardsAreCards
    <3>2. d \in Decision /\ d.card = i
      BY <3>1 DEF Decision
    <3>3. deciding' = [deciding EXCEPT ![u] = d] \/ deciding' = deciding
      BY <1>1 DEF Claim
    <3> HIDE DEF d
    <3> QED BY <1>0, <2>1, <3>1, <3>2, <3>3 DEF DecidingOK
  <2> QED BY <2>1, <2>2, <2>3, <2>4 DEF TypeInv
<1>2. ASSUME RunAction(u) PROVE TypeInv'
  <2>1. deciding[u] \in Decision /\ deciding[u].card \in DOMAIN runs
    BY <1>0, <1>2 DEF RunAction, DecidingOK
  <2>2. PICK ok \in BOOLEAN :
          /\ deciding' = [deciding EXCEPT ![u].at = "record", ![u].ok = ok]
          /\ acted' = IF ok THEN [acted EXCEPT ![deciding[u].card] = @ + 1] ELSE acted
    BY <1>2 DEF RunAction
  <2>3. acted' \in Seq(Nat) /\ Len(acted') = Len(acted)
    <3>1. acted \in Seq(Nat)
      BY <1>0 DEF SeqsOK
    <3>2. acted' = acted \/ acted' = [acted EXCEPT ![deciding[u].card] = @ + 1]
      BY <2>2
    <3> QED BY <3>1, <3>2
  <2>4. SeqsOK'
    BY <1>0, <1>2, <2>3 DEF SeqsOK, RunAction
  <2>5. EventsOK' /\ DOMAIN events' = DOMAIN events
    BY <1>0, <1>2, EventsSame DEF RunAction
  <2>6. ProcsOK'
    BY <1>0, <1>2, <2>5, ProcSame DEF RunAction
  <2>7. DecidingOK'
    <3>1. deciding'[u] \in Decision /\ deciding'[u].card = deciding[u].card
      BY <1>0, <2>1, <2>2 DEF DecidingOK, Decision
    <3>2. \A v \in Approvers : v # u => deciding'[v] = deciding[v]
      BY <1>0, <2>2 DEF DecidingOK
    <3>3. deciding' = [v \in Approvers |-> deciding'[v]]
      BY <1>0, <2>2 DEF DecidingOK
    <3>4. runs' = runs
      BY <1>2 DEF RunAction
    <3> QED BY <1>0, <2>1, <3>1, <3>2, <3>3, <3>4 DEF DecidingOK
  <2> QED BY <2>4, <2>5, <2>6, <2>7 DEF TypeInv
<1>3. ASSUME RecordOutcome(u) \/ ApprovalDies(u) PROVE TypeInv'
  <2>1. SeqsOK' /\ UNCHANGED runs
    BY <1>0, <1>3, OutcomeCards, SeqsSame DEF ApprovalDies
  <2>2. EventsOK' /\ DOMAIN events' = DOMAIN events
    BY <1>0, <1>3, EventsSame DEF RecordOutcome, ApprovalDies
  <2>3. ProcsOK'
    BY <1>0, <1>3, <2>1, <2>2, ProcSame DEF RecordOutcome, ApprovalDies
  <2>4. deciding' = [deciding EXCEPT ![u] = None]
    BY <1>3 DEF RecordOutcome, ApprovalDies
  <2>5. DecidingOK'
    BY <1>0, <2>1, <2>4 DEF DecidingOK
  <2> QED BY <2>1, <2>2, <2>3, <2>5 DEF TypeInv
<1> QED BY <1>1, <1>2, <1>3

\* The steps of nobody's process: a publication, a redelivery, a deletion.
LEMMA OutsideTypes ==
    ASSUME TypeInv
    PROVE  /\ \A m \in Reported : Publish(m) => TypeInv'
           /\ \A m \in Meetings : DeleteMeeting(m) => TypeInv'
           /\ \A t \in DOMAIN events : Redelivered(t) => TypeInv'
<1>0. SeqsOK /\ EventsOK /\ ProcsOK /\ DecidingOK
  BY DEF TypeInv
<1>1. ASSUME NEW m \in Reported, Publish(m) PROVE TypeInv'
  <2> DEFINE e == [mtg |-> m, state |-> "queued"]
  <2>1. e \in EventType /\ events \in Seq(EventType)
    BY <1>0, RequestsAssumption DEF EventType, EventsOK
  <2>2. events' = Append(events, e)
    BY <1>1 DEF Publish
  <2> HIDE DEF e
  <2>3. events' \in Seq(EventType) /\ DOMAIN events \subseteq DOMAIN events'
    BY <2>1, <2>2
  <2>4. EventsOK'
    BY <1>0, <1>1, <2>3 DEF EventsOK, Publish
  <2>5. SeqsOK' /\ DOMAIN runs' = DOMAIN runs
    BY <1>0, <1>1, SeqsSame DEF Publish
  <2>6. ProcsOK'
    BY <1>0, <1>1, <2>3, <2>5, ProcSame DEF Publish
  <2>7. DecidingOK'
    BY <1>0, <1>1, <2>5, DecidingSame DEF Publish
  <2> QED BY <2>4, <2>5, <2>6, <2>7 DEF TypeInv
<1>2. ASSUME NEW m \in Meetings, DeleteMeeting(m) PROVE TypeInv'
  <2>1. SeqsOK' /\ UNCHANGED runs
    BY <1>2, DeleteCards
  <2>2. EventsOK' /\ DOMAIN events' = DOMAIN events
    BY <1>0, <1>2, EventsSame DEF DeleteMeeting
  <2>3. ProcsOK'
    BY <1>0, <1>2, <2>1, <2>2, ProcSame DEF DeleteMeeting
  <2>4. DecidingOK'
    BY <1>0, <1>2, <2>1, DecidingSame DEF DeleteMeeting
  <2> QED BY <2>1, <2>2, <2>3, <2>4 DEF TypeInv
<1>3. ASSUME NEW t \in DOMAIN events, Redelivered(t) PROVE TypeInv'
  <2>1. EventsOK' /\ DOMAIN events' = DOMAIN events
    BY <1>0, <1>3, EventWrites DEF Redelivered
  <2>2. SeqsOK' /\ DOMAIN runs' = DOMAIN runs
    BY <1>0, <1>3, SeqsSame DEF Redelivered
  <2>3. ProcsOK'
    BY <1>0, <1>3, <2>1, <2>2, ProcSame DEF Redelivered
  <2>4. DecidingOK'
    BY <1>0, <1>3, <2>2, DecidingSame DEF Redelivered
  <2> QED BY <2>1, <2>2, <2>3, <2>4 DEF TypeInv
<1> QED BY <1>1, <1>2, <1>3

LEMMA StutterTypes == TypeInv /\ UNCHANGED vars => TypeInv'
<1> SUFFICES ASSUME TypeInv, UNCHANGED vars PROVE TypeInv' OBVIOUS
<1>1. SeqsOK' /\ EventsOK'
  BY DEF vars, TypeInv, SeqsOK, EventsOK
<1>2. ProcsOK' /\ DecidingOK'
  BY DEF vars, TypeInv, ProcsOK, DecidingOK
<1> QED BY <1>1, <1>2 DEF TypeInv

LEMMA TypeStep == TypeInv /\ [Next]_vars => TypeInv'
<1> SUFFICES ASSUME TypeInv, [Next]_vars PROVE TypeInv' OBVIOUS
<1>1. CASE UNCHANGED vars
  BY <1>1, StutterTypes
<1>2. ASSUME NEW p \in Procs, Work(p) \/ ProcDies(p) PROVE TypeInv'
  BY <1>2, ProcStepTypes, RunEndsTypes DEF Work
<1>3. ASSUME NEW p \in Procs, NEW r \in Requests, Ask(p, r) PROVE TypeInv'
  BY <1>3, ProcStepTypes
<1>4. ASSUME NEW u \in Approvers, NEW i \in DOMAIN cards,
             Claim(u, i, "approved") \/ Claim(u, i, "rejected")
      PROVE  TypeInv'
  BY <1>4, DecisionTypes
<1>5. ASSUME NEW u \in Approvers, CarryOut(u) \/ ApprovalDies(u) PROVE TypeInv'
  BY <1>5, DecisionTypes DEF CarryOut
<1> QED BY <1>1, <1>2, <1>3, <1>4, <1>5, OutsideTypes DEF Next

LEMMA TypesHold == Spec => []TypeInv
BY TypeInit, TypeStep, PTL DEF Spec

LEMMA TypesCorrect == TypeInv => TypeOK
<1> SUFFICES ASSUME TypeInv PROVE TypeOK OBVIOUS
<1>1. /\ alive \subseteq Meetings
      /\ events \in Seq([mtg : Meetings, state : {"queued", "taken", "done"}])
      /\ runs \in Seq([task : Nat, sub : Subagents, mtg : Names, kind : Kinds,
                       outcome : {"answered", "failed"}])
      /\ Len(cards) = Len(runs) /\ Len(acted) = Len(runs) /\ acted \in Seq(Nat)
  BY DEF TypeInv, SeqsOK, EventsOK, RunType, EventType
<1>2. \A i \in RunIds : cards[i] = None \/ cards[i] \in CardType
  BY CardsAreCards DEF RunIds
<1>3. CardType \subseteq [sub : Subagents, mtg : Names,
            tool : UNION {Tools(s) : s \in Subagents}, status : Statuses,
            by : Approvers \cup {None}, result : {"unset", "ok", "not_ok"}]
  BY DEF CardType, AllTools
<1>4. \A u \in Approvers : deciding[u] = None \/ deciding[u].card \in RunIds
  BY DEF TypeInv, DecidingOK, RunIds
<1>5. \A p \in Procs : /\ proc[p].kind \in Kinds /\ proc[p].left \subseteq RunIds
                       /\ proc[p].at \in {"check", "judge", "commit"} => proc[p].todo # << >>
                       /\ proc[p].kind = "event" => proc[p].task \in DOMAIN events
  BY DEF TypeInv, ProcsOK, ProcType, RunIds
<1> QED BY <1>1, <1>2, <1>3, <1>4, <1>5 DEF TypeOK

\* Runs, cards, processes and events keep the shapes the tables give them, and
\* what a process or an approver has in hand is in those tables.
THEOREM TypeCorrect == Spec => []TypeOK
BY TypesHold, TypesCorrect, PTL

-----------------------------------------------------------------------------
(* What a step leaves alone                                                *)

\* The committed runs stay, the cards only lose their "pending", and nothing
\* deleted comes back.
Frame ==
    /\ CardsGrow /\ DOMAIN runs \subseteq DOMAIN runs' /\ alive' \subseteq alive
    /\ \A i \in DOMAIN runs : runs'[i] = runs[i]

LEMMA SameFrame ==
    TypeInv /\ UNCHANGED <<runs, cards>> /\ alive' \subseteq alive => Frame
<1> SUFFICES ASSUME TypeInv, UNCHANGED <<runs, cards>>, alive' \subseteq alive PROVE Frame OBVIOUS
<1>1. CardsGrow
  BY CardsAreCards DEF CardsGrow, CardKept
<1> QED BY <1>1 DEF Frame

LEMMA StepFrame == TypeInv /\ [Next]_vars => Frame
<1> SUFFICES ASSUME TypeInv, [Next]_vars PROVE Frame OBVIOUS
<1>1. CASE UNCHANGED vars
  BY <1>1, SameFrame DEF vars
<1>2. ASSUME NEW p \in Procs, Work(p) \/ ProcDies(p) PROVE Frame
  <2>1. CASE Commit(p)
    <3>1. alive' \subseteq alive /\ DOMAIN runs \subseteq DOMAIN runs'
      BY <2>1, CommitCards DEF Commit, TypeInv, SeqsOK
    <3> QED BY <2>1, <3>1, CommitCards DEF Frame
  <2>2. CASE RunFails(p)
    <3>1. alive' \subseteq alive /\ DOMAIN runs \subseteq DOMAIN runs'
      BY <2>2, FailCards DEF RunFails, TypeInv, SeqsOK
    <3> QED BY <2>2, <3>1, FailCards DEF Frame
  <2>3. ASSUME NEW t \in DOMAIN events, OnEvent(p, t) PROVE Frame
    BY <2>3, SameFrame DEF OnEvent
  <2>4. CASE CheckRan(p) \/ Judge(p) \/ RunIsLost(p) \/ Tell(p) \/ ProcDies(p)
    BY <2>4, SameFrame DEF CheckRan, Judge, RunIsLost, Tell, ProcDies
  <2> QED BY <1>2, <2>1, <2>2, <2>3, <2>4 DEF Work
<1>3. ASSUME NEW p \in Procs, NEW r \in Requests, Ask(p, r) PROVE Frame
  BY <1>3, SameFrame DEF Ask
<1>4. ASSUME NEW u \in Approvers, NEW i \in DOMAIN cards, NEW s \in {"approved", "rejected"},
             Claim(u, i, s)
      PROVE  Frame
  BY <1>4, ClaimCards DEF Frame, Claim
<1>5. ASSUME NEW u \in Approvers, CarryOut(u) \/ ApprovalDies(u) PROVE Frame
  <2>1. CASE RecordOutcome(u)
    BY <2>1, OutcomeCards DEF Frame, RecordOutcome
  <2>2. CASE RunAction(u) \/ ApprovalDies(u)
    BY <2>2, SameFrame DEF RunAction, ApprovalDies
  <2> QED BY <1>5, <2>1, <2>2 DEF CarryOut
<1>6. ASSUME NEW m \in Meetings, DeleteMeeting(m) PROVE Frame
  BY <1>6, DeleteCards DEF Frame, DeleteMeeting
<1>7. ASSUME NEW m \in Reported, Publish(m) PROVE Frame
  BY <1>7, SameFrame DEF Publish
<1>8. ASSUME NEW t \in DOMAIN events, Redelivered(t) PROVE Frame
  BY <1>8, SameFrame DEF Redelivered
<1> QED BY <1>1, <1>2, <1>3, <1>4, <1>5, <1>6, <1>7, <1>8 DEF Next

\* What becomes of one process in a step: what it has in hand stays, or it was
\* its own step.
ProcMoved(p) ==
    \/ proc'[p] = proc[p]
    \/ proc'[p].at \in {"idle", "check", "tell"}
    \/ proc'[p].kind # "event" /\ proc'[p].at = "judge"
    \/ CheckRan(p)
    \/ Judge(p)

LEMMA OthersStay ==
    ASSUME TypeInv, NEW p \in Procs, NEW q \in Procs, NEW r, Set(p, r)
    PROVE  (q # p => proc'[q] = proc[q]) /\ proc'[p] = r
BY DEF Set, TypeInv, ProcsOK

LEMMA OnwardMoves ==
    ASSUME NEW p
    PROVE  Onward(p).at \in {"check", "tell"} /\ Idle.at = "idle"
BY DEF Onward, Idle

LEMMA ProcStep ==
    ASSUME TypeInv, [Next]_vars, NEW q \in Procs
    PROVE  ProcMoved(q)
<1>1. CASE UNCHANGED proc
  BY <1>1 DEF ProcMoved
<1>2. ASSUME NEW p \in Procs, Work(p) \/ ProcDies(p) PROVE ProcMoved(q)
  <2>1. ASSUME NEW r, Set(p, r), r.at \in {"idle", "check", "tell"} PROVE ProcMoved(q)
    BY <2>1, OthersStay DEF ProcMoved
  <2>2. CASE Commit(p) \/ RunFails(p) \/ RunIsLost(p)
    <3>1. Set(p, Onward(p))
      BY <2>2 DEF Commit, RunFails, RunIsLost
    <3> QED BY <2>1, <3>1, OnwardMoves
  <2>3. CASE Tell(p) \/ ProcDies(p)
    <3>1. Set(p, Idle)
      BY <2>3 DEF Tell, ProcDies
    <3> QED BY <2>1, <3>1, OnwardMoves
  <2>4. CASE CheckRan(p) \/ Judge(p)
    <3>1. \E r : Set(p, r)
      BY <2>4 DEF CheckRan, Judge
    <3>2. q # p => proc'[q] = proc[q]
      BY <3>1, OthersStay
    <3> QED BY <2>4, <3>2 DEF ProcMoved
  <2>5. ASSUME NEW t \in DOMAIN events, OnEvent(p, t) PROVE ProcMoved(q)
    <3>1. CASE events[t].mtg \in alive
      <4> DEFINE r == [Idle EXCEPT !.at = "check", !.kind = "event", !.task = t,
                                   !.mtg = events[t].mtg, !.todo = Woken]
      <4>1. Set(p, r)
        BY <2>5, <3>1 DEF OnEvent
      <4>2. r.at = "check"
        BY DEF Idle
      <4> HIDE DEF r
      <4> QED BY <2>1, <4>1, <4>2
    <3>2. CASE events[t].mtg \notin alive
      BY <2>5, <3>2 DEF OnEvent, ProcMoved
    <3> QED BY <3>1, <3>2
  <2> QED BY <1>2, <2>2, <2>3, <2>4, <2>5 DEF Work
<1>3. ASSUME NEW p \in Procs, NEW s \in Requests, Ask(p, s) PROVE ProcMoved(q)
  <2> DEFINE r == [Idle EXCEPT !.at = "judge", !.kind = s.kind, !.mtg = s.mtg,
                               !.todo = <<s.sub>>, !.saw = Committed]
  <2>1. Set(p, r)
    BY <1>3 DEF Ask
  <2>2. r.at = "judge" /\ r.kind = s.kind
    BY DEF Idle
  <2>3. s.kind # "event"
    BY RequestsAssumption
  <2> HIDE DEF r
  <2> QED BY <2>1, <2>2, <2>3, OthersStay DEF ProcMoved
<1>4. ASSUME NEW u \in Approvers, CarryOut(u) \/ ApprovalDies(u) PROVE UNCHANGED proc
  BY <1>4 DEF CarryOut, RunAction, RecordOutcome, ApprovalDies
<1>5. ASSUME NEW u \in Approvers, NEW i \in DOMAIN cards, NEW s \in {"approved", "rejected"},
             Claim(u, i, s)
      PROVE  UNCHANGED proc
  BY <1>5 DEF Claim
<1>6. ASSUME NEW m, Publish(m) \/ DeleteMeeting(m) \/ Redelivered(m) PROVE UNCHANGED proc
  BY <1>6 DEF Publish, DeleteMeeting, Redelivered
<1> QED BY <1>1, <1>2, <1>3, <1>4, <1>5, <1>6 DEF Next, vars

\* The step in which a run is committed is its Commit.
LEMMA CommitsIsCommit ==
    ASSUME TypeInv, [Next]_vars, NEW p \in Procs, Commits(p)
    PROVE  Commit(p)
<1>1. proc[p].at = "commit" /\ proc'[p] # proc[p] /\ runs' # runs
  BY DEF Commits, Committed, TypeInv, SeqsOK
<1>2. ~ UNCHANGED vars
  BY <1>1 DEF vars
<1>3. ASSUME NEW q \in Procs, Work(q) PROVE Commit(p)
  <2>1. CASE Commit(q) \/ RunFails(q)
    <3>1. Set(q, Onward(q))
      BY <2>1 DEF Commit, RunFails
    <3>2. p = q
      BY <1>1, <3>1, OthersStay
    <3> QED BY <1>1, <2>1, <3>2 DEF RunFails
  <2>2. ASSUME CheckRan(q) \/ Judge(q) \/ RunIsLost(q) \/ Tell(q) \/ \E t \in DOMAIN events : OnEvent(q, t)
        PROVE  FALSE
    BY <1>1, <2>2 DEF CheckRan, Judge, RunIsLost, Tell, OnEvent
  <2> QED BY <1>3, <2>1, <2>2 DEF Work
<1>4. ASSUME NEW q \in Procs, NEW r \in Requests, Ask(q, r) \/ ProcDies(q) PROVE FALSE
  BY <1>1, <1>4 DEF Ask, ProcDies
<1>5. ASSUME NEW q \in Procs, ProcDies(q) PROVE FALSE
  BY <1>1, <1>5 DEF ProcDies
<1>6. ASSUME NEW u \in Approvers, CarryOut(u) \/ ApprovalDies(u) PROVE FALSE
  BY <1>1, <1>6 DEF CarryOut, RunAction, RecordOutcome, ApprovalDies
<1>7. ASSUME NEW u \in Approvers, NEW i \in DOMAIN cards, NEW s \in {"approved", "rejected"},
             Claim(u, i, s)
      PROVE  FALSE
  BY <1>1, <1>7 DEF Claim
<1>8. ASSUME NEW m, Publish(m) \/ DeleteMeeting(m) \/ Redelivered(m) PROVE FALSE
  BY <1>1, <1>8 DEF Publish, DeleteMeeting, Redelivered
<1> QED BY <1>2, <1>3, <1>4, <1>5, <1>6, <1>7, <1>8 DEF Next

-----------------------------------------------------------------------------
(* A later judgment of the team replaces the earlier ones                  *)

\* A run that judged the team has in hand every card it could see waiting.
SawWaiting(p) ==
    /\ proc[p].looked <= Len(runs)
    /\ \A i \in DOMAIN runs :
         i <= proc[p].looked /\ Waits(i) /\ cards[i].sub = Sub(p) => i \in proc[p].left
Judged(p) == proc[p].at = "commit" /\ proc[p].judged /\ Sub(p) \in TeamWide
JudgeInv == \A p \in Procs : Judged(p) => SawWaiting(p)

LEMMA JudgeInit == Init => JudgeInv
BY DEF Init, JudgeInv, Judged, Idle

LEMMA JudgeSees ==
    ASSUME TypeInv, NEW p \in Procs, Judge(p), Judged(p)'
    PROVE  SawWaiting(p)'
<1>1. PICK prop \in Proposals(Sub(p), proc[p].mtg) :
        Set(p, [proc[p] EXCEPT !.at = "commit", !.looked = Committed,
                               !.left = Supersedes(p, prop), !.card = NewCard(p, prop),
                               !.judged = Queues(p, prop) \/ Retires(p, prop)])
  BY DEF Judge
<1> DEFINE c == NewCard(p, prop)
           l == Supersedes(p, prop)
           j == Queues(p, prop) \/ Retires(p, prop)
           n == Committed
<1>2. proc'[p] = [proc[p] EXCEPT !.at = "commit", !.looked = n, !.left = l, !.card = c, !.judged = j]
  BY <1>1, OthersStay
<1> HIDE DEF c, l, j, n
<1>3. /\ proc'[p].todo = proc[p].todo /\ proc'[p].looked = n /\ proc'[p].left = l
      /\ proc'[p].judged = j
  BY <1>2 DEF TypeInv, ProcsOK, ProcType
<1>4. Sub(p)' = Sub(p) /\ j /\ Sub(p) \in TeamWide
  BY <1>3 DEF Judged, Sub
<1>5. l = WaitingBefore(p)
  BY <1>4 DEF l, j, Supersedes, Replaces, WaitingBefore
<1>6. n = Len(runs) /\ Len(runs) \in Nat
  BY DEF n, Committed, TypeInv, SeqsOK
<1>7. UNCHANGED <<runs, cards>>
  BY DEF Judge
<1>8. \A i \in DOMAIN runs : Waits(i) /\ cards[i].sub = Sub(p) => i \in l
  BY <1>5, CardsAreCards DEF WaitingBefore
<1> QED BY <1>3, <1>4, <1>6, <1>7, <1>8 DEF SawWaiting, Waits

LEMMA JudgeStep == TypeInv /\ JudgeInv /\ [Next]_vars => JudgeInv'
<1> SUFFICES ASSUME TypeInv, JudgeInv, [Next]_vars, NEW p \in Procs, Judged(p)'
             PROVE  SawWaiting(p)'
  BY DEF JudgeInv
<1>1. CASE Judge(p)
  BY <1>1, JudgeSees
<1>2. CASE proc'[p] = proc[p]
  <2>1. Judged(p) /\ Sub(p)' = Sub(p)
    BY <1>2 DEF Judged, Sub
  <2>2. SawWaiting(p) /\ Frame
    BY <2>1, StepFrame DEF JudgeInv
  <2>3. /\ Len(runs) \in Nat /\ Len(runs') \in Nat /\ DOMAIN runs = 1 .. Len(runs)
        /\ DOMAIN runs' = 1 .. Len(runs')
    BY TypeStep DEF TypeInv, SeqsOK
  <2>4. proc[p].looked \in Nat /\ proc[p].looked <= Len(runs)
    BY <2>2 DEF SawWaiting, TypeInv, ProcsOK, ProcType
  <2>5. Len(runs) <= Len(runs')
    <3>1. 1 .. Len(runs) \subseteq 1 .. Len(runs')
      BY <2>2, <2>3 DEF Frame
    <3> QED BY <2>3, <3>1
  <2>6. \A i \in DOMAIN runs' : i <= proc[p].looked => i \in DOMAIN runs
    BY <2>3, <2>4
  <2>7. ASSUME NEW i \in DOMAIN runs, Waits(i)', cards'[i].sub = Sub(p), i <= proc[p].looked
        PROVE  i \in proc[p].left
    <3>1. Waits(i) /\ cards[i].sub = Sub(p)
      BY <2>2, <2>7, CardsAreCards DEF Frame, CardsGrow, CardKept, Waits
    <3> QED BY <2>2, <2>7, <3>1 DEF SawWaiting
  <2>8. proc[p].looked <= Len(runs')
    BY <2>3, <2>4, <2>5
  <2> QED BY <1>2, <2>1, <2>6, <2>7, <2>8 DEF SawWaiting
<1>3. CASE CheckRan(p)
  <2>1. proc'[p].at # "commit"
    <3>1. CASE AlreadyRan(proc[p].task, Sub(p))
      <4>1. Set(p, Onward(p))
        BY <1>3, <3>1 DEF CheckRan
      <4> QED BY <4>1, OthersStay, OnwardMoves
    <3>2. CASE ~AlreadyRan(proc[p].task, Sub(p))
      <4>1. Set(p, [proc[p] EXCEPT !.at = "judge", !.saw = Committed])
        BY <1>3, <3>2 DEF CheckRan
      <4>2. proc'[p] = [proc[p] EXCEPT !.at = "judge", !.saw = Committed]
        BY <4>1, OthersStay
      <4> QED BY <4>2 DEF TypeInv, ProcsOK, ProcType
    <3> QED BY <3>1, <3>2
  <2> QED BY <2>1 DEF Judged
<1> QED BY <1>1, <1>2, <1>3, ProcStep DEF ProcMoved, Judged

LEMMA JudgeHolds == Spec => []JudgeInv
BY TypesHold, JudgeInit, JudgeStep, PTL DEF Spec

LEMMA JudgeReplaces ==
    ASSUME TypeInv, JudgeInv, [Next]_vars, NEW p \in Procs, NEW i \in RunIds,
           Commits(p), proc[p].judged, Sub(p) \in TeamWide, i <= proc[p].looked
    PROVE  ~(Waits(i)' /\ cards'[i].sub = Sub(p))
<1> SUFFICES ASSUME Waits(i)', cards'[i].sub = Sub(p) PROVE FALSE OBVIOUS
<1>1. Commit(p) /\ proc[p].at = "commit"
  BY CommitsIsCommit DEF Commits
<1>2. i \in DOMAIN cards /\ i \in DOMAIN runs
  BY CardsAreCards DEF RunIds
<1>3. Waits(i) /\ cards[i].sub = Sub(p)
  BY <1>1, <1>2, CommitCards DEF CardsGrow, CardKept, Waits
<1>4. i \in proc[p].left
  BY <1>1, <1>2, <1>3 DEF JudgeInv, Judged, SawWaiting
<1>5. cards'[i].status = "superseded"
  BY <1>1, <1>2, <1>3, <1>4, CommitCards
<1> QED BY <1>5 DEF Waits

\* A run that judged the team leaves waiting nothing of its kind it could see.
THEOREM JudgmentReplaces == Spec => LaterJudgmentReplaces
<1>1. TypeInv /\ JudgeInv /\ [Next]_vars =>
        [\A p \in Procs, i \in RunIds :
           Commits(p) /\ proc[p].judged /\ Sub(p) \in TeamWide /\ i <= proc[p].looked
               => ~(Waits(i)' /\ cards'[i].sub = Sub(p))]_vars
  BY JudgeReplaces
<1> QED BY <1>1, TypesHold, JudgeHolds, PTL DEF Spec, LaterJudgmentReplaces

-----------------------------------------------------------------------------
(* A repeated run overlapped the first                                     *)

\* What a delivery had seen when it asked held no answered run of its own task.
NoneAnswered(p) ==
    /\ proc[p].saw <= Len(runs)
    /\ \A i \in DOMAIN runs : i <= proc[p].saw => ~Answered(i, proc[p].task, Sub(p))
OnEventRun(p) == proc[p].at \in {"judge", "commit"} /\ proc[p].kind = "event"
RanInv == \A p \in Procs : OnEventRun(p) => NoneAnswered(p)

LEMMA RanInit == Init => RanInv
BY DEF Init, RanInv, OnEventRun, Idle

\* The guard looked at every run committed by then.
LEMMA CheckLooks ==
    ASSUME TypeInv, NEW p \in Procs, CheckRan(p), OnEventRun(p)'
    PROVE  NoneAnswered(p)'
<1>1. CASE AlreadyRan(proc[p].task, Sub(p))
  <2>1. Set(p, Onward(p))
    BY <1>1 DEF CheckRan
  <2> QED BY <2>1, OthersStay, OnwardMoves DEF OnEventRun
<1>2. CASE ~AlreadyRan(proc[p].task, Sub(p))
  <2>1. Set(p, [proc[p] EXCEPT !.at = "judge", !.saw = Committed])
    BY <1>2 DEF CheckRan
  <2> DEFINE n == Committed
  <2>2. proc'[p] = [proc[p] EXCEPT !.at = "judge", !.saw = n]
    BY <2>1, OthersStay
  <2>3. n = Len(runs) /\ Len(runs) \in Nat
    BY DEF Committed, TypeInv, SeqsOK
  <2> HIDE DEF n
  <2>4. proc'[p].todo = proc[p].todo /\ proc'[p].task = proc[p].task /\ proc'[p].saw = n
    BY <2>2 DEF TypeInv, ProcsOK, ProcType
  <2>5. UNCHANGED <<runs, alive>> /\ Sub(p)' = Sub(p)
    BY <2>4 DEF CheckRan, Sub
  <2>6. \A i \in DOMAIN runs : ~Answered(i, proc[p].task, Sub(p))
    BY <1>2 DEF AlreadyRan
  <2>7. \A i \in DOMAIN runs' : ~Answered(i, proc[p].task, Sub(p))'
    BY <2>4, <2>5, <2>6 DEF Answered, RunGone
  <2> QED BY <2>3, <2>4, <2>5, <2>6, <2>7 DEF NoneAnswered, Answered, RunGone
<1> QED BY <1>1, <1>2

LEMMA RanStays ==
    ASSUME TypeInv, [Next]_vars, NEW p \in Procs, NoneAnswered(p),
           proc'[p].saw = proc[p].saw, proc'[p].task = proc[p].task, Sub(p)' = Sub(p)
    PROVE  NoneAnswered(p)'
<1>1. Frame
  BY StepFrame
<1>2. /\ Len(runs) \in Nat /\ Len(runs') \in Nat /\ DOMAIN runs = 1 .. Len(runs)
      /\ DOMAIN runs' = 1 .. Len(runs')
  BY TypeStep DEF TypeInv, SeqsOK
<1>3. proc[p].saw \in Nat /\ proc[p].saw <= Len(runs)
  BY DEF NoneAnswered, TypeInv, ProcsOK, ProcType
<1>4. Len(runs) <= Len(runs')
  <2>1. 1 .. Len(runs) \subseteq 1 .. Len(runs')
    BY <1>1, <1>2 DEF Frame
  <2> QED BY <1>2, <2>1
<1>5. \A i \in DOMAIN runs' : i <= proc[p].saw => i \in DOMAIN runs
  BY <1>2, <1>3
<1>6. proc[p].saw <= Len(runs')
  BY <1>2, <1>3, <1>4
<1>7. ASSUME NEW i \in DOMAIN runs, NEW t, NEW s, ~Answered(i, t, s)
      PROVE  ~(/\ ~(runs'[i].mtg # None /\ runs'[i].mtg \notin alive')
               /\ runs'[i].task = t /\ runs'[i].sub = s /\ runs'[i].outcome = "answered")
  BY <1>1, <1>7 DEF Frame, Answered, RunGone
<1> QED BY <1>5, <1>6, <1>7 DEF NoneAnswered, Answered, RunGone

LEMMA RanStep == TypeInv /\ RanInv /\ [Next]_vars => RanInv'
<1> SUFFICES ASSUME TypeInv, RanInv, [Next]_vars, NEW p \in Procs, OnEventRun(p)'
             PROVE  NoneAnswered(p)'
  BY DEF RanInv
<1>1. CASE CheckRan(p)
  BY <1>1, CheckLooks
<1>2. CASE proc'[p] = proc[p]
  <2>1. OnEventRun(p) /\ Sub(p)' = Sub(p)
    BY <1>2 DEF OnEventRun, Sub
  <2> QED BY <1>2, <2>1, RanStays DEF RanInv
<1>3. CASE Judge(p)
  <2>1. PICK prop : Set(p, [proc[p] EXCEPT !.at = "commit", !.looked = Committed,
                               !.left = Supersedes(p, prop), !.card = NewCard(p, prop),
                               !.judged = Queues(p, prop) \/ Retires(p, prop)])
    BY <1>3 DEF Judge
  <2> DEFINE c == NewCard(p, prop)
             l == Supersedes(p, prop)
             j == Queues(p, prop) \/ Retires(p, prop)
             n == Committed
  <2>2. proc'[p] = [proc[p] EXCEPT !.at = "commit", !.looked = n, !.left = l, !.card = c, !.judged = j]
    BY <2>1, OthersStay
  <2> HIDE DEF c, l, j, n
  <2>3. /\ proc'[p].todo = proc[p].todo /\ proc'[p].task = proc[p].task
        /\ proc'[p].saw = proc[p].saw /\ proc'[p].kind = proc[p].kind
    BY <2>2 DEF TypeInv, ProcsOK, ProcType
  <2>4. OnEventRun(p) /\ Sub(p)' = Sub(p)
    BY <1>3, <2>3 DEF OnEventRun, Sub, Judge
  <2> QED BY <2>3, <2>4, RanStays DEF RanInv
<1> QED BY <1>1, <1>2, <1>3, ProcStep DEF ProcMoved, OnEventRun

LEMMA RanHolds == Spec => []RanInv
BY TypesHold, RanInit, RanStep, PTL DEF Spec

LEMMA RepeatSaw ==
    ASSUME TypeInv, RanInv, NEW p \in Procs, NEW i \in RunIds,
           Commits(p), proc[p].kind = "event", Answered(i, proc[p].task, Sub(p))
    PROVE  proc[p].saw < i
<1>1. NoneAnswered(p)
  BY DEF Commits, RanInv, OnEventRun
<1>2. i \in DOMAIN runs /\ i \in Nat /\ proc[p].saw \in Nat
  BY CardsAreCards DEF RunIds, TypeInv, ProcsOK, ProcType
<1>3. ~(i <= proc[p].saw)
  BY <1>1, <1>2 DEF NoneAnswered
<1> QED BY <1>2, <1>3

\* A subagent that a task woke twice had looked before the first run committed.
THEOREM RepeatsOverlap == Spec => RepeatOverlaps
<1>1. TypeInv /\ RanInv /\ [Next]_vars =>
        [\A p \in Procs, i \in RunIds :
           Commits(p) /\ proc[p].kind = "event" /\ Answered(i, proc[p].task, Sub(p))
               => proc[p].saw < i]_vars
  BY RepeatSaw
<1> QED BY <1>1, TypesHold, RanHolds, PTL DEF Spec, RepeatOverlaps

-----------------------------------------------------------------------------
(* An action is carried out at most once                                   *)

\* Card i was not carried out twice; carried out, it stands approved by someone.
CardActed(i) ==
    /\ acted[i] <= 1
    /\ acted[i] = 1 /\ cards[i] # None =>
          cards[i].status = "approved" /\ cards[i].by \in Approvers
\* The card u is carrying out is u's, and not carried out yet.
InHand(u) ==
    LET d == deciding[u] IN
    /\ cards[d.card] # None => cards[d.card].status = "approved" /\ cards[d.card].by = u
    /\ cards[d.card] # None /\ (d.at = "act" \/ ~d.ok) => acted[d.card] = 0
ActedInv ==
    /\ \A i \in DOMAIN runs : CardActed(i)
    /\ \A u \in Approvers : deciding[u] # None => InHand(u)

LEMMA ActedInit == Init => ActedInv
BY DEF Init, ActedInv

\* A step that carries nothing out, changes no card being carried out but to
\* delete it, and approves none it did not claim.
LEMMA ActedAway ==
    ASSUME TypeInv, ActedInv, TypeInv', UNCHANGED deciding,
           \A i \in DOMAIN runs : acted'[i] = acted[i],
           \A i \in DOMAIN runs' : i \notin DOMAIN runs => acted'[i] = 0,
           DOMAIN runs \subseteq DOMAIN runs',
           \A i \in DOMAIN runs :
              cards'[i] = None \/ cards'[i] = cards[i] \/ (Waits(i) /\ cards[i] # None)
    PROVE  ActedInv'
<1>1. ASSUME NEW i \in DOMAIN runs' PROVE CardActed(i)'
  <2>1. CASE i \notin DOMAIN runs
    BY <2>1 DEF CardActed
  <2>2. CASE i \in DOMAIN runs
    <3>1. CardActed(i) /\ acted'[i] = acted[i] /\ acted[i] \in Nat
      BY <2>2 DEF ActedInv, TypeInv, SeqsOK
    <3>2. CASE cards'[i] = None
      BY <3>1, <3>2 DEF CardActed
    <3>3. CASE cards'[i] = cards[i]
      BY <3>1, <3>3 DEF CardActed
    <3>4. CASE Waits(i) /\ cards[i] # None
      <4>1. acted[i] # 1
        BY <3>1, <3>4 DEF CardActed, Waits
      <4> QED BY <3>1, <4>1 DEF CardActed
    <3> QED BY <2>2, <3>2, <3>3, <3>4
  <2> QED BY <2>1, <2>2
<1>2. ASSUME NEW u \in Approvers, deciding'[u] # None PROVE InHand(u)'
  <2> DEFINE c == deciding[u].card
  <2>1. InHand(u) /\ c \in DOMAIN runs /\ deciding'[u] = deciding[u]
    BY <1>2 DEF ActedInv, TypeInv, DecidingOK
  <2>2. cards'[c] = None \/ cards'[c] = cards[c]
    BY <2>1 DEF InHand, Waits
  <2>3. acted'[c] = acted[c]
    BY <2>1
  <2> QED BY <2>1, <2>2, <2>3 DEF InHand
<1> QED BY <1>1, <1>2 DEF ActedInv

LEMMA ActedSame ==
    ASSUME TypeInv, ActedInv, UNCHANGED <<runs, cards, acted>>,
           \A u \in Approvers : deciding'[u] = None \/ deciding'[u] = deciding[u]
    PROVE  ActedInv'
<1>1. \A i \in DOMAIN runs' : CardActed(i)'
  BY DEF ActedInv, CardActed
<1>2. ASSUME NEW u \in Approvers, deciding'[u] # None PROVE InHand(u)'
  <2>1. InHand(u) /\ deciding'[u] = deciding[u]
    BY <1>2 DEF ActedInv
  <2> QED BY <2>1 DEF InHand
<1> QED BY <1>1, <1>2 DEF ActedInv

\* A claim is made of a card that waits, so nobody has it in hand.
LEMMA ActedClaim ==
    ASSUME TypeInv, ActedInv, NEW u \in Approvers, NEW i \in DOMAIN cards,
           NEW s \in {"approved", "rejected"}, Claim(u, i, s)
    PROVE  ActedInv'
<1>1. /\ i \in DOMAIN runs /\ UNCHANGED <<runs, acted>> /\ acted[i] \in Nat /\ CardActed(i)
      /\ \A j \in DOMAIN runs : j # i => cards'[j] = cards[j]
      /\ cards'[i].status = s /\ cards'[i].by = u
      /\ Waits(i) /\ deciding[u] = None
  <2>1. i \in DOMAIN runs /\ DOMAIN cards = DOMAIN runs
    BY CardsAreCards
  <2>2. acted[i] \in Nat /\ CardActed(i)
    BY <2>1 DEF ActedInv, TypeInv, SeqsOK
  <2>3. /\ UNCHANGED <<runs, acted>> /\ \A j \in DOMAIN cards : j # i => cards'[j] = cards[j]
        /\ cards'[i].status = s /\ cards'[i].by = u
    BY ClaimCards
  <2>4. Waits(i) /\ deciding[u] = None
    BY DEF Claim, MayDecide
  <2> QED BY <2>1, <2>2, <2>3, <2>4
<1>2. acted[i] = 0
  BY <1>1 DEF CardActed, Waits
<1>3. ASSUME NEW j \in DOMAIN runs' PROVE CardActed(j)'
  <2>1. CASE j = i
    BY <1>1, <1>2, <2>1 DEF CardActed
  <2>2. CASE j # i
    BY <1>1, <2>2 DEF ActedInv, CardActed
  <2> QED BY <2>1, <2>2
<1>4. ASSUME NEW v \in Approvers, deciding'[v] # None PROVE InHand(v)'
  <2>1. CASE v = u
    <3>1. s = "approved" /\ deciding'[u] = [card |-> i, at |-> "act", ok |-> FALSE]
      BY <1>1, <1>4, <2>1 DEF Claim, TypeInv, DecidingOK
    <3>2. deciding'[u].card = i
      BY <3>1
    <3> QED BY <1>1, <1>2, <2>1, <3>1, <3>2 DEF InHand
  <2>2. CASE v # u
    <3>1. deciding'[v] = deciding[v]
      BY <2>2 DEF Claim, TypeInv, DecidingOK
    <3>2. InHand(v) /\ deciding[v].card \in DOMAIN runs
      BY <1>4, <3>1 DEF ActedInv, TypeInv, DecidingOK
    <3>3. deciding[v].card # i
      BY <1>1, <3>2 DEF InHand, Waits
    <3> QED BY <1>1, <3>1, <3>2, <3>3 DEF InHand
  <2> QED BY <2>1, <2>2
<1> QED BY <1>3, <1>4 DEF ActedInv

\* The action runs on the card its claim holds, which had not been carried out.
LEMMA ActedRun ==
    ASSUME TypeInv, ActedInv, NEW u \in Approvers, RunAction(u)
    PROVE  ActedInv'
<1> DEFINE c == deciding[u].card
<1>1. /\ deciding[u] # None /\ deciding[u].at = "act" /\ deciding[u] \in Decision
      /\ c \in DOMAIN runs /\ InHand(u) /\ UNCHANGED <<runs, cards>>
  BY DEF RunAction, ActedInv, TypeInv, DecidingOK
<1>2. PICK ok \in BOOLEAN :
        /\ ok => cards[c] # None
        /\ deciding' = [deciding EXCEPT ![u].at = "record", ![u].ok = ok]
        /\ acted' = IF ok THEN [acted EXCEPT ![c] = @ + 1] ELSE acted
  BY DEF RunAction
<1>3. /\ deciding'[u].card = c /\ deciding'[u].ok = ok
      /\ deciding'[u].at = "record"
      /\ \A v \in Approvers : v # u => deciding'[v] = deciding[v]
  BY <1>1, <1>2 DEF TypeInv, DecidingOK, Decision
<1>4. acted \in Seq(Nat) /\ c \in DOMAIN acted /\ DOMAIN acted = DOMAIN runs
  BY <1>1, CardsAreCards DEF TypeInv, SeqsOK
<1>5. \A j \in DOMAIN runs : j # c => acted'[j] = acted[j]
  BY <1>2, <1>4
<1>6. ~ok => acted'[c] = acted[c]
  BY <1>2
<1>7. ok => cards[c] # None /\ acted'[c] = 1
  <2>1. CASE ok
    <3>1. acted[c] = 0 /\ cards[c] # None
      BY <1>1, <1>2, <2>1 DEF InHand
    <3>2. acted'[c] = acted[c] + 1
      BY <1>2, <1>4, <2>1
    <3> QED BY <3>1, <3>2
  <2> QED BY <2>1
<1>8. ASSUME NEW j \in DOMAIN runs' PROVE CardActed(j)'
  <2>1. CASE j = c /\ ok
    BY <1>1, <1>7, <2>1 DEF CardActed, InHand
  <2>2. CASE j # c \/ ~ok
    <3>1. acted'[j] = acted[j]
      BY <1>1, <1>5, <1>6, <2>2
    <3> QED BY <1>1, <3>1 DEF ActedInv, CardActed
  <2> QED BY <2>1, <2>2
<1>9. ASSUME NEW v \in Approvers, deciding'[v] # None PROVE InHand(v)'
  <2>1. CASE v = u
    <3>1. ~ok => acted'[c] = 0 \/ cards[c] = None
      BY <1>1, <1>6 DEF InHand
    <3> QED BY <1>1, <1>3, <2>1, <3>1 DEF InHand
  <2>2. CASE v # u
    <3>1. deciding'[v] = deciding[v] /\ InHand(v) /\ deciding[v].card \in DOMAIN runs
      BY <1>3, <1>9, <2>2 DEF ActedInv, TypeInv, DecidingOK
    <3>2. CASE cards[deciding[v].card] = None
      BY <1>1, <3>1, <3>2 DEF InHand
    <3>3. CASE cards[deciding[v].card] # None
      <4>1. deciding[v].card # c
        BY <1>1, <2>2, <3>1, <3>3 DEF InHand
      <4>2. acted'[deciding[v].card] = acted[deciding[v].card]
        BY <1>5, <3>1, <4>1
      <4> QED BY <1>1, <3>1, <4>2 DEF InHand
    <3> QED BY <3>2, <3>3
  <2> QED BY <2>1, <2>2
<1> QED BY <1>8, <1>9 DEF ActedInv

LEMMA OutcomeKeepsNone ==
    ASSUME NEW u, RecordOutcome(u), cards[deciding[u].card] = None
    PROVE  cards' = cards
BY DEF RecordOutcome

LEMMA ActedOutcome ==
    ASSUME TypeInv, ActedInv, NEW u \in Approvers, RecordOutcome(u)
    PROVE  ActedInv'
<1> DEFINE c == deciding[u].card
           s == IF deciding[u].ok THEN "approved" ELSE "failed"
<1>1. /\ deciding[u] # None /\ deciding[u].at = "record" /\ c \in DOMAIN runs /\ InHand(u)
      /\ UNCHANGED <<runs, acted>> /\ CardActed(c) /\ acted[c] \in Nat
  BY OutcomeCards, CardsAreCards DEF RecordOutcome, ActedInv, TypeInv, DecidingOK, SeqsOK
<1>2. /\ \A j \in DOMAIN runs : j # c => cards'[j] = cards[j]
      /\ \/ cards[c] = None /\ cards' = cards
         \/ cards'[c].by = cards[c].by /\ cards'[c].status = s
  BY OutcomeCards, CardsAreCards
<1>3. /\ deciding'[u] = None
      /\ \A v \in Approvers : v # u => deciding'[v] = deciding[v]
  BY DEF RecordOutcome, TypeInv, DecidingOK
<1>4. acted[c] = 1 /\ cards[c] # None => s = "approved"
  BY <1>1 DEF InHand
<1> HIDE DEF s
<1>5. ASSUME NEW j \in DOMAIN runs' PROVE CardActed(j)'
  <2>1. CASE j = c
    <3>1. CASE cards[c] = None
      <4>1. CASE cards' = cards
        BY <1>1, <2>1, <4>1 DEF CardActed
      <4>2. CASE cards' # cards
        BY <1>1, <1>2, <2>1, <3>1, <4>2, OutcomeKeepsNone DEF CardActed
      <4> QED BY <4>1, <4>2
    <3>2. CASE cards[c] # None
      BY <1>1, <1>2, <1>4, <2>1, <3>2 DEF CardActed
    <3> QED BY <3>1, <3>2
  <2>2. CASE j # c
    BY <1>1, <1>2, <2>2 DEF ActedInv, CardActed
  <2> QED BY <2>1, <2>2
<1>6. ASSUME NEW v \in Approvers, deciding'[v] # None PROVE InHand(v)'
  <2>1. v # u /\ deciding'[v] = deciding[v] /\ InHand(v) /\ deciding[v].card \in DOMAIN runs
    BY <1>3, <1>6 DEF ActedInv, TypeInv, DecidingOK
  <2>2. CASE deciding[v].card # c
    BY <1>1, <1>2, <2>1, <2>2 DEF InHand
  <2>3. CASE deciding[v].card = c
    <3>1. cards[c] = None
      BY <1>1, <2>1, <2>3 DEF InHand
    <3>2. cards' = cards
      BY <3>1, OutcomeKeepsNone
    <3> QED BY <1>1, <2>1, <3>2 DEF InHand
  <2> QED BY <2>2, <2>3
<1> QED BY <1>5, <1>6 DEF ActedInv

LEMMA ActedStep == TypeInv /\ ActedInv /\ [Next]_vars => ActedInv'
<1> SUFFICES ASSUME TypeInv, ActedInv, [Next]_vars PROVE ActedInv' OBVIOUS
<1>0. TypeInv' /\ Len(runs) \in Nat /\ DOMAIN runs = 1 .. Len(runs) /\ DOMAIN cards = DOMAIN runs
  BY TypeStep, CardsAreCards DEF TypeInv, SeqsOK
<1>1. CASE UNCHANGED vars
  BY <1>1, ActedSame DEF vars
<1>2. ASSUME NEW p \in Procs, Work(p) \/ ProcDies(p) PROVE ActedInv'
  <2>1. CASE Commit(p)
    <3>1. DOMAIN runs' = 1 .. Len(runs) + 1 /\ acted'[Len(runs) + 1] = 0
      BY <2>1, CommitCards
    <3>2. DOMAIN runs \subseteq DOMAIN runs' /\ \A i \in DOMAIN runs' : i \notin DOMAIN runs => acted'[i] = 0
      BY <1>0, <3>1
    <3>3. \A i \in DOMAIN runs : acted'[i] = acted[i]
      BY <2>1, CommitCards
    <3>4. \A i \in DOMAIN runs : cards'[i] = cards[i] \/ (Waits(i) /\ cards[i] # None)
      BY <1>0, <2>1, CommitCards DEF Waits
    <3>5. UNCHANGED deciding
      BY <2>1 DEF Commit
    <3> QED BY <1>0, <3>2, <3>3, <3>4, <3>5, ActedAway
  <2>2. CASE RunFails(p)
    <3>1. DOMAIN runs' = 1 .. Len(runs) + 1 /\ acted'[Len(runs) + 1] = 0
      BY <2>2, FailCards
    <3>2. DOMAIN runs \subseteq DOMAIN runs' /\ \A i \in DOMAIN runs' : i \notin DOMAIN runs => acted'[i] = 0
      BY <1>0, <3>1
    <3>3. \A i \in DOMAIN runs : acted'[i] = acted[i] /\ cards'[i] = cards[i]
      BY <1>0, <2>2, FailCards
    <3>4. UNCHANGED deciding
      BY <2>2 DEF RunFails
    <3> QED BY <1>0, <3>2, <3>3, <3>4, ActedAway
  <2>3. ASSUME NEW t \in DOMAIN events, OnEvent(p, t) PROVE ActedInv'
    BY <2>3, ActedSame DEF OnEvent
  <2>4. CASE CheckRan(p) \/ Judge(p) \/ RunIsLost(p) \/ Tell(p) \/ ProcDies(p)
    BY <2>4, ActedSame DEF CheckRan, Judge, RunIsLost, Tell, ProcDies
  <2> QED BY <1>2, <2>1, <2>2, <2>3, <2>4 DEF Work
<1>3. ASSUME NEW p \in Procs, NEW r \in Requests, Ask(p, r) PROVE ActedInv'
  BY <1>3, ActedSame DEF Ask
<1>4. ASSUME NEW u \in Approvers, NEW i \in DOMAIN cards, NEW s \in {"approved", "rejected"},
             Claim(u, i, s)
      PROVE  ActedInv'
  BY <1>4, ActedClaim
<1>5. ASSUME NEW u \in Approvers, CarryOut(u) \/ ApprovalDies(u) PROVE ActedInv'
  <2>1. CASE ApprovalDies(u)
    BY <2>1, ActedSame DEF ApprovalDies, TypeInv, DecidingOK
  <2> QED BY <1>5, <2>1, ActedRun, ActedOutcome DEF CarryOut
<1>6. ASSUME NEW m \in Meetings, DeleteMeeting(m) PROVE ActedInv'
  <2>1. /\ UNCHANGED <<runs, acted, deciding>>
        /\ \A i \in DOMAIN runs : cards'[i] = cards[i] \/ cards'[i] = None
    BY <1>0, <1>6, DeleteCards DEF DeleteMeeting
  <2> QED BY <1>0, <2>1, ActedAway
<1>7. ASSUME NEW m \in Reported, Publish(m) PROVE ActedInv'
  BY <1>7, ActedSame DEF Publish
<1>8. ASSUME NEW t \in DOMAIN events, Redelivered(t) PROVE ActedInv'
  BY <1>8, ActedSame DEF Redelivered
<1> QED BY <1>1, <1>2, <1>3, <1>4, <1>5, <1>6, <1>7, <1>8 DEF Next

\* Whoever approves, dies, redelivers or deletes, an action is carried out at
\* most once, for the approver whose claim stands.
THEOREM ActsOnce == Spec => []ActedOnce
<1>1. ActedInv => ActedOnce
  BY NoneIsNobody DEF ActedInv, CardActed, ActedOnce, RunIds
<1>2. Spec => []ActedInv
  BY TypesHold, ActedInit, ActedStep, PTL DEF Spec
<1> QED BY <1>1, <1>2, PTL

-----------------------------------------------------------------------------
(* A decision stands                                                       *)

Stands(i) ==
    /\ cards[i] = None => cards'[i] = None
    /\ cards[i] # None /\ ~Waits(i) /\ cards'[i] # None =>
         /\ cards'[i].by = cards[i].by
         /\ \/ cards'[i].status = cards[i].status
            \/ cards[i].status = "approved" /\ cards'[i].status = "failed" /\ acted'[i] = 0

LEMMA StandsUntouched ==
    ASSUME NEW i, cards'[i] = cards[i] \/ cards'[i] = None \/ (Waits(i) /\ cards[i] # None)
    PROVE  Stands(i)
BY DEF Stands

\* The outcome is recorded on a card that still stands approved, and as failed
\* only if its action refused.
LEMMA StandsOutcome ==
    ASSUME TypeInv, ActedInv, NEW u \in Approvers, RecordOutcome(u), NEW i \in DOMAIN cards
    PROVE  Stands(i)
<1> DEFINE c == deciding[u].card
<1>1. CASE i # c
  BY <1>1, OutcomeCards, StandsUntouched
<1>2. CASE i = c /\ cards[c] = None
  <2>1. cards' = cards
    BY <1>2, OutcomeKeepsNone
  <2> QED BY <2>1, StandsUntouched
<1>3. CASE i = c /\ cards[c] # None
  <2>1. deciding[u] # None /\ InHand(u)
    BY DEF RecordOutcome, ActedInv
  <2>2. cards[c].status = "approved" /\ (~deciding[u].ok => acted[c] = 0)
    BY <1>3, <2>1 DEF InHand
  <2>3. /\ cards'[c].by = cards[c].by /\ acted' = acted
        /\ cards'[c].status = IF deciding[u].ok THEN "approved" ELSE "failed"
    BY <1>3, OutcomeCards
  <2>4. deciding[u].ok => cards'[c].status = "approved"
    BY <2>3
  <2>5. ~deciding[u].ok => cards'[c].status = "failed" /\ acted'[c] = 0
    BY <2>2, <2>3
  <2> QED BY <1>3, <2>2, <2>3, <2>4, <2>5 DEF Stands
<1> QED BY <1>1, <1>2, <1>3

LEMMA StandsStep ==
    ASSUME TypeInv, ActedInv, [Next]_vars, NEW i \in DOMAIN cards
    PROVE  Stands(i)
<1> USE StandsUntouched
<1>1. CASE UNCHANGED cards
  BY <1>1
<1>2. ASSUME NEW p \in Procs, Commit(p) PROVE Stands(i)
  <2>1. cards'[i] = cards[i] \/ (Waits(i) /\ cards[i] # None)
    BY <1>2, CommitCards DEF Waits
  <2> QED BY <2>1
<1>3. ASSUME NEW p \in Procs, RunFails(p) PROVE Stands(i)
  BY <1>3, FailCards
<1>4. ASSUME NEW u \in Approvers, NEW j \in DOMAIN cards, NEW s \in {"approved", "rejected"},
             Claim(u, j, s)
      PROVE  Stands(i)
  <2>1. Waits(j) /\ cards[j] # None
    BY <1>4 DEF Claim, Waits
  <2> QED BY <1>4, <2>1, ClaimCards
<1>5. ASSUME NEW u \in Approvers, RecordOutcome(u) PROVE Stands(i)
  BY <1>5, StandsOutcome
<1>6. ASSUME NEW m \in Meetings, DeleteMeeting(m) PROVE Stands(i)
  BY <1>6, DeleteCards
<1>7. \/ UNCHANGED cards
      \/ \E p \in Procs : Commit(p) \/ RunFails(p)
      \/ \E u \in Approvers, j \in DOMAIN cards : Claim(u, j, "approved") \/ Claim(u, j, "rejected")
      \/ \E u \in Approvers : RecordOutcome(u)
      \/ \E m \in Meetings : DeleteMeeting(m)
  BY DEF Next, vars, Publish, Work, OnEvent, CheckRan, Judge, RunIsLost, Tell, ProcDies, Ask,
         CarryOut, RunAction, ApprovalDies, Redelivered
<1> QED BY <1>1, <1>2, <1>3, <1>4, <1>5, <1>6, <1>7

\* No approver, run, crash or late outcome undoes or repeats a decision.
THEOREM DecisionsHold == Spec => DecisionsStand
<1>1. TypeInv /\ ActedInv /\ [Next]_vars =>
        [\A i \in DOMAIN cards :
           /\ cards[i] = None => cards'[i] = None
           /\ cards[i] # None /\ ~Waits(i) /\ cards'[i] # None =>
                /\ cards'[i].by = cards[i].by
                /\ \/ cards'[i].status = cards[i].status
                   \/ cards[i].status = "approved" /\ cards'[i].status = "failed" /\ acted'[i] = 0]_vars
  BY StandsStep DEF Stands
<1>2. Spec => []ActedInv
  BY TypesHold, ActedInit, ActedStep, PTL DEF Spec
<1> QED BY <1>1, <1>2, TypesHold, PTL DEF Spec, DecisionsStand

-----------------------------------------------------------------------------
(* The queue implements CardDecisions                                      *)

Waiting == {i \in DOMAIN cards : Waits(i)}
Hands == [u \in Approvers |-> Hand(u)]

\* The cards, the claims and what was carried out stay as they are.
LEMMA DecisionsStutter ==
    ASSUME UNCHANGED <<cards, deciding, acted>>
    PROVE  UNCHANGED Decisions!vars
<1>1. Waiting' = Waiting
  BY DEF Waiting, Waits
<1>2. Hands' = Hands
  BY DEF Hands, Hand
<1> QED BY <1>1, <1>2 DEF Decisions!vars, Waiting, Hands

LEMMA HandsSame ==
    UNCHANGED deciding => Hands' = Hands
BY DEF Hands, Hand

\* One approver's claim changes, and with it what that approver may carry out.
LEMMA HandsMove ==
    ASSUME TypeInv, NEW u \in Approvers, NEW d, deciding' = [deciding EXCEPT ![u] = d]
    PROVE  Hands' = [Hands EXCEPT ![u] = IF d # None /\ d.at = "act" THEN {d.card} ELSE {}]
<1>1. ASSUME NEW v \in Approvers
      PROVE  Hand(v)' = IF v = u THEN (IF d # None /\ d.at = "act" THEN {d.card} ELSE {}) ELSE Hand(v)
  BY DEF Hand, TypeInv, DecidingOK
<1> QED BY <1>1 DEF Hands

\* The commit of a run hands out the next number.
LEMMA RunProposes ==
    ASSUME TypeInv, NEW p \in Procs, Commit(p) \/ RunFails(p)
    PROVE  Decisions!Next
<1>1. /\ DOMAIN cards = 1 .. Len(cards) /\ Len(cards) \in Nat /\ Len(acted) = Len(cards)
      /\ acted' = Append(acted, 0) /\ UNCHANGED deciding
  BY CardsAreCards DEF Commit, RunFails, Record, TypeInv, SeqsOK
<1>2. /\ DOMAIN cards' = 1 .. Len(cards) + 1
      /\ \A i \in DOMAIN cards : cards'[i] = cards[i] \/ ~Waits(i)'
  <2>1. CASE Commit(p)
    <3>1. /\ cards' = Append(Superseded(p), CardNow(p)) /\ DOMAIN runs' = 1 .. Len(runs) + 1
          /\ SeqsOK' /\ Len(cards) = Len(runs)
      BY <2>1, CommitCards DEF Commit, TypeInv, SeqsOK
    <3>2. DOMAIN cards' = 1 .. Len(cards) + 1
      BY <1>1, <3>1 DEF SeqsOK
    <3>3. \A i \in DOMAIN cards : cards'[i] = cards[i] \/ cards'[i].status = "superseded"
      BY <2>1, CommitCards
    <3> QED BY <3>2, <3>3 DEF Waits
  <2>2. CASE RunFails(p)
    <3>1. DOMAIN runs' = 1 .. Len(runs) + 1 /\ SeqsOK' /\ Len(cards) = Len(runs)
      BY <2>2, FailCards DEF TypeInv, SeqsOK
    <3>2. DOMAIN cards' = 1 .. Len(cards) + 1
      BY <1>1, <3>1 DEF SeqsOK
    <3>3. \A i \in DOMAIN cards : cards'[i] = cards[i]
      BY <2>2, FailCards
    <3> QED BY <3>2, <3>3
  <2> QED BY <2>1, <2>2
<1>0. PICK n : n = Len(acted) + 1
  OBVIOUS
<1> DEFINE kept == {i \in DOMAIN cards : Waits(i)'}
           new == IF Waits(n)' THEN {n} ELSE {}
<1>3. kept \subseteq Waiting
  BY <1>2 DEF Waiting, Waits
<1>4. new \subseteq {Len(acted) + 1}
  BY <1>0
<1>5. Waiting' = kept \cup new
  BY <1>0, <1>1, <1>2 DEF Waiting
<1>6. Hands' = Hands
  BY <1>1, HandsSame
<1> HIDE DEF kept, new
<1>7. Decisions!Propose(kept, new)
  BY <1>1, <1>3, <1>4, <1>5, <1>6 DEF Decisions!Propose, Waiting, Hands
<1> QED BY <1>3, <1>4, <1>7 DEF Decisions!Next, Waiting

\* A card leaves "pending" by its approver's claim.
LEMMA ClaimDecides ==
    ASSUME TypeInv, NEW u \in Approvers, NEW i \in DOMAIN cards,
           NEW s \in {"approved", "rejected"}, Claim(u, i, s)
    PROVE  Decisions!Next
<1>1. /\ DOMAIN cards' = DOMAIN cards /\ UNCHANGED acted
      /\ \A j \in DOMAIN cards : j # i => cards'[j] = cards[j]
      /\ cards'[i].status = s
  <2>1. DOMAIN cards' = DOMAIN cards /\ UNCHANGED acted
    BY DEF Claim
  <2>2. (\A j \in DOMAIN cards : j # i => cards'[j] = cards[j]) /\ cards'[i].status = s
    BY ClaimCards
  <2> QED BY <2>1, <2>2
<1>2. i \in Waiting /\ Waiting' = Waiting \ {i}
  BY <1>1 DEF Waiting, Waits, Claim
<1>3. deciding[u] = None
  BY DEF Claim, MayDecide
<1>4. CASE s = "approved"
  <2> DEFINE d == [card |-> i, at |-> "act", ok |-> FALSE]
  <2>0. d # None /\ d.at = "act" /\ d.card = i
    <3>1. i \in Nat
      BY CardsAreCards
    <3>2. d \in [card : Nat, at : {"act", "record"}, ok : BOOLEAN]
      BY <3>1
    <3> QED BY <3>2, NoneIsNoClaim
  <2>1. Hands' = [Hands EXCEPT ![u] = {i}]
    <3>1. deciding' = [deciding EXCEPT ![u] = d]
      BY <1>4 DEF Claim
    <3> HIDE DEF d
    <3> QED BY <2>0, <3>1, HandsMove
  <2>2. Hands[u] = {}
    BY <1>3 DEF Hands, Hand
  <2>3. Decisions!Approve(u, i)
    BY <1>1, <1>2, <2>1, <2>2 DEF Decisions!Approve, Waiting, Hands
  <2> QED BY <1>2, <2>3 DEF Decisions!Next, Waiting
<1>5. CASE s = "rejected"
  <2>1. Hands' = Hands
    BY <1>5, HandsSame DEF Claim
  <2>2. Decisions!Withdraw(Waiting \ {i})
    BY <1>1, <1>2, <2>1 DEF Decisions!Withdraw, Waiting, Hands
  <2> QED BY <2>2 DEF Decisions!Next, Waiting
<1> QED BY <1>4, <1>5

\* A refused action, or a request that is lost, lets the card go.
LEMMA LetsGo ==
    ASSUME TypeInv, NEW u \in Approvers, UNCHANGED <<cards, acted>>,
           Hands' = [Hands EXCEPT ![u] = {}]
    PROVE  Decisions!Next
<1>1. Waiting' = Waiting
  BY DEF Waiting, Waits
<1>2. Decisions!LetGo(u)
  BY <1>1 DEF Decisions!LetGo, Waiting, Hands
<1> QED BY <1>2 DEF Decisions!Next

\* run_action: the card in hand was not acted on yet.
LEMMA RunActs ==
    ASSUME TypeInv, ActedInv, NEW u \in Approvers, RunAction(u)
    PROVE  Decisions!Next
<1>1. PICK c : c = deciding[u].card
  OBVIOUS
<1>2. /\ deciding[u] # None /\ deciding[u].at = "act" /\ deciding[u] \in Decision
      /\ c \in DOMAIN runs /\ c \in DOMAIN acted
  BY <1>1, CardsAreCards DEF RunAction, TypeInv, DecidingOK
<1>3. PICK ok \in BOOLEAN :
        /\ ok => cards[c] # None
        /\ deciding' = [deciding EXCEPT ![u].at = "record", ![u].ok = ok]
        /\ acted' = IF ok THEN [acted EXCEPT ![c] = @ + 1] ELSE acted
  BY <1>1 DEF RunAction
<1>4. Hands' = [Hands EXCEPT ![u] = {}]
  <2> DEFINE d == [deciding[u] EXCEPT !.at = "record", !.ok = ok]
  <2>1. deciding' = [deciding EXCEPT ![u] = d]
    BY <1>3
  <2>2. d.at = "record"
    BY <1>2 DEF Decision
  <2> HIDE DEF d
  <2> QED BY <2>1, <2>2, HandsMove
<1>5. UNCHANGED cards
  BY DEF RunAction
<1>6. CASE ~ok
  BY <1>3, <1>4, <1>5, <1>6, LetsGo
<1>7. CASE ok
  <2>1. acted[c] = 0
    BY <1>1, <1>2, <1>3, <1>7 DEF ActedInv, InHand
  <2>2. acted' = [acted EXCEPT ![c] = 1]
    BY <1>2, <1>3, <1>7, <2>1
  <2>3. c \in Hands[u]
    BY <1>1, <1>2 DEF Hands, Hand
  <2>4. Waiting' = Waiting
    BY <1>5 DEF Waiting, Waits
  <2>5. Decisions!Act(u, c)
    BY <1>4, <2>2, <2>3, <2>4 DEF Decisions!Act, Waiting, Hands
  <2> QED BY <2>3, <2>5 DEF Decisions!Next, Hands
<1> QED BY <1>6, <1>7

\* The outcome: the card had left "pending" with the claim.
LEMMA OutcomeStutters ==
    ASSUME TypeInv, ActedInv, NEW u \in Approvers, RecordOutcome(u)
    PROVE  UNCHANGED Decisions!vars
<1>1. PICK c : c = deciding[u].card
  OBVIOUS
<1>2. /\ deciding[u] # None /\ deciding[u].at = "record"
      /\ deciding' = [deciding EXCEPT ![u] = None] /\ UNCHANGED acted
  BY DEF RecordOutcome
<1>3. Hands' = Hands
  <2>1. Hands' = [Hands EXCEPT ![u] = {}]
    BY <1>2, HandsMove
  <2>2. Hands[u] = {}
    BY <1>2 DEF Hands, Hand
  <2> QED BY <2>1, <2>2 DEF Hands
<1>4. DOMAIN cards' = DOMAIN cards
  BY DEF RecordOutcome
<1>5. ASSUME NEW i \in DOMAIN cards PROVE Waits(i)' = Waits(i)
  <2>1. CASE cards' = cards
    BY <2>1 DEF Waits
  <2>2. CASE i # c
    BY <1>1, <2>2, OutcomeCards DEF Waits
  <2>3. CASE i = c /\ cards' # cards
    <3>1. cards'[c].status \in {"approved", "failed"}
      BY <1>1, <2>3, OutcomeCards
    <3>2. ~Waits(c)
      BY <1>1, <1>2 DEF ActedInv, InHand, Waits
    <3> QED BY <2>3, <3>1, <3>2 DEF Waits
  <2> QED BY <2>1, <2>2, <2>3
<1>6. Waiting' = Waiting
  BY <1>4, <1>5 DEF Waiting
<1> QED BY <1>2, <1>3, <1>6 DEF Decisions!vars, Waiting, Hands

\* The cards that wait are withdrawn with their meeting.
LEMMA DeletionWithdraws ==
    ASSUME TypeInv, NEW m \in Meetings, DeleteMeeting(m)
    PROVE  Decisions!Next
<1>1. DOMAIN cards' = DOMAIN cards /\ UNCHANGED <<acted, deciding>>
  BY CardsAreCards DEF DeleteMeeting
<1>2. \A i \in DOMAIN cards : cards'[i] = cards[i] \/ cards'[i] = None
  BY CardsAreCards, DeleteCards
<1>3. Waiting' \subseteq Waiting
  BY <1>1, <1>2 DEF Waiting, Waits
<1>4. PICK kept \in SUBSET Waiting : kept = Waiting'
  BY <1>3
<1>5. Hands' = Hands
  BY <1>1, HandsSame
<1>6. Decisions!Withdraw(kept)
  BY <1>1, <1>4, <1>5 DEF Decisions!Withdraw, Waiting, Hands
<1> QED BY <1>4, <1>6 DEF Decisions!Next, Waiting

LEMMA StepDecides ==
    TypeInv /\ ActedInv /\ [Next]_vars => [Decisions!Next]_Decisions!vars
<1> SUFFICES ASSUME TypeInv, ActedInv, [Next]_vars PROVE [Decisions!Next]_Decisions!vars OBVIOUS
<1>1. CASE UNCHANGED <<cards, deciding, acted>>
  BY <1>1, DecisionsStutter
<1>2. ASSUME NEW p \in Procs, Work(p) \/ ProcDies(p) PROVE [Decisions!Next]_Decisions!vars
  <2>1. CASE Commit(p) \/ RunFails(p)
    BY <2>1, RunProposes
  <2>2. CASE CheckRan(p) \/ Judge(p) \/ RunIsLost(p) \/ Tell(p) \/ ProcDies(p)
    <3>1. UNCHANGED <<cards, deciding, acted>>
      <4>1. CASE CheckRan(p)
        BY <4>1 DEF CheckRan
      <4>5. CASE Judge(p)
        BY <4>5 DEF Judge
      <4>2. CASE RunIsLost(p)
        BY <4>2 DEF RunIsLost
      <4>3. CASE Tell(p)
        BY <4>3 DEF Tell
      <4>4. CASE ProcDies(p)
        BY <4>4 DEF ProcDies
      <4> QED BY <2>2, <4>1, <4>2, <4>3, <4>4, <4>5
    <3> QED BY <1>1, <3>1
  <2>3. ASSUME NEW t \in DOMAIN events, OnEvent(p, t) PROVE [Decisions!Next]_Decisions!vars
    BY <1>1, <2>3 DEF OnEvent
  <2> QED BY <1>2, <2>1, <2>2, <2>3 DEF Work
<1>3. ASSUME NEW p \in Procs, NEW r \in Requests, Ask(p, r) PROVE [Decisions!Next]_Decisions!vars
  BY <1>1, <1>3 DEF Ask
<1>4. ASSUME NEW u \in Approvers, NEW i \in DOMAIN cards, NEW s \in {"approved", "rejected"},
             Claim(u, i, s)
      PROVE  [Decisions!Next]_Decisions!vars
  BY <1>4, ClaimDecides
<1>5. ASSUME NEW u \in Approvers, CarryOut(u) \/ ApprovalDies(u)
      PROVE  [Decisions!Next]_Decisions!vars
  <2>1. CASE ApprovalDies(u)
    <3>1. deciding' = [deciding EXCEPT ![u] = None] /\ UNCHANGED <<cards, acted>>
      BY <2>1 DEF ApprovalDies
    <3>2. Hands' = [Hands EXCEPT ![u] = {}]
      BY <3>1, HandsMove
    <3> QED BY <3>1, <3>2, LetsGo
  <2> QED BY <1>5, <2>1, RunActs, OutcomeStutters DEF CarryOut
<1>6. ASSUME NEW m \in Meetings, DeleteMeeting(m) PROVE [Decisions!Next]_Decisions!vars
  BY <1>6, DeletionWithdraws
<1>7. ASSUME NEW m \in Reported, Publish(m) PROVE [Decisions!Next]_Decisions!vars
  BY <1>1, <1>7 DEF Publish
<1>8. ASSUME NEW t \in DOMAIN events, Redelivered(t) PROVE [Decisions!Next]_Decisions!vars
  BY <1>1, <1>8 DEF Redelivered
<1> QED BY <1>1, <1>2, <1>3, <1>4, <1>5, <1>6, <1>7, <1>8 DEF Next, vars

LEMMA DecisionsInit == Init => Decisions!Init
<1> SUFFICES ASSUME Init PROVE Decisions!Init OBVIOUS
<1>1. Waiting = {} /\ acted = << >>
  BY DEF Init, Waiting
<1>2. Hands = [u \in Approvers |-> {}]
  BY DEF Init, Hands, Hand
<1> QED BY <1>1, <1>2 DEF Decisions!Init, Waiting, Hands

\* Plan mode implements CardDecisions: a run proposes, a claim approves or rejects,
\* an approved action runs once for the approver who holds it, and a card that was
\* rejected, superseded, deleted or let go of is never carried out.
THEOREM DecisionsRefined == Spec => ImplementsDecisions
<1>1. Spec => []ActedInv
  BY TypesHold, ActedInit, ActedStep, PTL DEF Spec
<1> QED BY <1>1, TypesHold, DecisionsInit, StepDecides, PTL DEF Spec, ImplementsDecisions, Decisions!Spec

=============================================================================
