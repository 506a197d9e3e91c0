--------------------------- MODULE CardDecisions ---------------------------
(***************************************************************************)
(* What the agent's plan mode promises about the actions that need         *)
(* approval: a card is proposed once and waits until it is approved or     *)
(* withdrawn; an approver who approves it may carry its action out, once;  *)
(* and nothing that was withdrawn, or let go of, is ever carried out.      *)
(***************************************************************************)
EXTENDS Naturals, Sequences

CONSTANT Approvers

VARIABLES
    waiting,   \* the cards an approver may still decide
    hands,     \* hands[u]: the card u approved and may carry out now, if any
    acted      \* acted[c]: how often the action of card c was carried out

vars == <<waiting, hands, acted>>

Init ==
    /\ waiting = {}
    /\ hands = [u \in Approvers |-> {}]
    /\ acted = << >>

\* The next number is handed out, with a card or without one; cards that waited
\* may be replaced.
Propose(kept, new) ==
    /\ kept \subseteq waiting
    /\ new \subseteq {Len(acted) + 1}
    /\ waiting' = kept \cup new
    /\ acted' = Append(acted, 0)
    /\ UNCHANGED hands

\* Rejected, or deleted with its meeting.
Withdraw(kept) ==
    /\ kept \subseteq waiting
    /\ waiting' = kept
    /\ UNCHANGED <<hands, acted>>

Approve(u, c) ==
    /\ c \in waiting
    /\ hands[u] = {}
    /\ waiting' = waiting \ {c}
    /\ hands' = [hands EXCEPT ![u] = {c}]
    /\ UNCHANGED acted

\* The action is carried out, and with that let go of.
Act(u, c) ==
    /\ c \in hands[u]
    /\ acted' = [acted EXCEPT ![c] = 1]
    /\ hands' = [hands EXCEPT ![u] = {}]
    /\ UNCHANGED waiting

\* Refused, or lost on the way.
LetGo(u) ==
    /\ hands' = [hands EXCEPT ![u] = {}]
    /\ UNCHANGED <<waiting, acted>>

Next ==
    \/ \E kept \in SUBSET waiting, new \in SUBSET {Len(acted) + 1} : Propose(kept, new)
    \/ \E kept \in SUBSET waiting : Withdraw(kept)
    \/ \E u \in Approvers : LetGo(u)
    \/ \E u \in Approvers : \E c \in waiting : Approve(u, c)
    \/ \E u \in Approvers : \E c \in hands[u] : Act(u, c)

Spec == Init /\ [][Next]_vars
=============================================================================
