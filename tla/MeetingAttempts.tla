--------------------------- MODULE MeetingAttempts ---------------------------
(***************************************************************************)
(* What the recording pipeline promises about a meeting's attempts: one at *)
(* a time holds the meeting, each holds it once, only the holder writes    *)
(* the transcript, and a meeting that was erased is never held again.      *)
(***************************************************************************)
CONSTANTS Meetings, Attempts, None

VARIABLES
    holder,    \* the attempt that may write the meeting's transcript
    written,   \* the attempt whose transcript the meeting has
    used,      \* attempts that hold or have held a meeting
    erased

vars == <<holder, written, used, erased>>

Init ==
    /\ holder = [m \in Meetings |-> None]
    /\ written = [m \in Meetings |-> None]
    /\ used = {}
    /\ erased = {}

\* A new attempt takes the meeting, from the one before it if that still has it.
Admit(m, a) ==
    /\ m \notin erased
    /\ a \notin used
    /\ holder' = [holder EXCEPT ![m] = a]
    /\ used' = used \cup {a}
    /\ UNCHANGED <<written, erased>>

Commit(m) ==
    /\ holder[m] # None
    /\ written' = [written EXCEPT ![m] = holder[m]]
    /\ UNCHANGED <<holder, used, erased>>

\* Attempts end: done, failed, cancelled.
Release(ms) ==
    /\ holder' = [m \in Meetings |-> IF m \in ms THEN None ELSE holder[m]]
    /\ UNCHANGED <<written, used, erased>>

Erase(m) ==
    /\ holder' = [holder EXCEPT ![m] = None]
    /\ written' = [written EXCEPT ![m] = None]
    /\ erased' = erased \cup {m}
    /\ UNCHANGED used

Next ==
    \/ \E m \in Meetings, a \in Attempts : Admit(m, a)
    \/ \E m \in Meetings : Commit(m) \/ Erase(m)
    \/ \E ms \in SUBSET Meetings : Release(ms)

Spec == Init /\ [][Next]_vars
=============================================================================
