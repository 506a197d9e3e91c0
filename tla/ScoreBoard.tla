----------------------------- MODULE ScoreBoard -----------------------------
(***************************************************************************)
(* What E's aggregation promises about one meeting's score: it is made of  *)
(* the reports that are in, all of them at one moment, and only once every *)
(* source has reported or the time to wait for them is over.  Reports may  *)
(* come, and scores be made again, for ever.                               *)
(***************************************************************************)
CONSTANTS Sources, Texts, Nothing

VARIABLES
    said,     \* said[s]: the last report of source s
    over,     \* the time to wait is over
    score     \* the reports the score was made from

vars == <<said, over, score>>

Silence == [s \in Sources |-> Nothing]

Init == said = Silence /\ over = FALSE /\ score = Silence

Say(s, x) ==
    /\ said' = [said EXCEPT ![s] = x]
    /\ UNCHANGED <<over, score>>

WaitEnds ==
    /\ said # Silence
    /\ over' = TRUE
    /\ UNCHANGED <<said, score>>

Score ==
    /\ said # Silence
    /\ over \/ \A s \in Sources : said[s] # Nothing
    /\ score' = said
    /\ UNCHANGED <<said, over>>

Next == WaitEnds \/ Score \/ \E s \in Sources, x \in Texts : Say(s, x)

Spec == Init /\ [][Next]_vars
=============================================================================
