---------------------------- MODULE ContextFeed ----------------------------
(***************************************************************************)
(* What D promises those who read one meeting's ContextLinks.  E is told   *)
(* both halves as they are at one moment, and nothing before the topics    *)
(* are there.  The team's notices follow: of topics once E has topics, of  *)
(* drift once E has a lineage.  Either half may be made again, and told    *)
(* again, for ever.                                                        *)
(***************************************************************************)
EXTENDS Naturals

VARIABLES
    known,     \* <<topics, lineage>>: how often each half was made
    told,      \* what E was last told
    topics,    \* notices of topics posted to the team
    warnings   \* warnings of drift posted to the team

vars == <<known, told, topics, warnings>>

Init == known = <<0, 0>> /\ told = <<0, 0>> /\ topics = 0 /\ warnings = 0

LinkTopics ==
    /\ known' = <<known[1] + 1, known[2]>>
    /\ UNCHANGED <<told, topics, warnings>>

BuildLineage ==
    /\ known' = <<known[1], known[2] + 1>>
    /\ UNCHANGED <<told, topics, warnings>>

Tell ==
    /\ known[1] > 0
    /\ told' = known
    /\ UNCHANGED <<known, topics, warnings>>

\* One batch, of either or both; a batch cut short posts what it posts.
Notify(t, d) ==
    /\ t > 0 => told[1] > 0
    /\ d > 0 => told[2] > 0
    /\ topics' = topics + t /\ warnings' = warnings + d
    /\ UNCHANGED <<known, told>>

Next == LinkTopics \/ BuildLineage \/ Tell \/ \E t, d \in 0..1 : Notify(t, d)

Spec == Init /\ [][Next]_vars
=============================================================================
