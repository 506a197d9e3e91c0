-------------------------- MODULE MCApprovalQueue ---------------------------
EXTENDS ApprovalQueue
CONSTANTS m1
Asked == {[kind |-> "chat", sub |-> "report", mtg |-> m1],
          [kind |-> "chat", sub |-> "report", mtg |-> None],
          [kind |-> "tick", sub |-> "workload", mtg |-> None]}
=============================================================================
