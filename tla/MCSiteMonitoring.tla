-------------------------- MODULE MCSiteMonitoring --------------------------
EXTENDS SiteMonitoring, TLC

CONSTANTS h1, h2, m1, m2, m3, i1, v1

MCHandlers == {h1, h2}
MCMilestones == {m1, m2, m3}
MCIssues == {i1}
MCSurveys == {v1}

(* A milestone, others that are built on it, one of them with garbled      *)
(* entries.                                                                *)
Base == [needs |-> Gates, after |-> {}, sound |-> TRUE, linked |-> "none",
         garbled |-> FALSE]
Upper == [needs |-> {"defects", "evidence"}, after |-> {m1}, sound |-> FALSE,
          linked |-> "none", garbled |-> FALSE]
Garbled == [Upper EXCEPT !.garbled = TRUE]
MCPlans == {Base, Upper, Garbled}

(* A site with milestones or with a survey: neither looks at the other.    *)
(* Where there are three milestones, or one is garbled, or a call failed,  *)
(* there is one request only.  What is built on the first milestone has its*)
(* documents at first, and a third one is blocked.                         *)
Many == milestone[m3] # Absent
        \/ \E m \in Milestones : Exists(m) /\ milestone[m].plan.garbled

Focused ==
    /\ (\E v \in Surveys : Surveyed(v)) => \A m \in Milestones : ~Exists(m)
    /\ Many \/ faults > 0 => starts <= 1 /\ kills = 0 /\ events = 0
    /\ starts = 0 => \A m \in {m2, m3} : Exists(m) =>
          milestone[m].docs /\ (m = m3 => milestone[m].status = "BLOCKED")

Alike == Permutations(MCHandlers)
=============================================================================
