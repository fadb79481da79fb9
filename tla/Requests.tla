------------------------------ MODULE Requests ------------------------------
(***************************************************************************)
(* The request handlers of the regulatory desks.  A handler fetches a row, *)
(* works on its copy and saves whole rows, one statement at a time: every  *)
(* statement commits on its own.  A process may be killed between two.     *)
(***************************************************************************)
EXTENDS Naturals, FiniteSets

CONSTANTS Handlers,    \* the processes that serve requests
          MaxStarts,   \* bound: requests served
          MaxKills     \* bound: requests killed

ASSUME HandlersAssumption == IsFiniteSet(Handlers)
ASSUME BoundsAssumption == MaxStarts \in Nat /\ MaxKills \in Nat

VARIABLES pc,          \* where in its request each process is
          job,         \* what it was asked to do, and the copies it holds
          starts, kills,
          crossed,     \* history: has a request met one it may disturb?
          project      \* the status of the project, shared by all desks

requestVars == <<pc, job, starts, kills, crossed>>

Nothing == [op |-> "none"]

Busy == {h \in Handlers : pc[h] # "idle"}
At(h, label) == pc[h] = label

(* A lift and a transition of an application may overlap with one another, *)
(* in any number; every other request runs alone, or crosses.              *)
Harmless == {"lift", "transition"}
Crossing == \E g, h \in Busy : g # h /\ job[g].op \notin Harmless

InitRequests ==
    /\ pc = [h \in Handlers |-> "idle"]
    /\ job = [h \in Handlers |-> Nothing]
    /\ starts = 0 /\ kills = 0 /\ crossed = FALSE
    /\ project \in {"PLANNING", "ACTIVE", "SUSPENDED"}

Begin(h, label, work) ==
    /\ pc[h] = "idle" /\ starts < MaxStarts
    /\ starts' = starts + 1
    /\ pc' = [pc EXCEPT ![h] = label]
    /\ job' = [job EXCEPT ![h] = work]
    /\ UNCHANGED kills

Goto(h, label) ==
    /\ pc' = [pc EXCEPT ![h] = label]
    /\ UNCHANGED <<job, starts, kills>>

Done(h) ==
    /\ pc' = [pc EXCEPT ![h] = "idle"]
    /\ job' = [job EXCEPT ![h] = Nothing]
    /\ UNCHANGED <<starts, kills>>

Kill(h) ==
    /\ pc[h] # "idle" /\ kills < MaxKills
    /\ kills' = kills + 1
    /\ pc' = [pc EXCEPT ![h] = "idle"]
    /\ job' = [job EXCEPT ![h] = Nothing]
    /\ UNCHANGED starts

(* A client saves the project's form: the row as it was fetched.           *)
EditProjectFetch(h) ==
    /\ Begin(h, "editing", [op |-> "edit", project |-> project])
    /\ UNCHANGED project

EditProject(h) ==
    /\ At(h, "editing")
    /\ project' = job[h].project
    /\ Done(h)

Quiet == kills = 0 /\ ~crossed /\ Busy = {}
=============================================================================
