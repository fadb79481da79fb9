----------------------------- MODULE Licensing ------------------------------
(***************************************************************************)
(* One permit application of a project and the permit it leads to:         *)
(* transitions with their side effects on project and permit, the saves of *)
(* reviewers and applicants, and the permit's renewal and suspension.      *)
(***************************************************************************)
EXTENDS Requests

VARIABLES app,       \* Application.status, "none" before it is filed
          permit     \* Permit.status, "none" before it is granted

licenceVars == <<app, permit>>

Transitions ==
    [none                 |-> {},
     DRAFT                |-> {"SUBMITTED"},
     SUBMITTED            |-> {"UNDER_REVIEW", "REJECTED"},
     UNDER_REVIEW         |-> {"REVIEW_COMPLETED", "APPROVAL_REQUESTED",
                               "CONDITIONAL_APPROVAL", "APPROVED", "REJECTED"},
     REVIEW_COMPLETED     |-> {"APPROVAL_REQUESTED", "CONDITIONAL_APPROVAL",
                               "APPROVED", "REJECTED", "UNDER_REVIEW"},
     APPROVAL_REQUESTED   |-> {"APPROVED", "CONDITIONAL_APPROVAL", "REJECTED",
                               "UNDER_REVIEW"},
     CONDITIONAL_APPROVAL |-> {"APPROVED", "REJECTED", "UNDER_REVIEW"},
     APPROVED             |-> {"EXPIRED"},
     REJECTED             |-> {"SUBMITTED", "UNDER_REVIEW"},
     EXPIRED              |-> {"RENEWED", "SUBMITTED"},
     RENEWED              |-> {"EXPIRED"}]

InitLicence ==
    /\ app \in {"none", "UNDER_REVIEW", "CONDITIONAL_APPROVAL"}
    /\ permit = IF app = "CONDITIONAL_APPROVAL" THEN "ACTIVE" ELSE "none"

File(h) ==
    /\ app = "none"
    /\ Begin(h, "idle", Nothing)
    /\ app' = "SUBMITTED"
    /\ UNCHANGED <<permit, project>>

----------------------------------------------------------------------------
(* The table is consulted for the copy just fetched.                       *)
TransitionFetch(h, to) ==
    /\ to \in Transitions[app]
    /\ Begin(h, "deciding", [op |-> "transition", to |-> to])
    /\ UNCHANGED <<licenceVars, project>>

Decide(h) ==
    /\ At(h, "deciding")
    /\ app' = job[h].to
    /\ CASE app' = "APPROVED" -> Goto(h, "activating")
         [] app' = "CONDITIONAL_APPROVAL" -> Goto(h, "granting")
         [] OTHER -> Done(h)
    /\ UNCHANGED <<permit, project>>

ActivateProject(h) ==
    /\ At(h, "activating")
    /\ project' = "ACTIVE"
    /\ Goto(h, "granting")
    /\ UNCHANGED licenceVars

(* get_or_create; an approval brings back a permit that is not active.     *)
Grant(h) ==
    /\ At(h, "granting")
    /\ permit' = IF permit = "none" THEN "ACTIVE" ELSE permit
    /\ IF job[h].to = "APPROVED" /\ permit \notin {"none", "ACTIVE"}
       THEN Goto(h, "reviving") ELSE Done(h)
    /\ UNCHANGED <<app, project>>

Revive(h) ==
    /\ At(h, "reviving")
    /\ permit' = "ACTIVE"
    /\ Done(h)
    /\ UNCHANGED <<app, project>>

----------------------------------------------------------------------------
(* Assigning a reviewer takes a new application up; document requests,     *)
(* their progress and review items leave the status of the copy alone.     *)
TouchFetch(h, assigning) ==
    /\ app # "none"
    /\ Begin(h, "touching",
             [op |-> "touch", app |-> IF assigning /\ app = "SUBMITTED"
                                      THEN "UNDER_REVIEW" ELSE app])
    /\ UNCHANGED <<licenceVars, project>>

Touch(h) ==
    /\ At(h, "touching")
    /\ app' = job[h].app
    /\ Done(h)
    /\ UNCHANGED <<permit, project>>

----------------------------------------------------------------------------
(* mutant of RenewFetch: whatever the permit's status *)
RenewFetchAny(h) ==
    /\ permit # "none"
    /\ Begin(h, "renewing", [op |-> "renew"])
    /\ UNCHANGED <<licenceVars, project>>

RenewFetch(h) ==
    /\ permit \in {"ACTIVE", "EXPIRED"}
    /\ Begin(h, "renewing", [op |-> "renew"])
    /\ UNCHANGED <<licenceVars, project>>

Renew(h) ==
    /\ At(h, "renewing")
    /\ permit' = "ACTIVE"
    /\ Goto(h, "renewed")
    /\ UNCHANGED <<app, project>>

RenewApplication(h) ==
    /\ At(h, "renewed")
    /\ app' = "RENEWED"
    /\ Done(h)
    /\ UNCHANGED <<permit, project>>

(* Suspension, revocation, and the expiry that a client saves.             *)
WithdrawFetch(h, to) ==
    /\ permit # "none"
    /\ Begin(h, "withdrawing", [op |-> "withdraw", to |-> to])
    /\ UNCHANGED <<licenceVars, project>>

Withdraw(h) ==
    /\ At(h, "withdrawing")
    /\ permit' = job[h].to
    /\ Done(h)
    /\ UNCHANGED <<app, project>>

NextLicence ==
    \E h \in Handlers :
        \/ File(h)
        \/ \E to \in DOMAIN Transitions : TransitionFetch(h, to)
        \/ Decide(h) \/ ActivateProject(h) \/ Grant(h) \/ Revive(h)
        \/ \E assigning \in BOOLEAN : TouchFetch(h, assigning)
        \/ Touch(h)
        \/ RenewFetch(h) \/ Renew(h) \/ RenewApplication(h)
        \/ \E to \in {"SUSPENDED", "REVOKED", "EXPIRED"} : WithdrawFetch(h, to)
        \/ Withdraw(h)
        \/ (EditProjectFetch(h) /\ UNCHANGED licenceVars)
        \/ (EditProject(h) /\ UNCHANGED licenceVars)
=============================================================================
