----------------------------- MODULE Regulation -----------------------------
(***************************************************************************)
(* The regulatory desks at work on one project: applications and permits,  *)
(* approval requests, inspections and stop-work orders share its status,   *)
(* the permit and the inspection's row.                                    *)
(***************************************************************************)
EXTENDS Approvals, SiteInspection

VARIABLE waived    \* history: was work approved under an order in force?

vars == <<requestVars, project, licenceVars, approvalVars, siteVars, waived>>

Init ==
    /\ InitRequests /\ InitLicence /\ InitApproval /\ InitSite
    /\ waived = FALSE

(* A request is refused or serves one desk; it never waits for another.    *)
Step ==
    \/ (NextLicence /\ UNCHANGED <<approvalVars, siteVars>>)
    \/ (NextApproval /\ UNCHANGED siteVars)
    \/ (NextSite /\ UNCHANGED <<licenceVars, approvalVars>>)
    \/ \E h \in Handlers : /\ KilledDeciding(h)
                           /\ UNCHANGED <<project, licenceVars, siteVars>>

Approves == \E h \in Handlers : At(h, "activating") /\ pc'[h] = "granting"

History ==
    /\ crossed' = (crossed \/ Crossing')
    /\ waived' = IF Approves THEN Active # {} ELSE waived /\ project' = "ACTIVE"

Next == Step /\ History

Spec == Init /\ [][Next]_vars

----------------------------------------------------------------------------
(***************************************************************************)
(* Properties                                                              *)
(***************************************************************************)

(* A stop-work order shuts the site until it is lifted, unless an approval *)
(* opened it under the order: lifts of other orders, however many at once  *)
(* and whatever applications are decided meanwhile, do not.                *)
StopWorkShutsTheSite ==
    (Quiet /\ ~waived /\ Active # {}) => project # "ACTIVE"

(* "Re-activate project if no other active SWOs": when several orders are  *)
(* lifted at once, one of the lifts opens the site.                        *)
LastLiftReopens ==
    (Quiet /\ Active = {} /\ \E o \in Orders : order[o] = "LIFTED")
        => project # "SUSPENDED"

(* A suspended or revoked permit is active again only by the approval of   *)
(* its application, as long as no request crossed another.                 *)
RevivedByApprovalOnly ==
    [][ (permit \in {"SUSPENDED", "REVOKED"} /\ permit' = "ACTIVE" /\ ~crossed')
            => \E h \in Handlers : At(h, "reviving") ]_vars

(* Once the desk's ruling or last signature has been passed on, the record *)
(* says what its request says, whoever is killed: until the client writes  *)
(* a status of its own on either, or the record's save is swallowed.       *)
SourceFollowsRequest ==
    (Busy = {} /\ ~crossed /\ ~unsynced /\ source # "PermitApplication") =>
        /\ request.status \in {"Approved", "Conditional"}
               => record = Status("Approved")
        /\ request.status = "Rejected" => record = Status("Rejected")

Attesting == {h \in Handlers : At(h, "attesting")}

(* Whatever crosses, and lost signatures aside: beyond the count a client  *)
(* entered, no signature is counted that nobody gave.                      *)
NoSignatureInvented ==
    request.done <= claimed + signatures + kills + Cardinality(Attesting)

(* "Binds the submission hash": a sign-off is of the submission that       *)
(* stands, whatever crosses.                                               *)
SignedWhatStands ==
    signoff # "nothing" => submission # None /\ signoff = submission.sealed
=============================================================================
