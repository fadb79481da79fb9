--------------------------- MODULE SiteInspection ---------------------------
(***************************************************************************)
(* One inspection of the project's site and the stop-work orders: check-in *)
(* against the geofence, sealed submission and its sign-off, the desk's    *)
(* own endpoints on the same row, and orders that shut the site.           *)
(***************************************************************************)
EXTENDS Requests

CONSTANTS Orders,        \* order ids the database may hand out
          Enforcement,   \* GEOFENCE_ENFORCEMENT: "off", "warn" or "strict"
          Surveyed       \* does the project record its coordinates?

ASSUME EnforcementAssumption == Enforcement \in {"off", "warn", "strict"}

VARIABLES order,         \* StopWorkOrder.status, "none" before it is issued
          inspection,    \* the inspection's row
          submission,    \* its InspectionSubmission, if any
          signoff        \* the hash its InspectionSignoff binds, if any

siteVars == <<order, inspection, submission, signoff>>
formVars == <<inspection, submission, signoff>>

Active == {o \in Orders : order[o] = "ACTIVE"}

None == [sealed |-> "nothing", stored |-> "nothing"]

NewInspection == [status |-> "REQUESTED", checked |-> FALSE,
                  verified |-> FALSE, fence |-> "", left |-> FALSE]

(* What the geofence says of a position, given how accurate the device     *)
(* says it is: a radius cannot be certified by a wider or unknown error.   *)
Fixes == [near : BOOLEAN, accuracy : {"unknown", "within", "wider"}]

Evaluate(fix) ==
    CASE ~Surveyed \/ fix.accuracy # "within" -> "UNVERIFIABLE"
      [] fix.near -> "VERIFIED"
      [] OTHER -> "OUTSIDE"

CheckedIn(row, verdict) ==
    [row EXCEPT !.checked = TRUE,
                !.verified = Enforcement # "off" /\ verdict = "VERIFIED",
                !.fence = IF Enforcement = "off" THEN "" ELSE verdict,
                !.status = IF @ \in {"REQUESTED", "SCHEDULED"}
                           THEN "IN_PROGRESS" ELSE @]

(* The project of an order in force is suspended; the inspector may be on  *)
(* the site already.                                                       *)
InitSite ==
    /\ \E A \in SUBSET Orders :
          /\ order = [o \in Orders |-> IF o \in A THEN "ACTIVE" ELSE "none"]
          /\ A # {} <=> project = "SUSPENDED"
    /\ inspection \in {NewInspection, CheckedIn(NewInspection, "VERIFIED")}
    /\ submission = None /\ signoff = "nothing"

----------------------------------------------------------------------------
(* Stop-work orders                                                        *)

(* From an inspection, from the order desk, or by a site issue; the latter *)
(* opens an order only where it sees none in force.                        *)
IssueFetch(h, by) ==
    /\ Begin(h, IF by = "issue" /\ Active # {} THEN "suspending" ELSE "ordering",
             [op |-> "issue", by |-> by, row |-> inspection])
    /\ UNCHANGED <<siteVars, project>>

Issue(h) ==
    /\ At(h, "ordering")
    /\ \E o \in Orders : /\ order[o] = "none"
                         /\ order' = [order EXCEPT ![o] = "ACTIVE"]
    /\ Goto(h, "suspending")
    /\ UNCHANGED <<formVars, project>>

Suspend(h) ==
    /\ At(h, "suspending")
    /\ project' = "SUSPENDED"
    /\ IF job[h].by = "inspection" THEN Goto(h, "failing") ELSE Done(h)
    /\ UNCHANGED siteVars

FailInspection(h) ==
    /\ At(h, "failing")
    /\ inspection' = [job[h].row EXCEPT !.status = "FAILED"]
    /\ Done(h)
    /\ UNCHANGED <<order, submission, signoff, project>>

LiftFetch(h, o) ==
    /\ order[o] # "none"
    /\ Begin(h, "lifting", [op |-> "lift", on |-> o])
    /\ UNCHANGED <<siteVars, project>>

Lift(h) ==
    /\ At(h, "lifting")
    /\ order' = [order EXCEPT ![job[h].on] = "LIFTED"]
    /\ Goto(h, "looking")
    /\ UNCHANGED <<formVars, project>>

(* mutants of LookAround: lifted orders count as in force; the order that  *)
(* is lifted stands for all                                                *)
LookAroundAny(h) ==
    /\ At(h, "looking")
    /\ IF {o \in Orders : order[o] # "none"} \ {job[h].on} = {}
       THEN Goto(h, "reopening") ELSE Done(h)
    /\ UNCHANGED <<siteVars, project>>

LookAroundNot(h) ==
    /\ At(h, "looking")
    /\ Goto(h, "reopening")
    /\ UNCHANGED <<siteVars, project>>

LookAround(h) ==
    /\ At(h, "looking")
    /\ IF Active \ {job[h].on} = {} THEN Goto(h, "reopening") ELSE Done(h)
    /\ UNCHANGED <<siteVars, project>>

Reopen(h) ==
    /\ At(h, "reopening")
    /\ project' = "ACTIVE"
    /\ Done(h)
    /\ UNCHANGED siteVars

----------------------------------------------------------------------------
(* The inspection                                                          *)

CheckinFetch(h, fix) ==
    /\ Enforcement = "strict" => Evaluate(fix) = "VERIFIED"
    /\ Begin(h, "saving",
             [op |-> "checkin", row |-> CheckedIn(inspection, Evaluate(fix))])
    /\ UNCHANGED <<siteVars, project>>

(* What the desk's endpoints make of the row they fetched.                 *)
Amended(row, what) ==
    CASE what = "assign"   -> [row EXCEPT !.status = "SCHEDULED"]
      [] what = "arrive"   -> [row EXCEPT !.status = "IN_PROGRESS",
                                          !.checked = TRUE, !.verified = TRUE]
      [] what = "complete" -> [row EXCEPT !.status = "COMPLETED"]
      [] what = "fail"     -> [row EXCEPT !.status = "FAILED"]
      [] what = "reinspect" /\ row.status # "FAILED" ->
                              [row EXCEPT !.status = "RE_INSPECTION_REQUIRED"]
      [] OTHER             -> row

AmendFetch(h, what) ==
    /\ Begin(h, "saving", [op |-> what, row |-> Amended(inspection, what)])
    /\ UNCHANGED <<siteVars, project>>

SaveInspection(h) ==
    /\ At(h, "saving")
    /\ inspection' = job[h].row
    /\ Done(h)
    /\ UNCHANGED <<order, submission, signoff, project>>

(* The submission is hashed with the device's time as the device wrote it. *)
SubmitFetch(h, time) ==
    /\ inspection.checked
    /\ Enforcement = "strict" => inspection.verified
    /\ Begin(h, "submitting", [op |-> "submit", time |-> time,
                             row |-> [inspection EXCEPT !.status = "COMPLETED"]])
    /\ UNCHANGED <<siteVars, project>>

(* The database keeps instants: what is read back is in UTC.               *)
Stored(time) == IF time = "with offset" THEN "in UTC" ELSE time

(* mutant of Submit: a second submission replaces the first *)
SubmitAgain(h) ==
    /\ At(h, "submitting")
    /\ submission' = [sealed |-> job[h].time, stored |-> Stored(job[h].time)]
    /\ Goto(h, "saving")
    /\ UNCHANGED <<order, inspection, signoff, project>>

(* One submission per inspection: the database refuses another.            *)
Submit(h) ==
    /\ At(h, "submitting")
    /\ IF submission # None THEN Done(h) /\ UNCHANGED submission
       ELSE /\ submission' = [sealed |-> job[h].time,
                              stored |-> Stored(job[h].time)]
            /\ Goto(h, "saving")
    /\ UNCHANGED <<order, inspection, signoff, project>>

CheckoutFetch(h) ==
    /\ inspection.checked /\ ~inspection.left
    /\ Begin(h, "leaving", [op |-> "checkout"])
    /\ UNCHANGED <<siteVars, project>>

(* The one save that names its columns.                                    *)
Checkout(h) ==
    /\ At(h, "leaving")
    /\ inspection' = [inspection EXCEPT !.left = TRUE]
    /\ Done(h)
    /\ UNCHANGED <<order, submission, signoff, project>>

SignOffFetch(h) ==
    /\ submission # None /\ signoff = "nothing"
    /\ Begin(h, "signing", [op |-> "sign-off", seal |-> submission.sealed])
    /\ UNCHANGED <<siteVars, project>>

SignOff(h) ==
    /\ At(h, "signing")
    /\ signoff' = IF signoff = "nothing" THEN job[h].seal ELSE signoff
    /\ Done(h)
    /\ UNCHANGED <<order, inspection, submission, project>>

(* Recomputing the submission's hash from what is stored.                  *)
SubmissionVerifies == submission.sealed = submission.stored

Amendments == {"assign", "arrive", "complete", "fail", "reinspect"}
Times == {"none", "in UTC", "with offset"}

NextSite ==
    \E h \in Handlers :
        \/ \E by \in {"inspection", "desk", "issue"} : IssueFetch(h, by)
        \/ Issue(h) \/ Suspend(h) \/ FailInspection(h)
        \/ \E o \in Orders : LiftFetch(h, o)
        \/ Lift(h) \/ LookAround(h) \/ Reopen(h)
        \/ \E fix \in Fixes : CheckinFetch(h, fix)
        \/ \E what \in Amendments : AmendFetch(h, what)
        \/ SaveInspection(h)
        \/ \E time \in Times : SubmitFetch(h, time)
        \/ Submit(h)
        \/ CheckoutFetch(h) \/ Checkout(h)
        \/ SignOffFetch(h) \/ SignOff(h)
=============================================================================
