------------------------------ MODULE Approvals -----------------------------
(***************************************************************************)
(* One approval request and the record it decides on, a document, a        *)
(* milestone or the permit: rulings, routing, signatures of several        *)
(* signatories, and the client's own writes to the request and the record. *)
(***************************************************************************)
EXTENDS Licensing

CONSTANTS Required,      \* signatories_required
          Entered        \* bound: the status and count a client may enter

ASSUME RequiredAssumption == Required \in Nat \ {0}
ASSUME EnteredAssumption ==
    \A e \in Entered : DOMAIN e = {"status", "done"} /\ e.done \in Nat

VARIABLES request,       \* the request's status and signatories_completed
          source,        \* source_entity_type
          record,        \* the status of a document or milestone it decides
          signatures,    \* the decision rows that record a signature
          claimed,       \* history: the highest count a client entered
          unsynced       \* history: is the record behind, or not the desk's?

approvalVars == <<request, source, record, signatures, claimed, unsynced>>

(* A new request has the status and the count that the client sent, if any.*)
InitApproval ==
    /\ request \in Entered
    /\ source \in {"Document", "Milestone", "PermitApplication"}
    /\ record = "Other"
    /\ signatures = 0 /\ claimed = request.done /\ unsynced = TRUE

Status(outcome) ==
    CASE source # "Milestone" -> outcome
      [] outcome = "Approved" -> "Completed"
      [] OTHER                -> "Blocked"

(* The decision is passed on to the record, whichever it is; a failure to  *)
(* save it is swallowed.                                                   *)
SyncSource(outcome) ==
    \/ /\ record' = IF source = "PermitApplication" THEN record
                    ELSE Status(outcome)
       /\ permit' = IF source = "PermitApplication" /\ permit # "none"
                    THEN outcome ELSE permit
       /\ unsynced' = FALSE
    \/ UNCHANGED <<record, permit>> /\ unsynced' = TRUE

----------------------------------------------------------------------------
Rulings == {"Approved", "Conditional", "Rejected"}
Outcome(ruling) == IF ruling = "Rejected" THEN "Rejected" ELSE "Approved"

(* mutant of RuleFetch: an approval completes the signatures *)
RuleFetchCompletes(h, ruling) ==
    /\ Begin(h, "ruling", [op |-> "rule",
                           row |-> [status |-> ruling, done |-> Required]])
    /\ UNCHANGED <<approvalVars, licenceVars, project>>

RuleFetch(h, ruling) ==
    /\ Begin(h, "ruling", [op |-> "rule",
                           row |-> [request EXCEPT !.status = ruling]])
    /\ UNCHANGED <<approvalVars, licenceVars, project>>

Rule(h) ==
    /\ At(h, "ruling")
    /\ request' = job[h].row
    /\ Goto(h, "passing on")
    /\ UNCHANGED <<source, record, signatures, claimed, unsynced,
                   licenceVars, project>>

(* mutant of PassOn: a rejection is not passed on *)
PassOnApproval(h) ==
    /\ At(h, "passing on")
    /\ IF job[h].row.status = "Rejected"
       THEN UNCHANGED <<record, permit>> /\ unsynced' = FALSE
       ELSE SyncSource("Approved")
    /\ Done(h)
    /\ UNCHANGED <<request, source, signatures, claimed, app, project>>

PassOn(h) ==
    /\ At(h, "passing on")
    /\ SyncSource(Outcome(job[h].row.status))
    /\ Done(h)
    /\ UNCHANGED <<request, source, signatures, claimed, app, project>>

----------------------------------------------------------------------------
(* Assignment, the compliance gate, a return to the applicant, escalation. *)
Routed(row, step) ==
    CASE step = "assign" /\ row.status = "Pending" ->
             [row EXCEPT !.status = "In Review"]
      [] step = "return"   -> [row EXCEPT !.status = "Awaiting Fix"]
      [] step = "escalate" -> [row EXCEPT !.status = "Escalated"]
      [] OTHER             -> row

RouteFetch(h, step) ==
    /\ Begin(h, "routing", [op |-> "route", row |-> Routed(request, step)])
    /\ UNCHANGED <<approvalVars, licenceVars, project>>

Route(h) ==
    /\ At(h, "routing")
    /\ request' = job[h].row
    /\ Done(h)
    /\ UNCHANGED <<source, record, signatures, claimed, unsynced,
                   licenceVars, project>>

----------------------------------------------------------------------------
(* The last signature approves: the record first, then the request.        *)
Signed(row) ==
    LET n == IF row.done + 1 < Required THEN row.done + 1 ELSE Required
    IN  [status |-> IF n = Required THEN "Approved" ELSE row.status, done |-> n]

CountersignFetch(h) ==
    /\ Begin(h, IF Signed(request).done = Required
                THEN "sealing" ELSE "committing",
             [op |-> "countersign", row |-> Signed(request)])
    /\ UNCHANGED <<approvalVars, licenceVars, project>>

Seal(h) ==
    /\ At(h, "sealing")
    /\ SyncSource("Approved")
    /\ Goto(h, "committing")
    /\ UNCHANGED <<request, source, signatures, claimed, app, project>>

Commit(h) ==
    /\ At(h, "committing")
    /\ request' = job[h].row
    /\ Goto(h, "attesting")
    /\ UNCHANGED <<source, record, signatures, claimed, unsynced,
                   licenceVars, project>>

Attest(h) ==
    /\ At(h, "attesting")
    /\ signatures' = signatures + 1
    /\ Done(h)
    /\ UNCHANGED <<request, source, record, claimed, unsynced, licenceVars,
                   project>>

----------------------------------------------------------------------------
(* A client's own writes.  The request's form saves the row that was       *)
(* fetched with the fields that were sent; the record has a desk of its    *)
(* own, with statuses of its own.                                          *)
PatchFetch(h, fields, e) ==
    /\ Begin(h, "patching",
             [op |-> "patch", ruled |-> "status" \in fields,
              row |-> [k \in {"status", "done"} |->
                         IF k \in fields THEN e[k] ELSE request[k]]])
    /\ claimed' = IF "done" \in fields /\ e.done > claimed
                  THEN e.done ELSE claimed
    /\ UNCHANGED <<request, source, record, signatures, unsynced,
                   licenceVars, project>>

Patch(h) ==
    /\ At(h, "patching")
    /\ request' = job[h].row
    /\ unsynced' = (unsynced \/ job[h].ruled)
    /\ Done(h)
    /\ UNCHANGED <<source, record, signatures, claimed, licenceVars, project>>

RecordFetch(h) ==
    /\ source # "PermitApplication"
    /\ Begin(h, "filing", [op |-> "file"])
    /\ UNCHANGED <<approvalVars, licenceVars, project>>

Record(h) ==
    /\ At(h, "filing")
    /\ record' = "Other" /\ unsynced' = TRUE
    /\ Done(h)
    /\ UNCHANGED <<request, source, signatures, claimed, licenceVars, project>>

(* Killed between the request's save and the record's.                     *)
Behind(h) ==
    \/ At(h, "passing on")
    \/ At(h, "committing") /\ job[h].row.done = Required

KilledDeciding(h) ==
    /\ Kill(h)
    /\ unsynced' = (unsynced \/ Behind(h))
    /\ UNCHANGED <<request, source, record, signatures, claimed>>

NextApproval ==
    \E h \in Handlers :
        \/ \E ruling \in Rulings : RuleFetch(h, ruling)
        \/ Rule(h) \/ PassOn(h)
        \/ \E step \in {"assign", "gate", "return", "escalate"} :
               RouteFetch(h, step)
        \/ Route(h)
        \/ CountersignFetch(h) \/ Seal(h) \/ Commit(h) \/ Attest(h)
        \/ \E fields \in SUBSET {"status", "done"}, e \in Entered :
               fields # {} /\ PatchFetch(h, fields, e)
        \/ Patch(h) \/ RecordFetch(h) \/ Record(h)
=============================================================================
