--------------------------- MODULE FindingReview ---------------------------
(***************************************************************************)
(* Correlation findings and their human review (apps/evidence): the        *)
(* correlation engine creates and re-scores pending findings, reviewers    *)
(* decide on them, escalate them and sign them off, and every change is to *)
(* leave a revision, hash-chained to the one before.                       *)
(*                                                                         *)
(* Nothing here runs in a transaction.  A handler (a request, or the       *)
(* engine's celery task) fetches the row, saves the whole of its copy of   *)
(* it, inserts the revision, saves revision_count, and for a decision      *)
(* saves the revision again, sealed; handlers interleave between these     *)
(* steps and may be killed there.                                          *)
(*                                                                         *)
(* One group of evidence is modelled: the engine looks for the finding of  *)
(* its group, and findings logged by hand carry a taxonomy for a group key *)
(* and are in none of the engine's.                                        *)
(***************************************************************************)
EXTENDS Integers, FiniteSets

CONSTANTS
    Findings,       \* finding ids the database may hand out
    Handlers,       \* server processes and task workers
    MaxStarts,      \* bound: how often a handler starts on something
    MaxKills,       \* bound: how many handlers are killed
    NoFinding

ASSUME FindingsAssumption == NoFinding \notin Findings
ASSUME BoundsAssumption == {MaxStarts, MaxKills} \subseteq Nat

VARIABLES
    row,            \* the finding's row
    revisions,      \* its FindingRevision rows
    ncrs,           \* how many NCRs were issued from it
    inspections,    \* how many inspections were triggered from it
    handler,        \* what each handler is doing
    deleted,        \* findings that were deleted
    overlapped,     \* two handlers have been at work at the same time
    starts, kills

vars == <<row, revisions, ncrs, inspections, handler, deleted, overlapped,
          starts, kills>>

Decided == {"accepted", "rejected", "modified", "escalated"}

(* `manual`: logged by hand.  `revised`: a reviewer has changed what the   *)
(* engine wrote.  `ncr` and `inspection`: whether the row links one.       *)
Row == [status : {"NONE", "pending_review"} \cup Decided, manual : BOOLEAN,
        revised : BOOLEAN, ncr : BOOLEAN, inspection : BOOLEAN, count : Nat]
NoRow == [status |-> "NONE", manual |-> FALSE, revised |-> FALSE,
          ncr |-> FALSE, inspection |-> FALSE, count |-> 0]
NewRow(op) == [NoRow EXCEPT !.status = "pending_review", !.manual = op = "log"]

(* A revision's hash covers its number, its snapshot and `prev`; adding    *)
(* the decision's digest to the snapshot (sealing) changes it.             *)
Hash == [num : Nat, sealed : BOOLEAN]
NoHash == [num |-> 0, sealed |-> FALSE]
Revision == [num : Nat, status : Decided \cup {"pending_review"}, prev : Hash,
             sealed : BOOLEAN]
HashOf(r) == [num |-> r.num, sealed |-> r.sealed]
Numbers(R) == {r.num : r \in R}

(* mutant of LastHash: the first revision instead of the last *)
FirstHash(R) ==
    IF R = {} THEN NoHash
    ELSE HashOf(CHOOSE r \in R : \A q \in R : r.num <= q.num)

LastHash(R) ==
    IF R = {} THEN NoHash
    ELSE HashOf(CHOOSE r \in R : \A q \in R : q.num <= r.num)

Decisions == {"accept", "reject", "modify", "escalate"}
Sealed == Decisions \cup {"signoff"}
Operations ==
    Sealed \cup {"create", "log", "rescore", "supplement", "inspect", "ncr",
                 "update"}

NoRevision == [num |-> 0, status |-> "pending_review", prev |-> NoHash,
               sealed |-> FALSE]
Idle == [pc |-> "idle", on |-> NoFinding, op |-> "create", copy |-> NoRow,
         rev |-> NoRevision]
HandlerState ==
    [pc : {"idle", "creating", "ordering", "saving", "revising", "counting",
           "sealing"},
     on : Findings \cup {NoFinding}, op : Operations, copy : Row,
     rev : Revision]

TypeOK ==
    /\ row \in [Findings -> Row]
    /\ revisions \in [Findings -> SUBSET Revision]
    /\ {ncrs, inspections} \subseteq [Findings -> Nat]
    /\ handler \in [Handlers -> HandlerState]
    /\ deleted \subseteq Findings
    /\ overlapped \in BOOLEAN
    /\ {starts, kills} \subseteq Nat

Init ==
    /\ row = [f \in Findings |-> NoRow]
    /\ revisions = [f \in Findings |-> {}]
    /\ ncrs = [f \in Findings |-> 0]
    /\ inspections = [f \in Findings |-> 0]
    /\ handler = [h \in Handlers |-> Idle]
    /\ deleted = {}
    /\ overlapped = FALSE
    /\ starts = 0
    /\ kills = 0

Absent(f) == row[f].status = "NONE"
Free(h) == handler[h].pc = "idle"
Goto(h, state) == handler' = [handler EXCEPT ![h] = state]
Done(h) == Goto(h, Idle) /\ UNCHANGED <<deleted, overlapped, starts>>

OthersWork(h) == \E g \in Handlers \ {h} : ~Free(g)

(* A handler starts to work, on the copy of the row it has fetched.        *)
Begin(h, pc, f, op) ==
    /\ Free(h)
    /\ starts < MaxStarts
    /\ starts' = starts + 1
    /\ Goto(h, [pc |-> pc, on |-> f, op |-> op,
                copy |-> IF f \in Findings THEN row[f] ELSE NoRow,
                rev |-> NoRevision])
    /\ overlapped' = (overlapped \/ OthersWork(h))
    /\ UNCHANGED <<row, revisions, ncrs, inspections, deleted, kills>>

----------------------------------------------------------------------------
(***************************************************************************)
(* The correlation engine: the pending finding of the group is re-scored,  *)
(* or one is created.  Findings may also be logged by hand.                *)
(***************************************************************************)
(* mutant of EngineFinds: any finding of the group will do *)
EngineFindsAny == {f \in Findings : ~row[f].manual /\ row[f].status # "NONE"}

EngineFinds == {f \in Findings : ~row[f].manual /\ row[f].status = "pending_review"}

Rescore(h, f) ==
    /\ f \in EngineFinds
    /\ Begin(h, "saving", f, "rescore")

(* mutant of Correlate: the group is not looked up *)
CorrelateAnew(h) == Begin(h, "creating", NoFinding, "create")

Correlate(h) ==
    /\ EngineFinds = {}
    /\ Begin(h, "creating", NoFinding, "create")

Log(h) == Begin(h, "creating", NoFinding, "log")

Create(h, f) ==
    /\ handler[h].pc = "creating"
    /\ Absent(f) /\ f \notin deleted
    /\ LET new == NewRow(handler[h].op) IN
        /\ row' = [row EXCEPT ![f] = new]
        /\ Goto(h, [handler[h] EXCEPT !.pc = "revising", !.on = f, !.copy = new])
    /\ UNCHANGED <<revisions, ncrs, inspections, deleted, overlapped,
                   starts, kills>>

----------------------------------------------------------------------------
(***************************************************************************)
(* Human review.  Each request checks the copy that it fetched.            *)
(***************************************************************************)
Review(h, f) ==
    /\ row[f].status \in {"pending_review", "modified"}
    /\ \E decision \in Decisions : Begin(h, "saving", f, decision)

Supplement(h, f) ==
    /\ ~Absent(f)
    /\ Begin(h, "revising", f, "supplement")

TriggerInspection(h, f) ==
    /\ ~Absent(f)
    /\ ~row[f].inspection
    /\ Begin(h, "ordering", f, "inspect")

(* mutant of IssueNcr: an NCR may follow another *)
IssueNcrAgain(h, f) ==
    /\ row[f].status \notin {"NONE", "rejected"}
    /\ Begin(h, "ordering", f, "ncr")

IssueNcr(h, f) ==
    /\ row[f].status \notin {"NONE", "rejected"}
    /\ ~row[f].ncr
    /\ Begin(h, "ordering", f, "ncr")

Signoff(h, f) ==
    /\ row[f].status \in {"accepted", "modified", "escalated"}
    /\ Begin(h, "revising", f, "signoff")

(* PUT and PATCH: every field of the serializer is read-only, and the copy *)
(* is saved as it was fetched.                                             *)
Update(h, f) == ~Absent(f) /\ Begin(h, "saving", f, "update")

(* DELETE takes the revisions with it.                                     *)
Delete(h, f) ==
    /\ Free(h) /\ starts < MaxStarts
    /\ ~Absent(f)
    /\ row' = [row EXCEPT ![f] = NoRow]
    /\ revisions' = [revisions EXCEPT ![f] = {}]
    /\ deleted' = deleted \cup {f}
    /\ overlapped' = (overlapped \/ OthersWork(h))
    /\ starts' = starts + 1
    /\ UNCHANGED <<ncrs, inspections, handler, kills>>

(* The inspection or the NCR is created before the finding is linked to it.*)
Order(h) ==
    /\ handler[h].pc = "ordering"
    /\ LET f == handler[h].on IN
       IF handler[h].op = "ncr"
       THEN ncrs' = [ncrs EXCEPT ![f] = @ + 1] /\ UNCHANGED inspections
       ELSE inspections' = [inspections EXCEPT ![f] = @ + 1]
               /\ UNCHANGED ncrs
    /\ Goto(h, [handler[h] EXCEPT !.pc = "saving"])
    /\ UNCHANGED <<row, revisions, deleted, overlapped, starts, kills>>

(* What an operation makes of the copy of the row.                         *)
Changed(op, copy) ==
    CASE op = "rescore" -> [copy EXCEPT !.revised = FALSE]
      [] op = "accept"  -> [copy EXCEPT !.status = "accepted"]
      [] op = "reject"  -> [copy EXCEPT !.status = "rejected"]
      [] op = "modify"  -> [copy EXCEPT !.status = "modified", !.revised = TRUE]
      [] op = "inspect" -> [copy EXCEPT !.status = "escalated",
                                        !.inspection = TRUE]
      [] op = "ncr"     -> [copy EXCEPT !.status = "escalated", !.ncr = TRUE]
      [] OTHER          -> copy

(* finding.save() without update_fields writes every column of the copy,   *)
(* and inserts the row again if it is gone.                                *)
Save(h) ==
    /\ handler[h].pc = "saving"
    /\ LET new == Changed(handler[h].op, handler[h].copy) IN
        /\ row' = [row EXCEPT ![handler[h].on] = new]
        /\ Goto(h, IF handler[h].op = "update" THEN Idle
                   ELSE [handler[h] EXCEPT !.pc = "revising", !.copy = new])
    /\ UNCHANGED <<revisions, ncrs, inspections, deleted, overlapped,
                   starts, kills>>

----------------------------------------------------------------------------
(***************************************************************************)
(* CorrelationEngine._add_revision, and the seal.                          *)
(***************************************************************************)
Number(h) == handler[h].copy.count + 1
NewRevision(h) ==
    [num |-> Number(h), status |-> handler[h].copy.status,
     prev |-> LastHash(revisions[handler[h].on]), sealed |-> FALSE]

(* mutant of CanRevise: no unique constraint on the number *)
CanReviseAnyNumber(h) == ~Absent(handler[h].on)

CanRevise(h) ==
    LET f == handler[h].on IN ~Absent(f) /\ Number(h) \notin Numbers(revisions[f])

(* The number comes from the copy's revision_count, the hash from the last *)
(* revision in the database.  That is read just before the insert; read    *)
(* with it, an insert that succeeds chains to the same revision.           *)
Revise(h) ==
    /\ handler[h].pc = "revising"
    /\ CanRevise(h)
    /\ revisions' = [revisions EXCEPT ![handler[h].on] =
                        @ \cup {NewRevision(h)}]
    /\ Goto(h, [handler[h] EXCEPT !.pc = "counting", !.rev = NewRevision(h)])
    /\ UNCHANGED <<row, ncrs, inspections, deleted, overlapped, starts, kills>>

(* What follows the save of revision_count.                                *)
AfterCount(h) ==
    IF handler[h].op \in Sealed THEN [handler[h] EXCEPT !.pc = "sealing"] ELSE Idle

(* mutant of Count: the count is left to the next save of the row *)
CountForgotten(h) ==
    /\ handler[h].pc = "counting"
    /\ Goto(h, AfterCount(h))
    /\ UNCHANGED <<row, revisions, ncrs, inspections, deleted, overlapped,
                   starts, kills>>

Count(h) ==
    LET f == handler[h].on IN
    /\ handler[h].pc = "counting"
    /\ ~Absent(f)
    /\ row' = [row EXCEPT ![f].count = handler[h].rev.num]
    /\ Goto(h, AfterCount(h))
    /\ UNCHANGED <<revisions, ncrs, inspections, deleted, overlapped,
                   starts, kills>>

(* revision.save() replaces the row of the handler's own revision, or      *)
(* inserts it again if it is gone.                                         *)
CanSeal(h) ==
    LET f == handler[h].on  rev == handler[h].rev IN
    ~Absent(f) /\ (rev \in revisions[f] \/ rev.num \notin Numbers(revisions[f]))

(* mutant of Reseal: the revision before is sealed with it *)
ResealPrevious(R, rev) ==
    {IF r.num >= rev.num - 1 THEN [r EXCEPT !.sealed = TRUE] ELSE r : r \in R}

Reseal(R, rev) == (R \ {rev}) \cup {[rev EXCEPT !.sealed = TRUE]}

Seal(h) ==
    /\ handler[h].pc = "sealing"
    /\ CanSeal(h)
    /\ revisions' = [revisions EXCEPT ![handler[h].on] =
                        Reseal(@, handler[h].rev)]
    /\ Done(h)
    /\ UNCHANGED <<row, ncrs, inspections, kills>>

(* The unique constraint, the foreign key, or an update of a row that is   *)
(* gone: the request fails, what it saved stays.                           *)
Fail(h) ==
    /\ \/ handler[h].pc = "revising" /\ ~CanRevise(h)
       \/ handler[h].pc = "counting" /\ Absent(handler[h].on)
       \/ handler[h].pc = "sealing" /\ ~CanSeal(h)
    /\ Done(h)
    /\ UNCHANGED <<row, revisions, ncrs, inspections, kills>>

Kill(h) ==
    /\ ~Free(h)
    /\ kills < MaxKills
    /\ kills' = kills + 1
    /\ Done(h)
    /\ UNCHANGED <<row, revisions, ncrs, inspections>>

AddRevision(h) == Revise(h) \/ Count(h) \/ Seal(h) \/ Fail(h)

Next == \E h \in Handlers :
    \/ Correlate(h) \/ Log(h)
    \/ \E f \in Findings :
          \/ Rescore(h, f) \/ Create(h, f)
          \/ Review(h, f) \/ Supplement(h, f) \/ Signoff(h, f)
          \/ TriggerInspection(h, f) \/ IssueNcr(h, f)
          \/ Update(h, f) \/ Delete(h, f)
    \/ Order(h) \/ Save(h) \/ AddRevision(h)
    \/ Kill(h)

Spec == Init /\ [][Next]_vars

----------------------------------------------------------------------------
(***************************************************************************)
(* Properties.  Whatever interleaves and whoever is killed, of a finding   *)
(* that was not deleted:                                                   *)
(***************************************************************************)

(* The history of a finding has no gaps: its revisions are numbered        *)
(* 1, 2, ..., k, and revision_count never runs ahead of them, although     *)
(* numbers are drawn from copies of it and copies are written back.        *)
HistoryIsGapless ==
    \A f \in Findings \ deleted :
        /\ Numbers(revisions[f]) = 1..Cardinality(revisions[f])
        /\ row[f].count <= Cardinality(revisions[f])

(* "Chained to the previous revision": by number, the revision a revision  *)
(* names as its predecessor is its predecessor.                            *)
ChainFollowsNumbers ==
    \A f \in Findings \ deleted : \A r \in revisions[f] : r.prev.num = r.num - 1

(* A revision is immutable but for its seal.                               *)
RevisionsAreKept ==
    [][\A f \in Findings \ deleted' : \A r \in revisions[f] :
          r \in revisions'[f] \/ [r EXCEPT !.sealed = TRUE] \in revisions'[f]]_vars

(***************************************************************************)
(* As long as no two handlers have worked at the same time:                *)
(***************************************************************************)

(* "Findings already reviewed by a human are NOT overwritten": nothing     *)
(* takes a finding back to pending or undoes a reviewer's changes.         *)
DecisionStands ==
    [][~overlapped' => \A f \in Findings \ deleted' :
          /\ row[f].status \in Decided => row'[f].status \in Decided
          /\ row[f].revised => row'[f].revised]_vars

(* The engine re-scores the pending finding of a group and opens no other  *)
(* beside it.                                                              *)
OnePendingPerGroup ==
    ~overlapped => \A f, g \in EngineFinds : f = g

(* The hash chain holds: a predecessor was not sealed, and so re-hashed,   *)
(* after a revision was chained to it, even if handlers were killed.       *)
ChainIsIntact ==
    ~overlapped => \A f \in Findings : \A r \in revisions[f] :
        r.num > 1 => \E q \in revisions[f] : HashOf(q) = r.prev

(* "Already has a linked inspection", "already has NCR": only a kill       *)
(* between the order and the link leaves room for a second one.            *)
OrdersAreLinked ==
    ~overlapped => \A f \in Findings :
        ncrs[f] <= 1 + kills /\ inspections[f] <= 1 + kills

(* "Every change to a CorrelationFinding is snapshotted": the last         *)
(* revision says what the row says, and every revision was counted.        *)
HistoryIsCurrent ==
    (~overlapped /\ kills = 0 /\ \A h \in Handlers : Free(h)) =>
        \A f \in Findings : ~Absent(f) =>
            /\ row[f].count = Cardinality(revisions[f])
            /\ \E r \in revisions[f] : r.num = row[f].count
                                       /\ r.status = row[f].status
=============================================================================
