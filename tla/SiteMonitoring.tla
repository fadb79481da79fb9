--------------------------- MODULE SiteMonitoring ---------------------------
(***************************************************************************)
(* The construction milestones of one project, the gates that a sign-off   *)
(* must pass, and what the gates look at: predecessors, inspections,       *)
(* critical site issues, stop-work orders.  Beside them the boundary       *)
(* surveys of the site, which are certified in the same way.               *)
(*                                                                         *)
(* A handler fetches a row, works on its copy and saves the whole row; each*)
(* of its queries and saves is a step of its own, which may fail, and it   *)
(* may be killed between two.                                              *)
(***************************************************************************)
EXTENDS Naturals, FiniteSets

CONSTANTS Handlers,     \* server processes
          Milestones,   \* milestone ids the database may hand out
          Plans,        \* what milestones are created with
          Issues,       \* ids of critical site issues
          Surveys,      \* ids of boundary surveys
          MaxStarts,    \* bound: requests
          MaxKills,     \* bound: killed requests
          MaxFaults,    \* bound: failing queries and saves
          MaxEvents,    \* bound: reports, orders and outcomes of others
          MaxOrders     \* bound: orders in force at once

Gates == {"inspections", "defects", "survey", "evidence"}

(* What a client plans: the gates that count, the predecessors, whether the*)
(* survey is within tolerance, the outcome of the linked inspections; and  *)
(* whether an entry is garbled, for nobody looks when it is stored.        *)
Plan == [needs : SUBSET Gates, after : SUBSET Milestones, sound : BOOLEAN,
         linked : {"none", "passed", "failed"}, garbled : BOOLEAN]

ASSUME PlansAssumption == Plans \subseteq Plan
ASSUME KindsAssumption == Milestones \cap Surveys = {}
ASSUME BoundsAssumption ==
    {MaxStarts, MaxKills, MaxFaults, MaxEvents, MaxOrders} \subseteq Nat

VARIABLES milestone,    \* ConstructionMilestone rows
          survey,       \* SiteVerification rows
          issue,        \* critical SiteIssue rows: none, open or resolved
          orders,       \* stop-work orders in force
          failing,      \* has the project an inspection that failed?
          handler,      \* what each handler is doing
          starts, kills, faults, events,
          crossed,      \* history: have two handlers held copies of one row?
          met,          \* history: have two handlers been at work at once?
          standing,     \* history: blockers there since a handler's fetch
          missed,       \* history: queries that failed while it read the gates
          byHand,       \* history: rows a client set, excused or misplaced
          flagged       \* history: surveys that were flagged

rows == <<milestone, survey, issue, orders, failing>>
history == <<crossed, met, standing, missed, byHand, flagged>>
vars == <<rows, handler, starts, kills, faults, events, history>>

Absent == [status |-> "ABSENT"]
Deleted == [status |-> "DELETED"]
Exists(m) == milestone[m] \notin {Absent, Deleted}
Surveyed(v) == survey[v] \notin {Absent, Deleted}
Final == {"VERIFIED", "COMPLETED"}

New(plan, status, docs) ==
    [status |-> status, progress |-> "none", docs |-> docs, plan |-> plan,
     sealed |-> FALSE, waived |-> FALSE]

SignedOff(row, waive) ==
    [row EXCEPT !.status = "VERIFIED", !.progress = "all",
                !.sealed = TRUE, !.waived = waive]

(* The client may send the status along.                                   *)
Recorded(variance, sent) ==
    [status |-> IF sent # "none" THEN sent
                ELSE IF variance THEN "VARIANCE_DETECTED" ELSE "VERIFIED",
     variance |-> variance]

Sent == {"none", "VERIFIED"}

(* The gates on the row's own columns.                                     *)
OwnGates(row) ==
    /\ "survey" \in row.plan.needs => row.plan.sound
    /\ "evidence" \in row.plan.needs => row.docs

(* No blockers.                                                            *)
Nothing == [milestones |-> {}, issues |-> {}, order |-> FALSE, failure |-> FALSE]

Idle == [pc |-> "idle"]
Free(h) == handler[h].pc = "idle"
At(h, pc) == handler[h].pc = pc
Goto(h, state) == handler' = [handler EXCEPT ![h] = state]

(* Milestones and surveys there are from earlier: planned, blocked, or     *)
(* signed off in the order of their construction.                          *)
Earlier == {New(p, s, d) : p \in Plans, s \in {"PLANNED", "BLOCKED"}, d \in BOOLEAN}

Init ==
    /\ milestone \in [Milestones ->
           {Absent} \cup Earlier \cup {SignedOff(row, FALSE) : row \in Earlier}]
    /\ \A m \in Milestones : Exists(m) =>
          /\ milestone[m].sealed =>
                OwnGates(milestone[m]) /\ ~milestone[m].plan.garbled
          /\ \A p \in milestone[m].plan.after :
                /\ p # m /\ Exists(p) /\ m \notin milestone[p].plan.after
                /\ milestone[m].sealed => milestone[p].sealed
    /\ survey \in [Surveys -> {Absent} \cup {Recorded(b, "none") : b \in BOOLEAN}]
    /\ issue = [i \in Issues |-> "none"]
    /\ orders = 0 /\ failing = FALSE
    /\ handler = [h \in Handlers |-> Idle]
    /\ starts = 0 /\ kills = 0 /\ faults = 0 /\ events = 0
    /\ crossed = FALSE /\ met = FALSE
    /\ standing = [h \in Handlers |-> Nothing] /\ missed = [h \in Handlers |-> {}]
    /\ byHand = {} /\ flagged = {}

Begin(h, state) ==
    /\ Free(h) /\ starts < MaxStarts
    /\ starts' = starts + 1
    /\ Goto(h, state)
    /\ UNCHANGED <<rows, kills, events>>

GoOn(h, state) ==
    /\ Goto(h, state)
    /\ UNCHANGED <<starts, kills, events>>

Saved(h, m, row) ==
    /\ milestone' = [milestone EXCEPT ![m] = row]
    /\ UNCHANGED <<survey, issue, orders, failing>>

----------------------------------------------------------------------------
(***************************************************************************)
(* Milestones are created, amended and deleted                             *)
(***************************************************************************)

(* The client may send the status along.  Nobody looks whether there are   *)
(* the predecessors it names.                                              *)
Create(h, m, plan, status) ==
    /\ Free(h) /\ starts < MaxStarts
    /\ milestone[m] = Absent
    /\ starts' = starts + 1
    /\ Saved(h, m, New(plan, status, FALSE))
    /\ UNCHANGED <<handler, kills, events>>

Delete(h, m) ==
    /\ Free(h) /\ starts < MaxStarts
    /\ Exists(m)
    /\ starts' = starts + 1
    /\ Saved(h, m, Deleted)
    /\ UNCHANGED <<handler, kills, events>>

(* Progress: the guardrail is that all of it awaits verification.  (Of     *)
(* documents sent along, an attachment of its own is made here.)           *)
Progressed(row, amount) ==
    [row EXCEPT
        !.progress = amount,
        !.status = CASE amount = "all" /\ @ \in {"PLANNED", "IN_PROGRESS"} ->
                            "PENDING_VERIFICATION"
                     [] amount = "some" /\ @ = "PLANNED" -> "IN_PROGRESS"
                     [] OTHER -> @]

Amended(row, what) ==
    CASE what = "submit" -> [row EXCEPT !.status = "PENDING_VERIFICATION"]
      [] what = "attach" -> [row EXCEPT !.docs = TRUE]
      [] what = "delay"  -> [row EXCEPT !.status = "DELAYED"]
      [] OTHER -> Progressed(row, what)

Amendments == {"submit", "attach", "delay", "some", "all"}

Amend(h, m, what) ==
    /\ Exists(m)
    /\ Begin(h, [pc |-> "saving", op |-> what, on |-> m,
                 row |-> Amended(milestone[m], what)])

(* A client saves the form: any status, other predecessors and gates.      *)
Edit(h, m, status, plan) ==
    /\ Exists(m)
    /\ Begin(h, [pc |-> "saving", op |-> "edit", on |-> m,
                 row |-> [milestone[m] EXCEPT !.status = status, !.plan = plan]])

Save(h) ==
    LET me == handler[h] IN
    /\ At(h, "saving")
    /\ Saved(h, me.on, me.row)
    /\ GoOn(h, Idle)

----------------------------------------------------------------------------
(***************************************************************************)
(* The gates                                                               *)
(***************************************************************************)

(* mutant of Uncertified: delayed ones count as done *)
UncertifiedUnlessDelayed(p) == Exists(p) /\ milestone[p].status \notin Final \cup {"DELAYED"}

Uncertified(p) == Exists(p) /\ milestone[p].status \notin Final

OpenIssues == {i \in Issues : issue[i] = "open"}

(* mutant of Evaluating: what was found about the last row stays           *)
EvaluatingOn(me, m, row) ==
    [me EXCEPT !.pc = IF row.plan.after = {} THEN "inspections" ELSE "predecessors",
               !.on = m, !.row = row, !.left = row.plan.after, !.failed = FALSE]

(* Evaluating a row: its predecessors one by one, then the other queries.  *)
Evaluating(me, m, row) ==
    [me EXCEPT !.pc = IF row.plan.after = {} THEN "inspections" ELSE "predecessors",
               !.on = m, !.row = row, !.left = row.plan.after,
               !.blocked = FALSE, !.failed = FALSE]

ReadPredecessor(h) ==
    LET me == handler[h] IN
    /\ At(h, "predecessors")
    /\ \E p \in me.left :
          GoOn(h, [me EXCEPT !.left = @ \ {p},
                             !.blocked = @ \/ Uncertified(p),
                             !.pc = IF me.left = {p} THEN "inspections" ELSE @])
    /\ UNCHANGED rows

(* Linked outcomes are a copy on the row; without any the project's count. *)
ReadInspections(h) ==
    LET me == handler[h] IN
    /\ At(h, "inspections") /\ ~me.row.plan.garbled
    /\ GoOn(h, [me EXCEPT !.pc = "issues",
                          !.failed = /\ "inspections" \in me.row.plan.needs
                                     /\ \/ me.row.plan.linked = "failed"
                                        \/ me.row.plan.linked = "none" /\ failing])
    /\ UNCHANGED rows

ReadIssues(h) ==
    LET me == handler[h] IN
    /\ At(h, "issues")
    /\ GoOn(h, [me EXCEPT !.pc = "orders",
                          !.blocked = @ \/ ("defects" \in me.row.plan.needs
                                            /\ OpenIssues # {})])
    /\ UNCHANGED rows

(* The last query decides: a sign-off goes on if all gates passed or are   *)
(* overridden, a successor is unblocked if nothing blocks it.              *)
Decided(me, stopped) ==
    LET clear == ~(me.blocked \/ ("defects" \in me.row.plan.needs /\ stopped))
        passed == me.waive \/ (clear /\ ~me.failed /\ OwnGates(me.row))
    IN  IF me.op = "unblock" THEN [me EXCEPT !.pc = IF clear THEN "unblocking" ELSE "taking"]
        ELSE IF passed THEN [me EXCEPT !.pc = "sealing"]
        ELSE Idle

(* mutant of ReadOrders: without a look at the orders *)
ReadOrdersNot(h) ==
    /\ At(h, "orders")
    /\ GoOn(h, Decided(handler[h], FALSE))
    /\ UNCHANGED rows

ReadOrders(h) ==
    /\ At(h, "orders")
    /\ GoOn(h, Decided(handler[h], orders > 0))
    /\ UNCHANGED rows

(* These two queries have a handler for errors of their own: one that fails*)
(* finds nothing.                                                          *)
Overlook(h) ==
    LET me == handler[h]  plan == me.row.plan IN
    /\ \/ /\ At(h, "inspections") /\ ~plan.garbled
          /\ "inspections" \in plan.needs /\ plan.linked = "none"
          /\ GoOn(h, [me EXCEPT !.pc = "issues"])
       \/ /\ At(h, "orders") /\ "defects" \in plan.needs
          /\ GoOn(h, Decided(me, FALSE))
    /\ UNCHANGED rows

----------------------------------------------------------------------------
(***************************************************************************)
(* Verification: the gates, the seal, and the successors it may unblock    *)
(***************************************************************************)

Verify(h, m, waive) ==
    /\ Exists(m)
    /\ Begin(h, Evaluating([pc |-> "", op |-> "verify", on |-> m, row |-> Absent,
                            left |-> {}, blocked |-> FALSE, failed |-> FALSE,
                            waive |-> waive, queue |-> {}],
                           m, milestone[m]))

Seal(h) ==
    LET me == handler[h] IN
    /\ At(h, "sealing")
    /\ Saved(h, me.on, SignedOff(me.row, me.waive))
    /\ GoOn(h, [me EXCEPT !.pc = "listing", !.op = "unblock"])

Blocked == {m \in Milestones : milestone[m].status = "BLOCKED"}

(* One query fetches the rows that are blocked.                            *)
ListBlocked(h) ==
    LET me == handler[h] IN
    /\ At(h, "listing")
    /\ GoOn(h, [me EXCEPT !.pc = "taking",
                          !.queue = {[id |-> m, row |-> milestone[m]] : m \in Blocked}])
    /\ UNCHANGED rows

Take(h) ==
    LET me == handler[h] IN
    /\ At(h, "taking")
    /\ \E s \in me.queue :
          GoOn(h, Evaluating([me EXCEPT !.queue = @ \ {s}], s.id, s.row))
    /\ UNCHANGED rows

Unblock(h) ==
    LET me == handler[h] IN
    /\ At(h, "unblocking")
    /\ Saved(h, me.on, [me.row EXCEPT !.status =
                            IF me.row.progress = "none" THEN "PLANNED" ELSE "IN_PROGRESS"])
    /\ GoOn(h, [me EXCEPT !.pc = "taking"])

Verified(h) ==
    /\ At(h, "taking") /\ handler[h].queue = {}
    /\ GoOn(h, Idle)
    /\ UNCHANGED rows

(* An exception ends it: before the sign-off was saved the client is told, *)
(* after that it is swallowed, and the successors that are left stay as    *)
(* they are.  A garbled entry raises one, and so does what fails.          *)
Stumble(h) ==
    /\ handler[h].pc \in {"predecessors", "inspections"}
    /\ handler[h].row.plan.garbled
    /\ GoOn(h, Idle)
    /\ UNCHANGED rows

Raise(h) ==
    /\ handler[h].pc \in {"predecessors", "issues", "sealing", "listing", "unblocking"}
    /\ At(h, "issues") => "defects" \in handler[h].row.plan.needs
    /\ GoOn(h, Idle)
    /\ UNCHANGED rows

----------------------------------------------------------------------------
(***************************************************************************)
(* What the gates look at                                                  *)
(***************************************************************************)

IssueBecomes(i, to) ==
    /\ issue' = [issue EXCEPT ![i] = to]
    /\ UNCHANGED <<milestone, survey, orders, failing>>

Event ==
    /\ events < MaxEvents /\ events' = events + 1
    /\ UNCHANGED <<handler, starts, kills>>

(* An issue is reported, escalated (which opens it again) or resolved.     *)
ReportIssue(i) == Event /\ issue[i] = "none" /\ IssueBecomes(i, "open")
EscalateIssue(i) == Event /\ issue[i] # "none" /\ IssueBecomes(i, "open")
ResolveIssue(i) == Event /\ issue[i] # "none" /\ IssueBecomes(i, "resolved")

(* A report that enforces stop-work: the issue, the look for an order in   *)
(* force, the order.                                                       *)
Enforce(h, i) ==
    /\ Free(h) /\ starts < MaxStarts
    /\ issue[i] = "none"
    /\ starts' = starts + 1
    /\ Goto(h, [pc |-> "looking", op |-> "enforce"])
    /\ IssueBecomes(i, "open")
    /\ UNCHANGED <<kills, events>>

LookForOrder(h) ==
    /\ At(h, "looking")
    /\ GoOn(h, IF orders > 0 THEN Idle ELSE [handler[h] EXCEPT !.pc = "ordering"])
    /\ UNCHANGED rows

OrdersBecome(n) ==
    /\ orders' = n
    /\ UNCHANGED <<milestone, survey, issue, failing>>

(* The inspection desk issues an order: the order, the inspection it is    *)
(* about, which fails, and a critical issue.                               *)
Suspend(h, inspected) ==
    Begin(h, [pc |-> "ordering", op |-> "suspend", inspected |-> inspected])

Order(h) ==
    LET me == handler[h] IN
    /\ At(h, "ordering") /\ orders < MaxOrders
    /\ OrdersBecome(orders + 1)
    /\ GoOn(h, CASE me.op = "enforce" -> Idle
                 [] me.op = "suspend" /\ me.inspected -> [me EXCEPT !.pc = "failing"]
                 [] OTHER -> [me EXCEPT !.pc = "announcing"])

Fail(h) ==
    /\ At(h, "failing")
    /\ GoOn(h, [handler[h] EXCEPT !.pc = "announcing"])
    /\ failing' = TRUE
    /\ UNCHANGED <<milestone, survey, issue, orders>>

Announce(h) ==
    /\ At(h, "announcing")
    /\ \E i \in Issues : issue[i] = "none" /\ IssueBecomes(i, "open")
    /\ GoOn(h, Idle)

(* It lifts orders, and resolves the issue that announced one; it passes   *)
(* and fails.                                                              *)
LiftOrder ==
    /\ Event
    /\ orders > 0 /\ orders' = orders - 1
    /\ \/ UNCHANGED issue
       \/ \E i \in Issues : issue[i] # "none" /\ issue' = [issue EXCEPT ![i] = "resolved"]
    /\ UNCHANGED <<milestone, survey, failing>>

ConcludeInspection(failed) ==
    /\ Event
    /\ failing' = failed
    /\ UNCHANGED <<milestone, survey, issue, orders>>

----------------------------------------------------------------------------
(***************************************************************************)
(* Boundary surveys                                                        *)
(***************************************************************************)

Filed(v, row) ==
    /\ survey' = [survey EXCEPT ![v] = row]
    /\ UNCHANGED <<milestone, issue, orders, failing>>

Record(v, variance, sent) ==
    /\ Event
    /\ survey[v] = Absent
    /\ Filed(v, Recorded(variance, sent))

Remove(v) ==
    /\ Event
    /\ Surveyed(v)
    /\ Filed(v, Deleted)

(* mutant of Certify: within tolerance or not *)
CertifyAnyway(h, v, waive) ==
    /\ Surveyed(v)
    /\ Begin(h, [pc |-> "filing", op |-> "certify", on |-> v, waive |-> waive,
                 row |-> [survey[v] EXCEPT !.status = "VERIFIED"]])

Certify(h, v, waive) ==
    /\ Surveyed(v)
    /\ survey[v].variance => waive
    /\ Begin(h, [pc |-> "filing", op |-> "certify", on |-> v, waive |-> waive,
                 row |-> [survey[v] EXCEPT !.status = "VERIFIED"]])

Flag(h, v) ==
    /\ Surveyed(v)
    /\ Begin(h, [pc |-> "filing", op |-> "flag", on |-> v,
                 row |-> [survey[v] EXCEPT !.status = "FLAGGED", !.variance = TRUE]])

(* A client saves the form.                                                *)
Revise(h, v, variance, sent) ==
    /\ Surveyed(v)
    /\ Begin(h, [pc |-> "filing", op |-> "edit", on |-> v,
                 row |-> Recorded(variance, sent)])

(* Evidence is attached: of the row, what is told apart here stays.        *)
Document(h, v) ==
    /\ Surveyed(v)
    /\ Begin(h, [pc |-> "filing", op |-> "document", on |-> v, row |-> survey[v]])

File(h) ==
    LET me == handler[h] IN
    /\ At(h, "filing")
    /\ Filed(me.on, me.row)
    /\ GoOn(h, Idle)

----------------------------------------------------------------------------
Kill(h) ==
    /\ ~Free(h) /\ kills < MaxKills
    /\ kills' = kills + 1
    /\ Goto(h, Idle)
    /\ UNCHANGED <<rows, starts, events>>

Settable == {"PLANNED", "BLOCKED", "COMPLETED"}

Step ==
    \/ \E h \in Handlers :
          \/ \E m \in Milestones :
                \/ \E p \in Plans, s \in Settable : Create(h, m, p, s) \/ Edit(h, m, s, p)
                \/ Delete(h, m)
                \/ \E what \in Amendments : Amend(h, m, what)
                \/ \E waive \in BOOLEAN : Verify(h, m, waive)
          \/ Save(h)
          \/ ReadPredecessor(h) \/ ReadInspections(h) \/ ReadIssues(h) \/ ReadOrders(h)
          \/ Seal(h) \/ ListBlocked(h) \/ Take(h) \/ Unblock(h) \/ Verified(h)
          \/ Stumble(h)
          \/ \E i \in Issues : Enforce(h, i)
          \/ \E inspected \in BOOLEAN : Suspend(h, inspected)
          \/ LookForOrder(h) \/ Order(h) \/ Fail(h) \/ Announce(h)
          \/ \E v \in Surveys :
                \/ \E waive \in BOOLEAN : Certify(h, v, waive)
                \/ \E variance \in BOOLEAN, sent \in Sent : Revise(h, v, variance, sent)
                \/ Flag(h, v) \/ Document(h, v)
          \/ File(h)
          \/ Kill(h)
    \/ \E i \in Issues : ReportIssue(i) \/ EscalateIssue(i) \/ ResolveIssue(i)
    \/ LiftOrder
    \/ \E failed \in BOOLEAN : ConcludeInspection(failed)
    \/ \E v \in Surveys :
          \/ \E variance \in BOOLEAN, sent \in Sent : Record(v, variance, sent)
          \/ Remove(v)

(* A query or a save fails.                                                *)
Fault ==
    /\ faults < MaxFaults /\ faults' = faults + 1
    /\ \E h \in Handlers : Overlook(h) \/ Raise(h)

----------------------------------------------------------------------------
(***************************************************************************)
(* History                                                                 *)
(***************************************************************************)
Verifying(me) == me.pc # "idle" /\ me.op \in {"verify", "unblock"}

(* The rows that a handler may yet save a copy of.                         *)
Holds(me) ==
    IF Verifying(me) THEN {me.on} \cup {s.id : s \in me.queue}
    ELSE IF me.pc \in {"saving", "filing"} THEN {me.on} ELSE {}

Collision ==
    \E h \in Handlers :
       \/ \E g \in Handlers \ {h} : Holds(handler[g]) \cap Holds(handler[h]) # {}
       \/ \E m \in Holds(handler[h]) \cap Milestones : milestone[m] = Deleted

Busy == {h \in Handlers : ~Free(h)}

(* What would hold a sign-off or a successor up, now.                      *)
Now == [milestones |-> {m \in Milestones : Uncertified(m)},
        issues |-> OpenIssues, order |-> orders > 0, failure |-> failing]

Still(a, b) ==
    [milestones |-> a.milestones \cap b.milestones, issues |-> a.issues \cap b.issues,
     order |-> a.order /\ b.order, failure |-> a.failure /\ b.failure]

History ==
    /\ crossed' = (crossed \/ Collision')
    /\ met' = (met \/ (handler' = handler /\ Busy # {})
                   \/ \E g, h \in Busy' : g # h)
    /\ standing' = [h \in Handlers |->
          IF ~Verifying(handler'[h]) THEN Nothing
          ELSE IF Free(h) THEN Now' ELSE Still(standing[h], Now')]
    /\ missed' = [h \in Handlers |->
          IF handler'[h].pc \notin {"issues", "orders", "sealing", "unblocking"} THEN {}
          ELSE missed[h] \cup {q \in {"inspections", "orders"} :
                   At(h, q) /\ faults' # faults /\ handler'[h] # handler[h]}]
    /\ byHand' = byHand
          \cup {m \in Milestones :
                    /\ milestone[m] = Absent /\ milestone'[m] # Absent
                    /\ \/ milestone'[m].status \in Final
                       \/ \E p \in milestone'[m].plan.after : ~Exists(p)}
          \cup {handler[h].on : h \in {g \in Handlers : ~Free(g) /\ handler[g].op = "edit"}}
          \cup {handler[h].on : h \in {g \in Handlers :
                    At(g, "filing") /\ handler[g].op = "certify" /\ handler[g].waive}}
    /\ flagged' = flagged
          \cup {handler[h].on : h \in {g \in Handlers :
                    At(g, "filing") /\ handler[g].op = "flag" /\ kills' = kills
                    /\ handler'[g] # handler[g]}}

Next ==
    /\ \/ Step /\ UNCHANGED faults
       \/ Fault
    /\ History

Spec == Init /\ [][Next]_vars

----------------------------------------------------------------------------
(***************************************************************************)
(* Types                                                                   *)
(***************************************************************************)
Row ==
    [status : Settable \cup {"IN_PROGRESS", "PENDING_VERIFICATION", "DELAYED", "VERIFIED"},
     progress : {"none", "some", "all"}, docs : BOOLEAN, plan : Plan,
     sealed : BOOLEAN, waived : BOOLEAN]

SurveyRow == [status : {"VERIFIED", "VARIANCE_DETECTED", "FLAGGED"}, variance : BOOLEAN]

GateReads == {"predecessors", "inspections", "issues", "orders"}

Verification ==
    [pc : GateReads \cup {"sealing", "listing", "taking", "unblocking"},
     op : {"verify", "unblock"}, on : Milestones, row : Row, left : SUBSET Milestones,
     blocked : BOOLEAN, failed : BOOLEAN, waive : BOOLEAN,
     queue : SUBSET [id : Milestones, row : Row]]

HandlerState ==
    {Idle} \cup Verification
    \cup [pc : {"saving"}, op : Amendments \cup {"edit"}, on : Milestones, row : Row]
    \cup [pc : {"filing"}, op : {"flag", "document", "edit"}, on : Surveys, row : SurveyRow]
    \cup [pc : {"filing"}, op : {"certify"}, on : Surveys, waive : BOOLEAN, row : SurveyRow]
    \cup [pc : {"looking", "ordering"}, op : {"enforce"}]
    \cup [pc : {"ordering", "failing", "announcing"}, op : {"suspend"}, inspected : BOOLEAN]

TypeOK ==
    /\ milestone \in [Milestones -> {Absent, Deleted} \cup Row]
    /\ survey \in [Surveys -> {Absent, Deleted} \cup SurveyRow]
    /\ issue \in [Issues -> {"none", "open", "resolved"}]
    /\ orders \in Nat /\ failing \in BOOLEAN
    /\ handler \in [Handlers -> HandlerState]
    /\ starts \in Nat /\ kills \in Nat /\ faults \in Nat /\ events \in Nat
    /\ crossed \in BOOLEAN /\ met \in BOOLEAN
    /\ standing \in [Handlers -> [milestones : SUBSET Milestones, issues : SUBSET Issues,
                                 order : BOOLEAN, failure : BOOLEAN]]
    /\ missed \in [Handlers -> SUBSET {"inspections", "orders"}]
    /\ byHand \subseteq Milestones \cup Surveys
    /\ flagged \subseteq Surveys

----------------------------------------------------------------------------
(***************************************************************************)
(* Properties                                                              *)
(***************************************************************************)

(* "Strictly checks verification gate criteria": whatever else goes on     *)
(* while the gates are read, one after the other, a blocker that was there *)
(* all the time since the milestone was fetched keeps it from being sealed,*)
(* and a successor from being unblocked, unless the query that would have  *)
(* found it failed and the error was swallowed.                            *)
StandingBlockersHold ==
    \A h \in Handlers :
       LET me == handler[h]  there == standing[h]  plan == me.row.plan IN
       At(h, "unblocking") \/ (At(h, "sealing") /\ ~me.waive) =>
          /\ there.milestones \cap plan.after = {}
          /\ "defects" \in plan.needs =>
                there.issues = {} /\ (~there.order \/ "orders" \in missed[h])
          /\ At(h, "sealing") /\ "inspections" \in plan.needs /\ plan.linked = "none"
                => ~there.failure \/ "inspections" \in missed[h]

(* "Predecessor Dependencies Satisfied": as long as no two requests held   *)
(* copies of one row, a milestone that was signed off without an override  *)
(* stands on milestones that were signed off, or that a client declared    *)
(* done, however their status was changed since.  (A predecessor that was  *)
(* named before there was one passes.)                                     *)
BuiltOnCertified ==
    ~crossed => \A m \in Milestones \ byHand :
        Exists(m) /\ milestone[m].sealed /\ ~milestone[m].waived =>
            \A p \in milestone[m].plan.after \ byHand :
                Exists(p) => milestone[p].sealed

Hindered(m) ==
    LET plan == milestone[m].plan IN
    \/ \E p \in plan.after : Uncertified(p)
    \/ "defects" \in plan.needs /\ (OpenIssues # {} \/ orders > 0)

(* "Automatically unblock successor milestones": when a verification that  *)
(* was signed off has come to its end, in whatever way, and nothing else   *)
(* went on, whatever is still blocked is held up by something; or a call   *)
(* failed just then, or the entries of a row that is blocked are garbled,  *)
(* and the rest was abandoned.                                             *)
VerifyUnblocks ==
    [][ (/\ kills' = kills /\ ~met'
         /\ \E h \in Handlers : /\ ~Free(h) /\ handler[h].op = "unblock"
                                /\ handler'[h].pc = "idle")
            => \/ \A m \in Blocked : Hindered(m)
               \/ faults' # faults
               \/ \E m \in Blocked : milestone[m].plan.garbled ]_vars

(* An encroachment that was flagged is certified by overriding the         *)
(* tolerance only, as long as no two requests held copies of one row.      *)
FlagStands ==
    ~crossed => \A v \in flagged \ byHand : survey[v].status # "VERIFIED"
=============================================================================
