------------------------ MODULE SiteMonitoringProofs ------------------------
(***************************************************************************)
(* What TLAPS proves of SiteMonitoring for any number of handlers,         *)
(* milestones, issues and surveys, whatever interleaves or fails and       *)
(* whoever is killed.                                                      *)
(***************************************************************************)
EXTENDS SiteMonitoring, TLAPS

----------------------------------------------------------------------------
(***************************************************************************)
(* Types                                                                   *)
(***************************************************************************)
RowsOK ==
    /\ milestone \in [Milestones -> {Absent, Deleted} \cup Row]
    /\ survey \in [Surveys -> {Absent, Deleted} \cup SurveyRow]
    /\ issue \in [Issues -> {"none", "open", "resolved"}]
    /\ orders \in Nat /\ failing \in BOOLEAN

CountsOK == starts \in Nat /\ kills \in Nat /\ events \in Nat

HandlersOK == handler \in [Handlers -> HandlerState]

LEMMA RowsAreTyped ==
    /\ \A p \in Plans, s \in Settable, d \in BOOLEAN : New(p, s, d) \in Row
    /\ \A row \in Row, w \in BOOLEAN : SignedOff(row, w) \in Row
    /\ \A row \in Row, what \in Amendments : Amended(row, what) \in Row
    /\ \A row \in Row, s \in Settable, p \in Plans :
          [row EXCEPT !.status = s, !.plan = p] \in Row
    /\ \A row \in Row, s \in {"PLANNED", "IN_PROGRESS"} : [row EXCEPT !.status = s] \in Row
    /\ \A row \in Row : row \notin {Absent, Deleted}
    /\ \A b \in BOOLEAN, sent \in Sent : Recorded(b, sent) \in SurveyRow
    /\ \A row \in SurveyRow : /\ row \notin {Absent, Deleted}
                              /\ [row EXCEPT !.status = "VERIFIED"] \in SurveyRow
                              /\ [row EXCEPT !.status = "FLAGGED", !.variance = TRUE]
                                     \in SurveyRow
<1> USE PlansAssumption
<1>1. \A p \in Plans, s \in Settable, d \in BOOLEAN : New(p, s, d) \in Row
    BY DEF New, Row, Settable
<1>2. \A row \in Row, w \in BOOLEAN : SignedOff(row, w) \in Row
    BY DEF SignedOff, Row, Settable
<1>3. ASSUME NEW row \in Row, NEW what \in Amendments PROVE Amended(row, what) \in Row
    <2>1. ASSUME NEW amount \in {"some", "all"} PROVE Progressed(row, amount) \in Row
        BY <2>1 DEF Progressed, Row, Settable
    <2>2. CASE what \in {"some", "all"}
        BY <2>1, <2>2 DEF Amended
    <2>3. CASE what \in {"submit", "attach", "delay"}
        BY <2>3 DEF Amended, Row, Settable
    <2> QED BY <2>2, <2>3 DEF Amendments
<1>4. \A row \in Row, s \in Settable, p \in Plans :
          [row EXCEPT !.status = s, !.plan = p] \in Row
    BY DEF Row, Settable
<1>5. \A row \in Row, s \in {"PLANNED", "IN_PROGRESS"} : [row EXCEPT !.status = s] \in Row
    BY DEF Row, Settable
<1>6. \A row \in Row : row \notin {Absent, Deleted}
    BY DEF Row, Settable, Absent, Deleted
<1>7. \A b \in BOOLEAN, sent \in Sent : Recorded(b, sent) \in SurveyRow
    BY DEF Recorded, Sent, SurveyRow
<1>8. ASSUME NEW row \in SurveyRow
      PROVE  /\ row \notin {Absent, Deleted}
             /\ [row EXCEPT !.status = "VERIFIED"] \in SurveyRow
             /\ [row EXCEPT !.status = "FLAGGED", !.variance = TRUE] \in SurveyRow
    <2>1. row \notin {Absent, Deleted}
        BY DEF SurveyRow, Absent, Deleted
    <2>2. [row EXCEPT !.status = "VERIFIED"] \in SurveyRow
        BY DEF SurveyRow
    <2>3. [row EXCEPT !.status = "FLAGGED", !.variance = TRUE] \in SurveyRow
        BY DEF SurveyRow
    <2> QED BY <2>1, <2>2, <2>3
<1> QED BY <1>1, <1>2, <1>3, <1>4, <1>5, <1>6, <1>7, <1>8

LEMMA InitTypes == ASSUME Init PROVE TypeOK
<1>1. milestone \in [Milestones -> {Absent, Deleted} \cup Row]
    <2>1. \A row \in Earlier : row \in Row
        <3>1. {"PLANNED", "BLOCKED"} \subseteq Settable
            BY DEF Settable
        <3>2. SUFFICES ASSUME NEW p \in Plans, NEW s \in {"PLANNED", "BLOCKED"},
                              NEW d \in BOOLEAN
                       PROVE  New(p, s, d) \in Row
            BY DEF Earlier
        <3> QED BY <3>1, RowsAreTyped
    <2>2. \A row \in Earlier : SignedOff(row, FALSE) \in Row
        BY <2>1, RowsAreTyped
    <2>3. {Absent} \cup Earlier \cup {SignedOff(row, FALSE) : row \in Earlier}
              \subseteq {Absent, Deleted} \cup Row
        BY <2>1, <2>2
    <2>4. milestone \in [Milestones -> {Absent} \cup Earlier
                                       \cup {SignedOff(row, FALSE) : row \in Earlier}]
        BY DEF Init
    <2> QED BY <2>3, <2>4
<1>2. survey \in [Surveys -> {Absent, Deleted} \cup SurveyRow]
    <2>1. "none" \in Sent
        BY DEF Sent
    <2>2. \A b \in BOOLEAN : Recorded(b, "none") \in SurveyRow
        BY <2>1, RowsAreTyped
    <2> QED BY <2>2 DEF Init
<1>3. /\ issue \in [Issues -> {"none", "open", "resolved"}]
      /\ orders \in Nat /\ failing \in BOOLEAN
      /\ starts \in Nat /\ kills \in Nat /\ faults \in Nat /\ events \in Nat
      /\ crossed \in BOOLEAN /\ met \in BOOLEAN
      /\ byHand \subseteq Milestones \cup Surveys
      /\ flagged \subseteq Surveys
    <2>1. /\ issue = [i \in Issues |-> "none"]
          /\ orders = 0 /\ failing = FALSE
          /\ starts = 0 /\ kills = 0 /\ faults = 0 /\ events = 0
          /\ crossed = FALSE /\ met = FALSE
          /\ byHand = {} /\ flagged = {}
        BY DEF Init
    <2>2. issue \in [Issues -> {"none", "open", "resolved"}]
        BY <2>1
    <2>3. orders \in Nat /\ failing \in BOOLEAN
        BY <2>1
    <2>4. /\ starts \in Nat /\ kills \in Nat /\ faults \in Nat /\ events \in Nat
          /\ crossed \in BOOLEAN /\ met \in BOOLEAN
        BY <2>1
    <2>5. byHand \subseteq Milestones \cup Surveys /\ flagged \subseteq Surveys
        BY <2>1
    <2> QED BY <2>2, <2>3, <2>4, <2>5
<1>4. standing \in [Handlers -> [milestones : SUBSET Milestones, issues : SUBSET Issues,
                                 order : BOOLEAN, failure : BOOLEAN]]
    BY DEF Init, Nothing
<1>6. missed \in [Handlers -> SUBSET {"inspections", "orders"}]
    BY DEF Init
<1>5. handler \in [Handlers -> HandlerState]
    <2>1. Idle \in HandlerState
        BY DEF HandlerState
    <2> QED BY <2>1 DEF Init
<1> QED BY <1>1, <1>2, <1>3, <1>4, <1>5, <1>6 DEF TypeOK

(* What a handler is doing, as its pc and the operation tell.              *)
LEMMA StateOf ==
    ASSUME TypeOK, NEW h \in Handlers
    PROVE  /\ handler[h] \in HandlerState
           /\ handler[h].pc \in GateReads \cup {"sealing", "listing", "taking", "unblocking"}
                  => handler[h] \in Verification
           /\ handler[h].pc = "saving" =>
                  handler[h].on \in Milestones /\ handler[h].row \in Row
           /\ handler[h].pc = "filing" =>
                  handler[h].on \in Surveys /\ handler[h].row \in SurveyRow
<1>1. handler[h] \in HandlerState
    BY DEF TypeOK
<1>2. CASE handler[h] \in Verification
    BY <1>1, <1>2 DEF Verification, GateReads
<1>3. CASE handler[h] \notin Verification
    BY <1>1, <1>3 DEF HandlerState, Idle, GateReads
<1> QED BY <1>2, <1>3

(* A request begins, or goes on, in a state that is one.                   *)
LEMMA BeginTyped ==
    ASSUME TypeOK, NEW h \in Handlers, NEW state \in HandlerState, Begin(h, state)
    PROVE  RowsOK' /\ CountsOK' /\ HandlersOK'
BY DEF Begin, Goto, TypeOK, RowsOK, CountsOK, HandlersOK, rows

LEMMA GoOnTyped ==
    ASSUME TypeOK, NEW h \in Handlers, NEW state \in HandlerState, GoOn(h, state), RowsOK'
    PROVE  RowsOK' /\ CountsOK' /\ HandlersOK'
BY DEF GoOn, Goto, TypeOK, CountsOK, HandlersOK

LEMMA RowsKept == ASSUME TypeOK, UNCHANGED rows PROVE RowsOK'
BY DEF TypeOK, RowsOK, rows

LEMMA SavedTyped ==
    ASSUME TypeOK, NEW h \in Handlers, NEW m \in Milestones,
           NEW row \in {Absent, Deleted} \cup Row, Saved(h, m, row)
    PROVE  RowsOK'
BY DEF Saved, TypeOK, RowsOK

LEMMA FiledTyped ==
    ASSUME TypeOK, NEW v \in Surveys, NEW row \in {Absent, Deleted} \cup SurveyRow,
           Filed(v, row)
    PROVE  RowsOK'
BY DEF Filed, TypeOK, RowsOK

LEMMA EventTyped == ASSUME TypeOK, Event PROVE CountsOK' /\ HandlersOK'
BY DEF Event, TypeOK, CountsOK, HandlersOK

(* What the last gate decides, as the handler's next label tells.          *)
Clear(me, stopped) == ~(me.blocked \/ ("defects" \in me.row.plan.needs /\ stopped))

LEMMA Decides ==
    ASSUME NEW me \in Verification, NEW stopped \in BOOLEAN
    PROVE  \E label \in {"unblocking", "taking", "sealing", "idle"} :
              /\ Decided(me, stopped) =
                    IF label = "idle" THEN Idle ELSE [me EXCEPT !.pc = label]
              /\ label = "unblocking" => me.op = "unblock" /\ Clear(me, stopped)
              /\ label = "taking" => me.op = "unblock" /\ ~Clear(me, stopped)
              /\ label = "sealing" =>
                    me.op = "verify" /\ (me.waive \/ (Clear(me, stopped) /\ ~me.failed))
              /\ label = "idle" => me.op = "verify"
<1> DEFINE clear == ~(me.blocked \/ ("defects" \in me.row.plan.needs /\ stopped))
           passed == me.waive \/ (clear /\ ~me.failed /\ OwnGates(me.row))
<1>1. /\ me.op \in {"verify", "unblock"}
      /\ Clear(me, stopped) = clear
      /\ Decided(me, stopped) =
            IF me.op = "unblock" THEN [me EXCEPT !.pc = IF clear THEN "unblocking" ELSE "taking"]
            ELSE IF passed THEN [me EXCEPT !.pc = "sealing"] ELSE Idle
    BY DEF Decided, Verification, Clear
<1>2. passed => me.waive \/ (clear /\ ~me.failed)
    OBVIOUS
<1> HIDE DEF clear, passed
<1>3. CASE me.op = "unblock" /\ clear
    <2>1. Decided(me, stopped) = [me EXCEPT !.pc = "unblocking"]
        BY <1>1, <1>3
    <2> QED BY <1>1, <1>3, <2>1
<1>4. CASE me.op = "unblock" /\ ~clear
    <2>1. Decided(me, stopped) = [me EXCEPT !.pc = "taking"]
        BY <1>1, <1>4
    <2> QED BY <1>1, <1>4, <2>1
<1>5. CASE me.op = "verify" /\ passed
    <2>1. Decided(me, stopped) = [me EXCEPT !.pc = "sealing"]
        BY <1>1, <1>5
    <2> QED BY <1>1, <1>2, <1>5, <2>1
<1>6. CASE me.op = "verify" /\ ~passed
    <2>1. Decided(me, stopped) = Idle
        BY <1>1, <1>6
    <2> QED BY <1>1, <1>6, <2>1
<1> QED BY <1>1, <1>3, <1>4, <1>5, <1>6

LEMMA DecidedTyped ==
    ASSUME NEW me \in Verification, NEW stopped \in BOOLEAN
    PROVE  Decided(me, stopped) \in {Idle} \cup Verification
<1>1. PICK label \in {"unblocking", "taking", "sealing", "idle"} :
          Decided(me, stopped) = IF label = "idle" THEN Idle ELSE [me EXCEPT !.pc = label]
    BY Decides
<1>2. label # "idle" => [me EXCEPT !.pc = label] \in Verification
    BY DEF Verification
<1> QED BY <1>1, <1>2

(* A query that is overlooked, a garbled entry and a call that fails leave *)
(* the rows, and the verification goes on in one or ends.                  *)
LEMMA Faulty ==
    ASSUME TypeOK, NEW h \in Handlers, Overlook(h) \/ Stumble(h) \/ Raise(h)
    PROVE  /\ handler[h] \in Verification
           /\ UNCHANGED <<rows, starts, kills, events>>
           /\ handler' = [handler EXCEPT ![h] = handler'[h]]
           /\ \/ handler'[h] = Idle
              \/ Overlook(h) /\ \E label \in {"issues", "unblocking", "taking", "sealing"} :
                                 handler'[h] = [handler[h] EXCEPT !.pc = label]
<1>1. handler[h].pc \in GateReads \cup {"sealing", "listing", "taking", "unblocking"}
    BY DEF Overlook, Stumble, Raise, At, GateReads
<1>2. handler[h] \in Verification /\ handler \in [Handlers -> HandlerState]
    BY <1>1, StateOf DEF TypeOK
<1>3. UNCHANGED <<rows, starts, kills, events>>
    BY DEF Overlook, Stumble, Raise, GoOn
<1>4. CASE Stumble(h) \/ Raise(h)
    <2>1. handler' = [handler EXCEPT ![h] = Idle]
        BY <1>4 DEF Stumble, Raise, GoOn, Goto
    <2> QED BY <1>2, <1>3, <2>1
<1>5. CASE Overlook(h)
    <2>1. PICK state : /\ handler' = [handler EXCEPT ![h] = state]
                       /\ \/ state = Idle
                          \/ \E label \in {"issues", "unblocking", "taking", "sealing"} :
                                state = [handler[h] EXCEPT !.pc = label]
        <3>1. PICK label \in {"unblocking", "taking", "sealing", "idle"} :
                  Decided(handler[h], FALSE) =
                     IF label = "idle" THEN Idle ELSE [handler[h] EXCEPT !.pc = label]
            BY <1>2, Decides
        <3>2. \/ handler' = [handler EXCEPT ![h] = [handler[h] EXCEPT !.pc = "issues"]]
              \/ handler' = [handler EXCEPT ![h] = Decided(handler[h], FALSE)]
            BY <1>5 DEF Overlook, GoOn, Goto
        <3>3. CASE handler' = [handler EXCEPT ![h] = [handler[h] EXCEPT !.pc = "issues"]]
            BY <3>3
        <3>4. CASE handler' = [handler EXCEPT ![h] = Decided(handler[h], FALSE)]
            BY <3>1, <3>4
        <3> QED BY <3>2, <3>3, <3>4
    <2>2. handler'[h] = state /\ handler' = [handler EXCEPT ![h] = handler'[h]]
        BY <1>2, <2>1
    <2> QED BY <1>2, <1>3, <1>5, <2>1, <2>2
<1> QED BY <1>4, <1>5

LEMMA StepTypes == ASSUME TypeOK, Step PROVE RowsOK' /\ CountsOK' /\ HandlersOK'
<1> USE PlansAssumption DEF GateReads
<1>1. /\ handler \in [Handlers -> HandlerState]
      /\ milestone \in [Milestones -> {Absent, Deleted} \cup Row]
      /\ survey \in [Surveys -> {Absent, Deleted} \cup SurveyRow]
      /\ failing \in BOOLEAN /\ orders \in Nat
      /\ starts \in Nat /\ kills \in Nat /\ events \in Nat
    BY DEF TypeOK
<1>2. \A m \in Milestones : Exists(m) => milestone[m] \in Row
    BY <1>1 DEF Exists
<1>3. \A v \in Surveys : Surveyed(v) => survey[v] \in SurveyRow
    BY <1>1 DEF Surveyed
<1>4. Idle \in HandlerState
    BY DEF HandlerState
(* A handler in the middle of a verification goes on in one.               *)
<1>5. ASSUME NEW h \in Handlers, NEW state \in Verification, GoOn(h, state), RowsOK'
      PROVE  RowsOK' /\ CountsOK' /\ HandlersOK'
    <2>1. state \in HandlerState
        BY DEF HandlerState
    <2> QED BY <1>5, <2>1, GoOnTyped
<1>6. ASSUME NEW h \in Handlers, GoOn(h, Idle), RowsOK'
      PROVE  RowsOK' /\ CountsOK' /\ HandlersOK'
    BY <1>4, <1>6, GoOnTyped
<1>7. ASSUME NEW me \in Verification, NEW m \in Milestones, NEW row \in Row
      PROVE  Evaluating(me, m, row) \in Verification
    <2>1. row.plan.after \in SUBSET Milestones
        BY DEF Row, Plan
    <2> DEFINE pc == IF row.plan.after = {} THEN "inspections" ELSE "predecessors"
    <2>2. pc \in {"inspections", "predecessors"}
        OBVIOUS
    <2> HIDE DEF pc
    <2>3. [me EXCEPT !.pc = pc, !.on = m, !.row = row, !.left = row.plan.after,
                     !.blocked = FALSE, !.failed = FALSE] \in Verification
        BY <2>1, <2>2 DEF Verification
    <2> QED BY <2>3 DEF Evaluating, pc
<1>8. ASSUME NEW h \in Handlers, NEW m \in Milestones, NEW p \in Plans, NEW s \in Settable,
             Create(h, m, p, s)
      PROVE  RowsOK' /\ CountsOK' /\ HandlersOK'
    <2>1. New(p, s, FALSE) \in {Absent, Deleted} \cup Row
        BY RowsAreTyped
    <2>2. /\ Saved(h, m, New(p, s, FALSE))
          /\ starts' = starts + 1 /\ UNCHANGED <<handler, kills, events>>
        BY <1>8 DEF Create
    <2>3. RowsOK'
        BY <2>1, <2>2, SavedTyped
    <2> QED BY <1>1, <2>2, <2>3 DEF CountsOK, HandlersOK
<1>9. ASSUME NEW h \in Handlers, NEW m \in Milestones, NEW p \in Plans, NEW s \in Settable,
             Edit(h, m, s, p)
      PROVE  RowsOK' /\ CountsOK' /\ HandlersOK'
    <2> DEFINE state == [pc |-> "saving", op |-> "edit", on |-> m,
                         row |-> [milestone[m] EXCEPT !.status = s, !.plan = p]]
    <2>1. [milestone[m] EXCEPT !.status = s, !.plan = p] \in Row
        BY <1>2, <1>9, RowsAreTyped DEF Edit
    <2>2. state \in HandlerState
        BY <2>1 DEF HandlerState
    <2> QED BY <1>9, <2>2, BeginTyped DEF Edit
<1>10. ASSUME NEW h \in Handlers, NEW m \in Milestones, Delete(h, m)
       PROVE  RowsOK' /\ CountsOK' /\ HandlersOK'
    BY <1>1, <1>10, SavedTyped DEF Delete, CountsOK, HandlersOK
<1>11. ASSUME NEW h \in Handlers, NEW m \in Milestones, NEW what \in Amendments,
              Amend(h, m, what)
       PROVE  RowsOK' /\ CountsOK' /\ HandlersOK'
    <2> DEFINE state == [pc |-> "saving", op |-> what, on |-> m,
                         row |-> Amended(milestone[m], what)]
    <2>1. Amended(milestone[m], what) \in Row
        BY <1>2, <1>11, RowsAreTyped DEF Amend
    <2>2. state \in HandlerState
        BY <2>1 DEF HandlerState
    <2> QED BY <1>11, <2>2, BeginTyped DEF Amend
<1>12. ASSUME NEW h \in Handlers, NEW m \in Milestones, NEW waive \in BOOLEAN,
              Verify(h, m, waive)
       PROVE  RowsOK' /\ CountsOK' /\ HandlersOK'
    <2> DEFINE blank == [pc |-> "", op |-> "verify", on |-> m, row |-> Absent,
                         left |-> {}, blocked |-> FALSE, failed |-> FALSE,
                         waive |-> waive, queue |-> {}]
    <2>1. milestone[m] \in Row
        BY <1>2, <1>12 DEF Verify
    <2>2. Evaluating(blank, m, milestone[m]) \in Verification
        BY <2>1, ZenonT(40) DEF Evaluating, Verification, Row, Plan
    <2>3. Evaluating(blank, m, milestone[m]) \in HandlerState
        BY <2>2 DEF HandlerState
    <2> QED BY <1>12, <2>3, BeginTyped DEF Verify
<1>13. ASSUME NEW h \in Handlers, Save(h)
       PROVE  RowsOK' /\ CountsOK' /\ HandlersOK'
    <2>1. handler[h].on \in Milestones /\ handler[h].row \in Row
        BY <1>13, StateOf DEF Save, At
    <2> QED BY <1>6, <1>13, <2>1, SavedTyped DEF Save
<1>14. ASSUME NEW h \in Handlers, ReadPredecessor(h)
       PROVE  RowsOK' /\ CountsOK' /\ HandlersOK'
    <2> DEFINE me == handler[h]
    <2>1. me \in Verification
        BY <1>14, StateOf DEF ReadPredecessor, At
    <2>2. PICK p \in me.left :
              GoOn(h, [me EXCEPT !.left = @ \ {p},
                                 !.blocked = @ \/ Uncertified(p),
                                 !.pc = IF me.left = {p} THEN "inspections" ELSE @])
        BY <1>14 DEF ReadPredecessor
    <2>3. Uncertified(p) \in BOOLEAN
        BY DEF Uncertified
    <2>4. [me EXCEPT !.left = @ \ {p}, !.blocked = @ \/ Uncertified(p),
                     !.pc = IF me.left = {p} THEN "inspections" ELSE @] \in Verification
        BY <2>1, <2>3 DEF Verification
    <2> QED BY <1>5, <1>14, <2>2, <2>4, RowsKept DEF ReadPredecessor
<1>15. ASSUME NEW h \in Handlers, ReadInspections(h)
       PROVE  RowsOK' /\ CountsOK' /\ HandlersOK'
    <2> DEFINE me == handler[h]
               failed == /\ "inspections" \in me.row.plan.needs
                         /\ \/ me.row.plan.linked = "failed"
                            \/ me.row.plan.linked = "none" /\ failing
    <2>1. me \in Verification
        BY <1>15, StateOf DEF ReadInspections, At
    <2>2. failed \in BOOLEAN
        OBVIOUS
    <2>3. GoOn(h, [me EXCEPT !.pc = "issues", !.failed = failed])
        BY <1>15 DEF ReadInspections
    <2> HIDE DEF failed
    <2>4. [me EXCEPT !.pc = "issues", !.failed = failed] \in Verification
        BY <2>1, <2>2 DEF Verification
    <2> QED BY <1>5, <1>15, <2>3, <2>4, RowsKept DEF ReadInspections
<1>16. ASSUME NEW h \in Handlers, ReadIssues(h)
       PROVE  RowsOK' /\ CountsOK' /\ HandlersOK'
    <2> DEFINE me == handler[h]
               defects == "defects" \in me.row.plan.needs /\ OpenIssues # {}
    <2>1. me \in Verification
        BY <1>16, StateOf DEF ReadIssues, At
    <2>2. defects \in BOOLEAN
        OBVIOUS
    <2>3. GoOn(h, [me EXCEPT !.pc = "orders", !.blocked = @ \/ defects])
        BY <1>16 DEF ReadIssues
    <2> HIDE DEF defects
    <2>4. [me EXCEPT !.pc = "orders", !.blocked = @ \/ defects] \in Verification
        BY <2>1, <2>2 DEF Verification
    <2> QED BY <1>5, <1>16, <2>3, <2>4, RowsKept DEF ReadIssues
<1>17. ASSUME NEW h \in Handlers, ReadOrders(h)
       PROVE  RowsOK' /\ CountsOK' /\ HandlersOK'
    <2>1. handler[h] \in Verification
        BY <1>17, StateOf DEF ReadOrders, At
    <2>2. Decided(handler[h], orders > 0) \in {Idle} \cup Verification
        BY <2>1, (orders > 0) \in BOOLEAN, DecidedTyped
    <2>3. Decided(handler[h], orders > 0) \in HandlerState
        BY <2>2 DEF HandlerState
    <2> QED BY <1>17, <2>3, GoOnTyped, RowsKept DEF ReadOrders
<1>18. ASSUME NEW h \in Handlers, Seal(h)
       PROVE  RowsOK' /\ CountsOK' /\ HandlersOK'
    <2> DEFINE me == handler[h]
    <2>1. me \in Verification
        BY <1>18, StateOf DEF Seal, At
    <2>2. SignedOff(me.row, me.waive) \in Row /\ me.on \in Milestones
        BY <2>1, RowsAreTyped DEF Verification
    <2>3. [me EXCEPT !.pc = "listing", !.op = "unblock"] \in Verification
        BY <2>1 DEF Verification
    <2> QED BY <1>5, <1>18, <2>2, <2>3, SavedTyped DEF Seal
<1>19. ASSUME NEW h \in Handlers, ListBlocked(h)
       PROVE  RowsOK' /\ CountsOK' /\ HandlersOK'
    <2> DEFINE me == handler[h]
               list == {[id |-> m, row |-> milestone[m]] : m \in Blocked}
    <2>1. me \in Verification
        BY <1>19, StateOf DEF ListBlocked, At
    <2>2. \A m \in Blocked : m \in Milestones /\ milestone[m] \in Row
        BY <1>1 DEF Blocked, Absent, Deleted
    <2>3. list \subseteq [id : Milestones, row : Row]
        BY <2>2
    <2>4. [me EXCEPT !.pc = "taking", !.queue = list] \in Verification
        BY <2>1, <2>3 DEF Verification
    <2> QED BY <1>5, <1>19, <2>4, RowsKept DEF ListBlocked
<1>20. ASSUME NEW h \in Handlers, Take(h)
       PROVE  RowsOK' /\ CountsOK' /\ HandlersOK'
    <2> DEFINE me == handler[h]
    <2>1. me \in Verification
        BY <1>20, StateOf DEF Take, At
    <2>2. PICK s \in me.queue :
              GoOn(h, Evaluating([me EXCEPT !.queue = @ \ {s}], s.id, s.row))
        BY <1>20 DEF Take
    <2>3. [me EXCEPT !.queue = @ \ {s}] \in Verification
        BY <2>1 DEF Verification
    <2>4. s.id \in Milestones /\ s.row \in Row
        BY <2>1 DEF Verification
    <2>5. Evaluating([me EXCEPT !.queue = @ \ {s}], s.id, s.row) \in Verification
        BY <1>7, <2>3, <2>4
    <2> QED BY <1>5, <1>20, <2>2, <2>5, RowsKept DEF Take
<1>21. ASSUME NEW h \in Handlers, Unblock(h)
       PROVE  RowsOK' /\ CountsOK' /\ HandlersOK'
    <2> DEFINE me == handler[h]
               s == IF me.row.progress = "none" THEN "PLANNED" ELSE "IN_PROGRESS"
    <2>1. me \in Verification
        BY <1>21, StateOf DEF Unblock, At
    <2>2. [me.row EXCEPT !.status = s] \in Row /\ me.on \in Milestones
        BY <2>1, RowsAreTyped DEF Verification
    <2>3. [me EXCEPT !.pc = "taking"] \in Verification
        BY <2>1 DEF Verification
    <2> QED BY <1>5, <1>21, <2>2, <2>3, SavedTyped DEF Unblock
<1>22. ASSUME NEW h \in Handlers, Verified(h)
       PROVE  RowsOK' /\ CountsOK' /\ HandlersOK'
    BY <1>6, <1>22, RowsKept DEF Verified
<1>23. ASSUME NEW h \in Handlers, NEW i \in Issues, Enforce(h, i)
       PROVE  RowsOK' /\ CountsOK' /\ HandlersOK'
    <2>1. [pc |-> "looking", op |-> "enforce"] \in HandlerState
        BY DEF HandlerState
    <2>2. RowsOK'
        BY <1>23 DEF Enforce, IssueBecomes, TypeOK, RowsOK
    <2> QED BY <1>1, <1>23, <2>1, <2>2 DEF Enforce, Goto, CountsOK, HandlersOK
<1>24. ASSUME NEW h \in Handlers, NEW inspected \in BOOLEAN, Suspend(h, inspected)
       PROVE  RowsOK' /\ CountsOK' /\ HandlersOK'
    <2>1. [pc |-> "ordering", op |-> "suspend", inspected |-> inspected] \in HandlerState
        BY DEF HandlerState
    <2> QED BY <1>24, <2>1, BeginTyped DEF Suspend
(* A handler that issues an order goes on in a state of one that does.     *)
<1>25. ASSUME NEW h \in Handlers, LookForOrder(h) \/ Order(h) \/ Fail(h)
       PROVE  /\ handler[h] \in [pc : {"looking", "ordering"}, op : {"enforce"}]
                       \cup [pc : {"ordering", "failing", "announcing"}, op : {"suspend"},
                             inspected : BOOLEAN]
              /\ handler[h].pc = "looking" => handler[h].op = "enforce"
              /\ handler[h].pc = "failing" => handler[h].op = "suspend"
    <2>1. handler[h].pc \in {"looking", "ordering", "failing"}
        BY <1>25 DEF LookForOrder, Order, Fail, At
    <2> QED BY <1>1, <2>1 DEF HandlerState, Verification, Idle
<1>26. ASSUME NEW h \in Handlers, LookForOrder(h)
       PROVE  RowsOK' /\ CountsOK' /\ HandlersOK'
    <2>1. [handler[h] EXCEPT !.pc = "ordering"] \in HandlerState
        <3>1. handler[h] \in [pc : {"looking", "ordering"}, op : {"enforce"}]
            BY <1>25, <1>26 DEF LookForOrder, At
        <3>2. [handler[h] EXCEPT !.pc = "ordering"]
                  \in [pc : {"looking", "ordering"}, op : {"enforce"}]
            BY <3>1
        <3> QED BY <3>2 DEF HandlerState
    <2> QED BY <1>4, <1>26, <2>1, GoOnTyped, RowsKept DEF LookForOrder
<1>27. ASSUME NEW h \in Handlers, Order(h)
       PROVE  RowsOK' /\ CountsOK' /\ HandlersOK'
    <2> DEFINE me == handler[h]
               next == CASE me.op = "enforce" -> Idle
                         [] me.op = "suspend" /\ me.inspected -> [me EXCEPT !.pc = "failing"]
                         [] OTHER -> [me EXCEPT !.pc = "announcing"]
    <2>1. next \in HandlerState
        <3>1. CASE me.op = "enforce"
            <4>1. next = Idle
                BY <3>1
            <4> QED BY <1>4, <4>1
        <3>2. CASE me.op # "enforce"
            <4>1. me \in [pc : {"ordering", "failing", "announcing"}, op : {"suspend"},
                          inspected : BOOLEAN]
                BY <1>25, <1>27, <3>2
            <4>2. /\ [me EXCEPT !.pc = "failing"]
                         \in [pc : {"ordering", "failing", "announcing"}, op : {"suspend"},
                              inspected : BOOLEAN]
                  /\ [me EXCEPT !.pc = "announcing"]
                         \in [pc : {"ordering", "failing", "announcing"}, op : {"suspend"},
                              inspected : BOOLEAN]
                BY <4>1
            <4>3. me.inspected \in BOOLEAN
                BY <4>1
            <4>4. next \in {[me EXCEPT !.pc = "failing"], [me EXCEPT !.pc = "announcing"]}
                BY <3>2, <4>3
            <4> QED BY <4>2, <4>4 DEF HandlerState
        <3> QED BY <3>1, <3>2
    <2>2. RowsOK'
        BY <1>27 DEF Order, OrdersBecome, TypeOK, RowsOK
    <2>3. GoOn(h, next)
        BY <1>27 DEF Order
    <2> HIDE DEF next
    <2> QED BY <2>1, <2>2, <2>3, GoOnTyped
<1>28. ASSUME NEW h \in Handlers, Fail(h)
       PROVE  RowsOK' /\ CountsOK' /\ HandlersOK'
    <2>1. handler[h] \in [pc : {"ordering", "failing", "announcing"}, op : {"suspend"},
                          inspected : BOOLEAN]
        BY <1>25, <1>28 DEF Fail, At
    <2>2. [handler[h] EXCEPT !.pc = "announcing"]
              \in [pc : {"ordering", "failing", "announcing"}, op : {"suspend"},
                   inspected : BOOLEAN]
        BY <2>1
    <2>3. [handler[h] EXCEPT !.pc = "announcing"] \in HandlerState
        BY <2>2 DEF HandlerState
    <2>4. RowsOK'
        BY <1>28 DEF Fail, TypeOK, RowsOK
    <2> QED BY <1>28, <2>3, <2>4, GoOnTyped DEF Fail
<1>29. ASSUME NEW h \in Handlers, Announce(h)
       PROVE  RowsOK' /\ CountsOK' /\ HandlersOK'
    <2>1. RowsOK'
        BY <1>29 DEF Announce, IssueBecomes, TypeOK, RowsOK
    <2> QED BY <1>6, <1>29, <2>1 DEF Announce
<1>30. ASSUME NEW h \in Handlers, NEW v \in Surveys,
              \/ \E waive \in BOOLEAN : Certify(h, v, waive)
              \/ \E variance \in BOOLEAN, sent \in Sent : Revise(h, v, variance, sent)
              \/ Flag(h, v) \/ Document(h, v)
       PROVE  RowsOK' /\ CountsOK' /\ HandlersOK'
    <2>1. survey[v] \in SurveyRow
        BY <1>3, <1>30 DEF Certify, Revise, Flag, Document
    <2>2. ASSUME NEW waive \in BOOLEAN, Certify(h, v, waive)
          PROVE  RowsOK' /\ CountsOK' /\ HandlersOK'
        <3>1. [pc |-> "filing", op |-> "certify", on |-> v, waive |-> waive,
               row |-> [survey[v] EXCEPT !.status = "VERIFIED"]] \in HandlerState
            BY <2>1, RowsAreTyped DEF HandlerState
        <3> QED BY <2>2, <3>1, BeginTyped DEF Certify
    <2>3. ASSUME NEW op \in {"flag", "document", "edit"}, NEW row \in SurveyRow,
                 Begin(h, [pc |-> "filing", op |-> op, on |-> v, row |-> row])
          PROVE  RowsOK' /\ CountsOK' /\ HandlersOK'
        <3>1. [pc |-> "filing", op |-> op, on |-> v, row |-> row] \in HandlerState
            BY DEF HandlerState
        <3> QED BY <2>3, <3>1, BeginTyped
    <2>4. CASE \E variance \in BOOLEAN, sent \in Sent : Revise(h, v, variance, sent)
        BY <2>3, <2>4, RowsAreTyped DEF Revise
    <2>5. CASE Flag(h, v)
        BY <2>1, <2>3, <2>5, RowsAreTyped DEF Flag
    <2>6. CASE Document(h, v)
        BY <2>1, <2>3, <2>6 DEF Document
    <2> QED BY <1>30, <2>2, <2>4, <2>5, <2>6
<1>31. ASSUME NEW h \in Handlers, File(h)
       PROVE  RowsOK' /\ CountsOK' /\ HandlersOK'
    <2>1. handler[h].on \in Surveys /\ handler[h].row \in SurveyRow
        BY <1>31, StateOf DEF File, At
    <2> QED BY <1>6, <1>31, <2>1, FiledTyped DEF File
<1>32. ASSUME NEW h \in Handlers, Kill(h)
       PROVE  RowsOK' /\ CountsOK' /\ HandlersOK'
    <2>1. RowsOK'
        BY <1>32, RowsKept DEF Kill
    <2>2. handler' = [handler EXCEPT ![h] = Idle]
        BY <1>32 DEF Kill, Goto
    <2>3. handler' \in [Handlers -> HandlerState]
        BY <1>1, <1>4, <2>2
    <2>4. CountsOK'
        BY <1>1, <1>32 DEF Kill, CountsOK
    <2> QED BY <2>1, <2>3, <2>4 DEF HandlersOK
<1>33. ASSUME NEW i \in Issues, ReportIssue(i) \/ EscalateIssue(i) \/ ResolveIssue(i)
       PROVE  RowsOK' /\ CountsOK' /\ HandlersOK'
    <2>1. RowsOK'
        BY <1>33 DEF ReportIssue, EscalateIssue, ResolveIssue, IssueBecomes, TypeOK, RowsOK
    <2> QED BY <1>33, <2>1, EventTyped DEF ReportIssue, EscalateIssue, ResolveIssue
<1>34. CASE LiftOrder
    <2>1. RowsOK'
        BY <1>34 DEF LiftOrder, OrdersBecome, TypeOK, RowsOK
    <2> QED BY <1>34, <2>1, EventTyped DEF LiftOrder
<1>35. ASSUME NEW failed \in BOOLEAN, ConcludeInspection(failed)
       PROVE  RowsOK' /\ CountsOK' /\ HandlersOK'
    <2>1. RowsOK'
        BY <1>35 DEF ConcludeInspection, TypeOK, RowsOK
    <2> QED BY <1>35, <2>1, EventTyped DEF ConcludeInspection
<1>36. ASSUME NEW v \in Surveys, NEW variance \in BOOLEAN, NEW sent \in Sent,
              Record(v, variance, sent)
       PROVE  RowsOK' /\ CountsOK' /\ HandlersOK'
    <2>1. Recorded(variance, sent) \in {Absent, Deleted} \cup SurveyRow
        BY RowsAreTyped
    <2> QED BY <1>36, <2>1, FiledTyped, EventTyped DEF Record
<1>37. ASSUME NEW v \in Surveys, Remove(v) PROVE RowsOK' /\ CountsOK' /\ HandlersOK'
    BY <1>37, FiledTyped, EventTyped DEF Remove
<1>38. ASSUME NEW h \in Handlers, Stumble(h)
       PROVE  RowsOK' /\ CountsOK' /\ HandlersOK'
    BY <1>6, <1>38, RowsKept DEF Stumble
<1> QED BY <1>8, <1>9, <1>10, <1>11, <1>12, <1>13, <1>14, <1>15, <1>16, <1>17, <1>18,
           <1>19, <1>20, <1>21, <1>22, <1>23, <1>24, <1>26, <1>27, <1>28, <1>29, <1>30,
           <1>31, <1>32, <1>33, <1>34, <1>35, <1>36, <1>37, <1>38 DEF Step

LEMMA FaultTypes == ASSUME TypeOK, Fault PROVE RowsOK' /\ CountsOK' /\ HandlersOK'
<1>1. PICK h \in Handlers : Overlook(h) \/ Raise(h)
    BY DEF Fault
<1>2. CASE Raise(h)
    <2>1. Idle \in HandlerState
        BY DEF HandlerState
    <2> QED BY <1>2, <2>1, GoOnTyped, RowsKept DEF Raise
<1>3. CASE Overlook(h)
    <2>1. handler[h] \in Verification
        BY <1>3, StateOf DEF Overlook, At, GateReads
    <2>2. [handler[h] EXCEPT !.pc = "issues"] \in HandlerState
        BY <2>1 DEF HandlerState, Verification, GateReads
    <2>3. Decided(handler[h], FALSE) \in HandlerState
        BY <2>1, DecidedTyped DEF HandlerState
    <2>4. PICK state \in HandlerState : GoOn(h, state)
        BY <1>3, <2>2, <2>3 DEF Overlook
    <2> QED BY <1>3, <2>4, GoOnTyped, RowsKept DEF Overlook
<1> QED BY <1>1, <1>2, <1>3

BlockerSet == [milestones : SUBSET Milestones, issues : SUBSET Issues,
               order : BOOLEAN, failure : BOOLEAN]

LEMMA NowTyped == ASSUME RowsOK PROVE Now \in BlockerSet
BY DEF Now, BlockerSet, Uncertified, OpenIssues, RowsOK

LEMMA HistoryTypes ==
    ASSUME TypeOK, RowsOK', HandlersOK', History
    PROVE  /\ crossed' \in BOOLEAN /\ met' \in BOOLEAN
           /\ standing' \in [Handlers -> BlockerSet]
           /\ missed' \in [Handlers -> SUBSET {"inspections", "orders"}]
           /\ byHand' \subseteq Milestones \cup Surveys
           /\ flagged' \subseteq Surveys
<1>1. crossed' \in BOOLEAN /\ met' \in BOOLEAN
    BY DEF History, TypeOK
<1>2. standing' \in [Handlers -> BlockerSet]
    <2>1. Now' \in BlockerSet
        <3>1. (Now \in BlockerSet)'
            BY NowTyped, PTL
        <3> QED BY <3>1 DEF BlockerSet
    <2>2. Nothing \in BlockerSet
        BY DEF Nothing, BlockerSet
    <2>3. \A a, b \in BlockerSet : Still(a, b) \in BlockerSet
        BY DEF Still, BlockerSet
    <2>4. standing \in [Handlers -> BlockerSet]
        BY DEF TypeOK, BlockerSet
    <2> HIDE DEF Now
    <2> QED BY <2>1, <2>2, <2>3, <2>4 DEF History
<1>3. byHand' \subseteq Milestones \cup Surveys
    <2>1. \A h \in Handlers : ~Free(h) /\ handler[h].op = "edit"
              => handler[h].on \in Milestones \cup Surveys
        BY DEF TypeOK, HandlerState, Verification, Idle, Free
    <2>2. \A h \in Handlers : At(h, "filing") => handler[h].on \in Surveys
        BY StateOf DEF At
    <2>3. byHand \subseteq Milestones \cup Surveys
        BY DEF TypeOK
    <2> QED BY <2>1, <2>2, <2>3 DEF History
<1>4. flagged' \subseteq Surveys
    <2>1. \A h \in Handlers : At(h, "filing") => handler[h].on \in Surveys
        BY StateOf DEF At
    <2>2. flagged \subseteq Surveys
        BY DEF TypeOK
    <2> QED BY <2>1, <2>2 DEF History
<1>5. missed' \in [Handlers -> SUBSET {"inspections", "orders"}]
    <2>1. missed \in [Handlers -> SUBSET {"inspections", "orders"}]
        BY DEF TypeOK
    <2> QED BY <2>1 DEF History
<1> QED BY <1>1, <1>2, <1>3, <1>4, <1>5

LEMMA NextTypes == ASSUME TypeOK, Next PROVE TypeOK'
<1>1. RowsOK' /\ CountsOK' /\ HandlersOK'
    BY StepTypes, FaultTypes DEF Next
<1>3. faults' \in Nat
    BY DEF Next, Fault, TypeOK
<1>2. /\ crossed' \in BOOLEAN /\ met' \in BOOLEAN
      /\ standing' \in [Handlers -> BlockerSet]
      /\ missed' \in [Handlers -> SUBSET {"inspections", "orders"}]
      /\ byHand' \subseteq Milestones \cup Surveys
      /\ flagged' \subseteq Surveys
    BY <1>1, HistoryTypes DEF Next
<1> QED BY <1>1, <1>2, <1>3 DEF TypeOK, RowsOK, CountsOK, HandlersOK, BlockerSet

(* Every variable has its type, whatever handlers and rows there are.      *)
THEOREM TypesHold == Spec => []TypeOK
<1>1. TypeOK /\ UNCHANGED vars => TypeOK'
    BY DEF TypeOK, vars, rows, history
<1>2. Init => TypeOK
    BY InitTypes
<1>3. TypeOK /\ [Next]_vars => TypeOK'
    BY <1>1, NextTypes
<1> QED BY <1>2, <1>3, PTL DEF Spec

----------------------------------------------------------------------------
(***************************************************************************)
(* Standing blockers.  A gate that was read without finding a blocker      *)
(* takes it out of what stands since the fetch, and what stands only       *)
(* shrinks: so at the last gate nothing is left that was looked for.       *)
(***************************************************************************)
Deciding == {"sealing", "unblocking"}

Smaller(a, b) ==
    /\ a.milestones \subseteq b.milestones /\ a.issues \subseteq b.issues
    /\ a.order => b.order
    /\ a.failure => b.failure

(* What a handler has read of the gates, in terms of what stands and of the*)
(* queries that it lost.                                                   *)
ReadSoFar(me, there, lost) ==
    /\ me.pc \in GateReads =>
          me.blocked \/ there.milestones \cap (me.row.plan.after \ me.left) = {}
    /\ me.pc \in GateReads \ {"predecessors"} => me.left = {}
    /\ me.pc \in {"issues", "orders"} =>
          ("inspections" \in me.row.plan.needs /\ me.row.plan.linked = "none"
              => me.failed \/ ~there.failure \/ "inspections" \in lost)
    /\ me.pc = "orders" =>
          ("defects" \in me.row.plan.needs => me.blocked \/ there.issues = {})

Passed(me, there, lost) ==
    me.pc = "unblocking" \/ (me.pc = "sealing" /\ ~me.waive) =>
        /\ there.milestones \cap me.row.plan.after = {}
        /\ "defects" \in me.row.plan.needs =>
              there.issues = {} /\ (~there.order \/ "orders" \in lost)
        /\ me.pc = "sealing" /\ "inspections" \in me.row.plan.needs
              /\ me.row.plan.linked = "none" => ~there.failure \/ "inspections" \in lost

GateInv == \A h \in Handlers : /\ ReadSoFar(handler[h], standing[h], missed[h])
                               /\ Passed(handler[h], standing[h], missed[h])

LEMMA StandingShrinks ==
    ASSUME TypeOK, TypeOK', Next, NEW h \in Handlers, Verifying(handler'[h])
    PROVE  /\ Smaller(standing'[h], Now')
           /\ ~Free(h) => Smaller(standing'[h], standing[h])
<1>1. standing'[h] = IF Free(h) THEN Now' ELSE Still(standing[h], Now')
    BY DEF Next, History
<1>2. \A a, b \in BlockerSet : Smaller(Still(a, b), a) /\ Smaller(Still(a, b), b)
    BY DEF Smaller, Still, BlockerSet
<1>3. \A b : Smaller(b, b)
    BY DEF Smaller
<1>4. standing[h] \in BlockerSet
    BY DEF TypeOK, BlockerSet
<1>5. (RowsOK => Now \in BlockerSet)'
    BY NowTyped, PTL
<1>6. RowsOK'
    BY DEF TypeOK, RowsOK
<1> QED BY <1>1, <1>2, <1>3, <1>4, <1>5, <1>6

LEMMA SmallerStays ==
    ASSUME NEW me, NEW a, NEW b, Smaller(a, b), NEW c, NEW d,
           me.pc \in {"issues", "orders"} \cup Deciding => d \subseteq c,
           ReadSoFar(me, b, d), Passed(me, b, d)
    PROVE  ReadSoFar(me, a, c) /\ Passed(me, a, c)
BY DEF Smaller, ReadSoFar, Passed, Deciding

(* Only its own steps change what a handler is doing.                      *)
Elsewhere(h) ==
    handler'[h].pc \notin GateReads \cup Deciding

LEMMA Moves ==
    ASSUME TypeOK, Next, NEW h \in Handlers, handler'[h] # handler[h]
    PROVE  \/ \E m \in Milestones, waive \in BOOLEAN : Verify(h, m, waive)
           \/ ReadPredecessor(h) \/ ReadInspections(h) \/ ReadIssues(h) \/ ReadOrders(h)
           \/ Take(h)
           \/ Overlook(h) /\ faults' # faults
           \/ Elsewhere(h)
<1> USE DEF Elsewhere, GateReads, Deciding
<1>1. handler \in [Handlers -> HandlerState]
    BY DEF TypeOK
<1>2. ASSUME NEW g \in Handlers, NEW state, handler' = [handler EXCEPT ![g] = state]
      PROVE  h = g /\ handler'[h] = state
    BY <1>1, <1>2
<1>3. ASSUME NEW g \in Handlers, NEW state, handler' = [handler EXCEPT ![g] = state],
             state.pc \notin GateReads \cup Deciding
      PROVE  Elsewhere(h)
    BY <1>2, <1>3
<1>4. Idle.pc = "idle"
    BY DEF Idle
<1>5. ASSUME NEW g \in Handlers,
             \/ \E m \in Milestones, p \in Plans, s \in Settable : Edit(g, m, s, p)
             \/ \E m \in Milestones, what \in Amendments : Amend(g, m, what)
             \/ \E i \in Issues : Enforce(g, i)
             \/ \E inspected \in BOOLEAN : Suspend(g, inspected)
      PROVE  Elsewhere(h)
    BY <1>3, <1>5 DEF Edit, Amend, Enforce, Suspend, Begin, Goto
<1>6. ASSUME NEW g \in Handlers, NEW v \in Surveys,
             \/ \E waive \in BOOLEAN : Certify(g, v, waive)
             \/ \E variance \in BOOLEAN, sent \in Sent : Revise(g, v, variance, sent)
             \/ Flag(g, v) \/ Document(g, v)
      PROVE  Elsewhere(h)
    BY <1>3, <1>6 DEF Certify, Revise, Flag, Document, Begin, Goto
<1>7. ASSUME NEW g \in Handlers,
             Save(g) \/ Verified(g) \/ Announce(g) \/ File(g) \/ Kill(g)
      PROVE  Elsewhere(h)
    BY <1>3, <1>4, <1>7 DEF Save, Verified, Announce, File, Kill, GoOn, Goto
<1>8. ASSUME NEW g \in Handlers, Seal(g) \/ ListBlocked(g) \/ Unblock(g) PROVE Elsewhere(h)
    <2>1. handler[g] \in Verification
        BY <1>8, StateOf DEF Seal, ListBlocked, Unblock, At
    <2>2. CASE Seal(g)
        BY <1>3, <2>1, <2>2 DEF Seal, GoOn, Goto, Verification
    <2>3. CASE ListBlocked(g)
        BY <1>3, <2>1, <2>3 DEF ListBlocked, GoOn, Goto, Verification
    <2>4. CASE Unblock(g)
        BY <1>3, <2>1, <2>4 DEF Unblock, GoOn, Goto, Verification
    <2> QED BY <1>8, <2>2, <2>3, <2>4
<1>9. ASSUME NEW g \in Handlers, LookForOrder(g) \/ Order(g) \/ Fail(g) PROVE Elsewhere(h)
    <2>1. handler[g].pc \in {"looking", "ordering", "failing"}
        BY <1>9 DEF LookForOrder, Order, Fail, At
    <2>2. handler[g] \in [pc : {"looking", "ordering"}, op : {"enforce"}]
              \cup [pc : {"ordering", "failing", "announcing"}, op : {"suspend"},
                    inspected : BOOLEAN]
        BY <1>1, <2>1 DEF HandlerState, Verification, Idle
    <2>3. /\ [handler[g] EXCEPT !.pc = "ordering"].pc = "ordering"
          /\ [handler[g] EXCEPT !.pc = "failing"].pc = "failing"
          /\ [handler[g] EXCEPT !.pc = "announcing"].pc = "announcing"
        BY <2>2
    <2>4. CASE LookForOrder(g)
        BY <1>3, <1>4, <2>3, <2>4 DEF LookForOrder, GoOn, Goto
    <2>5. CASE Order(g)
        <3>1. handler[g].op \in {"enforce", "suspend"}
            BY <2>2
        <3>2. handler[g].op = "suspend" => handler[g].inspected \in BOOLEAN
            BY <2>2
        <3>3. PICK state \in {Idle, [handler[g] EXCEPT !.pc = "failing"],
                              [handler[g] EXCEPT !.pc = "announcing"]} :
                  handler' = [handler EXCEPT ![g] = state]
            BY <2>5, <3>1, <3>2 DEF Order, GoOn, Goto
        <3> QED BY <1>3, <1>4, <2>3, <3>3
    <2>6. CASE Fail(g)
        BY <1>3, <2>3, <2>6 DEF Fail, GoOn, Goto
    <2> QED BY <1>9, <2>4, <2>5, <2>6
<1>10. ASSUME NEW g \in Handlers,
              \/ \E m \in Milestones, waive \in BOOLEAN : Verify(g, m, waive)
              \/ ReadPredecessor(g) \/ ReadInspections(g) \/ ReadIssues(g)
              \/ ReadOrders(g) \/ Take(g)
       PROVE  h = g
    BY <1>2, <1>10 DEF Verify, ReadPredecessor, ReadInspections, ReadIssues, ReadOrders,
                       Take, Begin, GoOn, Goto
<1>11. ASSUME NEW g \in Handlers,
              \/ \E m \in Milestones, p \in Plans, s \in Settable : Create(g, m, p, s)
              \/ \E m \in Milestones : Delete(g, m)
       PROVE  FALSE
    BY <1>11 DEF Create, Delete
<1>12. CASE \/ \E i \in Issues : ReportIssue(i) \/ EscalateIssue(i) \/ ResolveIssue(i)
            \/ LiftOrder
            \/ \E failed \in BOOLEAN : ConcludeInspection(failed)
            \/ \E v \in Surveys :
                  \/ \E variance \in BOOLEAN, sent \in Sent : Record(v, variance, sent)
                  \/ Remove(v)
    BY <1>12 DEF ReportIssue, EscalateIssue, ResolveIssue, LiftOrder, ConcludeInspection,
                 Record, Remove, Event
<1>13. ASSUME NEW g \in Handlers, Stumble(g) \/ Raise(g) PROVE Elsewhere(h)
    BY <1>3, <1>4, <1>13 DEF Stumble, Raise, GoOn, Goto
<1>14. ASSUME NEW g \in Handlers, Overlook(g) PROVE h = g
    BY <1>2, <1>14 DEF Overlook, GoOn, Goto
<1>15. CASE Step
    BY <1>5, <1>6, <1>7, <1>8, <1>9, <1>10, <1>11, <1>12, <1>13, <1>15 DEF Step
<1>16. CASE Fault
    <2>1. faults' # faults
        BY <1>16 DEF Fault, TypeOK
    <2> QED BY <1>13, <1>14, <1>16, <2>1 DEF Fault
<1> QED BY <1>15, <1>16 DEF Next

LEMMA GateInit == ASSUME Init PROVE GateInv
BY DEF Init, GateInv, ReadSoFar, Passed, Idle, GateReads

LEMMA GateNext == ASSUME TypeOK, TypeOK', Next, GateInv PROVE GateInv'
<1> SUFFICES ASSUME NEW h \in Handlers
             PROVE  /\ ReadSoFar(handler'[h], standing'[h], missed'[h])
                    /\ Passed(handler'[h], standing'[h], missed'[h])
    BY DEF GateInv
<1> DEFINE me == handler[h]   there == standing[h]
           now == handler'[h] left == standing'[h]
           before == missed[h] lost == missed'[h]
<1> SUFFICES ReadSoFar(now, left, lost) /\ Passed(now, left, lost)
    OBVIOUS
<1>1. handler \in [Handlers -> HandlerState]
    BY DEF TypeOK
<1>2. ReadSoFar(me, there, before) /\ Passed(me, there, before)
    BY DEF GateInv
<1>3. now.pc \notin GateReads \cup Deciding
          => ReadSoFar(now, left, lost) /\ Passed(now, left, lost)
    BY DEF ReadSoFar, Passed, GateReads, Deciding
<1>4. Verifying(now) => /\ Smaller(left, Now')
                        /\ ~Free(h) => Smaller(left, there)
    BY StandingShrinks
<1>5. now.pc \in GateReads \cup Deciding => now \in Verification /\ Verifying(now)
    <2>1. now.pc \in GateReads \cup Deciding => now \in Verification
        <3>1. now \in HandlerState
            BY DEF TypeOK
        <3> QED BY <3>1 DEF HandlerState, Idle, GateReads, Deciding
    <2> QED BY <2>1 DEF Verification, Verifying, GateReads
<1>16. now.pc \in {"issues", "orders"} \cup Deciding => before \subseteq lost
    BY DEF Next, History, Deciding
<1>17. ASSUME Overlook(h), faults' # faults, handler'[h] # me
       PROVE  /\ me.pc = "inspections" /\ now.pc = "issues" => "inspections" \in lost
              /\ me.pc = "orders" /\ now.pc \in Deciding => "orders" \in lost
    BY <1>17 DEF Next, History, Deciding, At
<1> HIDE DEF now, left, lost
<1>6. CASE now = me
    <2>1. CASE now.pc \in GateReads \cup Deciding
        <3>1. ~Free(h)
            BY <1>6, <2>1 DEF Free, me, GateReads, Deciding
        <3> QED BY <1>2, <1>4, <1>5, <1>6, <1>16, <2>1, <3>1, SmallerStays
    <2> QED BY <1>3, <2>1
(* A row that is about to be evaluated: nothing was read yet.              *)
<1>7. ASSUME NEW who, NEW m, NEW row,
             DOMAIN who = {"pc", "op", "on", "row", "left", "blocked", "failed", "waive",
                           "queue"},
             who = [x \in DOMAIN who |-> who[x]],
             now = Evaluating(who, m, row)
      PROVE  ReadSoFar(now, left, lost) /\ Passed(now, left, lost)
    <2>1. /\ now.pc = IF row.plan.after = {} THEN "inspections" ELSE "predecessors"
          /\ now.row = row /\ now.left = row.plan.after
        BY <1>7 DEF Evaluating
    <2> QED BY <2>1 DEF ReadSoFar, Passed, GateReads
<1>8. ASSUME NEW m \in Milestones, NEW waive \in BOOLEAN, Verify(h, m, waive)
      PROVE  ReadSoFar(now, left, lost) /\ Passed(now, left, lost)
    <2>1. now = Evaluating([pc |-> "", op |-> "verify", on |-> m, row |-> Absent,
                            left |-> {}, blocked |-> FALSE, failed |-> FALSE,
                            waive |-> waive, queue |-> {}],
                           m, milestone[m])
        BY <1>1, <1>8 DEF Verify, Begin, Goto, now
    <2> QED BY <1>7, <2>1
<1>9. CASE Take(h)
    <2>1. me \in Verification
        BY <1>9, StateOf DEF Take, At
    <2>2. PICK s \in me.queue :
              now = Evaluating([me EXCEPT !.queue = @ \ {s}], s.id, s.row)
        BY <1>1, <1>9 DEF Take, GoOn, Goto, now
    <2>3. [me EXCEPT !.queue = @ \ {s}] \in Verification
        BY <2>1 DEF Verification
    <2> HIDE DEF me
    <2>4. \A w \in Verification :
              /\ DOMAIN w = {"pc", "op", "on", "row", "left", "blocked", "failed", "waive",
                             "queue"}
              /\ w = [x \in DOMAIN w |-> w[x]]
        BY DEF Verification
    <2> QED BY <1>7, <2>2, <2>3, <2>4
<1>10. CASE ReadPredecessor(h)
    <2>1. me \in Verification /\ me.pc = "predecessors"
        BY <1>10, StateOf DEF ReadPredecessor, At, GateReads
    <2>2. PICK p \in me.left :
              now = [me EXCEPT !.left = @ \ {p},
                               !.blocked = @ \/ Uncertified(p),
                               !.pc = IF me.left = {p} THEN "inspections" ELSE @]
        BY <1>1, <1>10 DEF ReadPredecessor, GoOn, Goto, now
    <2>3. Smaller(left, Now') /\ Smaller(left, there)
        <3>1. now.pc \in GateReads
            BY <2>1, <2>2 DEF Verification, GateReads
        <3>2. ~Free(h)
            BY <2>1 DEF Free
        <3> QED BY <1>4, <1>5, <3>1, <3>2
    <2>4. p \in left.milestones => Uncertified(p)
        <3>1. Now'.milestones = Now.milestones
            BY <1>10 DEF ReadPredecessor, rows, Now, Uncertified, Exists
        <3> QED BY <2>3, <3>1 DEF Smaller, Now
    <2>5. /\ now.pc = IF me.left = {p} THEN "inspections" ELSE "predecessors"
          /\ now.left = me.left \ {p} /\ now.row = me.row
          /\ now.blocked = (me.blocked \/ Uncertified(p))
        BY <2>1, <2>2 DEF Verification
    <2>6. me.blocked \/ there.milestones \cap (me.row.plan.after \ me.left) = {}
        BY <1>2, <2>1 DEF ReadSoFar, GateReads
    <2>7. now.blocked \/ left.milestones \cap (now.row.plan.after \ now.left) = {}
        BY <2>3, <2>4, <2>5, <2>6 DEF Smaller
    <2> QED BY <2>5, <2>7 DEF ReadSoFar, Passed, GateReads
<1>11. CASE ReadInspections(h)
    <2>1. me \in Verification /\ me.pc = "inspections"
        BY <1>11, StateOf DEF ReadInspections, At, GateReads
    <2> DEFINE failed == /\ "inspections" \in me.row.plan.needs
                         /\ \/ me.row.plan.linked = "failed"
                            \/ me.row.plan.linked = "none" /\ failing
    <2>2. now = [me EXCEPT !.pc = "issues", !.failed = failed]
        BY <1>1, <1>11 DEF ReadInspections, GoOn, Goto, now
    <2>3. /\ now.pc = "issues" /\ now.left = me.left /\ now.row = me.row
          /\ now.blocked = me.blocked /\ now.failed = failed
        BY <2>1, <2>2 DEF Verification
    <2>4. Smaller(left, Now') /\ Smaller(left, there)
        BY <1>4, <1>5, <2>1, <2>3 DEF GateReads, Free
    <2>5. left.failure => failing
        <3>1. Now'.failure = failing
            BY <1>11 DEF ReadInspections, rows, Now
        <3> QED BY <2>4, <3>1 DEF Smaller
    <2>6. /\ me.left = {}
          /\ me.blocked \/ there.milestones \cap (me.row.plan.after \ me.left) = {}
        BY <1>2, <2>1 DEF ReadSoFar, GateReads
    <2>7. "inspections" \in now.row.plan.needs /\ now.row.plan.linked = "none"
              => now.failed \/ ~left.failure
        BY <2>3, <2>5
    <2> HIDE DEF failed
    <2> QED BY <2>3, <2>4, <2>6, <2>7 DEF ReadSoFar, Passed, GateReads, Smaller
<1>12. CASE ReadIssues(h)
    <2>1. me \in Verification /\ me.pc = "issues"
        BY <1>12, StateOf DEF ReadIssues, At, GateReads
    <2>2. now = [me EXCEPT !.pc = "orders",
                           !.blocked = @ \/ ("defects" \in me.row.plan.needs
                                             /\ OpenIssues # {})]
        BY <1>1, <1>12 DEF ReadIssues, GoOn, Goto, now
    <2>3. /\ now.pc = "orders" /\ now.left = me.left /\ now.row = me.row
          /\ now.blocked = (me.blocked \/ ("defects" \in me.row.plan.needs
                                           /\ OpenIssues # {}))
          /\ now.failed = me.failed
        BY <2>1, <2>2 DEF Verification
    <2>4. Smaller(left, Now') /\ Smaller(left, there)
        BY <1>4, <1>5, <2>1, <2>3 DEF GateReads, Free
    <2>5. left.issues \subseteq OpenIssues
        <3>1. Now'.issues = OpenIssues
            BY <1>12 DEF ReadIssues, rows, Now, OpenIssues
        <3> QED BY <2>4, <3>1 DEF Smaller
    <2>6. /\ me.left = {}
          /\ me.blocked \/ there.milestones \cap (me.row.plan.after \ me.left) = {}
          /\ "inspections" \in me.row.plan.needs /\ me.row.plan.linked = "none"
                => me.failed \/ ~there.failure \/ "inspections" \in lost
        BY <1>2, <1>16, <2>1, <2>3 DEF ReadSoFar, GateReads
    <2>7. "defects" \in now.row.plan.needs => now.blocked \/ left.issues = {}
        BY <2>3, <2>5
    <2> QED BY <2>3, <2>4, <2>6, <2>7 DEF ReadSoFar, Passed, GateReads, Smaller
(* The last gate: the orders were looked at, or the query was lost.        *)
<1>18. ASSUME me \in Verification, me.pc = "orders", NEW stopped \in BOOLEAN,
              now = Decided(me, stopped), now # Idle,
              now.pc \in Deciding /\ ~stopped => ~left.order \/ "orders" \in lost
       PROVE  ReadSoFar(now, left, lost) /\ Passed(now, left, lost)
    <2>1. PICK label \in {"unblocking", "taking", "sealing"} :
              /\ now = [me EXCEPT !.pc = label]
              /\ label = "unblocking" => Clear(me, stopped)
              /\ label = "sealing" => me.waive \/ (Clear(me, stopped) /\ ~me.failed)
        BY <1>18, Decides
    <2>2. now.pc = label /\ now.row = me.row /\ now.waive = me.waive
        BY <1>18, <2>1 DEF Verification
    <2>3. CASE label = "taking"
        BY <1>3, <2>2, <2>3 DEF GateReads, Deciding
    <2>4. CASE label = "sealing" /\ me.waive
        BY <2>2, <2>4 DEF ReadSoFar, Passed, GateReads
    <2>5. CASE label = "unblocking" \/ (label = "sealing" /\ ~me.waive)
        <3>1. Smaller(left, Now') /\ Smaller(left, there)
            BY <1>4, <1>5, <1>18, <2>2, <2>5 DEF GateReads, Deciding, Free
        <3>2. Clear(me, stopped) /\ (label = "sealing" => ~me.failed)
            BY <2>1, <2>5
        <3>3. ~me.blocked /\ ("defects" \in me.row.plan.needs => ~stopped)
            BY <3>2 DEF Clear
        <3>4. /\ there.milestones \cap me.row.plan.after = {}
              /\ "defects" \in me.row.plan.needs => there.issues = {}
              /\ label = "sealing" /\ "inspections" \in me.row.plan.needs
                    /\ me.row.plan.linked = "none"
                    => ~there.failure \/ "inspections" \in before
            BY <1>2, <1>18, <3>2, <3>3 DEF ReadSoFar, GateReads
        <3>5. before \subseteq lost
            BY <1>16, <2>2, <2>5 DEF Deciding
        <3>6. "defects" \in me.row.plan.needs => ~left.order \/ "orders" \in lost
            BY <1>18, <2>2, <2>5, <3>3 DEF Deciding
        <3> QED BY <2>2, <2>5, <3>1, <3>4, <3>5, <3>6 DEF ReadSoFar, Passed, GateReads, Smaller
    <2> QED BY <2>1, <2>3, <2>4, <2>5
<1>13. CASE ReadOrders(h)
    <2>1. me \in Verification /\ me.pc = "orders"
        BY <1>13, StateOf DEF ReadOrders, At, GateReads
    <2>2. now = Decided(me, orders > 0)
        BY <1>1, <1>13 DEF ReadOrders, GoOn, Goto, now
    <2>3. CASE now = Idle
        BY <1>3, <2>3 DEF Idle, GateReads, Deciding
    <2>4. now.pc \in Deciding /\ ~(orders > 0) => ~left.order
        <3>1. SUFFICES ASSUME now.pc \in Deciding PROVE left.order => orders > 0
            OBVIOUS
        <3>2. Smaller(left, Now')
            BY <1>4, <1>5, <3>1
        <3>3. Now'.order = (orders > 0)
            BY <1>13 DEF ReadOrders, rows, Now
        <3> QED BY <3>2, <3>3 DEF Smaller
    <2> QED BY <1>18, <2>1, <2>2, <2>3, <2>4, (orders > 0) \in BOOLEAN
<1>19. CASE Overlook(h) /\ faults' # faults /\ handler'[h] # me
    <2>1. me \in Verification
        BY <1>19, Faulty
    <2>2. \/ me.pc = "inspections" /\ now = [me EXCEPT !.pc = "issues"]
          \/ me.pc = "orders" /\ now = Decided(me, FALSE)
        BY <1>1, <1>19 DEF Overlook, GoOn, Goto, now, At
    <2>3. CASE me.pc = "inspections" /\ now = [me EXCEPT !.pc = "issues"]
        <3>1. /\ now.pc = "issues" /\ now.left = me.left /\ now.row = me.row
              /\ now.blocked = me.blocked
            BY <2>1, <2>3 DEF Verification
        <3>2. Smaller(left, there)
            BY <1>4, <1>5, <2>3, <3>1 DEF GateReads, Free
        <3>3. /\ me.left = {}
              /\ me.blocked \/ there.milestones \cap (me.row.plan.after \ me.left) = {}
            BY <1>2, <2>3 DEF ReadSoFar, GateReads
        <3>4. "inspections" \in lost
            BY <1>17, <1>19, <2>3, <3>1
        <3> QED BY <3>1, <3>2, <3>3, <3>4 DEF ReadSoFar, Passed, GateReads, Smaller
    <2>4. CASE me.pc = "orders" /\ now = Decided(me, FALSE)
        <3>1. now.pc \in Deciding => "orders" \in lost
            BY <1>17, <1>19, <2>4
        <3>2. CASE now = Idle
            BY <1>3, <3>2 DEF Idle, GateReads, Deciding
        <3> QED BY <1>18, <2>1, <2>4, <3>1, <3>2
    <2> QED BY <2>2, <2>3, <2>4
<1>14. CASE Elsewhere(h)
    BY <1>3, <1>14 DEF Elsewhere, now
<1>15. now = me \/ (handler'[h] # handler[h])
    BY DEF now
<1> QED BY <1>6, <1>8, <1>9, <1>10, <1>11, <1>12, <1>13, <1>14, <1>15, <1>19, Moves

(* A blocker that stood all the time since the milestone was fetched keeps *)
(* it from being sealed, and a successor from being unblocked, unless the  *)
(* query that would have found it was lost: for any number of overlapping  *)
(* requests, reports, orders, failing calls and kills.                     *)
THEOREM BlockersHold == Spec => []StandingBlockersHold
<1>1. TypeOK /\ GateInv /\ UNCHANGED vars => GateInv'
    BY DEF GateInv, ReadSoFar, Passed, vars, history
<1>2. Init => TypeOK /\ GateInv
    BY InitTypes, GateInit
<1>3. TypeOK /\ TypeOK' /\ GateInv /\ [Next]_vars => GateInv'
    BY <1>1, GateNext
<1>4. GateInv => StandingBlockersHold
    BY DEF GateInv, Passed, StandingBlockersHold, At
<1> QED BY <1>2, <1>3, <1>4, TypesHold, PTL DEF Spec

----------------------------------------------------------------------------
(***************************************************************************)
(* Flagged surveys.  As long as nobody else held a copy of the survey, the *)
(* copy of whoever saves it knows of the flag.                             *)
(***************************************************************************)
Filing(h) == handler[h].pc = "filing"

Marked(row) == row = Deleted \/ (row # Absent /\ row.variance /\ row.status # "VERIFIED")

(* A copy that does no harm to a flag, or is excused.                      *)
Excused(me) == me.op = "edit" \/ (me.op = "certify" /\ me.waive)

Harmless(me) == Excused(me) \/ Marked(me.row)

FlagInv ==
    /\ Collision => crossed
    /\ \A h \in Handlers : Filing(h) /\ handler[h].op = "flag" => Marked(handler[h].row)
    /\ ~crossed => \A v \in flagged \ byHand :
          /\ Marked(survey[v])
          /\ \A h \in Handlers : Filing(h) /\ handler[h].on = v => Harmless(handler[h])

Surveying(h, v) ==
    \/ \E waive \in BOOLEAN : Certify(h, v, waive)
    \/ \E variance \in BOOLEAN, sent \in Sent : Revise(h, v, variance, sent)
    \/ Flag(h, v) \/ Document(h, v)

(* Nothing of a survey moves, unless a handler is killed.                  *)
Aloof ==
    /\ UNCHANGED survey
    /\ \A h \in Handlers : /\ Filing(h)' => handler'[h] = handler[h]
                           /\ Filing(h) => handler'[h] = handler[h] \/ kills' # kills

LEMMA SurveySteps ==
    ASSUME TypeOK, Next
    PROVE  \/ \E h \in Handlers : File(h)
           \/ \E h \in Handlers, v \in Surveys : Surveying(h, v)
           \/ /\ \E v \in Surveys :
                     \/ \E variance \in BOOLEAN, sent \in Sent : Record(v, variance, sent)
                     \/ Remove(v)
              /\ UNCHANGED <<handler, kills>>
           \/ Aloof
<1>1. handler \in [Handlers -> HandlerState] /\ kills \in Nat
    BY DEF TypeOK
<1>2. ASSUME NEW g \in Handlers, NEW state, handler' = [handler EXCEPT ![g] = state],
             state.pc # "filing", ~Filing(g) \/ kills' # kills, UNCHANGED survey
      PROVE  Aloof
    BY <1>1, <1>2 DEF Aloof, Filing
<1>3. Idle.pc = "idle"
    BY DEF Idle
<1>4. ASSUME NEW g \in Handlers,
             \/ \E m \in Milestones, p \in Plans, s \in Settable : Edit(g, m, s, p)
             \/ \E m \in Milestones, what \in Amendments : Amend(g, m, what)
             \/ \E i \in Issues : Enforce(g, i)
             \/ \E inspected \in BOOLEAN : Suspend(g, inspected)
      PROVE  Aloof
    <2> DEFINE Lands == /\ handler' = [handler EXCEPT ![g] = handler'[g]]
                        /\ handler'[g].pc # "filing"
    <2>1. Lands
        <3>1. \A m \in Milestones, p \in Plans, s \in Settable : Edit(g, m, s, p) => Lands
            BY <1>1 DEF Edit, Begin, Goto
        <3>2. \A m \in Milestones, what \in Amendments : Amend(g, m, what) => Lands
            BY <1>1 DEF Amend, Begin, Goto
        <3>3. \A i \in Issues : Enforce(g, i) => Lands
            BY <1>1 DEF Enforce, Goto
        <3>4. \A inspected \in BOOLEAN : Suspend(g, inspected) => Lands
            BY <1>1 DEF Suspend, Begin, Goto
        <3> HIDE DEF Lands
        <3> QED BY <1>4, <3>1, <3>2, <3>3, <3>4
    <2>2. ~Filing(g) /\ UNCHANGED survey
        BY <1>4 DEF Edit, Amend, Enforce, Suspend, Begin, Free, Filing, rows, IssueBecomes
    <2> QED BY <1>2, <2>1, <2>2
<1>5. ASSUME NEW g \in Handlers, Save(g) \/ Verified(g) \/ Announce(g) PROVE Aloof
    BY <1>2, <1>3, <1>5 DEF Save, Verified, Announce, GoOn, Goto, At, Filing, Saved, rows,
                            IssueBecomes
<1>6. ASSUME NEW g \in Handlers, Kill(g) PROVE Aloof
    <2>1. /\ handler' = [handler EXCEPT ![g] = Idle]
          /\ kills' = kills + 1 /\ UNCHANGED survey
        BY <1>6 DEF Kill, Goto, rows
    <2>2. kills' # kills
        BY <1>1, <2>1
    <2> QED BY <1>2, <1>3, <2>1, <2>2
(* A verification goes on in one, or ends.                                 *)
<1>7. ASSUME NEW g \in Handlers,
             \/ ReadPredecessor(g) \/ ReadInspections(g) \/ ReadIssues(g) \/ ReadOrders(g)
             \/ Take(g) \/ Seal(g) \/ ListBlocked(g) \/ Unblock(g)
      PROVE  Aloof
    <2>1. handler[g].pc \in GateReads \cup {"sealing", "listing", "taking", "unblocking"}
        BY <1>7 DEF ReadPredecessor, ReadInspections, ReadIssues, ReadOrders, Take, Seal,
                    ListBlocked, Unblock, At, GateReads
    <2>2. handler[g] \in Verification
        BY <2>1, StateOf
    <2>3. ~Filing(g) /\ UNCHANGED survey
        BY <1>7, <2>1 DEF ReadPredecessor, ReadInspections, ReadIssues, ReadOrders, Take, Seal,
                          ListBlocked, Unblock, Filing, GateReads, rows, Saved
    <2>4. \A pc : [handler[g] EXCEPT !.pc = pc].pc = pc
        BY <2>2 DEF Verification
    <2>5. CASE ReadPredecessor(g)
        <3>1. PICK p \in handler[g].left :
                 handler' = [handler EXCEPT ![g] =
                    [handler[g] EXCEPT !.left = @ \ {p},
                                       !.blocked = @ \/ Uncertified(p),
                                       !.pc = IF handler[g].left = {p} THEN "inspections"
                                              ELSE @]]
            BY <2>5 DEF ReadPredecessor, GoOn, Goto
        <3>2. handler'[g].pc \in {"inspections", handler[g].pc}
            BY <1>1, <2>2, <3>1 DEF Verification
        <3>3. handler' = [handler EXCEPT ![g] = handler'[g]]
            BY <1>1, <3>1
        <3> QED BY <1>2, <2>3, <3>2, <3>3 DEF Filing
    <2>6. CASE ReadInspections(g) \/ ReadIssues(g) \/ Seal(g) \/ ListBlocked(g) \/ Unblock(g)
        <3>1. handler'[g].pc \in {"issues", "orders", "listing", "taking"}
              /\ handler' = [handler EXCEPT ![g] = handler'[g]]
            <4>1. CASE ReadInspections(g)
                BY <1>1, <2>2, <4>1 DEF ReadInspections, GoOn, Goto, Verification
            <4>2. CASE ReadIssues(g)
                BY <1>1, <2>2, <4>2 DEF ReadIssues, GoOn, Goto, Verification
            <4>3. CASE Seal(g)
                BY <1>1, <2>2, <4>3 DEF Seal, GoOn, Goto, Verification
            <4>4. CASE ListBlocked(g)
                BY <1>1, <2>2, <4>4 DEF ListBlocked, GoOn, Goto, Verification
            <4>5. CASE Unblock(g)
                BY <1>1, <2>4, <4>5 DEF Unblock, GoOn, Goto
            <4> QED BY <2>6, <4>1, <4>2, <4>3, <4>4, <4>5
        <3> QED BY <1>2, <2>3, <3>1
    <2>7. CASE ReadOrders(g)
        <3>1. PICK label \in {"unblocking", "taking", "sealing", "idle"} :
                  handler' = [handler EXCEPT ![g] =
                      IF label = "idle" THEN Idle ELSE [handler[g] EXCEPT !.pc = label]]
            BY <2>2, <2>7, (orders > 0) \in BOOLEAN, Decides DEF ReadOrders, GoOn, Goto
        <3> QED BY <1>2, <1>3, <2>3, <2>4, <3>1
    <2>8. CASE Take(g)
        <3>1. PICK s \in handler[g].queue :
                  handler' = [handler EXCEPT ![g] =
                      Evaluating([handler[g] EXCEPT !.queue = @ \ {s}], s.id, s.row)]
            BY <2>8 DEF Take, GoOn, Goto
        <3>2. Evaluating([handler[g] EXCEPT !.queue = @ \ {s}], s.id, s.row).pc # "filing"
            BY <2>2 DEF Evaluating, Verification
        <3> QED BY <1>2, <2>3, <3>1, <3>2
    <2> QED BY <1>7, <2>5, <2>6, <2>7, <2>8
<1>8. ASSUME NEW g \in Handlers, NEW m \in Milestones, NEW waive \in BOOLEAN,
             Verify(g, m, waive)
      PROVE  Aloof
    <2>1. handler' = [handler EXCEPT ![g] =
             Evaluating([pc |-> "", op |-> "verify", on |-> m, row |-> Absent,
                         left |-> {}, blocked |-> FALSE, failed |-> FALSE,
                         waive |-> waive, queue |-> {}],
                        m, milestone[m])]
        BY <1>8 DEF Verify, Begin, Goto
    <2>2. Evaluating([pc |-> "", op |-> "verify", on |-> m, row |-> Absent,
                      left |-> {}, blocked |-> FALSE, failed |-> FALSE,
                      waive |-> waive, queue |-> {}],
                     m, milestone[m]).pc # "filing"
        BY DEF Evaluating
    <2>3. ~Filing(g) /\ UNCHANGED survey
        BY <1>8 DEF Verify, Begin, Free, Filing, rows
    <2> QED BY <1>2, <2>1, <2>2, <2>3
<1>9. ASSUME NEW g \in Handlers, LookForOrder(g) \/ Order(g) \/ Fail(g) PROVE Aloof
    <2>1. handler[g].pc \in {"looking", "ordering", "failing"}
        BY <1>9 DEF LookForOrder, Order, Fail, At
    <2>2. handler[g] \in [pc : {"looking", "ordering"}, op : {"enforce"}]
              \cup [pc : {"ordering", "failing", "announcing"}, op : {"suspend"},
                    inspected : BOOLEAN]
        BY <1>1, <2>1 DEF HandlerState, Verification, GateReads, Idle
    <2>3. \A pc : [handler[g] EXCEPT !.pc = pc].pc = pc
        BY <2>2
    <2>4. handler[g].op \in {"enforce", "suspend"}
          /\ (handler[g].op = "suspend" => handler[g].inspected \in BOOLEAN)
        BY <2>2
    <2>5. PICK state \in {Idle, [handler[g] EXCEPT !.pc = "ordering"],
                          [handler[g] EXCEPT !.pc = "failing"],
                          [handler[g] EXCEPT !.pc = "announcing"]} :
              handler' = [handler EXCEPT ![g] = state]
        <3>1. CASE LookForOrder(g) \/ Fail(g)
            BY <3>1 DEF LookForOrder, Fail, GoOn, Goto
        <3>2. CASE Order(g)
            BY <2>4, <3>2 DEF Order, GoOn, Goto
        <3> QED BY <1>9, <3>1, <3>2
    <2>6. ~Filing(g) /\ UNCHANGED survey
        BY <1>9, <2>1 DEF LookForOrder, Order, Fail, OrdersBecome, rows, Filing
    <2> QED BY <1>2, <1>3, <2>3, <2>5, <2>6
<1>10. CASE \/ \E g \in Handlers, m \in Milestones :
                  \/ \E p \in Plans, s \in Settable : Create(g, m, p, s)
                  \/ Delete(g, m)
            \/ \E i \in Issues : ReportIssue(i) \/ EscalateIssue(i) \/ ResolveIssue(i)
            \/ LiftOrder
            \/ \E failed \in BOOLEAN : ConcludeInspection(failed)
    <2>1. UNCHANGED <<handler, survey>>
        BY <1>10 DEF Create, Delete, Saved, ReportIssue, EscalateIssue, ResolveIssue,
                     IssueBecomes, LiftOrder, OrdersBecome, ConcludeInspection, Event
    <2> QED BY <2>1 DEF Aloof, Filing
<1>11. CASE \E v \in Surveys :
              \/ \E variance \in BOOLEAN, sent \in Sent : Record(v, variance, sent)
              \/ Remove(v)
    BY <1>11 DEF Record, Remove, Event
<1>12. ASSUME NEW g \in Handlers, Overlook(g) \/ Stumble(g) \/ Raise(g) PROVE Aloof
    <2>1. handler[g] \in Verification /\ UNCHANGED survey
        BY <1>12, Faulty DEF rows
    <2>2. handler' = [handler EXCEPT ![g] = handler'[g]] /\ handler'[g].pc # "filing"
        BY <1>3, <1>12, <2>1, Faulty DEF Verification
    <2>3. ~Filing(g)
        BY <2>1 DEF Filing, Verification, GateReads
    <2> QED BY <1>2, <2>1, <2>2, <2>3
<1>13. CASE Step
    BY <1>4, <1>5, <1>6, <1>7, <1>8, <1>9, <1>10, <1>11, <1>12, <1>13 DEF Step, Surveying
<1>14. CASE Fault
    BY <1>12, <1>14 DEF Fault
<1> QED BY <1>13, <1>14 DEF Next

LEMMA FlagInit == ASSUME Init PROVE FlagInv
<1>1. \A h \in Handlers : handler[h].pc = "idle"
    BY DEF Init, Idle
<1>2. ~Collision
    <2>1. \A h \in Handlers : Holds(handler[h]) = {}
        BY <1>1 DEF Holds, Verifying
    <2> QED BY <2>1 DEF Collision
<1>3. flagged = {}
    BY DEF Init
<1> QED BY <1>1, <1>2, <1>3 DEF FlagInv, Filing

LEMMA FlagNext == ASSUME TypeOK, TypeOK', Next, FlagInv PROVE FlagInv'
<1>1. handler \in [Handlers -> HandlerState] /\ survey \in [Surveys -> {Absent, Deleted} \cup SurveyRow]
    BY DEF TypeOK
<1>2. crossed' = (crossed \/ Collision') /\ byHand \subseteq byHand'
    BY DEF Next, History
<1>3. \A h \in Handlers : Filing(h) /\ Excused(handler[h]) => handler[h].on \in byHand'
    BY DEF Next, History, Filing, At, Free, Excused
<1>4. \A v \in flagged' \ flagged : \E g \in Handlers :
          /\ Filing(g) /\ handler[g].op = "flag" /\ handler[g].on = v
          /\ kills' = kills /\ handler'[g] # handler[g]
    BY DEF Next, History, Filing, At
<1>5. (Collision => crossed)'
    BY <1>2
<1>6. FlagInv!2 /\ FlagInv!3
    BY DEF FlagInv
(* Two copies of one survey are a crossing.                                *)
<1>7. ASSUME NEW g \in Handlers, NEW h \in Handlers, g # h, Filing(g), Filing(h),
             handler[g].on = handler[h].on
      PROVE  crossed
    <2>1. ~Verifying(handler[g]) /\ ~Verifying(handler[h])
        BY <1>1, <1>7 DEF Verifying, Filing, HandlerState, Verification, GateReads, Idle
    <2>2. Holds(handler[g]) = {handler[g].on} /\ Holds(handler[h]) = {handler[h].on}
        BY <1>7, <2>1 DEF Holds, Filing
    <2>3. Collision
        BY <1>7, <2>2 DEF Collision
    <2> QED BY <2>3 DEF FlagInv
<1>8. CASE \E h \in Handlers : File(h)
    <2>1. PICK h \in Handlers : File(h)
        BY <1>8
    <2>2. /\ Filing(h)
          /\ survey' = [survey EXCEPT ![handler[h].on] = handler[h].row]
          /\ handler' = [handler EXCEPT ![h] = Idle]
        BY <2>1 DEF File, Filed, GoOn, Goto, At, Filing
    <2>3. \A g \in Handlers : Filing(g)' => g # h /\ handler'[g] = handler[g] /\ Filing(g)
        BY <1>1, <2>2 DEF Filing, Idle
    <2>4. \A v \in flagged' \ flagged : handler[h].op = "flag" /\ handler[h].on = v
        BY <1>1, <1>4, <2>2
    <2>5. handler[h].on \in Surveys
        BY <2>2, StateOf DEF Filing
    <2>6. ASSUME ~crossed', NEW v \in (flagged \ byHand)' PROVE Marked(survey[v])'
        <3>1. ~crossed /\ v \notin byHand
            BY <1>2, <2>6
        <3>2. CASE handler[h].on = v
            <4>1. Marked(handler[h].row)
                <5>1. CASE v \in flagged
                    <6>1. Harmless(handler[h])
                        BY <1>6, <2>2, <3>1, <3>2, <5>1
                    <6>2. v \notin byHand'
                        BY <2>6
                    <6> QED BY <1>3, <2>2, <3>2, <6>1, <6>2 DEF Harmless
                <5>2. CASE v \notin flagged
                    BY <1>6, <2>2, <2>4, <2>6, <5>2
                <5> QED BY <5>1, <5>2
            <4>2. survey'[v] = handler[h].row
                BY <1>1, <2>2, <2>5, <3>2
            <4> QED BY <4>1, <4>2 DEF Marked
        <3>3. CASE handler[h].on # v
            <4>1. v \in flagged
                BY <2>4, <2>6, <3>3
            <4>2. v \in Surveys
                BY <4>1 DEF TypeOK
            <4>3. survey'[v] = survey[v]
                BY <1>1, <2>2, <3>3, <4>2
            <4> QED BY <1>6, <3>1, <4>1, <4>3 DEF Marked
        <3> QED BY <3>2, <3>3
    <2>7. ASSUME ~crossed', NEW v \in (flagged \ byHand)', NEW g \in Handlers, Filing(g)',
                 handler'[g].on = v
          PROVE  Harmless(handler'[g])
        <3>1. ~crossed /\ v \notin byHand
            BY <1>2, <2>7
        <3>2. g # h /\ handler'[g] = handler[g] /\ Filing(g)
            BY <2>3, <2>7
        <3>3. v \in flagged
            BY <1>7, <2>2, <2>4, <2>7, <3>1, <3>2
        <3> QED BY <1>6, <2>7, <3>1, <3>2, <3>3
    <2>8. \A g \in Handlers : Filing(g)' /\ handler'[g].op = "flag" => Marked(handler'[g].row)
        BY <1>6, <2>3
    <2> QED BY <1>5, <2>6, <2>7, <2>8 DEF FlagInv, Filing, Harmless, Excused, Marked
(* All else leaves the flags, and what a survey says of them.              *)
<1>9. ASSUME \A g \in Handlers : Filing(g) => handler'[g] = handler[g] \/ kills' # kills,
             \A v \in Surveys : Marked(survey[v]) => Marked(survey'[v]),
             \A g \in Handlers : Filing(g)' /\ handler'[g] # handler[g] =>
                 /\ handler'[g].op = "flag" => Marked(handler'[g].row)
                 /\ Marked(survey[handler'[g].on]) => Harmless(handler'[g])
      PROVE  FlagInv'
    <2>1. flagged' \subseteq flagged
        BY <1>4, <1>9
    <2>2. ASSUME ~crossed', NEW v \in (flagged \ byHand)'
          PROVE  /\ Marked(survey[v]) /\ Marked(survey'[v])
                 /\ \A g \in Handlers : Filing(g)' /\ handler'[g].on = v => Harmless(handler'[g])
        <3>1. ~crossed /\ v \in flagged \ byHand /\ v \in Surveys
            BY <1>2, <2>1, <2>2 DEF TypeOK
        <3>2. Marked(survey[v]) /\ Marked(survey'[v])
            BY <1>6, <1>9, <3>1
        <3>3. ASSUME NEW g \in Handlers, Filing(g)', handler'[g].on = v
              PROVE  Harmless(handler'[g])
            <4>1. CASE handler'[g] = handler[g]
                BY <1>6, <3>1, <3>3, <4>1 DEF Filing
            <4>2. CASE handler'[g] # handler[g]
                BY <1>9, <3>2, <3>3, <4>2
            <4> QED BY <4>1, <4>2
        <3> QED BY <3>2, <3>3
    <2>3. ASSUME NEW g \in Handlers, Filing(g)', handler'[g].op = "flag"
          PROVE  Marked(handler'[g].row)
        <3>1. CASE handler'[g] = handler[g]
            BY <1>6, <2>3, <3>1 DEF Filing
        <3>2. CASE handler'[g] # handler[g]
            BY <1>9, <2>3, <3>2
        <3> QED BY <3>1, <3>2
    <2> QED BY <1>5, <2>2, <2>3 DEF FlagInv, Filing, Harmless, Excused, Marked
<1>10. CASE Aloof
    <2>1. \A g \in Handlers : Filing(g)' => handler'[g] = handler[g]
        BY <1>10 DEF Aloof, Filing
    <2>2. \A g \in Handlers : Filing(g) => handler'[g] = handler[g] \/ kills' # kills
        BY <1>10 DEF Aloof, Filing
    <2>3. survey' = survey
        BY <1>10 DEF Aloof
    <2> QED BY <1>9, <2>1, <2>2, <2>3
<1>11. CASE /\ \E v \in Surveys :
                  \/ \E variance \in BOOLEAN, sent \in Sent : Record(v, variance, sent)
                  \/ Remove(v)
            /\ UNCHANGED <<handler, kills>>
    <2>1. PICK v \in Surveys :
             \/ survey[v] = Absent /\ \A w \in Surveys \ {v} : survey'[w] = survey[w]
             \/ survey' = [survey EXCEPT ![v] = Deleted]
        BY <1>1, <1>11 DEF Record, Remove, Filed
    <2>2. \A w \in Surveys : Marked(survey[w]) => Marked(survey'[w])
        <3>1. Absent # Deleted
            BY DEF Absent, Deleted
        <3> QED BY <1>1, <2>1, <3>1 DEF Marked
    <2> QED BY <1>9, <1>11, <2>2
<1>12. ASSUME NEW h \in Handlers, NEW v \in Surveys, Surveying(h, v) PROVE FlagInv'
    <2>1. Surveyed(v) /\ survey[v] \in SurveyRow
        <3>1. Surveyed(v)
            BY <1>12 DEF Surveying, Certify, Revise, Flag, Document
        <3> QED BY <1>1, <3>1 DEF Surveyed
    <2>2. PICK state : /\ handler' = [handler EXCEPT ![h] = state]
                       /\ state.on = v
                       /\ state.op = "flag" => Marked(state.row)
                       /\ Marked(survey[v]) => Harmless(state)
                       /\ Free(h) /\ UNCHANGED <<survey, kills>>
        <3>1. CASE \E waive \in BOOLEAN : Certify(h, v, waive)
            <4>1. PICK waive \in BOOLEAN : Certify(h, v, waive)
                BY <3>1
            <4> DEFINE state == [pc |-> "filing", op |-> "certify", on |-> v, waive |-> waive,
                                 row |-> [survey[v] EXCEPT !.status = "VERIFIED"]]
            <4>2. /\ handler' = [handler EXCEPT ![h] = state]
                  /\ Free(h) /\ UNCHANGED <<survey, kills>>
                  /\ survey[v].variance => waive
                BY <4>1 DEF Certify, Begin, Goto, rows
            <4>3. Marked(survey[v]) => Harmless(state)
                BY <2>1, <4>2 DEF Marked, Harmless, Excused, Surveyed
            <4>4. state.on = v /\ state.op # "flag"
                OBVIOUS
            <4> QED BY <4>2, <4>3, <4>4
        <3>2. CASE \E variance \in BOOLEAN, sent \in Sent : Revise(h, v, variance, sent)
            <4>1. PICK variance \in BOOLEAN, sent \in Sent : Revise(h, v, variance, sent)
                BY <3>2
            <4> DEFINE state == [pc |-> "filing", op |-> "edit", on |-> v,
                                 row |-> Recorded(variance, sent)]
            <4>2. /\ handler' = [handler EXCEPT ![h] = state]
                  /\ Free(h) /\ UNCHANGED <<survey, kills>>
                BY <4>1 DEF Revise, Begin, Goto, rows
            <4>3. state.on = v /\ state.op = "edit"
                OBVIOUS
            <4> HIDE DEF state
            <4> QED BY <4>2, <4>3 DEF Harmless, Excused
        <3>3. CASE Flag(h, v)
            <4> DEFINE row == [survey[v] EXCEPT !.status = "FLAGGED", !.variance = TRUE]
            <4>1. Marked(row)
                BY <2>1 DEF Marked, SurveyRow, Absent
            <4> HIDE DEF row
            <4>2. /\ handler' = [handler EXCEPT ![h] = [pc |-> "filing", op |-> "flag",
                                                       on |-> v, row |-> row]]
                  /\ Free(h) /\ UNCHANGED <<survey, kills>>
                BY <3>3 DEF Flag, Begin, Goto, rows, row
            <4> DEFINE state == [pc |-> "filing", op |-> "flag", on |-> v, row |-> row]
            <4>3. state.on = v /\ state.row = row
                OBVIOUS
            <4>4. handler' = [handler EXCEPT ![h] = state]
                BY <4>2
            <4> HIDE DEF state
            <4> QED BY <4>1, <4>2, <4>3, <4>4 DEF Harmless
        <3>4. CASE Document(h, v)
            <4> DEFINE state == [pc |-> "filing", op |-> "document", on |-> v,
                                 row |-> survey[v]]
            <4>1. /\ handler' = [handler EXCEPT ![h] = state]
                  /\ Free(h) /\ UNCHANGED <<survey, kills>>
                BY <3>4 DEF Document, Begin, Goto, rows
            <4>2. state.on = v /\ state.op = "document" /\ state.row = survey[v]
                OBVIOUS
            <4> HIDE DEF state
            <4> QED BY <4>1, <4>2 DEF Harmless
        <3> QED BY <1>12, <3>1, <3>2, <3>3, <3>4 DEF Surveying
    <2>3. \A g \in Handlers : handler'[g] # handler[g] => g = h /\ handler'[g] = state
        BY <1>1, <2>2
    <2>4. \A g \in Handlers : Filing(g) => handler'[g] = handler[g]
        BY <2>2, <2>3 DEF Filing, Free
    <2>5. \A w \in Surveys : Marked(survey[w]) => Marked(survey'[w])
        BY <2>2
    <2> QED BY <1>9, <2>2, <2>3, <2>4, <2>5
<1> QED BY <1>8, <1>10, <1>11, <1>12, SurveySteps

(* As long as no two requests held copies of one row, a flagged survey is  *)
(* not certified but by overriding the tolerance.                          *)
THEOREM FlagsStand == Spec => []FlagStands
<1>1. TypeOK /\ FlagInv /\ UNCHANGED vars => FlagInv'
    <2>1. UNCHANGED vars =>
              UNCHANGED <<handler, milestone, survey, crossed, flagged, byHand>>
        BY DEF vars, rows, history
    <2>2. UNCHANGED <<handler, milestone>> => UNCHANGED Collision
        <3> SUFFICES ASSUME UNCHANGED <<handler, milestone>> PROVE UNCHANGED Collision
            OBVIOUS
        <3>1. \A h \in Handlers : UNCHANGED Holds(handler[h])
            BY DEF Holds, Verifying
        <3> QED BY <3>1 DEF Collision
    <2>3. UNCHANGED <<handler, survey>> =>
              /\ \A h \in Handlers : UNCHANGED <<Filing(h), Harmless(handler[h])>>
              /\ \A h \in Handlers : UNCHANGED Marked(handler[h].row)
              /\ \A v \in Surveys : UNCHANGED Marked(survey[v])
        BY DEF Filing, Harmless, Excused, Marked
    <2> QED BY <2>1, <2>2, <2>3 DEF FlagInv
<1>2. Init => TypeOK /\ FlagInv
    BY InitTypes, FlagInit
<1>3. TypeOK /\ TypeOK' /\ FlagInv /\ [Next]_vars => FlagInv'
    BY <1>1, FlagNext
<1>4. FlagInv => FlagStands
    BY DEF FlagInv, Marked, FlagStands, Deleted
<1> QED BY <1>2, <1>3, <1>4, TypesHold, PTL DEF Spec

----------------------------------------------------------------------------
(***************************************************************************)
(* Predecessors.  As long as nobody else held a copy of a row, a copy says *)
(* of the seal and the plan what the row says, a seal is never undone, and *)
(* a final status without a seal is a client's word.                       *)
(***************************************************************************)
Certifying == GateReads \cup Deciding

InVerification == Certifying \cup {"listing", "taking"}

(* A copy that was amended, and the row it is of.                          *)
Agrees(op, copy, row) ==
    /\ row \in Row
    /\ copy.sealed = row.sealed /\ copy.waived = row.waived
    /\ op # "edit" => /\ copy.plan = row.plan
                      /\ copy.status \in Final => row.status \in Final

Current(me) ==
    /\ me.pc = "saving" => Agrees(me.op, me.row, milestone[me.on])
    /\ me.pc \in InVerification => \A s \in me.queue : milestone[s.id] = s.row
    /\ me.pc \in Certifying => /\ milestone[me.on] = me.row
                               /\ \A s \in me.queue : s.id # me.on

Certified(p) == p \in byHand \/ (Exists(p) => milestone[p].sealed)

(* What a sign-off has read of the predecessors still is so.               *)
FoundCertified(me) ==
    me.on \notin byHand =>
        /\ me.pc \in GateReads /\ ~me.blocked =>
              \A p \in me.row.plan.after \ me.left : Certified(p)
        /\ me.pc = "sealing" /\ ~me.waive => \A p \in me.row.plan.after : Certified(p)

FinalIsSealed ==
    \A m \in Milestones \ byHand :
        Exists(m) /\ milestone[m].status \in Final => milestone[m].sealed

(* A predecessor that was there when it was named never becomes absent.    *)
NamedExist ==
    \A m \in Milestones \ byHand :
        Exists(m) => \A p \in milestone[m].plan.after : milestone[p] # Absent

SealedOnSealed ==
    \A m \in Milestones \ byHand :
        Exists(m) /\ milestone[m].sealed /\ ~milestone[m].waived =>
            \A p \in milestone[m].plan.after : Certified(p)

BuiltInv ==
    /\ Collision => crossed
    /\ ~crossed => /\ FinalIsSealed /\ NamedExist /\ SealedOnSealed
                   /\ \A h \in Handlers : Current(handler[h]) /\ FoundCertified(handler[h])

(* A handler that leaves the milestones alone.                             *)
Off(h) == handler'[h].pc \notin InVerification \cup {"saving"}

Touches(h) ==
    \/ \E m \in Milestones, p \in Plans, s \in Settable : Edit(h, m, s, p)
    \/ \E m \in Milestones, what \in Amendments : Amend(h, m, what)
    \/ \E m \in Milestones, waive \in BOOLEAN : Verify(h, m, waive)
    \/ ReadPredecessor(h) \/ ReadInspections(h) \/ ReadIssues(h) \/ ReadOrders(h)
    \/ ListBlocked(h) \/ Take(h) \/ Overlook(h)

LEMMA MilestoneSteps ==
    ASSUME TypeOK, Next
    PROVE  \/ \E h \in Handlers, m \in Milestones :
                 \/ \E p \in Plans, s \in Settable : Create(h, m, p, s)
                 \/ Delete(h, m)
           \/ \E h \in Handlers : Save(h) \/ Seal(h) \/ Unblock(h)
           \/ /\ UNCHANGED milestone
              /\ \A h \in Handlers : handler'[h] = handler[h] \/ Touches(h) \/ Off(h)
<1> USE DEF InVerification, Certifying, GateReads, Deciding
<1>1. handler \in [Handlers -> HandlerState]
    BY DEF TypeOK
<1>2. ASSUME NEW g \in Handlers, NEW state, handler' = [handler EXCEPT ![g] = state],
             Touches(g) \/ state.pc \notin InVerification \cup {"saving"}
      PROVE  \A h \in Handlers : handler'[h] = handler[h] \/ Touches(h) \/ Off(h)
    <2> SUFFICES ASSUME NEW h \in Handlers, handler'[h] # handler[h]
                 PROVE  Touches(h) \/ Off(h)
        OBVIOUS
    <2>1. h = g /\ handler'[h] = state
        BY <1>1, <1>2
    <2> QED BY <1>2, <2>1 DEF Off
<1>3. Idle.pc = "idle"
    BY DEF Idle
<1>4. ASSUME NEW g \in Handlers, Touches(g)
      PROVE  /\ UNCHANGED milestone
             /\ \A h \in Handlers : handler'[h] = handler[h] \/ Touches(h) \/ Off(h)
    <2>1. UNCHANGED milestone
        BY <1>4 DEF Touches, Edit, Amend, Verify, ReadPredecessor, ReadInspections, ReadIssues,
                    ReadOrders, ListBlocked, Take, Overlook, Begin, rows
    <2>2. \E state : handler' = [handler EXCEPT ![g] = state]
        BY <1>4 DEF Touches, Edit, Amend, Verify, ReadPredecessor, ReadInspections, ReadIssues,
                    ReadOrders, ListBlocked, Take, Overlook, Begin, GoOn, Goto
    <2> QED BY <1>2, <1>4, <2>1, <2>2
<1>5. ASSUME NEW g \in Handlers,
             \/ \E i \in Issues : Enforce(g, i)
             \/ \E inspected \in BOOLEAN : Suspend(g, inspected)
      PROVE  /\ UNCHANGED milestone
             /\ \A h \in Handlers : handler'[h] = handler[h] \/ Touches(h) \/ Off(h)
    BY <1>2, <1>5 DEF Enforce, Suspend, Begin, Goto, IssueBecomes, rows
<1>6. ASSUME NEW g \in Handlers, NEW v \in Surveys, Surveying(g, v)
      PROVE  /\ UNCHANGED milestone
             /\ \A h \in Handlers : handler'[h] = handler[h] \/ Touches(h) \/ Off(h)
    BY <1>2, <1>6 DEF Surveying, Certify, Revise, Flag, Document, Begin, Goto, rows
<1>7. ASSUME NEW g \in Handlers, Verified(g) \/ Announce(g) \/ File(g) \/ Kill(g)
      PROVE  /\ UNCHANGED milestone
             /\ \A h \in Handlers : handler'[h] = handler[h] \/ Touches(h) \/ Off(h)
    BY <1>2, <1>3, <1>7 DEF Verified, Announce, File, Kill, GoOn, Goto, IssueBecomes, Filed, rows
<1>8. ASSUME NEW g \in Handlers, LookForOrder(g) \/ Order(g) \/ Fail(g)
      PROVE  /\ UNCHANGED milestone
             /\ \A h \in Handlers : handler'[h] = handler[h] \/ Touches(h) \/ Off(h)
    <2>1. handler[g].pc \in {"looking", "ordering", "failing"}
        BY <1>8 DEF LookForOrder, Order, Fail, At
    <2>2. handler[g] \in [pc : {"looking", "ordering"}, op : {"enforce"}]
              \cup [pc : {"ordering", "failing", "announcing"}, op : {"suspend"},
                    inspected : BOOLEAN]
        BY <1>1, <2>1 DEF HandlerState, Verification, Idle
    <2>3. \A pc : [handler[g] EXCEPT !.pc = pc].pc = pc
        BY <2>2
    <2>4. handler[g].op \in {"enforce", "suspend"}
          /\ (handler[g].op = "suspend" => handler[g].inspected \in BOOLEAN)
        BY <2>2
    <2>5. PICK state \in {Idle, [handler[g] EXCEPT !.pc = "ordering"],
                          [handler[g] EXCEPT !.pc = "failing"],
                          [handler[g] EXCEPT !.pc = "announcing"]} :
              handler' = [handler EXCEPT ![g] = state]
        <3>1. CASE LookForOrder(g) \/ Fail(g)
            BY <3>1 DEF LookForOrder, Fail, GoOn, Goto
        <3>2. CASE Order(g)
            BY <2>4, <3>2 DEF Order, GoOn, Goto
        <3> QED BY <1>8, <3>1, <3>2
    <2>6. UNCHANGED milestone
        BY <1>8 DEF LookForOrder, Order, Fail, OrdersBecome, rows
    <2>7. state.pc \notin InVerification \cup {"saving"}
        BY <1>3, <2>3, <2>5
    <2> QED BY <1>2, <2>5, <2>6, <2>7
<1>9. CASE \/ \E i \in Issues : ReportIssue(i) \/ EscalateIssue(i) \/ ResolveIssue(i)
           \/ LiftOrder
           \/ \E failed \in BOOLEAN : ConcludeInspection(failed)
           \/ \E v \in Surveys :
                 \/ \E variance \in BOOLEAN, sent \in Sent : Record(v, variance, sent)
                 \/ Remove(v)
    BY <1>9 DEF ReportIssue, EscalateIssue, ResolveIssue, IssueBecomes, LiftOrder, OrdersBecome,
                ConcludeInspection, Record, Remove, Filed, Event
<1>10. ASSUME NEW g \in Handlers, Stumble(g) \/ Raise(g)
       PROVE  /\ UNCHANGED milestone
              /\ \A h \in Handlers : handler'[h] = handler[h] \/ Touches(h) \/ Off(h)
    BY <1>2, <1>3, <1>10 DEF Stumble, Raise, GoOn, Goto, rows
<1>11. CASE Step
    BY <1>4, <1>5, <1>6, <1>7, <1>8, <1>9, <1>10, <1>11 DEF Step, Surveying, Touches
<1>12. CASE Fault
    BY <1>4, <1>10, <1>12 DEF Fault, Touches
<1> QED BY <1>11, <1>12 DEF Next

(* The rows a copy of which may yet be saved.                              *)
Uses(me) ==
    CASE me.pc = "saving" -> {me.on}
      [] me.pc \in Certifying -> {me.on} \cup {s.id : s \in me.queue}
      [] me.pc \in {"listing", "taking"} -> {s.id : s \in me.queue}
      [] OTHER -> {}

LEMMA UsesAreHeld ==
    ASSUME TypeOK, NEW h \in Handlers
    PROVE  Uses(handler[h]) \subseteq Holds(handler[h])
<1>1. handler[h].pc = "saving" => Holds(handler[h]) = {handler[h].on}
    <2>1. handler[h].pc = "saving" => handler[h].op \notin {"verify", "unblock"}
        BY DEF TypeOK, HandlerState, Verification, Idle, GateReads, Amendments
    <2> QED BY <2>1 DEF Holds, Verifying
<1>2. handler[h].pc \in InVerification =>
          Holds(handler[h]) = {handler[h].on} \cup {s.id : s \in handler[h].queue}
    <2>1. handler[h].pc \in InVerification => handler[h] \in Verification
        BY StateOf DEF InVerification, Certifying, Deciding
    <2>2. handler[h] \in Verification => Verifying(handler[h])
        BY DEF Verification, Verifying, GateReads
    <2> QED BY <2>1, <2>2 DEF Holds
<1> QED BY <1>1, <1>2 DEF Uses, InVerification, Certifying, GateReads, Deciding

LEMMA UsedAlone ==
    ASSUME TypeOK, BuiltInv, ~crossed, NEW g \in Handlers, NEW h \in Handlers, g # h
    PROVE  Uses(handler[g]) \cap Uses(handler[h]) = {}
<1>1. Holds(handler[g]) \cap Holds(handler[h]) = {}
    BY DEF BuiltInv, Collision
<1> QED BY <1>1, UsesAreHeld

(* What was certified stays so, when it was there.                         *)
Keeps == \A p \in Milestones : milestone[p] # Absent /\ Certified(p) => Certified(p)'

(* A handler that does nothing, and whose rows stay as they are.           *)
LEMMA OthersKeep ==
    ASSUME TypeOK, BuiltInv, ~crossed, byHand \subseteq byHand', Keeps,
           NEW g \in Handlers, handler'[g] = handler[g],
           \A x \in Uses(handler[g]) : milestone'[x] = milestone[x]
    PROVE  Current(handler[g])' /\ FoundCertified(handler[g])'
<1> DEFINE me == handler[g]
<1>1. Current(me) /\ FoundCertified(me) /\ NamedExist
    BY DEF BuiltInv
<1>2. CASE me.pc = "saving"
    <2>1. milestone'[me.on] = milestone[me.on]
        BY <1>2 DEF Uses, Certifying, GateReads, Deciding
    <2> QED BY <1>1, <1>2, <2>1 DEF Current, FoundCertified, Agrees, InVerification, Certifying,
                                    GateReads, Deciding
<1>3. CASE me.pc \in InVerification
    <2>1. /\ \A s \in me.queue : milestone'[s.id] = milestone[s.id]
          /\ me.pc \in Certifying => milestone'[me.on] = milestone[me.on]
        BY <1>3 DEF Uses, InVerification, Certifying, GateReads, Deciding
    <2>2. Current(me)'
        BY <1>1, <1>3, <2>1 DEF Current, InVerification, Certifying, GateReads, Deciding
    <2>3. ASSUME me.on \notin byHand', me.pc \in Certifying, NEW p \in me.row.plan.after,
                 Certified(p)
          PROVE  Certified(p)'
        <3>1. me \in Verification
            BY <1>3, StateOf DEF InVerification, Certifying, Deciding
        <3>2. me.row \in Row /\ me.on \in Milestones /\ milestone[me.on] = me.row
            BY <1>1, <2>3, <3>1 DEF Verification, Current
        <3>0. me.row.plan.after \subseteq Milestones
            BY <3>2 DEF Row, Plan
        <3>3. p \in Milestones /\ Exists(me.on)
            BY <2>3, <3>0, <3>2, RowsAreTyped DEF Exists
        <3>4. milestone[p] # Absent
            BY <1>1, <2>3, <3>2, <3>3 DEF NamedExist
        <3> QED BY <2>3, <3>3, <3>4 DEF Keeps
    <2>4. FoundCertified(me)'
        BY <1>1, <2>3 DEF FoundCertified, Certifying, Deciding
    <2> QED BY <2>2, <2>4
<1>4. CASE me.pc \notin InVerification \cup {"saving"}
    BY <1>4 DEF Current, FoundCertified, InVerification, Certifying, Deciding
<1> QED BY <1>2, <1>3, <1>4

(* A row is deleted, or saved from a copy that is true to it.              *)
LEMMA RowSaved ==
    ASSUME TypeOK, TypeOK', BuiltInv, ~crossed, byHand \subseteq byHand',
           NEW m \in Milestones, NEW new,
           milestone' = [milestone EXCEPT ![m] = new],
           \/ new = Deleted
           \/ /\ Exists(m) /\ new \in Row
              /\ milestone[m].sealed => new.sealed
              /\ new.status \in Final => new.sealed \/ m \in byHand'
              /\ \/ m \in byHand'
                 \/ /\ new.plan = milestone[m].plan
                    /\ new.sealed /\ ~new.waived =>
                          \/ milestone[m].sealed /\ ~milestone[m].waived
                          \/ \A p \in new.plan.after : Certified(p)
    PROVE  FinalIsSealed' /\ NamedExist' /\ SealedOnSealed' /\ Keeps
<1>1. /\ FinalIsSealed /\ NamedExist /\ SealedOnSealed
      /\ milestone \in [Milestones -> {Absent, Deleted} \cup Row]
    BY DEF BuiltInv, TypeOK
<1>2. milestone'[m] = new /\ \A x \in Milestones \ {m} : milestone'[x] = milestone[x]
    BY <1>1
<1>3. Deleted # Absent /\ \A row \in Row : row \notin {Absent, Deleted}
    BY RowsAreTyped DEF Deleted, Absent
<1>4. \A p \in Milestones : Certified(p) => Certified(p)'
    BY <1>2, <1>3 DEF Certified, Exists
<1>5. ASSUME NEW x \in Milestones, Exists(x)', NEW p \in milestone'[x].plan.after
      PROVE  p \in Milestones
    BY <1>5 DEF TypeOK, Exists, Row, Plan
<1>6. FinalIsSealed'
    BY <1>1, <1>2, <1>3 DEF FinalIsSealed, Exists
<1>7. NamedExist'
    <2> SUFFICES ASSUME NEW x \in Milestones, x \notin byHand', Exists(x)',
                        NEW p \in milestone'[x].plan.after
                 PROVE  milestone'[p] # Absent
        BY DEF NamedExist
    <2>1. Exists(x) /\ milestone'[x].plan = milestone[x].plan
        BY <1>2, <1>3 DEF Exists
    <2>2. milestone[p] # Absent
        BY <1>1, <2>1 DEF NamedExist
    <2> QED BY <1>2, <1>3, <1>5, <2>2
<1>8. SealedOnSealed'
    <2> SUFFICES ASSUME NEW x \in Milestones, x \notin byHand', Exists(x)',
                        milestone'[x].sealed, ~milestone'[x].waived,
                        NEW p \in milestone'[x].plan.after
                 PROVE  Certified(p)'
        BY DEF SealedOnSealed
    <2>1. Exists(x) /\ milestone'[x].plan = milestone[x].plan
        BY <1>2, <1>3 DEF Exists
    <2>2. Certified(p)
        <3>1. CASE x # m
            BY <1>1, <1>2, <2>1, <3>1 DEF SealedOnSealed
        <3>2. CASE x = m
            BY <1>1, <1>2, <1>3, <2>1, <3>2 DEF SealedOnSealed, Exists
        <3> QED BY <3>1, <3>2
    <2> QED BY <1>4, <1>5, <2>2
<1> QED BY <1>4, <1>6, <1>7, <1>8 DEF Keeps

(* A handler that touches milestones, but leaves the rows.                 *)
LEMMA TouchesKeep ==
    ASSUME TypeOK, TypeOK', GateInv, BuiltInv, ~crossed, byHand \subseteq byHand',
           UNCHANGED milestone, NEW h \in Handlers, Touches(h)
    PROVE  Current(handler[h])' /\ FoundCertified(handler[h])'
<1> USE DEF InVerification, Certifying, GateReads, Deciding
<1> DEFINE me == handler[h]   now == handler'[h]
<1>1. /\ handler \in [Handlers -> HandlerState]
      /\ milestone \in [Milestones -> {Absent, Deleted} \cup Row]
      /\ FinalIsSealed /\ Current(me) /\ FoundCertified(me)
    BY DEF TypeOK, BuiltInv
<1>2. \A m \in Milestones : Exists(m) => milestone[m] \in Row
    BY <1>1 DEF Exists
<1>3. \A p : Certified(p) => Certified(p)'
    BY DEF Certified, Exists
<1>4. ASSUME NEW m \in Milestones, NEW op, NEW row, milestone[m] \in Row,
             now = [pc |-> "saving", op |-> op, on |-> m, row |-> row],
             Agrees(op, row, milestone[m])
      PROVE  Current(handler[h])' /\ FoundCertified(handler[h])'
    BY <1>4 DEF Current, FoundCertified, Agrees
<1>5. ASSUME NEW m \in Milestones, NEW p \in Plans, NEW s \in Settable, Edit(h, m, s, p)
      PROVE  Current(handler[h])' /\ FoundCertified(handler[h])'
    <2> DEFINE row == [milestone[m] EXCEPT !.status = s, !.plan = p]
    <2>1. milestone[m] \in Row
        BY <1>2, <1>5 DEF Edit
    <2>2. now = [pc |-> "saving", op |-> "edit", on |-> m, row |-> row]
        BY <1>1, <1>5 DEF Edit, Begin, Goto
    <2>3. Agrees("edit", row, milestone[m])
        BY <2>1 DEF Agrees, Row
    <2> QED BY <1>4, <2>1, <2>2, <2>3
<1>6. ASSUME NEW m \in Milestones, NEW what \in Amendments, Amend(h, m, what)
      PROVE  Current(handler[h])' /\ FoundCertified(handler[h])'
    <2> DEFINE row == Amended(milestone[m], what)
    <2>1. milestone[m] \in Row
        BY <1>2, <1>6 DEF Amend
    <2>2. now = [pc |-> "saving", op |-> what, on |-> m, row |-> row]
        BY <1>1, <1>6 DEF Amend, Begin, Goto
    <2>3. Agrees(what, row, milestone[m])
        <3>1. CASE what \in {"submit", "attach", "delay"}
            BY <2>1, <3>1 DEF Agrees, Amended, Row, Final
        <3>2. CASE what \in {"some", "all"}
            <4>1. row = Progressed(milestone[m], what)
                BY <3>2 DEF Amended
            <4>2. PICK s : /\ row = [milestone[m] EXCEPT !.progress = what, !.status = s]
                           /\ s \in {"PENDING_VERIFICATION", "IN_PROGRESS", milestone[m].status}
                BY <2>1, <3>2, <4>1 DEF Progressed, Row
            <4>3. /\ row.status = s /\ row.plan = milestone[m].plan
                  /\ row.sealed = milestone[m].sealed /\ row.waived = milestone[m].waived
                BY <2>1, <4>2 DEF Row
            <4> HIDE DEF row
            <4> QED BY <2>1, <4>2, <4>3 DEF Agrees, Final
        <3> QED BY <3>1, <3>2 DEF Amendments
    <2> HIDE DEF row
    <2> QED BY <1>4, <2>1, <2>2, <2>3
(* A row that is about to be evaluated.                                    *)
<1>7. ASSUME NEW m \in Milestones, NEW queue,
             /\ now.pc \in {"inspections", "predecessors"}
             /\ now.pc = "inspections" => now.left = {}
             /\ now.on = m /\ now.row = milestone[m] /\ now.left = milestone[m].plan.after
             /\ now.queue = queue,
             \A s \in queue : milestone[s.id] = s.row /\ s.id # m
      PROVE  Current(handler[h])' /\ FoundCertified(handler[h])'
    BY <1>7 DEF Current, FoundCertified
<1>8. ASSUME NEW m \in Milestones, NEW waive \in BOOLEAN, Verify(h, m, waive)
      PROVE  Current(handler[h])' /\ FoundCertified(handler[h])'
    <2>1. now = Evaluating([pc |-> "", op |-> "verify", on |-> m, row |-> Absent,
                            left |-> {}, blocked |-> FALSE, failed |-> FALSE,
                            waive |-> waive, queue |-> {}],
                           m, milestone[m])
        BY <1>1, <1>8 DEF Verify, Begin, Goto
    <2>2. /\ now.pc \in {"inspections", "predecessors"}
          /\ now.pc = "inspections" => now.left = {}
          /\ now.on = m /\ now.row = milestone[m] /\ now.left = milestone[m].plan.after
          /\ now.queue = {}
        BY <2>1 DEF Evaluating
    <2> QED BY <1>7, <2>2
<1>9. CASE Take(h)
    <2>1. me \in Verification /\ me.pc = "taking"
        BY <1>9, StateOf DEF Take, At
    <2>2. PICK s \in me.queue :
              now = Evaluating([me EXCEPT !.queue = @ \ {s}], s.id, s.row)
        BY <1>1, <1>9 DEF Take, GoOn, Goto
    <2>3. [me EXCEPT !.queue = @ \ {s}] \in Verification
        BY <2>1 DEF Verification
    <2>4. me.queue \subseteq [id : Milestones, row : Row]
        BY <2>1 DEF Verification
    <2>5. \A q \in me.queue : milestone[q.id] = q.row
        BY <1>1, <2>1 DEF Current
    <2>6. \A q \in me.queue \ {s} : milestone[q.id] = q.row /\ q.id # s.id
        BY <2>2, <2>4, <2>5
    <2> DEFINE rest == me.queue \ {s}  one == s.id
    <2>7. s.id \in Milestones /\ milestone[s.id] = s.row
        BY <2>2, <2>4, <2>5
    <2>8. /\ now.pc \in {"inspections", "predecessors"}
          /\ now.pc = "inspections" => now.left = {}
          /\ now.on = s.id /\ now.row = s.row /\ now.left = s.row.plan.after
          /\ now.queue = me.queue \ {s}
        BY <2>1, <2>2 DEF Evaluating, Verification
    <2>9. /\ one \in Milestones
          /\ now.pc \in {"inspections", "predecessors"}
          /\ now.pc = "inspections" => now.left = {}
          /\ now.on = one /\ now.row = milestone[one]
          /\ now.left = milestone[one].plan.after /\ now.queue = rest
          /\ \A q \in rest : milestone[q.id] = q.row /\ q.id # one
        BY <2>6, <2>7, <2>8
    <2> HIDE DEF rest, one
    <2> QED BY <1>7, <2>9
<1>10. CASE ListBlocked(h)
    <2> DEFINE list == {[id |-> m, row |-> milestone[m]] : m \in Blocked}
    <2>1. me \in Verification
        BY <1>10, StateOf DEF ListBlocked, At
    <2>2. now = [me EXCEPT !.pc = "taking", !.queue = list]
        BY <1>1, <1>10 DEF ListBlocked, GoOn, Goto
    <2>3. \A s \in list : milestone[s.id] = s.row
        OBVIOUS
    <2> HIDE DEF list
    <2>4. now.pc = "taking" /\ now.queue = list
        BY <2>1, <2>2 DEF Verification
    <2> QED BY <2>3, <2>4 DEF Current, FoundCertified
(* Reading a gate leaves the row and the copies.                           *)
<1>11. ASSUME me.pc \in GateReads, now.pc \in Certifying,
              now.on = me.on, now.row = me.row, now.queue = me.queue
       PROVE  Current(handler[h])'
    BY <1>1, <1>11 DEF Current
<1>12. CASE ReadPredecessor(h)
    <2>1. me \in Verification /\ me.pc = "predecessors"
        BY <1>12, StateOf DEF ReadPredecessor, At
    <2>2. PICK p \in me.left :
              now = [me EXCEPT !.left = @ \ {p},
                               !.blocked = @ \/ Uncertified(p),
                               !.pc = IF me.left = {p} THEN "inspections" ELSE @]
        BY <1>1, <1>12 DEF ReadPredecessor, GoOn, Goto
    <2>3. /\ now.pc = IF me.left = {p} THEN "inspections" ELSE "predecessors"
          /\ now.left = me.left \ {p} /\ now.row = me.row /\ now.on = me.on
          /\ now.queue = me.queue
          /\ now.blocked = (me.blocked \/ Uncertified(p))
        BY <2>1, <2>2 DEF Verification
    <2>4. Uncertified(p) \/ Certified(p)
        <3>1. p \in Milestones
            BY <2>1 DEF Verification
        <3> QED BY <1>1, <3>1 DEF Uncertified, Certified, FinalIsSealed
    <2>5. Current(handler[h])'
        BY <1>11, <2>1, <2>3
    <2>6. me.on \notin byHand /\ ~me.blocked =>
              \A q \in me.row.plan.after \ me.left : Certified(q)
        BY <1>1, <2>1 DEF FoundCertified
    <2>7. now.on \notin byHand' /\ ~now.blocked =>
              \A q \in now.row.plan.after \ now.left : Certified(q)'
        BY <1>3, <2>3, <2>4, <2>6
    <2> QED BY <2>3, <2>5, <2>7 DEF FoundCertified
<1>13. CASE ReadInspections(h) \/ ReadIssues(h)
    <2>1. me \in Verification /\ me.pc \in {"inspections", "issues"}
        BY <1>13, StateOf DEF ReadInspections, ReadIssues, At
    <2>2. /\ now.pc \in {"issues", "orders"} /\ now.on = me.on /\ now.row = me.row
          /\ now.left = me.left /\ now.queue = me.queue
          /\ ~now.blocked => ~me.blocked
        <3>1. CASE ReadInspections(h)
            BY <1>1, <2>1, <3>1 DEF ReadInspections, GoOn, Goto, Verification
        <3>2. CASE ReadIssues(h)
            BY <1>1, <2>1, <3>2 DEF ReadIssues, GoOn, Goto, Verification
        <3> QED BY <1>13, <3>1, <3>2
    <2>3. Current(handler[h])'
        BY <1>11, <2>1, <2>2
    <2> QED BY <1>1, <1>3, <2>1, <2>2, <2>3 DEF FoundCertified
(* The last gate decides.                                                  *)
<1>14. ASSUME me \in Verification, me.pc = "orders", NEW stopped \in BOOLEAN,
              now = Decided(me, stopped)
       PROVE  Current(handler[h])' /\ FoundCertified(handler[h])'
    <2>1. me \in Verification /\ me.pc = "orders"
        BY <1>14
    <2>2. PICK label \in {"unblocking", "taking", "sealing", "idle"} :
              /\ now = IF label = "idle" THEN Idle ELSE [me EXCEPT !.pc = label]
              /\ label = "sealing" => me.waive \/ Clear(me, stopped)
        BY <1>14, Decides
    <2>3. /\ now.pc = label
          /\ label # "idle" => /\ now.on = me.on /\ now.row = me.row /\ now.queue = me.queue
                               /\ now.waive = me.waive
        BY <2>1, <2>2 DEF Verification, Idle
    <2>4. me.left = {}
        BY <2>1 DEF GateInv, ReadSoFar
    <2>5. Current(handler[h])'
        <3>1. CASE label \in {"unblocking", "sealing"}
            BY <1>11, <2>1, <2>3, <3>1
        <3>2. CASE label = "taking"
            BY <1>1, <2>1, <2>3, <3>2 DEF Current
        <3>3. CASE label = "idle"
            BY <2>3, <3>3 DEF Current
        <3> QED BY <2>2, <3>1, <3>2, <3>3
    <2>6. me.on \notin byHand /\ ~me.blocked =>
              \A q \in me.row.plan.after : Certified(q)
        BY <1>1, <2>1, <2>4 DEF FoundCertified
    <2>7. label = "sealing" /\ ~me.waive => ~me.blocked
        BY <2>2 DEF Clear
    <2>8. FoundCertified(handler[h])'
        BY <1>3, <2>2, <2>3, <2>6, <2>7 DEF FoundCertified
    <2> QED BY <2>5, <2>8
<1>15. CASE ReadOrders(h)
    <2>1. me \in Verification /\ me.pc = "orders"
        BY <1>15, StateOf DEF ReadOrders, At
    <2>2. now = Decided(me, orders > 0)
        BY <1>1, <1>15 DEF ReadOrders, GoOn, Goto
    <2> QED BY <1>14, <2>1, <2>2, (orders > 0) \in BOOLEAN
<1>16. CASE Overlook(h)
    <2>1. me \in Verification
        BY <1>16, Faulty
    <2>2. \/ me.pc = "inspections" /\ now = [me EXCEPT !.pc = "issues"]
          \/ me.pc = "orders" /\ now = Decided(me, FALSE)
        BY <1>1, <1>16 DEF Overlook, GoOn, Goto, At
    <2>3. CASE me.pc = "inspections" /\ now = [me EXCEPT !.pc = "issues"]
        <3>1. /\ now.pc = "issues" /\ now.on = me.on /\ now.row = me.row
              /\ now.left = me.left /\ now.queue = me.queue /\ now.blocked = me.blocked
            BY <2>1, <2>3 DEF Verification
        <3>2. Current(handler[h])'
            BY <1>11, <2>3, <3>1
        <3> QED BY <1>1, <1>3, <2>3, <3>1, <3>2 DEF FoundCertified
    <2>4. CASE me.pc = "orders" /\ now = Decided(me, FALSE)
        BY <1>14, <2>1, <2>4
    <2> QED BY <2>2, <2>3, <2>4
<1> QED BY <1>5, <1>6, <1>8, <1>9, <1>10, <1>12, <1>13, <1>15, <1>16 DEF Touches

LEMMA BuiltInit == ASSUME Init PROVE BuiltInv
<1>1. \A h \in Handlers : handler[h].pc = "idle"
    BY DEF Init, Idle
<1>2. ~Collision
    <2>1. \A h \in Handlers : Holds(handler[h]) = {}
        BY <1>1 DEF Holds, Verifying
    <2> QED BY <2>1 DEF Collision
<1>3. \A h \in Handlers : Current(handler[h]) /\ FoundCertified(handler[h])
    BY <1>1 DEF Current, FoundCertified, InVerification, Certifying, GateReads, Deciding
<1>4. ASSUME NEW m \in Milestones, Exists(m)
      PROVE  /\ milestone[m].status \in Final => milestone[m].sealed
             /\ \A p \in milestone[m].plan.after :
                   milestone[p] # Absent /\ (milestone[m].sealed => Certified(p))
    <2>1. milestone[m] \in Earlier \cup {SignedOff(row, FALSE) : row \in Earlier}
        BY <1>4 DEF Init, Exists
    <2>2. \A row \in Earlier : row.status \notin Final /\ row \in Row
        <3> SUFFICES ASSUME NEW p \in Plans, NEW s \in {"PLANNED", "BLOCKED"}, NEW d \in BOOLEAN
                     PROVE  New(p, s, d).status \notin Final /\ New(p, s, d) \in Row
            BY DEF Earlier
        <3>1. s \in Settable
            BY DEF Settable
        <3> QED BY <3>1, RowsAreTyped DEF New, Final
    <2>3. \A row \in Row : SignedOff(row, FALSE).sealed
        BY DEF SignedOff, Row
    <2>4. \A p \in milestone[m].plan.after :
              Exists(p) /\ (milestone[m].sealed => milestone[p].sealed)
        BY <1>4 DEF Init
    <2> QED BY <2>1, <2>2, <2>3, <2>4 DEF Exists, Certified
<1> QED BY <1>2, <1>3, <1>4 DEF BuiltInv, FinalIsSealed, NamedExist, SealedOnSealed

(* Who may yet save a copy of a row: the row is there.                     *)
LEMMA UsedExist ==
    ASSUME TypeOK, BuiltInv, ~crossed, NEW g \in Handlers
    PROVE  \A x \in Uses(handler[g]) : milestone[x] \in Row
<1> USE DEF InVerification, Certifying, GateReads, Deciding
<1> DEFINE me == handler[g]
<1>1. Current(me)
    BY DEF BuiltInv
<1>2. CASE me.pc = "saving"
    BY <1>1, <1>2 DEF Current, Agrees, Uses
<1>3. CASE me.pc \in InVerification
    <2>1. me \in Verification
        BY <1>3, StateOf
    <2>2. me.row \in Row /\ \A s \in me.queue : s.row \in Row
        BY <2>1 DEF Verification
    <2> QED BY <1>1, <1>3, <2>2 DEF Current, Uses
<1> QED BY <1>2, <1>3 DEF Uses

LEMMA BuiltNext ==
    ASSUME TypeOK, TypeOK', Next, GateInv, BuiltInv
    PROVE  BuiltInv'
<1>1. /\ handler \in [Handlers -> HandlerState]
      /\ milestone \in [Milestones -> {Absent, Deleted} \cup Row]
    BY DEF TypeOK
<1>2. byHand \subseteq byHand'
    BY DEF Next, History
<1>3. /\ Collision' => crossed'
      /\ crossed => crossed'
    BY DEF Next, History
<1>4. SUFFICES ASSUME ~crossed'
               PROVE  /\ FinalIsSealed' /\ NamedExist' /\ SealedOnSealed'
                      /\ \A g \in Handlers : Current(handler[g])' /\ FoundCertified(handler[g])'
    BY <1>3 DEF BuiltInv
<1>5. ~crossed /\ ~Collision'
    BY <1>3, <1>4
<1>6. FinalIsSealed /\ NamedExist /\ SealedOnSealed
    BY <1>5 DEF BuiltInv
<1>7. \A row \in Row : row \notin {Absent, Deleted}
    BY RowsAreTyped
<1>8. ASSUME NEW x \in Milestones, Exists(x), NEW p \in milestone[x].plan.after
      PROVE  p \in Milestones
    BY <1>1, <1>8 DEF Exists, Row, Plan
(* A handler that saved a row, and nobody else uses it.                    *)
<1>9. ASSUME NEW h \in Handlers, NEW m \in Uses(handler[h]), m \in Milestones, NEW new,
             milestone' = [milestone EXCEPT ![m] = new],
             NEW state, handler' = [handler EXCEPT ![h] = state],
             Keeps, NEW g \in Handlers, g # h
      PROVE  Current(handler[g])' /\ FoundCertified(handler[g])'
    <2>1. handler'[g] = handler[g]
        BY <1>1, <1>9
    <2>2. m \notin Uses(handler[g])
        BY <1>5, <1>9, UsedAlone
    <2>3. \A x \in Uses(handler[g]) : x \in Milestones
        <3>1. handler[g].pc \in InVerification \cup {"saving"} => handler[g].on \in Milestones
            BY <1>1 DEF HandlerState, Verification, Idle, InVerification, Certifying, GateReads,
                        Deciding
        <3>2. handler[g].pc \in InVerification => \A s \in handler[g].queue : s.id \in Milestones
            BY StateOf DEF Verification, InVerification, Certifying, Deciding
        <3> QED BY <3>1, <3>2 DEF Uses, InVerification, Certifying, GateReads, Deciding
    <2>4. \A x \in Uses(handler[g]) : milestone'[x] = milestone[x]
        BY <1>1, <1>9, <2>2, <2>3
    <2> QED BY <1>2, <1>5, <1>9, <2>1, <2>4, OthersKeep
<1>10. ASSUME NEW h \in Handlers, NEW m \in Milestones, NEW plan \in Plans, NEW s \in Settable,
              Create(h, m, plan, s)
       PROVE  /\ FinalIsSealed' /\ NamedExist' /\ SealedOnSealed'
              /\ \A g \in Handlers : Current(handler[g])' /\ FoundCertified(handler[g])'
    <2> DEFINE new == New(plan, s, FALSE)
    <2>1. /\ milestone[m] = Absent /\ milestone' = [milestone EXCEPT ![m] = new]
          /\ handler' = handler
        BY <1>10 DEF Create, Saved
    <2>2. /\ new \in Row /\ new.status = s /\ new.plan = plan /\ ~new.sealed
        BY RowsAreTyped DEF New
    <2> HIDE DEF new
    <2>3. milestone'[m] = new /\ \A x \in Milestones \ {m} : milestone'[x] = milestone[x]
        BY <1>1, <2>1
    <2>4. new # Absent
        BY <1>7, <2>2
    <2>5. Keeps
        BY <1>2, <2>1, <2>3 DEF Keeps, Certified, Exists
    <2>6. m \notin byHand' => s \notin Final /\ \A p \in plan.after : Exists(p)
        BY <2>1, <2>2, <2>3, <2>4 DEF Next, History
    <2>7. FinalIsSealed'
        BY <1>2, <1>6, <2>2, <2>3, <2>6 DEF FinalIsSealed, Exists
    <2>8. ASSUME NEW x \in Milestones, x \notin byHand', Exists(x)', x # m
          PROVE  /\ Exists(x) /\ x \notin byHand /\ milestone'[x] = milestone[x]
                 /\ \A p \in milestone[x].plan.after : p \in Milestones /\ milestone[p] # Absent
        <3>1. Exists(x) /\ x \notin byHand /\ milestone'[x] = milestone[x]
            BY <1>2, <2>3, <2>8 DEF Exists
        <3> QED BY <1>6, <1>8, <3>1 DEF NamedExist
    <2>9. NamedExist'
        <3> SUFFICES ASSUME NEW x \in Milestones, x \notin byHand', Exists(x)',
                            NEW p \in milestone'[x].plan.after
                     PROVE  milestone'[p] # Absent
            BY DEF NamedExist
        <3>1. CASE x = m
            <4>1. Exists(p) /\ p \in Milestones
                BY <2>2, <2>3, <2>6, <3>1 DEF Row, Plan
            <4> QED BY <2>1, <2>3, <4>1 DEF Exists
        <3>2. CASE x # m
            <4>1. p \in Milestones /\ milestone[p] # Absent
                BY <2>8, <3>2
            <4> QED BY <2>1, <2>3, <4>1
        <3> QED BY <3>1, <3>2
    <2>10. SealedOnSealed'
        <3> SUFFICES ASSUME NEW x \in Milestones, x \notin byHand', Exists(x)',
                            milestone'[x].sealed, ~milestone'[x].waived,
                            NEW p \in milestone'[x].plan.after
                     PROVE  Certified(p)'
            BY DEF SealedOnSealed
        <3>1. x # m
            BY <2>2, <2>3
        <3>2. Certified(p) /\ p \in Milestones /\ milestone[p] # Absent
            BY <1>6, <2>8, <3>1 DEF SealedOnSealed
        <3> QED BY <2>5, <3>2 DEF Keeps
    <2>11. ASSUME NEW g \in Handlers
           PROVE  Current(handler[g])' /\ FoundCertified(handler[g])'
        <3>1. m \notin Uses(handler[g])
            BY <1>5, <1>7, <2>1, UsedExist
        <3>2. milestone' = [x \in Milestones |-> IF x = m THEN new ELSE milestone[x]]
            BY <1>1, <2>1
        <3>3. \A x \in Uses(handler[g]) : milestone'[x] = milestone[x]
            BY <1>1, <2>1, <3>1
        <3> QED BY <1>2, <1>5, <2>1, <2>5, <3>3, OthersKeep
    <2> QED BY <2>7, <2>9, <2>10, <2>11
<1>11. ASSUME NEW h \in Handlers, NEW m \in Milestones, Delete(h, m)
       PROVE  /\ FinalIsSealed' /\ NamedExist' /\ SealedOnSealed'
              /\ \A g \in Handlers : Current(handler[g])' /\ FoundCertified(handler[g])'
    <2>1. milestone' = [milestone EXCEPT ![m] = Deleted] /\ handler' = handler
        BY <1>11 DEF Delete, Saved
    <2>2. FinalIsSealed' /\ NamedExist' /\ SealedOnSealed' /\ Keeps
        BY <1>2, <1>5, <2>1, RowSaved
    <2>3. ASSUME NEW g \in Handlers
          PROVE  Current(handler[g])' /\ FoundCertified(handler[g])'
        <3>1. m \notin Holds(handler[g])
            BY <1>1, <1>5, <2>1 DEF Collision
        <3>2. m \notin Uses(handler[g])
            BY <3>1, UsesAreHeld
        <3>3. \A x \in Uses(handler[g]) : milestone'[x] = milestone[x]
            BY <1>1, <2>1, <3>2
        <3> QED BY <1>2, <1>5, <2>1, <2>2, <3>3, OthersKeep
    <2> QED BY <2>2, <2>3
<1>12. ASSUME NEW h \in Handlers, Save(h)
       PROVE  /\ FinalIsSealed' /\ NamedExist' /\ SealedOnSealed'
              /\ \A g \in Handlers : Current(handler[g])' /\ FoundCertified(handler[g])'
    <2> DEFINE me == handler[h]
    <2>1. /\ me.pc = "saving"
          /\ milestone' = [milestone EXCEPT ![me.on] = me.row]
          /\ handler' = [handler EXCEPT ![h] = Idle]
        BY <1>12 DEF Save, At, Saved, GoOn, Goto
    <2>2. me.on \in Milestones /\ me.row \in Row
        BY <1>1, <2>1 DEF HandlerState, Verification, Idle, GateReads
    <2>3. Agrees(me.op, me.row, milestone[me.on])
        BY <1>5, <2>1 DEF BuiltInv, Current
    <2>4. me.op = "edit" => me.on \in byHand'
        BY <2>1 DEF Next, History, Free, Idle
    <2>5. Exists(me.on)
        BY <1>7, <2>3 DEF Agrees, Exists
    <2>6. me.row.status \in Final => me.row.sealed \/ me.on \in byHand'
        BY <1>2, <1>6, <2>2, <2>3, <2>4, <2>5 DEF FinalIsSealed, Agrees
    <2>7. FinalIsSealed' /\ NamedExist' /\ SealedOnSealed' /\ Keeps
        BY <1>2, <1>5, <2>1, <2>2, <2>3, <2>4, <2>5, <2>6, RowSaved DEF Agrees
    <2>8. me.on \in Uses(handler[h])
        BY <2>1 DEF Uses
    <2>9. handler'[h].pc = "idle"
        BY <1>1, <2>1 DEF Idle
    <2>10. Current(handler[h])' /\ FoundCertified(handler[h])'
        BY <2>9 DEF Current, FoundCertified, InVerification, Certifying, GateReads, Deciding
    <2> QED BY <1>9, <2>1, <2>2, <2>7, <2>8, <2>10
<1>13. ASSUME NEW h \in Handlers, Seal(h) \/ Unblock(h)
       PROVE  /\ FinalIsSealed' /\ NamedExist' /\ SealedOnSealed'
              /\ \A g \in Handlers : Current(handler[g])' /\ FoundCertified(handler[g])'
    <2> DEFINE me == handler[h]
    <2>1. me \in Verification /\ me.pc \in {"sealing", "unblocking"}
        BY <1>13, StateOf DEF Seal, Unblock, At
    <2>2. me.on \in Milestones /\ me.row \in Row /\ me.waive \in BOOLEAN
        BY <2>1 DEF Verification
    <2>3. /\ milestone[me.on] = me.row
          /\ \A s \in me.queue : s.id # me.on /\ milestone[s.id] = s.row
        BY <1>5, <2>1 DEF BuiltInv, Current, InVerification, Certifying, Deciding
    <2>4. Exists(me.on)
        BY <1>7, <2>2, <2>3 DEF Exists
    <2>5. PICK new, state :
              /\ milestone' = [milestone EXCEPT ![me.on] = new]
              /\ handler' = [handler EXCEPT ![h] = state]
              /\ state.pc \in {"listing", "taking"} /\ state.queue = me.queue
              /\ new \in Row /\ new.plan = me.row.plan
              /\ me.row.sealed => new.sealed
              /\ new.status \in Final => new.sealed
              /\ new.sealed /\ ~new.waived =>
                    \/ me.row.sealed /\ ~me.row.waived
                    \/ me.pc = "sealing" /\ ~me.waive
        <3>1. CASE Seal(h)
            <4> DEFINE new == SignedOff(me.row, me.waive)
                       state == [me EXCEPT !.pc = "listing", !.op = "unblock"]
            <4>1. /\ milestone' = [milestone EXCEPT ![me.on] = new]
                  /\ handler' = [handler EXCEPT ![h] = state]
                  /\ me.pc = "sealing"
                BY <3>1 DEF Seal, Saved, GoOn, Goto, At
            <4>2. state.pc = "listing" /\ state.queue = me.queue
                BY <2>1 DEF Verification
            <4>3. /\ new \in Row /\ new.plan = me.row.plan
                  /\ new.sealed /\ new.waived = me.waive
                BY <2>2 DEF SignedOff, Row
            <4> HIDE DEF new, state
            <4> QED BY <4>1, <4>2, <4>3
        <3>2. CASE Unblock(h)
            <4> DEFINE status == IF me.row.progress = "none" THEN "PLANNED" ELSE "IN_PROGRESS"
                       new == [me.row EXCEPT !.status = status]
                       state == [me EXCEPT !.pc = "taking"]
            <4>1. /\ milestone' = [milestone EXCEPT ![me.on] = new]
                  /\ handler' = [handler EXCEPT ![h] = state]
                BY <3>2 DEF Unblock, Saved, GoOn, Goto
            <4>2. state.pc = "taking" /\ state.queue = me.queue
                BY <2>1 DEF Verification
            <4>3. status \in {"PLANNED", "IN_PROGRESS"}
                OBVIOUS
            <4> HIDE DEF status
            <4>4. /\ new \in Row /\ new.plan = me.row.plan /\ new.status = status
                  /\ new.sealed = me.row.sealed /\ new.waived = me.row.waived
                BY <2>2, <4>3 DEF Row, Settable
            <4> HIDE DEF new, state
            <4> QED BY <4>1, <4>2, <4>3, <4>4 DEF Final
        <3> QED BY <1>13, <3>1, <3>2
    <2>6. me.pc = "sealing" /\ ~me.waive =>
              me.on \in byHand \/ \A p \in me.row.plan.after : Certified(p)
        BY <1>5 DEF BuiltInv, FoundCertified
    <2>7. FinalIsSealed' /\ NamedExist' /\ SealedOnSealed' /\ Keeps
        BY <1>2, <1>5, <2>2, <2>3, <2>4, <2>5, <2>6, RowSaved
    <2>8. me.on \in Uses(handler[h])
        BY <2>1 DEF Uses, Certifying, GateReads, Deciding
    <2>9. handler'[h] = state
        BY <1>1, <2>5
    <2>10. \A s \in me.queue : milestone'[s.id] = s.row
        <3>1. me.queue \subseteq [id : Milestones, row : Row]
            BY <2>1 DEF Verification
        <3> QED BY <1>1, <2>3, <2>5, <3>1
    <2>11. Current(handler[h])' /\ FoundCertified(handler[h])'
        BY <2>5, <2>9, <2>10 DEF Current, FoundCertified, InVerification, Certifying, GateReads,
                                 Deciding
    <2> QED BY <1>9, <2>2, <2>5, <2>7, <2>8, <2>11
<1>14. CASE /\ UNCHANGED milestone
            /\ \A h \in Handlers : handler'[h] = handler[h] \/ Touches(h) \/ Off(h)
    <2>1. \A p : Certified(p) => Certified(p)'
        BY <1>2, <1>14 DEF Certified, Exists
    <2>2. FinalIsSealed' /\ NamedExist'
        BY <1>2, <1>6, <1>14 DEF FinalIsSealed, NamedExist, Exists
    <2>3. SealedOnSealed'
        <3> SUFFICES ASSUME NEW x \in Milestones, x \notin byHand', Exists(x)',
                            milestone'[x].sealed, ~milestone'[x].waived,
                            NEW p \in milestone'[x].plan.after
                     PROVE  Certified(p)'
            BY DEF SealedOnSealed
        <3>1. Certified(p)
            BY <1>2, <1>6, <1>14 DEF SealedOnSealed, Exists
        <3> QED BY <2>1, <3>1
    <2>4. ASSUME NEW g \in Handlers
          PROVE  Current(handler[g])' /\ FoundCertified(handler[g])'
        <3>1. CASE handler'[g] = handler[g]
            <4>1. Keeps
                BY <2>1 DEF Keeps
            <4> QED BY <1>2, <1>5, <1>14, <3>1, <4>1, OthersKeep
        <3>2. CASE Touches(g)
            BY <1>2, <1>5, <1>14, <3>2, TouchesKeep
        <3>3. CASE Off(g)
            BY <3>3 DEF Off, Current, FoundCertified, InVerification, Certifying, Deciding
        <3> QED BY <1>14, <3>1, <3>2, <3>3
    <2> QED BY <2>2, <2>3, <2>4
<1> QED BY <1>10, <1>11, <1>12, <1>13, <1>14, MilestoneSteps

(* As long as no two requests held copies of one row, a milestone signed   *)
(* off without an override stands on milestones that were signed off       *)
(* themselves, for any number of milestones and requests.                  *)
THEOREM BuiltOnSealed == Spec => []BuiltOnCertified
<1>1. TypeOK /\ GateInv /\ BuiltInv /\ UNCHANGED vars => GateInv' /\ BuiltInv'
    <2>1. TypeOK /\ GateInv /\ UNCHANGED vars => GateInv'
        BY DEF GateInv, ReadSoFar, Passed, vars, history
    <2>2. ASSUME BuiltInv, UNCHANGED vars
          PROVE  BuiltInv'
        <3>1. UNCHANGED <<milestone, handler, byHand, crossed>>
            BY <2>2 DEF vars, rows, history
        <3>2. (Collision <=> Collision') /\ \A p : Certified(p) <=> Certified(p)'
            BY <3>1 DEF Collision, Holds, Verifying, Certified, Exists
        <3>3. /\ FinalIsSealed => FinalIsSealed'
              /\ NamedExist => NamedExist'
              /\ SealedOnSealed => SealedOnSealed'
            BY <3>1, <3>2 DEF FinalIsSealed, NamedExist, SealedOnSealed, Exists
        <3>4. ASSUME NEW h \in Handlers, Current(handler[h]), FoundCertified(handler[h])
              PROVE  Current(handler[h])' /\ FoundCertified(handler[h])'
            BY <3>1, <3>2, <3>4 DEF Current, FoundCertified
        <3> QED BY <2>2, <3>1, <3>2, <3>3, <3>4 DEF BuiltInv
    <2> QED BY <2>1, <2>2
<1>2. Init => TypeOK /\ GateInv /\ BuiltInv
    BY InitTypes, GateInit, BuiltInit
<1>3. TypeOK /\ TypeOK' /\ GateInv /\ BuiltInv /\ [Next]_vars => GateInv' /\ BuiltInv'
    BY <1>1, GateNext, BuiltNext
<1>4. BuiltInv => BuiltOnCertified
    BY DEF BuiltInv, SealedOnSealed, Certified, BuiltOnCertified
<1> QED BY <1>2, <1>3, <1>4, TypesHold, PTL DEF Spec
----------------------------------------------------------------------------
(***************************************************************************)
(* Unblocking successors.  While a handler is at work on its own, whatever *)
(* is blocked is still to be looked at by it, or was found to be held up;  *)
(* and its copies are what the database has.                               *)
(***************************************************************************)
Alone == \A g, h \in Busy : g = h

Awaited(me, m) ==
    \/ \E s \in me.queue : s.id = m
    \/ me.pc \in GateReads \cup {"unblocking"} /\ me.on = m

Sweeping(me) ==
    /\ \A s \in me.queue : s.id \in Blocked /\ s.row = milestone[s.id]
    /\ me.pc \in Certifying =>
          /\ me.on \in Blocked /\ me.row = milestone[me.on]
          /\ \A s \in me.queue : s.id # me.on
    /\ me.pc \in GateReads =>
          /\ me.left \subseteq me.row.plan.after
          /\ me.blocked => Hindered(me.on)
    /\ \A m \in Blocked : Hindered(m) \/ Awaited(me, m)

Orderly(me) ==
    /\ me.pc \in {"listing", "taking", "unblocking"} => me.op = "unblock"
    /\ me.pc \in InVerification \ {"listing"} /\ me.op = "unblock" => Sweeping(me)

SweepInv == ~met => Alone /\ \A h \in Handlers : Orderly(handler[h])

(* The steps of a verification under way.                                  *)
Sweeps(h) ==
    \/ ReadPredecessor(h) \/ ReadInspections(h) \/ ReadIssues(h) \/ ReadOrders(h)
    \/ Seal(h) \/ ListBlocked(h) \/ Take(h) \/ Unblock(h) \/ Verified(h)
    \/ Overlook(h) \/ Stumble(h) \/ (Raise(h) /\ faults' # faults)
    \/ Kill(h)

(* Who is at work on its own takes the next step, unless somebody joins.   *)
LEMMA OwnSteps ==
    ASSUME TypeOK, Next, ~met', Alone,
           NEW h \in Handlers, handler[h].pc \in InVerification
    PROVE  Sweeps(h)
<1> USE DEF InVerification, Certifying, GateReads, Deciding
<1>1. handler \in [Handlers -> HandlerState]
    BY DEF TypeOK
<1>2. h \in Busy
    BY DEF Busy, Free
<1>3. handler' # handler
    BY <1>2 DEF Next, History
<1>4. ASSUME NEW f \in Handlers, NEW g \in Handlers, ~Free(f)', ~Free(g)'
      PROVE  f = g
    BY <1>4 DEF Next, History, Busy
<1>5. ASSUME NEW g \in Handlers, ~Free(g) PROVE g = h
    BY <1>2, <1>5 DEF Alone, Busy
<1>6. ASSUME NEW g \in Handlers, NEW state, Free(g), state.pc # "idle",
             handler' = [handler EXCEPT ![g] = state]
      PROVE  FALSE
    <2>1. g # h
        BY <1>2, <1>6 DEF Busy
    <2>2. handler'[g] = state /\ handler'[h] = handler[h]
        BY <1>1, <1>6, <2>1
    <2>3. ~Free(g)' /\ ~Free(h)'
        BY <1>6, <2>2 DEF Free
    <2> QED BY <1>4, <2>1, <2>3
<1>7. ASSUME NEW g \in Handlers, NEW m \in Milestones,
             \/ \E p \in Plans, s \in Settable : Create(g, m, p, s) \/ Edit(g, m, s, p)
             \/ Delete(g, m)
             \/ \E what \in Amendments : Amend(g, m, what)
      PROVE  FALSE
    <2>1. CASE \/ \E p \in Plans, s \in Settable : Create(g, m, p, s)
               \/ Delete(g, m)
        BY <1>3, <2>1 DEF Create, Delete
    <2>2. CASE \E p \in Plans, s \in Settable : Edit(g, m, s, p)
        BY <1>6, <2>2 DEF Edit, Begin, Goto
    <2>3. CASE \E what \in Amendments : Amend(g, m, what)
        BY <1>6, <2>3 DEF Amend, Begin, Goto
    <2> QED BY <1>7, <2>1, <2>2, <2>3
<1>8. ASSUME NEW g \in Handlers, NEW m \in Milestones, NEW waive \in BOOLEAN,
             Verify(g, m, waive)
      PROVE  FALSE
    <2> DEFINE blank == [pc |-> "", op |-> "verify", on |-> m, row |-> Absent,
                         left |-> {}, blocked |-> FALSE, failed |-> FALSE,
                         waive |-> waive, queue |-> {}]
    <2>1. Evaluating(blank, m, milestone[m]).pc # "idle"
        BY DEF Evaluating
    <2> HIDE DEF blank
    <2>2. Begin(g, Evaluating(blank, m, milestone[m]))
        BY <1>8 DEF Verify, blank
    <2> QED BY <1>6, <2>1, <2>2 DEF Begin, Goto
<1>9. ASSUME NEW g \in Handlers,
             \/ \E i \in Issues : Enforce(g, i)
             \/ \E inspected \in BOOLEAN : Suspend(g, inspected)
      PROVE  FALSE
    BY <1>6, <1>9 DEF Enforce, Suspend, Begin, Goto
<1>10. ASSUME NEW g \in Handlers, NEW v \in Surveys, Surveying(g, v)
       PROVE  FALSE
    <2>1. CASE \E waive \in BOOLEAN : Certify(g, v, waive)
        BY <1>6, <2>1 DEF Certify, Begin, Goto
    <2>2. CASE \E variance \in BOOLEAN, sent \in Sent : Revise(g, v, variance, sent)
        BY <1>6, <2>2 DEF Revise, Begin, Goto
    <2>3. CASE Flag(g, v) \/ Document(g, v)
        BY <1>6, <2>3 DEF Flag, Document, Begin, Goto
    <2> QED BY <1>10, <2>1, <2>2, <2>3 DEF Surveying
<1>11. ASSUME NEW g \in Handlers,
              Save(g) \/ LookForOrder(g) \/ Order(g) \/ Fail(g) \/ Announce(g) \/ File(g)
       PROVE  FALSE
    <2>1. handler[g].pc \in {"saving", "looking", "ordering", "failing", "announcing", "filing"}
        BY <1>11 DEF Save, LookForOrder, Order, Fail, Announce, File, At
    <2> QED BY <1>5, <2>1 DEF Free
<1>12. ASSUME NEW g \in Handlers, Sweeps(g) PROVE g = h
    <2>1. ~Free(g)
        BY <1>12 DEF Sweeps, ReadPredecessor, ReadInspections, ReadIssues, ReadOrders, Seal,
                     ListBlocked, Take, Unblock, Verified, Overlook, Stumble, Raise, Kill, At,
                     Free
    <2> QED BY <1>5, <2>1
<1>13. CASE \/ \E i \in Issues : ReportIssue(i) \/ EscalateIssue(i) \/ ResolveIssue(i)
            \/ LiftOrder
            \/ \E failed \in BOOLEAN : ConcludeInspection(failed)
            \/ \E v \in Surveys :
                  \/ \E variance \in BOOLEAN, sent \in Sent : Record(v, variance, sent)
                  \/ Remove(v)
    BY <1>3, <1>13 DEF ReportIssue, EscalateIssue, ResolveIssue, LiftOrder, ConcludeInspection,
                       Record, Remove, Event
<1>14. CASE Step
    BY <1>7, <1>8, <1>9, <1>10, <1>11, <1>12, <1>13, <1>14 DEF Step, Sweeps, Surveying
<1>15. CASE Fault
    <2>1. faults' # faults
        BY <1>15 DEF Fault, TypeOK
    <2>2. PICK g \in Handlers : Sweeps(g)
        BY <1>15, <2>1 DEF Fault, Sweeps
    <2> QED BY <1>12, <2>2
<1> QED BY <1>14, <1>15 DEF Next

(* A handler whose verification only begins.                               *)
LEMMA Joins ==
    ASSUME TypeOK, Next, NEW h \in Handlers,
           handler[h].pc \notin InVerification, handler'[h].pc \in InVerification
    PROVE  handler'[h].op = "verify" /\ handler'[h].pc \in GateReads
<1> USE DEF InVerification, Certifying, GateReads, Deciding
<1>1. handler \in [Handlers -> HandlerState]
    BY DEF TypeOK
<1>2. handler'[h] # handler[h]
    OBVIOUS
<1>3. CASE \E m \in Milestones, waive \in BOOLEAN : Verify(h, m, waive)
    <2>1. PICK m \in Milestones, waive \in BOOLEAN : Verify(h, m, waive)
        BY <1>3
    <2> DEFINE blank == [pc |-> "", op |-> "verify", on |-> m, row |-> Absent,
                         left |-> {}, blocked |-> FALSE, failed |-> FALSE,
                         waive |-> waive, queue |-> {}]
    <2>2. /\ Evaluating(blank, m, milestone[m]).pc \in {"inspections", "predecessors"}
          /\ Evaluating(blank, m, milestone[m]).op = "verify"
        BY DEF Evaluating
    <2> HIDE DEF blank
    <2>3. Begin(h, Evaluating(blank, m, milestone[m]))
        BY <2>1 DEF Verify, blank
    <2>4. handler'[h] = Evaluating(blank, m, milestone[m])
        BY <1>1, <2>3 DEF Begin, Goto
    <2> QED BY <2>2, <2>4
<1>4. CASE Off(h)
    BY <1>4 DEF Off
<1>5. CASE \/ \E m \in Milestones, p \in Plans, s \in Settable : Edit(h, m, s, p)
           \/ \E m \in Milestones, what \in Amendments : Amend(h, m, what)
    <2>1. CASE \E m \in Milestones, p \in Plans, s \in Settable : Edit(h, m, s, p)
        BY <1>1, <2>1 DEF Edit, Begin, Goto
    <2>2. CASE \E m \in Milestones, what \in Amendments : Amend(h, m, what)
        BY <1>1, <2>2 DEF Amend, Begin, Goto
    <2> QED BY <1>5, <2>1, <2>2
<1>6. CASE \E g \in Handlers, m \in Milestones :
               \/ \E p \in Plans, s \in Settable : Create(g, m, p, s)
               \/ Delete(g, m)
    BY <1>2, <1>6 DEF Create, Delete
<1>7. CASE \E g \in Handlers : Save(g) \/ Seal(g) \/ Unblock(g)
    <2>1. PICK g \in Handlers : Save(g) \/ Seal(g) \/ Unblock(g)
        BY <1>7
    <2>2. g = h
        BY <1>1, <1>2, <2>1 DEF Save, Seal, Unblock, GoOn, Goto
    <2>3. Save(h)
        BY <2>1, <2>2 DEF Seal, Unblock, At
    <2> QED BY <1>1, <2>3 DEF Save, GoOn, Goto, Idle
<1>8. ~(ReadPredecessor(h) \/ ReadInspections(h) \/ ReadIssues(h) \/ ReadOrders(h)
        \/ ListBlocked(h) \/ Take(h) \/ Overlook(h))
    BY DEF ReadPredecessor, ReadInspections, ReadIssues, ReadOrders, ListBlocked, Take, Overlook,
           At
<1> QED BY <1>2, <1>3, <1>4, <1>5, <1>6, <1>7, <1>8, MilestoneSteps DEF Touches
LEMMA RowsAsBefore ==
    ASSUME UNCHANGED rows
    PROVE  /\ UNCHANGED milestone
           /\ Blocked' = Blocked
           /\ \A m \in Milestones : Hindered(m)' <=> Hindered(m)
BY DEF rows, Blocked, Hindered, Uncertified, Exists, OpenIssues

(* The steps of a sweep that only read.                                    *)
LEMMA ReadsSweep ==
    ASSUME TypeOK, NEW h \in Handlers, Orderly(handler[h]),
           \/ ReadPredecessor(h) \/ ReadInspections(h) \/ ReadIssues(h) \/ ReadOrders(h)
           \/ ListBlocked(h) \/ Take(h) \/ Verified(h) \/ Overlook(h)
    PROVE  Orderly(handler[h])'
<1> DEFINE me == handler[h]   now == handler'[h]
<1> USE DEF InVerification, Certifying, GateReads, Deciding
<1>1. handler \in [Handlers -> HandlerState]
    BY DEF TypeOK
<1>2. me \in Verification
    BY StateOf DEF ReadPredecessor, ReadInspections, ReadIssues, ReadOrders, ListBlocked,
                   Take, Verified, Overlook, At
<1>3. /\ UNCHANGED rows
      /\ \A state : GoOn(h, state) => now = state
    BY <1>1 DEF ReadPredecessor, ReadInspections, ReadIssues, ReadOrders, ListBlocked, Take,
                Verified, Overlook, GoOn, Goto
<1>4. /\ UNCHANGED milestone
      /\ Blocked' = Blocked
      /\ \A m \in Milestones : Hindered(m)' <=> Hindered(m)
    BY <1>3, RowsAsBefore
<1>5. /\ Blocked \subseteq Milestones
      /\ me.on \in Milestones /\ me.row \in Row /\ me.blocked \in BOOLEAN
      /\ \A s \in me.queue : /\ s \in [id : Milestones, row : Row]
                             /\ s = [id |-> s.id, row |-> s.row]
    BY <1>2 DEF Blocked, Verification
(* A gate that was read: the verification is the same but for what was found*)
<1>6. ASSUME now.op = me.op, now.queue = me.queue, now.on = me.on, now.row = me.row,
             me.pc \in GateReads, now.pc \in GateReads, now.left \subseteq me.left,
             me.op = "unblock" /\ now.blocked => me.blocked \/ Hindered(me.on)
      PROVE  Orderly(handler[h])'
    <2> SUFFICES ASSUME me.op = "unblock"
                 PROVE  Sweeping(handler[h])'
        BY <1>6 DEF Orderly
    <2>1. Sweeping(me)
        BY <1>6 DEF Orderly
    <2>2. \A m : Awaited(now, m) <=> Awaited(me, m)
        BY <1>6 DEF Awaited
    <2>3. \A m \in Blocked : Hindered(m) \/ Awaited(now, m)
        BY <2>1, <2>2 DEF Sweeping
    <2>4. /\ \A s \in now.queue : s.id \in Blocked /\ s.row = milestone[s.id]
          /\ now.on \in Blocked /\ now.row = milestone[now.on]
          /\ \A s \in now.queue : s.id # now.on
          /\ now.left \subseteq now.row.plan.after
          /\ now.blocked => Hindered(now.on)
        BY <1>6, <2>1 DEF Sweeping
    <2>5. /\ \A m \in Blocked' : Hindered(m)' \/ Awaited(now, m)
          /\ now.blocked => Hindered(me.on)'
        BY <1>4, <1>5, <1>6, <2>3, <2>4
    <2> QED BY <1>4, <1>6, <2>4, <2>5 DEF Sweeping, Awaited
<1>7. CASE ReadPredecessor(h)
    <2>1. PICK p \in me.left :
              GoOn(h, [me EXCEPT !.left = @ \ {p},
                                 !.blocked = @ \/ Uncertified(p),
                                 !.pc = IF me.left = {p} THEN "inspections" ELSE @])
        BY <1>7 DEF ReadPredecessor
    <2>2. me.pc = "predecessors"
        BY <1>7 DEF ReadPredecessor, At
    <2>3. now = [me EXCEPT !.left = @ \ {p},
                           !.blocked = @ \/ Uncertified(p),
                           !.pc = IF me.left = {p} THEN "inspections" ELSE @]
        BY <1>3, <2>1
    <2>4. /\ now.op = me.op /\ now.queue = me.queue /\ now.on = me.on /\ now.row = me.row
          /\ now.pc \in GateReads /\ now.left \subseteq me.left
          /\ now.blocked = (me.blocked \/ Uncertified(p))
        BY <1>2, <2>2, <2>3 DEF Verification
    <2>5. me.op = "unblock" => p \in milestone[me.on].plan.after
        BY <2>2 DEF Orderly, Sweeping
    <2>6. me.op = "unblock" /\ Uncertified(p) => Hindered(me.on)
        BY <2>5 DEF Hindered
    <2> QED BY <1>6, <2>2, <2>4, <2>6
<1>8. CASE ReadInspections(h)
    <2>1. PICK failed : GoOn(h, [me EXCEPT !.pc = "issues", !.failed = failed])
        BY <1>8 DEF ReadInspections
    <2>2. me.pc = "inspections"
        BY <1>8 DEF ReadInspections, At
    <2>3. now = [me EXCEPT !.pc = "issues", !.failed = failed]
        BY <1>3, <2>1
    <2>4. /\ now.op = me.op /\ now.queue = me.queue /\ now.on = me.on /\ now.row = me.row
          /\ now.pc = "issues" /\ now.left = me.left /\ now.blocked = me.blocked
        BY <1>2, <2>3 DEF Verification
    <2> QED BY <1>6, <2>2, <2>4
<1>9. CASE ReadIssues(h)
    <2> DEFINE defects == "defects" \in me.row.plan.needs /\ OpenIssues # {}
    <2>1. GoOn(h, [me EXCEPT !.pc = "orders", !.blocked = @ \/ defects]) /\ me.pc = "issues"
        BY <1>9 DEF ReadIssues, At
    <2>2. now = [me EXCEPT !.pc = "orders", !.blocked = @ \/ defects]
        BY <1>3, <2>1
    <2>3. me.op = "unblock" /\ defects => Hindered(me.on)
        BY <2>1 DEF Hindered, Orderly, Sweeping
    <2> HIDE DEF defects
    <2>4. /\ now.op = me.op /\ now.queue = me.queue /\ now.on = me.on /\ now.row = me.row
          /\ now.pc = "orders" /\ now.left = me.left /\ now.blocked = (me.blocked \/ defects)
        BY <1>2, <2>2 DEF Verification
    <2> QED BY <1>6, <2>1, <2>3, <2>4
(* The last gate decides; what it found, if anything, holds the row up.    *)
<1>10. ASSUME me.pc = "orders", NEW stopped \in BOOLEAN, stopped => orders > 0,
              now = Decided(me, stopped)
       PROVE  Orderly(handler[h])'
    <2>1. PICK label \in {"unblocking", "taking", "sealing", "idle"} :
              /\ now = IF label = "idle" THEN Idle ELSE [me EXCEPT !.pc = label]
              /\ label = "unblocking" => me.op = "unblock"
              /\ label = "taking" => me.op = "unblock" /\ ~Clear(me, stopped)
              /\ label = "sealing" => me.op = "verify"
        BY <1>2, <1>10, Decides
    <2>2. CASE label = "idle"
        BY <2>1, <2>2 DEF Idle, Orderly
    <2>3. CASE label = "sealing"
        <3>1. now.pc = "sealing" /\ now.op = "verify"
            BY <1>2, <2>1, <2>3 DEF Verification
        <3> QED BY <3>1 DEF Orderly
    <2>4. CASE label \in {"unblocking", "taking"}
        <3>1. me.op = "unblock"
            BY <2>1, <2>4
        <3>2. Sweeping(me)
            BY <1>10, <3>1 DEF Orderly
        <3>3. label = "taking" => Hindered(me.on)
            <4>1. SUFFICES ASSUME label = "taking" PROVE Hindered(me.on)
                OBVIOUS
            <4>2. me.blocked \/ ("defects" \in me.row.plan.needs /\ orders > 0)
                BY <1>10, <2>1, <4>1 DEF Clear
            <4> QED BY <1>10, <3>2, <4>2 DEF Hindered, Sweeping
        <3>4. /\ now.op = "unblock" /\ now.queue = me.queue /\ now.on = me.on
              /\ now.row = me.row /\ now.pc = label
            BY <1>2, <2>1, <2>4, <3>1 DEF Verification
        <3>5. \A m \in Blocked : Hindered(m) \/ Awaited(now, m)
            BY <2>4, <3>2, <3>3, <3>4 DEF Sweeping, Awaited
        <3>6. \A m \in Blocked' : Hindered(m)' \/ Awaited(now, m)
            BY <1>4, <1>5, <3>5
        <3>7. Sweeping(handler[h])'
            BY <1>4, <1>10, <2>4, <3>2, <3>4, <3>6 DEF Sweeping, Awaited
        <3> QED BY <3>4, <3>7 DEF Orderly
    <2> QED BY <2>1, <2>2, <2>3, <2>4
<1>14. CASE ReadOrders(h)
    <2>1. me.pc = "orders" /\ now = Decided(me, orders > 0)
        BY <1>3, <1>14 DEF ReadOrders, At
    <2> QED BY <1>10, <2>1, (orders > 0) \in BOOLEAN
<1>15. CASE Overlook(h)
    <2>1. \/ me.pc = "inspections" /\ now = [me EXCEPT !.pc = "issues"]
          \/ me.pc = "orders" /\ now = Decided(me, FALSE)
        BY <1>3, <1>15 DEF Overlook, At
    <2>2. CASE me.pc = "inspections" /\ now = [me EXCEPT !.pc = "issues"]
        <3>1. /\ now.op = me.op /\ now.queue = me.queue /\ now.on = me.on /\ now.row = me.row
              /\ now.pc = "issues" /\ now.left = me.left /\ now.blocked = me.blocked
            BY <1>2, <2>2 DEF Verification
        <3> QED BY <1>6, <2>2, <3>1
    <2>3. CASE me.pc = "orders" /\ now = Decided(me, FALSE)
        BY <1>10, <2>3
    <2> QED BY <2>1, <2>2, <2>3
<1>11. CASE ListBlocked(h)
    <2> DEFINE found == {[id |-> m, row |-> milestone[m]] : m \in Blocked}
    <2>1. GoOn(h, [me EXCEPT !.pc = "taking", !.queue = found]) /\ me.pc = "listing"
        BY <1>11 DEF ListBlocked, At
    <2>2. now = [me EXCEPT !.pc = "taking", !.queue = found]
        BY <1>3, <2>1
    <2>3. me.op = "unblock"
        BY <2>1 DEF Orderly
    <2>4. \A s \in found : s.id \in Blocked /\ s.row = milestone[s.id]
        OBVIOUS
    <2>5. ASSUME NEW m \in Blocked PROVE \E s \in found : s.id = m
        <3>1. [id |-> m, row |-> milestone[m]] \in found
            OBVIOUS
        <3> QED BY <3>1
    <2> HIDE DEF found
    <2>6. now.pc = "taking" /\ now.queue = found /\ now.op = "unblock"
        BY <1>2, <2>2, <2>3 DEF Verification
    <2>7. Sweeping(handler[h])'
        BY <1>4, <2>4, <2>5, <2>6 DEF Sweeping, Awaited
    <2> QED BY <2>6, <2>7 DEF Orderly
<1>12. CASE Take(h)
    <2>1. PICK s \in me.queue :
              GoOn(h, Evaluating([me EXCEPT !.queue = @ \ {s}], s.id, s.row))
        BY <1>12 DEF Take
    <2>2. me.pc = "taking" /\ me.op = "unblock" /\ Sweeping(me)
        BY <1>12 DEF Take, At, Orderly
    <2>3. now = Evaluating([me EXCEPT !.queue = @ \ {s}], s.id, s.row)
        BY <1>3, <2>1
    <2>4. /\ now.pc \in {"predecessors", "inspections"} /\ now.op = "unblock"
          /\ now.queue = me.queue \ {s} /\ now.on = s.id /\ now.row = s.row
          /\ now.left = s.row.plan.after /\ ~now.blocked
        BY <1>2, <2>2, <2>3 DEF Evaluating, Verification
    <2>5. \A t \in now.queue : t.id # s.id
        BY <1>5, <2>2, <2>4 DEF Sweeping
    <2>6. \A m \in Blocked : Hindered(m) \/ Awaited(now, m)
        BY <2>2, <2>4 DEF Sweeping, Awaited
    <2>7. \A m \in Blocked' : Hindered(m)' \/ Awaited(now, m)
        BY <1>4, <1>5, <2>6
    <2>8. Sweeping(handler[h])'
        BY <1>4, <2>2, <2>4, <2>5, <2>7 DEF Sweeping, Awaited
    <2> QED BY <2>4, <2>8 DEF Orderly
<1>13. CASE Verified(h)
    BY <1>3, <1>13 DEF Verified, Idle, Orderly
<1> QED BY <1>7, <1>8, <1>9, <1>11, <1>12, <1>13, <1>14, <1>15

(* The two that save, and the end of one that is killed or that failed.    *)
LEMMA SavesSweep ==
    ASSUME TypeOK, NEW h \in Handlers, Orderly(handler[h]),
           Seal(h) \/ Unblock(h) \/ Kill(h) \/ Stumble(h) \/ Raise(h)
    PROVE  Orderly(handler[h])'
<1> DEFINE me == handler[h]   now == handler'[h]
<1> USE DEF InVerification, Certifying, GateReads, Deciding
<1>1. handler \in [Handlers -> HandlerState]
    BY DEF TypeOK
<1>2. CASE Kill(h) \/ Stumble(h) \/ Raise(h)
    BY <1>1, <1>2 DEF Kill, Stumble, Raise, GoOn, Goto, Idle, Orderly
<1>3. CASE Seal(h)
    <2>1. me \in Verification
        BY <1>3, StateOf DEF Seal, At
    <2>2. now = [me EXCEPT !.pc = "listing", !.op = "unblock"]
        BY <1>1, <1>3 DEF Seal, GoOn, Goto
    <2>3. now.pc = "listing" /\ now.op = "unblock"
        BY <2>1, <2>2 DEF Verification
    <2> QED BY <2>3 DEF Orderly
<1>4. CASE Unblock(h)
    <2>1. me \in Verification /\ me.pc = "unblocking"
        BY <1>4, StateOf DEF Unblock, At
    <2>2. me.op = "unblock" /\ Sweeping(me)
        BY <2>1 DEF Orderly
    <2> DEFINE status == IF me.row.progress = "none" THEN "PLANNED" ELSE "IN_PROGRESS"
               new == [me.row EXCEPT !.status = status]
    <2>3. /\ milestone' = [milestone EXCEPT ![me.on] = new]
          /\ UNCHANGED <<issue, orders>>
          /\ now = [me EXCEPT !.pc = "taking"]
        BY <1>1, <1>4 DEF Unblock, Saved, GoOn, Goto
    <2>4. /\ now.pc = "taking" /\ now.op = "unblock" /\ now.queue = me.queue
        BY <2>1, <2>2, <2>3 DEF Verification
    <2>5. status \in {"PLANNED", "IN_PROGRESS"}
        OBVIOUS
    <2>6. me.row \in Row /\ me.on \in Milestones
        BY <2>1 DEF Verification
    <2> HIDE DEF status
    <2>7. new \in Row /\ new.status = status /\ new.plan = me.row.plan
        BY <2>5, <2>6 DEF Row, Settable
    <2> HIDE DEF new
    <2>8. /\ milestone \in [Milestones -> {Absent, Deleted} \cup Row]
          /\ milestone[me.on] = me.row /\ me.row.status = "BLOCKED"
        BY <2>1, <2>2 DEF TypeOK, Sweeping, Blocked
    <2>9. /\ milestone'[me.on] = new
          /\ \A m \in Milestones \ {me.on} : milestone'[m] = milestone[m]
        BY <2>3, <2>6, <2>8
    <2>10. Blocked' = Blocked \ {me.on}
        BY <2>5, <2>6, <2>7, <2>8, <2>9 DEF Blocked
    <2>11. \A row \in Row : row \notin {Absent, Deleted}
        BY RowsAreTyped
    <2>12. ASSUME NEW p \in Milestones, Uncertified(p) PROVE Uncertified(p)'
        <3>1. CASE p = me.on
            BY <2>5, <2>7, <2>9, <2>11, <3>1 DEF Uncertified, Exists, Final
        <3>2. CASE p # me.on
            BY <2>9, <2>12, <3>2 DEF Uncertified, Exists
        <3> QED BY <3>1, <3>2
    <2>13. ASSUME NEW m \in Blocked', Hindered(m) PROVE Hindered(m)'
        <3>1. m \in Milestones /\ m # me.on /\ milestone'[m] = milestone[m]
            BY <2>9, <2>10, <2>13 DEF Blocked
        <3>2. milestone[m] \in Row
            BY <2>8, <2>10, <3>1 DEF Blocked, Absent, Deleted
        <3>3. milestone[m].plan.after \subseteq Milestones
            BY <3>2 DEF Row, Plan
        <3> QED BY <2>3, <2>12, <2>13, <3>1, <3>3 DEF Hindered, OpenIssues
    <2>14. \A m \in Blocked' : Awaited(me, m) => Awaited(now, m)
        BY <2>4, <2>10 DEF Awaited
    <2>15. \A m \in Blocked' : Hindered(m)' \/ Awaited(now, m)
        BY <2>2, <2>10, <2>13, <2>14 DEF Sweeping
    <2>16. \A s \in now.queue : s.id \in Blocked' /\ s.row = milestone'[s.id]
        BY <2>1, <2>2, <2>4, <2>9, <2>10 DEF Sweeping, Blocked
    <2>17. Sweeping(handler[h])'
        BY <2>4, <2>15, <2>16 DEF Sweeping, Awaited
    <2> QED BY <2>4, <2>17 DEF Orderly
<1> QED BY <1>2, <1>3, <1>4

LEMMA SweepNext ==
    ASSUME TypeOK, Next, SweepInv
    PROVE  SweepInv'
<1> SUFFICES ASSUME ~met' PROVE Alone' /\ \A h \in Handlers : Orderly(handler[h])'
    BY DEF SweepInv
<1>1. ~met /\ Alone'
    BY DEF Next, History, Alone
<1>2. ASSUME NEW h \in Handlers PROVE Orderly(handler[h])'
    <2>1. CASE handler[h].pc \in InVerification
        <3>1. Orderly(handler[h]) /\ Sweeps(h)
            BY <1>1, <2>1, OwnSteps DEF SweepInv
        <3> QED BY <3>1, ReadsSweep, SavesSweep DEF Sweeps
    <2>2. CASE handler[h].pc \notin InVerification /\ handler'[h].pc \in InVerification
        BY <2>2, Joins DEF Orderly, GateReads
    <2>3. CASE handler'[h].pc \notin InVerification
        BY <2>3 DEF Orderly, InVerification, Certifying, Deciding
    <2> QED BY <2>1, <2>2, <2>3
<1> QED BY <1>1, <1>2

(* When a verification that was signed off has come to its end, in whatever*)
(* way, and nothing else went on, all that is still blocked is held up by  *)
(* something, or a call failed just then, or a row that is blocked has     *)
(* garbled entries: for any number of milestones and any plan of them.     *)
THEOREM SuccessorsUnblocked == Spec => VerifyUnblocks
<1>1. Init => SweepInv
    BY DEF Init, SweepInv, Alone, Busy, Free, Orderly, Idle, InVerification, Certifying,
           GateReads, Deciding
<1>2. ASSUME SweepInv, UNCHANGED vars PROVE SweepInv'
    <2>1. UNCHANGED <<rows, handler, met>>
        BY <1>2 DEF vars, history
    <2>2. /\ UNCHANGED milestone
          /\ Blocked' = Blocked
          /\ \A m \in Milestones : Hindered(m)' <=> Hindered(m)
        BY <2>1, RowsAsBefore
    <2>3. ASSUME NEW h \in Handlers, Orderly(handler[h]) PROVE Orderly(handler[h])'
        <3>1. \A m \in Blocked : Hindered(m)' <=> Hindered(m)
            BY <2>2 DEF Blocked
        <3>2. Sweeping(handler[h]) => Sweeping(handler[h])'
            BY <2>1, <2>2, <3>1 DEF Sweeping, Awaited, Certifying, GateReads, Deciding
        <3> QED BY <2>1, <2>3, <3>2 DEF Orderly
    <2>4. Alone => Alone'
        BY <2>1 DEF Alone, Busy, Free
    <2> QED BY <1>2, <2>1, <2>3, <2>4 DEF SweepInv
<1>3. ASSUME TypeOK, Next, SweepInv, kills' = kills, ~met',
             NEW h \in Handlers, ~Free(h), handler[h].op = "unblock",
             handler'[h].pc = "idle"
      PROVE  \/ \A m \in Blocked : Hindered(m)
             \/ faults' # faults
             \/ \E m \in Blocked : milestone[m].plan.garbled
    <2> DEFINE me == handler[h]
    <2>1. me \in Verification
        BY <1>3 DEF TypeOK, HandlerState, Idle, Free, Amendments
    <2>2. me.pc \in InVerification
        BY <2>1 DEF Verification, InVerification, Certifying, Deciding
    <2>3. ~met /\ Orderly(me) /\ Sweeps(h)
        <3>1. ~met
            BY <1>3 DEF Next, History
        <3> QED BY <1>3, <2>2, <3>1, OwnSteps DEF SweepInv
    <2>4. \A state : GoOn(h, state) => handler'[h] = state
        <3>1. handler \in [Handlers -> HandlerState]
            BY <1>3 DEF TypeOK
        <3> QED BY <3>1 DEF GoOn, Goto
    (* Most steps lead on.                                                 *)
    <2>5. Verified(h) \/ Stumble(h) \/ (Raise(h) /\ faults' # faults)
        <3>1. ~Kill(h)
            BY <1>3 DEF Kill, TypeOK
        <3>2. ~ReadPredecessor(h)
            <4> SUFFICES ASSUME ReadPredecessor(h) PROVE FALSE
                OBVIOUS
            <4>1. PICK p \in me.left :
                      handler'[h] = [me EXCEPT !.left = @ \ {p},
                                               !.blocked = @ \/ Uncertified(p),
                                               !.pc = IF me.left = {p} THEN "inspections" ELSE @]
                BY <2>4 DEF ReadPredecessor
            <4>2. handler'[h].pc \in {"inspections", me.pc}
                BY <2>1, <4>1 DEF Verification
            <4> QED BY <1>3, <4>2 DEF Free
        <3>3. ~ReadInspections(h) /\ ~ReadIssues(h)
            <4> SUFFICES ASSUME ReadInspections(h) \/ ReadIssues(h) PROVE FALSE
                OBVIOUS
            <4>1. CASE ReadInspections(h)
                BY <1>3, <2>1, <2>4, <4>1 DEF ReadInspections, Verification
            <4>2. CASE ReadIssues(h)
                BY <1>3, <2>1, <2>4, <4>2 DEF ReadIssues, Verification
            <4> QED BY <4>1, <4>2
        <3>4. ~Seal(h) /\ ~ListBlocked(h) /\ ~Unblock(h)
            <4> SUFFICES ASSUME Seal(h) \/ ListBlocked(h) \/ Unblock(h) PROVE FALSE
                OBVIOUS
            <4>1. CASE Seal(h)
                BY <1>3, <2>1, <2>4, <4>1 DEF Seal, Verification
            <4>2. CASE ListBlocked(h)
                BY <1>3, <2>1, <2>4, <4>2 DEF ListBlocked, Verification
            <4>3. CASE Unblock(h)
                BY <1>3, <2>1, <2>4, <4>3 DEF Unblock, Verification
            <4> QED BY <4>1, <4>2, <4>3
        <3>5. ~Take(h)
            <4> SUFFICES ASSUME Take(h) PROVE FALSE
                OBVIOUS
            <4>1. PICK s \in me.queue :
                      handler'[h] = Evaluating([me EXCEPT !.queue = @ \ {s}], s.id, s.row)
                BY <2>4 DEF Take
            <4>2. handler'[h].pc \in {"predecessors", "inspections"}
                BY <2>1, <4>1 DEF Evaluating, Verification
            <4> QED BY <1>3, <4>2
        <3>6. ~ReadOrders(h) /\ ~Overlook(h)
            <4>1. ASSUME NEW stopped \in BOOLEAN, handler'[h] = Decided(me, stopped)
                  PROVE  FALSE
                <5>1. PICK label \in {"unblocking", "taking"} :
                          handler'[h] = [me EXCEPT !.pc = label]
                    BY <1>3, <2>1, <4>1, Decides
                <5>2. handler'[h].pc = label
                    BY <2>1, <5>1 DEF Verification
                <5> QED BY <1>3, <5>1, <5>2
            <4>2. ~ReadOrders(h)
                BY <2>4, <4>1, (orders > 0) \in BOOLEAN DEF ReadOrders
            <4>3. [me EXCEPT !.pc = "issues"].pc # "idle"
                BY <2>1 DEF Verification
            <4>4. ~Overlook(h)
                BY <1>3, <2>4, <4>1, <4>3 DEF Overlook
            <4> QED BY <4>2, <4>4
        <3> QED BY <2>3, <3>1, <3>2, <3>3, <3>4, <3>5, <3>6 DEF Sweeps
    <2>6. CASE Verified(h)
        <3>1. me.queue = {} /\ me.pc = "taking"
            BY <2>6 DEF Verified, At
        <3>2. Sweeping(me)
            BY <1>3, <2>3, <3>1 DEF Orderly, InVerification
        <3> QED BY <3>1, <3>2 DEF Sweeping, Awaited, GateReads
    <2>7. CASE Stumble(h)
        <3>1. me.pc \in GateReads /\ me.row.plan.garbled
            BY <2>7 DEF Stumble, GateReads
        <3>2. Sweeping(me)
            BY <1>3, <2>3, <3>1 DEF Orderly, InVerification, Certifying, GateReads
        <3>3. me.on \in Blocked /\ me.row = milestone[me.on]
            BY <3>1, <3>2 DEF Sweeping, Certifying
        <3> QED BY <3>1, <3>3
    <2> QED BY <2>5, <2>6, <2>7
<1>4. ASSUME TypeOK, SweepInv, [Next]_vars
      PROVE  [ (/\ kills' = kills /\ ~met'
                /\ \E h \in Handlers : /\ ~Free(h) /\ handler[h].op = "unblock"
                                       /\ handler'[h].pc = "idle")
                   => \/ \A m \in Blocked : Hindered(m)
                      \/ faults' # faults
                      \/ \E m \in Blocked : milestone[m].plan.garbled ]_vars
    BY <1>3, <1>4
<1>5. TypeOK /\ SweepInv /\ [Next]_vars => SweepInv'
    BY <1>2, SweepNext
<1> QED BY <1>1, <1>4, <1>5, TypesHold, PTL DEF Spec, VerifyUnblocks
=============================================================================
