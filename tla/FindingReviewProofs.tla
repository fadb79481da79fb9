------------------------ MODULE FindingReviewProofs ------------------------
(***************************************************************************)
(* What TLAPS proves of FindingReview for every number of findings and     *)
(* handlers, whatever interleaves and whoever is killed: the history of a  *)
(* finding that was not deleted is gapless, chained in its order, and only *)
(* grows.  As long as no two handlers worked at the same time: one finding *)
(* of the group is pending, chains are intact, orders are linked, the last *)
(* revision says what the row says, and decisions stand.                   *)
(***************************************************************************)
EXTENDS FindingReview, FiniteSetTheorems, WellFoundedInduction, TLAPS

Working == {"ordering", "saving", "revising", "counting", "sealing"}

(* A handler past "creating" works on a copy of a finding.                 *)
Fetched(h) ==
    handler[h].pc \in Working =>
        handler[h].on \in Findings /\ handler[h].copy.status # "NONE"

(* No number is larger than the number of starts: each handler that starts *)
(* adds one to a count at most.                                            *)
BoundedRows ==
    \A f \in Findings : /\ row[f].count <= starts
                         /\ \A r \in revisions[f] : r.num <= starts
BoundedHandler(h) ==
    /\ handler[h].pc # "idle" => handler[h].copy.count < starts
    /\ handler[h].rev.num <= starts

TypeInv ==
    /\ TypeOK
    /\ BoundedRows
    /\ \A h \in Handlers : Fetched(h) /\ BoundedHandler(h)

LEMMA ChangedIsRow ==
    ASSUME NEW op \in Operations, NEW copy \in Row
    PROVE  /\ Changed(op, copy) \in Row
           /\ Changed(op, copy).count = copy.count
           /\ copy.status # "NONE" => Changed(op, copy).status # "NONE"
BY DEF Changed, Row, Decided

(* A bounded set of revisions has a last one.                              *)
LEMMA LastHashIsHash ==
    ASSUME NEW N \in Nat, NEW R \in SUBSET Revision,
           \A r \in R : r.num <= N
    PROVE  /\ LastHash(R) \in Hash
           /\ R # {} => \E m \in R : /\ \A q \in R : q.num <= m.num
                                    /\ LastHash(R) = HashOf(m)
<1>1. CASE R = {}
    BY <1>1 DEF LastHash, NoHash, Hash
<1>2. CASE R # {}
    <2> DEFINE T == {N - r.num : r \in R}
    <2>1. T \subseteq Nat
        BY DEF Revision
    <2>2. T # {}
        BY <1>2
    <2> HIDE DEF T
    <2>3. \E x \in T : \A y \in T : <<y, x>> \notin OpToRel(<, Nat)
        BY <2>1, <2>2, NatLessThanWellFounded, WFMin
    <2>4. PICK x \in T : \A y \in T : <<y, x>> \notin OpToRel(<, Nat)
        BY <2>3
    <2>5. \A y \in T : x <= y
        <3>1. \A y \in T : ~(y < x)
            BY <2>1, <2>4 DEF OpToRel
        <3> QED BY <2>1, <3>1
    <2>6. PICK m \in R : x = N - m.num
        BY DEF T
    <2>7. \A q \in R : q.num <= m.num
        <3> SUFFICES ASSUME NEW q \in R PROVE q.num <= m.num
            OBVIOUS
        <3>1. N - q.num \in T
            BY DEF T
        <3>2. x <= N - q.num
            BY <2>5, <3>1
        <3>3. q.num \in Nat /\ m.num \in Nat
            BY DEF Revision
        <3> QED BY <2>6, <3>2, <3>3
    <2> DEFINE last == CHOOSE r \in R : \A q \in R : q.num <= r.num
    <2>8. last \in R /\ \A q \in R : q.num <= last.num
        BY <2>7
    <2>9. LastHash(R) = HashOf(last)
        BY <1>2 DEF LastHash
    <2> HIDE DEF last
    <2>10. HashOf(last) \in Hash
        BY <2>8 DEF HashOf, Hash, Revision
    <2> QED BY <2>8, <2>9, <2>10
<1> QED BY <1>1, <1>2

(* What a history is in the database, and what a handler knows of it.      *)
WellNumbered(R) ==
    /\ IsFiniteSet(R)
    /\ Numbers(R) = 1..Cardinality(R)
    /\ \A q, r \in R : q.num = r.num => q = r
    /\ \A r \in R : r.prev.num = r.num - 1

LEMMA LastOfHistory ==
    ASSUME NEW R \in SUBSET Revision, WellNumbered(R)
    PROVE  LastHash(R) \in Hash /\ LastHash(R).num = Cardinality(R)
<1>1. Cardinality(R) \in Nat
    BY FS_CardinalityType DEF WellNumbered
<1>2. CASE R = {}
    BY <1>2, FS_EmptySet DEF LastHash, NoHash, Hash
<1>3. CASE R # {}
    <2> DEFINE k == Cardinality(R)
    <2>1. k >= 1
        BY <1>1, <1>3, FS_EmptySet DEF WellNumbered
    <2>2. Numbers(R) = 1..k
        BY DEF WellNumbered
    <2> HIDE DEF k
    <2>3. k \in Nat
        BY <1>1 DEF k
    <2>4. \A r \in R : r.num \in 1..k
        BY <2>2 DEF Numbers
    <2>5. PICK last \in R : /\ \A q \in R : q.num <= last.num
                            /\ LastHash(R) = HashOf(last)
        BY <1>3, <2>3, <2>4, LastHashIsHash
    <2>6. PICK m \in R : m.num = k
        BY <2>1, <2>2, <2>3 DEF Numbers
    <2>7. last.num = k
        BY <2>3, <2>4, <2>5, <2>6
    <2>8. LastHash(R).num = k
        BY <2>5, <2>7 DEF HashOf
    <2>9. LastHash(R) \in Hash
        BY <2>3, <2>4, LastHashIsHash
    <2> QED BY <2>8, <2>9 DEF k
<1> QED BY <1>2, <1>3

LEMMA HistoryGrows ==
    ASSUME NEW R \in SUBSET Revision, WellNumbered(R), NEW n \in Revision,
           n.num \notin Numbers(R), n.num \in 1..(Cardinality(R) + 1),
           n.prev = LastHash(R)
    PROVE  /\ WellNumbered(R \cup {n})
           /\ Cardinality(R) <= Cardinality(R \cup {n})
<1>1. Cardinality(R) \in Nat
    BY FS_CardinalityType DEF WellNumbered
<1>2. n.num = Cardinality(R) + 1
    BY <1>1 DEF WellNumbered
<1>3. n \notin R
    BY DEF Numbers
<1>4. IsFiniteSet(R \cup {n}) /\ Cardinality(R \cup {n}) = Cardinality(R) + 1
    BY <1>3, FS_AddElement DEF WellNumbered
<1>5. Numbers(R \cup {n}) = Numbers(R) \cup {n.num}
    BY DEF Numbers
<1>6. Numbers(R \cup {n}) = 1..(Cardinality(R) + 1)
    <2>1. Numbers(R) = 1..Cardinality(R)
        BY DEF WellNumbered
    <2>2. \A k \in Nat : 1..(k + 1) = 1..k \cup {k + 1}
        OBVIOUS
    <2> QED BY <1>1, <1>2, <1>5, <2>1, <2>2
<1>7. \A q, r \in R \cup {n} : q.num = r.num => q = r
    BY DEF WellNumbered, Numbers
<1>8. n.prev.num = n.num - 1
    BY <1>1, <1>2, LastOfHistory
<1>9. \A r \in R \cup {n} : r.prev.num = r.num - 1
    BY <1>8 DEF WellNumbered
<1> QED BY <1>1, <1>4, <1>6, <1>7, <1>9 DEF WellNumbered

LEMMA HistoryResealed ==
    ASSUME NEW R \in SUBSET Revision, WellNumbered(R), NEW n \in R
    PROVE  /\ WellNumbered(Reseal(R, n))
           /\ Cardinality(Reseal(R, n)) = Cardinality(R)
<1> DEFINE s == [n EXCEPT !.sealed = TRUE]
           rest == R \ {n}
<1>1. s \in Revision /\ s.num = n.num /\ s.prev = n.prev
    BY DEF Revision
<1>2. Reseal(R, n) = rest \cup {s}
    BY DEF Reseal
<1>3. s \notin rest
    BY <1>1 DEF WellNumbered
<1>4. IsFiniteSet(rest) /\ Cardinality(rest) = Cardinality(R) - 1
    BY FS_RemoveElement DEF WellNumbered
<1>5. Cardinality(R) \in Nat
    BY FS_CardinalityType DEF WellNumbered
<1> HIDE DEF s
<1>6. IsFiniteSet(rest \cup {s})
      /\ Cardinality(rest \cup {s}) = Cardinality(R)
    BY <1>3, <1>4, <1>5, FS_AddElement
<1>7. Numbers(rest \cup {s}) = Numbers(R)
    BY <1>1 DEF Numbers
<1>8. \A q, r \in rest \cup {s} : q.num = r.num => q = r
    BY <1>1 DEF WellNumbered
<1>9. \A r \in rest \cup {s} : r.prev.num = r.num - 1
    BY <1>1 DEF WellNumbered
<1> QED BY <1>2, <1>6, <1>7, <1>8, <1>9 DEF WellNumbered

----------------------------------------------------------------------------
(***************************************************************************)
(* Types.                                                                  *)
(***************************************************************************)
Starting(h) ==
    \/ Correlate(h) \/ Log(h)
    \/ \E f \in Findings :
          \/ Rescore(h, f) \/ Review(h, f) \/ Supplement(h, f) \/ Signoff(h, f)
          \/ TriggerInspection(h, f) \/ IssueNcr(h, f) \/ Update(h, f)

(* A handler that starts has a copy of a row that is there.                *)
StartOf(h, state) ==
    /\ state \in HandlerState
    /\ state.pc \in {"creating", "ordering", "saving", "revising"}
    /\ state.rev = NoRevision
    /\ state.pc = "creating" => state.copy = NoRow
    /\ state.pc # "creating" => /\ state.on \in Findings
                               /\ state.copy = row[state.on]
                               /\ state.copy.status # "NONE"
    /\ handler' = [handler EXCEPT ![h] = state]
    /\ starts' = starts + 1
    /\ overlapped' \in BOOLEAN
    /\ UNCHANGED <<row, revisions, ncrs, inspections, deleted, kills>>

LEMMA StartingStarts ==
    ASSUME TypeInv, NEW h \in Handlers, Starting(h)
    PROVE  \E state : StartOf(h, state)
<1> USE FindingsAssumption
<1>1. NoRow \in Row /\ NoRevision \in Revision
    BY DEF NoRow, Row, NoRevision, Revision, NoHash, Hash
<1>2. overlapped \in BOOLEAN /\ row \in [Findings -> Row]
    BY DEF TypeInv, TypeOK
<1>3. ASSUME NEW op \in {"create", "log"}, Begin(h, "creating", NoFinding, op)
      PROVE  \E state : StartOf(h, state)
    <2> DEFINE state == [pc |-> "creating", on |-> NoFinding, op |-> op,
                         copy |-> NoRow, rev |-> NoRevision]
    <2>1. state \in HandlerState
        BY <1>1 DEF HandlerState, Operations
    <2>2. handler' = [handler EXCEPT ![h] = state]
        BY <1>3 DEF Begin, Goto
    <2>3. /\ starts' = starts + 1
          /\ overlapped' \in BOOLEAN
          /\ UNCHANGED <<row, revisions, ncrs, inspections, deleted, kills>>
        BY <1>2, <1>3 DEF Begin
    <2> QED BY <2>1, <2>2, <2>3 DEF StartOf
<1>4. ASSUME NEW f \in Findings, NEW op \in Operations,
             NEW pc \in {"ordering", "saving", "revising"},
             row[f].status # "NONE", Begin(h, pc, f, op)
      PROVE  \E state : StartOf(h, state)
    <2> DEFINE state == [pc |-> pc, on |-> f, op |-> op, copy |-> row[f],
                         rev |-> NoRevision]
    <2>1. state \in HandlerState
        BY <1>1, <1>2 DEF HandlerState
    <2>2. handler' = [handler EXCEPT ![h] = state]
        BY <1>4 DEF Begin, Goto
    <2>3. /\ starts' = starts + 1
          /\ overlapped' \in BOOLEAN
          /\ UNCHANGED <<row, revisions, ncrs, inspections, deleted, kills>>
        BY <1>2, <1>4 DEF Begin
    <2> QED BY <1>4, <2>1, <2>2, <2>3 DEF StartOf
<1>5. CASE Correlate(h) \/ Log(h)
    BY <1>3, <1>5 DEF Correlate, Log
<1>6. ASSUME NEW f \in Findings, Rescore(h, f) PROVE \E state : StartOf(h, state)
    BY <1>4, <1>6 DEF Rescore, EngineFinds, Operations
<1>7. ASSUME NEW f \in Findings, Review(h, f) PROVE \E state : StartOf(h, state)
    BY <1>4, <1>7 DEF Review, Operations, Sealed
<1>8. ASSUME NEW f \in Findings, Supplement(h, f)
      PROVE  \E state : StartOf(h, state)
    BY <1>4, <1>8 DEF Supplement, Operations, Absent
<1>9. ASSUME NEW f \in Findings, Signoff(h, f) PROVE \E state : StartOf(h, state)
    BY <1>4, <1>9 DEF Signoff, Operations, Sealed
<1>10. ASSUME NEW f \in Findings, TriggerInspection(h, f)
       PROVE  \E state : StartOf(h, state)
    BY <1>4, <1>10 DEF TriggerInspection, Operations, Absent
<1>11. ASSUME NEW f \in Findings, IssueNcr(h, f) PROVE \E state : StartOf(h, state)
    BY <1>4, <1>11 DEF IssueNcr, Operations
<1>12. ASSUME NEW f \in Findings, Update(h, f) PROVE \E state : StartOf(h, state)
    BY <1>4, <1>12 DEF Update, Operations, Absent
<1> QED BY <1>5, <1>6, <1>7, <1>8, <1>9, <1>10, <1>11, <1>12 DEF Starting

LEMMA NextCases ==
    ASSUME Next
    PROVE  \E h \in Handlers :
              \/ Starting(h)
              \/ \E f \in Findings : Create(h, f) \/ Delete(h, f)
              \/ Order(h) \/ Save(h) \/ Revise(h) \/ Count(h) \/ Seal(h)
              \/ Fail(h) \/ Kill(h)
BY DEF Next, Starting, AddRevision

(* What must be shown of a step in which the database keeps its types and  *)
(* bounds and one handler gets a new state.                                *)
LEMMA HandlersTyped ==
    ASSUME TypeInv, NEW h \in Handlers, NEW state \in HandlerState,
           handler' = [handler EXCEPT ![h] = state],
           state.pc \in Working => state.on \in Findings
                                   /\ state.copy.status # "NONE",
           starts' \in Nat, starts <= starts',
           state.pc # "idle" => state.copy.count < starts',
           state.rev.num <= starts'
    PROVE  /\ handler' \in [Handlers -> HandlerState]
           /\ \A g \in Handlers : Fetched(g)' /\ BoundedHandler(g)'
<1>1. handler \in [Handlers -> HandlerState] /\ starts \in Nat
    BY DEF TypeInv, TypeOK
<1>2. handler' \in [Handlers -> HandlerState]
    BY <1>1
<1>3. ASSUME NEW g \in Handlers PROVE Fetched(g)' /\ BoundedHandler(g)'
    <2>1. CASE g = h
        BY <1>1, <2>1 DEF Fetched, BoundedHandler
    <2>2. CASE g # h
        <3>1. handler'[g] = handler[g]
            BY <1>1, <2>2
        <3>2. handler[g].copy.count \in Nat /\ handler[g].rev.num \in Nat
            BY <1>1 DEF HandlerState, Row, Revision
        <3> QED BY <1>1, <3>1, <3>2 DEF TypeInv, Fetched, BoundedHandler
    <2> QED BY <2>1, <2>2
<1> QED BY <1>2, <1>3

LEMMA IdleTyped ==
    ASSUME TypeInv, NEW h \in Handlers, handler' = [handler EXCEPT ![h] = Idle],
           starts' \in Nat, starts <= starts'
    PROVE  /\ handler' \in [Handlers -> HandlerState]
           /\ \A g \in Handlers : Fetched(g)' /\ BoundedHandler(g)'
<1>1. Idle \in HandlerState
    BY DEF Idle, HandlerState, Operations, NoRow, Row, NoRevision, Revision,
           NoHash, Hash
<1>2. Idle.pc = "idle" /\ Idle.rev.num = 0
    BY DEF Idle, NoRevision
<1>3. Idle.pc \notin Working /\ Idle.rev.num <= starts'
    BY <1>2 DEF Working
<1> QED BY <1>1, <1>2, <1>3, HandlersTyped

LEMMA TypeInit == ASSUME Init PROVE TypeInv
<1>1. Idle \in HandlerState /\ NoRow \in Row
    BY DEF Idle, HandlerState, Operations, NoRow, Row, NoRevision, Revision,
           NoHash, Hash
<1>2. Idle.pc = "idle" /\ Idle.rev.num = 0 /\ NoRow.count = 0
    BY DEF Idle, NoRevision, NoRow
<1>3. TypeOK
    <2>1. row \in [Findings -> Row] /\ handler \in [Handlers -> HandlerState]
        BY <1>1 DEF Init
    <2>2. /\ revisions \in [Findings -> SUBSET Revision]
          /\ ncrs \in [Findings -> Nat] /\ inspections \in [Findings -> Nat]
        BY DEF Init
    <2>3. /\ deleted \subseteq Findings /\ overlapped \in BOOLEAN
          /\ starts \in Nat /\ kills \in Nat
        BY DEF Init
    <2> QED BY <2>1, <2>2, <2>3 DEF TypeOK
<1>4. BoundedRows
    BY <1>2 DEF Init, BoundedRows
<1>5. \A h \in Handlers : Fetched(h) /\ BoundedHandler(h)
    BY <1>2 DEF Init, Fetched, BoundedHandler, Working
<1> QED BY <1>3, <1>4, <1>5 DEF TypeInv

LEMMA TypeStep == ASSUME TypeInv, [Next]_vars PROVE TypeInv'
<1> USE DEF Working
<1>1. /\ row \in [Findings -> Row] /\ revisions \in [Findings -> SUBSET Revision]
      /\ {ncrs, inspections} \subseteq [Findings -> Nat]
      /\ handler \in [Handlers -> HandlerState] /\ deleted \subseteq Findings
      /\ overlapped \in BOOLEAN /\ {starts, kills} \subseteq Nat
      /\ BoundedRows
    BY DEF TypeInv, TypeOK
<1>2. ASSUME NEW h \in Handlers, Starting(h) PROVE TypeInv'
    <2>1. PICK state : StartOf(h, state)
        BY <1>2, StartingStarts
    <2>2. /\ state \in HandlerState /\ handler' = [handler EXCEPT ![h] = state]
          /\ state.pc \in Working => state.on \in Findings
                                     /\ state.copy.status # "NONE"
          /\ starts' = starts + 1
        BY <2>1 DEF StartOf
    <2>3. state.copy.count < starts' /\ state.rev.num <= starts'
        <3>1. state.copy.count <= starts
            BY <1>1, <2>1 DEF StartOf, BoundedRows, NoRow
        <3>2. state.copy.count \in Nat
            BY <2>2 DEF HandlerState, Row
        <3> QED BY <1>1, <2>1, <2>2, <3>1, <3>2 DEF StartOf, NoRevision
    <2>4. /\ handler' \in [Handlers -> HandlerState]
          /\ \A g \in Handlers : Fetched(g)' /\ BoundedHandler(g)'
        <3>1. starts' \in Nat /\ starts <= starts'
            BY <1>1, <2>2
        <3> QED BY <2>2, <2>3, <3>1, HandlersTyped
    <2>5. /\ UNCHANGED <<row, revisions, ncrs, inspections, deleted, kills>>
          /\ overlapped' \in BOOLEAN
        BY <2>1 DEF StartOf
    <2>6. BoundedRows'
        <3>1. \A f \in Findings : row[f].count \in Nat
            BY <1>1 DEF Row
        <3>2. \A f \in Findings : \A r \in revisions[f] : r.num \in Nat
            BY <1>1 DEF Revision
        <3> QED BY <1>1, <2>2, <2>5, <3>1, <3>2 DEF BoundedRows
    <2> QED BY <1>1, <2>2, <2>4, <2>5, <2>6 DEF TypeInv, TypeOK
<1>3. ASSUME NEW h \in Handlers, NEW f \in Findings, Create(h, f) PROVE TypeInv'
    <2> DEFINE new == NewRow(handler[h].op)
               state == [handler[h] EXCEPT !.pc = "revising", !.on = f,
                                           !.copy = new]
    <2>1. new \in Row /\ new.count = 0 /\ new.status # "NONE"
        BY DEF NewRow, NoRow, Row
    <2>2. /\ row' = [row EXCEPT ![f] = new]
          /\ handler' = [handler EXCEPT ![h] = state]
          /\ handler[h].pc = "creating"
          /\ UNCHANGED <<revisions, ncrs, inspections, deleted, overlapped, starts,
                         kills>>
        BY <1>3 DEF Create, Goto
    <2> HIDE DEF new
    <2>3. /\ state \in HandlerState /\ state.on = f /\ state.copy = new
          /\ state.pc = "revising" /\ state.rev = handler[h].rev
        BY <1>1, <2>1 DEF HandlerState
    <2>4. 0 < starts
        <3>1. handler[h].copy.count \in Nat /\ handler[h].copy.count < starts
            BY <1>1, <2>2 DEF TypeInv, BoundedHandler, HandlerState, Row
        <3> QED BY <1>1, <3>1
    <2>5. /\ handler' \in [Handlers -> HandlerState]
          /\ \A g \in Handlers : Fetched(g)' /\ BoundedHandler(g)'
        <3>1. state.rev.num <= starts'
            BY <2>2, <2>3 DEF TypeInv, BoundedHandler
        <3>2. state.copy.count < starts' /\ state.copy.status # "NONE"
            BY <2>1, <2>2, <2>3, <2>4
        <3> HIDE DEF state
        <3>3. starts' \in Nat /\ starts <= starts'
            BY <1>1, <2>2
        <3> QED BY <2>2, <2>3, <3>1, <3>2, <3>3, HandlersTyped
    <2>6. BoundedRows'
        BY <1>1, <2>1, <2>2 DEF BoundedRows
    <2> QED BY <1>1, <2>1, <2>2, <2>5, <2>6 DEF TypeInv, TypeOK
<1>4. ASSUME NEW h \in Handlers, NEW f \in Findings, Delete(h, f) PROVE TypeInv'
    <2>1. /\ row' = [row EXCEPT ![f] = NoRow]
          /\ revisions' = [revisions EXCEPT ![f] = {}]
          /\ deleted' = deleted \cup {f}
          /\ overlapped' = (overlapped \/ OthersWork(h))
          /\ starts' = starts + 1
          /\ UNCHANGED <<ncrs, inspections, handler, kills>>
        BY <1>4 DEF Delete
    <2>2. NoRow \in Row /\ NoRow.count = 0
        BY DEF NoRow, Row
    <2>3. TypeOK'
        <3>1. overlapped' \in BOOLEAN
            BY <1>1, <2>1
        <3> QED BY <1>1, <2>1, <2>2, <3>1 DEF TypeOK
    <2>4. BoundedRows'
        <3>1. \A g \in Findings : row[g].count \in Nat
            BY <1>1 DEF Row
        <3>2. \A g \in Findings : \A r \in revisions[g] : r.num \in Nat
            BY <1>1 DEF Revision
        <3> QED BY <1>1, <2>1, <2>2, <3>1, <3>2 DEF BoundedRows
    <2>5. ASSUME NEW g \in Handlers PROVE Fetched(g)' /\ BoundedHandler(g)'
        <3>1. handler[g].copy.count \in Nat /\ handler[g].rev.num \in Nat
            BY <1>1 DEF HandlerState, Row, Revision
        <3> QED BY <1>1, <2>1, <3>1 DEF TypeInv, Fetched, BoundedHandler
    <2> QED BY <2>3, <2>4, <2>5 DEF TypeInv
<1>5. ASSUME NEW h \in Handlers, Order(h) PROVE TypeInv'
    <2> DEFINE state == [handler[h] EXCEPT !.pc = "saving"]
    <2>1. /\ handler[h].pc = "ordering" /\ handler[h].on \in Findings
          /\ handler' = [handler EXCEPT ![h] = state]
          /\ UNCHANGED <<row, revisions, deleted, overlapped, starts, kills>>
        BY <1>5 DEF Order, Goto, TypeInv, Fetched
    <2>2. {ncrs', inspections'} \subseteq [Findings -> Nat]
        <3>1. CASE handler[h].op = "ncr"
            BY <1>1, <1>5, <3>1 DEF Order
        <3>2. CASE handler[h].op # "ncr"
            BY <1>1, <1>5, <3>2 DEF Order
        <3> QED BY <3>1, <3>2
    <2>3. /\ state \in HandlerState /\ state.pc = "saving"
          /\ state.on = handler[h].on /\ state.copy = handler[h].copy
          /\ state.rev = handler[h].rev
        BY <1>1 DEF HandlerState
    <2>4. /\ handler[h].copy.status # "NONE" /\ handler[h].copy.count < starts
          /\ handler[h].rev.num <= starts
        BY <2>1 DEF TypeInv, Fetched, BoundedHandler
    <2> HIDE DEF state
    <2>5. /\ handler' \in [Handlers -> HandlerState]
          /\ \A g \in Handlers : Fetched(g)' /\ BoundedHandler(g)'
        <3>1. starts' \in Nat /\ starts' = starts /\ starts <= starts'
            BY <1>1, <2>1
        <3> QED BY <2>1, <2>3, <2>4, <3>1, HandlersTyped
    <2>6. BoundedRows'
        BY <1>1, <2>1 DEF BoundedRows
    <2> QED BY <1>1, <2>1, <2>2, <2>5, <2>6 DEF TypeInv, TypeOK
<1>6. ASSUME NEW h \in Handlers, Save(h) PROVE TypeInv'
    <2> DEFINE new == Changed(handler[h].op, handler[h].copy)
               state == [handler[h] EXCEPT !.pc = "revising", !.copy = new]
               f == handler[h].on
    <2>1. /\ handler[h].pc = "saving" /\ f \in Findings
          /\ row' = [row EXCEPT ![f] = new]
          /\ handler' = [handler EXCEPT ![h] =
                            IF handler[h].op = "update" THEN Idle ELSE state]
          /\ UNCHANGED <<revisions, ncrs, inspections, deleted, overlapped, starts,
                         kills>>
        BY <1>6 DEF Save, Goto, TypeInv, Fetched
    <2>2. new \in Row /\ new.count = handler[h].copy.count /\ new.status # "NONE"
        BY <1>1, <2>1, ChangedIsRow DEF HandlerState, TypeInv, Fetched
    <2> HIDE DEF new
    <2>3. /\ state \in HandlerState /\ state.pc = "revising" /\ state.on = f
          /\ state.copy = new /\ state.rev = handler[h].rev
        BY <1>1, <2>2 DEF HandlerState
    <2>4. new.count < starts /\ handler[h].rev.num <= starts /\ new.count \in Nat
        BY <2>1, <2>2 DEF TypeInv, BoundedHandler, Row
    <2> HIDE DEF state
    <2>5. /\ handler' \in [Handlers -> HandlerState]
          /\ \A g \in Handlers : Fetched(g)' /\ BoundedHandler(g)'
        <3>1. starts' \in Nat /\ starts' = starts /\ starts <= starts'
            BY <1>1, <2>1
        <3>2. CASE handler[h].op = "update"
            BY <2>1, <3>1, <3>2, IdleTyped
        <3>3. CASE handler[h].op # "update"
            BY <2>1, <2>2, <2>3, <2>4, <3>1, <3>3, HandlersTyped
        <3> QED BY <3>2, <3>3
    <2>6. BoundedRows'
        BY <1>1, <2>1, <2>4 DEF BoundedRows
    <2> QED BY <1>1, <2>1, <2>2, <2>5, <2>6 DEF TypeInv, TypeOK
<1>7. ASSUME NEW h \in Handlers, Revise(h) PROVE TypeInv'
    <2> DEFINE new == NewRevision(h)
               state == [handler[h] EXCEPT !.pc = "counting", !.rev = new]
               f == handler[h].on
    <2>1. /\ handler[h].pc = "revising" /\ f \in Findings
          /\ revisions' = [revisions EXCEPT ![f] = @ \cup {new}]
          /\ handler' = [handler EXCEPT ![h] = state]
          /\ UNCHANGED <<row, ncrs, inspections, deleted, overlapped, starts, kills>>
        BY <1>7 DEF Revise, Goto, TypeInv, Fetched
    <2>2. /\ handler[h].copy \in Row /\ handler[h].copy.status # "NONE"
          /\ handler[h].copy.count < starts
        BY <1>1, <2>1 DEF TypeInv, Fetched, BoundedHandler, HandlerState
    <2>3. LastHash(revisions[f]) \in Hash
        BY <1>1, <2>1, LastHashIsHash DEF BoundedRows
    <2>4. new \in Revision /\ new.num <= starts
        <3>1. handler[h].copy.count \in Nat
            BY <2>2 DEF Row
        <3>2. handler[h].copy.status \in Decided \cup {"pending_review"}
            BY <2>2 DEF Row
        <3> QED BY <1>1, <2>2, <2>3, <3>1, <3>2 DEF NewRevision, Number, Revision
    <2> HIDE DEF new
    <2>5. /\ state \in HandlerState /\ state.pc = "counting" /\ state.on = f
          /\ state.copy = handler[h].copy /\ state.rev = new
        BY <1>1, <2>4 DEF HandlerState
    <2> HIDE DEF state
    <2>6. /\ handler' \in [Handlers -> HandlerState]
          /\ \A g \in Handlers : Fetched(g)' /\ BoundedHandler(g)'
        <3>1. starts' \in Nat /\ starts' = starts /\ starts <= starts'
            BY <1>1, <2>1
        <3> QED BY <2>1, <2>2, <2>4, <2>5, <3>1, HandlersTyped
    <2>7. BoundedRows'
        BY <1>1, <2>1, <2>4 DEF BoundedRows
    <2>8. revisions' \in [Findings -> SUBSET Revision]
        BY <1>1, <2>1, <2>4
    <2> QED BY <1>1, <2>1, <2>6, <2>7, <2>8 DEF TypeInv, TypeOK
<1>8. ASSUME NEW h \in Handlers, Count(h) PROVE TypeInv'
    <2> DEFINE state == [handler[h] EXCEPT !.pc = "sealing"]
               f == handler[h].on
               n == handler[h].rev.num
    <2>1. /\ handler[h].pc = "counting" /\ f \in Findings
          /\ row' = [row EXCEPT ![f].count = n]
          /\ handler' = [handler EXCEPT ![h] =
                            IF handler[h].op \in Sealed THEN state ELSE Idle]
          /\ UNCHANGED <<revisions, ncrs, inspections, deleted, overlapped, starts,
                         kills>>
        BY <1>8 DEF Count, AfterCount, Goto, TypeInv, Fetched
    <2>2. n \in Nat /\ n <= starts
        BY <1>1 DEF HandlerState, Revision, TypeInv, BoundedHandler
    <2>3. /\ state \in HandlerState /\ state.pc = "sealing" /\ state.on = f
          /\ state.copy = handler[h].copy /\ state.rev = handler[h].rev
        BY <1>1 DEF HandlerState
    <2>4. handler[h].copy.status # "NONE" /\ handler[h].copy.count < starts
        BY <2>1 DEF TypeInv, Fetched, BoundedHandler
    <2>5. /\ handler' \in [Handlers -> HandlerState]
          /\ \A g \in Handlers : Fetched(g)' /\ BoundedHandler(g)'
        <3>1. starts' \in Nat /\ starts' = starts /\ starts <= starts'
            BY <1>1, <2>1
        <3> HIDE DEF state
        <3>2. CASE handler[h].op \notin Sealed
            BY <2>1, <3>1, <3>2, IdleTyped
        <3>3. CASE handler[h].op \in Sealed
            BY <2>1, <2>2, <2>3, <2>4, <3>1, <3>3, HandlersTyped
        <3> QED BY <3>2, <3>3
    <2>6. row' \in [Findings -> Row]
        BY <1>1, <2>1, <2>2 DEF Row
    <2>7. BoundedRows'
        BY <1>1, <2>1, <2>2 DEF BoundedRows, Row
    <2> QED BY <1>1, <2>1, <2>5, <2>6, <2>7 DEF TypeInv, TypeOK
<1>9. ASSUME NEW h \in Handlers, Seal(h) PROVE TypeInv'
    <2> DEFINE f == handler[h].on
               R == Reseal(revisions[f], handler[h].rev)
    <2>1. /\ handler[h].pc = "sealing" /\ f \in Findings
          /\ revisions' = [revisions EXCEPT ![f] = R]
          /\ handler' = [handler EXCEPT ![h] = Idle]
          /\ UNCHANGED <<row, ncrs, inspections, deleted, overlapped, starts, kills>>
        BY <1>1, <1>9 DEF Seal, Done, Goto, TypeInv, Fetched
    <2>2. handler[h].rev \in Revision /\ handler[h].rev.num <= starts
        BY <1>1 DEF HandlerState, TypeInv, BoundedHandler
    <2>3. R \subseteq Revision /\ \A r \in R : r.num <= starts
        BY <1>1, <2>1, <2>2 DEF Reseal, Revision, BoundedRows
    <2> HIDE DEF R
    <2>4. /\ handler' \in [Handlers -> HandlerState]
          /\ \A g \in Handlers : Fetched(g)' /\ BoundedHandler(g)'
        <3>1. starts' \in Nat /\ starts <= starts'
            BY <1>1, <2>1
        <3> QED BY <2>1, <3>1, IdleTyped
    <2>5. BoundedRows'
        BY <1>1, <2>1, <2>3 DEF BoundedRows
    <2> QED BY <1>1, <2>1, <2>3, <2>4, <2>5 DEF TypeInv, TypeOK
<1>10. ASSUME NEW h \in Handlers, Fail(h) \/ Kill(h) PROVE TypeInv'
    <2>1. /\ handler' = [handler EXCEPT ![h] = Idle] /\ kills' \in Nat
          /\ UNCHANGED <<row, revisions, ncrs, inspections, deleted, overlapped,
                         starts>>
        BY <1>1, <1>10 DEF Fail, Kill, Done, Goto
    <2>2. /\ handler' \in [Handlers -> HandlerState]
          /\ \A g \in Handlers : Fetched(g)' /\ BoundedHandler(g)'
        <3>1. starts' \in Nat /\ starts <= starts'
            BY <1>1, <2>1
        <3> QED BY <2>1, <3>1, IdleTyped
    <2> QED BY <1>1, <2>1, <2>2 DEF TypeInv, TypeOK, BoundedRows
<1>11. CASE UNCHANGED vars
    BY <1>11 DEF vars, TypeInv, TypeOK, BoundedRows, Fetched, BoundedHandler
<1> QED BY <1>2, <1>3, <1>4, <1>5, <1>6, <1>7, <1>8, <1>9, <1>10, <1>11, NextCases

(* The database and the handlers keep their types; in particular a         *)
(* decision is stored as a status the model knows.                         *)
THEOREM TypesHold == Spec => []TypeOK
<1>1. Spec => []TypeInv
    BY TypeInit, TypeStep, PTL DEF Spec
<1>2. TypeInv => TypeOK
    BY DEF TypeInv
<1> QED BY <1>1, <1>2, PTL
----------------------------------------------------------------------------
(***************************************************************************)
(* Histories.                                                              *)
(***************************************************************************)

(* What a handler at work on a finding that was not deleted knows of its   *)
(* history: its copy's count is not ahead of it, and the revision that it  *)
(* has inserted is in it.                                                  *)
Knows(h) ==
    handler[h].pc \in Working /\ handler[h].on \notin deleted =>
        LET R == revisions[handler[h].on] IN
        /\ handler[h].copy.count <= Cardinality(R)
        /\ handler[h].pc \in {"counting", "sealing"} =>
                handler[h].rev.num \in Numbers(R)

Kept(f) == WellNumbered(revisions[f]) /\ row[f].count <= Cardinality(revisions[f])

IInv ==
    /\ TypeInv
    /\ \A f \in Findings \ deleted : Kept(f)
    /\ \A h \in Handlers : Knows(h)

LEMMA HistoryInit == ASSUME Init PROVE IInv
<1>1. TypeInv
    BY TypeInit
<1>2. ASSUME NEW f \in Findings PROVE Kept(f)
    <2>1. revisions[f] = {} /\ row[f].count = 0
        BY DEF Init, NoRow
    <2>2. IsFiniteSet({}) /\ Cardinality({}) = 0
        BY FS_EmptySet
    <2>3. Numbers({}) = {} /\ 1..0 = {}
        BY DEF Numbers
    <2>4. Numbers({}) = 1..Cardinality({})
        BY <2>2, <2>3
    <2>5. WellNumbered({})
        BY <2>2, <2>4 DEF WellNumbered
    <2> QED BY <2>1, <2>2, <2>5 DEF Kept
<1>3. \A h \in Handlers : Knows(h)
    BY DEF Init, Idle, Knows, Working
<1> QED BY <1>1, <1>2, <1>3 DEF IInv

(* What a step does to the history of a finding that is not deleted by it. *)
HistoryStep(f) ==
    /\ WellNumbered(revisions'[f])
    /\ Cardinality(revisions[f]) <= Cardinality(revisions'[f])
    /\ Numbers(revisions[f]) \subseteq Numbers(revisions'[f])

LEMMA HistorySteps ==
    ASSUME IInv, NEW h \in Handlers,
           \/ UNCHANGED revisions
           \/ \E d \in Findings : Delete(h, d)
           \/ Revise(h)
           \/ Seal(h),
           deleted \subseteq deleted', NEW f \in Findings \ deleted'
    PROVE  HistoryStep(f)
<1>1. /\ revisions \in [Findings -> SUBSET Revision]
      /\ handler \in [Handlers -> HandlerState]
    BY DEF IInv, TypeInv, TypeOK
<1>2. f \notin deleted
    OBVIOUS
<1>3. WellNumbered(revisions[f]) /\ Cardinality(revisions[f]) \in Nat
    BY <1>2, FS_CardinalityType DEF IInv, Kept, WellNumbered
<1>4. CASE revisions'[f] = revisions[f]
    BY <1>3, <1>4 DEF HistoryStep
<1>5. CASE \E d \in Findings : Delete(h, d)
    BY <1>1, <1>4, <1>5 DEF Delete
<1>6. CASE Revise(h)
    <2>1. CASE handler[h].on # f
        BY <1>1, <1>4, <1>6, <2>1 DEF Revise
    <2>2. CASE handler[h].on = f
        <3> DEFINE n == NewRevision(h)
                   R == revisions[f]
        <3>1. revisions'[f] = R \cup {n} /\ Number(h) \notin Numbers(R)
            BY <1>1, <1>6, <2>2 DEF Revise, CanRevise
        <3>2. /\ handler[h].copy \in Row /\ handler[h].copy.status # "NONE"
              /\ handler[h].copy.count <= Cardinality(R)
            BY <1>1, <1>2, <1>6, <2>2
               DEF Revise, IInv, TypeInv, Fetched, Knows, Working, HandlerState
        <3>3. LastHash(R) \in Hash
            BY <1>1, <1>3, LastOfHistory
        <3>4. /\ n \in Revision /\ n.num = Number(h) /\ n.prev = LastHash(R)
              /\ n.num \in 1..(Cardinality(R) + 1)
            <4>1. handler[h].copy.count \in Nat
                BY <3>2 DEF Row
            <4>2. handler[h].copy.status \in Decided \cup {"pending_review"}
                BY <3>2 DEF Row
            <4> QED BY <1>3, <2>2, <3>2, <3>3, <4>1, <4>2
                    DEF NewRevision, Number, Revision
        <3> HIDE DEF n
        <3>5. /\ WellNumbered(R \cup {n})
              /\ Cardinality(R) <= Cardinality(R \cup {n})
            BY <1>1, <1>3, <3>1, <3>4, HistoryGrows
        <3>6. Numbers(R) \subseteq Numbers(R \cup {n})
            BY DEF Numbers
        <3> QED BY <3>1, <3>5, <3>6 DEF HistoryStep
    <2> QED BY <2>1, <2>2
<1>7. CASE Seal(h)
    <2>1. CASE handler[h].on # f
        BY <1>1, <1>4, <1>7, <2>1 DEF Seal
    <2>2. CASE handler[h].on = f
        <3> DEFINE n == handler[h].rev
                   R == revisions[f]
        <3>1. /\ revisions'[f] = Reseal(R, n)
              /\ n \in R \/ n.num \notin Numbers(R)
            BY <1>1, <1>7, <2>2 DEF Seal, CanSeal
        <3>2. n.num \in Numbers(R)
            BY <1>2, <1>7, <2>2 DEF Seal, IInv, Knows, Working
        <3>3. n \in R
            BY <3>1, <3>2
        <3>4. WellNumbered(Reseal(R, n)) /\ Cardinality(Reseal(R, n)) = Cardinality(R)
            BY <1>1, <1>3, <3>3, HistoryResealed
        <3>5. Numbers(Reseal(R, n)) = Numbers(R)
            BY <1>3, <3>4 DEF WellNumbered
        <3> QED BY <1>3, <3>1, <3>4, <3>5 DEF HistoryStep
    <2> QED BY <2>1, <2>2
<1> QED BY <1>4, <1>5, <1>6, <1>7
(* What must be shown of a step in which one handler gets a new state.     *)
LEMMA OthersKnow ==
    ASSUME IInv, deleted \subseteq deleted',
           \A f \in Findings \ deleted' : HistoryStep(f),
           revisions' \in [Findings -> SUBSET Revision],
           NEW g \in Handlers, handler'[g] = handler[g]
    PROVE  Knows(g)'
<1> SUFFICES ASSUME handler[g].pc \in Working, handler[g].on \notin deleted'
             PROVE  LET R == revisions'[handler[g].on] IN
                    /\ handler[g].copy.count <= Cardinality(R)
                    /\ handler[g].pc \in {"counting", "sealing"} =>
                            handler[g].rev.num \in Numbers(R)
    BY DEF Knows
<1> DEFINE f == handler[g].on
<1>1. f \in Findings /\ f \notin deleted /\ handler[g].copy.count \in Nat
    BY DEF IInv, TypeInv, TypeOK, Fetched, HandlerState, Row
<1>2. HistoryStep(f)
    BY <1>1
<1>3. WellNumbered(revisions[f]) /\ WellNumbered(revisions'[f])
    BY <1>1, <1>2 DEF IInv, Kept, HistoryStep
<1>4. Cardinality(revisions[f]) \in Nat /\ Cardinality(revisions'[f]) \in Nat
    BY <1>3, FS_CardinalityType DEF WellNumbered
<1>5. handler[g].copy.count <= Cardinality(revisions[f])
    BY <1>1 DEF IInv, Knows
<1>6. handler[g].copy.count <= Cardinality(revisions'[f])
    BY <1>1, <1>2, <1>4, <1>5 DEF HistoryStep
<1>7. handler[g].pc \in {"counting", "sealing"} =>
          handler[g].rev.num \in Numbers(revisions[f])
    BY <1>1 DEF IInv, Knows
<1> QED BY <1>2, <1>6, <1>7 DEF HistoryStep

(* The count of a row that keeps it does not get ahead of a history that   *)
(* keeps its revisions.                                                    *)
LEMMA CountStays ==
    ASSUME IInv, TypeInv', deleted \subseteq deleted',
           NEW f \in Findings \ deleted', HistoryStep(f),
           \/ row'[f].count = row[f].count
           \/ row'[f].count <= Cardinality(revisions[f])
    PROVE  Kept(f)'
<1>1. f \notin deleted
    OBVIOUS
<1>2. WellNumbered(revisions[f]) /\ row[f].count <= Cardinality(revisions[f])
    BY <1>1 DEF IInv, Kept
<1>3. WellNumbered(revisions'[f])
    BY DEF HistoryStep
<1>4. Cardinality(revisions[f]) \in Nat /\ Cardinality(revisions'[f]) \in Nat
    BY <1>2, <1>3, FS_CardinalityType DEF WellNumbered
<1>5. row[f].count \in Nat /\ row'[f].count \in Nat
    BY DEF IInv, TypeInv, TypeOK, Row
<1>6. row'[f].count <= Cardinality(revisions'[f])
    BY <1>2, <1>4, <1>5 DEF HistoryStep
<1> QED BY <1>3, <1>6 DEF Kept
LEMMA HistoryInvStep == ASSUME IInv, [Next]_vars PROVE IInv'
<1> USE DEF Working
<1>1. TypeInv /\ TypeInv'
    BY TypeStep DEF IInv
<1>2. /\ row \in [Findings -> Row] /\ handler \in [Handlers -> HandlerState]
      /\ revisions' \in [Findings -> SUBSET Revision]
    BY <1>1 DEF TypeInv, TypeOK
<1>3. CASE UNCHANGED vars
    <2>1. ASSUME NEW f \in Findings \ deleted' PROVE Kept(f)'
        BY <1>3, <2>1 DEF vars, IInv, Kept, WellNumbered, Numbers
    <2>2. ASSUME NEW h \in Handlers PROVE Knows(h)'
        BY <1>3, <2>2 DEF vars, IInv, Knows, Numbers
    <2> QED BY <1>1, <2>1, <2>2 DEF IInv
<1>4. ASSUME NEW h \in Handlers, NEW state,
             handler' = [handler EXCEPT ![h] = state],
             deleted' = deleted,
             UNCHANGED revisions \/ Revise(h) \/ Seal(h),
             \A f \in Findings \ deleted :
                \/ row'[f].count = row[f].count
                \/ row'[f].count <= Cardinality(revisions[f]),
             state.pc \in Working /\ state.on \notin deleted =>
                LET R == revisions'[state.on] IN
                /\ state.copy.count <= Cardinality(R)
                /\ state.pc \in {"counting", "sealing"} =>
                        state.rev.num \in Numbers(R)
      PROVE  IInv'
    <2>1. \A f \in Findings \ deleted' : HistoryStep(f)
        BY <1>4, HistorySteps
    <2>2. \A f \in Findings \ deleted' : Kept(f)'
        BY <1>1, <1>4, <2>1, CountStays
    <2>3. ASSUME NEW g \in Handlers PROVE Knows(g)'
        <3>1. CASE g # h
            BY <1>2, <1>4, <2>1, <3>1, OthersKnow
        <3>2. CASE g = h
            BY <1>2, <1>4, <3>2 DEF Knows
        <3> QED BY <3>1, <3>2
    <2> QED BY <1>1, <2>2, <2>3 DEF IInv
<1>5. ASSUME NEW h \in Handlers, Starting(h) PROVE IInv'
    <2>1. PICK state : StartOf(h, state)
        BY <1>1, <1>5, StartingStarts
    <2>2. state.pc \in Working /\ state.on \notin deleted =>
             state.copy.count <= Cardinality(revisions[state.on])
        BY <2>1 DEF StartOf, IInv, Kept
    <2> QED BY <1>4, <2>1, <2>2 DEF StartOf
<1>6. ASSUME NEW h \in Handlers, NEW f \in Findings, Create(h, f) PROVE IInv'
    <2> DEFINE new == NewRow(handler[h].op)
               state == [handler[h] EXCEPT !.pc = "revising", !.on = f,
                                           !.copy = new]
    <2>1. /\ row' = [row EXCEPT ![f] = new] /\ f \notin deleted
          /\ handler' = [handler EXCEPT ![h] = state]
          /\ UNCHANGED <<revisions, deleted>>
        BY <1>6 DEF Create, Goto
    <2>2. new.count = 0
        BY DEF NewRow, NoRow
    <2> HIDE DEF new
    <2>3. state.pc = "revising" /\ state.on = f /\ state.copy = new
        BY <1>2 DEF HandlerState
    <2>4. WellNumbered(revisions[f])
        BY <2>1 DEF IInv, Kept
    <2>5. 0 <= Cardinality(revisions[f])
        BY <2>4, FS_CardinalityType DEF WellNumbered
    <2> HIDE DEF state
    <2> QED BY <1>2, <1>4, <2>1, <2>2, <2>3, <2>5
<1>7. ASSUME NEW h \in Handlers, NEW d \in Findings, Delete(h, d) PROVE IInv'
    <2>1. /\ row' = [row EXCEPT ![d] = NoRow] /\ deleted' = deleted \cup {d}
          /\ handler' = handler
        BY <1>7 DEF Delete
    <2>2. \A f \in Findings \ deleted' : HistoryStep(f)
        BY <1>7, <2>1, HistorySteps
    <2>3. \A f \in Findings \ deleted' : Kept(f)'
        BY <1>1, <1>2, <2>1, <2>2, CountStays
    <2>4. \A g \in Handlers : Knows(g)'
        BY <1>2, <2>1, <2>2, OthersKnow
    <2> QED BY <1>1, <2>3, <2>4 DEF IInv
<1>8. ASSUME NEW h \in Handlers, Order(h) PROVE IInv'
    <2> DEFINE state == [handler[h] EXCEPT !.pc = "saving"]
    <2>1. /\ handler[h].pc = "ordering"
          /\ handler' = [handler EXCEPT ![h] = state]
          /\ UNCHANGED <<row, revisions, deleted>>
        BY <1>8 DEF Order, Goto
    <2>2. /\ state.pc = "saving" /\ state.on = handler[h].on
          /\ state.copy = handler[h].copy
        BY <1>2 DEF HandlerState
    <2>3. handler[h].on \notin deleted =>
             handler[h].copy.count <= Cardinality(revisions[handler[h].on])
        BY <2>1 DEF IInv, Knows
    <2> HIDE DEF state
    <2> QED BY <1>4, <2>1, <2>2, <2>3
<1>9. ASSUME NEW h \in Handlers, Save(h) PROVE IInv'
    <2> DEFINE new == Changed(handler[h].op, handler[h].copy)
               next == [handler[h] EXCEPT !.pc = "revising", !.copy = new]
               state == IF handler[h].op = "update" THEN Idle ELSE next
               f == handler[h].on
    <2>1. /\ handler[h].pc = "saving" /\ f \in Findings
          /\ row' = [row EXCEPT ![f] = new]
          /\ handler' = [handler EXCEPT ![h] = state]
          /\ UNCHANGED <<revisions, deleted>>
        BY <1>1, <1>9 DEF Save, Goto, TypeInv, Fetched
    <2>2. new.count = handler[h].copy.count
        BY <1>2, ChangedIsRow DEF HandlerState
    <2> HIDE DEF new
    <2>3. next.pc = "revising" /\ next.on = f /\ next.copy = new
        BY <1>2 DEF HandlerState
    <2>4. f \notin deleted => handler[h].copy.count <= Cardinality(revisions[f])
        BY <2>1 DEF IInv, Knows
    <2>5. Idle.pc = "idle"
        BY DEF Idle
    <2> HIDE DEF next
    <2>6. state = Idle \/ state = next
        OBVIOUS
    <2> HIDE DEF state
    <2> QED BY <1>2, <1>4, <2>1, <2>2, <2>3, <2>4, <2>5, <2>6
<1>10. ASSUME NEW h \in Handlers, Revise(h) PROVE IInv'
    <2> DEFINE new == NewRevision(h)
               state == [handler[h] EXCEPT !.pc = "counting", !.rev = new]
               f == handler[h].on
    <2>1. /\ handler[h].pc = "revising" /\ f \in Findings
          /\ revisions' = [revisions EXCEPT ![f] = @ \cup {new}]
          /\ handler' = [handler EXCEPT ![h] = state]
          /\ UNCHANGED <<row, deleted>>
        BY <1>1, <1>10 DEF Revise, Goto, TypeInv, Fetched
    <2> HIDE DEF new
    <2>2. /\ state.pc = "counting" /\ state.on = f
          /\ state.copy = handler[h].copy /\ state.rev = new
        BY <1>2 DEF HandlerState
    <2> HIDE DEF state
    <2>3. new.num \in Numbers(revisions'[f])
        BY <1>1, <2>1 DEF Numbers, TypeInv, TypeOK
    <2>4. f \notin deleted => HistoryStep(f)
        BY <1>10, <2>1, HistorySteps
    <2>5. f \notin deleted => handler[h].copy.count <= Cardinality(revisions'[f])
        <3> SUFFICES ASSUME f \notin deleted
                     PROVE  handler[h].copy.count <= Cardinality(revisions'[f])
            OBVIOUS
        <3>1. handler[h].copy.count <= Cardinality(revisions[f])
            BY <2>1 DEF IInv, Knows
        <3>2. handler[h].copy.count \in Nat
            BY <1>2 DEF HandlerState, Row
        <3>3. WellNumbered(revisions[f]) /\ WellNumbered(revisions'[f])
            BY <2>1, <2>4 DEF IInv, Kept, HistoryStep
        <3>4. /\ Cardinality(revisions[f]) \in Nat
              /\ Cardinality(revisions'[f]) \in Nat
            BY <3>3, FS_CardinalityType DEF WellNumbered
        <3> QED BY <2>4, <3>1, <3>2, <3>4 DEF HistoryStep
    <2> QED BY <1>4, <1>10, <2>1, <2>2, <2>3, <2>5
<1>11. ASSUME NEW h \in Handlers, Count(h) PROVE IInv'
    <2> DEFINE next == [handler[h] EXCEPT !.pc = "sealing"]
               state == IF handler[h].op \in Sealed THEN next ELSE Idle
               f == handler[h].on
               n == handler[h].rev.num
    <2>1. /\ handler[h].pc = "counting" /\ f \in Findings
          /\ row' = [row EXCEPT ![f].count = n]
          /\ handler' = [handler EXCEPT ![h] = state]
          /\ UNCHANGED <<revisions, deleted>>
        BY <1>1, <1>11 DEF Count, AfterCount, Goto, TypeInv, Fetched
    <2>2. /\ next.pc = "sealing" /\ next.on = f
          /\ next.copy = handler[h].copy /\ next.rev = handler[h].rev
        BY <1>2 DEF HandlerState
    <2>3. f \notin deleted => /\ handler[h].copy.count <= Cardinality(revisions[f])
                             /\ n \in Numbers(revisions[f])
        BY <2>1 DEF IInv, Knows
    <2>4. f \notin deleted => n <= Cardinality(revisions[f])
        <3> SUFFICES ASSUME f \notin deleted PROVE n <= Cardinality(revisions[f])
            OBVIOUS
        <3>1. WellNumbered(revisions[f])
            BY <2>1 DEF IInv, Kept
        <3>2. Cardinality(revisions[f]) \in Nat
            BY <3>1, FS_CardinalityType DEF WellNumbered
        <3>3. n \in 1..Cardinality(revisions[f])
            BY <2>3, <3>1 DEF WellNumbered
        <3> QED BY <3>2, <3>3
    <2>5. \A g \in Findings \ deleted :
             \/ row'[g].count = row[g].count
             \/ row'[g].count <= Cardinality(revisions[g])
        BY <1>2, <2>1, <2>4 DEF Row
    <2>6. Idle.pc = "idle"
        BY DEF Idle
    <2> HIDE DEF next
    <2>7. state = Idle \/ state = next
        OBVIOUS
    <2> HIDE DEF state
    <2> QED BY <1>4, <2>1, <2>2, <2>3, <2>5, <2>6, <2>7
<1>12. ASSUME NEW h \in Handlers, Seal(h) \/ Fail(h) \/ Kill(h) PROVE IInv'
    <2>1. /\ handler' = [handler EXCEPT ![h] = Idle]
          /\ UNCHANGED <<row, deleted>>
          /\ UNCHANGED revisions \/ Seal(h)
        BY <1>12 DEF Seal, Fail, Kill, Done, Goto
    <2>2. Idle.pc = "idle"
        BY DEF Idle
    <2> QED BY <1>4, <2>1, <2>2
<1> QED BY <1>3, <1>5, <1>6, <1>7, <1>8, <1>9, <1>10, <1>11, <1>12, NextCases
----------------------------------------------------------------------------

(* The revisions of a finding are numbered 1, 2, ..., k and revision_count *)
(* is at most k, though numbers come from copies of the count and copies   *)
(* are written back: a number that is taken is refused by the database.    *)
THEOREM HistoriesAreGapless == Spec => []HistoryIsGapless
<1>1. Spec => []IInv
    BY HistoryInit, HistoryInvStep, PTL DEF Spec
<1>2. IInv => HistoryIsGapless
    BY DEF IInv, Kept, WellNumbered, HistoryIsGapless
<1> QED BY <1>1, <1>2, PTL

(* The predecessor that a revision's hash covers is the revision numbered  *)
(* before it, though _add_revision reads it before the insert.             *)
THEOREM ChainsFollowNumbers == Spec => []ChainFollowsNumbers
<1>1. Spec => []IInv
    BY HistoryInit, HistoryInvStep, PTL DEF Spec
<1>2. IInv => ChainFollowsNumbers
    BY DEF IInv, Kept, WellNumbered, ChainFollowsNumbers
<1> QED BY <1>1, <1>2, PTL

(* Unless its finding is deleted, a revision stays as it was inserted, but *)
(* for the seal that its own handler puts on it.                           *)
THEOREM RevisionsStay == Spec => RevisionsAreKept
<1> DEFINE Step ==
        \A f \in Findings \ deleted' : \A r \in revisions[f] :
            r \in revisions'[f] \/ [r EXCEPT !.sealed = TRUE] \in revisions'[f]
<1>1. ASSUME TypeInv, [Next]_vars PROVE [Step]_vars
    <2>1. revisions \in [Findings -> SUBSET Revision]
        BY <1>1 DEF TypeInv, TypeOK
    <2>2. CASE UNCHANGED revisions
        BY <2>2
    <2>3. ASSUME NEW h \in Handlers, NEW d \in Findings, Delete(h, d) PROVE Step
        BY <2>1, <2>3 DEF Delete
    <2>4. ASSUME NEW h \in Handlers, Revise(h) PROVE Step
        BY <2>1, <2>4 DEF Revise
    <2>5. ASSUME NEW h \in Handlers, Seal(h) PROVE Step
        BY <2>1, <2>5 DEF Seal, Reseal
    <2>6. \/ UNCHANGED revisions
          \/ \E h \in Handlers : \/ \E d \in Findings : Delete(h, d)
                                 \/ Revise(h) \/ Seal(h)
        <3>1. CASE UNCHANGED vars
            BY <3>1 DEF vars
        <3>2. CASE Next
            <4>1. ASSUME NEW h \in Handlers, Starting(h) PROVE UNCHANGED revisions
                BY <1>1, <4>1, StartingStarts DEF StartOf
            <4> QED BY <3>2, <4>1, NextCases
                    DEF Create, Order, Save, Count, Fail, Kill
        <3> QED BY <1>1, <3>1, <3>2
    <2> QED BY <2>2, <2>3, <2>4, <2>5, <2>6
<1>2. Spec => []TypeInv
    BY TypeInit, TypeStep, PTL DEF Spec
<1>3. Spec => [][Step]_vars
    BY <1>1, <1>2, PTL DEF Spec
<1> QED BY <1>3 DEF RevisionsAreKept
----------------------------------------------------------------------------
(***************************************************************************)
(* One handler at a time.  As long as none has started beside another, the *)
(* copy that a handler works on is the row, and its revision the last.     *)
(***************************************************************************)
Alone == \A g, h \in Handlers : ~Free(g) /\ ~Free(h) => g = h

Fresh(h) ==
    LET me == handler[h]  f == me.on  R == revisions[f] IN
    /\ me.pc = "creating" /\ me.op # "log" => EngineFinds = {}
    /\ me.pc \in Working => f \notin deleted /\ row[f].status # "NONE"
    /\ me.pc \in {"ordering", "saving", "revising"} => me.copy = row[f]
    /\ me.pc = "ordering" => \/ me.op = "ncr" /\ ~row[f].ncr
                             \/ me.op = "inspect" /\ ~row[f].inspection
    /\ me.pc = "saving" /\ me.op = "rescore" => row[f].status = "pending_review"
    /\ me.pc = "revising" /\ kills = 0 => row[f].count = Cardinality(R)
    /\ me.pc \in {"counting", "sealing"} =>
          /\ me.rev \in R /\ me.rev.num = Cardinality(R)
          /\ me.rev.status = row[f].status
    /\ me.pc = "sealing" => row[f].count = Cardinality(R)

Chained(R) == \A r \in R : r.num > 1 => \E q \in R : HashOf(q) = r.prev

(* An order was placed that is still to be linked.                         *)
Ordered(op, f) ==
    \E h \in Handlers : handler[h].pc = "saving" /\ handler[h].op = op /\ handler[h].on = f

(* The revision of the change that was saved is still to be written.       *)
Unwritten(f) ==
    \E h \in Handlers : handler[h].pc \in {"revising", "counting"} /\ handler[h].on = f

Orders(f) ==
    /\ ncrs[f] <= kills + 1 /\ inspections[f] <= kills + 1
    /\ f \notin deleted =>
          /\ ncrs[f] <= kills \/ row[f].ncr \/ Ordered("ncr", f)
          /\ inspections[f] <= kills \/ row[f].inspection \/ Ordered("inspect", f)

Current(f) ==
    /\ row[f].count = Cardinality(revisions[f])
    /\ \E r \in revisions[f] : r.num = row[f].count /\ r.status = row[f].status

Reviewed(f) ==
    /\ Absent(f) => row[f] = NoRow /\ revisions[f] = {}
    /\ f \in deleted => Absent(f)
    /\ row[f].revised => row[f].status \in Decided
    /\ Chained(revisions[f])
    /\ Orders(f)
    /\ kills = 0 /\ ~Absent(f) => Current(f) \/ Unwritten(f)

SoloInv ==
    ~overlapped =>
        /\ Alone
        /\ \A h \in Handlers : Fresh(h)
        /\ \A f \in Findings : Reviewed(f)
        /\ \A f, g \in EngineFinds : f = g

Others(h) == Handlers \ {h}

(* Only h moves, and nobody else is at work.                               *)
LEMMA SoloFrame ==
    ASSUME TypeInv, NEW h \in Handlers, \A g \in Others(h) : Free(g),
           NEW state, handler' = [handler EXCEPT ![h] = state]
    PROVE  /\ handler'[h] = state
           /\ Alone'
           /\ \A g \in Others(h) : Fresh(g)'
           /\ \A op, f : Ordered(op, f) <=>
                 handler[h].pc = "saving" /\ handler[h].op = op /\ handler[h].on = f
           /\ \A op, f : Ordered(op, f)' <=>
                 state.pc = "saving" /\ state.op = op /\ state.on = f
           /\ \A f : Unwritten(f) <=>
                 handler[h].pc \in {"revising", "counting"} /\ handler[h].on = f
           /\ \A f : Unwritten(f)' <=>
                 state.pc \in {"revising", "counting"} /\ state.on = f
<1>1. handler'[h] = state /\ \A g \in Others(h) : handler'[g] = handler[g]
    BY DEF TypeInv, TypeOK, Others
<1>2. \A g \in Others(h) : handler[g].pc = "idle" /\ handler'[g].pc = "idle"
    BY <1>1 DEF Free
<1>3. Alone'
    BY <1>2 DEF Alone, Free, Others
<1>4. \A g \in Others(h) : Fresh(g)'
    BY <1>2 DEF Fresh, Working
<1>5. \A g \in Handlers : handler[g].pc # "idle" \/ handler'[g].pc # "idle" => g = h
    BY <1>2 DEF Others
<1>6. \A op, f : Ordered(op, f) <=>
          handler[h].pc = "saving" /\ handler[h].op = op /\ handler[h].on = f
    BY <1>5 DEF Ordered
<1>7. \A op, f : Ordered(op, f)' <=>
          state.pc = "saving" /\ state.op = op /\ state.on = f
    BY <1>1, <1>5 DEF Ordered
<1>8. \A f : Unwritten(f) <=>
          handler[h].pc \in {"revising", "counting"} /\ handler[h].on = f
    BY <1>5 DEF Unwritten
<1>9. \A f : Unwritten(f)' <=> state.pc \in {"revising", "counting"} /\ state.on = f
    BY <1>1, <1>5 DEF Unwritten
<1> QED BY <1>1, <1>3, <1>4, <1>6, <1>7, <1>8, <1>9

(* A finding that the step leaves as it was.                               *)
LEMMA ReviewedStays ==
    ASSUME TypeInv, NEW f \in Findings, Reviewed(f),
           row'[f] = row[f], revisions'[f] = revisions[f],
           ncrs'[f] = ncrs[f], inspections'[f] = inspections[f],
           f \in deleted' <=> f \in deleted,
           kills' = kills \/ kills' = kills + 1,
           kills' = kills => /\ Ordered("ncr", f) => Ordered("ncr", f)'
                             /\ Ordered("inspect", f) => Ordered("inspect", f)'
                             /\ Unwritten(f) => Unwritten(f)'
    PROVE  Reviewed(f)'
<1>1. kills \in Nat /\ ncrs[f] \in Nat /\ inspections[f] \in Nat
    BY DEF TypeInv, TypeOK
<1>2. Orders(f)'
    BY <1>1 DEF Reviewed, Orders
<1>3. kills' = 0 /\ ~Absent(f)' => (Current(f) \/ Unwritten(f))'
    BY <1>1 DEF Reviewed, Current, Absent
<1> QED BY <1>2, <1>3 DEF Reviewed, Absent, Chained

LEMMA SameFinds ==
    ASSUME \A f \in Findings : row'[f].manual = row[f].manual /\ row'[f].status = row[f].status
    PROVE  EngineFinds' = EngineFinds
BY DEF EngineFinds

(* What a handler knows when it starts.                                    *)
LEMMA StartingKnows ==
    ASSUME TypeInv, NEW h \in Handlers, Starting(h)
    PROVE  /\ Free(h)
           /\ overlapped' = (overlapped \/ OthersWork(h))
           /\ LET now == handler'[h] IN
              /\ now.pc = "creating" /\ now.op # "log" => EngineFinds = {}
              /\ now.pc = "ordering" => \/ now.op = "ncr" /\ ~row[now.on].ncr
                                        \/ now.op = "inspect" /\ ~row[now.on].inspection
              /\ now.pc = "saving" => now.op \notin {"ncr", "inspect"}
              /\ now.pc = "saving" /\ now.op = "rescore" => row[now.on].status = "pending_review"
<1> DEFINE now == handler'[h]
<1>1. ASSUME NEW pc, NEW f, NEW op, Begin(h, pc, f, op)
      PROVE  /\ Free(h)
             /\ overlapped' = (overlapped \/ OthersWork(h))
             /\ now.pc = pc /\ now.on = f /\ now.op = op
    BY <1>1 DEF Begin, Goto, TypeInv, TypeOK
<1>2. CASE Correlate(h) \/ Log(h)
    BY <1>1, <1>2 DEF Correlate, Log
<1>3. ASSUME NEW f \in Findings,
             Rescore(h, f) \/ Supplement(h, f) \/ Signoff(h, f) \/ Update(h, f)
      PROVE  \/ /\ Begin(h, "saving", f, "rescore") /\ row[f].status = "pending_review"
             \/ Begin(h, "saving", f, "update")
             \/ Begin(h, "revising", f, "supplement") \/ Begin(h, "revising", f, "signoff")
    BY <1>3 DEF Rescore, Supplement, Signoff, Update, EngineFinds
<1>4. ASSUME NEW f \in Findings, Review(h, f)
      PROVE  \E op \in Decisions : Begin(h, "saving", f, op)
    BY <1>4 DEF Review
<1>5. ASSUME NEW f \in Findings, TriggerInspection(h, f) \/ IssueNcr(h, f)
      PROVE  \/ Begin(h, "ordering", f, "inspect") /\ ~row[f].inspection
             \/ Begin(h, "ordering", f, "ncr") /\ ~row[f].ncr
    BY <1>5 DEF TriggerInspection, IssueNcr
<1> QED BY <1>1, <1>2, <1>3, <1>4, <1>5 DEF Starting, Decisions

LEMMA SoloStart ==
    ASSUME IInv, SoloInv, ~overlapped', NEW h \in Handlers, Starting(h)
    PROVE  SoloInv'
<1> USE DEF Working
<1>1. TypeInv
    BY DEF IInv
<1>2. PICK state : StartOf(h, state)
    BY <1>1, StartingStarts
<1>3. /\ Free(h) /\ ~overlapped /\ ~OthersWork(h)
      /\ handler[h].pc = "idle"
    BY <1>1, StartingKnows DEF Free
<1>4. \A g \in Others(h) : Free(g)
    BY <1>3 DEF OthersWork, Others
<1>5. /\ handler' = [handler EXCEPT ![h] = state]
      /\ UNCHANGED <<row, revisions, ncrs, inspections, deleted, kills>>
    BY <1>2 DEF StartOf
<1>6. /\ handler'[h] = state /\ Alone'
      /\ \A g \in Others(h) : Fresh(g)'
      /\ \A op, f : ~Ordered(op, f)
      /\ \A f : ~Unwritten(f)
    BY <1>1, <1>3, <1>4, <1>5, SoloFrame
<1>7. \A f \in Findings : Reviewed(f)
    BY <1>3 DEF SoloInv
<1>8. \A f \in Findings : Reviewed(f)'
    BY <1>1, <1>5, <1>6, <1>7, ReviewedStays
<1>9. EngineFinds' = EngineFinds
    BY <1>5, SameFinds
<1>10. Fresh(h)'
    <2>1. /\ state.pc \in {"creating", "ordering", "saving", "revising"}
          /\ state.pc # "creating" => /\ state.on \in Findings
                                     /\ state.copy = row[state.on]
                                     /\ state.copy.status # "NONE"
        BY <1>2 DEF StartOf
    <2>2. /\ state.pc = "creating" /\ state.op # "log" => EngineFinds = {}
          /\ state.pc = "ordering" => \/ state.op = "ncr" /\ ~row[state.on].ncr
                                      \/ state.op = "inspect" /\ ~row[state.on].inspection
          /\ state.pc = "saving" /\ state.op = "rescore" =>
                row[state.on].status = "pending_review"
        BY <1>1, <1>6, StartingKnows
    <2>3. state.pc # "creating" => state.on \notin deleted
        BY <1>7, <2>1 DEF Reviewed, Absent
    <2>4. state.pc # "creating" /\ kills = 0 =>
              row[state.on].count = Cardinality(revisions[state.on])
        BY <1>6, <1>7, <2>1 DEF Reviewed, Absent, Current
    <2> QED BY <1>5, <1>6, <1>9, <2>1, <2>2, <2>3, <2>4 DEF Fresh
<1> QED BY <1>3, <1>6, <1>8, <1>9, <1>10 DEF SoloInv, Others

(* The one that is at work.                                                *)
LEMMA SoloWorker ==
    ASSUME IInv, SoloInv, ~overlapped, NEW h \in Handlers, ~Free(h)
    PROVE  /\ TypeInv
           /\ row \in [Findings -> Row] /\ handler[h] \in HandlerState
           /\ revisions \in [Findings -> SUBSET Revision]
           /\ ncrs \in [Findings -> Nat] /\ inspections \in [Findings -> Nat] /\ kills \in Nat
           /\ \A g \in Others(h) : Free(g)
           /\ Fresh(h)
           /\ \A f \in Findings : Reviewed(f)
           /\ \A f \in Findings \ deleted : WellNumbered(revisions[f])
           /\ handler[h].pc \in Working =>
                 handler[h].on \in Findings /\ handler[h].on \notin deleted
BY DEF IInv, Kept, TypeInv, TypeOK, SoloInv, Alone, Others, Fresh, Fetched

LEMMA SoloKill ==
    ASSUME IInv, SoloInv, ~overlapped', NEW h \in Handlers, Kill(h)
    PROVE  SoloInv'
<1>1. /\ ~overlapped /\ ~Free(h) /\ kills' = kills + 1
      /\ handler' = [handler EXCEPT ![h] = Idle]
      /\ UNCHANGED <<row, revisions, ncrs, inspections, deleted>>
    BY DEF Kill, Done, Goto
<1>2. /\ handler'[h] = Idle /\ Alone' /\ \A g \in Others(h) : Fresh(g)'
    BY <1>1, SoloFrame, SoloWorker
<1>3. Fresh(h)'
    BY <1>2 DEF Fresh, Idle, Working
<1>4. \A f \in Findings : Reviewed(f)'
    <2>1. kills \in Nat /\ kills' # kills
        BY <1>1, SoloWorker
    <2> QED BY <1>1, <2>1, SoloWorker, ReviewedStays
<1>5. EngineFinds' = EngineFinds
    BY <1>1, SameFinds
<1> QED BY <1>1, <1>2, <1>3, <1>4, <1>5 DEF SoloInv, Others

(* Nobody else is at work: what a request needs is there.                  *)
LEMMA SoloFail ==
    ASSUME IInv, SoloInv, ~overlapped', NEW h \in Handlers, Fail(h)
    PROVE  SoloInv'
<1> DEFINE me == handler[h]  f == me.on  R == revisions[f]
<1>1. /\ ~overlapped /\ ~Free(h)
      /\ handler' = [handler EXCEPT ![h] = Idle]
      /\ UNCHANGED <<row, revisions, ncrs, inspections, deleted, kills>>
    BY DEF Fail, Done, Goto, Free
<1>2. /\ me.pc = "revising" /\ ~CanRevise(h) /\ kills # 0
    <2>1. me.pc # "counting"
        BY <1>1, SoloWorker DEF Fail, Fresh, Absent, Working
    <2>2. me.pc # "sealing"
        BY <1>1, SoloWorker DEF Fail, Fresh, CanSeal, Absent, Working
    <2>3. me.pc = "revising" /\ ~CanRevise(h)
        BY <2>1, <2>2 DEF Fail
    <2>4. kills # 0
        <3> SUFFICES ASSUME kills = 0 PROVE FALSE
            OBVIOUS
        <3>1. /\ f \in Findings /\ WellNumbered(R) /\ row[f].status # "NONE"
              /\ me.copy.count = Cardinality(R)
            BY <1>1, <2>3, SoloWorker DEF Fresh, Working
        <3>2. Cardinality(R) \in Nat
            BY <3>1, FS_CardinalityType DEF WellNumbered
        <3>3. Number(h) \notin Numbers(R)
            BY <3>1, <3>2 DEF WellNumbered, Number
        <3> QED BY <2>3, <3>1, <3>3 DEF CanRevise, Absent
    <2> QED BY <2>3, <2>4
<1>3. /\ handler'[h] = Idle /\ Alone' /\ \A g \in Others(h) : Fresh(g)'
      /\ \A op, x : ~Ordered(op, x)
    BY <1>1, <1>2, SoloFrame, SoloWorker
<1>4. Fresh(h)'
    BY <1>3 DEF Fresh, Idle, Working
<1>5. ASSUME NEW x \in Findings PROVE Reviewed(x)'
    <2>1. Reviewed(x) /\ kills \in Nat
        BY <1>1, SoloWorker
    <2> QED BY <1>1, <1>2, <1>3, <2>1 DEF Reviewed, Orders, Absent, Chained
<1>6. EngineFinds' = EngineFinds
    BY <1>1, SameFinds
<1> QED BY <1>1, <1>3, <1>4, <1>5, <1>6 DEF SoloInv, Others

LEMMA SoloOrder ==
    ASSUME IInv, SoloInv, ~overlapped', NEW h \in Handlers, Order(h)
    PROVE  SoloInv'
<1> DEFINE me == handler[h]  f == me.on
           state == [me EXCEPT !.pc = "saving"]
<1> USE DEF Working
<1>1. /\ ~overlapped /\ ~Free(h) /\ me.pc = "ordering"
      /\ handler' = [handler EXCEPT ![h] = state]
      /\ UNCHANGED <<row, revisions, deleted, kills>>
      /\ IF me.op = "ncr" THEN ncrs' = [ncrs EXCEPT ![f] = @ + 1] /\ UNCHANGED inspections
         ELSE inspections' = [inspections EXCEPT ![f] = @ + 1] /\ UNCHANGED ncrs
    BY DEF Order, Goto, Free
<1>2. /\ state.pc = "saving" /\ state.on = f /\ state.op = me.op /\ state.copy = me.copy
    BY <1>1, SoloWorker DEF HandlerState
<1> HIDE DEF state
<1>3. /\ handler'[h] = state /\ Alone' /\ \A g \in Others(h) : Fresh(g)'
      /\ \A op, x : ~Ordered(op, x)
      /\ \A op, x : (Ordered(op, x)' <=> (me.op = op /\ f = x))
      /\ \A x : ~Unwritten(x)
    <2>1. /\ TypeInv /\ \A g \in Others(h) : Free(g)
          /\ handler' = [handler EXCEPT ![h] = state]
        BY <1>1, SoloWorker
    <2>2. /\ handler'[h] = state /\ Alone' /\ \A g \in Others(h) : Fresh(g)'
          /\ \A op, x : ~Ordered(op, x)
          /\ \A x : ~Unwritten(x)
        BY <1>1, <2>1, SoloFrame
    <2>3. \A op, x : (Ordered(op, x)' <=> (me.op = op /\ f = x))
        <3>1. \A op, x : (Ordered(op, x)' <=>
                             (state.pc = "saving" /\ state.op = op /\ state.on = x))
            BY <2>1, SoloFrame
        <3> QED BY <1>2, <3>1
    <2> QED BY <2>2, <2>3
<1>4. /\ f \in Findings /\ f \notin deleted /\ row[f].status # "NONE" /\ me.copy = row[f]
      /\ \/ me.op = "ncr" /\ ~row[f].ncr
         \/ me.op = "inspect" /\ ~row[f].inspection
    BY <1>1, SoloWorker DEF Fresh
<1>5. Fresh(h)'
    BY <1>1, <1>2, <1>3, <1>4 DEF Fresh
<1>6. ASSUME NEW x \in Findings PROVE Reviewed(x)'
    <2>1. /\ Reviewed(x) /\ kills \in Nat
          /\ ncrs \in [Findings -> Nat] /\ inspections \in [Findings -> Nat]
        BY <1>1, SoloWorker
    <2>2. CASE x # f
        BY <1>1, <1>3, <1>4, <2>1, <2>2, SoloWorker, ReviewedStays
    <2>3. CASE x = f
        <3>1. Orders(x) /\ ~Ordered("ncr", x) /\ ~Ordered("inspect", x)
            BY <1>3, <2>1, <2>3 DEF Reviewed
        <3>2. CASE me.op = "ncr" /\ ~row[x].ncr
            <4>1. ncrs'[x] = ncrs[x] + 1 /\ inspections'[x] = inspections[x]
                BY <1>1, <1>4, <2>1, <2>3, <3>2
            <4>2. ncrs[x] <= kills /\ Ordered("ncr", x)'
                BY <1>3, <1>4, <2>3, <3>1, <3>2 DEF Orders
            <4>3. Orders(x)'
                BY <1>1, <1>4, <2>1, <3>1, <4>1, <4>2 DEF Orders
            <4> QED BY <1>1, <1>3, <2>1, <2>3, <4>3 DEF Reviewed, Current, Absent, Chained
        <3>3. CASE me.op = "inspect" /\ ~row[x].inspection
            <4>1. ncrs'[x] = ncrs[x] /\ inspections'[x] = inspections[x] + 1
                BY <1>1, <1>4, <2>1, <2>3, <3>3
            <4>2. inspections[x] <= kills /\ Ordered("inspect", x)'
                BY <1>3, <1>4, <2>3, <3>1, <3>3 DEF Orders
            <4>3. Orders(x)'
                BY <1>1, <1>4, <2>1, <3>1, <4>1, <4>2 DEF Orders
            <4> QED BY <1>1, <1>3, <2>1, <2>3, <4>3 DEF Reviewed, Current, Absent, Chained
        <3> QED BY <1>4, <2>3, <3>2, <3>3
    <2> QED BY <2>2, <2>3
<1>7. EngineFinds' = EngineFinds
    BY <1>1, SameFinds
<1> QED BY <1>1, <1>3, <1>5, <1>6, <1>7 DEF SoloInv, Others

LEMMA SoloCreate ==
    ASSUME IInv, SoloInv, ~overlapped', NEW h \in Handlers, NEW f \in Findings, Create(h, f)
    PROVE  SoloInv'
<1> DEFINE me == handler[h]
           new == NewRow(me.op)
           state == [me EXCEPT !.pc = "revising", !.on = f, !.copy = new]
<1> USE DEF Working
<1>1. /\ ~overlapped /\ ~Free(h) /\ me.pc = "creating" /\ Absent(f) /\ f \notin deleted
      /\ row' = [row EXCEPT ![f] = new]
      /\ handler' = [handler EXCEPT ![h] = state]
      /\ UNCHANGED <<revisions, ncrs, inspections, deleted, kills>>
    BY DEF Create, Goto, Free
<1>2. /\ new.status = "pending_review" /\ new.manual = (me.op = "log") /\ ~new.revised
      /\ new.count = 0
    BY DEF NewRow, NoRow
<1> HIDE DEF new
<1>3. state.pc = "revising" /\ state.on = f /\ state.copy = new
    BY <1>1, SoloWorker DEF HandlerState
<1> HIDE DEF state
<1>4. /\ TypeInv /\ \A g \in Others(h) : Free(g)
      /\ row \in [Findings -> Row] /\ me \in HandlerState /\ kills \in Nat
      /\ \A x \in Findings : Reviewed(x)
      /\ Fresh(h)
    BY <1>1, SoloWorker
<1>5. /\ handler'[h] = state /\ Alone' /\ \A g \in Others(h) : Fresh(g)'
      /\ \A op, x : ~Ordered(op, x)
      /\ \A x : ~Unwritten(x)
    BY <1>1, <1>4, SoloFrame
<1>6. Unwritten(f)'
    BY <1>1, <1>3, <1>5 DEF Unwritten
<1>7. /\ row'[f] = new /\ revisions[f] = {} /\ row[f] = NoRow
      /\ \A x \in Findings \ {f} : row'[x] = row[x]
    BY <1>1, <1>4 DEF Reviewed
<1>8. Cardinality(revisions[f]) = 0
    BY <1>7, FS_EmptySet
<1>9. Fresh(h)'
    <2>1. /\ handler'[h].pc = "revising" /\ handler'[h].on = f /\ handler'[h].copy = row'[f]
        BY <1>3, <1>5, <1>7
    <2>2. f \notin deleted' /\ row'[f].status # "NONE"
        BY <1>1, <1>2, <1>7
    <2>3. row'[f].count = Cardinality(revisions'[f])
        BY <1>1, <1>2, <1>7, <1>8
    <2> QED BY <2>1, <2>2, <2>3 DEF Fresh
<1>10. ASSUME NEW x \in Findings PROVE Reviewed(x)'
    <2>1. CASE x # f
        BY <1>1, <1>4, <1>5, <1>7, <2>1, ReviewedStays
    <2>2. CASE x = f
        <3>1. Orders(x) /\ Chained(revisions[x])
            BY <1>4 DEF Reviewed
        <3>2. Orders(x)'
            BY <1>1, <1>5, <1>7, <2>2, <3>1 DEF Orders, NoRow
        <3> QED BY <1>1, <1>2, <1>6, <1>7, <2>2, <3>1, <3>2 DEF Reviewed, Absent, Chained
    <2> QED BY <2>1, <2>2
<1>11. \A x, y \in EngineFinds' : x = y
    <2>1. EngineFinds' \subseteq EngineFinds \cup {f}
        BY <1>7 DEF EngineFinds
    <2>2. CASE me.op # "log"
        BY <1>1, <1>4, <2>1, <2>2 DEF Fresh
    <2>3. CASE me.op = "log"
        <3>1. f \notin EngineFinds'
            BY <1>2, <1>7, <2>3 DEF EngineFinds
        <3> QED BY <1>1, <2>1, <3>1 DEF SoloInv
    <2> QED BY <2>2, <2>3
<1> QED BY <1>1, <1>5, <1>9, <1>10, <1>11 DEF SoloInv, Others

LEMMA SoloDelete ==
    ASSUME IInv, SoloInv, ~overlapped', NEW h \in Handlers, NEW f \in Findings, Delete(h, f)
    PROVE  SoloInv'
<1>1. /\ ~overlapped /\ ~OthersWork(h) /\ Free(h) /\ ~Absent(f)
      /\ row' = [row EXCEPT ![f] = NoRow]
      /\ revisions' = [revisions EXCEPT ![f] = {}]
      /\ deleted' = deleted \cup {f}
      /\ UNCHANGED <<ncrs, inspections, handler, kills>>
    BY DEF Delete
<1>2. \A g \in Handlers : handler'[g] = handler[g] /\ handler[g].pc = "idle"
    BY <1>1 DEF OthersWork, Free
<1>3. Alone' /\ \A g \in Handlers : Fresh(g)'
    BY <1>2 DEF Alone, Fresh, Free, Working
<1>4. \A op, x : ~Ordered(op, x) /\ ~Unwritten(x)
    BY <1>2 DEF Ordered, Unwritten
<1>5. /\ TypeInv /\ row \in [Findings -> Row] /\ revisions \in [Findings -> SUBSET Revision]
      /\ \A x \in Findings : Reviewed(x)
    BY <1>1 DEF IInv, TypeInv, TypeOK, SoloInv
<1>6. /\ row'[f] = NoRow /\ revisions'[f] = {}
      /\ \A x \in Findings \ {f} : row'[x] = row[x] /\ revisions'[x] = revisions[x]
    BY <1>1, <1>5
<1>7. ASSUME NEW x \in Findings PROVE Reviewed(x)'
    <2>1. CASE x # f
        BY <1>1, <1>4, <1>5, <1>6, <2>1, ReviewedStays
    <2>2. CASE x = f
        <3>1. Orders(x)
            BY <1>5 DEF Reviewed
        <3>2. Orders(x)'
            BY <1>1, <2>2, <3>1 DEF Orders
        <3> QED BY <1>6, <2>2, <3>2 DEF Reviewed, Absent, Chained, NoRow
    <2> QED BY <2>1, <2>2
<1>8. EngineFinds' \subseteq EngineFinds
    BY <1>6 DEF EngineFinds, NoRow
<1> QED BY <1>1, <1>3, <1>7, <1>8 DEF SoloInv

(* What an operation leaves of the row that it works on.                   *)
LEMMA ChangedKeeps ==
    ASSUME NEW op \in Operations, NEW r \in Row, r.status # "NONE",
           r.revised => r.status \in Decided,
           op = "rescore" => r.status = "pending_review"
    PROVE  LET new == Changed(op, r) IN
           /\ new.status # "NONE" /\ new.manual = r.manual /\ new.count = r.count
           /\ new.status = "pending_review" => r.status = "pending_review"
           /\ r.status \in Decided => new.status \in Decided
           /\ r.revised => new.revised
           /\ new.revised => new.status \in Decided
           /\ new.ncr = (r.ncr \/ op = "ncr")
           /\ new.inspection = (r.inspection \/ op = "inspect")
           /\ op = "update" => new = r
<1> DEFINE new == Changed(op, r)
<1> USE DEF Row, Decided
<1>1. CASE op = "rescore"
    BY <1>1 DEF Changed
<1>2. CASE op \in {"accept", "reject", "modify"}
    BY <1>2 DEF Changed
<1>3. CASE op \in {"inspect", "ncr"}
    BY <1>3 DEF Changed
<1>4. CASE op \notin {"rescore", "accept", "reject", "modify", "inspect", "ncr"}
    BY <1>4 DEF Changed
<1> QED BY <1>1, <1>2, <1>3, <1>4

LEMMA SoloSave ==
    ASSUME IInv, SoloInv, ~overlapped', NEW h \in Handlers, Save(h)
    PROVE  SoloInv'
<1> DEFINE me == handler[h]  f == me.on
           new == Changed(me.op, me.copy)
           next == [me EXCEPT !.pc = "revising", !.copy = new]
           state == IF me.op = "update" THEN Idle ELSE next
<1> USE DEF Working
<1>1. /\ ~overlapped /\ ~Free(h) /\ me.pc = "saving"
      /\ row' = [row EXCEPT ![f] = new]
      /\ handler' = [handler EXCEPT ![h] = state]
      /\ UNCHANGED <<revisions, ncrs, inspections, deleted, kills>>
    BY DEF Save, Goto, Free
<1>2. /\ TypeInv /\ \A g \in Others(h) : Free(g)
      /\ row \in [Findings -> Row] /\ me \in HandlerState /\ kills \in Nat
      /\ \A x \in Findings : Reviewed(x)
      /\ f \in Findings /\ f \notin deleted
    BY <1>1, SoloWorker
<1>3. /\ me.copy = row[f] /\ row[f].status # "NONE"
      /\ me.op = "rescore" => row[f].status = "pending_review"
    BY <1>1, SoloWorker DEF Fresh
<1>4. me.op \in Operations /\ row[f] \in Row
      /\ (row[f].revised => row[f].status \in Decided)
    BY <1>2 DEF HandlerState, Reviewed
<1>5. /\ new.status # "NONE" /\ new.manual = row[f].manual /\ new.count = row[f].count
      /\ new.status = "pending_review" => row[f].status = "pending_review"
      /\ new.revised => new.status \in Decided
      /\ new.ncr = (row[f].ncr \/ me.op = "ncr")
      /\ new.inspection = (row[f].inspection \/ me.op = "inspect")
      /\ me.op = "update" => new = row[f]
    BY <1>3, <1>4, ChangedKeeps
<1> HIDE DEF new
<1>6. /\ next.pc = "revising" /\ next.on = f /\ next.op = me.op /\ next.copy = new
    BY <1>2 DEF HandlerState
<1> HIDE DEF next
<1>7. \/ me.op = "update" /\ state.pc = "idle"
      \/ me.op # "update" /\ state.pc = "revising" /\ state.on = f /\ state.op = me.op
         /\ state.copy = new
    BY <1>6 DEF Idle
<1> HIDE DEF state
<1>8. /\ handler'[h] = state /\ Alone' /\ \A g \in Others(h) : Fresh(g)'
      /\ \A op, x : (Ordered(op, x) <=> (me.op = op /\ f = x))
      /\ \A x : ~Unwritten(x)
    <2>1. /\ handler'[h] = state /\ Alone' /\ \A g \in Others(h) : Fresh(g)'
        BY <1>1, <1>2, SoloFrame
    <2>2. \A op, x : (Ordered(op, x) <=> (me.pc = "saving" /\ me.op = op /\ me.on = x))
        BY <1>1, <1>2, SoloFrame
    <2>3. \A x : ~Unwritten(x)
        BY <1>1, <1>2, SoloFrame
    <2> QED BY <1>1, <2>1, <2>2, <2>3
<1>9. /\ row'[f] = new
      /\ \A x \in Findings \ {f} : row'[x] = row[x]
    BY <1>1, <1>2
<1>10. ASSUME NEW x \in Findings PROVE Reviewed(x)'
    <2>1. CASE x # f
        BY <1>1, <1>2, <1>8, <1>9, <2>1, ReviewedStays
    <2>2. CASE x = f
        <3>1. Orders(x) /\ Chained(revisions[x]) /\ row'[x] = new
            BY <1>2, <1>9, <2>2 DEF Reviewed
        <3>2. Orders(x)'
            BY <1>1, <1>2, <1>5, <1>8, <2>2, <3>1 DEF Orders
        <3>3. kills = 0 => Current(x)
            BY <1>2, <1>3, <1>8, <2>2 DEF Reviewed, Absent
        <3>4. kills' = 0 => Current(x)' \/ Unwritten(x)'
            <4>1. CASE me.op = "update"
                BY <1>1, <1>5, <2>2, <3>1, <3>3, <4>1 DEF Current
            <4>2. CASE me.op # "update"
                BY <1>7, <1>8, <2>2, <4>2 DEF Unwritten
            <4> QED BY <4>1, <4>2
        <3> QED BY <1>1, <1>2, <1>5, <2>2, <3>1, <3>2, <3>4 DEF Reviewed, Absent, Chained
    <2> QED BY <2>1, <2>2
<1>11. Fresh(h)'
    <2>1. kills = 0 => row[f].count = Cardinality(revisions[f])
        BY <1>2, <1>3, <1>8 DEF Reviewed, Absent, Current
    <2>2. CASE state.pc = "idle"
        BY <1>8, <2>2 DEF Fresh
    <2>3. CASE state.pc = "revising" /\ state.on = f /\ state.copy = new
        <3>1. handler'[h].pc = "revising" /\ handler'[h].on = f /\ handler'[h].copy = row'[f]
            BY <1>8, <1>9, <2>3
        <3>2. /\ f \notin deleted' /\ row'[f].status # "NONE"
              /\ kills' = 0 => row'[f].count = Cardinality(revisions'[f])
            BY <1>1, <1>2, <1>5, <1>9, <2>1
        <3> QED BY <3>1, <3>2 DEF Fresh
    <2> QED BY <1>7, <2>2, <2>3
<1>12. EngineFinds' \subseteq EngineFinds
    BY <1>3, <1>5, <1>9 DEF EngineFinds
<1> QED BY <1>1, <1>8, <1>10, <1>11, <1>12 DEF SoloInv, Others

LEMMA SoloRevise ==
    ASSUME IInv, SoloInv, ~overlapped', NEW h \in Handlers, Revise(h)
    PROVE  SoloInv'
<1> DEFINE me == handler[h]  f == me.on  R == revisions[f]
           new == NewRevision(h)
           state == [me EXCEPT !.pc = "counting", !.rev = new]
<1> USE DEF Working
<1>1. /\ ~overlapped /\ ~Free(h) /\ me.pc = "revising" /\ CanRevise(h)
      /\ revisions' = [revisions EXCEPT ![f] = @ \cup {new}]
      /\ handler' = [handler EXCEPT ![h] = state]
      /\ UNCHANGED <<row, ncrs, inspections, deleted, kills>>
    BY DEF Revise, Goto, Free
<1>2. /\ TypeInv /\ \A g \in Others(h) : Free(g)
      /\ row \in [Findings -> Row] /\ me \in HandlerState /\ kills \in Nat
      /\ revisions \in [Findings -> SUBSET Revision]
      /\ \A x \in Findings : Reviewed(x)
      /\ f \in Findings /\ f \notin deleted /\ WellNumbered(R)
    BY <1>1, SoloWorker
<1>3. me.copy = row[f] /\ row[f].status # "NONE"
    BY <1>1, SoloWorker DEF Fresh
<1>4. Cardinality(R) \in Nat
    BY <1>2, FS_CardinalityType DEF WellNumbered
<1>5. new.num = row[f].count + 1 /\ new.status = row[f].status /\ new.prev = LastHash(R)
    BY <1>3 DEF NewRevision, Number
<1>6. new.num = Cardinality(R) + 1
    <2>1. new.num \notin 1..Cardinality(R) /\ new.num \in Nat \ {0}
        BY <1>1, <1>2, <1>3, <1>5 DEF CanRevise, Number, WellNumbered, Row
    <2>2. row[f].count <= Cardinality(R)
        BY <1>2 DEF IInv, Kept
    <2>3. row[f].count \in Nat
        BY <1>2 DEF Row
    <2> QED BY <1>4, <1>5, <2>1, <2>2, <2>3
<1> HIDE DEF new
<1>7. /\ state.pc = "counting" /\ state.on = f /\ state.rev = new
    BY <1>2 DEF HandlerState
<1> HIDE DEF state
<1>8. /\ handler'[h] = state /\ Alone' /\ \A g \in Others(h) : Fresh(g)'
    BY <1>1, <1>2, SoloFrame
<1>9. /\ \A op, x : ~Ordered(op, x)
      /\ \A x : Unwritten(x) => x = f
    <2>1. \A op, x : Ordered(op, x) => me.pc = "saving"
        BY <1>1, <1>2, SoloFrame
    <2>2. \A x : Unwritten(x) => me.on = x
        BY <1>1, <1>2, SoloFrame
    <2> QED BY <1>1, <2>1, <2>2
<1>10. \A x : x = f => Unwritten(x)'
    BY <1>7, <1>8 DEF Unwritten
<1>11. /\ revisions'[f] = R \cup {new}
       /\ \A x \in Findings \ {f} : revisions'[x] = revisions[x]
    BY <1>1, <1>2
<1>12. Cardinality(R \cup {new}) = Cardinality(R) + 1
    <2>1. new \notin R
        BY <1>2, <1>4, <1>6 DEF WellNumbered, Numbers
    <2> QED BY <1>2, <2>1, FS_AddElement DEF WellNumbered
<1>13. Fresh(h)'
    <2>1. handler'[h].pc = "counting" /\ handler'[h].on = f /\ handler'[h].rev = new
        BY <1>7, <1>8
    <2>2. /\ f \notin deleted' /\ row'[f].status # "NONE" /\ new.status = row'[f].status
        BY <1>1, <1>2, <1>3, <1>5
    <2>3. new \in revisions'[f] /\ new.num = Cardinality(revisions'[f])
        BY <1>6, <1>11, <1>12
    <2> QED BY <2>1, <2>2, <2>3 DEF Fresh
<1>14. Chained(R \cup {new})
    <2>1. Chained(R)
        BY <1>2 DEF Reviewed
    <2>2. new.num > 1 => \E q \in R : HashOf(q) = new.prev
        <3> SUFFICES ASSUME new.num > 1 PROVE \E q \in R : HashOf(q) = LastHash(R)
            BY <1>5
        <3>1. R # {}
            BY <1>4, <1>6, FS_EmptySet
        <3>2. \A r \in R : r.num <= Cardinality(R)
            BY <1>2, <1>4 DEF WellNumbered, Numbers
        <3> QED BY <1>2, <1>4, <3>1, <3>2, LastHashIsHash
    <2> QED BY <2>1, <2>2 DEF Chained
<1>15. ASSUME NEW x \in Findings PROVE Reviewed(x)'
    <2>1. CASE x # f
        BY <1>1, <1>2, <1>9, <1>11, <2>1, ReviewedStays
    <2>2. CASE x = f
        <3>1. Orders(x) /\ row[x].status # "NONE"
            BY <1>2, <1>3, <2>2 DEF Reviewed
        <3>2. Orders(x)'
            BY <1>1, <1>9, <3>1 DEF Orders
        <3>3. Chained(revisions'[x]) /\ Unwritten(x)'
            BY <1>10, <1>11, <1>14, <2>2
        <3> QED BY <1>1, <1>2, <3>1, <3>2, <3>3 DEF Reviewed, Absent, Chained
    <2> QED BY <2>1, <2>2
<1>16. EngineFinds' = EngineFinds
    BY <1>1, SameFinds
<1> QED BY <1>1, <1>8, <1>13, <1>15, <1>16 DEF SoloInv, Others

LEMMA SoloCount ==
    ASSUME IInv, SoloInv, ~overlapped', NEW h \in Handlers, Count(h)
    PROVE  SoloInv'
<1> DEFINE me == handler[h]  f == me.on  R == revisions[f]
           next == [me EXCEPT !.pc = "sealing"]
           state == IF me.op \in Sealed THEN next ELSE Idle
<1> USE DEF Working
<1>1. /\ ~overlapped /\ ~Free(h) /\ me.pc = "counting"
      /\ row' = [row EXCEPT ![f].count = me.rev.num]
      /\ handler' = [handler EXCEPT ![h] = state]
      /\ UNCHANGED <<revisions, ncrs, inspections, deleted, kills>>
    BY DEF Count, AfterCount, Goto, Free
<1>2. /\ TypeInv /\ \A g \in Others(h) : Free(g)
      /\ row \in [Findings -> Row] /\ me \in HandlerState /\ kills \in Nat
      /\ \A x \in Findings : Reviewed(x)
      /\ f \in Findings /\ f \notin deleted
    BY <1>1, SoloWorker
<1>3. /\ row[f].status # "NONE"
      /\ me.rev \in R /\ me.rev.num = Cardinality(R) /\ me.rev.status = row[f].status
    BY <1>1, SoloWorker DEF Fresh
<1>4. next.pc = "sealing" /\ next.on = f /\ next.rev = me.rev
    BY <1>2 DEF HandlerState
<1> HIDE DEF next
<1>5. \/ state.pc = "idle"
      \/ state.pc = "sealing" /\ state.on = f /\ state.rev = me.rev
    BY <1>4 DEF Idle
<1> HIDE DEF state
<1>6. /\ handler'[h] = state /\ Alone' /\ \A g \in Others(h) : Fresh(g)'
    BY <1>1, <1>2, SoloFrame
<1>7. /\ \A op, x : ~Ordered(op, x)
      /\ \A x : Unwritten(x) => x = f
    <2>1. \A op, x : Ordered(op, x) => me.pc = "saving"
        BY <1>1, <1>2, SoloFrame
    <2>2. \A x : Unwritten(x) => me.on = x
        BY <1>1, <1>2, SoloFrame
    <2> QED BY <1>1, <2>1, <2>2
<1>8. /\ row'[f] = [row[f] EXCEPT !.count = me.rev.num]
      /\ \A x \in Findings \ {f} : row'[x] = row[x]
    BY <1>1, <1>2
<1>9. /\ row'[f].count = Cardinality(R) /\ row'[f].status = row[f].status
      /\ row'[f].manual = row[f].manual /\ row'[f].revised = row[f].revised
      /\ row'[f].ncr = row[f].ncr /\ row'[f].inspection = row[f].inspection
    BY <1>2, <1>3, <1>8 DEF Row
<1>10. Fresh(h)'
    <2>1. CASE state.pc = "idle"
        BY <1>6, <2>1 DEF Fresh
    <2>2. CASE state.pc = "sealing" /\ state.on = f /\ state.rev = me.rev
        <3>1. handler'[h].pc = "sealing" /\ handler'[h].on = f /\ handler'[h].rev = me.rev
            BY <1>6, <2>2
        <3>2. /\ me.rev \in revisions'[f] /\ me.rev.num = Cardinality(revisions'[f])
              /\ me.rev.status = row'[f].status /\ row'[f].status # "NONE"
              /\ f \notin deleted' /\ row'[f].count = Cardinality(revisions'[f])
            BY <1>1, <1>2, <1>3, <1>9
        <3> QED BY <3>1, <3>2 DEF Fresh
    <2> QED BY <1>5, <2>1, <2>2
<1>11. ASSUME NEW x \in Findings PROVE Reviewed(x)'
    <2>1. CASE x # f
        BY <1>1, <1>2, <1>7, <1>8, <2>1, ReviewedStays
    <2>2. CASE x = f
        <3>1. Orders(x) /\ row[x].status # "NONE" /\ Chained(revisions[x])
              /\ (row[x].revised => row[x].status \in Decided)
            BY <1>2, <1>3, <2>2 DEF Reviewed
        <3>2. Orders(x)'
            BY <1>1, <1>7, <1>9, <2>2, <3>1 DEF Orders
        <3>3. Current(x)'
            <4>1. me.rev \in revisions'[x] /\ row'[x].count = Cardinality(revisions'[x])
                  /\ me.rev.num = row'[x].count /\ me.rev.status = row'[x].status
                BY <1>1, <1>3, <1>9, <2>2
            <4> QED BY <4>1 DEF Current
        <3> QED BY <1>1, <1>2, <1>9, <2>2, <3>1, <3>2, <3>3 DEF Reviewed, Absent, Chained
    <2> QED BY <2>1, <2>2
<1>12. EngineFinds' = EngineFinds
    BY <1>8, <1>9, SameFinds
<1> QED BY <1>1, <1>6, <1>10, <1>11, <1>12 DEF SoloInv, Others

LEMMA SoloSeal ==
    ASSUME IInv, SoloInv, ~overlapped', NEW h \in Handlers, Seal(h)
    PROVE  SoloInv'
<1> DEFINE me == handler[h]  f == me.on  R == revisions[f]  rev == me.rev
           sealed == [rev EXCEPT !.sealed = TRUE]
<1> USE DEF Working
<1>1. /\ ~overlapped /\ ~Free(h) /\ me.pc = "sealing"
      /\ revisions' = [revisions EXCEPT ![f] = Reseal(@, rev)]
      /\ handler' = [handler EXCEPT ![h] = Idle]
      /\ UNCHANGED <<row, ncrs, inspections, deleted, kills>>
    BY DEF Seal, Done, Goto, Free
<1>2. /\ TypeInv /\ \A g \in Others(h) : Free(g)
      /\ row \in [Findings -> Row] /\ me \in HandlerState /\ kills \in Nat
      /\ revisions \in [Findings -> SUBSET Revision]
      /\ \A x \in Findings : Reviewed(x)
      /\ f \in Findings /\ f \notin deleted /\ WellNumbered(R)
    BY <1>1, SoloWorker
<1>3. /\ row[f].status # "NONE" /\ row[f].count = Cardinality(R)
      /\ rev \in R /\ rev.num = Cardinality(R) /\ rev.status = row[f].status
    BY <1>1, SoloWorker DEF Fresh
<1>4. Cardinality(R) \in Nat /\ R \subseteq Revision
    BY <1>2, FS_CardinalityType DEF WellNumbered
<1>5. /\ handler'[h] = Idle /\ Alone' /\ \A g \in Others(h) : Fresh(g)'
      /\ \A op, x : ~Ordered(op, x)
      /\ \A x : ~Unwritten(x)
    BY <1>1, <1>2, SoloFrame
<1>6. Fresh(h)'
    BY <1>5 DEF Fresh, Idle
<1>7. /\ revisions'[f] = (R \ {rev}) \cup {sealed}
      /\ \A x \in Findings \ {f} : revisions'[x] = revisions[x]
    BY <1>1, <1>2 DEF Reseal
<1>8. /\ sealed.num = rev.num /\ sealed.status = rev.status /\ sealed.prev = rev.prev
    BY <1>3, <1>4 DEF Revision
<1> HIDE DEF sealed
<1>9. Cardinality(revisions'[f]) = Cardinality(R)
    <2>1. revisions'[f] = Reseal(R, rev)
        BY <1>1, <1>2
    <2> QED BY <1>2, <1>3, <1>4, <2>1, HistoryResealed
(* Nothing is chained to the last revision, the one that is hashed again.  *)
<1>10. Chained(revisions'[f])
    <2>1. Chained(R)
        BY <1>2 DEF Reviewed
    <2>2. ASSUME NEW r \in R, r.num > 1 PROVE \E q \in R \ {rev} : HashOf(q) = r.prev
        <3>1. PICK q \in R : HashOf(q) = r.prev
            BY <2>1, <2>2 DEF Chained
        <3>2. q.num = r.num - 1 /\ r.num \in 1..Cardinality(R)
            BY <1>2, <3>1 DEF WellNumbered, Numbers, HashOf
        <3>3. q # rev
            BY <1>3, <1>4, <3>2
        <3> QED BY <3>1, <3>3
    <2>3. sealed.num > 1 => \E q \in R \ {rev} : HashOf(q) = sealed.prev
        BY <1>3, <1>8, <2>2
    <2> QED BY <1>7, <2>2, <2>3 DEF Chained
<1>11. ASSUME NEW x \in Findings PROVE Reviewed(x)'
    <2>1. CASE x # f
        BY <1>1, <1>2, <1>5, <1>7, <2>1, ReviewedStays
    <2>2. CASE x = f
        <3>1. Orders(x) /\ row[x].status # "NONE"
              /\ (row[x].revised => row[x].status \in Decided)
            BY <1>2, <1>3, <2>2 DEF Reviewed
        <3>2. Orders(x)'
            BY <1>1, <1>5, <3>1 DEF Orders
        <3>3. Current(x)'
            <4>1. sealed \in revisions'[x] /\ row'[x].count = Cardinality(revisions'[x])
                  /\ sealed.num = row'[x].count /\ sealed.status = row'[x].status
                BY <1>1, <1>3, <1>7, <1>8, <1>9, <2>2
            <4> QED BY <4>1 DEF Current
        <3>4. Chained(revisions'[x])
            BY <1>10, <2>2
        <3> QED BY <1>1, <1>2, <2>2, <3>1, <3>2, <3>3, <3>4 DEF Reviewed, Absent, Chained
    <2> QED BY <2>1, <2>2
<1>12. EngineFinds' = EngineFinds
    BY <1>1, SameFinds
<1> QED BY <1>1, <1>5, <1>6, <1>11, <1>12 DEF SoloInv, Others

LEMMA SoloNext == ASSUME IInv, SoloInv, [Next]_vars PROVE SoloInv'
<1> SUFFICES ASSUME ~overlapped' PROVE SoloInv'
    BY DEF SoloInv
<1>1. CASE UNCHANGED vars
    <2>1. ~overlapped /\ SoloInv
        BY <1>1 DEF vars
    <2>2. Alone' /\ EngineFinds' = EngineFinds
        BY <1>1, <2>1 DEF vars, SoloInv, Alone, Free, EngineFinds
    <2>3. \A h \in Handlers : Fresh(h)'
        BY <1>1, <2>1, <2>2 DEF vars, SoloInv, Fresh
    <2>4. ASSUME NEW f \in Findings PROVE Reviewed(f)'
        <3>1. \A op : Ordered(op, f) => Ordered(op, f)'
            BY <1>1 DEF vars, Ordered
        <3>2. Unwritten(f) => Unwritten(f)'
            BY <1>1 DEF vars, Unwritten
        <3>3. TypeInv /\ Reviewed(f)
            BY <2>1 DEF IInv, SoloInv
        <3> QED BY <1>1, <3>1, <3>2, <3>3, ReviewedStays DEF vars
    <2> QED BY <2>1, <2>2, <2>3, <2>4 DEF SoloInv
<1>2. CASE Next
    BY <1>2, NextCases, SoloStart, SoloCreate, SoloDelete, SoloOrder, SoloSave, SoloRevise,
       SoloCount, SoloSeal, SoloFail, SoloKill
<1> QED BY <1>1, <1>2

LEMMA SoloInit == ASSUME Init PROVE SoloInv
<1>1. /\ \A h \in Handlers : handler[h].pc = "idle"
      /\ \A f \in Findings : /\ row[f] = NoRow /\ revisions[f] = {}
                             /\ ncrs[f] = 0 /\ inspections[f] = 0
      /\ deleted = {} /\ kills = 0
    BY DEF Init, Idle
<1>2. Alone /\ \A h \in Handlers : Fresh(h)
    BY <1>1 DEF Alone, Free, Fresh, Working
<1>3. \A f \in Findings : Reviewed(f)
    BY <1>1 DEF Reviewed, Absent, Orders, Chained, NoRow
<1>4. EngineFinds = {}
    BY <1>1 DEF EngineFinds, NoRow
<1> QED BY <1>2, <1>3, <1>4 DEF SoloInv

(* The invariant holds in every state, beside the one of the histories.    *)
LEMMA SoloHolds == Spec => [](IInv /\ SoloInv)
BY HistoryInit, HistoryInvStep, SoloInit, SoloNext, PTL DEF Spec

(* However many findings there are: as long as no two handlers have worked *)
(* at the same time, the engine finds one pending finding of its group at  *)
(* most, since whoever creates one looked for it when none was there.      *)
THEOREM PendingIsUnique == Spec => []OnePendingPerGroup
<1>1. SoloInv => OnePendingPerGroup
    BY DEF SoloInv, OnePendingPerGroup
<1> QED BY <1>1, SoloHolds, PTL

(* As long as no two handlers have worked at the same time, every hash that*)
(* a revision names is the hash of a revision that is there: only the last *)
(* revision is sealed, and nothing is chained to it yet.                   *)
THEOREM ChainsAreIntact == Spec => []ChainIsIntact
<1>1. SoloInv => ChainIsIntact
    BY DEF SoloInv, ChainIsIntact, Reviewed, Chained
<1> QED BY <1>1, SoloHolds, PTL

(* As long as no two handlers have worked at the same time, it takes a kill*)
(* between the order and the link for a second NCR, or a second inspection,*)
(* of one finding: with any number of kills, one more than those at most.  *)
THEOREM OrdersFollowLinks == Spec => []OrdersAreLinked
<1>1. IInv /\ SoloInv => OrdersAreLinked
    <2> SUFFICES ASSUME IInv, SoloInv, ~overlapped, NEW f \in Findings
                 PROVE  ncrs[f] <= 1 + kills /\ inspections[f] <= 1 + kills
        BY DEF OrdersAreLinked
    <2>1. kills \in Nat
        BY DEF IInv, TypeInv, TypeOK
    <2>2. ncrs[f] <= kills + 1 /\ inspections[f] <= kills + 1
        BY DEF SoloInv, Reviewed, Orders
    <2> QED BY <2>1, <2>2
<1> QED BY <1>1, SoloHolds, PTL

(* As long as no two handlers have worked at the same time and none was    *)
(* killed, what is there once all have ended was counted, and the last     *)
(* revision of a finding says what its row says.                           *)
THEOREM HistoriesAreCurrent == Spec => []HistoryIsCurrent
<1>1. SoloInv => HistoryIsCurrent
    <2> SUFFICES ASSUME SoloInv, ~overlapped, kills = 0, \A h \in Handlers : Free(h),
                        NEW f \in Findings, ~Absent(f)
                 PROVE  Current(f)
        BY DEF HistoryIsCurrent, Current
    <2>1. ~Unwritten(f)
        BY DEF Unwritten, Free
    <2> QED BY <2>1 DEF SoloInv, Reviewed
<1> QED BY <1>1, SoloHolds, PTL

(* As long as no two handlers have worked at the same time, no step takes a*)
(* decided finding back to pending or drops what a reviewer changed.       *)
THEOREM DecisionsStand == Spec => DecisionStands
<1> DEFINE Stands ==
        \A f \in Findings \ deleted' :
            /\ row[f].status \in Decided => row'[f].status \in Decided
            /\ row[f].revised => row'[f].revised
<1>1. ASSUME IInv, SoloInv, [Next]_vars PROVE [~overlapped' => Stands]_vars
    <2> SUFFICES ASSUME Next, ~overlapped' PROVE Stands
        BY <1>1
    <2>1. TypeInv /\ row \in [Findings -> Row]
        BY <1>1 DEF IInv, TypeInv, TypeOK
    <2>2. CASE UNCHANGED row
        BY <2>2
    <2>3. ASSUME NEW h \in Handlers, NEW f \in Findings, Create(h, f) PROVE Stands
        <3>1. ~overlapped /\ Absent(f) /\ row' = [row EXCEPT ![f] = NewRow(handler[h].op)]
            BY <2>3 DEF Create
        <3>2. row[f] = NoRow
            BY <1>1, <3>1 DEF SoloInv, Reviewed
        <3> QED BY <2>1, <3>1, <3>2 DEF NoRow, Decided
    <2>4. ASSUME NEW h \in Handlers, NEW f \in Findings, Delete(h, f) PROVE Stands
        BY <2>1, <2>4 DEF Delete
    <2>5. ASSUME NEW h \in Handlers, Save(h) PROVE Stands
        <3> DEFINE me == handler[h]  f == me.on
        <3>1. ~overlapped /\ ~Free(h) /\ me.pc = "saving"
              /\ row' = [row EXCEPT ![f] = Changed(me.op, me.copy)]
            BY <2>5 DEF Save, Free
        <3>2. /\ f \in Findings /\ me \in HandlerState
              /\ me.copy = row[f] /\ row[f].status # "NONE"
              /\ me.op = "rescore" => row[f].status = "pending_review"
              /\ row[f].revised => row[f].status \in Decided
            BY <1>1, <3>1, SoloWorker DEF Fresh, Reviewed, Working
        <3>3. me.op \in Operations /\ row[f] \in Row
            BY <2>1, <3>2 DEF HandlerState
        <3>4. /\ row[f].status \in Decided => Changed(me.op, row[f]).status \in Decided
              /\ row[f].revised => Changed(me.op, row[f]).revised
            BY <3>2, <3>3, ChangedKeeps
        <3> QED BY <2>1, <3>1, <3>2, <3>4
    <2>6. ASSUME NEW h \in Handlers, Count(h) PROVE Stands
        BY <2>1, <2>6 DEF Count, Row
    <2>7. ASSUME NEW h \in Handlers, Starting(h) PROVE UNCHANGED row
        BY <2>1, <2>7, StartingStarts DEF StartOf
    <2> QED BY <2>2, <2>3, <2>4, <2>5, <2>6, <2>7, NextCases
            DEF Order, Revise, Seal, Fail, Kill
<1>2. Spec => [][~overlapped' => Stands]_vars
    BY <1>1, SoloHolds, PTL DEF Spec
<1> QED BY <1>2 DEF DecisionStands
=============================================================================
