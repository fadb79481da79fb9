-------------------------- MODULE DataImportProofs --------------------------
(***************************************************************************)
(* What TLAPS proves of DataImport for every file, every number of batches *)
(* and handlers, whatever interleaves and whoever is killed: a commit is   *)
(* all or nothing, a file is grouped into blocks, and the two statements   *)
(* of the grouping rule agree.  While no two handlers work at the same     *)
(* time: a batch is imported once, its records account for the rows of its *)
(* file, and its registry rows are named by them.  How the rows of a file  *)
(* are grouped is a recursion over the rows, reasoned about by minimal     *)
(* counterexample: the first row after which a claim fails.                *)
(***************************************************************************)
EXTENDS DataImport, WellFoundedInduction, FiniteSetTheorems, TLAPS

Stages == {"reading", "replacing", "listing", "marking", "typing", "writing"}

(* A busy handler has the number of the start it came from; past the       *)
(* upload, it works on a batch.                                            *)
Numbered(h) ==
    /\ handler[h].pc # "idle" => handler[h].run \in Run /\ handler[h].run <= starts
    /\ handler[h].pc \in Stages => handler[h].on \in Batches

TypeInv ==
    /\ TypeOK
    /\ starts <= MaxStarts
    /\ \A h \in Handlers : Numbered(h)

(* What only depends on the bytes of the file does not change.             *)
LEMMA FileStays ==
    ASSUME file' = file
    PROVE  /\ \A t : BlocksOf(t)' = BlocksOf(t)
           /\ Record' = Record /\ Filed' = Filed /\ HandlerState' = HandlerState
<1>1. \A t : BlocksOf(t)' = BlocksOf(t)
    BY DEF BlocksOf, GroupSet
<1>2. Blocks' = Blocks
    BY <1>1 DEF Blocks
<1>3. Record' = Record /\ Filed' = Filed
    BY <1>2 DEF Record, Filed
<1>4. HandlerState' = HandlerState
    BY <1>3 DEF HandlerState
<1> QED BY <1>1, <1>3, <1>4

LEMMA FileNeverChanges == [Next]_vars => file' = file
BY DEF Next, vars, world, Same, Begin, Changes, Upload, Create, Validate,
       Commit, Read, Replace, List, Mark, GiveType, WriteRow, RefuseRow,
       CommitRows, Kill, VerdictChanges, BytesLost

LEMMA PreparedAreRecords ==
    ASSUME NEW t \in Names, NEW n \in Run
    PROVE  Prepared(t, n) \in SUBSET Record
<1> SUFFICES ASSUME NEW p \in BlocksOf(t)
             PROVE  [rows |-> p.rows, type |-> p.type,
                     valid |-> p.kept /\ p.rows \cap refused = {},
                     run |-> n, target |-> 0] \in Record
    BY DEF Prepared
<1>1. p \in Blocks
    BY DEF Blocks
<1>2. 0 \in 0..MaxStarts
    BY BoundsAssumption
<1>3. (p.kept /\ p.rows \cap refused = {}) \in BOOLEAN
    OBVIOUS
<1> QED BY <1>1, <1>2, <1>3 DEF Record

LEMMA TypesInAreNames ==
    ASSUME NEW R \in SUBSET Record
    PROVE  TypesIn(R) \in SUBSET Names
BY DEF TypesIn

(* A handler moves to a state; the others stay where they are.             *)
LEMMA Moves ==
    ASSUME handler \in [Handlers -> HandlerState], file' = file,
           NEW h \in Handlers, NEW s \in HandlerState, Goto(h, s)
    PROVE  /\ handler' \in [Handlers -> HandlerState']
           /\ handler'[h] = s
           /\ \A g \in Handlers \ {h} : handler'[g] = handler[g]
BY FileStays DEF Goto

LEMMA IdleIsState ==
    /\ Idle \in HandlerState /\ Idle.pc = "idle"
    /\ Idle.made = {} /\ Idle.wrote = {}
<1>1. NoRow \in BatchRow
    BY TypesAssumption DEF NoRow, BatchRow
<1>2. 0 \in 0..MaxStarts
    BY BoundsAssumption
<1> QED BY <1>1, <1>2 DEF Idle, HandlerState

----------------------------------------------------------------------------
(* A handler that begins.                                                  *)
LEMMA BeginTypes ==
    ASSUME TypeInv, NEW h \in Handlers, NEW s \in HandlerState, Begin(h, s),
           s.pc # "idle", s.pc \in Stages => s.on \in Batches
    PROVE  TypeInv'
<1> USE DEF TypeInv
<1>1. file' = file
    BY DEF Begin, world
<1>2. starts + 1 \in Run /\ starts' = starts + 1 /\ starts' \in Nat /\ starts' <= MaxStarts
    BY BoundsAssumption DEF Begin, Run, TypeOK
<1> DEFINE t == [s EXCEPT !.run = starts + 1]
<1>3. t \in HandlerState /\ t.pc = s.pc /\ t.on = s.on /\ t.run = starts + 1
    <2>1. starts + 1 \in 0..MaxStarts
        BY <1>2, BoundsAssumption DEF Run
    <2> QED BY <2>1 DEF HandlerState
<1>4. Goto(h, t)
    BY DEF Begin
<1> HIDE DEF t
<1>5. /\ handler' \in [Handlers -> HandlerState']
      /\ handler'[h] = t
      /\ \A g \in Handlers \ {h} : handler'[g] = handler[g]
    BY <1>1, <1>3, <1>4, Moves DEF TypeOK
<1>6. TypeOK'
    BY <1>1, <1>2, <1>5, FileStays DEF TypeOK, Begin, world, tables
<1>7. ASSUME NEW g \in Handlers PROVE Numbered(g)'
    <2>1. CASE g = h
        <3>1. handler'[g] = t
            BY <1>5, <2>1
        <3> QED BY <1>2, <1>3, <3>1 DEF Numbered, TypeOK
    <2>2. CASE g # h
        <3>1. handler'[g] = handler[g] /\ Numbered(g)
            BY <1>5, <2>2
        <3>2. starts \in Nat
            BY DEF TypeOK
        <3>3. handler[g].run \in Run => handler[g].run \in Int
            BY DEF Run
        <3> QED BY <1>2, <3>1, <3>2, <3>3 DEF Numbered
    <2> QED BY <2>1, <2>2
<1> QED BY <1>2, <1>6, <1>7

(* A handler that goes on with what it began, or finishes.                 *)
LEMMA Continues ==
    ASSUME TypeInv, NEW h \in Handlers, NEW s \in HandlerState, Goto(h, s),
           file' = file, starts' = starts,
           \/ s.pc = "idle"
           \/ /\ handler[h].pc \in Stages
              /\ s.run = handler[h].run /\ s.on = handler[h].on
    PROVE  /\ handler' \in [Handlers -> HandlerState']
           /\ \A g \in Handlers : Numbered(g)'
           /\ handler'[h] = s
           /\ \A g \in Handlers \ {h} : handler'[g] = handler[g]
<1> USE DEF TypeInv
<1>1. /\ handler' \in [Handlers -> HandlerState']
      /\ handler'[h] = s
      /\ \A g \in Handlers \ {h} : handler'[g] = handler[g]
    BY Moves DEF TypeOK
<1>2. ASSUME NEW g \in Handlers PROVE Numbered(g)'
    <2>1. CASE g = h
        <3>1. handler'[g] = s /\ Numbered(h)
            BY <1>1, <2>1
        <3> QED BY <3>1 DEF Numbered, Stages
    <2>2. CASE g # h
        <3>1. handler'[g] = handler[g] /\ Numbered(g)
            BY <1>1, <2>2
        <3> QED BY <3>1 DEF Numbered
    <2> QED BY <2>1, <2>2
<1> QED BY <1>1, <1>2

(* The steps of one handler after its start.                               *)
Works(h) ==
    \/ \E b \in Batches : Create(h, b)
    \/ Read(h) \/ Replace(h) \/ List(h) \/ Mark(h) \/ GiveType(h)
    \/ WriteRow(h) \/ RefuseRow(h) \/ CommitRows(h)
    \/ Kill(h)

LEMMA StateKept ==
    ASSUME TypeInv, NEW h \in Handlers
    PROVE  /\ handler[h] \in HandlerState
           /\ \A pc \in {"listing", "marking", "typing", "writing", "replacing"} :
                 LET s == [handler[h] EXCEPT !.pc = pc] IN
                 /\ s \in HandlerState
                 /\ s.run = handler[h].run /\ s.on = handler[h].on
<1>1. handler[h] \in HandlerState
    BY DEF TypeInv, TypeOK
<1> QED BY <1>1 DEF HandlerState

LEMMA ReadTypes ==
    ASSUME TypeInv, NEW h \in Handlers, Read(h)
    PROVE  TypeInv'
<1> DEFINE me == handler[h]
           lost == me.on \in gone
           made == IF lost THEN {} ELSE Prepared(me.copy.type, me.run)
           replacing == [me EXCEPT !.pc = "replacing", !.made = made]
           writing == [me EXCEPT !.pc = "writing", !.made = made]
<1>1. me \in HandlerState /\ me.pc = "reading" /\ me.run \in Run
    BY StateKept DEF Read, At, TypeInv, Numbered
<1>2. me.copy.type \in Names
    BY <1>1 DEF HandlerState, BatchRow
<1>3. made \in SUBSET Record
    BY <1>1, <1>2, PreparedAreRecords
<1>4. file' = file /\ starts' = starts
    BY DEF Read, Same, world
<1>5. PICK s \in {replacing, writing, Idle} : Goto(h, s)
    BY DEF Read
<1> HIDE DEF made
<1>6. s \in HandlerState /\ (s.pc = "idle" \/ (s.run = me.run /\ s.on = me.on))
    <2>1. CASE s = Idle
        BY <2>1, IdleIsState
    <2>2. CASE s = replacing
        BY <1>1, <1>3, <2>2 DEF HandlerState
    <2>3. CASE s = writing
        BY <1>1, <1>3, <2>3 DEF HandlerState
    <2> QED BY <2>1, <2>2, <2>3
<1>7. me.pc \in Stages
    BY <1>1 DEF Stages
<1>8. handler' \in [Handlers -> HandlerState'] /\ \A g \in Handlers : Numbered(g)'
    BY <1>4, <1>5, <1>6, <1>7, Continues
<1>9. TypeOK'
    BY <1>4, <1>8, FileStays DEF TypeInv, TypeOK, Read, Same, world, tables
<1> QED BY <1>4, <1>8, <1>9 DEF TypeInv

LEMMA MarkTypes ==
    ASSUME TypeInv, NEW h \in Handlers, Mark(h) \/ GiveType(h)
    PROVE  TypeInv'
<1> DEFINE typing == [handler[h] EXCEPT !.pc = "typing"]
<1>1. /\ handler[h] \in HandlerState /\ typing \in HandlerState
      /\ handler[h].pc \in Stages /\ handler[h].on \in Batches
    BY StateKept DEF Mark, GiveType, At, TypeInv, Numbered, Stages
<1>2. file' = file /\ starts' = starts
    BY DEF Mark, GiveType, Same, world
<1>3. PICK s \in {typing, Idle} : Goto(h, s)
    BY DEF Mark, GiveType
<1>4. s \in HandlerState /\ (s.pc = "idle" \/ (s.run = handler[h].run /\ s.on = handler[h].on))
    <2>1. CASE s = Idle
        BY <2>1, IdleIsState
    <2>2. CASE s = typing
        BY <2>2, StateKept
    <2> QED BY <2>1, <2>2
<1>5. handler' \in [Handlers -> HandlerState'] /\ \A g \in Handlers : Numbered(g)'
    BY <1>1, <1>2, <1>3, <1>4, Continues
<1>6. batch' \in [Batches -> BatchRow]
    <2>1. CASE Mark(h)
        BY <1>1, <2>1 DEF Mark, TypeInv, TypeOK, BatchRow
    <2>2. CASE GiveType(h)
        <3>1. handler[h].made \in SUBSET Record
            BY <1>1 DEF HandlerState
        <3>2. \A t \in TypesIn(handler[h].made) : t \in Names
            BY <3>1, TypesInAreNames
        <3> QED BY <1>1, <2>2, <3>2 DEF GiveType, TypeInv, TypeOK, BatchRow
    <2> QED BY <2>1, <2>2
<1>7. TypeOK'
    BY <1>2, <1>5, <1>6, FileStays
       DEF TypeInv, TypeOK, Mark, GiveType, Same, world, tables
<1> QED BY <1>2, <1>5, <1>7 DEF TypeInv

LEMMA RecordsTypes ==
    ASSUME TypeInv, NEW h \in Handlers, Replace(h) \/ List(h)
    PROVE  TypeInv'
<1>1. /\ handler[h] \in HandlerState
      /\ handler[h].pc \in Stages /\ handler[h].on \in Batches
    BY StateKept DEF Replace, List, At, TypeInv, Numbered, Stages
<1>2. file' = file /\ starts' = starts
    BY DEF Replace, List, Same, world
<1>3. PICK pc \in {"listing", "marking"} : Goto(h, [handler[h] EXCEPT !.pc = pc])
    BY DEF Replace, List, GoOn
<1> DEFINE s == [handler[h] EXCEPT !.pc = pc]
<1>4. s \in HandlerState /\ s.run = handler[h].run /\ s.on = handler[h].on
    BY StateKept
<1>5. handler' \in [Handlers -> HandlerState'] /\ \A g \in Handlers : Numbered(g)'
    BY <1>1, <1>2, <1>3, <1>4, Continues
<1>6. records' \in [Batches -> SUBSET Record]
    BY <1>1 DEF Replace, List, TypeInv, TypeOK, HandlerState
<1>7. TypeOK'
    BY <1>2, <1>5, <1>6, FileStays
       DEF TypeInv, TypeOK, Replace, List, Same, world, tables
<1> QED BY <1>2, <1>5, <1>7 DEF TypeInv

LEMMA WriteTypes ==
    ASSUME TypeInv, NEW h \in Handlers, WriteRow(h)
    PROVE  TypeInv'
<1> DEFINE me == handler[h]
<1>a. PICK r \in Unwritten(h) :
        LET found == RecordsOf(me.on, r) IN
        /\ Goto(h, [me EXCEPT !.wrote = @ \cup {r}, !.links = @ \cup found])
        /\ Same /\ UNCHANGED tables
    BY DEF WriteRow
<1> DEFINE found == RecordsOf(me.on, r)
           s == [me EXCEPT !.wrote = @ \cup {r}, !.links = @ \cup found]
<1>1. me \in HandlerState /\ me.pc \in Stages /\ me.on \in Batches
    BY StateKept DEF WriteRow, At, TypeInv, Numbered, Stages
<1>2. me.made \in SUBSET Record
    BY <1>1 DEF HandlerState
<1>3. r \in Record
    BY <1>2 DEF Unwritten
<1>4. found \in SUBSET Record
    BY <1>1 DEF RecordsOf, TypeInv, TypeOK
<1> HIDE DEF found
<1>5. s \in HandlerState /\ s.run = me.run /\ s.on = me.on
    BY <1>1, <1>3, <1>4 DEF HandlerState
<1>6. file' = file /\ starts' = starts /\ Goto(h, s)
    BY <1>a DEF Same, world, found
<1>7. handler' \in [Handlers -> HandlerState'] /\ \A g \in Handlers : Numbered(g)'
    BY <1>1, <1>5, <1>6, Continues
<1>8. TypeOK'
    BY <1>a, <1>6, <1>7, FileStays DEF TypeInv, TypeOK, Same, world, tables
<1> QED BY <1>6, <1>7, <1>8 DEF TypeInv
LEMMA EndTypes ==
    ASSUME TypeInv, NEW h \in Handlers,
           \/ \E b \in Batches : Create(h, b)
           \/ RefuseRow(h) \/ CommitRows(h) \/ Kill(h)
    PROVE  TypeInv'
<1>1. file' = file /\ starts' = starts /\ Goto(h, Idle)
    BY DEF Create, RefuseRow, CommitRows, Kill, Same, world
<1>2. handler' \in [Handlers -> HandlerState'] /\ \A g \in Handlers : Numbered(g)'
    BY <1>1, IdleIsState, Continues
<1>3. CASE RefuseRow(h) \/ Kill(h)
    <2>1. kills' \in Nat
        BY <1>3, BoundsAssumption DEF RefuseRow, Kill, Same, TypeInv, TypeOK
    <2>2. TypeOK'
        BY <1>1, <1>2, <1>3, <2>1, FileStays
           DEF TypeInv, TypeOK, RefuseRow, Kill, Same, world, tables
    <2> QED BY <1>1, <1>2, <2>2 DEF TypeInv
<1>4. CASE \E b \in Batches : Create(h, b)
    <2>1. PICK b \in Batches : Create(h, b)
        BY <1>4
    <2>2. handler[h] \in HandlerState
        BY StateKept
    <2>3. [status |-> "PENDING", type |-> handler[h].copy.type] \in BatchRow
        BY <2>2 DEF HandlerState, BatchRow
    <2>4. TypeOK'
        BY <1>1, <1>2, <2>1, <2>3, FileStays
           DEF TypeInv, TypeOK, Create, Same, world
    <2> QED BY <1>1, <1>2, <2>4 DEF TypeInv
<1>5. CASE CommitRows(h)
    <2> DEFINE me == handler[h]
    <2>1. me \in HandlerState /\ me.run \in Run /\ me.on \in Batches
        BY <1>5, StateKept DEF CommitRows, At, TypeInv, Numbered, Stages
    <2>2. {[rows |-> r.rows, run |-> me.run] : r \in me.wrote} \subseteq Filed
        <3>1. me.wrote \subseteq Record
            BY <2>1 DEF HandlerState
        <3> QED BY <2>1, <3>1 DEF Record, Filed
    <2>3. registry' \in [Batches -> SUBSET Filed]
        BY <1>5, <2>1, <2>2 DEF CommitRows, TypeInv, TypeOK
    <2>4. \A r \in Record : (IF r \in me.links THEN [r EXCEPT !.target = me.run] ELSE r) \in Record
        <3>1. me.run \in 0..MaxStarts
            BY <2>1 DEF HandlerState
        <3> QED BY <3>1 DEF Record
    <2> DEFINE linked(r) == IF r \in me.links THEN [r EXCEPT !.target = me.run] ELSE r
    <2>5. {linked(r) : r \in records[me.on]} \subseteq Record
        BY <2>1, <2>4 DEF TypeInv, TypeOK
    <2>6. records' = [records EXCEPT ![me.on] = {linked(r) : r \in @}]
        BY <1>5 DEF CommitRows
    <2> HIDE DEF linked
    <2>7. records' \in [Batches -> SUBSET Record]
        BY <2>1, <2>5, <2>6 DEF TypeInv, TypeOK
    <2>8. batch' \in [Batches -> BatchRow]
        BY <1>5, <2>1 DEF CommitRows, TypeInv, TypeOK, BatchRow
    <2>9. TypeOK'
        BY <1>1, <1>2, <1>5, <2>3, <2>7, <2>8, FileStays
           DEF TypeInv, TypeOK, CommitRows, Same, world
    <2> QED BY <1>1, <1>2, <2>9 DEF TypeInv
<1> QED BY <1>3, <1>4, <1>5

Starts(h) ==
    \/ \E t \in Types \cup {NoType} : Upload(h, t)
    \/ \E b \in Batches : Validate(h, b) \/ Commit(h, b)

World ==
    \/ \E i \in 1..Len(file) : VerdictChanges(i)
    \/ \E b \in Batches : BytesLost(b)

LEMMA NextIs ==
    Next <=> (World \/ \E h \in Handlers : (Starts(h) \/ Works(h)))
BY DEF Next, World, Starts, Works

LEMMA StartTypes ==
    ASSUME TypeInv, NEW h \in Handlers, Starts(h)
    PROVE  TypeInv'
<1>1. ASSUME NEW t \in Types \cup {NoType}, Upload(h, t) PROVE TypeInv'
    <2> DEFINE s == [Idle EXCEPT !.pc = "storing", !.copy.type = t]
    <2>1. s \in HandlerState /\ s.pc = "storing"
        <3>1. t \in Names
            BY TypesAssumption
        <3> QED BY <3>1, IdleIsState DEF Idle, NoRow, HandlerState, BatchRow
    <2>2. Begin(h, s)
        BY <1>1 DEF Upload
    <2> HIDE DEF s
    <2> QED BY <2>1, <2>2, BeginTypes DEF Stages
<1>2. ASSUME NEW b \in Batches, NEW op \in {"validate", "commit"},
             Begin(h, [Idle EXCEPT !.pc = "reading", !.op = op, !.on = b, !.copy = batch[b]])
      PROVE  TypeInv'
    <2> DEFINE s == [Idle EXCEPT !.pc = "reading", !.op = op, !.on = b, !.copy = batch[b]]
    <2>1. s \in HandlerState /\ s.pc = "reading" /\ s.on = b
        <3>1. batch[b] \in BatchRow
            BY DEF TypeInv, TypeOK
        <3> QED BY <3>1, IdleIsState DEF Idle, HandlerState
    <2> HIDE DEF s
    <2> QED BY <1>2, <2>1, BeginTypes DEF s
<1> QED BY <1>1, <1>2 DEF Starts, Validate, Commit

LEMMA TypeStep == TypeInv /\ [Next]_vars => TypeInv'
<1> SUFFICES ASSUME TypeInv, [Next]_vars PROVE TypeInv'
    OBVIOUS
<1>1. CASE World
    <2>1. /\ UNCHANGED <<file, tables, handler, overlapped, starts, kills>>
          /\ changes' \in Nat
        BY <1>1, BoundsAssumption DEF World, VerdictChanges, BytesLost, Changes, TypeInv, TypeOK
    <2>2. refused' \subseteq 1..Len(file') /\ gone' \subseteq Batches
        BY <1>1, <2>1 DEF World, VerdictChanges, BytesLost, TypeInv, TypeOK
    <2> QED BY <2>1, <2>2, FileStays DEF TypeInv, TypeOK, tables, Numbered
<1>2. ASSUME NEW h \in Handlers, Works(h) PROVE TypeInv'
    BY <1>2, ReadTypes, MarkTypes, RecordsTypes, WriteTypes, EndTypes DEF Works
<1>3. CASE UNCHANGED vars
    BY <1>3, FileStays DEF vars, world, tables, TypeInv, TypeOK, Numbered
<1> QED BY <1>1, <1>2, <1>3, StartTypes, NextIs

LEMMA TypeInit == Init => TypeInv
<1> SUFFICES ASSUME Init PROVE TypeInv
    OBVIOUS
<1>1. NoRow \in BatchRow
    BY TypesAssumption DEF NoRow, BatchRow
<1>2. TypeOK
    <2>1. handler \in [Handlers -> HandlerState]
        BY IdleIsState DEF Init
    <2>2. batch \in [Batches -> BatchRow] /\ file \in Files /\ overlapped \in BOOLEAN
        BY <1>1 DEF Init
    <2>3. refused = {} /\ gone = {} /\ starts = 0 /\ kills = 0 /\ changes = 0
        BY DEF Init
    <2>4. records \in [Batches -> SUBSET Record] /\ registry \in [Batches -> SUBSET Filed]
        BY DEF Init
    <2> QED BY <2>1, <2>2, <2>3, <2>4 DEF TypeOK
<1> QED BY <1>2, IdleIsState, BoundsAssumption DEF Init, TypeInv, Numbered, Idle, Stages

(* Rows, records and handlers keep their types, whatever interleaves.      *)
THEOREM TypesHold == Spec => []TypeOK
<1>1. TypeInv => TypeOK
    BY DEF TypeInv
<1> QED BY TypeInit, TypeStep, <1>1, PTL DEF Spec
----------------------------------------------------------------------------
(***************************************************************************)
(* The inductive invariant.  A commit writes under a number of its own;    *)
(* what it is about to write is made of all of a file's rows, and once all *)
(* of it is accepted the grouping dropped none.                            *)
(***************************************************************************)
FreshRuns ==
    /\ \A b \in Batches : \A x \in registry[b] : x.run <= starts
    /\ \A h \in Handlers : ~Free(h) =>
          /\ \A b \in Batches : \A x \in registry[b] : x.run # handler[h].run
          /\ \A g \in Handlers \ {h} : ~Free(g) => handler[g].run # handler[h].run

CoversFile(R) ==
    \E t \in Names :
        /\ {r.rows : r \in R} = {p.rows : p \in BlocksOf(t)}
        /\ (\A r \in R : r.valid) => \A p \in BlocksOf(t) : p.kept

WellMade(h) ==
    /\ handler[h].pc = "reading" => handler[h].wrote = {}
    /\ handler[h].pc = "writing" =>
          /\ CoversFile(handler[h].made)
          /\ handler[h].wrote \subseteq handler[h].made
          /\ \A r \in handler[h].wrote : r.valid

OneAtWork == ~overlapped =>
    \A g, h \in Handlers : g # h => (Free(g) \/ Free(h))

(* A batch that somebody works on has nothing in the registry.             *)
NothingYet == ~overlapped =>
    \A h \in Handlers : handler[h].pc \in Stages => registry[handler[h].on] = {}

SafeInv ==
    /\ TypeInv
    /\ FreshRuns
    /\ \A h \in Handlers : WellMade(h)
    /\ OneAtWork
    /\ NothingYet
    /\ AllOrNothing
    /\ ImportedOnce

LEMMA PreparedCovers ==
    ASSUME NEW t \in Names, NEW n
    PROVE  CoversFile(Prepared(t, n))
<1> DEFINE rec(p) ==
        [rows |-> p.rows, type |-> p.type,
         valid |-> p.kept /\ p.rows \cap refused = {}, run |-> n, target |-> 0]
<1>a. \A p : /\ rec(p).rows = p.rows
             /\ rec(p).valid = (p.kept /\ p.rows \cap refused = {})
    OBVIOUS
<1>b. Prepared(t, n) = {rec(p) : p \in BlocksOf(t)}
    BY DEF Prepared
<1> HIDE DEF rec
<1>1. {r.rows : r \in Prepared(t, n)} = {p.rows : p \in BlocksOf(t)}
    BY <1>a, <1>b
<1>2. ASSUME \A r \in Prepared(t, n) : r.valid, NEW p \in BlocksOf(t)
      PROVE  p.kept
    BY <1>2, <1>a, <1>b
<1> QED BY <1>1, <1>2 DEF CoversFile

(* What a step keeps that writes nothing to the registry.                  *)
LEMMA QuietStep ==
    ASSUME SafeInv, NEW h \in Handlers, file' = file,
           registry' = registry, starts' = starts, overlapped' = overlapped,
           \A g \in Handlers \ {h} : handler'[g] = handler[g],
           \/ handler'[h].pc = "idle"
           \/ /\ handler[h].pc \in Stages /\ handler'[h].pc \in Stages
              /\ handler'[h].run = handler[h].run /\ handler'[h].on = handler[h].on,
           \A b \in Batches :
              (~overlapped /\ registry[b] # {}) => batch'[b].status = "IMPORTED"
    PROVE  FreshRuns' /\ OneAtWork' /\ NothingYet' /\ AllOrNothing' /\ ImportedOnce'
<1>1. ASSUME NEW g \in Handlers
      PROVE  \/ handler'[g].pc = "idle"
             \/ /\ handler[g].pc # "idle"
                /\ handler'[g].pc \in Stages <=> handler[g].pc \in Stages
                /\ handler'[g].run = handler[g].run /\ handler'[g].on = handler[g].on
    BY DEF Stages
<1>2. FreshRuns'
    BY <1>1 DEF SafeInv, FreshRuns, Free
<1>3. OneAtWork'
    BY <1>1 DEF SafeInv, OneAtWork, Free
<1>4. NothingYet'
    BY <1>1 DEF SafeInv, NothingYet, Stages
<1>5. AllOrNothing'
    BY FileStays DEF SafeInv, AllOrNothing, Runs, FiledBy
<1>6. ImportedOnce'
    BY DEF SafeInv, ImportedOnce, Runs
<1> QED BY <1>2, <1>3, <1>4, <1>5, <1>6
LEMMA OthersWellMade ==
    ASSUME SafeInv, NEW h \in Handlers, file' = file, WellMade(h)',
           \A g \in Handlers \ {h} : handler'[g] = handler[g]
    PROVE  \A g \in Handlers : WellMade(g)'
<1> SUFFICES ASSUME NEW g \in Handlers \ {h} PROVE WellMade(g)'
    OBVIOUS
<1>1. WellMade(g) /\ handler'[g] = handler[g]
    BY DEF SafeInv
<1>2. \A R : CoversFile(R) => CoversFile(R)'
    BY FileStays DEF CoversFile
<1> QED BY <1>1, <1>2, FileStays DEF WellMade, CoversFile

LEMMA StartSafe ==
    ASSUME SafeInv, NEW h \in Handlers, Starts(h)
    PROVE  SafeInv'
<1>0. TypeInv /\ TypeInv'
    BY StartTypes DEF SafeInv
<1>1. PICK s : /\ Begin(h, s)
               /\ s \in HandlerState /\ s.pc \in {"storing", "reading"} /\ s.wrote = {}
               /\ s.pc = "reading" =>
                    /\ s.on \in Batches
                    /\ batch[s.on].status # "IMPORTED"
    <2>1. ASSUME NEW t \in Types \cup {NoType}, Upload(h, t)
          PROVE  \E s : /\ Begin(h, s)
                        /\ s \in HandlerState /\ s.pc = "storing" /\ s.wrote = {}
        <3> DEFINE s == [Idle EXCEPT !.pc = "storing", !.copy.type = t]
        <3>1. t \in Names
            BY TypesAssumption
        <3>2. s \in HandlerState /\ s.pc = "storing" /\ s.wrote = {}
            BY <3>1, IdleIsState DEF Idle, NoRow, HandlerState, BatchRow
        <3>3. Begin(h, s)
            BY <2>1 DEF Upload
        <3> HIDE DEF s
        <3> QED BY <3>2, <3>3
    <2>2. ASSUME NEW b \in Batches, Validate(h, b) \/ Commit(h, b)
          PROVE  \E s : /\ Begin(h, s)
                        /\ s \in HandlerState /\ s.pc = "reading" /\ s.wrote = {}
                        /\ s.on = b /\ batch[b].status # "IMPORTED"
        <3>1. PICK op \in {"validate", "commit"} :
                Begin(h, [Idle EXCEPT !.pc = "reading", !.op = op, !.on = b, !.copy = batch[b]])
            BY <2>2 DEF Validate, Commit
        <3> DEFINE s == [Idle EXCEPT !.pc = "reading", !.op = op, !.on = b, !.copy = batch[b]]
        <3>2. batch[b] \in BatchRow
            BY <1>0 DEF TypeInv, TypeOK
        <3>3. s \in HandlerState /\ s.pc = "reading" /\ s.wrote = {} /\ s.on = b
            BY <3>2, IdleIsState DEF Idle, HandlerState
        <3>4. batch[b].status # "IMPORTED"
            BY <2>2 DEF Validate, Validatable, Commit
        <3>5. Begin(h, s)
            BY <3>1
        <3> HIDE DEF s
        <3> QED BY <3>3, <3>4, <3>5
    <2> QED BY <2>1, <2>2 DEF Starts
<1> DEFINE t == [s EXCEPT !.run = starts + 1]
<1>2. /\ t.pc = s.pc /\ t.on = s.on /\ t.wrote = s.wrote /\ t.run = starts + 1
    BY <1>1 DEF HandlerState
<1>3. /\ handler' = [handler EXCEPT ![h] = t]
      /\ starts' = starts + 1 /\ starts \in Nat /\ file' = file
      /\ registry' = registry /\ batch' = batch
      /\ handler[h].pc = "idle" /\ handler \in [Handlers -> HandlerState]
      /\ ~overlapped' => (~overlapped /\ \A g \in Handlers \ {h} : Free(g))
    BY <1>0, <1>1 DEF Begin, Goto, Free, world, tables, TypeInv, TypeOK
<1> HIDE DEF t
<1>4. handler'[h] = t /\ \A g \in Handlers \ {h} : handler'[g] = handler[g]
    BY <1>3
<1>5. FreshRuns'
    <2>1. \A b \in Batches : \A x \in registry[b] : x.run \in Nat /\ x.run <= starts
        BY <1>0 DEF SafeInv, FreshRuns, TypeInv, TypeOK, Filed, Run
    <2>2. \A g \in Handlers : ~Free(g) => handler[g].run \in Nat /\ handler[g].run <= starts
        BY <1>0 DEF TypeInv, Numbered, Free, Run
    <2>3. \A b \in Batches : \A x \in registry'[b] : x.run <= starts' /\ x.run # t.run
        BY <1>2, <1>3, <2>1
    <2>4. \A g \in Handlers \ {h} : ~Free(g) => handler[g].run # t.run
        BY <1>2, <1>3, <2>2
    <2>5. \A g \in Handlers \ {h} : Free(g)' <=> Free(g)
        BY <1>4 DEF Free
    <2>6. ASSUME NEW g \in Handlers, ~Free(g)'
          PROVE  /\ \A b \in Batches : \A x \in registry'[b] : x.run # handler'[g].run
                 /\ \A k \in Handlers \ {g} : ~Free(k)' => handler'[k].run # handler'[g].run
        <3>1. CASE g = h
            BY <1>4, <2>3, <2>4, <2>5, <3>1
        <3>2. CASE g # h
            <4>1. handler'[g] = handler[g] /\ ~Free(g)
                BY <1>4, <2>5, <2>6, <3>2
            <4>2. \A k \in Handlers \ {g, h} : ~Free(k)' => handler'[k].run # handler'[g].run
                BY <1>4, <2>5, <4>1 DEF SafeInv, FreshRuns
            <4>3. handler'[h].run # handler'[g].run
                BY <1>4, <2>4, <3>2, <4>1
            <4> QED BY <1>3, <4>1, <4>2, <4>3 DEF SafeInv, FreshRuns
        <3> QED BY <3>1, <3>2
    <2> QED BY <2>3, <2>6 DEF FreshRuns
<1>6. WellMade(h)'
    BY <1>1, <1>2, <1>4 DEF WellMade
<1>7. \A g \in Handlers : WellMade(g)'
    BY <1>3, <1>4, <1>6, OthersWellMade
<1>8. OneAtWork'
    BY <1>3, <1>4 DEF OneAtWork, Free
<1>9. NothingYet'
    <2> SUFFICES ASSUME ~overlapped', NEW g \in Handlers, handler'[g].pc \in Stages
                 PROVE  registry'[handler'[g].on] = {}
        BY DEF NothingYet
    <2>1. g = h /\ s.pc = "reading"
        BY <1>1, <1>2, <1>3, <1>4 DEF Free, Stages
    <2>2. registry[s.on] = {}
        BY <1>1, <1>3, <2>1 DEF SafeInv, ImportedOnce
    <2> QED BY <1>2, <1>3, <1>4, <2>1, <2>2
<1>10. AllOrNothing'
    BY <1>3, FileStays DEF SafeInv, AllOrNothing, Runs, FiledBy
<1>11. ImportedOnce'
    BY <1>3 DEF SafeInv, ImportedOnce, Runs
<1> QED BY <1>0, <1>5, <1>7, <1>8, <1>9, <1>10, <1>11 DEF SafeInv
LEMMA WorkTypes ==
    ASSUME TypeInv, NEW h \in Handlers, Works(h)
    PROVE  TypeInv'
BY ReadTypes, MarkTypes, RecordsTypes, WriteTypes, EndTypes DEF Works

(* The working steps that write nothing to the registry.                   *)
LEMMA QuietWork ==
    ASSUME SafeInv, NEW h \in Handlers, Works(h), ~CommitRows(h)
    PROVE  SafeInv'
<1> DEFINE me == handler[h]
<1>0. TypeInv /\ TypeInv' /\ me \in HandlerState /\ handler \in [Handlers -> HandlerState]
    BY WorkTypes, StateKept DEF SafeInv, TypeInv, TypeOK
<1>1. /\ file' = file /\ registry' = registry /\ starts' = starts
      /\ overlapped' = overlapped
    BY DEF Works, Create, Read, Replace, List, Mark, GiveType, WriteRow,
           RefuseRow, Kill, Same, world, tables
<1>2. PICK s : /\ Goto(h, s)
               /\ \/ s.pc = "idle"
                  \/ /\ me.pc \in Stages /\ s.pc \in Stages
                     /\ s.run = me.run /\ s.on = me.on
               /\ s.pc = "writing" =>
                    \/ /\ CoversFile(s.made) /\ s.wrote = {}
                    \/ \E r \in me.made : /\ me.pc = "writing" /\ r.valid
                                          /\ s.made = me.made
                                          /\ s.wrote = me.wrote \cup {r}
               /\ s.pc # "reading"
    <2>1. CASE (\E b \in Batches : Create(h, b)) \/ RefuseRow(h) \/ Kill(h)
        <3>1. Goto(h, Idle)
            BY <2>1 DEF Create, RefuseRow, Kill
        <3> QED BY <3>1, IdleIsState
    <2>2. CASE Read(h)
        <3> DEFINE lost == me.on \in gone
                   made == IF lost THEN {} ELSE Prepared(me.copy.type, me.run)
                   replacing == [me EXCEPT !.pc = "replacing", !.made = made]
                   writing == [me EXCEPT !.pc = "writing", !.made = made]
        <3>1. me.pc = "reading" /\ me.wrote = {}
            BY <2>2 DEF Read, At, SafeInv, WellMade
        <3>2. \/ Goto(h, replacing)
              \/ Goto(h, Idle)
              \/ Goto(h, writing) /\ ~lost
            BY <2>2 DEF Read
        <3>3. ~lost => CoversFile(made)
            <4>1. me.copy.type \in Names
                BY <1>0 DEF HandlerState, BatchRow
            <4> QED BY <4>1, PreparedCovers
        <3> HIDE DEF made, lost
        <3>4. replacing.pc = "replacing" /\ replacing.run = me.run /\ replacing.on = me.on
            BY <1>0 DEF HandlerState
        <3>5. /\ writing.pc = "writing" /\ writing.run = me.run /\ writing.on = me.on
              /\ writing.made = made /\ writing.wrote = me.wrote
            BY <1>0 DEF HandlerState
        <3> HIDE DEF replacing, writing
        <3>6. me.pc \in Stages /\ "replacing" \in Stages /\ "writing" \in Stages
            BY <3>1 DEF Stages
        <3>7. CASE Goto(h, replacing)
            BY <3>4, <3>6, <3>7
        <3>8. CASE Goto(h, Idle)
            BY <3>8, IdleIsState
        <3>9. CASE Goto(h, writing) /\ ~lost
            BY <3>1, <3>3, <3>5, <3>6, <3>9
        <3> QED BY <3>2, <3>7, <3>8, <3>9
    <2>3. CASE Replace(h) \/ List(h) \/ Mark(h) \/ GiveType(h)
        <3>1. \/ Goto(h, Idle)
              \/ \E pc \in {"listing", "marking", "typing"} :
                    Goto(h, [me EXCEPT !.pc = pc])
            BY <2>3 DEF Replace, List, Mark, GiveType, GoOn
        <3>2. me.pc \in Stages
            BY <2>3 DEF Replace, List, Mark, GiveType, At, Stages
        <3>3. CASE Goto(h, Idle)
            BY <3>3, IdleIsState
        <3>4. ASSUME NEW pc \in {"listing", "marking", "typing"}, Goto(h, [me EXCEPT !.pc = pc])
              PROVE  \E s : /\ Goto(h, s) /\ s.pc \in Stages \ {"reading", "writing"}
                            /\ s.run = me.run /\ s.on = me.on
            <4> DEFINE s == [me EXCEPT !.pc = pc]
            <4>1. s.pc = pc /\ s.run = me.run /\ s.on = me.on
                BY <1>0 DEF HandlerState
            <4>2. Goto(h, s)
                BY <3>4
            <4> HIDE DEF s
            <4> QED BY <4>1, <4>2 DEF Stages
        <3> QED BY <3>1, <3>2, <3>3, <3>4
    <2>4. CASE WriteRow(h)
        <3>1. PICK r \in Unwritten(h) :
                /\ Goto(h, [me EXCEPT !.wrote = @ \cup {r},
                                      !.links = @ \cup RecordsOf(me.on, r)])
                /\ me.pc = "writing" /\ r.valid
            BY <2>4 DEF WriteRow, At, StillPasses
        <3> DEFINE s == [me EXCEPT !.wrote = @ \cup {r},
                                   !.links = @ \cup RecordsOf(me.on, r)]
        <3>2. /\ s.pc = "writing" /\ s.run = me.run /\ s.on = me.on
              /\ s.made = me.made /\ s.wrote = me.wrote \cup {r}
            BY <1>0, <3>1 DEF HandlerState
        <3>3. Goto(h, s)
            BY <3>1
        <3> HIDE DEF s
        <3> QED BY <3>1, <3>2, <3>3 DEF Unwritten, Stages
    <2> QED BY <2>1, <2>2, <2>3, <2>4 DEF Works
<1>3. handler'[h] = s /\ \A g \in Handlers \ {h} : handler'[g] = handler[g]
    BY <1>0, <1>2 DEF Goto
<1>4. ASSUME NEW b \in Batches, ~overlapped, registry[b] # {}
      PROVE  batch'[b].status = "IMPORTED"
    <2>1. batch[b].status = "IMPORTED" /\ batch \in [Batches -> BatchRow]
        BY <1>0, <1>4 DEF SafeInv, ImportedOnce, TypeInv, TypeOK
    <2>2. me.pc \in Stages => b # me.on
        BY <1>4 DEF SafeInv, NothingYet
    <2>3. CASE \E c \in Batches : Create(h, c)
        BY <2>1, <2>3 DEF Create
    <2>4. CASE Mark(h) \/ GiveType(h)
        <3>1. me.pc \in Stages
            BY <2>4 DEF Mark, GiveType, At, Stages
        <3>2. me.on \in Batches /\ me.on # b
            BY <1>0, <2>2, <3>1 DEF TypeInv, Numbered
        <3> QED BY <2>1, <2>4, <3>2 DEF Mark, GiveType
    <2>5. CASE UNCHANGED batch
        BY <2>1, <2>5
    <2> QED BY <2>3, <2>4, <2>5
        DEF Works, Read, Replace, List, WriteRow, RefuseRow, Kill, tables
<1>5. FreshRuns' /\ OneAtWork' /\ NothingYet' /\ AllOrNothing' /\ ImportedOnce'
    BY <1>1, <1>2, <1>3, <1>4, QuietStep
<1>6. WellMade(h)'
    <2>1. \A R : CoversFile(R) => CoversFile(R)'
        BY <1>1, FileStays DEF CoversFile
    <2>2. CASE s.pc = "writing" /\ CoversFile(s.made) /\ s.wrote = {}
        <3>1. CoversFile(s.made)'
            BY <1>1, <2>2, FileStays DEF CoversFile
        <3> QED BY <1>1, <1>3, <2>2, FileStays DEF WellMade, CoversFile
    <2>3. CASE \E r \in me.made : /\ s.pc = "writing" /\ me.pc = "writing" /\ r.valid
                                  /\ s.made = me.made
                                  /\ s.wrote = me.wrote \cup {r}
        <3>1. WellMade(h)
            BY DEF SafeInv
        <3>2. CoversFile(me.made) /\ me.wrote \subseteq me.made /\ \A r \in me.wrote : r.valid
            BY <2>3, <3>1 DEF WellMade
        <3>3. s.wrote \subseteq s.made /\ \A r \in s.wrote : r.valid
            BY <2>3, <3>2
        <3>4. CoversFile(handler[h].made)'
            <4>1. (handler[h].made)' = me.made
                BY <1>3, <2>3
            <4>2. PICK t \in Names :
                    /\ {r.rows : r \in me.made} = {p.rows : p \in BlocksOf(t)}
                    /\ (\A r \in me.made : r.valid) => \A p \in BlocksOf(t) : p.kept
                BY <3>2 DEF CoversFile
            <4>3. BlocksOf(t)' = BlocksOf(t)
                BY <1>1, FileStays
            <4> QED BY <4>1, <4>2, <4>3 DEF CoversFile
        <3> QED BY <1>3, <2>3, <3>3, <3>4 DEF WellMade
    <2>4. CASE s.pc # "writing"
        BY <1>2, <1>3, <2>4 DEF WellMade
    <2> QED BY <1>2, <2>2, <2>3, <2>4
<1>7. \A g \in Handlers : WellMade(g)'
    BY <1>1, <1>3, <1>6, OthersWellMade
<1> QED BY <1>0, <1>5, <1>7 DEF SafeInv
LEMMA CommitSafe ==
    ASSUME SafeInv, NEW h \in Handlers, CommitRows(h)
    PROVE  SafeInv'
<1> DEFINE me == handler[h]
           b0 == me.on
           filed == {[rows |-> r.rows, run |-> me.run] : r \in me.wrote}
<1>0. /\ TypeInv /\ TypeInv' /\ me \in HandlerState
      /\ handler \in [Handlers -> HandlerState]
      /\ registry \in [Batches -> SUBSET Filed] /\ batch \in [Batches -> BatchRow]
      /\ me.run \in Run /\ me.run <= starts /\ b0 \in Batches
      /\ me.pc = "writing"
    BY EndTypes, StateKept
       DEF SafeInv, TypeInv, TypeOK, Numbered, Stages, CommitRows, At
<1>1. /\ file' = file /\ starts' = starts /\ overlapped' = overlapped
      /\ registry' = [registry EXCEPT ![b0] = @ \cup filed]
      /\ batch' = [batch EXCEPT ![b0].status = "IMPORTED"]
      /\ Goto(h, Idle)
    BY DEF CommitRows, Same, world
<1>2. handler'[h].pc = "idle" /\ \A g \in Handlers \ {h} : handler'[g] = handler[g]
    BY <1>0, <1>1, IdleIsState DEF Goto
<1>3. me.wrote = me.made /\ CoversFile(me.wrote) /\ \A r \in me.wrote : r.valid
    <2>1. WellMade(h) /\ Unwritten(h) = {}
        BY DEF SafeInv, CommitRows
    <2>2. me.wrote = me.made
        BY <1>0, <2>1 DEF WellMade, Unwritten
    <2> QED BY <1>0, <2>1, <2>2 DEF WellMade
<1>4. /\ \A x \in filed : x.run = me.run
      /\ {x.rows : x \in filed} = {r.rows : r \in me.wrote}
    <2> DEFINE f(r) == [rows |-> r.rows, run |-> me.run]
    <2>1. \A r : f(r).rows = r.rows /\ f(r).run = me.run
        OBVIOUS
    <2>2. filed = {f(r) : r \in me.wrote}
        OBVIOUS
    <2> HIDE DEF f, filed
    <2> QED BY <2>1, <2>2
<1> HIDE DEF filed
<1>5. /\ registry'[b0] = registry[b0] \cup filed
      /\ \A b \in Batches \ {b0} : registry'[b] = registry[b] /\ batch'[b] = batch[b]
      /\ batch'[b0].status = "IMPORTED"
    BY <1>0, <1>1 DEF BatchRow
<1>6. \A b \in Batches : \A x \in registry[b] : x.run # me.run
    BY <1>0 DEF SafeInv, FreshRuns, Free
<1>7. FreshRuns'
    <2>1. \A b \in Batches : \A x \in registry'[b] : x.run <= starts'
        BY <1>0, <1>1, <1>4, <1>5 DEF SafeInv, FreshRuns
    <2>2. ASSUME NEW g \in Handlers, ~Free(g)'
          PROVE  /\ \A b \in Batches : \A x \in registry'[b] : x.run # handler'[g].run
                 /\ \A k \in Handlers \ {g} : ~Free(k)' => handler'[k].run # handler'[g].run
        <3>1. g # h /\ handler'[g] = handler[g] /\ ~Free(g)
            BY <1>2, <2>2 DEF Free
        <3>2. handler[g].run # me.run
            BY <1>0, <3>1 DEF SafeInv, FreshRuns, Free
        <3>3. \A k \in Handlers \ {g} : ~Free(k)' => (k # h /\ handler'[k] = handler[k] /\ ~Free(k))
            BY <1>2 DEF Free
        <3> QED BY <1>4, <1>5, <3>1, <3>2, <3>3 DEF SafeInv, FreshRuns
    <2> QED BY <2>1, <2>2 DEF FreshRuns
<1>8. AllOrNothing'
    <2> SUFFICES ASSUME NEW b \in Batches, NEW k \in Runs(b)'
                 PROVE  \E t \in Names :
                            /\ FiledBy(b, k)' = {p.rows : p \in BlocksOf(t)}
                            /\ \A p \in BlocksOf(t) : p.kept
        BY <1>1, FileStays DEF AllOrNothing
    <2>1. CASE b = b0 /\ k = me.run
        <3>1. FiledBy(b, k)' = {x.rows : x \in filed}
            BY <1>4, <1>5, <1>6, <2>1 DEF FiledBy
        <3>2. FiledBy(b, k)' = {r.rows : r \in me.wrote}
            BY <1>4, <3>1
        <3> QED BY <1>3, <3>2 DEF CoversFile
    <2>2. CASE ~(b = b0 /\ k = me.run)
        <3>1. FiledBy(b, k)' = FiledBy(b, k) /\ k \in Runs(b)
            BY <1>4, <1>5, <2>2 DEF FiledBy, Runs
        <3> QED BY <3>1 DEF SafeInv, AllOrNothing
    <2> QED BY <2>1, <2>2
<1>9. OneAtWork' /\ NothingYet'
    <2>1. OneAtWork'
        BY <1>1, <1>2 DEF SafeInv, OneAtWork, Free
    <2>2. NothingYet'
        <3> SUFFICES ASSUME ~overlapped', NEW g \in Handlers, handler'[g].pc \in Stages
                     PROVE  FALSE
            BY DEF NothingYet
        <3>1. g # h /\ handler[g].pc \in Stages
            BY <1>2 DEF Stages
        <3> QED BY <1>0, <1>1, <3>1 DEF SafeInv, OneAtWork, Free, Stages
    <2> QED BY <2>1, <2>2
<1>10. ImportedOnce'
    <2> SUFFICES ASSUME ~overlapped', NEW b \in Batches, registry'[b] # {}
                 PROVE  Cardinality(Runs(b)') = 1 /\ batch'[b].status = "IMPORTED"
        BY DEF ImportedOnce
    <2>1. CASE b # b0
        BY <1>1, <1>5, <2>1 DEF SafeInv, ImportedOnce, Runs
    <2>2. CASE b = b0
        <3>1. registry'[b] = filed
            BY <1>0, <1>1, <1>5, <2>2 DEF SafeInv, NothingYet, Stages
        <3>2. Runs(b)' = {me.run}
            BY <1>4, <3>1 DEF Runs
        <3> QED BY <1>5, <2>2, <3>2, FS_Singleton
    <2> QED BY <2>1, <2>2
<1>11. WellMade(h)'
    BY <1>2 DEF WellMade
<1>12. \A g \in Handlers : WellMade(g)'
    BY <1>1, <1>2, <1>11, OthersWellMade
<1> QED BY <1>0, <1>7, <1>8, <1>9, <1>10, <1>12 DEF SafeInv

LEMMA SafeStep == SafeInv /\ [Next]_vars => SafeInv'
<1> SUFFICES ASSUME SafeInv, [Next]_vars PROVE SafeInv'
    OBVIOUS
<1>1. CASE World \/ UNCHANGED vars
    <2>1. TypeInv'
        BY TypeStep DEF SafeInv
    <2>2. UNCHANGED <<file, tables, handler, overlapped, starts>>
        BY <1>1 DEF World, VerdictChanges, BytesLost, Changes, vars, world
    <2>3. FreshRuns' /\ OneAtWork' /\ NothingYet' /\ ImportedOnce'
        BY <2>2 DEF tables, SafeInv, FreshRuns, OneAtWork, NothingYet, ImportedOnce, Free, Runs
    <2>4. AllOrNothing'
        <3>1. file' = file /\ registry' = registry
            BY <2>2 DEF tables
        <3>2. \A b \in Batches : /\ Runs(b)' = Runs(b)
                                /\ \A k : FiledBy(b, k)' = FiledBy(b, k)
            BY <3>1 DEF Runs, FiledBy
        <3>3. \A t : BlocksOf(t)' = BlocksOf(t)
            BY <3>1, FileStays
        <3> QED BY <3>2, <3>3 DEF SafeInv, AllOrNothing
    <2>5. \A h \in Handlers : WellMade(h)'
        BY <2>2, FileStays DEF SafeInv, WellMade, CoversFile
    <2> QED BY <2>1, <2>3, <2>4, <2>5 DEF SafeInv
<1>2. ASSUME NEW h \in Handlers, Works(h) PROVE SafeInv'
    BY <1>2, QuietWork, CommitSafe
<1> QED BY <1>1, <1>2, StartSafe, NextIs

LEMMA SafeInit == Init => SafeInv
<1> SUFFICES ASSUME Init PROVE SafeInv
    OBVIOUS
<1>1. /\ \A b \in Batches : registry[b] = {}
      /\ \A h \in Handlers : handler[h].pc = "idle"
    BY IdleIsState DEF Init
<1>2. FreshRuns /\ OneAtWork /\ AllOrNothing /\ ImportedOnce
    BY <1>1 DEF FreshRuns, OneAtWork, AllOrNothing, ImportedOnce, Free, Runs
<1>3. NothingYet
    BY <1>1 DEF NothingYet, Stages
<1>4. \A h \in Handlers : WellMade(h)
    BY <1>1 DEF WellMade
<1> QED BY TypeInit, <1>2, <1>3, <1>4 DEF SafeInv

(* A commit writes a registry row for every record that the file makes and *)
(* only if the grouping drops no row, or nothing: for any number of        *)
(* overlapping and killed handlers and changing verdicts.                  *)
THEOREM CommitsAreAllOrNothing == Spec => []AllOrNothing
<1>1. SafeInv => AllOrNothing
    BY DEF SafeInv
<1> QED BY SafeInit, SafeStep, <1>1, PTL DEF Spec

(* If no two handlers work at the same time a batch's rows are written     *)
(* once, and it says IMPORTED from then on, whoever is killed.             *)
THEOREM BatchesAreImportedOnce == Spec => []ImportedOnce
<1>1. SafeInv => ImportedOnce
    BY DEF SafeInv
<1> QED BY SafeInit, SafeStep, <1>1, PTL DEF Spec
----------------------------------------------------------------------------
(***************************************************************************)
(* The grouping is a recursion over the rows of the file.  A minimal       *)
(* counterexample stands for the induction: what fails of some prefix      *)
(* fails of a shortest one.                                                *)
(***************************************************************************)
LEMMA Least ==
    ASSUME NEW T \in SUBSET Nat, T # {}
    PROVE  \E x \in T : \A y \in T : x <= y
<1>1. PICK x \in T : \A y \in T : <<y, x>> \notin OpToRel(<, Nat)
    BY NatLessThanWellFounded, WFMin
<1>2. \A y \in T : ~(y < x)
    BY <1>1 DEF OpToRel
<1>3. \A y \in T : x \in Int /\ y \in Int /\ ~(y < x)
    BY <1>2
<1> QED BY <1>3

(* One row of the file, as either path takes it.                           *)
Took(f, t, acc, n) == Place(acc, n, f[n], RowType(f[n], t))
TookUpv(f, acc, n) == PlaceUpv(acc, n, f[n])
NoneUpv == [groups |-> <<>>, error |-> FALSE]

PassesOver(f, t, u) ==
    /\ u[0] = Ungrouped
    /\ \A n \in 1..Len(f) : u[n] = Took(f, t, u[n - 1], n)
PassesOverUpv(f, u) ==
    /\ u[0] = NoneUpv
    /\ \A n \in 1..Len(f) : u[n] = TookUpv(f, u[n - 1], n)

LEMMA GroupUnfolds ==
    ASSUME NEW f, Len(f) \in Nat, NEW t
    PROVE  \E u : PassesOver(f, t, u) /\ Group(f, t) = u[Len(f)]
<1> DEFINE Body(h, n) == IF n = 0 THEN Ungrouped ELSE Took(f, t, h[n - 1], n)
           Solves(h, m) == h = [n \in 0..m |-> Body(h, n)]
           Bad == {m \in 0..Len(f) : \A h : ~Solves(h, m)}
<1>1. Bad = {}
    <2> SUFFICES ASSUME Bad # {} PROVE FALSE
        OBVIOUS
    <2>1. PICK m \in Bad : \A y \in Bad : m <= y
        <3>1. Bad \in SUBSET Nat
            OBVIOUS
        <3> HIDE DEF Bad
        <3> QED BY <3>1, Least
    <2>2. CASE m = 0
        <3> DEFINE h == [n \in 0..0 |-> Ungrouped]
        <3>1. Solves(h, 0)
            OBVIOUS
        <3> QED BY <2>1, <2>2, <3>1
    <2>3. CASE m # 0
        <3>1. m - 1 \in 0..Len(f) /\ m - 1 \notin Bad
            BY <2>1, <2>3
        <3>2. PICK g : Solves(g, m - 1)
            BY <3>1
        <3> DEFINE h == [n \in 0..m |-> IF n = m THEN Took(f, t, g[m - 1], m) ELSE g[n]]
        <3>3. m \in Nat \ {0}
            BY <2>1, <2>3
        <3>4. \A n \in 0..(m - 1) : h[n] = g[n] /\ g[n] = Body(g, n)
            BY <3>2, <3>3
        <3>5. ASSUME NEW n \in 0..m PROVE h[n] = Body(h, n)
            <4>1. CASE n = 0
                <5>1. 0 \in 0..(m - 1)
                    BY <3>3
                <5>2. h[0] = g[0] /\ g[0] = Body(g, 0)
                    BY <3>4, <5>1
                <5> QED BY <4>1, <5>2
            <4>2. CASE n # 0 /\ n # m
                <5>1. n \in 0..(m - 1) /\ n - 1 \in 0..(m - 1)
                    BY <3>3, <4>2
                <5>2. h[n] = Took(f, t, g[n - 1], n) /\ h[n - 1] = g[n - 1]
                    BY <3>4, <4>2, <5>1
                <5> QED BY <4>2, <5>2
            <4>3. CASE n = m
                <5>1. m \in 0..m /\ m - 1 \in 0..m /\ m - 1 \in 0..(m - 1) /\ m - 1 # m
                    BY <3>3
                <5>2. h[m - 1] = g[m - 1]
                    BY <3>4, <5>1
                <5>3. h[m] = Took(f, t, g[m - 1], m)
                    BY <5>1
                <5> QED BY <3>3, <4>3, <5>2, <5>3
            <4> QED BY <4>1, <4>2, <4>3
        <3>6. h = [n \in 0..m |-> h[n]]
            OBVIOUS
        <3> HIDE DEF h, Body
        <3>7. h = [n \in 0..m |-> Body(h, n)]
            BY <3>5, <3>6
        <3> QED BY <2>1, <3>7
    <2> QED BY <2>2, <2>3
<1> DEFINE u == CHOOSE h : Solves(h, Len(f))
<1>2. Solves(u, Len(f))
    <2>1. Len(f) \in 0..Len(f) /\ Len(f) \notin Bad
        BY <1>1
    <2>2. \E h : Solves(h, Len(f))
        BY <2>1
    <2> HIDE DEF Solves
    <2> QED BY <2>2
<1>3. Group(f, t) = u[Len(f)]
    BY DEF Group, Took
<1>4. \A n \in 0..Len(f) : u[n] = Body(u, n)
    <2>1. u = [n \in 0..Len(f) |-> Body(u, n)]
        BY <1>2
    <2> HIDE DEF u, Body
    <2> QED BY <2>1
<1>5. PassesOver(f, t, u)
    <2> HIDE DEF u
    <2>1. 0 \in 0..Len(f) /\ \A n \in 1..Len(f) : n \in 0..Len(f) /\ n # 0
        OBVIOUS
    <2> QED BY <1>4, <2>1 DEF PassesOver
<1> QED BY <1>3, <1>5

LEMMA UpvUnfolds ==
    ASSUME NEW f, Len(f) \in Nat
    PROVE  \E u : PassesOverUpv(f, u) /\ GroupUpv(f) = u[Len(f)]
<1> DEFINE Body(h, n) == IF n = 0 THEN NoneUpv ELSE TookUpv(f, h[n - 1], n)
           Solves(h, m) == h = [n \in 0..m |-> Body(h, n)]
           Bad == {m \in 0..Len(f) : \A h : ~Solves(h, m)}
<1>1. Bad = {}
    <2> SUFFICES ASSUME Bad # {} PROVE FALSE
        OBVIOUS
    <2>1. PICK m \in Bad : \A y \in Bad : m <= y
        <3>1. Bad \in SUBSET Nat
            OBVIOUS
        <3> HIDE DEF Bad
        <3> QED BY <3>1, Least
    <2>2. CASE m = 0
        <3> DEFINE h == [n \in 0..0 |-> NoneUpv]
        <3>1. Solves(h, 0)
            OBVIOUS
        <3> QED BY <2>1, <2>2, <3>1
    <2>3. CASE m # 0
        <3>1. m - 1 \in 0..Len(f) /\ m - 1 \notin Bad
            BY <2>1, <2>3
        <3>2. PICK g : Solves(g, m - 1)
            BY <3>1
        <3> DEFINE h == [n \in 0..m |-> IF n = m THEN TookUpv(f, g[m - 1], m) ELSE g[n]]
        <3>3. m \in Nat \ {0}
            BY <2>1, <2>3
        <3>4. \A n \in 0..(m - 1) : h[n] = g[n] /\ g[n] = Body(g, n)
            BY <3>2, <3>3
        <3>5. ASSUME NEW n \in 0..m PROVE h[n] = Body(h, n)
            <4>1. CASE n = 0
                <5>1. 0 \in 0..(m - 1)
                    BY <3>3
                <5>2. h[0] = g[0] /\ g[0] = Body(g, 0)
                    BY <3>4, <5>1
                <5> QED BY <4>1, <5>2
            <4>2. CASE n # 0 /\ n # m
                <5>1. n \in 0..(m - 1) /\ n - 1 \in 0..(m - 1)
                    BY <3>3, <4>2
                <5>2. h[n] = TookUpv(f, g[n - 1], n) /\ h[n - 1] = g[n - 1]
                    BY <3>4, <4>2, <5>1
                <5> QED BY <4>2, <5>2
            <4>3. CASE n = m
                <5>1. m \in 0..m /\ m - 1 \in 0..m /\ m - 1 \in 0..(m - 1) /\ m - 1 # m
                    BY <3>3
                <5>2. h[m - 1] = g[m - 1]
                    BY <3>4, <5>1
                <5>3. h[m] = TookUpv(f, g[m - 1], m)
                    BY <5>1
                <5> QED BY <3>3, <4>3, <5>2, <5>3
            <4> QED BY <4>1, <4>2, <4>3
        <3>6. h = [n \in 0..m |-> h[n]]
            OBVIOUS
        <3> HIDE DEF h, Body
        <3>7. h = [n \in 0..m |-> Body(h, n)]
            BY <3>5, <3>6
        <3> QED BY <2>1, <3>7
    <2> QED BY <2>2, <2>3
<1> DEFINE u == CHOOSE h : Solves(h, Len(f))
<1>2. Solves(u, Len(f))
    <2>1. Len(f) \in 0..Len(f) /\ Len(f) \notin Bad
        BY <1>1
    <2>2. \E h : Solves(h, Len(f))
        BY <2>1
    <2> HIDE DEF Solves
    <2> QED BY <2>2
<1>3. GroupUpv(f) = u[Len(f)]
    BY DEF GroupUpv, TookUpv, NoneUpv
<1>4. \A n \in 0..Len(f) : u[n] = Body(u, n)
    <2>1. u = [n \in 0..Len(f) |-> Body(u, n)]
        BY <1>2
    <2> HIDE DEF u, Body
    <2> QED BY <2>1
<1>5. PassesOverUpv(f, u)
    <2> HIDE DEF u
    <2>1. 0 \in 0..Len(f) /\ \A n \in 1..Len(f) : n \in 0..Len(f) /\ n # 0
        OBVIOUS
    <2> QED BY <1>4, <2>1 DEF PassesOverUpv
<1> QED BY <1>3, <1>5
----------------------------------------------------------------------------
(***************************************************************************)
(* What one row does to the groups: it is dropped, joins the last group or *)
(* opens another.                                                          *)
(***************************************************************************)
Formed == [type : Types, element : Elements, rows : SUBSET Nat]
Forming == [groups : Seq(Formed), dropped : SUBSET Nat]

Interrupted(acc, e) ==
    \E k \in 1..Len(acc.groups) :
        /\ k # Len(acc.groups)
        /\ acc.groups[k].type \in Grouped /\ acc.groups[k].element = e

Drops(acc, new, n) ==
    new.groups = acc.groups /\ new.dropped = acc.dropped \cup {n}

Joins(acc, new, n) ==
    LET m == Len(acc.groups) IN
    /\ m >= 1 /\ Len(new.groups) = m /\ new.dropped = acc.dropped
    /\ \A k \in 1..(m - 1) : new.groups[k] = acc.groups[k]
    /\ new.groups[m].type = acc.groups[m].type
    /\ new.groups[m].element = acc.groups[m].element
    /\ new.groups[m].rows = acc.groups[m].rows \cup {n}

Opens(acc, new, n, t, e) ==
    LET m == Len(acc.groups) + 1 IN
    /\ Len(new.groups) = m /\ new.dropped = acc.dropped
    /\ \A k \in 1..(m - 1) : new.groups[k] = acc.groups[k]
    /\ new.groups[m] = [type |-> t, element |-> e, rows |-> {n}]

LEMMA DropDrops ==
    ASSUME NEW acc \in Forming, NEW n \in Nat
    PROVE  Drop(acc, n) \in Forming /\ Drops(acc, Drop(acc, n), n)
BY DEF Drop, Drops, Forming

LEMMA ExtendJoins ==
    ASSUME NEW acc \in Forming, NEW n \in Nat, acc.groups # <<>>
    PROVE  Extend(acc, n) \in Forming /\ Joins(acc, Extend(acc, n), n)
<1> DEFINE m == Len(acc.groups)
           g == [acc.groups EXCEPT ![m].rows = @ \cup {n}]
<1>1. acc.groups \in Seq(Formed) /\ m \in Nat /\ m >= 1
    BY DEF Forming
<1>2. acc.groups[m] \in Formed
    BY <1>1
<1>3. [acc.groups[m] EXCEPT !.rows = @ \cup {n}] \in Formed
    BY <1>2 DEF Formed
<1>4. g \in Seq(Formed) /\ Len(g) = m
    BY <1>1, <1>3
<1>5. Extend(acc, n) = [acc EXCEPT !.groups = g]
    BY DEF Extend
<1>6. /\ \A k \in 1..(m - 1) : g[k] = acc.groups[k]
      /\ g[m] = [acc.groups[m] EXCEPT !.rows = @ \cup {n}]
    BY <1>1
<1>7. g[m].type = acc.groups[m].type /\ g[m].element = acc.groups[m].element
      /\ g[m].rows = acc.groups[m].rows \cup {n}
    BY <1>2, <1>6 DEF Formed
<1> HIDE DEF g
<1>8. Extend(acc, n).groups = g /\ Extend(acc, n).dropped = acc.dropped
    BY <1>5 DEF Forming
<1>9. Extend(acc, n) \in Forming
    BY <1>4, <1>5 DEF Forming
<1> QED BY <1>1, <1>4, <1>6, <1>7, <1>8, <1>9 DEF Joins

LEMMA OpenOpens ==
    ASSUME NEW acc \in Forming, NEW n \in Nat, NEW t \in Types, NEW e \in Elements
    PROVE  /\ OpenAnother(acc, n, t, e) \in Forming
           /\ Opens(acc, OpenAnother(acc, n, t, e), n, t, e)
<1> DEFINE new == [type |-> t, element |-> e, rows |-> {n}]
           g == Append(acc.groups, new)
           m == Len(acc.groups)
<1>1. acc.groups \in Seq(Formed) /\ new \in Formed
    BY DEF Forming, Formed
<1> HIDE DEF new
<1>2. g \in Seq(Formed) /\ Len(g) = m + 1 /\ m \in Nat
    BY <1>1
<1>3. (\A k \in 1..m : g[k] = acc.groups[k]) /\ g[m + 1] = new
    BY <1>1
<1>4. OpenAnother(acc, n, t, e) = [acc EXCEPT !.groups = g]
    BY DEF OpenAnother, new
<1> HIDE DEF g
<1>5. /\ OpenAnother(acc, n, t, e) \in Forming
      /\ OpenAnother(acc, n, t, e).groups = g
      /\ OpenAnother(acc, n, t, e).dropped = acc.dropped
    BY <1>2, <1>4 DEF Forming
<1> QED BY <1>2, <1>3, <1>5 DEF Opens, new

LEMMA RowHas ==
    ASSUME NEW f \in Seq(Row), NEW n \in 1..Len(f)
    PROVE  f[n] \in Row /\ f[n].complete \subseteq Types /\ f[n].element \in Elements
           /\ n \in Nat
<1>1. f[n] \in Row
    OBVIOUS
<1> QED BY <1>1 DEF Row

LEMMA TookWhat ==
    ASSUME NEW f \in Seq(Row), NEW n \in 1..Len(f), NEW t, NEW acc \in Forming,
           NEW new, new = Took(f, t, acc, n), NEW s, s = RowType(f[n], t)
    PROVE  /\ new \in Forming
           /\ \/ Drops(acc, new, n) /\ s \notin f[n].complete
              \/ /\ Drops(acc, new, n) /\ s \in Grouped
                 /\ Interrupted(acc, f[n].element)
              \/ /\ Joins(acc, new, n) /\ s \in f[n].complete \cap Grouped
                 /\ acc.groups[Len(acc.groups)].type = s
                 /\ acc.groups[Len(acc.groups)].element = f[n].element
              \/ /\ Opens(acc, new, n, s, f[n].element) /\ s \in f[n].complete
                 /\ s \in Grouped => ~Seen(acc.groups, f[n].element)
<1> DEFINE e == f[n].element
<1>1. new = Place(acc, n, f[n], s)
    BY DEF Took
<1>2. e \in Elements /\ f[n].complete \subseteq Types /\ n \in Nat
    BY RowHas
<1>3. acc.groups \in Seq(Formed) /\ DOMAIN acc.groups = 1..Len(acc.groups)
    BY DEF Forming
<1>4. CASE s \notin f[n].complete
    <2>1. new = Drop(acc, n)
        BY <1>1, <1>4 DEF Place
    <2> QED BY <1>2, <1>4, <2>1, DropDrops
<1>5. CASE s \in f[n].complete \ Grouped
    <2>1. new = OpenAnother(acc, n, s, e)
        BY <1>1, <1>5 DEF Place
    <2> QED BY <1>2, <1>5, <2>1, OpenOpens
<1>6. CASE s \in f[n].complete \cap Grouped /\ OpenGroup(acc.groups, s, e)
    <2>1. new = Extend(acc, n)
        BY <1>1, <1>6 DEF Place
    <2> QED BY <1>2, <1>6, <2>1, ExtendJoins DEF OpenGroup, Last
<1>7. CASE s \in f[n].complete \cap Grouped /\ ~OpenGroup(acc.groups, s, e)
    <2>1. new = IF Seen(acc.groups, e) THEN Drop(acc, n) ELSE OpenAnother(acc, n, s, e)
        BY <1>1, <1>7 DEF Place
    <2>2. CASE Seen(acc.groups, e)
        <3>1. PICK k \in 1..Len(acc.groups) :
                acc.groups[k].type \in Grouped /\ acc.groups[k].element = e
            BY <1>3, <2>2 DEF Seen
        <3>2. acc.groups[k].type = s
            BY <1>7, <3>1, GroupedAssumption
        <3>3. k # Len(acc.groups)
            BY <1>3, <1>7, <3>1, <3>2 DEF OpenGroup, Last
        <3>4. Interrupted(acc, e)
            BY <3>1, <3>3 DEF Interrupted
        <3> QED BY <1>2, <1>7, <2>1, <2>2, <3>4, DropDrops
    <2>3. CASE ~Seen(acc.groups, e)
        BY <1>2, <1>7, <2>1, <2>3, OpenOpens
    <2> QED BY <2>2, <2>3
<1> QED BY <1>4, <1>5, <1>6, <1>7

(***************************************************************************)
(* What holds of the groups after n rows.  The rows of a group all precede *)
(* those of the next, which says more than that groups are disjoint and is *)
(* what lets a row join only the last one.                                 *)
(***************************************************************************)
Numbers(acc) == 1..Len(acc.groups)

Covered(acc, n) ==
    /\ acc.dropped \subseteq 1..n
    /\ \A k \in Numbers(acc) :
          acc.groups[k].rows # {} /\ acc.groups[k].rows \subseteq 1..n
    /\ \A i \in 1..n :
          i \in acc.dropped <=> \A k \in Numbers(acc) : i \notin acc.groups[k].rows

InTurn(acc) ==
    \A k, l \in Numbers(acc) : k < l =>
        \A i \in acc.groups[k].rows, j \in acc.groups[l].rows : i < j

Uniform(f, t, acc) ==
    \A k \in Numbers(acc) : \A i \in acc.groups[k].rows :
        /\ RowType(f[i], t) = acc.groups[k].type
        /\ f[i].element = acc.groups[k].element
        /\ RowType(f[i], t) \in f[i].complete
        /\ acc.groups[k].type \notin Grouped => acc.groups[k].rows = {i}

OneEach(acc) ==
    \A k, l \in Numbers(acc) :
        (k # l /\ {acc.groups[k].type, acc.groups[l].type} \subseteq Grouped) =>
            acc.groups[k].element # acc.groups[l].element

WithReason(f, t, acc) ==
    \A i \in acc.dropped : RowType(f[i], t) \in f[i].complete =>
        /\ RowType(f[i], t) \in Grouped
        /\ \E k, l \in Numbers(acc) :
              /\ k < l /\ acc.groups[k].type \in Grouped
              /\ acc.groups[k].element = f[i].element
              /\ \E j \in acc.groups[l].rows : j < i

GroupedTo(f, t, acc, n) ==
    /\ acc \in Forming
    /\ Covered(acc, n)
    /\ InTurn(acc)
    /\ Uniform(f, t, acc)
    /\ OneEach(acc)
    /\ WithReason(f, t, acc)

LEMMA CountGroups == ASSUME NEW acc \in Forming PROVE Len(acc.groups) \in Nat
BY DEF Forming

LEMMA RowsBefore ==
    ASSUME NEW n \in Nat, n >= 1
    PROVE  1..n = (1..(n - 1)) \cup {n} /\ n \notin 1..(n - 1)
OBVIOUS

(* A dropped row.                                                          *)
LEMMA DropKeeps ==
    ASSUME NEW f \in Seq(Row), NEW n \in 1..Len(f), NEW t, NEW acc, NEW new,
           GroupedTo(f, t, acc, n - 1), new \in Forming, Drops(acc, new, n),
           \/ RowType(f[n], t) \notin f[n].complete
           \/ /\ RowType(f[n], t) \in Grouped
              /\ Interrupted(acc, f[n].element)
    PROVE  GroupedTo(f, t, new, n)
<1>0. /\ 1..n = (1..(n - 1)) \cup {n} /\ n \notin 1..(n - 1) /\ n \in Nat
      /\ Numbers(new) = Numbers(acc)
    BY RowsBefore DEF Drops, Numbers
<1>1. Covered(new, n)
    BY <1>0 DEF GroupedTo, Covered, Drops
<1>2. InTurn(new) /\ OneEach(new) /\ Uniform(f, t, new)
    BY <1>0 DEF GroupedTo, InTurn, OneEach, Uniform, Drops
<1>3. WithReason(f, t, new)
    <2> SUFFICES ASSUME NEW i \in new.dropped, RowType(f[i], t) \in f[i].complete
                 PROVE  /\ RowType(f[i], t) \in Grouped
                        /\ \E k, l \in Numbers(new) :
                              /\ k < l /\ new.groups[k].type \in Grouped
                              /\ new.groups[k].element = f[i].element
                              /\ \E j \in new.groups[l].rows : j < i
        BY DEF WithReason
    <2>1. CASE i \in acc.dropped
        BY <1>0, <2>1 DEF GroupedTo, WithReason, Drops
    <2>2. CASE i = n
        <3> DEFINE m == Len(acc.groups)
        <3>1. /\ RowType(f[n], t) \in Grouped /\ m \in Nat
              /\ Interrupted(acc, f[n].element)
            BY <2>2, CountGroups DEF GroupedTo
        <3>2. PICK k \in 1..m : /\ k # m /\ acc.groups[k].type \in Grouped
                                /\ acc.groups[k].element = f[n].element
            BY <3>1 DEF Interrupted
        <3>3. k < m /\ m \in Numbers(acc) /\ k \in Numbers(acc)
            BY <3>1, <3>2 DEF Numbers
        <3>4. PICK j \in acc.groups[m].rows : j \in 1..(n - 1)
            BY <3>3 DEF GroupedTo, Covered
        <3>5. j < n
            BY <3>4
        <3> QED BY <1>0, <2>2, <3>1, <3>2, <3>3, <3>5 DEF Drops
    <2> QED BY <2>1, <2>2 DEF Drops
<1> QED BY <1>1, <1>2, <1>3 DEF GroupedTo

(* A row that joins the last group.                                        *)
LEMMA JoinKeeps ==
    ASSUME NEW f \in Seq(Row), NEW n \in 1..Len(f), NEW t, NEW acc, NEW new,
           GroupedTo(f, t, acc, n - 1), new \in Forming, Joins(acc, new, n),
           RowType(f[n], t) \in f[n].complete \cap Grouped,
           acc.groups[Len(acc.groups)].type = RowType(f[n], t),
           acc.groups[Len(acc.groups)].element = f[n].element
    PROVE  GroupedTo(f, t, new, n)
<1> DEFINE m == Len(acc.groups)
<1>0. /\ 1..n = (1..(n - 1)) \cup {n} /\ n \notin 1..(n - 1) /\ n \in Nat
      /\ Numbers(new) = Numbers(acc) /\ m \in Numbers(acc) /\ m \in Nat
    BY RowsBefore, CountGroups DEF Joins, Numbers, GroupedTo
<1>1. /\ \A k \in Numbers(acc) : /\ new.groups[k].type = acc.groups[k].type
                                 /\ new.groups[k].element = acc.groups[k].element
      /\ \A k \in Numbers(acc) \ {m} : /\ new.groups[k].rows = acc.groups[k].rows
                                       /\ k < m
      /\ new.groups[m].rows = acc.groups[m].rows \cup {n}
      /\ new.dropped = acc.dropped
    <2>1. \A k \in Numbers(acc) \ {m} : k \in 1..(m - 1) /\ k < m
        BY <1>0 DEF Numbers
    <2> QED BY <2>1 DEF Joins
<1> HIDE DEF m
<1>2. Covered(new, n)
    <2>1. new.dropped \subseteq 1..n
        BY <1>0, <1>1 DEF GroupedTo, Covered
    <2>2. \A k \in Numbers(new) : new.groups[k].rows # {} /\ new.groups[k].rows \subseteq 1..n
        BY <1>0, <1>1 DEF GroupedTo, Covered
    <2>3. ASSUME NEW i \in 1..n
          PROVE  i \in new.dropped <=> \A k \in Numbers(new) : i \notin new.groups[k].rows
        <3>1. CASE i = n
            <4>1. n \in new.groups[m].rows /\ n \notin acc.dropped
                BY <1>0, <1>1 DEF GroupedTo, Covered
            <4> QED BY <1>0, <1>1, <3>1, <4>1
        <3>2. CASE i \in 1..(n - 1)
            <4>1. \A k \in Numbers(acc) : i \in new.groups[k].rows <=> i \in acc.groups[k].rows
                BY <1>0, <1>1, <3>2
            <4> QED BY <1>0, <1>1, <3>2, <4>1 DEF GroupedTo, Covered
        <3> QED BY <1>0, <3>1, <3>2
    <2> QED BY <2>1, <2>2, <2>3 DEF Covered
<1>3. InTurn(new)
    <2> SUFFICES ASSUME NEW k \in Numbers(new), NEW l \in Numbers(new), k < l,
                        NEW i \in new.groups[k].rows, NEW j \in new.groups[l].rows
                 PROVE  i < j
        BY DEF InTurn
    <2>1. k \in Numbers(acc) /\ l \in Numbers(acc) /\ k # m
        BY <1>0, <1>1 DEF Numbers
    <2>2. i \in acc.groups[k].rows /\ i \in 1..(n - 1)
        BY <1>1, <2>1 DEF GroupedTo, Covered
    <2>3. CASE j \in acc.groups[l].rows
        BY <2>1, <2>2, <2>3 DEF GroupedTo, InTurn
    <2>4. CASE j \notin acc.groups[l].rows
        <3>1. j = n
            BY <1>1, <2>1, <2>4
        <3> QED BY <1>0, <2>2, <3>1
    <2> QED BY <2>3, <2>4
<1>4. Uniform(f, t, new)
    <2> SUFFICES ASSUME NEW k \in Numbers(acc), NEW i \in new.groups[k].rows
                 PROVE  /\ RowType(f[i], t) = new.groups[k].type
                        /\ f[i].element = new.groups[k].element
                        /\ RowType(f[i], t) \in f[i].complete
                        /\ new.groups[k].type \notin Grouped => new.groups[k].rows = {i}
        BY <1>0 DEF Uniform
    <2>1. CASE k # m
        BY <1>1, <2>1 DEF GroupedTo, Uniform
    <2>2. CASE k = m /\ i = n
        BY <1>1, <2>2 DEF m
    <2>3. CASE k = m /\ i # n
        <3>1. i \in acc.groups[m].rows /\ acc.groups[m].type \in Grouped
            BY <1>1, <2>3 DEF m
        <3> QED BY <1>1, <2>3, <3>1 DEF GroupedTo, Uniform
    <2> QED BY <2>1, <2>2, <2>3
<1>5. OneEach(new)
    BY <1>0, <1>1 DEF GroupedTo, OneEach
<1>6. WithReason(f, t, new)
    <2>1. \A k \in Numbers(acc) : acc.groups[k].rows \subseteq new.groups[k].rows
        BY <1>1
    <2> QED BY <1>0, <1>1, <2>1 DEF GroupedTo, WithReason
<1> QED BY <1>2, <1>3, <1>4, <1>5, <1>6 DEF GroupedTo

(* A row that opens a group.                                               *)
LEMMA OpenKeeps ==
    ASSUME NEW f \in Seq(Row), NEW n \in 1..Len(f), NEW t, NEW acc, NEW new,
           GroupedTo(f, t, acc, n - 1), new \in Forming,
           Opens(acc, new, n, RowType(f[n], t), f[n].element),
           RowType(f[n], t) \in f[n].complete,
           RowType(f[n], t) \in Grouped => ~Seen(acc.groups, f[n].element)
    PROVE  GroupedTo(f, t, new, n)
<1> DEFINE m == Len(acc.groups) + 1
           g == new.groups[m]
<1>0. /\ 1..n = (1..(n - 1)) \cup {n} /\ n \notin 1..(n - 1) /\ n \in Nat
      /\ Numbers(new) = Numbers(acc) \cup {m} /\ m \notin Numbers(acc)
      /\ \A k \in Numbers(acc) : k < m
      /\ m \in Nat
    <2>1. m \in Nat /\ m >= 1 /\ 1..m = (1..Len(acc.groups)) \cup {m} /\ m \notin 1..Len(acc.groups)
          /\ \A k \in 1..Len(acc.groups) : k < m
        BY CountGroups DEF GroupedTo
    <2> QED BY <2>1, RowsBefore DEF Opens, Numbers
<1>1. /\ \A k \in Numbers(acc) : new.groups[k] = acc.groups[k]
      /\ g.type = RowType(f[n], t) /\ g.element = f[n].element /\ g.rows = {n}
      /\ new.dropped = acc.dropped
    <2>1. Numbers(acc) = 1..(m - 1)
        BY CountGroups DEF GroupedTo, Numbers
    <2> QED BY <2>1 DEF Opens
<1>a. g = new.groups[m]
    OBVIOUS
<1> HIDE DEF m, g
<1>2. Covered(new, n)
    <2>1. new.dropped \subseteq 1..n
        BY <1>0, <1>1 DEF GroupedTo, Covered
    <2>2. \A k \in Numbers(new) : new.groups[k].rows # {} /\ new.groups[k].rows \subseteq 1..n
        BY <1>0, <1>1, <1>a DEF GroupedTo, Covered
    <2>3. ASSUME NEW i \in 1..n
          PROVE  i \in new.dropped <=> \A k \in Numbers(new) : i \notin new.groups[k].rows
        <3>1. CASE i = n
            <4>1. n \in new.groups[m].rows /\ n \notin acc.dropped
                BY <1>0, <1>1, <1>a DEF GroupedTo, Covered
            <4> QED BY <1>0, <1>1, <3>1, <4>1
        <3>2. CASE i \in 1..(n - 1)
            <4>1. i \notin new.groups[m].rows
                BY <1>0, <1>1, <1>a, <3>2
            <4> QED BY <1>0, <1>1, <3>2, <4>1 DEF GroupedTo, Covered
        <3> QED BY <1>0, <3>1, <3>2
    <2> QED BY <2>1, <2>2, <2>3 DEF Covered
<1>3. InTurn(new)
    <2> SUFFICES ASSUME NEW k \in Numbers(new), NEW l \in Numbers(new), k < l,
                        NEW i \in new.groups[k].rows, NEW j \in new.groups[l].rows
                 PROVE  i < j
        BY DEF InTurn
    <2>1. k \in Numbers(acc) /\ i \in acc.groups[k].rows /\ i \in 1..(n - 1)
        <3>1. l \in Nat /\ k \in Nat
            BY DEF Numbers
        <3>2. k \in Numbers(acc)
            BY <1>0, <3>1
        <3> QED BY <1>1, <3>2 DEF GroupedTo, Covered
    <2>2. CASE l \in Numbers(acc)
        BY <1>1, <2>1, <2>2 DEF GroupedTo, InTurn
    <2>3. CASE l = m
        <3>1. j = n
            BY <1>1, <1>a, <2>3
        <3> QED BY <1>0, <2>1, <3>1
    <2> QED BY <1>0, <2>2, <2>3
<1>4. Uniform(f, t, new)
    BY <1>0, <1>1, <1>a DEF GroupedTo, Uniform
<1>5. OneEach(new)
    <2>1. ASSUME RowType(f[n], t) \in Grouped, NEW k \in Numbers(acc),
                 acc.groups[k].type \in Grouped
          PROVE  acc.groups[k].element # f[n].element
        <3>1. k \in DOMAIN acc.groups
            BY DEF GroupedTo, Forming, Numbers
        <3> QED BY <2>1, <3>1 DEF Seen
    <2> QED BY <1>0, <1>1, <1>a, <2>1 DEF GroupedTo, OneEach
<1>6. WithReason(f, t, new)
    BY <1>0, <1>1 DEF GroupedTo, WithReason
<1> QED BY <1>2, <1>3, <1>4, <1>5, <1>6 DEF GroupedTo

(* The groups of the whole file.                                           *)
LEMMA FileGrouped ==
    ASSUME NEW f \in Seq(Row), NEW t
    PROVE  GroupedTo(f, t, Group(f, t), Len(f))
<1>1. Len(f) \in Nat
    OBVIOUS
<1>2. PICK u : PassesOver(f, t, u) /\ Group(f, t) = u[Len(f)]
    BY <1>1, GroupUnfolds
<1> DEFINE Bad == {n \in 0..Len(f) : ~GroupedTo(f, t, u[n], n)}
<1>3. GroupedTo(f, t, Ungrouped, 0)
    <2>1. Ungrouped \in Forming /\ Ungrouped.groups = <<>> /\ Ungrouped.dropped = {}
        BY DEF Ungrouped, Forming
    <2>2. Numbers(Ungrouped) = {}
        BY <2>1 DEF Numbers
    <2> QED BY <2>1, <2>2
        DEF GroupedTo, Covered, InTurn, Uniform, OneEach, WithReason
<1>4. ASSUME NEW n \in 1..Len(f), GroupedTo(f, t, u[n - 1], n - 1)
      PROVE  GroupedTo(f, t, u[n], n)
    <2>1. u[n - 1] \in Forming /\ u[n] = Took(f, t, u[n - 1], n)
        BY <1>2, <1>4 DEF GroupedTo, PassesOver
    <2> QED BY <1>4, <2>1, TookWhat, DropKeeps, JoinKeeps, OpenKeeps
<1>5. Bad = {}
    <2> SUFFICES ASSUME Bad # {} PROVE FALSE
        OBVIOUS
    <2>1. PICK n \in Bad : \A y \in Bad : n <= y
        <3>1. Bad \in SUBSET Nat
            OBVIOUS
        <3> HIDE DEF Bad
        <3> QED BY <3>1, Least
    <2>2. n # 0
        BY <1>2, <1>3 DEF PassesOver
    <2>3. n \in 1..Len(f) /\ n - 1 \in 0..Len(f) /\ n - 1 \notin Bad
        BY <1>1, <2>1, <2>2
    <2> QED BY <1>4, <2>1, <2>3
<1> QED BY <1>1, <1>2, <1>5

(* The least row of a group of rows.                                       *)
LEMMA BeginsIs ==
    ASSUME NEW g, g.rows \in SUBSET Nat, g.rows # {}
    PROVE  Begins(g) \in g.rows /\ \A j \in g.rows : Begins(g) <= j
<1>1. \E i \in g.rows : \A j \in g.rows : i <= j
    BY Least
<1> QED BY <1>1 DEF Begins

LEMMA GroupsOf ==
    ASSUME NEW f \in Seq(Row), NEW t
    PROVE  LET acc == Group(f, t) IN
           /\ GroupSet(f, t) = {acc.groups[k] : k \in Numbers(acc)}
           /\ acc \in Forming /\ \A k \in Numbers(acc) : acc.groups[k] \in Formed
<1> DEFINE acc == Group(f, t)
<1>1. acc \in Forming
    BY FileGrouped DEF GroupedTo
<1>2. DOMAIN acc.groups = Numbers(acc) /\ \A k \in Numbers(acc) : acc.groups[k] \in Formed
    BY <1>1 DEF Forming, Numbers
<1> QED BY <1>1, <1>2 DEF GroupSet, ToSet

(* What ImportService._group does is what it is to do.                     *)
LEMMA GroupingIsRight ==
    ASSUME NEW f \in Seq(Row), NEW t
    PROVE  IsGrouping(f, t, GroupSet(f, t), Group(f, t).dropped)
<1> DEFINE acc == Group(f, t)
           groups == GroupSet(f, t)
           dropped == acc.dropped
<1>0. /\ GroupedTo(f, t, acc, Len(f))
      /\ groups = {acc.groups[k] : k \in Numbers(acc)}
      /\ \A k \in Numbers(acc) : acc.groups[k] \in Formed
    BY FileGrouped, GroupsOf
<1> HIDE DEF acc, groups
<1>a. \A g \in groups : \E k \in Numbers(acc) : g = acc.groups[k]
    BY <1>0
<1>b. \A k \in Numbers(acc) : k \in Int
    BY DEF Numbers
<1>1. \A i \in 1..Len(f) : i \in dropped <=> \A g \in groups : i \notin g.rows
    BY <1>0 DEF GroupedTo, Covered
<1>2. \A g, h \in groups : g # h => g.rows \cap h.rows = {}
    <2> SUFFICES ASSUME NEW g \in groups, NEW h \in groups, g # h,
                        NEW i \in g.rows \cap h.rows
                 PROVE  FALSE
        OBVIOUS
    <2>1. PICK k \in Numbers(acc), l \in Numbers(acc) : g = acc.groups[k] /\ h = acc.groups[l]
        BY <1>a
    <2>2. i \in Nat /\ (k < l \/ l < k)
        BY <1>0, <1>b, <2>1 DEF Formed
    <2> QED BY <1>0, <2>1, <2>2 DEF GroupedTo, InTurn
<1>3. \A g \in groups : \A i \in g.rows :
          /\ RowType(f[i], t) = g.type /\ f[i].element = g.element
          /\ RowType(f[i], t) \in f[i].complete
          /\ g.type \notin Grouped => g.rows = {i}
    BY <1>0 DEF GroupedTo, Uniform
<1>c. \A g \in groups : g.rows \in SUBSET Nat /\ g.rows # {}
    BY <1>0 DEF Formed, GroupedTo, Covered
<1>d. \A g \in groups : Begins(g) \in g.rows /\ Begins(g) \in Nat /\ \A j \in g.rows : Begins(g) <= j
    BY <1>c, BeginsIs
<1>4. \A g \in groups : \A i, j \in g.rows : \A h \in groups \ {g} : ~BetweenRows(h, i, j)
    <2> SUFFICES ASSUME NEW g \in groups, NEW i \in g.rows, NEW j \in g.rows,
                        NEW h \in groups \ {g}, Begins(h) > i, Begins(h) < j
                 PROVE  FALSE
        BY DEF BetweenRows
    <2>1. PICK k \in Numbers(acc), l \in Numbers(acc) : g = acc.groups[k] /\ h = acc.groups[l]
        BY <1>a
    <2>2. k < l \/ l < k
        BY <1>b, <2>1
    <2>3. Begins(h) \in h.rows /\ Begins(h) \in Nat /\ i \in Nat /\ j \in Nat
        BY <1>c, <1>d
    <2>4. CASE k < l
        <3>1. j < Begins(h)
            BY <1>0, <2>1, <2>3, <2>4 DEF GroupedTo, InTurn
        <3> QED BY <2>3, <3>1
    <2>5. CASE l < k
        <3>1. Begins(h) < i
            BY <1>0, <2>1, <2>3, <2>5 DEF GroupedTo, InTurn
        <3> QED BY <2>3, <3>1
    <2> QED BY <2>2, <2>4, <2>5
<1>5. \A g, h \in groups :
          (g # h /\ {g.type, h.type} \subseteq Grouped) => g.element # h.element
    BY <1>0 DEF GroupedTo, OneEach
<1>6. ASSUME NEW i \in dropped, RowType(f[i], t) \in f[i].complete
      PROVE  \E g, h \in groups : /\ RowType(f[i], t) \in Grouped
                                  /\ g.type \in Grouped
                                  /\ g.element = f[i].element
                                  /\ BetweenRows(h, Begins(g), i)
    <2>1. PICK k \in Numbers(acc), l \in Numbers(acc) :
            /\ RowType(f[i], t) \in Grouped
            /\ k < l /\ acc.groups[k].type \in Grouped
            /\ acc.groups[k].element = f[i].element
            /\ \E j \in acc.groups[l].rows : j < i
        BY <1>0, <1>6 DEF GroupedTo, WithReason
    <2> DEFINE g == acc.groups[k]
               h == acc.groups[l]
    <2>2. g \in groups /\ h \in groups
        BY <1>0
    <2>3. PICK j \in h.rows : j < i
        BY <2>1
    <2>4. /\ Begins(h) <= j /\ Begins(h) \in Nat /\ j \in Nat
          /\ Begins(g) < Begins(h) /\ Begins(g) \in Nat
        <3>1. Begins(g) \in g.rows /\ Begins(h) \in h.rows
            BY <1>d, <2>2
        <3>2. Begins(g) < Begins(h)
            BY <1>0, <2>1, <3>1 DEF GroupedTo, InTurn
        <3> QED BY <1>c, <1>d, <2>2, <3>2
    <2>5. i \in Nat
        BY <1>0 DEF GroupedTo, Forming
    <2>6. BetweenRows(h, Begins(g), i)
        BY <2>3, <2>4, <2>5 DEF BetweenRows
    <2> HIDE DEF g, h
    <2> QED BY <2>1, <2>2, <2>6 DEF g, h
<1>7. IsGrouping(f, t, groups, dropped)
    BY <1>1, <1>2, <1>3, <1>4, <1>5, <1>6 DEF IsGrouping
<1> QED BY <1>7 DEF acc, groups
----------------------------------------------------------------------------
(***************************************************************************)
(* The telemetry path's grouping, of rows that are all complete and of one *)
(* grouped type t: what it has after n rows is what the import has, until  *)
(* the first block that is resumed.                                        *)
(***************************************************************************)
Agree(t, acc, upv) ==
    /\ acc \in Forming
    /\ \A k \in Numbers(acc) : acc.groups[k].type = t
    /\ \/ upv = [groups |-> acc.groups, error |-> FALSE] /\ acc.dropped = {}
       \/ upv = [groups |-> <<>>, error |-> TRUE] /\ acc.dropped # {}

LEMMA AgreeStep ==
    ASSUME NEW f \in Seq(Row), NEW n \in 1..Len(f), NEW t \in Grouped,
           f[n].type = t, t \in f[n].complete,
           NEW acc, NEW upv, Agree(t, acc, upv)
    PROVE  Agree(t, Took(f, t, acc, n), TookUpv(f, upv, n))
<1> DEFINE e == f[n].element
           new == Took(f, t, acc, n)
           next == TookUpv(f, upv, n)
           open == acc.groups # <<>> /\ Last(acc.groups).element = e
           seen == \E k \in DOMAIN acc.groups : acc.groups[k].element = e
<1>1. RowType(f[n], t) = t
    BY DEF RowType
<1>2. /\ e \in Elements /\ t \in Types /\ n \in Nat
      /\ acc \in Forming /\ DOMAIN acc.groups = Numbers(acc)
      /\ \A k \in Numbers(acc) : acc.groups[k].type = t
    BY RowHas, TypesAssumption DEF Agree, Forming, Numbers
<1>3. new = Place(acc, n, f[n], t) /\ next = PlaceUpv(upv, n, f[n])
    BY <1>1 DEF Took, TookUpv
<1> HIDE DEF new, next, e
<1>4. /\ OpenGroup(acc.groups, t, e) <=> open
      /\ Seen(acc.groups, e) <=> seen
    <2>1. acc.groups # <<>> => Len(acc.groups) \in Numbers(acc)
        BY <1>2 DEF Forming, Numbers
    <2> QED BY <1>2, <2>1 DEF OpenGroup, Last, Seen
<1> HIDE DEF open, seen
<1>5. new = IF open THEN Extend(acc, n)
            ELSE IF seen THEN Drop(acc, n) ELSE OpenAnother(acc, n, t, e)
    BY <1>3, <1>4 DEF Place, e
<1>6. /\ new \in Forming
      /\ open => Joins(acc, new, n)
      /\ (~open /\ seen) => Drops(acc, new, n)
      /\ (~open /\ ~seen) => Opens(acc, new, n, t, e)
    BY <1>2, <1>5, ExtendJoins, DropDrops, OpenOpens DEF open
<1>7. \A k \in Numbers(new) : new.groups[k].type = t
    <2>1. Len(acc.groups) \in Nat
        BY <1>2, CountGroups
    <2>2. CASE open
        BY <1>2, <1>6, <2>1, <2>2 DEF Joins, Numbers
    <2>3. CASE ~open /\ seen
        BY <1>2, <1>6, <2>3 DEF Drops, Numbers
    <2>4. CASE ~open /\ ~seen
        BY <1>2, <1>6, <2>1, <2>4 DEF Opens, Numbers
    <2> QED BY <2>2, <2>3, <2>4
<1>8. acc.dropped \subseteq new.dropped
    BY <1>6 DEF Joins, Drops, Opens
<1>9. CASE upv = [groups |-> <<>>, error |-> TRUE] /\ acc.dropped # {}
    <2>1. next = upv
        BY <1>3, <1>9 DEF PlaceUpv
    <2> QED BY <1>6, <1>7, <1>8, <1>9, <2>1 DEF Agree, new, next
<1>10. CASE upv = [groups |-> acc.groups, error |-> FALSE] /\ acc.dropped = {}
    <2>1. next = IF open THEN Extend(upv, n)
                 ELSE IF seen THEN [upv EXCEPT !.error = TRUE, !.groups = <<>>]
                 ELSE OpenAnother(upv, n, t, e)
        <3>1. upv.groups = acc.groups /\ ~upv.error
            BY <1>10
        <3> QED BY <1>3, <3>1 DEF PlaceUpv, open, seen, e
    <2>2. CASE open
        <3> DEFINE m == Len(acc.groups)
                   g == [acc.groups EXCEPT ![m].rows = @ \cup {n}]
        <3>1. next = [upv EXCEPT !.groups = g]
            BY <1>10, <2>1, <2>2 DEF Extend
        <3>2. new = [acc EXCEPT !.groups = g]
            BY <1>5, <2>2 DEF Extend
        <3> HIDE DEF g
        <3>3. next = [groups |-> new.groups, error |-> FALSE] /\ new.dropped = {}
            BY <1>2, <1>10, <3>1, <3>2 DEF Forming
        <3> QED BY <1>6, <1>7, <3>3 DEF Agree, new, next
    <2>3. CASE ~open /\ seen
        <3>1. next = [groups |-> <<>>, error |-> TRUE]
            BY <1>10, <2>1, <2>3
        <3>2. new.dropped # {}
            BY <1>6, <2>3 DEF Drops
        <3> QED BY <1>6, <1>7, <3>1, <3>2 DEF Agree, new, next
    <2>4. CASE ~open /\ ~seen
        <3> DEFINE g == Append(acc.groups, [type |-> t, element |-> e, rows |-> {n}])
        <3>1. next = [upv EXCEPT !.groups = g]
            BY <1>10, <2>1, <2>4 DEF OpenAnother
        <3>2. new = [acc EXCEPT !.groups = g]
            BY <1>5, <2>4 DEF OpenAnother
        <3> HIDE DEF g
        <3>3. next = [groups |-> new.groups, error |-> FALSE] /\ new.dropped = {}
            BY <1>2, <1>10, <3>1, <3>2 DEF Forming
        <3> QED BY <1>6, <1>7, <3>3 DEF Agree, new, next
    <2> QED BY <2>2, <2>3, <2>4
<1> QED BY <1>9, <1>10 DEF Agree

LEMMA PathsGroupAlike ==
    ASSUME NEW f \in Seq(Row), NEW t \in Grouped,
           \A i \in 1..Len(f) : t \in f[i].complete /\ f[i].type = t
    PROVE  Agree(t, Group(f, t), GroupUpv(f))
<1>1. Len(f) \in Nat
    OBVIOUS
<1>2. PICK u : PassesOver(f, t, u) /\ Group(f, t) = u[Len(f)]
    BY <1>1, GroupUnfolds
<1>3. PICK v : PassesOverUpv(f, v) /\ GroupUpv(f) = v[Len(f)]
    BY <1>1, UpvUnfolds
<1> DEFINE Bad == {n \in 0..Len(f) : ~Agree(t, u[n], v[n])}
<1>4. Agree(t, u[0], v[0])
    <2>1. u[0] = [groups |-> <<>>, dropped |-> {}] /\ v[0] = [groups |-> <<>>, error |-> FALSE]
        BY <1>2, <1>3 DEF PassesOver, PassesOverUpv, Ungrouped, NoneUpv
    <2> QED BY <2>1 DEF Agree, Forming, Numbers
<1>5. \A n \in 1..Len(f) : Agree(t, u[n - 1], v[n - 1]) => Agree(t, u[n], v[n])
    BY <1>2, <1>3, AgreeStep DEF PassesOver, PassesOverUpv
<1>6. Bad = {}
    <2> SUFFICES ASSUME Bad # {} PROVE FALSE
        OBVIOUS
    <2>1. PICK n \in Bad : \A y \in Bad : n <= y
        <3>1. Bad \in SUBSET Nat
            OBVIOUS
        <3> HIDE DEF Bad
        <3> QED BY <3>1, Least
    <2>2. n \in 1..Len(f) /\ n - 1 \in 0..Len(f) /\ n - 1 \notin Bad
        BY <1>1, <1>4, <2>1
    <2> QED BY <1>5, <2>1, <2>2
<1> QED BY <1>1, <1>2, <1>3, <1>6
----------------------------------------------------------------------------
(***************************************************************************)
(* The records that a file makes.  They account for each row once.         *)
(***************************************************************************)
Parted(R) ==
    /\ \A i \in 1..Len(file) : \E r \in R : i \in r.rows
    /\ \A q, r \in R : q.rows \cap r.rows # {} => q = r
    /\ \A r \in R : r.rows # {}

MadeAs(R, t) ==
    /\ Parted(R)
    /\ \A r \in R : \E p \in BlocksOf(t) :
          p.rows = r.rows /\ p.type = r.type /\ (r.valid => p.kept)
    /\ \A p \in BlocksOf(t) : \E r \in R : r.rows = p.rows /\ r.type = p.type

LEMMA BlocksParted ==
    ASSUME NEW t, file \in Seq(Row)
    PROVE  /\ Parted(BlocksOf(t))
           /\ \A p \in BlocksOf(t) :
                 /\ p.rows \subseteq 1..Len(file)
                 /\ \A i \in p.rows : RowType(file[i], t) = p.type
                 /\ p.kept => p.type \in Types
<1> DEFINE acc == Group(file, t)
           groups == GroupSet(file, t)
           Kept == {[rows |-> g.rows, type |-> g.type, kept |-> TRUE] : g \in groups}
           Dropped == {[rows |-> {i}, type |-> RowType(file[i], t), kept |-> FALSE] :
                          i \in acc.dropped}
<1>1. BlocksOf(t) = Kept \cup Dropped
    BY DEF BlocksOf
<1>2. /\ GroupedTo(file, t, acc, Len(file))
      /\ groups = {acc.groups[k] : k \in Numbers(acc)}
      /\ \A k \in Numbers(acc) : acc.groups[k] \in Formed
      /\ IsGrouping(file, t, groups, acc.dropped)
    BY FileGrouped, GroupsOf, GroupingIsRight
<1>3. /\ acc.dropped \subseteq 1..Len(file)
      /\ \A g \in groups : /\ g.rows # {} /\ g.rows \subseteq 1..Len(file)
                           /\ g.type \in Types
                           /\ \A i \in g.rows : i \notin acc.dropped
    BY <1>2 DEF GroupedTo, Covered, Formed
<1>4. /\ \A i \in 1..Len(file) : i \in acc.dropped <=> \A g \in groups : i \notin g.rows
      /\ \A g, h \in groups : g # h => g.rows \cap h.rows = {}
      /\ \A g \in groups : \A i \in g.rows : RowType(file[i], t) = g.type
    BY <1>2 DEF IsGrouping
<1> HIDE DEF acc, groups
<1>5. \A p \in Kept : \E g \in groups : p.rows = g.rows /\ p.type = g.type /\ p.kept
    OBVIOUS
<1>6. \A p \in Dropped : \E i \in acc.dropped :
        p.rows = {i} /\ p.type = RowType(file[i], t) /\ ~p.kept
    OBVIOUS
<1>7. \A i \in 1..Len(file) : \E r \in Kept \cup Dropped : i \in r.rows
    <2> SUFFICES ASSUME NEW i \in 1..Len(file)
                 PROVE  \E r \in Kept \cup Dropped : i \in r.rows
        OBVIOUS
    <2>1. CASE i \in acc.dropped
        <3> DEFINE d == [rows |-> {i}, type |-> RowType(file[i], t), kept |-> FALSE]
        <3>1. d \in Dropped /\ i \in d.rows
            BY <2>1
        <3> HIDE DEF d, Dropped
        <3> QED BY <3>1
    <2>2. CASE i \notin acc.dropped
        <3>1. PICK g \in groups : i \in g.rows
            BY <1>4, <2>2
        <3> DEFINE d == [rows |-> g.rows, type |-> g.type, kept |-> TRUE]
        <3>2. d \in Kept /\ i \in d.rows
            BY <3>1
        <3> HIDE DEF d, Kept
        <3> QED BY <3>2
    <2> QED BY <2>1, <2>2
<1>8. \A q, r \in Kept \cup Dropped : q.rows \cap r.rows # {} => q = r
    <2> SUFFICES ASSUME NEW q \in Kept \cup Dropped, NEW r \in Kept \cup Dropped,
                        NEW i, i \in q.rows, i \in r.rows
                 PROVE  q = r
        OBVIOUS
    <2>1. CASE q \in Kept /\ r \in Kept
        <3>1. PICK g \in groups : q = [rows |-> g.rows, type |-> g.type, kept |-> TRUE]
            BY <2>1
        <3>2. PICK h \in groups : r = [rows |-> h.rows, type |-> h.type, kept |-> TRUE]
            BY <2>1
        <3>3. g = h
            BY <1>4, <3>1, <3>2
        <3> QED BY <3>1, <3>2, <3>3
    <2>2. CASE q \in Dropped /\ r \in Dropped
        <3>1. PICK j \in acc.dropped :
                q = [rows |-> {j}, type |-> RowType(file[j], t), kept |-> FALSE]
            BY <2>2
        <3>2. PICK k \in acc.dropped :
                r = [rows |-> {k}, type |-> RowType(file[k], t), kept |-> FALSE]
            BY <2>2
        <3> QED BY <3>1, <3>2
    <2>3. CASE q \in Kept /\ r \in Dropped
        BY <1>3, <1>5, <1>6, <2>3
    <2>4. CASE r \in Kept /\ q \in Dropped
        BY <1>3, <1>5, <1>6, <2>4
    <2> QED BY <2>1, <2>2, <2>3, <2>4
<1> HIDE DEF Kept, Dropped
<1>9. \A p \in Kept \cup Dropped :
        /\ p.rows # {} /\ p.rows \subseteq 1..Len(file)
        /\ \A i \in p.rows : RowType(file[i], t) = p.type
        /\ p.kept => p.type \in Types
    BY <1>3, <1>4, <1>5, <1>6
<1> QED BY <1>1, <1>7, <1>8, <1>9 DEF Parted

LEMMA PreparedMade ==
    ASSUME NEW t, NEW n, file \in Seq(Row)
    PROVE  MadeAs(Prepared(t, n), t)
<1> DEFINE rec(p) ==
        [rows |-> p.rows, type |-> p.type,
         valid |-> p.kept /\ p.rows \cap refused = {}, run |-> n, target |-> 0]
<1>1. \A p : /\ rec(p).rows = p.rows /\ rec(p).type = p.type
             /\ rec(p).valid => p.kept
    OBVIOUS
<1>2. Prepared(t, n) = {rec(p) : p \in BlocksOf(t)}
    BY DEF Prepared
<1>3. Parted(BlocksOf(t))
    BY BlocksParted
<1> HIDE DEF rec
<1>4. Parted(Prepared(t, n))
    <2>1. \A i \in 1..Len(file) : \E r \in Prepared(t, n) : i \in r.rows
        BY <1>1, <1>2, <1>3 DEF Parted
    <2>2. ASSUME NEW q \in Prepared(t, n), NEW r \in Prepared(t, n), q.rows \cap r.rows # {}
          PROVE  q = r
        <3>1. PICK p1 \in BlocksOf(t), p2 \in BlocksOf(t) : q = rec(p1) /\ r = rec(p2)
            BY <1>2
        <3>2. p1 = p2
            BY <1>1, <1>3, <2>2, <3>1 DEF Parted
        <3> QED BY <3>1, <3>2
    <2>3. \A r \in Prepared(t, n) : r.rows # {}
        BY <1>1, <1>2, <1>3 DEF Parted
    <2> QED BY <2>1, <2>2, <2>3 DEF Parted
<1>5. \A r \in Prepared(t, n) : \E p \in BlocksOf(t) :
        p.rows = r.rows /\ p.type = r.type /\ (r.valid => p.kept)
    BY <1>1, <1>2
<1>6. \A p \in BlocksOf(t) : \E r \in Prepared(t, n) : r.rows = p.rows /\ r.type = p.type
    BY <1>1, <1>2
<1> QED BY <1>4, <1>5, <1>6 DEF MadeAs

(* A row is in one record.                                                 *)
LEMMA PartedOnce ==
    ASSUME NEW R, Parted(R), NEW i \in 1..Len(file)
    PROVE  Cardinality({r \in R : i \in r.rows}) = 1
<1>1. PICK r \in R : i \in r.rows
    BY DEF Parted
<1>2. {q \in R : i \in q.rows} = {r}
    BY <1>1 DEF Parted
<1> QED BY <1>2, FS_Singleton

(* If every row has the same type either way, so have the groups.          *)
LEMMA SameGroups ==
    ASSUME NEW f \in Seq(Row), NEW s, NEW t,
           \A i \in 1..Len(f) : RowType(f[i], s) = RowType(f[i], t)
    PROVE  Group(f, s) = Group(f, t)
<1>1. Len(f) \in Nat
    OBVIOUS
<1>2. PICK u : PassesOver(f, s, u) /\ Group(f, s) = u[Len(f)]
    BY <1>1, GroupUnfolds
<1>3. PICK v : PassesOver(f, t, v) /\ Group(f, t) = v[Len(f)]
    BY <1>1, GroupUnfolds
<1> DEFINE Bad == {n \in 0..Len(f) : u[n] # v[n]}
<1>4. u[0] = v[0]
    BY <1>2, <1>3 DEF PassesOver
<1>5. \A n \in 1..Len(f) : u[n - 1] = v[n - 1] => u[n] = v[n]
    <2>1. \A n \in 1..Len(f) : \A a : Took(f, s, a, n) = Took(f, t, a, n)
        BY DEF Took
    <2> QED BY <1>2, <1>3, <2>1 DEF PassesOver
<1>6. Bad = {}
    <2> SUFFICES ASSUME Bad # {} PROVE FALSE
        OBVIOUS
    <2>1. PICK n \in Bad : \A y \in Bad : n <= y
        <3>1. Bad \in SUBSET Nat
            OBVIOUS
        <3> HIDE DEF Bad
        <3> QED BY <3>1, Least
    <2>2. n \in 1..Len(f) /\ n - 1 \in 0..Len(f) /\ n - 1 \notin Bad
        BY <1>1, <1>4, <2>1
    <2> QED BY <1>5, <2>1, <2>2
<1> QED BY <1>1, <1>2, <1>3, <1>6

(* Giving the batch the one type of its accepted records changes nothing   *)
(* about what the file makes.                                              *)
LEMMA InferredSame ==
    ASSUME NEW R, NEW type \in Names, file \in Seq(Row),
           MadeAs(R, type), \A r \in R : r.valid,
           Infers(type, R), NEW t \in TypesIn(R)
    PROVE  BlocksOf(type) = BlocksOf(t)
<1>0. type = NoType /\ t # NoType /\ t \in Names /\ Cardinality(TypesIn(R)) = 1
    BY DEF Infers, TypesIn
<1>1. \A r \in R : r.type # NoType /\ r.type \in Names
    <2>1. \A p \in BlocksOf(type) : p.kept => p.type \in Types
        BY BlocksParted
    <2> QED BY <2>1, TypesAssumption DEF MadeAs
<1>2. \A i \in 1..Len(file) : \E r \in R : i \in r.rows /\ RowType(file[i], type) = r.type
    <2> SUFFICES ASSUME NEW i \in 1..Len(file)
                 PROVE  \E r \in R : i \in r.rows /\ RowType(file[i], type) = r.type
        OBVIOUS
    <2>1. PICK r \in R : i \in r.rows
        BY DEF MadeAs, Parted
    <2>2. PICK p \in BlocksOf(type) : p.rows = r.rows /\ p.type = r.type
        BY DEF MadeAs
    <2>3. RowType(file[i], type) = p.type
        BY <2>1, <2>2, BlocksParted
    <2> QED BY <2>1, <2>2, <2>3
<1>3. TypesIn(R) = {t}
    <2> DEFINE S == 1..Len(file)
               given == [i \in S |-> RowType(file[i], type)]
               image == {given[i] : i \in S}
    <2>1. IsFiniteSet(S)
        BY FS_Interval
    <2>2. given \in Surjection(S, image)
        BY DEF Surjection
    <2>3. IsFiniteSet(image)
        <3> HIDE DEF S, given, image
        <3> QED BY <2>1, <2>2, FS_Surjection
    <2>4. TypesIn(R) \in SUBSET image
        <3>1. ASSUME NEW x \in TypesIn(R) PROVE x \in image
            <4>1. PICK r \in R : r.type = x
                BY DEF TypesIn
            <4>2. PICK p \in BlocksOf(type) : p.rows = r.rows /\ p.type = r.type
                BY DEF MadeAs
            <4>3. PICK i \in p.rows : i \in S /\ RowType(file[i], type) = x
                BY <4>1, <4>2, BlocksParted DEF MadeAs, Parted
            <4> QED BY <4>3
        <3> QED BY <3>1
    <2>5. IsFiniteSet(TypesIn(R))
        <3> HIDE DEF image
        <3> QED BY <2>3, <2>4, FS_Subset
    <2>6. \E x : TypesIn(R) = {x}
        BY <1>0, <2>5, FS_Singleton
    <2> QED BY <2>6
<1>4. \A i \in 1..Len(file) : RowType(file[i], type) = RowType(file[i], t)
    <2>1. \A r \in R : r.type = t
        BY <1>1, <1>3 DEF TypesIn
    <2>2. \A i \in 1..Len(file) : RowType(file[i], t) = t
        BY <1>0 DEF RowType
    <2> QED BY <1>2, <2>1, <2>2
<1>5. Group(file, type) = Group(file, t)
    BY <1>4, SameGroups
<1>6. Group(file, t).dropped \subseteq 1..Len(file)
    BY FileGrouped DEF GroupedTo, Covered
<1>7. \A i \in Group(file, t).dropped : RowType(file[i], type) = RowType(file[i], t)
    BY <1>4, <1>6
<1> QED BY <1>5, <1>7 DEF BlocksOf, GroupSet
----------------------------------------------------------------------------
(***************************************************************************)
(* The records in the database, while no two handlers work at the same     *)
(* time and nobody is killed.  A batch that nobody works on and that is    *)
(* VALIDATED has the records that its file makes as a file of the batch's  *)
(* type, all accepted; a handler that commits it counts on that.           *)
(***************************************************************************)
Quiet == ~overlapped /\ kills = 0

Accepted(R) == Parted(R) /\ \A r \in R : r.valid
Ready(row, R) == Accepted(R) /\ MadeAs(R, row.type)

Settled(row, R) ==
    /\ row.status = "VALIDATED" => Ready(row, R)
    /\ row.status = "IMPORTED" => Accepted(R)

NamedBy(X, R) == \A x \in X :
    \E r \in R : r.rows = x.rows /\ r.target = x.run
        /\ \A q \in R : q.rows = x.rows => q = r

Found(R, r) == {q \in R : q.type = r.type /\ FirstRow(q) = FirstRow(r)}

(* What a handler knows of the batch's row and records.                    *)
Committing(me, row, R) ==
    me.pc \in Stages /\ me.op = "commit" =>
        row.status = "VALIDATED" /\ Ready(row, R)
Writing(me, R) ==
    me.pc = "writing" =>
        /\ me.op = "commit"
        /\ MadeAs(me.made, me.copy.type)
        /\ \A r \in me.wrote : Found(R, r) \subseteq me.links
Validating(me, row, R) ==
    me.pc \in {"replacing", "listing", "marking", "typing"} =>
        /\ me.op = "validate"
        /\ me.made = {} \/ MadeAs(me.made, me.copy.type)
        /\ me.pc = "listing" => R = {}
        /\ me.pc \in {"marking", "typing"} => R = me.made
        /\ me.pc = "typing" =>
              /\ Infers(me.copy.type, me.made)
              /\ row.status \in {"VALIDATED", "FAILED"}
              /\ row.status = "VALIDATED" => AllValid(me.made)

Sound(me, row, R) ==
    /\ me.pc \notin Stages => me.on = NoBatch
    /\ me.pc \in Stages =>
          me.op \in {"validate", "commit"} /\ me.copy.type = row.type
    /\ Committing(me, row, R) /\ Writing(me, R) /\ Validating(me, row, R)

AllSound == \A h \in Handlers :
    Sound(handler[h], batch[handler[h].on], records[handler[h].on])
AllSettled == \A b \in Batches : Resting(b) => Settled(batch[b], records[b])
AllNamed == \A b \in Batches : NamedBy(registry[b], records[b])

RecordsInv ==
    /\ SafeInv
    /\ Quiet => AllSound /\ AllSettled /\ AllNamed

LEMMA FileIsRows == TypeInv => file \in Seq(Row)
BY FilesAssumption DEF TypeInv, TypeOK

LEMMA BytesKeep ==
    ASSUME file' = file
    PROVE  /\ \A me, row, R : Sound(me, row, R)' <=> Sound(me, row, R)
           /\ \A row, R : Settled(row, R)' <=> Settled(row, R)
<1>1. \A R : Parted(R)' <=> Parted(R)
    BY DEF Parted
<1>2. \A R, t : MadeAs(R, t)' <=> MadeAs(R, t)
    BY <1>1, FileStays DEF MadeAs
<1>3. \A row, R : (Settled(row, R)' <=> Settled(row, R)) /\ (Ready(row, R)' <=> Ready(row, R))
    BY <1>1, <1>2 DEF Settled, Ready, Accepted
<1>4. \A me, row, R :
        /\ Committing(me, row, R)' <=> Committing(me, row, R)
        /\ Writing(me, R)' <=> Writing(me, R)
        /\ Validating(me, row, R)' <=> Validating(me, row, R)
    BY <1>2, <1>3 DEF Committing, Writing, Validating
<1> QED BY <1>3, <1>4 DEF Sound

(* One handler's step: it is sound after it, and a batch that it leaves is *)
(* settled.                                                                *)
LEMMA OneMoves ==
    ASSUME RecordsInv, SafeInv', Quiet, file' = file, NEW h \in Handlers,
           \A g \in Handlers \ {h} : handler'[g] = handler[g] /\ Free(g),
           Sound(handler'[h], batch'[handler'[h].on], records'[handler'[h].on]),
           \A b \in Batches :
              \/ handler'[h].on = b
              \/ handler[h].on # b /\ batch'[b] = batch[b] /\ records'[b] = records[b]
              \/ Settled(batch'[b], records'[b]),
           \A b \in Batches : NamedBy(registry'[b], records'[b])
    PROVE  RecordsInv'
<1>1. \A g \in Handlers \ {h} :
        /\ handler'[g] = handler[g] /\ handler[g].pc = "idle"
        /\ handler[g].on = NoBatch
    <2>1. \A g \in Handlers \ {h} : handler[g].pc = "idle" /\ handler[g].pc \notin Stages
        BY DEF Free, Stages
    <2> QED BY <2>1 DEF RecordsInv, AllSound, Sound
<1>2. ASSUME NEW g \in Handlers
      PROVE  Sound(handler'[g], batch'[handler'[g].on], records'[handler'[g].on])
    <2>1. CASE g = h
        BY <2>1
    <2>2. CASE g # h
        BY <1>1, <2>2 DEF Sound, Committing, Writing, Validating, Stages
    <2> QED BY <2>1, <2>2
<1>3. AllSound'
    BY <1>2, BytesKeep DEF AllSound
<1>4. ASSUME NEW b \in Batches, \A g \in Handlers : handler'[g].on # b
      PROVE  Settled(batch'[b], records'[b])
    <2>1. CASE handler[h].on # b /\ batch'[b] = batch[b] /\ records'[b] = records[b]
        <3>1. Resting(b)
            BY <1>1, <2>1, BatchesAssumption DEF Resting
        <3> QED BY <2>1, <3>1 DEF RecordsInv, AllSettled
    <2> QED BY <1>4, <2>1
<1>5. AllSettled'
    BY <1>4, BytesKeep DEF AllSettled, Resting
<1>6. AllNamed'
    BY DEF AllNamed, NamedBy
<1> QED BY <1>3, <1>5, <1>6 DEF RecordsInv

LEMMA OthersFree ==
    ASSUME SafeInv, Quiet, NEW h \in Handlers, ~Free(h)
    PROVE  \A g \in Handlers \ {h} : Free(g)
BY DEF SafeInv, OneAtWork, Quiet

(* Rows of the registry are named as long as no record of a batch that has *)
(* some changes.                                                           *)
LEMMA StillNamed ==
    ASSUME RecordsInv, Quiet, NEW h \in Handlers, registry' = registry,
           \A b \in Batches :
              \/ records'[b] = records[b]
              \/ handler[h].pc \in Stages /\ handler[h].on = b
    PROVE  \A b \in Batches : NamedBy(registry'[b], records'[b])
<1> SUFFICES ASSUME NEW b \in Batches PROVE NamedBy(registry[b], records'[b])
    OBVIOUS
<1>1. NamedBy(registry[b], records[b])
    BY DEF RecordsInv, AllNamed
<1>2. handler[h].pc \in Stages /\ handler[h].on = b => registry[b] = {}
    BY DEF RecordsInv, SafeInv, NothingYet, Quiet
<1> QED BY <1>1, <1>2 DEF NamedBy

LEMMA StartRecords ==
    ASSUME RecordsInv, SafeInv', NEW h \in Handlers, Starts(h), Quiet'
    PROVE  RecordsInv'
<1>0. TypeInv /\ batch \in [Batches -> BatchRow] /\ handler \in [Handlers -> HandlerState]
    BY DEF RecordsInv, SafeInv, TypeInv, TypeOK
<1>1. PICK s : /\ Begin(h, s)
               /\ \/ s = [Idle EXCEPT !.pc = "storing", !.copy.type = s.copy.type]
                  \/ \E b \in Batches, op \in {"validate", "commit"} :
                        /\ s = [Idle EXCEPT !.pc = "reading", !.op = op, !.on = b,
                                            !.copy = batch[b]]
                        /\ op = "commit" => batch[b].status = "VALIDATED"
    <2>1. ASSUME NEW t, Upload(h, t)
          PROVE  \E s : /\ Begin(h, s)
                        /\ s = [Idle EXCEPT !.pc = "storing", !.copy.type = s.copy.type]
        <3> DEFINE s == [Idle EXCEPT !.pc = "storing", !.copy.type = t]
        <3>1. s.copy.type = t
            BY DEF Idle, NoRow
        <3>2. Begin(h, s)
            BY <2>1 DEF Upload
        <3>3. s = [Idle EXCEPT !.pc = "storing", !.copy.type = s.copy.type]
            BY <3>1
        <3> HIDE DEF s
        <3> QED BY <3>2, <3>3
    <2>2. ASSUME NEW b \in Batches, Validate(h, b) \/ Commit(h, b)
          PROVE  \E op \in {"validate", "commit"} :
                    /\ Begin(h, [Idle EXCEPT !.pc = "reading", !.op = op, !.on = b,
                                             !.copy = batch[b]])
                    /\ op = "commit" => batch[b].status = "VALIDATED"
        <3>1. CASE Validate(h, b)
            BY <3>1 DEF Validate
        <3>2. CASE Commit(h, b)
            BY <3>2 DEF Commit
        <3> QED BY <2>2, <3>1, <3>2
    <2> QED BY <2>1, <2>2 DEF Starts
<1> DEFINE s1 == [s EXCEPT !.run = starts + 1]
<1>2. s1.pc = s.pc /\ s1.op = s.op /\ s1.on = s.on /\ s1.copy = s.copy
    <2>1. DOMAIN s = DOMAIN Idle
        BY <1>1
    <2> QED BY <1>1 DEF Idle
<1>3. /\ handler' = [handler EXCEPT ![h] = s1]
      /\ file' = file /\ batch' = batch /\ records' = records /\ registry' = registry
      /\ Free(h) /\ Quiet /\ \A g \in Handlers \ {h} : Free(g)
    BY <1>1 DEF Begin, Goto, world, tables, Quiet
<1> HIDE DEF s1
<1>4. handler'[h] = s1 /\ \A g \in Handlers \ {h} : handler'[g] = handler[g]
    BY <1>0, <1>3
<1>5. \A g \in Handlers : handler[g].pc = "idle" /\ handler[g].on = NoBatch
    <2>1. \A g \in Handlers : handler[g].pc = "idle" /\ handler[g].pc \notin Stages
        BY <1>3 DEF Free, Stages
    <2> QED BY <1>3, <2>1 DEF RecordsInv, AllSound, Sound
<1>6. Sound(s1, batch'[s1.on], records'[s1.on])
    <2>1. CASE s = [Idle EXCEPT !.pc = "storing", !.copy.type = s.copy.type]
        <3>1. s1.pc = "storing" /\ s1.on = NoBatch
            BY <1>2, <2>1 DEF Idle
        <3> QED BY <3>1 DEF Sound, Committing, Writing, Validating, Stages
    <2>2. ASSUME NEW b \in Batches, NEW op \in {"validate", "commit"},
                 s = [Idle EXCEPT !.pc = "reading", !.op = op, !.on = b, !.copy = batch[b]],
                 op = "commit" => batch[b].status = "VALIDATED"
          PROVE  Sound(s1, batch'[s1.on], records'[s1.on])
        <3>1. s1.pc = "reading" /\ s1.on = b /\ s1.op = op /\ s1.copy = batch[b]
            BY <1>2, <2>2 DEF Idle
        <3>2. op = "commit" => Ready(batch[b], records[b])
            BY <1>3, <1>5, <2>2, BatchesAssumption DEF RecordsInv, AllSettled, Resting, Settled
        <3> QED BY <1>3, <2>2, <3>1, <3>2 DEF Sound, Committing, Writing, Validating, Stages
    <2> QED BY <1>1, <2>1, <2>2
<1>7. \A b \in Batches : handler[h].on # b
    BY <1>5, BatchesAssumption
<1>8. \A b \in Batches : NamedBy(registry'[b], records'[b])
    BY <1>3 DEF RecordsInv, AllNamed
<1> QED BY <1>3, <1>4, <1>6, <1>7, <1>8, OneMoves

(* What a handler that works on a batch finds.                             *)
LEMMA AtWork ==
    ASSUME RecordsInv, NEW h \in Handlers, Quiet, handler[h].pc \in Stages
    PROVE  /\ TypeInv /\ handler[h] \in HandlerState
           /\ handler \in [Handlers -> HandlerState]
           /\ records \in [Batches -> SUBSET Record]
           /\ batch \in [Batches -> BatchRow]
           /\ handler[h].on \in Batches
           /\ \A g \in Handlers \ {h} : Free(g)
           /\ Sound(handler[h], batch[handler[h].on], records[handler[h].on])
<1>1. ~Free(h)
    BY DEF Free, Stages
<1> QED BY <1>1, OthersFree
        DEF RecordsInv, SafeInv, TypeInv, TypeOK, Numbered, AllSound

LEMMA IdleIsSound == \A row, R : Sound(Idle, row, R)
BY DEF Idle, Sound, Committing, Writing, Validating, Stages

LEMMA CreateRecords ==
    ASSUME RecordsInv, SafeInv', NEW h \in Handlers, NEW b \in Batches, Create(h, b), Quiet'
    PROVE  RecordsInv'
<1>1. /\ handler[h].pc = "storing" /\ handler' = [handler EXCEPT ![h] = Idle]
      /\ file' = file /\ records' = records /\ registry' = registry /\ Quiet
      /\ batch' = [batch EXCEPT ![b] = [status |-> "PENDING", type |-> handler[h].copy.type]]
      /\ handler \in [Handlers -> HandlerState] /\ batch \in [Batches -> BatchRow]
    BY DEF Create, At, Goto, Same, world, Quiet, RecordsInv, SafeInv, TypeInv, TypeOK
<1>2. handler'[h] = Idle /\ \A g \in Handlers \ {h} : handler'[g] = handler[g]
    BY <1>1
<1>3. /\ ~Free(h) /\ \A g \in Handlers \ {h} : Free(g)
      /\ handler[h].on = NoBatch
    <2>1. ~Free(h) /\ handler[h].pc \notin Stages
        BY <1>1 DEF Free, Stages
    <2> QED BY <1>1, <2>1, OthersFree DEF RecordsInv, AllSound, Sound
<1>4. \A c \in Batches :
        \/ batch'[c] = batch[c]
        \/ batch'[c].status = "PENDING"
    BY <1>1
<1>5. ASSUME NEW c \in Batches, batch'[c].status = "PENDING"
      PROVE  Settled(batch'[c], records'[c])
    BY <1>5 DEF Settled
<1>6. \A c \in Batches : NamedBy(registry'[c], records'[c])
    BY <1>1 DEF RecordsInv, AllNamed
<1> QED BY <1>1, <1>2, <1>3, <1>4, <1>5, <1>6, IdleIsSound, BatchesAssumption, OneMoves

(* A step of such a handler, which goes on or is done with the batch.      *)
LEMMA StageMoves ==
    ASSUME RecordsInv, SafeInv', Quiet, file' = file,
           NEW h \in Handlers, handler[h].pc \in Stages, NEW s, Goto(h, s),
           NEW row, row = batch'[handler[h].on],
           NEW R, R = records'[handler[h].on],
           \/ s.on = handler[h].on /\ Sound(s, row, R)
           \/ s = Idle /\ Settled(row, R),
           \A b \in Batches \ {handler[h].on} :
              batch'[b] = batch[b] /\ records'[b] = records[b],
           \A b \in Batches : NamedBy(registry'[b], records'[b])
    PROVE  RecordsInv'
<1>1. handler \in [Handlers -> HandlerState] /\ \A g \in Handlers \ {h} : Free(g)
    BY AtWork
<1>2. handler'[h] = s /\ \A g \in Handlers \ {h} : handler'[g] = handler[g]
    BY <1>1 DEF Goto
<1>3. Sound(s, batch'[s.on], records'[s.on])
    <2>1. CASE s.on = handler[h].on /\ Sound(s, row, R)
        BY <2>1
    <2>2. CASE s = Idle
        BY <2>2, IdleIsSound
    <2> QED BY <2>1, <2>2
<1>4. \A b \in Batches :
        \/ s.on = b
        \/ handler[h].on # b /\ batch'[b] = batch[b] /\ records'[b] = records[b]
        \/ Settled(batch'[b], records'[b])
    OBVIOUS
<1> QED BY <1>1, <1>2, <1>3, <1>4, OneMoves

LEMMA ReadRecords ==
    ASSUME RecordsInv, SafeInv', NEW h \in Handlers, Read(h), Quiet'
    PROVE  RecordsInv'
<1> DEFINE me == handler[h]
           row == batch[me.on]
           R == records[me.on]
           lost == me.on \in gone
           made == IF lost THEN {} ELSE Prepared(me.copy.type, me.run)
           replacing == [me EXCEPT !.pc = "replacing", !.made = made]
           writing == [me EXCEPT !.pc = "writing", !.made = made]
<1>1. /\ me.pc = "reading" /\ me.pc \in Stages /\ Quiet
      /\ file' = file /\ records' = records /\ registry' = registry /\ batch' = batch
    BY DEF Read, At, Stages, Same, world, tables, Quiet
<1>2. /\ TypeInv /\ me \in HandlerState /\ handler \in [Handlers -> HandlerState]
      /\ me.on \in Batches /\ \A g \in Handlers \ {h} : Free(g)
      /\ Sound(me, row, R)
    BY <1>1, AtWork
<1>3. me.wrote = {}
    BY <1>1 DEF RecordsInv, SafeInv, WellMade
<1>4. /\ me.op = "validate" => Goto(h, replacing)
      /\ me.op # "validate" => Goto(h, Idle) \/ (Goto(h, writing) /\ ~lost)
    <2> HIDE DEF replacing, writing
    <2>1. Goto(h, IF me.op = "validate" THEN replacing
                  ELSE IF lost THEN Idle ELSE writing)
        BY DEF Read, replacing, writing
    <2> QED BY <2>1
<1>5. made = {} \/ MadeAs(made, me.copy.type)
    BY <1>2, FileIsRows, PreparedMade
<1>6. ~lost => MadeAs(made, me.copy.type)
    BY <1>2, FileIsRows, PreparedMade
<1> HIDE DEF made, lost
<1>7. PICK s : /\ Goto(h, s)
               /\ \/ s.on = me.on /\ Sound(s, row, R)
                  \/ s = Idle /\ Settled(row, R)
    <2>1. CASE me.op = "validate"
        <3>1. /\ replacing.pc = "replacing" /\ replacing.op = "validate"
              /\ replacing.on = me.on /\ replacing.copy = me.copy /\ replacing.made = made
            BY <1>2, <2>1 DEF HandlerState
        <3> HIDE DEF replacing
        <3>2. Sound(replacing, row, R)
            BY <1>1, <1>2, <1>5, <3>1 DEF Sound, Committing, Writing, Validating, Stages
        <3> QED BY <1>4, <2>1, <3>1, <3>2
    <2>2. CASE me.op # "validate"
        <3>1. me.op = "commit" /\ row.status = "VALIDATED" /\ Ready(row, R)
            BY <1>1, <1>2, <2>2 DEF Sound, Committing
        <3>2. CASE Goto(h, Idle)
            BY <3>1, <3>2, IdleIsSound DEF Settled
        <3>3. CASE Goto(h, writing) /\ ~lost
            <4>1. /\ writing.pc = "writing" /\ writing.op = "commit" /\ writing.wrote = {}
                  /\ writing.on = me.on /\ writing.copy = me.copy /\ writing.made = made
                BY <1>2, <1>3, <3>1 DEF HandlerState
            <4> HIDE DEF writing
            <4>2. Sound(writing, row, R)
                BY <1>1, <1>2, <1>6, <3>1, <3>3, <4>1
                   DEF Sound, Committing, Writing, Validating, Stages
            <4> QED BY <3>3, <4>1, <4>2
        <3> QED BY <1>4, <2>2, <3>2, <3>3
    <2> QED BY <2>1, <2>2
<1>8. \A b \in Batches : NamedBy(registry'[b], records'[b])
    BY <1>1 DEF RecordsInv, AllNamed
<1>9. row = batch'[me.on] /\ R = records'[me.on]
    BY <1>1
<1> HIDE DEF me, row, R
<1>10. /\ file' = file /\ me = handler[h] /\ Quiet /\ me.pc \in Stages
       /\ \A b \in Batches \ {me.on} : batch'[b] = batch[b] /\ records'[b] = records[b]
    BY <1>1 DEF me
<1> QED BY <1>7, <1>8, <1>9, <1>10, StageMoves

LEMMA ValidateRecords ==
    ASSUME RecordsInv, SafeInv', NEW h \in Handlers, Replace(h) \/ List(h), Quiet'
    PROVE  RecordsInv'
<1> DEFINE me == handler[h]
           row == batch[me.on]
           marking == [me EXCEPT !.pc = "marking"]
           listing == [me EXCEPT !.pc = "listing"]
<1>1. /\ me.pc \in {"replacing", "listing"} /\ me.pc \in Stages /\ Quiet
      /\ file' = file /\ registry' = registry /\ batch' = batch
    BY DEF Replace, List, At, Stages, Same, world, Quiet
<1>2. /\ me \in HandlerState /\ records \in [Batches -> SUBSET Record]
      /\ me.on \in Batches /\ Sound(me, row, records[me.on])
    BY <1>1, AtWork
<1>3. /\ me.op = "validate"
      /\ me.made = {} \/ MadeAs(me.made, me.copy.type)
      /\ me.copy.type = row.type
    BY <1>1, <1>2 DEF Sound, Validating
<1>4. /\ marking.pc = "marking" /\ marking.on = me.on /\ marking.op = me.op
      /\ marking.made = me.made /\ marking.copy = me.copy
      /\ listing.pc = "listing" /\ listing.on = me.on /\ listing.op = me.op
      /\ listing.made = me.made /\ listing.copy = me.copy
    BY <1>2 DEF HandlerState
<1>5. \/ /\ Goto(h, marking) /\ records' = [records EXCEPT ![me.on] = me.made]
      \/ /\ Goto(h, listing) /\ records' = [records EXCEPT ![me.on] = {}]
    <2>1. CASE Replace(h)
        BY <2>1 DEF Replace, GoOn
    <2>2. CASE List(h)
        <3>1. records[me.on] = {}
            BY <1>2, <2>2 DEF List, At, Sound, Validating
        <3> QED BY <1>2, <2>2, <3>1 DEF List, GoOn
    <2> QED BY <2>1, <2>2
<1> HIDE DEF marking, listing
<1>6. PICK s : /\ Goto(h, s) /\ s.on = me.on
               /\ Sound(s, row, records'[me.on])
    <2>1. CASE Goto(h, marking) /\ records' = [records EXCEPT ![me.on] = me.made]
        <3>1. Sound(marking, row, me.made)
            BY <1>3, <1>4 DEF Sound, Committing, Writing, Validating, Stages
        <3> QED BY <1>2, <1>4, <2>1, <3>1
    <2>2. CASE Goto(h, listing) /\ records' = [records EXCEPT ![me.on] = {}]
        <3>1. Sound(listing, row, {})
            BY <1>3, <1>4 DEF Sound, Committing, Writing, Validating, Stages
        <3> QED BY <1>2, <1>4, <2>2, <3>1
    <2> QED BY <1>5, <2>1, <2>2
<1>7. \A b \in Batches \ {me.on} : batch'[b] = batch[b] /\ records'[b] = records[b]
    BY <1>1, <1>2, <1>5
<1>8. \A b \in Batches : NamedBy(registry'[b], records'[b])
    BY <1>1, <1>7, StillNamed
<1>9. row = batch'[me.on] /\ me.pc \in Stages
    BY <1>1
<1> HIDE DEF row
<1> QED BY <1>1, <1>6, <1>7, <1>8, <1>9, StageMoves

LEMMA MarkRecords ==
    ASSUME RecordsInv, SafeInv', NEW h \in Handlers, Mark(h), Quiet'
    PROVE  RecordsInv'
<1> DEFINE me == handler[h]
           R == records[me.on]
           verdict == IF AllValid(me.made) THEN "VALIDATED" ELSE "FAILED"
           row == [batch[me.on] EXCEPT !.status = verdict]
           typing == [me EXCEPT !.pc = "typing"]
<1>1. /\ me.pc = "marking" /\ me.pc \in Stages /\ Quiet
      /\ file' = file /\ registry' = registry /\ records' = records
      /\ batch' = [batch EXCEPT ![me.on].status = verdict]
      /\ Goto(h, IF Infers(me.copy.type, me.made) THEN typing ELSE Idle)
    BY DEF Mark, At, Stages, Same, world, Quiet
<1>2. /\ me \in HandlerState /\ batch \in [Batches -> BatchRow]
      /\ me.on \in Batches /\ Sound(me, batch[me.on], R)
    BY <1>1, AtWork
<1>3. /\ me.op = "validate"
      /\ me.made = {} \/ MadeAs(me.made, me.copy.type)
      /\ me.copy.type = batch[me.on].type /\ R = me.made
    BY <1>1, <1>2 DEF Sound, Validating
<1>4. /\ typing.pc = "typing" /\ typing.on = me.on /\ typing.op = me.op
      /\ typing.made = me.made /\ typing.copy = me.copy
    BY <1>2 DEF HandlerState
<1>5. row.status = verdict /\ row.type = batch[me.on].type
    BY <1>2 DEF BatchRow
<1>6. /\ batch' = [batch EXCEPT ![me.on] = row]
    BY <1>1
<1> HIDE DEF typing, row
<1>7. PICK s : /\ Goto(h, s)
               /\ \/ s.on = me.on /\ Sound(s, row, R)
                  \/ s = Idle /\ Settled(row, R)
    <2>1. CASE Infers(me.copy.type, me.made)
        <3>1. Sound(typing, row, R)
            BY <1>3, <1>4, <1>5, <2>1 DEF Sound, Committing, Writing, Validating, Stages
        <3> QED BY <1>1, <1>4, <2>1, <3>1
    <2>2. CASE ~Infers(me.copy.type, me.made)
        <3>1. ASSUME AllValid(me.made) PROVE Ready(row, R)
            BY <1>3, <1>5, <3>1 DEF AllValid, Ready, Accepted, MadeAs
        <3>2. Settled(row, R)
            BY <1>5, <3>1 DEF Settled
        <3> QED BY <1>1, <2>2, <3>2
    <2> QED BY <2>1, <2>2
<1>8. \A b \in Batches : NamedBy(registry'[b], records'[b])
    BY <1>1 DEF RecordsInv, AllNamed
<1>9. /\ row = batch'[me.on] /\ R = records'[me.on]
      /\ \A b \in Batches \ {me.on} : batch'[b] = batch[b] /\ records'[b] = records[b]
    BY <1>1, <1>2, <1>6
<1> QED BY <1>1, <1>7, <1>8, <1>9, StageMoves

LEMMA GiveTypeRecords ==
    ASSUME RecordsInv, SafeInv', NEW h \in Handlers, GiveType(h), Quiet'
    PROVE  RecordsInv'
<1> DEFINE me == handler[h]
           R == records[me.on]
<1>1. /\ me.pc = "typing" /\ me.pc \in Stages /\ Quiet
      /\ file' = file /\ registry' = registry /\ records' = records
      /\ Goto(h, Idle)
    BY DEF GiveType, At, Stages, Same, world, Quiet
<1>2. PICK t \in TypesIn(me.made) : batch' = [batch EXCEPT ![me.on].type = t]
    BY DEF GiveType
<1>3. /\ TypeInv /\ me \in HandlerState /\ batch \in [Batches -> BatchRow]
      /\ me.on \in Batches /\ Sound(me, batch[me.on], R)
    BY <1>1, AtWork
<1>4. /\ me.made = {} \/ MadeAs(me.made, me.copy.type)
      /\ Infers(me.copy.type, me.made) /\ R = me.made
      /\ batch[me.on].status \in {"VALIDATED", "FAILED"}
      /\ batch[me.on].status = "VALIDATED" => AllValid(me.made)
    BY <1>1, <1>3 DEF Sound, Validating
<1> DEFINE row == [batch[me.on] EXCEPT !.type = t]
<1>5. row.status = batch[me.on].status /\ row.type = t
    BY <1>3 DEF BatchRow
<1>6. batch' = [batch EXCEPT ![me.on] = row]
    BY <1>2
<1> HIDE DEF row
<1>7. ASSUME row.status = "VALIDATED" PROVE Ready(row, R)
    <2>1. MadeAs(R, me.copy.type) /\ \A r \in R : r.valid
        BY <1>4, <1>5, <1>7 DEF AllValid
    <2>2. BlocksOf(me.copy.type) = BlocksOf(t)
        <3>1. me.copy.type \in Names /\ file \in Seq(Row)
            BY <1>3, FileIsRows DEF HandlerState, BatchRow
        <3> QED BY <1>4, <2>1, <3>1, InferredSame
    <2> QED BY <1>5, <2>1, <2>2 DEF Ready, Accepted, MadeAs
<1>8. Settled(row, R)
    BY <1>4, <1>5, <1>7 DEF Settled
<1>9. \A b \in Batches : NamedBy(registry'[b], records'[b])
    BY <1>1 DEF RecordsInv, AllNamed
<1>10. /\ row = batch'[me.on] /\ R = records'[me.on]
       /\ \A b \in Batches \ {me.on} : batch'[b] = batch[b] /\ records'[b] = records[b]
    BY <1>1, <1>3, <1>6
<1> QED BY <1>1, <1>8, <1>9, <1>10, StageMoves

LEMMA WriteRecords ==
    ASSUME RecordsInv, SafeInv', NEW h \in Handlers, WriteRow(h) \/ RefuseRow(h), Quiet'
    PROVE  RecordsInv'
<1> DEFINE me == handler[h]
           row == batch[me.on]
           R == records[me.on]
<1>1. /\ me.pc = "writing" /\ me.pc \in Stages /\ Quiet
      /\ file' = file /\ registry' = registry /\ records' = records /\ batch' = batch
    <2>1. CASE WriteRow(h)
        <3>1. me.pc = "writing" /\ Same /\ UNCHANGED tables
            BY <2>1 DEF WriteRow, At
        <3> QED BY <3>1 DEF Stages, Same, world, tables, Quiet
    <2>2. CASE RefuseRow(h)
        BY <2>2 DEF RefuseRow, At, Stages, Same, world, tables, Quiet
    <2> QED BY <2>1, <2>2
<1>2. me \in HandlerState /\ me.on \in Batches /\ Sound(me, row, R)
    BY <1>1, AtWork
<1>3. /\ me.op = "commit" /\ row.status = "VALIDATED" /\ Ready(row, R)
      /\ me.copy.type = row.type /\ MadeAs(me.made, me.copy.type)
      /\ \A r \in me.wrote : Found(R, r) \subseteq me.links
    BY <1>1, <1>2 DEF Sound, Committing, Writing
<1>4. PICK s : /\ Goto(h, s)
               /\ \/ s.on = me.on /\ Sound(s, row, R)
                  \/ s = Idle /\ Settled(row, R)
    <2>1. CASE WriteRow(h)
        <3>1. PICK r : Goto(h, [me EXCEPT !.wrote = @ \cup {r}, !.links = @ \cup Found(R, r)])
            BY <2>1 DEF WriteRow, RecordsOf, Found
        <3> DEFINE s == [me EXCEPT !.wrote = @ \cup {r}, !.links = @ \cup Found(R, r)]
        <3>2. /\ s.pc = "writing" /\ s.on = me.on /\ s.op = "commit" /\ s.made = me.made
              /\ s.copy = me.copy /\ s.wrote = me.wrote \cup {r}
              /\ s.links = me.links \cup Found(R, r)
            BY <1>1, <1>2, <1>3 DEF HandlerState
        <3>a. Goto(h, s)
            BY <3>1
        <3> HIDE DEF s
        <3>3. \A q \in s.wrote : Found(R, q) \subseteq s.links
            BY <1>3, <3>2
        <3>4. Sound(s, row, R)
            BY <1>3, <3>2, <3>3 DEF Sound, Committing, Writing, Validating, Stages
        <3> QED BY <3>2, <3>4, <3>a
    <2>2. CASE RefuseRow(h)
        <3>1. Settled(row, R)
            BY <1>3 DEF Settled
        <3>2. Goto(h, Idle)
            BY <2>2 DEF RefuseRow
        <3> QED BY <3>1, <3>2
    <2> QED BY <2>1, <2>2
<1>5. \A b \in Batches : NamedBy(registry'[b], records'[b])
    BY <1>1 DEF RecordsInv, AllNamed
<1>6. /\ row = batch'[me.on] /\ R = records'[me.on]
      /\ \A b \in Batches \ {me.on} : batch'[b] = batch[b] /\ records'[b] = records[b]
    BY <1>1
<1> HIDE DEF row, R
<1> QED BY <1>1, <1>4, <1>5, <1>6, StageMoves

(* The records that name their rows keep what was accepted of them; and    *)
(* each row that the commit writes is that of a record it found.           *)
Linked(R, links, run) ==
    {IF r \in links THEN [r EXCEPT !.target = run] ELSE r : r \in R}
FiledRows(S, run) == {[rows |-> r.rows, run |-> run] : r \in S}

LEMMA LinkedAre ==
    ASSUME NEW R \in SUBSET Record, NEW S \in SUBSET Record, NEW t, NEW run \in 0..MaxStarts,
           NEW links, Accepted(R), MadeAs(R, t), MadeAs(S, t),
           \A r \in S : Found(R, r) \subseteq links
    PROVE  /\ Accepted(Linked(R, links, run))
           /\ NamedBy(FiledRows(S, run), Linked(R, links, run))
<1> DEFINE named(r) == IF r \in links THEN [r EXCEPT !.target = run] ELSE r
           linked == {named(r) : r \in R}
           filed == {[rows |-> r.rows, run |-> run] : r \in S}
<1>1. \A r \in R : /\ named(r).rows = r.rows /\ named(r).valid = r.valid
                   /\ r \in links => named(r).target = run
    BY DEF Record
<1>2. \A x \in filed : \E r \in S : x.rows = r.rows /\ x.run = run
    OBVIOUS
<1> HIDE DEF named, filed
<1>3. Accepted(linked)
    <2>1. \A i \in 1..Len(file) : \E r \in linked : i \in r.rows
        BY <1>1 DEF Accepted, Parted
    <2>2. ASSUME NEW q \in linked, NEW r \in linked, q.rows \cap r.rows # {}
          PROVE  q = r
        <3>1. PICK q1 \in R, r1 \in R : q = named(q1) /\ r = named(r1)
            OBVIOUS
        <3>2. q1 = r1
            BY <1>1, <2>2, <3>1 DEF Accepted, Parted
        <3> QED BY <3>1, <3>2
    <2>3. \A r \in linked : r.rows # {} /\ r.valid
        BY <1>1 DEF Accepted, Parted
    <2> QED BY <2>1, <2>2, <2>3 DEF Accepted, Parted
<1>4. ASSUME NEW x \in filed
      PROVE  \E r \in linked : r.rows = x.rows /\ r.target = x.run
                /\ \A q \in linked : q.rows = x.rows => q = r
    <2>1. PICK r \in S : x.rows = r.rows /\ x.run = run
        BY <1>2
    <2>2. PICK p \in BlocksOf(t) : p.rows = r.rows /\ p.type = r.type
        BY DEF MadeAs
    <2>3. PICK q \in R : q.rows = r.rows /\ q.type = r.type
        BY <2>2 DEF MadeAs
    <2>4. FirstRow(q) = FirstRow(r)
        BY <2>3 DEF FirstRow
    <2>5. q \in links
        BY <2>3, <2>4 DEF Found
    <2>6. named(q) \in linked /\ named(q).rows = x.rows /\ named(q).target = x.run
        BY <1>1, <2>1, <2>3, <2>5
    <2>7. named(q).rows # {}
        BY <1>1 DEF Accepted, Parted
    <2> HIDE DEF linked
    <2>8. \A z \in linked : z.rows = x.rows => z = named(q)
        BY <1>3, <2>6, <2>7 DEF Accepted, Parted
    <2> QED BY <2>6, <2>8
<1>5. NamedBy(filed, linked)
    <2> HIDE DEF linked
    <2> QED BY <1>4 DEF NamedBy
<1> QED BY <1>3, <1>5 DEF named, filed, Linked, FiledRows

LEMMA CommitRecords ==
    ASSUME RecordsInv, SafeInv', NEW h \in Handlers, CommitRows(h), Quiet'
    PROVE  RecordsInv'
<1> DEFINE me == handler[h]
           b0 == me.on
           row == [batch[b0] EXCEPT !.status = "IMPORTED"]
           R == Linked(records[b0], me.links, me.run)
           filed == FiledRows(me.wrote, me.run)
<1>1. /\ me.pc = "writing" /\ me.pc \in Stages /\ Quiet /\ Goto(h, Idle)
      /\ file' = file
      /\ registry' = [registry EXCEPT ![b0] = @ \cup filed]
      /\ records' = [records EXCEPT ![b0] = R]
      /\ batch' = [batch EXCEPT ![b0] = row]
    BY DEF CommitRows, At, Stages, Same, world, Quiet, Linked, FiledRows
<1>2. /\ TypeInv /\ me \in HandlerState /\ b0 \in Batches
      /\ batch \in [Batches -> BatchRow] /\ records \in [Batches -> SUBSET Record]
      /\ registry \in [Batches -> SUBSET Filed]
      /\ Sound(me, batch[b0], records[b0])
    BY <1>1, AtWork DEF TypeInv, TypeOK
<1>3. /\ Ready(batch[b0], records[b0])
      /\ me.copy.type = batch[b0].type /\ MadeAs(me.made, me.copy.type)
      /\ \A r \in me.wrote : Found(records[b0], r) \subseteq me.links
    BY <1>1, <1>2 DEF Sound, Committing, Writing
<1>4. me.wrote = me.made
    BY <1>1 DEF CommitRows, Unwritten, RecordsInv, SafeInv, WellMade
<1>5. registry[b0] = {}
    BY <1>1 DEF RecordsInv, SafeInv, NothingYet, Quiet
<1>6. Accepted(R) /\ NamedBy(filed, R)
    <2>1. /\ records[b0] \in SUBSET Record /\ me.wrote \in SUBSET Record
          /\ me.run \in 0..MaxStarts
        BY <1>2 DEF HandlerState
    <2>2. Accepted(records[b0]) /\ MadeAs(records[b0], me.copy.type)
        BY <1>3 DEF Ready
    <2>3. MadeAs(me.wrote, me.copy.type)
        BY <1>3, <1>4
    <2> QED BY <1>3, <2>1, <2>2, <2>3, LinkedAre
<1>7. row.status = "IMPORTED"
    BY <1>2 DEF BatchRow
<1> HIDE DEF row, R, filed
<1>8. Settled(row, R)
    BY <1>6, <1>7 DEF Settled
<1>9. /\ row = batch'[b0] /\ R = records'[b0] /\ registry'[b0] = filed
      /\ \A b \in Batches \ {b0} : /\ batch'[b] = batch[b] /\ records'[b] = records[b]
                                   /\ registry'[b] = registry[b]
    BY <1>1, <1>2, <1>5
<1>10. \A b \in Batches : NamedBy(registry'[b], records'[b])
    <2>1. \A b \in Batches : NamedBy(registry[b], records[b])
        BY <1>1 DEF RecordsInv, AllNamed
    <2> QED BY <1>6, <1>9, <2>1
<1> QED BY <1>1, <1>8, <1>9, <1>10, StageMoves

LEMMA RecordsStep == RecordsInv /\ [Next]_vars => RecordsInv'
<1> SUFFICES ASSUME RecordsInv, [Next]_vars PROVE RecordsInv'
    OBVIOUS
<1>1. SafeInv'
    BY SafeStep DEF RecordsInv
<1>2. CASE ~Quiet'
    BY <1>1, <1>2 DEF RecordsInv
<1>3. CASE World \/ UNCHANGED vars
    <2>1. UNCHANGED <<file, tables, handler, overlapped, kills>>
        BY <1>3 DEF World, VerdictChanges, BytesLost, Changes, vars, world
    <2>2. AllSound' <=> AllSound
        BY <2>1, BytesKeep DEF AllSound, tables
    <2>3. AllSettled' <=> AllSettled
        BY <2>1, BytesKeep DEF AllSettled, Resting, tables
    <2>4. (AllNamed' <=> AllNamed) /\ (Quiet' <=> Quiet)
        BY <2>1 DEF AllNamed, NamedBy, tables, Quiet
    <2> QED BY <1>1, <2>2, <2>3, <2>4 DEF RecordsInv
<1>4. ASSUME NEW h \in Handlers, Works(h), Quiet' PROVE RecordsInv'
    <2>1. CASE Kill(h)
        <3>1. kills' = kills + 1 /\ kills \in Nat
            BY <2>1 DEF Kill, RecordsInv, SafeInv, TypeInv, TypeOK
        <3> QED BY <1>4, <3>1 DEF Quiet
    <2> QED BY <1>1, <1>4, <2>1, CreateRecords, ReadRecords, ValidateRecords,
               MarkRecords, GiveTypeRecords, WriteRecords, CommitRecords DEF Works
<1>5. ASSUME NEW h \in Handlers, Starts(h), Quiet' PROVE RecordsInv'
    BY <1>1, <1>5, StartRecords
<1> QED BY <1>2, <1>3, <1>4, <1>5, NextIs

LEMMA RecordsInit == Init => RecordsInv
<1> SUFFICES ASSUME Init PROVE RecordsInv
    OBVIOUS
<1>1. /\ \A b \in Batches : batch[b] = NoRow /\ registry[b] = {}
      /\ \A h \in Handlers : handler[h] = Idle
    BY DEF Init
<1>2. AllSound /\ AllNamed
    BY <1>1, IdleIsSound DEF AllSound, AllNamed, NamedBy
<1>3. AllSettled
    BY <1>1 DEF AllSettled, Settled, NoRow
<1> QED BY <1>2, <1>3, SafeInit DEF RecordsInv

(* As long as no two handlers worked at the same time and nobody was       *)
(* killed, a VALIDATED or IMPORTED batch that nobody works on has accepted *)
(* records that account for each row of its file once.                     *)
THEOREM ValidatedBatchesAreComplete == Spec => []ValidatedIsComplete
<1>1. RecordsInv => ValidatedIsComplete
    <2> SUFFICES ASSUME RecordsInv, Quiet, NEW b \in Batches, Resting(b),
                        batch[b].status \in {"VALIDATED", "IMPORTED"}
                 PROVE  /\ \A r \in records[b] : r.valid
                        /\ \A i \in 1..Len(file) :
                              Cardinality({r \in records[b] : i \in r.rows}) = 1
        BY DEF ValidatedIsComplete, Quiet
    <2>1. Accepted(records[b])
        BY DEF RecordsInv, AllSettled, Settled, Ready
    <2> QED BY <2>1, PartedOnce DEF Accepted
<1> QED BY RecordsInit, RecordsStep, <1>1, PTL DEF Spec

(* And every registry row is named by the one record it came from.         *)
THEOREM RowsAreNamed == Spec => []RecordsNameTheirRows
<1>1. RecordsInv => RecordsNameTheirRows
    BY DEF RecordsInv, AllNamed, NamedBy, RecordsNameTheirRows, Quiet
<1> QED BY RecordsInit, RecordsStep, <1>1, PTL DEF Spec

(* Every file is grouped as the import promises: into one block per        *)
(* element of the grouped type, and a row is dropped only if it is         *)
(* incomplete or resumes a block that another record interrupted.          *)
THEOREM FilesAreGrouped == Spec => []GroupsAreBlocks
<1>1. TypeInv => GroupsAreBlocks
    BY FileIsRows, GroupingIsRight DEF GroupsAreBlocks
<1> QED BY TypeInit, TypeStep, <1>1, PTL DEF Spec

(* The two statements of the grouping rule, ImportService._group and       *)
(* group_upv_rows, do not drift: on complete rows of the grouped type they *)
(* make the same groups or both refuse.                                    *)
THEOREM PathsDoNotDrift == Spec => []PathsAgree
<1>1. TypeInv => PathsAgree
    <2> SUFFICES ASSUME TypeInv, NEW t \in Grouped,
                        \A i \in 1..Len(file) : t \in file[i].complete /\ file[i].type = t
                 PROVE  LET g == Group(file, t)  u == GroupUpv(file) IN
                        /\ u.error <=> g.dropped # {}
                        /\ ~u.error => u.groups = g.groups
        BY DEF PathsAgree
    <2>1. Agree(t, Group(file, t), GroupUpv(file))
        BY FileIsRows, PathsGroupAlike
    <2> QED BY <2>1 DEF Agree
<1> QED BY TypeInit, TypeStep, <1>1, PTL DEF Spec
=============================================================================
