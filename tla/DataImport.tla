----------------------------- MODULE DataImport -----------------------------
(***************************************************************************)
(* Manual import (apps/data_import/services.py): a file is uploaded as a   *)
(* batch, validated, which writes its records and a verdict, and committed,*)
(* which writes the registry rows and the batch's status in one            *)
(* transaction.                                                            *)
(*                                                                         *)
(* A handler decides on the copy of the batch that it fetched; handlers    *)
(* interleave between its statements and may be killed there.  Whether a   *)
(* row passes its builder and serializer depends on the rest of the        *)
(* database (references to scan sessions and inspections, the rules of the *)
(* serializer) and may change at any time, and stored bytes may be lost.   *)
(*                                                                         *)
(* All batches here are uploads of the same bytes by one inspector for one *)
(* project: uploads of other bytes never meet.                             *)
(***************************************************************************)
EXTENDS ImportGrouping

CONSTANTS
    Files,          \* files there are, sequences of rows
    Batches,        \* batch ids the database may hand out
    Handlers,       \* server processes
    MaxStarts,      \* bound: how often a handler starts on something
    MaxKills,       \* bound: how many handlers are killed, or fail
    MaxChanges,     \* bound: changes of a row's verdict and losses of bytes
    NoBatch

ASSUME FilesAssumption == \A f \in Files : f \in Seq(Row)
ASSUME BatchesAssumption == NoBatch \notin Batches
ASSUME BoundsAssumption == {MaxStarts, MaxKills, MaxChanges} \subseteq Nat

VARIABLES
    file,           \* the bytes that are uploaded, as rows
    refused,        \* rows that would not pass builder and serializer now
    gone,           \* batches whose stored bytes are lost
    batch,          \* ImportBatch rows
    records,        \* ImportRecord rows of each batch
    registry,       \* registry rows written from each batch
    handler,        \* what each handler is doing
    overlapped,     \* two handlers have been at work at the same time
    starts, kills, changes

tables == <<batch, records, registry>>
world == <<file, refused, gone, changes>>
vars == <<world, tables, handler, overlapped, starts, kills>>

(* What _prepare makes a record of: a group, or a dropped row.             *)
BlocksOf(type) ==
    {[rows |-> g.rows, type |-> g.type, kept |-> TRUE] : g \in GroupSet(file, type)}
    \cup {[rows |-> {i}, type |-> RowType(file[i], type), kept |-> FALSE] :
              i \in Group(file, type).dropped}
Blocks == UNION {BlocksOf(t) : t \in Names}

(* A run is the number of the start that wrote something.  A record names  *)
(* the run whose registry row it became, 0 for none.                       *)
Run == 1..MaxStarts
Record == [rows : {p.rows : p \in Blocks}, type : {p.type : p \in Blocks},
           valid : BOOLEAN, run : Run, target : 0..MaxStarts]
Filed == [rows : {p.rows : p \in Blocks}, run : Run]
BatchRow == [status : {"NONE", "PENDING", "VALIDATED", "IMPORTED", "FAILED"},
             type : Names]
NoRow == [status |-> "NONE", type |-> NoType]

Idle == [pc |-> "idle", op |-> "upload", on |-> NoBatch, copy |-> NoRow,
         run |-> 0, made |-> {}, wrote |-> {}, links |-> {}]
HandlerState ==
    [pc : {"idle", "storing", "reading", "replacing", "listing", "marking",
           "typing", "writing"},
     op : {"upload", "validate", "commit"}, on : Batches \cup {NoBatch},
     copy : BatchRow, run : 0..MaxStarts, made : SUBSET Record,
     wrote : SUBSET Record, links : SUBSET Record]

TypeOK ==
    /\ file \in Files
    /\ refused \subseteq 1..Len(file)
    /\ gone \subseteq Batches
    /\ batch \in [Batches -> BatchRow]
    /\ records \in [Batches -> SUBSET Record]
    /\ registry \in [Batches -> SUBSET Filed]
    /\ handler \in [Handlers -> HandlerState]
    /\ overlapped \in BOOLEAN
    /\ {starts, kills, changes} \subseteq Nat

Init ==
    /\ file \in Files
    /\ refused = {}
    /\ gone = {}
    /\ batch = [b \in Batches |-> NoRow]
    /\ records = [b \in Batches |-> {}]
    /\ registry = [b \in Batches |-> {}]
    /\ handler = [h \in Handlers |-> Idle]
    /\ overlapped = FALSE
    /\ starts = 0 /\ kills = 0 /\ changes = 0

Free(h) == handler[h].pc = "idle"
At(h, pc) == handler[h].pc = pc
Goto(h, state) == handler' = [handler EXCEPT ![h] = state]
GoOn(h, pc) == Goto(h, [handler[h] EXCEPT !.pc = pc])
Same == UNCHANGED <<world, overlapped, starts, kills>>

Begin(h, state) ==
    /\ Free(h)
    /\ starts < MaxStarts
    /\ starts' = starts + 1
    /\ Goto(h, [state EXCEPT !.run = starts + 1])
    /\ overlapped' = (overlapped \/ \E g \in Handlers \ {h} : ~Free(g))
    /\ UNCHANGED <<world, tables, kills>>

----------------------------------------------------------------------------
(***************************************************************************)
(* POST import/upload/: the bytes are answered with the batch that awaits  *)
(* a result on them, if there is one; else stored, and a batch created.    *)
(***************************************************************************)
Awaiting(type) ==
    {b \in Batches : batch[b].status \in {"PENDING", "FAILED"} /\ batch[b].type = type}

Upload(h, type) ==
    /\ Awaiting(type) = {}
    /\ Begin(h, [Idle EXCEPT !.pc = "storing", !.copy.type = type])

Create(h, b) ==
    /\ At(h, "storing")
    /\ batch[b].status = "NONE"
    /\ batch' = [batch EXCEPT ![b] =
                    [status |-> "PENDING", type |-> handler[h].copy.type]]
    /\ Goto(h, Idle)
    /\ Same /\ UNCHANGED <<records, registry>>

----------------------------------------------------------------------------
(* mutant of Prepared: a dropped row leaves no record *)
PreparedForgets(type, run) ==
    {[rows |-> p.rows, type |-> p.type, valid |-> p.rows \cap refused = {},
      run |-> run, target |-> 0] : p \in {q \in BlocksOf(type) : q.kept}}

(* The records, and which of them builder and serializer accept.           *)
Prepared(type, run) ==
    {[rows |-> p.rows, type |-> p.type,
      valid |-> p.kept /\ p.rows \cap refused = {}, run |-> run, target |-> 0] :
          p \in BlocksOf(type)}

(* The bytes are read back from storage.  Validation of a file that cannot *)
(* be read finds no records; its commit is refused.                        *)
Read(h) ==
    LET me == handler[h]
        lost == me.on \in gone
        made == IF lost THEN {} ELSE Prepared(me.copy.type, me.run)
    IN
    /\ At(h, "reading")
    /\ Goto(h, IF me.op = "validate"
               THEN [me EXCEPT !.pc = "replacing", !.made = made]
               ELSE IF lost THEN Idle
               ELSE [me EXCEPT !.pc = "writing", !.made = made])
    /\ Same /\ UNCHANGED tables

----------------------------------------------------------------------------
(***************************************************************************)
(* POST import/<id>/validate/.                                             *)
(***************************************************************************)
(* mutant of Validatable: an imported batch is validated again *)
ValidatableAlways(b) == batch[b].status # "NONE"

Validatable(b) == batch[b].status \notin {"NONE", "IMPORTED"}

Validate(h, b) ==
    /\ Validatable(b)
    /\ Begin(h, [Idle EXCEPT !.pc = "reading", !.op = "validate", !.on = b,
                             !.copy = batch[b]])

(* A record that a commit has updated and not yet committed is locked.     *)
Locked(h, R) == \E g \in Handlers \ {h} : handler[g].links \cap R # {}

Replace(h) ==
    LET b == handler[h].on IN
    /\ At(h, "replacing")
    /\ ~Locked(h, records[b])
    /\ records' = [records EXCEPT ![b] = {}]
    /\ GoOn(h, IF handler[h].made = {} THEN "marking" ELSE "listing")
    /\ Same /\ UNCHANGED <<batch, registry>>

List(h) ==
    /\ At(h, "listing")
    /\ records' = [records EXCEPT ![handler[h].on] = @ \cup handler[h].made]
    /\ GoOn(h, "marking")
    /\ Same /\ UNCHANGED <<batch, registry>>

AllValid(R) == R # {} /\ \A r \in R : r.valid

TypesIn(R) == {t \in Names \ {NoType} : \E r \in R : r.type = t}

(* A file of one type gives its type to the batch.                         *)
Infers(type, R) == type = NoType /\ Cardinality(TypesIn(R)) = 1

Mark(h) ==
    LET me == handler[h] IN
    /\ At(h, "marking")
    /\ batch' = [batch EXCEPT ![me.on].status =
                    IF AllValid(me.made) THEN "VALIDATED" ELSE "FAILED"]
    /\ Goto(h, IF Infers(me.copy.type, me.made) THEN [me EXCEPT !.pc = "typing"]
               ELSE Idle)
    /\ Same /\ UNCHANGED <<records, registry>>

GiveType(h) ==
    LET me == handler[h] IN
    /\ At(h, "typing")
    /\ \E t \in TypesIn(me.made) : batch' = [batch EXCEPT ![me.on].type = t]
    /\ Goto(h, Idle)
    /\ Same /\ UNCHANGED <<records, registry>>

----------------------------------------------------------------------------
(***************************************************************************)
(* POST import/<id>/commit/.                                               *)
(***************************************************************************)
Commit(h, b) ==
    /\ batch[b].status = "VALIDATED"
    /\ Begin(h, [Idle EXCEPT !.pc = "reading", !.op = "commit", !.on = b,
                             !.copy = batch[b]])

Unwritten(h) == handler[h].made \ handler[h].wrote
FirstRow(r) == CHOOSE i \in r.rows : \A j \in r.rows : i <= j
IsNext(h, r) == \A q \in Unwritten(h) : FirstRow(r) <= FirstRow(q)

(* The ImportRecords that an update by row number and type finds.          *)
RecordsOf(b, r) ==
    {q \in records[b] : q.type = r.type /\ FirstRow(q) = FirstRow(r)}

StillPasses(r) == r.valid /\ r.rows \cap refused = {}

(* mutant of WriteRow: outside of a transaction *)
WriteRowAtOnce(h) == \E r \in Unwritten(h) :
    LET me == handler[h] IN
    /\ At(h, "writing") /\ IsNext(h, r)
    /\ StillPasses(r)
    /\ Goto(h, [me EXCEPT !.wrote = @ \cup {r}])
    /\ registry' = [registry EXCEPT ![me.on] = @ \cup {[rows |-> r.rows, run |-> me.run]}]
    /\ Same /\ UNCHANGED <<batch, records>>

(* In the transaction: the registry row, and the record that names it.     *)
WriteRow(h) == \E r \in Unwritten(h) :
    LET me == handler[h]  found == RecordsOf(me.on, r) IN
    /\ At(h, "writing") /\ IsNext(h, r)
    /\ StillPasses(r)
    /\ ~Locked(h, found)
    /\ Goto(h, [me EXCEPT !.wrote = @ \cup {r}, !.links = @ \cup found])
    /\ Same /\ UNCHANGED tables

(* Refused with 409: the transaction is rolled back.                       *)
RefuseRow(h) == \E r \in Unwritten(h) :
    /\ At(h, "writing") /\ IsNext(h, r)
    /\ ~StillPasses(r)
    /\ Goto(h, Idle)
    /\ Same /\ UNCHANGED tables

(* mutant of CommitRows: the records are not told *)
CommitRowsUnlinked(h) ==
    LET me == handler[h] IN
    /\ At(h, "writing") /\ Unwritten(h) = {}
    /\ registry' = [registry EXCEPT ![me.on] =
                        @ \cup {[rows |-> r.rows, run |-> me.run] : r \in me.wrote}]
    /\ batch' = [batch EXCEPT ![me.on].status = "IMPORTED"]
    /\ Goto(h, Idle)
    /\ Same /\ UNCHANGED records

CommitRows(h) ==
    LET me == handler[h] IN
    /\ At(h, "writing") /\ Unwritten(h) = {}
    /\ registry' = [registry EXCEPT ![me.on] =
                        @ \cup {[rows |-> r.rows, run |-> me.run] : r \in me.wrote}]
    /\ records' = [records EXCEPT ![me.on] =
                      {IF r \in me.links THEN [r EXCEPT !.target = me.run] ELSE r :
                          r \in @}]
    /\ batch' = [batch EXCEPT ![me.on].status = "IMPORTED"]
    /\ Goto(h, Idle)
    /\ Same

----------------------------------------------------------------------------
(* A handler is killed, or a statement of its fails: an open transaction   *)
(* is rolled back, what was saved outside of one stays.                    *)
Kill(h) ==
    /\ ~Free(h)
    /\ kills < MaxKills
    /\ kills' = kills + 1
    /\ Goto(h, Idle)
    /\ UNCHANGED <<world, tables, overlapped, starts>>

Changes ==
    /\ changes < MaxChanges
    /\ changes' = changes + 1
    /\ UNCHANGED <<file, tables, handler, overlapped, starts, kills>>

(* What a row refers to, or the rule it is checked by, changes.            *)
VerdictChanges(i) ==
    /\ Changes
    /\ refused' = IF i \in refused THEN refused \ {i} ELSE refused \cup {i}
    /\ UNCHANGED gone

BytesLost(b) ==
    /\ Changes
    /\ batch[b].status # "NONE"
    /\ gone' = gone \cup {b}
    /\ UNCHANGED refused

Next ==
    \/ \E h \in Handlers :
          \/ \E t \in Types \cup {NoType} : Upload(h, t)
          \/ \E b \in Batches : Create(h, b) \/ Validate(h, b) \/ Commit(h, b)
          \/ Read(h) \/ Replace(h) \/ List(h) \/ Mark(h) \/ GiveType(h)
          \/ WriteRow(h) \/ RefuseRow(h) \/ CommitRows(h)
          \/ Kill(h)
    \/ \E i \in 1..Len(file) : VerdictChanges(i)
    \/ \E b \in Batches : BytesLost(b)

Spec == Init /\ [][Next]_vars

----------------------------------------------------------------------------
(***************************************************************************)
(* Properties                                                              *)
(***************************************************************************)
FiledBy(b, run) == {x.rows : x \in {y \in registry[b] : y.run = run}}
Runs(b) == {x.run : x \in registry[b]}

(* All-or-nothing, whatever interleaves, fails or is killed: a commit that *)
(* left anything in the registry left a row for every record that the file *)
(* makes, and the file's grouping dropped none of its rows.                *)
AllOrNothing ==
    \A b \in Batches : \A k \in Runs(b) : \E t \in Names :
        /\ FiledBy(b, k) = {p.rows : p \in BlocksOf(t)}
        /\ \A p \in BlocksOf(t) : p.kept

(***************************************************************************)
(* As long as no two handlers have worked at the same time:                *)
(***************************************************************************)

(* "Nothing leaves IMPORTED": a batch that wrote rows wrote them once, and *)
(* says so, whoever was killed and whatever changed since.                 *)
ImportedOnce ==
    ~overlapped => \A b \in Batches : registry[b] # {} =>
        Cardinality(Runs(b)) = 1 /\ batch[b].status = "IMPORTED"

Resting(b) == \A h \in Handlers : handler[h].on # b

(* A VALIDATED batch is one commit away from writing rows: its records     *)
(* account for every row of the file, each once, and all were accepted.    *)
ValidatedIsComplete ==
    ~overlapped /\ kills = 0 => \A b \in Batches :
        Resting(b) /\ batch[b].status \in {"VALIDATED", "IMPORTED"} =>
            /\ \A r \in records[b] : r.valid
            /\ \A i \in 1..Len(file) :
                  Cardinality({r \in records[b] : i \in r.rows}) = 1

(* Provenance: every registry row of an import is named by the record it   *)
(* came from, and no other.                                                *)
RecordsNameTheirRows ==
    ~overlapped /\ kills = 0 => \A b \in Batches : \A x \in registry[b] :
        \E r \in records[b] : r.rows = x.rows /\ r.target = x.run
            /\ \A q \in records[b] : q.rows = x.rows => q = r

(***************************************************************************)
(* The grouping.                                                           *)
(***************************************************************************)

(* "Keep one element's points on consecutive rows so they form a single    *)
(* test."                                                                  *)
GroupsAreBlocks ==
    \A t \in Names :
        IsGrouping(file, t, GroupSet(file, t), Group(file, t).dropped)

(* "The rule is what must not drift between the two paths": on a file of   *)
(* complete rows of the grouped type the telemetry path makes the same     *)
(* groups, and refuses the file if the import drops a row.                 *)
PathsAgree ==
    \A t \in Grouped :
        (\A i \in 1..Len(file) : t \in file[i].complete /\ file[i].type = t) =>
            LET g == Group(file, t)  u == GroupUpv(file) IN
            /\ u.error <=> g.dropped # {}
            /\ ~u.error => u.groups = g.groups
=============================================================================
