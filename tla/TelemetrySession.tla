-------------------------- MODULE TelemetrySession --------------------------
(***************************************************************************)
(* Telemetry capture (apps/telemetry/services.py): an instrument opens a   *)
(* session, appends packets to a hash chain, and /end/ promotes the        *)
(* packets into the statutory registries, all of them or none.             *)
(*                                                                         *)
(* Requests are served by several server processes.  A handler reads the   *)
(* session row when it starts and decides on that copy; its writes are     *)
(* separate transactions, so handlers of other processes interleave with   *)
(* it.  A process may be killed in any of them.  An administrator's form   *)
(* may rewrite or delete the row under all of them.                        *)
(*                                                                         *)
(* All sessions here are on one project (a promotion may replace the       *)
(* project's rows); sessions of different projects share only the device.  *)
(***************************************************************************)
EXTENDS Integers, FiniteSets, FiniteSetsExt

CONSTANTS
    Sessions,       \* session ids the database may hand out
    Devices,        \* instruments
    Workers,        \* server processes
    MaxSeq,         \* bound: packets of one session are numbered 1..MaxSeq
    Explicit,       \* the sequence numbers devices send: none, or any
    MaxKills,       \* bound: how many processes are killed
    MaxCopies,      \* bound: no promotion past this many copies of a row
    MaxAmends,      \* bound: how often an administrator's form is saved
    NoDevice, NoSession

Seqs == 1..MaxSeq

ASSUME NumbersAssumption ==
    /\ MaxSeq \in Nat \ {0}
    /\ {MaxKills, MaxCopies, MaxAmends} \subseteq Nat
    /\ Explicit \in {{}, Seqs}

ASSUME NoneAssumption == NoDevice \notin Devices /\ NoSession \notin Sessions

VARIABLES
    status,     \* "NONE" (no row yet), "OPEN", "ENDED", "ABORTED", "DELETED"
    sync,       \* sync_status
    device,     \* the instrument that captured the session
    clears,     \* session_config asks the promotion to delete older rows
    packets,    \* received packets: [seq, prev], prev the number of the
                \* packet whose chain_hash it extends (0: the empty hash)
    count,      \* packet_count
    envelope,   \* packets named by data_payload
    rows,       \* registry rows written from each packet
    worker,     \* what each process is doing
    kills,
    amended,    \* history: how often the admin form changed a session
    overlapped  \* history: two requests have been in hand at the same time

sessionVars == <<status, sync, device, clears>>
vars == <<sessionVars, packets, count, envelope, rows, worker, kills,
          amended, overlapped>>

Statuses == {"OPEN", "ENDED", "ABORTED"}
SyncStatuses == {"PENDING", "SYNCED", "FAILED"}

Packet == [seq : Seqs, prev : 0..MaxSeq]
NoPacket == [seq |-> 0, prev |-> 0]

(***************************************************************************)
(* A process is idle, or in a handler past the checks it made on its copy  *)
(* of the row: "starting" a session, "appending" (`pkt` not yet read),     *)
(* "linking" (`pkt` read, not yet inserted), "inserted" (in the open       *)
(* transaction, `total` is the packet_count it computed), "ending", and    *)
(* "promoting" the packets `listed`.                                       *)
(***************************************************************************)
Idle == [pc |-> "idle", on |-> NoSession, dev |-> NoDevice, pkt |-> NoPacket,
         total |-> 0, listed |-> {}]

WorkerState ==
    [pc : {"idle", "starting", "appending", "linking", "inserted", "ending",
           "promoting"},
     on : Sessions \cup {NoSession}, dev : Devices \cup {NoDevice},
     pkt : Packet \cup {NoPacket}, total : Nat, listed : SUBSET Seqs]

TypeOK ==
    /\ status \in [Sessions -> Statuses \cup {"NONE", "DELETED"}]
    /\ sync \in [Sessions -> SyncStatuses]
    /\ device \in [Sessions -> Devices \cup {NoDevice}]
    /\ clears \in [Sessions -> BOOLEAN]
    /\ packets \in [Sessions -> SUBSET Packet]
    /\ count \in [Sessions -> Nat]
    /\ envelope \in [Sessions -> SUBSET Seqs]
    /\ rows \in [Sessions -> [Seqs -> Nat]]
    /\ worker \in [Workers -> WorkerState]
    /\ kills \in Nat
    /\ amended \in [Sessions -> Nat]

Init ==
    /\ status = [s \in Sessions |-> "NONE"]
    /\ sync = [s \in Sessions |-> "PENDING"]
    /\ device = [s \in Sessions |-> NoDevice]
    /\ clears = [s \in Sessions |-> FALSE]
    /\ packets = [s \in Sessions |-> {}]
    /\ count = [s \in Sessions |-> 0]
    /\ envelope = [s \in Sessions |-> {}]
    /\ rows = [s \in Sessions |-> [n \in Seqs |-> 0]]
    /\ worker = [w \in Workers |-> Idle]
    /\ kills = 0
    /\ amended = [s \in Sessions |-> 0]
    /\ overlapped = FALSE

Goto(w, state) == worker' = [worker EXCEPT ![w] = state]
Done(w) == Goto(w, Idle)

(* The row a handler works on has not been deleted under it.               *)
Present(w) == status[worker[w].on] # "DELETED"

SeqsOf(P) == {p.seq : p \in P}
Last(P) == IF P = {} THEN 0 ELSE Max(SeqsOf(P))

----------------------------------------------------------------------------
(***************************************************************************)
(* POST session/start/: refused while the device has an OPEN session; the  *)
(* row is created by a later statement.                                    *)
(***************************************************************************)
HasOpenSession(d) == \E s \in Sessions : status[s] = "OPEN" /\ device[s] = d

(* mutant of StartCheck: no look for an open session *)
StartUnchecked(w, d) ==
    /\ worker[w].pc = "idle"
    /\ Goto(w, [Idle EXCEPT !.pc = "starting", !.dev = d])
    /\ UNCHANGED <<sessionVars, packets, count, envelope, rows, kills>>

StartCheck(w, d) ==
    /\ worker[w].pc = "idle"
    /\ ~HasOpenSession(d)
    /\ Goto(w, [Idle EXCEPT !.pc = "starting", !.dev = d])
    /\ UNCHANGED <<sessionVars, packets, count, envelope, rows, kills>>

NewRow(s, st, sy, d, c) ==
    /\ status[s] = "NONE"
    /\ status' = [status EXCEPT ![s] = st]
    /\ sync' = [sync EXCEPT ![s] = sy]
    /\ device' = [device EXCEPT ![s] = d]
    /\ clears' = [clears EXCEPT ![s] = c]

StartCreate(w, s, c) ==
    /\ worker[w].pc = "starting"
    /\ NewRow(s, "OPEN", "PENDING", worker[w].dev, c)
    /\ Done(w)
    /\ UNCHANGED <<packets, count, envelope, rows, kills>>

----------------------------------------------------------------------------
(***************************************************************************)
(* POST session/<id>/data/.                                                *)
(***************************************************************************)
AppendFetch(w, s) ==
    /\ worker[w].pc = "idle"
    /\ status[s] = "OPEN"
    /\ Goto(w, [Idle EXCEPT !.pc = "appending", !.on = s])
    /\ UNCHANGED <<sessionVars, packets, count, envelope, rows, kills>>

(* mutant of ReadTail: the hash of every packet starts the chain anew *)
ReadTailUnchained(w) ==
    /\ worker[w].pc = "appending" /\ Present(w)
    /\ \E n \in {Last(packets[worker[w].on]) + 1} \cap Seqs :
          Goto(w, [worker[w] EXCEPT !.pc = "linking",
                                    !.pkt = [seq |-> n, prev |-> 0]])
    /\ UNCHANGED <<sessionVars, packets, count, envelope, rows, kills>>

(* The tail is read outside the transaction.  The number and the hash are  *)
(* two queries, and reading both at once shows the same outcomes.  If the  *)
(* server numbers all packets, one committed between the queries takes the *)
(* number, and the insert then refuses; if devices number theirs too, a    *)
(* packet chained to a later one is among the outcomes anyway.             *)
ReadTail(w) ==
    /\ worker[w].pc = "appending" /\ Present(w)
    /\ LET last == Last(packets[worker[w].on]) IN
       \E n \in Explicit \cup ({last + 1} \cap Seqs) :
          Goto(w, [worker[w] EXCEPT !.pc = "linking",
                                    !.pkt = [seq |-> n, prev |-> last]])
    /\ UNCHANGED <<sessionVars, packets, count, envelope, rows, kills>>

Taken(w) == worker[w].pkt.seq \in SeqsOf(packets[worker[w].on])

(* An uncommitted insert of the same number holds this one back (unique    *)
(* constraint on session and sequence).                                    *)
HeldBack(w) == \E v \in Workers \ {w} :
    /\ worker[v].pc = "inserted"
    /\ worker[v].on = worker[w].on
    /\ worker[v].pkt.seq = worker[w].pkt.seq

Insert(w) ==
    /\ worker[w].pc = "linking" /\ Present(w)
    /\ ~Taken(w) /\ ~HeldBack(w)
    /\ Goto(w, [worker[w] EXCEPT !.pc = "inserted",
                    !.total = Cardinality(packets[worker[w].on]) + 1])
    /\ UNCHANGED <<sessionVars, packets, count, envelope, rows, kills>>

(* 409, or the constraint's error once the other insert has committed.     *)
Refuse(w) ==
    /\ worker[w].pc = "linking"
    /\ Taken(w)
    /\ Done(w)
    /\ UNCHANGED <<sessionVars, packets, count, envelope, rows, kills>>

CommitPacket(w) ==
    /\ worker[w].pc = "inserted" /\ Present(w)
    /\ LET s == worker[w].on IN
        /\ packets' = [packets EXCEPT ![s] = @ \cup {worker[w].pkt}]
        /\ count' = [count EXCEPT ![s] = worker[w].total]
    /\ Done(w)
    /\ UNCHANGED <<sessionVars, envelope, rows, kills>>

----------------------------------------------------------------------------
(***************************************************************************)
(* POST session/<id>/end/.                                                 *)
(***************************************************************************)
(* mutant of EndFetch: a promoted session may be ended again *)
EndAgain(w, s) ==
    /\ worker[w].pc = "idle"
    /\ status[s] \in {"OPEN", "ENDED"}
    /\ Goto(w, [Idle EXCEPT !.pc = "ending", !.on = s])
    /\ UNCHANGED <<sessionVars, packets, count, envelope, rows, kills>>

EndFetch(w, s) ==
    /\ worker[w].pc = "idle"
    /\ status[s] \in {"OPEN", "ENDED"}
    /\ sync[s] # "SYNCED"
    /\ Goto(w, [Idle EXCEPT !.pc = "ending", !.on = s])
    /\ UNCHANGED <<sessionVars, packets, count, envelope, rows, kills>>

(* A session without packets is refused here.                              *)
ListPackets(w) ==
    /\ worker[w].pc = "ending" /\ Present(w)
    /\ LET P == packets[worker[w].on] IN
       IF P = {} THEN Done(w)
       ELSE Goto(w, [worker[w] EXCEPT !.pc = "promoting", !.listed = SeqsOf(P)])
    /\ UNCHANGED <<sessionVars, packets, count, envelope, rows, kills>>

(* The rows a promotion may delete before it writes: clear_folder takes    *)
(* the project's, override those of the elements it is about to write      *)
(* (PUNDIT tests; the other data types only add).                          *)
Lost(c) == IF c THEN SUBSET {r \in Sessions \X Seqs : rows[r[1]][r[2]] > 0} ELSE {{}}

Written(s, seqs, lost) ==
    [t \in Sessions |-> [n \in Seqs |->
        (IF <<t, n>> \in lost THEN 0 ELSE rows[t][n])
            + (IF t = s /\ n \in seqs THEN 1 ELSE 0)]]

PromoteOk(w) ==
    /\ worker[w].pc = "promoting" /\ Present(w)
    /\ LET s == worker[w].on IN
        /\ \A n \in Seqs : rows[s][n] < MaxCopies
        /\ \E lost \in Lost(clears[s]) : rows' = Written(s, worker[w].listed, lost)
        /\ envelope' = [envelope EXCEPT ![s] = worker[w].listed]
        /\ status' = [status EXCEPT ![s] = "ENDED"]
        /\ sync' = [sync EXCEPT ![s] = "SYNCED"]
    /\ Done(w)
    /\ UNCHANGED <<device, clears, packets, count, kills>>

(* mutants of PromoteFail: the rows written so far stay; the session is *)
(* open again *)
PromoteFailKeepsRows(w) ==
    /\ worker[w].pc = "promoting" /\ Present(w)
    /\ LET s == worker[w].on IN
        /\ \E part \in SUBSET worker[w].listed :
              rows' = Written(s, part, {})
        /\ status' = [status EXCEPT ![s] = "ENDED"]
        /\ sync' = [sync EXCEPT ![s] = "FAILED"]
    /\ Done(w)
    /\ UNCHANGED <<device, clears, packets, count, envelope, kills>>

PromoteFailReopens(w) ==
    /\ worker[w].pc = "promoting" /\ Present(w)
    /\ LET s == worker[w].on IN
        /\ status' = [status EXCEPT ![s] = "OPEN"]
        /\ sync' = [sync EXCEPT ![s] = "FAILED"]
    /\ Done(w)
    /\ UNCHANGED <<device, clears, packets, count, envelope, rows, kills>>

(* The promotion rolled back; the row is marked whatever it says by now.   *)
PromoteFail(w) ==
    /\ worker[w].pc = "promoting" /\ Present(w)
    /\ LET s == worker[w].on IN
        /\ status' = [status EXCEPT ![s] = "ENDED"]
        /\ sync' = [sync EXCEPT ![s] = "FAILED"]
    /\ Done(w)
    /\ UNCHANGED <<device, clears, packets, count, envelope, rows, kills>>

----------------------------------------------------------------------------
(***************************************************************************)
(* Sessions that arrive whole: from an export file (ENDED, not promoted)   *)
(* and replayed by the sync queue (started, filled and promoted in one     *)
(* transaction; refused while the device streams).                         *)
(***************************************************************************)
Chain(n) == {[seq |-> k, prev |-> k - 1] : k \in 1..n}

Whole(s, n) ==
    /\ packets' = [packets EXCEPT ![s] = Chain(n)]
    /\ count' = [count EXCEPT ![s] = n]

Import(s, d, n, c) ==
    /\ NewRow(s, "ENDED", "PENDING", d, c)
    /\ Whole(s, n)
    /\ UNCHANGED <<envelope, rows, worker, kills>>

Replay(s, d, n, c) ==
    /\ ~HasOpenSession(d)
    /\ NewRow(s, "ENDED", "SYNCED", d, c)
    /\ Whole(s, n)
    /\ \E lost \in Lost(c) : rows' = Written(s, 1..n, lost)
    /\ envelope' = [envelope EXCEPT ![s] = 1..n]
    /\ UNCHANGED <<worker, kills>>

----------------------------------------------------------------------------
(***************************************************************************)
(* The admin site.  Its form is the only thing that aborts a session; it   *)
(* can as well write any other status, reopen a closed session, move it to *)
(* another instrument, or delete it with its packets (the registry rows    *)
(* have no reference to it and stay).  `amended` tells these apart.        *)
(***************************************************************************)
Abort(s) ==
    /\ status[s] = "OPEN"
    /\ status' = [status EXCEPT ![s] = "ABORTED"]
    /\ UNCHANGED <<sync, device, clears, packets, count, envelope, rows,
                   worker, kills>>

Amends(s) ==
    /\ status[s] \in Statuses
    /\ MapThenSumSet(LAMBDA t : amended[t], Sessions) < MaxAmends
    /\ amended' = [amended EXCEPT ![s] = @ + 1]

Amend(s, st, sy, d, c) ==
    /\ Amends(s)
    /\ status' = [status EXCEPT ![s] = st]
    /\ sync' = [sync EXCEPT ![s] = sy]
    /\ device' = [device EXCEPT ![s] = d]
    /\ clears' = [clears EXCEPT ![s] = c]
    /\ UNCHANGED <<packets, count, envelope, rows, worker, kills>>

Delete(s) ==
    /\ Amends(s)
    /\ status' = [status EXCEPT ![s] = "DELETED"]
    /\ sync' = [sync EXCEPT ![s] = "PENDING"]
    /\ packets' = [packets EXCEPT ![s] = {}]
    /\ count' = [count EXCEPT ![s] = 0]
    /\ envelope' = [envelope EXCEPT ![s] = {}]
    /\ UNCHANGED <<device, clears, rows, worker, kills>>

(* A handler whose session was deleted under it fails: its transaction     *)
(* cannot reference or update the row.                                     *)
Vanished(w) ==
    /\ worker[w].pc \notin {"idle", "starting"} /\ ~Present(w)
    /\ Done(w)
    /\ UNCHANGED <<sessionVars, packets, count, envelope, rows, kills>>

(* A killed process rolls back its open transaction.                       *)
Kill(w) ==
    /\ worker[w].pc # "idle"
    /\ kills < MaxKills
    /\ kills' = kills + 1
    /\ Done(w)
    /\ UNCHANGED <<sessionVars, packets, count, envelope, rows>>

Append(w) ==
    \/ \E s \in Sessions : AppendFetch(w, s)
    \/ ReadTail(w) \/ Insert(w) \/ Refuse(w) \/ CommitPacket(w)

End(w) ==
    \/ \E s \in Sessions : EndFetch(w, s)
    \/ ListPackets(w) \/ PromoteOk(w) \/ PromoteFail(w)

Start(w) ==
    \/ \E d \in Devices : StartCheck(w, d)
    \/ \E s \in Sessions, c \in BOOLEAN : StartCreate(w, s, c)

Handle ==
    \/ \E w \in Workers : Start(w) \/ Append(w) \/ End(w) \/ Vanished(w) \/ Kill(w)
    \/ \E s \in Sessions, d \in Devices, n \in Seqs, c \in BOOLEAN :
          Import(s, d, n, c) \/ Replay(s, d, n, c)
    \/ \E s \in Sessions : Abort(s)

AdminForm == \E s \in Sessions :
    \/ Delete(s)
    \/ \E st \in Statuses, sy \in SyncStatuses, d \in Devices, c \in BOOLEAN :
          Amend(s, st, sy, d, c)

Step == \/ Handle /\ UNCHANGED amended
        \/ AdminForm

Overlap == \E v, w \in Workers :
    v # w /\ worker[v].pc # "idle" /\ worker[w].pc # "idle"

Next == Step /\ overlapped' = (overlapped \/ Overlap')

Spec == Init /\ [][Next]_vars

----------------------------------------------------------------------------
(***************************************************************************)
(* Properties                                                              *)
(***************************************************************************)

(* verify_chain: recomputed in sequence order, every packet's stored hash  *)
(* extends the packet before it.  No packet is ever edited, so it must     *)
(* report an untouched log.                                                *)
Below(s, p) == {q \in packets[s] : q.seq < p.seq}
ChainVerifies == \A s \in Sessions : \A p \in packets[s] : p.prev = Last(Below(s, p))

(* The sessions no administrator has changed.                              *)
Unamended == {s \in Sessions : amended[s] = 0}

(* Promoting a session again is refused because it "would duplicate every  *)
(* row": no packet is ever in the registry twice.                          *)
NoDuplicateRows == \A s \in Unamended, n \in Seqs : rows[s][n] <= 1

(* "Every packet is replayed": a promoted session holds no packet that was *)
(* accepted and is missing from what it attests.                           *)
SyncedCoversEveryPacket ==
    \A s \in Unamended : sync[s] = "SYNCED" => envelope[s] = SeqsOf(packets[s])

(* All or nothing: a session that is not SYNCED has nothing in the         *)
(* registry.                                                               *)
FailedWroteNothing ==
    \A s \in Unamended : sync[s] # "SYNCED" => \A n \in Seqs : rows[s][n] = 0

(* Whatever interleaves: a number is never used twice in one log.          *)
SequencesUnique ==
    \A s \in Sessions : \A p, q \in packets[s] : p.seq = q.seq => p = q

(* What a promotion attests was received: the envelope is written from     *)
(* packets that are in the log, and an attested session was promoted.      *)
AttestsReceivedPackets ==
    /\ \A s \in Sessions : envelope[s] \subseteq SeqsOf(packets[s])
    /\ \A s \in Unamended : sync[s] = "SYNCED" => envelope[s] # {}

(* A received packet is never altered or dropped, and a session that was   *)
(* closed never streams again, unless an administrator saves that session  *)
(* or deletes it: no handler does, in any state the form may have left.    *)
Closed == {"ENDED", "ABORTED"}
LogIsAppendOnly ==
    [][\A s \in Sessions : amended'[s] = amended[s] =>
          /\ packets[s] \subseteq packets'[s]
          /\ status[s] \in Closed => status'[s] \in Closed]_vars

(***************************************************************************)
(* As long as no two requests have been in hand at the same time, of the   *)
(* sessions no administrator has changed:                                  *)
(***************************************************************************)

(* start_session "refuses a second OPEN session for the same device".      *)
OpenOnce ==
    \A s, t \in Unamended :
        status[s] = "OPEN" /\ status[t] = "OPEN" /\ device[s] = device[t] => s = t
OneOpenSession == ~overlapped => OpenOnce

(* A promotion is whole and single, whoever fails or is killed in it: a    *)
(* SYNCED session attests every packet it took, and has each in the        *)
(* registry once at most; any other session has nothing there.             *)
PromotionIsWhole ==
    ~overlapped => NoDuplicateRows /\ SyncedCoversEveryPacket /\ FailedWroteNothing

(* A promoted session stays promoted, and what it attests does not change. *)
PromotionIsFinal ==
    [][\A s \in Sessions :
          ~overlapped' /\ amended'[s] = 0 /\ sync[s] = "SYNCED" =>
             sync'[s] = "SYNCED" /\ envelope'[s] = envelope[s]]_vars

----------------------------------------------------------------------------
(***************************************************************************)
(* The strengthenings the proofs rest on.                                  *)
(***************************************************************************)
Untouched(s) ==
    /\ sync[s] = "PENDING" /\ packets[s] = {} /\ envelope[s] = {}
    /\ \A n \in Seqs : rows[s][n] = 0

InsertsAreFree ==
    \A w \in Workers : worker[w].pc = "inserted" =>
        /\ ~Taken(w) /\ ~HeldBack(w)

NoRowIsUntouched == \A s \in Sessions : status[s] = "NONE" => Untouched(s)

(* A handler works on a row that exists, and promotes received packets.    *)
HandlerInv(w) ==
    /\ worker[w].pc \notin {"idle", "starting"} =>
          worker[w].on \in Sessions /\ status[worker[w].on] # "NONE"
    /\ worker[w].pc = "starting" => worker[w].dev \in Devices
    /\ worker[w].pc \in {"linking", "inserted"} => worker[w].pkt \in Packet
    /\ worker[w].pc = "promoting" =>
          /\ Present(w) => worker[w].listed \subseteq SeqsOf(packets[worker[w].on])
          /\ worker[w].listed # {}

(* With any number of processes.                                           *)
LogInv ==
    /\ TypeOK
    /\ SequencesUnique
    /\ AttestsReceivedPackets
    /\ InsertsAreFree
    /\ NoRowIsUntouched
    /\ \A w \in Workers : HandlerInv(w)

(* When devices send no numbers: every log is the chain 1, 2, ..., k, and  *)
(* the packet being appended extends one of its links.                     *)
ChainInv ==
    /\ \A s \in Sessions : \E k \in 0..MaxSeq : packets[s] = Chain(k)
    /\ \A w \in Workers : worker[w].pc \in {"linking", "inserted"} /\ Present(w) =>
          LET p == worker[w].pkt IN
          /\ p.seq = p.prev + 1
          /\ p.prev \in {0} \cup SeqsOf(packets[worker[w].on])

(* The row a handler decided on is still the row that it changes.          *)
DecisionHolds(w) ==
    /\ worker[w].pc = "starting" =>
          \A s \in Unamended : ~(status[s] = "OPEN" /\ device[s] = worker[w].dev)
    /\ worker[w].on \in Unamended =>
        /\ worker[w].pc \in {"appending", "linking", "inserted"} =>
              status[worker[w].on] \in {"OPEN", "ABORTED"}
        /\ worker[w].pc \in {"ending", "promoting"} => sync[worker[w].on] # "SYNCED"
        /\ worker[w].pc = "promoting" =>
              worker[w].listed = SeqsOf(packets[worker[w].on])

OpenIsPending ==
    \A s \in Unamended : status[s] \in {"OPEN", "ABORTED"} => sync[s] = "PENDING"

(* When requests do not overlap.                                           *)
SerialInv ==
    /\ OpenOnce
    /\ NoDuplicateRows
    /\ FailedWroteNothing
    /\ SyncedCoversEveryPacket
    /\ OpenIsPending
    /\ \A w \in Workers : DecisionHolds(w)
=============================================================================
