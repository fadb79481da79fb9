----------------------- MODULE TelemetrySessionProofs -----------------------
(***************************************************************************)
(* What TLAPS proves of TelemetrySession for every number of sessions,     *)
(* packets and processes: the packet log is append-only and a promotion    *)
(* attests received packets under any interleaving; if devices send no     *)
(* numbers every chain verifies; and if requests do not overlap (one       *)
(* process) a promotion is all or nothing and happens once.                *)
(***************************************************************************)
EXTENDS TelemetrySession, WellFoundedInduction,
        FiniteSetTheorems, TLAPS

USE DEF Seqs, sessionVars, Statuses, SyncStatuses, Closed, Present, Unamended

(* The largest element of a bounded set of numbers is one of its elements. *)
LEMMA MinExists ==
    ASSUME NEW T, T \subseteq Nat, T # {}
    PROVE  \E x \in T : \A y \in T : x <= y
<1>1. \E x \in T : \A y \in T : <<y, x>> \notin OpToRel(<, Nat)
    BY NatLessThanWellFounded, WFMin
<1>2. PICK x \in T : \A y \in T : <<y, x>> \notin OpToRel(<, Nat)
    BY <1>1
<1>3. \A y \in T : ~(y < x)
    BY <1>2 DEF OpToRel
<1> QED BY <1>3

LEMMA MaxIsMember ==
    ASSUME NEW N \in Nat, NEW S, S \subseteq 0..N, S # {}
    PROVE  Max(S) \in S /\ \A n \in S : n <= Max(S)
<1> DEFINE T == {N - n : n \in S}
<1>1. T \subseteq Nat
    <2>1. \A n \in S : N - n \in Nat
        OBVIOUS
    <2> QED BY <2>1
<1>2. T # {}
    OBVIOUS
<1> HIDE DEF T
<1>3. PICK x \in T : \A y \in T : x <= y
    BY <1>1, <1>2, MinExists
<1>4. PICK m \in S : x = N - m
    BY DEF T
<1>5. ASSUME NEW n \in S PROVE m >= n
    <2>1. N - n \in T
        BY DEF T
    <2>2. N - m <= N - n
        BY <1>3, <1>4, <2>1
    <2>3. n \in Int /\ m \in Int
        OBVIOUS
    <2> QED BY <2>2, <2>3
<1>6. \E p \in S : \A q \in S : p >= q
    BY <1>5
<1>7. Max(S) \in S /\ \A n \in S : Max(S) >= n
    BY <1>6 DEF Max
<1>8. \A n \in S : n \in Int
    OBVIOUS
<1>9. Max(S) \in Int
    BY <1>7, <1>8
<1> QED BY <1>7, <1>8, <1>9

LEMMA LastIsLargest ==
    ASSUME NEW P \in SUBSET Packet
    PROVE  /\ Last(P) \in 0..MaxSeq
           /\ P # {} => Last(P) \in SeqsOf(P)
           /\ \A p \in P : p.seq <= Last(P)
<1>1. SeqsOf(P) \subseteq 0..MaxSeq
    BY NumbersAssumption DEF SeqsOf, Packet
<1>2. CASE P = {}
    BY <1>2, NumbersAssumption DEF Last
<1>3. CASE P # {}
    <2>1. SeqsOf(P) # {}
        BY <1>3 DEF SeqsOf
    <2>2. /\ Max(SeqsOf(P)) \in SeqsOf(P)
          /\ \A n \in SeqsOf(P) : n <= Max(SeqsOf(P))
        BY <1>1, <2>1, MaxIsMember, NumbersAssumption
    <2> QED BY <1>1, <1>3, <2>2 DEF Last, SeqsOf
<1> QED BY <1>2, <1>3

LEMMA PacketTypes ==
    /\ \A p \in Packet : p.seq \in Seqs /\ p.prev \in 0..MaxSeq
    /\ NoPacket \notin Packet
BY NumbersAssumption DEF Packet, NoPacket

LEMMA IdleIsWorker == Idle \in WorkerState
BY DEF Idle, WorkerState, NoPacket

LEMMA ChainIsPackets == \A n \in 0..MaxSeq : Chain(n) \subseteq Packet
BY NumbersAssumption DEF Chain, Packet

LEMMA WrittenIs ==
    ASSUME NEW s \in Sessions, NEW P \in SUBSET Seqs, NEW lost,
           NEW t \in Sessions, NEW n \in Seqs
    PROVE  Written(s, P, lost)[t][n] = (IF <<t, n>> \in lost THEN 0 ELSE rows[t][n])
                                        + (IF t = s /\ n \in P THEN 1 ELSE 0)
<1> HIDE DEF Seqs
<1> QED BY DEF Written

LEMMA WrittenType ==
    ASSUME TypeOK, NEW s \in Sessions, NEW P \in SUBSET Seqs, NEW lost
    PROVE  Written(s, P, lost) \in [Sessions -> [Seqs -> Nat]]
<1> HIDE DEF Seqs
<1>1. \A t \in Sessions, n \in Seqs : rows[t][n] \in Nat
    <2>1. \A t \in Sessions : rows[t] \in [Seqs -> Nat]
        BY DEF TypeOK
    <2> QED BY <2>1
<1>2. \A t \in Sessions : \A n \in Seqs :
         (IF <<t, n>> \in lost THEN 0 ELSE rows[t][n])
            + (IF t = s /\ n \in P THEN 1 ELSE 0) \in Nat
    BY <1>1
<1>3. \A t \in Sessions :
         [n \in Seqs |-> (IF <<t, n>> \in lost THEN 0 ELSE rows[t][n])
            + (IF t = s /\ n \in P THEN 1 ELSE 0)] \in [Seqs -> Nat]
    BY <1>2
<1> QED BY <1>3 DEF Written

(* The rows a promotion leaves: none twice in a session that had none, and *)
(* those of the others unless it deleted them.                             *)
LEMMA WrittenOnce ==
    ASSUME NEW s \in Sessions, NEW P \in SUBSET Seqs, NEW lost,
           \A n \in Seqs : rows[s][n] = 0
    PROVE  \A n \in Seqs : Written(s, P, lost)[s][n] <= 1
<1> HIDE DEF Seqs
<1> SUFFICES ASSUME NEW n \in Seqs PROVE Written(s, P, lost)[s][n] <= 1
    OBVIOUS
<1>1. Written(s, P, lost)[s][n] = (IF <<s, n>> \in lost THEN 0 ELSE rows[s][n])
                                   + (IF s = s /\ n \in P THEN 1 ELSE 0)
    BY WrittenIs
<1> QED BY <1>1

LEMMA WrittenElsewhere ==
    ASSUME TypeOK, NEW s \in Sessions, NEW P \in SUBSET Seqs, NEW lost,
           NEW t \in Sessions \ {s}, NEW n \in Seqs
    PROVE  Written(s, P, lost)[t][n] = rows[t][n] \/ Written(s, P, lost)[t][n] = 0
<1> HIDE DEF Seqs
<1>1. rows[t] \in [Seqs -> Nat]
    BY DEF TypeOK
<1>2. rows[t][n] \in Nat
    BY <1>1
<1>3. Written(s, P, lost)[t][n] = (IF <<t, n>> \in lost THEN 0 ELSE rows[t][n])
                                   + (IF t = s /\ n \in P THEN 1 ELSE 0)
    BY WrittenIs
<1> QED BY <1>2, <1>3

(* The state of a process after Goto.                                      *)
LEMMA GotoOnly ==
    ASSUME TypeOK, NEW w \in Workers, NEW state, Goto(w, state)
    PROVE  worker'[w] = state /\ \A v \in Workers \ {w} : worker'[v] = worker[v]
BY DEF TypeOK, Goto

LEMMA GotoType ==
    ASSUME TypeOK, NEW w \in Workers, NEW state \in WorkerState, Goto(w, state)
    PROVE  worker' \in [Workers -> WorkerState]
BY DEF TypeOK, Goto

LEMMA InitLog == Init => LogInv
<1> SUFFICES ASSUME Init PROVE LogInv
    OBVIOUS
<1>1. TypeOK
    BY NumbersAssumption, IdleIsWorker DEF Init, TypeOK
<1>2. \A w \in Workers : worker[w].pc = "idle"
    BY DEF Init, Idle
<1> QED BY <1>1, <1>2
        DEF Init, LogInv, SequencesUnique, AttestsReceivedPackets,
            InsertsAreFree, NoRowIsUntouched, Untouched, HandlerInv, SeqsOf

----------------------------------------------------------------------------
(* Type correctness.                                                       *)
LEMMA PacketsFinite ==
    ASSUME TypeOK, NEW s \in Sessions PROVE IsFiniteSet(packets[s])
<1>1. IsFiniteSet(Seqs) /\ IsFiniteSet(0..MaxSeq)
    <2>1. MaxSeq \in Int
        BY NumbersAssumption
    <2>2. IsFiniteSet(1..MaxSeq)
        BY <2>1, FS_Interval
    <2>3. IsFiniteSet(0..MaxSeq)
        BY <2>1, FS_Interval
    <2> QED BY <2>2, <2>3
<1>2. IsFiniteSet(Seqs \X (0..MaxSeq))
    BY <1>1, FS_Product
<1> DEFINE f == [t \in Seqs \X (0..MaxSeq) |-> [seq |-> t[1], prev |-> t[2]]]
<1>3. f \in Surjection(Seqs \X (0..MaxSeq), Packet)
    <2>1. f \in [Seqs \X (0..MaxSeq) -> Packet]
        BY DEF Packet
    <2>2. ASSUME NEW p \in Packet
          PROVE  \E t \in Seqs \X (0..MaxSeq) : f[t] = p
        <3>1. <<p.seq, p.prev>> \in Seqs \X (0..MaxSeq)
            BY DEF Packet
        <3>2. p = [seq |-> p.seq, prev |-> p.prev]
            BY DEF Packet
        <3> QED BY <3>1, <3>2
    <2> QED BY <2>1, <2>2 DEF Surjection
<1>4. IsFiniteSet(Packet)
    BY <1>2, <1>3, FS_Surjection
<1> QED BY <1>4, FS_Subset DEF TypeOK

LEMMA TypeHandle ==
    ASSUME LogInv, Handle, UNCHANGED amended PROVE TypeOK'
<1> USE DEF LogInv
<1>0. TypeOK
    OBVIOUS
<1>a. \A w \in Workers : worker[w] \in WorkerState
    BY DEF TypeOK
<1>1. ASSUME NEW w \in Workers, NEW d \in Devices, StartCheck(w, d) PROVE TypeOK'
    <2>1. [Idle EXCEPT !.pc = "starting", !.dev = d] \in WorkerState
        BY IdleIsWorker DEF WorkerState
    <2>2. worker' \in [Workers -> WorkerState]
        BY <1>1, <2>1, GotoType DEF StartCheck
    <2> QED BY <1>1, <2>2 DEF StartCheck, TypeOK
<1>2. ASSUME NEW w \in Workers, NEW s \in Sessions, NEW c \in BOOLEAN,
             StartCreate(w, s, c)
      PROVE TypeOK'
    <2>1. worker' \in [Workers -> WorkerState]
        BY <1>2, IdleIsWorker, GotoType DEF StartCreate, Done
    <2> QED BY <1>2, <2>1 DEF StartCreate, NewRow, HandlerInv, TypeOK
<1>3. ASSUME NEW w \in Workers, NEW s \in Sessions,
             AppendFetch(w, s) \/ EndFetch(w, s)
      PROVE TypeOK'
    <2>1. /\ [Idle EXCEPT !.pc = "appending", !.on = s] \in WorkerState
          /\ [Idle EXCEPT !.pc = "ending", !.on = s] \in WorkerState
        BY IdleIsWorker DEF WorkerState
    <2>2. worker' \in [Workers -> WorkerState]
        BY <1>3, <2>1, GotoType DEF AppendFetch, EndFetch
    <2> QED BY <1>3, <2>2 DEF AppendFetch, EndFetch, TypeOK
<1>4. ASSUME NEW w \in Workers, ReadTail(w) PROVE TypeOK'
    <2>1. PICK n \in Seqs :
             Goto(w, [worker[w] EXCEPT !.pc = "linking",
                        !.pkt = [seq |-> n, prev |-> Last(packets[worker[w].on])]])
        BY <1>4, NumbersAssumption DEF ReadTail
    <2>2. Last(packets[worker[w].on]) \in 0..MaxSeq
        BY <1>4, LastIsLargest DEF ReadTail, HandlerInv, TypeOK
    <2>3. [worker[w] EXCEPT !.pc = "linking",
             !.pkt = [seq |-> n, prev |-> Last(packets[worker[w].on])]] \in WorkerState
        BY <1>a, <2>1, <2>2 DEF WorkerState, Packet
    <2>4. worker' \in [Workers -> WorkerState]
        BY <2>1, <2>3, GotoType
    <2> QED BY <1>4, <2>4 DEF ReadTail, TypeOK
<1>5. ASSUME NEW w \in Workers, Insert(w) PROVE TypeOK'
    <2>1. IsFiniteSet(packets[worker[w].on])
        BY PacketsFinite, <1>5 DEF Insert, HandlerInv
    <2>2. Cardinality(packets[worker[w].on]) + 1 \in Nat
        BY <2>1, FS_CardinalityType
    <2>3. [worker[w] EXCEPT !.pc = "inserted",
             !.total = Cardinality(packets[worker[w].on]) + 1] \in WorkerState
        BY <1>a, <2>2 DEF WorkerState
    <2>4. worker' \in [Workers -> WorkerState]
        BY <1>5, <2>3, GotoType DEF Insert
    <2> QED BY <1>5, <2>4 DEF Insert, TypeOK
<1>6. ASSUME NEW w \in Workers, Refuse(w) \/ Vanished(w) \/ Kill(w) PROVE TypeOK'
    <2>1. worker' \in [Workers -> WorkerState]
        BY <1>6, IdleIsWorker, GotoType DEF Refuse, Vanished, Kill, Done
    <2> QED BY <1>6, <2>1, NumbersAssumption DEF Refuse, Vanished, Kill, TypeOK
<1>7. ASSUME NEW w \in Workers, CommitPacket(w) PROVE TypeOK'
    <2>1. worker' \in [Workers -> WorkerState]
        BY <1>7, IdleIsWorker, GotoType DEF CommitPacket, Done
    <2>2. worker[w].on \in Sessions /\ worker[w].pkt \in Packet
        BY <1>7 DEF CommitPacket, HandlerInv
    <2>3. worker[w].total \in Nat
        BY <1>a DEF WorkerState
    <2>4. packets' \in [Sessions -> SUBSET Packet] /\ count' \in [Sessions -> Nat]
        BY <1>7, <2>2, <2>3 DEF CommitPacket, TypeOK
    <2> QED BY <1>7, <2>1, <2>4 DEF CommitPacket, TypeOK
<1>8. ASSUME NEW w \in Workers, ListPackets(w) PROVE TypeOK'
    <2>0. worker[w].on \in Sessions
        BY <1>8 DEF ListPackets, HandlerInv
    <2>p. packets[worker[w].on] \in SUBSET Packet
        BY <2>0 DEF TypeOK
    <2>1. SeqsOf(packets[worker[w].on]) \subseteq Seqs
        BY <2>p, PacketTypes DEF SeqsOf
    <2>2. [worker[w] EXCEPT !.pc = "promoting",
             !.listed = SeqsOf(packets[worker[w].on])] \in WorkerState
        BY <1>a, <2>1 DEF WorkerState
    <2>3. worker' \in [Workers -> WorkerState]
        BY <1>8, <2>2, IdleIsWorker, GotoType DEF ListPackets, Done
    <2> QED BY <1>8, <2>3 DEF ListPackets, TypeOK
<1>9. ASSUME NEW w \in Workers, PromoteOk(w) \/ PromoteFail(w) PROVE TypeOK'
    <2>1. worker' \in [Workers -> WorkerState]
        BY <1>9, IdleIsWorker, GotoType DEF PromoteOk, PromoteFail, Done
    <2>2. /\ worker[w].on \in Sessions
          /\ worker[w].listed \in SUBSET Seqs
        BY <1>9, <1>a DEF PromoteOk, PromoteFail, HandlerInv, WorkerState
    <2>3. \A lost : Written(worker[w].on, worker[w].listed, lost)
                       \in [Sessions -> [Seqs -> Nat]]
        BY <2>2, WrittenType
    <2>4. rows' \in [Sessions -> [Seqs -> Nat]]
        BY <1>9, <2>3 DEF PromoteOk, PromoteFail, TypeOK
    <2> QED BY <1>9, <2>1, <2>2, <2>4 DEF PromoteOk, PromoteFail, TypeOK
<1>10. ASSUME NEW s \in Sessions, NEW d \in Devices, NEW n \in Seqs,
              NEW c \in BOOLEAN, Import(s, d, n, c) \/ Replay(s, d, n, c)
       PROVE TypeOK'
    <2>1. n \in Nat /\ n \in 0..MaxSeq /\ 1..n \in SUBSET Seqs
        BY NumbersAssumption
    <2>2. Chain(n) \subseteq Packet
        BY <2>1, ChainIsPackets
    <2>3. packets' \in [Sessions -> SUBSET Packet] /\ count' \in [Sessions -> Nat]
        <3>1. Whole(s, n)
            BY <1>10 DEF Import, Replay
        <3>2. packets' = [packets EXCEPT ![s] = Chain(n)]
            BY <3>1 DEF Whole
        <3>3. count' = [count EXCEPT ![s] = n]
            BY <3>1 DEF Whole
        <3>4. packets' \in [Sessions -> SUBSET Packet]
            BY <2>2, <3>2 DEF TypeOK
        <3>5. count' \in [Sessions -> Nat]
            BY <2>1, <3>3 DEF TypeOK
        <3> QED BY <3>4, <3>5
    <2>4. \A lost : Written(s, 1..n, lost) \in [Sessions -> [Seqs -> Nat]]
        BY <2>1, WrittenType
    <2>e. envelope' \in [Sessions -> SUBSET Seqs]
        BY <1>10, <2>1 DEF Import, Replay, TypeOK
    <2>r. rows' \in [Sessions -> [Seqs -> Nat]]
        <3>1. rows' = rows \/ \E lost : rows' = Written(s, 1..n, lost)
            BY <1>10 DEF Import, Replay
        <3> QED BY <2>4, <3>1 DEF TypeOK
    <2>5. /\ rows' \in [Sessions -> [Seqs -> Nat]]
          /\ envelope' \in [Sessions -> SUBSET Seqs]
        BY <2>e, <2>r
    <2>6. \E st \in {"ENDED"}, sy \in {"PENDING", "SYNCED"} : NewRow(s, st, sy, d, c)
        BY <1>10 DEF Import, Replay
    <2>7. /\ status' \in [Sessions -> Statuses \cup {"NONE", "DELETED"}]
          /\ sync' \in [Sessions -> SyncStatuses]
          /\ device' \in [Sessions -> Devices \cup {NoDevice}]
          /\ clears' \in [Sessions -> BOOLEAN]
        BY <2>6 DEF NewRow, TypeOK
    <2>8. worker' = worker /\ kills' = kills
        BY <1>10 DEF Import, Replay
    <2> QED BY <2>3, <2>5, <2>7, <2>8 DEF TypeOK
<1>11. ASSUME NEW s \in Sessions, Abort(s) PROVE TypeOK'
    BY <1>11 DEF Abort, TypeOK
<1> QED BY <1>1, <1>2, <1>3, <1>4, <1>5, <1>6, <1>7, <1>8, <1>9, <1>10, <1>11
           DEF Handle, Start, Append, End

LEMMA TypeStep == LogInv /\ [Next]_vars => TypeOK'
<1> SUFFICES ASSUME LogInv, [Next]_vars PROVE TypeOK'
    OBVIOUS
<1>t. TypeOK
    BY DEF LogInv
<1>1. ASSUME NEW s \in Sessions, NEW st \in Statuses, NEW sy \in SyncStatuses,
             NEW d \in Devices, NEW c \in BOOLEAN, Amend(s, st, sy, d, c)
      PROVE  TypeOK'
    BY <1>t, <1>1 DEF Amend, Amends, TypeOK
<1>2. ASSUME NEW s \in Sessions, Delete(s) PROVE TypeOK'
    BY <1>t, <1>2 DEF Delete, Amends, TypeOK
<1>3. CASE UNCHANGED vars
    BY <1>t, <1>3 DEF vars, TypeOK
<1> QED BY <1>1, <1>2, <1>3, TypeHandle DEF Next, Step, AdminForm

----------------------------------------------------------------------------
(* The inductive invariant.                                                *)

(* A step that only moves one process keeps it, if what the process does   *)
(* next is about a row that exists and its insert has a number of its own. *)
LEMMA MoveStep ==
    ASSUME LogInv, NEW w \in Workers, NEW state, Goto(w, state), TypeOK',
           UNCHANGED <<sessionVars, packets, envelope, rows, amended>>,
           HandlerInv(w)',
           state.pc = "inserted" => ~Taken(w)' /\ ~HeldBack(w)'
    PROVE  LogInv'
<1> USE DEF LogInv
<1>1. worker'[w] = state /\ \A v \in Workers \ {w} : worker'[v] = worker[v]
    BY GotoOnly
<1>2. SequencesUnique' /\ AttestsReceivedPackets' /\ NoRowIsUntouched'
    BY DEF SequencesUnique, AttestsReceivedPackets, NoRowIsUntouched, Untouched
<1>3. \A v \in Workers : HandlerInv(v)'
    BY <1>1 DEF HandlerInv
<1>4. ASSUME NEW v \in Workers, worker'[v].pc = "inserted"
      PROVE  ~Taken(v)' /\ ~HeldBack(v)'
    <2>1. CASE v = w
        BY <1>1, <1>4, <2>1
    <2>2. CASE v # w
        <3>1. worker'[v] = worker[v] /\ ~Taken(v) /\ ~HeldBack(v)
            BY <1>1, <1>4, <2>2 DEF InsertsAreFree
        <3>2. ~Taken(v)'
            BY <3>1 DEF Taken
        <3>3. ASSUME HeldBack(v)' PROVE FALSE
            <4>1. PICK u \in Workers \ {v} :
                     /\ worker'[u].pc = "inserted"
                     /\ worker'[u].on = worker'[v].on
                     /\ worker'[u].pkt.seq = worker'[v].pkt.seq
                BY <3>3 DEF HeldBack
            <4>2. CASE u = w
                <5>1. ~HeldBack(w)'
                    BY <1>1, <4>1, <4>2
                <5> QED BY <5>1, <1>4, <2>2, <4>1, <4>2 DEF HeldBack
            <4>3. CASE u # w
                BY <1>1, <3>1, <4>1, <4>3 DEF HeldBack
            <4> QED BY <4>2, <4>3
        <3> QED BY <3>2, <3>3
    <2> QED BY <2>1, <2>2
<1>5. InsertsAreFree'
    BY <1>4 DEF InsertsAreFree
<1> QED BY <1>2, <1>3, <1>5

(* A new row changes nothing about the others, and no handler is on it.    *)
LEMMA NewRowStep ==
    ASSUME LogInv, NEW s \in Sessions, status[s] = "NONE",
           status' \in [Sessions -> Statuses \cup {"NONE", "DELETED"}],
           status'[s] # "NONE", UNCHANGED amended,
           \A t \in Sessions \ {s} :
              /\ status'[t] = status[t] /\ sync'[t] = sync[t]
              /\ packets'[t] = packets[t] /\ envelope'[t] = envelope[t]
              /\ \A n \in Seqs : rows'[t][n] = rows[t][n] \/ rows'[t][n] = 0,
           \A p, q \in packets'[s] : p.seq = q.seq => p = q,
           envelope'[s] \subseteq SeqsOf(packets'[s]),
           sync'[s] = "SYNCED" => envelope'[s] # {},
           TypeOK'
    PROVE  /\ SequencesUnique' /\ AttestsReceivedPackets' /\ NoRowIsUntouched'
           /\ worker' = worker => InsertsAreFree'
           /\ worker' = worker => \A w \in Workers : HandlerInv(w)'
<1> USE DEF LogInv
<1>1. SequencesUnique'
    BY DEF SequencesUnique
<1>2. AttestsReceivedPackets'
    BY DEF AttestsReceivedPackets
<1>3. NoRowIsUntouched'
    BY DEF NoRowIsUntouched, Untouched
<1>4. ASSUME NEW w \in Workers, worker[w].pc \notin {"idle", "starting"}
      PROVE  worker[w].on \in Sessions \ {s}
    BY <1>4 DEF HandlerInv
<1>5. ASSUME worker' = worker, NEW w \in Workers PROVE HandlerInv(w)'
    BY <1>4, <1>5 DEF HandlerInv
<1>6. ASSUME worker' = worker, NEW w \in Workers, worker[w].pc = "inserted"
      PROVE  ~Taken(w)' /\ ~HeldBack(w)'
    <2>1. ~Taken(w) /\ ~HeldBack(w)
        BY <1>6 DEF InsertsAreFree
    <2>2. packets'[worker[w].on] = packets[worker[w].on]
        BY <1>4, <1>6
    <2> QED BY <1>6, <2>1, <2>2 DEF Taken, HeldBack
<1>7. worker' = worker => InsertsAreFree'
    BY <1>6 DEF InsertsAreFree
<1> QED BY <1>1, <1>2, <1>3, <1>5, <1>7

LEMMA ChainFacts ==
    ASSUME NEW n \in Seqs
    PROVE  /\ SeqsOf(Chain(n)) = 1..n
           /\ \A p, q \in Chain(n) : p.seq = q.seq => p = q
           /\ 1..n # {}
<1>1. n \in Nat /\ 1 \in 1..n
    BY NumbersAssumption
<1>2. \A p \in Chain(n) : p.seq \in 1..n
    BY DEF Chain
<1>3. SeqsOf(Chain(n)) = 1..n
    <2>1. SeqsOf(Chain(n)) \subseteq 1..n
        BY <1>2 DEF SeqsOf
    <2>2. ASSUME NEW k \in 1..n PROVE k \in SeqsOf(Chain(n))
        <3>1. [seq |-> k, prev |-> k - 1] \in Chain(n)
            BY DEF Chain
        <3>2. [seq |-> k, prev |-> k - 1].seq = k
            OBVIOUS
        <3> QED BY <3>1, <3>2 DEF SeqsOf
    <2> QED BY <2>1, <2>2
<1>4. \A p, q \in Chain(n) : p.seq = q.seq => p = q
    BY DEF Chain
<1> QED BY <1>1, <1>3, <1>4

LEMMA LogHandle ==
    ASSUME LogInv, Handle, UNCHANGED amended PROVE LogInv'
<1>t. TypeOK' /\ TypeOK
    BY TypeHandle DEF LogInv
<1>a. \A w \in Workers : worker[w] \in WorkerState
    BY <1>t DEF TypeOK
<1>1. ASSUME NEW w \in Workers, NEW d \in Devices, StartCheck(w, d) PROVE LogInv'
    <2>1. worker'[w] = [Idle EXCEPT !.pc = "starting", !.dev = d]
        BY <1>1, <1>t, GotoOnly DEF StartCheck
    <2>2. HandlerInv(w)'
        BY <2>1 DEF HandlerInv, Idle
    <2> QED BY <1>1, <1>t, <2>2, MoveStep DEF StartCheck, Idle
<1>2. ASSUME NEW w \in Workers, NEW s \in Sessions, NEW c \in BOOLEAN,
             StartCreate(w, s, c)
      PROVE LogInv'
    <2>1. /\ worker'[w] = Idle
          /\ \A v \in Workers \ {w} : worker'[v] = worker[v]
        BY <1>2, <1>t, GotoOnly DEF StartCreate, Done
    <2>2. /\ status' = [status EXCEPT ![s] = "OPEN"]
          /\ sync' = [sync EXCEPT ![s] = "PENDING"]
          /\ status[s] = "NONE"
          /\ UNCHANGED <<packets, envelope, rows>>
        BY <1>2 DEF StartCreate, NewRow
    <2>3. packets[s] = {} /\ envelope[s] = {}
        BY <2>2 DEF LogInv, NoRowIsUntouched, Untouched
    <2>4. /\ status'[s] = "OPEN" /\ sync'[s] = "PENDING"
          /\ \A t \in Sessions \ {s} : status'[t] = status[t] /\ sync'[t] = sync[t]
        BY <1>t, <2>2 DEF TypeOK
    <2>5. SequencesUnique' /\ AttestsReceivedPackets' /\ NoRowIsUntouched'
        BY <1>t, <2>2, <2>3, <2>4, NewRowStep DEF TypeOK
    <2>6. ASSUME NEW v \in Workers PROVE HandlerInv(v)'
        BY <2>1, <2>2, <2>4 DEF LogInv, HandlerInv, Idle
    <2>7. ASSUME NEW v \in Workers, worker'[v].pc = "inserted"
          PROVE  ~Taken(v)' /\ ~HeldBack(v)'
        <3>1. v # w /\ worker'[v] = worker[v]
            BY <2>1, <2>7 DEF Idle
        <3>2. ~Taken(v) /\ ~HeldBack(v)
            BY <2>7, <3>1 DEF LogInv, InsertsAreFree
        <3> QED BY <2>1, <2>2, <3>1, <3>2 DEF Taken, HeldBack, Idle
    <2> QED BY <1>t, <2>5, <2>6, <2>7 DEF LogInv, InsertsAreFree
<1>3. ASSUME NEW w \in Workers, NEW s \in Sessions,
             AppendFetch(w, s) \/ EndFetch(w, s)
      PROVE LogInv'
    <2>1. PICK pc \in {"appending", "ending"} :
             Goto(w, [Idle EXCEPT !.pc = pc, !.on = s])
        BY <1>3 DEF AppendFetch, EndFetch
    <2>2. worker'[w] = [Idle EXCEPT !.pc = pc, !.on = s]
        BY <1>t, <2>1, GotoOnly
    <2>3. UNCHANGED <<sessionVars, packets, envelope, rows>> /\ status[s] # "NONE"
        BY <1>3 DEF AppendFetch, EndFetch
    <2>4. HandlerInv(w)'
        BY <2>2, <2>3 DEF HandlerInv, Idle
    <2> QED BY <1>t, <2>1, <2>3, <2>4, MoveStep DEF Idle
<1>4. ASSUME NEW w \in Workers, ReadTail(w) PROVE LogInv'
    <2>1. PICK n \in Seqs :
             Goto(w, [worker[w] EXCEPT !.pc = "linking",
                        !.pkt = [seq |-> n, prev |-> Last(packets[worker[w].on])]])
        BY <1>4, NumbersAssumption DEF ReadTail
    <2> DEFINE pk == [seq |-> n, prev |-> Last(packets[worker[w].on])]
    <2>2. worker[w].on \in Sessions /\ status[worker[w].on] # "NONE"
        BY <1>4 DEF ReadTail, LogInv, HandlerInv
    <2>3. pk \in Packet
        BY <1>t, <2>2, LastIsLargest DEF TypeOK, Packet
    <2>4. worker'[w] = [worker[w] EXCEPT !.pc = "linking", !.pkt = pk]
        BY <1>t, <2>1, GotoOnly
    <2> HIDE DEF pk
    <2>5. worker'[w].pc = "linking" /\ worker'[w].pkt = pk /\ worker'[w].on = worker[w].on
        BY <1>a, <2>4 DEF WorkerState
    <2>6. UNCHANGED <<sessionVars, packets, envelope, rows>>
        BY <1>4 DEF ReadTail
    <2>7. HandlerInv(w)'
        BY <2>2, <2>3, <2>5, <2>6 DEF HandlerInv
    <2> QED BY <1>t, <2>1, <2>4, <2>5, <2>6, <2>7, MoveStep DEF pk
<1>5. ASSUME NEW w \in Workers, Insert(w) PROVE LogInv'
    <2> DEFINE st == [worker[w] EXCEPT !.pc = "inserted",
                    !.total = Cardinality(packets[worker[w].on]) + 1]
    <2>1. Goto(w, st) /\ worker[w].pc = "linking" /\ ~Taken(w) /\ ~HeldBack(w)
        BY <1>5 DEF Insert
    <2>2. worker'[w] = st /\ \A v \in Workers \ {w} : worker'[v] = worker[v]
        BY <1>t, <2>1, GotoOnly
    <2>3. /\ worker'[w].pc = "inserted" /\ worker'[w].on = worker[w].on
          /\ worker'[w].pkt = worker[w].pkt
        BY <1>a, <2>2 DEF WorkerState
    <2>4. UNCHANGED <<sessionVars, packets, envelope, rows>>
        BY <1>5 DEF Insert
    <2>5. HandlerInv(w)'
        BY <2>1, <2>3, <2>4 DEF LogInv, HandlerInv
    <2>6. ~Taken(w)' /\ ~HeldBack(w)'
        BY <2>1, <2>2, <2>3, <2>4 DEF Taken, HeldBack
    <2> HIDE DEF st
    <2> QED BY <1>t, <2>1, <2>4, <2>5, <2>6, MoveStep
<1>6. ASSUME NEW w \in Workers, Refuse(w) \/ Vanished(w) \/ Kill(w) PROVE LogInv'
    <2>1. Goto(w, Idle) /\ UNCHANGED <<sessionVars, packets, envelope, rows>>
        BY <1>6 DEF Refuse, Vanished, Kill, Done
    <2>2. worker'[w] = Idle
        BY <1>t, <2>1, GotoOnly
    <2>3. HandlerInv(w)'
        BY <2>2 DEF HandlerInv, Idle
    <2> QED BY <1>t, <2>1, <2>3, MoveStep DEF Idle
<1>7. ASSUME NEW w \in Workers, CommitPacket(w) PROVE LogInv'
    <2> DEFINE s == worker[w].on
               p == worker[w].pkt
    <2>1. /\ worker'[w] = Idle
          /\ \A v \in Workers \ {w} : worker'[v] = worker[v]
        BY <1>7, <1>t, GotoOnly DEF CommitPacket, Done
    <2>2. s \in Sessions /\ status[s] # "NONE" /\ p \in Packet
        BY <1>7 DEF CommitPacket, LogInv, HandlerInv
    <2>3. ~Taken(w) /\ ~HeldBack(w)
        BY <1>7 DEF CommitPacket, LogInv, InsertsAreFree
    <2>4. /\ packets'[s] = packets[s] \cup {p}
          /\ \A t \in Sessions \ {s} : packets'[t] = packets[t]
          /\ UNCHANGED <<sessionVars, envelope, rows>>
        BY <1>7, <1>t, <2>2 DEF CommitPacket, TypeOK
    <2>5. p.seq \notin SeqsOf(packets[s])
        BY <2>3 DEF Taken
    <2>6. SequencesUnique'
        BY <2>4, <2>5 DEF LogInv, SequencesUnique, SeqsOf
    <2>7. \A t \in Sessions : SeqsOf(packets[t]) \subseteq SeqsOf(packets'[t])
        BY <2>4 DEF SeqsOf
    <2>8. AttestsReceivedPackets'
        BY <2>4, <2>7 DEF LogInv, AttestsReceivedPackets
    <2>9. NoRowIsUntouched'
        BY <2>2, <2>4 DEF LogInv, NoRowIsUntouched, Untouched
    <2>10. ASSUME NEW v \in Workers PROVE HandlerInv(v)'
        BY <2>1, <2>4, <2>7 DEF LogInv, HandlerInv, Idle
    <2>11. ASSUME NEW v \in Workers, worker'[v].pc = "inserted"
           PROVE  ~Taken(v)' /\ ~HeldBack(v)'
        <3>1. v # w /\ worker'[v] = worker[v] /\ worker[v].pc = "inserted"
            BY <2>1, <2>11 DEF Idle
        <3>2. ~Taken(v) /\ ~HeldBack(v) /\ worker[v].on \in Sessions
            BY <3>1 DEF LogInv, InsertsAreFree, HandlerInv
        <3>3. worker[w].pc = "inserted"
            BY <1>7 DEF CommitPacket
        <3>4. worker[v].on = s => worker[v].pkt.seq # p.seq
            BY <3>1, <3>2, <3>3 DEF HeldBack
        <3>5. ~Taken(v)'
            BY <2>4, <3>1, <3>2, <3>4 DEF Taken, SeqsOf
        <3> QED BY <2>1, <3>1, <3>2, <3>5 DEF HeldBack, Idle
    <2> QED BY <1>t, <2>6, <2>8, <2>9, <2>10, <2>11 DEF LogInv, InsertsAreFree
<1>8. ASSUME NEW w \in Workers, ListPackets(w) PROVE LogInv'
    <2> DEFINE P == packets[worker[w].on]
    <2>1. UNCHANGED <<sessionVars, packets, envelope, rows>> /\ worker[w].pc = "ending"
        BY <1>8 DEF ListPackets
    <2>2. CASE P = {}
        <3>1. Goto(w, Idle)
            BY <1>8, <2>2 DEF ListPackets, Done
        <3>2. worker'[w] = Idle
            BY <1>t, <3>1, GotoOnly
        <3>3. HandlerInv(w)'
            BY <3>2 DEF HandlerInv, Idle
        <3> QED BY <1>t, <2>1, <3>1, <3>3, MoveStep DEF Idle
    <2>3. CASE P # {}
        <3> DEFINE st == [worker[w] EXCEPT !.pc = "promoting", !.listed = SeqsOf(P)]
        <3>1. Goto(w, st)
            BY <1>8, <2>3 DEF ListPackets
        <3>2. worker'[w] = st
            BY <1>t, <3>1, GotoOnly
        <3>3. /\ st.pc = "promoting" /\ st.on = worker[w].on
              /\ st.listed = SeqsOf(P)
            BY <1>a DEF WorkerState
        <3>4. SeqsOf(P) # {}
            BY <2>3 DEF SeqsOf
        <3> HIDE DEF st
        <3>5. HandlerInv(w)'
            BY <2>1, <3>2, <3>3, <3>4 DEF LogInv, HandlerInv
        <3> QED BY <1>t, <2>1, <3>1, <3>3, <3>5, MoveStep
    <2> QED BY <2>2, <2>3
<1>9. ASSUME NEW w \in Workers, PromoteOk(w) \/ PromoteFail(w) PROVE LogInv'
    <2> DEFINE s == worker[w].on
    <2>1. /\ worker'[w] = Idle
          /\ \A v \in Workers \ {w} : worker'[v] = worker[v]
        BY <1>9, <1>t, GotoOnly DEF PromoteOk, PromoteFail, Done
    <2>2. /\ s \in Sessions /\ status[s] # "NONE" /\ status[s] # "DELETED"
          /\ worker[w].listed \subseteq SeqsOf(packets[s]) /\ worker[w].listed # {}
        BY <1>9 DEF PromoteOk, PromoteFail, LogInv, HandlerInv
    <2>3. /\ status'[s] = "ENDED" /\ UNCHANGED packets
          /\ \A t \in Sessions \ {s} : status'[t] = status[t] /\ sync'[t] = sync[t]
          /\ \A t \in Sessions \ {s} : envelope'[t] = envelope[t]
        BY <1>9, <1>t, <2>2 DEF PromoteOk, PromoteFail, TypeOK
    <2>4. \/ sync'[s] = "FAILED" /\ envelope'[s] = envelope[s]
          \/ envelope'[s] = worker[w].listed
        BY <1>9, <1>t, <2>2 DEF PromoteOk, PromoteFail, TypeOK
    <2>5. AttestsReceivedPackets'
        BY <2>2, <2>3, <2>4 DEF LogInv, AttestsReceivedPackets
    <2>6. \A t \in Sessions \ {s} : status[t] = "NONE" => Untouched(t)'
        <3>1. CASE PromoteFail(w)
            BY <2>3, <3>1 DEF PromoteFail, LogInv, NoRowIsUntouched, Untouched
        <3>2. CASE PromoteOk(w)
            <4>1. PICK lost : rows' = Written(s, worker[w].listed, lost)
                BY <3>2 DEF PromoteOk
            <4> HIDE DEF Seqs
            <4>p. worker[w].listed \in SUBSET Seqs
                BY <1>a DEF WorkerState
            <4>2. ASSUME NEW t \in Sessions \ {s}, NEW n \in Seqs, rows[t][n] = 0
                  PROVE  rows'[t][n] = 0
                BY <1>t, <2>2, <4>1, <4>2, <4>p, WrittenElsewhere
            <4>3. \A t \in Sessions \ {s} :
                     (\A n \in Seqs : rows[t][n] = 0) => \A n \in Seqs : rows'[t][n] = 0
                BY <4>2
            <4> QED BY <2>3, <4>3 DEF LogInv, NoRowIsUntouched, Untouched
        <3> QED BY <1>9, <3>1, <3>2
    <2>7. NoRowIsUntouched'
        BY <2>3, <2>6 DEF NoRowIsUntouched
    <2>8. SequencesUnique'
        BY <2>3 DEF LogInv, SequencesUnique
    <2>9. ASSUME NEW v \in Workers PROVE HandlerInv(v)'
        BY <2>1, <2>2, <2>3 DEF LogInv, HandlerInv, Idle
    <2>10. ASSUME NEW v \in Workers, worker'[v].pc = "inserted"
           PROVE  ~Taken(v)' /\ ~HeldBack(v)'
        <3>1. v # w /\ worker'[v] = worker[v]
            BY <2>1, <2>10 DEF Idle
        <3>2. ~Taken(v) /\ ~HeldBack(v)
            BY <2>10, <3>1 DEF LogInv, InsertsAreFree
        <3> QED BY <2>1, <2>3, <3>1, <3>2 DEF Taken, HeldBack, Idle
    <2> QED BY <1>t, <2>5, <2>7, <2>8, <2>9, <2>10 DEF LogInv, InsertsAreFree
<1>10. ASSUME NEW s \in Sessions, NEW d \in Devices, NEW n \in Seqs,
              NEW c \in BOOLEAN, Import(s, d, n, c) \/ Replay(s, d, n, c)
       PROVE LogInv'
    <2>1. \E sy \in {"PENDING", "SYNCED"} : NewRow(s, "ENDED", sy, d, c)
        BY <1>10 DEF Import, Replay
    <2>2. /\ status[s] = "NONE" /\ status'[s] = "ENDED"
          /\ \A t \in Sessions \ {s} : status'[t] = status[t] /\ sync'[t] = sync[t]
        BY <1>t, <2>1 DEF NewRow, TypeOK
    <2>3. packets' = [packets EXCEPT ![s] = Chain(n)] /\ worker' = worker
        BY <1>10 DEF Import, Replay, Whole
    <2>4. /\ packets'[s] = Chain(n)
          /\ \A t \in Sessions \ {s} : packets'[t] = packets[t]
        BY <1>t, <2>3 DEF TypeOK
    <2>5. /\ \A t \in Sessions \ {s} : envelope'[t] = envelope[t]
          /\ envelope'[s] = {} \/ envelope'[s] = 1..n
          /\ sync'[s] = "SYNCED" => envelope'[s] = 1..n
        <3>1. CASE Import(s, d, n, c)
            <4>1. sync'[s] = "PENDING" /\ envelope[s] = {}
                BY <1>t, <2>2, <3>1
                DEF Import, NewRow, TypeOK, LogInv, NoRowIsUntouched, Untouched
            <4> QED BY <3>1, <4>1 DEF Import
        <3>2. CASE Replay(s, d, n, c)
            BY <1>t, <3>2 DEF Replay, TypeOK
        <3> QED BY <1>10, <3>1, <3>2
    <2>6. \A t \in Sessions \ {s} :
             \A m \in Seqs : rows'[t][m] = rows[t][m] \/ rows'[t][m] = 0
        <3>1. CASE Import(s, d, n, c)
            BY <3>1 DEF Import
        <3>2. CASE Replay(s, d, n, c)
            <4>1. PICK lost : rows' = Written(s, 1..n, lost)
                BY <3>2 DEF Replay
            <4> DEFINE P == 1..n
            <4>3. P \in SUBSET Seqs /\ rows' = Written(s, P, lost)
                BY <4>1, NumbersAssumption
            <4> HIDE DEF P, Seqs
            <4>4. ASSUME NEW t \in Sessions \ {s}, NEW m \in Seqs
                  PROVE  \/ Written(s, P, lost)[t][m] = rows[t][m]
                         \/ Written(s, P, lost)[t][m] = 0
                BY <1>t, <4>3, WrittenElsewhere
            <4> QED BY <4>3, <4>4
        <3> QED BY <1>10, <3>1, <3>2
    <2>7. status' \in [Sessions -> Statuses \cup {"NONE", "DELETED"}]
        BY <1>t DEF TypeOK
    <2> HIDE DEF Seqs
    <2>8. /\ SequencesUnique' /\ AttestsReceivedPackets' /\ NoRowIsUntouched'
          /\ InsertsAreFree' /\ \A w \in Workers : HandlerInv(w)'
        <3>1. /\ \A p, q \in packets'[s] : p.seq = q.seq => p = q
              /\ SeqsOf(packets'[s]) = 1..n /\ 1..n # {}
            BY <2>4, ChainFacts DEF Seqs
        <3>2. /\ envelope'[s] \subseteq SeqsOf(packets'[s])
              /\ sync'[s] = "SYNCED" => envelope'[s] # {}
            BY <2>5, <3>1
        <3>3. status'[s] # "NONE"
            BY <2>2
        <3>4. \A t \in Sessions \ {s} :
                /\ status'[t] = status[t] /\ sync'[t] = sync[t]
                /\ packets'[t] = packets[t] /\ envelope'[t] = envelope[t]
                /\ \A m \in Seqs : rows'[t][m] = rows[t][m] \/ rows'[t][m] = 0
            BY <2>2, <2>4, <2>5, <2>6
        <3> QED BY <1>t, <2>2, <2>3, <2>7, <3>1, <3>2, <3>3, <3>4, NewRowStep DEF Seqs
    <2> QED BY <1>t, <2>8 DEF LogInv
<1>11. ASSUME NEW s \in Sessions, Abort(s) PROVE LogInv'
    <2>1. /\ status' = [status EXCEPT ![s] = "ABORTED"] /\ status[s] = "OPEN"
          /\ UNCHANGED <<sync, packets, envelope, rows, worker>>
        BY <1>11 DEF Abort
    <2>2. \A t \in Sessions : (status'[t] = "NONE") <=> (status[t] = "NONE")
        BY <1>t, <2>1 DEF TypeOK
    <2>3. NoRowIsUntouched'
        BY <2>1, <2>2 DEF LogInv, NoRowIsUntouched, Untouched
    <2>4. \A v \in Workers : HandlerInv(v)'
        BY <2>1, <2>2 DEF LogInv, HandlerInv
    <2>5. SequencesUnique' /\ AttestsReceivedPackets' /\ InsertsAreFree'
        BY <2>1 DEF LogInv, SequencesUnique, AttestsReceivedPackets, InsertsAreFree,
                    Taken, HeldBack
    <2> QED BY <1>t, <2>3, <2>4, <2>5 DEF LogInv
<1> QED BY <1>1, <1>2, <1>3, <1>4, <1>5, <1>6, <1>7, <1>8, <1>9, <1>10, <1>11
           DEF Handle, Start, Append, End

(* What the admin form leaves of one session.                              *)
LEMMA LogAmended ==
    ASSUME LogInv, TypeOK', NEW s \in Sessions, status[s] \in Statuses,
           status'[s] # "NONE", amended'[s] # 0,
           \A t \in Sessions \ {s} :
              /\ status'[t] = status[t] /\ sync'[t] = sync[t]
              /\ packets'[t] = packets[t] /\ envelope'[t] = envelope[t]
              /\ amended'[t] = amended[t],
           \/ UNCHANGED <<packets, envelope>> /\ status'[s] \in Statuses
           \/ packets'[s] = {} /\ envelope'[s] = {} /\ status'[s] = "DELETED",
           UNCHANGED <<rows, worker>>
    PROVE  LogInv'
<1> USE DEF LogInv
<1>1. SequencesUnique'
    BY DEF SequencesUnique
<1>2. \A t \in Sessions : envelope'[t] \subseteq SeqsOf(packets'[t])
    BY DEF AttestsReceivedPackets
<1>3. AttestsReceivedPackets'
    BY <1>2 DEF AttestsReceivedPackets
<1>4. NoRowIsUntouched'
    BY DEF NoRowIsUntouched, Untouched
<1>5. ASSUME NEW v \in Workers PROVE HandlerInv(v)'
    BY DEF HandlerInv
<1>6. ASSUME NEW v \in Workers, worker'[v].pc = "inserted"
      PROVE  ~Taken(v)' /\ ~HeldBack(v)'
    <2>1. ~Taken(v) /\ ~HeldBack(v) /\ worker[v].on \in Sessions
        BY <1>6 DEF InsertsAreFree, HandlerInv
    <2>2. packets'[worker[v].on] \subseteq packets[worker[v].on]
        BY <2>1
    <2> QED BY <2>1, <2>2 DEF Taken, HeldBack, SeqsOf
<1> QED BY <1>1, <1>3, <1>4, <1>5, <1>6 DEF InsertsAreFree

LEMMA LogStep == LogInv /\ [Next]_vars => LogInv'
<1> SUFFICES ASSUME LogInv, [Next]_vars PROVE LogInv'
    OBVIOUS
<1>t. TypeOK' /\ TypeOK
    BY TypeStep DEF LogInv
<1>1. ASSUME NEW s \in Sessions, NEW st \in Statuses, NEW sy \in SyncStatuses,
             NEW d \in Devices, NEW c \in BOOLEAN, Amend(s, st, sy, d, c)
      PROVE  LogInv'
    BY <1>t, <1>1, LogAmended DEF Amend, Amends, TypeOK
<1>2. ASSUME NEW s \in Sessions, Delete(s) PROVE LogInv'
    BY <1>t, <1>2, LogAmended DEF Delete, Amends, TypeOK
<1>3. CASE UNCHANGED vars
    BY <1>t, <1>3
    DEF vars, LogInv, SequencesUnique, AttestsReceivedPackets, InsertsAreFree, Taken,
        HeldBack, NoRowIsUntouched, Untouched, HandlerInv
<1> QED BY <1>1, <1>2, <1>3, LogHandle DEF Next, Step, AdminForm

(* services.append_packet under any interleaving of processes and kills:   *)
(* a number is never used twice in one log, and what a promotion attests   *)
(* was received.                                                           *)
THEOREM LogInvariant == Spec => [](LogInv /\ SequencesUnique /\ AttestsReceivedPackets)
<1>1. LogInv => SequencesUnique /\ AttestsReceivedPackets
    BY DEF LogInv
<1> QED BY InitLog, LogStep, <1>1, PTL DEF Spec

(* append_packet, end_session, the file import and the replay never alter  *)
(* or drop a received packet, and never reopen a session that was closed,  *)
(* whatever state the admin form left it in before.                        *)
THEOREM AppendOnly == Spec => LogIsAppendOnly
<1> DEFINE Grows == \A s \in Sessions : amended'[s] = amended[s] =>
        /\ packets[s] \subseteq packets'[s]
        /\ status[s] \in Closed => status'[s] \in Closed
<1>1. ASSUME LogInv, Next PROVE Grows
    <2>t. TypeOK
        BY <1>1 DEF LogInv
    <2>1. ASSUME NEW w \in Workers, NEW s \in Sessions, NEW c \in BOOLEAN,
                 StartCreate(w, s, c)
          PROVE Grows
        BY <2>t, <2>1 DEF StartCreate, NewRow, TypeOK
    <2>2. ASSUME NEW w \in Workers, CommitPacket(w) PROVE Grows
        BY <2>t, <2>2 DEF CommitPacket, TypeOK
    <2>3. ASSUME NEW w \in Workers, PromoteOk(w) \/ PromoteFail(w) PROVE Grows
        BY <2>t, <2>3 DEF PromoteOk, PromoteFail, TypeOK
    <2>4. ASSUME NEW s \in Sessions, NEW d \in Devices, NEW n \in Seqs,
                 NEW c \in BOOLEAN, Import(s, d, n, c) \/ Replay(s, d, n, c)
          PROVE Grows
        <3>1. \E sy \in {"PENDING", "SYNCED"} : NewRow(s, "ENDED", sy, d, c)
            BY <2>4 DEF Import, Replay
        <3>2. packets' = [packets EXCEPT ![s] = Chain(n)]
            BY <2>4 DEF Import, Replay, Whole
        <3>3. packets[s] = {}
            BY <1>1, <3>1 DEF NewRow, LogInv, NoRowIsUntouched, Untouched
        <3> QED BY <2>t, <3>1, <3>2, <3>3 DEF NewRow, TypeOK
    <2>5. ASSUME NEW s \in Sessions, Abort(s) PROVE Grows
        BY <2>t, <2>5 DEF Abort, TypeOK
    <2>6. ASSUME UNCHANGED <<sessionVars, packets>> PROVE Grows
        BY <2>6
    <2>7. ASSUME NEW w \in Workers, NEW s \in Sessions,
                 AppendFetch(w, s) \/ EndFetch(w, s)
          PROVE  UNCHANGED <<sessionVars, packets>>
        BY <2>7 DEF AppendFetch, EndFetch
    <2>8. ASSUME NEW w \in Workers,
                 \/ \E d \in Devices : StartCheck(w, d)
                 \/ ReadTail(w) \/ Insert(w) \/ Refuse(w) \/ ListPackets(w)
                 \/ Vanished(w) \/ Kill(w)
          PROVE  UNCHANGED <<sessionVars, packets>>
        BY <2>8 DEF StartCheck, ReadTail, Insert, Refuse, ListPackets, Vanished, Kill
    <2>9. ASSUME NEW s \in Sessions,
                 \/ Delete(s)
                 \/ \E st \in Statuses, sy \in SyncStatuses, d \in Devices,
                       c \in BOOLEAN : Amend(s, st, sy, d, c)
          PROVE  Grows
        <3>1. amended[s] \in Nat /\ amended' = [amended EXCEPT ![s] = @ + 1]
            BY <2>t, <2>9 DEF Delete, Amend, Amends, TypeOK
        <3>2. amended'[s] # amended[s]
            BY <2>t, <3>1 DEF TypeOK
        <3>3. \A t \in Sessions \ {s} : packets'[t] = packets[t] /\ status'[t] = status[t]
            BY <2>t, <2>9 DEF Delete, Amend, TypeOK
        <3> QED BY <3>2, <3>3
    <2> QED BY <1>1, <2>1, <2>2, <2>3, <2>4, <2>5, <2>6, <2>7, <2>8, <2>9
            DEF Next, Step, Handle, AdminForm, Start, Append, End
<1>2. ASSUME LogInv, [Next]_vars PROVE [Grows]_vars
    BY <1>1, <1>2
<1> QED BY InitLog, LogStep, <1>2, PTL DEF Spec, LogIsAppendOnly

----------------------------------------------------------------------------
(* Instruments that let the server number their packets.                   *)

LEMMA LastOfChain ==
    ASSUME NEW k \in 0..MaxSeq
    PROVE  Last(Chain(k)) = k /\ SeqsOf(Chain(k)) = 1..k
<1>1. CASE k = 0
    <2>1. Chain(k) = {}
        BY <1>1 DEF Chain
    <2> QED BY <1>1, <2>1 DEF Last, SeqsOf
<1>2. CASE k # 0
    <2>1. k \in Seqs
        BY <1>2, NumbersAssumption
    <2>2. SeqsOf(Chain(k)) = 1..k /\ 1..k # {} /\ Chain(k) # {}
        BY <2>1, ChainFacts DEF SeqsOf
    <2>3. 1..k \subseteq 0..MaxSeq
        BY NumbersAssumption
    <2>4. Max(1..k) \in 1..k /\ \A n \in 1..k : n <= Max(1..k)
        BY <2>2, <2>3, MaxIsMember, NumbersAssumption
    <2>5. k \in 1..k
        BY <2>1
    <2>6. Max(1..k) = k
        BY <2>4, <2>5
    <2> QED BY <2>2, <2>6 DEF Last
<1> QED BY <1>1, <1>2

LEMMA ChainGrows ==
    ASSUME NEW k \in 0..MaxSeq
    PROVE  Chain(k) \cup {[seq |-> k + 1, prev |-> k]} = Chain(k + 1)
<1>1. \A i \in 1..(k + 1) : i \in 1..k \/ i = k + 1
    BY NumbersAssumption
<1>2. \A i \in 1..k : i \in 1..(k + 1)
    BY NumbersAssumption
<1>3. k + 1 \in 1..(k + 1) /\ (k + 1) - 1 = k
    BY NumbersAssumption
<1> QED BY <1>1, <1>2, <1>3 DEF Chain

(* No handler deletes a session, or brings one back.                       *)
LEMMA HandlersKeepRows ==
    ASSUME TypeOK, \A w \in Workers : HandlerInv(w), Handle
    PROVE  \A s \in Sessions : (status'[s] = "DELETED") <=> (status[s] = "DELETED")
<1> DEFINE Kept == \A s \in Sessions :
                      (status'[s] = "DELETED") <=> (status[s] = "DELETED")
<1>1. ASSUME NEW w \in Workers, NEW s \in Sessions, NEW c \in BOOLEAN,
             StartCreate(w, s, c)
      PROVE Kept
    BY <1>1 DEF StartCreate, NewRow, TypeOK
<1>2. ASSUME NEW w \in Workers, PromoteOk(w) \/ PromoteFail(w) PROVE Kept
    BY <1>2 DEF PromoteOk, PromoteFail, TypeOK
<1>3. ASSUME NEW s \in Sessions, NEW d \in Devices, NEW n \in Seqs,
             NEW c \in BOOLEAN, Import(s, d, n, c) \/ Replay(s, d, n, c)
      PROVE Kept
    BY <1>3 DEF Import, Replay, NewRow, TypeOK
<1>4. ASSUME NEW s \in Sessions, Abort(s) PROVE Kept
    BY <1>4 DEF Abort, TypeOK
<1>5. ASSUME NEW w \in Workers,
             \/ \E d \in Devices : StartCheck(w, d)
             \/ \E s \in Sessions : AppendFetch(w, s) \/ EndFetch(w, s)
             \/ ReadTail(w) \/ Insert(w) \/ Refuse(w) \/ CommitPacket(w)
             \/ ListPackets(w) \/ Vanished(w) \/ Kill(w)
      PROVE Kept
    <2>1. status' = status
        BY <1>5 DEF StartCheck, AppendFetch, EndFetch, ReadTail, Insert, Refuse,
                    CommitPacket, ListPackets, Vanished, Kill
    <2> QED BY <2>1
<1> QED BY <1>1, <1>2, <1>3, <1>4, <1>5 DEF Handle, Start, Append, End

LEMMA ChainHandle ==
    ASSUME Explicit = {}, LogInv, ChainInv, Handle PROVE ChainInv'
<1> DEFINE Link(w) == Present(w) =>
        /\ worker[w].pkt.seq = worker[w].pkt.prev + 1
        /\ worker[w].pkt.prev \in {0} \cup SeqsOf(packets[worker[w].on])
<1>t. TypeOK
    BY DEF LogInv
<1>p. \A s \in Sessions : (status'[s] = "DELETED") <=> (status[s] = "DELETED")
    BY HandlersKeepRows DEF LogInv
<1>a. \A w \in Workers : worker[w] \in WorkerState
    BY <1>t DEF TypeOK
<1>i. \A w \in Workers : worker[w].pc \in {"linking", "inserted"} =>
            /\ Link(w) /\ worker[w].pkt \in Packet
            /\ worker[w].on \in Sessions /\ status[worker[w].on] # "NONE"
    BY DEF ChainInv, LogInv, HandlerInv
(* It is enough that the logs are chains and the links of old are links.   *)
<1>s. ASSUME \A s \in Sessions : \E k \in 0..MaxSeq : packets'[s] = Chain(k),
             \A w \in Workers :
                worker'[w].pc \in {"linking", "inserted"} => Link(w)'
      PROVE ChainInv'
    BY <1>s DEF ChainInv
<1>1. ASSUME NEW w \in Workers, NEW state, Goto(w, state), UNCHANGED packets,
             state.pc \in {"linking", "inserted"} =>
                /\ state.pkt.seq = state.pkt.prev + 1
                /\ state.pkt.prev \in {0} \cup SeqsOf(packets[state.on])
      PROVE  ChainInv'
    <2>1. worker'[w] = state /\ \A v \in Workers \ {w} : worker'[v] = worker[v]
        BY <1>1, <1>t, GotoOnly
    <2>2. ASSUME NEW v \in Workers, worker'[v].pc \in {"linking", "inserted"}
          PROVE  Link(v)'
        BY <1>1, <1>i, <1>p, <2>1, <2>2
    <2>3. \A s \in Sessions : \E k \in 0..MaxSeq : packets'[s] = Chain(k)
        BY <1>1 DEF ChainInv
    <2> QED BY <1>s, <2>2, <2>3
<1>2. ASSUME NEW w \in Workers, Goto(w, Idle), UNCHANGED packets PROVE ChainInv'
    BY <1>1, <1>2 DEF Idle
<1>3. ASSUME NEW w \in Workers, NEW d \in Devices, StartCheck(w, d) PROVE ChainInv'
    BY <1>1, <1>3 DEF StartCheck, Idle
<1>4. ASSUME NEW w \in Workers, NEW s \in Sessions,
             \/ AppendFetch(w, s) \/ EndFetch(w, s)
             \/ \E c \in BOOLEAN : StartCreate(w, s, c)
      PROVE ChainInv'
    BY <1>1, <1>2, <1>4 DEF AppendFetch, EndFetch, StartCreate, Done, Idle
<1>5. ASSUME NEW w \in Workers,
             Refuse(w) \/ Vanished(w) \/ Kill(w) \/ PromoteOk(w) \/ PromoteFail(w)
      PROVE ChainInv'
    BY <1>2, <1>5 DEF Refuse, Vanished, Kill, PromoteOk, PromoteFail, Done
<1>6. ASSUME NEW w \in Workers, ListPackets(w) PROVE ChainInv'
    <2> DEFINE st == [worker[w] EXCEPT !.pc = "promoting",
                                       !.listed = SeqsOf(packets[worker[w].on])]
    <2>1. st.pc = "promoting"
        BY <1>a DEF WorkerState
    <2>2. UNCHANGED packets /\ (Goto(w, Idle) \/ Goto(w, st))
        BY <1>6 DEF ListPackets, Done
    <2> HIDE DEF st
    <2> QED BY <1>1, <1>2, <2>1, <2>2
<1>7. ASSUME NEW w \in Workers, ReadTail(w) PROVE ChainInv'
    <2> DEFINE s == worker[w].on
               last == Last(packets[s])
               pk == [seq |-> last + 1, prev |-> last]
               st == [worker[w] EXCEPT !.pc = "linking", !.pkt = pk]
    <2>1. Goto(w, st) /\ UNCHANGED packets
        BY <1>7 DEF ReadTail
    <2>2. st.on = s /\ st.pkt = pk
        BY <1>a DEF WorkerState
    <2>3. s \in Sessions
        BY <1>7 DEF ReadTail, LogInv, HandlerInv
    <2>4. packets[s] \in SUBSET Packet
        BY <1>t, <2>3 DEF TypeOK
    <2>5. last \in {0} \cup SeqsOf(packets[s])
        BY <2>4, LastIsLargest DEF Last
    <2>6. pk.seq = pk.prev + 1 /\ pk.prev = last
        OBVIOUS
    <2> HIDE DEF st, pk, last
    <2> QED BY <1>1, <2>1, <2>2, <2>5, <2>6
<1>8. ASSUME NEW w \in Workers, Insert(w) PROVE ChainInv'
    <2> DEFINE st == [worker[w] EXCEPT !.pc = "inserted",
                    !.total = Cardinality(packets[worker[w].on]) + 1]
    <2>1. Goto(w, st) /\ UNCHANGED packets /\ worker[w].pc = "linking" /\ Present(w)
        BY <1>8 DEF Insert
    <2>2. st.on = worker[w].on /\ st.pkt = worker[w].pkt
        BY <1>a DEF WorkerState
    <2>3. Link(w)
        BY <1>i, <2>1
    <2> HIDE DEF st
    <2> QED BY <1>1, <2>1, <2>2, <2>3
<1>9. ASSUME NEW w \in Workers, CommitPacket(w) PROVE ChainInv'
    <2> DEFINE s == worker[w].on
               p == worker[w].pkt
    <2>1. /\ worker'[w] = Idle
          /\ \A v \in Workers \ {w} : worker'[v] = worker[v]
        BY <1>9, <1>t, GotoOnly DEF CommitPacket, Done
    <2>2. s \in Sessions /\ p \in Packet /\ Link(w) /\ Present(w)
        BY <1>9, <1>i DEF CommitPacket
    <2>3. /\ packets'[s] = packets[s] \cup {p}
          /\ \A t \in Sessions \ {s} : packets'[t] = packets[t]
        BY <1>9, <1>t, <2>2 DEF CommitPacket, TypeOK
    <2>4. p.seq \notin SeqsOf(packets[s])
        BY <1>9 DEF CommitPacket, LogInv, InsertsAreFree, Taken
    <2>5. PICK k \in 0..MaxSeq : packets[s] = Chain(k)
        BY <2>2 DEF ChainInv
    <2>6. SeqsOf(packets[s]) = 1..k
        BY <2>5, LastOfChain
    <2>7. p.seq \in 1..MaxSeq /\ p.prev \in 0..MaxSeq
        BY <2>2, PacketTypes
    <2>8. p.prev = k /\ p.seq = k + 1
        BY <2>2, <2>4, <2>6, <2>7, NumbersAssumption
    <2>9. p = [seq |-> k + 1, prev |-> k]
        BY <2>2, <2>8 DEF Packet
    <2>10. packets'[s] = Chain(k + 1) /\ k + 1 \in 0..MaxSeq
        BY <2>3, <2>5, <2>7, <2>8, <2>9, ChainGrows, NumbersAssumption
    <2>11. \A t \in Sessions : \E i \in 0..MaxSeq : packets'[t] = Chain(i)
        BY <2>3, <2>10 DEF ChainInv
    <2>12. \A t \in Sessions : SeqsOf(packets[t]) \subseteq SeqsOf(packets'[t])
        BY <2>3 DEF SeqsOf
    <2>13. ASSUME NEW v \in Workers, worker'[v].pc \in {"linking", "inserted"}
           PROVE  Link(v)'
        <3>1. v # w /\ worker'[v] = worker[v]
            BY <2>1, <2>13 DEF Idle
        <3> QED BY <1>i, <1>p, <2>12, <2>13, <3>1
    <2> QED BY <1>s, <2>11, <2>13
<1>10. ASSUME NEW s \in Sessions, NEW d \in Devices, NEW n \in Seqs,
              NEW c \in BOOLEAN, Import(s, d, n, c) \/ Replay(s, d, n, c)
       PROVE ChainInv'
    <2>1. status[s] = "NONE" /\ worker' = worker
        BY <1>10 DEF Import, Replay, NewRow
    <2>2. packets' = [packets EXCEPT ![s] = Chain(n)]
        BY <1>10 DEF Import, Replay, Whole
    <2>3. packets'[s] = Chain(n) /\ \A t \in Sessions \ {s} : packets'[t] = packets[t]
        BY <1>t, <2>2 DEF TypeOK
    <2>4. n \in 0..MaxSeq
        BY NumbersAssumption
    <2>5. \A t \in Sessions : \E k \in 0..MaxSeq : packets'[t] = Chain(k)
        BY <2>3, <2>4 DEF ChainInv
    <2>6. ASSUME NEW v \in Workers, worker'[v].pc \in {"linking", "inserted"}
          PROVE  Link(v)'
        BY <1>i, <1>p, <2>1, <2>3, <2>6
    <2> QED BY <1>s, <2>5, <2>6
<1>11. ASSUME NEW s \in Sessions, Abort(s) PROVE ChainInv'
    <2>1. UNCHANGED <<packets, worker>>
        BY <1>11 DEF Abort
    <2>2. \A t \in Sessions : \E k \in 0..MaxSeq : packets'[t] = Chain(k)
        BY <2>1 DEF ChainInv
    <2> QED BY <1>s, <1>i, <1>p, <2>1, <2>2
<1> QED BY <1>3, <1>4, <1>5, <1>6, <1>7, <1>8, <1>9, <1>10, <1>11
        DEF Handle, Start, Append, End

LEMMA ChainStep ==
    ASSUME Explicit = {}, LogInv, ChainInv, [Next]_vars PROVE ChainInv'
<1>t. TypeOK /\ \A w \in Workers : HandlerInv(w)
    BY DEF LogInv
<1>1. ASSUME NEW s \in Sessions, NEW st \in Statuses, NEW sy \in SyncStatuses,
             NEW d \in Devices, NEW c \in BOOLEAN, Amend(s, st, sy, d, c)
      PROVE  ChainInv'
    <2>1. \A t \in Sessions : (status'[t] = "DELETED") <=> (status[t] = "DELETED")
        BY <1>t, <1>1 DEF Amend, Amends, TypeOK
    <2>2. UNCHANGED <<packets, worker>>
        BY <1>1 DEF Amend
    <2> QED BY <1>t, <2>1, <2>2 DEF ChainInv, HandlerInv
<1>2. ASSUME NEW s \in Sessions, Delete(s) PROVE ChainInv'
    <2>1. /\ packets'[s] = {} /\ status'[s] = "DELETED" /\ worker' = worker
          /\ \A t \in Sessions \ {s} : packets'[t] = packets[t] /\ status'[t] = status[t]
        BY <1>t, <1>2 DEF Delete, TypeOK
    <2>2. {} = Chain(0) /\ 0 \in 0..MaxSeq
        BY NumbersAssumption DEF Chain
    <2>3. \A t \in Sessions : \E k \in 0..MaxSeq : packets'[t] = Chain(k)
        BY <2>1, <2>2 DEF ChainInv
    <2>4. ASSUME NEW w \in Workers, worker'[w].pc \in {"linking", "inserted"}, Present(w)'
          PROVE  worker[w].on \in Sessions \ {s} /\ worker[w].pc \in {"linking", "inserted"}
        BY <1>t, <2>1, <2>4 DEF HandlerInv
    <2> QED BY <2>1, <2>3, <2>4 DEF ChainInv
<1>3. CASE UNCHANGED vars
    BY <1>3 DEF vars, ChainInv
<1> QED BY <1>1, <1>2, <1>3, ChainHandle DEF Next, Step, AdminForm

LEMMA ChainsVerify == LogInv /\ ChainInv => ChainVerifies
<1> SUFFICES ASSUME LogInv, ChainInv, NEW s \in Sessions, NEW p \in packets[s]
             PROVE  p.prev = Last(Below(s, p))
    BY DEF ChainVerifies
<1>1. PICK k \in 0..MaxSeq : packets[s] = Chain(k)
    BY DEF ChainInv
<1>2. PICK i \in 1..k : p = [seq |-> i, prev |-> i - 1]
    BY <1>1 DEF Chain
<1>3. i \in Int /\ k \in Int /\ 1 <= i /\ i <= k /\ k <= MaxSeq
    BY NumbersAssumption
<1>4. i - 1 \in 0..MaxSeq
    BY <1>3, NumbersAssumption
<1>5. Below(s, p) = Chain(i - 1)
    <2>1. \A q \in Chain(k) : q.seq < i => q \in Chain(i - 1)
        BY <1>3 DEF Chain
    <2>2. \A q \in Chain(i - 1) : q \in Chain(k) /\ q.seq < i
        BY <1>3 DEF Chain
    <2> QED BY <1>1, <1>2, <2>1, <2>2 DEF Below
<1> QED BY <1>2, <1>4, <1>5, LastOfChain

(* When devices leave the numbering to append_packet, verify_chain accepts *)
(* every log, however the processes that append to it interleave.          *)
THEOREM NumberedByServerVerifies ==
    ASSUME Explicit = {} PROVE Spec => [](ChainInv /\ ChainVerifies)
<1>1. Init => ChainInv
    <2>1. Chain(0) = {} /\ 0 \in 0..MaxSeq
        BY NumbersAssumption DEF Chain
    <2> QED BY <2>1 DEF Init, ChainInv, Idle
<1>2. LogInv /\ ChainInv /\ [Next]_vars => ChainInv'
    BY ChainStep
<1> QED BY InitLog, LogStep, <1>1, <1>2, ChainsVerify, PTL DEF Spec

----------------------------------------------------------------------------
(* As long as no two requests overlap.                                     *)

HistoryInv == /\ overlapped \in BOOLEAN
              /\ Overlap => overlapped

SoFar == HistoryInv /\ (~overlapped => SerialInv)

LEMMA InitSerial == Init => SerialInv
<1> SUFFICES ASSUME Init PROVE SerialInv
    OBVIOUS
<1>1. \A w \in Workers : worker[w].pc = "idle"
    BY DEF Init, Idle
<1>2. \A s \in Sessions : /\ status[s] = "NONE" /\ sync[s] = "PENDING"
                          /\ \A n \in Seqs : rows[s][n] = 0
    BY DEF Init
<1> QED BY <1>1, <1>2
        DEF SerialInv, OpenOnce, NoDuplicateRows, FailedWroteNothing,
            SyncedCoversEveryPacket, OpenIsPending, DecisionHolds

(* A step that leaves every row alone.                                     *)
LEMMA QuietSerial ==
    ASSUME LogInv, SerialInv,
           UNCHANGED <<sessionVars, packets, envelope, rows, amended>>,
           \A w \in Workers : DecisionHolds(w)'
    PROVE  SerialInv'
BY DEF SerialInv, OpenOnce, NoDuplicateRows, FailedWroteNothing,
       SyncedCoversEveryPacket, OpenIsPending

(* Who moves, moves alone.                                                 *)
LEMMA OthersAreIdle ==
    ASSUME TypeOK, ~Overlap, ~Overlap', NEW w \in Workers, NEW state, Goto(w, state),
           worker[w].pc # "idle" \/ worker'[w].pc # "idle"
    PROVE  \A v \in Workers : v # w => DecisionHolds(v)'
<1>1. \A v \in Workers : v # w => worker'[v].pc = "idle"
    BY GotoOnly DEF Overlap
<1> QED BY <1>1 DEF DecisionHolds

LEMMA SerialHandle ==
    ASSUME ~Overlap, ~Overlap', LogInv, SerialInv, Handle, UNCHANGED amended
    PROVE  SerialInv'
<1>t. TypeOK
    BY DEF LogInv
<1>a. \A w \in Workers : worker[w] \in WorkerState
    BY <1>t DEF TypeOK
<1>o. ASSUME NEW w \in Workers, NEW state, Goto(w, state), DecisionHolds(w)',
             worker[w].pc # "idle" \/ worker'[w].pc # "idle"
      PROVE \A v \in Workers : DecisionHolds(v)'
    BY <1>t, <1>o, OthersAreIdle
<1>i. ASSUME NEW w \in Workers, Goto(w, Idle), worker[w].pc # "idle"
      PROVE \A v \in Workers : DecisionHolds(v)'
    <2>1. worker'[w].pc = "idle"
        BY <1>t, <1>i, GotoOnly DEF Idle
    <2> QED BY <1>i, <1>o, <2>1 DEF DecisionHolds
<1>1. ASSUME NEW w \in Workers, NEW d \in Devices, StartCheck(w, d) PROVE SerialInv'
    <2>1. worker'[w] = [Idle EXCEPT !.pc = "starting", !.dev = d]
        BY <1>1, <1>t, GotoOnly DEF StartCheck
    <2>2. UNCHANGED <<sessionVars, packets, envelope, rows>> /\ ~HasOpenSession(d)
        BY <1>1 DEF StartCheck
    <2>3. DecisionHolds(w)'
        BY <2>1, <2>2 DEF DecisionHolds, HasOpenSession, Idle
    <2>4. Goto(w, [Idle EXCEPT !.pc = "starting", !.dev = d]) /\ worker'[w].pc # "idle"
        BY <1>1, <2>1 DEF StartCheck, Idle
    <2>5. \A v \in Workers : DecisionHolds(v)'
        BY <1>o, <2>3, <2>4
    <2> QED BY <2>2, <2>5, QuietSerial
<1>2. ASSUME NEW w \in Workers, NEW s \in Sessions, NEW c \in BOOLEAN,
             StartCreate(w, s, c)
      PROVE SerialInv'
    <2>1. worker'[w] = Idle /\ worker[w].pc = "starting"
        BY <1>2, <1>t, GotoOnly DEF StartCreate, Done
    <2>2. /\ status[s] = "NONE" /\ status'[s] = "OPEN" /\ sync'[s] = "PENDING"
          /\ device'[s] = worker[w].dev
          /\ \A t \in Sessions \ {s} : /\ status'[t] = status[t] /\ sync'[t] = sync[t]
                                      /\ device'[t] = device[t]
          /\ UNCHANGED <<packets, envelope, rows>>
        BY <1>2, <1>t DEF StartCreate, NewRow, TypeOK, LogInv, HandlerInv
    <2>3. \A t \in Unamended : ~(status[t] = "OPEN" /\ device[t] = worker[w].dev)
        BY <2>1 DEF SerialInv, DecisionHolds
    <2>4. OpenOnce'
        BY <2>2, <2>3 DEF OpenOnce, SerialInv
    <2>5. \A n \in Seqs : rows[s][n] = 0
        BY <2>2 DEF LogInv, NoRowIsUntouched, Untouched
    <2>6. /\ NoDuplicateRows' /\ FailedWroteNothing' /\ SyncedCoversEveryPacket'
          /\ OpenIsPending'
        BY <2>2, <2>5 DEF SerialInv, NoDuplicateRows, FailedWroteNothing,
                          SyncedCoversEveryPacket, OpenIsPending
    <2>7. \A v \in Workers : DecisionHolds(v)'
        BY <1>i, <1>2, <2>1 DEF StartCreate, Done
    <2> QED BY <2>4, <2>6, <2>7 DEF SerialInv
<1>3. ASSUME NEW w \in Workers, NEW s \in Sessions,
             AppendFetch(w, s) \/ EndFetch(w, s)
      PROVE SerialInv'
    <2>1. PICK pc \in {"appending", "ending"} :
             /\ Goto(w, [Idle EXCEPT !.pc = pc, !.on = s])
             /\ pc = "appending" => status[s] = "OPEN"
             /\ pc = "ending" => sync[s] # "SYNCED"
        BY <1>3 DEF AppendFetch, EndFetch
    <2>2. worker'[w] = [Idle EXCEPT !.pc = pc, !.on = s]
        BY <1>t, <2>1, GotoOnly
    <2>3. UNCHANGED <<sessionVars, packets, envelope, rows>>
        BY <1>3 DEF AppendFetch, EndFetch
    <2>4. DecisionHolds(w)'
        BY <2>1, <2>2, <2>3 DEF DecisionHolds, Idle
    <2>5. worker'[w].pc # "idle"
        BY <2>2 DEF Idle
    <2>6. \A v \in Workers : DecisionHolds(v)'
        BY <1>o, <2>1, <2>4, <2>5
    <2> QED BY <2>3, <2>6, QuietSerial
<1>4. ASSUME NEW w \in Workers, ReadTail(w) \/ Insert(w) PROVE SerialInv'
    <2>1. PICK state : /\ Goto(w, state) /\ state.on = worker[w].on
                       /\ state.pc \in {"linking", "inserted"}
        <3>1. CASE ReadTail(w)
            <4>1. PICK pk : Goto(w, [worker[w] EXCEPT !.pc = "linking", !.pkt = pk])
                BY <3>1 DEF ReadTail
            <4>2. /\ [worker[w] EXCEPT !.pc = "linking", !.pkt = pk].on = worker[w].on
                  /\ [worker[w] EXCEPT !.pc = "linking", !.pkt = pk].pc = "linking"
                BY <1>a DEF WorkerState
            <4> QED BY <4>1, <4>2
        <3>2. CASE Insert(w)
            <4> DEFINE m == Cardinality(packets[worker[w].on]) + 1
            <4>1. Goto(w, [worker[w] EXCEPT !.pc = "inserted", !.total = m])
                BY <3>2 DEF Insert
            <4>2. /\ [worker[w] EXCEPT !.pc = "inserted", !.total = m].on = worker[w].on
                  /\ [worker[w] EXCEPT !.pc = "inserted", !.total = m].pc = "inserted"
                BY <1>a DEF WorkerState
            <4> QED BY <4>1, <4>2
        <3> QED BY <1>4, <3>1, <3>2
    <2>2. worker'[w] = state
        BY <1>t, <2>1, GotoOnly
    <2>3. /\ worker[w].pc \in {"appending", "linking"}
          /\ UNCHANGED <<sessionVars, packets, envelope, rows>>
        BY <1>4 DEF ReadTail, Insert
    <2>4. worker[w].on \in Unamended => status[worker[w].on] \in {"OPEN", "ABORTED"}
        BY <2>3 DEF SerialInv, DecisionHolds
    <2>5. DecisionHolds(w)'
        BY <2>1, <2>2, <2>3, <2>4 DEF DecisionHolds
    <2>6. \A v \in Workers : DecisionHolds(v)'
        BY <1>o, <2>1, <2>3, <2>5
    <2> QED BY <2>3, <2>6, QuietSerial
<1>5. ASSUME NEW w \in Workers, Refuse(w) \/ Vanished(w) \/ Kill(w) PROVE SerialInv'
    <2>1. /\ Goto(w, Idle) /\ worker[w].pc # "idle"
          /\ UNCHANGED <<sessionVars, packets, envelope, rows>>
        BY <1>5 DEF Refuse, Vanished, Kill, Done
    <2> QED BY <1>i, <2>1, QuietSerial
<1>6. ASSUME NEW w \in Workers, CommitPacket(w) PROVE SerialInv'
    <2> DEFINE s == worker[w].on
    <2>1. Goto(w, Idle) /\ worker[w].pc # "idle"
        BY <1>6 DEF CommitPacket, Done
    <2>2. /\ s \in Sessions /\ (s \in Unamended => status[s] \in {"OPEN", "ABORTED"})
          /\ UNCHANGED <<sessionVars, envelope, rows>>
        BY <1>6 DEF CommitPacket, SerialInv, DecisionHolds, LogInv, HandlerInv
    <2>3. \A t \in Sessions \ {s} : packets'[t] = packets[t]
        BY <1>6, <1>t, <2>2 DEF CommitPacket, TypeOK
    <2>4. s \in Unamended => sync[s] = "PENDING"
        BY <2>2 DEF SerialInv, OpenIsPending
    <2>5. SyncedCoversEveryPacket'
        BY <2>2, <2>3, <2>4 DEF SerialInv, SyncedCoversEveryPacket
    <2>6. OpenOnce' /\ NoDuplicateRows' /\ FailedWroteNothing' /\ OpenIsPending'
        BY <2>2 DEF SerialInv, OpenOnce, NoDuplicateRows, FailedWroteNothing,
                    OpenIsPending
    <2> QED BY <1>i, <2>1, <2>5, <2>6 DEF SerialInv
<1>7. ASSUME NEW w \in Workers, ListPackets(w) PROVE SerialInv'
    <2> DEFINE P == packets[worker[w].on]
               st == [worker[w] EXCEPT !.pc = "promoting", !.listed = SeqsOf(P)]
    <2>1. /\ UNCHANGED <<sessionVars, packets, envelope, rows>>
          /\ worker[w].pc = "ending" /\ (Goto(w, Idle) \/ Goto(w, st))
        BY <1>7 DEF ListPackets, Done
    <2>2. worker'[w] = Idle \/ worker'[w] = st
        BY <1>t, <2>1, GotoOnly
    <2>3. st.pc = "promoting" /\ st.on = worker[w].on /\ st.listed = SeqsOf(P)
        BY <1>a DEF WorkerState
    <2>4. worker[w].on \in Unamended => sync[worker[w].on] # "SYNCED"
        BY <2>1 DEF SerialInv, DecisionHolds
    <2> HIDE DEF st
    <2>5. DecisionHolds(w)'
        BY <2>1, <2>2, <2>3, <2>4 DEF DecisionHolds, Idle
    <2>6. \A v \in Workers : DecisionHolds(v)'
        BY <1>o, <2>1, <2>5
    <2> QED BY <2>1, <2>6, QuietSerial
<1>8. ASSUME NEW w \in Workers, PromoteOk(w) \/ PromoteFail(w) PROVE SerialInv'
    <2> DEFINE s == worker[w].on
    <2>1. Goto(w, Idle) /\ worker[w].pc = "promoting"
        BY <1>8 DEF PromoteOk, PromoteFail, Done
    <2>2. /\ s \in Sessions
          /\ s \in Unamended => sync[s] # "SYNCED" /\ worker[w].listed = SeqsOf(packets[s])
        BY <2>1 DEF SerialInv, DecisionHolds, LogInv, HandlerInv
    <2>3. /\ status'[s] = "ENDED" /\ UNCHANGED <<device, packets>>
          /\ \A t \in Sessions \ {s} :
                /\ status'[t] = status[t] /\ sync'[t] = sync[t]
                /\ envelope'[t] = envelope[t]
        BY <1>8, <1>t, <2>2 DEF PromoteOk, PromoteFail, TypeOK
    <2>4. s \in Unamended => \A n \in Seqs : rows[s][n] = 0
        BY <2>2 DEF SerialInv, FailedWroteNothing
    <2>5. /\ s \in Unamended =>
                /\ sync'[s] = "SYNCED" =>
                      envelope'[s] = SeqsOf(packets[s]) /\ \A n \in Seqs : rows'[s][n] <= 1
                /\ sync'[s] # "SYNCED" => \A n \in Seqs : rows'[s][n] = 0
          /\ \A t \in Sessions \ {s} : \A n \in Seqs :
                rows'[t][n] = rows[t][n] \/ rows'[t][n] = 0
        <3>1. CASE PromoteOk(w)
            <4>1. PICK lost : rows' = Written(s, worker[w].listed, lost)
                BY <3>1 DEF PromoteOk
            <4>e. envelope'[s] = worker[w].listed /\ sync'[s] = "SYNCED"
                BY <1>t, <2>2, <3>1 DEF PromoteOk, TypeOK
            <4>2. worker[w].listed \in SUBSET Seqs
                BY <1>a DEF WorkerState
            <4> HIDE DEF Seqs, s
            <4>3. ASSUME s \in Unamended PROVE \A n \in Seqs : rows'[s][n] <= 1
                <5>1. \A n \in Seqs : Written(s, worker[w].listed, lost)[s][n] <= 1
                    BY <2>2, <2>4, <4>2, <4>3, WrittenOnce DEF Seqs
                <5> QED BY <4>1, <5>1
            <4>4. ASSUME NEW t \in Sessions \ {s}, NEW n \in Seqs
                  PROVE  rows'[t][n] = rows[t][n] \/ rows'[t][n] = 0
                BY <1>t, <2>2, <4>1, <4>2, WrittenElsewhere
            <4> QED BY <2>2, <4>e, <4>3, <4>4
        <3>2. CASE PromoteFail(w)
            BY <1>t, <2>2, <2>4, <3>2 DEF PromoteFail, TypeOK
        <3> QED BY <1>8, <3>1, <3>2
    <2> HIDE DEF Seqs
    <2>6. OpenOnce'
        BY <2>3 DEF SerialInv, OpenOnce
    <2>7. NoDuplicateRows' /\ FailedWroteNothing'
        <3>1. ASSUME NEW t \in Unamended, NEW n \in Seqs PROVE rows'[t][n] <= 1
            <4>1. CASE t = s
                <5>1. rows'[s][n] <= 1 \/ rows'[s][n] = 0
                    BY <2>5, <3>1, <4>1
                <5> QED BY <4>1, <5>1
            <4>2. CASE t # s
                <5>1. rows[t][n] <= 1 /\ (rows'[t][n] = rows[t][n] \/ rows'[t][n] = 0)
                    BY <2>5, <3>1, <4>2 DEF SerialInv, NoDuplicateRows
                <5> QED BY <5>1
            <4> QED BY <4>1, <4>2
        <3>2. ASSUME NEW t \in Unamended, sync'[t] # "SYNCED"
              PROVE \A n \in Seqs : rows'[t][n] = 0
            BY <2>3, <2>5, <3>2 DEF SerialInv, FailedWroteNothing
        <3> QED BY <3>1, <3>2 DEF NoDuplicateRows, FailedWroteNothing, Seqs
    <2>8. SyncedCoversEveryPacket' /\ OpenIsPending'
        BY <2>3, <2>5 DEF SerialInv, SyncedCoversEveryPacket, OpenIsPending
    <2> QED BY <1>i, <2>1, <2>6, <2>7, <2>8 DEF SerialInv
<1>9. ASSUME NEW s \in Sessions, NEW d \in Devices, NEW n \in Seqs,
             NEW c \in BOOLEAN, Import(s, d, n, c) \/ Replay(s, d, n, c)
      PROVE SerialInv'
    <2>1. /\ status[s] = "NONE" /\ status'[s] = "ENDED" /\ worker' = worker
          /\ \A t \in Sessions \ {s} : /\ status'[t] = status[t] /\ sync'[t] = sync[t]
                                      /\ device'[t] = device[t]
        BY <1>9, <1>t DEF Import, Replay, NewRow, TypeOK
    <2>2. packets' = [packets EXCEPT ![s] = Chain(n)]
        BY <1>9 DEF Import, Replay, Whole
    <2>3. packets'[s] = Chain(n) /\ \A t \in Sessions \ {s} : packets'[t] = packets[t]
        BY <1>t, <2>2 DEF TypeOK
    <2>4. SeqsOf(packets'[s]) = 1..n
        BY <2>3, ChainFacts
    <2>5. \A m \in Seqs : rows[s][m] = 0
        BY <2>1 DEF LogInv, NoRowIsUntouched, Untouched
    <2>6. /\ sync'[s] = "SYNCED" =>
                envelope'[s] = 1..n /\ \A m \in Seqs : rows'[s][m] <= 1
          /\ sync'[s] # "SYNCED" => \A m \in Seqs : rows'[s][m] = 0
          /\ \A t \in Sessions \ {s} :
                /\ \A m \in Seqs : rows'[t][m] = rows[t][m] \/ rows'[t][m] = 0
                /\ envelope'[t] = envelope[t]
        <3>1. CASE Import(s, d, n, c)
            <4>1. sync'[s] = "PENDING" /\ UNCHANGED <<rows, envelope>>
                BY <1>t, <3>1 DEF Import, NewRow, TypeOK
            <4> QED BY <2>5, <4>1
        <3>2. CASE Replay(s, d, n, c)
            <4>1. PICK lost : rows' = Written(s, 1..n, lost)
                BY <3>2 DEF Replay
            <4>2. /\ envelope'[s] = 1..n /\ sync'[s] = "SYNCED"
                  /\ \A t \in Sessions \ {s} : envelope'[t] = envelope[t]
                BY <1>t, <3>2 DEF Replay, NewRow, TypeOK
            <4> DEFINE P == 1..n
            <4>p. rows' = Written(s, P, lost) /\ P \in SUBSET Seqs
                BY <4>1, NumbersAssumption
            <4> HIDE DEF P, Seqs
            <4>3. /\ \A m \in Seqs : rows'[s][m] <= 1
                  /\ \A t \in Sessions \ {s} : \A m \in Seqs :
                        rows'[t][m] = rows[t][m] \/ rows'[t][m] = 0
                <5>1. \A m \in Seqs : Written(s, P, lost)[s][m] <= 1
                    BY <2>5, <4>p, WrittenOnce
                <5>2. ASSUME NEW t \in Sessions \ {s}, NEW m \in Seqs
                      PROVE  \/ Written(s, P, lost)[t][m] = rows[t][m]
                             \/ Written(s, P, lost)[t][m] = 0
                    BY <1>t, <4>p, WrittenElsewhere
                <5> QED BY <4>p, <5>1, <5>2
            <4> QED BY <4>2, <4>3
        <3> QED BY <1>9, <3>1, <3>2
    <2> HIDE DEF Seqs
    <2>7. OpenOnce'
        BY <2>1 DEF SerialInv, OpenOnce
    <2>8. NoDuplicateRows' /\ FailedWroteNothing'
        <3>1. ASSUME NEW t \in Unamended, NEW m \in Seqs PROVE rows'[t][m] <= 1
            <4>1. CASE t = s
                <5>1. rows'[s][m] <= 1 \/ rows'[s][m] = 0
                    BY <2>6
                <5> QED BY <4>1, <5>1
            <4>2. CASE t # s
                <5>1. rows[t][m] <= 1 /\ (rows'[t][m] = rows[t][m] \/ rows'[t][m] = 0)
                    BY <2>6, <3>1, <4>2 DEF SerialInv, NoDuplicateRows
                <5> QED BY <5>1
            <4> QED BY <4>1, <4>2
        <3>2. ASSUME NEW t \in Unamended, sync'[t] # "SYNCED"
              PROVE \A m \in Seqs : rows'[t][m] = 0
            BY <2>1, <2>6, <3>2 DEF SerialInv, FailedWroteNothing
        <3> QED BY <3>1, <3>2 DEF NoDuplicateRows, FailedWroteNothing, Seqs
    <2>9. SyncedCoversEveryPacket' /\ OpenIsPending'
        BY <2>1, <2>3, <2>4, <2>6 DEF SerialInv, SyncedCoversEveryPacket, OpenIsPending
    <2>10. ASSUME NEW w \in Workers PROVE DecisionHolds(w)'
        <3>1. /\ DecisionHolds(w)
              /\ worker[w].pc \notin {"idle", "starting"} =>
                     worker[w].on \in Sessions \ {s}
            BY <2>1 DEF SerialInv, LogInv, HandlerInv
        <3>2. \A t \in Sessions : status'[t] = "OPEN" =>
                     status[t] = "OPEN" /\ device'[t] = device[t]
            BY <2>1
        <3> QED BY <2>1, <2>3, <3>1, <3>2 DEF DecisionHolds
    <2> QED BY <2>7, <2>8, <2>9, <2>10 DEF SerialInv
<1>10. ASSUME NEW s \in Sessions, Abort(s) PROVE SerialInv'
    <2>1. /\ status' = [status EXCEPT ![s] = "ABORTED"] /\ status[s] = "OPEN"
          /\ UNCHANGED <<sync, device, packets, envelope, rows, worker>>
        BY <1>10 DEF Abort
    <2>2. status'[s] = "ABORTED" /\ \A t \in Sessions \ {s} : status'[t] = status[t]
        BY <1>t, <2>1 DEF TypeOK
    <2>3. OpenOnce' /\ OpenIsPending'
        BY <2>1, <2>2 DEF SerialInv, OpenOnce, OpenIsPending
    <2>4. NoDuplicateRows' /\ FailedWroteNothing' /\ SyncedCoversEveryPacket'
        BY <2>1 DEF SerialInv, NoDuplicateRows, FailedWroteNothing,
                    SyncedCoversEveryPacket
    <2>5. ASSUME NEW w \in Workers PROVE DecisionHolds(w)'
        <3>1. DecisionHolds(w) /\ HandlerInv(w)
            BY DEF SerialInv, LogInv
        <3>2. \A t \in Sessions : status'[t] = "OPEN" => status[t] = "OPEN"
            BY <2>1, <2>2
        <3> QED BY <2>1, <2>2, <3>1, <3>2 DEF DecisionHolds, HandlerInv
    <2> QED BY <2>3, <2>4, <2>5 DEF SerialInv
<1> QED BY <1>1, <1>2, <1>3, <1>4, <1>5, <1>6, <1>7, <1>8, <1>9, <1>10
        DEF Handle, Start, Append, End

(* The form leaves alone what is said of the sessions it did not touch.    *)
LEMMA SerialAmended ==
    ASSUME LogInv, SerialInv, NEW s \in Sessions, amended'[s] # 0,
           \A t \in Sessions \ {s} :
              /\ status'[t] = status[t] /\ sync'[t] = sync[t] /\ device'[t] = device[t]
              /\ packets'[t] = packets[t] /\ envelope'[t] = envelope[t]
              /\ amended'[t] = amended[t],
           UNCHANGED <<rows, worker>>
    PROVE  SerialInv'
<1>1. OpenOnce'
    BY DEF SerialInv, OpenOnce
<1>2. NoDuplicateRows' /\ FailedWroteNothing'
    BY DEF SerialInv, NoDuplicateRows, FailedWroteNothing
<1>3. SyncedCoversEveryPacket' /\ OpenIsPending'
    BY DEF SerialInv, SyncedCoversEveryPacket, OpenIsPending
<1>4. ASSUME NEW w \in Workers PROVE DecisionHolds(w)'
    <2>1. DecisionHolds(w)
        BY DEF SerialInv
    <2> QED BY <2>1 DEF DecisionHolds
<1> QED BY <1>1, <1>2, <1>3, <1>4 DEF SerialInv

LEMMA SerialStep ==
    ASSUME ~Overlap, ~Overlap', LogInv, SerialInv, Step \/ UNCHANGED vars
    PROVE  SerialInv'
<1>t. TypeOK
    BY DEF LogInv
<1>1. ASSUME NEW s \in Sessions, NEW st \in Statuses, NEW sy \in SyncStatuses,
             NEW d \in Devices, NEW c \in BOOLEAN, Amend(s, st, sy, d, c)
      PROVE  SerialInv'
    BY <1>t, <1>1, SerialAmended DEF Amend, Amends, TypeOK
<1>2. ASSUME NEW s \in Sessions, Delete(s) PROVE SerialInv'
    BY <1>t, <1>2, SerialAmended DEF Delete, Amends, TypeOK
<1>3. CASE UNCHANGED vars
    <2>1. \A w \in Workers : DecisionHolds(w)'
        BY <1>3 DEF vars, SerialInv, DecisionHolds
    <2> QED BY <1>3, <2>1, QuietSerial DEF vars
<1> QED BY <1>1, <1>2, <1>3, SerialHandle DEF Step, AdminForm

LEMMA SoFarInit == Init => SoFar
<1> SUFFICES ASSUME Init PROVE SoFar
    OBVIOUS
<1>1. ~Overlap /\ overlapped = FALSE
    BY DEF Init, Overlap, Idle
<1> QED BY <1>1, InitSerial DEF SoFar, HistoryInv

LEMMA SoFarStep == LogInv /\ SoFar /\ [Next]_vars => SoFar'
<1> SUFFICES ASSUME LogInv, SoFar, [Next]_vars PROVE SoFar'
    OBVIOUS
<1>1. HistoryInv'
    <2>1. CASE Next
        BY <2>1 DEF Next, HistoryInv, SoFar
    <2>2. CASE UNCHANGED vars
        BY <2>2 DEF vars, HistoryInv, SoFar, Overlap
    <2> QED BY <2>1, <2>2
<1>2. ~overlapped' => ~overlapped
    BY DEF Next, vars, SoFar, HistoryInv
<1>3. ASSUME ~overlapped' PROVE SerialInv'
    <2>1. ~Overlap /\ ~Overlap' /\ SerialInv
        BY <1>1, <1>2, <1>3 DEF SoFar, HistoryInv
    <2>2. Step \/ UNCHANGED vars
        BY DEF Next
    <2> QED BY <2>1, <2>2, SerialStep
<1> QED BY <1>1, <1>3 DEF SoFar

(* As long as no two requests have overlapped: one OPEN session per        *)
(* instrument.                                                             *)
THEOREM SerialStarts == Spec => []OneOpenSession
<1>1. SoFar => OneOpenSession
    BY DEF SoFar, SerialInv, OneOpenSession
<1> QED BY InitLog, SoFarInit, LogStep, SoFarStep, <1>1, PTL DEF Spec

(* As long as no two requests have overlapped: no packet in the registry   *)
(* twice, all of a session's packets or none.                              *)
THEOREM SerialSafety == Spec => []PromotionIsWhole
<1>1. SoFar => PromotionIsWhole
    BY DEF SoFar, SerialInv, PromotionIsWhole
<1> QED BY InitLog, SoFarInit, LogStep, SoFarStep, <1>1, PTL DEF Spec

(* As long as no two requests have overlapped, a promotion is never undone *)
(* or redone, unless an administrator changed the session.                 *)
THEOREM PromotedOnce == Spec => PromotionIsFinal
<1> DEFINE Final == \A s \in Sessions : amended'[s] = 0 /\ sync[s] = "SYNCED" =>
                       sync'[s] = "SYNCED" /\ envelope'[s] = envelope[s]
<1>1. ASSUME LogInv, SerialInv, Next PROVE Final
    <2>t. TypeOK
        BY <1>1 DEF LogInv
    <2>a. ASSUME NEW s \in Sessions, amended'[s] = 0 PROVE s \in Unamended
        <3>1. amended' = amended \/ \E t \in Sessions :
                 amended' = [amended EXCEPT ![t] = @ + 1]
            BY <1>1 DEF Next, Step, AdminForm, Amend, Delete, Amends
        <3>2. CASE amended' = amended
            BY <2>a, <3>2
        <3>3. ASSUME NEW t \in Sessions, amended' = [amended EXCEPT ![t] = @ + 1]
              PROVE  s \in Unamended
            <4>1. amended[t] \in Nat
                BY <2>t DEF TypeOK
            <4>2. amended'[t] = amended[t] + 1 /\ (s # t => amended'[s] = amended[s])
                BY <2>t, <3>3 DEF TypeOK
            <4> QED BY <2>a, <4>1, <4>2
        <3> QED BY <3>1, <3>2, <3>3
    <2>r. ASSUME NEW s \in Sessions, status[s] = "NONE" PROVE sync[s] # "SYNCED"
        BY <1>1, <2>r DEF LogInv, NoRowIsUntouched, Untouched
    <2>1. ASSUME NEW w \in Workers, NEW s \in Sessions, NEW c \in BOOLEAN,
                 StartCreate(w, s, c)
          PROVE Final
        BY <2>t, <2>r, <2>1 DEF StartCreate, NewRow, TypeOK
    <2>2. ASSUME NEW w \in Workers, PromoteOk(w) \/ PromoteFail(w) PROVE Final
        <3>1. worker[w].on \in Unamended => sync[worker[w].on] # "SYNCED"
            BY <1>1, <2>2 DEF PromoteOk, PromoteFail, SerialInv, DecisionHolds
        <3> QED BY <2>t, <2>a, <2>2, <3>1 DEF PromoteOk, PromoteFail, TypeOK
    <2>3. ASSUME NEW s \in Sessions, NEW d \in Devices, NEW n \in Seqs,
                 NEW c \in BOOLEAN, Import(s, d, n, c) \/ Replay(s, d, n, c)
          PROVE Final
        BY <2>t, <2>r, <2>3 DEF Import, Replay, NewRow, TypeOK
    <2>4. ASSUME UNCHANGED <<sync, envelope>> PROVE Final
        BY <2>4
    <2>5. ASSUME NEW s \in Sessions, Abort(s) PROVE Final
        BY <2>4, <2>5 DEF Abort
    <2>6. ASSUME NEW w \in Workers, NEW s \in Sessions,
                 AppendFetch(w, s) \/ EndFetch(w, s)
          PROVE  Final
        BY <2>4, <2>6 DEF AppendFetch, EndFetch
    <2>7. ASSUME NEW w \in Workers,
                 \/ \E d \in Devices : StartCheck(w, d)
                 \/ ReadTail(w) \/ Insert(w) \/ Refuse(w) \/ CommitPacket(w)
                 \/ ListPackets(w) \/ Vanished(w) \/ Kill(w)
          PROVE  Final
        <3>1. UNCHANGED <<sync, envelope>>
            BY <2>7 DEF StartCheck, ReadTail, Insert, Refuse, CommitPacket,
                        ListPackets, Vanished, Kill
        <3> QED BY <2>4, <3>1
    <2>8. ASSUME NEW s \in Sessions,
                 \/ Delete(s)
                 \/ \E st \in Statuses, sy \in SyncStatuses, d \in Devices,
                       c \in BOOLEAN : Amend(s, st, sy, d, c)
          PROVE  Final
        <3>0. /\ amended \in [Sessions -> Nat]
              /\ amended' = [amended EXCEPT ![s] = @ + 1]
            BY <2>t, <2>8 DEF Delete, Amend, Amends, TypeOK
        <3>n. amended[s] \in Nat /\ amended'[s] = amended[s] + 1
            BY <3>0
        <3>1. amended'[s] # 0
            BY <3>n
        <3>2. \A t \in Sessions \ {s} : sync'[t] = sync[t] /\ envelope'[t] = envelope[t]
            BY <2>t, <2>8 DEF Delete, Amend, TypeOK
        <3> QED BY <3>1, <3>2
    <2> QED BY <1>1, <2>1, <2>2, <2>3, <2>5, <2>6, <2>7, <2>8
            DEF Next, Step, Handle, AdminForm, Start, Append, End
<1> DEFINE FinalSoFar == \A s \in Sessions :
        ~overlapped' /\ amended'[s] = 0 /\ sync[s] = "SYNCED" =>
            sync'[s] = "SYNCED" /\ envelope'[s] = envelope[s]
<1>2. ASSUME LogInv, SoFar, [Next]_vars PROVE [FinalSoFar]_vars
    <2> SUFFICES ASSUME Next, ~overlapped' PROVE FinalSoFar
        BY <1>2
    <2>1. SerialInv
        BY <1>2 DEF Next, SoFar, HistoryInv
    <2> QED BY <1>1, <1>2, <2>1
<1> QED BY InitLog, SoFarInit, LogStep, SoFarStep, <1>2, PTL DEF Spec, PromotionIsFinal
=============================================================================
