-------------------------- MODULE SyncQueueProofs --------------------------
(***************************************************************************)
(* What TLAPS proves of SyncQueue, for every number of workers, entries,   *)
(* retries and every timeout allowed by its assumptions: IInv is           *)
(* inductive, so the queue never lets two workers hold one entry and never *)
(* lands one twice, and it implements SyncJournal.                         *)
(***************************************************************************)
EXTENDS SyncQueue, FiniteSetTheorems, TLAPS

USE DEF itemVars, Statuses, WorkerState

LEMMA PositionIsNatural ==
    TypeOK => Cardinality({j \in Ids : pos[j] > 0}) + 1 \in Nat
<1>1. IsFiniteSet({j \in Ids : pos[j] > 0})
    BY IdsAssumption, FS_Subset
<1> QED BY <1>1, FS_CardinalityType

LEMMA InitEstablishes == Init => IInv
<1> SUFFICES ASSUME Init PROVE IInv
    OBVIOUS
<1>1. TypeOK
    BY BoundsAssumption DEF Init, TypeOK, Idle
<1>2. ClaimIsExclusive /\ ClaimIsFresh
    BY DEF Init, ClaimIsExclusive, ClaimIsFresh, Holds, Idle
<1>3. RowsHaveContent /\ SyncedExactlyOnce /\ AckedIsJournalled
    BY DEF Init, RowsHaveContent, SyncedExactlyOnce, AckedIsJournalled
<1> QED BY <1>1, <1>2, <1>3 DEF IInv

----------------------------------------------------------------------------
(* Type correctness of each action.                                        *)
LEMMA NextItemType ==
    ASSUME TypeOK, NEW w \in Workers, NextItem(w)
    PROVE  worker' \in [Workers -> WorkerState]
<1>1. worker[w] \in WorkerState
    BY DEF TypeOK
<1>2. worker' = [worker EXCEPT ![w] =
                    [worker[w] EXCEPT !.pc = "flushing", !.cur = NoItem]]
    BY <1>1 DEF NextItem, TypeOK
<1> QED BY <1>1, <1>2 DEF TypeOK

LEMMA TypeStep == IInv /\ [Next]_vars => TypeOK'
<1> SUFFICES ASSUME TypeOK, ClaimIsFresh, ClaimIsExclusive, RowsHaveContent,
                    [Next]_vars
             PROVE TypeOK'
    BY DEF IInv
<1> USE DEF TypeOK
<1>1. ASSUME NEW i \in Ids, NEW c \in Contents, Enqueue(i, c) PROVE TypeOK'
    <2>1. CASE Created(i, c)
        BY <1>1, <2>1, PositionIsNatural, RequestsAssumption DEF Enqueue, Created
    <2>2. CASE Deduplicated(i, c)
        BY <1>1, <2>2 DEF Enqueue, Deduplicated
    <2>3. CASE Conflict(i, c)
        BY <1>1, <2>3 DEF Enqueue, Conflict
    <2> QED BY <1>1, <2>1, <2>2, <2>3 DEF Enqueue
<1>2. ASSUME NEW w \in Workers, NEW e \in BOOLEAN, StartFlush(w, e) PROVE TypeOK'
    <2>1. Oldest(ClaimableSet(e), BatchLimit) \subseteq Ids
        BY DEF Oldest, ClaimableSet
    <2> QED BY <1>2, <2>1, BoundsAssumption DEF StartFlush
<1>3. ASSUME NEW w \in Workers, NEW i \in Ids, Claim(w, i) PROVE TypeOK'
    <2>1. worker[w] \in WorkerState
        OBVIOUS
    <2>2. worker' = [worker EXCEPT ![w] =
             [worker[w] EXCEPT !.pc = "applying", !.cur = i,
                               !.todo = worker[w].todo \ {i}]]
        BY <1>3, <2>1 DEF Claim
    <2>3. worker' \in [Workers -> WorkerState]
        BY <2>1, <2>2
    <2>4. status' \in [Ids -> Statuses] /\ age' \in [Ids -> 0..(ClaimTimeout + 1)]
        BY <1>3, BoundsAssumption DEF Claim
    <2> QED BY <1>3, <2>3, <2>4 DEF Claim
<1>4. ASSUME NEW w \in Workers, NEW i \in Ids, Skip(w, i) PROVE TypeOK'
    <2>1. worker[w] \in WorkerState
        OBVIOUS
    <2>2. worker' = [worker EXCEPT ![w] =
                        [worker[w] EXCEPT !.todo = worker[w].todo \ {i}]]
        BY <1>4, <2>1 DEF Skip
    <2>3. worker' \in [Workers -> WorkerState]
        BY <2>1, <2>2
    <2> QED BY <1>4, <2>3 DEF Skip
<1>5. ASSUME NEW w \in Workers, ApplyOk(w) PROVE TypeOK'
    <2>1. worker[w].cur \in Ids
        BY <1>5 DEF ApplyOk, ClaimIsFresh
    <2>4. content[worker[w].cur].target \in Targets
        BY <1>5, <2>1, ContentsAssumption
           DEF ApplyOk, ClaimIsExclusive, Holds, RowsHaveContent
    <2>2. worker' \in [Workers -> WorkerState]
        BY <1>5, NextItemType DEF ApplyOk
    <2>3. age' \in [Ids -> 0..(ClaimTimeout + 1)]
        BY <1>5, <2>1, BoundsAssumption DEF ApplyOk
    <2>5. row' \in [Targets -> Ids \cup {NoItem}]
        BY <1>5, <2>1, <2>4 DEF ApplyOk
    <2> QED BY <1>5, <2>1, <2>2, <2>3, <2>5 DEF ApplyOk
<1>6. ASSUME NEW w \in Workers, ApplyFail(w) PROVE TypeOK'
    <2>1. worker[w].cur \in Ids
        BY <1>6 DEF ApplyFail, ClaimIsFresh
    <2>2. worker' \in [Workers -> WorkerState]
        BY <1>6, NextItemType DEF ApplyFail
    <2>3. age' \in [Ids -> 0..(ClaimTimeout + 1)]
        BY <1>6, <2>1, BoundsAssumption DEF ApplyFail
    <2> QED BY <1>6, <2>1, <2>2, <2>3 DEF ApplyFail
<1>7. ASSUME NEW w \in Workers, FinishFlush(w) PROVE TypeOK'
    BY <1>7, BoundsAssumption DEF FinishFlush, Idle
<1>8. ASSUME NEW w \in Workers, Kill(w) PROVE TypeOK'
    BY <1>8, BoundsAssumption DEF Kill, Idle
<1>9. CASE Tick
    <2>1. \A i \in Ids : age'[i] \in 0..(ClaimTimeout + 1)
        BY <1>9, BoundsAssumption DEF Tick, Older
    <2>2. ASSUME NEW w \in Workers PROVE worker'[w] \in WorkerState
        <3>1. worker[w] \in WorkerState
            OBVIOUS
        <3>2. CASE Busy(w)
            <4>1. worker'[w] = [worker[w] EXCEPT !.life = worker[w].life + 1]
                BY <1>9, <3>2 DEF Tick
            <4>2. worker[w].life + 1 \in 0..RequestTimeout
                BY <1>9, <3>1, <3>2, BoundsAssumption DEF Tick
            <4> QED BY <3>1, <4>1, <4>2
        <3>3. CASE ~Busy(w)
            BY <1>9, <3>1, <3>3 DEF Tick
        <3> QED BY <3>2, <3>3
    <2> QED BY <1>9, <2>1, <2>2 DEF Tick
<1>10. CASE UNCHANGED vars
    BY <1>10 DEF vars
<1> QED BY <1>1, <1>2, <1>3, <1>4, <1>5, <1>6, <1>7, <1>8, <1>9, <1>10
        DEF Next, Serve

----------------------------------------------------------------------------
(* The heart of the mutual exclusion: an entry some worker is applying is  *)
(* not claimable, because its claim is younger than the request, and a     *)
(* request is cut off before a claim goes stale.                           *)
LEMMA HeldIsNotClaimable ==
    ASSUME TypeOK, ClaimIsExclusive, ClaimIsFresh,
           NEW w \in Workers, NEW i \in Ids, NEW e, Holds(w, i)
    PROVE  ~Claimable(i, e)
<1>1. status[i] = "PROCESSING"
    BY DEF ClaimIsExclusive
<1>2. age[i] <= worker[w].life /\ worker[w].life <= RequestTimeout
    BY DEF ClaimIsFresh, Holds, TypeOK
<1>3. ~Stale(i)
    BY <1>2, TimeoutAssumption, BoundsAssumption DEF Stale, TypeOK
<1> QED BY <1>1, <1>3 DEF Claimable

(* Applying an entry belongs to the worker that claimed it.                *)
LEMMA ClaimStep == IInv /\ [Next]_vars => ClaimIsExclusive' /\ ClaimIsFresh'
<1> SUFFICES ASSUME IInv, [Next]_vars PROVE ClaimIsExclusive' /\ ClaimIsFresh'
    OBVIOUS
<1> USE DEF IInv, TypeOK, ClaimIsExclusive, ClaimIsFresh, Holds
<1>1. ASSUME NEW i \in Ids, NEW c \in Contents, Enqueue(i, c)
      PROVE ClaimIsExclusive' /\ ClaimIsFresh'
    BY <1>1 DEF Enqueue, Created, Deduplicated, Conflict
<1>2. ASSUME NEW w \in Workers, NEW e \in BOOLEAN, StartFlush(w, e)
      PROVE ClaimIsExclusive' /\ ClaimIsFresh'
    BY <1>2 DEF StartFlush
<1>3. ASSUME NEW w \in Workers, NEW i \in Ids, Claim(w, i)
      PROVE ClaimIsExclusive' /\ ClaimIsFresh'
    <2>1. \A v \in Workers : ~Holds(v, i)
        BY <1>3, HeldIsNotClaimable DEF Claim
    <2>2. worker'[w].pc = "applying" /\ worker'[w].cur = i
        BY <1>3 DEF Claim
    <2>3. \A v \in Workers \ {w} : worker'[v] = worker[v]
        BY <1>3 DEF Claim
    <2>4. status'[i] = "PROCESSING" /\ age'[i] = 0
        BY <1>3 DEF Claim
    <2>5. \A j \in Ids \ {i} : status'[j] = status[j] /\ age'[j] = age[j]
        BY <1>3 DEF Claim
    <2>6. worker'[w].life = worker[w].life
        BY <1>3 DEF Claim
    <2>7. ClaimIsExclusive'
        <3>1. ASSUME NEW v \in Workers, NEW j \in Ids, Holds(v, j)'
              PROVE  status'[j] = "PROCESSING" /\ \A u \in Workers \ {v} : ~Holds(u, j)'
            <4>1. CASE v = w
                BY <2>1, <2>2, <2>3, <2>4, <3>1, <4>1
            <4>2. CASE v # w
                <5>1. Holds(v, j) /\ j # i
                    BY <2>1, <2>3, <3>1, <4>2
                <5>2. status[j] = "PROCESSING" /\ \A u \in Workers \ {v} : ~Holds(u, j)
                    BY <5>1
                <5> QED BY <2>2, <2>3, <2>5, <4>2, <5>1, <5>2
            <4> QED BY <4>1, <4>2
        <3> QED BY <3>1
    <2>8. ClaimIsFresh'
        BY <2>1, <2>2, <2>3, <2>4, <2>5, <2>6
    <2> QED BY <2>7, <2>8
<1>4. ASSUME NEW w \in Workers, NEW i \in Ids, Skip(w, i)
      PROVE ClaimIsExclusive' /\ ClaimIsFresh'
    BY <1>4 DEF Skip, IsNext
<1>5. ASSUME NEW w \in Workers, ApplyOk(w) \/ ApplyFail(w)
      PROVE ClaimIsExclusive' /\ ClaimIsFresh'
    <2>1. PICK i \in Ids : worker[w].cur = i
        BY <1>5 DEF ApplyOk, ApplyFail
    <2>2. \A v \in Workers \ {w} : ~Holds(v, i)
        BY <1>5, <2>1 DEF ApplyOk, ApplyFail
    <2>3. worker'[w].pc = "flushing"
        BY <1>5 DEF ApplyOk, ApplyFail, NextItem
    <2>4. \A v \in Workers \ {w} : worker'[v] = worker[v]
        BY <1>5 DEF ApplyOk, ApplyFail, NextItem
    <2>5. \A j \in Ids \ {i} : status'[j] = status[j] /\ age'[j] = age[j]
        BY <1>5, <2>1 DEF ApplyOk, ApplyFail
    <2> QED BY <2>2, <2>3, <2>4, <2>5
<1>6. ASSUME NEW w \in Workers, FinishFlush(w) \/ Kill(w)
      PROVE ClaimIsExclusive' /\ ClaimIsFresh'
    <2>1. worker'[w].pc = "idle"
        BY <1>6 DEF FinishFlush, Kill, Idle
    <2>2. \A v \in Workers \ {w} : worker'[v] = worker[v]
        BY <1>6 DEF FinishFlush, Kill
    <2>3. UNCHANGED <<status, age>>
        BY <1>6 DEF FinishFlush, Kill
    <2> QED BY <2>1, <2>2, <2>3
<1>7. CASE Tick
    <2>1. \A v \in Workers : /\ worker'[v].pc = worker[v].pc
                             /\ worker'[v].cur = worker[v].cur
        BY <1>7 DEF Tick, Busy
    <2>2. ClaimIsExclusive'
        BY <1>7, <2>1 DEF Tick
    <2>3. ASSUME NEW v \in Workers, worker[v].pc = "applying"
          PROVE age'[worker[v].cur] <= worker'[v].life
        <3>1. worker'[v].life = worker[v].life + 1
            BY <1>7, <2>3 DEF Tick, Busy
        <3>2. age'[worker[v].cur] <= age[worker[v].cur] + 1
            BY <1>7, <2>3, BoundsAssumption DEF Tick, Older
        <3>3. age[worker[v].cur] \in Nat /\ worker[v].life \in Nat
            BY <2>3, BoundsAssumption
        <3>4. age[worker[v].cur] <= worker[v].life
            BY <2>3
        <3>5. age'[worker[v].cur] \in Int
            BY <1>7, <2>3, <3>3 DEF Tick, Older
        <3> QED BY <3>1, <3>2, <3>3, <3>4, <3>5
    <2> QED BY <2>1, <2>2, <2>3
<1>8. CASE UNCHANGED vars
    BY <1>8 DEF vars
<1> QED BY <1>1, <1>2, <1>3, <1>4, <1>5, <1>6, <1>7, <1>8 DEF Next, Serve

----------------------------------------------------------------------------
(* What a step does to the journal, step by step of the promise; the other *)
(* parts of the invariant and the refinement both follow from it.          *)
LEMMA JournalStep ==
    ASSUME IInv, [Next]_vars
    PROVE  \/ \E i \in Ids, c \in Contents :
                 /\ status[i] = "NONE"
                 /\ status' = [status EXCEPT ![i] = "PENDING"]
                 /\ content' = [content EXCEPT ![i] = c]
                 /\ acked' = acked \cup {<<i, c>>}
                 /\ UNCHANGED applies
           \/ \E i \in Ids, c \in Contents :
                 /\ status[i] # "NONE"
                 /\ SameOperation(content[i], c)
                 /\ acked' = acked \cup {<<i, c>>}
                 /\ UNCHANGED <<status, content, applies>>
           \/ \E i \in Ids :
                 /\ status[i] = "PROCESSING"
                 /\ status' = [status EXCEPT ![i] = "SYNCED"]
                 /\ applies' = [applies EXCEPT ![i] = @ + 1]
                 /\ UNCHANGED <<content, acked>>
           \/ \E i \in Ids, s \in {"PROCESSING", "FAILED"} :
                 /\ status[i] \notin {"NONE", "SYNCED"}
                 /\ status' = [status EXCEPT ![i] = s]
                 /\ UNCHANGED <<content, acked, applies>>
           \/ UNCHANGED <<status, content, acked, applies>>
<1>1. ASSUME NEW i \in Ids, NEW c \in Contents, Enqueue(i, c)
      PROVE \/ Created(i, c) /\ UNCHANGED applies
            \/ Deduplicated(i, c) /\ UNCHANGED applies
            \/ UNCHANGED <<status, content, acked, applies>>
    BY <1>1 DEF Enqueue, Conflict
<1>2. ASSUME NEW w \in Workers, NEW i \in Ids, Claim(w, i)
      PROVE /\ status[i] \notin {"NONE", "SYNCED"}
            /\ status' = [status EXCEPT ![i] = "PROCESSING"]
            /\ UNCHANGED <<content, acked, applies>>
    BY <1>2 DEF Claim, Claimable
<1>3. ASSUME NEW w \in Workers, ApplyOk(w) \/ ApplyFail(w)
      PROVE worker[w].cur \in Ids /\ status[worker[w].cur] = "PROCESSING"
    BY <1>3 DEF IInv, ClaimIsFresh, ClaimIsExclusive, Holds, ApplyOk, ApplyFail
<1>4. ASSUME NEW w \in Workers, ApplyOk(w)
      PROVE \E i \in Ids : /\ status[i] = "PROCESSING"
                           /\ status' = [status EXCEPT ![i] = "SYNCED"]
                           /\ applies' = [applies EXCEPT ![i] = @ + 1]
                           /\ UNCHANGED <<content, acked>>
    BY <1>3, <1>4 DEF ApplyOk
<1>5. ASSUME NEW w \in Workers, ApplyFail(w)
      PROVE \E i \in Ids : /\ status[i] \notin {"NONE", "SYNCED"}
                           /\ status' = [status EXCEPT ![i] = "FAILED"]
                           /\ UNCHANGED <<content, acked, applies>>
    BY <1>3, <1>5 DEF ApplyFail
<1>6. ASSUME \/ \E w \in Workers, e \in BOOLEAN : StartFlush(w, e)
             \/ \E w \in Workers, i \in Ids : Skip(w, i)
             \/ \E w \in Workers : FinishFlush(w) \/ Kill(w)
             \/ Tick
             \/ UNCHANGED vars
      PROVE UNCHANGED <<status, content, acked, applies>>
    BY <1>6 DEF StartFlush, Skip, FinishFlush, Kill, Tick, vars
<1> QED BY <1>1, <1>2, <1>4, <1>5, <1>6
        DEF Next, Serve, Created, Deduplicated

LEMMA JournalInvariantStep ==
    IInv /\ [Next]_vars
        => RowsHaveContent' /\ SyncedExactlyOnce' /\ AckedIsJournalled'
<1> SUFFICES ASSUME IInv, [Next]_vars
             PROVE RowsHaveContent' /\ SyncedExactlyOnce' /\ AckedIsJournalled'
    OBVIOUS
<1> USE DEF IInv, TypeOK
<1>1. RowsHaveContent'
    BY JournalStep, NoItemAssumption DEF RowsHaveContent
<1>2. SyncedExactlyOnce'
    BY JournalStep DEF SyncedExactlyOnce
<1>3. AckedIsJournalled'
    BY JournalStep DEF AckedIsJournalled, SameOperation
<1> QED BY <1>1, <1>2, <1>3

LEMMA Inductive == IInv /\ [Next]_vars => IInv'
<1> SUFFICES ASSUME IInv, [Next]_vars PROVE IInv'
    OBVIOUS
<1>1. TypeOK'
    BY TypeStep DEF IInv
<1> QED BY <1>1, ClaimStep, JournalInvariantStep DEF IInv

(* IInv holds of every reachable state of the queue.                       *)
THEOREM InvariantHolds == Spec => []IInv
BY InitEstablishes, Inductive, PTL DEF Spec

----------------------------------------------------------------------------
(* The results.                                                            *)

(* services.py _claim: no two workers ever apply the same entry.           *)
THEOREM ClaimExclusive == Spec => []ClaimIsExclusive
<1>1. IInv => ClaimIsExclusive
    BY DEF IInv
<1> QED BY <1>1, InvariantHolds, PTL

(* services.py process: an entry is SYNCED exactly when its write has been *)
(* committed, and then exactly once.                                       *)
THEOREM ExactlyOnce == Spec => []SyncedExactlyOnce
<1>1. IInv => SyncedExactlyOnce
    BY DEF IInv
<1> QED BY <1>1, InvariantHolds, PTL

(* services.py process and mark_failed: SYNCED is never overwritten.       *)
THEOREM SyncedStays == Spec => SyncedIsFinal
<1>1. ASSUME IInv, [Next]_vars
      PROVE \A i \in Ids : status[i] = "SYNCED" => status'[i] = "SYNCED"
    BY <1>1, JournalStep DEF IInv, TypeOK
<1>2. IInv /\ [Next]_vars
        => [\A i \in Ids : status[i] = "SYNCED" => status'[i] = "SYNCED"]_vars
    BY <1>1
<1> QED BY <1>2, InvariantHolds, PTL DEF Spec, SyncedIsFinal

(* The queue refines the journal it promises to the device.                *)
THEOREM ImplementsJournal == Spec => KeepsThePromise
<1>1. Init => Journal!Init
    BY DEF Init, Journal!Init
<1>2. ASSUME IInv, [Next]_vars PROVE [Journal!Next]_(Journal!vars)
    <2> USE DEF IInv, TypeOK, Journal!vars
    <2>1. ASSUME NEW i \in Ids, NEW c \in Contents,
                 status[i] = "NONE",
                 content' = [content EXCEPT ![i] = c],
                 acked' = acked \cup {<<i, c>>},
                 UNCHANGED applies
          PROVE Journal!Accept(i, c)
        BY <1>2, <2>1 DEF Journal!Accept, RowsHaveContent
    <2>2. ASSUME NEW i \in Ids, NEW c \in Contents,
                 status[i] # "NONE",
                 SameOperation(content[i], c),
                 acked' = acked \cup {<<i, c>>},
                 UNCHANGED <<status, content, applies>>
          PROVE Journal!Repeat(i, c)
        BY <1>2, <2>2 DEF Journal!Repeat, RowsHaveContent
    <2>3. ASSUME NEW i \in Ids,
                 status[i] = "PROCESSING",
                 applies' = [applies EXCEPT ![i] = @ + 1],
                 UNCHANGED <<content, acked>>
          PROVE Journal!Land(i)
        <3>1. applies[i] = 0 /\ content[i] # NoItem
            BY <1>2, <2>3 DEF SyncedExactlyOnce, RowsHaveContent
        <3> QED BY <2>3, <3>1 DEF Journal!Land
    <2> QED BY <1>2, <2>1, <2>2, <2>3, JournalStep DEF Journal!Next
<1> QED BY <1>1, <1>2, InvariantHolds, PTL DEF Spec, KeepsThePromise, Journal!Spec
=============================================================================
