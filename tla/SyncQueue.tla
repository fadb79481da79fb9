----------------------------- MODULE SyncQueue -----------------------------
(***************************************************************************)
(* The offline sync queue of one inspector (apps/sync): the journal that a *)
(* reconnecting PWA fills with POST sync/queue/ and drains with            *)
(* POST sync/process/.                                                     *)
(*                                                                         *)
(* Every request is served by one of a few server processes (gunicorn      *)
(* workers).  A flush SELECTs its batch once, then claims, applies and     *)
(* marks the items one at a time; each of those is a database step of its  *)
(* own, so flushes of several workers interleave between them.  A worker   *)
(* may be killed at any point of a flush.                                  *)
(*                                                                         *)
(* All queries filter on the inspector, so the queues of two inspectors    *)
(* share nothing and one queue is modelled.                                *)
(***************************************************************************)
EXTENDS Integers, FiniteSets

CONSTANTS
    Ids,            \* client_item_id values
    Contents,       \* what an entry asks for: [op, body, target]
    Targets,        \* records an entry may write (entity_id)
    Requests,       \* the <<id, content>> pairs the client may send
    Workers,        \* server processes
    MaxRetries,     \* SYNC_MAX_RETRIES
    ClaimTimeout,   \* SYNC_CLAIM_TIMEOUT_SECONDS, in ticks
    RequestTimeout, \* age at which a worker still in a request is killed
    BatchLimit,     \* `limit` of a flush
    RetryBound,     \* bound: no retry_exhausted flush past this many retries
    MaxKills,       \* bound: how many times a worker is killed
    NoItem          \* no entry has written the record yet

ASSUME ContentsAssumption ==
    \A c \in Contents : c.op \in {"CREATE", "UPDATE"} /\ c.target \in Targets

ASSUME RequestsAssumption == Requests \subseteq Ids \X Contents

ASSUME NoItemAssumption == NoItem \notin Ids /\ NoItem \notin Contents

ASSUME IdsAssumption == IsFiniteSet(Ids)

ASSUME BoundsAssumption ==
    /\ {MaxRetries, BatchLimit} \subseteq Nat \ {0}
    /\ {ClaimTimeout, RequestTimeout, RetryBound, MaxKills} \subseteq Nat

(***************************************************************************)
(* The deployment: gunicorn kills a request after 120 seconds, a claim     *)
(* only becomes stale after 300.                                           *)
(***************************************************************************)
ASSUME TimeoutAssumption == RequestTimeout <= ClaimTimeout

VARIABLES
    status,     \* sync_status of each entry ("NONE": no row)
    content,    \* journalled content: Contents, or NoItem
    pos,        \* (queued_at, id): 0 before the row exists
    retries,    \* retry_count
    age,        \* ticks since claimed_at (0 unless PROCESSING)
    applies,    \* how often the entry's write was committed to its target
    row,        \* per target record, the entry that wrote it last
    acked,      \* requests the server has answered 201 or 200
    worker,     \* what each server process is doing
    kills       \* how many workers have been killed

itemVars == <<status, content, pos, retries, age>>
vars == <<itemVars, applies, row, acked, worker, kills>>

Statuses == {"NONE", "PENDING", "PROCESSING", "SYNCED", "FAILED"}

(***************************************************************************)
(* A worker is idle, between two items of its batch ("flushing"), or holds *)
(* the claim on `cur` and is applying it ("applying").  `snap` is the      *)
(* retry_count it read with the batch: the code keeps those objects in     *)
(* memory for the whole flush.                                             *)
(***************************************************************************)
Idle == [pc |-> "idle", todo |-> {}, cur |-> NoItem,
         snap |-> [i \in Ids |-> 0], exhausted |-> FALSE, life |-> 0]

WorkerState ==
    [pc : {"idle", "flushing", "applying"}, todo : SUBSET Ids,
     cur : Ids \cup {NoItem}, snap : [Ids -> Nat], exhausted : BOOLEAN,
     life : 0..RequestTimeout]

Busy(w) == worker[w].pc # "idle"

TypeOK ==
    /\ status \in [Ids -> Statuses]
    /\ content \in [Ids -> Contents \cup {NoItem}]
    /\ pos \in [Ids -> Nat]
    /\ retries \in [Ids -> Nat]
    /\ age \in [Ids -> 0..(ClaimTimeout + 1)]
    /\ applies \in [Ids -> Nat]
    /\ row \in [Targets -> Ids \cup {NoItem}]
    /\ acked \subseteq Ids \X Contents
    /\ worker \in [Workers -> WorkerState]
    /\ kills \in Nat

Init ==
    /\ status = [i \in Ids |-> "NONE"]
    /\ content = [i \in Ids |-> NoItem]
    /\ pos = [i \in Ids |-> 0]
    /\ retries = [i \in Ids |-> 0]
    /\ age = [i \in Ids |-> 0]
    /\ applies = [i \in Ids |-> 0]
    /\ row = [t \in Targets |-> NoItem]
    /\ acked = {}
    /\ worker = [w \in Workers |-> Idle]
    /\ kills = 0

----------------------------------------------------------------------------
(***************************************************************************)
(* POST sync/queue/.  get_or_create on the unique (inspector,              *)
(* client_item_id) is one atomic step: the row exists afterwards whoever   *)
(* inserted it, and its content never changes again.                       *)
(***************************************************************************)
Created(i, c) ==
    /\ status[i] = "NONE"
    /\ status' = [status EXCEPT ![i] = "PENDING"]
    /\ content' = [content EXCEPT ![i] = c]
    /\ pos' = [pos EXCEPT ![i] = Cardinality({j \in Ids : pos[j] > 0}) + 1]
    /\ acked' = acked \cup {<<i, c>>}
    /\ UNCHANGED <<retries, age>>

(* The retry test compares payload hash, entity type and action.           *)
SameOperation(c, d) == c.body = d.body /\ c.op = d.op

Deduplicated(i, c) ==
    /\ status[i] # "NONE"
    /\ SameOperation(content[i], c)
    /\ acked' = acked \cup {<<i, c>>}
    /\ UNCHANGED itemVars

(* Mutant: a reused id overwrites what is queued under it.                 *)
ConflictOverwrites(i, c) ==
    /\ status[i] # "NONE"
    /\ ~SameOperation(content[i], c)
    /\ content' = [content EXCEPT ![i] = c]
    /\ UNCHANGED <<status, pos, retries, age, acked>>

(* Different content under a known id: 409, nothing written.               *)
Conflict(i, c) ==
    /\ status[i] # "NONE"
    /\ ~SameOperation(content[i], c)
    /\ UNCHANGED <<itemVars, acked>>

Enqueue(i, c) ==
    /\ <<i, c>> \in Requests
    /\ Created(i, c) \/ Deduplicated(i, c) \/ Conflict(i, c)
    /\ UNCHANGED <<applies, row, worker, kills>>

----------------------------------------------------------------------------
(***************************************************************************)
(* POST sync/process/.                                                     *)
(***************************************************************************)
(* Mutant: a claim never expires.                                          *)
NeverStale(i) == FALSE

Stale(i) == age[i] > ClaimTimeout

Claimable(i, includeExhausted) ==
    \/ status[i] = "PENDING"
    \/ status[i] = "PROCESSING" /\ Stale(i)
    \/ status[i] = "FAILED" /\ (includeExhausted \/ retries[i] < MaxRetries)

ClaimableSet(includeExhausted) == {i \in Ids : Claimable(i, includeExhausted)}

(* order_by('queued_at', 'id')[:limit]                                     *)
Oldest(S, n) == {i \in S : Cardinality({j \in S : pos[j] < pos[i]}) < n}

StartFlush(w, includeExhausted) ==
    /\ worker[w].pc = "idle"
    /\ includeExhausted => \A i \in Ids : retries[i] < RetryBound
    /\ ClaimableSet(includeExhausted) # {}
    /\ worker' = [worker EXCEPT ![w] =
            [pc |-> "flushing",
             todo |-> Oldest(ClaimableSet(includeExhausted), BatchLimit),
             cur |-> NoItem, snap |-> retries,
             exhausted |-> includeExhausted, life |-> 0]]
    /\ UNCHANGED <<itemVars, applies, row, acked, kills>>

IsNext(w, i) ==
    /\ worker[w].pc = "flushing"
    /\ i \in worker[w].todo
    /\ \A j \in worker[w].todo : pos[i] <= pos[j]

(* The conditional UPDATE won the row.                                     *)
Claim(w, i) ==
    /\ IsNext(w, i)
    /\ Claimable(i, worker[w].exhausted)
    /\ status' = [status EXCEPT ![i] = "PROCESSING"]
    /\ age' = [age EXCEPT ![i] = 0]
    /\ worker' = [worker EXCEPT ![w].pc = "applying", ![w].cur = i,
                                ![w].todo = @ \ {i}]
    /\ UNCHANGED <<content, pos, retries, applies, row, acked, kills>>

(* It matched no row: another caller took the item in between.             *)
Skip(w, i) ==
    /\ IsNext(w, i)
    /\ ~Claimable(i, worker[w].exhausted)
    /\ worker' = [worker EXCEPT ![w].todo = @ \ {i}]
    /\ UNCHANGED <<itemVars, applies, row, acked, kills>>

NextItem(w) ==
    worker' = [worker EXCEPT ![w].pc = "flushing", ![w].cur = NoItem]

(* The target row and mark_synced commit in one transaction.               *)
ApplyOk(w) ==
    /\ worker[w].pc = "applying"
    /\ LET i == worker[w].cur IN
        /\ status' = [status EXCEPT ![i] = "SYNCED"]
        /\ age' = [age EXCEPT ![i] = 0]
        /\ applies' = [applies EXCEPT ![i] = @ + 1]
        /\ row' = IF content[i].op = "UPDATE"
                  THEN [row EXCEPT ![content[i].target] = i]
                  ELSE row
    /\ NextItem(w)
    /\ UNCHANGED <<content, pos, retries, acked, kills>>

(* The transaction rolled back; mark_failed saves the count read with the  *)
(* batch, plus one.                                                        *)
ApplyFail(w) ==
    /\ worker[w].pc = "applying"
    /\ LET i == worker[w].cur IN
        /\ status' = [status EXCEPT ![i] = "FAILED"]
        /\ retries' = [retries EXCEPT ![i] = worker[w].snap[i] + 1]
        /\ age' = [age EXCEPT ![i] = 0]
    /\ NextItem(w)
    /\ UNCHANGED <<content, pos, applies, row, acked, kills>>

FinishFlush(w) ==
    /\ worker[w].pc = "flushing"
    /\ worker[w].todo = {}
    /\ worker' = [worker EXCEPT ![w] = Idle]
    /\ UNCHANGED <<itemVars, applies, row, acked, kills>>

----------------------------------------------------------------------------
(***************************************************************************)
(* The environment.  A killed worker rolls its open transaction back and   *)
(* is replaced; its claim stays in the database.  Time cannot pass a       *)
(* worker's deadline without that worker finishing or being killed.        *)
(***************************************************************************)
Kill(w) ==
    /\ Busy(w)
    /\ kills < MaxKills
    /\ kills' = kills + 1
    /\ worker' = [worker EXCEPT ![w] = Idle]
    /\ UNCHANGED <<itemVars, applies, row, acked>>

Older(n) == IF n > ClaimTimeout THEN n ELSE n + 1

(* Mutant: requests are never cut off.                                     *)
TickUnlimited ==
    /\ \E i \in Ids : status[i] = "PROCESSING"
    /\ age' = [i \in Ids |->
                  IF status[i] = "PROCESSING" THEN Older(age[i]) ELSE age[i]]
    /\ worker' = [w \in Workers |->
                  IF Busy(w) THEN [worker[w] EXCEPT !.life = @ + 1]
                             ELSE worker[w]]
    /\ UNCHANGED <<status, content, pos, retries, applies, row, acked, kills>>

Tick ==
    /\ \E i \in Ids : status[i] = "PROCESSING"
    /\ \A w \in Workers : Busy(w) => worker[w].life < RequestTimeout
    /\ age' = [i \in Ids |->
                  IF status[i] = "PROCESSING" THEN Older(age[i]) ELSE age[i]]
    /\ worker' = [w \in Workers |->
                  IF Busy(w) THEN [worker[w] EXCEPT !.life = @ + 1]
                             ELSE worker[w]]
    /\ UNCHANGED <<status, content, pos, retries, applies, row, acked, kills>>

Serve(w) ==
    \/ \E i \in Ids : Claim(w, i) \/ Skip(w, i)
    \/ ApplyOk(w)
    \/ ApplyFail(w)
    \/ FinishFlush(w)

Next ==
    \/ \E i \in Ids, c \in Contents : Enqueue(i, c)
    \/ \E w \in Workers, e \in BOOLEAN : StartFlush(w, e)
    \/ \E w \in Workers : Serve(w) \/ Kill(w)
    \/ Tick

Spec == Init /\ [][Next]_vars

(***************************************************************************)
(* Fairness: a request that was accepted runs to its end unless killed,    *)
(* time passes, and the app keeps flushing while it has work (it retries   *)
(* on reconnect and on "Sync now").  The client is never obliged to send.  *)
(***************************************************************************)
Fairness ==
    /\ WF_vars(Tick)
    /\ \A w \in Workers : WF_vars(Serve(w))
    /\ SF_vars(\E w \in Workers : StartFlush(w, FALSE))

FairSpec == Spec /\ Fairness

----------------------------------------------------------------------------
(***************************************************************************)
(* Properties                                                              *)
(***************************************************************************)
Holds(w, i) == worker[w].pc = "applying" /\ worker[w].cur = i

(* No two live workers apply one entry at the same time, and the row of an *)
(* entry being applied says PROCESSING: the rowcount check of _claim plus  *)
(* the claim timeout keep every other flush away from it.                  *)
ClaimIsExclusive ==
    \A w \in Workers, i \in Ids : Holds(w, i) =>
        /\ status[i] = "PROCESSING"
        /\ \A v \in Workers \ {w} : ~Holds(v, i)

(* The entry and its target commit together: an entry is SYNCED exactly    *)
(* when its write is in the registry, and it is there once, whatever was   *)
(* killed, retried or flushed concurrently.                                *)
SyncedExactlyOnce ==
    \A i \in Ids : applies[i] = IF status[i] = "SYNCED" THEN 1 ELSE 0

(* A client that was told its write is safe finds that operation and body  *)
(* journalled, whatever it sent later under the same client_item_id.       *)
AckedIsJournalled ==
    \A r \in acked : /\ status[r[1]] # "NONE"
                     /\ SameOperation(content[r[1]], r[2])

(* The strengthening the proofs rest on: an entry being applied was        *)
(* claimed no longer ago than its worker has been running, so its claim    *)
(* cannot be stale; and a row has a content exactly when it exists.        *)
ClaimIsFresh ==
    \A w \in Workers : worker[w].pc = "applying" =>
        worker[w].cur \in Ids /\ age[worker[w].cur] <= worker[w].life

RowsHaveContent == \A i \in Ids : status[i] = "NONE" <=> content[i] = NoItem

IInv ==
    /\ TypeOK
    /\ ClaimIsExclusive
    /\ ClaimIsFresh
    /\ RowsHaveContent
    /\ SyncedExactlyOnce
    /\ AckedIsJournalled

(* The queue implements the promise made to the device (SyncJournal):      *)
(* whatever the workers do is an accept, a repeat, one landing or nothing. *)
Journal == INSTANCE SyncJournal WITH
    journal <- content, landed <- applies, answered <- acked

KeepsThePromise == Journal!Spec

(* A landed entry never becomes retryable again: a flush that still has it *)
(* in its batch must not claim it, and no late failure may overwrite it.   *)
SyncedIsFinal ==
    [][\A i \in Ids : status[i] = "SYNCED" => status'[i] = "SYNCED"]_vars

Exhausted(i) == status[i] = "FAILED" /\ retries[i] >= MaxRetries

(* Nothing stays stuck: an entry that was journalled is eventually landed  *)
(* or reported exhausted, and a claim left by a killed worker does not     *)
(* change that.                                                            *)
EveryEntrySettles ==
    \A i \in Ids : status[i] = "PENDING" ~> (status[i] = "SYNCED" \/ Exhausted(i))

----------------------------------------------------------------------------
(***************************************************************************)
(* What the sources say and the code does not do.                          *)
(***************************************************************************)

(* models.py, SyncQueueItem.id: "order is load-bearing here"; entries for  *)
(* one record are replayed in the order they were queued.                  *)
ReplayedInOrder ==
    [][\A t \in Targets : (row'[t] # row[t] /\ row[t] # NoItem)
            => pos[row[t]] < pos[row'[t]]]_vars
=============================================================================
