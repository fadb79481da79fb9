---------------------------- MODULE MCSyncQueue ----------------------------
(***************************************************************************)
(* Small instances of SyncQueue.  The contents are chosen so that a client *)
(* repeats a request, reuses an id for another body and for another        *)
(* record, and so that two entries write one record.                       *)
(***************************************************************************)
EXTENDS SyncQueue

CONSTANTS i1, i2, t1, t2, w1, w2

MCIds == {i1, i2}
MCTargets == {t1, t2}
MCWorkers == {w1, w2}

Create == [op |-> "CREATE", body |-> "b1", target |-> t1]
Rewrite == [op |-> "CREATE", body |-> "b2", target |-> t1]
UpdateOne == [op |-> "UPDATE", body |-> "b1", target |-> t1]
UpdateTwo == [op |-> "UPDATE", body |-> "b2", target |-> t1]
UpdateElsewhere == [op |-> "UPDATE", body |-> "b1", target |-> t2]

MCContents == {Create, Rewrite, UpdateOne, UpdateTwo, UpdateElsewhere}

(* A create with a conflicting reuse of its id, and an update.             *)
MixedRequests == {<<i1, Create>>, <<i1, Rewrite>>, <<i2, UpdateTwo>>}
(* Two updates of one record.                                              *)
UpdateRequests == {<<i1, UpdateOne>>, <<i2, UpdateTwo>>}
=============================================================================
