---------------------------- MODULE SyncJournal ----------------------------
(***************************************************************************)
(* What the offline sync queue promises an inspector's device: a write is  *)
(* accepted once under the id the device chose, is never replaced by other *)
(* content under that id, and lands in the registry exactly once.          *)
(***************************************************************************)
EXTENDS Naturals

CONSTANTS
    Ids,                    \* client_item_id values
    Contents,               \* writes
    NoItem,                 \* nothing accepted under this id
    SameOperation(_, _)     \* what counts as a repetition of a write

VARIABLES
    journal,    \* the write accepted under each id
    landed,     \* how often it reached the registry
    answered    \* the requests the device was told are safe

vars == <<journal, landed, answered>>

Init ==
    /\ journal = [i \in Ids |-> NoItem]
    /\ landed = [i \in Ids |-> 0]
    /\ answered = {}

Accept(i, c) ==
    /\ journal[i] = NoItem
    /\ journal' = [journal EXCEPT ![i] = c]
    /\ answered' = answered \cup {<<i, c>>}
    /\ UNCHANGED landed

(* A retry of an accepted write is answered again and changes nothing.     *)
Repeat(i, c) ==
    /\ journal[i] # NoItem
    /\ SameOperation(journal[i], c)
    /\ answered' = answered \cup {<<i, c>>}
    /\ UNCHANGED <<journal, landed>>

Land(i) ==
    /\ journal[i] # NoItem
    /\ landed[i] = 0
    /\ landed' = [landed EXCEPT ![i] = 1]
    /\ UNCHANGED <<journal, answered>>

Next == \E i \in Ids :
    \/ \E c \in Contents : Accept(i, c) \/ Repeat(i, c)
    \/ Land(i)

Spec == Init /\ [][Next]_vars
=============================================================================
