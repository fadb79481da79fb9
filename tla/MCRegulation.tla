---------------------------- MODULE MCRegulation ----------------------------
EXTENDS Regulation, TLC

CONSTANTS h1, h2, o1, o2

MCHandlers == {h1, h2}
MCOrders == {o1, o2}
MCEntered == {[status |-> "Pending", done |-> 0],
              [status |-> "Approved", done |-> 1]}
Alike == Permutations(MCHandlers) \cup Permutations(MCOrders)

(* bound: the desks are started in their less usual states in turn, the    *)
(* site and the licence or the approval                                    *)
InTurn ==
    starts = 0 =>
        \/ request.done = 0 /\ source = "PermitApplication"
        \/ /\ inspection = NewInspection /\ project = "PLANNING"
           /\ source # "PermitApplication" => app = "none"
=============================================================================
