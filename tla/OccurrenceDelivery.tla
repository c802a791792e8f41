--------------------------- MODULE OccurrenceDelivery ---------------------------
(***************************************************************************)
(* What the notification journal promises, without its machinery: an       *)
(* occurrence (delivery ref) is admitted into one notification for good, a *)
(* notification reaches the person at most once, and only what reached the *)
(* person is acknowledged in the ledger.                                   *)
(***************************************************************************)
EXTENDS Naturals

CONSTANTS Ref, Group, None

VARIABLES
    holder,     \* which notification a ref was admitted into
    receipts,   \* how often a notification reached the person
    acked       \* refs acknowledged as delivered

vars == <<holder, receipts, acked>>

Init ==
    /\ holder = [r \in Ref |-> None]
    /\ receipts = [g \in Group |-> 0]
    /\ acked = {}

Held(g) == \A r \in g : holder[r] = g

Admit(g) ==
    /\ \A r \in g : holder[r] = None
    /\ holder' = [r \in Ref |-> IF r \in g THEN g ELSE holder[r]]
    /\ UNCHANGED <<receipts, acked>>

Deliver(g) ==
    /\ Held(g)
    /\ receipts[g] = 0
    /\ receipts' = [receipts EXCEPT ![g] = 1]
    /\ UNCHANGED <<holder, acked>>

Acknowledge(g) ==
    /\ receipts[g] = 1
    /\ acked' = acked \cup g
    /\ UNCHANGED <<holder, receipts>>

Next == \E g \in Group : Admit(g) \/ Deliver(g) \/ Acknowledge(g)

Spec == Init /\ [][Next]_vars
=============================================================================
