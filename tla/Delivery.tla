------------------------------ MODULE Delivery ------------------------------
(***************************************************************************)
(* What becomes of a peer's reports, without the queue, the work item, the *)
(* handler, discovery and the layout: those that the peer linked to sends  *)
(* from its sources are published, at most once each and in the order in   *)
(* which they came, as that peer's own, or refused when their turn comes;  *)
(* when the link goes, those still on their way go with it and what was    *)
(* held is let go.  ReportPath implements it.                              *)
(***************************************************************************)
EXTENDS Naturals, Sequences

CONSTANTS
    None,
    Sources,    \* for each peer the value handles it may send reports from
    Capacity    \* how many reports may be on their way

VARIABLES
    owner,      \* the peer linked to, else None
    pending,    \* its reports on their way, the oldest first
    out,        \* what was just published, and as whose
    held        \* what was published has left a button held

Connect(p) == owner = None /\ owner' = p /\ UNCHANGED <<pending, out, held>>

Arrive ==
    /\ owner # None /\ Len(pending) < Capacity
    /\ \E n \in DOMAIN pending' :
         /\ pending' = Append(pending, pending'[n])
         /\ pending'[n].from = owner
         /\ pending'[n].value_handle \in Sources[owner]
    /\ UNCHANGED <<owner, out, held>>

Publish ==
    /\ pending # <<>>
    /\ pending' = Tail(pending)
    /\ out' = [evt |-> Head(pending), of |-> owner]
    /\ held' \in BOOLEAN
    /\ UNCHANGED owner

Settle == out'.of = None /\ UNCHANGED <<owner, pending, held>>

Refuse ==
    /\ pending # <<>>
    /\ pending' = Tail(pending)
    /\ UNCHANGED <<owner, out, held>>

Lose ==
    /\ owner # None /\ owner' = None
    /\ pending' = <<>> /\ held' = FALSE
    /\ UNCHANGED out

Init == owner = None /\ pending = <<>> /\ out.of = None /\ held = FALSE

Next == (\E p \in DOMAIN Sources : Connect(p)) \/ Arrive \/ Publish \/ Settle \/ Refuse \/ Lose

Spec == Init /\ [][Next]_<<owner, pending, out, held>>
=============================================================================
