----------------------------- MODULE SealChain ------------------------------
(***************************************************************************)
(* What the validators promise together: every resource has one chain of   *)
(* seals, it only grows at its end, and each node walks along it.          *)
(***************************************************************************)
EXTENDS Integers

CONSTANTS Node, Resource, Capsule, Pred, ResourceOf, Version

VARIABLES
    closed,  \* the capsules that have been closed
    head     \* head[n][r]: the seal of r that node n is at

Seal == Resource \cup Capsule

Init ==
    /\ closed = {}
    /\ head = [n \in Node |-> [r \in Resource |-> r]]

\* c extends the chain of its resource at its end.
Close(c) ==
    /\ Pred[c] \in Resource \cup closed
    /\ \A d \in closed : Pred[d] # Pred[c]
    /\ closed' = closed \cup {c}
    /\ UNCHANGED head

\* Node n moves on to the successor of the seal it is at.
Advance(n, c) ==
    /\ c \in closed
    /\ head[n][ResourceOf[c]] = Pred[c]
    /\ head' = [head EXCEPT ![n][ResourceOf[c]] = c]
    /\ UNCHANGED closed

Next ==
    \/ \E c \in Capsule \ closed : Close(c)
    \/ \E n \in Node, c \in Capsule : Advance(n, c)

Spec == Init /\ [][Next]_<<closed, head>>

=============================================================================
