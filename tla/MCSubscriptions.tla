-------------------------- MODULE MCSubscriptions --------------------------
(* One subscription, on an engine other than the one asked to delete the    *)
(* session.                                                                 *)
EXTENDS Subscriptions

CONSTANTS n1, n2, u1

OneRequest == {[node |-> n2, uri |-> u1, copy |-> 1]}
=============================================================================
