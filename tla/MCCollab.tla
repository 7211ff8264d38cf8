------------------------------ MODULE MCCollab ------------------------------
(***************************************************************************)
(* Instances of the collab service for TLC.                                *)
(***************************************************************************)
EXTENDS Collab, TLC

CONSTANTS d1, u1, blank, c1, c2, w1

MCDocs == {d1}
MCUpdates == {u1}
MCClients == {c1, c2}
MCWorkers == {w1}
Symmetry == Permutations(Clients)
\* Connections that stay: leaving changes nothing in the stores.
Connected == \A c \in Clients : conn[c] \in {"none", "open"}
MCFrames == {[json |-> TRUE, doc |-> d1, type |-> "update", payload |-> u1]}
=============================================================================
