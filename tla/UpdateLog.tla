----------------------------- MODULE UpdateLog -----------------------------
(***************************************************************************)
(* What the collab service promises about the updates of a document: they  *)
(* form a log.  An accepted update gets a number above every earlier one   *)
(* and stays until the document is deleted; nothing else happens to it.    *)
(***************************************************************************)
EXTENDS Naturals

CONSTANTS
  Docs,
  Numbers   \* what updates are numbered with (a set of naturals)

VARIABLE log   \* log[d]: numbers of the updates of d

Init == log = [d \in Docs |-> {}]

Accept(d) ==
  \E n \in Numbers :
    /\ \A e \in Docs : \A m \in log[e] : m < n
    /\ log' = [log EXCEPT ![d] = @ \cup {n}]

Discard(d) == log' = [log EXCEPT ![d] = {}]

Next == \E d \in Docs : Accept(d) \/ Discard(d)
Spec == Init /\ [][Next]_log
=============================================================================
