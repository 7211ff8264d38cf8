------------------------------- MODULE MCHub -------------------------------
(***************************************************************************)
(* Instances of the hub for TLC.                                           *)
(***************************************************************************)
EXTENDS Hub, TLC

CONSTANTS d1, d2, u1, blank, c1, c2, w1, w2

TwoDocs == {d1, d2}
OneDoc == {d1}
NoDocs == {}
Symmetry == Permutations(Clients)
RoomSymmetry == Symmetry \cup Permutations(Docs)
MCUpdates == {u1}
TwoClients == {c1, c2}
OneWorker == {w1}
TwoWorkers == {w1, w2}

Frame(j, d, t, p) == [json |-> j, doc |-> d, type |-> t, payload |-> p]

\* A frame of a browser, whatever document it names, and one that is no JSON,
\* which is taken for an update.
RoomFrames == {Frame(j, d, "awareness", u1) : j \in BOOLEAN, d \in TwoDocs}
UpdateFrames == {Frame(TRUE, d1, "update", u1)}
AwarenessFrames == {Frame(TRUE, d1, "awareness", u1)}

\* Either one connection has come, and everything may fail; or the stream
\* writers miss nothing, send nothing again, and leave all to one of them.
OneOrHealthy ==
  \/ \E c \in Clients : \A b \in Clients \ {c} : reader[b] = "new"
  \/ /\ missed = {}
     /\ \A w \in Workers : tries[w] = 0 /\ (worker[w] # 0 => w = w1)
     /\ \A n \in EntryIds : origin[n].try = 0
=============================================================================
