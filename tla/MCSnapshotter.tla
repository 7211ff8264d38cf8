--------------------------- MODULE MCSnapshotter ---------------------------
(***************************************************************************)
(* Instances of the snapshotter for TLC: two documents, one of them with   *)
(* an id that is no ObjectID.                                              *)
(***************************************************************************)
EXTENDS Snapshotter

CONSTANTS d1, d2, u1, blank

AllDocs == {d1, d2}
OneHex == {d1}
MCUpdates == {u1}

\* The other document is there to be scanned and skipped: it has one entry at
\* most, and then faults and entries together are within MaxAdds.
Few ==
  LET others == Cardinality({n \in EntryIds : xadds[n].doc # d1})
  IN  others <= 1 /\ (others = 1 => faults + Len(xadds) <= MaxAdds)
=============================================================================
