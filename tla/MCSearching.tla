---------------------------- MODULE MCSearching ----------------------------
(***************************************************************************)
(* Instances of the document service with the index pipeline for TLC.      *)
(***************************************************************************)
EXTENDS Searching, FiniteSets, TLC

CONSTANTS c1, c2, c3, x1, u1, u2, t1, t2, v1, empty, s1, s2

MCCalls == {c1, c2, c3}
MCReaders == {c3}
MCDocIds == {x1}
MCUsers == {u1, u2}
MCTitles == {t1, t2}
MCContents == {empty, v1}
MCTimes == {s1, s2}

\* Calls that read alike and calls that write alike, titles, users, times.
Symmetry == Permutations(Calls \ Readers) \cup Permutations(Titles)
            \cup Permutations(Users) \cup Permutations(Times)

\* The consumer has not begun, and nothing has gone wrong.
Still ==
  /\ chan = "none" /\ step = "take" /\ applied = {} /\ linked /\ conn
  /\ errors + faults + losses = 0 /\ ~ended

\* There is a cache, no reader is under way, and one user and one time are all
\* there is in calls and stores.
Plain ==
  LET asked == {req[c] : c \in Calls} \ {NoRequest}
      known == ({coll[d] : d \in DocIds} \cup {cache[d] : d \in DocIds}
                \cup {detail[c] : c \in Calls}) \ {Absent}
      asking == {r \in asked : r.op \in {"create", "share", "delete"}}
  IN  /\ cached /\ \A c \in Readers : pc[c] \in {"idle", "done"}
      /\ Cardinality({k.owner : k \in known} \cup {r.user : r \in asking}) <= 1
      /\ Cardinality({k.updated : k \in known}) <= 1

StillOrPlain == Still \/ Plain
=============================================================================
