------------------------------ MODULE Collab ------------------------------
(***************************************************************************)
(* The collab service: the hub and the snapshotter of one process, which   *)
(* share Redis and MongoDB and nothing else (main.go starts both).  The    *)
(* snapshotter checks at any time and finds every stream due, which covers *)
(* whatever its timers do.                                                 *)
(***************************************************************************)
EXTENDS Hub

CONSTANT MaxFaults   \* bound on the snapshotter's errors and restarts

ASSUME FaultsAssumption == MaxFaults \in Nat

VARIABLES
  pc, fired, left, todo, cur, oldest, batch, faults,   \* the snapshotter
  due,    \* due[c]: entries the stores held when c registered (history)
  torn    \* clients whose stream was trimmed between the two reads of their
          \* sendSync (history)

Snap == INSTANCE Snapshotter
          WITH IdleTimeout <- 0, FallbackTimeout <- 0, CheckInterval <- 1, CheckTime <- 1,
               MaxTime <- 0, MaxAdds <- MaxMsgs * (MaxRetries + 1)

snapVars == <<pc, fired, left, todo, cur, oldest, batch, faults>>
collabVars == <<vars, snapVars, due, torn>>

CollabInit ==
  /\ Init /\ Snap!SnapInit
  /\ due = [c \in Clients |-> {}]
  /\ torn = {}

HubStep ==
  /\ HubNext
  /\ due' = [c \in Clients |-> IF ~Registered(c) /\ Registered(c)'
                                THEN Snap!Accepted(doc[c]) ELSE due[c]]
  /\ UNCHANGED <<snapVars, torn>>

\* A step of the snapshotter, or the document service deleting a document.
SnapStep ==
  /\ Snap!Check \/ Snap!Failure \/ Snap!Tick \/ \E d \in Docs : Snap!RemoveDoc(d)
  /\ torn' = torn \cup {c \in Clients : sync[c] = "redis"
                                         /\ stream'[doc[c]] # stream[doc[c]]}
  /\ UNCHANGED <<hubVars, due>>

CollabNext == HubStep \/ SnapStep
CollabSpec == CollabInit /\ [][CollabNext]_collabVars

-----------------------------------------------------------------------------
(***************************************************************************)
(* Properties.                                                             *)
(***************************************************************************)

\* The hub is an environment the snapshotter was modelled with: all it does to
\* the stores is to append, one entry at a time.  What holds of Snapshotter
\* whatever its environment does, holds here.
ImplementsSnapshotter == Snap!Spec

\* sendSync has read both stores.
Synced(c) == sync[c] \in {"offer", "over"}

\* yjs_test.mjs: "Close, reopen one, verify state recovered from server".  A
\* client that joins is sent every update the stores held when it joined, as
\* long as the reads succeed and the document is not deleted.
StateRecovered ==
  \A c \in Clients : Synced(c) /\ Snap!Live(doc[c]) => due[c] \subseteq buf[c]

\* What is true of it: the one way to miss an update is a merge that deletes
\* entries from the stream after sendSync read MongoDB and before it read
\* Redis.  Merges, errors and restarts at any other time leave the sync whole.
RecoveredUnlessTorn ==
  \A c \in Clients \ torn :
    Synced(c) /\ Snap!Live(doc[c]) => due[c] \subseteq buf[c]
=============================================================================
