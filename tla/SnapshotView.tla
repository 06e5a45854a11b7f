----------------------------- MODULE SnapshotView -----------------------------
(***************************************************************************)
(* What the writer side promises the readers: a register of published      *)
(* snapshots and a pointer to the current one.  Snapshots are published    *)
(* once, whole, and never change afterwards.  A full refresh publishes a   *)
(* fresh catalog with profiles of its own; a single-project refresh        *)
(* publishes a copy of some earlier snapshot with at most one profile      *)
(* replaced.  IngestionCoordinator.tla implements this specification.      *)
(***************************************************************************)
EXTENDS Naturals

CONSTANTS Projects, MaxSnapshot

Ids == 1..MaxSnapshot
NoSnapshot == 0

VARIABLES
  views,   \* snapshot id -> its catalog and profiles, for published ids
  current  \* the id readers are pointed to, or NoSnapshot

Views == [catalog : SUBSET Projects, profile : [Projects -> {0} \cup Ids]]

Init == views = << >> /\ current = NoSnapshot

Publish(n, v) ==
  /\ n \notin DOMAIN views
  /\ views' = [m \in DOMAIN views \cup {n} |-> IF m = n THEN v ELSE views[m]]
  /\ current' = n

(* Projects in the catalog have a profile written by this job, or none.      *)
PublishFull(n) ==
  \E catalog \in SUBSET Projects : \E analyzed \in SUBSET catalog :
    Publish(n, [catalog |-> catalog,
                profile |-> [p \in Projects |->
                               IF p \in analyzed THEN n ELSE NoSnapshot]])

(* The base need not be the current snapshot: the coordinator reads its      *)
(* parent before it owns the slot.                                           *)
PublishSingle(n) ==
  \E base \in DOMAIN views, p \in Projects :
    \/ Publish(n, views[base])
    \/ Publish(n, [views[base] EXCEPT !.profile[p] = n])

Next == \E n \in Ids : PublishFull(n) \/ PublishSingle(n)

Spec == Init /\ [][Next]_<<views, current>>
=============================================================================
