----------------------------- MODULE MCReadSurfaces -----------------------------
(* One request at a time against refreshes of two projects: handlers share  *)
(* nothing but the event loop, which one has to itself.                     *)
EXTENDS ReadSurfaces, TLC

CONSTANTS p1, p2

(* The second version of a profile no longer uses the first table.           *)
SomeTables ==
  [p \in Projects |->
     [n \in Ids |->
        IF n = 1 THEN ("orders" :> IF p = p1 THEN "write" ELSE "unknown")
        ELSE ("users" :> "read")]]
=============================================================================
