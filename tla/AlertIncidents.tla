--------------------------- MODULE AlertIncidents ---------------------------
(***************************************************************************)
(* What the alerting commands promise about incidents, without             *)
(* transactions, rows or processes: each fingerprint has at most one       *)
(* active incident, an evaluation opens and resolves incidents in one      *)
(* step, and only an operator acknowledges one or closes an acknowledged   *)
(* one.  Notifications change nothing here.                                *)
(***************************************************************************)
EXTENDS Naturals

CONSTANT Fingerprints

VARIABLES
  active,  \* status of the active incident of a fingerprint, or "none"
  closed   \* number of resolved incidents of a fingerprint

Init == /\ active = [fp \in Fingerprints |-> "none"]
        /\ closed = [fp \in Fingerprints |-> 0]

\* An evaluation saw the problems "raised"; of the others it resolved those
\* in "resolved", which were open.
Evaluate(raised, resolved) ==
  /\ raised \cap resolved = {}
  /\ \A fp \in resolved : active[fp] = "open"
  /\ active' = [fp \in Fingerprints |->
                  IF fp \in resolved THEN "none"
                  ELSE IF fp \in raised /\ active[fp] = "none" THEN "open"
                  ELSE active[fp]]
  /\ closed' = [fp \in Fingerprints |->
                  IF fp \in resolved THEN closed[fp] + 1 ELSE closed[fp]]

Acknowledge(fp) ==
  /\ active[fp] = "open"
  /\ active' = [active EXCEPT ![fp] = "acknowledged"]
  /\ UNCHANGED closed

Close(fp) ==
  /\ active[fp] # "none"
  /\ active' = [active EXCEPT ![fp] = "none"]
  /\ closed' = [closed EXCEPT ![fp] = @ + 1]

Next == \/ \E raised, resolved \in SUBSET Fingerprints :
             Evaluate(raised, resolved)
        \/ \E fp \in Fingerprints : Acknowledge(fp) \/ Close(fp)

Spec == Init /\ [][Next]_<< active, closed >>
=============================================================================
