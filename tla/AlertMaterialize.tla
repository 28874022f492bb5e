-------------------------- MODULE AlertMaterialize --------------------------
(***************************************************************************)
(* "alerts materialize": one transaction that upserts an incident for each *)
(* candidate and then, with --resolve-missing, resolves every open         *)
(* incident whose fingerprint is not among the candidates (alerts.py).     *)
(*                                                                         *)
(* A dry run reads only, so it is no action here.                          *)
(***************************************************************************)
EXTENDS AlertTables, Sequences

ASSUME FingerprintsAssumption == IsFiniteSet(Fingerprints)

VARIABLE mat   \* the state of each materializer

\* "cand" is the set of fingerprints of the candidates the run fetched,
\* "todo" what is left of the planned upserts, in their order.
MatState == [pc : {"idle", "upsert", "swept"}, at : Nat,
             cand : SUBSET Fingerprints, todo : Seq(Fingerprints),
             resolve : BOOLEAN]

IdleMat == [pc |-> "idle", at |-> 0, cand |-> {}, todo |-> << >>,
            resolve |-> FALSE]

MatTypeOK == mat \in [Materializers -> MatState]

MatInit == mat = [m \in Materializers |-> IdleMat]

-----------------------------------------------------------------------------
(* materialize_alerts, statement by statement.                             *)

\* The orders in which the rows of C may be fetched: the SQL function has no
\* ORDER BY.
Orders(C) == {q \in [1..Cardinality(C) -> C] :
                \A fp \in C : \E k \in 1..Cardinality(C) : q[k] = fp}

\* Connect, BEGIN and fetch_candidates.  The function may return any rows,
\* since it aggregates the whole database.
StartMaterialize(m) ==
  /\ mat[m].pc = "idle"
  /\ Begin
  /\ \E C \in SUBSET Fingerprints : \E q \in Orders(C), r \in BOOLEAN :
       mat' = [mat EXCEPT ![m] = [pc |-> "upsert", at |-> clock, cand |-> C,
                                  todo |-> q, resolve |-> r]]
  /\ UNCHANGED << committed, draft, lock, attempts, pending >>

\* Mutant: ON CONFLICT ... WHERE status = 'open'.
Conflicts_OpenOnly(fp) == {g \in 1..MaxIncidents :
                             \/ incidents[fp, g].status = "open"
                             \/ draft[fp, g].status = "open"}

\* Mutant: ON CONFLICT (fingerprint) without the partial index.
Conflicts_AnyStatus(fp) == {g \in 1..MaxIncidents :
                              draft[fp, g].status # "none"}

\* Rows of the partial unique index that conflict with an insert of fp.
Conflicts(fp) == {g \in 1..MaxIncidents : \/ Active(incidents[fp, g])
                                          \/ Active(draft[fp, g])}

\* A conflicting row that another transaction has written is waited for.
UpsertBlockers(m, fp) ==
  {lock[fp, g] : g \in Conflicts(fp)} \ {Nobody, m}

\* Mutant: DO UPDATE also sets status = EXCLUDED.status.
Refresh_Reopens(m, fp, g) ==
  /\ g \in Conflicts(fp)
  /\ Write(m, << fp, g >>, [draft[fp, g] EXCEPT !.seen = mat[m].at,
                                               !.status = "open"])

\* ON CONFLICT ... DO UPDATE: neither status nor notification_state changes.
Refresh(m, fp, g) ==
  /\ g \in Conflicts(fp)
  /\ Write(m, << fp, g >>, [draft[fp, g] EXCEPT !.seen = mat[m].at])

\* INSERT: the row number is the first unused one.
Insert(m, fp, g) ==
  /\ Conflicts(fp) = {}
  /\ \A h \in 1..MaxIncidents : draft[fp, h].status = "none" <=> h >= g
  /\ Write(m, << fp, g >>, [NoRow EXCEPT !.status = "open",
                                         !.seen = mat[m].at])

\* One INSERT ... ON CONFLICT statement, for the next planned candidate.
Upsert(m) ==
  /\ mat[m].pc = "upsert" /\ mat[m].todo # << >>
  /\ UpsertBlockers(m, Head(mat[m].todo)) = {}
  /\ \E g \in 1..MaxIncidents : \/ Refresh(m, Head(mat[m].todo), g)
                                \/ Insert(m, Head(mat[m].todo), g)
  /\ mat' = [mat EXCEPT ![m].todo = Tail(@)]
  /\ UNCHANGED << committed, attempts, pending, clock >>

\* Mutant: no resolve pass when there is no candidate at all.
Missing_NotWhenEmpty(m) == {i \in Incident :
                              /\ mat[m].cand # {}
                              /\ i[1] \notin mat[m].cand
                              /\ draft[i].status = "open"}

\* Mutant: WHERE status <> 'resolved'.
Missing_AnyActive(m) == {i \in Incident : /\ i[1] \notin mat[m].cand
                                          /\ Active(incidents[i])}

\* Rows the UPDATE ... WHERE status = 'open' statement is about: committed
\* open rows and the run's own.
Missing(m) == {i \in Incident :
                 /\ i[1] \notin mat[m].cand
                 /\ IF lock[i] = m THEN draft[i].status = "open"
                                   ELSE incidents[i].status = "open"}

SweepBlockers(m) == {lock[i] : i \in Missing(m)} \ {Nobody, m}

\* The resolve pass.  It is one statement, and it takes all its row locks in
\* one step: it waits while another transaction holds one of them.
Sweep(m) ==
  /\ mat[m].pc = "upsert" /\ mat[m].todo = << >>
  /\ mat[m].resolve
  /\ SweepBlockers(m) = {}
  /\ draft' = [i \in Incident |->
                 IF i \in Missing(m)
                 THEN [draft[i] EXCEPT !.status = "resolved"]
                 ELSE draft[i]]
  /\ lock' = [i \in Incident |-> IF i \in Missing(m) THEN m ELSE lock[i]]
  /\ mat' = [mat EXCEPT ![m].pc = "swept"]
  /\ UNCHANGED << committed, attempts, pending, clock >>

\* COMMIT, after the resolve pass or, without --resolve-missing, after the
\* last upsert.
CommitMaterialize(m) ==
  /\ \/ mat[m].pc = "swept"
     \/ mat[m].pc = "upsert" /\ mat[m].todo = << >> /\ ~mat[m].resolve
  /\ CommitRows(m)
  /\ mat' = [mat EXCEPT ![m] = IdleMat]
  /\ UNCHANGED << attempts, pending, clock >>

\* The processes m waits for at its current statement.
MatWaits(m) ==
  IF mat[m].pc # "upsert" THEN {}
  ELSE IF mat[m].todo # << >> THEN UpsertBlockers(m, Head(mat[m].todo))
  ELSE IF mat[m].resolve THEN SweepBlockers(m)
  ELSE {}

\* Killed, disconnected, or the victim of a deadlock: any error leaves the
\* "with connect(...)" block, which rolls back.
AbortMaterialize(m) ==
  /\ mat[m].pc # "idle"
  /\ RollbackRows(m)
  /\ mat' = [mat EXCEPT ![m] = IdleMat]
  /\ UNCHANGED << attempts, pending, clock >>

DeadlockMaterialize(m, waits) == OnCycle(m, waits) /\ AbortMaterialize(m)

\* Bound: a run that would need one more row than MaxIncidents is killed.
OutOfRoom(m) ==
  /\ mat[m].pc = "upsert" /\ mat[m].todo # << >>
  /\ Conflicts(Head(mat[m].todo)) = {}
  /\ \A g \in 1..MaxIncidents : draft[Head(mat[m].todo), g].status # "none"
  /\ AbortMaterialize(m)

MatStep(m, waits) == \/ StartMaterialize(m)
                     \/ Upsert(m)
                     \/ Sweep(m)
                     \/ CommitMaterialize(m)
                     \/ DeadlockMaterialize(m, waits)
                     \/ OutOfRoom(m)

-----------------------------------------------------------------------------
(* Properties.                                                             *)

\* A resolved incident is never reopened or reworded: the same problem coming
\* back is a new row (the partial index ignores resolved rows).
ResolvedIsFinal ==
  [][\A i \in Incident : incidents[i].status = "resolved" =>
       /\ incidents'[i].status = "resolved"
       /\ incidents'[i].seen = incidents[i].seen]_incidents

\* What the commit of a run with --resolve-missing leaves behind: an active
\* incident for every candidate it fetched, and open incidents for nothing
\* else.
CommitReflectsCandidates ==
  [][\A m \in Materializers :
       CommitMaterialize(m) /\ mat[m].resolve =>
         \A fp \in Fingerprints :
           /\ fp \in mat[m].cand =>
                \E g \in 1..MaxIncidents : Active(incidents'[fp, g])
           /\ fp \notin mat[m].cand =>
                \A g \in 1..MaxIncidents :
                  incidents'[fp, g].status # "open"]_<< tableVars, mat >>
=============================================================================
