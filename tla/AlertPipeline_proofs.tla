----------------------- MODULE AlertPipeline_proofs -------------------------
(***************************************************************************)
(* Proofs about AlertPipeline, for any sets of fingerprints, notifiers and *)
(* processes, any settings and all values of the bounds: its types, and    *)
(* the rows of alert_events.                                               *)
(***************************************************************************)
EXTENDS AlertPipeline, SequenceTheorems, FiniteSetTheorems, TLAPS

-----------------------------------------------------------------------------
(* Types.                                                                  *)

\* Every value that a sender's read of the open incidents can give is an
\* item: OpenItems copies typed rows.
LEMMA OpenItemsType ==
  ASSUME TablesTypeOK
  PROVE  OpenItems \subseteq Item
  BY DEF OpenItems, Item, TablesTypeOK, Row

\* A page of a set of items is a set of those items.
LEMMA FirstOfSubset ==
  ASSUME NEW S, NEW n, NEW T \in FirstOf(S, n)
  PROVE  T \subseteq S
  BY DEF FirstOf

\* The audit rows a sender makes are attempts.
LEMMA NewAttemptType ==
  ASSUME SndTypeOK, NEW s \in Senders, NEW e \in Item,
         NEW status \in {"succeeded", "failed", "skipped"},
         NEW why \in {"send", "digest", "max_attempts", "retry_queue_filter",
                      "retry_backoff", "already_current"},
         NEW retry \in Nat
  PROVE  NewAttempt(s, e, status, why, retry) \in Attempt
  BY NotifierAssumption DEF NewAttempt, Attempt, Item, SndTypeOK, SndState

\* retry_delay_seconds is a number of ticks, whatever the failure count.
LEMMA RetryDelayType ==
  ASSUME NEW k PROVE RetryDelay(k) \in Nat
  BY SettingsAssumption DEF RetryDelay

\* Messages that leave the system are deliveries.
LEMMA SentType ==
  ASSUME TablesTypeOK, SndTypeOK, NEW s \in Senders, NEW E \in SUBSET Item
  PROVE  Sent(s, E) \subseteq Delivery
  BY NotifierAssumption
  DEF Sent, Delivery, Item, SndTypeOK, SndState, Mode, TablesTypeOK

\* Ending a transaction leaves the tables typed.
LEMMA CommitType ==
  ASSUME TablesTypeOK, NEW p \in Procs, CommitRows(p)
  PROVE  /\ incidents' \in [Incident -> Row] /\ draft' \in [Incident -> Row]
         /\ closedAt' \in [Incident -> Nat]
         /\ lock' \in [Incident -> Procs \cup {Nobody}]
  BY BoundsAssumption DEF TablesTypeOK, CommitRows, Released

LEMMA RollbackType ==
  ASSUME TablesTypeOK, NEW p \in Procs, RollbackRows(p)
  PROVE  /\ incidents' \in [Incident -> Row] /\ draft' \in [Incident -> Row]
         /\ closedAt' \in [Incident -> Nat]
         /\ lock' \in [Incident -> Procs \cup {Nobody}]
  BY DEF TablesTypeOK, RollbackRows, Released, committed

\* Writing a typed row leaves the tables typed.
LEMMA WriteType ==
  ASSUME TablesTypeOK, NEW p \in Procs, NEW i \in Incident, NEW row \in Row,
         Write(p, i, row)
  PROVE  /\ draft' \in [Incident -> Row]
         /\ lock' \in [Incident -> Procs \cup {Nobody}]
  BY DEF TablesTypeOK, Write

\* An operator's edit leaves the tables typed.
LEMMA SetStatusType ==
  ASSUME TablesTypeOK, NEW i \in Incident, NEW status \in Status,
         SetStatus(i, status)
  PROVE  TablesTypeOK'
<1>1. clock \in Nat
  BY BoundsAssumption DEF TablesTypeOK
<1>2. incidents' \in [Incident -> Row] /\ draft' \in [Incident -> Row]
  BY DEF TablesTypeOK, SetStatus, Row
<1>3. closedAt' \in [Incident -> Nat]
  BY <1>1 DEF TablesTypeOK, SetStatus
<1> QED
  BY <1>2, <1>3 DEF TablesTypeOK, SetStatus

LEMMA TypeInit == ASSUME Init PROVE TypeOK
<1>1. NoRow \in Row
  BY DEF NoRow, Row, Status
<1>2. IdleMat \in MatState /\ IdleSnd \in SndState
  BY DEF IdleMat, MatState, IdleSnd, SndState, PlainMode, Mode
<1> QED
  BY <1>1, <1>2, BoundsAssumption
  DEF Init, TypeOK, TablesInit, TablesTypeOK, MatInit, MatTypeOK, SndInit,
      SndTypeOK

\* One statement of a materialize run keeps the types.
LEMMA MatTypeStep ==
  ASSUME TypeOK, NEW m \in Materializers, MatStep(m, Waits),
         UNCHANGED senderVars
  PROVE  TypeOK'
<1> USE DEF TypeOK, TablesTypeOK, MatTypeOK, committed
<1>0. SndTypeOK'
  BY DEF SndTypeOK, senderVars
<1>1. m \in Procs /\ clock \in Nat
  BY BoundsAssumption DEF Procs
<1>2. CASE StartMaterialize(m)
  <2>1. PICK C \in SUBSET Fingerprints : \E q \in Orders(C), r \in BOOLEAN :
               mat' = [mat EXCEPT ![m] = [pc |-> "upsert", at |-> clock,
                                          cand |-> C, todo |-> q,
                                          resolve |-> r]]
    BY <1>2 DEF StartMaterialize
  <2>2. IsFiniteSet(C)
    BY FingerprintsAssumption, FS_Subset
  <2>3. Orders(C) \subseteq Seq(Fingerprints)
    <3>1. Cardinality(C) \in Nat
      BY <2>2, FS_CardinalityType
    <3>2. [1..Cardinality(C) -> C] \subseteq Seq(C)
      <4>1. Seq(C) = UNION {[1..n -> C] : n \in Nat}
        BY SeqDef, Zenon
      <4>2. [1..Cardinality(C) -> C] \in {[1..n -> C] : n \in Nat}
        BY <3>1, Zenon
      <4> QED BY <4>1, <4>2, Zenon
    <3>3. Seq(C) \subseteq Seq(Fingerprints)
      BY SeqMonotonic
    <3> QED
      BY <3>2, <3>3 DEF Orders
  <2>4. mat' \in [Materializers -> MatState]
    BY <1>1, <2>1, <2>3 DEF MatState
  <2> QED
    BY <1>0, <1>2, <2>4, BoundsAssumption DEF StartMaterialize, Begin
<1>3. CASE Upsert(m)
  <2>1. /\ mat[m].todo \in Seq(Fingerprints) /\ mat[m].todo # << >>
        /\ mat[m] \in MatState
    BY <1>3 DEF Upsert, MatState
  <2>2. Head(mat[m].todo) \in Fingerprints /\ Tail(mat[m].todo) \in Seq(Fingerprints)
    BY <2>1
  <2>3. PICK g \in 1..MaxIncidents : \/ Refresh(m, Head(mat[m].todo), g)
                                    \/ Insert(m, Head(mat[m].todo), g)
    BY <1>3 DEF Upsert
  <2>4. << Head(mat[m].todo), g >> \in Incident
    BY <2>2 DEF Incident
  <2>5. \E row \in Row : Write(m, << Head(mat[m].todo), g >>, row)
    <3>1. CASE Refresh(m, Head(mat[m].todo), g)
      <4>1. [draft[Head(mat[m].todo), g] EXCEPT !.seen = mat[m].at] \in Row
        <5>1. draft[Head(mat[m].todo), g] \in Row /\ mat[m].at \in Nat
          BY <1>0, <2>1, <2>4 DEF MatState
        <5> QED BY <5>1 DEF Row
      <4> QED BY <3>1, <4>1 DEF Refresh
    <3>2. CASE Insert(m, Head(mat[m].todo), g)
      <4>1. [NoRow EXCEPT !.status = "open", !.seen = mat[m].at] \in Row
        BY <2>1 DEF Row, MatState, NoRow, Status
      <4> QED BY <3>2, <4>1 DEF Insert
    <3> QED BY <2>3, <3>1, <3>2
  <2>6. mat' \in [Materializers -> MatState]
    BY <1>3, <2>1, <2>2 DEF Upsert, MatState
  <2> QED
    BY <1>0, <1>1, <1>3, <2>4, <2>5, <2>6, WriteType DEF Upsert
<1>4. CASE Sweep(m)
  <2>1. draft' \in [Incident -> Row]
    <3>1. draft \in [Incident -> Row]
      OBVIOUS
    <3>2. \A i \in Incident :
             [draft[i] EXCEPT !.status = "resolved"] \in Row
      BY <3>1 DEF Row, Status
    <3>3. draft' = [i \in Incident |->
                      IF i \in Missing(m)
                      THEN [draft[i] EXCEPT !.status = "resolved"]
                      ELSE draft[i]]
      BY <1>4 DEF Sweep
    <3> QED BY <3>1, <3>2, <3>3
  <2>2. mat' \in [Materializers -> MatState]
    <3>1. [mat[m] EXCEPT !.pc = "swept"] \in MatState
      BY DEF MatState
    <3>2. mat' = [mat EXCEPT ![m] = [mat[m] EXCEPT !.pc = "swept"]]
      BY <1>4 DEF Sweep
    <3> QED BY <3>1, <3>2
  <2> QED
    BY <1>0, <1>1, <1>4, <2>1, <2>2 DEF Sweep
<1>5. CASE CommitMaterialize(m)
  BY <1>0, <1>1, <1>5, CommitType DEF CommitMaterialize, IdleMat, MatState
<1>6. CASE AbortMaterialize(m)
  BY <1>0, <1>1, <1>6, RollbackType DEF AbortMaterialize, IdleMat, MatState
<1> QED
  BY <1>2, <1>3, <1>4, <1>5, <1>6 DEF MatStep, DeadlockMaterialize,
         OutOfRoom

\* The reason why an item is skipped is one the audit table may hold.
LEMMA SkipReasonType ==
  ASSUME NEW s, NEW e
  PROVE  SkipReason(s, e) \in {"max_attempts", "retry_queue_filter",
                               "retry_backoff", "already_current", "none"}
  BY DEF SkipReason

\* Recording a typed attempt keeps "pending" typed.
LEMMA RecordType ==
  ASSUME TablesTypeOK, NEW s \in Senders, NEW a \in Attempt, Record(s, a)
  PROVE  pending' \in [Senders -> SUBSET Attempt]
  BY DEF TablesTypeOK, Record

\* Writing the mark of an item keeps the rows typed.
LEMMA MarkType ==
  ASSUME TablesTypeOK, NEW s \in Senders, NEW e \in Item,
         NEW marks \in [Notifiers -> Nat], Mark(s, e, marks)
  PROVE  /\ draft' \in [Incident -> Row]
         /\ lock' \in [Incident -> Procs \cup {Nobody}]
<1>1. s \in Procs /\ e.inc \in Incident
  BY DEF Procs, Item
<1>2. [draft[e.inc] EXCEPT !.marks = marks] \in Row
  BY <1>1 DEF Row, TablesTypeOK
<1> QED
  BY <1>1, <1>2, WriteType DEF Mark

\* One statement of a send run keeps the types.
LEMMA SndTypeStep ==
  ASSUME TypeOK, NEW s \in Senders, SndStep(s, Waits), UNCHANGED mat
  PROVE  TypeOK'
<1> USE DEF TypeOK, SndTypeOK, committed
<1>0. MatTypeOK'
  BY DEF MatTypeOK
<1>1. s \in Procs /\ clock \in Nat /\ snd[s] \in SndState
  BY BoundsAssumption DEF Procs, TablesTypeOK
<1>2. ASSUME StartSend(s) PROVE TypeOK'
  <2>1. PICK mode \in Modes : snd' = [snd EXCEPT ![s].pc = "select",
                                     ![s].mode = mode, ![s].at = clock]
    BY <1>2 DEF StartSend
  <2>2. snd' \in [Senders -> SndState]
    BY <1>1, <2>1, ModesAssumption DEF SndState
  <2> QED
    BY <1>0, <1>2, <2>2, BoundsAssumption DEF StartSend, Begin, TablesTypeOK
<1>3. ASSUME SelectOpen(s) PROVE TypeOK'
  <2>1. PICK page \in FirstOf(OpenItems, Limit) :
               snd' = [snd EXCEPT ![s].pc = "loop",
                                  ![s].todo = {e \in page : Severe(e)}]
    BY <1>3 DEF SelectOpen
  <2>2. page \subseteq Item
    BY OpenItemsType, FirstOfSubset
  <2>3. snd' \in [Senders -> SndState]
    BY <1>1, <2>1, <2>2 DEF SndState
  <2> QED
    BY <1>0, <1>3, <2>3 DEF SelectOpen, tableVars, TablesTypeOK
<1>4. ASSUME SelectDigest(s) PROVE TypeOK'
  <2>1. PICK page \in FirstOf(OpenItems, Limit) : \E recent \in SUBSET page :
          \E items \in FirstOf({e \in recent : Severe(e)}, DigestLimit) :
            snd' = [snd EXCEPT ![s] =
                      IF items = {} THEN IdleSnd
                      ELSE [@ EXCEPT !.pc = "loop", !.todo = items]]
    BY <1>4 DEF SelectDigest
  <2>2. PICK recent \in SUBSET page :
          \E items \in FirstOf({e \in recent : Severe(e)}, DigestLimit) :
            snd' = [snd EXCEPT ![s] =
                      IF items = {} THEN IdleSnd
                      ELSE [@ EXCEPT !.pc = "loop", !.todo = items]]
    BY <2>1
  <2>3. PICK items \in FirstOf({e \in recent : Severe(e)}, DigestLimit) :
            snd' = [snd EXCEPT ![s] =
                      IF items = {} THEN IdleSnd
                      ELSE [@ EXCEPT !.pc = "loop", !.todo = items]]
    BY <2>2
  <2>4. items \subseteq Item
    <3>1. page \subseteq Item
      BY OpenItemsType, FirstOfSubset
    <3>2. items \subseteq {e \in recent : Severe(e)}
      BY FirstOfSubset
    <3> QED BY <3>1, <3>2
  <2>5. IdleSnd \in SndState
    BY DEF IdleSnd, SndState, PlainMode, Mode
  <2>6. [snd[s] EXCEPT !.pc = "loop", !.todo = items] \in SndState
    BY <1>1, <2>4 DEF SndState
  <2>7. snd' \in [Senders -> SndState]
    BY <2>3, <2>5, <2>6
  <2> QED
    BY <1>0, <1>4, <2>7 DEF SelectDigest, tableVars, TablesTypeOK
<1>5. ASSUME Skip(s) PROVE TypeOK'
  <2>1. PICK e \in Heads(s) :
          /\ SkipReason(s, e) # "none"
          /\ \E retry \in (IF SkipReason(s, e) = "retry_backoff"
                           THEN {a.retry : a \in LastAttempt(s, e.inc)}
                           ELSE {0}) :
               Record(s, NewAttempt(s, e, "skipped", SkipReason(s, e), retry))
          /\ snd' = [snd EXCEPT ![s].todo = @ \ {e}]
    BY <1>5 DEF Skip
  <2>2. e \in Item
    BY <1>1 DEF Heads, SndState
  <2>3. LastAttempt(s, e.inc) \subseteq Attempt
    BY DEF LastAttempt, Visible, TablesTypeOK
  <2>4. PICK retry \in Nat :
          Record(s, NewAttempt(s, e, "skipped", SkipReason(s, e), retry))
    BY <2>1, <2>3 DEF Attempt
  <2>5. NewAttempt(s, e, "skipped", SkipReason(s, e), retry) \in Attempt
    BY <2>1, <2>2, SkipReasonType, NewAttemptType
  <2>6. pending' \in [Senders -> SUBSET Attempt]
    BY <2>4, <2>5, RecordType
  <2>7. snd' \in [Senders -> SndState]
    BY <1>1, <2>1 DEF SndState
  <2> QED
    BY <1>0, <1>5, <2>6, <2>7 DEF Skip, TablesTypeOK
<1>6. ASSUME Deliver(s) PROVE TypeOK'
  <2>1. PICK e \in Heads(s), ok \in BOOLEAN, arrived \in BOOLEAN :
          /\ delivered' = delivered \cup (IF arrived THEN Sent(s, {e}) ELSE {})
          /\ snd' = [snd EXCEPT ![s].pc = IF ok THEN "record" ELSE "undo",
                                ![s].cur = {e}]
    BY <1>6 DEF Deliver
  <2>2. e \in Item
    BY <1>1 DEF Heads, SndState
  <2>3. Sent(s, {e}) \subseteq Delivery
    BY <2>2, SentType
  <2>4. snd' \in [Senders -> SndState]
    BY <1>1, <2>1, <2>2 DEF SndState
  <2> QED
    BY <1>0, <1>6, <2>1, <2>3, <2>4 DEF Deliver, tableVars, TablesTypeOK
<1>7. ASSUME snd' = NextItem(s) PROVE snd' \in [Senders -> SndState]
  BY <1>1, <1>7 DEF NextItem, SndState
<1>8. ASSUME RecordSuccess(s) PROVE TypeOK'
  <2>1. PICK e \in snd[s].cur :
          /\ Mark(s, e, [e.marks EXCEPT ![NotifierOf[s]] = e.seen])
          /\ Record(s, NewAttempt(s, e, "succeeded", "send", 0))
    BY <1>8 DEF RecordSuccess
  <2>2. e \in Item
    BY <1>1 DEF SndState
  <2>3. [e.marks EXCEPT ![NotifierOf[s]] = e.seen] \in [Notifiers -> Nat]
    BY <2>2 DEF Item
  <2>4. NewAttempt(s, e, "succeeded", "send", 0) \in Attempt
    BY <2>2, NewAttemptType
  <2> QED
    BY <1>0, <1>7, <1>8, <2>1, <2>2, <2>3, <2>4, MarkType, RecordType
    DEF RecordSuccess, TablesTypeOK
<1>9. ASSUME RecordFailure(s) PROVE TypeOK'
  <2>1. PICK e \in snd[s].cur :
          Record(s, NewAttempt(s, e, "failed", "send",
                               clock + RetryDelay(FailureCount(s, e.inc) + 1)))
    BY <1>9 DEF RecordFailure
  <2>2. e \in Item
    BY <1>1 DEF SndState
  <2>3. clock + RetryDelay(FailureCount(s, e.inc) + 1) \in Nat
    BY <1>1, RetryDelayType
  <2>4. pending' \in [Senders -> SUBSET Attempt]
    BY <2>1, <2>2, <2>3, NewAttemptType, RecordType
  <2> QED
    BY <1>0, <1>7, <1>9, <2>4 DEF RecordFailure, TablesTypeOK
<1>10. ASSUME DeliverDigest(s) PROVE TypeOK'
  <2>1. Sent(s, snd[s].todo) \subseteq Delivery
    BY <1>1, SentType DEF SndState
  <2>2. snd' \in [Senders -> SndState]
    BY <1>1, <1>10 DEF DeliverDigest, SndState
  <2> QED
    BY <1>0, <1>10, <2>1, <2>2 DEF DeliverDigest, tableVars, TablesTypeOK
<1>11. ASSUME PersistDigest(s) PROVE TypeOK'
  <2>1. PICK e \in Heads(s) :
          /\ Mark(s, e, e.marks)
          /\ Record(s, NewAttempt(s, e, "succeeded", "digest", 0))
          /\ snd' = [snd EXCEPT ![s].todo = @ \ {e}]
    BY <1>11 DEF PersistDigest
  <2>2. e \in Item /\ e.marks \in [Notifiers -> Nat]
    BY <1>1 DEF Heads, SndState, Item
  <2>3. NewAttempt(s, e, "succeeded", "digest", 0) \in Attempt
    BY <2>2, NewAttemptType
  <2>4. snd' \in [Senders -> SndState]
    BY <1>1, <2>1 DEF SndState
  <2> QED
    BY <1>0, <1>11, <2>1, <2>2, <2>3, <2>4, MarkType, RecordType
    DEF PersistDigest, TablesTypeOK
<1>12. ASSUME FailDigest(s) PROVE TypeOK'
  <2>1. Sent(s, snd[s].todo) \subseteq Delivery
    BY <1>1, SentType DEF SndState
  <2>2. delivered' \subseteq Delivery
    BY <1>12, <2>1 DEF FailDigest
  <2>3. \A e \in snd[s].todo :
          NewAttempt(s, e, "failed", "digest",
                     clock + RetryDelay(FailureCount(s, e.inc) + 1)) \in Attempt
    <3> SUFFICES ASSUME NEW e \in snd[s].todo
                 PROVE  NewAttempt(s, e, "failed", "digest",
                          clock + RetryDelay(FailureCount(s, e.inc) + 1))
                          \in Attempt
      OBVIOUS
    <3>1. e \in Item
      BY <1>1 DEF SndState
    <3>2. clock + RetryDelay(FailureCount(s, e.inc) + 1) \in Nat
      BY <1>1, RetryDelayType
    <3> QED BY <3>1, <3>2, NewAttemptType
  <2>4. attempts' \in SUBSET Attempt
    BY <1>12, <2>3 DEF FailDigest, TablesTypeOK
  <2>5. snd' \in [Senders -> SndState]
    BY <1>12 DEF FailDigest, IdleSnd, SndState, PlainMode, Mode
  <2> QED
    BY <1>0, <1>12, <2>2, <2>4, <2>5 DEF FailDigest, TablesTypeOK
<1>13. ASSUME CommitSend(s) PROVE TypeOK'
  <2>1. snd' \in [Senders -> SndState]
    BY <1>13 DEF CommitSend, IdleSnd, SndState, PlainMode, Mode
  <2>2. attempts' \in SUBSET Attempt /\ pending' \in [Senders -> SUBSET Attempt]
    BY <1>13 DEF CommitSend, TablesTypeOK
  <2> QED
    BY <1>0, <1>1, <1>13, <2>1, <2>2, CommitType DEF CommitSend, TablesTypeOK
<1>14. ASSUME AbortSend(s) PROVE TypeOK'
  <2>1. snd' \in [Senders -> SndState]
    BY <1>14 DEF AbortSend, IdleSnd, SndState, PlainMode, Mode
  <2>2. pending' \in [Senders -> SUBSET Attempt]
    BY <1>14 DEF AbortSend, TablesTypeOK
  <2> QED
    BY <1>0, <1>1, <1>14, <2>1, <2>2, RollbackType DEF AbortSend, TablesTypeOK
<1>15. ASSUME DeadlockSend(s, Waits) PROVE TypeOK'
  <2>1. snd' \in [Senders -> SndState]
    BY <1>1, <1>15 DEF DeadlockSend, SndState
  <2> QED
    BY <1>0, <1>15, <2>1 DEF DeadlockSend, tableVars, TablesTypeOK
<1> QED
  BY <1>2, <1>3, <1>4, <1>5, <1>6, <1>8, <1>9, <1>10, <1>11, <1>12, <1>13,
     <1>14, <1>15
  DEF SndStep, DeadlockDigest

LEMMA TypeStep == ASSUME TypeOK, [Next]_vars PROVE TypeOK'
<1>1. CASE Materialize
  BY <1>1, MatTypeStep DEF Materialize
<1>2. CASE Send
  BY <1>2, SndTypeStep DEF Send
<1>3. CASE Crash
  <2>1. CASE \E m \in Materializers : AbortMaterialize(m)
                                     /\ UNCHANGED senderVars
    <3>1. PICK m \in Materializers : AbortMaterialize(m)
                                     /\ UNCHANGED senderVars
      BY <2>1
    <3>2. m \in Procs /\ IdleMat \in MatState
      BY DEF Procs, IdleMat, MatState
    <3>3. TablesTypeOK'
      BY <3>1, <3>2, RollbackType DEF AbortMaterialize, TypeOK, TablesTypeOK
    <3> QED
      BY <3>1, <3>2, <3>3
      DEF AbortMaterialize, TypeOK, MatTypeOK, SndTypeOK, senderVars
  <2>2. CASE \E s \in Senders : AbortSend(s) /\ UNCHANGED mat
    <3>1. PICK s \in Senders : AbortSend(s) /\ UNCHANGED mat
      BY <2>2
    <3>2. s \in Procs /\ IdleSnd \in SndState
      BY DEF Procs, IdleSnd, SndState, PlainMode, Mode
    <3>3. TablesTypeOK'
      BY <3>1, <3>2, RollbackType DEF AbortSend, TypeOK, TablesTypeOK
    <3> QED
      BY <3>1, <3>2, <3>3 DEF AbortSend, TypeOK, MatTypeOK, SndTypeOK
  <2> QED
    BY <1>3, <2>1, <2>2 DEF Crash
<1>4. CASE Operator
  <2>1. PICK i \in Incident, status \in Status : SetStatus(i, status)
    BY <1>4 DEF Operator, Acknowledge, CloseByHand, Status
  <2>2. TablesTypeOK'
    BY <2>1, SetStatusType DEF TypeOK
  <2> QED
    BY <1>4, <2>2 DEF Operator, TypeOK, MatTypeOK, SndTypeOK
<1>5. CASE Elapse
  BY <1>5, BoundsAssumption
  DEF Elapse, Tick, committed, TypeOK, TablesTypeOK, MatTypeOK, SndTypeOK
<1>6. CASE UNCHANGED vars
  BY <1>6
  DEF vars, tableVars, committed, TypeOK, TablesTypeOK, MatTypeOK, SndTypeOK
<1> QED
  BY <1>1, <1>2, <1>3, <1>4, <1>5, <1>6 DEF Next

\* Every variable keeps its type: in particular a status is always one that
\* the CHECK constraints of the migrations allow.
THEOREM TypeCorrect == Spec => []TypeOK
<1> QED
  BY TypeInit, TypeStep, PTL DEF Spec

-----------------------------------------------------------------------------
(* The rows of alert_events.  Seen from them, every step is one of eight   *)
(* kinds (RowStep); the invariants below are shown to survive each kind.   *)

\* The rows that an insert of fp conflicts with, committed or not, are one at
\* most.  OneActivePerFingerprint speaks of each version of the table alone;
\* only together do they survive a commit, which mixes the two versions.
AtMostOneConflict ==
  \A fp \in Fingerprints : \A g, h \in Conflicts(fp) : g = h

\* A transaction can only resolve an open row.
OpenInDraft ==
  \A i \in Incident : incidents[i].status = "open" =>
                        draft[i].status \in {"open", "resolved"}

\* No transaction has an acknowledged row in another status.
AcknowledgedInDraft ==
  \A i \in Incident : incidents[i].status = "acknowledged" =>
                        draft[i].status = "acknowledged"

\* No transaction has a resolved row with another status or sighting.
ResolvedInDraft ==
  \A i \in Incident : incidents[i].status = "resolved" =>
                        /\ draft[i].status = "resolved"
                        /\ draft[i].seen = incidents[i].seen

\* A row that nobody has written has one version.
FreeRowsAgree ==
  \A i \in Incident : lock[i] = Nobody => draft[i] = incidents[i]

RowInv == /\ AtMostOneConflict
          /\ OpenInDraft /\ AcknowledgedInDraft /\ ResolvedInDraft
          /\ FreeRowsAgree

-----------------------------------------------------------------------------
(* The kinds of steps.                                                     *)

RefreshStep == \E m \in Materializers, fp \in Fingerprints,
                  g \in 1..MaxIncidents :
                 /\ Refresh(m, fp, g) /\ Free(<< fp, g >>, m)
                 /\ UNCHANGED committed

InsertStep == \E m \in Materializers, fp \in Fingerprints,
                 g \in 1..MaxIncidents :
                Insert(m, fp, g) /\ UNCHANGED committed

SweepStep == \E m \in Materializers : Sweep(m)

\* The items a run still has in hand.
Items(s) == snd[s].todo \cup snd[s].cur

\* A mark is the one read, or that of a success recorded in the same step.
MarkStep == \E s \in Senders : \E e \in Items(s), marks \in [Notifiers -> Nat] :
              /\ e \in Item
              /\ Mark(s, e, marks)
              /\ \/ marks = e.marks
                 \/ /\ marks = [e.marks EXCEPT ![NotifierOf[s]] = e.seen]
                    /\ NewAttempt(s, e, "succeeded", "send", 0) \in pending'[s]
              /\ UNCHANGED committed

\* The attempts of a process that are not committed.
Own(p) == IF p \in Senders THEN pending[p] ELSE {}

CommitStep == \E p \in Procs : /\ CommitRows(p)
                               /\ attempts \cup Own(p) \subseteq attempts'

RollbackStep == \E p \in Procs : RollbackRows(p)

EditStep == \E i \in Incident : Acknowledge(i) \/ CloseByHand(i)

\* Every step of the pipeline does one of these things to the rows.
LEMMA RowStep ==
  ASSUME TypeOK, [Next]_vars
  PROVE  \/ UNCHANGED << committed, draft, lock >>
         \/ RefreshStep \/ InsertStep \/ SweepStep \/ MarkStep \/ EditStep
         \/ CommitStep \/ RollbackStep
<1>1. CASE Materialize
  <2>1. PICK m \in Materializers : MatStep(m, Waits)
    BY <1>1 DEF Materialize
  <2>2. m \in Procs
    BY DEF Procs
  <2>3. CASE StartMaterialize(m)
    BY <2>3 DEF StartMaterialize
  <2>4. CASE Upsert(m)
    <3>1. mat[m].todo \in Seq(Fingerprints) /\ mat[m].todo # << >>
      BY <2>4 DEF Upsert, TypeOK, MatTypeOK, MatState
    <3>2. Head(mat[m].todo) \in Fingerprints
      BY <3>1
    <3>3. PICK g \in 1..MaxIncidents : \/ Refresh(m, Head(mat[m].todo), g)
                                      \/ Insert(m, Head(mat[m].todo), g)
      BY <2>4 DEF Upsert
    <3>4. CASE Refresh(m, Head(mat[m].todo), g)
      <4>1. g \in Conflicts(Head(mat[m].todo))
        BY <3>4 DEF Refresh
      <4>2. Free(<< Head(mat[m].todo), g >>, m)
        BY <2>4, <4>1 DEF Upsert, UpsertBlockers, Free
      <4> QED BY <2>4, <3>2, <3>4, <4>2 DEF Upsert, RefreshStep
    <3>5. CASE Insert(m, Head(mat[m].todo), g)
      BY <2>4, <3>2, <3>5 DEF Upsert, InsertStep
    <3> QED BY <3>3, <3>4, <3>5
  <2>5. CASE Sweep(m)
    BY <2>5 DEF SweepStep
  <2>6. CASE CommitMaterialize(m)
    BY <2>2, <2>6, ProcsAssumption DEF CommitMaterialize, CommitStep, Own
  <2>7. CASE AbortMaterialize(m)
    BY <2>2, <2>7 DEF AbortMaterialize, RollbackStep
  <2> QED
    BY <2>1, <2>3, <2>4, <2>5, <2>6, <2>7 DEF MatStep, DeadlockMaterialize,
         OutOfRoom
<1>2. CASE Send
  <2>1. PICK s \in Senders : SndStep(s, Waits)
    BY <1>2 DEF Send
  <2>2. s \in Procs /\ snd[s] \in SndState
    BY DEF Procs, TypeOK, SndTypeOK
  <2>3. CASE StartSend(s) \/ SelectOpen(s) \/ SelectDigest(s) \/ Skip(s)
             \/ Deliver(s) \/ RecordFailure(s) \/ DeliverDigest(s)
             \/ FailDigest(s) \/ DeadlockSend(s, Waits)
    BY <2>3 DEF StartSend, SelectOpen, SelectDigest, Skip, Deliver,
                RecordFailure, DeliverDigest, FailDigest, DeadlockSend,
                tableVars
  <2>4. CASE RecordSuccess(s)
    <3>1. PICK e \in snd[s].cur :
            /\ Mark(s, e, [e.marks EXCEPT ![NotifierOf[s]] = e.seen])
            /\ Record(s, NewAttempt(s, e, "succeeded", "send", 0))
      BY <2>4 DEF RecordSuccess
    <3>2. /\ e \in Item /\ e \in Items(s)
          /\ [e.marks EXCEPT ![NotifierOf[s]] = e.seen] \in [Notifiers -> Nat]
      BY <2>2 DEF SndState, Item, Items
    <3>3. NewAttempt(s, e, "succeeded", "send", 0) \in pending'[s]
      BY <3>1 DEF Record, TypeOK, TablesTypeOK
    <3> QED BY <2>4, <3>1, <3>2, <3>3 DEF MarkStep, RecordSuccess
  <2>5. CASE PersistDigest(s)
    <3>1. PICK e \in Heads(s) : Mark(s, e, e.marks)
      BY <2>5 DEF PersistDigest
    <3>2. e \in Item /\ e \in Items(s) /\ e.marks \in [Notifiers -> Nat]
      BY <2>2 DEF Heads, SndState, Item, Items
    <3> QED BY <2>5, <3>1, <3>2 DEF MarkStep, PersistDigest
  <2>6. CASE CommitSend(s)
    BY <2>2, <2>6 DEF CommitSend, CommitStep, Own
  <2>7. CASE AbortSend(s)
    BY <2>2, <2>7 DEF AbortSend, RollbackStep
  <2> QED
    BY <2>1, <2>3, <2>4, <2>5, <2>6, <2>7 DEF SndStep, DeadlockDigest
<1>3. CASE Crash
  BY <1>3 DEF Crash, AbortMaterialize, AbortSend, RollbackStep, Procs
<1>4. CASE Operator
  BY <1>4 DEF Operator, EditStep
<1>5. CASE Elapse \/ UNCHANGED vars
  BY <1>5 DEF Elapse, Tick, vars, tableVars
<1> QED
  BY <1>1, <1>2, <1>3, <1>4, <1>5 DEF Next

\* Rows that have neither gained nor lost anything an invariant is about.
LEMMA WriteOther ==
  ASSUME TypeOK, NEW p, NEW i \in Incident, NEW row, Write(p, i, row)
  PROVE  /\ draft'[i] = row
         /\ \A j \in Incident : j # i => draft'[j] = draft[j]
  BY DEF Write, TypeOK, TablesTypeOK

-----------------------------------------------------------------------------
LEMMA RowInit == ASSUME Init PROVE RowInv
<1>1. \A i \in Incident : /\ incidents[i].status = "none"
                          /\ draft[i].status = "none"
                          /\ draft[i] = incidents[i]
  BY DEF Init, TablesInit, NoRow
<1>2. \A fp \in Fingerprints : Conflicts(fp) = {}
  BY <1>1 DEF Conflicts, Active, Incident
<1> QED
  BY <1>1, <1>2 DEF RowInv, AtMostOneConflict, OpenInDraft, AcknowledgedInDraft,
                    ResolvedInDraft, FreeRowsAgree

\* Only the end of a transaction frees a row, and then its versions agree.
LEMMA FreeRowsStep ==
  ASSUME TypeOK, FreeRowsAgree, [Next]_vars
  PROVE  FreeRowsAgree'
<1>1. CASE UNCHANGED << committed, draft, lock >>
  BY <1>1 DEF committed, FreeRowsAgree
<1>2. CASE RefreshStep \/ InsertStep \/ MarkStep
  <2>1. /\ UNCHANGED committed
        /\ \E p \in Procs, i \in Incident : \E row : Write(p, i, row)
    BY <1>2 DEF RefreshStep, InsertStep, MarkStep, Refresh, Insert, Mark,
                Procs, Item, Incident
  <2> QED
    BY <2>1, ProcsAssumption
    DEF Write, committed, FreeRowsAgree, TypeOK, TablesTypeOK
<1>3. CASE SweepStep
  BY <1>3, ProcsAssumption
  DEF SweepStep, Sweep, committed, FreeRowsAgree, Procs
<1>4. CASE EditStep
  <2>1. PICK i \in Incident, status \in Status : SetStatus(i, status)
    BY <1>4 DEF EditStep, Acknowledge, CloseByHand, Status
  <2> QED
    BY <2>1 DEF SetStatus, FreeRowsAgree, TypeOK, TablesTypeOK
<1>5. CASE CommitStep \/ RollbackStep
  BY <1>5 DEF CommitStep, RollbackStep, CommitRows, RollbackRows, Released, committed, FreeRowsAgree
<1> QED
  BY <1>1, <1>2, <1>3, <1>4, <1>5, RowStep

\* A step that changes no status and no sighting keeps the invariant.
LEMMA SameStatus ==
  ASSUME TypeOK, RowInv, UNCHANGED committed,
         \A i \in Incident : /\ draft'[i].status = draft[i].status
                             /\ \/ draft'[i].seen = draft[i].seen
                                \/ incidents[i].status # "resolved"
  PROVE  (/\ AtMostOneConflict
          /\ OpenInDraft /\ AcknowledgedInDraft /\ ResolvedInDraft)'
<1>1. \A fp \in Fingerprints : Conflicts(fp)' = Conflicts(fp)
  BY DEF Conflicts, Active, committed, Incident
<1> QED
  BY <1>1 DEF RowInv, AtMostOneConflict, OpenInDraft, AcknowledgedInDraft,
              ResolvedInDraft, committed

LEMMA RowInvStep == ASSUME TypeOK, RowInv, [Next]_vars PROVE RowInv'
<1> USE DEF RowInv
<1>0. FreeRowsAgree'
  BY FreeRowsStep
<1>1. CASE UNCHANGED << committed, draft, lock >>
  BY <1>0, <1>1, SameStatus DEF committed
<1>2. CASE RefreshStep
  <2>1. PICK m \in Materializers, fp \in Fingerprints, g \in 1..MaxIncidents :
               Refresh(m, fp, g) /\ UNCHANGED committed
    BY <1>2 DEF RefreshStep
  <2>2. << fp, g >> \in Incident
    BY DEF Incident
  <2>3. incidents[fp, g].status # "resolved"
    <3>1. Active(incidents[fp, g]) \/ Active(draft[fp, g])
      BY <2>1 DEF Refresh, Conflicts
    <3>2. incidents[fp, g].status = "resolved" =>
            draft[fp, g].status = "resolved"
      BY <2>2 DEF ResolvedInDraft
    <3> QED BY <3>1, <3>2 DEF Active
  <2>4. draft'[fp, g].status = draft[fp, g].status
    <3>1. draft[fp, g] \in Row
      BY <2>2 DEF TypeOK, TablesTypeOK
    <3>2. draft'[fp, g] = [draft[fp, g] EXCEPT !.seen = mat[m].at]
      <4>1. Write(m, << fp, g >>, [draft[fp, g] EXCEPT !.seen = mat[m].at])
        BY <2>1 DEF Refresh
      <4>2. draft \in [Incident -> Row]
        BY DEF TypeOK, TablesTypeOK
      <4> QED BY <2>2, <4>1, <4>2 DEF Write
    <3> QED BY <3>1, <3>2 DEF Row
  <2> QED
    BY <1>0, <2>1, <2>2, <2>3, <2>4, WriteOther, SameStatus DEF Refresh
<1>3. CASE InsertStep
  <2>1. PICK m \in Materializers, fp \in Fingerprints, g \in 1..MaxIncidents :
               Insert(m, fp, g) /\ UNCHANGED committed
    BY <1>3 DEF InsertStep
  <2>2. << fp, g >> \in Incident
    BY DEF Incident
  <2>3. \A j \in Incident : j # << fp, g >> => draft'[j] = draft[j]
    <3>1. \E row : Write(m, << fp, g >>, row)
      BY <2>1 DEF Insert
    <3> QED BY <2>2, <3>1, WriteOther
  <2>4. draft[fp, g].status = "none"
    <3>1. g >= g
      OBVIOUS
    <3>2. draft[fp, g].status = "none" <=> g >= g
      BY <2>1, Zenon DEF Insert
    <3> QED BY <3>1, <3>2
  <2>5. incidents[fp, g].status \notin {"open", "acknowledged", "resolved"}
    BY <2>2, <2>4 DEF OpenInDraft, AcknowledgedInDraft, ResolvedInDraft
  <2>6. \A f \in Fingerprints :
          Conflicts(f)' \subseteq IF f = fp THEN {g} ELSE Conflicts(f)
    <3> SUFFICES ASSUME NEW f \in Fingerprints, NEW h \in Conflicts(f)'
                 PROVE  h \in IF f = fp THEN {g} ELSE Conflicts(f)
      OBVIOUS
    <3>1. h \in 1..MaxIncidents /\ << f, h >> \in Incident
      BY DEF Conflicts, Incident
    <3>2. CASE f = fp /\ h = g
      BY <3>2
    <3>3. CASE f # fp \/ h # g
      <4>1. h \in Conflicts(f)
        BY <2>1, <2>3, <3>1, <3>3 DEF Conflicts, committed
      <4> QED BY <2>1, <4>1 DEF Insert
    <3> QED BY <3>2, <3>3
  <2>7. AtMostOneConflict'
    BY <2>6 DEF AtMostOneConflict
  <2> QED
    BY <1>0, <2>1, <2>3, <2>5, <2>7
    DEF OpenInDraft, AcknowledgedInDraft, ResolvedInDraft, committed
<1>4. CASE SweepStep
  <2>1. PICK m \in Materializers : Sweep(m)
    BY <1>4 DEF SweepStep
  <2>2. \A i \in Missing(m) : /\ i \in Incident
                              /\ incidents[i].status \notin {"acknowledged",
                                                             "resolved"}
    BY DEF Missing, OpenInDraft, AcknowledgedInDraft, ResolvedInDraft
  <2>3. \A i \in Incident :
          /\ i \notin Missing(m) => draft'[i] = draft[i]
          /\ i \in Missing(m) => draft'[i].status = "resolved"
    BY <2>1 DEF Sweep, TypeOK, TablesTypeOK, Row
  <2>4. UNCHANGED incidents
    BY <2>1 DEF Sweep, committed
  <2>5. \A fp \in Fingerprints : Conflicts(fp)' \subseteq Conflicts(fp)
    BY <2>3, <2>4 DEF Conflicts, Active, Incident
  <2>6. AtMostOneConflict'
    BY <2>5 DEF AtMostOneConflict
  <2> QED
    BY <1>0, <2>2, <2>3, <2>4, <2>6 DEF OpenInDraft, AcknowledgedInDraft, ResolvedInDraft
<1>5. CASE MarkStep
  <2>1. PICK s \in Senders, e \in Item : \E marks \in [Notifiers -> Nat] :
               Mark(s, e, marks) /\ UNCHANGED committed
    BY <1>5 DEF MarkStep
  <2>2. PICK marks \in [Notifiers -> Nat] : Mark(s, e, marks)
    BY <2>1
  <2>3. e.inc \in Incident
    BY DEF Item
  <2>4. /\ draft'[e.inc].status = draft[e.inc].status
        /\ draft'[e.inc].seen = draft[e.inc].seen
    <3>1. draft[e.inc] \in Row
      BY <2>3 DEF TypeOK, TablesTypeOK
    <3>2. draft'[e.inc] = [draft[e.inc] EXCEPT !.marks = marks]
      BY <2>2, <2>3, WriteOther DEF Mark
    <3> QED BY <3>1, <3>2 DEF Row
  <2> QED
    BY <1>0, <2>1, <2>2, <2>3, <2>4, WriteOther, SameStatus DEF Mark
<1>6. CASE EditStep
  <2>1. PICK i \in Incident, status \in {"acknowledged", "resolved"} :
               /\ SetStatus(i, status) /\ Active(incidents[i])
               /\ status = "acknowledged" => incidents[i].status = "open"
    BY <1>6 DEF EditStep, Acknowledge, CloseByHand, Active
  <2>2. /\ incidents'[i] = [incidents[i] EXCEPT !.status = status]
        /\ draft'[i] = [draft[i] EXCEPT !.status = status]
        /\ \A j \in Incident : j # i => /\ incidents'[j] = incidents[j]
                                        /\ draft'[j] = draft[j]
    BY <2>1 DEF SetStatus, TypeOK, TablesTypeOK
  <2>3. /\ incidents'[i].status = status /\ draft'[i].status = status
        /\ incidents'[i].seen = incidents[i].seen
        /\ draft'[i].seen = draft[i].seen
    BY <2>1, <2>2 DEF TypeOK, TablesTypeOK, Row
  <2>4. draft[i].seen = incidents[i].seen
    BY <2>1 DEF SetStatus, FreeRowsAgree
  <2>5. \A fp \in Fingerprints : Conflicts(fp)' \subseteq Conflicts(fp)
    <3> SUFFICES ASSUME NEW fp \in Fingerprints, NEW h \in Conflicts(fp)'
                 PROVE  h \in Conflicts(fp)
      OBVIOUS
    <3>1. /\ h \in 1..MaxIncidents /\ << fp, h >> \in Incident
          /\ Active(incidents'[fp, h]) \/ Active(draft'[fp, h])
      BY DEF Conflicts, Incident, Active
    <3>2. CASE << fp, h >> = i
      <4>1. Active(incidents[fp, h])
        BY <2>1, <3>2
      <4> QED BY <3>1, <4>1 DEF Conflicts
    <3>3. CASE << fp, h >> # i
      BY <2>2, <3>1, <3>3 DEF Conflicts
    <3> QED BY <3>2, <3>3
  <2>6. AtMostOneConflict'
    BY <2>5 DEF AtMostOneConflict
  <2>7. AcknowledgedInDraft'
    BY <2>2, <2>3 DEF AcknowledgedInDraft
  <2>8. OpenInDraft'
    BY <2>1, <2>2, <2>3 DEF OpenInDraft
  <2>9. ResolvedInDraft'
    <3> SUFFICES ASSUME NEW j \in Incident,
                        incidents'[j].status = "resolved"
                 PROVE  /\ draft'[j].status = "resolved"
                        /\ draft'[j].seen = incidents'[j].seen
      BY DEF ResolvedInDraft
    <3>1. CASE j = i
      BY <2>3, <2>4, <3>1
    <3>2. CASE j # i
      BY <2>2, <3>2 DEF ResolvedInDraft
    <3> QED BY <3>1, <3>2
  <2> QED
    BY <1>0, <2>6, <2>7, <2>8, <2>9
<1>7. CASE CommitStep \/ RollbackStep
  <2>1. \A i \in Incident :
          \/ incidents'[i] = incidents[i] /\ draft'[i] = draft[i]
          \/ incidents'[i] = draft[i] /\ draft'[i] = draft[i]
          \/ incidents'[i] = incidents[i] /\ draft'[i] = incidents[i]
    BY <1>7 DEF CommitStep, RollbackStep, CommitRows, RollbackRows, committed
  <2>2. \A fp \in Fingerprints : Conflicts(fp)' \subseteq Conflicts(fp)
    BY <2>1 DEF Conflicts, Incident
  <2>3. AtMostOneConflict'
    BY <2>2 DEF AtMostOneConflict
  <2> QED
    BY <1>0, <2>1, <2>3 DEF OpenInDraft, AcknowledgedInDraft, ResolvedInDraft
<1> QED
  BY <1>1, <1>2, <1>3, <1>4, <1>5, <1>6, <1>7, RowStep

\* The invariant holds in every reachable state.
LEMMA RowInvariant == Spec => [](TypeOK /\ RowInv)
<1>1. ASSUME Init PROVE TypeOK /\ RowInv
  BY <1>1, TypeInit, RowInit
<1>2. ASSUME TypeOK, RowInv, [Next]_vars PROVE (TypeOK /\ RowInv)'
  BY <1>2, TypeStep, RowInvStep
<1> QED
  BY <1>1, <1>2, PTL DEF Spec

-----------------------------------------------------------------------------
(* The results.                                                            *)

\* The promise of migration 003, one active incident per fingerprint, holds
\* in every version of the table, however many materialize runs overlap.
THEOREM OneActive == Spec => []OneActivePerFingerprint
<1>1. ASSUME RowInv PROVE OneActivePerFingerprint
  BY <1>1 DEF RowInv, AtMostOneConflict, Conflicts, OneActivePerFingerprint
<1> QED
  BY <1>1, RowInvariant, PTL

\* A resolved incident is history: no command and no overlap of commands
\* reopens it or gives it a new sighting.
THEOREM ResolvedStays == Spec => ResolvedIsFinal
<1>1. ASSUME TypeOK, RowInv, [Next]_vars, NEW i \in Incident,
             incidents[i].status = "resolved"
      PROVE  /\ incidents'[i].status = "resolved"
             /\ incidents'[i].seen = incidents[i].seen
  <2>1. draft[i].status = "resolved" /\ draft[i].seen = incidents[i].seen
    BY <1>1 DEF RowInv, ResolvedInDraft
  <2>2. CASE EditStep
    BY <1>1, <2>2
    DEF EditStep, Acknowledge, CloseByHand, SetStatus, Active, TypeOK,
        TablesTypeOK
  <2>3. CASE CommitStep \/ RollbackStep
    BY <1>1, <2>1, <2>3 DEF CommitStep, RollbackStep, CommitRows, RollbackRows, committed
  <2>4. CASE UNCHANGED committed
    BY <1>1, <2>4 DEF committed
  <2> QED
    BY <1>1, <2>2, <2>3, <2>4, RowStep
    DEF RefreshStep, InsertStep, SweepStep, Sweep, MarkStep
<1>2. ASSUME TypeOK, RowInv, [Next]_vars
      PROVE  [\A i \in Incident : incidents[i].status = "resolved" =>
                /\ incidents'[i].status = "resolved"
                /\ incidents'[i].seen = incidents[i].seen]_incidents
  BY <1>1, <1>2
<1> QED
  BY <1>2, RowInvariant, PTL DEF Spec, ResolvedIsFinal

\* An acknowledged incident changes hands only by an operator: a materialize
\* run never resolves it, even one that overlaps the acknowledgement.
THEOREM AcknowledgedStays == Spec => AcknowledgedIsLeftAlone
<1>1. ASSUME TypeOK, RowInv, [Next]_vars, NEW i \in Incident,
             incidents[i].status = "acknowledged",
             incidents'[i].status # "acknowledged"
      PROVE  CloseByHand(i)
  <2>1. draft[i].status = "acknowledged"
    BY <1>1 DEF RowInv, AcknowledgedInDraft
  <2>2. CASE EditStep
    <3>1. PICK j \in Incident : Acknowledge(j) \/ CloseByHand(j)
      BY <2>2 DEF EditStep
    <3>2. j = i
      BY <1>1, <3>1 DEF Acknowledge, CloseByHand, SetStatus, TypeOK,
                        TablesTypeOK
    <3> QED
      BY <1>1, <3>1, <3>2 DEF Acknowledge
  <2>3. CASE CommitStep \/ RollbackStep
    BY <1>1, <2>1, <2>3 DEF CommitStep, RollbackStep, CommitRows, RollbackRows, committed
  <2>4. CASE UNCHANGED committed
    BY <1>1, <2>4 DEF committed
  <2> QED
    BY <1>1, <2>2, <2>3, <2>4, RowStep
    DEF RefreshStep, InsertStep, SweepStep, Sweep, MarkStep
<1>2. ASSUME TypeOK, RowInv, [Next]_vars
      PROVE  [\A i \in Incident :
                incidents[i].status = "acknowledged"
                  /\ incidents'[i].status # "acknowledged"
                => CloseByHand(i)]_vars
  BY <1>1, <1>2
<1> QED
  BY <1>2, RowInvariant, PTL DEF Spec, AcknowledgedIsLeftAlone

-----------------------------------------------------------------------------
(* What a materialize run holds.                                           *)

\* A row that is not committed is an insert.
NoneInDraft ==
  \A i \in Incident : incidents[i].status = "none" =>
                        draft[i].status \in {"none", "open"}

\* A run upserts its candidates only, so the rows it inserted are theirs, and
\* a run that has ended holds no row.
Holds(m) ==
  /\ mat[m].pc = "idle" => \A i \in Incident : lock[i] # m
  /\ \A k \in DOMAIN mat[m].todo : mat[m].todo[k] \in mat[m].cand
  /\ \A i \in Incident : lock[i] = m /\ incidents[i].status = "none" =>
                           i[1] \in mat[m].cand

HoldInv == NoneInDraft /\ \A m \in Materializers : Holds(m)

\* What the steps of others leave to run m: its state, its rows, and the lock
\* of each row that is active in its version.
Left(m) ==
  /\ mat'[m] = mat[m]
  /\ \A i \in Incident :
       /\ lock'[i] = m => /\ lock[i] = m /\ draft'[i] = draft[i]
                          /\ incidents'[i] = incidents[i]
       /\ lock[i] = m /\ Active(draft[i]) => lock'[i] = m

LEMMA OthersLeave ==
  ASSUME TypeOK, [Next]_vars, NEW m \in Materializers
  PROVE  MatStep(m, Waits) \/ AbortMaterialize(m) \/ Left(m)
<1>0. /\ lock \in [Incident -> Procs \cup {Nobody}]
      /\ draft \in [Incident -> Row] /\ mat \in [Materializers -> MatState]
      /\ m \in Procs /\ m # Nobody
  BY ProcsAssumption DEF TypeOK, TablesTypeOK, MatTypeOK, Procs
<1>1. ASSUME NEW i \in Incident, NEW p \in Procs, p # m, NEW row,
             Write(p, i, row), UNCHANGED << committed, mat >>,
             Free(i, p) \/ ~Active(draft[i])
      PROVE  Left(m)
  BY <1>0, <1>1 DEF Left, Write, Free, committed
<1>2. ASSUME NEW p \in Procs, p # m, CommitRows(p) \/ RollbackRows(p),
             mat'[m] = mat[m]
      PROVE  Left(m)
  BY <1>0, <1>2 DEF Left, CommitRows, RollbackRows, Released, committed
<1>3. ASSUME UNCHANGED << committed, draft, lock >>, mat'[m] = mat[m]
      PROVE  Left(m)
  BY <1>3 DEF Left, committed
<1>4. ASSUME NEW n \in Materializers, n # m, MatStep(n, Waits)
      PROVE  Left(m)
  <2>0. n \in Procs
    BY DEF Procs
  <2>1. CASE StartMaterialize(n)
    BY <1>0, <1>3, <1>4, <2>1 DEF StartMaterialize
  <2>2. CASE Upsert(n)
    <3>1. PICK fp \in Fingerprints : fp = Head(mat[n].todo)
      <4>1. mat[n].todo \in Seq(Fingerprints) /\ mat[n].todo # << >>
        BY <2>2, <1>0 DEF Upsert, MatState
      <4> QED BY <4>1, HeadTailProperties
    <3>2. mat'[m] = mat[m] /\ UNCHANGED committed
      BY <1>0, <1>4, <2>2 DEF Upsert
    <3>3. /\ UpsertBlockers(n, fp) = {}
          /\ \E g \in 1..MaxIncidents : Refresh(n, fp, g) \/ Insert(n, fp, g)
      BY <2>2, <3>1, Zenon DEF Upsert
    <3>4. PICK g \in 1..MaxIncidents : Refresh(n, fp, g) \/ Insert(n, fp, g)
      BY <3>3
    <3>5. << fp, g >> \in Incident
      BY DEF Incident
    <3>6. Free(<< fp, g >>, n) \/ ~Active(draft[<< fp, g >>])
      <4>1. g \in Conflicts(fp) \/ Conflicts(fp) = {}
        BY <3>4, Zenon DEF Refresh, Insert
      <4>2. ASSUME g \in Conflicts(fp) PROVE Free(<< fp, g >>, n)
        <5>1. lock[fp, g] \notin UpsertBlockers(n, fp)
          BY <3>3
        <5>2. lock[fp, g] \in {Nobody, n}
          BY <4>2, <5>1, Zenon DEF UpsertBlockers
        <5> QED BY <5>2, Zenon DEF Free
      <4>3. ASSUME Conflicts(fp) = {} PROVE ~Active(draft[<< fp, g >>])
        BY <4>3, Zenon DEF Conflicts
      <4> QED BY <4>1, <4>2, <4>3
    <3>7. \E row : Write(n, << fp, g >>, row)
      BY <3>4, Zenon DEF Refresh, Insert
    <3>8. PICK i \in Incident : i = << fp, g >>
      BY <3>5
    <3>9. (Free(i, n) \/ ~Active(draft[i])) /\ \E row : Write(n, i, row)
      BY <3>6, <3>7, <3>8
    <3>10. n # m
      BY <1>4
    <3> HIDE <3>4, <3>7
    <3> QED BY <1>0, <2>0, <3>2, <3>9, <3>10 DEF Left, Write, Free, committed
  <2>3. CASE Sweep(n)
    <3>1. \A i \in Missing(n) : lock[i] \in {Nobody, n}
      BY <2>3 DEF Sweep, SweepBlockers
    <3>2. mat'[m] = mat[m] /\ UNCHANGED committed
      BY <1>0, <1>4, <2>3 DEF Sweep
    <3>3. \A i \in Incident :
            /\ i \in Missing(n) => lock'[i] = n
            /\ i \notin Missing(n) => lock'[i] = lock[i] /\ draft'[i] = draft[i]
      BY <2>3 DEF Sweep
    <3> QED BY <1>0, <1>4, <3>1, <3>2, <3>3 DEF Left, committed
  <2>4. CASE CommitMaterialize(n)
    BY <1>0, <1>2, <1>4, <2>0, <2>4 DEF CommitMaterialize
  <2>5. CASE AbortMaterialize(n)
    BY <1>0, <1>2, <1>4, <2>0, <2>5 DEF AbortMaterialize
  <2> QED
    BY <1>4, <2>1, <2>2, <2>3, <2>4, <2>5, Zenon
    DEF MatStep, DeadlockMaterialize, OutOfRoom
<1>5. ASSUME NEW s \in Senders, SndStep(s, Waits) \/ AbortSend(s), UNCHANGED mat
      PROVE  Left(m)
  <2>0. s \in Procs /\ s # m /\ snd[s] \in SndState
    BY ProcsAssumption DEF Procs, TypeOK, SndTypeOK
  <2>1. CASE \E e \in Item : \E marks : Mark(s, e, marks) /\ UNCHANGED committed
    <3>1. PICK e, marks : e \in Item /\ Mark(s, e, marks) /\ UNCHANGED committed
      BY <2>1
    <3>2. /\ e.inc \in Incident /\ Free(e.inc, s)
          /\ \E row : Write(s, e.inc, row)
      BY <3>1 DEF Item, Mark
    <3> QED BY <1>0, <1>5, <2>0, <3>1, <3>2 DEF Left, Write, Free, committed
  <2>2. CASE CommitSend(s) \/ AbortSend(s)
    BY <1>2, <1>5, <2>0, <2>2 DEF CommitSend, AbortSend
  <2>3. CASE RecordSuccess(s) \/ PersistDigest(s)
    <3>1. snd[s].cur \subseteq Item /\ Heads(s) \subseteq Item
      BY <2>0 DEF SndState, Heads
    <3> QED BY <2>1, <2>3, <3>1 DEF RecordSuccess, PersistDigest
  <2>4. CASE UNCHANGED << committed, draft, lock >>
    BY <1>3, <1>5, <2>4
  <2> QED
    BY <1>5, <2>2, <2>3, <2>4, Zenon
    DEF SndStep, StartSend, SelectOpen, SelectDigest, Skip, Deliver,
        RecordFailure, DeliverDigest, FailDigest, DeadlockSend,
        DeadlockDigest, tableVars
<1>6. CASE Operator
  <2>1. PICK i, status : i \in Incident /\ SetStatus(i, status)
    BY <1>6 DEF Operator, Acknowledge, CloseByHand
  <2> QED BY <1>0, <1>6, <2>1 DEF Operator, SetStatus, Left, TypeOK, TablesTypeOK
<1>7. CASE Elapse \/ UNCHANGED vars
  BY <1>3, <1>7 DEF Elapse, Tick, vars, tableVars
<1>8. CASE Materialize
  BY <1>4, <1>8 DEF Materialize
<1>9. CASE Send
  BY <1>5, <1>9 DEF Send
<1>10. CASE Crash
  <2>1. ASSUME NEW n \in Materializers, n # m, AbortMaterialize(n) PROVE Left(m)
    BY <1>0, <1>2, <2>1 DEF AbortMaterialize, Procs
  <2> QED BY <1>5, <1>10, <2>1 DEF Crash
<1> QED BY <1>6, <1>7, <1>8, <1>9, <1>10 DEF Next

\* A refresh and a mark change no status.
LEMMA KeepsStatus ==
  ASSUME TypeOK, RefreshStep \/ MarkStep
  PROVE  /\ UNCHANGED committed
         /\ \A i \in Incident : draft'[i].status = draft[i].status
<1>0. draft \in [Incident -> Row]
  BY DEF TypeOK, TablesTypeOK
<1>1. CASE RefreshStep
  <2>1. PICK m \in Materializers, fp \in Fingerprints, g \in 1..MaxIncidents :
               Refresh(m, fp, g) /\ UNCHANGED committed
    BY <1>1 DEF RefreshStep
  <2>2. PICK i \in Incident : i = << fp, g >>
    BY DEF Incident
  <2>3. Write(m, i, [draft[i] EXCEPT !.seen = mat[m].at])
    BY <2>1, <2>2, Zenon DEF Refresh
  <2>4. draft'[i].status = draft[i].status
    BY <1>0, <2>3 DEF Write, Row
  <2> QED BY <2>1, <2>3, <2>4, WriteOther
<1>2. CASE MarkStep
  <2>1. PICK s \in Senders, e \in Item, marks \in [Notifiers -> Nat] :
               Mark(s, e, marks) /\ UNCHANGED committed
    BY <1>2 DEF MarkStep
  <2>2. e.inc \in Incident
    BY DEF Item
  <2>3. Write(s, e.inc, [draft[e.inc] EXCEPT !.marks = marks])
    BY <2>1 DEF Mark
  <2>4. draft'[e.inc].status = draft[e.inc].status
    BY <1>0, <2>2, <2>3 DEF Write, Row
  <2> QED BY <2>1, <2>2, <2>3, <2>4, WriteOther
<1> QED BY <1>1, <1>2

\* What an operator's edit does: one row, in both versions.
LEMMA Edited ==
  ASSUME TypeOK, EditStep
  PROVE  \E j \in Incident, v \in {"acknowledged", "resolved"} :
           /\ Active(incidents[j]) /\ lock[j] = Nobody /\ UNCHANGED lock
           /\ v = "acknowledged" => incidents[j].status = "open"
           /\ incidents'[j].status = v /\ draft'[j].status = v
           /\ \A i \in Incident : i # j => /\ incidents'[i] = incidents[i]
                                           /\ draft'[i] = draft[i]
<1>1. PICK j \in Incident, v \in {"acknowledged", "resolved"} :
             /\ SetStatus(j, v) /\ Active(incidents[j])
             /\ v = "acknowledged" => incidents[j].status = "open"
  BY DEF EditStep, Acknowledge, CloseByHand, Active
<1>2. /\ incidents'[j].status = v /\ draft'[j].status = v
      /\ lock[j] = Nobody /\ UNCHANGED lock
      /\ \A i \in Incident : i # j => /\ incidents'[i] = incidents[i]
                                      /\ draft'[i] = draft[i]
  BY <1>1 DEF SetStatus, TypeOK, TablesTypeOK, Row
<1> QED BY <1>1, <1>2

\* No row ever disappears.
LEMMA RowsStay ==
  ASSUME TypeOK, RowInv, [Next]_vars, NEW i \in Incident,
         incidents'[i].status = "none"
  PROVE  incidents[i].status = "none"
<1>0. incidents[i] \in Row
  BY DEF TypeOK, TablesTypeOK
<1>1. CASE UNCHANGED committed
  BY <1>1 DEF committed
<1>2. CASE EditStep
  BY <1>2, Edited
<1>3. CASE CommitStep \/ RollbackStep
  <2>1. incidents'[i] \in {incidents[i], draft[i]}
    BY <1>3 DEF CommitStep, RollbackStep, CommitRows, RollbackRows, committed
  <2>2. draft[i].status = "none" => incidents[i].status = "none"
    BY <1>0 DEF RowInv, OpenInDraft, AcknowledgedInDraft, ResolvedInDraft, Row,
                Status
  <2> QED BY <2>1, <2>2
<1>4. RefreshStep \/ InsertStep \/ SweepStep \/ MarkStep => UNCHANGED committed
  BY Zenon DEF RefreshStep, InsertStep, SweepStep, Sweep, MarkStep
<1>5. UNCHANGED << committed, draft, lock >> => UNCHANGED committed
  OBVIOUS
<1> QED
  BY <1>1, <1>2, <1>3, <1>4, <1>5, RowStep

LEMMA NoneInDraftStep ==
  ASSUME TypeOK, RowInv, HoldInv, [Next]_vars PROVE NoneInDraft'
<1>0. NoneInDraft /\ incidents \in [Incident -> Row] /\ draft \in [Incident -> Row]
  BY DEF HoldInv, TypeOK, TablesTypeOK
<1>1. CASE UNCHANGED << committed, draft, lock >>
  BY <1>0, <1>1 DEF NoneInDraft, committed
<1>2. CASE RefreshStep \/ MarkStep
  BY <1>0, <1>2, KeepsStatus DEF NoneInDraft, committed
<1>3. CASE InsertStep
  <2>1. PICK m \in Materializers, fp \in Fingerprints, g \in 1..MaxIncidents :
               Insert(m, fp, g) /\ UNCHANGED committed
    BY <1>3 DEF InsertStep
  <2>2. PICK i \in Incident : i = << fp, g >>
    BY DEF Incident
  <2>3. PICK row : Write(m, i, row) /\ row.status = "open"
    <3>1. Write(m, i, [NoRow EXCEPT !.status = "open", !.seen = mat[m].at])
      BY <2>1, <2>2, Zenon DEF Insert
    <3>2. [NoRow EXCEPT !.status = "open", !.seen = mat[m].at].status = "open"
      BY DEF NoRow
    <3> QED BY <3>1, <3>2, Zenon
  <2> QED BY <1>0, <2>1, <2>3, WriteOther DEF NoneInDraft, committed
<1>4. CASE SweepStep
  <2>1. PICK m \in Materializers : Sweep(m)
    BY <1>4 DEF SweepStep
  <2>2. \A i \in Missing(m) : incidents[i].status # "none"
    <3> SUFFICES ASSUME NEW i \in Missing(m), incidents[i].status = "none"
                 PROVE  FALSE
      OBVIOUS
    <3>1. i \in Incident /\ lock[i] = m /\ i[1] \notin mat[m].cand
      BY DEF Missing
    <3> QED BY <3>1 DEF HoldInv, Holds
  <2>3. \A i \in Incident : i \notin Missing(m) => draft'[i] = draft[i]
    BY <2>1 DEF Sweep
  <2> QED BY <1>0, <2>1, <2>2, <2>3 DEF Sweep, NoneInDraft, committed
<1>5. CASE EditStep
  BY <1>0, <1>5, Edited DEF NoneInDraft
<1>6. CASE CommitStep \/ RollbackStep
  <2>1. \A i \in Incident :
          \/ incidents'[i] = incidents[i] /\ draft'[i] = draft[i]
          \/ incidents'[i] = draft[i] /\ draft'[i] = draft[i]
          \/ incidents'[i] = incidents[i] /\ draft'[i] = incidents[i]
    BY <1>6 DEF CommitStep, RollbackStep, CommitRows, RollbackRows, committed
  <2> QED BY <1>0, <2>1 DEF NoneInDraft
<1> QED BY <1>1, <1>2, <1>3, <1>4, <1>5, <1>6, RowStep

\* A run's own step.
LEMMA HoldsOwn ==
  ASSUME TypeOK, RowInv, [Next]_vars, NEW m \in Materializers, Holds(m),
         MatStep(m, Waits) \/ AbortMaterialize(m)
  PROVE  Holds(m)'
<1>0. /\ mat \in [Materializers -> MatState] /\ mat[m] \in MatState
      /\ mat[m].todo \in Seq(Fingerprints) /\ mat[m].cand \subseteq Fingerprints
      /\ lock \in [Incident -> Procs \cup {Nobody}] /\ m # Nobody
  BY ProcsAssumption DEF TypeOK, TablesTypeOK, MatTypeOK, MatState, Procs
<1>1. CASE StartMaterialize(m)
  <2>0. PICK C \in SUBSET Fingerprints : \E q \in Orders(C), r \in BOOLEAN :
          mat' = [mat EXCEPT ![m] = [pc |-> "upsert", at |-> clock, cand |-> C,
                                     todo |-> q, resolve |-> r]]
    BY <1>1 DEF StartMaterialize
  <2>1. PICK q \in Orders(C), r \in BOOLEAN :
          mat' = [mat EXCEPT ![m] = [pc |-> "upsert", at |-> clock, cand |-> C,
                                     todo |-> q, resolve |-> r]]
    BY <2>0
  <2>2. mat'[m].pc = "upsert" /\ mat'[m].todo = q /\ mat'[m].cand = C
    BY <1>0, <2>1
  <2>3. \A k \in DOMAIN q : q[k] \in C
    BY DEF Orders
  <2>4. \A i \in Incident : lock'[i] # m
    BY <1>1 DEF StartMaterialize, Holds
  <2> QED BY <2>2, <2>3, <2>4 DEF Holds
<1>2. CASE Upsert(m)
  <2>1. PICK fp \in Fingerprints : /\ fp = Head(mat[m].todo)
                                   /\ fp \in mat[m].cand
    <3>1. /\ mat[m].todo # << >> /\ Head(mat[m].todo) = mat[m].todo[1]
          /\ 1 \in DOMAIN mat[m].todo
      BY <1>0, <1>2, HeadTailProperties, LenProperties, EmptySeq DEF Upsert
    <3> QED BY <1>0, <3>1 DEF Holds
  <2>2. /\ mat'[m].pc = "upsert" /\ mat'[m].cand = mat[m].cand
        /\ mat'[m].todo = Tail(mat[m].todo) /\ UNCHANGED committed
    BY <1>0, <1>2 DEF Upsert
  <2>3. \A k \in DOMAIN mat'[m].todo : mat'[m].todo[k] \in mat[m].cand
    <3>1. /\ Len(Tail(mat[m].todo)) = Len(mat[m].todo) - 1
          /\ Tail(mat[m].todo) \in Seq(Fingerprints)
          /\ \A k \in 1..Len(Tail(mat[m].todo)) :
               Tail(mat[m].todo)[k] = mat[m].todo[k + 1]
      BY <1>0, <1>2, HeadTailProperties DEF Upsert
    <3>2. Len(mat[m].todo) \in Nat /\ DOMAIN mat[m].todo = 1..Len(mat[m].todo)
      BY <1>0, LenProperties
    <3>3. DOMAIN Tail(mat[m].todo) = 1..Len(Tail(mat[m].todo))
      BY <3>1, LenProperties
    <3> SUFFICES ASSUME NEW k \in 1..Len(Tail(mat[m].todo))
                 PROVE  Tail(mat[m].todo)[k] \in mat[m].cand
      BY <2>2, <3>3
    <3>4. k + 1 \in DOMAIN mat[m].todo
      BY <3>1, <3>2
    <3> QED BY <3>1, <3>4 DEF Holds
  <2>4. \E g \in 1..MaxIncidents : \E row : Write(m, << fp, g >>, row)
    <3>1. PICK g \in 1..MaxIncidents : Refresh(m, fp, g) \/ Insert(m, fp, g)
      BY <1>2, <2>1, Zenon DEF Upsert
    <3> QED BY <3>1, Zenon DEF Refresh, Insert
  <2>5. PICK j \in Incident : j[1] = fp /\ \E row : Write(m, j, row)
    <3>1. PICK g \in 1..MaxIncidents : \E row : Write(m, << fp, g >>, row)
      BY <2>4
    <3>2. << fp, g >> \in Incident /\ << fp, g >>[1] = fp
      BY DEF Incident
    <3> QED BY <3>1, <3>2, Zenon
  <2>6. \A i \in Incident : i # j => lock'[i] = lock[i]
    BY <1>0, <2>5 DEF Write
  <2> QED BY <2>1, <2>2, <2>3, <2>5, <2>6 DEF Holds, committed
<1>3. CASE Sweep(m)
  <2>1. /\ mat'[m].pc = "swept" /\ mat'[m].cand = mat[m].cand
        /\ mat'[m].todo = mat[m].todo /\ UNCHANGED committed
    BY <1>0, <1>3 DEF Sweep
  <2>2. \A i \in Incident : i \notin Missing(m) => lock'[i] = lock[i]
    BY <1>3 DEF Sweep
  <2>3. \A i \in Missing(m) : incidents[i].status # "none" \/ lock[i] = m
    BY DEF Missing
  <2> QED BY <2>1, <2>2, <2>3 DEF Holds, committed
<1>4. CASE CommitMaterialize(m) \/ AbortMaterialize(m)
  <2>1. \A i \in Incident : lock'[i] # m
    BY <1>0, <1>4 DEF CommitMaterialize, AbortMaterialize, CommitRows,
                      RollbackRows, Released
  <2>2. mat'[m] = IdleMat
    BY <1>0, <1>4 DEF CommitMaterialize, AbortMaterialize
  <2>3. DOMAIN IdleMat.todo = {}
    BY DEF IdleMat
  <2> QED BY <2>1, <2>2, <2>3 DEF Holds
<1> QED
  BY <1>1, <1>2, <1>3, <1>4, Zenon DEF MatStep, DeadlockMaterialize, OutOfRoom

LEMMA HoldStep == ASSUME TypeOK, RowInv, HoldInv, [Next]_vars PROVE HoldInv'
<1>1. ASSUME NEW m \in Materializers, Left(m) PROVE Holds(m)'
  BY <1>1 DEF Left, HoldInv, Holds
<1> QED
  BY <1>1, NoneInDraftStep, OthersLeave, HoldsOwn DEF HoldInv

LEMMA HoldInvariant == Spec => [](TypeOK /\ RowInv /\ HoldInv)
<1>1. ASSUME Init PROVE HoldInv
  <2>1. NoneInDraft
    BY <1>1 DEF Init, TablesInit, NoRow, NoneInDraft
  <2>2. \A m \in Materializers : mat[m] = IdleMat /\ m # Nobody
    BY <1>1, ProcsAssumption DEF Init, MatInit, Procs
  <2>3. \A i \in Incident : lock[i] = Nobody
    BY <1>1 DEF Init, TablesInit
  <2>4. DOMAIN IdleMat.todo = {}
    BY DEF IdleMat
  <2> QED BY <2>1, <2>2, <2>3, <2>4 DEF HoldInv, Holds
<1>2. ASSUME TypeOK, RowInv, HoldInv, [Next]_vars PROVE HoldInv'
  BY <1>2, HoldStep
<1> QED BY <1>1, <1>2, RowInvariant, PTL DEF Spec

-----------------------------------------------------------------------------
(* The incidents as their readers see them implement AlertIncidents.       *)

\* What a step can do to the incidents of one fingerprint.
Same(fp) == /\ ActiveStatus(fp)' = ActiveStatus(fp)
            /\ Resolved(fp)' = Resolved(fp)

Opened(fp) == /\ ActiveStatus(fp) = "none" /\ ActiveStatus(fp)' = "open"
              /\ Resolved(fp)' = Resolved(fp)

Acked(fp) == /\ ActiveStatus(fp) = "open"
             /\ ActiveStatus(fp)' = "acknowledged"
             /\ Resolved(fp)' = Resolved(fp)

Closed(fp) == /\ ActiveStatus(fp)' = "none"
              /\ \E g \in (1..MaxIncidents) \ Resolved(fp) :
                   Resolved(fp)' = Resolved(fp) \cup {g}

\* The active incident is the only one, so the status shown is its status.
Shown(fp) ==
  /\ \A g \in 1..MaxIncidents :
       Active(incidents[<< fp, g >>]) =>
         ActiveStatus(fp) = incidents[<< fp, g >>].status
  /\ (\A g \in 1..MaxIncidents : ~Active(incidents[<< fp, g >>])) =>
       ActiveStatus(fp) = "none"

LEMMA StatusShown == ASSUME NEW fp \in Fingerprints PROVE RowInv => Shown(fp)
<1> SUFFICES ASSUME RowInv PROVE Shown(fp)
  OBVIOUS
<1>1. ASSUME NEW g \in 1..MaxIncidents, Active(incidents[<< fp, g >>])
      PROVE  ActiveStatus(fp) = incidents[<< fp, g >>].status
  <2> DEFINE c == CHOOSE h \in 1..MaxIncidents : Active(incidents[fp, h])
  <2>1. c \in 1..MaxIncidents /\ Active(incidents[fp, c])
    BY <1>1, Zenon
  <2>2. ActiveStatus(fp) = incidents[fp, c].status
    BY <1>1, Zenon DEF ActiveStatus
  <2> HIDE DEF c
  <2>3. g \in Conflicts(fp) /\ c \in Conflicts(fp)
    BY <1>1, <2>1, Zenon DEF Conflicts
  <2>4. g = c
    BY <2>3 DEF RowInv, AtMostOneConflict
  <2> QED BY <2>2, <2>4, Zenon
<1>2. ASSUME \A g \in 1..MaxIncidents : ~Active(incidents[<< fp, g >>])
      PROVE  ActiveStatus(fp) = "none"
  BY <1>2, Zenon DEF ActiveStatus
<1> QED BY <1>1, <1>2 DEF Shown

\* When the rows of a fingerprint are compared before and after a step that
\* changed the status of one of them at most.
LEMMA OneRowChanged ==
  ASSUME TypeOK, RowInv, RowInv', NEW fp \in Fingerprints,
         NEW g \in 1..MaxIncidents, NEW a, NEW b,
         a = incidents[<< fp, g >>].status, b = incidents'[<< fp, g >>].status,
         \A h \in 1..MaxIncidents : h # g =>
           incidents'[<< fp, h >>].status = incidents[<< fp, h >>].status
  PROVE  /\ a = b => Same(fp)
         /\ a = "none" /\ b = "open" => Opened(fp)
         /\ a = "open" /\ b = "acknowledged" => Acked(fp)
         /\ a \in {"open", "acknowledged"} /\ b = "resolved" =>
              ActiveStatus(fp) = a /\ Closed(fp)
<1> DEFINE st(h) == incidents[<< fp, h >>].status
           nd(h) == incidents'[<< fp, h >>].status
           on(x) == x \in {"open", "acknowledged"}
<1>1. /\ \A h \in 1..MaxIncidents : on(st(h)) => ActiveStatus(fp) = st(h)
      /\ (\A h \in 1..MaxIncidents : ~on(st(h))) => ActiveStatus(fp) = "none"
  BY StatusShown, Zenon DEF Active, Shown
<1>2. /\ \A h \in 1..MaxIncidents : on(nd(h)) => ActiveStatus(fp)' = nd(h)
      /\ (\A h \in 1..MaxIncidents : ~on(nd(h))) => ActiveStatus(fp)' = "none"
  <2>1. Shown(fp)'
    BY StatusShown, PTL
  <2> QED BY <2>1, Zenon DEF Active, Shown
<1>3. /\ \A h, k \in 1..MaxIncidents : on(st(h)) /\ on(st(k)) => h = k
      /\ \A h, k \in 1..MaxIncidents : on(nd(h)) /\ on(nd(k)) => h = k
  <2>1. \A h \in 1..MaxIncidents : on(st(h)) => h \in Conflicts(fp)
    BY Zenon DEF Conflicts, Active
  <2>2. \A h \in 1..MaxIncidents : on(nd(h)) => h \in Conflicts(fp)'
    BY Zenon DEF Conflicts, Active
  <2>3. /\ \A h, k \in Conflicts(fp) : h = k
        /\ \A h, k \in Conflicts(fp)' : h = k
    BY DEF RowInv, AtMostOneConflict
  <2> QED BY <2>1, <2>2, <2>3
<1>4. /\ \A h : h \in Resolved(fp) <=> h \in 1..MaxIncidents /\ st(h) = "resolved"
      /\ \A h : h \in Resolved(fp)' <=> h \in 1..MaxIncidents /\ nd(h) = "resolved"
  BY Zenon DEF Resolved
<1>5. /\ a = st(g) /\ b = nd(g)
      /\ \A h \in 1..MaxIncidents : h # g => nd(h) = st(h)
  OBVIOUS
<1> HIDE DEF st, nd
<1>6. ASSUME a = b PROVE Same(fp)
  <2>1. \A h \in 1..MaxIncidents : nd(h) = st(h)
    BY <1>5, <1>6
  <2>2. Resolved(fp)' = Resolved(fp)
    BY <1>4, <2>1
  <2>3. ActiveStatus(fp)' = ActiveStatus(fp)
    BY <1>1, <1>2, <2>1
  <2> QED BY <2>2, <2>3 DEF Same
<1>7. ASSUME a = "none", b = "open" PROVE Opened(fp)
  <2>1. Resolved(fp)' = Resolved(fp)
    BY <1>4, <1>5, <1>7
  <2>2. ActiveStatus(fp)' = "open"
    BY <1>2, <1>5, <1>7
  <2>3. \A h \in 1..MaxIncidents : ~on(st(h))
    BY <1>3, <1>5, <1>7
  <2> QED BY <1>1, <2>1, <2>2, <2>3 DEF Opened
<1>8. ASSUME a = "open", b = "acknowledged" PROVE Acked(fp)
  <2>1. Resolved(fp)' = Resolved(fp)
    BY <1>4, <1>5, <1>8
  <2> QED BY <1>1, <1>2, <1>5, <1>8, <2>1 DEF Acked
<1>9. ASSUME a \in {"open", "acknowledged"}, b = "resolved"
      PROVE  ActiveStatus(fp) = a /\ Closed(fp)
  <2>1. ActiveStatus(fp) = a
    BY <1>1, <1>5, <1>9
  <2>2. g \notin Resolved(fp) /\ Resolved(fp)' = Resolved(fp) \cup {g}
    BY <1>4, <1>5, <1>9
  <2>3. \A h \in 1..MaxIncidents : ~on(nd(h))
    BY <1>3, <1>5, <1>9
  <2> QED BY <1>2, <2>1, <2>2, <2>3 DEF Closed
<1> QED BY <1>6, <1>7, <1>8, <1>9

\* A commit opens or resolves at most one incident of each fingerprint.
LEMMA Committed ==
  ASSUME TypeOK, RowInv, HoldInv, RowInv', CommitStep, NEW fp \in Fingerprints
  PROVE  \/ Same(fp) \/ Opened(fp)
         \/ ActiveStatus(fp) = "open" /\ Closed(fp)
<1>0. /\ \A i \in Incident : incidents'[i] \in {incidents[i], draft[i]}
      /\ 1 \in 1..MaxIncidents
      /\ \A g \in 1..MaxIncidents : << fp, g >> \in Incident
  BY BoundsAssumption DEF CommitStep, CommitRows, Incident
<1>1. \A g \in 1..MaxIncidents :
        LET i == << fp, g >> IN
          incidents'[i].status # incidents[i].status =>
            /\ g \in Conflicts(fp)
            /\ \/ incidents[i].status = "none" /\ incidents'[i].status = "open"
               \/ incidents[i].status = "open" /\ incidents'[i].status = "resolved"
  <2> SUFFICES ASSUME NEW g \in 1..MaxIncidents, NEW i \in Incident,
                      i = << fp, g >>,
                      incidents'[i].status # incidents[i].status
               PROVE  /\ g \in Conflicts(fp)
                      /\ \/ /\ incidents[i].status = "none"
                            /\ incidents'[i].status = "open"
                         \/ /\ incidents[i].status = "open"
                            /\ incidents'[i].status = "resolved"
    BY <1>0
  <2>1. incidents'[i] = draft[i]
    BY <1>0
  <2>2. incidents[i].status \in Status
    BY DEF TypeOK, TablesTypeOK, Row
  <2>3. \/ incidents[i].status = "none" /\ draft[i].status = "open"
        \/ incidents[i].status = "open" /\ draft[i].status = "resolved"
    BY <2>1, <2>2 DEF RowInv, OpenInDraft, AcknowledgedInDraft,
                      ResolvedInDraft, HoldInv, NoneInDraft, Status
  <2>4. g \in Conflicts(fp)
    <3>1. Active(incidents[i]) \/ Active(draft[i])
      BY <2>3 DEF Active
    <3> QED BY <3>1, Zenon DEF Conflicts
  <2> QED BY <2>1, <2>3, <2>4
<1>2. CASE \E g \in 1..MaxIncidents :
             incidents'[<< fp, g >>].status # incidents[<< fp, g >>].status
  <2>1. PICK g \in 1..MaxIncidents :
               incidents'[<< fp, g >>].status # incidents[<< fp, g >>].status
    BY <1>2
  <2>2. \A h \in 1..MaxIncidents : h # g =>
          incidents'[<< fp, h >>].status = incidents[<< fp, h >>].status
    BY <1>1, <2>1 DEF RowInv, AtMostOneConflict
  <2> QED BY <1>1, <2>1, <2>2, OneRowChanged
<1>3. CASE \A g \in 1..MaxIncidents :
             incidents'[<< fp, g >>].status = incidents[<< fp, g >>].status
  BY <1>0, <1>3, OneRowChanged
<1> QED BY <1>2, <1>3

\* Another resolved row is one more closed incident.
LEMMA ClosedCount ==
  ASSUME NEW fp \in Fingerprints, Closed(fp)
  PROVE  Cardinality(Resolved(fp)') = Cardinality(Resolved(fp)) + 1
<1>1. IsFiniteSet(Resolved(fp))
  <2>1. Resolved(fp) \subseteq 1..MaxIncidents
    BY DEF Resolved
  <2>2. IsFiniteSet(1..MaxIncidents)
    BY BoundsAssumption, FS_Interval
  <2> QED BY <2>1, <2>2, FS_Subset
<1>2. PICK g : g \notin Resolved(fp) /\ Resolved(fp)' = Resolved(fp) \cup {g}
  BY DEF Closed
<1> QED BY <1>1, <1>2, FS_AddElement

LEMMA IncidentStep ==
  ASSUME TypeOK, RowInv, HoldInv, [Next]_vars, RowInv'
  PROVE  [Incidents!Next]_<< [fp \in Fingerprints |-> ActiveStatus(fp)],
                             [fp \in Fingerprints |-> Cardinality(Resolved(fp))] >>
<1> DEFINE shown == [fp \in Fingerprints |-> ActiveStatus(fp)]
           count == [fp \in Fingerprints |-> Cardinality(Resolved(fp))]
<1>1. CASE UNCHANGED committed
  <2>1. \A fp : /\ ActiveStatus(fp)' = ActiveStatus(fp)
                /\ Resolved(fp)' = Resolved(fp)
    BY <1>1 DEF ActiveStatus, Resolved, committed
  <2> QED BY <2>1
<1>2. ASSUME NEW raised \in SUBSET Fingerprints,
             NEW resolved \in SUBSET Fingerprints, raised \cap resolved = {},
             \A fp \in Fingerprints :
               /\ fp \in resolved => ActiveStatus(fp) = "open" /\ Closed(fp)
               /\ fp \in raised => Opened(fp)
               /\ fp \notin raised \cup resolved => Same(fp)
      PROVE  Incidents!Evaluate(raised, resolved)
  <2>1. \A fp \in resolved : shown[fp] = "open"
    BY <1>2
  <2>2. shown' = [fp \in Fingerprints |->
                    IF fp \in resolved THEN "none"
                    ELSE IF fp \in raised /\ shown[fp] = "none" THEN "open"
                    ELSE shown[fp]]
    BY <1>2 DEF Same, Opened, Closed
  <2>3. count' = [fp \in Fingerprints |->
                    IF fp \in resolved THEN count[fp] + 1 ELSE count[fp]]
    <3>1. \A fp \in Fingerprints :
            IF fp \in resolved
            THEN Cardinality(Resolved(fp)') = Cardinality(Resolved(fp)) + 1
            ELSE Resolved(fp)' = Resolved(fp)
      BY <1>2, ClosedCount DEF Same, Opened
    <3> QED BY <3>1
  <2> HIDE DEF shown, count
  <2> QED BY <1>2, <2>1, <2>2, <2>3 DEF Incidents!Evaluate, shown, count
<1>3. CASE EditStep
  <2>1. PICK j \in Incident, v \in {"acknowledged", "resolved"} :
               /\ Active(incidents[j])
               /\ v = "acknowledged" => incidents[j].status = "open"
               /\ incidents'[j].status = v
               /\ \A i \in Incident : i # j => incidents'[i] = incidents[i]
    BY <1>3, Edited
  <2>2. PICK fp \in Fingerprints, g \in 1..MaxIncidents : j = << fp, g >>
    BY DEF Incident
  <2>3. \A f \in Fingerprints, h \in 1..MaxIncidents :
          << f, h >> # j => incidents'[<< f, h >>] = incidents[<< f, h >>]
    BY <2>1 DEF Incident
  <2>4. \A f \in Fingerprints : f # fp => Same(f)
    <3> SUFFICES ASSUME NEW f \in Fingerprints, f # fp PROVE Same(f)
      OBVIOUS
    <3>1. \A h \in 1..MaxIncidents :
            incidents'[<< f, h >>].status = incidents[<< f, h >>].status
      BY <2>2, <2>3
    <3>2. 1 \in 1..MaxIncidents
      BY BoundsAssumption
    <3> QED BY <3>1, <3>2, OneRowChanged
  <2>5. incidents[<< fp, g >>].status \in {"open", "acknowledged"}
    BY <2>1, <2>2 DEF Active
  <2>6. \A h \in 1..MaxIncidents : h # g =>
          incidents'[<< fp, h >>].status = incidents[<< fp, h >>].status
    BY <2>2, <2>3
  <2>7. CASE v = "acknowledged"
    <3>1. Acked(fp)
      BY <2>1, <2>2, <2>6, <2>7, OneRowChanged
    <3>2. shown' = [shown EXCEPT ![fp] = "acknowledged"]
      BY <2>4, <3>1 DEF Same, Acked
    <3>3. count' = count
      <4>1. \A f \in Fingerprints : Resolved(f)' = Resolved(f)
        BY <2>4, <3>1 DEF Same, Acked
      <4> QED BY <4>1
    <3>4. shown[fp] = "open"
      BY <3>1 DEF Acked
    <3> HIDE DEF shown, count
    <3>5. Incidents!Acknowledge(fp)
      BY <3>2, <3>3, <3>4 DEF Incidents!Acknowledge, shown, count
    <3> QED BY <3>5 DEF Incidents!Next
  <2>8. CASE v = "resolved"
    <3>1. ActiveStatus(fp) = incidents[<< fp, g >>].status /\ Closed(fp)
      BY <2>1, <2>2, <2>5, <2>6, <2>8, OneRowChanged
    <3>2. shown' = [shown EXCEPT ![fp] = "none"]
      BY <2>4, <3>1 DEF Same, Closed
    <3>3. count' = [count EXCEPT ![fp] = @ + 1]
      <4>1. \A f \in Fingerprints : f # fp => Resolved(f)' = Resolved(f)
        BY <2>4 DEF Same
      <4>2. Cardinality(Resolved(fp)') = Cardinality(Resolved(fp)) + 1
        BY <3>1, ClosedCount
      <4> QED BY <4>1, <4>2
    <3>4. shown[fp] # "none"
      BY <2>5, <3>1
    <3> HIDE DEF shown, count
    <3>5. Incidents!Close(fp)
      BY <3>2, <3>3, <3>4 DEF Incidents!Close, shown, count
    <3> QED BY <3>5 DEF Incidents!Next
  <2> QED BY <2>1, <2>7, <2>8
<1>4. CASE CommitStep
  <2> DEFINE raised == {fp \in Fingerprints : Opened(fp)}
             resolved == {fp \in Fingerprints :
                            ActiveStatus(fp) = "open" /\ Closed(fp)}
  <2>1. raised \cap resolved = {}
    BY DEF Opened
  <2>2. \A fp \in Fingerprints : fp \notin raised \cup resolved => Same(fp)
    BY <1>4, Committed
  <2>3. Incidents!Evaluate(raised, resolved)
    BY <1>2, <2>1, <2>2
  <2> QED BY <2>3 DEF Incidents!Next
<1>5. RefreshStep \/ InsertStep \/ SweepStep \/ MarkStep \/ RollbackStep
        => UNCHANGED committed
  BY Zenon DEF RefreshStep, InsertStep, SweepStep, Sweep, MarkStep,
               RollbackStep, RollbackRows
<1>6. UNCHANGED << committed, draft, lock >> => UNCHANGED committed
  OBVIOUS
<1> QED BY <1>1, <1>3, <1>4, <1>5, <1>6, RowStep

\* Whatever the overlap of runs, crashes, deadlocks and operators, the
\* committed incidents behave as AlertIncidents says: one active incident per
\* fingerprint, opened and resolved by evaluations, acknowledged and closed
\* by operators, and nothing else.
THEOREM IncidentsRefined == Spec => RefinesIncidents
<1>1. ASSUME Init PROVE Incidents!Init
  <2>1. \A fp \in Fingerprints : \A g \in 1..MaxIncidents :
          incidents[<< fp, g >>].status = "none"
    BY <1>1 DEF Init, TablesInit, NoRow, Incident
  <2>2. \A fp \in Fingerprints : /\ ActiveStatus(fp) = "none"
                                 /\ Resolved(fp) = {}
    BY <2>1, Zenon DEF ActiveStatus, Resolved, Active
  <2>3. Cardinality({}) = 0
    BY FS_EmptySet
  <2> QED BY <2>2, <2>3 DEF Incidents!Init
<1>2. ASSUME TypeOK, RowInv, HoldInv, [Next]_vars, RowInv'
      PROVE  [Incidents!Next]_<< [fp \in Fingerprints |-> ActiveStatus(fp)],
                                 [fp \in Fingerprints |-> Cardinality(Resolved(fp))] >>
  BY <1>2, IncidentStep
<1> QED BY <1>1, <1>2, HoldInvariant, PTL DEF Spec, RefinesIncidents, Incidents!Spec

-----------------------------------------------------------------------------
(* What the commit of a materialize run leaves behind.                     *)

\* Every candidate of run m is still to be upserted or has an active row that
\* m holds, and before its sweep all that m holds is active.
Covered(m) ==
  /\ \A fp \in mat[m].cand :
       \/ \E k \in DOMAIN mat[m].todo : mat[m].todo[k] = fp
       \/ \E i \in Incident : i[1] = fp /\ lock[i] = m /\ Active(draft[i])
  /\ mat[m].pc = "upsert" =>
       \A i \in Incident : lock[i] = m => Active(draft[i])

\* After its sweep no other incident is open in the version that its commit
\* will leave.
Swept(m) ==
  mat[m].pc = "swept" =>
    /\ mat[m].todo = << >>
    /\ \A i \in Incident :
         i[1] \notin mat[m].cand =>
           /\ lock[i] = m => draft[i].status # "open"
           /\ lock[i] # m => incidents[i].status # "open"

\* A sender changes no status.
SentRows ==
  \A i \in Incident : lock[i] \in Senders =>
                        draft[i].status = incidents[i].status

OneMaterializer == \A m, n \in Materializers : m = n

ReflectInv == SentRows /\ \A m \in Materializers : Covered(m) /\ Swept(m)

\* The upsert of the next candidate.
LEMMA UpsertOne ==
  ASSUME TypeOK, RowInv, NEW m \in Materializers, Covered(m), Upsert(m)
  PROVE  \E j \in Incident :
           /\ j[1] = Head(mat[m].todo) /\ lock'[j] = m /\ Active(draft'[j])
           /\ \A i \in Incident : i # j => /\ lock'[i] = lock[i]
                                           /\ draft'[i] = draft[i]
           /\ UNCHANGED committed
<1>0. /\ draft \in [Incident -> Row] /\ lock \in [Incident -> Procs \cup {Nobody}]
      /\ UNCHANGED committed /\ mat[m].pc = "upsert"
      /\ mat[m].todo \in Seq(Fingerprints) /\ mat[m].todo # << >>
  BY DEF TypeOK, TablesTypeOK, MatTypeOK, MatState, Upsert
<1>1. PICK fp \in Fingerprints : fp = Head(mat[m].todo)
  BY <1>0, HeadTailProperties
<1>a. /\ UpsertBlockers(m, Head(mat[m].todo)) = {}
      /\ \E g \in 1..MaxIncidents : \/ Refresh(m, Head(mat[m].todo), g)
                                    \/ Insert(m, Head(mat[m].todo), g)
  BY DEF Upsert
<1>2. PICK g \in 1..MaxIncidents : Refresh(m, fp, g) \/ Insert(m, fp, g)
  BY <1>1, <1>a, Zenon
<1>3. PICK j \in Incident : j = << fp, g >> /\ j[1] = fp
  <2>1. << fp, g >> \in Incident /\ << fp, g >>[1] = fp
    BY DEF Incident
  <2> QED BY <2>1, Zenon
<1>4. ASSUME NEW row, Write(m, j, row), Active(row) PROVE
        /\ lock'[j] = m /\ Active(draft'[j])
        /\ \A i \in Incident : i # j => /\ lock'[i] = lock[i]
                                        /\ draft'[i] = draft[i]
  BY <1>0, <1>4 DEF Write
<1>5. CASE Refresh(m, fp, g)
  <2>1. lock[j] \in {Nobody, m}
    <3>1. g \in Conflicts(fp)
      BY <1>5, Zenon DEF Refresh
    <3>2. lock[fp, g] \notin UpsertBlockers(m, fp)
      BY <1>1, <1>a, Zenon
    <3> QED BY <1>3, <3>1, <3>2, Zenon DEF UpsertBlockers
  <2>2. Active(draft[j])
    <3>1. Active(incidents[j]) \/ Active(draft[j])
      BY <1>3, <1>5, Zenon DEF Refresh, Conflicts
    <3>2. lock[j] = Nobody => draft[j] = incidents[j]
      BY DEF RowInv, FreeRowsAgree
    <3> QED BY <1>0, <2>1, <3>1, <3>2 DEF Covered
  <2>3. Write(m, j, [draft[j] EXCEPT !.seen = mat[m].at])
    BY <1>3, <1>5, Zenon DEF Refresh
  <2>4. [draft[j] EXCEPT !.seen = mat[m].at].status = draft[j].status
    BY <1>0 DEF Row
  <2>5. Active([draft[j] EXCEPT !.seen = mat[m].at])
    BY <2>2, <2>4 DEF Active
  <2> QED BY <1>0, <1>1, <1>3, <1>4, <2>3, <2>5
<1>6. CASE Insert(m, fp, g)
  <2>1. Write(m, j, [NoRow EXCEPT !.status = "open", !.seen = mat[m].at])
    BY <1>3, <1>6, Zenon DEF Insert
  <2>2. Active([NoRow EXCEPT !.status = "open", !.seen = mat[m].at])
    BY DEF NoRow, Active
  <2> QED BY <1>0, <1>1, <1>3, <1>4, <2>1, <2>2
<1> QED BY <1>2, <1>5, <1>6

LEMMA CoveredOwn ==
  ASSUME TypeOK, RowInv, [Next]_vars, NEW m \in Materializers, Covered(m),
         Holds(m), MatStep(m, Waits) \/ AbortMaterialize(m)
  PROVE  Covered(m)'
<1>0. /\ mat \in [Materializers -> MatState] /\ mat[m] \in MatState
      /\ mat[m].todo \in Seq(Fingerprints)
      /\ lock \in [Incident -> Procs \cup {Nobody}]
      /\ draft \in [Incident -> Row]
  BY DEF TypeOK, TablesTypeOK, MatTypeOK, MatState
<1>1. CASE StartMaterialize(m)
  <2>1. PICK C \in SUBSET Fingerprints : \E q \in Orders(C), r \in BOOLEAN :
          mat' = [mat EXCEPT ![m] = [pc |-> "upsert", at |-> clock, cand |-> C,
                                     todo |-> q, resolve |-> r]]
    BY <1>1 DEF StartMaterialize
  <2>2. PICK q \in Orders(C), r \in BOOLEAN :
          mat' = [mat EXCEPT ![m] = [pc |-> "upsert", at |-> clock, cand |-> C,
                                     todo |-> q, resolve |-> r]]
    BY <2>1
  <2>3. mat'[m].todo = q /\ mat'[m].cand = C
    BY <1>0, <2>2
  <2>4. \A fp \in C : \E k \in DOMAIN q : q[k] = fp
    BY DEF Orders
  <2>5. \A i \in Incident : lock'[i] # m
    BY <1>1 DEF StartMaterialize, Holds
  <2> QED BY <2>3, <2>4, <2>5 DEF Covered
<1>2. CASE Upsert(m)
  <2>1. PICK j \in Incident :
          /\ j[1] = Head(mat[m].todo) /\ lock'[j] = m /\ Active(draft'[j])
          /\ \A i \in Incident : i # j => /\ lock'[i] = lock[i]
                                          /\ draft'[i] = draft[i]
    BY <1>2, UpsertOne
  <2>2. /\ mat'[m].cand = mat[m].cand /\ mat'[m].todo = Tail(mat[m].todo)
        /\ mat[m].pc = "upsert" /\ mat[m].todo # << >>
    BY <1>0, <1>2 DEF Upsert
  <2>3. \A i \in Incident : lock'[i] = m => Active(draft'[i])
    BY <2>1, <2>2 DEF Covered
  <2>4. ASSUME NEW k \in DOMAIN mat[m].todo,
               mat[m].todo[k] # Head(mat[m].todo)
        PROVE  \E l \in DOMAIN Tail(mat[m].todo) :
                 Tail(mat[m].todo)[l] = mat[m].todo[k]
    <3> DEFINE q == mat[m].todo
               t == Tail(q)
    <3>1. /\ q \in Seq(Fingerprints) /\ t \in Seq(Fingerprints)
          /\ Head(q) = q[1] /\ Len(t) = Len(q) - 1
          /\ \A l \in 1..Len(t) : t[l] = q[l + 1]
      BY <1>0, <2>2, HeadTailProperties
    <3>2. Len(q) \in Nat /\ DOMAIN q = 1..Len(q) /\ DOMAIN t = 1..Len(t)
      BY <3>1, LenProperties
    <3>3. k \in 1..Len(q) /\ q[k] # Head(q)
      BY <2>4, <3>2
    <3> HIDE DEF q, t
    <3>4. k - 1 \in 1..Len(t) /\ t[k - 1] = q[k]
      BY <3>1, <3>2, <3>3
    <3> QED BY <3>2, <3>4 DEF q, t
  <2>5. ASSUME NEW fp \in mat[m].cand
        PROVE  \/ \E k \in DOMAIN Tail(mat[m].todo) :
                    Tail(mat[m].todo)[k] = fp
               \/ \E i \in Incident : i[1] = fp /\ lock'[i] = m
                                                /\ Active(draft'[i])
    <3>1. CASE \E k \in DOMAIN mat[m].todo : mat[m].todo[k] = fp
      BY <2>1, <2>4, <3>1
    <3>2. CASE \E i \in Incident : i[1] = fp /\ lock[i] = m /\ Active(draft[i])
      <4>1. PICK i \in Incident : i[1] = fp /\ lock[i] = m /\ Active(draft[i])
        BY <3>2
      <4>2. lock'[i] = m
        BY <2>1, <4>1
      <4> QED BY <2>3, <4>1, <4>2
    <3> QED BY <3>1, <3>2 DEF Covered
  <2> QED BY <2>2, <2>3, <2>5 DEF Covered
<1>3. CASE Sweep(m)
  <2>1. /\ mat'[m].pc = "swept" /\ mat'[m].cand = mat[m].cand
        /\ mat'[m].todo = mat[m].todo
    BY <1>0, <1>3 DEF Sweep
  <2>2. \A i \in Incident : i[1] \in mat[m].cand =>
          lock'[i] = lock[i] /\ draft'[i] = draft[i]
    BY <1>3 DEF Sweep, Missing
  <2> QED BY <2>1, <2>2 DEF Covered
<1>4. CASE CommitMaterialize(m) \/ AbortMaterialize(m)
  <2>1. mat'[m] = IdleMat
    BY <1>0, <1>4 DEF CommitMaterialize, AbortMaterialize
  <2> QED BY <2>1 DEF IdleMat, Covered
<1> QED
  BY <1>1, <1>2, <1>3, <1>4, Zenon DEF MatStep, DeadlockMaterialize, OutOfRoom

LEMMA SweptOwn ==
  ASSUME TypeOK, [Next]_vars, NEW m \in Materializers,
         MatStep(m, Waits) \/ AbortMaterialize(m)
  PROVE  Swept(m)'
<1>0. /\ mat \in [Materializers -> MatState] /\ mat[m] \in MatState
      /\ draft \in [Incident -> Row]
  BY DEF TypeOK, TablesTypeOK, MatTypeOK, MatState
<1>1. CASE StartMaterialize(m)
  <2>1. \E C, q, r :
          mat' = [mat EXCEPT ![m] = [pc |-> "upsert", at |-> clock, cand |-> C,
                                     todo |-> q, resolve |-> r]]
    BY <1>1, Zenon DEF StartMaterialize
  <2> QED BY <1>0, <2>1 DEF Swept
<1>2. CASE Upsert(m)
  <2>1. mat'[m].pc = "upsert"
    BY <1>0, <1>2 DEF Upsert, MatState
  <2> QED BY <2>1 DEF Swept
<1>3. CASE Sweep(m)
  <2>1. /\ mat'[m].cand = mat[m].cand
        /\ mat'[m].todo = << >> /\ UNCHANGED incidents
    BY <1>0, <1>3 DEF Sweep, MatState, committed
  <2>2. \A i \in Missing(m) : draft'[i].status = "resolved" /\ lock'[i] = m
    BY <1>0, <1>3 DEF Sweep, Missing, Row
  <2>3. \A i \in Incident : i \notin Missing(m) => /\ draft'[i] = draft[i]
                                                  /\ lock'[i] = lock[i]
    BY <1>3 DEF Sweep
  <2>4. \A i \in Incident : i \notin Missing(m) /\ i[1] \notin mat[m].cand =>
          /\ lock[i] = m => draft[i].status # "open"
          /\ lock[i] # m => incidents[i].status # "open"
    BY DEF Missing
  <2>5. \A i \in Missing(m) : lock'[i] = m
    BY <2>2
  <2> QED BY <2>1, <2>2, <2>3, <2>4, <2>5 DEF Swept
<1>4. CASE CommitMaterialize(m) \/ AbortMaterialize(m)
  <2>1. mat'[m] = IdleMat
    BY <1>0, <1>4 DEF CommitMaterialize, AbortMaterialize
  <2> QED BY <2>1 DEF IdleMat, Swept
<1> QED
  BY <1>1, <1>2, <1>3, <1>4, Zenon DEF MatStep, DeadlockMaterialize, OutOfRoom

LEMMA SentRowsStep ==
  ASSUME TypeOK, RowInv, SentRows, [Next]_vars PROVE SentRows'
<1>0. /\ draft \in [Incident -> Row] /\ lock \in [Incident -> Procs \cup {Nobody}]
      /\ Nobody \notin Senders /\ Materializers \cap Senders = {}
  BY ProcsAssumption DEF TypeOK, TablesTypeOK, Procs
<1>1. CASE UNCHANGED << committed, draft, lock >>
  BY <1>1 DEF SentRows, committed
<1>2. CASE RefreshStep \/ InsertStep
  <2>1. UNCHANGED committed /\ \E m \in Materializers, fp \in Fingerprints,
          g \in 1..MaxIncidents : \E row : Write(m, << fp, g >>, row)
    BY <1>2, Zenon DEF RefreshStep, InsertStep, Refresh, Insert
  <2>2. PICK m \in Materializers, fp \in Fingerprints, g \in 1..MaxIncidents :
          \E row : Write(m, << fp, g >>, row)
    BY <2>1
  <2>3. PICK i \in Incident : i = << fp, g >>
    BY DEF Incident
  <2>4. PICK row : Write(m, i, row)
    BY <2>2, <2>3
  <2> QED BY <1>0, <2>1, <2>4 DEF Write, SentRows, committed
<1>3. CASE SweepStep
  <2>1. PICK m \in Materializers : Sweep(m)
    BY <1>3 DEF SweepStep
  <2>2. \A i \in Incident : \/ lock'[i] = m
                            \/ lock'[i] = lock[i] /\ draft'[i] = draft[i]
    BY <2>1 DEF Sweep
  <2> QED BY <1>0, <2>1, <2>2 DEF Sweep, SentRows, committed
<1>4. CASE MarkStep
  <2>1. PICK s \in Senders, e \in Item, marks \in [Notifiers -> Nat] :
               Mark(s, e, marks)
    BY <1>4 DEF MarkStep
  <2>2. e.inc \in Incident
    BY DEF Item
  <2>3. draft[e.inc].status = incidents[e.inc].status
    BY <2>1, <2>2 DEF Mark, Free, SentRows, RowInv, FreeRowsAgree
  <2>4. \A i \in Incident : i # e.inc => lock'[i] = lock[i]
    BY <2>1, <2>2 DEF Mark, Write
  <2>5. /\ UNCHANGED incidents
        /\ \A i \in Incident : draft'[i].status = draft[i].status
    BY <1>4, KeepsStatus DEF committed
  <2> QED BY <2>3, <2>4, <2>5 DEF SentRows
<1>5. CASE EditStep
  BY <1>0, <1>5, Edited DEF SentRows
<1>6. CASE CommitStep \/ RollbackStep
  <2>1. \A i \in Incident :
          \/ lock'[i] = Nobody
          \/ /\ lock'[i] = lock[i] /\ draft'[i] = draft[i]
             /\ incidents'[i] = incidents[i]
    BY <1>6 DEF CommitStep, RollbackStep, CommitRows, RollbackRows, Released,
                committed
  <2> QED BY <1>0, <2>1 DEF SentRows
<1> QED BY <1>1, <1>2, <1>3, <1>4, <1>5, <1>6, RowStep

\* While there is one materializer, the others open no incident and take no
\* row that it holds.
LEMMA Alone ==
  ASSUME TypeOK, SentRows, OneMaterializer, [Next]_vars,
         NEW m \in Materializers, ~(MatStep(m, Waits) \/ AbortMaterialize(m)),
         NEW i \in Incident
  PROVE  /\ lock[i] = m => lock'[i] = m
         /\ incidents'[i].status = "open" => incidents[i].status = "open"
<1>0. /\ draft \in [Incident -> Row] /\ lock \in [Incident -> Procs \cup {Nobody}]
      /\ m \notin Senders /\ m # Nobody
  BY ProcsAssumption DEF TypeOK, TablesTypeOK, Procs
<1>1. ASSUME NEW s \in Senders, SndStep(s, Waits) \/ AbortSend(s)
      PROVE  /\ lock[i] = m => lock'[i] = m
             /\ incidents'[i].status = "open" => incidents[i].status = "open"
  <2>0. snd[s] \in SndState /\ s # m
    BY <1>0 DEF TypeOK, SndTypeOK
  <2>1. CASE \E e \in Item : \E marks : Mark(s, e, marks) /\ UNCHANGED committed
    <3>1. PICK e, marks : e \in Item /\ Mark(s, e, marks) /\ UNCHANGED committed
      BY <2>1
    <3>2. /\ e.inc \in Incident /\ Free(e.inc, s)
          /\ \E row : Write(s, e.inc, row)
      BY <3>1 DEF Item, Mark
    <3> QED BY <1>0, <2>0, <3>1, <3>2 DEF Write, Free, committed
  <2>2. CASE CommitSend(s) \/ AbortSend(s)
    <3>1. CommitRows(s) \/ RollbackRows(s)
      BY <2>2 DEF CommitSend, AbortSend
    <3> QED BY <1>0, <2>0, <3>1
            DEF CommitRows, RollbackRows, Released, SentRows, committed
  <2>3. CASE RecordSuccess(s) \/ PersistDigest(s)
    <3>1. snd[s].cur \subseteq Item /\ Heads(s) \subseteq Item
      BY <2>0 DEF SndState, Heads
    <3> QED BY <2>1, <2>3, <3>1 DEF RecordSuccess, PersistDigest
  <2>4. CASE UNCHANGED << committed, draft, lock >>
    BY <2>4 DEF committed
  <2> QED
    BY <1>1, <2>2, <2>3, <2>4, Zenon
    DEF SndStep, StartSend, SelectOpen, SelectDigest, Skip, Deliver,
        RecordFailure, DeliverDigest, FailDigest, DeadlockSend,
        DeadlockDigest, tableVars
<1>2. CASE Operator
  <2>1. EditStep
    BY <1>2 DEF Operator, EditStep
  <2> QED BY <1>0, <2>1, Edited
<1>3. CASE Elapse \/ UNCHANGED vars
  BY <1>3 DEF Elapse, Tick, vars, tableVars, committed
<1>4. \A n \in Materializers : ~MatStep(n, Waits) /\ ~AbortMaterialize(n)
  BY DEF OneMaterializer
<1> QED BY <1>1, <1>2, <1>3, <1>4 DEF Next, Materialize, Send, Crash

LEMMA ReflectStep ==
  ASSUME TypeOK, RowInv, HoldInv, ReflectInv, OneMaterializer, [Next]_vars
  PROVE  ReflectInv'
<1>1. ASSUME NEW m \in Materializers, Left(m),
             ~(MatStep(m, Waits) \/ AbortMaterialize(m))
      PROVE  Covered(m)' /\ Swept(m)'
  <2>1. Covered(m) /\ Swept(m) /\ SentRows
    BY DEF ReflectInv
  <2>2. Covered(m)'
    BY <1>1, <2>1 DEF Left, Covered
  <2>3. \A i \in Incident :
          /\ lock[i] = m <=> lock'[i] = m
          /\ lock'[i] = m => draft'[i] = draft[i]
          /\ incidents'[i].status = "open" => incidents[i].status = "open"
    BY <1>1, <2>1, Alone DEF Left
  <2> QED BY <1>1, <2>1, <2>2, <2>3 DEF Left, Swept
<1>2. ASSUME NEW m \in Materializers, MatStep(m, Waits) \/ AbortMaterialize(m)
      PROVE  Covered(m)' /\ Swept(m)'
  BY <1>2, CoveredOwn, SweptOwn DEF ReflectInv, HoldInv
<1> QED
  BY <1>1, <1>2, OthersLeave, SentRowsStep DEF ReflectInv

LEMMA ReflectInit == ASSUME Init PROVE ReflectInv
<1>1. \A i \in Incident : lock[i] = Nobody
  BY DEF Init, TablesInit
<1>2. \A m \in Materializers : mat[m] = IdleMat
  BY DEF Init, MatInit
<1> QED BY <1>1, <1>2, ProcsAssumption
        DEF ReflectInv, SentRows, Covered, Swept, IdleMat, Procs

\* While no two materialize runs overlap, the commit of one with
\* --resolve-missing leaves an active incident for each candidate it fetched
\* and open incidents for nothing else, whatever senders and operators do.
THEOREM CommitReflects ==
  ASSUME OneMaterializer PROVE Spec => CommitReflectsCandidates
<1>1. ASSUME Init PROVE ReflectInv
  BY <1>1, ReflectInit
<1>2. ASSUME TypeOK, RowInv, HoldInv, ReflectInv, [Next]_vars PROVE ReflectInv'
  BY <1>2, ReflectStep
<1>3. Spec => [](TypeOK /\ RowInv /\ HoldInv /\ ReflectInv)
  BY <1>1, <1>2, HoldInvariant, PTL DEF Spec
<1>4. ASSUME ReflectInv, NEW m \in Materializers, CommitMaterialize(m),
             mat[m].resolve, NEW fp \in Fingerprints
      PROVE  /\ fp \in mat[m].cand =>
                  \E g \in 1..MaxIncidents : Active(incidents'[fp, g])
             /\ fp \notin mat[m].cand =>
                  \A g \in 1..MaxIncidents : incidents'[fp, g].status # "open"
  <2>1. mat[m].pc = "swept" /\ mat[m].todo = << >>
    BY <1>4 DEF CommitMaterialize, ReflectInv, Swept
  <2>2. \A i \in Incident : /\ lock[i] = m => incidents'[i] = draft[i]
                            /\ lock[i] # m => incidents'[i] = incidents[i]
    BY <1>4 DEF CommitMaterialize, CommitRows
  <2>3. ASSUME fp \in mat[m].cand
        PROVE  \E g \in 1..MaxIncidents : Active(incidents'[fp, g])
    <3>1. PICK i \in Incident : i[1] = fp /\ lock[i] = m /\ Active(draft[i])
      BY <1>4, <2>1, <2>3 DEF ReflectInv, Covered
    <3>2. PICK g \in 1..MaxIncidents : i = << fp, g >>
      BY <3>1 DEF Incident
    <3> QED BY <2>2, <3>1, <3>2, Zenon
  <2>4. ASSUME fp \notin mat[m].cand, NEW g \in 1..MaxIncidents
        PROVE  incidents'[<< fp, g >>].status # "open"
    <3>1. PICK i \in Incident : i = << fp, g >> /\ i[1] = fp
      <4>1. << fp, g >> \in Incident /\ << fp, g >>[1] = fp
        BY DEF Incident
      <4> QED BY <4>1, Zenon
    <3>2. incidents'[i].status # "open"
      BY <1>4, <2>1, <2>2, <2>4, <3>1 DEF ReflectInv, Swept
    <3> QED BY <3>1, <3>2, Zenon
  <2> QED BY <2>3, <2>4, Zenon
<1>5. ReflectInv =>
        [\A m \in Materializers :
           CommitMaterialize(m) /\ mat[m].resolve =>
             \A fp \in Fingerprints :
               /\ fp \in mat[m].cand =>
                    \E g \in 1..MaxIncidents : Active(incidents'[fp, g])
               /\ fp \notin mat[m].cand =>
                    \A g \in 1..MaxIncidents :
                      incidents'[fp, g].status # "open"]_<< tableVars, mat >>
  BY <1>4, Zenon
<1> QED BY <1>3, <1>5, PTL DEF CommitReflectsCandidates
=============================================================================
