------------------------- MODULE AlertAudit_proofs --------------------------
(***************************************************************************)
(* Proofs about notification_attempts, notification_state and what left    *)
(* the system, for any number of senders that overlap in any way.          *)
(***************************************************************************)
EXTENDS AlertPipeline_proofs

-----------------------------------------------------------------------------
(* What a step does to the senders' working sets.                          *)

\* A run that has not read the incidents yet has no item.
ItemsAfterSelect ==
  \A s \in Senders : snd[s].pc \in {"idle", "select"} => Items(s) = {}

\* Only a send run touches the audit, its own state or the outside world.
LEMMA SenderStep ==
  ASSUME [Next]_vars
  PROVE  \/ UNCHANGED << attempts, pending, snd, delivered >>
         \/ \E s \in Senders : SndStep(s, Waits) \/ AbortSend(s)
  BY DEF Next, vars, tableVars, Materialize, Send, Crash, Operator, Elapse,
         MatStep, DeadlockMaterialize, OutOfRoom, StartMaterialize, Upsert, Sweep,
         CommitMaterialize, AbortMaterialize, senderVars, Acknowledge,
         CloseByHand, SetStatus, Tick

\* A step of one sender leaves the state of the others alone.
LEMMA OtherSenders ==
  ASSUME TypeOK, NEW s \in Senders, SndStep(s, Waits) \/ AbortSend(s),
         NEW t \in Senders, t # s
  PROVE  snd'[t] = snd[t]
<1>0. snd \in [Senders -> SndState]
  BY DEF TypeOK, SndTypeOK
<1> USE <1>0 DEF SndState
<1>1. CASE StartSend(s) \/ SelectOpen(s) \/ SelectDigest(s)
  BY <1>1 DEF StartSend, SelectOpen, SelectDigest
<1>2. CASE Skip(s) \/ Deliver(s) \/ DeliverDigest(s) \/ PersistDigest(s)
           \/ DeadlockSend(s, Waits)
  BY <1>2 DEF Skip, Deliver, DeliverDigest, PersistDigest, DeadlockSend
<1>3. CASE RecordSuccess(s) \/ RecordFailure(s)
  BY <1>3 DEF RecordSuccess, RecordFailure, NextItem
<1>4. CASE FailDigest(s) \/ CommitSend(s) \/ AbortSend(s)
  BY <1>4 DEF FailDigest, CommitSend, AbortSend
<1> QED
  BY <1>1, <1>2, <1>3, <1>4 DEF SndStep, DeadlockDigest

\* A run keeps the now() it began with.
LEMMA OwnTime ==
  ASSUME TypeOK, NEW s \in Senders, SndStep(s, Waits) \/ AbortSend(s),
         snd'[s].pc # "idle"
  PROVE  \/ snd'[s].at = snd[s].at /\ snd[s].pc # "idle"
         \/ snd'[s].at = clock /\ clock' = clock + 1
<1>0. snd \in [Senders -> SndState] /\ snd[s] \in SndState
  BY DEF TypeOK, SndTypeOK
<1> USE <1>0 DEF SndState
<1>1. CASE StartSend(s)
  BY <1>1 DEF StartSend, Begin
<1>2. CASE SelectOpen(s)
  BY <1>2 DEF SelectOpen
<1>3. CASE SelectDigest(s)
  <2>1. PICK items : snd' = [snd EXCEPT ![s] =
                               IF items = {} THEN IdleSnd
                               ELSE [@ EXCEPT !.pc = "loop", !.todo = items]]
    BY <1>3 DEF SelectDigest
  <2> QED
    BY <1>3, <2>1 DEF SelectDigest, IdleSnd
<1>4. CASE Skip(s) \/ Deliver(s) \/ DeliverDigest(s) \/ PersistDigest(s)
           \/ DeadlockSend(s, Waits)
  <2>1. CASE Skip(s)
    <3>1. \E e : snd' = [snd EXCEPT ![s].todo = @ \ {e}]
      BY <2>1 DEF Skip
    <3> QED BY <2>1, <3>1 DEF Skip, InLoop
  <2>2. CASE Deliver(s)
    BY <2>2 DEF Deliver, InLoop
  <2>3. CASE DeliverDigest(s)
    BY <2>3 DEF DeliverDigest
  <2>4. CASE PersistDigest(s)
    BY <2>4 DEF PersistDigest
  <2>5. CASE DeadlockSend(s, Waits)
    BY <2>5 DEF DeadlockSend
  <2> QED BY <1>4, <2>1, <2>2, <2>3, <2>4, <2>5
<1>5. CASE RecordSuccess(s) \/ RecordFailure(s)
  BY <1>5 DEF RecordSuccess, RecordFailure, NextItem
<1>6. CASE FailDigest(s) \/ CommitSend(s) \/ AbortSend(s)
  BY <1>6 DEF FailDigest, CommitSend, AbortSend, IdleSnd
<1> QED
  BY <1>1, <1>2, <1>3, <1>4, <1>5, <1>6 DEF SndStep, DeadlockDigest

\* A run's items after a step are those it had, or what it has just read.
LEMMA ItemStep ==
  ASSUME TypeOK, ItemsAfterSelect, [Next]_vars
  PROVE  /\ ItemsAfterSelect'
         /\ \A t \in Senders : \A e \in Items(t)' :
              /\ snd'[t].at = snd[t].at /\ snd[t].pc # "idle"
              /\ \/ e \in Items(t)
                 \/ e \in OpenItems /\ UNCHANGED tableVars
<1> DEFINE Good(t) ==
      /\ snd'[t].pc \in {"idle", "select"} => Items(t)' = {}
      /\ \A e \in Items(t)' : /\ snd'[t].at = snd[t].at /\ snd[t].pc # "idle"
                              /\ \/ e \in Items(t)
                                 \/ e \in OpenItems /\ UNCHANGED tableVars
<1>1. ASSUME NEW t \in Senders, snd'[t] = snd[t] PROVE Good(t)
  BY <1>1 DEF ItemsAfterSelect, Items
<1>2. CASE UNCHANGED << attempts, pending, snd, delivered >>
  BY <1>1, <1>2 DEF ItemsAfterSelect
<1>3. ASSUME NEW s \in Senders, SndStep(s, Waits) \/ AbortSend(s)
      PROVE  \A t \in Senders : Good(t)
  <2>0. snd \in [Senders -> SndState] /\ snd[s] \in SndState
    BY DEF TypeOK, SndTypeOK
  <2> USE <2>0 DEF Items, SndState
  <2>1. \A t \in Senders : t # s => snd'[t] = snd[t]
    BY <1>3, OtherSenders
  <2> SUFFICES Good(s)
    BY <1>1, <2>1
  <2>2. CASE StartSend(s)
    BY <2>2 DEF StartSend, ItemsAfterSelect
  <2>3. CASE SelectOpen(s)
    <3>1. PICK page \in FirstOf(OpenItems, Limit) :
                 snd' = [snd EXCEPT ![s].pc = "loop",
                                    ![s].todo = {e \in page : Severe(e)}]
      BY <2>3 DEF SelectOpen
    <3>2. page \subseteq OpenItems
      BY FirstOfSubset
    <3>3. /\ snd'[s].pc = "loop" /\ snd'[s].at = snd[s].at
          /\ snd'[s].cur = snd[s].cur /\ snd'[s].todo \subseteq page
          /\ snd[s].pc = "select"
      BY <2>3, <3>1 DEF SelectOpen
    <3> QED BY <2>3, <3>2, <3>3 DEF SelectOpen
  <2>4. CASE SelectDigest(s)
    <3>1. PICK page \in FirstOf(OpenItems, Limit) : \E recent \in SUBSET page :
            \E items \in FirstOf({e \in recent : Severe(e)}, DigestLimit) :
              snd' = [snd EXCEPT ![s] =
                        IF items = {} THEN IdleSnd
                        ELSE [@ EXCEPT !.pc = "loop", !.todo = items]]
      BY <2>4 DEF SelectDigest
    <3>2. PICK recent \in SUBSET page :
            \E items \in FirstOf({e \in recent : Severe(e)}, DigestLimit) :
              snd' = [snd EXCEPT ![s] =
                        IF items = {} THEN IdleSnd
                        ELSE [@ EXCEPT !.pc = "loop", !.todo = items]]
      BY <3>1
    <3>3. PICK items \in FirstOf({e \in recent : Severe(e)}, DigestLimit) :
              snd' = [snd EXCEPT ![s] =
                        IF items = {} THEN IdleSnd
                        ELSE [@ EXCEPT !.pc = "loop", !.todo = items]]
      BY <3>2
    <3>4. items \subseteq OpenItems
      <4>1. page \subseteq OpenItems
        BY FirstOfSubset
      <4>2. items \subseteq {e \in recent : Severe(e)}
        BY FirstOfSubset
      <4> QED BY <4>1, <4>2
    <3> QED BY <2>4, <3>3, <3>4 DEF SelectDigest, IdleSnd
  <2>5. CASE Skip(s) \/ PersistDigest(s) \/ DeliverDigest(s)
             \/ DeadlockSend(s, Waits)
    <3>1. /\ snd'[s].at = snd[s].at /\ snd'[s].cur = snd[s].cur
          /\ snd'[s].todo \subseteq snd[s].todo
          /\ snd[s].pc \notin {"idle", "select"}
          /\ snd'[s].pc \notin {"idle", "select"}
      BY <2>5 DEF Skip, PersistDigest, DeliverDigest, DeadlockSend, InLoop
    <3> QED BY <3>1
  <2>6. CASE Deliver(s)
    <3>1. PICK e \in Heads(s), ok \in BOOLEAN :
                 snd' = [snd EXCEPT ![s].pc = IF ok THEN "record" ELSE "undo",
                                    ![s].cur = {e}]
      BY <2>6 DEF Deliver
    <3>2. /\ snd'[s].at = snd[s].at /\ snd'[s].todo = snd[s].todo
          /\ snd'[s].cur = {e} /\ snd'[s].pc \in {"record", "undo"}
      BY <3>1
    <3>3. e \in snd[s].todo /\ snd[s].pc = "loop"
      BY <2>6 DEF Heads, Deliver, InLoop
    <3> QED BY <3>2, <3>3
  <2>7. CASE RecordSuccess(s) \/ RecordFailure(s)
    <3>1. /\ snd'[s].at = snd[s].at /\ snd'[s].pc = "loop"
          /\ snd'[s].cur = {} /\ snd'[s].todo \subseteq snd[s].todo
          /\ snd[s].pc \in {"record", "undo"}
      BY <2>7 DEF RecordSuccess, RecordFailure, NextItem
    <3> QED BY <3>1
  <2>8. CASE FailDigest(s) \/ CommitSend(s) \/ AbortSend(s)
             \/ DeadlockDigest(s, Waits)
    <3>1. snd'[s].todo = {} /\ snd'[s].cur = {}
      BY <2>8 DEF FailDigest, CommitSend, DeadlockDigest, AbortSend, IdleSnd
    <3> QED BY <3>1
  <2> QED
    BY <1>3, <2>2, <2>3, <2>4, <2>5, <2>6, <2>7, <2>8 DEF SndStep
<1>4. \A t \in Senders : Good(t)
  BY <1>2, <1>3, SenderStep, <1>1
<1> QED
  BY <1>4 DEF ItemsAfterSelect

LEMMA ItemsInit == ASSUME Init PROVE ItemsAfterSelect
  BY DEF Init, SndInit, IdleSnd, ItemsAfterSelect, Items

-----------------------------------------------------------------------------
(* What is recorded as sent was sent.                                      *)

\* A notifier accepted item e in the present run of s.
DeliveredBy(s, e) ==
  \E d \in delivered : /\ d.inc = e.inc /\ d.by = NotifierOf[s]
                       /\ d.seen = e.seen /\ d.at = snd[s].at

\* A notifier accepted what a succeeded attempt says was sent.
Backed(a) ==
  a.status = "succeeded" =>
    \E d \in delivered : /\ d.inc = a.inc /\ d.by = a.by
                         /\ d.seen = a.seen /\ d.at = a.at

\* The items whose notifier call has returned and that are not recorded yet.
Announced(s) == IF snd[s].pc = "record" THEN snd[s].cur
                ELSE IF snd[s].pc = "persist" THEN snd[s].todo ELSE {}

DeliveryInv ==
  /\ \A s \in Senders : \A e \in Announced(s) : DeliveredBy(s, e)
  /\ \A a \in attempts : Backed(a)
  /\ \A s \in Senders : \A a \in pending[s] : Backed(a)

LEMMA DeliveryInit == ASSUME Init PROVE DeliveryInv
  BY DEF Init, TablesInit, SndInit, IdleSnd, DeliveryInv, Announced

\* A message about each item of E is among those that left with E.
LEMMA SentItem ==
  ASSUME NEW s, NEW E, NEW e \in E
  PROVE  \E d \in Sent(s, E) : /\ d.inc = e.inc /\ d.by = NotifierOf[s]
                               /\ d.seen = e.seen /\ d.at = snd[s].at
<1> DEFINE m == [inc |-> e.inc, by |-> NotifierOf[s], seen |-> e.seen,
                 at |-> snd[s].at, time |-> clock,
                 digest |-> snd[s].mode.digest]
<1>1. m \in Sent(s, E)
  BY DEF Sent
<1>2. m.inc = e.inc /\ m.by = NotifierOf[s] /\ m.seen = e.seen
      /\ m.at = snd[s].at
  OBVIOUS
<1> QED
  BY <1>1, <1>2

\* An item is announced only once its delivery is on record outside.
LEMMA AnnouncedStep ==
  ASSUME TypeOK, DeliveryInv, NEW s \in Senders,
         SndStep(s, Waits) \/ AbortSend(s)
  PROVE  /\ delivered \subseteq delivered'
         /\ \A t \in Senders : t # s => snd'[t] = snd[t]
         /\ \A e \in Announced(s)' : DeliveredBy(s, e)'
<1>0. snd \in [Senders -> SndState] /\ snd[s] \in SndState
  BY DEF TypeOK, SndTypeOK
<1> USE <1>0 DEF SndState
<1>1. CASE StartSend(s) \/ SelectOpen(s) \/ Skip(s)
  <2>1. snd'[s].pc \in {"select", "loop"}
    <3>1. CASE StartSend(s)
      BY <3>1 DEF StartSend
    <3>2. CASE SelectOpen(s)
      BY <3>2 DEF SelectOpen
    <3>3. CASE Skip(s)
      <4>1. \E e : snd' = [snd EXCEPT ![s].todo = @ \ {e}]
        BY <3>3 DEF Skip
      <4> QED BY <3>3, <4>1 DEF Skip, InLoop
    <3> QED BY <1>1, <3>1, <3>2, <3>3
  <2> QED
    BY <1>1, <2>1 DEF StartSend, SelectOpen, Skip, Announced
<1>2. CASE SelectDigest(s)
  <2>1. \E items : snd' = [snd EXCEPT ![s] =
                            IF items = {} THEN IdleSnd
                            ELSE [@ EXCEPT !.pc = "loop", !.todo = items]]
    BY <1>2 DEF SelectDigest
  <2>2. snd'[s].pc \in {"idle", "loop"}
    BY <2>1 DEF IdleSnd
  <2> QED
    BY <1>2, <2>1, <2>2 DEF SelectDigest, Announced
<1>3. CASE Deliver(s)
  <2>1. PICK e \in Heads(s), ok \in BOOLEAN, arrived \in BOOLEAN :
          /\ ok => arrived
          /\ delivered' = delivered \cup (IF arrived THEN Sent(s, {e}) ELSE {})
          /\ snd' = [snd EXCEPT ![s].pc = IF ok THEN "record" ELSE "undo",
                                ![s].cur = {e}]
    BY <1>3 DEF Deliver
  <2>2. snd'[s].pc = (IF ok THEN "record" ELSE "undo") /\ snd'[s].cur = {e}
        /\ snd'[s].at = snd[s].at
    BY <2>1
  <2>3. arrived => DeliveredBy(s, e)'
    BY <2>1, <2>2, SentItem DEF DeliveredBy
  <2> QED
    BY <2>1, <2>2, <2>3 DEF Announced
<1>4. CASE RecordSuccess(s) \/ RecordFailure(s)
  <2>1. snd' = NextItem(s) /\ UNCHANGED delivered
    BY <1>4 DEF RecordSuccess, RecordFailure
  <2>2. snd'[s].pc = "loop"
    BY <2>1 DEF NextItem
  <2> QED
    BY <2>1, <2>2 DEF NextItem, Announced
<1>5. CASE DeliverDigest(s)
  <2>1. /\ snd'[s].pc = "persist" /\ snd'[s].at = snd[s].at
        /\ snd'[s].todo = snd[s].todo
    BY <1>5 DEF DeliverDigest
  <2>2. \A e \in snd[s].todo : DeliveredBy(s, e)'
    BY <1>5, <2>1, SentItem DEF DeliverDigest, DeliveredBy
  <2> QED
    BY <1>5, <2>1, <2>2 DEF DeliverDigest, Announced
<1>6. CASE PersistDigest(s)
  <2>1. /\ snd'[s].pc = "persist" /\ snd'[s].at = snd[s].at
        /\ snd'[s].todo \subseteq snd[s].todo /\ snd[s].pc = "persist"
    BY <1>6 DEF PersistDigest
  <2> QED
    BY <1>6, <2>1 DEF PersistDigest, Announced, DeliveryInv, DeliveredBy
<1>7. CASE FailDigest(s) \/ CommitSend(s) \/ AbortSend(s)
           \/ DeadlockDigest(s, Waits)
  <2>1. snd'[s].pc = "idle"
    BY <1>7 DEF FailDigest, CommitSend, AbortSend, DeadlockDigest, IdleSnd
  <2> QED
    BY <1>7, <2>1 DEF FailDigest, CommitSend, AbortSend, DeadlockDigest,
                      Announced
<1>8. CASE DeadlockSend(s, Waits)
  <2>1. snd'[s].pc = "undo"
    BY <1>8 DEF DeadlockSend
  <2> QED
    BY <1>8, <2>1 DEF DeadlockSend, Announced
<1> QED
  BY <1>1, <1>2, <1>3, <1>4, <1>5, <1>6, <1>7, <1>8 DEF SndStep

\* What a run adds to the audit table is about items it announced, or it is
\* no success.
LEMMA AttemptStep ==
  ASSUME TypeOK, NEW s \in Senders, SndStep(s, Waits) \/ AbortSend(s)
  PROVE  /\ \A t \in Senders : t # s => pending'[t] = pending[t]
         /\ \A a \in pending'[s] \cup attempts' :
              \/ a \in pending[s] \cup attempts
              \/ a.status # "succeeded"
              \/ \E e \in Announced(s) :
                   \/ a = NewAttempt(s, e, "succeeded", "send", 0)
                   \/ a = NewAttempt(s, e, "succeeded", "digest", 0)
<1>0. pending \in [Senders -> SUBSET Attempt]
  BY DEF TypeOK, TablesTypeOK
<1>1. CASE UNCHANGED << pending, attempts >>
  BY <1>1
<1>2. CASE Skip(s) \/ RecordFailure(s)
  <2>1. \E e, why, retry :
          \/ Record(s, NewAttempt(s, e, "skipped", why, retry))
          \/ Record(s, NewAttempt(s, e, "failed", why, retry))
    BY <1>2 DEF Skip, RecordFailure
  <2> QED
    BY <1>0, <1>2, <2>1 DEF Skip, RecordFailure, Record, NewAttempt
<1>3. CASE RecordSuccess(s)
  BY <1>0, <1>3 DEF RecordSuccess, Record, Announced
<1>4. CASE PersistDigest(s)
  BY <1>0, <1>4 DEF PersistDigest, Record, Announced, Heads
<1>5. CASE FailDigest(s)
  BY <1>5 DEF FailDigest, NewAttempt
<1>6. CASE CommitSend(s) \/ AbortSend(s)
  BY <1>0, <1>6 DEF CommitSend, AbortSend
<1> QED
  BY <1>1, <1>2, <1>3, <1>4, <1>5, <1>6
  DEF SndStep, DeadlockDigest, StartSend, SelectOpen, SelectDigest, Deliver,
      DeliverDigest, DeadlockSend, tableVars

LEMMA DeliveryStep ==
  ASSUME TypeOK, DeliveryInv, [Next]_vars PROVE DeliveryInv'
<1>1. CASE UNCHANGED << attempts, pending, snd, delivered >>
  BY <1>1 DEF DeliveryInv, Announced, DeliveredBy, Backed
<1>2. ASSUME NEW s \in Senders, SndStep(s, Waits) \/ AbortSend(s)
      PROVE  DeliveryInv'
  <2>1. /\ delivered \subseteq delivered'
        /\ \A t \in Senders : t # s => snd'[t] = snd[t]
        /\ \A e \in Announced(s)' : DeliveredBy(s, e)'
    BY <1>2, AnnouncedStep
  <2>2. \A t \in Senders : \A e \in Announced(t)' : DeliveredBy(t, e)'
    BY <2>1 DEF DeliveryInv, Announced, DeliveredBy
  <2>3. \A a : Backed(a) => Backed(a)'
    BY <2>1 DEF Backed
  <2>4. \A e \in Announced(s) :
          /\ Backed(NewAttempt(s, e, "succeeded", "send", 0))
          /\ Backed(NewAttempt(s, e, "succeeded", "digest", 0))
    BY DEF DeliveryInv, Backed, DeliveredBy, NewAttempt
  <2>5. \A a \in pending'[s] \cup attempts' : Backed(a)'
    <3> SUFFICES ASSUME NEW a \in pending'[s] \cup attempts'
                 PROVE  Backed(a)'
      OBVIOUS
    <3>1. \/ a \in pending[s] \cup attempts
          \/ a.status # "succeeded"
          \/ \E e \in Announced(s) :
               \/ a = NewAttempt(s, e, "succeeded", "send", 0)
               \/ a = NewAttempt(s, e, "succeeded", "digest", 0)
      BY <1>2, AttemptStep
    <3>2. Backed(a)
      BY <2>4, <3>1 DEF DeliveryInv, Backed
    <3> QED BY <2>3, <3>2
  <2>6. \A t \in Senders : \A a \in pending'[t] : Backed(a)'
    BY <1>2, <2>3, <2>5, AttemptStep DEF DeliveryInv
  <2> QED
    BY <2>2, <2>5, <2>6 DEF DeliveryInv
<1> QED
  BY <1>1, <1>2, SenderStep

\* The audit never claims a delivery that did not happen, whatever is killed,
\* deadlocked or run twice.
THEOREM SuccessDelivered == Spec => []SuccessWasDelivered
<1>1. ASSUME Init PROVE TypeOK /\ DeliveryInv
  BY <1>1, TypeInit, DeliveryInit
<1>2. ASSUME TypeOK, DeliveryInv, [Next]_vars PROVE (TypeOK /\ DeliveryInv)'
  BY <1>2, TypeStep, DeliveryStep
<1>3. ASSUME DeliveryInv PROVE SuccessWasDelivered
  BY <1>3 DEF DeliveryInv, Backed, SuccessWasDelivered
<1> QED
  BY <1>1, <1>2, <1>3, PTL DEF Spec

-----------------------------------------------------------------------------
(* A mark has an audit row behind it.                                      *)

\* A row of A says that sighting v of incident i was sent by notifier n.
Vouched(i, n, v, A) ==
  \E a \in A : /\ a.inc = i /\ a.by = n /\ a.status = "succeeded"
               /\ a.why = "send" /\ a.seen = v

\* Vouched for by the committed audit, or by that and p's own rows.
AllVouched(i, marks, A) ==
  \A n \in Notifiers : marks[n] # 0 => Vouched(i, n, marks[n], A)

\* A committed mark has a committed row behind it, an uncommitted one may
\* have a row of the same transaction, and what a run has read is committed.
MarkInv ==
  /\ \A i \in Incident : AllVouched(i, incidents[i].marks, attempts)
  /\ \A i \in Incident :
       AllVouched(i, draft[i].marks, attempts \cup Own(lock[i]))
  /\ \A s \in Senders : \A e \in Items(s) :
       AllVouched(e.inc, e.marks, attempts)

LEMMA VouchedMore ==
  ASSUME NEW A, NEW B, A \subseteq B, NEW i, NEW marks, AllVouched(i, marks, A)
  PROVE  AllVouched(i, marks, B)
  BY DEF AllVouched, Vouched

LEMMA MarkInit == ASSUME Init PROVE MarkInv
<1>1. \A i \in Incident : \A n \in Notifiers : /\ incidents[i].marks[n] = 0
                                             /\ draft[i].marks[n] = 0
  BY DEF Init, TablesInit, NoRow
<1>2. \A s \in Senders : Items(s) = {}
  BY DEF Init, SndInit, IdleSnd, Items
<1> QED
  BY <1>1, <1>2 DEF MarkInv, AllVouched

\* The attempts behind a row whose lock does not change are not lost.
LEMMA OwnGrows ==
  ASSUME TypeOK, [Next]_vars
  PROVE  /\ attempts \subseteq attempts'
         /\ \A i \in Incident : lock'[i] = lock[i] =>
              attempts \cup Own(lock[i]) \subseteq (attempts \cup Own(lock[i]))'
<1>0. /\ pending \in [Senders -> SUBSET Attempt]
      /\ lock \in [Incident -> Procs \cup {Nobody}]
  BY DEF TypeOK, TablesTypeOK
<1>1. CASE UNCHANGED << attempts, pending, snd, delivered >>
  BY <1>1 DEF Own
<1>2. ASSUME NEW s \in Senders, SndStep(s, Waits) \/ AbortSend(s)
      PROVE  /\ attempts \subseteq attempts'
             /\ \A i \in Incident : lock'[i] = lock[i] =>
                  attempts \cup Own(lock[i])
                    \subseteq (attempts \cup Own(lock[i]))'
  <2>1. CASE UNCHANGED pending /\ attempts \subseteq attempts'
    BY <2>1 DEF Own
  <2>2. CASE \E a : Record(s, a) /\ UNCHANGED attempts
    BY <1>0, <2>2 DEF Record, Own
  <2>3. CASE CommitSend(s) \/ AbortSend(s)
    <3>1. \A i \in Incident : lock'[i] # s
      BY <2>3, ProcsAssumption
      DEF CommitSend, AbortSend, CommitRows, RollbackRows, Released, Procs
    <3>2. /\ attempts \subseteq attempts'
          /\ \A t \in Senders : t # s => pending'[t] = pending[t]
      BY <1>0, <2>3 DEF CommitSend, AbortSend
    <3> QED BY <3>1, <3>2 DEF Own
  <2> QED
    BY <1>2, <2>1, <2>2, <2>3
    DEF SndStep, StartSend, SelectOpen, SelectDigest, Skip, Deliver,
        RecordSuccess, RecordFailure, DeliverDigest, PersistDigest,
        FailDigest, DeadlockSend, DeadlockDigest, tableVars
<1> QED
  BY <1>1, <1>2, SenderStep

LEMMA MarkStepKeeps ==
  ASSUME TypeOK, ItemsAfterSelect, MarkInv, [Next]_vars PROVE MarkInv'
<1>0. /\ incidents \in [Incident -> Row] /\ draft \in [Incident -> Row]
      /\ lock \in [Incident -> Procs \cup {Nobody}]
  BY DEF TypeOK, TablesTypeOK
<1>1. attempts \subseteq attempts'
  BY OwnGrows
<1> DEFINE Kept(i) ==
      AllVouched(i, draft'[i].marks, (attempts \cup Own(lock[i]))')
<1>2. ASSUME NEW i \in Incident, lock'[i] = lock[i],
             draft'[i].marks = draft[i].marks
      PROVE  Kept(i)
  <2>1. attempts \cup Own(lock[i]) \subseteq (attempts \cup Own(lock[i]))'
    BY <1>2, OwnGrows
  <2> QED
    BY <1>2, <2>1, VouchedMore DEF MarkInv
<1>3. ASSUME NEW i \in Incident, AllVouched(i, draft'[i].marks, attempts')
      PROVE  Kept(i)
  BY <1>3, VouchedMore
<1>4. ASSUME NEW i \in Incident, draft'[i].marks = draft[i].marks,
             lock[i] \notin Senders
      PROVE  Kept(i)
  <2>1. AllVouched(i, draft[i].marks, attempts)
    BY <1>4 DEF MarkInv, Own
  <2> QED
    BY <1>1, <1>3, <1>4, <2>1, VouchedMore
<1>5. \A s \in Senders : \A e \in Items(s)' :
        AllVouched(e.inc, e.marks, attempts')
  <2> SUFFICES ASSUME NEW s \in Senders, NEW e \in Items(s)'
               PROVE  AllVouched(e.inc, e.marks, attempts)
    BY <1>1, VouchedMore
  <2>1. CASE e \in Items(s)
    BY <2>1 DEF MarkInv
  <2>2. CASE e \in OpenItems
    BY <2>2 DEF OpenItems, MarkInv
  <2> QED
    BY <2>1, <2>2, ItemStep
<1>6. ASSUME UNCHANGED committed
      PROVE  \A i \in Incident : AllVouched(i, incidents'[i].marks, attempts')
  BY <1>1, <1>6, VouchedMore DEF MarkInv, committed
<1>7. CASE UNCHANGED << committed, draft, lock >>
  BY <1>2, <1>5, <1>6, <1>7 DEF MarkInv
<1>8. CASE RefreshStep
  <2>1. PICK m \in Materializers, fp \in Fingerprints, g \in 1..MaxIncidents :
               /\ Refresh(m, fp, g) /\ Free(<< fp, g >>, m)
               /\ UNCHANGED committed
    BY <1>8 DEF RefreshStep
  <2>2. << fp, g >> \in Incident
    BY DEF Incident
  <2>3. Write(m, << fp, g >>, [draft[fp, g] EXCEPT !.seen = mat[m].at])
    BY <2>1 DEF Refresh
  <2>4. draft'[fp, g].marks = draft[fp, g].marks
    <3>1. draft[fp, g] \in Row
      BY <1>0, <2>2
    <3>2. draft'[fp, g] = [draft[fp, g] EXCEPT !.seen = mat[m].at]
      BY <1>0, <2>2, <2>3 DEF Write
    <3> QED BY <3>1, <3>2 DEF Row
  <2>5. Kept(<< fp, g >>)
    <3>1. lock[fp, g] \notin Senders
      BY <2>1, ProcsAssumption DEF Free, Procs
    <3> QED BY <1>4, <2>2, <2>4, <3>1
  <2>6. \A i \in Incident : i # << fp, g >> => Kept(i)
    BY <1>0, <1>2, <2>3 DEF Write
  <2> QED
    BY <1>5, <1>6, <2>1, <2>5, <2>6 DEF MarkInv
<1>9. CASE InsertStep
  <2>1. PICK m \in Materializers, fp \in Fingerprints, g \in 1..MaxIncidents :
               Insert(m, fp, g) /\ UNCHANGED committed
    BY <1>9 DEF InsertStep
  <2>2. << fp, g >> \in Incident
    BY DEF Incident
  <2>3. Write(m, << fp, g >>, [NoRow EXCEPT !.status = "open",
                                            !.seen = mat[m].at])
    BY <2>1 DEF Insert
  <2>4. draft'[fp, g].marks = NoRow.marks
    BY <1>0, <2>2, <2>3 DEF Write, NoRow
  <2>5. Kept(<< fp, g >>)
    BY <2>4 DEF NoRow, AllVouched
  <2>6. \A i \in Incident : i # << fp, g >> => Kept(i)
    BY <1>0, <1>2, <2>3 DEF Write
  <2> QED
    BY <1>5, <1>6, <2>1, <2>5, <2>6 DEF MarkInv
<1>10. CASE SweepStep
  <2>1. PICK m \in Materializers : Sweep(m)
    BY <1>10 DEF SweepStep
  <2>2. \A i \in Missing(m) : i \in Incident /\ lock[i] \notin Senders
    BY <2>1, ProcsAssumption DEF Sweep, SweepBlockers, Missing, Procs
  <2>3. \A i \in Incident : draft'[i].marks = draft[i].marks
    BY <1>0, <2>1 DEF Sweep, Row
  <2>4. \A i \in Incident : i \notin Missing(m) => lock'[i] = lock[i]
    BY <2>1 DEF Sweep
  <2>5. \A i \in Incident : Kept(i)
    BY <1>2, <1>4, <2>2, <2>3, <2>4
  <2>6. UNCHANGED committed
    BY <2>1 DEF Sweep
  <2> QED
    BY <1>5, <1>6, <2>5, <2>6 DEF MarkInv
<1>11. CASE MarkStep
  <2>1. PICK s \in Senders : \E e \in Items(s), marks \in [Notifiers -> Nat] :
          /\ e \in Item
          /\ Mark(s, e, marks)
          /\ \/ marks = e.marks
             \/ /\ marks = [e.marks EXCEPT ![NotifierOf[s]] = e.seen]
                /\ NewAttempt(s, e, "succeeded", "send", 0) \in pending'[s]
          /\ UNCHANGED committed
    BY <1>11 DEF MarkStep
  <2>2. PICK e \in Items(s), marks \in [Notifiers -> Nat] :
          /\ e \in Item
          /\ Mark(s, e, marks)
          /\ \/ marks = e.marks
             \/ /\ marks = [e.marks EXCEPT ![NotifierOf[s]] = e.seen]
                /\ NewAttempt(s, e, "succeeded", "send", 0) \in pending'[s]
          /\ UNCHANGED committed
    BY <2>1
  <2>3. e.inc \in Incident /\ e.marks \in [Notifiers -> Nat]
    BY <2>2 DEF Item
  <2>4. /\ draft'[e.inc] = [draft[e.inc] EXCEPT !.marks = marks]
        /\ lock'[e.inc] = s
        /\ \A i \in Incident : i # e.inc =>
             draft'[i] = draft[i] /\ lock'[i] = lock[i]
    BY <1>0, <2>2, <2>3 DEF Mark, Write
  <2>5. draft'[e.inc].marks = marks
    <3>1. draft[e.inc] \in Row
      BY <1>0, <2>3
    <3> QED BY <2>4, <3>1 DEF Row
  <2>6. Kept(e.inc)
    <3> SUFFICES ASSUME NEW n \in Notifiers, marks[n] # 0
                 PROVE  Vouched(e.inc, n, marks[n], attempts' \cup pending'[s])
      BY <2>4, <2>5 DEF AllVouched, Own
    <3>1. CASE marks[n] = e.marks[n]
      BY <1>1, <3>1 DEF MarkInv, AllVouched, Vouched
    <3>2. CASE marks[n] # e.marks[n]
      <4>1. /\ n = NotifierOf[s] /\ marks[n] = e.seen
            /\ NewAttempt(s, e, "succeeded", "send", 0) \in pending'[s]
        BY <2>2, <2>3, <3>2
      <4> QED BY <4>1 DEF NewAttempt, Vouched
    <3> QED BY <3>1, <3>2
  <2>7. \A i \in Incident : i # e.inc => Kept(i)
    BY <1>2, <2>4
  <2> QED
    BY <1>5, <1>6, <2>2, <2>6, <2>7 DEF MarkInv
<1>12. CASE EditStep
  <2>1. PICK i \in Incident, status \in Status : SetStatus(i, status)
    BY <1>12 DEF EditStep, Acknowledge, CloseByHand, Status
  <2>2. \A j \in Incident : /\ incidents'[j].marks = incidents[j].marks
                            /\ draft'[j].marks = draft[j].marks
                            /\ lock'[j] = lock[j]
    BY <1>0, <2>1 DEF SetStatus, Row
  <2>3. \A j \in Incident : Kept(j)
    BY <1>2, <2>2
  <2>4. \A j \in Incident : AllVouched(j, incidents'[j].marks, attempts')
    BY <1>1, <2>2, VouchedMore DEF MarkInv
  <2> QED
    BY <1>5, <2>3, <2>4 DEF MarkInv
<1>13. CASE CommitStep
  <2>1. PICK p \in Procs : /\ CommitRows(p)
                           /\ attempts \cup Own(p) \subseteq attempts'
    BY <1>13 DEF CommitStep
  <2>2. ASSUME NEW i \in Incident, lock[i] = p
        PROVE  /\ AllVouched(i, draft[i].marks, attempts')
               /\ draft'[i] = draft[i] /\ incidents'[i] = draft[i]
    BY <2>1, <2>2, VouchedMore DEF CommitRows, MarkInv
  <2>3. ASSUME NEW i \in Incident, lock[i] # p
        PROVE  /\ draft'[i] = draft[i] /\ incidents'[i] = incidents[i]
               /\ lock'[i] = lock[i]
    BY <2>1, <2>3 DEF CommitRows, Released
  <2>4. \A i \in Incident : Kept(i)
    BY <1>2, <1>3, <2>2, <2>3
  <2>5. \A i \in Incident : AllVouched(i, incidents'[i].marks, attempts')
    BY <1>1, <2>2, <2>3, VouchedMore DEF MarkInv
  <2> QED
    BY <1>5, <2>4, <2>5 DEF MarkInv
<1>14. CASE RollbackStep
  <2>1. PICK p \in Procs : RollbackRows(p)
    BY <1>14 DEF RollbackStep
  <2>2. ASSUME NEW i \in Incident, lock[i] = p PROVE Kept(i)
    <3>1. draft'[i] = incidents[i]
      BY <2>1, <2>2 DEF RollbackRows
    <3> QED BY <1>1, <1>3, <3>1, VouchedMore DEF MarkInv
  <2>3. ASSUME NEW i \in Incident, lock[i] # p PROVE Kept(i)
    BY <1>2, <2>1, <2>3 DEF RollbackRows, Released
  <2> QED
    BY <1>5, <1>6, <2>1, <2>2, <2>3 DEF MarkInv, RollbackRows
<1> QED
  BY <1>7, <1>8, <1>9, <1>10, <1>11, <1>12, <1>13, <1>14, RowStep

\* notification_state never says "sent" without an audit row that says so,
\* although whole-column overwrites can lose marks: what they restore is an
\* older committed state, and that was audited too.
THEOREM MarkAudited == Spec => []MarkIsAudited
<1>1. ASSUME Init PROVE TypeOK /\ ItemsAfterSelect /\ MarkInv
  BY <1>1, TypeInit, ItemsInit, MarkInit
<1>2. ASSUME TypeOK, ItemsAfterSelect, MarkInv, [Next]_vars
      PROVE  (TypeOK /\ ItemsAfterSelect /\ MarkInv)'
  BY <1>2, TypeStep, ItemStep, MarkStepKeeps
<1>3. ASSUME MarkInv PROVE MarkIsAudited
  BY <1>3 DEF MarkInv, AllVouched, Vouched, MarkIsAudited, Succeeded
<1> QED
  BY <1>1, <1>2, <1>3, PTL DEF Spec

-----------------------------------------------------------------------------
(* Nobody is told of an incident that was closed before the run began.     *)

\* closedAt is set once, to a time that no run has seen yet: every run, every
\* item in hand and every message is older than what closes its incident.
NoticeInv ==
  /\ \A i \in Incident :
       incidents[i].status \in {"none", "open"} => closedAt[i] = 0
  /\ \A s \in Senders : snd[s].pc # "idle" => snd[s].at < clock
  /\ \A s \in Senders : \A e \in Items(s) :
       closedAt[e.inc] # 0 => snd[s].at < closedAt[e.inc]
  /\ \A d \in delivered : /\ d.at < clock
                          /\ closedAt[d.inc] # 0 => d.at < closedAt[d.inc]

LEMMA NoticeInit == ASSUME Init PROVE NoticeInv
  BY DEF Init, TablesInit, SndInit, IdleSnd, NoticeInv, Items

LEMMA ClockStep == ASSUME TypeOK, [Next]_vars PROVE clock \in Nat /\ clock <= clock'
<1>1. clock \in Nat
  BY BoundsAssumption DEF TypeOK, TablesTypeOK
<1>2. clock' = clock \/ clock' = clock + 1
  BY DEF Next, vars, tableVars, Materialize, Send, Crash, Operator, Elapse,
         MatStep, DeadlockMaterialize, OutOfRoom, StartMaterialize, Upsert, Sweep,
         CommitMaterialize, AbortMaterialize, Acknowledge, CloseByHand,
         SetStatus, Tick, Begin, SndStep, StartSend, SelectOpen, SelectDigest,
         Skip, Deliver, RecordSuccess, RecordFailure, DeliverDigest,
         PersistDigest, FailDigest, CommitSend, DeadlockSend, DeadlockDigest,
         AbortSend
<1> QED
  BY <1>1, <1>2

\* A row is closed once, and now.
LEMMA ClosedStep ==
  ASSUME TypeOK, RowInv, NoticeInv, [Next]_vars
  PROVE  \A i \in Incident :
           /\ \/ closedAt'[i] = closedAt[i]
              \/ closedAt'[i] = clock /\ closedAt[i] = 0
           /\ incidents'[i].status \in {"none", "open"} => closedAt'[i] = 0
<1>1. \A i \in Incident :
        incidents[i].status \in {"none", "open"} => closedAt[i] = 0
  BY DEF NoticeInv
<1>0. closedAt \in [Incident -> Nat] /\ incidents \in [Incident -> Row]
  BY DEF TypeOK, TablesTypeOK
<1>2. CASE UNCHANGED committed
  BY <1>2, <1>1 DEF committed
<1>3. CASE EditStep
  <2>1. PICK i \in Incident, status \in {"acknowledged", "resolved"} :
               SetStatus(i, status)
    BY <1>3 DEF EditStep, Acknowledge, CloseByHand
  <2>2. incidents'[i].status = status
    BY <1>0, <2>1 DEF SetStatus, Row
  <2>3. closedAt'[i] = IF closedAt[i] = 0 THEN clock ELSE closedAt[i]
    BY <1>0, <2>1 DEF SetStatus
  <2>4. \A j \in Incident : j # i => /\ incidents'[j] = incidents[j]
                                    /\ closedAt'[j] = closedAt[j]
    BY <1>0, <2>1 DEF SetStatus
  <2> QED
    BY <1>1, <2>1, <2>2, <2>3, <2>4
<1>4. CASE CommitStep
  <2>1. PICK p \in Procs : CommitRows(p)
    BY <1>4 DEF CommitStep
  <2>2. ASSUME NEW i \in Incident
        PROVE  /\ \/ closedAt'[i] = closedAt[i]
                  \/ closedAt'[i] = clock /\ closedAt[i] = 0
               /\ incidents'[i].status \in {"none", "open"} => closedAt'[i] = 0
    <3>1. CASE lock[i] = p
      <4>1. /\ incidents'[i] = draft[i]
            /\ closedAt'[i] = IF /\ incidents[i].status = "open"
                                 /\ draft[i].status # "open"
                              THEN clock ELSE closedAt[i]
        BY <2>1, <3>1 DEF CommitRows
      <4>2. incidents[i].status \in Status
        BY <1>0 DEF Row
      <4>3. draft[i].status \in {"none", "open"} =>
              /\ incidents[i].status \in {"none", "open"}
              /\ incidents[i].status = "open" => draft[i].status = "open"
        BY <4>2 DEF Status, RowInv, OpenInDraft, AcknowledgedInDraft,
                    ResolvedInDraft
      <4> QED BY <1>1, <4>1, <4>3
    <3>2. CASE lock[i] # p
      BY <1>1, <2>1, <3>2 DEF CommitRows
    <3> QED BY <3>1, <3>2
  <2> QED BY <2>2
<1>5. UNCHANGED committed \/ EditStep \/ CommitStep
  BY RowStep DEF RefreshStep, InsertStep, SweepStep, Sweep, MarkStep,
                 RollbackStep, RollbackRows, committed
<1> QED
  BY <1>2, <1>3, <1>4, <1>5

\* What leaves the system is about items in hand.
LEMMA DeliveredStep ==
  ASSUME TypeOK, [Next]_vars
  PROVE  \A d \in delivered' :
           \/ d \in delivered
           \/ \E s \in Senders : \E e \in Items(s) :
                /\ snd[s].pc # "idle" /\ d.inc = e.inc /\ d.at = snd[s].at
                /\ UNCHANGED << committed, clock >>
<1>1. CASE UNCHANGED << attempts, pending, snd, delivered >>
  BY <1>1
<1>2. ASSUME NEW s \in Senders, SndStep(s, Waits) \/ AbortSend(s),
             NEW d \in delivered', d \notin delivered
      PROVE  \E e \in Items(s) :
               /\ snd[s].pc # "idle" /\ d.inc = e.inc /\ d.at = snd[s].at
               /\ UNCHANGED << committed, clock >>
  <2>1. Deliver(s) \/ DeliverDigest(s) \/ FailDigest(s)
    BY <1>2 DEF SndStep, StartSend, SelectOpen, SelectDigest, Skip,
                RecordSuccess, RecordFailure, PersistDigest, CommitSend,
                DeadlockSend, DeadlockDigest, AbortSend
  <2>2. snd[s].pc = "loop" /\ UNCHANGED << committed, clock >>
    BY <2>1 DEF Deliver, InLoop, DeliverDigest, FailDigest, tableVars
  <2>3. \E E \in SUBSET Items(s) : d \in Sent(s, E)
    <3>1. CASE Deliver(s)
      BY <1>2, <3>1 DEF Deliver, Heads, Items
    <3>2. CASE DeliverDigest(s) \/ FailDigest(s)
      BY <1>2, <3>2 DEF DeliverDigest, FailDigest, Items
    <3> QED BY <2>1, <3>1, <3>2
  <2>4. PICK E \in SUBSET Items(s) : d \in Sent(s, E)
    BY <2>3
  <2>5. \E e \in E : d.inc = e.inc /\ d.at = snd[s].at
    BY <2>4 DEF Sent
  <2> QED BY <2>2, <2>5
<1> QED
  BY <1>1, <1>2, SenderStep

LEMMA NoticeStep ==
  ASSUME TypeOK, RowInv, ItemsAfterSelect, NoticeInv, [Next]_vars
  PROVE  NoticeInv'
<1>0. clock \in Nat /\ clock <= clock' /\ clock' \in Nat
  BY ClockStep, TypeStep, BoundsAssumption DEF TypeOK, TablesTypeOK
<1>1. \A i \in Incident :
        /\ \/ closedAt'[i] = closedAt[i]
           \/ closedAt'[i] = clock /\ closedAt[i] = 0
        /\ incidents'[i].status \in {"none", "open"} => closedAt'[i] = 0
  BY ClosedStep
<1>2. TypeOK'
  BY TypeStep
<1>3. ASSUME NEW s \in Senders, snd'[s].pc # "idle"
      PROVE  snd'[s].at < clock'
  <2>1. snd[s].at \in Nat /\ snd'[s].at \in Nat
    BY <1>2 DEF TypeOK, SndTypeOK, SndState
  <2>2. CASE snd'[s].at = snd[s].at /\ snd[s].pc # "idle"
    BY <1>0, <2>1, <2>2 DEF NoticeInv
  <2>3. CASE snd'[s].at = clock /\ clock' = clock + 1
    BY <1>0, <2>3
  <2>4. CASE UNCHANGED << attempts, pending, snd, delivered >>
    BY <1>3, <2>2, <2>4
  <2>5. ASSUME NEW t \in Senders, SndStep(t, Waits) \/ AbortSend(t)
        PROVE  snd'[s].at < clock'
    <3>1. CASE t # s
      <4>1. snd'[s] = snd[s]
        BY <2>5, <3>1, OtherSenders
      <4> QED BY <1>3, <2>2, <4>1
    <3>2. CASE t = s
      BY <1>3, <2>2, <2>3, <2>5, <3>2, OwnTime
    <3> QED BY <3>1, <3>2
  <2> QED BY <2>4, <2>5, SenderStep
<1>4. ASSUME NEW s \in Senders, NEW e \in Items(s)', closedAt'[e.inc] # 0
      PROVE  snd'[s].at < closedAt'[e.inc]
  <2>1. /\ snd'[s].at = snd[s].at /\ snd[s].pc # "idle"
        /\ \/ e \in Items(s)
           \/ e \in OpenItems /\ UNCHANGED tableVars
    BY ItemStep
  <2>2. snd[s].at < clock
    BY <2>1 DEF NoticeInv
  <2>3. CASE e \in Items(s)
    <3>1. e.inc \in Incident
      BY <2>3 DEF Items, TypeOK, SndTypeOK, SndState, Item
    <3> QED BY <1>1, <1>4, <2>1, <2>2, <2>3, <3>1 DEF NoticeInv
  <2>4. CASE e \in OpenItems /\ UNCHANGED tableVars
    BY <1>4, <2>4 DEF OpenItems, tableVars, committed, NoticeInv
  <2> QED BY <2>1, <2>3, <2>4
<1>5. ASSUME NEW d \in delivered'
      PROVE  /\ d.at < clock'
             /\ closedAt'[d.inc] # 0 => d.at < closedAt'[d.inc]
  <2>1. d.at \in Nat /\ d.inc \in Incident
    BY <1>2 DEF TypeOK, SndTypeOK, Delivery
  <2>2. CASE d \in delivered
    BY <1>0, <1>1, <2>1, <2>2 DEF NoticeInv
  <2>3. CASE \E s \in Senders : \E e \in Items(s) :
               /\ snd[s].pc # "idle" /\ d.inc = e.inc /\ d.at = snd[s].at
               /\ UNCHANGED << committed, clock >>
    BY <2>3 DEF NoticeInv, committed
  <2> QED BY <2>2, <2>3, DeliveredStep
<1> QED
  BY <1>1, <1>3, <1>4, <1>5 DEF NoticeInv

\* A run tells nobody about an incident that was closed or acknowledged
\* before the run began.
THEOREM NoLateNotice == Spec => []NoNoticeAfterClose
<1>1. ASSUME Init PROVE ItemsAfterSelect /\ NoticeInv
  BY <1>1, ItemsInit, NoticeInit
<1>2. ASSUME TypeOK, RowInv, ItemsAfterSelect, NoticeInv, [Next]_vars
      PROVE  (ItemsAfterSelect /\ NoticeInv)'
  BY <1>2, ItemStep, NoticeStep
<1>3. ASSUME NoticeInv PROVE NoNoticeAfterClose
  BY <1>3 DEF NoticeInv, NoNoticeAfterClose
<1> QED
  BY <1>1, <1>2, <1>3, RowInvariant, PTL DEF Spec

-----------------------------------------------------------------------------
(* The steps of a sender, field by field.                                  *)

IsSend(a) == a.status = "succeeded" /\ a.why = "send"

\* Run s adds row a, about item e, to its transaction.
Adds(s, e, a) ==
  /\ pending' = [pending EXCEPT ![s] = @ \cup {a}]
  /\ a.inc = e.inc /\ a.by = NotifierOf[s] /\ a.at = snd[s].at
  /\ a.seen = e.seen

\* Run s goes on with the state of its loop unchanged but for its items.
GoesOn(s) == /\ snd'[s].at = snd[s].at /\ snd'[s].mode = snd[s].mode
             /\ UNCHANGED << attempts, clock, incidents >>

LEMMA StartFields ==
  ASSUME TypeOK, NEW s \in Senders, StartSend(s)
  PROVE  /\ snd[s].pc = "idle" /\ ~CooldownActive(s)
         /\ snd'[s].pc = "select" /\ snd'[s].at = clock
         /\ snd'[s].mode \in Modes
         /\ snd'[s].todo = snd[s].todo /\ snd'[s].cur = snd[s].cur
         /\ clock' = clock + 1
         /\ UNCHANGED << incidents, draft, lock, attempts, pending, delivered >>
<1>1. snd \in [Senders -> SndState] /\ snd[s] \in SndState
  BY DEF TypeOK, SndTypeOK
<1> QED BY <1>1 DEF StartSend, Begin, SndState, committed

LEMMA SelectFields ==
  ASSUME TypeOK, NEW s \in Senders, SelectOpen(s) \/ SelectDigest(s)
  PROVE  /\ snd[s].pc = "select" /\ UNCHANGED << tableVars, delivered >>
         /\ \/ snd'[s] = IdleSnd
            \/ /\ GoesOn(s) /\ snd'[s].pc = "loop"
               /\ snd'[s].cur = snd[s].cur /\ snd'[s].todo \subseteq OpenItems
<1>0. snd \in [Senders -> SndState] /\ snd[s] \in SndState
  BY DEF TypeOK, SndTypeOK
<1>1. snd[s].pc = "select" /\ UNCHANGED << tableVars, delivered >>
  BY Zenon DEF SelectOpen, SelectDigest
<1>2. UNCHANGED << attempts, clock, incidents >>
  BY <1>1, Zenon DEF tableVars, committed
<1>3. ASSUME NEW items \in SUBSET OpenItems,
             snd' = [snd EXCEPT ![s].pc = "loop", ![s].todo = items]
      PROVE  /\ GoesOn(s) /\ snd'[s].pc = "loop"
             /\ snd'[s].cur = snd[s].cur /\ snd'[s].todo \subseteq OpenItems
  <2>1. /\ snd'[s].pc = "loop" /\ snd'[s].cur = snd[s].cur
        /\ snd'[s].todo = items /\ snd'[s].at = snd[s].at
        /\ snd'[s].mode = snd[s].mode
    BY <1>0, <1>3 DEF SndState
  <2> QED BY <1>2, <2>1 DEF GoesOn
<1>4. CASE SelectOpen(s)
  <2>1. PICK page \in FirstOf(OpenItems, Limit) :
               snd' = [snd EXCEPT ![s].pc = "loop",
                                  ![s].todo = {e \in page : Severe(e)}]
    BY <1>4, Zenon DEF SelectOpen
  <2>2. page \subseteq OpenItems
    BY FirstOfSubset
  <2> DEFINE items == {e \in page : Severe(e)}
  <2>3. items \in SUBSET OpenItems
    BY <2>2
  <2>4. snd' = [snd EXCEPT ![s].pc = "loop", ![s].todo = items]
    BY <2>1
  <2> HIDE DEF items
  <2> QED BY <1>1, <1>3, <2>3, <2>4
<1>5. CASE SelectDigest(s)
  <2>1. PICK page \in FirstOf(OpenItems, Limit) : \E recent \in SUBSET page :
          \E items \in FirstOf({e \in recent : Severe(e)}, DigestLimit) :
            snd' = [snd EXCEPT ![s] =
                      IF items = {} THEN IdleSnd
                      ELSE [@ EXCEPT !.pc = "loop", !.todo = items]]
    BY <1>5, Zenon DEF SelectDigest
  <2>2. PICK recent \in SUBSET page :
          \E items \in FirstOf({e \in recent : Severe(e)}, DigestLimit) :
            snd' = [snd EXCEPT ![s] =
                      IF items = {} THEN IdleSnd
                      ELSE [@ EXCEPT !.pc = "loop", !.todo = items]]
    BY <2>1, Zenon
  <2>3. PICK items \in FirstOf({e \in recent : Severe(e)}, DigestLimit) :
            snd' = [snd EXCEPT ![s] =
                      IF items = {} THEN IdleSnd
                      ELSE [@ EXCEPT !.pc = "loop", !.todo = items]]
    BY <2>2, Zenon
  <2>4. page \subseteq OpenItems /\ items \subseteq {e \in recent : Severe(e)}
    BY FirstOfSubset
  <2>5. items \in SUBSET OpenItems
    BY <2>4
  <2>6. CASE items = {}
    <3>1. snd' = [snd EXCEPT ![s] = IdleSnd]
      BY <2>3, <2>6
    <3>2. snd'[s] = IdleSnd
      BY <1>0, <3>1
    <3> QED BY <1>1, <3>2
  <2>7. CASE items # {}
    <3>1. snd' = [snd EXCEPT ![s] = [@ EXCEPT !.pc = "loop", !.todo = items]]
      BY <2>3, <2>7
    <3>2. snd' = [snd EXCEPT ![s].pc = "loop", ![s].todo = items]
      BY <1>0, <3>1 DEF SndState
    <3> QED BY <1>1, <1>3, <2>5, <3>2
  <2> QED BY <2>6, <2>7
<1> QED BY <1>4, <1>5

LEMMA SkipFields ==
  ASSUME TypeOK, NEW s \in Senders, Skip(s)
  PROVE  \E e \in snd[s].todo : \E a :
           /\ InLoop(s) /\ Adds(s, e, a) /\ a.status = "skipped" /\ GoesOn(s)
           /\ snd'[s].todo = snd[s].todo \ {e} /\ snd'[s].pc = snd[s].pc
           /\ snd'[s].cur = snd[s].cur
           /\ UNCHANGED << draft, lock, delivered >>
<1>0. snd \in [Senders -> SndState] /\ snd[s] \in SndState
  BY DEF TypeOK, SndTypeOK
<1>1. PICK e \in Heads(s) :
        /\ \E retry \in (IF SkipReason(s, e) = "retry_backoff"
                         THEN {a.retry : a \in LastAttempt(s, e.inc)}
                         ELSE {0}) :
             Record(s, NewAttempt(s, e, "skipped", SkipReason(s, e), retry))
        /\ snd' = [snd EXCEPT ![s].todo = @ \ {e}]
  BY Zenon DEF Skip
<1>2. PICK retry :
        Record(s, NewAttempt(s, e, "skipped", SkipReason(s, e), retry))
  BY <1>1, Zenon
<1> DEFINE a == NewAttempt(s, e, "skipped", SkipReason(s, e), retry)
<1>3. /\ a.inc = e.inc /\ a.by = NotifierOf[s] /\ a.at = snd[s].at
      /\ a.seen = e.seen /\ a.status = "skipped"
  BY DEF NewAttempt
<1>4. pending' = [pending EXCEPT ![s] = @ \cup {a}]
  BY <1>2, Zenon DEF Record
<1> HIDE DEF a
<1>5. e \in snd[s].todo
  BY DEF Heads
<1>6. Adds(s, e, a)
  BY <1>3, <1>4 DEF Adds
<1>7. /\ snd'[s].todo = snd[s].todo \ {e} /\ snd'[s].pc = snd[s].pc
      /\ snd'[s].cur = snd[s].cur /\ snd'[s].at = snd[s].at
      /\ snd'[s].mode = snd[s].mode
  BY <1>0, <1>1 DEF SndState
<1>8. /\ InLoop(s) /\ UNCHANGED << attempts, clock, draft, lock, delivered >>
      /\ UNCHANGED incidents
  BY DEF Skip, committed
<1> QED BY <1>3, <1>5, <1>6, <1>7, <1>8 DEF GoesOn

LEMMA DeliverFields ==
  ASSUME TypeOK, NEW s \in Senders, Deliver(s)
  PROVE  \E e \in snd[s].todo :
           /\ InLoop(s) /\ SkipReason(s, e) = "none" /\ GoesOn(s)
           /\ snd'[s].pc \in {"record", "undo"} /\ snd'[s].cur = {e}
           /\ snd'[s].todo = snd[s].todo /\ UNCHANGED << pending, draft, lock >>
           /\ delivered \subseteq delivered'
           /\ \A d \in delivered' : d \in delivered \/ d \in Sent(s, {e})
<1>0. snd \in [Senders -> SndState] /\ snd[s] \in SndState
  BY DEF TypeOK, SndTypeOK
<1>1. PICK e \in Heads(s), ok \in BOOLEAN, arrived \in BOOLEAN :
        /\ SkipReason(s, e) = "none"
        /\ delivered' = delivered \cup (IF arrived THEN Sent(s, {e}) ELSE {})
        /\ snd' = [snd EXCEPT ![s].pc = IF ok THEN "record" ELSE "undo",
                              ![s].cur = {e}]
  BY Zenon DEF Deliver
<1>2. e \in snd[s].todo
  BY DEF Heads
<1>3. /\ InLoop(s) /\ UNCHANGED << attempts, clock, draft, lock, pending >>
      /\ UNCHANGED incidents
  BY DEF Deliver, tableVars, committed
<1>4. /\ snd'[s].pc \in {"record", "undo"} /\ snd'[s].cur = {e}
      /\ snd'[s].todo = snd[s].todo /\ snd'[s].at = snd[s].at
      /\ snd'[s].mode = snd[s].mode
  BY <1>0, <1>1 DEF SndState
<1> QED BY <1>1, <1>2, <1>3, <1>4 DEF GoesOn

LEMMA RecordFields ==
  ASSUME TypeOK, NEW s \in Senders, RecordSuccess(s) \/ RecordFailure(s)
  PROVE  \E e \in snd[s].cur : \E a :
           /\ snd[s].pc \in {"record", "undo"} /\ Adds(s, e, a) /\ GoesOn(s)
           /\ snd'[s].pc = "loop" /\ snd'[s].cur = {}
           /\ snd'[s].todo = snd[s].todo \ snd[s].cur /\ UNCHANGED delivered
           /\ \/ /\ IsSend(a)
                 /\ Mark(s, e, [e.marks EXCEPT ![NotifierOf[s]] = e.seen])
              \/ /\ a.status = "failed" /\ UNCHANGED << draft, lock >>
<1>0. snd \in [Senders -> SndState] /\ snd[s] \in SndState
  BY DEF TypeOK, SndTypeOK
<1>1. /\ snd'[s].pc = "loop" /\ snd'[s].cur = {}
      /\ snd'[s].todo = snd[s].todo \ snd[s].cur /\ UNCHANGED delivered
      /\ GoesOn(s) /\ snd[s].pc \in {"record", "undo"}
  <2>1. snd' = NextItem(s) /\ UNCHANGED << committed, attempts, clock, delivered >>
    BY DEF RecordSuccess, RecordFailure
  <2> QED BY <1>0, <2>1 DEF NextItem, SndState, GoesOn, committed,
                            RecordSuccess, RecordFailure
<1>2. CASE RecordSuccess(s)
  <2>1. PICK e \in snd[s].cur :
          /\ Mark(s, e, [e.marks EXCEPT ![NotifierOf[s]] = e.seen])
          /\ Record(s, NewAttempt(s, e, "succeeded", "send", 0))
    BY <1>2 DEF RecordSuccess
  <2> DEFINE a == NewAttempt(s, e, "succeeded", "send", 0)
  <2>2. /\ a.inc = e.inc /\ a.by = NotifierOf[s] /\ a.at = snd[s].at
        /\ a.seen = e.seen /\ IsSend(a)
    BY DEF NewAttempt, IsSend
  <2>3. pending' = [pending EXCEPT ![s] = @ \cup {a}]
    BY <2>1, Zenon DEF Record
  <2> HIDE DEF a
  <2>4. Adds(s, e, a)
    BY <2>2, <2>3 DEF Adds
  <2> QED BY <1>1, <2>1, <2>2, <2>4, Zenon
<1>3. CASE RecordFailure(s)
  <2>1. PICK e \in snd[s].cur : \E retry :
          Record(s, NewAttempt(s, e, "failed", "send", retry))
    BY <1>3, Zenon DEF RecordFailure
  <2>2. PICK retry : Record(s, NewAttempt(s, e, "failed", "send", retry))
    BY <2>1
  <2> DEFINE a == NewAttempt(s, e, "failed", "send", retry)
  <2>3. /\ a.inc = e.inc /\ a.by = NotifierOf[s] /\ a.at = snd[s].at
        /\ a.seen = e.seen /\ a.status = "failed"
    BY DEF NewAttempt
  <2>4. pending' = [pending EXCEPT ![s] = @ \cup {a}]
    BY <2>2, Zenon DEF Record
  <2> HIDE DEF a
  <2>5. Adds(s, e, a) /\ UNCHANGED << draft, lock >>
    BY <1>3, <2>3, <2>4 DEF Adds, RecordFailure
  <2> QED BY <1>1, <2>3, <2>5, Zenon
<1> QED BY <1>2, <1>3

LEMMA DigestFields ==
  ASSUME TypeOK, NEW s \in Senders, DeliverDigest(s)
  PROVE  /\ snd[s].pc = "loop" /\ snd[s].mode.digest /\ GoesOn(s)
         /\ snd'[s].pc = "persist" /\ snd'[s].todo = snd[s].todo
         /\ snd'[s].cur = snd[s].cur /\ UNCHANGED << pending, draft, lock >>
         /\ delivered' = delivered \cup Sent(s, snd[s].todo)
<1>0. snd \in [Senders -> SndState] /\ snd[s] \in SndState
  BY DEF TypeOK, SndTypeOK
<1> QED BY <1>0 DEF DeliverDigest, SndState, GoesOn, tableVars, committed

LEMMA PersistFields ==
  ASSUME TypeOK, NEW s \in Senders, PersistDigest(s)
  PROVE  \E e \in snd[s].todo : \E a :
           /\ snd[s].pc = "persist" /\ Adds(s, e, a) /\ GoesOn(s)
           /\ a.status = "succeeded" /\ a.why = "digest" /\ Mark(s, e, e.marks)
           /\ snd'[s].todo = snd[s].todo \ {e} /\ snd'[s].pc = snd[s].pc
           /\ snd'[s].cur = snd[s].cur /\ UNCHANGED delivered
<1>0. snd \in [Senders -> SndState] /\ snd[s] \in SndState
  BY DEF TypeOK, SndTypeOK
<1>1. PICK e \in Heads(s) :
        /\ Mark(s, e, e.marks)
        /\ Record(s, NewAttempt(s, e, "succeeded", "digest", 0))
        /\ snd' = [snd EXCEPT ![s].todo = @ \ {e}]
  BY DEF PersistDigest
<1> DEFINE a == NewAttempt(s, e, "succeeded", "digest", 0)
<1>2. /\ a.inc = e.inc /\ a.by = NotifierOf[s] /\ a.at = snd[s].at
      /\ a.seen = e.seen /\ a.status = "succeeded" /\ a.why = "digest"
  BY DEF NewAttempt
<1>3. pending' = [pending EXCEPT ![s] = @ \cup {a}]
  BY <1>1, Zenon DEF Record
<1> HIDE DEF a
<1>4. Adds(s, e, a) /\ e \in snd[s].todo
  BY <1>2, <1>3 DEF Adds, Heads
<1>5. /\ snd'[s].todo = snd[s].todo \ {e} /\ snd'[s].pc = snd[s].pc
      /\ snd'[s].cur = snd[s].cur /\ GoesOn(s)
      /\ UNCHANGED delivered /\ snd[s].pc = "persist"
  BY <1>0, <1>1 DEF SndState, GoesOn, PersistDigest, committed
<1> QED BY <1>1, <1>2, <1>4, <1>5, Zenon

LEMMA DeadlockFields ==
  ASSUME TypeOK, NEW s \in Senders, DeadlockSend(s, Waits)
  PROVE  /\ snd[s].pc = "record" /\ snd'[s].pc = "undo" /\ GoesOn(s)
         /\ snd'[s].todo = snd[s].todo /\ snd'[s].cur = snd[s].cur
         /\ UNCHANGED << pending, draft, lock, delivered >>
<1>0. snd \in [Senders -> SndState] /\ snd[s] \in SndState
  BY DEF TypeOK, SndTypeOK
<1> QED BY <1>0 DEF DeadlockSend, SndState, GoesOn, tableVars, committed

\* The row of item e of a digest that failed.
FailedRow(s, e) ==
  NewAttempt(s, e, "failed", "digest",
             clock + RetryDelay(FailureCount(s, e.inc) + 1))

\* How a run ends: with a commit, without one, or with a failed digest, each
\* item of which gets a failed row.
LEMMA EndFields ==
  ASSUME TypeOK, NEW s \in Senders,
         FailDigest(s) \/ CommitSend(s) \/ AbortSend(s)
  PROVE  /\ snd'[s] = IdleSnd /\ snd[s].pc # "idle" /\ UNCHANGED clock
         /\ \/ /\ CommitSend(s) /\ attempts' = attempts \cup pending[s]
               /\ snd[s].todo = {} /\ snd[s].pc \in {"loop", "persist"}
               /\ pending' = [pending EXCEPT ![s] = {}]
               /\ CommitRows(s) /\ UNCHANGED delivered
            \/ /\ AbortSend(s) /\ UNCHANGED << attempts, incidents, delivered >>
               /\ pending' = [pending EXCEPT ![s] = {}] /\ RollbackRows(s)
            \/ /\ FailDigest(s) /\ snd[s].pc = "loop" /\ snd[s].mode.digest
               /\ UNCHANGED << pending, incidents, draft, lock >>
               /\ attempts' = attempts \cup {FailedRow(s, e) : e \in snd[s].todo}
               /\ delivered \subseteq delivered'
               /\ \A d \in delivered' :
                    d \in delivered \/ d \in Sent(s, snd[s].todo)
<1>0. snd \in [Senders -> SndState] /\ snd[s] \in SndState
  BY DEF TypeOK, SndTypeOK
<1>1. CASE CommitSend(s)
  BY <1>0, <1>1 DEF CommitSend, InLoop
<1>2. CASE AbortSend(s)
  BY <1>0, <1>2 DEF AbortSend, RollbackRows, committed
<1>3. CASE FailDigest(s)
  <2>1. attempts' = attempts \cup {FailedRow(s, e) : e \in snd[s].todo}
    BY <1>3 DEF FailDigest, FailedRow
  <2>2. PICK arrived \in BOOLEAN :
          delivered' = delivered \cup
                         (IF arrived THEN Sent(s, snd[s].todo) ELSE {})
    BY <1>3 DEF FailDigest
  <2> QED BY <1>0, <1>3, <2>1, <2>2 DEF FailDigest, committed
<1> QED BY <1>1, <1>2, <1>3

-----------------------------------------------------------------------------
(* A run and its working set.                                              *)

\* What each point of a run goes with.
InPhase(s) ==
  /\ snd[s].pc \in {"idle", "select"} => pending[s] = {} /\ snd[s].todo = {}
  /\ snd[s].pc = "loop" /\ snd[s].mode.digest => pending[s] = {}
  /\ snd[s].pc = "persist" => snd[s].mode.digest
  /\ snd[s].pc \in {"record", "undo"} => /\ ~snd[s].mode.digest
                                         /\ \E e \in snd[s].todo : snd[s].cur = {e}
  /\ snd[s].pc \notin {"record", "undo"} => snd[s].cur = {}
  /\ snd[s].pc # "idle" => snd[s].mode \in Modes /\ snd[s].at < clock

\* A run has one item of each incident, and records it once.
OnceEach(s) ==
  /\ \A a \in pending[s] : a.by = NotifierOf[s] /\ a.at = snd[s].at
  /\ \A e, f \in snd[s].todo : e.inc = f.inc => e = f
  /\ \A a \in pending[s], e \in snd[s].todo : a.inc # e.inc
  /\ \A a, b \in pending[s] : a.inc = b.inc => a = b

TidyInv == /\ \A a \in attempts : a.at < clock
           /\ \A s \in Senders : InPhase(s) /\ OnceEach(s)

\* A step of another process.
LEMMA TidyOthers ==
  ASSUME TypeOK, TidyInv, [Next]_vars, NEW s \in Senders,
         snd'[s] = snd[s], pending'[s] = pending[s]
  PROVE  InPhase(s)' /\ OnceEach(s)'
<1>1. clock \in Nat /\ clock <= clock' /\ clock' \in Nat
  BY ClockStep, TypeStep, BoundsAssumption DEF TypeOK, TablesTypeOK
<1>2. snd[s] \in SndState
  BY DEF TypeOK, SndTypeOK
<1>3. snd[s].at \in Nat
  BY <1>2 DEF SndState
<1>4. snd[s].at < clock => snd[s].at < clock'
  BY <1>1, <1>3
<1>5. InPhase(s)'
  BY <1>4 DEF TidyInv, InPhase
<1>6. OnceEach(s)'
  BY DEF TidyInv, OnceEach
<1> QED BY <1>5, <1>6

\* A run's own step keeps what goes with each point of it.
LEMMA InPhaseStep ==
  ASSUME TypeOK, NEW s \in Senders, InPhase(s),
         SndStep(s, Waits) \/ AbortSend(s), clock <= clock'
  PROVE  InPhase(s)'
<1>0. /\ pending \in [Senders -> SUBSET Attempt] /\ snd[s] \in SndState
      /\ snd[s].at \in Nat /\ clock \in Nat
  BY BoundsAssumption DEF TypeOK, TablesTypeOK, SndTypeOK, SndState
<1>1. CASE StartSend(s)
  <2>1. /\ snd[s].pc = "idle" /\ snd'[s].pc = "select" /\ snd'[s].at = clock
        /\ snd'[s].mode \in Modes /\ clock' = clock + 1
        /\ snd'[s].todo = snd[s].todo /\ snd'[s].cur = snd[s].cur
        /\ UNCHANGED pending
    BY <1>1, StartFields
  <2> QED BY <1>0, <2>1 DEF InPhase
<1>2. CASE SelectOpen(s) \/ SelectDigest(s)
  <2>1. /\ snd[s].pc = "select"
        /\ \/ snd'[s] = IdleSnd
           \/ /\ GoesOn(s) /\ snd'[s].pc = "loop" /\ snd'[s].cur = snd[s].cur
    BY <1>2, SelectFields, Zenon
  <2>2. UNCHANGED << pending, clock >>
    BY <1>2, SelectFields DEF tableVars
  <2> QED BY <2>1, <2>2 DEF InPhase, GoesOn, IdleSnd
<1>3. CASE Skip(s)
  <2>1. InLoop(s) /\ GoesOn(s) /\ snd'[s].pc = snd[s].pc
        /\ snd'[s].cur = snd[s].cur
    BY <1>3, SkipFields, Zenon
  <2> QED BY <2>1 DEF InPhase, GoesOn, InLoop
<1>4. CASE Deliver(s)
  <2>1. PICK e \in snd[s].todo :
          /\ InLoop(s) /\ GoesOn(s) /\ snd'[s].pc \in {"record", "undo"}
          /\ snd'[s].cur = {e} /\ snd'[s].todo = snd[s].todo
    BY <1>4, DeliverFields, Zenon
  <2> QED BY <2>1 DEF InPhase, GoesOn, InLoop
<1>5. CASE RecordSuccess(s) \/ RecordFailure(s)
  <2>1. /\ snd[s].pc \in {"record", "undo"} /\ GoesOn(s)
        /\ snd'[s].pc = "loop" /\ snd'[s].cur = {}
    BY <1>5, RecordFields, Zenon
  <2> QED BY <2>1 DEF InPhase, GoesOn
<1>6. CASE DeliverDigest(s)
  <2>1. /\ snd[s].pc = "loop" /\ snd[s].mode.digest /\ GoesOn(s)
        /\ snd'[s].pc = "persist" /\ snd'[s].cur = snd[s].cur
    BY <1>6, DigestFields, Zenon
  <2> QED BY <2>1 DEF InPhase, GoesOn
<1>7. CASE PersistDigest(s)
  <2>1. /\ snd[s].pc = "persist" /\ GoesOn(s) /\ snd'[s].pc = snd[s].pc
        /\ snd'[s].cur = snd[s].cur
    BY <1>7, PersistFields, Zenon
  <2> QED BY <2>1 DEF InPhase, GoesOn
<1>8. CASE DeadlockSend(s, Waits)
  <2>1. /\ snd[s].pc = "record" /\ snd'[s].pc = "undo" /\ GoesOn(s)
        /\ snd'[s].cur = snd[s].cur /\ snd'[s].todo = snd[s].todo
    BY <1>8, DeadlockFields, Zenon
  <2> QED BY <2>1 DEF InPhase, GoesOn
<1>9. CASE FailDigest(s) \/ CommitSend(s) \/ AbortSend(s)
  <2>1. snd'[s] = IdleSnd
    BY <1>9, EndFields, Zenon
  <2>2. pending'[s] = {}
    <3>1. \/ pending' = [pending EXCEPT ![s] = {}]
          \/ /\ UNCHANGED pending /\ snd[s].pc = "loop" /\ snd[s].mode.digest
      BY <1>9, EndFields, Zenon
    <3> QED BY <1>0, <3>1 DEF InPhase
  <2> QED BY <2>1, <2>2 DEF InPhase, IdleSnd
<1> QED
  BY <1>1, <1>2, <1>3, <1>4, <1>5, <1>6, <1>7, <1>8, <1>9, Zenon
  DEF SndStep, DeadlockDigest

\* An item that is recorded is done with.
LEMMA TakenOnce ==
  ASSUME TypeOK, NEW s \in Senders, OnceEach(s), NEW e \in snd[s].todo, NEW a,
         Adds(s, e, a), snd'[s].todo = snd[s].todo \ {e},
         snd'[s].at = snd[s].at
  PROVE  OnceEach(s)'
<1>1. pending'[s] = pending[s] \cup {a}
  BY DEF Adds, TypeOK, TablesTypeOK
<1>2. /\ a.inc = e.inc /\ a.by = NotifierOf[s] /\ a.at = snd[s].at
  BY DEF Adds
<1>3. \A b \in pending'[s] : b.by = NotifierOf[s] /\ b.at = snd'[s].at
  BY <1>1, <1>2 DEF OnceEach
<1>4. \A f, g \in snd'[s].todo : f.inc = g.inc => f = g
  BY DEF OnceEach
<1>5. \A b \in pending'[s], f \in snd'[s].todo : b.inc # f.inc
  BY <1>1, <1>2 DEF OnceEach
<1>6. \A b, c \in pending'[s] : b.inc = c.inc => b = c
  BY <1>1, <1>2 DEF OnceEach
<1> QED BY <1>3, <1>4, <1>5, <1>6 DEF OnceEach

LEMMA OnceEachStep ==
  ASSUME TypeOK, NEW s \in Senders, InPhase(s), OnceEach(s),
         SndStep(s, Waits) \/ AbortSend(s)
  PROVE  OnceEach(s)'
<1>0. pending \in [Senders -> SUBSET Attempt]
  BY DEF TypeOK, TablesTypeOK
<1>1. CASE StartSend(s) \/ SelectOpen(s) \/ SelectDigest(s)
  <2>1. pending'[s] = {}
    <3>1. UNCHANGED pending /\ (snd[s].pc = "idle" \/ snd[s].pc = "select")
      BY <1>1, Zenon DEF StartSend, SelectOpen, SelectDigest, tableVars
    <3> QED BY <3>1 DEF InPhase
  <2>2. \A e, f \in snd'[s].todo : e.inc = f.inc => e = f
    <3>1. CASE StartSend(s)
      BY <3>1, StartFields DEF OnceEach
    <3>2. CASE SelectOpen(s) \/ SelectDigest(s)
      <4>1. snd'[s] = IdleSnd \/ snd'[s].todo \subseteq OpenItems
        BY <3>2, SelectFields, Zenon
      <4>2. \A e, f \in OpenItems : e.inc = f.inc => e = f
        BY DEF OpenItems
      <4> QED BY <4>1, <4>2 DEF IdleSnd
    <3> QED BY <1>1, <3>1, <3>2
  <2> QED BY <2>1, <2>2 DEF OnceEach
<1>2. CASE Skip(s)
  <2>1. \E e \in snd[s].todo : \E a :
          Adds(s, e, a) /\ GoesOn(s) /\ snd'[s].todo = snd[s].todo \ {e}
    BY <1>2, SkipFields, Zenon
  <2> QED BY <2>1, TakenOnce DEF GoesOn
<1>3. CASE RecordSuccess(s) \/ RecordFailure(s)
  <2>1. PICK e \in snd[s].cur : \E a :
          /\ snd[s].pc \in {"record", "undo"} /\ Adds(s, e, a) /\ GoesOn(s)
          /\ snd'[s].todo = snd[s].todo \ snd[s].cur
    BY <1>3, RecordFields, Zenon
  <2>2. e \in snd[s].todo /\ snd[s].cur = {e}
    BY <2>1 DEF InPhase
  <2> QED BY <2>1, <2>2, TakenOnce DEF GoesOn
<1>4. CASE PersistDigest(s)
  <2>1. \E e \in snd[s].todo : \E a :
          Adds(s, e, a) /\ GoesOn(s) /\ snd'[s].todo = snd[s].todo \ {e}
    BY <1>4, PersistFields, Zenon
  <2> QED BY <2>1, TakenOnce DEF GoesOn
<1>5. CASE Deliver(s) \/ DeliverDigest(s) \/ DeadlockSend(s, Waits)
  <2>1. UNCHANGED pending /\ snd'[s].todo = snd[s].todo /\ GoesOn(s)
    BY <1>5, DeliverFields, DigestFields, DeadlockFields, Zenon
  <2> QED BY <2>1 DEF OnceEach, GoesOn
<1>6. CASE FailDigest(s) \/ CommitSend(s) \/ AbortSend(s)
  <2>1. snd'[s].todo = {}
    BY <1>6, EndFields DEF IdleSnd
  <2>2. pending'[s] = {}
    <3>1. \/ pending' = [pending EXCEPT ![s] = {}]
          \/ /\ UNCHANGED pending /\ snd[s].pc = "loop" /\ snd[s].mode.digest
      BY <1>6, EndFields, Zenon
    <3> QED BY <1>0, <3>1 DEF InPhase
  <2> QED BY <2>1, <2>2 DEF OnceEach
<1> QED
  BY <1>1, <1>2, <1>3, <1>4, <1>5, <1>6, Zenon DEF SndStep, DeadlockDigest

\* What a step of run s adds to the audit table is about its items, by its
\* notifier and of its time.
LEMMA AuditGrows ==
  ASSUME TypeOK, NEW s \in Senders, InPhase(s), OnceEach(s),
         SndStep(s, Waits) \/ AbortSend(s), NEW a \in attempts', a \notin attempts
  PROVE  /\ a.by = NotifierOf[s] /\ a.at = snd[s].at /\ snd[s].pc # "idle"
         /\ snd'[s] = IdleSnd /\ UNCHANGED clock
         /\ \/ a \in pending[s]
            \/ snd[s].mode.digest /\ a.status = "failed"
<1>1. CASE FailDigest(s) \/ CommitSend(s) \/ AbortSend(s)
  <2>1. /\ snd'[s] = IdleSnd /\ snd[s].pc # "idle" /\ UNCHANGED clock
        /\ \/ a \in pending[s]
           \/ snd[s].mode.digest /\ \E e \in snd[s].todo : a = FailedRow(s, e)
    <3>1. \/ attempts' = attempts \cup pending[s]
          \/ UNCHANGED attempts
          \/ /\ snd[s].mode.digest
             /\ attempts' = attempts \cup {FailedRow(s, e) : e \in snd[s].todo}
      BY <1>1, EndFields, Zenon
    <3>2. snd'[s] = IdleSnd /\ snd[s].pc # "idle" /\ UNCHANGED clock
      BY <1>1, EndFields, Zenon
    <3> QED BY <3>1, <3>2, Zenon
  <2> QED BY <2>1 DEF OnceEach, FailedRow, NewAttempt
<1>2. CASE ~(FailDigest(s) \/ CommitSend(s) \/ AbortSend(s))
  BY <1>2, Zenon
  DEF SndStep, StartSend, SelectOpen, SelectDigest, Skip, Deliver,
      RecordSuccess, RecordFailure, DeliverDigest, PersistDigest, DeadlockSend,
      DeadlockDigest, tableVars
<1> QED BY <1>1, <1>2

LEMMA TidyStep == ASSUME TypeOK, TidyInv, [Next]_vars PROVE TidyInv'
<1>1. clock \in Nat /\ clock <= clock' /\ clock' \in Nat
  BY ClockStep, TypeStep, BoundsAssumption DEF TypeOK, TablesTypeOK
<1>2. \A a \in attempts : a.at < clock'
  BY <1>1 DEF TidyInv, TypeOK, TablesTypeOK, Attempt
<1>3. CASE UNCHANGED << attempts, pending, snd, delivered >>
  BY <1>2, <1>3, TidyOthers DEF TidyInv
<1>4. ASSUME NEW s \in Senders, SndStep(s, Waits) \/ AbortSend(s)
      PROVE  TidyInv'
  <2>1. InPhase(s) /\ OnceEach(s)
    BY DEF TidyInv
  <2>2. InPhase(s)' /\ OnceEach(s)'
    BY <1>1, <1>4, <2>1, InPhaseStep, OnceEachStep
  <2>3. \A t \in Senders : t # s => InPhase(t)' /\ OnceEach(t)'
    BY <1>4, OtherSenders, AttemptStep, TidyOthers
  <2>4. \A a \in attempts' : a \notin attempts => a.at < clock'
    BY <1>4, <2>1, AuditGrows DEF InPhase
  <2> QED BY <1>2, <2>2, <2>3, <2>4 DEF TidyInv
<1> QED BY <1>3, <1>4, SenderStep

LEMMA TidyInit == ASSUME Init PROVE TidyInv
  BY DEF Init, TablesInit, SndInit, IdleSnd, TidyInv, InPhase, OnceEach

\* Only the start of a run sets its now().
LEMMA KeepsTime ==
  ASSUME TypeOK, NEW s \in Senders, SndStep(s, Waits) \/ AbortSend(s),
         snd'[s].pc # "idle", ~StartSend(s)
  PROVE  snd'[s].at = snd[s].at /\ snd[s].pc # "idle"
<1>1. CASE SelectOpen(s) \/ SelectDigest(s)
  <2>1. snd[s].pc = "select" /\ (snd'[s] = IdleSnd \/ GoesOn(s))
    BY <1>1, SelectFields, Zenon
  <2> QED BY <2>1 DEF GoesOn, IdleSnd
<1>2. CASE Skip(s) \/ PersistDigest(s) \/ Deliver(s) \/ DeliverDigest(s)
  <2>1. GoesOn(s) /\ (snd[s].pc = "loop" \/ snd[s].pc = "persist")
    BY <1>2, SkipFields, PersistFields, DeliverFields, DigestFields, Zenon
    DEF InLoop
  <2> QED BY <2>1 DEF GoesOn
<1>3. CASE RecordSuccess(s) \/ RecordFailure(s) \/ DeadlockSend(s, Waits)
  <2>1. GoesOn(s) /\ snd[s].pc \in {"record", "undo"}
    BY <1>3, RecordFields, DeadlockFields
  <2> QED BY <2>1 DEF GoesOn
<1>4. CASE FailDigest(s) \/ CommitSend(s) \/ AbortSend(s)
  BY <1>4, EndFields DEF IdleSnd
<1> QED
  BY <1>1, <1>2, <1>3, <1>4, Zenon DEF SndStep, DeadlockDigest

-----------------------------------------------------------------------------
(* The cooldown.                                                           *)

\* No two runs with the same notifier overlap.  Two that do both pass the
\* cooldown check before either commits, so for them there is no cooldown.
OneSenderEach == \A s, t \in Senders : NotifierOf[s] = NotifierOf[t] => s = t

\* A run began at least the cooldown after what the audit of its notifier
\* says.
Spaced(s) == snd[s].pc # "idle" =>
               \A a \in attempts : a.by = NotifierOf[s] =>
                 a.at < snd[s].at /\ a.at + Cooldown <= snd[s].at

SpacingInv == CooldownSpacing /\ \A s \in Senders : Spaced(s)

\* A run that starts is not in the cooldown.
LEMMA SpacedAtStart ==
  ASSUME TypeOK, TidyInv, NEW s \in Senders, StartSend(s)
  PROVE  Spaced(s)'
<1>0. clock \in Nat /\ Cooldown \in Nat
  BY BoundsAssumption, SettingsAssumption DEF TypeOK, TablesTypeOK
<1>1. ~CooldownActive(s) /\ snd'[s].at = clock /\ UNCHANGED attempts
  BY StartFields, Zenon
<1>2. ASSUME NEW a \in attempts, a.by = NotifierOf[s]
      PROVE  a.at < clock /\ a.at + Cooldown <= clock
  <2>1. a.at \in Nat /\ a.at < clock
    BY DEF TidyInv, TypeOK, TablesTypeOK, Attempt
  <2>2. ~(Cooldown > 0) \/ ~(a.at + Cooldown > clock)
    BY <1>1, <1>2 DEF CooldownActive
  <2> QED BY <1>0, <2>1, <2>2
<1> QED BY <1>1, <1>2 DEF Spaced

LEMMA SpacingStep ==
  ASSUME OneSenderEach, TypeOK, TidyInv, SpacingInv, [Next]_vars
  PROVE  SpacingInv'
<1>0. Cooldown \in Nat
  BY SettingsAssumption
<1>1. CASE UNCHANGED << attempts, pending, snd, delivered >>
  BY <1>1 DEF SpacingInv, Spaced, CooldownSpacing
<1>2. ASSUME NEW s \in Senders, SndStep(s, Waits) \/ AbortSend(s)
      PROVE  SpacingInv'
  <2>0. /\ InPhase(s) /\ OnceEach(s) /\ Spaced(s) /\ CooldownSpacing
        /\ snd[s].at \in Nat
    BY DEF TidyInv, SpacingInv, TypeOK, SndTypeOK, SndState
  <2>1. \A a \in attempts' : a \notin attempts =>
          /\ a.by = NotifierOf[s] /\ a.at = snd[s].at /\ snd[s].pc # "idle"
          /\ snd'[s] = IdleSnd
    BY <1>2, <2>0, AuditGrows
  <2>2. ASSUME NEW t \in Senders, t # s PROVE Spaced(t)'
    <3>1. snd'[t] = snd[t] /\ Spaced(t)
      BY <1>2, <2>2, OtherSenders DEF SpacingInv
    <3>2. NotifierOf[t] # NotifierOf[s]
      BY <2>2 DEF OneSenderEach
    <3> QED BY <2>1, <3>1, <3>2 DEF Spaced
  <2>3. Spaced(s)'
    <3>1. CASE snd'[s].pc = "idle"
      BY <3>1 DEF Spaced
    <3>2. CASE StartSend(s)
      BY <3>2, SpacedAtStart
    <3>3. CASE snd'[s].pc # "idle" /\ ~StartSend(s)
      <4>1. snd'[s].at = snd[s].at /\ snd[s].pc # "idle"
        BY <1>2, <3>3, KeepsTime
      <4>2. attempts' \subseteq attempts
        BY <2>1, <3>3 DEF IdleSnd
      <4> QED BY <2>0, <4>1, <4>2 DEF Spaced
    <3> QED BY <3>1, <3>2, <3>3
  <2>4. ASSUME NEW a \in attempts', NEW b \in attempts',
               a.by = b.by, a.at < b.at
        PROVE  a.at + Cooldown <= b.at
    <3>1. CASE a \in attempts /\ b \in attempts
      BY <2>0, <2>4, <3>1 DEF CooldownSpacing
    <3>2. CASE a \in attempts /\ b \notin attempts
      BY <2>0, <2>1, <2>4, <3>2 DEF Spaced
    <3>3. CASE a \notin attempts /\ b \in attempts
      <4>1. a.at = snd[s].at /\ b.at < snd[s].at /\ b.at \in Nat
        BY <2>0, <2>1, <2>4, <3>3
        DEF Spaced, TypeOK, TablesTypeOK, Attempt
      <4> QED BY <2>0, <2>4, <4>1
    <3>4. CASE a \notin attempts /\ b \notin attempts
      BY <2>0, <2>1, <2>4, <3>4
    <3> QED BY <3>1, <3>2, <3>3, <3>4
  <2> QED BY <2>2, <2>3, <2>4 DEF SpacingInv, CooldownSpacing
<1> QED BY <1>1, <1>2, SenderStep

LEMMA TidyInvariant == Spec => [](TypeOK /\ TidyInv)
<1> QED BY TypeInit, TypeStep, TidyInit, TidyStep, PTL DEF Spec

-----------------------------------------------------------------------------
(* The back-off.                                                           *)

\* The premises: no two runs with the same notifier overlap, no run sends
\* digests, which ask for no back-off, and it is not switched off.
BackoffApplies ==
  OneSenderEach /\ (\A mode \in Modes : ~mode.digest) /\ ~RetryDisabled

\* Failure f whose retry_after has not come.
ToRetry(f) == f.status = "failed" /\ f.retry > clock

\* A skip row of A, later than f, about what f is about.
SkippedSince(f, A) ==
  \E a \in A : /\ a.status = "skipped" /\ a.inc = f.inc /\ a.by = f.by
               /\ f.at < a.at

\* The same, and not later than "at".
SkippedBy(f, A, at) ==
  \E a \in A : /\ a.status = "skipped" /\ a.inc = f.inc /\ a.by = f.by
               /\ f.at < a.at /\ a.at <= at

\* What follows a failure still to be retried, in the audit, is a skip row or
\* has one before it.
BackoffInAudit ==
  \A f, b \in attempts :
    ToRetry(f) /\ b.inc = f.inc /\ b.by = f.by /\ f.at < b.at
      => SkippedBy(f, attempts, b.at)

\* So it is with what run s is about to commit, and with what it has sent or
\* tried to.
BackoffInRun(s) ==
  /\ \A f \in attempts, b \in pending[s] :
       ToRetry(f) /\ b.inc = f.inc /\ b.by = f.by
         => SkippedBy(f, attempts \cup pending[s], b.at)
  /\ snd[s].pc \in {"record", "undo"} =>
       \A f \in attempts, e \in snd[s].cur :
         ToRetry(f) /\ e.inc = f.inc /\ f.by = NotifierOf[s]
           => SkippedSince(f, attempts)
  /\ snd[s].pc # "idle" =>
       \A d \in delivered : d.by = NotifierOf[s] => d.at <= snd[s].at

BackoffInv == /\ BackoffUnlessSkipped /\ BackoffInAudit
              /\ \A d \in delivered : d.at < clock
              /\ \A s \in Senders : BackoffInRun(s)

\* The loop sends an item past a failure still to be retried only if some
\* later row is the last attempt.
LEMMA SentPast ==
  ASSUME BackoffApplies, TypeOK, BackoffInAudit,
         NEW s \in Senders, OnceEach(s),
         NEW e \in snd[s].todo, SkipReason(s, e) = "none",
         NEW f \in attempts, ToRetry(f), e.inc = f.inc, f.by = NotifierOf[s]
  PROVE  SkippedSince(f, attempts)
<1>1. ~InBackoff(s, e.inc)
  BY DEF BackoffApplies, SkipReason
<1>2. f \in Visible(s, e.inc)
  BY DEF Visible
<1>3. f \notin LastAttempt(s, e.inc)
  BY <1>1 DEF InBackoff, ToRetry
<1>4. PICK b \in Visible(s, e.inc) : ~(b.at <= f.at)
  BY <1>2, <1>3 DEF LastAttempt
<1>5. b \in attempts /\ b.inc = f.inc /\ b.by = f.by
  BY <1>4 DEF Visible, OnceEach
<1>6. f.at \in Nat /\ b.at \in Nat
  BY <1>5 DEF TypeOK, TablesTypeOK, Attempt
<1>7. SkippedBy(f, attempts, b.at)
  BY <1>4, <1>5, <1>6 DEF BackoffInAudit
<1> QED BY <1>7 DEF SkippedBy, SkippedSince

LEMMA RetryLater ==
  ASSUME TypeOK, [Next]_vars, NEW f \in attempts, ToRetry(f)'
  PROVE  ToRetry(f)
<1>1. clock \in Nat /\ clock <= clock' /\ clock' \in Nat
  BY ClockStep, TypeStep, BoundsAssumption DEF TypeOK, TablesTypeOK
<1>2. f.retry \in Nat
  BY DEF TypeOK, TablesTypeOK, Attempt
<1> QED BY <1>1, <1>2 DEF ToRetry

\* What a step of run s hands to a notifier.
LEMMA Handed ==
  ASSUME TypeOK, NEW s \in Senders, SndStep(s, Waits) \/ AbortSend(s),
         NEW d \in delivered', d \notin delivered
  PROVE  /\ d.by = NotifierOf[s] /\ d.at = snd[s].at /\ snd[s].pc # "idle"
         /\ d.time = clock /\ UNCHANGED clock
<1>1. Deliver(s) \/ DeliverDigest(s) \/ FailDigest(s)
  BY Zenon
  DEF SndStep, StartSend, SelectOpen, SelectDigest, Skip, RecordSuccess,
         RecordFailure, PersistDigest, CommitSend, DeadlockSend,
         DeadlockDigest, AbortSend
<1>2. /\ snd[s].pc = "loop" /\ UNCHANGED clock
      /\ \E E : d \in Sent(s, E)
  BY <1>1, DeliverFields, DigestFields, EndFields, Zenon
  DEF GoesOn, InLoop
<1> QED BY <1>2 DEF Sent

\* A step of another run, or of none.
LEMMA BackoffOthers ==
  ASSUME TypeOK, TidyInv, BackoffInv, [Next]_vars, NEW t \in Senders,
         snd'[t] = snd[t], pending'[t] = pending[t],
         \A a \in attempts' : a \in attempts \/ a.by # NotifierOf[t],
         \A d \in delivered' : d \in delivered \/ d.by # NotifierOf[t]
  PROVE  BackoffInRun(t)'
<1>0. BackoffInRun(t) /\ OnceEach(t) /\ attempts \subseteq attempts'
  BY OwnGrows DEF BackoffInv, TidyInv
<1>1. ASSUME NEW f \in attempts', NEW b \in pending[t], ToRetry(f)',
             b.inc = f.inc, b.by = f.by
      PROVE  SkippedBy(f, attempts' \cup pending[t], b.at)
  <2>1. f \in attempts
    BY <1>0, <1>1 DEF OnceEach
  <2>2. SkippedBy(f, attempts \cup pending[t], b.at)
    BY <1>0, <1>1, <2>1, RetryLater DEF BackoffInRun
  <2> QED BY <1>0, <2>2 DEF SkippedBy
<1>2. ASSUME snd[t].pc \in {"record", "undo"}, NEW f \in attempts',
             NEW e \in snd[t].cur, ToRetry(f)', e.inc = f.inc,
             f.by = NotifierOf[t]
      PROVE  SkippedSince(f, attempts')
  <2>1. f \in attempts
    BY <1>2
  <2>2. SkippedSince(f, attempts)
    BY <1>0, <1>2, <2>1, RetryLater DEF BackoffInRun
  <2> QED BY <1>0, <2>2 DEF SkippedSince
<1>3. snd[t].pc # "idle" =>
        \A d \in delivered' : d.by = NotifierOf[t] => d.at <= snd[t].at
  BY <1>0 DEF BackoffInRun
<1> QED
  BY <1>1, <1>2, <1>3 DEF BackoffInRun

\* A row that run s adds is a skip row, or about an item that was sent.
LEMMA BackoffAdded ==
  ASSUME TypeOK, [Next]_vars, NEW s \in Senders, Spaced(s), BackoffInRun(s),
         OnceEach(s), snd[s].pc # "idle", UNCHANGED attempts,
         NEW e, NEW a, Adds(s, e, a),
         \/ a.status = "skipped"
         \/ \A f \in attempts :
              ToRetry(f) /\ e.inc = f.inc /\ f.by = NotifierOf[s]
                => SkippedSince(f, attempts),
         NEW f \in attempts, NEW b \in pending'[s], ToRetry(f)',
         b.inc = f.inc, b.by = f.by
  PROVE  SkippedBy(f, attempts \cup pending'[s], b.at)
<1>1. pending'[s] = pending[s] \cup {a}
  BY DEF Adds, TypeOK, TablesTypeOK
<1>2. /\ a.inc = e.inc /\ a.by = NotifierOf[s] /\ a.at = snd[s].at
  BY DEF Adds
<1>3. ToRetry(f)
  BY RetryLater
<1>4. CASE b \in pending[s]
  <2>1. SkippedBy(f, attempts \cup pending[s], b.at)
    BY <1>3, <1>4 DEF BackoffInRun
  <2> QED BY <1>1, <2>1 DEF SkippedBy
<1>5. CASE b = a
  <2>1. f.by = NotifierOf[s] /\ f.inc = e.inc
    BY <1>2, <1>5
  <2>2. \A w \in attempts : w.by = NotifierOf[s] => w.at < snd[s].at
    BY DEF Spaced
  <2>3. snd[s].at \in Nat
    BY DEF TypeOK, SndTypeOK, SndState
  <2>4. CASE a.status = "skipped"
    BY <1>1, <1>2, <1>5, <2>1, <2>2, <2>3, <2>4 DEF SkippedBy
  <2>5. CASE SkippedSince(f, attempts)
    <3>1. PICK w \in attempts : /\ w.status = "skipped" /\ w.inc = f.inc
                                /\ w.by = f.by /\ f.at < w.at
      BY <2>5 DEF SkippedSince
    <3>2. w.at \in Nat /\ w.at < snd[s].at
      BY <2>1, <2>2, <3>1 DEF TypeOK, TablesTypeOK, Attempt
    <3> QED BY <1>2, <1>5, <2>3, <3>1, <3>2 DEF SkippedBy
  <2> QED BY <1>3, <2>1, <2>4, <2>5
<1> QED BY <1>1, <1>4, <1>5

\* A run without items recorded and without an item sent.
LEMMA BackoffOwn ==
  ASSUME BackoffApplies, TypeOK, TidyInv, SpacingInv, BackoffInv, [Next]_vars,
         NEW s \in Senders, SndStep(s, Waits) \/ AbortSend(s)
  PROVE  BackoffInRun(s)'
<1>0. /\ BackoffInRun(s) /\ OnceEach(s) /\ InPhase(s) /\ Spaced(s)
      /\ BackoffInAudit /\ \A d \in delivered : d.at < clock
  BY DEF BackoffInv, TidyInv, SpacingInv
<1>1. \A d \in delivered : d.at \in Nat
  BY DEF TypeOK, SndTypeOK, Delivery
<1>2. snd[s].at \in Nat /\ clock \in Nat
  BY BoundsAssumption DEF TypeOK, TablesTypeOK, SndTypeOK, SndState
<1>3. CASE StartSend(s)
  <2>1. /\ snd[s].pc = "idle" /\ snd'[s].pc = "select" /\ snd'[s].at = clock
        /\ UNCHANGED << pending, delivered >>
    BY <1>3, StartFields, Zenon
  <2>2. pending'[s] = {}
    BY <1>0, <2>1 DEF InPhase
  <2>3. \A d \in delivered' : d.at <= snd'[s].at
    BY <1>0, <1>1, <1>2, <2>1
  <2> QED BY <2>1, <2>2, <2>3 DEF BackoffInRun
<1>4. CASE SelectOpen(s) \/ SelectDigest(s)
  <2>1. /\ snd[s].pc = "select" /\ UNCHANGED << tableVars, delivered >>
        /\ \/ snd'[s] = IdleSnd
           \/ GoesOn(s) /\ snd'[s].pc = "loop"
    BY <1>4, SelectFields, Zenon
  <2>2. pending'[s] = {}
    BY <1>0, <2>1 DEF InPhase, tableVars
  <2>3. CASE snd'[s] = IdleSnd
    BY <2>2, <2>3 DEF BackoffInRun, IdleSnd
  <2>4. CASE GoesOn(s) /\ snd'[s].pc = "loop"
    BY <1>0, <2>1, <2>2, <2>4 DEF BackoffInRun, GoesOn
  <2> QED BY <2>1, <2>3, <2>4
<1>5. CASE Skip(s)
  <2>1. PICK e \in snd[s].todo : \E a :
          /\ InLoop(s) /\ Adds(s, e, a) /\ a.status = "skipped" /\ GoesOn(s)
          /\ snd'[s].pc = snd[s].pc /\ UNCHANGED delivered
    BY <1>5, SkipFields, Zenon
  <2>2. PICK a : /\ InLoop(s) /\ Adds(s, e, a) /\ a.status = "skipped"
                 /\ GoesOn(s) /\ snd'[s].pc = snd[s].pc /\ UNCHANGED delivered
    BY <2>1, Zenon
  <2>3. snd[s].pc = "loop" /\ UNCHANGED attempts /\ snd'[s].at = snd[s].at
    BY <2>2 DEF InLoop, GoesOn
  <2>4. \A f \in attempts', b \in pending'[s] :
          ToRetry(f)' /\ b.inc = f.inc /\ b.by = f.by
            => SkippedBy(f, attempts' \cup pending'[s], b.at)
    BY <1>0, <2>2, <2>3, BackoffAdded
  <2> QED BY <1>0, <2>2, <2>3, <2>4 DEF BackoffInRun
<1>6. CASE RecordSuccess(s) \/ RecordFailure(s)
  <2>1. PICK e \in snd[s].cur : \E a :
          /\ snd[s].pc \in {"record", "undo"} /\ Adds(s, e, a) /\ GoesOn(s)
          /\ snd'[s].pc = "loop" /\ UNCHANGED delivered
    BY <1>6, RecordFields, Zenon
  <2>2. PICK a : /\ snd[s].pc \in {"record", "undo"} /\ Adds(s, e, a)
                 /\ GoesOn(s) /\ snd'[s].pc = "loop" /\ UNCHANGED delivered
    BY <2>1, Zenon
  <2>3. snd[s].pc # "idle" /\ UNCHANGED attempts /\ snd'[s].at = snd[s].at
    BY <2>2 DEF GoesOn
  <2>4. \A f \in attempts :
          ToRetry(f) /\ e.inc = f.inc /\ f.by = NotifierOf[s]
            => SkippedSince(f, attempts)
    BY <1>0, <2>2 DEF BackoffInRun
  <2>5. \A f \in attempts', b \in pending'[s] :
          ToRetry(f)' /\ b.inc = f.inc /\ b.by = f.by
            => SkippedBy(f, attempts' \cup pending'[s], b.at)
    BY <1>0, <2>2, <2>3, <2>4, BackoffAdded
  <2> QED BY <1>0, <2>2, <2>3, <2>5 DEF BackoffInRun
<1>7. CASE Deliver(s)
  <2>1. PICK e \in snd[s].todo :
          /\ InLoop(s) /\ SkipReason(s, e) = "none" /\ GoesOn(s)
          /\ snd'[s].cur = {e} /\ UNCHANGED pending
    BY <1>7, DeliverFields, Zenon
  <2>2. /\ snd[s].pc = "loop" /\ UNCHANGED << attempts, clock >>
        /\ snd'[s].at = snd[s].at
    BY <2>1 DEF InLoop, GoesOn
  <2>3. \A f \in attempts :
          ToRetry(f) /\ e.inc = f.inc /\ f.by = NotifierOf[s]
            => SkippedSince(f, attempts)
    BY <1>0, <2>1, SentPast
  <2>4. \A f \in attempts : ToRetry(f)' => ToRetry(f)
    BY RetryLater
  <2>5. \A d \in delivered' : d.by = NotifierOf[s] => d.at <= snd'[s].at
    BY <1>0, <1>2, <1>7, <2>2, Handed DEF BackoffInRun, SndStep
  <2>6. \A f \in attempts', b \in pending'[s] :
          ToRetry(f)' /\ b.inc = f.inc /\ b.by = f.by
            => SkippedBy(f, attempts' \cup pending'[s], b.at)
    BY <1>0, <2>1, <2>2, <2>4 DEF BackoffInRun
  <2> QED BY <2>1, <2>2, <2>3, <2>4, <2>5, <2>6 DEF BackoffInRun
<1>8. CASE DeadlockSend(s, Waits)
  <2>1. /\ snd[s].pc = "record" /\ snd'[s].pc = "undo" /\ GoesOn(s)
        /\ snd'[s].cur = snd[s].cur /\ UNCHANGED << pending, delivered >>
    BY <1>8, DeadlockFields, Zenon
  <2>2. \A f \in attempts : ToRetry(f)' => ToRetry(f)
    BY RetryLater
  <2> QED BY <1>0, <2>1, <2>2 DEF BackoffInRun, GoesOn
<1>9. CASE CommitSend(s) \/ AbortSend(s)
  <2>1. snd'[s] = IdleSnd /\ pending' = [pending EXCEPT ![s] = {}]
    BY <1>9 DEF CommitSend, AbortSend, TypeOK, SndTypeOK
  <2>2. pending'[s] = {}
    BY <2>1 DEF TypeOK, TablesTypeOK
  <2> QED BY <2>1, <2>2 DEF BackoffInRun, IdleSnd
<1>10. ~DeliverDigest(s) /\ ~FailDigest(s) /\ ~PersistDigest(s)
  BY <1>0 DEF DeliverDigest, FailDigest, PersistDigest, InPhase, BackoffApplies
<1> QED
  BY <1>3, <1>4, <1>5, <1>6, <1>7, <1>8, <1>9, <1>10, Zenon
  DEF SndStep, DeadlockDigest

\* The failures and sends of the audit after a step.
LEMMA BackoffAudit ==
  ASSUME BackoffApplies, TypeOK, TidyInv, SpacingInv, BackoffInv, [Next]_vars,
         NEW s \in Senders, SndStep(s, Waits) \/ AbortSend(s)
  PROVE  BackoffInAudit' /\ BackoffUnlessSkipped'
<1>0. /\ BackoffInRun(s) /\ OnceEach(s) /\ InPhase(s) /\ Spaced(s)
      /\ BackoffInAudit /\ BackoffUnlessSkipped
  BY DEF BackoffInv, TidyInv, SpacingInv
<1>1. snd[s].at \in Nat /\ \A a \in attempts : a.at \in Nat
  BY DEF TypeOK, TablesTypeOK, SndTypeOK, SndState, Attempt
<1>2. attempts \subseteq attempts'
  BY OwnGrows
<1>3. \A a \in attempts' : a \notin attempts =>
        /\ a \in pending[s] /\ a.by = NotifierOf[s] /\ a.at = snd[s].at
        /\ snd[s].pc # "idle"
  BY <1>0, AuditGrows DEF BackoffApplies, InPhase
<1>4. ASSUME NEW a \in attempts', a \notin attempts
      PROVE  attempts' = attempts \cup pending[s] /\ UNCHANGED delivered
  <2>1. CommitSend(s)
    BY <1>0, <1>4, Zenon
    DEF SndStep, StartSend, SelectOpen, SelectDigest, Skip, Deliver,
        RecordSuccess, RecordFailure, DeliverDigest, PersistDigest, FailDigest,
        DeadlockSend, DeadlockDigest, AbortSend, tableVars, BackoffApplies,
        InPhase
  <2> QED BY <2>1 DEF CommitSend
<1>5. ASSUME NEW f \in attempts', NEW b \in attempts', ToRetry(f)',
             b.inc = f.inc, b.by = f.by, f.at < b.at
      PROVE  SkippedBy(f, attempts', b.at)
  <2>1. CASE f \notin attempts
    <3>1. f.by = NotifierOf[s] /\ f.at = snd[s].at /\ snd[s].pc # "idle"
      BY <1>3, <2>1
    <3>2. b.at <= snd[s].at
      BY <1>0, <1>1, <1>3, <1>5, <3>1 DEF Spaced
    <3>3. b.at \in Nat
      BY <1>1, <1>3
    <3> QED BY <1>1, <1>5, <3>1, <3>2, <3>3
  <2>2. CASE f \in attempts /\ b \in attempts
    BY <1>0, <1>2, <1>5, <2>2, RetryLater DEF BackoffInAudit, SkippedBy
  <2>3. CASE f \in attempts /\ b \notin attempts
    BY <1>0, <1>3, <1>4, <1>5, <2>3, RetryLater DEF BackoffInRun
  <2> QED BY <2>1, <2>2, <2>3
<1>6. ASSUME NEW f \in attempts', NEW d \in delivered', f.status = "failed",
             f.inc = d.inc, f.by = d.by, f.at < d.at, d.time < f.retry
      PROVE  \E a \in attempts' : /\ a.status = "skipped" /\ a.inc = f.inc
                                  /\ a.by = f.by /\ f.at < a.at /\ a.at < d.at
  <2>1. CASE f \notin attempts
    <3>1. /\ f.by = NotifierOf[s] /\ f.at = snd[s].at /\ snd[s].pc # "idle"
          /\ d \in delivered
      BY <1>3, <1>4, <2>1
    <3>2. d.at <= snd[s].at /\ d.at \in Nat
      BY <1>0, <1>6, <3>1 DEF BackoffInRun, TypeOK, SndTypeOK, Delivery
    <3> QED BY <1>1, <1>6, <3>1, <3>2
  <2>2. CASE f \in attempts /\ d \in delivered
    BY <1>0, <1>2, <1>6, <2>2 DEF BackoffUnlessSkipped
  <2>3. CASE f \in attempts /\ d \notin delivered
    <3>1. /\ d.by = NotifierOf[s] /\ d.at = snd[s].at /\ d.time = clock
          /\ snd[s].pc # "idle"
      BY <2>3, Handed
    <3>2. Deliver(s)
      BY <1>0, <2>3, Zenon
      DEF SndStep, StartSend, SelectOpen, SelectDigest, Skip, RecordSuccess,
          RecordFailure, DeliverDigest, PersistDigest, FailDigest, CommitSend,
          DeadlockSend, DeadlockDigest, AbortSend, BackoffApplies, InPhase
    <3>3. PICK e \in snd[s].todo :
            SkipReason(s, e) = "none" /\ d \in Sent(s, {e})
      BY <2>3, <3>2, DeliverFields, Zenon
    <3>4. d.inc = e.inc
      BY <3>3 DEF Sent
    <3>5. ToRetry(f)
      BY <1>6, <3>1 DEF ToRetry
    <3>6. SkippedSince(f, attempts)
      BY <1>0, <1>6, <2>3, <3>1, <3>3, <3>4, <3>5, SentPast
    <3> QED BY <1>0, <1>2, <1>6, <3>1, <3>6 DEF SkippedSince, Spaced
  <2> QED BY <2>1, <2>2, <2>3
<1> QED BY <1>5, <1>6 DEF BackoffInAudit, BackoffUnlessSkipped

LEMMA BackoffStep ==
  ASSUME BackoffApplies, TypeOK, TidyInv, SpacingInv, BackoffInv, [Next]_vars
  PROVE  BackoffInv'
<1>0. clock \in Nat /\ clock <= clock' /\ clock' \in Nat
  BY ClockStep, TypeStep, BoundsAssumption DEF TypeOK, TablesTypeOK
<1>1. \A d \in delivered : d.at < clock'
  BY <1>0 DEF BackoffInv, TypeOK, SndTypeOK, Delivery
<1>2. CASE UNCHANGED << attempts, pending, snd, delivered >>
  <2>1. BackoffInAudit'
    BY <1>2, RetryLater DEF BackoffInv, BackoffInAudit
  <2>2. \A t \in Senders : BackoffInRun(t)'
    BY <1>2, BackoffOthers
  <2> QED BY <1>1, <1>2, <2>1, <2>2 DEF BackoffInv, BackoffUnlessSkipped
<1>3. ASSUME NEW s \in Senders, SndStep(s, Waits) \/ AbortSend(s)
      PROVE  BackoffInv'
  <2>1. BackoffInRun(s)' /\ BackoffInAudit' /\ BackoffUnlessSkipped'
    BY <1>3, BackoffOwn, BackoffAudit
  <2>2. InPhase(s) /\ OnceEach(s)
    BY DEF TidyInv
  <2>3. ASSUME NEW t \in Senders, t # s PROVE BackoffInRun(t)'
    <3>1. NotifierOf[t] # NotifierOf[s]
      BY <2>3 DEF BackoffApplies, OneSenderEach
    <3>2. snd'[t] = snd[t] /\ pending'[t] = pending[t]
      BY <1>3, <2>3, OtherSenders, AttemptStep
    <3>3. \A a \in attempts' : a \in attempts \/ a.by # NotifierOf[t]
      BY <1>3, <2>2, <3>1, AuditGrows
    <3>4. \A d \in delivered' : d \in delivered \/ d.by # NotifierOf[t]
      BY <1>3, <3>1, Handed
    <3> QED BY <3>2, <3>3, <3>4, BackoffOthers
  <2>4. \A d \in delivered' : d.at < clock'
    BY <1>1, <1>3, <2>2, Handed DEF InPhase
  <2> QED BY <2>1, <2>3, <2>4 DEF BackoffInv
<1> QED BY <1>2, <1>3, SenderStep

LEMMA SpacingInvariant ==
  ASSUME OneSenderEach PROVE Spec => [](TypeOK /\ TidyInv /\ SpacingInv)
<1>1. ASSUME Init PROVE SpacingInv
  BY <1>1 DEF Init, TablesInit, SndInit, IdleSnd, SpacingInv, Spaced,
              CooldownSpacing
<1>2. ASSUME TypeOK, TidyInv, SpacingInv, [Next]_vars PROVE SpacingInv'
  BY <1>2, SpacingStep
<1> QED
  BY <1>1, <1>2, TidyInvariant, PTL DEF Spec

\* Runs that leave an audit row are the cooldown apart, whatever the rows say
\* and however the runs end, as long as no two runs of a notifier overlap.
THEOREM CooldownKept == ASSUME OneSenderEach PROVE Spec => []CooldownSpacing
<1>1. ASSUME SpacingInv PROVE CooldownSpacing
  BY <1>1 DEF SpacingInv
<1> QED
  BY <1>1, SpacingInvariant, PTL

\* A failed attempt is retried before its retry_after only past a skip row
\* that a run has left in between.
THEOREM BackoffKept == ASSUME BackoffApplies PROVE Spec => []BackoffUnlessSkipped
<1>1. ASSUME Init PROVE BackoffInv
  BY <1>1 DEF Init, TablesInit, SndInit, IdleSnd, BackoffInv,
              BackoffUnlessSkipped, BackoffInAudit, BackoffInRun
<1>2. ASSUME TypeOK, TidyInv, SpacingInv, BackoffInv, [Next]_vars
      PROVE  BackoffInv'
  BY <1>2, BackoffStep
<1>3. ASSUME BackoffInv PROVE BackoffUnlessSkipped
  BY <1>3 DEF BackoffInv
<1>4. OneSenderEach
  BY DEF BackoffApplies
<1>5. Spec => [](TypeOK /\ TidyInv /\ SpacingInv)
  BY <1>4, SpacingInvariant
<1> QED
  BY <1>1, <1>2, <1>3, <1>5, PTL DEF Spec

-----------------------------------------------------------------------------
(* The steps of all processes, row by row.                                 *)

RowKept(i) == /\ incidents'[i] = incidents[i] /\ draft'[i] = draft[i]
              /\ lock'[i] = lock[i]

\* Run m refreshes or resolves row i, or inserts it.
RowRefreshed(i, m) ==
  /\ lock[i] \in {Nobody, m} /\ lock'[i] = m /\ incidents'[i] = incidents[i]
  /\ draft'[i].marks = draft[i].marks
  /\ draft'[i].seen \in {draft[i].seen, mat[m].at}

RowInserted(i, m) ==
  /\ incidents[i].status = "none" /\ lock'[i] = m /\ incidents'[i] = incidents[i]
  /\ draft'[i].marks = NoRow.marks /\ draft'[i].seen = mat[m].at

\* Run s writes notification_state.
RowMarked(i, s) ==
  /\ \E e \in Items(s) : e.inc = i
  /\ lock[i] \in {Nobody, s} /\ lock'[i] = s /\ incidents'[i] = incidents[i]
  /\ draft'[i].seen = draft[i].seen

\* An operator sets the status.
RowEdited(i) ==
  /\ lock[i] = Nobody /\ lock'[i] = Nobody
  /\ incidents'[i].marks = incidents[i].marks /\ incidents'[i].seen = incidents[i].seen
  /\ draft'[i].marks = draft[i].marks /\ draft'[i].seen = draft[i].seen

\* Process p ends its transaction, with or without a commit.
RowCommitted(i, p) == /\ lock[i] = p /\ lock'[i] = Nobody
                      /\ incidents'[i] = draft[i] /\ draft'[i] = draft[i]

RowUndone(i, p) == /\ lock[i] = p /\ lock'[i] = Nobody
                   /\ incidents'[i] = incidents[i] /\ draft'[i] = incidents[i]

\* Whose step it is.
LEMMA Actors ==
  ASSUME [Next]_vars
  PROVE  \/ \E m \in Materializers : /\ MatStep(m, Waits) \/ AbortMaterialize(m)
                                    /\ UNCHANGED senderVars
         \/ \E s \in Senders : (SndStep(s, Waits) \/ AbortSend(s)) /\ UNCHANGED mat
         \/ EditStep /\ UNCHANGED mat /\ UNCHANGED senderVars
         \/ /\ UNCHANGED << committed, draft, lock, attempts, pending, mat >>
            /\ UNCHANGED senderVars
  BY Zenon DEF Next, Materialize, Send, Crash, Operator, EditStep, Elapse, Tick,
               vars, senderVars, tableVars

LEMMA CommittedRow ==
  ASSUME NEW p, CommitRows(p), NEW i \in Incident
  PROVE  RowCommitted(i, p) \/ (lock[i] # p /\ RowKept(i))
  BY DEF CommitRows, Released, RowCommitted, RowKept

LEMMA UndoneRow ==
  ASSUME NEW p, RollbackRows(p), NEW i \in Incident
  PROVE  RowUndone(i, p) \/ (lock[i] # p /\ RowKept(i))
  BY DEF RollbackRows, Released, committed, RowUndone, RowKept

LEMMA EditedRow ==
  ASSUME TypeOK, EditStep, NEW i \in Incident
  PROVE  UNCHANGED << attempts, pending >> /\ (RowKept(i) \/ RowEdited(i))
<1>1. PICK j, status : j \in Incident /\ SetStatus(j, status)
  BY DEF EditStep, Acknowledge, CloseByHand
<1> QED
  BY <1>1 DEF SetStatus, RowKept, RowEdited, TypeOK, TablesTypeOK, Row

LEMMA UpsertedRow ==
  ASSUME TypeOK, RowInv, NEW m \in Materializers, Upsert(m), NEW i \in Incident
  PROVE  RowKept(i) \/ RowRefreshed(i, m) \/ RowInserted(i, m)
<1>0. /\ draft \in [Incident -> Row] /\ lock \in [Incident -> Procs \cup {Nobody}]
      /\ incidents \in [Incident -> Row]
  BY DEF TypeOK, TablesTypeOK
<1>1. PICK fp \in Fingerprints : fp = Head(mat[m].todo)
  <2>1. mat[m].todo \in Seq(Fingerprints) /\ mat[m].todo # << >>
    BY DEF Upsert, TypeOK, MatTypeOK, MatState
  <2> QED BY <2>1, HeadTailProperties
<1>2. /\ UpsertBlockers(m, fp) = {} /\ UNCHANGED committed
      /\ \E g \in 1..MaxIncidents : Refresh(m, fp, g) \/ Insert(m, fp, g)
  BY <1>1, Zenon DEF Upsert
<1>3. PICK g \in 1..MaxIncidents : Refresh(m, fp, g) \/ Insert(m, fp, g)
  BY <1>2
<1>4. PICK j \in Incident : j = << fp, g >>
  BY DEF Incident
<1>5. UNCHANGED incidents
  BY <1>2 DEF committed
<1>6. CASE Refresh(m, fp, g)
  <2>1. Write(m, j, [draft[j] EXCEPT !.seen = mat[m].at])
    BY <1>4, <1>6, Zenon DEF Refresh
  <2>2. lock[j] \in {Nobody, m}
    <3>1. lock[fp, g] \in {Nobody, m}
      BY <1>2, <1>6, Zenon DEF Refresh, UpsertBlockers
    <3> QED BY <1>4, <3>1, Zenon
  <2>3. /\ draft'[j].marks = draft[j].marks /\ draft'[j].seen = mat[m].at
        /\ lock'[j] = m
    BY <1>0, <2>1 DEF Write, Row
  <2>4. i # j => RowKept(i)
    BY <1>0, <1>5, <2>1 DEF Write, RowKept
  <2> QED BY <1>5, <2>2, <2>3, <2>4 DEF RowRefreshed
<1>7. CASE Insert(m, fp, g)
  <2>1. Write(m, j, [NoRow EXCEPT !.status = "open", !.seen = mat[m].at])
    BY <1>4, <1>7, Zenon DEF Insert
  <2>2. /\ draft'[j].marks = NoRow.marks /\ draft'[j].seen = mat[m].at
        /\ lock'[j] = m
    BY <1>0, <2>1 DEF Write, NoRow
  <2>3. incidents[j].status = "none"
    <3>1. \A h \in 1..MaxIncidents : draft[fp, h].status = "none" <=> h >= g
      BY <1>7, Zenon DEF Insert
    <3>2. g >= g
      OBVIOUS
    <3>3. draft[fp, g].status = "none"
      BY <3>1, <3>2, Zenon
    <3>4. draft[j].status = "none"
      BY <1>4, <3>3, Zenon
    <3> QED BY <1>0, <3>4 DEF RowInv, OpenInDraft, AcknowledgedInDraft,
                              ResolvedInDraft, Row, Status
  <2>4. i # j => RowKept(i)
    BY <1>0, <1>5, <2>1 DEF Write, RowKept
  <2> QED BY <1>5, <2>2, <2>3, <2>4 DEF RowInserted
<1> QED BY <1>3, <1>6, <1>7

\* What a step of a materialize run does to a row.
LEMMA MaterializedRow ==
  ASSUME TypeOK, RowInv, NEW m \in Materializers,
         MatStep(m, Waits) \/ AbortMaterialize(m), NEW i \in Incident
  PROVE  /\ UNCHANGED << attempts, pending >>
         /\ \/ RowKept(i) \/ RowRefreshed(i, m) \/ RowInserted(i, m)
            \/ RowUndone(i, m)
            \/ CommitMaterialize(m) /\ RowCommitted(i, m)
<1>1. CASE StartMaterialize(m)
  BY <1>1 DEF StartMaterialize, RowKept, committed
<1>2. CASE Upsert(m)
  BY <1>2, UpsertedRow DEF Upsert
<1>3. CASE Sweep(m)
  <2>1. i \in Missing(m) => /\ lock[i] \in {Nobody, m} /\ lock'[i] = m
                            /\ draft'[i] = [draft[i] EXCEPT !.status = "resolved"]
    BY <1>3 DEF Sweep, SweepBlockers
  <2>2. i \notin Missing(m) => draft'[i] = draft[i] /\ lock'[i] = lock[i]
    BY <1>3 DEF Sweep
  <2>3. UNCHANGED << incidents, attempts, pending >>
    BY <1>3 DEF Sweep, committed
  <2>4. draft[i] \in Row
    BY DEF TypeOK, TablesTypeOK
  <2> QED BY <2>1, <2>2, <2>3, <2>4 DEF RowKept, RowRefreshed, Row
<1>4. CASE CommitMaterialize(m)
  BY <1>4, CommittedRow DEF CommitMaterialize
<1>5. CASE AbortMaterialize(m)
  BY <1>5, UndoneRow DEF AbortMaterialize
<1> QED
  BY <1>1, <1>2, <1>3, <1>4, <1>5, Zenon
  DEF MatStep, DeadlockMaterialize, OutOfRoom

\* What a step of a send run does to a row.
LEMMA SentRow ==
  ASSUME TypeOK, NEW s \in Senders, SndStep(s, Waits) \/ AbortSend(s),
         NEW i \in Incident
  PROVE  \/ RowKept(i) \/ RowMarked(i, s) \/ RowUndone(i, s)
         \/ CommitSend(s) /\ RowCommitted(i, s)
<1>0. /\ draft \in [Incident -> Row] /\ lock \in [Incident -> Procs \cup {Nobody}]
      /\ snd[s] \in SndState
  BY DEF TypeOK, TablesTypeOK, SndTypeOK
<1>1. CASE RecordSuccess(s) \/ PersistDigest(s)
  <2>1. PICK e, marks : e \in Items(s) /\ Mark(s, e, marks) /\ UNCHANGED committed
    BY <1>1 DEF RecordSuccess, PersistDigest, Heads, Items
  <2>2. e.inc \in Incident
    BY <1>0, <2>1 DEF Items, SndState, Item
  <2>3. Free(e.inc, s) /\ Write(s, e.inc, [draft[e.inc] EXCEPT !.marks = marks])
    BY <2>1 DEF Mark
  <2>4. draft'[e.inc].seen = draft[e.inc].seen /\ lock'[e.inc] = s
    BY <1>0, <2>2, <2>3 DEF Write, Row
  <2>5. i # e.inc => RowKept(i)
    BY <1>0, <2>1, <2>2, <2>3 DEF Write, RowKept, committed
  <2> QED BY <2>1, <2>3, <2>4, <2>5 DEF RowMarked, Free, committed
<1>2. CASE CommitSend(s)
  BY <1>2, CommittedRow DEF CommitSend
<1>3. CASE AbortSend(s)
  BY <1>3, UndoneRow DEF AbortSend
<1>4. CASE UNCHANGED << committed, draft, lock >>
  BY <1>4 DEF RowKept, committed
<1> QED
  BY <1>1, <1>2, <1>3, <1>4, Zenon
  DEF SndStep, StartSend, SelectOpen, SelectDigest, Skip, Deliver,
      RecordFailure, DeliverDigest, FailDigest, DeadlockSend, DeadlockDigest,
      tableVars

-----------------------------------------------------------------------------
(* The marks of rows that no sender holds.                                 *)

\* Only senders write marks, and only in rows that are there.
MarksOf(i) ==
  /\ lock[i] \notin Senders => draft[i].marks = incidents[i].marks
  /\ lock[i] \in Senders => incidents[i].status # "none"
  /\ incidents[i].status = "none" => incidents[i].marks = NoRow.marks

MarksInv ==
  /\ \A i \in Incident : MarksOf(i)
  /\ \A s \in Senders : \A e \in Items(s) : incidents[e.inc].status # "none"

LEMMA MarksStep ==
  ASSUME TypeOK, RowInv, ItemsAfterSelect, MarksInv, [Next]_vars
  PROVE  MarksInv'
<1>0. \A m \in Materializers : m \notin Senders /\ m # Nobody
  BY ProcsAssumption DEF Procs
<1>1. Nobody \notin Senders
  BY ProcsAssumption DEF Procs
<1>2. ASSUME NEW i \in Incident, RowKept(i) \/ RowEdited(i) PROVE MarksOf(i)'
  <2>1. MarksOf(i)
    BY DEF MarksInv
  <2>2. incidents'[i].status = "none" => incidents[i].status = "none"
    BY RowsStay
  <2>3. CASE RowKept(i)
    BY <2>1, <2>3 DEF MarksOf, RowKept
  <2>4. CASE RowEdited(i)
    BY <1>1, <2>1, <2>2, <2>4 DEF MarksOf, RowEdited
  <2> QED BY <1>2, <2>3, <2>4
<1>3. ASSUME NEW m \in Materializers, MatStep(m, Waits) \/ AbortMaterialize(m),
             NEW i \in Incident
      PROVE  MarksOf(i)'
  <2>1. MarksOf(i)
    BY DEF MarksInv
  <2>2. incidents'[i].status = "none" => incidents[i].status = "none"
    BY RowsStay
  <2>3. CASE RowRefreshed(i, m) \/ RowInserted(i, m)
    BY <1>0, <1>1, <2>1, <2>3 DEF MarksOf, RowRefreshed, RowInserted
  <2>4. CASE RowUndone(i, m) \/ RowCommitted(i, m)
    BY <1>0, <1>1, <2>1, <2>2, <2>4 DEF MarksOf, RowUndone, RowCommitted
  <2> QED BY <1>2, <1>3, <2>3, <2>4, MaterializedRow
<1>4. ASSUME NEW s \in Senders, SndStep(s, Waits) \/ AbortSend(s),
             NEW i \in Incident
      PROVE  MarksOf(i)'
  <2>1. MarksOf(i)
    BY DEF MarksInv
  <2>2. incidents'[i].status = "none" => incidents[i].status = "none"
    BY RowsStay
  <2>3. CASE RowMarked(i, s)
    BY <2>1, <2>3 DEF MarksOf, RowMarked, MarksInv
  <2>4. CASE RowUndone(i, s) \/ RowCommitted(i, s)
    BY <1>1, <2>1, <2>2, <2>4 DEF MarksOf, RowUndone, RowCommitted
  <2> QED BY <1>2, <1>4, <2>3, <2>4, SentRow
<1>5. \A i \in Incident : MarksOf(i)'
  <2>1. CASE EditStep
    BY <1>2, <2>1, EditedRow
  <2>2. CASE UNCHANGED << committed, draft, lock, attempts, pending, mat >>
    BY <1>2, <2>2 DEF RowKept, committed
  <2> QED BY <1>3, <1>4, <2>1, <2>2, Actors
<1>6. ASSUME NEW s \in Senders, NEW e \in Items(s)'
      PROVE  incidents'[e.inc].status # "none"
  <2>1. e \in Items(s) \/ e \in OpenItems
    BY ItemStep
  <2>2. e.inc \in Incident /\ incidents[e.inc].status # "none"
    <3>1. CASE e \in Items(s)
      BY <3>1 DEF MarksInv, Items, TypeOK, SndTypeOK, SndState, Item
    <3>2. CASE e \in OpenItems
      BY <3>2 DEF OpenItems
    <3> QED BY <2>1, <3>1, <3>2
  <2> QED BY <2>2, RowsStay
<1> QED BY <1>5, <1>6 DEF MarksInv

-----------------------------------------------------------------------------
(* The mark is that of the latest success, while sends do not overlap.     *)

\* No two send runs overlap.  With two, one may put back the whole
\* notification_state that it read before the other marked it.
OneSender == \A s, t \in Senders : s = t

\* The last rows that say that incident i was sent, one at a time.
LatestSends(i) ==
  {a \in attempts : /\ a.inc = i /\ IsSend(a)
                    /\ \A b \in attempts : b.inc = i /\ IsSend(b) => b.at <= a.at}

MarkCurrent(s) ==
  /\ \A a \in attempts : a.by = NotifierOf[s]
  /\ \A i \in Incident : \A a \in LatestSends(i) :
       incidents[i].marks[NotifierOf[s]] = a.seen

\* What the run read is what is committed, since nobody else marks rows.
ItemsCurrent(s) ==
  \A e \in Items(s) :
    e.marks[NotifierOf[s]] = incidents[e.inc].marks[NotifierOf[s]]

\* The rows that run s has marked, and the rows that it has written otherwise.
OwnMarks(s) ==
  /\ \A a \in pending[s] : IsSend(a) =>
       lock[a.inc] = s /\ draft[a.inc].marks[NotifierOf[s]] = a.seen
  /\ \A i \in Incident :
       lock[i] = s /\ (\A a \in pending[s] : IsSend(a) => a.inc # i)
         => draft[i].marks[NotifierOf[s]] = incidents[i].marks[NotifierOf[s]]

LatestInv ==
  /\ Senders = {} => attempts = {}
  /\ \A s \in Senders : MarkCurrent(s) /\ ItemsCurrent(s) /\ OwnMarks(s)

\* Steps of others.
LEMMA LatestOthers ==
  ASSUME TypeOK, NEW s \in Senders,
         MarkCurrent(s), ItemsCurrent(s), OwnMarks(s),
         UNCHANGED << attempts, pending, snd >>,
         \A i \in Incident :
           /\ incidents'[i].marks = incidents[i].marks
           /\ lock[i] = s => draft'[i] = draft[i] /\ lock'[i] = s
           /\ lock'[i] = s => lock[i] = s
  PROVE  MarkCurrent(s)' /\ ItemsCurrent(s)' /\ OwnMarks(s)'
<1>1. \A i \in Incident : LatestSends(i)' = LatestSends(i)
  BY DEF LatestSends
<1>2. MarkCurrent(s)'
  BY <1>1 DEF MarkCurrent
<1>3. \A e \in Items(s) : e.inc \in Incident
  BY DEF Items, TypeOK, SndTypeOK, SndState, Item
<1>4. ItemsCurrent(s)'
  BY <1>3 DEF ItemsCurrent, Items
<1>5. \A a \in pending[s] : a.inc \in Incident
  BY DEF TypeOK, TablesTypeOK, Attempt
<1>6. OwnMarks(s)'
  BY <1>5 DEF OwnMarks
<1> QED BY <1>2, <1>4, <1>6

\* Which steps of a run add to the audit or change a committed row.
LEMMA EndsOnly ==
  ASSUME TypeOK, NEW s \in Senders, SndStep(s, Waits) \/ AbortSend(s),
         ~CommitSend(s)
  PROVE  /\ UNCHANGED incidents
         /\ \/ UNCHANGED attempts
            \/ attempts' = attempts \cup {FailedRow(s, e) : e \in snd[s].todo}
<1>1. CASE FailDigest(s) \/ AbortSend(s)
  BY <1>1, EndFields, Zenon DEF FailDigest, committed
<1>2. CASE ~(FailDigest(s) \/ AbortSend(s))
  BY <1>2, Zenon
  DEF SndStep, StartSend, SelectOpen, SelectDigest, Skip, Deliver,
      RecordSuccess, RecordFailure, DeliverDigest, PersistDigest, DeadlockSend,
      DeadlockDigest, tableVars, committed
<1> QED BY <1>1, <1>2

\* A commit makes the run's successes the latest.
LEMMA MarkCurrentAtCommit ==
  ASSUME TypeOK, NEW s \in Senders, OnceEach(s), Spaced(s), MarkCurrent(s),
         OwnMarks(s), CommitSend(s)
  PROVE  MarkCurrent(s)'
<1>1. /\ attempts' = attempts \cup pending[s] /\ snd[s].pc # "idle"
      /\ CommitRows(s)
  BY DEF CommitSend, InLoop
<1>2. \A a \in pending[s] : a.by = NotifierOf[s] /\ a.at = snd[s].at
  BY DEF OnceEach
<1>3. \A a \in attempts : a.by = NotifierOf[s] /\ a.at < snd[s].at
  BY <1>1 DEF MarkCurrent, Spaced
<1>4. snd[s].at \in Nat /\ \A a \in attempts : a.at \in Nat
  BY DEF TypeOK, TablesTypeOK, SndTypeOK, SndState, Attempt
<1>5. ASSUME NEW i \in Incident, NEW a \in LatestSends(i)'
      PROVE  incidents'[i].marks[NotifierOf[s]] = a.seen
  <2>1. /\ a \in attempts' /\ a.inc = i /\ IsSend(a)
        /\ \A b \in attempts' : b.inc = i /\ IsSend(b) => b.at <= a.at
    BY <1>5 DEF LatestSends, IsSend
  <2>2. /\ lock[i] = s => incidents'[i] = draft[i]
        /\ lock[i] # s => incidents'[i] = incidents[i]
    BY <1>1 DEF CommitRows
  <2>3. CASE a \in pending[s]
    BY <2>1, <2>2, <2>3 DEF OwnMarks
  <2>4. CASE a \notin pending[s]
    <3>1. \A b \in pending[s] : IsSend(b) => b.inc # i
      <4> SUFFICES ASSUME NEW b \in pending[s], IsSend(b), b.inc = i PROVE FALSE
        OBVIOUS
      <4>1. b.at <= a.at /\ b.at = snd[s].at
        BY <1>1, <1>2, <2>1
      <4>2. a.at < snd[s].at /\ a.at \in Nat
        BY <1>1, <1>3, <1>4, <2>1, <2>4
      <4> QED BY <1>4, <4>1, <4>2
    <3>2. a \in LatestSends(i)
      BY <1>1, <2>1, <2>4 DEF LatestSends
    <3>3. incidents[i].marks[NotifierOf[s]] = a.seen
      BY <3>2 DEF MarkCurrent
    <3> QED BY <2>2, <3>1, <3>3 DEF OwnMarks
  <2> QED BY <2>3, <2>4
<1> QED BY <1>1, <1>2, <1>3, <1>5 DEF MarkCurrent

LEMMA MarkCurrentOwn ==
  ASSUME TypeOK, NEW s \in Senders, InPhase(s), OnceEach(s), Spaced(s),
         MarkCurrent(s), OwnMarks(s), SndStep(s, Waits) \/ AbortSend(s)
  PROVE  MarkCurrent(s)'
<1>1. CASE CommitSend(s)
  BY <1>1, MarkCurrentAtCommit
<1>2. CASE ~CommitSend(s)
  <2>1. UNCHANGED incidents
    BY <1>2, EndsOnly
  <2>2. \A a \in attempts' : a \notin attempts =>
          a.by = NotifierOf[s] /\ ~IsSend(a)
    BY <1>2, EndsOnly DEF FailedRow, NewAttempt, IsSend
  <2>3. attempts \subseteq attempts'
    BY <1>2, EndsOnly
  <2>4. \A i \in Incident : LatestSends(i)' \subseteq LatestSends(i)
    BY <2>2, <2>3 DEF LatestSends, IsSend
  <2> QED BY <2>1, <2>2, <2>4 DEF MarkCurrent
<1> QED BY <1>1, <1>2

LEMMA ItemsCurrentOwn ==
  ASSUME TypeOK, ItemsAfterSelect, [Next]_vars, NEW s \in Senders,
         ItemsCurrent(s), SndStep(s, Waits) \/ AbortSend(s)
  PROVE  ItemsCurrent(s)'
<1>1. CASE CommitSend(s)
  <2>1. snd'[s] = IdleSnd
    BY <1>1, EndFields
  <2> QED BY <2>1 DEF ItemsCurrent, Items, IdleSnd
<1>2. CASE ~CommitSend(s)
  <2>1. UNCHANGED incidents
    BY <1>2, EndsOnly
  <2>2. \A e \in Items(s)' : e \in Items(s) \/ e \in OpenItems
    BY ItemStep
  <2>3. \A e \in OpenItems : e.marks = incidents[e.inc].marks
    BY DEF OpenItems
  <2> QED BY <2>1, <2>2, <2>3 DEF ItemsCurrent
<1> QED BY <1>1, <1>2

\* A step that writes no row adds no success that claims one.
LEMMA OwnMarksKept ==
  ASSUME TypeOK, NEW s \in Senders, OwnMarks(s),
         UNCHANGED << incidents, draft, lock >>,
         \/ UNCHANGED pending
         \/ \E e, a : Adds(s, e, a) /\ ~IsSend(a)
  PROVE  OwnMarks(s)'
<1>1. CASE UNCHANGED pending
  BY <1>1 DEF OwnMarks, IsSend
<1>2. CASE \E e, a : Adds(s, e, a) /\ ~IsSend(a)
  <2>1. PICK e, a : Adds(s, e, a) /\ ~IsSend(a)
    BY <1>2
  <2>2. pending'[s] = pending[s] \cup {a}
    BY <2>1 DEF Adds, TypeOK, TablesTypeOK
  <2> QED BY <2>1, <2>2 DEF OwnMarks, IsSend
<1> QED BY <1>1, <1>2

\* A step that records item e and writes its row.
LEMMA OwnMarksWritten ==
  ASSUME TypeOK, NEW s \in Senders, OwnMarks(s), NEW e \in Item, NEW a,
         Adds(s, e, a), \A b \in pending[s] : b.inc # e.inc,
         NEW marks, Mark(s, e, marks), UNCHANGED incidents,
         IF IsSend(a) THEN marks[NotifierOf[s]] = a.seen
         ELSE marks[NotifierOf[s]] = incidents[e.inc].marks[NotifierOf[s]]
  PROVE  OwnMarks(s)'
<1>0. /\ draft \in [Incident -> Row] /\ lock \in [Incident -> Procs \cup {Nobody}]
      /\ e.inc \in Incident /\ \A b \in pending[s] : b.inc \in Incident
  BY DEF TypeOK, TablesTypeOK, Item, Attempt
<1>1. pending'[s] = pending[s] \cup {a} /\ a.inc = e.inc
  BY DEF Adds, TypeOK, TablesTypeOK
<1>2. /\ draft'[e.inc].marks = marks /\ lock'[e.inc] = s
      /\ \A i \in Incident : i # e.inc =>
           draft'[i] = draft[i] /\ lock'[i] = lock[i]
  BY <1>0 DEF Mark, Write, Row
<1>3. \A b \in pending'[s] : IsSend(b) =>
        lock'[b.inc] = s /\ draft'[b.inc].marks[NotifierOf[s]] = b.seen
  BY <1>0, <1>1, <1>2 DEF OwnMarks
<1>4. ASSUME NEW i \in Incident, lock'[i] = s,
             \A b \in pending'[s] : IsSend(b) => b.inc # i
      PROVE  draft'[i].marks[NotifierOf[s]] = incidents[i].marks[NotifierOf[s]]
  <2>1. CASE i = e.inc
    BY <1>1, <1>2, <1>4, <2>1
  <2>2. CASE i # e.inc
    BY <1>1, <1>2, <1>4, <2>2 DEF OwnMarks
  <2> QED BY <2>1, <2>2
<1> QED BY <1>3, <1>4 DEF OwnMarks, IsSend

LEMMA OwnMarksOwn ==
  ASSUME TypeOK, NEW s \in Senders, InPhase(s), OnceEach(s), ItemsCurrent(s),
         OwnMarks(s), SndStep(s, Waits) \/ AbortSend(s)
  PROVE  OwnMarks(s)'
<1>0. /\ pending \in [Senders -> SUBSET Attempt] /\ s # Nobody
      /\ snd[s] \in SndState
  BY ProcsAssumption DEF TypeOK, TablesTypeOK, SndTypeOK, Procs
<1>1. CASE StartSend(s) \/ SelectOpen(s) \/ SelectDigest(s) \/ Deliver(s)
           \/ DeliverDigest(s) \/ FailDigest(s) \/ DeadlockSend(s, Waits)
  <2>1. UNCHANGED << incidents, draft, lock, pending >>
    BY <1>1, Zenon
    DEF StartSend, SelectOpen, SelectDigest, Deliver, DeliverDigest, FailDigest,
        DeadlockSend, tableVars, committed
  <2> QED BY <2>1, OwnMarksKept
<1>2. CASE Skip(s)
  <2>1. \E e, a : Adds(s, e, a) /\ a.status = "skipped"
    BY <1>2, SkipFields, Zenon
  <2>2. \E e, a : Adds(s, e, a) /\ ~IsSend(a)
    BY <2>1 DEF IsSend
  <2>3. UNCHANGED << incidents, draft, lock >>
    BY <1>2 DEF Skip, committed
  <2> QED BY <2>2, <2>3, OwnMarksKept
<1>3. CASE RecordSuccess(s) \/ RecordFailure(s)
  <2>1. PICK e, a :
          /\ e \in snd[s].cur
          /\ snd[s].pc \in {"record", "undo"} /\ Adds(s, e, a) /\ GoesOn(s)
          /\ \/ /\ IsSend(a)
                /\ Mark(s, e, [e.marks EXCEPT ![NotifierOf[s]] = e.seen])
             \/ /\ a.status = "failed" /\ UNCHANGED << draft, lock >>
    BY <1>3, RecordFields, Zenon
  <2>2. UNCHANGED incidents
    BY <2>1 DEF GoesOn
  <2>3. CASE a.status = "failed" /\ UNCHANGED << draft, lock >>
    <3>1. \E f, b : Adds(s, f, b) /\ ~IsSend(b)
      BY <2>1, <2>3 DEF IsSend
    <3> QED BY <2>2, <2>3, <3>1, OwnMarksKept
  <2>4. CASE /\ IsSend(a)
             /\ Mark(s, e, [e.marks EXCEPT ![NotifierOf[s]] = e.seen])
    <3>1. e \in snd[s].todo /\ e \in Item
      BY <1>0, <2>1 DEF InPhase, SndState
    <3>2. \A b \in pending[s] : b.inc # e.inc
      BY <3>1 DEF OnceEach
    <3>3. [e.marks EXCEPT ![NotifierOf[s]] = e.seen][NotifierOf[s]] = a.seen
      <4>1. e.marks \in [Notifiers -> Nat] /\ NotifierOf[s] \in Notifiers
        BY <3>1, NotifierAssumption DEF Item
      <4>2. a.seen = e.seen
        BY <2>1 DEF Adds
      <4> QED BY <4>1, <4>2
    <3> QED BY <2>1, <2>2, <2>4, <3>1, <3>2, <3>3, OwnMarksWritten
  <2> QED BY <2>1, <2>3, <2>4
<1>4. CASE PersistDigest(s)
  <2>1. PICK e, a :
          /\ e \in snd[s].todo
          /\ Adds(s, e, a) /\ GoesOn(s) /\ a.why = "digest"
          /\ Mark(s, e, e.marks)
    BY <1>4, PersistFields, Zenon
  <2>2. UNCHANGED incidents /\ ~IsSend(a) /\ e \in Item
    BY <1>0, <2>1 DEF GoesOn, IsSend, SndState
  <2>3. \A b \in pending[s] : b.inc # e.inc
    BY <2>1 DEF OnceEach
  <2>4. e.marks[NotifierOf[s]] = incidents[e.inc].marks[NotifierOf[s]]
    BY <2>1 DEF ItemsCurrent, Items
  <2> QED BY <2>1, <2>2, <2>3, <2>4, OwnMarksWritten
<1>5. CASE CommitSend(s) \/ AbortSend(s)
  <2>1. pending'[s] = {}
    BY <1>0, <1>5 DEF CommitSend, AbortSend
  <2>2. lock' = Released(s)
    BY <1>5 DEF CommitSend, AbortSend, CommitRows, RollbackRows
  <2>3. \A i \in Incident : lock'[i] # s
    BY <1>0, <2>2 DEF Released
  <2> QED BY <2>1, <2>3 DEF OwnMarks
<1> QED
  BY <1>1, <1>2, <1>3, <1>4, <1>5, Zenon DEF SndStep, DeadlockDigest

LEMMA LatestStep ==
  ASSUME OneSender, TypeOK, RowInv, ItemsAfterSelect, TidyInv, SpacingInv,
         MarksInv, LatestInv, [Next]_vars
  PROVE  LatestInv'
<1>6. Senders = {} => attempts' = {}
  BY SenderStep DEF LatestInv
<1> SUFFICES ASSUME NEW s \in Senders
             PROVE  MarkCurrent(s)' /\ ItemsCurrent(s)' /\ OwnMarks(s)'
  BY <1>6 DEF LatestInv
<1>0. /\ MarkCurrent(s) /\ ItemsCurrent(s) /\ OwnMarks(s) /\ InPhase(s)
      /\ OnceEach(s) /\ Spaced(s) /\ \A i \in Incident : MarksOf(i)
  BY DEF LatestInv, TidyInv, SpacingInv, MarksInv
<1>1. CASE SndStep(s, Waits) \/ AbortSend(s)
  BY <1>0, <1>1, MarkCurrentOwn, ItemsCurrentOwn, OwnMarksOwn
<1>2. ASSUME UNCHANGED << attempts, pending, snd >>, NEW p, p # s, p \notin Senders,
             \A i \in Incident :
               \/ RowKept(i) \/ RowEdited(i) \/ RowRefreshed(i, p)
               \/ RowInserted(i, p) \/ RowUndone(i, p) \/ RowCommitted(i, p)
      PROVE  MarkCurrent(s)' /\ ItemsCurrent(s)' /\ OwnMarks(s)'
  <2>0. s # Nobody
    BY ProcsAssumption DEF Procs
  <2>1. ASSUME NEW i \in Incident
        PROVE  /\ incidents'[i].marks = incidents[i].marks
               /\ lock[i] = s => draft'[i] = draft[i] /\ lock'[i] = s
               /\ lock'[i] = s => lock[i] = s
    BY <1>0, <1>2, <2>0
    DEF MarksOf, RowKept, RowEdited, RowRefreshed, RowInserted, RowUndone,
        RowCommitted
  <2> QED BY <1>0, <1>2, <2>1, LatestOthers
<1>3. ASSUME NEW m \in Materializers, MatStep(m, Waits) \/ AbortMaterialize(m),
             UNCHANGED senderVars
      PROVE  MarkCurrent(s)' /\ ItemsCurrent(s)' /\ OwnMarks(s)'
  <2>1. m \notin Senders /\ m # s
    BY ProcsAssumption
  <2>2. UNCHANGED << attempts, pending, snd >>
    BY <1>3, Zenon
    DEF senderVars, MatStep, StartMaterialize, Upsert, Sweep,
        CommitMaterialize, AbortMaterialize, DeadlockMaterialize, OutOfRoom
  <2> QED BY <1>2, <1>3, <2>1, <2>2, MaterializedRow
<1>4. CASE EditStep /\ UNCHANGED senderVars
  <2>1. Nobody \notin Senders /\ Nobody # s
    BY ProcsAssumption DEF Procs
  <2>2. UNCHANGED << attempts, pending, snd >>
    BY <1>4 DEF senderVars, EditStep, Acknowledge, CloseByHand, SetStatus
  <2> QED BY <1>2, <1>4, <2>1, <2>2, EditedRow
<1>5. CASE /\ UNCHANGED << committed, draft, lock, attempts, pending, mat >>
           /\ UNCHANGED senderVars
  <2>1. Nobody \notin Senders /\ Nobody # s
    BY ProcsAssumption DEF Procs
  <2>2. \A i \in Incident : RowKept(i)
    BY <1>5 DEF RowKept, committed
  <2> QED BY <1>2, <1>5, <2>1, <2>2 DEF senderVars
<1> QED BY <1>1, <1>3, <1>4, <1>5, Actors DEF OneSender

LEMMA LatestInvariant ==
  ASSUME OneSender
  PROVE  Spec => [](TidyInv /\ ItemsAfterSelect /\ MarksInv /\ LatestInv)
<1>1. ASSUME Init PROVE ItemsAfterSelect /\ MarksInv /\ LatestInv
  <2>1. \A s \in Senders : Items(s) = {} /\ pending[s] = {}
    BY <1>1 DEF Init, TablesInit, SndInit, IdleSnd, Items
  <2>2. \A i \in Incident : /\ incidents[i] = NoRow /\ draft[i] = NoRow
                            /\ lock[i] \notin Senders
    BY <1>1, ProcsAssumption DEF Init, TablesInit, Procs
  <2>3. attempts = {}
    BY <1>1 DEF Init, TablesInit
  <2> QED
    BY <1>1, <2>1, <2>2, <2>3, ItemsInit
    DEF MarksInv, MarksOf, LatestInv, MarkCurrent, LatestSends, ItemsCurrent,
        OwnMarks
<1>2. ASSUME TypeOK, RowInv, ItemsAfterSelect, TidyInv, SpacingInv, MarksInv,
             LatestInv, [Next]_vars
      PROVE  (ItemsAfterSelect /\ MarksInv /\ LatestInv)'
  BY <1>2, ItemStep, MarksStep, LatestStep
<1>3. OneSenderEach
  BY DEF OneSender, OneSenderEach
<1>4. Spec => [](TypeOK /\ TidyInv /\ SpacingInv)
  BY <1>3, SpacingInvariant
<1> QED
  BY <1>1, <1>2, <1>4, RowInvariant, PTL DEF Spec

\* A mark always says what the latest success says, so that no success is
\* forgotten, as long as no two send runs overlap.
THEOREM LatestMarked == ASSUME OneSender PROVE Spec => []MarkIsLatestSuccess
<1>1. ASSUME LatestInv PROVE MarkIsLatestSuccess
  <2> SUFFICES ASSUME NEW i \in Incident, NEW n \in Notifiers,
                      NEW a \in Succeeded(i, n), a.why = "send",
                      \A b \in Succeeded(i, n) : b.why = "send" => b.at <= a.at
               PROVE  incidents[i].marks[n] = a.seen
    BY DEF MarkIsLatestSuccess
  <2>1. a \in attempts /\ a.inc = i /\ a.by = n /\ IsSend(a)
    BY DEF Succeeded, IsSend
  <2>2. PICK s \in Senders : TRUE
    BY <1>1, <2>1 DEF LatestInv
  <2>3. MarkCurrent(s) /\ n = NotifierOf[s]
    BY <1>1, <2>1, <2>2 DEF LatestInv, MarkCurrent
  <2>4. \A b \in attempts : b.inc = i /\ IsSend(b) => b \in Succeeded(i, n)
    BY <2>3 DEF MarkCurrent, Succeeded, IsSend
  <2>5. a \in LatestSends(i)
    BY <2>1, <2>4 DEF LatestSends, IsSend
  <2> QED BY <2>3, <2>5 DEF MarkCurrent
<1> QED
  BY <1>1, LatestInvariant, PTL

-----------------------------------------------------------------------------
(* The sightings: a commit brings one that nothing has mentioned before.   *)

\* Something in the tables or in hand is about sighting v.
Known(v) ==
  \/ \E i \in Incident : incidents[i].seen = v
  \/ \E a \in attempts : a.seen = v
  \/ \E s \in Senders : (\E a \in pending[s] : a.seen = v)
                        \/ \E e \in Items(s) : e.seen = v

\* What run m is about to write as last_seen_at is its own and unheard of.
FreshRun(m) ==
  mat[m].pc # "idle" =>
    /\ mat[m].at < clock /\ ~Known(mat[m].at)
    /\ \A k \in Materializers : k # m /\ mat[k].pc # "idle" =>
         mat[k].at # mat[m].at

\* A row that is being written has its committed sighting or its writer's.
SeenOf(i) ==
  /\ lock[i] \notin Materializers => draft[i].seen = incidents[i].seen
  /\ lock[i] \in Materializers =>
       draft[i].seen = incidents[i].seen \/ draft[i].seen = mat[lock[i]].at

FreshInv == /\ \A v \in Nat : Known(v) => v < clock
            /\ \A m \in Materializers : FreshRun(m)
            /\ \A i \in Incident : SeenOf(i)

\* The clocks of the materialize runs.
LEMMA MatFields ==
  ASSUME TypeOK, NEW m \in Materializers, MatStep(m, Waits) \/ AbortMaterialize(m)
  PROVE  /\ \A k \in Materializers : k # m => mat'[k] = mat[k]
         /\ \/ /\ mat[m].pc = "idle" /\ mat'[m].at = clock /\ clock' = clock + 1
               /\ UNCHANGED << incidents, draft, lock >>
            \/ /\ mat[m].pc # "idle" /\ UNCHANGED clock
               /\ mat'[m].at = mat[m].at \/ mat'[m].pc = "idle"
<1>0. mat \in [Materializers -> MatState] /\ mat[m] \in MatState
  BY DEF TypeOK, MatTypeOK
<1>1. CASE StartMaterialize(m)
  <2>1. PICK C, q, r :
          /\ C \in SUBSET Fingerprints
          /\ mat' = [mat EXCEPT ![m] = [pc |-> "upsert", at |-> clock, cand |-> C,
                                        todo |-> q, resolve |-> r]]
    BY <1>1, Zenon DEF StartMaterialize
  <2>2. mat'[m].at = clock /\ \A k \in Materializers : k # m => mat'[k] = mat[k]
    BY <1>0, <2>1
  <2>3. mat[m].pc = "idle" /\ clock' = clock + 1 /\ UNCHANGED << incidents, draft, lock >>
    BY <1>1 DEF StartMaterialize, Begin, committed
  <2> QED BY <2>2, <2>3
<1>2. CASE Upsert(m) \/ Sweep(m)
  <2>1. mat'[m].at = mat[m].at /\ \A k \in Materializers : k # m => mat'[k] = mat[k]
    BY <1>0, <1>2 DEF Upsert, Sweep, MatState
  <2>2. mat[m].pc # "idle" /\ UNCHANGED clock
    BY <1>2 DEF Upsert, Sweep
  <2> QED BY <2>1, <2>2
<1>3. CASE CommitMaterialize(m) \/ AbortMaterialize(m)
  BY <1>0, <1>3 DEF CommitMaterialize, AbortMaterialize, IdleMat
<1> QED
  BY <1>1, <1>2, <1>3, Zenon DEF MatStep, DeadlockMaterialize, OutOfRoom

\* A run's rows are about sightings that it has in hand.
LEMMA SeenGrows ==
  ASSUME TypeOK, NEW s \in Senders, SndStep(s, Waits) \/ AbortSend(s),
         NEW a \in attempts' \cup pending'[s]
  PROVE  \/ a \in attempts \cup pending[s]
         \/ \E e \in Items(s) : a.inc = e.inc /\ a.seen = e.seen
<1>0. pending \in [Senders -> SUBSET Attempt]
  BY DEF TypeOK, TablesTypeOK
<1>1. CASE UNCHANGED << attempts, pending >>
  BY <1>1
<1>2. CASE \E e \in Items(s) : \E b : Adds(s, e, b) /\ UNCHANGED attempts
  BY <1>0, <1>2 DEF Adds
<1>3. CASE Skip(s)
  <2>1. \E e \in snd[s].todo : \E b : Adds(s, e, b) /\ GoesOn(s)
    BY <1>3, SkipFields, Zenon
  <2> QED BY <1>2, <2>1 DEF Items, GoesOn
<1>4. CASE RecordSuccess(s) \/ RecordFailure(s)
  <2>1. \E e \in snd[s].cur : \E b : Adds(s, e, b) /\ GoesOn(s)
    BY <1>4, RecordFields, Zenon
  <2> QED BY <1>2, <2>1 DEF Items, GoesOn
<1>5. CASE PersistDigest(s)
  <2>1. \E e \in snd[s].todo : \E b : Adds(s, e, b) /\ GoesOn(s)
    BY <1>5, PersistFields, Zenon
  <2> QED BY <1>2, <2>1 DEF Items, GoesOn
<1>6. CASE CommitSend(s) \/ AbortSend(s)
  BY <1>0, <1>6 DEF CommitSend, AbortSend
<1>7. CASE FailDigest(s)
  <2>1. UNCHANGED pending /\
        attempts' = attempts \cup {FailedRow(s, e) : e \in snd[s].todo}
    BY <1>7 DEF FailDigest, FailedRow
  <2> QED BY <2>1 DEF FailedRow, NewAttempt, Items
<1> QED
  BY <1>1, <1>3, <1>4, <1>5, <1>6, <1>7, Zenon
  DEF SndStep, StartSend, SelectOpen, SelectDigest, Deliver, DeliverDigest,
      DeadlockSend, DeadlockDigest, tableVars

\* A row's committed sighting stays, or becomes that of the run that commits.
LEMMA SeenCommitted ==
  ASSUME TypeOK, RowInv, FreshInv, [Next]_vars, NEW i \in Incident
  PROVE  \/ incidents'[i].seen = incidents[i].seen
         \/ \E m \in Materializers :
              CommitMaterialize(m) /\ incidents'[i].seen = mat[m].at
<1>0. SeenOf(i)
  BY DEF FreshInv
<1>1. ASSUME NEW m \in Materializers, MatStep(m, Waits) \/ AbortMaterialize(m)
      PROVE  \/ incidents'[i].seen = incidents[i].seen
             \/ CommitMaterialize(m) /\ incidents'[i].seen = mat[m].at
  BY <1>0, <1>1, MaterializedRow
  DEF SeenOf, RowKept, RowRefreshed, RowInserted, RowUndone, RowCommitted
<1>2. ASSUME NEW s \in Senders, SndStep(s, Waits) \/ AbortSend(s)
      PROVE  incidents'[i].seen = incidents[i].seen
  <2>1. s \notin Materializers
    BY ProcsAssumption
  <2> QED BY <1>0, <1>2, <2>1, SentRow
          DEF SeenOf, RowKept, RowMarked, RowUndone, RowCommitted
<1>3. CASE EditStep
  BY <1>3, EditedRow DEF RowKept, RowEdited
<1>4. CASE UNCHANGED << committed, draft, lock, attempts, pending, mat >>
  BY <1>4 DEF committed
<1> QED BY <1>1, <1>2, <1>3, <1>4, Actors

LEMMA KnownStep ==
  ASSUME TypeOK, RowInv, ItemsAfterSelect, FreshInv, [Next]_vars,
         NEW v, Known(v)', ~Known(v)
  PROVE  \E m \in Materializers : CommitMaterialize(m) /\ v = mat[m].at
<1>1. ASSUME NEW i \in Incident, incidents'[i].seen = v
      PROVE  \E m \in Materializers : CommitMaterialize(m) /\ v = mat[m].at
  <2>1. incidents[i].seen # v
    BY DEF Known
  <2> QED BY <1>1, <2>1, SeenCommitted
<1>2. ASSUME NEW s \in Senders, NEW e \in Items(s)' PROVE e.seen # v
  <2>1. e \in Items(s) \/ e \in OpenItems
    BY ItemStep
  <2>2. e \in OpenItems => \E i \in Incident : incidents[i].seen = e.seen
    BY DEF OpenItems
  <2> QED BY <2>1, <2>2 DEF Known
<1>3. CASE UNCHANGED << attempts, pending, snd, delivered >>
  BY <1>1, <1>3, <1>2 DEF Known
<1>4. ASSUME NEW s \in Senders, SndStep(s, Waits) \/ AbortSend(s)
      PROVE  /\ \A a \in attempts' : a.seen # v
             /\ \A t \in Senders : \A a \in pending'[t] : a.seen # v
  <2>1. \A a \in attempts' \cup pending'[s] : a.seen # v
    BY <1>4, SeenGrows DEF Known
  <2>2. \A t \in Senders : t # s => pending'[t] = pending[t]
    BY <1>4, AttemptStep
  <2> QED BY <2>1, <2>2 DEF Known
<1>5. CASE \A i \in Incident : incidents'[i].seen # v
  <2>1. ~Known(v)'
    BY <1>2, <1>3, <1>4, <1>5, SenderStep DEF Known
  <2> QED BY <2>1
<1> QED BY <1>1, <1>5

\* No run's time is lost to another, and a run that begins has a time that
\* nothing has mentioned.
LEMMA FreshRunStep ==
  ASSUME TypeOK, RowInv, ItemsAfterSelect, FreshInv, [Next]_vars,
         NEW m \in Materializers
  PROVE  FreshRun(m)'
<1>0. /\ clock \in Nat /\ clock <= clock' /\ clock' \in Nat
      /\ \A k \in Materializers : mat[k].at \in Nat
      /\ mat \in [Materializers -> MatState]
  BY ClockStep, TypeStep, BoundsAssumption
  DEF TypeOK, TablesTypeOK, MatTypeOK, MatState
<1>1. \A k \in Materializers : FreshRun(k)
  BY DEF FreshInv
<1>2. ASSUME NEW v, v = mat[m].at, mat[m].pc # "idle", mat'[m].pc # "idle",
             Known(v)'
      PROVE  FALSE
  <2>1. ~Known(v)
    BY <1>1, <1>2 DEF FreshRun, Known
  <2>2. PICK k \in Materializers : CommitMaterialize(k) /\ v = mat[k].at
    BY <1>2, <2>1, KnownStep
  <2>3. mat[k].pc # "idle" /\ mat'[k].pc = "idle"
    BY <1>0, <2>2 DEF CommitMaterialize, IdleMat
  <2>4. k # m
    BY <1>2, <2>3
  <2> QED BY <1>1, <1>2, <2>2, <2>3, <2>4 DEF FreshRun
<1>3. ASSUME NEW v, v = clock, UNCHANGED incidents, Known(v)' PROVE FALSE
  <2>1. ~Known(v)
    BY <1>0, <1>3 DEF FreshInv
  <2>2. PICK k \in Materializers : CommitMaterialize(k) /\ v = mat[k].at
    BY <1>3, <2>1, KnownStep
  <2>3. mat[k].pc # "idle"
    BY <2>2 DEF CommitMaterialize
  <2> QED BY <1>0, <1>1, <1>3, <2>2, <2>3 DEF FreshRun
<1>4. \A k \in Materializers :
        \/ mat'[k].pc = "idle"
        \/ mat[k].pc # "idle" /\ mat'[k].at = mat[k].at
        \/ /\ mat'[k].at = clock /\ clock' = clock + 1 /\ UNCHANGED incidents
           /\ \A j \in Materializers : j # k => mat'[j] = mat[j]
  <2>1. CASE UNCHANGED mat
    BY <2>1
  <2>2. ASSUME NEW k \in Materializers, MatStep(k, Waits) \/ AbortMaterialize(k)
        PROVE  \A j \in Materializers :
                 \/ mat'[j].pc = "idle"
                 \/ mat[j].pc # "idle" /\ mat'[j].at = mat[j].at
                 \/ /\ mat'[j].at = clock /\ clock' = clock + 1
                    /\ UNCHANGED incidents
                    /\ \A l \in Materializers : l # j => mat'[l] = mat[l]
    BY <2>2, MatFields
  <2> QED BY <2>1, <2>2, Actors
<1> SUFFICES ASSUME mat'[m].pc # "idle", NEW v, v = mat'[m].at
             PROVE  /\ v < clock' /\ ~Known(v)'
                    /\ \A k \in Materializers :
                         k # m /\ mat'[k].pc # "idle" => mat'[k].at # v
  BY DEF FreshRun, Known
<1>5. CASE mat[m].pc # "idle" /\ mat'[m].at = mat[m].at
  <2>1. ASSUME NEW k \in Materializers, k # m, mat'[k].pc # "idle"
        PROVE  mat'[k].at # v
    BY <1>0, <1>1, <1>4, <1>5, <2>1 DEF FreshRun
  <2> QED BY <1>0, <1>1, <1>2, <1>5, <2>1 DEF FreshRun
<1>6. CASE /\ mat'[m].at = clock /\ clock' = clock + 1 /\ UNCHANGED incidents
           /\ \A j \in Materializers : j # m => mat'[j] = mat[j]
  BY <1>0, <1>1, <1>3, <1>6 DEF FreshRun
<1> QED BY <1>4, <1>5, <1>6

LEMMA SeenOfStep ==
  ASSUME TypeOK, RowInv, HoldInv, FreshInv, [Next]_vars, NEW i \in Incident
  PROVE  SeenOf(i)'
<1>0. /\ SeenOf(i) /\ Nobody \notin Materializers
      /\ \A s \in Senders : s \notin Materializers
      /\ \A m \in Materializers : lock[i] = m => mat[m].pc # "idle"
      /\ \A m \in Materializers : lock'[i] = m => mat'[m].pc # "idle"
  BY HoldStep, ProcsAssumption DEF FreshInv, HoldInv, Holds, Procs
<1>1. ASSUME UNCHANGED mat,
             RowKept(i) \/ RowEdited(i)
             \/ \E s \in Senders : RowMarked(i, s) \/ RowUndone(i, s)
                                   \/ RowCommitted(i, s)
      PROVE  SeenOf(i)'
  BY <1>0, <1>1
  DEF SeenOf, RowKept, RowEdited, RowMarked, RowUndone, RowCommitted
<1>2. ASSUME NEW m \in Materializers, MatStep(m, Waits) \/ AbortMaterialize(m)
      PROVE  SeenOf(i)'
  <2>1. CASE lock'[i] = m
    <3>1. mat'[m].at = mat[m].at
      BY <1>0, <1>2, <2>1, MatFields
    <3>2. RowKept(i) \/ RowRefreshed(i, m) \/ RowInserted(i, m)
      BY <1>0, <1>2, <2>1, MaterializedRow DEF RowUndone, RowCommitted
    <3> QED BY <1>0, <2>1, <3>1, <3>2
            DEF SeenOf, RowKept, RowRefreshed, RowInserted
  <2>2. CASE lock'[i] # m
    <3>1. RowKept(i) \/ RowUndone(i, m) \/ RowCommitted(i, m)
      BY <1>2, <2>2, MaterializedRow DEF RowRefreshed, RowInserted
    <3>2. \A k \in Materializers : k # m => mat'[k] = mat[k]
      BY <1>2, MatFields
    <3> QED BY <1>0, <2>2, <3>1, <3>2 DEF SeenOf, RowKept, RowUndone, RowCommitted
  <2> QED BY <2>1, <2>2
<1>3. ASSUME NEW s \in Senders, SndStep(s, Waits) \/ AbortSend(s), UNCHANGED mat
      PROVE  SeenOf(i)'
  BY <1>1, <1>3, SentRow
<1>4. CASE EditStep /\ UNCHANGED mat
  BY <1>1, <1>4, EditedRow
<1>5. CASE UNCHANGED << committed, draft, lock, attempts, pending, mat >>
  BY <1>1, <1>5 DEF RowKept, committed
<1> QED BY <1>2, <1>3, <1>4, <1>5, Actors

LEMMA FreshStep ==
  ASSUME TypeOK, RowInv, HoldInv, ItemsAfterSelect, FreshInv, [Next]_vars
  PROVE  FreshInv'
<1>0. /\ clock \in Nat /\ clock <= clock' /\ clock' \in Nat
      /\ \A k \in Materializers : mat[k].at \in Nat
  BY ClockStep, TypeStep, BoundsAssumption
  DEF TypeOK, TablesTypeOK, MatTypeOK, MatState
<1>1. ASSUME NEW v \in Nat, Known(v)' PROVE v < clock'
  <2>1. CASE Known(v)
    BY <1>0, <2>1 DEF FreshInv
  <2>2. CASE ~Known(v)
    <3>1. PICK m \in Materializers : CommitMaterialize(m) /\ v = mat[m].at
      BY <1>1, <2>2, KnownStep
    <3>2. mat[m].pc # "idle"
      BY <3>1 DEF CommitMaterialize
    <3> QED BY <1>0, <3>1, <3>2 DEF FreshInv, FreshRun
  <2> QED BY <2>1, <2>2
<1> QED BY <1>1, FreshRunStep, SeenOfStep DEF FreshInv

-----------------------------------------------------------------------------
(* One sighting is announced once, while sends do not overlap.             *)

\* No two send runs overlap, and none is told to repeat itself.
SendsOnce == OneSender /\ \A mode \in Modes : ~mode.force

\* No committed row says that sighting v of incident i was sent.
NotSent(i, v) == \A a \in attempts : a.inc = i /\ IsSend(a) => a.seen # v

\* The mark of a sighting that was sent is still there while the row has
\* that sighting, also in the row as a run read it.
SentIsMarked(s) ==
  /\ \A a \in attempts : IsSend(a) /\ incidents[a.inc].seen = a.seen =>
       incidents[a.inc].marks[NotifierOf[s]] = a.seen
  /\ \A e \in Items(s), a \in attempts :
       IsSend(a) /\ a.inc = e.inc /\ a.seen = e.seen =>
         e.marks[NotifierOf[s]] = e.seen

\* The row of what run s has in hand still has that sighting, or has moved on
\* to one that was not sent.
StillNew(s) ==
  /\ \A e \in Items(s) \cup pending[s] :
       \/ incidents[e.inc].seen = e.seen
       \/ NotSent(e.inc, incidents[e.inc].seen)
  /\ snd[s].pc \in {"record", "undo"} =>
       \A e \in snd[s].cur : e.marks[NotifierOf[s]] # e.seen
  /\ \A a \in pending[s] : IsSend(a) => NotSent(a.inc, a.seen)

RepeatInv == /\ NoRepeatedSuccess
             /\ \A s \in Senders : SentIsMarked(s) /\ StillNew(s)

\* Steps of others.
LEMMA RepeatOthers ==
  ASSUME TypeOK, FreshInv, NEW s \in Senders, SentIsMarked(s), StillNew(s),
         UNCHANGED << attempts, pending, snd >>,
         \A i \in Incident :
           /\ incidents'[i].marks = incidents[i].marks
           /\ \/ incidents'[i].seen = incidents[i].seen
              \/ ~Known(incidents'[i].seen)
  PROVE  SentIsMarked(s)' /\ StillNew(s)'
<1>0. /\ \A e \in Items(s) \cup pending[s] : e.inc \in Incident
      /\ \A a \in attempts : a.inc \in Incident
  BY DEF Items, TypeOK, SndTypeOK, SndState, Item, TablesTypeOK, Attempt
<1>1. \A i \in Incident : \/ incidents'[i].seen = incidents[i].seen
                          \/ \A a \in attempts : a.seen # incidents'[i].seen
  BY DEF Known
<1>2. SentIsMarked(s)'
  BY <1>0, <1>1 DEF SentIsMarked, IsSend, Items
<1>3. \A e \in Items(s) \cup pending[s] :
        \/ incidents'[e.inc].seen = e.seen
        \/ \A a \in attempts :
             a.inc = e.inc /\ IsSend(a) => a.seen # incidents'[e.inc].seen
  BY <1>0, <1>1 DEF StillNew, NotSent
<1> QED BY <1>2, <1>3 DEF StillNew, NotSent, Items, IsSend

\* What a run adds to its rows is about an item of its, and a success is about
\* the item whose notifier call has returned.
LEMMA PendingGrows ==
  ASSUME TypeOK, NEW s \in Senders, SndStep(s, Waits) \/ AbortSend(s),
         NEW a \in pending'[s], a \notin pending[s]
  PROVE  \E e \in Items(s) :
           /\ a.inc = e.inc /\ a.seen = e.seen
           /\ IsSend(a) => e \in snd[s].cur /\ snd[s].pc \in {"record", "undo"}
<1>0. pending \in [Senders -> SUBSET Attempt]
  BY DEF TypeOK, TablesTypeOK
<1>1. \A e, b : Adds(s, e, b) => a = b /\ a.inc = e.inc /\ a.seen = e.seen
  BY <1>0 DEF Adds
<1>2. CASE Skip(s)
  <2>1. \E e \in snd[s].todo : \E b : Adds(s, e, b) /\ b.status = "skipped"
    BY <1>2, SkipFields, Zenon
  <2> QED BY <1>1, <2>1 DEF Items, IsSend
<1>3. CASE RecordSuccess(s) \/ RecordFailure(s)
  <2>1. \E e \in snd[s].cur : \E b : Adds(s, e, b) /\ snd[s].pc \in {"record", "undo"}
    BY <1>3, RecordFields, Zenon
  <2> QED BY <1>1, <2>1 DEF Items
<1>4. CASE PersistDigest(s)
  <2>1. \E e \in snd[s].todo : \E b : Adds(s, e, b) /\ b.why = "digest"
    BY <1>4, PersistFields, Zenon
  <2> QED BY <1>1, <2>1 DEF Items, IsSend
<1>5. CASE CommitSend(s) \/ AbortSend(s)
  BY <1>0, <1>5 DEF CommitSend, AbortSend
<1>6. CASE UNCHANGED pending
  BY <1>6
<1> QED
  BY <1>2, <1>3, <1>4, <1>5, <1>6, Zenon
  DEF SndStep, StartSend, SelectOpen, SelectDigest, Deliver, DeliverDigest,
      FailDigest, DeadlockSend, DeadlockDigest, tableVars

\* A notifier is called about an item whose sighting is not marked as sent.
LEMMA NewInHand ==
  ASSUME TypeOK, NEW s \in Senders, InPhase(s), StillNew(s),
         \A mode \in Modes : ~mode.force, SndStep(s, Waits) \/ AbortSend(s),
         snd'[s].pc \in {"record", "undo"}, NEW e \in snd'[s].cur
  PROVE  e.marks[NotifierOf[s]] # e.seen
<1>1. CASE Deliver(s)
  <2>1. PICK f \in snd[s].todo :
          InLoop(s) /\ SkipReason(s, f) = "none" /\ snd'[s].cur = {f}
    BY <1>1, DeliverFields, Zenon
  <2>2. ~snd[s].mode.force
    BY <2>1 DEF InPhase, InLoop
  <2> QED BY <2>1, <2>2 DEF SkipReason
<1>2. CASE DeadlockSend(s, Waits)
  BY <1>2, DeadlockFields DEF StillNew
<1>3. CASE StartSend(s)
  <2>1. snd'[s].pc = "select"
    BY <1>3, StartFields
  <2> QED BY <2>1
<1>4. CASE SelectOpen(s) \/ SelectDigest(s)
  <2>1. snd'[s] = IdleSnd \/ snd'[s].pc = "loop"
    BY <1>4, SelectFields, Zenon
  <2> QED BY <2>1 DEF IdleSnd
<1>5. CASE Skip(s) \/ PersistDigest(s)
  <2>1. snd'[s].pc = snd[s].pc /\ (InLoop(s) \/ snd[s].pc = "persist")
    BY <1>5, SkipFields, PersistFields, Zenon
  <2> QED BY <2>1 DEF InLoop
<1>6. CASE RecordSuccess(s) \/ RecordFailure(s) \/ DeliverDigest(s)
  <2>1. snd'[s].pc = "loop" \/ snd'[s].pc = "persist"
    BY <1>6, RecordFields, DigestFields, Zenon
  <2> QED BY <2>1
<1>7. CASE FailDigest(s) \/ CommitSend(s) \/ AbortSend(s)
  BY <1>7, EndFields DEF IdleSnd
<1> QED
  BY <1>1, <1>2, <1>3, <1>4, <1>5, <1>6, <1>7, Zenon
  DEF SndStep, DeadlockDigest

\* A run's own steps before its commit.
LEMMA RepeatOwn ==
  ASSUME TypeOK, ItemsAfterSelect, [Next]_vars, NEW s \in Senders, InPhase(s),
         SentIsMarked(s), StillNew(s), \A mode \in Modes : ~mode.force,
         SndStep(s, Waits) \/ AbortSend(s), ~CommitSend(s)
  PROVE  /\ SentIsMarked(s)' /\ StillNew(s)'
         /\ \A a \in attempts' : IsSend(a) => a \in attempts
<1>1. UNCHANGED incidents
  BY EndsOnly
<1>2. /\ attempts \subseteq attempts'
      /\ \A a \in attempts' : IsSend(a) => a \in attempts
  BY EndsOnly DEF FailedRow, NewAttempt, IsSend
<1>3. \A e \in Items(s)' :
        \/ e \in Items(s)
        \/ e.seen = incidents[e.inc].seen /\ e.marks = incidents[e.inc].marks
  <2>1. \A e \in Items(s)' : e \in Items(s) \/ e \in OpenItems
    BY ItemStep
  <2> QED BY <2>1 DEF OpenItems
<1>4. SentIsMarked(s)'
  BY <1>1, <1>2, <1>3 DEF SentIsMarked, IsSend
<1>5. \A a \in pending'[s] : a \notin pending[s] =>
        \E e \in Items(s) :
           /\ a.inc = e.inc /\ a.seen = e.seen
           /\ IsSend(a) => e \in snd[s].cur /\ snd[s].pc \in {"record", "undo"}
  BY PendingGrows
<1>6. \A e \in Items(s)' \cup pending'[s] :
        incidents[e.inc].seen = e.seen \/ NotSent(e.inc, incidents[e.inc].seen)
  BY <1>3, <1>5 DEF StillNew
<1>7. \A a \in pending'[s] : IsSend(a) => NotSent(a.inc, a.seen)
  BY <1>5 DEF StillNew, SentIsMarked, NotSent
<1>8. \A i \in Incident : \A v : NotSent(i, v) => NotSent(i, v)'
  BY <1>2 DEF NotSent, IsSend
<1>9. \A e \in Items(s)' \cup pending'[s] : e.inc \in Incident
  BY TypeStep DEF Items, TypeOK, SndTypeOK, SndState, Item, TablesTypeOK, Attempt
<1> QED BY <1>1, <1>2, <1>4, <1>6, <1>7, <1>9, NewInHand DEF StillNew, NotSent, IsSend

\* A commit: what becomes visible was not sent before.
LEMMA RepeatCommit ==
  ASSUME TypeOK, NEW s \in Senders, OnceEach(s), OwnMarks(s), FreshInv,
         SentIsMarked(s), StillNew(s), NoRepeatedSuccess, CommitSend(s)
  PROVE  SentIsMarked(s)' /\ StillNew(s)' /\ NoRepeatedSuccess'
<1>1. /\ attempts' = attempts \cup pending[s] /\ CommitRows(s)
      /\ snd'[s] = IdleSnd /\ pending'[s] = {}
  <2>1. pending' = [pending EXCEPT ![s] = {}]
    BY DEF CommitSend
  <2> QED BY <2>1, EndFields DEF CommitSend, TypeOK, TablesTypeOK
<1>2. Items(s)' = {}
  BY <1>1 DEF Items, IdleSnd
<1>3. \A i \in Incident :
        /\ incidents'[i].seen = incidents[i].seen
        /\ lock[i] = s => incidents'[i].marks = draft[i].marks
        /\ lock[i] # s => incidents'[i].marks = incidents[i].marks
  <2>1. s \notin Materializers
    BY ProcsAssumption
  <2> QED BY <1>1, <2>1 DEF CommitRows, FreshInv, SeenOf
<1>4. \A a \in attempts \cup pending[s] : a.inc \in Incident
  BY DEF TypeOK, TablesTypeOK, Attempt
<1>5. ASSUME NEW a \in attempts', IsSend(a), incidents'[a.inc].seen = a.seen
      PROVE  incidents'[a.inc].marks[NotifierOf[s]] = a.seen
  <2>1. CASE a \in pending[s]
    BY <1>3, <1>4, <1>5, <2>1 DEF OwnMarks
  <2>2. CASE a \in attempts
    <3>1. incidents[a.inc].seen = a.seen
      BY <1>3, <1>4, <1>5, <2>2
    <3>2. incidents[a.inc].marks[NotifierOf[s]] = a.seen
      BY <1>5, <2>2, <3>1 DEF SentIsMarked
    <3>3. \A b \in pending[s] : IsSend(b) => b.inc # a.inc
      BY <1>5, <2>2, <3>1 DEF StillNew, NotSent
    <3> QED BY <1>3, <1>4, <2>2, <3>2, <3>3 DEF OwnMarks
  <2> QED BY <1>1, <1>5, <2>1, <2>2
<1>6. SentIsMarked(s)'
  BY <1>2, <1>5 DEF SentIsMarked, IsSend
<1>7. StillNew(s)'
  BY <1>1, <1>2 DEF StillNew, IdleSnd
<1>8. ASSUME NEW a \in attempts', NEW b \in attempts',
             a.inc = b.inc, a.by = b.by, a.seen = b.seen, IsSend(a), IsSend(b)
      PROVE  a = b
  <2>1. CASE a \in attempts /\ b \in attempts
    BY <1>8, <2>1 DEF NoRepeatedSuccess, IsSend
  <2>2. CASE a \in pending[s] /\ b \in pending[s]
    BY <1>8, <2>2 DEF OnceEach
  <2>3. CASE a \in pending[s] /\ b \in attempts
    BY <1>8, <2>3 DEF StillNew, NotSent
  <2>4. CASE a \in attempts /\ b \in pending[s]
    BY <1>8, <2>4 DEF StillNew, NotSent
  <2> QED BY <1>1, <2>1, <2>2, <2>3, <2>4
<1>9. NoRepeatedSuccess'
  BY <1>8 DEF NoRepeatedSuccess, IsSend
<1> QED BY <1>6, <1>7, <1>9

LEMMA RepeatStep ==
  ASSUME SendsOnce, TypeOK, RowInv, ItemsAfterSelect, TidyInv, MarksInv,
         LatestInv, FreshInv, RepeatInv, [Next]_vars
  PROVE  RepeatInv'
<1>1. CASE Senders = {}
  <2>1. UNCHANGED attempts
    BY <1>1, SenderStep
  <2> QED BY <1>1, <2>1 DEF RepeatInv, NoRepeatedSuccess
<1> SUFFICES ASSUME NEW s \in Senders
             PROVE  NoRepeatedSuccess' /\ SentIsMarked(s)' /\ StillNew(s)'
  BY <1>1 DEF RepeatInv
<1>0. /\ OwnMarks(s) /\ InPhase(s) /\ OnceEach(s) /\ NoRepeatedSuccess
      /\ SentIsMarked(s) /\ StillNew(s) /\ \A mode \in Modes : ~mode.force
      /\ \A i \in Incident : MarksOf(i)
  BY DEF LatestInv, TidyInv, MarksInv, RepeatInv, SendsOnce
<1>2. CASE SndStep(s, Waits) \/ AbortSend(s)
  <2>1. CASE CommitSend(s)
    BY <1>0, <2>1, RepeatCommit
  <2>2. CASE ~CommitSend(s)
    <3>1. /\ SentIsMarked(s)' /\ StillNew(s)'
          /\ \A a \in attempts' : IsSend(a) => a \in attempts
      BY <1>0, <1>2, <2>2, RepeatOwn
    <3> QED BY <1>0, <3>1 DEF NoRepeatedSuccess, IsSend
  <2> QED BY <2>1, <2>2
<1>3. ASSUME NEW i \in Incident
      PROVE  \/ incidents'[i].seen = incidents[i].seen
             \/ ~Known(incidents'[i].seen)
  <2>1. ASSUME NEW m \in Materializers, CommitMaterialize(m), NEW v,
               v = mat[m].at
        PROVE  ~Known(v)
    BY <2>1 DEF FreshInv, FreshRun, CommitMaterialize
  <2> QED BY <2>1, SeenCommitted
<1>4. ASSUME UNCHANGED << attempts, pending, snd >>,
             \A i \in Incident : incidents'[i].marks = incidents[i].marks
      PROVE  NoRepeatedSuccess' /\ SentIsMarked(s)' /\ StillNew(s)'
  <2>1. NoRepeatedSuccess'
    BY <1>0, <1>4 DEF NoRepeatedSuccess
  <2> QED BY <1>0, <1>3, <1>4, <2>1, RepeatOthers
<1>5. ASSUME NEW m \in Materializers, MatStep(m, Waits) \/ AbortMaterialize(m),
             UNCHANGED senderVars
      PROVE  NoRepeatedSuccess' /\ SentIsMarked(s)' /\ StillNew(s)'
  <2>1. UNCHANGED << attempts, pending, snd >>
    BY <1>5, Zenon
    DEF senderVars, MatStep, StartMaterialize, Upsert, Sweep,
        CommitMaterialize, AbortMaterialize, DeadlockMaterialize, OutOfRoom
  <2>2. m \notin Senders
    BY ProcsAssumption
  <2>3. \A i \in Incident : incidents'[i].marks = incidents[i].marks
    BY <1>0, <1>5, <2>2, MaterializedRow
    DEF MarksOf, RowKept, RowRefreshed, RowInserted, RowUndone, RowCommitted
  <2> QED BY <1>4, <2>1, <2>3
<1>6. CASE EditStep /\ UNCHANGED senderVars
  <2>1. UNCHANGED << attempts, pending, snd >>
    BY <1>6 DEF senderVars, EditStep, Acknowledge, CloseByHand, SetStatus
  <2>2. \A i \in Incident : incidents'[i].marks = incidents[i].marks
    BY <1>6, EditedRow DEF RowKept, RowEdited
  <2> QED BY <1>4, <2>1, <2>2
<1>7. CASE /\ UNCHANGED << committed, draft, lock, attempts, pending, mat >>
           /\ UNCHANGED senderVars
  BY <1>4, <1>7 DEF senderVars, committed
<1> QED BY <1>2, <1>5, <1>6, <1>7, Actors DEF SendsOnce, OneSender

\* What the first states know of: sighting 0 of rows that are not there.
LEMMA FreshInit == ASSUME Init PROVE FreshInv
<1>1. /\ clock = 1 /\ attempts = {}
      /\ \A i \in Incident : /\ incidents[i].seen = 0 /\ draft[i].seen = 0
                             /\ lock[i] \notin Materializers
  BY ProcsAssumption DEF Init, TablesInit, NoRow, Procs
<1>2. \A s \in Senders : pending[s] = {} /\ Items(s) = {}
  BY DEF Init, TablesInit, SndInit, IdleSnd, Items
<1>3. \A m \in Materializers : mat[m].pc = "idle"
  BY DEF Init, MatInit, IdleMat
<1> QED BY <1>1, <1>2, <1>3 DEF FreshInv, Known, FreshRun, SeenOf

\* No sighting of an incident is announced again by a notifier that has
\* announced it, whatever materialize runs, crashes, deadlocks and operators do
\* meanwhile, as long as no two send runs overlap and none is forced.
THEOREM AnnouncedOnce == ASSUME SendsOnce PROVE Spec => []NoRepeatedSuccess
<1>1. ASSUME Init PROVE FreshInv /\ RepeatInv
  <2>1. /\ attempts = {}
        /\ \A s \in Senders : /\ pending[s] = {} /\ Items(s) = {}
                              /\ snd[s].pc = "idle"
    BY <1>1 DEF Init, TablesInit, SndInit, IdleSnd, Items
  <2>2. RepeatInv
    BY <2>1 DEF RepeatInv, NoRepeatedSuccess, SentIsMarked, StillNew
  <2> QED BY <1>1, <2>2, FreshInit
<1>2. ASSUME TypeOK, RowInv, HoldInv, TidyInv, ItemsAfterSelect, MarksInv,
             LatestInv, FreshInv, RepeatInv, [Next]_vars
      PROVE  (FreshInv /\ RepeatInv)'
  BY <1>2, FreshStep, RepeatStep
<1>3. ASSUME RepeatInv PROVE NoRepeatedSuccess
  BY <1>3 DEF RepeatInv
<1>4. OneSender
  BY DEF SendsOnce
<1>5. Spec => [](TidyInv /\ ItemsAfterSelect /\ MarksInv /\ LatestInv)
  BY <1>4, LatestInvariant
<1> QED
  BY <1>1, <1>2, <1>3, <1>5, HoldInvariant, PTL DEF Spec
=============================================================================
