----------------------------- MODULE Replay_proofs -----------------------------
(***************************************************************************)
(* Proofs about dead letters and their replays, for any payloads, samples  *)
(* and command lines, any number of overlapping replays and all values of  *)
(* the bounds: the ledger of runs, that an error is closed only after its  *)
(* sample was sent, that the counts of a run that says succeeded are those *)
(* of its items, whose messages are in the topic, and the types.           *)
(***************************************************************************)
EXTENDS Replay, FiniteSetTheorems, SequenceTheorems, TLAPS

-----------------------------------------------------------------------------
(* Sequences of anything.                                                  *)

IsSeq(s) == s \in Seq(ToSet(s))

LEMMA SeqIsSeq ==
  ASSUME NEW S, NEW s \in Seq(S)
  PROVE  IsSeq(s) /\ ToSet(s) \subseteq S
<1>1. Len(s) \in Nat /\ s \in [1..Len(s) -> S] /\ DOMAIN s = 1..Len(s)
  BY LenProperties
<1>2. ToSet(s) \subseteq S
  BY <1>1 DEF ToSet
<1>3. s \in [1..Len(s) -> ToSet(s)]
  BY <1>1 DEF ToSet
<1> QED BY <1>1, <1>2, <1>3 DEF IsSeq

LEMMA SeqDomain ==
  ASSUME NEW s, IsSeq(s)
  PROVE  /\ Len(s) \in Nat /\ DOMAIN s = 1..Len(s)
         /\ s = [i \in 1..Len(s) |-> s[i]]
<1>1. Len(s) \in Nat /\ s \in [1..Len(s) -> ToSet(s)] /\ DOMAIN s = 1..Len(s)
  BY LenProperties DEF IsSeq
<1> QED BY <1>1

\* Appending an element adds it and loses none.
LEMMA SeqAppend ==
  ASSUME NEW s, IsSeq(s), NEW e
  PROVE  /\ IsSeq(Append(s, e))
         /\ ToSet(s) \subseteq ToSet(Append(s, e)) /\ e \in ToSet(Append(s, e))
<1> DEFINE S == ToSet(s) \cup {e}
           t == Append(s, e)
<1>1. s \in Seq(S)
  BY SeqMonotonic DEF IsSeq
<1>2. /\ t \in Seq(S) /\ Len(t) = Len(s) + 1
      /\ \A i \in 1..Len(s) : t[i] = s[i]
      /\ t[Len(s) + 1] = e
  BY <1>1, AppendProperties
<1>3. IsSeq(t)
  BY <1>2, SeqIsSeq
<1>4. /\ Len(s) \in Nat /\ DOMAIN s = 1..Len(s)
      /\ DOMAIN t = 1..(Len(s) + 1)
  BY <1>2, <1>3, SeqDomain
<1> QED BY <1>2, <1>3, <1>4 DEF ToSet

\* Head and tail hold all elements.
LEMMA SeqTail ==
  ASSUME NEW s, IsSeq(s), s # << >>
  PROVE  /\ IsSeq(Tail(s)) /\ Head(s) \in ToSet(s)
         /\ ToSet(s) \subseteq ToSet(Tail(s)) \cup {Head(s)}
<1>1. /\ Head(s) \in ToSet(s) /\ Tail(s) \in Seq(ToSet(s))
      /\ Len(Tail(s)) = Len(s) - 1
      /\ \A i \in 1..Len(Tail(s)) : Tail(s)[i] = s[i + 1]
  BY HeadTailProperties DEF IsSeq
<1>2. IsSeq(Tail(s))
  BY <1>1, SeqIsSeq
<1>3. Len(s) \in Nat /\ DOMAIN s = 1..Len(s) /\ DOMAIN Tail(s) = 1..(Len(s) - 1)
  BY <1>1, <1>2, SeqDomain
<1>4. Head(s) = s[1]
  BY DEF IsSeq
<1>5. ASSUME NEW i \in DOMAIN s
      PROVE  s[i] \in ToSet(Tail(s)) \cup {Head(s)}
  <2>1. CASE i = 1
    BY <2>1, <1>4
  <2>2. CASE i # 1
    <3>1. i - 1 \in 1..Len(Tail(s)) /\ i - 1 \in DOMAIN Tail(s)
      BY <2>2, <1>1, <1>3, <1>5
    <3>2. Tail(s)[i - 1] = s[i]
      BY <3>1, <1>1, <1>3, <1>5
    <3> QED BY <3>1, <3>2 DEF ToSet
  <2> QED BY <2>1, <2>2
<1> QED BY <1>1, <1>2, <1>5 DEF ToSet

\* The elements of a concatenation stay where they are, or are the second's.
LEMMA SeqConcat ==
  ASSUME NEW s, IsSeq(s), NEW t, IsSeq(t)
  PROVE  /\ IsSeq(s \o t) /\ DOMAIN s \subseteq DOMAIN (s \o t)
         /\ \A i \in DOMAIN s : (s \o t)[i] = s[i]
         /\ \A i \in (DOMAIN (s \o t)) \ DOMAIN s :
              \E k \in DOMAIN t : (s \o t)[i] = t[k]
<1> DEFINE S == ToSet(s) \cup ToSet(t)
           u == s \o t
<1>1. s \in Seq(S) /\ t \in Seq(S)
  BY SeqMonotonic DEF IsSeq
<1>2. /\ u \in Seq(S) /\ Len(u) = Len(s) + Len(t)
      /\ \A i \in 1..(Len(s) + Len(t)) :
           u[i] = IF i <= Len(s) THEN s[i] ELSE t[i - Len(s)]
  BY <1>1, ConcatProperties
<1>3. IsSeq(u)
  BY <1>2, SeqIsSeq
<1>4. /\ Len(s) \in Nat /\ DOMAIN s = 1..Len(s)
      /\ Len(t) \in Nat /\ DOMAIN t = 1..Len(t)
      /\ DOMAIN u = 1..(Len(s) + Len(t))
  BY <1>2, <1>3, SeqDomain
<1> HIDE DEF u
<1>5. \A i \in DOMAIN s : i \in DOMAIN u /\ u[i] = s[i]
  BY <1>2, <1>4
<1>6. ASSUME NEW i \in (DOMAIN u) \ DOMAIN s
      PROVE  i - Len(s) \in DOMAIN t /\ u[i] = t[i - Len(s)]
  BY <1>2, <1>4, <1>6
<1> QED BY <1>3, <1>5, <1>6 DEF u

LEMMA SetToSeqIsSeq ==
  ASSUME NEW S, IsFiniteSet(S)
  PROVE  SetToSeq(S) \in Seq(S)
<1> DEFINE n == Cardinality(S)
<1>1. n \in Nat /\ ExistsBijection(1..n, S)
  BY FS_CardinalityType
<1>2. PICK f : f \in Bijection(1..n, S)
  BY <1>1 DEF ExistsBijection
<1>3. f \in [1..n -> S] /\ IsInjective(f)
  BY <1>2 DEF Bijection, Injection, IsInjective
<1>4. SetToSeq(S) \in [1..n -> S]
  BY <1>3 DEF SetToSeq
<1> QED BY <1>1, <1>4

LEMMA ToSetFinite ==
  ASSUME NEW s, IsSeq(s)
  PROVE  IsFiniteSet(ToSet(s))
<1>1. Len(s) \in Nat /\ DOMAIN s = 1..Len(s) /\ s \in [1..Len(s) -> ToSet(s)]
  BY LenProperties DEF IsSeq
<1>2. s \in Surjection(1..Len(s), ToSet(s))
  BY <1>1 DEF Surjection, ToSet
<1>3. IsFiniteSet(1..Len(s))
  BY <1>1, FS_Interval
<1> QED BY <1>2, <1>3, FS_Surjection

-----------------------------------------------------------------------------
(* The inductive invariant.                                                *)

Fields == {"pc", "mode", "dry", "resolve", "book", "todo", "pos", "used",
           "scanned", "replayed", "queue"}

\* The processes are records; what they queue and have still to do are
\* sequences, of rows in todo.
ProcessShape ==
  /\ DOMAIN replay = Replays
  /\ \A r \in Replays :
       /\ DOMAIN replay[r] = Fields
       /\ IsSeq(replay[r].queue)
       /\ replay[r].todo \in Seq(DOMAIN errors)
       /\ replay[r].pc = "new" => replay[r].queue = << >>

RowShape ==
  /\ IsSeq(errors)
  /\ \A i \in DOMAIN errors : DOMAIN errors[i] = {"body", "status"}

\* Messages that are in the raw topic or on their way to it.
InFlight == ToSet(log) \cup UNION {ToSet(replay[r].queue) : r \in Replays}

WasSent(i) == Sample[errors[i].body] \in InFlight

Closed(i) == errors[i].status \in SentStatuses

\* A closed row was sent, and so was one that is about to be resolved.
SentInv ==
  /\ \A i \in DOMAIN errors : Closed(i) /\ lost = {} => WasSent(i)
  /\ \A r \in Replays : replay[r].pc = "resolve" =>
       /\ replay[r].todo # << >>
       /\ lost = {} => WasSent(Head(replay[r].todo))

\* What a run's row says of where its process is.
LedgerInv ==
  /\ ledger \in [Replays -> {"absent", "running", "succeeded", "failed"}]
  /\ \A r \in Replays :
       /\ replay[r].pc = "new" => ledger[r] = "absent"
       /\ replay[r].pc \in {"start", "work", "resolve"} /\ replay[r].book =>
            ledger[r] = "running"

ReplayInv == /\ IsSeq(log) /\ RowShape /\ ProcessShape
             /\ SentInv /\ LedgerInv

LEMMA InitInv == Init => ReplayInv
<1> SUFFICES ASSUME Init PROVE ReplayInv
  OBVIOUS
<1>1. IsSeq(log)
  BY SeqIsSeq, ReplayBounds DEF Init
<1>2. IsSeq(<< >>) /\ << >> \in Seq(DOMAIN errors)
  BY SeqIsSeq, EmptySeq
<1>3. errors = << >> /\ DOMAIN errors = {}
  BY SeqDomain, <1>2 DEF Init
<1>4. RowShape
  BY <1>2, <1>3 DEF RowShape
<1>5. ProcessShape
  BY <1>2 DEF Init, Idle, ProcessShape, Fields
<1>6. SentInv
  BY <1>3 DEF Init, Idle, SentInv
<1>7. LedgerInv
  BY DEF Init, Idle, LedgerInv
<1> QED BY <1>1, <1>4, <1>5, <1>6, <1>7 DEF ReplayInv

-----------------------------------------------------------------------------
(* What a step does to the rows.                                           *)

\* New open rows behind the others.
RowsGrow ==
  /\ DOMAIN errors \subseteq DOMAIN errors'
  /\ \A i \in DOMAIN errors : errors'[i] = errors[i]
  /\ \A i \in (DOMAIN errors') \ DOMAIN errors : errors'[i].status = "open"

\* Other statuses; only a row that is resolved, or is being resolved, is
\* closed afterwards.
RowsRestamped ==
  /\ DOMAIN errors' = DOMAIN errors
  /\ \A i \in DOMAIN errors :
       /\ errors'[i].body = errors[i].body
       /\ errors'[i].status \in SentStatuses =>
            \/ Closed(i)
            \/ \E r \in Replays : replay[r].pc = "resolve" /\ i = Head(replay[r].todo)

RowsStep == RowShape' /\ (RowsGrow \/ RowsRestamped)

LEMMA NormalizeRows ==
  ASSUME ReplayInv, NormalizeRun
  PROVE  RowsStep
<1> DEFINE new == Unrecorded
           tail == [i \in DOMAIN new |-> OpenRow(new[i])]
<1>1. IsFiniteSet({p \in ToSet(log) : IsBad(p) /\ ~HasOpenRow(p)})
  <2>1. {p \in ToSet(log) : IsBad(p) /\ ~HasOpenRow(p)} \in SUBSET ToSet(log)
    OBVIOUS
  <2>2. IsFiniteSet(ToSet(log))
    BY ToSetFinite DEF ReplayInv
  <2> QED BY <2>1, <2>2, FS_Subset
<1>2. IsSeq(new)
  BY <1>1, SetToSeqIsSeq, SeqIsSeq DEF Unrecorded
<1>3. errors' = errors \o tail
  BY DEF NormalizeRun, ParseErrors
<1>4. Len(new) \in Nat /\ DOMAIN new = 1..Len(new)
  BY <1>2, SeqDomain
<1>5. /\ IsSeq(tail) /\ DOMAIN tail = 1..Len(new) /\ Len(tail) = Len(new)
      /\ \A k \in DOMAIN tail : tail[k] = OpenRow(new[k])
  <2>1. tail \in [1..Len(new) -> ToSet(tail)]
    BY <1>4 DEF ToSet
  <2>2. tail \in Seq(ToSet(tail)) /\ Len(tail) = Len(new)
    BY <2>1, <1>4
  <2> QED BY <1>4, <2>2 DEF IsSeq
<1>6. \A k \in DOMAIN tail : /\ DOMAIN tail[k] = {"body", "status"}
                            /\ tail[k].status = "open"
  BY <1>5 DEF OpenRow
<1> HIDE DEF tail, new
<1>7. /\ IsSeq(errors') /\ DOMAIN errors \subseteq DOMAIN errors'
      /\ \A i \in DOMAIN errors : errors'[i] = errors[i]
      /\ \A i \in (DOMAIN errors') \ DOMAIN errors :
           \E k \in DOMAIN tail : errors'[i] = tail[k]
  <2>1. IsSeq(errors) /\ IsSeq(tail)
    BY <1>5 DEF ReplayInv, RowShape
  <2>2. LET u == errors \o tail IN
        /\ IsSeq(u) /\ DOMAIN errors \subseteq DOMAIN u
        /\ \A i \in DOMAIN errors : u[i] = errors[i]
        /\ \A i \in (DOMAIN u) \ DOMAIN errors :
             \E k \in DOMAIN tail : u[i] = tail[k]
    BY <2>1, SeqConcat
  <2> QED BY <1>3, <2>2
<1>8. \A i \in (DOMAIN errors') \ DOMAIN errors :
        DOMAIN errors'[i] = {"body", "status"} /\ errors'[i].status = "open"
  BY <1>6, <1>7
<1>9. RowShape'
  BY <1>7, <1>8 DEF RowShape, ReplayInv
<1> QED BY <1>7, <1>8, <1>9 DEF RowsStep, RowsGrow

\* Rows with other statuses are rows still.
LEMMA RestampedShape ==
  ASSUME RowShape,
         errors' = [i \in DOMAIN errors |-> errors'[i]],
         \A i \in DOMAIN errors : DOMAIN errors'[i] = {"body", "status"}
  PROVE  RowShape'
<1>1. Len(errors) \in Nat /\ DOMAIN errors = 1..Len(errors)
  BY SeqDomain DEF RowShape
<1>2. DOMAIN errors' = 1..Len(errors)
  BY <1>1
<1>3. errors' \in [1..Len(errors) -> ToSet(errors')]
  BY <1>1, <1>2 DEF ToSet
<1>4. IsSeq(errors')
  BY <1>1, <1>3 DEF IsSeq
<1> QED BY <1>1, <1>2, <1>4 DEF RowShape

LEMMA CompactRows ==
  ASSUME ReplayInv, Compact
  PROVE  RowsStep
<1>0. PICK status \in CompactStatuses :
        \E aged \in SUBSET {i \in DOMAIN errors : errors[i].status = status} :
          errors' = [i \in DOMAIN errors |->
                       IF i \in aged THEN [errors[i] EXCEPT !.status = "archived"]
                                     ELSE errors[i]]
  BY DEF Compact
<1>1. PICK aged \in SUBSET {i \in DOMAIN errors : errors[i].status = status} :
        errors' = [i \in DOMAIN errors |->
                     IF i \in aged THEN [errors[i] EXCEPT !.status = "archived"]
                                   ELSE errors[i]]
  BY <1>0
<1>2. \A i \in DOMAIN errors : DOMAIN errors[i] = {"body", "status"}
  BY DEF ReplayInv, RowShape
<1>3. ASSUME NEW i \in DOMAIN errors
      PROVE  /\ DOMAIN errors'[i] = {"body", "status"}
             /\ errors'[i].body = errors[i].body
             /\ errors'[i].status \in SentStatuses => errors[i].status \in SentStatuses
  <2>1. CASE i \in aged
    <3>1. errors'[i] = [errors[i] EXCEPT !.status = "archived"]
      BY <1>1, <1>3, <2>1
    <3>2. errors[i].status = status /\ errors'[i].status = "archived"
      BY <1>2, <2>1, <3>1
    <3>3. "archived" \in SentStatuses => errors[i].status \in SentStatuses
      BY <3>2 DEF SentStatuses
    <3> QED BY <3>1, <3>2, <3>3, <1>2
  <2>2. CASE i \notin aged
    BY <1>1, <1>2, <2>2
  <2> QED BY <2>1, <2>2
<1>4. errors' = [i \in DOMAIN errors |-> errors'[i]]
  BY <1>1
<1>5. RowShape'
  BY <1>3, <1>4, RestampedShape DEF ReplayInv
<1>6. RowsRestamped
  BY <1>3, <1>4 DEF RowsRestamped, Closed
<1> QED BY <1>5, <1>6 DEF RowsStep

\* One row gets a status that it may have.
LEMMA OneRow ==
  ASSUME ReplayInv, NEW i \in DOMAIN errors, NEW s,
         errors' = [errors EXCEPT ![i].status = s],
         \/ s \notin SentStatuses
         \/ \E r \in Replays : replay[r].pc = "resolve" /\ i = Head(replay[r].todo)
  PROVE  RowsStep
<1>1. \A j \in DOMAIN errors : DOMAIN errors[j] = {"body", "status"}
  BY DEF ReplayInv, RowShape
<1>2. errors' = [j \in DOMAIN errors |-> errors'[j]]
  BY SeqDomain DEF ReplayInv, RowShape
<1>3. ASSUME NEW j \in DOMAIN errors
      PROVE  /\ DOMAIN errors'[j] = {"body", "status"}
             /\ errors'[j].body = errors[j].body
             /\ j # i => errors'[j].status = errors[j].status
             /\ j = i => errors'[j].status = s
  BY <1>1
<1>4. RowShape'
  BY <1>2, <1>3, RestampedShape DEF ReplayInv
<1>5. RowsRestamped
  BY <1>2, <1>3 DEF RowsRestamped, Closed
<1> QED BY <1>4, <1>5 DEF RowsStep

LEMMA SameRows ==
  ASSUME ReplayInv, errors' = errors
  PROVE  RowsStep
  BY DEF ReplayInv, RowsStep, RowsRestamped, RowShape, Closed

-----------------------------------------------------------------------------
(* What a step does to the process that takes it, and to its run's row.    *)

InLoop == {"start", "work", "resolve"}

\* Replay r becomes p; no message of its queue gets out of sight, unless lost
\* says so, and p is at a row's update only with the row's sample sent.
Becomes(r, p) ==
  /\ replay' = [replay EXCEPT ![r] = p]
  /\ DOMAIN p = Fields /\ IsSeq(p.queue) /\ p.todo \in Seq(DOMAIN errors)
  /\ p.pc # "new"
  /\ IsSeq(log') /\ ToSet(log) \subseteq ToSet(log')
  /\ lost \subseteq lost'
  /\ r \notin lost' => ToSet(replay[r].queue) \subseteq ToSet(p.queue) \cup ToSet(log')
  /\ p.pc = "resolve" =>
       \/ replay[r].pc = "resolve" /\ p.todo = replay[r].todo
       \/ p.todo # << >> /\ Sample[errors[Head(p.todo)].body] \in ToSet(p.queue)

Keeps(r, p) ==
  /\ ledger' = ledger
  /\ \/ p.pc \in {"close", "over"}
     \/ replay[r].pc \in InLoop /\ p.pc \in InLoop /\ p.book = replay[r].book
     \/ p.pc = replay[r].pc /\ p.book = replay[r].book

Opens(r, p) ==
  /\ replay[r].pc = "new" /\ p.pc = "start"
  /\ ledger' = IF p.book THEN [ledger EXCEPT ![r] = "running"] ELSE ledger

Judges(r, p) ==
  /\ replay[r].pc \in InLoop /\ p.pc = "close"
  /\ \E v \in {"succeeded", "failed"} :
       ledger' = IF replay[r].book THEN [ledger EXCEPT ![r] = v] ELSE ledger

ProcessStep(r, p) == Becomes(r, p) /\ (Keeps(r, p) \/ Opens(r, p) \/ Judges(r, p))

LEMMA ShapeOf ==
  ASSUME ReplayInv, NEW r \in Replays
  PROVE  /\ DOMAIN replay = Replays /\ DOMAIN replay[r] = Fields
         /\ IsSeq(replay[r].queue) /\ replay[r].todo \in Seq(DOMAIN errors)
         /\ replay[r].pc = "new" => replay[r].queue = << >>
         /\ IsSeq(log)
  BY DEF ReplayInv, ProcessShape

\* Counting a row or a letter touches neither the queue nor the place.
LEMMA CountedShape ==
  ASSUME ReplayInv, NEW r \in Replays, InRows(r) \/ InLetters(r)
  PROVE  /\ DOMAIN Counted(r) = Fields
         /\ Counted(r).pc = "work" /\ replay[r].pc = "work"
         /\ Counted(r).book = replay[r].book
         /\ Counted(r).queue = replay[r].queue
         /\ Counted(r).todo \in Seq(DOMAIN errors)
<1>1. replay[r].pc = "work"
  BY DEF InRows, InLetters
<1>2. /\ DOMAIN Counted(r) = Fields
      /\ Counted(r).pc = "work"
      /\ Counted(r).book = replay[r].book
      /\ Counted(r).queue = replay[r].queue
      /\ Counted(r).todo = IF replay[r].mode = "postgres" THEN Tail(replay[r].todo)
                                                        ELSE replay[r].todo
  BY <1>1, ShapeOf DEF Counted, Fields
<1>3. replay[r].mode = "postgres" => replay[r].todo # << >>
  BY DEF InRows, InLetters
<1>4. Counted(r).todo \in Seq(DOMAIN errors)
  BY <1>2, <1>3, ShapeOf, HeadTailProperties
<1> QED BY <1>1, <1>2, <1>4

\* A message is queued behind the others; it is the sample of the row that is
\* then to be resolved.
LEMMA QueuedShape ==
  ASSUME ReplayInv, NEW r \in Replays, Sends(r)
  PROVE  /\ DOMAIN Queued(r) = Fields
         /\ Queued(r).pc \in {"work", "resolve"} /\ replay[r].pc = "work"
         /\ Queued(r).book = replay[r].book
         /\ Queued(r).todo \in Seq(DOMAIN errors)
         /\ IsSeq(Queued(r).queue)
         /\ ToSet(replay[r].queue) \subseteq ToSet(Queued(r).queue)
         /\ Queued(r).pc = "resolve" =>
              /\ Queued(r).todo # << >>
              /\ Sample[errors[Head(Queued(r).todo)].body] \in ToSet(Queued(r).queue)
<1> DEFINE q == Append(replay[r].queue, Kept(r))
<1>0. InRows(r) \/ InLetters(r)
  BY DEF Sends
<1>1. /\ IsSeq(q) /\ ToSet(replay[r].queue) \subseteq ToSet(q) /\ Kept(r) \in ToSet(q)
  BY SeqAppend, ShapeOf
<1> HIDE DEF q
<1>2. CASE replay[r].mode = "postgres" /\ replay[r].resolve
  <2>1. /\ replay[r].pc = "work" /\ replay[r].todo # << >>
    BY <1>0, <1>2 DEF InRows, InLetters
  <2>2. /\ DOMAIN Queued(r) = Fields /\ Queued(r).pc = "resolve"
        /\ Queued(r).book = replay[r].book /\ Queued(r).todo = replay[r].todo
        /\ Queued(r).queue = q
    BY <1>2, ShapeOf DEF Queued, Fields, q
  <2>3. Kept(r) = Sample[errors[Head(replay[r].todo)].body]
    BY <1>2 DEF Kept, At
  <2> QED BY <1>1, <2>1, <2>2, <2>3, ShapeOf
<1>3. CASE ~(replay[r].mode = "postgres" /\ replay[r].resolve)
  <2>1. Queued(r) = [Counted(r) EXCEPT !.replayed = @ + 1, !.queue = Append(@, Kept(r))]
    BY <1>3 DEF Queued
  <2>2. /\ DOMAIN Counted(r) = Fields
        /\ Counted(r).pc = "work" /\ replay[r].pc = "work"
        /\ Counted(r).book = replay[r].book
        /\ Counted(r).queue = replay[r].queue
        /\ Counted(r).todo \in Seq(DOMAIN errors)
    BY <1>0, CountedShape
  <2>3. /\ DOMAIN Queued(r) = Fields /\ Queued(r).pc = "work"
        /\ Queued(r).book = replay[r].book /\ Queued(r).todo = Counted(r).todo
        /\ Queued(r).queue = q
    BY <2>1, <2>2 DEF Fields, q
  <2> QED BY <1>1, <2>2, <2>3
<1> QED BY <1>2, <1>3

\* The steps of the loop.
LEMMA LoopStep ==
  ASSUME ReplayInv, NEW r \in Replays,
         \/ Start(r) \/ ReadRows(r) \/ OpenConsumer(r) \/ Skip(r)
         \/ SkipBadLetter(r) \/ SendRaises(r) \/ Send(r) \/ Resolve(r)
  PROVE  \E p : ProcessStep(r, p)
<1> USE ShapeOf
<1>1. CASE Start(r)
  <2>1. PICK o \in Options :
          /\ replay' = [replay EXCEPT ![r] =
               [Idle EXCEPT !.pc = "start", !.mode = o.mode, !.dry = o.dry,
                            !.resolve = o.resolve, !.book = o.book]]
          /\ ledger' = IF o.book THEN [ledger EXCEPT ![r] = "running"] ELSE ledger
    BY <1>1 DEF Start
  <2> DEFINE p == [Idle EXCEPT !.pc = "start", !.mode = o.mode, !.dry = o.dry,
                               !.resolve = o.resolve, !.book = o.book]
  <2>2. /\ DOMAIN p = Fields /\ p.pc = "start" /\ p.book = o.book
        /\ p.queue = << >> /\ p.todo = << >>
    BY DEF Idle, Fields
  <2>3. replay' = [replay EXCEPT ![r] = p]
    BY <2>1
  <2> HIDE DEF p
  <2>4. IsSeq(p.queue) /\ p.todo \in Seq(DOMAIN errors)
    BY <2>2, SeqIsSeq, EmptySeq
  <2>5. replay[r].pc = "new" /\ log' = log /\ lost' = lost
    BY <1>1 DEF Start, kafka
  <2>6. Becomes(r, p) /\ Opens(r, p)
    BY <2>1, <2>2, <2>3, <2>4, <2>5 DEF Becomes, Opens
  <2> QED BY <2>6 DEF ProcessStep
<1>2. CASE ReadRows(r)
  <2>1. PICK s \in Readable("open") :
          replay' = [replay EXCEPT ![r].pc = "work", ![r].todo = s]
    BY <1>2 DEF ReadRows
  <2>2. s \in Seq(DOMAIN errors)
    <3> DEFINE rows == {i \in DOMAIN errors : errors[i].status = "open"}
               n == IF Cardinality(rows) < Limit THEN Cardinality(rows) ELSE Limit
    <3>1. IsFiniteSet(rows)
      <4>1. Len(errors) \in Nat /\ DOMAIN errors = 1..Len(errors)
        BY SeqDomain DEF ReplayInv, RowShape
      <4>2. IsFiniteSet(DOMAIN errors)
        BY <4>1, FS_Interval
      <4>3. rows \in SUBSET DOMAIN errors
        OBVIOUS
      <4> QED BY <4>2, <4>3, FS_Subset
    <3>2. n \in Nat
      BY <3>1, FS_CardinalityType, ReplayBounds
    <3> HIDE DEF n
    <3>3. s \in [1..n -> rows]
      <4>1. s \in {t \in [1..n -> rows] : IsInjective(t)}
        BY <2>1 DEF Readable, n
      <4> QED BY <4>1, Zenon
    <3>4. s \in [1..n -> DOMAIN errors]
      BY <3>3
    <3> QED BY <3>2, <3>4
  <2> DEFINE p == [replay[r] EXCEPT !.pc = "work", !.todo = s]
  <2>3. /\ DOMAIN p = Fields /\ p.pc = "work" /\ p.book = replay[r].book
        /\ p.queue = replay[r].queue /\ p.todo = s
    BY DEF Fields
  <2>4. replay' = [replay EXCEPT ![r] = p]
    BY <2>1
  <2> HIDE DEF p
  <2>5. replay[r].pc = "start" /\ log' = log /\ lost' = lost /\ ledger' = ledger
    BY <1>2 DEF ReadRows, kafka, books
  <2>6. Becomes(r, p) /\ Keeps(r, p)
    BY <2>2, <2>3, <2>4, <2>5 DEF Becomes, Keeps, InLoop
  <2> QED BY <2>6 DEF ProcessStep
<1>3. CASE OpenConsumer(r)
  <2> DEFINE p == [replay[r] EXCEPT !.pc = "work"]
  <2>1. /\ DOMAIN p = Fields /\ p.pc = "work" /\ p.book = replay[r].book
        /\ p.queue = replay[r].queue /\ p.todo = replay[r].todo
    BY DEF Fields
  <2>2. replay' = [replay EXCEPT ![r] = p]
    BY <1>3 DEF OpenConsumer
  <2> HIDE DEF p
  <2>3. replay[r].pc = "start" /\ log' = log /\ lost' = lost /\ ledger' = ledger
    BY <1>3 DEF OpenConsumer, kafka, books
  <2>4. Becomes(r, p) /\ Keeps(r, p)
    BY <2>1, <2>2, <2>3 DEF Becomes, Keeps, InLoop
  <2> QED BY <2>4 DEF ProcessStep
<1>4. CASE Skip(r) \/ SkipBadLetter(r) \/ SendRaises(r)
  <2>1. InRows(r) \/ InLetters(r)
    BY <1>4 DEF Skip, SkipBadLetter, SendRaises, Sends
  <2>2. /\ replay' = [replay EXCEPT ![r] = Counted(r)]
        /\ log' = log /\ lost' = lost /\ ledger' = ledger
    BY <1>4 DEF Skip, SkipBadLetter, SendRaises, kafka, books
  <2>3. Becomes(r, Counted(r)) /\ Keeps(r, Counted(r))
    BY <2>1, <2>2, CountedShape DEF Becomes, Keeps
  <2> QED BY <2>3 DEF ProcessStep
<1>5. CASE Send(r)
  <2>1. /\ Sends(r) /\ replay' = [replay EXCEPT ![r] = Queued(r)]
        /\ log' = log /\ lost' = lost /\ ledger' = ledger
    BY <1>5 DEF Send, kafka
  <2>2. Becomes(r, Queued(r)) /\ Keeps(r, Queued(r))
    BY <2>1, QueuedShape DEF Becomes, Keeps, InLoop
  <2> QED BY <2>2 DEF ProcessStep
<1>6. CASE Resolve(r)
  <2> DEFINE p == [replay[r] EXCEPT !.pc = "work", !.todo = Tail(@)]
  <2>1. /\ DOMAIN p = Fields /\ p.pc = "work" /\ p.book = replay[r].book
        /\ p.queue = replay[r].queue /\ p.todo = Tail(replay[r].todo)
    BY DEF Fields
  <2>2. replay' = [replay EXCEPT ![r] = p]
    BY <1>6 DEF Resolve
  <2> HIDE DEF p
  <2>3. replay[r].pc = "resolve" /\ log' = log /\ lost' = lost /\ ledger' = ledger
    BY <1>6 DEF Resolve, kafka, books
  <2>4. p.todo \in Seq(DOMAIN errors)
    BY <2>1, <2>3, HeadTailProperties DEF ReplayInv, SentInv
  <2>5. Becomes(r, p) /\ Keeps(r, p)
    BY <2>1, <2>2, <2>3, <2>4 DEF Becomes, Keeps, InLoop
  <2> QED BY <2>5 DEF ProcessStep
<1> QED BY <1>1, <1>2, <1>3, <1>4, <1>5, <1>6

\* A verdict, or an exception that ends the loop.
LEMMA VerdictStep ==
  ASSUME ReplayInv, NEW r \in Replays,
         RaiseFailed(r) \/ BookingRaises(r) \/ Finish(r)
  PROVE  \E p : ProcessStep(r, p)
<1> USE ShapeOf
<1>1. CASE RaiseFailed(r) \/ Finish(r)
  <2> DEFINE p == [replay[r] EXCEPT !.pc = "close"]
  <2>1. /\ DOMAIN p = Fields /\ p.pc = "close"
        /\ p.queue = replay[r].queue /\ p.todo = replay[r].todo
    BY DEF Fields
  <2>2. replay' = [replay EXCEPT ![r] = p]
    BY <1>1 DEF RaiseFailed, Finish
  <2> HIDE DEF p
  <2>3. replay[r].pc \in InLoop /\ log' = log /\ lost' = lost
    BY <1>1 DEF RaiseFailed, Finish, LoopOver, InLoop, kafka
  <2>4. \E v \in {"succeeded", "failed"} :
          ledger' = IF replay[r].book THEN [ledger EXCEPT ![r] = v] ELSE ledger
    BY <1>1 DEF RaiseFailed, Finish
  <2>5. Becomes(r, p) /\ Judges(r, p)
    BY <2>1, <2>2, <2>3, <2>4 DEF Becomes, Judges
  <2> QED BY <2>5 DEF ProcessStep
<1>2. CASE BookingRaises(r)
  <2> DEFINE b == IF Sends(r) THEN Queued(r) ELSE replay[r]
             p == [b EXCEPT !.pc = "close"]
  <2>1. /\ DOMAIN b = Fields /\ IsSeq(b.queue) /\ b.todo \in Seq(DOMAIN errors)
        /\ ToSet(replay[r].queue) \subseteq ToSet(b.queue)
    <3>1. CASE Sends(r)
      BY <3>1, QueuedShape
    <3>2. CASE ~Sends(r)
      BY <3>2
    <3> QED BY <3>1, <3>2
  <2>2. replay' = [replay EXCEPT ![r] = p]
    BY <1>2 DEF BookingRaises
  <2> HIDE DEF b
  <2>3. /\ DOMAIN p = Fields /\ p.pc = "close" /\ p.queue = b.queue /\ p.todo = b.todo
    BY <2>1 DEF Fields
  <2> HIDE DEF p
  <2>4. log' = log /\ lost' = lost /\ ledger' = ledger
    BY <1>2 DEF BookingRaises, kafka, books
  <2>5. Becomes(r, p) /\ Keeps(r, p)
    BY <2>1, <2>2, <2>3, <2>4 DEF Becomes, Keeps
  <2> QED BY <2>5 DEF ProcessStep
<1> QED BY <1>1, <1>2

\* The producer's steps, and the end of a process.
LEMMA ProducerStep ==
  ASSUME ReplayInv, NEW r \in Replays,
         Close(r) \/ Deliver(r) \/ Drop(r) \/ Kill(r)
  PROVE  \E p : ProcessStep(r, p)
<1> USE ShapeOf
<1>1. CASE Close(r)
  <2> DEFINE p == [replay[r] EXCEPT !.pc = "over"]
  <2>1. /\ DOMAIN p = Fields /\ p.pc = "over"
        /\ p.queue = replay[r].queue /\ p.todo = replay[r].todo
    BY DEF Fields
  <2>2. replay' = [replay EXCEPT ![r] = p]
    BY <1>1 DEF Close
  <2> HIDE DEF p
  <2>3. log' = log /\ lost' = lost /\ ledger' = ledger
    BY <1>1 DEF Close, kafka, books
  <2>4. Becomes(r, p) /\ Keeps(r, p)
    BY <2>1, <2>2, <2>3 DEF Becomes, Keeps
  <2> QED BY <2>4 DEF ProcessStep
<1>2. CASE Deliver(r) \/ Drop(r)
  <2> DEFINE p == [replay[r] EXCEPT !.queue = Tail(@)]
  <2>1. /\ DOMAIN p = Fields /\ p.pc = replay[r].pc /\ p.book = replay[r].book
        /\ p.queue = Tail(replay[r].queue) /\ p.todo = replay[r].todo
    BY DEF Fields
  <2>2. replay' = [replay EXCEPT ![r] = p]
    BY <1>2 DEF Deliver, Drop
  <2> HIDE DEF p
  <2>3. replay[r].queue # << >> /\ ledger' = ledger
    BY <1>2 DEF Deliver, Drop, books
  <2>4. /\ IsSeq(p.queue) /\ p.pc # "new"
        /\ ToSet(replay[r].queue) \subseteq ToSet(p.queue) \cup {Head(replay[r].queue)}
    BY <2>1, <2>3, SeqTail
  <2>5. /\ IsSeq(log') /\ ToSet(log) \subseteq ToSet(log')
        /\ lost \subseteq lost'
        /\ r \notin lost' => Head(replay[r].queue) \in ToSet(log')
    <3>1. CASE Deliver(r)
      <4>1. log' = Append(log, Head(replay[r].queue)) /\ lost' = lost
        BY <3>1 DEF Deliver
      <4> QED BY <4>1, SeqAppend
    <3>2. CASE Drop(r)
      BY <3>2 DEF Drop, kafka
    <3> QED BY <1>2, <3>1, <3>2
  <2>6. Becomes(r, p)
    BY <2>1, <2>2, <2>4, <2>5 DEF Becomes
  <2>7. Keeps(r, p)
    BY <2>1, <2>3 DEF Keeps
  <2> QED BY <2>6, <2>7 DEF ProcessStep
<1>3. CASE Kill(r)
  <2> DEFINE p == [replay[r] EXCEPT !.pc = "over", !.todo = << >>, !.queue = << >>]
  <2>1. /\ DOMAIN p = Fields /\ p.pc = "over" /\ p.queue = << >> /\ p.todo = << >>
    BY DEF Fields
  <2>2. replay' = [replay EXCEPT ![r] = p]
    BY <1>3 DEF Kill
  <2> HIDE DEF p
  <2>3. /\ log' = log /\ ledger' = ledger
        /\ lost \subseteq lost'
        /\ r \notin lost' => replay[r].queue = << >>
    BY <1>3 DEF Kill, kafka, books
  <2>4. IsSeq(p.queue) /\ p.todo \in Seq(DOMAIN errors)
    BY <2>1, SeqIsSeq, EmptySeq
  <2>5. Becomes(r, p) /\ Keeps(r, p)
    BY <2>1, <2>2, <2>3, <2>4 DEF Becomes, Keeps
  <2> QED BY <2>5 DEF ProcessStep
<1> QED BY <1>1, <1>2, <1>3

-----------------------------------------------------------------------------
(* Steps of the rest of the system leave the replays alone; a replay       *)
(* touches the rows in Resolve only.                                       *)

Aside == /\ UNCHANGED << log, replay, ledger, lost >>
         /\ RowsStep

ByProcess(r) == /\ \E p : ProcessStep(r, p)
                /\ RowsStep

LEMMA StepKinds ==
  ASSUME ReplayInv, [Next]_vars
  PROVE  Aside \/ \E r \in Replays : ByProcess(r)
<1>1. CASE UNCHANGED vars
  BY <1>1, SameRows DEF Aside, vars, kafka, books
<1>2. CASE NormalizeRun
  BY <1>2, NormalizeRows DEF Aside, NormalizeRun, books
<1>3. CASE Compact
  <2>1. UNCHANGED << log, replay, ledger, lost >>
    BY <1>3 DEF Compact, kafka, books
  <2> QED BY <1>3, <2>1, CompactRows DEF Aside
<1>4. ASSUME NEW i \in DOMAIN errors, Triage(i)
      PROVE  Aside
  <2>1. errors' = [errors EXCEPT ![i].status = "ignored"]
    BY <1>4 DEF Triage
  <2>2. "ignored" \notin SentStatuses
    BY DEF SentStatuses
  <2>3. RowsStep
    BY <2>1, <2>2, OneRow, Zenon
  <2> QED BY <1>4, <2>3 DEF Aside, Triage, kafka, books
<1>5. ASSUME NEW r \in Replays, Resolve(r)
      PROVE  ByProcess(r)
  <2>1. /\ replay[r].pc = "resolve"
        /\ errors' = [errors EXCEPT ![Head(replay[r].todo)].status = "resolved"]
    BY <1>5 DEF Resolve
  <2>2. Head(replay[r].todo) \in DOMAIN errors
    BY <2>1, ShapeOf, HeadTailProperties DEF ReplayInv, SentInv
  <2>3. RowsStep
    BY <2>1, <2>2, OneRow
  <2> QED BY <1>5, <2>3, LoopStep DEF ByProcess
<1>6. ASSUME NEW r \in Replays, Start(r) \/ Progress(r) \/ Failure(r), ~Resolve(r)
      PROVE  ByProcess(r)
  <2>1. errors' = errors
    BY <1>6 DEF Progress, Failure, Start, ReadRows, OpenConsumer, Skip, SkipBadLetter,
                Send, Finish, Close, Deliver, SendRaises, RaiseFailed, BookingRaises,
                Drop, Kill
  <2>2. \E p : ProcessStep(r, p)
    BY <1>6, LoopStep, VerdictStep, ProducerStep DEF Progress, Failure
  <2> QED BY <2>1, <2>2, SameRows DEF ByProcess
<1> QED BY <1>1, <1>2, <1>3, <1>4, <1>5, <1>6 DEF Next

-----------------------------------------------------------------------------
(* The invariant is kept.                                                  *)

\* A row keeps its body, and its place in a sequence of places.
LEMMA RowsKept ==
  ASSUME RowsStep
  PROVE  /\ DOMAIN errors \subseteq DOMAIN errors'
         /\ \A i \in DOMAIN errors : errors'[i].body = errors[i].body
  BY DEF RowsStep, RowsGrow, RowsRestamped

\* A row that is closed now was sent before, as long as nothing is lost.
LEMMA ClosedBefore ==
  ASSUME ReplayInv, RowsStep, NEW i \in DOMAIN errors', Closed(i)', lost = {}
  PROVE  i \in DOMAIN errors /\ WasSent(i)
<1>1. CASE RowsGrow
  <2>1. i \in DOMAIN errors
    BY <1>1 DEF RowsGrow, Closed, SentStatuses
  <2>2. Closed(i)
    BY <1>1, <2>1 DEF RowsGrow, Closed
  <2> QED BY <2>1, <2>2 DEF ReplayInv, SentInv
<1>2. CASE RowsRestamped
  BY <1>2 DEF RowsRestamped, Closed, ReplayInv, SentInv
<1> QED BY <1>1, <1>2 DEF RowsStep

LEMMA AsideInv ==
  ASSUME ReplayInv, Aside
  PROVE  ReplayInv'
<1>0. UNCHANGED << log, replay, ledger, lost >> /\ RowsStep
  BY DEF Aside
<1>1. IsSeq(log)' /\ RowShape' /\ LedgerInv'
  BY <1>0 DEF RowsStep, ReplayInv, LedgerInv
<1>2. /\ DOMAIN errors \subseteq DOMAIN errors'
      /\ \A i \in DOMAIN errors : errors'[i].body = errors[i].body
  BY <1>0, RowsKept
<1>3. ProcessShape'
  <2>1. ASSUME NEW r \in Replays
        PROVE  replay[r].todo \in Seq(DOMAIN errors')
    BY <1>2, ShapeOf, SeqMonotonic
  <2> QED BY <1>0, <2>1 DEF ReplayInv, ProcessShape
<1>4. InFlight' = InFlight
  BY <1>0 DEF InFlight
<1>5. ASSUME NEW i \in DOMAIN errors, WasSent(i)
      PROVE  WasSent(i)'
  BY <1>2, <1>4, <1>5 DEF WasSent
<1>6. ASSUME NEW i \in DOMAIN errors', Closed(i)', lost' = {}
      PROVE  WasSent(i)'
  BY <1>0, <1>5, <1>6, ClosedBefore
<1>7. ASSUME NEW r \in Replays, replay'[r].pc = "resolve"
      PROVE  /\ replay'[r].todo # << >>
             /\ lost' = {} => WasSent(Head(replay[r].todo))'
  <2>1. replay[r].pc = "resolve" /\ replay[r].todo # << >>
    BY <1>0, <1>7 DEF ReplayInv, SentInv
  <2>2. Head(replay[r].todo) \in DOMAIN errors
    BY <2>1, ShapeOf, HeadTailProperties
  <2>3. lost = {} => WasSent(Head(replay[r].todo))
    BY <2>1 DEF ReplayInv, SentInv
  <2> QED BY <1>0, <1>2, <1>4, <2>1, <2>2, <2>3 DEF WasSent
<1>8. SentInv'
  BY <1>6, <1>7 DEF SentInv
<1> QED BY <1>1, <1>3, <1>8 DEF ReplayInv

LEMMA ProcessLedger ==
  ASSUME ReplayInv, NEW r \in Replays, NEW p, ProcessStep(r, p)
  PROVE  LedgerInv'
<1>1. /\ DOMAIN replay = Replays /\ replay' = [replay EXCEPT ![r] = p] /\ p.pc # "new"
      /\ Keeps(r, p) \/ Opens(r, p) \/ Judges(r, p)
  BY ShapeOf DEF ProcessStep, Becomes
<1>2. /\ replay'[r] = p
      /\ \A q \in Replays \ {r} : replay'[q] = replay[q]
  BY <1>1
<1>3. /\ ledger' \in [Replays -> {"absent", "running", "succeeded", "failed"}]
      /\ \A q \in Replays \ {r} : ledger'[q] = ledger[q]
  BY <1>1 DEF Keeps, Opens, Judges, ReplayInv, LedgerInv
<1>4. p.pc \in InLoop /\ p.book => ledger'[r] = "running"
  <2>1. CASE Keeps(r, p)
    BY <1>1, <2>1 DEF Keeps, InLoop, ReplayInv, LedgerInv
  <2>2. CASE Opens(r, p)
    BY <2>2 DEF Opens, ReplayInv, LedgerInv
  <2>3. CASE Judges(r, p)
    BY <2>3 DEF Judges, InLoop
  <2> QED BY <1>1, <2>1, <2>2, <2>3
<1>5. ASSUME NEW q \in Replays
      PROVE  /\ replay'[q].pc = "new" => ledger'[q] = "absent"
             /\ replay'[q].pc \in InLoop /\ replay'[q].book => ledger'[q] = "running"
  <2>1. CASE q = r
    BY <1>1, <1>2, <1>4, <2>1
  <2>2. CASE q # r
    BY <1>2, <1>3, <2>2 DEF ReplayInv, LedgerInv, InLoop
  <2> QED BY <2>1, <2>2
<1> QED BY <1>3, <1>5 DEF LedgerInv, InLoop

LEMMA ProcessInv ==
  ASSUME ReplayInv, NEW r \in Replays, ByProcess(r)
  PROVE  ReplayInv'
<1>1. PICK p : ProcessStep(r, p)
  BY DEF ByProcess
<1>2. /\ DOMAIN replay = Replays /\ replay' = [replay EXCEPT ![r] = p]
      /\ DOMAIN p = Fields /\ IsSeq(p.queue) /\ p.todo \in Seq(DOMAIN errors)
      /\ p.pc # "new" /\ IsSeq(log') /\ ToSet(log) \subseteq ToSet(log')
      /\ lost' = {} =>
           /\ lost = {}
           /\ ToSet(replay[r].queue) \subseteq ToSet(p.queue) \cup ToSet(log')
  BY <1>1, ShapeOf DEF ProcessStep, Becomes
<1>3. /\ DOMAIN replay' = Replays /\ replay'[r] = p
      /\ \A q \in Replays \ {r} : replay'[q] = replay[q]
  BY <1>2
<1>4. RowsStep /\ RowShape'
  BY DEF ByProcess, RowsStep
<1>5. /\ DOMAIN errors \subseteq DOMAIN errors'
      /\ \A i \in DOMAIN errors : errors'[i].body = errors[i].body
  BY <1>4, RowsKept
<1>6. ProcessShape'
  <2>1. ASSUME NEW q \in Replays
        PROVE  /\ DOMAIN replay'[q] = Fields /\ IsSeq(replay'[q].queue)
               /\ replay'[q].todo \in Seq(DOMAIN errors)
               /\ replay'[q].pc = "new" => replay'[q].queue = << >>
    <3>1. CASE q = r
      BY <1>2, <1>3, <3>1
    <3>2. CASE q # r
      BY <1>3, <3>2, ShapeOf
    <3> QED BY <3>1, <3>2
  <2>2. ASSUME NEW q \in Replays
        PROVE  replay'[q].todo \in Seq(DOMAIN errors')
    BY <1>5, <2>1, SeqMonotonic
  <2> QED BY <1>3, <2>1, <2>2 DEF ProcessShape
<1>7. lost' = {} => lost = {} /\ InFlight \subseteq InFlight'
  <2> SUFFICES ASSUME lost' = {} PROVE InFlight \subseteq InFlight'
    BY <1>2
  <2>1. ASSUME NEW m \in ToSet(log) PROVE m \in InFlight'
    BY <1>2 DEF InFlight
  <2>2. ASSUME NEW q \in Replays, NEW m \in ToSet(replay[q].queue)
        PROVE  m \in InFlight'
    <3>1. CASE q = r
      <4>1. m \in ToSet(replay'[r].queue) \/ m \in ToSet(log')
        BY <1>2, <1>3, <2>2, <3>1
      <4> QED BY <4>1 DEF InFlight
    <3>2. CASE q # r
      <4>1. m \in ToSet(replay'[q].queue)
        BY <1>3, <2>2, <3>2
      <4> QED BY <4>1 DEF InFlight
    <3> QED BY <3>1, <3>2
  <2> QED BY <2>1, <2>2 DEF InFlight
<1>8. ASSUME NEW i \in DOMAIN errors, lost' = {}, Sample[errors[i].body] \in InFlight
      PROVE  WasSent(i)'
  BY <1>5, <1>7, <1>8 DEF WasSent
<1>9. ASSUME NEW i \in DOMAIN errors', Closed(i)', lost' = {}
      PROVE  WasSent(i)'
  BY <1>4, <1>7, <1>8, <1>9, ClosedBefore DEF WasSent
<1>10. ASSUME NEW q \in Replays, replay'[q].pc = "resolve"
       PROVE  /\ replay'[q].todo # << >>
              /\ lost' = {} => WasSent(Head(replay[q].todo))'
  <2>1. CASE /\ replay[q].pc = "resolve" /\ replay'[q].todo = replay[q].todo
    <3>1. replay[q].todo # << >> /\ Head(replay[q].todo) \in DOMAIN errors
      BY <2>1, ShapeOf, HeadTailProperties DEF ReplayInv, SentInv
    <3>2. lost = {} => Sample[errors[Head(replay[q].todo)].body] \in InFlight
      BY <2>1 DEF ReplayInv, SentInv, WasSent
    <3>3. lost' = {} => Sample[errors'[Head(replay'[q].todo)].body] \in InFlight'
      BY <1>5, <1>7, <2>1, <3>1, <3>2
    <3> QED BY <2>1, <3>1, <3>3 DEF WasSent
  <2>2. CASE /\ q = r /\ p.todo # << >>
             /\ Sample[errors[Head(p.todo)].body] \in ToSet(p.queue)
    <3>1. Head(p.todo) \in DOMAIN errors
      BY <1>2, <2>2, HeadTailProperties
    <3>2. Sample[errors'[Head(p.todo)].body] \in ToSet(replay'[r].queue)
      BY <1>3, <1>5, <2>2, <3>1
    <3>3. Sample[errors'[Head(p.todo)].body] \in InFlight'
      BY <3>2 DEF InFlight
    <3> QED BY <1>3, <2>2, <3>3 DEF WasSent
  <2>3. CASE q # r
    BY <1>3, <1>10, <2>1, <2>3
  <2>4. CASE q = r
    BY <1>1, <1>3, <1>10, <2>1, <2>2, <2>4 DEF ProcessStep, Becomes
  <2> QED BY <2>3, <2>4
<1>11. SentInv'
  BY <1>9, <1>10 DEF SentInv
<1>12. LedgerInv'
  BY <1>1, ProcessLedger
<1> QED BY <1>2, <1>4, <1>6, <1>11, <1>12 DEF ReplayInv

LEMMA StepInv == ReplayInv /\ [Next]_vars => ReplayInv'
  BY StepKinds, AsideInv, ProcessInv

LEMMA Invariance == Spec => []ReplayInv
<1>1. Init => ReplayInv
  BY InitInv
<1>2. ReplayInv /\ [Next]_vars => ReplayInv'
  BY StepInv
<1> QED BY <1>1, <1>2, PTL DEF Spec

-----------------------------------------------------------------------------
(* The theorems.                                                           *)

\* A row of parse_errors is resolved, and in time archived, only after its
\* sample was sent: as long as no process was killed with messages queued and
\* no message dropped, it is in the raw topic or in a queue, however many
\* replays, normalizer runs, operators and compactions overlap.
THEOREM ClosedSent == Spec => []ClosedWasSent
<1>1. ReplayInv => ClosedWasSent
  <2> SUFFICES ASSUME ReplayInv, lost = {}, NEW i \in DOMAIN errors, Closed(i)
               PROVE  \/ Sample[errors[i].body] \in ToSet(log)
                      \/ \E r \in Replays :
                           Sample[errors[i].body] \in ToSet(replay[r].queue)
    BY DEF ClosedWasSent, Closed
  <2>1. Sample[errors[i].body] \in InFlight
    BY DEF ReplayInv, SentInv, WasSent
  <2> QED BY <2>1 DEF InFlight
<1> QED BY <1>1, Invariance, PTL

\* The rows of dlq_replay_runs keep the promise of RunLedger: a run's row is
\* written once, gets one verdict while its process is in the loop, and keeps
\* it, for overlapping, failing and killed replays.
THEOREM LedgerRefines == Spec => LedgerOnlyCloses
<1>1. Init => Ledger!Init
  BY DEF Init, Ledger!Init
<1>2. ReplayInv /\ [Next]_vars => [Ledger!Next]_ledger
  <2> SUFFICES ASSUME ReplayInv, [Next]_vars PROVE [Ledger!Next]_ledger
    OBVIOUS
  <2>1. CASE Aside
    BY <2>1 DEF Aside
  <2>2. ASSUME NEW r \in Replays, NEW p, ProcessStep(r, p)
        PROVE  [Ledger!Next]_ledger
    <3>1. CASE Keeps(r, p)
      BY <3>1 DEF Keeps
    <3>2. CASE Opens(r, p)
      <4>1. ledger[r] = "absent"
        BY <3>2 DEF Opens, ReplayInv, LedgerInv
      <4> QED BY <3>2, <4>1 DEF Opens, Ledger!Next, Ledger!Open
    <3>3. CASE Judges(r, p)
      <4>1. PICK v \in {"succeeded", "failed"} :
              ledger' = IF replay[r].book THEN [ledger EXCEPT ![r] = v] ELSE ledger
        BY <3>3 DEF Judges
      <4>2. replay[r].book => ledger[r] = "running"
        BY <3>3 DEF Judges, InLoop, ReplayInv, LedgerInv
      <4> QED BY <4>1, <4>2 DEF Ledger!Next, Ledger!Close
    <3> QED BY <2>2, <3>1, <3>2, <3>3 DEF ProcessStep
  <2> QED BY <2>1, <2>2, StepKinds DEF ByProcess
<1> QED BY <1>1, <1>2, Invariance, PTL DEF Spec, LedgerOnlyCloses, Ledger!Spec

-----------------------------------------------------------------------------
(* What a run books: its items against its counts, its queue and the topic. *)

\* The rows of todo that have no item yet.
Ahead(r) == IF replay[r].pc = "resolve" THEN Tail(replay[r].todo) ELSE replay[r].todo

Place(r) == IF replay[r].mode = "postgres" THEN DOMAIN errors ELSE DOMAIN letters

\* An item is of a row or a letter that stays; what it says was replayed is on
\* its way, unless lost says otherwise.
Noted(r) ==
  /\ IsFiniteSet(items[r])
  /\ \A i \in items[r] : i.id \in Place(r)
  /\ r \notin lost => \A i \in ItemsOf(r, "replayed") :
       Meant(r, i.id) \in ToSet(log) \cup ToSet(replay[r].queue)

\* The process has counted its items, and has none of what is ahead of it.
Tally(r) ==
  replay[r].pc \in InLoop /\ replay[r].book =>
    /\ replay[r].scanned \in Nat /\ replay[r].replayed \in Nat
    /\ Cardinality(ItemsOf(r, "replayed")) = replay[r].replayed
    /\ replay[r].mode = "postgres" =>
         /\ Cardinality(items[r]) = replay[r].scanned
         /\ IsInjective(replay[r].todo)
         /\ \A i \in items[r] : i.id \notin ToSet(Ahead(r))
    /\ replay[r].mode = "kafka" =>
         replay[r].pos \in Nat /\ \A i \in items[r] : i.id <= replay[r].pos

\* The row tells what the items do, and nothing is queued any more.
Told(r) ==
  ledger[r] = "succeeded" =>
    /\ replay[r].pc \in {"close", "over"} /\ replay[r].queue = << >>
    /\ Cardinality(ItemsOf(r, "replayed")) = booked[r].replayed
    /\ replay[r].mode = "postgres" => Cardinality(items[r]) = booked[r].scanned

Unread(r) == replay[r].pc \in {"new", "start"} => items[r] = {}

Own(r) == Noted(r) /\ Tally(r) /\ Told(r) /\ Unread(r)

LettersShape == IsSeq(letters) /\ Len(letters) <= MaxLetters

BooksInv == /\ LettersShape
            /\ DOMAIN items = Replays /\ DOMAIN booked = Replays
            /\ \A r \in Replays : Own(r)

\* Rows and letters keep their places.
PlacesKept == /\ DOMAIN letters \subseteq DOMAIN letters'
              /\ \A i \in DOMAIN letters : letters'[i] = letters[i]
              /\ DOMAIN errors \subseteq DOMAIN errors'
              /\ \A i \in DOMAIN errors : errors'[i].body = errors[i].body

LEMMA BooksInit == ASSUME Init PROVE BooksInv
<1>1. IsSeq(<< >>) /\ Len(<< >>) = 0
  BY SeqIsSeq, EmptySeq
<1>2. LettersShape
  BY <1>1, ReplayBounds DEF Init, LettersShape
<1>3. ASSUME NEW r \in Replays PROVE Own(r)
  <2>1. items[r] = {} /\ replay[r] = Idle /\ ledger[r] = "absent"
    BY DEF Init
  <2>2. Idle.pc = "new" /\ Idle.mode = "postgres"
    BY DEF Idle
  <2>3. Noted(r)
    BY <2>1, FS_EmptySet DEF Noted, ItemsOf
  <2> QED BY <2>1, <2>2, <2>3 DEF Own, Tally, Told, Unread, InLoop
<1> QED BY <1>2, <1>3 DEF BooksInv, Init

LEMMA TailInjective ==
  ASSUME NEW s, IsSeq(s), s # << >>, IsInjective(s)
  PROVE  /\ IsInjective(Tail(s)) /\ Head(s) \notin ToSet(Tail(s))
         /\ ToSet(Tail(s)) \subseteq ToSet(s)
<1>1. /\ Tail(s) \in Seq(ToSet(s))
      /\ Len(Tail(s)) = Len(s) - 1
      /\ \A i \in 1..Len(Tail(s)) : Tail(s)[i] = s[i + 1]
      /\ Head(s) = s[1]
  BY HeadTailProperties DEF IsSeq
<1>2. IsSeq(Tail(s))
  BY <1>1, SeqIsSeq
<1>3. /\ Len(s) \in Nat /\ DOMAIN s = 1..Len(s) /\ DOMAIN Tail(s) = 1..(Len(s) - 1)
      /\ Len(s) >= 1
  <2>1. Len(s) # 0
    BY EmptySeq DEF IsSeq
  <2> QED BY <1>1, <1>2, <2>1, SeqDomain
<1>4. ASSUME NEW i \in DOMAIN Tail(s)
      PROVE  i + 1 \in DOMAIN s /\ 1 \in DOMAIN s /\ Tail(s)[i] = s[i + 1] /\ i + 1 # 1
  BY <1>1, <1>3
<1>5. IsInjective(Tail(s))
  <2> SUFFICES ASSUME NEW a \in DOMAIN Tail(s), NEW b \in DOMAIN Tail(s),
                      Tail(s)[a] = Tail(s)[b]
               PROVE  a = b
    BY DEF IsInjective
  <2>1. a + 1 = b + 1
    BY <1>4 DEF IsInjective
  <2> QED BY <1>3, <2>1
<1>6. Head(s) \notin ToSet(Tail(s))
  <2> SUFFICES ASSUME NEW i \in DOMAIN Tail(s), Tail(s)[i] = s[1] PROVE FALSE
    BY <1>1 DEF ToSet
  <2>1. s[i + 1] = s[1] /\ i + 1 \in DOMAIN s /\ 1 \in DOMAIN s /\ i + 1 # 1
    BY <1>4
  <2> QED BY <2>1 DEF IsInjective
<1>7. ToSet(Tail(s)) \subseteq ToSet(s)
  BY <1>4 DEF ToSet
<1> QED BY <1>5, <1>6, <1>7

LEMMA MeantKept ==
  ASSUME PlacesKept, NEW q, replay'[q].mode = replay[q].mode, NEW id \in Place(q)
  PROVE  id \in Place(q)' /\ Meant(q, id)' = Meant(q, id)
  BY DEF PlacesKept, Place, Meant

\* A run that the step does not take.
LEMMA OwnKept ==
  ASSUME PlacesKept, NEW q \in Replays, Own(q), replay'[q] = replay[q],
         items'[q] = items[q], ledger'[q] = ledger[q], booked'[q] = booked[q],
         lost \subseteq lost', ToSet(log) \subseteq ToSet(log')
  PROVE  Own(q)'
<1>1. \A s : ItemsOf(q, s)' = ItemsOf(q, s)
  BY DEF ItemsOf
<1>2. Noted(q)'
  <2>1. \A i \in items[q] : i.id \in Place(q)
    BY DEF Own, Noted
  <2>2. \A i \in items[q] : i.id \in Place(q)' /\ Meant(q, i.id)' = Meant(q, i.id)
    BY <2>1, MeantKept
  <2>3. ItemsOf(q, "replayed") \subseteq items[q]
    BY DEF ItemsOf
  <2> QED BY <1>1, <2>2, <2>3 DEF Own, Noted
<1>3. Tally(q)' /\ Told(q)' /\ Unread(q)'
  BY <1>1 DEF Own, Tally, Told, Unread, Ahead
<1> QED BY <1>2, <1>3 DEF Own

LEMMA BooksFrame ==
  ASSUME ReplayInv, BooksInv, NEW r \in Replays, NEW p, replay' = [replay EXCEPT ![r] = p],
         DOMAIN items' = Replays, DOMAIN booked' = Replays,
         \A q \in Replays \ {r} : /\ items'[q] = items[q] /\ ledger'[q] = ledger[q]
                                  /\ booked'[q] = booked[q],
         lost \subseteq lost', ToSet(log) \subseteq ToSet(log'),
         letters' = letters, RowsStep, Own(r)'
  PROVE  BooksInv'
<1>1. \A q \in Replays \ {r} : replay'[q] = replay[q]
  BY ShapeOf
<1>2. PlacesKept
  BY RowsKept DEF PlacesKept
<1>3. ASSUME NEW q \in Replays \ {r} PROVE Own(q)'
  <2>1. Own(q)
    BY DEF BooksInv
  <2> QED BY <1>1, <1>2, <2>1, OwnKept
<1>4. LettersShape'
  BY DEF BooksInv, LettersShape
<1> QED BY <1>3, <1>4 DEF BooksInv

-----------------------------------------------------------------------------
(* The rest of the system.                                                 *)

LEMMA NormalizeLetters ==
  ASSUME ReplayInv, BooksInv, NormalizeRun
  PROVE  /\ LettersShape'
         /\ DOMAIN letters \subseteq DOMAIN letters'
         /\ \A i \in DOMAIN letters : letters'[i] = letters[i]
<1> DEFINE new == Letters(Rejected)
           all == letters \o new
           n == IF Len(all) < MaxLetters THEN Len(all) ELSE MaxLetters
<1>1. IsSeq(new)
  <2> DEFINE bad == {i \in DOMAIN log : IsBad(log[i])}
             k == Cardinality(bad)
  <2>1. IsFiniteSet(bad)
    <3>1. Len(log) \in Nat /\ DOMAIN log = 1..Len(log)
      BY SeqDomain DEF ReplayInv
    <3>2. IsFiniteSet(DOMAIN log)
      BY <3>1, FS_Interval
    <3>3. bad \in SUBSET DOMAIN log
      OBVIOUS
    <3> QED BY <3>2, <3>3, FS_Subset
  <2>2. k \in Nat
    BY <2>1, FS_CardinalityType
  <2>3. DOMAIN Rejected = 1..k
    BY DEF Rejected
  <2>4. DOMAIN new = 1..k /\ new = [i \in 1..k |-> new[i]]
    BY <2>3 DEF Letters
  <2> HIDE DEF k, new
  <2>5. new \in [1..k -> ToSet(new)]
    BY <2>4 DEF ToSet
  <2> QED BY <2>2, <2>5 DEF IsSeq
<1>2. IsSeq(letters) /\ Len(letters) <= MaxLetters /\ MaxLetters \in Nat
  BY ReplayBounds DEF BooksInv, LettersShape
<1> HIDE DEF new
<1>3. /\ IsSeq(all) /\ DOMAIN letters \subseteq DOMAIN all
      /\ \A i \in DOMAIN letters : all[i] = letters[i]
  BY <1>1, <1>2, SeqConcat
<1>4. letters' = SubSeq(all, 1, n)
  BY DEF NormalizeRun, new
<1> HIDE DEF all
<1>5. /\ Len(all) \in Nat /\ DOMAIN all = 1..Len(all)
      /\ Len(letters) \in Nat /\ DOMAIN letters = 1..Len(letters)
  BY <1>2, <1>3, SeqDomain
<1>6. Len(letters) <= Len(all)
  <2>1. CASE Len(letters) = 0
    BY <1>5, <2>1
  <2>2. CASE Len(letters) # 0
    <3>1. Len(letters) \in DOMAIN letters
      BY <1>5, <2>2
    <3>2. Len(letters) \in DOMAIN all
      BY <1>3, <3>1
    <3> QED BY <1>5, <3>2
  <2> QED BY <2>1, <2>2
<1>7. n \in Nat /\ n <= Len(all) /\ n <= MaxLetters /\ Len(letters) <= n
  BY <1>2, <1>5, <1>6
<1> HIDE DEF n
<1>8. \A i \in 1..n : all[i] \in ToSet(all)
  BY <1>5, <1>7 DEF ToSet
<1>9. /\ letters' \in Seq(ToSet(all)) /\ Len(letters') = n
      /\ \A i \in 1..n : letters'[i] = all[i]
  <2>1. /\ SubSeq(all, 1, n) \in Seq(ToSet(all))
        /\ Len(SubSeq(all, 1, n)) = IF 1 <= n THEN n - 1 + 1 ELSE 0
        /\ \A i \in 1..(n - 1 + 1) : SubSeq(all, 1, n)[i] = all[1 + i - 1]
    <3>1. 1 \in Int /\ n \in Int
      BY <1>7
    <3> QED BY <1>8, <3>1, SubSeqProperties
  <2> QED BY <1>4, <1>7, <2>1
<1>10. IsSeq(letters')
  BY <1>9, SeqIsSeq
<1>11. DOMAIN letters' = 1..n
  BY <1>9, <1>10, SeqDomain
<1>12. \A i \in DOMAIN letters : i \in DOMAIN letters' /\ letters'[i] = letters[i]
  BY <1>3, <1>5, <1>7, <1>9, <1>11
<1> QED BY <1>7, <1>9, <1>10, <1>12 DEF LettersShape

LEMMA RestBooks ==
  ASSUME ReplayInv, BooksInv, RowsStep,
         \/ UNCHANGED vars \/ NormalizeRun \/ Compact
         \/ \E i \in DOMAIN errors : Triage(i)
  PROVE  BooksInv'
<1>1. UNCHANGED << log, books, replay, lost >>
  BY DEF vars, kafka, NormalizeRun, Compact, Triage
<1>2. /\ LettersShape' /\ DOMAIN letters \subseteq DOMAIN letters'
      /\ \A i \in DOMAIN letters : letters'[i] = letters[i]
  <2>1. CASE NormalizeRun
    BY <2>1, NormalizeLetters
  <2>2. CASE letters' = letters
    BY <2>2 DEF BooksInv, LettersShape
  <2> QED BY <2>1, <2>2 DEF vars, kafka, Compact, Triage
<1>3. PlacesKept
  BY <1>2, RowsKept DEF PlacesKept
<1>4. ASSUME NEW q \in Replays PROVE Own(q)'
  <2>1. Own(q)
    BY DEF BooksInv
  <2> QED BY <1>1, <1>3, <2>1, OwnKept DEF books
<1> QED BY <1>1, <1>2, <1>4 DEF BooksInv, books

-----------------------------------------------------------------------------
(* A replay's own steps.                                                    *)

LEMMA CountedFields ==
  ASSUME ReplayInv, NEW r \in Replays
  PROVE  /\ Counted(r).pc = replay[r].pc /\ Counted(r).mode = replay[r].mode
         /\ Counted(r).book = replay[r].book /\ Counted(r).queue = replay[r].queue
         /\ Counted(r).scanned = replay[r].scanned + 1
         /\ Counted(r).replayed = replay[r].replayed
         /\ replay[r].mode = "postgres" => Counted(r).todo = Tail(replay[r].todo)
         /\ replay[r].mode = "kafka" => /\ Counted(r).pos = replay[r].pos + 1
                                        /\ Counted(r).todo = replay[r].todo
         /\ DOMAIN Counted(r) = Fields
  BY ShapeOf DEF Counted, Fields

LEMMA QueuedFields ==
  ASSUME ReplayInv, NEW r \in Replays, replay[r].pc = "work"
  PROVE  /\ Queued(r).pc \in {"work", "resolve"} /\ Queued(r).mode = replay[r].mode
         /\ Queued(r).book = replay[r].book
         /\ Queued(r).queue = Append(replay[r].queue, Kept(r))
         /\ Queued(r).scanned = replay[r].scanned + 1
         /\ Queued(r).replayed = replay[r].replayed + 1
         /\ replay[r].mode = "postgres" =>
              Queued(r).todo = IF Queued(r).pc = "resolve" THEN replay[r].todo
                                                           ELSE Tail(replay[r].todo)
         /\ replay[r].mode = "kafka" =>
              Queued(r).pc = "work" /\ Queued(r).pos = replay[r].pos + 1
<1>1. CASE replay[r].mode = "postgres" /\ replay[r].resolve
  <2>1. Queued(r) = [replay[r] EXCEPT !.pc = "resolve", !.scanned = @ + 1, !.used = @ + 1,
                       !.replayed = @ + 1, !.queue = Append(@, Kept(r))]
    BY <1>1 DEF Queued
  <2> QED BY <1>1, <2>1, ShapeOf DEF Fields
<1>2. CASE ~(replay[r].mode = "postgres" /\ replay[r].resolve)
  <2>1. Queued(r) = [Counted(r) EXCEPT !.replayed = @ + 1, !.queue = Append(@, Kept(r))]
    BY <1>2 DEF Queued
  <2> DEFINE c == Counted(r)
  <2>2. /\ DOMAIN c = Fields /\ c.pc = "work" /\ c.mode = replay[r].mode
        /\ c.book = replay[r].book /\ c.queue = replay[r].queue
        /\ c.scanned = replay[r].scanned + 1 /\ c.replayed = replay[r].replayed
        /\ replay[r].mode = "postgres" => c.todo = Tail(replay[r].todo)
        /\ replay[r].mode = "kafka" => c.pos = replay[r].pos + 1
    BY CountedFields
  <2>3. Queued(r) = [c EXCEPT !.replayed = @ + 1, !.queue = Append(@, Kept(r))]
    BY <2>1
  <2> HIDE DEF c
  <2> DEFINE q == Queued(r)
  <2>4. /\ q.pc = "work" /\ q.mode = replay[r].mode /\ q.book = replay[r].book
        /\ q.queue = Append(replay[r].queue, Kept(r))
        /\ q.scanned = replay[r].scanned + 1 /\ q.replayed = replay[r].replayed + 1
        /\ q.todo = c.todo /\ q.pos = c.pos
    BY <2>2, <2>3 DEF Fields
  <2> QED BY <1>2, <2>2, <2>4
<1> QED BY <1>1, <1>2

\* An item of another row makes one more, and one more replayed if it says so.
LEMMA OneMore ==
  ASSUME NEW S, IsFiniteSet(S), NEW x, x \notin S
  PROVE  /\ IsFiniteSet(S \cup {x}) /\ Cardinality(S) \in Nat
         /\ Cardinality(S \cup {x}) = Cardinality(S) + 1
         /\ Cardinality({i \in S : i.status = "replayed"}) \in Nat
         /\ Cardinality({i \in S \cup {x} : i.status = "replayed"}) =
              Cardinality({i \in S : i.status = "replayed"})
                + (IF x.status = "replayed" THEN 1 ELSE 0)
<1> DEFINE Sent(X) == {i \in X : i.status = "replayed"}
<1>1. Sent(S) \in SUBSET S
  OBVIOUS
<1>2. IsFiniteSet(Sent(S))
  BY <1>1, FS_Subset
<1>3. x \notin Sent(S)
  OBVIOUS
<1>4. Cardinality(Sent(S)) \in Nat /\ Cardinality(S) \in Nat
  BY <1>2, FS_CardinalityType
<1>5. IsFiniteSet(S \cup {x}) /\ Cardinality(S \cup {x}) = Cardinality(S) + 1
  BY FS_AddElement
<1>6. Cardinality(Sent(S) \cup {x}) = Cardinality(Sent(S)) + 1
  BY <1>2, <1>3, FS_AddElement
<1>7. Sent(S \cup {x}) = IF x.status = "replayed" THEN Sent(S) \cup {x} ELSE Sent(S)
  OBVIOUS
<1>8. Cardinality(Sent(S \cup {x})) =
        Cardinality(Sent(S)) + (IF x.status = "replayed" THEN 1 ELSE 0)
  <2> HIDE DEF Sent
  <2> QED BY <1>4, <1>6, <1>7
<1> QED BY <1>4, <1>5, <1>8

LEMMA ItemNumber ==
  ASSUME ReplayInv, BooksInv, NEW r \in Replays, replay[r].mode = "kafka", NEW i \in items[r]
  PROVE  i.id \in Nat
<1>1. Len(letters) \in Nat /\ DOMAIN letters = 1..Len(letters)
  BY SeqDomain DEF BooksInv, LettersShape
<1>2. i.id \in DOMAIN letters
  BY DEF BooksInv, Own, Noted, Place
<1> QED BY <1>1, <1>2

\* What is at hand has a place, and no item yet.
LEMMA AtHand ==
  ASSUME ReplayInv, BooksInv, NEW r \in Replays, InRows(r) \/ InLetters(r)
  PROVE  /\ replay[r].pc = "work" /\ replay[r].mode \in {"postgres", "kafka"}
         /\ Kept(r) = Meant(r, At(r))
         /\ replay[r].mode = "postgres" =>
              /\ IsSeq(replay[r].todo) /\ replay[r].todo # << >>
              /\ At(r) = Head(replay[r].todo) /\ At(r) \in Place(r)
         /\ replay[r].mode = "kafka" => At(r) = replay[r].pos + 1
         /\ replay[r].mode = "kafka" /\ replay[r].pos \in Nat => At(r) \in Place(r)
         /\ replay[r].book => \A i \in items[r] : i.id # At(r)
<1>1. replay[r].pc = "work" /\ replay[r].mode \in {"postgres", "kafka"}
  BY DEF InRows, InLetters
<1>2. Kept(r) = Meant(r, At(r))
  BY DEF Kept, Meant
<1>3. replay[r].mode = "postgres" =>
        /\ IsSeq(replay[r].todo) /\ replay[r].todo # << >>
        /\ At(r) = Head(replay[r].todo) /\ At(r) \in DOMAIN errors
  <2> SUFFICES ASSUME replay[r].mode = "postgres"
               PROVE  /\ IsSeq(replay[r].todo) /\ replay[r].todo # << >>
                      /\ Head(replay[r].todo) \in DOMAIN errors
    BY DEF At
  <2>1. replay[r].todo # << >> /\ replay[r].todo \in Seq(DOMAIN errors)
    BY ShapeOf DEF InRows, InLetters
  <2> QED BY <2>1, SeqIsSeq, HeadTailProperties
<1>4. replay[r].mode = "kafka" => At(r) = replay[r].pos + 1
  BY DEF At
<1>5. replay[r].mode = "kafka" /\ replay[r].pos \in Nat => At(r) \in DOMAIN letters
  <2> SUFFICES ASSUME replay[r].mode = "kafka", replay[r].pos \in Nat
               PROVE  replay[r].pos + 1 \in DOMAIN letters
    BY <1>4
  <2>1. replay[r].pos < Len(letters)
    BY DEF InRows, InLetters
  <2>2. Len(letters) \in Nat /\ DOMAIN letters = 1..Len(letters)
    BY SeqDomain DEF BooksInv, LettersShape
  <2> QED BY <2>1, <2>2
<1>6. ASSUME replay[r].book, NEW i \in items[r] PROVE i.id # At(r)
  <2>1. Tally(r)
    BY DEF BooksInv, Own
  <2>2. CASE replay[r].mode = "postgres"
    <3>1. i.id \notin ToSet(replay[r].todo)
      BY <1>1, <1>6, <2>1, <2>2 DEF Tally, InLoop, Ahead
    <3>2. Head(replay[r].todo) \in ToSet(replay[r].todo)
      BY <1>3, <2>2, SeqTail
    <3> QED BY <1>3, <2>2, <3>1, <3>2
  <2>3. CASE replay[r].mode = "kafka"
    <3>1. replay[r].pos \in Nat /\ i.id <= replay[r].pos
      BY <1>1, <1>6, <2>1, <2>3 DEF Tally, InLoop
    <3>a. i.id \in Nat
      BY <1>6, <2>3, ItemNumber
    <3>2. i.id # replay[r].pos + 1
      BY <3>a, <3>1
    <3> QED BY <1>4, <2>3, <3>2
  <2> QED BY <1>1, <2>2, <2>3
<1> QED BY <1>1, <1>2, <1>3, <1>4, <1>5, <1>6 DEF Place

\* An item is booked, or no item is: the counts, the items and what is ahead
\* move together.
LEMMA BookedTally ==
  ASSUME ReplayInv, BooksInv, NEW r \in Replays, InRows(r) \/ InLetters(r),
         NEW st \in {"replayed", "skipped", "failed"}, Booked(r, st),
         replay'[r].pc \in {"work", "resolve"}, replay'[r].mode = replay[r].mode,
         replay'[r].book = replay[r].book,
         replay'[r].scanned = replay[r].scanned + 1,
         st = "replayed" => replay'[r].replayed = replay[r].replayed + 1,
         st # "replayed" => replay'[r].replayed = replay[r].replayed,
         replay[r].mode = "postgres" =>
           replay'[r].todo = IF replay'[r].pc = "resolve" THEN replay[r].todo
                                                          ELSE Tail(replay[r].todo),
         replay[r].mode = "kafka" =>
           replay'[r].pc = "work" /\ replay'[r].pos = replay[r].pos + 1
  PROVE  Tally(r)'
<1> SUFFICES ASSUME replay'[r].book PROVE Tally(r)'
  BY DEF Tally
<1> DEFINE x == [id |-> At(r), status |-> st]
<1>1. replay[r].book /\ Tally(r) /\ IsFiniteSet(items[r]) /\ DOMAIN items = Replays
  BY DEF BooksInv, Own, Noted
<1>2. items'[r] = items[r] \cup {x}
  BY <1>1 DEF Booked
<1>3. x.id = At(r) /\ x.status = st
  OBVIOUS
<1> HIDE DEF x
<1>4. replay[r].pc = "work" /\ replay[r].mode \in {"postgres", "kafka"}
  BY AtHand
<1>5. \A i \in items[r] : i.id # At(r)
  BY <1>1, AtHand
<1>6. x \notin items[r]
  BY <1>3, <1>5
<1>7. /\ Cardinality(items'[r]) = Cardinality(items[r]) + 1
      /\ Cardinality(ItemsOf(r, "replayed")') =
           Cardinality(ItemsOf(r, "replayed")) + (IF st = "replayed" THEN 1 ELSE 0)
  <2>1. /\ ItemsOf(r, "replayed") = {i \in items[r] : i.status = "replayed"}
        /\ ItemsOf(r, "replayed")' = {i \in items[r] \cup {x} : i.status = "replayed"}
    BY <1>2 DEF ItemsOf
  <2>2. /\ Cardinality(items[r] \cup {x}) = Cardinality(items[r]) + 1
        /\ Cardinality({i \in items[r] \cup {x} : i.status = "replayed"}) =
             Cardinality({i \in items[r] : i.status = "replayed"})
               + (IF x.status = "replayed" THEN 1 ELSE 0)
    BY <1>1, <1>6, OneMore
  <2> QED BY <1>2, <1>3, <2>1, <2>2
<1>8. /\ replay[r].scanned \in Nat /\ replay[r].replayed \in Nat
      /\ Cardinality(ItemsOf(r, "replayed")) = replay[r].replayed
  BY <1>1, <1>4 DEF Tally, InLoop
<1>9. CASE replay[r].mode = "postgres"
  <2> DEFINE t == replay[r].todo
  <2>1. /\ Cardinality(items[r]) = replay[r].scanned /\ IsInjective(t)
        /\ \A i \in items[r] : i.id \notin ToSet(t)
    BY <1>1, <1>4, <1>9 DEF Tally, InLoop, Ahead
  <2>2. IsSeq(t) /\ t # << >> /\ At(r) = Head(t)
    BY <1>9, AtHand
  <2> HIDE DEF t
  <2>3. /\ IsInjective(Tail(t)) /\ Head(t) \notin ToSet(Tail(t))
        /\ ToSet(Tail(t)) \subseteq ToSet(t)
    BY <2>1, <2>2, TailInjective
  <2>4. Ahead(r)' = Tail(t)
    BY <1>9 DEF Ahead, t
  <2>5. IsInjective(replay'[r].todo)
    BY <1>9, <2>1, <2>3 DEF t
  <2>6. \A i \in items'[r] : i.id \notin ToSet(Tail(t))
    BY <1>2, <1>3, <2>1, <2>2, <2>3
  <2>7. replay'[r].scanned \in Nat /\ replay'[r].replayed \in Nat
    BY <1>8
  <2>8. /\ Cardinality(ItemsOf(r, "replayed")') = replay'[r].replayed
        /\ Cardinality(items'[r]) = replay'[r].scanned
    BY <1>7, <1>8, <2>1
  <2>9. replay'[r].mode # "kafka"
    BY <1>9
  <2> QED BY <2>4, <2>5, <2>6, <2>7, <2>8, <2>9 DEF Tally
<1>10. CASE replay[r].mode = "kafka"
  <2>1. replay[r].pos \in Nat /\ \A i \in items[r] : i.id <= replay[r].pos
    BY <1>1, <1>4, <1>10 DEF Tally, InLoop
  <2>2. At(r) = replay[r].pos + 1 /\ replay'[r].pos = replay[r].pos + 1
    BY <1>10, AtHand
  <2>3. \A i \in items[r] : i.id \in Nat
    BY <1>10, ItemNumber
  <2>4. \A i \in items[r] : i.id <= replay'[r].pos
    BY <2>1, <2>2, <2>3
  <2>5. replay'[r].pos \in Nat /\ \A i \in items'[r] : i.id <= replay'[r].pos
    BY <1>2, <1>3, <2>1, <2>2, <2>4
  <2>6. replay'[r].scanned \in Nat /\ replay'[r].replayed \in Nat
    BY <1>8
  <2>7. Cardinality(ItemsOf(r, "replayed")') = replay'[r].replayed
    BY <1>7, <1>8
  <2>8. replay'[r].mode # "postgres"
    BY <1>10
  <2> QED BY <2>5, <2>6, <2>7, <2>8 DEF Tally
<1> QED BY <1>4, <1>9, <1>10

\* What was replayed stays on its way, and the new item is of what is queued.
LEMMA BookedNoted ==
  ASSUME ReplayInv, BooksInv, NEW r \in Replays, InRows(r) \/ InLetters(r),
         NEW st \in {"replayed", "skipped", "failed"}, Booked(r, st),
         replay'[r].mode = replay[r].mode,
         UNCHANGED << log, letters, errors, lost >>,
         ToSet(replay[r].queue) \subseteq ToSet(replay'[r].queue),
         st = "replayed" => Kept(r) \in ToSet(replay'[r].queue)
  PROVE  Noted(r)'
<1> DEFINE x == [id |-> At(r), status |-> st]
<1>1. /\ IsFiniteSet(items[r]) /\ DOMAIN items = Replays
      /\ \A i \in items[r] : i.id \in Place(r)
      /\ r \notin lost => \A i \in ItemsOf(r, "replayed") :
           Meant(r, i.id) \in ToSet(log) \cup ToSet(replay[r].queue)
  BY DEF BooksInv, Own, Noted
<1>2. Place(r)' = Place(r) /\ \A id : Meant(r, id)' = Meant(r, id)
  BY DEF Place, Meant
<1>3. items'[r] = IF replay[r].book THEN items[r] \cup {x} ELSE items[r]
  BY <1>1 DEF Booked
<1>4. x.id = At(r) /\ x.status = st
  OBVIOUS
<1> HIDE DEF x
<1>5. IsFiniteSet(items'[r])
  BY <1>1, <1>3, FS_AddElement
<1>6. replay[r].book => At(r) \in Place(r)
  <2> SUFFICES ASSUME replay[r].book PROVE At(r) \in Place(r)
    OBVIOUS
  <2>1. Tally(r) /\ replay[r].pc = "work" /\ replay[r].mode \in {"postgres", "kafka"}
    BY AtHand DEF BooksInv, Own
  <2>2. replay[r].mode = "kafka" => replay[r].pos \in Nat
    BY <2>1 DEF Tally, InLoop
  <2> QED BY <2>1, <2>2, AtHand
<1>7. Kept(r) = Meant(r, At(r))
  BY AtHand
<1>8. \A i \in items'[r] : i.id \in Place(r)
  BY <1>1, <1>3, <1>4, <1>6
<1>9. \A i \in items'[r] : i.status = "replayed" => i \in ItemsOf(r, "replayed") \/ i = x
  BY <1>3 DEF ItemsOf
<1>10. ASSUME r \notin lost, NEW i \in items'[r], i.status = "replayed"
       PROVE  Meant(r, i.id) \in ToSet(log) \cup ToSet(replay'[r].queue)
  <2>1. CASE i \in ItemsOf(r, "replayed")
    BY <1>1, <1>10, <2>1
  <2>2. CASE i = x
    BY <1>4, <1>7, <1>10, <2>2
  <2> QED BY <1>9, <1>10, <2>1, <2>2
<1>11. r \notin lost => \A i \in items'[r] : i.status = "replayed" =>
         Meant(r, i.id)' \in ToSet(log) \cup ToSet(replay'[r].queue)
  BY <1>2, <1>10
<1>12. r \notin lost' => \A i \in ItemsOf(r, "replayed")' :
         Meant(r, i.id)' \in ToSet(log') \cup ToSet(replay'[r].queue)
  BY <1>11 DEF ItemsOf
<1> QED BY <1>2, <1>5, <1>8, <1>12 DEF Noted

\* The steps that count the row or letter at hand and book an item for it.
LEMMA ItemBooks ==
  ASSUME ReplayInv, BooksInv, NEW r \in Replays, InRows(r) \/ InLetters(r),
         NEW st \in {"replayed", "skipped", "failed"}, Booked(r, st),
         NEW p, replay' = [replay EXCEPT ![r] = p],
         UNCHANGED << log, letters, errors, ledger, booked, lost >>,
         p.pc \in {"work", "resolve"}, p.mode = replay[r].mode, p.book = replay[r].book,
         p.scanned = replay[r].scanned + 1,
         st = "replayed" => /\ p.replayed = replay[r].replayed + 1
                            /\ Kept(r) \in ToSet(p.queue),
         st # "replayed" => p.replayed = replay[r].replayed,
         replay[r].mode = "postgres" =>
           p.todo = IF p.pc = "resolve" THEN replay[r].todo ELSE Tail(replay[r].todo),
         replay[r].mode = "kafka" => p.pc = "work" /\ p.pos = replay[r].pos + 1,
         ToSet(replay[r].queue) \subseteq ToSet(p.queue)
  PROVE  BooksInv'
<1>1. replay'[r] = p
  BY ShapeOf
<1>2. Tally(r)'
  BY <1>1, BookedTally
<1>3. Noted(r)'
  BY <1>1, BookedNoted
<1>4. ledger'[r] # "succeeded"
  BY AtHand DEF BooksInv, Own, Told
<1>5. Own(r)'
  BY <1>1, <1>2, <1>3, <1>4 DEF Own, Told, Unread
<1>6. /\ DOMAIN items' = Replays /\ DOMAIN booked' = Replays
      /\ \A q \in Replays \ {r} : /\ items'[q] = items[q] /\ ledger'[q] = ledger[q]
                                  /\ booked'[q] = booked[q]
  BY DEF Booked, BooksInv
<1>7. RowsStep
  BY SameRows
<1> QED BY <1>5, <1>6, <1>7, BooksFrame

LEMMA SkipBooks ==
  ASSUME ReplayInv, BooksInv, NEW r \in Replays, Skip(r) \/ SendRaises(r)
  PROVE  BooksInv'
<1>1. InRows(r) \/ InLetters(r)
  BY DEF Skip, SendRaises, Sends
<1>2. PICK st \in {"skipped", "failed"} : Booked(r, st)
  BY DEF Skip, SendRaises
<1>3. /\ replay' = [replay EXCEPT ![r] = Counted(r)]
      /\ UNCHANGED << log, letters, errors, ledger, booked, lost >>
  BY DEF Skip, SendRaises, kafka
<1> DEFINE p == Counted(r)
<1>4. /\ p.pc = "work" /\ p.mode = replay[r].mode /\ p.book = replay[r].book
      /\ p.scanned = replay[r].scanned + 1 /\ p.replayed = replay[r].replayed
      /\ replay[r].mode = "postgres" => p.todo = Tail(replay[r].todo)
      /\ replay[r].mode = "kafka" => p.pos = replay[r].pos + 1
      /\ p.queue = replay[r].queue
  BY <1>1, CountedFields, AtHand
<1>5. replay' = [replay EXCEPT ![r] = p]
  BY <1>3
<1> HIDE DEF p
<1> QED BY <1>1, <1>2, <1>3, <1>4, <1>5, ItemBooks

LEMMA SendBooks ==
  ASSUME ReplayInv, BooksInv, NEW r \in Replays, Send(r)
  PROVE  BooksInv'
<1>1. InRows(r) \/ InLetters(r)
  BY DEF Send, Sends
<1>2. Booked(r, "replayed") /\ replay[r].pc = "work"
  BY <1>1, AtHand DEF Send
<1>3. /\ replay' = [replay EXCEPT ![r] = Queued(r)]
      /\ UNCHANGED << log, letters, errors, ledger, booked, lost >>
  BY DEF Send, kafka
<1> DEFINE p == Queued(r)
<1>4. /\ p.pc \in {"work", "resolve"} /\ p.mode = replay[r].mode /\ p.book = replay[r].book
      /\ p.scanned = replay[r].scanned + 1 /\ p.replayed = replay[r].replayed + 1
      /\ replay[r].mode = "postgres" =>
           p.todo = IF p.pc = "resolve" THEN replay[r].todo ELSE Tail(replay[r].todo)
      /\ replay[r].mode = "kafka" => p.pc = "work" /\ p.pos = replay[r].pos + 1
      /\ p.queue = Append(replay[r].queue, Kept(r))
  BY <1>2, QueuedFields
<1>5. /\ ToSet(replay[r].queue) \subseteq ToSet(p.queue)
      /\ Kept(r) \in ToSet(p.queue)
  <2> HIDE DEF p
  <2> QED BY <1>4, ShapeOf, SeqAppend
<1>6. replay' = [replay EXCEPT ![r] = p]
  BY <1>3
<1> HIDE DEF p
<1> QED BY <1>1, <1>2, <1>3, <1>4, <1>5, <1>6, ItemBooks

\* A letter without a payload is counted, with no item.
LEMMA SkipBadBooks ==
  ASSUME ReplayInv, BooksInv, NEW r \in Replays, SkipBadLetter(r)
  PROVE  BooksInv'
<1> DEFINE p == Counted(r)
<1>1. InLetters(r) /\ replay[r].mode = "kafka" /\ replay[r].pc = "work"
  BY DEF SkipBadLetter, InLetters
<1>2. /\ p.pc = "work" /\ p.mode = replay[r].mode /\ p.book = replay[r].book
      /\ p.scanned = replay[r].scanned + 1 /\ p.replayed = replay[r].replayed
      /\ p.pos = replay[r].pos + 1 /\ p.queue = replay[r].queue
  BY <1>1, CountedFields
<1>3. replay' = [replay EXCEPT ![r] = p]
  BY DEF SkipBadLetter
<1> HIDE DEF p
<1>4. /\ UNCHANGED << log, letters, errors, ledger, booked, items, lost >> /\ replay'[r] = p
  BY <1>3, ShapeOf DEF SkipBadLetter, kafka, books
<1>5. Own(r)
  BY DEF BooksInv
<1>6. Noted(r)'
  BY <1>2, <1>4, <1>5 DEF Own, Noted, Place, Meant, ItemsOf
<1>7. Told(r)' /\ Unread(r)'
  BY <1>1, <1>2, <1>4, <1>5 DEF Own, Told, Unread
<1>8. Tally(r)'
  <2> SUFFICES ASSUME replay[r].book PROVE Tally(r)'
    BY <1>2, <1>4 DEF Tally
  <2>1. /\ replay[r].scanned \in Nat /\ replay[r].replayed \in Nat
        /\ Cardinality(ItemsOf(r, "replayed")) = replay[r].replayed
        /\ replay[r].pos \in Nat /\ \A i \in items[r] : i.id <= replay[r].pos
    BY <1>1, <1>5 DEF Own, Tally, InLoop
  <2>2. \A i \in items[r] : i.id \in Nat
    BY <1>1, ItemNumber
  <2>3. \A i \in items[r] : i.id <= replay[r].pos + 1
    BY <2>1, <2>2
  <2>4. ItemsOf(r, "replayed")' = ItemsOf(r, "replayed")
    BY <1>4 DEF ItemsOf
  <2>5. p.scanned \in Nat /\ p.pos \in Nat
    BY <1>2, <2>1
  <2>6. /\ replay'[r].scanned \in Nat /\ replay'[r].replayed \in Nat
        /\ Cardinality(ItemsOf(r, "replayed")') = replay'[r].replayed
        /\ replay'[r].mode # "postgres"
        /\ replay'[r].pos \in Nat /\ \A i \in items'[r] : i.id <= replay'[r].pos
    BY <1>1, <1>2, <1>4, <2>1, <2>3, <2>4, <2>5
  <2> QED BY <2>6 DEF Tally
<1>9. Own(r)'
  BY <1>6, <1>7, <1>8 DEF Own
<1>10. DOMAIN items' = Replays /\ DOMAIN booked' = Replays
  BY <1>4 DEF BooksInv
<1>11. RowsStep
  BY <1>4, SameRows
<1> QED BY <1>3, <1>4, <1>9, <1>10, <1>11, BooksFrame

LEMMA NotedKept ==
  ASSUME PlacesKept, NEW r \in Replays, Noted(r), replay'[r].mode = replay[r].mode,
         items' = items, lost \subseteq lost', ToSet(log) \subseteq ToSet(log'),
         r \notin lost' =>
           ToSet(replay[r].queue) \subseteq ToSet(replay'[r].queue) \cup ToSet(log')
  PROVE  Noted(r)'
<1>1. \A i \in items[r] : i.id \in Place(r)' /\ Meant(r, i.id)' = Meant(r, i.id)
  BY MeantKept DEF Noted
<1>2. ItemsOf(r, "replayed")' = ItemsOf(r, "replayed") /\ ItemsOf(r, "replayed") \subseteq items[r]
  BY DEF ItemsOf
<1>3. ASSUME r \notin lost', NEW i \in ItemsOf(r, "replayed")
      PROVE  Meant(r, i.id)' \in ToSet(log') \cup ToSet(replay'[r].queue)
  <2>1. Meant(r, i.id) \in ToSet(log) \cup ToSet(replay[r].queue)
    BY <1>3 DEF Noted
  <2> QED BY <1>1, <1>2, <1>3, <2>1
<1> QED BY <1>1, <1>2, <1>3 DEF Noted

\* The steps that book no item.
LEMMA SameItems ==
  ASSUME ReplayInv, BooksInv, NEW r \in Replays, NEW p, replay' = [replay EXCEPT ![r] = p],
         letters' = letters, items' = items, DOMAIN booked' = Replays,
         \A q \in Replays \ {r} : ledger'[q] = ledger[q] /\ booked'[q] = booked[q],
         lost \subseteq lost', ToSet(log) \subseteq ToSet(log'), RowsStep,
         p.mode = replay[r].mode,
         r \notin lost' => ToSet(replay[r].queue) \subseteq ToSet(p.queue) \cup ToSet(log'),
         Tally(r)', Told(r)', Unread(r)'
  PROVE  BooksInv'
<1>1. replay'[r] = p
  BY ShapeOf
<1>2. PlacesKept
  BY RowsKept DEF PlacesKept
<1>3. Noted(r)
  BY DEF BooksInv, Own
<1>4. Noted(r)'
  BY <1>1, <1>2, <1>3, NotedKept
<1>5. Own(r)'
  BY <1>4 DEF Own
<1>6. /\ DOMAIN items' = Replays
      /\ \A q \in Replays \ {r} : items'[q] = items[q]
  BY DEF BooksInv
<1> QED BY <1>5, <1>6, BooksFrame

LEMMA StartBooks ==
  ASSUME ReplayInv, BooksInv, NEW r \in Replays, Start(r)
  PROVE  BooksInv'
<1>1. PICK o \in Options :
        /\ replay' = [replay EXCEPT ![r] =
             [Idle EXCEPT !.pc = "start", !.mode = o.mode, !.dry = o.dry,
                          !.resolve = o.resolve, !.book = o.book]]
        /\ ledger' = IF o.book THEN [ledger EXCEPT ![r] = "running"] ELSE ledger
  BY Zenon DEF Start
<1> DEFINE p == [Idle EXCEPT !.pc = "start", !.mode = o.mode, !.dry = o.dry,
                             !.resolve = o.resolve, !.book = o.book]
<1>2. /\ p.pc = "start" /\ p.todo = << >> /\ p.pos = 0 /\ p.scanned = 0 /\ p.replayed = 0
  BY DEF Idle
<1>3. replay' = [replay EXCEPT ![r] = p]
  BY <1>1
<1> HIDE DEF p
<1>4. /\ UNCHANGED << log, letters, errors, booked, items, lost >> /\ replay'[r] = p
  BY <1>3, ShapeOf DEF Start, kafka
<1>5. Own(r) /\ replay[r].pc = "new" /\ items[r] = {}
  BY DEF Start, BooksInv, Own, Unread
<1>6. IsFiniteSet({}) /\ Cardinality({}) = 0
  BY FS_EmptySet
<1>7. items'[r] = {} /\ ItemsOf(r, "replayed")' = {}
  BY <1>4, <1>5 DEF ItemsOf
<1>8. Noted(r)'
  BY <1>6, <1>7 DEF Noted
<1>9. IsInjective(<< >>)
  BY EmptySeq DEF IsInjective
<1>10. Tally(r)'
  <2>1. /\ replay'[r].scanned = 0 /\ replay'[r].replayed = 0 /\ replay'[r].pos = 0
        /\ replay'[r].todo = << >> /\ 0 \in Nat
    BY <1>2, <1>4
  <2>2. /\ Cardinality(ItemsOf(r, "replayed")') = 0 /\ Cardinality(items'[r]) = 0
        /\ IsInjective(replay'[r].todo) /\ \A i \in items'[r] : FALSE
    BY <1>6, <1>7, <1>9, <2>1
  <2> QED BY <2>1, <2>2 DEF Tally
<1>11. ledger'[r] # "succeeded" /\ \A q \in Replays \ {r} : ledger'[q] = ledger[q]
  BY <1>1, <1>5 DEF ReplayInv, LedgerInv
<1>12. Own(r)'
  BY <1>7, <1>8, <1>10, <1>11 DEF Own, Told, Unread
<1>13. DOMAIN items' = Replays /\ DOMAIN booked' = Replays
  BY <1>4 DEF BooksInv
<1>14. RowsStep
  BY <1>4, SameRows
<1> QED BY <1>3, <1>4, <1>11, <1>12, <1>13, <1>14, BooksFrame

\* The rows or the letters are opened; a row is resolved and left behind.
LEMMA ReadBooks ==
  ASSUME ReplayInv, BooksInv, RowsStep, NEW r \in Replays,
         ReadRows(r) \/ OpenConsumer(r) \/ Resolve(r)
  PROVE  BooksInv'
<1>1. /\ UNCHANGED << log, letters, ledger, booked, items, lost >>
      /\ replay[r].pc \in InLoop /\ Own(r) /\ ledger[r] # "succeeded"
  BY DEF ReadRows, OpenConsumer, Resolve, kafka, books, InLoop, BooksInv, Own, Told
<1>2. PICK t : /\ replay' = [replay EXCEPT ![r].pc = "work", ![r].todo = t]
               /\ replay[r].pc = "start" => items[r] = {}
               /\ replay[r].mode = "postgres" /\ replay[r].book =>
                    /\ IsInjective(t)
                    /\ \A i \in items[r] : i.id \notin ToSet(t)
  <2>1. CASE ReadRows(r)
    <3>1. PICK s \in Readable("open") :
            replay' = [replay EXCEPT ![r].pc = "work", ![r].todo = s]
      BY <2>1 DEF ReadRows
    <3>2. IsInjective(s)
      BY DEF Readable
    <3>3. items[r] = {}
      BY <1>1, <2>1 DEF Own, Unread, ReadRows
    <3> QED BY <3>1, <3>2, <3>3
  <2>2. CASE OpenConsumer(r)
    <3>1. replay' = [replay EXCEPT ![r].pc = "work", ![r].todo = replay[r].todo]
      <4>1. replay' = [replay EXCEPT ![r].pc = "work"] /\ "todo" \in DOMAIN replay[r]
        BY <2>2, ShapeOf DEF OpenConsumer, Fields
      <4>2. DOMAIN replay[r] = Fields
        BY ShapeOf
      <4>3. [replay[r] EXCEPT !.pc = "work"] =
              [replay[r] EXCEPT !.pc = "work", !.todo = replay[r].todo]
        BY <4>2 DEF Fields
      <4>4. replay' = [replay EXCEPT ![r] = [replay[r] EXCEPT !.pc = "work"]]
        BY <4>1
      <4> QED BY <4>3, <4>4
    <3>2. items[r] = {} /\ replay[r].mode # "postgres"
      BY <1>1, <2>2 DEF Own, Unread, OpenConsumer
    <3> QED BY <3>1, <3>2
  <2>3. CASE Resolve(r)
    <3>1. /\ replay' = [replay EXCEPT ![r].pc = "work", ![r].todo = Tail(replay[r].todo)]
          /\ replay[r].pc = "resolve" /\ replay[r].todo # << >>
      BY <2>3 DEF Resolve, ReplayInv, SentInv
    <3>2. ASSUME replay[r].mode = "postgres", replay[r].book
          PROVE  /\ IsInjective(Tail(replay[r].todo))
                 /\ \A i \in items[r] : i.id \notin ToSet(Tail(replay[r].todo))
      <4>1. IsSeq(replay[r].todo)
        BY ShapeOf, SeqIsSeq
      <4>2. /\ IsInjective(replay[r].todo)
            /\ \A i \in items[r] : i.id \notin ToSet(Tail(replay[r].todo))
        BY <1>1, <3>1, <3>2 DEF Own, Tally, Ahead
      <4> QED BY <3>1, <4>1, <4>2, TailInjective
    <3> QED BY <3>1, <3>2
  <2> QED BY <2>1, <2>2, <2>3
<1> DEFINE p == [replay[r] EXCEPT !.pc = "work", !.todo = t]
<1>3. /\ p.pc = "work" /\ p.todo = t /\ p.mode = replay[r].mode /\ p.book = replay[r].book
      /\ p.scanned = replay[r].scanned /\ p.replayed = replay[r].replayed
      /\ p.pos = replay[r].pos /\ p.queue = replay[r].queue
  BY ShapeOf DEF Fields
<1>4. replay' = [replay EXCEPT ![r] = p]
  BY <1>2
<1> HIDE DEF p
<1>5. replay'[r] = p
  BY <1>4, ShapeOf
<1>6. ItemsOf(r, "replayed")' = ItemsOf(r, "replayed") /\ items'[r] = items[r]
  BY <1>1 DEF ItemsOf
<1>7. Ahead(r)' = t
  BY <1>3, <1>5 DEF Ahead
<1>8. Tally(r)'
  BY <1>1, <1>2, <1>3, <1>5, <1>6, <1>7 DEF Own, Tally
<1>9. Told(r)' /\ Unread(r)'
  BY <1>1, <1>3, <1>5 DEF Told, Unread
<1>10. DOMAIN booked' = Replays
  BY <1>1 DEF BooksInv
<1> QED BY <1>1, <1>3, <1>4, <1>8, <1>9, <1>10, SameItems

\* The steps that end the loop without success, and the end of a process.
LEMMA CloseBooks ==
  ASSUME ReplayInv, BooksInv, RowsStep, NEW r \in Replays,
         RaiseFailed(r) \/ BookingRaises(r) \/ Close(r) \/ Kill(r)
  PROVE  BooksInv'
<1>1. UNCHANGED << log, letters, booked, items >> /\ lost \subseteq lost'
  BY DEF RaiseFailed, BookingRaises, Close, Kill, kafka, books
<1>2. Told(r)
  BY DEF BooksInv, Own
<1>3. \A q \in Replays \ {r} : ledger'[q] = ledger[q]
  BY DEF RaiseFailed, BookingRaises, Close, Kill, books, ReplayInv, LedgerInv
<1>4. PICK p : /\ replay' = [replay EXCEPT ![r] = p]
               /\ p.pc \in {"close", "over"} /\ p.mode = replay[r].mode
               /\ r \notin lost' => ToSet(replay[r].queue) \subseteq ToSet(p.queue)
               /\ ledger'[r] = "succeeded" => ledger[r] = "succeeded" /\ p.queue = << >>
  <2>1. CASE RaiseFailed(r)
    <3> DEFINE p == [replay[r] EXCEPT !.pc = "close"]
    <3>1. p.pc = "close" /\ p.mode = replay[r].mode /\ p.queue = replay[r].queue
      BY ShapeOf DEF Fields
    <3>2. replay' = [replay EXCEPT ![r] = p]
      BY <2>1 DEF RaiseFailed
    <3> HIDE DEF p
    <3>3. ledger[r] # "succeeded"
      BY <1>2, <2>1 DEF RaiseFailed, Told
    <3>4. ledger'[r] # "succeeded"
      BY <2>1, <3>3 DEF RaiseFailed, ReplayInv, LedgerInv
    <3> QED BY <3>1, <3>2, <3>4
  <2>2. CASE BookingRaises(r)
    <3> DEFINE c == IF Sends(r) THEN Queued(r) ELSE replay[r]
               p == [c EXCEPT !.pc = "close"]
    <3>1. replay[r].pc = "work"
      BY <2>2 DEF BookingRaises, Books, InRows, InLetters, LoopOver
    <3>2. /\ DOMAIN c = Fields /\ c.mode = replay[r].mode
          /\ ToSet(replay[r].queue) \subseteq ToSet(c.queue)
      <4>1. CASE Sends(r)
        <5>1. DOMAIN Queued(r) = Fields /\ ToSet(replay[r].queue) \subseteq ToSet(Queued(r).queue)
          BY <4>1, QueuedShape
        <5>2. Queued(r).mode = replay[r].mode
          BY <3>1, QueuedFields
        <5> QED BY <4>1, <5>1, <5>2
      <4>2. CASE ~Sends(r)
        BY <4>2, ShapeOf
      <4> QED BY <4>1, <4>2
    <3>3. replay' = [replay EXCEPT ![r] = p]
      BY <2>2 DEF BookingRaises
    <3> HIDE DEF c
    <3>4. p.pc = "close" /\ p.mode = c.mode /\ p.queue = c.queue
      BY <3>2 DEF Fields
    <3> HIDE DEF p
    <3>5. ledger'[r] # "succeeded"
      BY <1>2, <2>2, <3>1 DEF BookingRaises, books, Told
    <3> QED BY <3>2, <3>3, <3>4, <3>5
  <2>3. CASE Close(r) \/ Kill(r)
    <3> DEFINE p == IF Close(r) THEN [replay[r] EXCEPT !.pc = "over"]
                    ELSE [replay[r] EXCEPT !.pc = "over", !.todo = << >>, !.queue = << >>]
    <3>1. p.pc = "over" /\ p.mode = replay[r].mode /\ p.queue = << >>
      <4>1. CASE Close(r)
        BY <4>1, ShapeOf DEF Fields, Close
      <4>2. CASE ~Close(r)
        BY <4>2, ShapeOf DEF Fields
      <4> QED BY <4>1, <4>2
    <3>2. replay' = [replay EXCEPT ![r] = p]
      <4>1. CASE Close(r)
        BY <4>1 DEF Close
      <4>2. CASE ~Close(r)
        BY <2>3, <4>2 DEF Kill
      <4> QED BY <4>1, <4>2
    <3> HIDE DEF p
    <3>3. ledger' = ledger /\ (r \notin lost' => replay[r].queue = << >>)
      BY <2>3 DEF Close, Kill, books
    <3> QED BY <3>1, <3>2, <3>3
  <2> QED BY <2>1, <2>2, <2>3
<1>5. replay'[r] = p /\ ItemsOf(r, "replayed")' = ItemsOf(r, "replayed")
  BY <1>1, <1>4, ShapeOf DEF ItemsOf
<1>6. Tally(r)' /\ Unread(r)'
  BY <1>4, <1>5 DEF Tally, Unread, InLoop
<1>7. Told(r)'
  BY <1>1, <1>2, <1>4, <1>5 DEF Told
<1>8. DOMAIN booked' = Replays
  BY <1>1 DEF BooksInv
<1> QED BY <1>1, <1>3, <1>4, <1>6, <1>7, <1>8, SameItems

\* The verdict: the counts are those of the items, and the queue is empty.
LEMMA FinishBooks ==
  ASSUME ReplayInv, BooksInv, RowsStep, NEW r \in Replays, Finish(r)
  PROVE  BooksInv'
<1> DEFINE p == [replay[r] EXCEPT !.pc = "close"]
<1>1. p.pc = "close" /\ p.mode = replay[r].mode /\ p.queue = replay[r].queue
  BY ShapeOf DEF Fields
<1>2. replay' = [replay EXCEPT ![r] = p]
  BY DEF Finish
<1> HIDE DEF p
<1>3. /\ UNCHANGED << log, letters, items, lost >> /\ replay[r].queue = << >>
      /\ replay[r].pc = "work" /\ replay'[r] = p
      /\ Own(r) /\ DOMAIN booked = Replays
  BY <1>2, ShapeOf DEF Finish, LoopOver, kafka, BooksInv
<1>4. /\ DOMAIN booked' = Replays
      /\ \A q \in Replays \ {r} : ledger'[q] = ledger[q] /\ booked'[q] = booked[q]
  BY <1>3 DEF Finish, ReplayInv, LedgerInv
<1>5. Tally(r)' /\ Unread(r)'
  BY <1>1, <1>3 DEF Tally, Unread, InLoop
<1>6. ItemsOf(r, "replayed")' = ItemsOf(r, "replayed") /\ items'[r] = items[r]
  BY <1>3 DEF ItemsOf
<1>7. Told(r)'
  <2>1. CASE replay[r].book
    <3>1. booked'[r] = [scanned |-> replay[r].scanned, replayed |-> replay[r].replayed]
      BY <1>3, <2>1 DEF Finish
    <3>2. booked'[r].scanned = replay[r].scanned /\ booked'[r].replayed = replay[r].replayed
      BY <3>1
    <3>3. /\ Cardinality(ItemsOf(r, "replayed")) = replay[r].replayed
          /\ replay[r].mode = "postgres" => Cardinality(items[r]) = replay[r].scanned
      BY <1>3, <2>1 DEF Own, Tally, InLoop
    <3> QED BY <1>1, <1>3, <1>6, <3>2, <3>3 DEF Told
  <2>2. CASE ~replay[r].book
    <3>1. ledger'[r] = ledger[r] /\ ledger[r] # "succeeded"
      BY <1>3, <2>2 DEF Finish, Own, Told
    <3> QED BY <3>1 DEF Told
  <2> QED BY <2>1, <2>2
<1> QED BY <1>1, <1>2, <1>3, <1>4, <1>5, <1>7, SameItems

\* A message leaves the queue for the topic, or for nowhere.
LEMMA QueueBooks ==
  ASSUME ReplayInv, BooksInv, RowsStep, NEW r \in Replays, Deliver(r) \/ Drop(r)
  PROVE  BooksInv'
<1> DEFINE p == [replay[r] EXCEPT !.queue = Tail(replay[r].queue)]
<1>1. /\ p.pc = replay[r].pc /\ p.mode = replay[r].mode /\ p.book = replay[r].book
      /\ p.todo = replay[r].todo /\ p.scanned = replay[r].scanned
      /\ p.replayed = replay[r].replayed /\ p.pos = replay[r].pos
      /\ p.queue = Tail(replay[r].queue)
  BY ShapeOf DEF Fields
<1>2. replay' = [replay EXCEPT ![r] = p]
  BY DEF Deliver, Drop
<1> HIDE DEF p
<1>3. /\ UNCHANGED << letters, ledger, booked, items >> /\ replay'[r] = p
      /\ replay[r].queue # << >> /\ Own(r)
  BY <1>2, ShapeOf DEF Deliver, Drop, kafka, books, BooksInv
<1>4. /\ lost \subseteq lost' /\ ToSet(log) \subseteq ToSet(log')
      /\ r \notin lost' => ToSet(replay[r].queue) \subseteq ToSet(p.queue) \cup ToSet(log')
  <2>1. ToSet(replay[r].queue) \subseteq ToSet(p.queue) \cup {Head(replay[r].queue)}
    BY <1>1, <1>3, ShapeOf, SeqTail
  <2>2. CASE Deliver(r)
    <3>1. log' = Append(log, Head(replay[r].queue)) /\ lost' = lost
      BY <2>2 DEF Deliver
    <3>2. ToSet(log) \subseteq ToSet(log') /\ Head(replay[r].queue) \in ToSet(log')
      BY <3>1, ShapeOf, SeqAppend
    <3> QED BY <2>1, <3>1, <3>2
  <2>3. CASE Drop(r)
    BY <2>3 DEF Drop, kafka
  <2> QED BY <2>2, <2>3
<1>5. ItemsOf(r, "replayed")' = ItemsOf(r, "replayed") /\ Ahead(r)' = Ahead(r)
  BY <1>1, <1>3 DEF ItemsOf, Ahead
<1>6. Tally(r)'
  BY <1>1, <1>3, <1>5 DEF Own, Tally
<1>7. Told(r)' /\ Unread(r)'
  BY <1>1, <1>3 DEF Own, Told, Unread
<1>8. DOMAIN booked' = Replays
  BY <1>3 DEF BooksInv
<1> QED BY <1>1, <1>2, <1>3, <1>4, <1>6, <1>7, <1>8, SameItems

-----------------------------------------------------------------------------
LEMMA BooksStep == ReplayInv /\ BooksInv /\ [Next]_vars => BooksInv'
<1> SUFFICES ASSUME ReplayInv, BooksInv, [Next]_vars PROVE BooksInv'
  OBVIOUS
<1>1. RowsStep
  BY StepKinds DEF Aside, ByProcess
<1>2. CASE UNCHANGED vars \/ NormalizeRun \/ Compact \/ \E i \in DOMAIN errors : Triage(i)
  BY <1>1, <1>2, RestBooks
<1>3. ASSUME NEW r \in Replays, Start(r) \/ Progress(r) \/ Failure(r) PROVE BooksInv'
  BY <1>1, <1>3, StartBooks, ReadBooks, SkipBooks, SendBooks, SkipBadBooks, CloseBooks,
     FinishBooks, QueueBooks DEF Progress, Failure
<1> QED BY <1>2, <1>3 DEF Next

LEMMA BooksAlways == Spec => []BooksInv
<1>1. Init => BooksInv
  BY BooksInit
<1> QED BY <1>1, BooksStep, Invariance, PTL DEF Spec

\* A run that says succeeded has booked one item for every row that it scanned
\* and counts as replayed what its items say was replayed, however the rows
\* change under it and whoever else replays them.
THEOREM AddsUp == Spec => []SucceededAddsUp
<1>1. BooksInv => SucceededAddsUp
  BY DEF BooksInv, Own, Told, SucceededAddsUp
<1> QED BY <1>1, BooksAlways, PTL

\* When a run says succeeded, every message of its items "replayed" is in the
\* raw topic, unless the broker dropped one of its messages.
THEOREM WasDelivered == Spec => []SucceededWasDelivered
<1>1. BooksInv => SucceededWasDelivered
  <2> SUFFICES ASSUME BooksInv, NEW r \in Replays, ledger[r] = "succeeded", r \notin lost,
                      NEW i \in ItemsOf(r, "replayed")
               PROVE  Meant(r, i.id) \in ToSet(log)
    BY DEF SucceededWasDelivered
  <2>1. replay[r].queue = << >>
    BY DEF BooksInv, Own, Told
  <2>2. Meant(r, i.id) \in ToSet(log) \cup ToSet(replay[r].queue)
    BY DEF BooksInv, Own, Noted
  <2>3. ToSet(<< >>) = {}
    BY EmptySeq DEF ToSet
  <2> QED BY <2>1, <2>2, <2>3
<1> QED BY <1>1, BooksAlways, PTL

-----------------------------------------------------------------------------
(* Types.                                                                  *)

Rank(S, i) == Cardinality({j \in S : j <= i})

LEMMA RankGrows ==
  ASSUME NEW S \in SUBSET Nat, IsFiniteSet(S), NEW x \in S, NEW y \in S, x < y
  PROVE  Rank(S, x) < Rank(S, y)
<1> DEFINE A == {j \in S : j <= x}
           B == {j \in S : j <= y}
<1>1. B \in SUBSET S /\ A \in SUBSET B /\ y \in B /\ y \notin A
  <2>1. x \in Nat /\ y \in Nat /\ \A j \in S : j \in Nat /\ (j <= x => j <= y)
    OBVIOUS
  <2>2. \A j \in A : j \in B
    BY <2>1
  <2>3. y \in B /\ y \notin A
    BY <2>1
  <2> QED BY <2>2, <2>3
<1>2. IsFiniteSet(B)
  BY <1>1, FS_Subset
<1>3. IsFiniteSet(A) /\ Cardinality(A) <= Cardinality(B)
      /\ (Cardinality(A) = Cardinality(B) => A = B)
  BY <1>1, <1>2, FS_Subset
<1>4. Cardinality(A) \in Nat /\ Cardinality(B) \in Nat
  BY <1>2, <1>3, FS_CardinalityType
<1> HIDE DEF A, B
<1>5. Cardinality(A) < Cardinality(B)
  BY <1>1, <1>3, <1>4
<1> QED BY <1>5 DEF Rank, A, B

\* A finite set of numbers has one of each rank.
LEMMA RankTaken ==
  ASSUME NEW S \in SUBSET Nat, IsFiniteSet(S), NEW k \in 1..Cardinality(S)
  PROVE  \E i \in S : Rank(S, i) = k
<1> DEFINE n == Cardinality(S)
           T == (1..n) \ {k}
           f == [i \in S |-> Rank(S, i)]
<1> SUFFICES ASSUME \A i \in S : Rank(S, i) # k PROVE FALSE
  OBVIOUS
<1>1. n \in Nat
  BY FS_CardinalityType
<1>2. IsFiniteSet(1..n) /\ Cardinality(1..n) = n
  BY <1>1, FS_Interval
<1>3. IsFiniteSet(T) /\ Cardinality(T) = n - 1
  BY <1>2, FS_RemoveElement
<1>4. ASSUME NEW i \in S PROVE Rank(S, i) \in T
  <2> DEFINE A == {j \in S : j <= i}
  <2>1. A \in SUBSET S /\ i \in A
    OBVIOUS
  <2>2. IsFiniteSet(A) /\ Cardinality(A) <= n
    BY <2>1, FS_Subset
  <2>3. Cardinality(A) \in Nat /\ Cardinality(A) # 0
    BY <2>1, <2>2, FS_CardinalityType, FS_EmptySet
  <2> HIDE DEF A
  <2>4. Cardinality(A) \in 1..n
    BY <1>1, <2>2, <2>3
  <2> QED BY <2>4 DEF Rank, A
<1>5. f \in [S -> T]
  BY <1>4
<1>6. Cardinality(T) < Cardinality(S)
  BY <1>1, <1>3
<1> HIDE DEF T, n
<1>7. PICK x \in S, y \in S : x # y /\ f[x] = f[y]
  <2> HIDE DEF f
  <2> QED BY <1>3, <1>5, <1>6, FS_PigeonHole
<1>8. Rank(S, x) = Rank(S, y)
  BY <1>7
<1>9. Rank(S, x) \in Nat /\ Rank(S, y) \in Nat
  <2>1. \A i \in S : Rank(S, i) \in T
    BY <1>4
  <2> QED BY <2>1, <1>1 DEF T, n
<1>10. x < y \/ y < x
  BY <1>7
<1> QED BY <1>8, <1>9, <1>10, RankGrows

\* The dead letters of a run are of rejected messages of the topic.
LEMMA RejectedAre ==
  ASSUME IsSeq(log)
  PROVE  /\ Rejected \in Seq(ToSet(log)) /\ \A k \in DOMAIN Rejected : IsBad(Rejected[k])
<1> DEFINE bad == {i \in DOMAIN log : IsBad(log[i])}
           n == Cardinality(bad)
           c(k) == CHOOSE i \in bad : Cardinality({j \in bad : j <= i}) = k
<1>1. Len(log) \in Nat /\ DOMAIN log = 1..Len(log)
  BY SeqDomain
<1>2. IsFiniteSet(bad) /\ bad \in SUBSET Nat
  <2>1. IsFiniteSet(DOMAIN log)
    BY <1>1, FS_Interval
  <2>2. bad \in SUBSET DOMAIN log
    OBVIOUS
  <2> QED BY <1>1, <2>1, <2>2, FS_Subset
<1>3. n \in Nat
  BY <1>2, FS_CardinalityType
<1>4. ASSUME NEW k \in 1..n PROVE c(k) \in bad
  <2>1. \E i \in bad : Cardinality({j \in bad : j <= i}) = k
    <3> HIDE DEF bad
    <3> QED BY <1>2, RankTaken DEF Rank
  <2> HIDE DEF bad
  <2> QED BY Zenon, <2>1
<1>5. Rejected = [k \in 1..n |-> log[c(k)]]
  BY Zenon DEF Rejected
<1>6. \A k \in 1..n : log[c(k)] \in ToSet(log) /\ IsBad(log[c(k)])
  <2>1. \A i \in bad : log[i] \in ToSet(log) /\ IsBad(log[i])
    BY DEF ToSet
  <2> HIDE DEF bad, c, n
  <2> QED BY <1>4, <2>1
<1> HIDE DEF c, n, bad
<1> QED BY <1>3, <1>5, <1>6

\* What is kept of a row or a letter is a payload, if anything.
LEMMA KeptTyped ==
  ASSUME TypeOK, ReplayInv, BooksInv, NEW r \in Replays, InRows(r) \/ InLetters(r)
  PROVE  At(r) \in Nat /\ Kept(r) \in Payloads \cup {NoSample}
<1>1. /\ replay[r].mode \in {"postgres", "kafka"} /\ replay[r].pos \in Nat
      /\ errors \in Seq([body : Payloads, status : Statuses])
      /\ letters \in Seq(Payloads \cup {NoSample})
  BY DEF TypeOK, Process
<1>2. At(r) \in Place(r)
  BY <1>1, AtHand
<1>3. CASE replay[r].mode = "postgres"
  <2>1. At(r) \in DOMAIN errors
    BY <1>2, <1>3 DEF Place
  <2>2. errors[At(r)].body \in Payloads
    <3> DEFINE R == [body : Payloads, status : Statuses]
    <3>1. errors \in Seq(R) /\ \A x \in R : x.body \in Payloads
      BY <1>1
    <3> HIDE DEF R
    <3>2. \A i \in DOMAIN errors : errors[i] \in R
      BY <3>1
    <3> QED BY <2>1, <3>1, <3>2
  <2>3. Kept(r) = Sample[errors[At(r)].body]
    BY <1>3 DEF Kept
  <2>4. At(r) \in Nat
    BY <1>1, <2>1
  <2> QED BY <2>2, <2>3, <2>4, SampleAssumption
<1>4. CASE replay[r].mode = "kafka"
  <2>1. At(r) \in DOMAIN letters
    BY <1>2, <1>4 DEF Place
  <2>2. At(r) \in 1..Len(letters) /\ letters[At(r)] \in Payloads \cup {NoSample}
    BY <1>1, <2>1
  <2>3. Kept(r) = letters[At(r)]
    BY <1>4 DEF Kept
  <2> QED BY <2>2, <2>3
<1> QED BY <1>1, <1>3, <1>4

LEMMA CountedTyped ==
  ASSUME TypeOK, ReplayInv, NEW r \in Replays, InRows(r) \/ InLetters(r)
  PROVE  Counted(r) \in Process
<1>1. replay[r] \in Process
  BY DEF TypeOK
<1>2. replay[r].mode = "postgres" => replay[r].todo # << >>
  BY DEF InRows, InLetters
<1> DEFINE a == IF replay[r].mode = "postgres" THEN Tail(replay[r].todo) ELSE replay[r].todo
           b == IF replay[r].mode = "kafka" THEN replay[r].pos + 1 ELSE replay[r].pos
           c == IF Kept(r) # NoSample THEN replay[r].used + 1 ELSE replay[r].used
<1>3. a \in Seq(Nat)
  <2>1. replay[r].todo \in Seq(Nat)
    BY <1>1 DEF Process
  <2> QED BY <1>2, <2>1, HeadTailProperties
<1>4. b \in Nat /\ c \in Nat /\ replay[r].scanned + 1 \in Nat
  BY <1>1 DEF Process
<1>5. Counted(r) = [replay[r] EXCEPT !.scanned = replay[r].scanned + 1,
                      !.todo = a, !.pos = b, !.used = c]
  BY DEF Counted
<1> HIDE DEF a, b, c
<1> QED BY <1>1, <1>3, <1>4, <1>5 DEF Process

LEMMA QueuedTyped ==
  ASSUME TypeOK, ReplayInv, BooksInv, NEW r \in Replays, Sends(r)
  PROVE  Queued(r) \in Process
<1>1. /\ InRows(r) \/ InLetters(r)
      /\ Kept(r) \in Payloads /\ replay[r] \in Process /\ Counted(r) \in Process
  BY KeptTyped, CountedTyped DEF Sends, TypeOK
<1> DEFINE q == Append(replay[r].queue, Kept(r))
<1>2. q \in Seq(Payloads)
  BY <1>1, AppendProperties DEF Process
<1>3. /\ replay[r].scanned + 1 \in Nat /\ replay[r].used + 1 \in Nat
      /\ replay[r].replayed + 1 \in Nat
  <2>1. replay[r] \in Process
    BY DEF TypeOK
  <2> QED BY <2>1 DEF Process
<1>4. CASE replay[r].mode = "postgres" /\ replay[r].resolve
  <2>1. Queued(r) = [replay[r] EXCEPT !.pc = "resolve", !.scanned = replay[r].scanned + 1,
                       !.used = replay[r].used + 1, !.replayed = replay[r].replayed + 1,
                       !.queue = q]
    BY <1>4 DEF Queued
  <2> HIDE DEF q
  <2> QED BY <1>1, <1>2, <1>3, <2>1 DEF Process
<1>5. CASE ~(replay[r].mode = "postgres" /\ replay[r].resolve)
  <2>1. Counted(r).queue = replay[r].queue /\ Counted(r).replayed = replay[r].replayed
    BY CountedFields
  <2>2. Queued(r) = [Counted(r) EXCEPT !.replayed = replay[r].replayed + 1, !.queue = q]
    BY <1>5, <2>1 DEF Queued
  <2> HIDE DEF q
  <2> QED BY <1>1, <1>2, <1>3, <2>2 DEF Process
<1> QED BY <1>4, <1>5

\* A replay's own steps leave a process.
LEMMA ProcessTyped ==
  ASSUME TypeOK, ReplayInv, BooksInv, NEW r \in Replays,
         Start(r) \/ Progress(r) \/ Failure(r)
  PROVE  replay' \in [Replays -> Process]
<1>1. replay \in [Replays -> Process] /\ replay[r] \in Process
  BY DEF TypeOK
<1>2. CASE Start(r)
  <2>1. PICK o \in Options :
          replay' = [replay EXCEPT ![r] =
               [Idle EXCEPT !.pc = "start", !.mode = o.mode, !.dry = o.dry,
                            !.resolve = o.resolve, !.book = o.book]]
    BY <1>2 DEF Start
  <2>2. /\ o.mode \in {"postgres", "kafka"} /\ o.dry \in BOOLEAN
        /\ o.resolve \in BOOLEAN /\ o.book \in BOOLEAN
    BY OptionAssumption
  <2> DEFINE p == [Idle EXCEPT !.pc = "start", !.mode = o.mode, !.dry = o.dry,
                               !.resolve = o.resolve, !.book = o.book]
  <2>3. << >> \in Seq(Nat) /\ << >> \in Seq(Payloads)
    OBVIOUS
  <2>4. Idle \in Process
    BY <2>3 DEF Idle, Process
  <2>5. p \in Process
    BY <2>2, <2>4 DEF Process
  <2> HIDE DEF p
  <2> QED BY <1>1, <2>1, <2>5 DEF p
<1>3. CASE ReadRows(r)
  <2>1. PICK s \in Readable("open") :
          replay' = [replay EXCEPT ![r].pc = "work", ![r].todo = s]
    BY <1>3 DEF ReadRows
  <2>2. s \in Seq(Nat)
    <3>1. PICK p : ProcessStep(r, p)
      BY <1>3, LoopStep
    <3>2. replay'[r].todo = s
      BY <1>1, <2>1 DEF Process
    <3>3. replay'[r].todo \in Seq(DOMAIN errors)
      BY <1>1, <3>1 DEF ProcessStep, Becomes
    <3>4. DOMAIN errors \subseteq Nat
      BY DEF TypeOK
    <3> QED BY <3>2, <3>3, <3>4, SeqMonotonic
  <2> QED BY <1>1, <2>1, <2>2 DEF Process
<1>4. CASE Skip(r) \/ SkipBadLetter(r) \/ SendRaises(r)
  <2>1. InRows(r) \/ InLetters(r)
    BY <1>4 DEF Skip, SkipBadLetter, SendRaises, Sends
  <2>2. replay' = [replay EXCEPT ![r] = Counted(r)]
    BY <1>4 DEF Skip, SkipBadLetter, SendRaises
  <2> QED BY <1>1, <2>1, <2>2, CountedTyped
<1>5. CASE Send(r)
  <2>1. Sends(r) /\ replay' = [replay EXCEPT ![r] = Queued(r)]
    BY <1>5 DEF Send
  <2> QED BY <1>1, <2>1, QueuedTyped
<1>6. CASE Resolve(r)
  <2>1. replay' = [replay EXCEPT ![r].pc = "work", ![r].todo = Tail(@)]
        /\ replay[r].pc = "resolve"
    BY <1>6 DEF Resolve
  <2>2. replay[r].todo # << >> /\ replay[r].todo \in Seq(Nat)
    BY <1>1, <2>1 DEF ReplayInv, SentInv, Process
  <2>3. Tail(replay[r].todo) \in Seq(Nat)
    BY <2>2, HeadTailProperties
  <2> QED BY <1>1, <2>1, <2>3 DEF Process
<1>7. CASE OpenConsumer(r) \/ RaiseFailed(r) \/ Finish(r) \/ Close(r)
  <2>1. PICK s \in {"work", "close", "over"} : replay' = [replay EXCEPT ![r].pc = s]
    BY <1>7 DEF OpenConsumer, RaiseFailed, Finish, Close
  <2> QED BY <1>1, <2>1 DEF Process
<1>8. CASE BookingRaises(r)
  <2> DEFINE b == IF Sends(r) THEN Queued(r) ELSE replay[r]
  <2>1. b \in Process
    BY <1>1, QueuedTyped
  <2>2. replay' = [replay EXCEPT ![r] = [b EXCEPT !.pc = "close"]]
    BY <1>8 DEF BookingRaises
  <2> HIDE DEF b
  <2>3. [b EXCEPT !.pc = "close"] \in Process
    BY <2>1 DEF Process
  <2> QED BY <1>1, <2>2, <2>3
<1>9. CASE Deliver(r) \/ Drop(r)
  <2>1. replay' = [replay EXCEPT ![r].queue = Tail(@)] /\ replay[r].queue # << >>
    BY <1>9 DEF Deliver, Drop
  <2>2. replay[r].queue \in Seq(Payloads)
    BY <1>1 DEF Process
  <2>3. Tail(replay[r].queue) \in Seq(Payloads)
    BY <2>1, <2>2, HeadTailProperties
  <2> QED BY <1>1, <2>1, <2>3 DEF Process
<1>10. CASE Kill(r)
  <2>1. replay' = [replay EXCEPT ![r].pc = "over", ![r].todo = << >>, ![r].queue = << >>]
    BY <1>10 DEF Kill
  <2>2. << >> \in Seq(Nat) /\ << >> \in Seq(Payloads)
    OBVIOUS
  <2> QED BY <1>1, <2>1, <2>2 DEF Process
<1> QED BY <1>2, <1>3, <1>4, <1>5, <1>6, <1>7, <1>8, <1>9, <1>10 DEF Progress, Failure

\* Rows are rows and letters are samples, whatever is done to them.
ErrorRow == [body : Payloads, status : Statuses]

LEMMA NewRowsTyped ==
  ASSUME TypeOK, ReplayInv, NormalizeRun
  PROVE  errors' \in Seq(ErrorRow)
<1> DEFINE new == Unrecorded
           tail == [i \in DOMAIN new |-> OpenRow(new[i])]
           S == {p \in ToSet(log) : IsBad(p) /\ ~HasOpenRow(p)}
<1>1. IsFiniteSet(S) /\ S \in SUBSET ToSet(log)
  <2>1. S \in SUBSET ToSet(log)
    OBVIOUS
  <2>2. IsFiniteSet(ToSet(log))
    BY ToSetFinite DEF ReplayInv
  <2> HIDE DEF S
  <2> QED BY <2>1, <2>2, FS_Subset
<1>2. ToSet(log) \subseteq Payloads
  BY DEF TypeOK, ToSet
<1>3. new \in Seq(S)
  BY <1>1, SetToSeqIsSeq DEF Unrecorded
<1>4. S \subseteq Payloads
  BY <1>1, <1>2
<1>5. errors' = errors \o tail
  BY DEF NormalizeRun, ParseErrors
<1> HIDE DEF new, S
<1>6. Len(new) \in Nat /\ DOMAIN new = 1..Len(new) /\ \A i \in 1..Len(new) : new[i] \in Payloads
  BY <1>3, <1>4
<1>7. tail \in [1..Len(new) -> ErrorRow]
  BY <1>6 DEF OpenRow, ErrorRow, Statuses
<1>8. tail \in Seq(ErrorRow)
  BY <1>6, <1>7
<1>9. errors \in Seq(ErrorRow)
  BY DEF TypeOK, ErrorRow
<1> HIDE DEF tail
<1> QED BY <1>5, <1>8, <1>9, ConcatProperties

LEMMA RestampTyped ==
  ASSUME errors \in Seq(ErrorRow),
         errors' = [i \in DOMAIN errors |-> errors'[i]],
         \A i \in DOMAIN errors : errors'[i] \in ErrorRow
  PROVE  errors' \in Seq(ErrorRow)
<1>1. Len(errors) \in Nat /\ DOMAIN errors = 1..Len(errors)
  OBVIOUS
<1>2. errors' \in [1..Len(errors) -> ErrorRow]
  BY <1>1
<1> QED BY <1>1, <1>2

LEMMA RowsTyped ==
  ASSUME TypeOK, ReplayInv, [Next]_vars
  PROVE  errors' \in Seq(ErrorRow)
<1>1. errors \in Seq(ErrorRow) /\ \A i \in DOMAIN errors : errors[i] \in ErrorRow
  <2>1. errors \in Seq(ErrorRow)
    BY DEF TypeOK, ErrorRow
  <2> QED BY <2>1
<1>2. ASSUME NEW x \in ErrorRow, NEW st \in Statuses
      PROVE  [x EXCEPT !.status = st] \in ErrorRow
  BY DEF ErrorRow
<1>3. CASE NormalizeRun
  BY <1>3, NewRowsTyped
<1>4. CASE Compact
  <2>1. PICK aged \in SUBSET DOMAIN errors :
          errors' = [i \in DOMAIN errors |->
                       IF i \in aged THEN [errors[i] EXCEPT !.status = "archived"]
                                     ELSE errors[i]]
    BY <1>4 DEF Compact
  <2>2. \A i \in DOMAIN errors : [errors[i] EXCEPT !.status = "archived"] \in ErrorRow
    BY <1>1, <1>2 DEF Statuses
  <2>3. \A i \in DOMAIN errors : errors'[i] \in ErrorRow
    BY <1>1, <2>1, <2>2
  <2>4. errors' = [i \in DOMAIN errors |-> errors'[i]]
    BY <2>1
  <2> QED BY <1>1, <2>3, <2>4, RestampTyped
<1>5. ASSUME NEW k, NEW st \in Statuses, errors' = [errors EXCEPT ![k].status = st]
      PROVE  errors' \in Seq(ErrorRow)
  <2>1. errors' = [i \in DOMAIN errors |-> errors'[i]]
    BY <1>5
  <2>2. \A i \in DOMAIN errors :
          errors'[i] = IF i = k THEN [errors[i] EXCEPT !.status = st] ELSE errors[i]
    BY <1>5
  <2>3. \A i \in DOMAIN errors : errors'[i] \in ErrorRow
    BY <1>1, <1>2, <2>2
  <2> QED BY <1>1, <2>1, <2>3, RestampTyped
<1>6. CASE \E i \in DOMAIN errors : Triage(i)
  BY <1>5, <1>6 DEF Triage, Statuses
<1>7. ASSUME NEW r \in Replays, Resolve(r) PROVE errors' \in Seq(ErrorRow)
  BY <1>5, <1>7 DEF Resolve, Statuses
<1>8. ASSUME NEW r \in Replays, Start(r) \/ Progress(r) \/ Failure(r), ~Resolve(r)
      PROVE  errors' = errors
  BY <1>8 DEF Progress, Failure, Start, ReadRows, OpenConsumer, Skip, SkipBadLetter,
     Send, SendRaises, RaiseFailed, BookingRaises, Finish, Close, Deliver, Drop, Kill
<1>9. CASE UNCHANGED vars
  BY <1>1, <1>9 DEF vars
<1> QED BY <1>1, <1>3, <1>4, <1>6, <1>7, <1>8, <1>9 DEF Next

LEMMA LettersTyped ==
  ASSUME TypeOK, ReplayInv, BooksInv, NormalizeRun
  PROVE  /\ letters' \in Seq(Payloads \cup {NoSample})
         /\ Len(letters') <= MaxLetters
<1> DEFINE S == Payloads \cup {NoSample}
           new == Letters(Rejected)
           all == letters \o new
           n == IF Len(all) < MaxLetters THEN Len(all) ELSE MaxLetters
<1>1. ToSet(log) \subseteq Payloads
  BY DEF TypeOK, ToSet
<1>2. Rejected \in Seq(ToSet(log))
  BY RejectedAre DEF ReplayInv
<1>3. /\ Len(Rejected) \in Nat /\ DOMAIN Rejected = 1..Len(Rejected)
      /\ \A k \in 1..Len(Rejected) : Rejected[k] \in Payloads
  BY <1>1, <1>2
<1>4. new \in [1..Len(Rejected) -> S]
  BY <1>3, SampleAssumption DEF Letters
<1>5. new \in Seq(S) /\ letters \in Seq(S)
  BY <1>3, <1>4 DEF TypeOK
<1>6. letters' = SubSeq(all, 1, n)
  BY DEF NormalizeRun
<1> HIDE DEF new, S
<1>7. all \in Seq(S)
  BY <1>5, ConcatProperties
<1>8. Len(all) \in Nat /\ MaxLetters \in Nat
  BY <1>7, ReplayBounds
<1> HIDE DEF all
<1>9. n \in Nat /\ n <= Len(all) /\ n <= MaxLetters
  BY <1>8
<1> HIDE DEF n
<1>10. SubSeq(all, 1, n) \in Seq(S) /\ Len(SubSeq(all, 1, n)) = n
  <2>1. \A i \in 1..n : all[i] \in S
    BY <1>7, <1>8, <1>9
  <2> QED BY <1>9, <2>1, SubSeqProperties
<1> QED BY <1>6, <1>9, <1>10 DEF S

\* A replay's steps on the topic and on its own rows.
LEMMA TopicTyped ==
  ASSUME TypeOK, NEW r \in Replays, Deliver(r)
  PROVE  log' \in Seq(Payloads)
<1>1. replay[r].queue \in Seq(Payloads) /\ replay[r].queue # << >>
  <2>1. replay[r] \in Process
    BY DEF TypeOK
  <2> QED BY <2>1 DEF Process, Deliver
<1>2. Head(replay[r].queue) \in Payloads
  BY <1>1, HeadTailProperties
<1> QED BY <1>2, AppendProperties DEF Deliver, TypeOK

LEMMA ItemsTyped ==
  ASSUME TypeOK, ReplayInv, BooksInv, NEW r \in Replays, Skip(r) \/ Send(r) \/ SendRaises(r)
  PROVE  items' \in [Replays -> SUBSET Item]
<1>1. InRows(r) \/ InLetters(r)
  BY DEF Skip, Send, SendRaises, Sends
<1>2. At(r) \in Nat
  BY <1>1, KeptTyped
<1>3. PICK st \in {"replayed", "skipped", "failed"} : Booked(r, st)
  BY DEF Skip, Send, SendRaises
<1> DEFINE x == [id |-> At(r), status |-> st]
<1>4. x \in Item
  BY <1>2 DEF Item
<1>5. items' = [items EXCEPT ![r] = items[r] \cup {x}] \/ items' = items
  BY <1>3 DEF Booked
<1> HIDE DEF x
<1>6. items \in [Replays -> SUBSET Item]
  BY DEF TypeOK
<1> QED BY <1>4, <1>5, <1>6

LEMMA BooksTyped ==
  ASSUME TypeOK, ReplayInv, BooksInv, NEW r \in Replays,
         Start(r) \/ Progress(r) \/ Failure(r)
  PROVE  /\ ledger' \in [Replays -> {"absent", "running", "succeeded", "failed"}]
         /\ booked' \in [Replays -> [scanned : Nat, replayed : Nat]]
         /\ items' \in [Replays -> SUBSET Item]
<1>1. /\ ledger \in [Replays -> {"absent", "running", "succeeded", "failed"}]
      /\ booked \in [Replays -> [scanned : Nat, replayed : Nat]]
      /\ items \in [Replays -> SUBSET Item] /\ replay[r] \in Process
  BY DEF TypeOK
<1>2. CASE Skip(r) \/ Send(r) \/ SendRaises(r)
  <2>1. UNCHANGED << ledger, booked >>
    BY <1>2 DEF Skip, Send, SendRaises
  <2> QED BY <1>1, <1>2, <2>1, ItemsTyped
<1>3. CASE Finish(r)
  <2> DEFINE x == [scanned |-> replay[r].scanned, replayed |-> replay[r].replayed]
  <2>1. x \in [scanned : Nat, replayed : Nat]
    BY <1>1 DEF Process
  <2>2. /\ booked' = [booked EXCEPT ![r] = x] \/ booked' = booked
        /\ ledger' = [ledger EXCEPT ![r] = "succeeded"] \/ ledger' = ledger
        /\ items' = items
    BY <1>3 DEF Finish
  <2> HIDE DEF x
  <2> QED BY <1>1, <2>1, <2>2
<1>4. CASE Start(r) \/ RaiseFailed(r)
  <2>1. /\ \/ ledger' = ledger
           \/ \E v \in {"running", "failed"} : ledger' = [ledger EXCEPT ![r] = v]
        /\ UNCHANGED << booked, items >>
    BY <1>4 DEF Start, RaiseFailed
  <2> QED BY <1>1, <2>1
<1>5. CASE \/ ReadRows(r) \/ OpenConsumer(r) \/ SkipBadLetter(r) \/ Resolve(r) \/ Close(r)
           \/ Deliver(r) \/ BookingRaises(r) \/ Drop(r) \/ Kill(r)
  <2>1. UNCHANGED << ledger, booked, items >>
    BY <1>5 DEF ReadRows, OpenConsumer, SkipBadLetter, Resolve, Close, Deliver,
       BookingRaises, Drop, Kill, books
  <2> QED BY <1>1, <2>1
<1> QED BY <1>2, <1>3, <1>4, <1>5 DEF Progress, Failure

LEMMA CountersTyped ==
  ASSUME TypeOK, NEW r \in Replays, Start(r) \/ Progress(r) \/ Failure(r)
  PROVE  /\ triaged' = triaged /\ letters' = letters
         /\ faults' \in 0..MaxFaults /\ lost' \subseteq Replays
         /\ Deliver(r) \/ log' = log
<1>1. faults \in 0..MaxFaults /\ lost \subseteq Replays /\ MaxFaults \in Nat
  BY ReplayBounds DEF TypeOK
<1>2. CASE Start(r) \/ Progress(r)
  <2>1. UNCHANGED << triaged, letters, faults, lost >> /\ (Deliver(r) \/ log' = log)
    BY <1>2 DEF Start, Progress, ReadRows, OpenConsumer, Skip, SkipBadLetter, Send,
       Resolve, Finish, Close, Deliver, kafka
  <2> QED BY <1>1, <2>1
<1>3. CASE Failure(r)
  <2>1. Fault /\ UNCHANGED << triaged, letters, log >> /\ lost' \subseteq lost \cup {r}
    BY <1>3 DEF Failure, SendRaises, RaiseFailed, BookingRaises, Drop, Kill, kafka
  <2>2. faults' \in 0..MaxFaults
    BY <1>1, <2>1 DEF Fault
  <2> QED BY <1>1, <2>1, <2>2
<1> QED BY <1>2, <1>3

LEMMA TypeStep ==
  ASSUME TypeOK, ReplayInv, BooksInv, [Next]_vars
  PROVE  TypeOK'
<1>1. errors' \in Seq([body : Payloads, status : Statuses])
  BY RowsTyped DEF ErrorRow
<1>2. CASE UNCHANGED vars
  BY <1>2 DEF vars, kafka, books, TypeOK
<1>3. CASE NormalizeRun
  <2>1. UNCHANGED << log, ledger, booked, items, replay, triaged, faults, lost >>
    BY <1>3 DEF NormalizeRun, books
  <2>2. letters' \in Seq(Payloads \cup {NoSample}) /\ Len(letters') <= MaxLetters
    BY <1>3, LettersTyped
  <2> QED BY <1>1, <2>1, <2>2 DEF TypeOK
<1>4. CASE Compact
  <2>1. UNCHANGED << log, letters, ledger, booked, items, replay, triaged, faults, lost >>
    BY <1>4 DEF Compact, kafka, books
  <2> QED BY <1>1, <2>1 DEF TypeOK
<1>5. CASE \E i \in DOMAIN errors : Triage(i)
  <2>1. UNCHANGED << log, letters, ledger, booked, items, replay, faults, lost >>
        /\ triaged' = triaged + 1 /\ triaged < MaxTriage
    BY <1>5 DEF Triage, kafka, books
  <2>2. triaged' \in 0..MaxTriage
    BY <2>1, ReplayBounds DEF TypeOK
  <2> QED BY <1>1, <2>1, <2>2 DEF TypeOK
<1>6. ASSUME NEW r \in Replays, Start(r) \/ Progress(r) \/ Failure(r) PROVE TypeOK'
  <2>1. log' \in Seq(Payloads)
    BY <1>6, TopicTyped, CountersTyped DEF TypeOK
  <2>2. letters' \in Seq(Payloads \cup {NoSample}) /\ Len(letters') <= MaxLetters
        /\ triaged' \in 0..MaxTriage
    BY <1>6, CountersTyped DEF TypeOK
  <2>3. faults' \in 0..MaxFaults /\ lost' \subseteq Replays
    BY <1>6, CountersTyped
  <2>4. replay' \in [Replays -> Process]
    BY <1>6, ProcessTyped
  <2>5. /\ ledger' \in [Replays -> {"absent", "running", "succeeded", "failed"}]
        /\ booked' \in [Replays -> [scanned : Nat, replayed : Nat]]
        /\ items' \in [Replays -> SUBSET Item]
    BY <1>6, BooksTyped
  <2> QED BY <1>1, <2>1, <2>2, <2>3, <2>4, <2>5 DEF TypeOK
<1> QED BY <1>2, <1>3, <1>4, <1>5, <1>6 DEF Next

LEMMA TypeInit == ASSUME Init PROVE TypeOK
<1>1. << >> \in Seq(Nat) /\ << >> \in Seq(Payloads) /\ << >> \in Seq(Payloads \cup {NoSample})
      /\ << >> \in Seq([body : Payloads, status : Statuses]) /\ Len(<< >>) = 0
  OBVIOUS
<1>2. Idle \in Process
  BY <1>1 DEF Idle, Process
<1>3. /\ 0 \in 0..MaxTriage /\ 0 \in 0..MaxFaults /\ 0 <= MaxLetters
      /\ Arrived \in Seq(Payloads)
  BY ReplayBounds
<1>4. /\ replay \in [Replays -> Process]
      /\ ledger \in [Replays -> {"absent", "running", "succeeded", "failed"}]
      /\ booked \in [Replays -> [scanned : Nat, replayed : Nat]]
      /\ items \in [Replays -> SUBSET Item]
  BY <1>2 DEF Init
<1> QED BY <1>1, <1>3, <1>4 DEF Init, TypeOK

\* The topic only ever holds messages that a producer sent or a replay kept; rows
\* keep a payload and one of four statuses; every item is of a row or letter.
THEOREM TypeCorrect == Spec => []TypeOK
<1>1. Init => TypeOK
  BY TypeInit
<1>2. TypeOK /\ ReplayInv /\ BooksInv /\ [Next]_vars => TypeOK'
  BY TypeStep
<1> QED BY <1>1, <1>2, Invariance, BooksAlways, PTL DEF Spec

=============================================================================
