-------------------------- MODULE Normalize_proofs --------------------------
(***************************************************************************)
(* Proofs about Normalize, for any payloads, keys and runs and all values  *)
(* of the bounds.                                                          *)
(***************************************************************************)
EXTENDS Normalize, SequenceTheorems, TLAPS

-----------------------------------------------------------------------------
(* Types.                                                                  *)

\* A run never looks beyond the log: needed for Body(r) to be a payload.
EndsInLog == \A r \in Runs : run[r].end <= Len(log)

TypeInv == TypeOK /\ EndsInLog

LEMMA EmptyTxType == EmptyTx \in Tx
  BY DEF EmptyTx, Tx

LEMMA IdleRunType == IdleRun \in RunState
  BY EmptyTxType, NormalizeBounds DEF IdleRun, RunState

\* The message a run is at is a payload, at an offset of the log.
LEMMA BodyType ==
  ASSUME TypeInv, NEW r \in Runs, Reading(r)
  PROVE  /\ Body(r) \in Payloads
         /\ run[r].pos \in 1..Len(log) /\ run[r].pos \in 1..MaxLog
         /\ KeyOf[Body(r)] \in Keys /\ FailsAt[Body(r)] \in Stages
<1>1. run[r] \in RunState /\ log \in Seq(Payloads) /\ Len(log) <= MaxLog
  BY DEF TypeInv, TypeOK
<1>2. run[r].pos \in 1..Len(log) /\ run[r].pos \in 1..MaxLog
  BY <1>1, NormalizeBounds DEF TypeInv, EndsInLog, Reading, RunState
<1>3. log[run[r].pos] \in Payloads
  BY <1>1, <1>2, ElementOfSeq
<1> QED BY <1>2, <1>3, PayloadAssumption DEF Body

\* handle_normalize_failure, given state s of run r: the message is counted;
\* the error is not recorded in an aborted transaction, refused and the
\* transaction aborted with it, or recorded.
LEMMA QuarantineOutcome ==
  ASSUME TypeInv, NEW r \in Runs, Reading(r), NEW class \in Classes,
         NEW s \in RunState, s.pos = run[r].pos, NEW raised \in Nat,
         Quarantine(r, s, class, raised)
  PROVE  /\ run' \in [Runs -> RunState] /\ fails' \in 0..MaxFails
         /\ \A q \in Runs \ {r} : run'[q] = run[q]
         /\ run'[r].pc = s.pc /\ run'[r].end = s.end
         /\ run'[r].pos = s.pos + 1 /\ run'[r].max = s.pos
         /\ run'[r].mark = s.mark
         /\ \/ /\ s.aborted /\ run'[r].aborted
               /\ run'[r].tx = s.tx /\ run'[r].spoilt = s.spoilt
            \/ /\ ~s.aborted /\ run'[r].aborted /\ run'[r].spoilt
               /\ run'[r].tx = IF s.marked THEN s.mark ELSE EmptyTx
            \/ /\ ~s.aborted /\ ~run'[r].aborted /\ Storable[Body(r)]
               /\ run'[r].spoilt = s.spoilt
               /\ run'[r].tx.norm = s.tx.norm /\ run'[r].tx.raw = s.tx.raw
               /\ run'[r].tx.errs = s.tx.errs \cup {<< Body(r), class >>}
<1> DEFINE p == log[s.pos]
           counted == [s EXCEPT !.pos = @ + 1, !.max = s.pos, !.err = s.pos]
           refused == [counted EXCEPT !.aborted = TRUE, !.spoilt = TRUE,
                                      !.tx = IF s.marked THEN s.mark ELSE EmptyTx]
           unsent == [counted EXCEPT !.tx.errs = @ \cup {<< p, class >>}]
           sent == [unsent EXCEPT !.queue = @ \cup {[topic |-> "dead_letter", body |-> p]}]
<1>1. p \in Payloads /\ s.pos \in 1..MaxLog /\ p = Body(r)
  BY BodyType DEF Body
<1>2. /\ counted \in RunState /\ counted.end = s.end /\ counted.pc = s.pc
      /\ counted.pos = s.pos + 1 /\ counted.max = s.pos /\ counted.tx = s.tx
      /\ counted.mark = s.mark /\ counted.aborted = s.aborted
      /\ counted.spoilt = s.spoilt /\ counted.queue = s.queue
  <2>1. s.pos + 1 \in 1..(MaxLog + 1) /\ s.pos \in 0..MaxLog
    BY <1>1, NormalizeBounds
  <2> QED BY <2>1 DEF RunState
<1> HIDE DEF counted
<1>3. /\ refused \in RunState /\ refused.end = s.end /\ refused.pc = s.pc
      /\ refused.pos = s.pos + 1 /\ refused.max = s.pos
      /\ refused.tx = (IF s.marked THEN s.mark ELSE EmptyTx)
      /\ refused.mark = s.mark /\ refused.aborted /\ refused.spoilt
  BY <1>2, EmptyTxType DEF RunState
<1>4. /\ unsent \in RunState /\ unsent.end = s.end /\ unsent.pc = s.pc
      /\ unsent.pos = s.pos + 1 /\ unsent.max = s.pos /\ unsent.mark = s.mark
      /\ unsent.aborted = s.aborted /\ unsent.spoilt = s.spoilt
      /\ unsent.tx.norm = s.tx.norm /\ unsent.tx.raw = s.tx.raw
      /\ unsent.tx.errs = s.tx.errs \cup {<< p, class >>}
      /\ unsent.queue = s.queue
  <2> DEFINE tx == [s.tx EXCEPT !.errs = @ \cup {<< p, class >>}]
  <2>1. /\ tx \in Tx /\ tx.norm = s.tx.norm /\ tx.raw = s.tx.raw
        /\ tx.errs = s.tx.errs \cup {<< p, class >>}
    BY <1>1 DEF RunState, Tx, ErrorKey
  <2>2. unsent = [counted EXCEPT !.tx = tx]
    BY <1>2 DEF RunState
  <2> HIDE DEF tx
  <2> QED BY <1>2, <2>1, <2>2 DEF RunState
<1> HIDE DEF unsent, refused
<1>5. /\ sent \in RunState /\ sent.end = s.end /\ sent.pc = s.pc
      /\ sent.pos = s.pos + 1 /\ sent.max = s.pos /\ sent.mark = s.mark
      /\ sent.aborted = s.aborted /\ sent.spoilt = s.spoilt
      /\ sent.tx = unsent.tx
  <2>1. [topic |-> "dead_letter", body |-> p] \in Message
    BY <1>1 DEF Message
  <2> QED BY <1>4, <2>1 DEF RunState
<1> HIDE DEF sent
<1>6. /\ \/ /\ s.aborted
            /\ run' = [run EXCEPT ![r] = counted] /\ fails' = raised
         \/ /\ ~s.aborted
            /\ run' = [run EXCEPT ![r] = refused]
            /\ fails' = IF Storable[p] THEN raised + 1 ELSE raised
         \/ /\ ~s.aborted /\ Storable[p]
            /\ \/ run' = [run EXCEPT ![r] = sent] /\ fails' = raised
               \/ run' = [run EXCEPT ![r] = unsent] /\ fails' = raised + 1
      /\ fails' <= MaxFails
  BY DEF Quarantine, counted, refused, unsent, sent
<1>7. run \in [Runs -> RunState]
  BY DEF TypeInv, TypeOK
<1>8. fails' \in 0..MaxFails
  BY <1>6, NormalizeBounds
<1>9. CASE s.aborted /\ run' = [run EXCEPT ![r] = counted]
  BY <1>2, <1>7, <1>8, <1>9
<1>10. CASE ~s.aborted /\ run' = [run EXCEPT ![r] = refused]
  BY <1>3, <1>7, <1>8, <1>10
<1>11. CASE ~s.aborted /\ Storable[p] /\ run' = [run EXCEPT ![r] = sent]
  BY <1>1, <1>4, <1>5, <1>7, <1>8, <1>11
<1>12. CASE ~s.aborted /\ Storable[p] /\ run' = [run EXCEPT ![r] = unsent]
  BY <1>1, <1>4, <1>7, <1>8, <1>12
<1> QED BY <1>6, <1>9, <1>10, <1>11, <1>12

\* The rollback of one row.
LEMMA UndoneRun ==
  ASSUME NEW s \in RunState
  PROVE  /\ Undone(s) \in RunState /\ Undone(s).pc = s.pc
         /\ Undone(s).pos = s.pos /\ Undone(s).end = s.end
         /\ Undone(s).tx = s.tx /\ Undone(s).mark = s.tx
         /\ Undone(s).aborted = s.aborted /\ Undone(s).spoilt = s.spoilt
  BY DEF Undone, RunState

Rejects(r) ==
  RejectBody(r) \/ RejectRow(r) \/ RowRaises(r) \/ RejectAfterAbort(r)

\* What a run has after it has quarantined a message, compared with what it
\* had before.
RejectedAs(r, class) ==
  /\ run'[r].pc = "read" /\ run'[r].end = run[r].end
  /\ run'[r].pos = run[r].pos + 1 /\ run'[r].max = run[r].pos
  /\ run'[r].mark \in {run[r].mark, run[r].tx}
  /\ \/ /\ run[r].aborted /\ run'[r].aborted
        /\ run'[r].tx = run[r].tx /\ run'[r].spoilt = run[r].spoilt
     \/ /\ run'[r].aborted /\ run'[r].spoilt
        /\ run'[r].tx \in {run[r].tx, run[r].mark, EmptyTx}
     \/ /\ ~run'[r].aborted /\ run'[r].spoilt = run[r].spoilt
        /\ \/ class = "raised" /\ ReachesRow(Body(r))
           \/ class = "aborted" /\ run[r].aborted
           \/ class = FailsAt[Body(r)]
        /\ run'[r].tx.norm = run[r].tx.norm
        /\ run'[r].tx.raw = run[r].tx.raw
        /\ run'[r].tx.errs = run[r].tx.errs \cup {<< Body(r), class >>}

LEMMA RejectStep ==
  ASSUME TypeInv, NEW r \in Runs, Rejects(r)
  PROVE  /\ Reading(r) /\ UNCHANGED << log, tables, out, kills >>
         /\ run' \in [Runs -> RunState] /\ fails' \in 0..MaxFails
         /\ \A q \in Runs \ {r} : run'[q] = run[q]
         /\ \E class \in Classes : RejectedAs(r, class)
<1>0. /\ run[r] \in RunState /\ run \in [Runs -> RunState]
      /\ fails \in Nat /\ fails + 1 \in Nat
  BY NormalizeBounds DEF TypeInv, TypeOK
<1>1. Reading(r) /\ UNCHANGED << log, tables, out, kills >> /\ run[r].pc = "read"
  BY DEF Rejects, RejectBody, RejectRow, RowRaises, RejectAfterAbort, Reading
<1>2. ASSUME NEW s \in RunState, NEW class \in Classes, NEW raised \in Nat,
             Quarantine(r, s, class, raised),
             s.pc = run[r].pc, s.pos = run[r].pos, s.end = run[r].end,
             s.tx = run[r].tx, s.mark \in {run[r].mark, run[r].tx},
             s.spoilt = run[r].spoilt, s.aborted => run[r].aborted,
             Storable[Body(r)] =>
               \/ class = "raised" /\ ReachesRow(Body(r))
               \/ class = "aborted" /\ run[r].aborted
               \/ class = FailsAt[Body(r)]
      PROVE  /\ run' \in [Runs -> RunState] /\ fails' \in 0..MaxFails
             /\ \A q \in Runs \ {r} : run'[q] = run[q]
             /\ \E c \in Classes : RejectedAs(r, c)
  <2>1. /\ run' \in [Runs -> RunState] /\ fails' \in 0..MaxFails
        /\ \A q \in Runs \ {r} : run'[q] = run[q]
        /\ run'[r].pc = s.pc /\ run'[r].end = s.end
        /\ run'[r].pos = s.pos + 1 /\ run'[r].max = s.pos
        /\ run'[r].mark = s.mark
        /\ \/ /\ s.aborted /\ run'[r].aborted
              /\ run'[r].tx = s.tx /\ run'[r].spoilt = s.spoilt
           \/ /\ ~s.aborted /\ run'[r].aborted /\ run'[r].spoilt
              /\ run'[r].tx = IF s.marked THEN s.mark ELSE EmptyTx
           \/ /\ ~s.aborted /\ ~run'[r].aborted /\ Storable[Body(r)]
              /\ run'[r].spoilt = s.spoilt
              /\ run'[r].tx.norm = s.tx.norm /\ run'[r].tx.raw = s.tx.raw
              /\ run'[r].tx.errs = s.tx.errs \cup {<< Body(r), class >>}
    BY <1>1, <1>2, QuarantineOutcome
  <2>2. RejectedAs(r, class)
    BY <1>1, <1>2, <2>1 DEF RejectedAs
  <2> QED BY <2>1, <2>2
<1>3. CASE RejectBody(r)
  <2>1. FailsAt[Body(r)] \in Classes /\ Quarantine(r, run[r], FailsAt[Body(r)], fails)
    BY <1>3 DEF RejectBody, Classes
  <2> QED BY <1>0, <1>1, <1>2, <2>1
<1>4. CASE RejectRow(r)
  <2>1. /\ "row" \in Classes /\ Quarantine(r, Undone(run[r]), "row", fails)
        /\ Storable[Body(r)] => FailsAt[Body(r)] = "row"
    BY <1>4 DEF RejectRow, Classes, ReachesRow, Valid
  <2> QED BY <1>0, <1>1, <1>2, <2>1, UndoneRun
<1>5. CASE RowRaises(r)
  <2>1. /\ "raised" \in Classes /\ ReachesRow(Body(r))
        /\ Quarantine(r, Undone(run[r]), "raised", fails + 1)
    BY <1>5 DEF RowRaises, Classes
  <2> QED BY <1>0, <1>1, <1>2, <2>1, UndoneRun
<1>6. CASE RejectAfterAbort(r)
  <2> DEFINE revived == [run[r] EXCEPT !.aborted = FALSE]
  <2>1. /\ revived \in RunState /\ revived.pos = run[r].pos
        /\ revived.pc = run[r].pc /\ revived.end = run[r].end
        /\ revived.tx = run[r].tx /\ revived.mark = run[r].mark
        /\ revived.spoilt = run[r].spoilt /\ ~revived.aborted
    BY <1>0 DEF RunState
  <2>2. /\ Quarantine(r, revived, "aborted", fails) /\ run[r].aborted
        /\ "aborted" \in Classes
    BY <1>6 DEF RejectAfterAbort, Classes
  <2> HIDE DEF revived
  <2> QED BY <1>0, <1>1, <1>2, <2>1, <2>2
<1> QED BY <1>1, <1>3, <1>4, <1>5, <1>6 DEF Rejects

\* Ending a run, in whatever way, leaves the state typed.
LEMMA EscapeType ==
  ASSUME TypeInv, NEW r \in Runs, Escape(r)
  PROVE  TypeInv'
<1>1. run[r].queue \subseteq Message
  BY DEF TypeInv, TypeOK, RunState
<1>2. IdleRun.end = 0
  BY DEF IdleRun
<1>3. \A q \in Runs : run'[q].end = run[q].end \/ run'[q].end = 0
  BY <1>2 DEF Escape, TypeInv, TypeOK
<1>4. EndsInLog'
  BY <1>3 DEF Escape, TypeInv, TypeOK, EndsInLog
<1> QED
  BY <1>1, <1>4, IdleRunType DEF Escape, tables, TypeInv, TypeOK

\* A step of one run that leaves the log alone, and the end of the run.
LEMMA RunStepType ==
  ASSUME TypeInv, NEW r \in Runs, NEW s \in RunState, s.end = run[r].end,
         run' = [run EXCEPT ![r] = s], UNCHANGED << log, tables, out, kills, fails >>
  PROVE  TypeInv'
<1>1. run' \in [Runs -> RunState] /\ \A q \in Runs : run'[q].end = run[q].end
  BY DEF TypeInv, TypeOK
<1> QED BY <1>1 DEF TypeInv, TypeOK, EndsInLog, tables

LEMMA TypeInit == ASSUME Init PROVE TypeInv
<1>1. \A r \in Runs : run[r].end = 0
  BY DEF Init, IdleRun
<1>2. << >> \in Seq(Payloads) /\ Len(<< >>) = 0
  OBVIOUS
<1>3. EndsInLog
  BY <1>1, <1>2 DEF Init, EndsInLog
<1>4. 0 \in 0..MaxLog /\ 0 \in 0..MaxKills /\ 0 \in 0..MaxFails /\ 0 <= MaxLog
  BY NormalizeBounds
<1>5. offsets \in Offsets /\ closed \in [ErrorKey -> 0..MaxLog]
  BY <1>4 DEF Init, Offsets
<1>6. log \in Seq(Payloads) /\ Len(log) <= MaxLog
  BY <1>2, <1>4 DEF Init
<1>7. TypeOK
  BY <1>4, <1>5, <1>6, IdleRunType DEF Init, TypeOK
<1> QED BY <1>3, <1>7 DEF TypeInv

\* One statement of a run keeps the types.
LEMMA ProgressType ==
  ASSUME TypeInv, NEW r \in Runs, Progress(r)
  PROVE  TypeInv'
<1>0. run[r] \in RunState /\ run \in [Runs -> RunState]
  BY DEF TypeInv, TypeOK
<1>1. CASE SkipNull(r)
  <2>1. run[r].pos + 1 \in 1..(MaxLog + 1)
    BY <1>1, BodyType, NormalizeBounds DEF SkipNull
  <2>2. [run[r] EXCEPT !.pos = @ + 1] \in RunState
    BY <1>0, <2>1 DEF RunState
  <2>3. [run[r] EXCEPT !.pos = @ + 1].end = run[r].end
    BY <1>0 DEF RunState
  <2> QED
    BY <1>1, <2>2, <2>3, RunStepType DEF SkipNull
<1>2. CASE FailDecode(r)
  BY <1>2, EscapeType DEF FailDecode
<1>3. CASE Rejects(r)
  <2>1. /\ UNCHANGED << log, tables, out, kills >>
        /\ run' \in [Runs -> RunState] /\ fails' \in 0..MaxFails
        /\ \A q \in Runs : run'[q].end = run[q].end
    BY <1>3, RejectStep DEF RejectedAs
  <2> QED BY <2>1 DEF tables, TypeInv, TypeOK, EndsInLog
<1>4. CASE AcceptRow(r)
  <2> DEFINE k == KeyOf[Body(r)]
             tx == [run[r].tx EXCEPT !.norm[k] = Body(r),
                                     !.raw = @ \cup {run[r].pos}]
             q == run[r].queue \cup {[topic |-> "normalized", body |-> Body(r)]}
             s == [run[r] EXCEPT !.pos = @ + 1, !.max = run[r].pos,
                                 !.ok = run[r].pos, !.tx = tx, !.queue = q]
  <2>1. /\ Body(r) \in Payloads /\ k \in Keys /\ run[r].pos \in 1..MaxLog
    BY <1>4, BodyType DEF AcceptRow
  <2>2. tx \in Tx
    BY <1>0, <2>1 DEF RunState, Tx
  <2>3. q \in SUBSET Message
    BY <1>0, <2>1 DEF RunState, Message
  <2>4. run[r].pos + 1 \in 1..(MaxLog + 1) /\ run[r].pos \in 0..MaxLog
    BY <2>1, NormalizeBounds
  <2>5. s \in RunState
    BY <1>0, <2>2, <2>3, <2>4 DEF RunState
  <2>6. s.end = run[r].end
    BY <1>0 DEF RunState
  <2>7. run' = [run EXCEPT ![r] = s]
    BY <1>4 DEF AcceptRow
  <2> QED
    BY <1>4, <2>5, <2>6, <2>7, RunStepType DEF AcceptRow
<1>7. CASE FailAfterAbort(r)
  BY <1>7, EscapeType DEF FailAfterAbort
<1>8. CASE Commit(r)
  <2> DEFINE s == [run[r] EXCEPT !.pc = "flush", !.tx = EmptyTx, !.mark = EmptyTx]
  <2>1. s \in RunState /\ s.end = run[r].end
    BY <1>0, EmptyTxType DEF RunState
  <2>2. run' = [run EXCEPT ![r] = s]
    BY <1>0, <1>8 DEF Commit, RunState
  <2>3. run' \in [Runs -> RunState] /\ \A q \in Runs : run'[q].end = run[q].end
    BY <1>0, <2>1, <2>2
  <2>4. norm' \in [Keys -> Payloads \cup {NoRow}]
    BY <1>0, <1>8 DEF Commit, NormAfter, TypeInv, TypeOK, RunState, Tx
  <2>5. raw' \subseteq 1..MaxLog /\ open' \subseteq ErrorKey
    BY <1>0, <1>8 DEF Commit, TypeInv, TypeOK, RunState, Tx
  <2>6. offsets' \in Offsets
    BY <1>0, <1>8 DEF Commit, OffsetsAfter, Larger, Offsets, TypeInv, TypeOK, RunState
  <2>7. tainted' \in BOOLEAN
    BY <1>0, <1>8 DEF Commit, TypeInv, TypeOK, RunState
  <2> QED
    BY <1>8, <2>3, <2>4, <2>5, <2>6, <2>7 DEF Commit, TypeInv, TypeOK, EndsInLog
<1>9. CASE FailCommit(r)
  BY <1>9, EscapeType DEF FailCommit
<1>10. CASE Flush(r)
  BY <1>10, EscapeType DEF Flush
<1> QED
  BY <1>1, <1>2, <1>3, <1>4, <1>7, <1>8, <1>9, <1>10 DEF Progress, Rejects

LEMMA TypeStep == ASSUME TypeInv, [Next]_vars PROVE TypeInv'
<1>1. CASE UNCHANGED vars
  BY <1>1 DEF vars, tables, TypeInv, TypeOK, EndsInLog
<1>2. ASSUME NEW p \in Payloads, Produce(p) PROVE TypeInv'
  <2>1. Len(log) \in Nat /\ log \in Seq(Payloads)
    BY DEF TypeInv, TypeOK
  <2>2. /\ log' \in Seq(Payloads) /\ Len(log') = Len(log) + 1
        /\ Len(log') <= MaxLog
    BY <1>2, <2>1, NormalizeBounds DEF Produce
  <2>3. \A r \in Runs : run[r].end <= Len(log')
    BY <2>1, <2>2 DEF TypeInv, TypeOK, EndsInLog, RunState
  <2> QED
    BY <1>2, <2>2, <2>3 DEF Produce, tables, TypeInv, TypeOK, EndsInLog
<1>3. ASSUME NEW e \in ErrorKey, CloseError(e) PROVE TypeInv'
  <2>1. Len(log) \in 0..MaxLog
    BY NormalizeBounds DEF TypeInv, TypeOK
  <2> QED
    BY <1>3, <2>1 DEF CloseError, TypeInv, TypeOK, EndsInLog
<1>4. ASSUME NEW r \in Runs, StartRun(r) PROVE TypeInv'
  <2> DEFINE s == [IdleRun EXCEPT !.pc = "read", !.end = Len(log)]
  <2>1. Len(log) \in 0..MaxLog
    BY NormalizeBounds DEF TypeInv, TypeOK
  <2>2. s \in RunState /\ s.end = Len(log)
    BY <2>1, IdleRunType DEF RunState, IdleRun
  <2>3. run' = [run EXCEPT ![r] = s]
    BY <1>4 DEF StartRun
  <2>4. run' \in [Runs -> RunState] /\ \A q \in Runs : run'[q].end <= Len(log)
    BY <2>1, <2>2, <2>3 DEF TypeInv, TypeOK, EndsInLog
  <2> QED
    BY <1>4, <2>4 DEF StartRun, tables, TypeInv, TypeOK, EndsInLog
<1>5. ASSUME NEW r \in Runs, Kill(r) PROVE TypeInv'
  <2>1. out' \subseteq Message
    BY <1>5 DEF Kill, TypeInv, TypeOK, RunState
  <2>2. kills' \in 0..MaxKills
    BY <1>5, NormalizeBounds DEF Kill, TypeInv, TypeOK
  <2>3. IdleRun.end = 0
    BY DEF IdleRun
  <2>4. EndsInLog'
    BY <1>5, <2>3 DEF Kill, TypeInv, TypeOK, EndsInLog
  <2> QED
    BY <1>5, <2>1, <2>2, <2>4, IdleRunType DEF Kill, tables, TypeInv, TypeOK
<1> QED
  BY <1>1, <1>2, <1>3, <1>4, <1>5, ProgressType DEF Next

\* Every reachable state of the tables, the runs and the producers' queues
\* is well typed; in particular no run reads past the end of the partition
\* and every parse error has one of the classes the code gives.
THEOREM TypeCorrect == Spec => []TypeOK
<1>1. Init => TypeInv
  BY TypeInit
<1>2. TypeInv /\ [Next]_vars => TypeInv'
  BY TypeStep
<1>3. TypeInv => TypeOK
  BY DEF TypeInv
<1> QED BY <1>1, <1>2, <1>3, PTL DEF Spec

-----------------------------------------------------------------------------
(* Offsets.                                                                *)

\* Only a commit changes the recorded offsets, and it takes the larger of
\* each pair (upsert_consumer_offset's GREATEST): whatever runs overlap and
\* in whatever order they commit, no recorded offset goes back.
THEOREM OffsetsMonotone == Spec => OffsetsNeverGoBack
<1> DEFINE Forward == /\ offsets'.cur >= offsets.cur
                      /\ offsets'.ok >= offsets.ok
                      /\ offsets'.err >= offsets.err
<1>1. TypeInv /\ [Next]_vars => [Forward]_offsets
  <2> SUFFICES ASSUME TypeInv, [Next]_vars, offsets' # offsets
               PROVE  Forward
    OBVIOUS
  <2>1. PICK r \in Runs : Commit(r)
    BY DEF Next, Progress, vars, tables, Produce, CloseError, StartRun,
           SkipNull, FailDecode, RejectBody, AcceptRow, RejectRow,
           RowRaises, RejectAfterAbort, FailAfterAbort, FailCommit, Flush, Escape, Kill
  <2>2. run[r] \in RunState /\ offsets \in Offsets
    BY DEF TypeInv, TypeOK
  <2> QED
    BY <2>1, <2>2, NormalizeBounds
    DEF Commit, OffsetsAfter, Larger, Offsets, RunState
<1>2. Spec => []TypeInv
  BY TypeInit, TypeStep, PTL DEF Spec
<1> QED BY <1>1, <1>2, PTL DEF Spec, OffsetsNeverGoBack

-----------------------------------------------------------------------------
(* What is recorded is true, whatever the payloads.                        *)

\* A message, once in the log, stays where it is.
LEMMA LogGrows ==
  ASSUME TypeInv, NEW p \in Payloads, Produce(p)
  PROVE  /\ Len(log) \in Nat /\ Len(log') = Len(log) + 1
         /\ \A i \in 1..Len(log) : log'[i] = log[i]
  BY DEF Produce, TypeInv, TypeOK

\* RecordsAreTrue, said of what a transaction has written.
TxTrue(tx) ==
  /\ \A i \in tx.raw : i <= Len(log) /\ Valid(log[i])
  /\ \A k \in Keys : tx.norm[k] # NoRow => \E i \in tx.raw : log[i] = tx.norm[k]
  /\ \A e \in tx.errs :
       e[2] # "aborted" => e \in ErrorsOf(Len(log)) \cup RaisedOf(Len(log))

\* A run can commit what it has written and what it had written at the
\* savepoint that is left, so both must be true at any time.
TruthInv ==
  /\ RecordsAreTrue
  /\ \A r \in Runs : TxTrue(run[r].tx) /\ TxTrue(run[r].mark)

LEMMA EmptyTxTrue == TxTrue(EmptyTx)
  BY DEF TxTrue, EmptyTx

\* The message at hand has the parse error that names its stage, if that is
\* one of the classes, and that of a row that raised, if its row is reached.
LEMMA ErrorOfBody ==
  ASSUME TypeInv, NEW r \in Runs, Reading(r)
  PROVE  /\ FailsAt[Body(r)] \in Classes =>
              << Body(r), FailsAt[Body(r)] >> \in ErrorsOf(Len(log))
         /\ ReachesRow(Body(r)) => << Body(r), "raised" >> \in RaisedOf(Len(log))
  BY BodyType DEF ErrorsOf, RaisedOf, Body

\* Only the tables' truth is left to show when the log and the tables stay.
LEMMA TruthOfRuns ==
  ASSUME TruthInv, UNCHANGED << log, norm, raw, open, closed >>,
         \A r \in Runs : TxTrue(run'[r].tx) /\ TxTrue(run'[r].mark)
  PROVE  TruthInv'
  BY DEF TruthInv, RecordsAreTrue, TxTrue, EverRecorded, ErrorsOf, RaisedOf

\* An ended run has written nothing.
LEMMA TruthEscape ==
  ASSUME TypeInv, TruthInv, NEW r \in Runs, run' = [run EXCEPT ![r] = IdleRun],
         UNCHANGED << log, tables >>
  PROVE  TruthInv'
<1>1. \A q \in Runs : TxTrue(run'[q].tx) /\ TxTrue(run'[q].mark)
  BY EmptyTxTrue DEF TruthInv, TypeInv, TypeOK, IdleRun
<1> QED BY <1>1, TruthOfRuns DEF tables

\* The dead-letter path writes a true parse error or none, and goes back to
\* nothing but the savepoint.
LEMMA TruthReject ==
  ASSUME TypeInv, TruthInv, NEW r \in Runs, Rejects(r)
  PROVE  TruthInv'
<1>1. /\ Reading(r) /\ UNCHANGED << log, tables >>
      /\ \A q \in Runs \ {r} : run'[q] = run[q]
  BY RejectStep
<1>2. PICK class \in Classes : RejectedAs(r, class)
  BY RejectStep
<1>3. TxTrue(run[r].tx) /\ TxTrue(run[r].mark) /\ TxTrue(EmptyTx)
  BY EmptyTxTrue DEF TruthInv
<1>4. TxTrue(run'[r].mark)
  BY <1>2, <1>3 DEF RejectedAs
<1>5. TxTrue(run'[r].tx)
  <2>1. CASE run'[r].tx \in {run[r].tx, run[r].mark, EmptyTx}
    BY <1>3, <2>1
  <2>2. CASE /\ \/ class = "raised" /\ ReachesRow(Body(r))
                \/ class = "aborted" /\ run[r].aborted
                \/ class = FailsAt[Body(r)]
             /\ run'[r].tx.norm = run[r].tx.norm
             /\ run'[r].tx.raw = run[r].tx.raw
             /\ run'[r].tx.errs = run[r].tx.errs \cup {<< Body(r), class >>}
    <3>1. class # "aborted" =>
            << Body(r), class >> \in ErrorsOf(Len(log)) \cup RaisedOf(Len(log))
      BY <1>1, <2>2, ErrorOfBody
    <3>2. << Body(r), class >>[2] = class
      OBVIOUS
    <3> QED BY <1>3, <2>2, <3>1, <3>2 DEF TxTrue
  <2> QED BY <1>2, <2>1, <2>2 DEF RejectedAs
<1> QED BY <1>1, <1>4, <1>5, TruthOfRuns DEF TruthInv, tables

LEMMA TruthProgress ==
  ASSUME TypeInv, TruthInv, NEW r \in Runs, Progress(r)
  PROVE  TruthInv'
<1>0. run[r] \in RunState /\ run \in [Runs -> RunState]
  BY DEF TypeInv, TypeOK
<1>1. CASE SkipNull(r)
  <2>1. \A q \in Runs : run'[q].tx = run[q].tx /\ run'[q].mark = run[q].mark
    BY <1>0, <1>1 DEF SkipNull, RunState
  <2> QED BY <1>1, <2>1, TruthOfRuns DEF SkipNull, TruthInv, tables
<1>2. CASE FailDecode(r) \/ FailAfterAbort(r) \/ FailCommit(r) \/ Flush(r)
  BY <1>2, TruthEscape
  DEF FailDecode, FailAfterAbort, FailCommit, Flush, Escape
<1>3. CASE Rejects(r)
  BY <1>3, TruthReject
<1>4. CASE AcceptRow(r)
  <2> DEFINE k == KeyOf[Body(r)]
             tx == [run[r].tx EXCEPT !.norm[k] = Body(r),
                                     !.raw = @ \cup {run[r].pos}]
  <2>1. run'[r].tx = tx /\ run'[r].mark = run[r].mark
    BY <1>0, <1>4 DEF AcceptRow, RunState
  <2>2. \A q \in Runs \ {r} : run'[q] = run[q]
    BY <1>0, <1>4 DEF AcceptRow
  <2>3. TxTrue(tx)
    <3>1. /\ run[r].pos \in 1..Len(log) /\ Valid(log[run[r].pos])
          /\ k \in Keys /\ Body(r) = log[run[r].pos]
      BY <1>4, BodyType DEF AcceptRow, Body
    <3>2. /\ tx.raw = run[r].tx.raw \cup {run[r].pos}
          /\ tx.errs = run[r].tx.errs
          /\ tx.norm = [run[r].tx.norm EXCEPT ![k] = Body(r)]
          /\ run[r].tx.norm \in [Keys -> Payloads \cup {NoRow}]
      BY <1>0 DEF RunState, Tx
    <3>3. TxTrue(run[r].tx)
      BY DEF TruthInv
    <3>4. \A i \in tx.raw : i <= Len(log) /\ Valid(log[i])
      BY <3>1, <3>2, <3>3 DEF TxTrue
    <3>5. ASSUME NEW l \in Keys, tx.norm[l] # NoRow
          PROVE  \E i \in tx.raw : log[i] = tx.norm[l]
      BY <3>1, <3>2, <3>3, <3>5 DEF TxTrue
    <3> QED BY <3>2, <3>3, <3>4, <3>5 DEF TxTrue
  <2> HIDE DEF tx
  <2>4. \A q \in Runs : TxTrue(run'[q].tx) /\ TxTrue(run'[q].mark)
    BY <2>1, <2>2, <2>3 DEF TruthInv
  <2> QED BY <1>4, <2>4, TruthOfRuns DEF AcceptRow, tables
<1>7. CASE Commit(r)
  <2>1. /\ run'[r].tx = EmptyTx /\ run'[r].mark = EmptyTx
        /\ \A q \in Runs \ {r} : run'[q] = run[q]
    BY <1>0, <1>7 DEF Commit, RunState
  <2>2. \A q \in Runs : TxTrue(run'[q].tx) /\ TxTrue(run'[q].mark)
    BY <2>1, EmptyTxTrue DEF TruthInv
  <2>3. TxTrue(run[r].tx) /\ RecordsAreTrue /\ log' = log
    BY <1>7 DEF TruthInv, Commit
  <2>4. \A i \in raw' : i <= Len(log) /\ Valid(log[i])
    BY <1>7, <2>3 DEF Commit, RecordsAreTrue, TxTrue
  <2>5. ASSUME NEW k \in Keys, norm'[k] # NoRow
        PROVE  \E i \in raw' : log[i] = norm'[k]
    BY <1>7, <2>3, <2>5 DEF Commit, NormAfter, RecordsAreTrue, TxTrue
  <2>6. ASSUME NEW e \in EverRecorded', e[2] # "aborted"
        PROVE  e \in ErrorsOf(Len(log)) \cup RaisedOf(Len(log))
    BY <1>7, <2>3, <2>6 DEF Commit, EverRecorded, RecordsAreTrue, TxTrue
  <2>7. RecordsAreTrue'
    BY <2>3, <2>4, <2>5, <2>6 DEF RecordsAreTrue, ErrorsOf, RaisedOf
  <2> QED BY <2>2, <2>3, <2>7 DEF TruthInv, TxTrue, ErrorsOf, RaisedOf
<1> QED
  BY <1>1, <1>2, <1>3, <1>4, <1>7 DEF Progress, Rejects

LEMMA TruthStep == ASSUME TypeInv, TruthInv, [Next]_vars PROVE TruthInv'
<1>1. CASE UNCHANGED vars
  BY <1>1, TruthOfRuns DEF vars, tables, TruthInv
<1>2. ASSUME NEW p \in Payloads, Produce(p) PROVE TruthInv'
  <2>1. /\ Len(log) \in Nat /\ Len(log') = Len(log) + 1
        /\ \A i \in 1..Len(log) : log'[i] = log[i]
    BY <1>2, LogGrows
  <2>2. /\ ErrorsOf(Len(log)) \subseteq ErrorsOf(Len(log))'
        /\ RaisedOf(Len(log)) \subseteq RaisedOf(Len(log))'
    <3>1. \A i \in 1..Len(log) : i \in 1..Len(log') /\ log'[i] = log[i]
      BY <2>1
    <3> QED BY <3>1 DEF ErrorsOf, RaisedOf, ReachesRow
  <2>3. \A i \in 1..MaxLog : i <= Len(log) => log'[i] = log[i] /\ i <= Len(log')
    BY <2>1, NormalizeBounds
  <2>4. \A r \in Runs : run[r].tx \in Tx /\ run[r].mark \in Tx
    BY DEF TypeInv, TypeOK, RunState
  <2>5. ASSUME NEW tx \in Tx, TxTrue(tx) PROVE TxTrue(tx)'
    <3>1. tx.raw \subseteq 1..MaxLog
      BY DEF Tx
    <3> QED BY <2>2, <2>3, <2>5, <3>1 DEF TxTrue, Valid
  <2>6. RecordsAreTrue'
    <3>1. raw \subseteq 1..MaxLog
      BY DEF TypeInv, TypeOK
    <3>2. UNCHANGED << norm, raw, open, closed >>
      BY <1>2 DEF Produce, tables
    <3> QED
      BY <2>2, <2>3, <3>1, <3>2
      DEF TruthInv, RecordsAreTrue, EverRecorded, Valid
  <2>7. run' = run
    BY <1>2 DEF Produce
  <2> QED BY <2>4, <2>5, <2>6, <2>7 DEF TruthInv
<1>3. ASSUME NEW e \in ErrorKey, CloseError(e) PROVE TruthInv'
  <2>1. EverRecorded' \subseteq EverRecorded
    BY <1>3 DEF CloseError, EverRecorded, TypeInv, TypeOK
  <2>2. UNCHANGED << log, norm, raw, run >>
    BY <1>3 DEF CloseError
  <2> QED
    BY <2>1, <2>2 DEF TruthInv, RecordsAreTrue, TxTrue, ErrorsOf, RaisedOf
<1>4. ASSUME NEW r \in Runs, StartRun(r) PROVE TruthInv'
  <2>1. /\ run'[r].tx = EmptyTx /\ run'[r].mark = EmptyTx
        /\ \A q \in Runs \ {r} : run'[q] = run[q]
    BY <1>4 DEF StartRun, IdleRun, TypeInv, TypeOK
  <2> QED
    BY <1>4, <2>1, EmptyTxTrue, TruthOfRuns DEF StartRun, TruthInv, tables
<1>5. ASSUME NEW r \in Runs, Kill(r) PROVE TruthInv'
  BY <1>5, TruthEscape DEF Kill
<1>6. ASSUME NEW r \in Runs, Progress(r) PROVE TruthInv'
  BY <1>6, TruthProgress
<1> QED
  BY <1>1, <1>2, <1>3, <1>4, <1>5, <1>6 DEF Next

\* Whatever is in the topic and however a run ends, killed or raising or
\* rolled back to a savepoint in part: raw rows are of valid messages, a
\* normalized row has a raw row, and a parse error names what failed.
THEOREM RecordsTrue == Spec => []RecordsAreTrue
<1>1. Init => TruthInv
  BY EmptyTxTrue
  DEF Init, TruthInv, RecordsAreTrue, EverRecorded, IdleRun
<1>2. TypeInv /\ TruthInv /\ [Next]_vars => TruthInv'
  BY TruthStep
<1>3. Spec => []TypeInv
  BY TypeInit, TypeStep, PTL DEF Spec
<1>4. TruthInv => RecordsAreTrue
  BY DEF TruthInv
<1> QED BY <1>1, <1>2, <1>3, <1>4, PTL DEF Spec

-----------------------------------------------------------------------------
(* What the recorded offset covers is recorded.                            *)

\* A message of the log that a transaction has taken in.
Held(tx, p, i) ==
  /\ Valid(p) => \/ i \in tx.raw /\ tx.norm[KeyOf[p]] # NoRow
                 \/ << p, "raised" >> \in tx.errs
  /\ Malformed(p) => \E c \in Classes : << p, c >> \in tx.errs

\* The offset a run would record is before the message it is at; and unless a
\* parse error of it was refused, everything before is in its transaction.
RunCovers(s) ==
  /\ s.max < s.pos /\ s.max <= s.end /\ s.pos <= s.end + 1
  /\ s.pc = "read" => log # << >>
  /\ ~s.spoilt =>
       /\ ~s.aborted
       /\ s.pc = "read" => \A i \in 1..(s.pos - 1) : Held(s.tx, log[i], i)

CoverInv ==
  /\ CoveredIsRecorded
  /\ offsets.cur <= Len(log)
  /\ open # {} => log # << >>
  /\ \A r \in Runs : RunCovers(run[r])

LEMMA IdleRunCovers == RunCovers(IdleRun)
  BY DEF RunCovers, IdleRun, EmptyTx

\* When the log and the tables stay, only the runs' part is left to show.
LEMMA CoverOfRuns ==
  ASSUME CoverInv, UNCHANGED << log, tables >>, NEW r \in Runs,
         RunCovers(run'[r]), \A q \in Runs \ {r} : run'[q] = run[q]
  PROVE  CoverInv'
  BY DEF CoverInv, RunCovers, CoveredIsRecorded, OffsetsAreEvidence, Recorded,
         Excused, EverRecorded, tables

\* A run that goes on to the next message, and has taken in the one at hand
\* unless it is spoilt.
LEMMA CoverMoveOn ==
  ASSUME TypeInv, NEW r \in Runs, RunCovers(run[r]), Reading(r),
         NEW s \in RunState, s.pos = run[r].pos + 1, s.end = run[r].end,
         s.max = run[r].max \/ s.max = run[r].pos,
         ~s.spoilt =>
           /\ ~run[r].spoilt /\ ~s.aborted
           /\ run[r].tx.raw \subseteq s.tx.raw
           /\ run[r].tx.errs \subseteq s.tx.errs
           /\ \A k \in Keys : run[r].tx.norm[k] # NoRow => s.tx.norm[k] # NoRow
           /\ Held(s.tx, Body(r), run[r].pos)
  PROVE  RunCovers(s)
<1>1. run[r] \in RunState /\ log \in Seq(Payloads)
  BY DEF TypeInv, TypeOK
<1>2. run[r].pos \in 1..Len(log) /\ log # << >>
  BY <1>1, BodyType
<1>3. RunCovers(run[r]) /\ run[r].pc = "read" /\ run[r].pos <= run[r].end
  BY DEF Reading
<1>4. ASSUME ~s.spoilt, NEW i \in 1..(s.pos - 1) PROVE Held(s.tx, log[i], i)
  <2>1. CASE i = run[r].pos
    BY <1>4, <2>1 DEF Body
  <2>2. CASE i # run[r].pos
    <3>0. run[r].pos \in Nat /\ Len(log) \in Nat
      BY <1>1 DEF RunState
    <3>1. i \in 1..run[r].pos
      BY <3>0
    <3>2. i \in 1..(run[r].pos - 1) /\ i \in 1..Len(log)
      BY <1>2, <2>2, <3>0, <3>1
    <3>3. Held(run[r].tx, log[i], i)
      BY <1>3, <1>4, <3>2 DEF RunCovers
    <3>4. KeyOf[log[i]] \in Keys
      BY <1>1, <3>2, ElementOfSeq, PayloadAssumption
    <3> QED BY <1>4, <3>3, <3>4 DEF Held
  <2> QED BY <2>1, <2>2
<1>5. s.max < s.pos /\ s.max <= s.end /\ s.pos <= s.end + 1
  BY <1>1, <1>3 DEF RunCovers, RunState
<1> QED BY <1>2, <1>4, <1>5 DEF RunCovers

\* An ended run has nothing left to cover.
LEMMA CoverEscape ==
  ASSUME TypeInv, CoverInv, NEW r \in Runs, run' = [run EXCEPT ![r] = IdleRun],
         UNCHANGED << log, tables >>
  PROVE  CoverInv'
<1>1. run'[r] = IdleRun /\ \A q \in Runs \ {r} : run'[q] = run[q]
  BY DEF TypeInv, TypeOK
<1>2. RunCovers(run'[r])
  BY <1>1, IdleRunCovers
<1> QED BY <1>1, <1>2, CoverOfRuns

\* What a commit makes of the tables and of the recorded offset.
LEMMA CoverCommit ==
  ASSUME TypeInv, CoverInv, NEW r \in Runs, Commit(r)
  PROVE  CoverInv'
<1> DEFINE tx == run[r].tx
<1>0. /\ run[r] \in RunState /\ run \in [Runs -> RunState]
      /\ offsets \in Offsets /\ log \in Seq(Payloads) /\ tx \in Tx
      /\ run[r].end <= Len(log)
  BY DEF TypeInv, TypeOK, RunState, EndsInLog
<1>1. RunCovers(run[r]) /\ run[r].pc = "read"
  BY <1>0 DEF CoverInv, Commit, Finished
<1>2. /\ norm' = NormAfter(r) /\ raw' = raw \cup tx.raw
      /\ open' = open \cup tx.errs /\ offsets' = OffsetsAfter(r)
      /\ log' = log /\ closed' = closed
      /\ ~tainted' => ~tainted /\ ~run[r].spoilt
  BY DEF Commit
<1>3. offsets'.cur = offsets.cur \/ offsets'.cur = run[r].max
  BY <1>2 DEF OffsetsAfter, Larger
<1>4. offsets'.cur <= Len(log)
  BY <1>0, <1>1, <1>3 DEF CoverInv, RunCovers, RunState
<1>5. ASSUME ~tainted', NEW i \in 1..offsets'.cur PROVE Recorded(i)'
  <2>0. i \in 1..Len(log)
    BY <1>0, <1>2, <1>4 DEF OffsetsAfter, Larger, Offsets, RunState
  <2>1. KeyOf[log[i]] \in Keys
    BY <1>0, <2>0, ElementOfSeq, PayloadAssumption
  <2>2. EverRecorded' = EverRecorded \cup tx.errs
    BY <1>2 DEF EverRecorded
  <2>3. CASE offsets'.cur = offsets.cur
    <3>1. Recorded(i)
      BY <1>2, <1>5, <2>3 DEF CoverInv, CoveredIsRecorded, OffsetsAreEvidence
    <3> QED BY <1>2, <2>1, <2>2, <3>1 DEF Recorded, Excused, NormAfter
  <2>4. CASE offsets'.cur = run[r].max
    <3>1. i \in 1..(run[r].pos - 1)
      BY <1>0, <1>1, <2>4 DEF RunCovers, RunState
    <3>2. Held(tx, log[i], i)
      BY <1>1, <1>2, <1>5, <3>1 DEF RunCovers
    <3>3. tx.norm[KeyOf[log[i]]] # NoRow => norm'[KeyOf[log[i]]] # NoRow
      BY <1>2, <2>1 DEF NormAfter
    <3> QED BY <1>2, <2>2, <3>2, <3>3 DEF Held, Recorded, Excused
  <2> QED BY <1>3, <2>3, <2>4
<1>6. open' # {} => log' # << >>
  BY <1>1, <1>2 DEF RunCovers
<1>7. ASSUME NEW q \in Runs PROVE RunCovers(run'[q])
  <2>1. CASE q = r
    <3>1. /\ run'[r].pc = "flush" /\ run'[r].spoilt = run[r].spoilt
          /\ run'[r].aborted = run[r].aborted /\ run'[r].max = run[r].max
          /\ run'[r].pos = run[r].pos /\ run'[r].end = run[r].end
      BY <1>0 DEF Commit, RunState
    <3> QED BY <1>1, <2>1, <3>1 DEF RunCovers
  <2>2. CASE q # r
    BY <1>0, <2>2 DEF Commit, CoverInv
  <2> QED BY <2>1, <2>2
<1>8. CoveredIsRecorded'
  BY <1>5 DEF CoveredIsRecorded, OffsetsAreEvidence
<1> QED BY <1>2, <1>4, <1>6, <1>7, <1>8 DEF CoverInv, RunCovers

\* A step of a run that covers what it has read.
LEMMA ProgressCovers ==
  ASSUME TypeInv, NEW r \in Runs, RunCovers(run[r]), Progress(r)
  PROVE  RunCovers(run'[r])
<1>0. run[r] \in RunState /\ run \in [Runs -> RunState]
  BY DEF TypeInv, TypeOK
<1>1. CASE SkipNull(r)
  <2> DEFINE s == [run[r] EXCEPT !.pos = @ + 1]
  <2>1. run' = [run EXCEPT ![r] = s]
    BY <1>0, <1>1 DEF SkipNull
  <2>2. run'[r] \in RunState
    BY <1>1, ProgressType DEF Progress, TypeInv, TypeOK
  <2>3. /\ run'[r].pos = run[r].pos + 1 /\ run'[r].end = run[r].end
        /\ run'[r].aborted = run[r].aborted /\ run'[r].max = run[r].max
        /\ run'[r].spoilt = run[r].spoilt /\ run'[r].tx = run[r].tx
    BY <1>0, <2>1 DEF RunState
  <2>4. Held(run[r].tx, Body(r), run[r].pos)
    BY <1>1 DEF SkipNull, Held, Valid, Malformed
  <2>5. ~run[r].spoilt => ~run[r].aborted
    BY DEF RunCovers
  <2> HIDE DEF s
  <2> QED BY <1>1, <2>2, <2>3, <2>4, <2>5, CoverMoveOn DEF SkipNull
<1>2. CASE FailDecode(r) \/ FailAfterAbort(r) \/ FailCommit(r) \/ Flush(r)
  <2>1. run'[r] = IdleRun
    BY <1>0, <1>2 DEF FailDecode, FailAfterAbort, FailCommit, Flush, Escape
  <2> QED BY <2>1, IdleRunCovers
<1>3. CASE Rejects(r)
  <2>1. Reading(r) /\ run'[r] \in RunState
    BY <1>3, RejectStep
  <2>2. PICK class \in Classes : RejectedAs(r, class)
    BY <1>3, RejectStep
  <2>3. ASSUME ~run'[r].spoilt
        PROVE  /\ ~run[r].spoilt /\ ~run[r].aborted /\ ~run'[r].aborted
               /\ run'[r].tx.norm = run[r].tx.norm
               /\ run'[r].tx.raw = run[r].tx.raw
               /\ run'[r].tx.errs = run[r].tx.errs \cup {<< Body(r), class >>}
               /\ class = "raised" \/ class = FailsAt[Body(r)]
    <3>1. ~run[r].spoilt
      BY <2>2, <2>3 DEF RejectedAs
    <3>2. ~run[r].aborted
      BY <3>1 DEF RunCovers
    <3> QED BY <2>2, <2>3, <3>1, <3>2 DEF RejectedAs
  <2>4. ASSUME ~run'[r].spoilt PROVE Held(run'[r].tx, Body(r), run[r].pos)
    <3>1. /\ << Body(r), class >> \in run'[r].tx.errs
          /\ class = "raised" \/ ~Valid(Body(r))
      BY <2>3, <2>4 DEF Valid, Classes
    <3> QED BY <3>1 DEF Held
  <2>5. /\ run'[r].pos = run[r].pos + 1 /\ run'[r].end = run[r].end
        /\ run'[r].max = run[r].pos
    BY <2>2 DEF RejectedAs
  <2> QED BY <2>1, <2>3, <2>4, <2>5, CoverMoveOn
<1>4. CASE AcceptRow(r)
  <2> DEFINE k == KeyOf[Body(r)]
             tx == [run[r].tx EXCEPT !.norm[k] = Body(r),
                                     !.raw = @ \cup {run[r].pos}]
  <2>1. run'[r] \in RunState /\ ~run[r].aborted
    BY <1>4, ProgressType DEF Progress, TypeInv, TypeOK, AcceptRow
  <2>2. /\ run'[r].pos = run[r].pos + 1 /\ run'[r].end = run[r].end
        /\ ~run'[r].aborted /\ run'[r].max = run[r].pos /\ run'[r].tx = tx
        /\ run'[r].spoilt = run[r].spoilt
    BY <1>0, <1>4 DEF AcceptRow, RunState
  <2>3. /\ Body(r) \in Payloads /\ k \in Keys
    BY <1>4, BodyType DEF AcceptRow
  <2>4. /\ tx.raw = run[r].tx.raw \cup {run[r].pos}
        /\ tx.errs = run[r].tx.errs
        /\ tx.norm = [run[r].tx.norm EXCEPT ![k] = Body(r)]
        /\ run[r].tx.norm \in [Keys -> Payloads \cup {NoRow}]
    BY <1>0 DEF RunState, Tx
  <2>5. /\ \A l \in Keys : run[r].tx.norm[l] # NoRow => tx.norm[l] # NoRow
        /\ tx.norm[k] # NoRow
    BY <2>3, <2>4, PayloadAssumption
  <2>6. Held(tx, Body(r), run[r].pos)
    BY <1>4, <2>4, <2>5 DEF Held, AcceptRow, Malformed
  <2> HIDE DEF tx
  <2> QED BY <1>4, <2>1, <2>2, <2>4, <2>5, <2>6, CoverMoveOn DEF AcceptRow
<1>5. CASE Commit(r)
  <2>1. /\ run'[r].pc = "flush" /\ run'[r].spoilt = run[r].spoilt
        /\ run'[r].aborted = run[r].aborted /\ run'[r].max = run[r].max
        /\ run'[r].pos = run[r].pos /\ run'[r].end = run[r].end
    BY <1>0, <1>5 DEF Commit, RunState
  <2> QED BY <2>1 DEF RunCovers
<1> QED BY <1>1, <1>2, <1>3, <1>4, <1>5 DEF Progress, Rejects

\* A step of a run leaves the log and the other runs alone; the run ends, or
\* goes on towards the same end.
LEMMA ProgressFrame ==
  ASSUME TypeInv, NEW r \in Runs, Progress(r)
  PROVE  /\ log' = log /\ \A q \in Runs \ {r} : run'[q] = run[q]
         /\ run'[r] = IdleRun \/ run'[r].end = run[r].end
<1>0. run[r] \in RunState /\ run \in [Runs -> RunState]
  BY DEF TypeInv, TypeOK
<1>1. CASE SkipNull(r)
  BY <1>0, <1>1 DEF SkipNull, RunState
<1>2. CASE AcceptRow(r)
  BY <1>0, <1>2 DEF AcceptRow, RunState
<1>3. CASE Commit(r)
  BY <1>0, <1>3 DEF Commit, RunState
<1>4. CASE FailDecode(r) \/ FailAfterAbort(r) \/ FailCommit(r) \/ Flush(r)
  BY <1>0, <1>4 DEF FailDecode, FailAfterAbort, FailCommit, Flush, Escape
<1>5. CASE Rejects(r)
  BY <1>5, RejectStep DEF RejectedAs
<1> QED BY <1>1, <1>2, <1>3, <1>4, <1>5 DEF Progress, Rejects

\* Only a commit touches the tables.
LEMMA ProgressTables ==
  ASSUME TypeInv, NEW r \in Runs, Progress(r), ~Commit(r)
  PROVE  UNCHANGED << log, tables >>
  BY DEF Progress, SkipNull, FailDecode, RejectBody, AcceptRow, RejectRow,
         RowRaises, RejectAfterAbort, FailAfterAbort, FailCommit, Flush, Escape

LEMMA CoverProgress ==
  ASSUME TypeInv, CoverInv, NEW r \in Runs, Progress(r)
  PROVE  CoverInv'
<1>1. CASE Commit(r)
  BY <1>1, CoverCommit
<1>2. CASE ~Commit(r)
  <2>1. UNCHANGED << log, tables >>
    BY <1>2, ProgressTables
  <2>2. RunCovers(run'[r])
    BY ProgressCovers DEF CoverInv
  <2>3. \A q \in Runs \ {r} : run'[q] = run[q]
    BY ProgressFrame
  <2> QED BY <2>1, <2>2, <2>3, CoverOfRuns
<1> QED BY <1>1, <1>2

LEMMA CoverStep == ASSUME TypeInv, CoverInv, [Next]_vars PROVE CoverInv'
<1>0. Len(log) \in Nat /\ offsets \in Offsets
  BY DEF TypeInv, TypeOK
<1>1. CASE UNCHANGED vars
  BY <1>1 DEF vars, tables, CoverInv, RunCovers, CoveredIsRecorded,
              OffsetsAreEvidence, Recorded, Excused, EverRecorded
<1>2. ASSUME NEW p \in Payloads, Produce(p) PROVE CoverInv'
  <2>1. /\ Len(log') = Len(log) + 1 /\ \A i \in 1..Len(log) : log'[i] = log[i]
    BY <1>2, LogGrows
  <2>2. log' # << >>
    BY <1>0, <2>1
  <2>3. UNCHANGED << norm, raw, open, closed, offsets, tainted, run >>
    BY <1>2 DEF Produce, tables
  <2>4. \A i \in 1..offsets.cur : log'[i] = log[i]
    BY <1>0, <2>1 DEF CoverInv, Offsets
  <2>5. CoveredIsRecorded'
    BY <2>3, <2>4 DEF CoverInv, CoveredIsRecorded, OffsetsAreEvidence, Recorded,
                      Excused, EverRecorded, Valid, Malformed
  <2>6. ASSUME NEW r \in Runs PROVE RunCovers(run[r])'
    <3>1. RunCovers(run[r]) /\ run[r] \in RunState /\ run[r].end <= Len(log)
      BY DEF CoverInv, TypeInv, TypeOK, EndsInLog
    <3>2. \A i \in 1..(run[r].pos - 1) : log'[i] = log[i]
      BY <1>0, <2>1, <3>1 DEF RunCovers, RunState
    <3> QED BY <2>2, <2>3, <3>1, <3>2 DEF RunCovers
  <2>7. offsets'.cur <= Len(log')
    BY <1>0, <2>1, <2>3 DEF CoverInv, Offsets
  <2> QED BY <2>2, <2>5, <2>6, <2>7 DEF CoverInv
<1>3. ASSUME NEW e \in ErrorKey, CloseError(e) PROVE CoverInv'
  <2>1. UNCHANGED << log, norm, raw, offsets, tainted, run >>
    BY <1>3 DEF CloseError
  <2>2. Len(log) > 0
    BY <1>0, <1>3 DEF CloseError, CoverInv, TypeInv, TypeOK
  <2>3. EverRecorded \subseteq EverRecorded' /\ open' \subseteq open
    BY <1>3, <2>2 DEF CloseError, EverRecorded, TypeInv, TypeOK
  <2>4. CoveredIsRecorded'
    BY <2>1, <2>3 DEF CoverInv, CoveredIsRecorded, OffsetsAreEvidence, Recorded, Excused
  <2> QED BY <2>1, <2>3, <2>4 DEF CoverInv, RunCovers
<1>4. ASSUME NEW r \in Runs, StartRun(r) PROVE CoverInv'
  <2>1. /\ run'[r].max = 0 /\ run'[r].pos = 1 /\ log # << >>
        /\ run'[r].end = Len(log) /\ ~run'[r].aborted
        /\ \A q \in Runs \ {r} : run'[q] = run[q]
    BY <1>4 DEF StartRun, IdleRun, TypeInv, TypeOK
  <2>2. RunCovers(run'[r])
    BY <1>0, <2>1 DEF RunCovers
  <2> QED BY <1>4, <2>1, <2>2, CoverOfRuns DEF StartRun
<1>5. ASSUME NEW r \in Runs, Kill(r) PROVE CoverInv'
  BY <1>5, CoverEscape DEF Kill
<1>6. ASSUME NEW r \in Runs, Progress(r) PROVE CoverInv'
  BY <1>6, CoverProgress
<1> QED
  BY <1>1, <1>2, <1>3, <1>4, <1>5, <1>6 DEF Next

LEMMA CoverInit == ASSUME Init PROVE CoverInv
<1>1. \A r \in Runs : RunCovers(run[r])
  BY IdleRunCovers DEF Init
<1>2. offsets.cur = 0 /\ open = {} /\ Len(log) = 0
  BY DEF Init
<1> QED BY <1>1, <1>2 DEF CoverInv, CoveredIsRecorded, OffsetsAreEvidence, Recorded

\* As long as no run has committed after a parse error was refused: of any
\* number of overlapping runs, killed, failing to decode a message or losing
\* rows to a send that raises anywhere, none records an offset beyond a message
\* that is in no table.
THEOREM CoveredRecorded == Spec => []CoveredIsRecorded
<1>1. Init => CoverInv
  BY CoverInit
<1>2. TypeInv /\ CoverInv /\ [Next]_vars => CoverInv'
  BY CoverStep
<1>3. Spec => []TypeInv
  BY TypeInit, TypeStep, PTL DEF Spec
<1>4. CoverInv => CoveredIsRecorded
  BY DEF CoverInv
<1> QED BY <1>1, <1>2, <1>3, <1>4, PTL DEF Spec

-----------------------------------------------------------------------------
(* Valid rows survive bad payloads.                                        *)

\* A run that is not killed leaves a raw row for every valid message that it
\* read, or the parse error of a row that raised, unless it read one that is not
\* UTF-8 or a parse error of it was refused: whatever else is in the partition,
\* and whatever other runs do.
THEOREM ValidSurvive == Spec => ValidRowsSurvive
<1> DEFINE Survive ==
      \A r \in Runs :
       run[r].pc = "read" /\ run'[r].pc # "read" /\ kills' = kills =>
         \/ run[r].spoilt
         \/ \E i \in 1..run[r].end : FailsAt[log[i]] = "text"
         \/ \A i \in 1..run[r].end :
              Valid(log[i]) => i \in raw' \/ Excused(i, EverRecorded')
<1>1. TypeInv /\ CoverInv /\ [Next]_vars => [Survive]_vars
  <2> SUFFICES ASSUME TypeInv, CoverInv, Next, NEW r \in Runs,
                      run[r].pc = "read", run'[r].pc # "read", kills' = kills,
                      ~run[r].spoilt,
                      \A i \in 1..run[r].end : FailsAt[log[i]] # "text",
                      NEW i \in 1..run[r].end, Valid(log[i])
               PROVE  i \in raw' \/ Excused(i, EverRecorded')
    OBVIOUS
  <2>0. /\ run \in [Runs -> RunState] /\ run[r] \in RunState
        /\ kills \in Nat /\ ~run[r].aborted /\ RunCovers(run[r])
    BY NormalizeBounds DEF TypeInv, TypeOK, CoverInv, RunCovers
  <2>1. Commit(r)
    <3>1. PICK q \in Runs : StartRun(q) \/ Progress(q) \/ Kill(q)
      BY DEF Next, Produce, CloseError
    <3>2. CASE StartRun(q)
      BY <2>0, <3>2 DEF StartRun
    <3>3. CASE Kill(q)
      BY <2>0, <3>3 DEF Kill
    <3>4. CASE Progress(q)
      <4>1. q = r
        <5>1. \A x \in Runs \ {q} : run'[x] = run[x]
          BY <3>4, ProgressFrame
        <5> QED BY <5>1
      <4>2. ~FailDecode(r)
        <5>1. FailDecode(r) => run[r].pos \in 1..run[r].end
          BY <2>0 DEF FailDecode, Reading, RunState
        <5> QED BY <5>1 DEF FailDecode, Body
      <4>3. ~FailAfterAbort(r) /\ ~FailCommit(r) /\ ~Flush(r)
        BY <2>0 DEF FailAfterAbort, FailCommit, Flush
      <4>4. ~Rejects(r)
        BY RejectStep DEF RejectedAs
      <4>5. ~SkipNull(r)
        BY <2>0 DEF SkipNull, RunState
      <4>6. ~AcceptRow(r)
        <5>1. ASSUME AcceptRow(r) PROVE run'[r].pc = run[r].pc
          BY <2>0, <5>1 DEF AcceptRow, RunState
        <5> QED BY <5>1
      <4> QED BY <3>4, <4>1, <4>2, <4>3, <4>4, <4>5, <4>6 DEF Progress, Rejects
    <3> QED BY <3>1, <3>2, <3>3, <3>4
  <2>2. i \in 1..(run[r].pos - 1)
    BY <2>0, <2>1 DEF Commit, Finished, RunState
  <2>3. i \in run[r].tx.raw \/ << log[i], "raised" >> \in run[r].tx.errs
    BY <2>0, <2>2 DEF RunCovers, Held
  <2>4. log' = log /\ run[r].tx.errs \subseteq EverRecorded'
    BY <2>1 DEF Commit, EverRecorded
  <2> QED BY <2>1, <2>3, <2>4 DEF Commit, Excused
<1>2. Spec => []TypeInv
  BY TypeInit, TypeStep, PTL DEF Spec
<1>3. Init => CoverInv
  BY CoverInit
<1>4. TypeInv /\ CoverInv /\ [Next]_vars => CoverInv'
  BY CoverStep
<1> QED BY <1>1, <1>2, <1>3, <1>4, PTL DEF Spec, ValidRowsSurvive

-----------------------------------------------------------------------------
(* One run after another: the tables are a function of the topic.          *)

LEMMA MadeByNone ==
  ASSUME NEW rows, \A k \in Keys : rows[k] = NoRow PROVE MadeBy(0, rows, {}, {})
  BY DEF MadeBy, RowAfter, Versions

\* More parse errors excuse more.
LEMMA RowAfterMoreErrors ==
  ASSUME NEW k, NEW n, NEW v, NEW errs, NEW more, errs \subseteq more,
         RowAfter(k, n, v, errs)
  PROVE  RowAfter(k, n, v, more)
  BY DEF RowAfter, Excused

\* Messages after the first n do not matter.
LEMMA MadeByPrefix ==
  ASSUME NEW n \in Nat, \A i \in 1..n : log'[i] = log[i],
         NEW rows, NEW offs, NEW errs, MadeBy(n, rows, offs, errs)
  PROVE  MadeBy(n, rows, offs, errs)'
<1>1. \A k : Versions(k, n)' = Versions(k, n)
  BY DEF Versions, Valid
<1>2. ASSUME NEW k, NEW v, RowAfter(k, n, v, errs)
      PROVE  RowAfter(k, n, v, errs)'
  <2>1. \A i \in Versions(k, n) : log'[i] = log[i]
    BY DEF Versions
  <2> QED BY <1>1, <1>2, <2>1 DEF RowAfter, Excused
<1>3. ErrorsOf(n)' = ErrorsOf(n) /\ RaisedOf(n)' = RaisedOf(n)
  BY DEF ErrorsOf, RaisedOf, ReachesRow
<1>4. \A i \in offs : i \in 1..n /\ Valid(log'[i])
  BY DEF MadeBy
<1>5. \A i \in 1..n :
        /\ Valid(log'[i]) => i \in offs \/ << log'[i], "raised" >> \in errs
        /\ FailsAt[log'[i]] \in Classes =>
             << log'[i], FailsAt[log'[i]] >> \in errs \/ << log'[i], "raised" >> \in errs
  BY DEF MadeBy, Excused
<1>6. errs \subseteq ErrorsOf(n)' \cup RaisedOf(n)'
  BY <1>3 DEF MadeBy
<1>7. \A k \in Keys : RowAfter(k, n, rows[k], errs)'
  BY <1>2 DEF MadeBy
<1> QED BY <1>4, <1>5, <1>6, <1>7 DEF MadeBy, Excused, Valid

\* Tombstones make nothing.
LEMMA MadeByTombstones ==
  ASSUME NEW m \in Nat, NEW n \in Nat, m <= n,
         \A i \in (m + 1)..n : FailsAt[log[i]] = "null",
         NEW rows, NEW offs, NEW errs
  PROVE  MadeBy(m, rows, offs, errs) <=> MadeBy(n, rows, offs, errs)
<1>1. \A i \in 1..n : i \in 1..m \/ i \in (m + 1)..n
  OBVIOUS
<1>2. \A i \in 1..m : i \in 1..n
  OBVIOUS
<1>3. \A k : Versions(k, n) = Versions(k, m)
  BY <1>1, <1>2 DEF Versions, Valid
<1>4. \A i \in (m + 1)..n : ~Valid(log[i]) /\ FailsAt[log[i]] \notin Classes
                            /\ ~ReachesRow(log[i])
  BY DEF Valid, Classes, ReachesRow
<1>5. ErrorsOf(n) = ErrorsOf(m) /\ RaisedOf(n) = RaisedOf(m)
  BY <1>1, <1>2, <1>4 DEF ErrorsOf, RaisedOf
<1>6. \A k, v : RowAfter(k, n, v, errs) <=> RowAfter(k, m, v, errs)
  BY <1>3 DEF RowAfter
<1> QED BY <1>1, <1>2, <1>4, <1>5, <1>6 DEF MadeBy

\* One more message makes a row ...
LEMMA MadeByValid ==
  ASSUME NEW n \in Nat, NEW rows, NEW offs, NEW errs, MadeBy(n, rows, offs, errs),
         Valid(log[n + 1]), NEW new,
         \A k \in Keys : new[k] = IF k = KeyOf[log[n + 1]] THEN log[n + 1] ELSE rows[k]
  PROVE  MadeBy(n + 1, new, offs \cup {n + 1}, errs)
<1>1. \A i \in 1..(n + 1) : i \in 1..n \/ i = n + 1
  OBVIOUS
<1>2. \A i \in 1..n : i \in 1..(n + 1) /\ i <= n + 1
  OBVIOUS
<1>3. n + 1 \in 1..(n + 1)
  OBVIOUS
<1>4. ASSUME NEW k \in Keys PROVE RowAfter(k, n + 1, new[k], errs)
  <2>1. CASE k = KeyOf[log[n + 1]]
    <3>1. n + 1 \in Versions(k, n + 1)
      BY <1>3, <2>1 DEF Versions
    <3>2. \A j \in Versions(k, n + 1) : ~(j > n + 1)
      BY DEF Versions
    <3> QED BY <2>1, <3>1, <3>2 DEF RowAfter
  <2>2. CASE k # KeyOf[log[n + 1]]
    <3>1. Versions(k, n + 1) = Versions(k, n)
      BY <1>1, <1>2, <2>2 DEF Versions
    <3> QED BY <2>2, <3>1 DEF RowAfter, MadeBy
  <2> QED BY <2>1, <2>2
<1>5. FailsAt[log[n + 1]] \notin Classes
  BY DEF Valid, Classes
<1>6. errs \subseteq ErrorsOf(n + 1) \cup RaisedOf(n + 1)
  BY <1>2 DEF MadeBy, ErrorsOf, RaisedOf
<1> QED BY <1>1, <1>2, <1>3, <1>4, <1>5, <1>6 DEF MadeBy

\* ... or a parse error, of the class of its stage or of a row that raised.
LEMMA MadeByError ==
  ASSUME NEW n \in Nat, NEW rows, NEW offs, NEW errs, MadeBy(n, rows, offs, errs),
         NEW class \in Classes,
         \/ class = FailsAt[log[n + 1]]
         \/ class = "raised" /\ ReachesRow(log[n + 1])
  PROVE  MadeBy(n + 1, rows, offs, errs \cup {<< log[n + 1], class >>})
<1> DEFINE more == errs \cup {<< log[n + 1], class >>}
<1>1. \A i \in 1..(n + 1) : i \in 1..n \/ i = n + 1
  OBVIOUS
<1>2. \A i \in 1..n : i \in 1..(n + 1)
  OBVIOUS
<1>3. n + 1 \in 1..(n + 1)
  OBVIOUS
<1>4. errs \subseteq more /\ << log[n + 1], class >> \in more
  OBVIOUS
<1>5. Valid(log[n + 1]) => Excused(n + 1, more)
  BY <1>4 DEF Valid, Classes, Excused
<1>6. \A i \in 1..n : Excused(i, errs) => Excused(i, more)
  BY <1>4 DEF Excused
<1>7. ASSUME NEW k \in Keys PROVE RowAfter(k, n + 1, rows[k], more)
  <2>1. RowAfter(k, n, rows[k], more)
    BY <1>4, RowAfterMoreErrors DEF MadeBy
  <2>2. /\ \A i \in Versions(k, n) : i \in Versions(k, n + 1)
        /\ \A i \in Versions(k, n + 1) :
             i \in Versions(k, n) \/ Excused(i, more)
    BY <1>1, <1>2, <1>5 DEF Versions
  <2> QED BY <2>1, <2>2 DEF RowAfter
<1>8. more \subseteq ErrorsOf(n + 1) \cup RaisedOf(n + 1)
  <2>1. errs \subseteq ErrorsOf(n + 1) \cup RaisedOf(n + 1)
    BY <1>2 DEF MadeBy, ErrorsOf, RaisedOf
  <2>2. << log[n + 1], class >> \in ErrorsOf(n + 1) \cup RaisedOf(n + 1)
    BY <1>3 DEF ErrorsOf, RaisedOf
  <2> QED BY <2>1, <2>2
<1>9. FailsAt[log[n + 1]] \in Classes =>
        << log[n + 1], FailsAt[log[n + 1]] >> \in more \/ Excused(n + 1, more)
  BY <1>4 DEF Excused
<1> HIDE DEF more
<1>10. MadeBy(n + 1, rows, offs, more)
  BY <1>1, <1>2, <1>4, <1>5, <1>6, <1>7, <1>8, <1>9 DEF MadeBy
<1> QED BY <1>10 DEF more

\* What more messages make overwrites and extends what fewer have made.
LEMMA MadeByMore ==
  ASSUME NEW m \in Nat, NEW n \in Nat, m <= n,
         NEW rows, NEW offs, NEW errs, MadeBy(m, rows, offs, errs),
         NEW more, NEW offs2, NEW errs2, MadeBy(n, more, offs2, errs2),
         NEW new,
         \A k \in Keys : new[k] = IF more[k] = NoRow THEN rows[k] ELSE more[k],
         \A i \in 1..n : log[i] # NoRow
  PROVE  MadeBy(n, new, offs \cup offs2, errs \cup errs2)
<1> DEFINE all == errs \cup errs2
<1>1. \A i \in 1..m : i \in 1..n
  OBVIOUS
<1>2. errs \subseteq all /\ errs2 \subseteq all
  OBVIOUS
<1>3. ASSUME NEW k \in Keys PROVE RowAfter(k, n, new[k], all)
  <2>1. RowAfter(k, m, rows[k], errs) /\ RowAfter(k, n, more[k], errs2)
    BY DEF MadeBy
  <2>2. RowAfter(k, m, rows[k], all) /\ RowAfter(k, n, more[k], all)
    BY <1>2, <2>1, RowAfterMoreErrors
  <2>3. CASE more[k] # NoRow
    BY <2>2, <2>3
  <2>4. CASE more[k] = NoRow
    <3>1. \A i \in Versions(k, n) : log[i] # NoRow
      BY DEF Versions
    <3>2. \A i \in Versions(k, n) : Excused(i, all)
      BY <2>2, <2>4, <3>1 DEF RowAfter
    <3>3. \A i \in Versions(k, m) : i \in Versions(k, n)
      BY <1>1 DEF Versions
    <3> QED BY <2>2, <2>4, <3>2, <3>3 DEF RowAfter
  <2> QED BY <2>3, <2>4
<1>4. all \subseteq ErrorsOf(n) \cup RaisedOf(n)
  BY <1>1 DEF MadeBy, ErrorsOf, RaisedOf
<1>5. \A i \in 1..n : Excused(i, errs2) => Excused(i, all)
  BY <1>2 DEF Excused
<1> HIDE DEF all
<1>6. MadeBy(n, new, offs \cup offs2, all)
  BY <1>1, <1>2, <1>3, <1>4, <1>5 DEF MadeBy
<1> QED BY <1>6 DEF all

\* No two runs overlap.  Of two that do, the older one may commit last and put
\* back rows that the newer one has replaced.
OneRun == \A q, r \in Runs : q = r

\* What a reading run has written is what the messages behind it make, unless
\* a parse error of it was refused; those behind it but beyond the offset it
\* would record are tombstones; and it reads all that the recorded offset covers.
Follows(s) ==
  s.pc = "read" /\ ~s.spoilt =>
    /\ MadeBy(s.pos - 1, s.tx.norm, s.tx.raw, s.tx.errs)
    /\ \A i \in (s.max + 1)..(s.pos - 1) : FailsAt[log[i]] = "null"
    /\ offsets.cur <= s.end

FoldInv == ~tainted => /\ MadeBy(offsets.cur, norm, raw, EverRecorded)
                       /\ \A r \in Runs : Follows(run[r])

LEMMA FoldOfRun ==
  ASSUME OneRun, FoldInv, UNCHANGED << log, tables >>, NEW r \in Runs,
         ~tainted => Follows(run'[r])
  PROVE  FoldInv'
<1>0. /\ log' = log /\ norm' = norm /\ raw' = raw /\ open' = open
      /\ closed' = closed /\ offsets' = offsets /\ tainted' = tainted
  BY DEF tables
<1>1. CASE ~tainted
  <2>1. MadeBy(offsets.cur, norm, raw, EverRecorded)'
    BY <1>0, <1>1 DEF FoldInv, MadeBy, RowAfter, Versions, ErrorsOf, RaisedOf,
                      Excused, EverRecorded
  <2>2. Follows(run[r])'
    BY <1>0, <1>1 DEF Follows, MadeBy, RowAfter, Versions, ErrorsOf, RaisedOf, Excused
  <2> QED BY <2>1, <2>2 DEF FoldInv, OneRun
<1> QED BY <1>0, <1>1 DEF FoldInv

LEMMA FoldEscape ==
  ASSUME OneRun, TypeInv, FoldInv, NEW r \in Runs, run' = [run EXCEPT ![r] = IdleRun],
         UNCHANGED << log, tables >>
  PROVE  FoldInv'
<1>1. run'[r].pc = "idle"
  BY DEF TypeInv, TypeOK, IdleRun
<1>2. Follows(run'[r])
  BY <1>1 DEF Follows
<1> QED BY <1>2, FoldOfRun

\* A run quarantines the message at hand.
LEMMA FoldReject ==
  ASSUME TypeInv, NEW r \in Runs, Follows(run[r]), RunCovers(run[r]), Rejects(r)
  PROVE  Follows(run'[r])
<1>1. /\ run[r] \in RunState /\ run[r].pos \in Nat \ {0} /\ Reading(r)
  BY RejectStep DEF TypeInv, TypeOK, RunState
<1>2. PICK class \in Classes : RejectedAs(r, class)
  BY RejectStep
<1> SUFFICES ASSUME ~run'[r].spoilt PROVE Follows(run'[r])
  BY DEF Follows
<1>3. ~run[r].spoilt
  BY <1>2 DEF RejectedAs
<1>4. ~run[r].aborted
  BY <1>3 DEF RunCovers
<1>5. /\ run'[r].pos = run[r].pos + 1 /\ run'[r].end = run[r].end
      /\ run'[r].max = run[r].pos
      /\ run'[r].tx.norm = run[r].tx.norm /\ run'[r].tx.raw = run[r].tx.raw
      /\ run'[r].tx.errs = run[r].tx.errs \cup {<< Body(r), class >>}
      /\ class = FailsAt[Body(r)] \/ (class = "raised" /\ ReachesRow(Body(r)))
  <2>1. /\ run'[r].pos = run[r].pos + 1 /\ run'[r].end = run[r].end
        /\ run'[r].max = run[r].pos
    BY <1>2 DEF RejectedAs
  <2>2. /\ \/ class = "raised" /\ ReachesRow(Body(r))
           \/ class = "aborted" /\ run[r].aborted
           \/ class = FailsAt[Body(r)]
        /\ run'[r].tx.norm = run[r].tx.norm
        /\ run'[r].tx.raw = run[r].tx.raw
        /\ run'[r].tx.errs = run[r].tx.errs \cup {<< Body(r), class >>}
    BY <1>2, <1>4 DEF RejectedAs
  <2> QED BY <1>4, <2>1, <2>2
<1> DEFINE n == run[r].pos - 1
<1>6. n \in Nat /\ n + 1 = run[r].pos /\ log[n + 1] = Body(r)
  BY <1>1 DEF Body
<1>7. MadeBy(n, run[r].tx.norm, run[r].tx.raw, run[r].tx.errs)
  BY <1>1, <1>3 DEF Follows, Reading
<1> HIDE DEF n
<1>8. MadeBy(n + 1, run[r].tx.norm, run[r].tx.raw,
             run[r].tx.errs \cup {<< log[n + 1], class >>})
  <2> DEFINE rows == run[r].tx.norm
             offs == run[r].tx.raw
             errs == run[r].tx.errs
  <2>1. MadeBy(n, rows, offs, errs)
    BY <1>7
  <2>2. \/ class = FailsAt[log[n + 1]]
        \/ class = "raised" /\ ReachesRow(log[n + 1])
    BY <1>5, <1>6
  <2> HIDE DEF rows, offs, errs
  <2>3. MadeBy(n + 1, rows, offs, errs \cup {<< log[n + 1], class >>})
    BY <1>2, <1>6, <2>1, <2>2, MadeByError
  <2> QED BY <2>3 DEF rows, offs, errs
<1>9. MadeBy(run'[r].pos - 1, run'[r].tx.norm, run'[r].tx.raw, run'[r].tx.errs)
  <2>1. run'[r].pos - 1 = n + 1
    BY <1>1, <1>5, <1>6
  <2> QED BY <1>5, <1>6, <1>8, <2>1, Zenon
<1>10. \A i \in (run'[r].max + 1)..(run'[r].pos - 1) : FailsAt[log[i]] = "null"
  BY <1>1, <1>5
<1>11. offsets.cur <= run'[r].end
  BY <1>1, <1>3, <1>5 DEF Follows, Reading
<1> QED BY <1>9, <1>10, <1>11 DEF Follows

LEMMA FoldSkip ==
  ASSUME TypeInv, NEW r \in Runs, Follows(run[r]), SkipNull(r)
  PROVE  Follows(run'[r])
<1> SUFFICES ASSUME ~run'[r].spoilt PROVE Follows(run'[r])
  BY DEF Follows
<1>1. /\ run \in [Runs -> RunState] /\ run[r] \in RunState
      /\ run[r].pos \in Nat \ {0} /\ run[r].max \in Nat
  BY DEF TypeInv, TypeOK, RunState
<1>2. /\ run'[r].pos = run[r].pos + 1 /\ run'[r].end = run[r].end
      /\ run'[r].max = run[r].max /\ run'[r].tx = run[r].tx
      /\ ~run[r].spoilt /\ Reading(r) /\ FailsAt[log[run[r].pos]] = "null"
  BY <1>1 DEF SkipNull, RunState, Body
<1>3. /\ \A i \in (run[r].max + 1)..(run[r].pos - 1) : FailsAt[log[i]] = "null"
      /\ MadeBy(run[r].pos - 1, run[r].tx.norm, run[r].tx.raw, run[r].tx.errs)
      /\ offsets.cur <= run[r].end
  BY <1>2 DEF Follows, Reading
<1>4. \A i \in (run[r].max + 1)..run[r].pos : FailsAt[log[i]] = "null"
  <2> SUFFICES ASSUME NEW i \in (run[r].max + 1)..run[r].pos
               PROVE  FailsAt[log[i]] = "null"
    OBVIOUS
  <2>1. i = run[r].pos \/ i \in (run[r].max + 1)..(run[r].pos - 1)
    BY <1>1
  <2> QED BY <1>2, <1>3, <2>1
<1>5. MadeBy(run[r].pos, run[r].tx.norm, run[r].tx.raw, run[r].tx.errs)
  <2> DEFINE m == run[r].pos - 1
  <2>1. /\ m \in Nat /\ run[r].pos \in Nat /\ m <= run[r].pos
        /\ \A i \in (m + 1)..run[r].pos : i = run[r].pos
    BY <1>1
  <2>2. MadeBy(m, run[r].tx.norm, run[r].tx.raw, run[r].tx.errs)
    BY <1>3
  <2> HIDE DEF m
  <2>3. \A i \in (m + 1)..run[r].pos : FailsAt[log[i]] = "null"
    BY <1>2, <2>1
  <2> QED BY <2>1, <2>2, <2>3, MadeByTombstones
<1>6. run'[r].pos - 1 = run[r].pos
  BY <1>1, <1>2
<1> QED BY <1>2, <1>3, <1>4, <1>5, <1>6 DEF Follows

LEMMA FoldAccept ==
  ASSUME TypeInv, NEW r \in Runs, Follows(run[r]), AcceptRow(r)
  PROVE  Follows(run'[r])
<1> SUFFICES ASSUME ~run'[r].spoilt PROVE Follows(run'[r])
  BY DEF Follows
<1>1. /\ run \in [Runs -> RunState] /\ run[r] \in RunState
      /\ run[r].pos \in Nat \ {0} /\ Reading(r) /\ Valid(Body(r))
  BY DEF TypeInv, TypeOK, RunState, AcceptRow
<1>0. ~run[r].spoilt
  BY <1>1 DEF AcceptRow, RunState
<1>2. Body(r) \in Payloads /\ KeyOf[Body(r)] \in Keys
  BY <1>1, BodyType
<1>3. /\ run'[r].pos = run[r].pos + 1 /\ run'[r].end = run[r].end
      /\ run'[r].max = run[r].pos
      /\ run'[r].tx.norm = [run[r].tx.norm EXCEPT ![KeyOf[Body(r)]] = Body(r)]
      /\ run'[r].tx.raw = run[r].tx.raw \cup {run[r].pos}
      /\ run'[r].tx.errs = run[r].tx.errs
      /\ run[r].tx.norm \in [Keys -> Payloads \cup {NoRow}]
  BY <1>1 DEF AcceptRow, RunState, Tx
<1>4. \A k \in Keys : run'[r].tx.norm[k] =
        IF k = KeyOf[Body(r)] THEN Body(r) ELSE run[r].tx.norm[k]
  BY <1>2, <1>3
<1> DEFINE n == run[r].pos - 1
<1>5. n \in Nat /\ n + 1 = run[r].pos /\ log[n + 1] = Body(r)
  BY <1>1 DEF Body
<1>6. MadeBy(n, run[r].tx.norm, run[r].tx.raw, run[r].tx.errs)
  BY <1>0, <1>1 DEF Follows, Reading
<1> HIDE DEF n
<1>7. MadeBy(n + 1, run'[r].tx.norm, run[r].tx.raw \cup {n + 1}, run[r].tx.errs)
  <2> DEFINE new == run'[r].tx.norm
             rows == run[r].tx.norm
             offs == run[r].tx.raw
             errs == run[r].tx.errs
  <2>1. \A k \in Keys : new[k] = IF k = KeyOf[log[n + 1]] THEN log[n + 1] ELSE rows[k]
    BY <1>4, <1>5
  <2>2. Valid(log[n + 1]) /\ MadeBy(n, rows, offs, errs)
    BY <1>1, <1>5, <1>6
  <2> HIDE DEF new, rows, offs, errs
  <2>3. MadeBy(n + 1, new, offs \cup {n + 1}, errs)
    BY <1>5, <2>1, <2>2, MadeByValid
  <2> QED BY <2>3 DEF new, rows, offs, errs
<1>8. MadeBy(run'[r].pos - 1, run'[r].tx.norm, run'[r].tx.raw, run'[r].tx.errs)
  <2>1. run'[r].pos - 1 = n + 1
    BY <1>1, <1>3, <1>5
  <2>2. run'[r].tx.raw = run[r].tx.raw \cup {n + 1}
    BY <1>3, <1>5
  <2> QED BY <1>3, <1>7, <2>1, <2>2, Zenon
<1>9. \A i \in (run'[r].max + 1)..(run'[r].pos - 1) : FailsAt[log[i]] = "null"
  BY <1>1, <1>3
<1> QED BY <1>0, <1>1, <1>3, <1>8, <1>9 DEF Follows, Reading

\* A commit: the tables become what the messages up to the new offset make.
LEMMA FoldCommit ==
  ASSUME OneRun, TypeInv, CoverInv, FoldInv, NEW r \in Runs, Commit(r)
  PROVE  FoldInv'
<1> SUFFICES ASSUME ~tainted' PROVE FoldInv'
  BY DEF FoldInv
<1>0. /\ run[r] \in RunState /\ run \in [Runs -> RunState] /\ offsets \in Offsets
      /\ log \in Seq(Payloads) /\ Len(log) \in Nat
      /\ run[r].end <= Len(log) /\ run[r].pos \in Nat \ {0} /\ run[r].max \in Nat
      /\ run[r].end \in Nat /\ offsets.cur \in Nat
  BY NormalizeBounds DEF TypeInv, TypeOK, EndsInLog, RunState, Offsets
<1>1. /\ run[r].pc = "read" /\ run[r].pos > run[r].end
      /\ norm' = NormAfter(r) /\ raw' = raw \cup run[r].tx.raw
      /\ open' = open \cup run[r].tx.errs /\ offsets' = OffsetsAfter(r)
      /\ log' = log /\ closed' = closed /\ ~tainted /\ ~run[r].spoilt
  BY DEF Commit, Finished
<1>2. /\ run[r].max < run[r].pos /\ run[r].max <= run[r].end
      /\ run[r].pos <= run[r].end + 1
  BY DEF CoverInv, RunCovers
<1>3. /\ MadeBy(run[r].pos - 1, run[r].tx.norm, run[r].tx.raw, run[r].tx.errs)
      /\ \A i \in (run[r].max + 1)..(run[r].pos - 1) : FailsAt[log[i]] = "null"
      /\ offsets.cur <= run[r].end /\ MadeBy(offsets.cur, norm, raw, EverRecorded)
  BY <1>1 DEF FoldInv, Follows
<1> DEFINE n == run[r].pos - 1
           m == offsets.cur
           c == offsets'.cur
<1>4. n = run[r].end /\ n \in Nat
  BY <1>0, <1>1, <1>2
<1>5. /\ c \in Nat /\ m \in Nat /\ m <= c /\ c <= n /\ run[r].max <= c
  BY <1>0, <1>1, <1>2, <1>3, <1>4 DEF OffsetsAfter, Larger
<1>6. MadeBy(m, norm, raw, EverRecorded)
  BY <1>3
<1>7. MadeBy(n, run[r].tx.norm, run[r].tx.raw, run[r].tx.errs)
  BY <1>3
<1>8. \A i \in (c + 1)..n : FailsAt[log[i]] = "null"
  <2>1. \A i \in (c + 1)..n : i \in (run[r].max + 1)..n
    BY <1>0, <1>5
  <2> QED BY <1>3, <2>1
<1>9. c <= Len(log)
  BY <1>0, <1>4, <1>5
<1> HIDE DEF n, m, c
<1>10. MadeBy(c, run[r].tx.norm, run[r].tx.raw, run[r].tx.errs)
  BY <1>4, <1>5, <1>7, <1>8, MadeByTombstones
<1>11. \A i \in 1..c : log[i] # NoRow
  <2>1. \A i \in 1..c : i \in 1..Len(log)
    BY <1>0, <1>5, <1>9
  <2> QED BY <1>0, <2>1, ElementOfSeq, PayloadAssumption
<1>12. \A k \in Keys : norm'[k] = IF run[r].tx.norm[k] = NoRow THEN norm[k]
                                                            ELSE run[r].tx.norm[k]
  BY <1>1 DEF NormAfter
<1>13. MadeBy(c, norm', raw \cup run[r].tx.raw, EverRecorded \cup run[r].tx.errs)
  <2> DEFINE new == norm'
             more == run[r].tx.norm
             offs2 == run[r].tx.raw
             errs2 == run[r].tx.errs
             errs == EverRecorded
  <2>1. \A k \in Keys : new[k] = IF more[k] = NoRow THEN norm[k] ELSE more[k]
    BY <1>12
  <2>2. MadeBy(m, norm, raw, errs) /\ MadeBy(c, more, offs2, errs2)
    BY <1>6, <1>10
  <2> HIDE DEF new, more, offs2, errs2, errs
  <2>3. MadeBy(c, new, raw \cup offs2, errs \cup errs2)
    BY <1>5, <1>11, <2>1, <2>2, MadeByMore
  <2> QED BY <2>3 DEF new, more, offs2, errs2, errs
<1>14. EverRecorded' = EverRecorded \cup run[r].tx.errs
  BY <1>1 DEF EverRecorded
<1>15. MadeBy(c, norm', raw', EverRecorded')
  BY <1>1, <1>13, <1>14, Zenon
<1>16. MadeBy(offsets.cur, norm, raw, EverRecorded)'
  BY <1>1, <1>15 DEF c, MadeBy, RowAfter, Versions, ErrorsOf, RaisedOf, Excused
<1>17. run'[r].pc = "flush"
  BY <1>0 DEF Commit
<1> QED BY <1>16, <1>17 DEF FoldInv, Follows, OneRun

LEMMA FoldProgress ==
  ASSUME OneRun, TypeInv, CoverInv, FoldInv, NEW r \in Runs, Progress(r)
  PROVE  FoldInv'
<1>0. RunCovers(run[r]) /\ (~tainted => Follows(run[r]))
  BY DEF CoverInv, FoldInv
<1>1. CASE Commit(r)
  BY <1>1, FoldCommit
<1>2. CASE FailDecode(r) \/ FailAfterAbort(r) \/ FailCommit(r) \/ Flush(r)
  <2>1. run' = [run EXCEPT ![r] = IdleRun] /\ UNCHANGED << log, tables >>
    BY <1>2 DEF FailDecode, FailAfterAbort, FailCommit, Flush, Escape
  <2> QED BY <2>1, FoldEscape
<1>3. CASE (SkipNull(r) \/ AcceptRow(r) \/ Rejects(r)) /\ ~Commit(r)
  <2>1. UNCHANGED << log, tables >>
    BY <1>3, ProgressTables
  <2>2. ~tainted => Follows(run'[r])
    BY <1>0, <1>3, FoldSkip, FoldAccept, FoldReject
  <2> QED BY <2>1, <2>2, FoldOfRun
<1> QED BY <1>1, <1>2, <1>3 DEF Progress, Rejects

LEMMA FoldStep ==
  ASSUME OneRun, TypeInv, CoverInv, FoldInv, [Next]_vars PROVE FoldInv'
<1>0. /\ Len(log) \in Nat /\ run \in [Runs -> RunState] /\ offsets \in Offsets
      /\ offsets.cur \in Nat /\ offsets.cur <= Len(log)
  BY NormalizeBounds DEF TypeInv, TypeOK, CoverInv, Offsets
<1>1. CASE UNCHANGED vars
  BY <1>1 DEF vars, tables, FoldInv, Follows, MadeBy, RowAfter, Versions, ErrorsOf,
              RaisedOf, Excused, EverRecorded
<1>2. ASSUME NEW p \in Payloads, Produce(p) PROVE FoldInv'
  <2> SUFFICES ASSUME ~tainted' PROVE FoldInv'
    BY DEF FoldInv
  <2>1. \A i \in 1..Len(log) : log'[i] = log[i]
    BY <1>2, LogGrows
  <2>2. UNCHANGED << norm, raw, open, closed, offsets, tainted, run >>
    BY <1>2 DEF Produce, tables
  <2>3. MadeBy(offsets.cur, norm, raw, EverRecorded)'
    <3> DEFINE errs == EverRecorded
               n == offsets.cur
    <3>1. MadeBy(n, norm, raw, errs) /\ n \in Nat
      BY <1>0, <2>2 DEF FoldInv
    <3>2. \A i \in 1..n : log'[i] = log[i]
      BY <1>0, <2>1
    <3>3. EverRecorded' = errs /\ offsets'.cur = n
      BY <2>2 DEF EverRecorded
    <3> HIDE DEF errs, n
    <3>4. ASSUME NEW l, l = n, NEW rows, rows = norm, NEW offs, offs = raw,
                 NEW x, x = errs
          PROVE  MadeBy(l, rows, offs, x)'
      BY <3>1, <3>2, <3>4, MadeByPrefix
    <3> QED BY <2>2, <3>3, <3>4 DEF MadeBy, RowAfter, Excused
  <2>4. ASSUME NEW r \in Runs PROVE Follows(run[r])'
    <3>1. /\ Follows(run[r]) /\ run[r] \in RunState /\ run[r].end <= Len(log)
          /\ run[r].pos <= run[r].end + 1
      BY <2>2 DEF FoldInv, TypeInv, TypeOK, EndsInLog, CoverInv, RunCovers
    <3>2. /\ run[r].pos - 1 \in Nat
          /\ \A i \in 1..(run[r].pos - 1) : log'[i] = log[i]
          /\ \A i \in (run[r].max + 1)..(run[r].pos - 1) : i \in 1..(run[r].pos - 1)
      BY <1>0, <2>1, <3>1 DEF RunState
    <3>3. ASSUME NEW l, l = run[r].pos - 1, NEW tx, tx = run[r].tx,
                 MadeBy(l, tx.norm, tx.raw, tx.errs)
          PROVE  MadeBy(l, tx.norm, tx.raw, tx.errs)'
      BY <3>2, <3>3, MadeByPrefix
    <3> QED BY <2>2, <3>1, <3>2, <3>3 DEF Follows
  <2> QED BY <2>3, <2>4 DEF FoldInv
<1>3. ASSUME NEW e \in ErrorKey, CloseError(e) PROVE FoldInv'
  <2>1. UNCHANGED << log, norm, raw, offsets, tainted, run >>
    BY <1>3 DEF CloseError
  <2>2. Len(log) > 0
    BY <1>0, <1>3 DEF CloseError, CoverInv, TypeInv, TypeOK
  <2>3. EverRecorded' = EverRecorded
    BY <1>3, <2>2 DEF CloseError, EverRecorded, TypeInv, TypeOK
  <2>4. CASE ~tainted
    <3>1. MadeBy(offsets.cur, norm, raw, EverRecorded)'
      BY <2>1, <2>3, <2>4 DEF FoldInv, MadeBy, RowAfter, Versions, ErrorsOf,
                              RaisedOf, Excused
    <3>2. \A r \in Runs : Follows(run[r])'
      BY <2>1, <2>4 DEF FoldInv, Follows, MadeBy, RowAfter, Versions, ErrorsOf,
                        RaisedOf, Excused
    <3> QED BY <3>1, <3>2 DEF FoldInv
  <2> QED BY <2>1, <2>4 DEF FoldInv
<1>4. ASSUME NEW r \in Runs, StartRun(r) PROVE FoldInv'
  <2>1. /\ run'[r].tx = EmptyTx /\ run'[r].max = 0 /\ run'[r].pos = 1
        /\ run'[r].end = Len(log) /\ UNCHANGED << log, tables >>
    BY <1>0, <1>4 DEF StartRun, IdleRun
  <2>2. MadeBy(0, EmptyTx.norm, {}, {})
    BY MadeByNone DEF EmptyTx
  <2>3. Follows(run'[r])
    BY <1>0, <2>1, <2>2 DEF Follows, EmptyTx
  <2> QED BY <2>1, <2>3, FoldOfRun
<1>5. ASSUME NEW r \in Runs, Kill(r) PROVE FoldInv'
  BY <1>5, FoldEscape DEF Kill
<1>6. ASSUME NEW r \in Runs, Progress(r) PROVE FoldInv'
  BY <1>6, FoldProgress
<1> QED
  BY <1>1, <1>2, <1>3, <1>4, <1>5, <1>6 DEF Next

\* Of runs one after another, killed, failing to decode a message or losing
\* rows to a send that raises anywhere: as long as none has committed after a
\* parse error was refused, the normalized rows, the raw rows and the parse
\* errors are what the messages up to the recorded offset make, the latest
\* version of every key among them, but for rows that have the error of a row
\* that raised.
THEOREM TablesFollowTopic == ASSUME OneRun PROVE Spec => []TablesAreTheFold
<1>1. Init => FoldInv
  <2> SUFFICES ASSUME Init PROVE FoldInv
    OBVIOUS
  <2>1. /\ offsets.cur = 0 /\ raw = {} /\ EverRecorded = {}
        /\ \A k \in Keys : norm[k] = NoRow
    BY DEF Init, EverRecorded
  <2>2. \A r \in Runs : Follows(run[r])
    BY DEF Init, IdleRun, Follows
  <2> QED BY <2>1, <2>2, MadeByNone DEF FoldInv
<1>2. TypeInv /\ CoverInv /\ FoldInv /\ [Next]_vars => FoldInv'
  BY FoldStep
<1>3. Spec => []TypeInv
  BY TypeInit, TypeStep, PTL DEF Spec
<1>4. Spec => []CoverInv
  <2>1. Init => CoverInv
    BY CoverInit
  <2>2. TypeInv /\ CoverInv /\ [Next]_vars => CoverInv'
    BY CoverStep
  <2> QED BY <1>3, <2>1, <2>2, PTL DEF Spec
<1>5. FoldInv => TablesAreTheFold
  BY DEF FoldInv, TablesAreTheFold
<1> QED BY <1>1, <1>2, <1>3, <1>4, <1>5, PTL DEF Spec
=============================================================================
