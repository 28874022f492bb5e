-------------------------- MODULE ConsumerLag_proofs --------------------------
(***************************************************************************)
(* Proofs about the lag collector, for any payloads, any number of         *)
(* normalizer runs and all values of the bounds.                           *)
(***************************************************************************)
EXTENDS ConsumerLag, Normalize_proofs

\* The recorded offset (by CoverInv) and the watermark that was read are in
\* the partition.
LagInv == TypeInv /\ CoverInv /\ high \in Nat /\ high <= Len(log)

LEMMA LogStays ==
  ASSUME TypeInv, [Next]_vars PROVE Len(log) <= Len(log')
<1>0. Len(log) \in Nat
  BY DEF TypeInv, TypeOK
<1>1. ASSUME NEW p \in Payloads, Produce(p) PROVE Len(log) <= Len(log')
  BY <1>0, <1>1, LogGrows
<1>2. ASSUME NEW r \in Runs, Progress(r) PROVE Len(log) <= Len(log')
  BY <1>0, <1>2, ProgressFrame
<1>3. CASE UNCHANGED vars
  BY <1>0, <1>3 DEF vars
<1>4. ASSUME NEW e \in ErrorKey, CloseError(e) PROVE Len(log) <= Len(log')
  BY <1>0, <1>4 DEF CloseError
<1>5. ASSUME NEW r \in Runs, StartRun(r) \/ Kill(r) PROVE Len(log) <= Len(log')
  BY <1>0, <1>5 DEF StartRun, Kill
<1>6. CASE Next
  BY <1>0, <1>1, <1>2, <1>4, <1>5, <1>6, Zenon DEF Next
<1> QED BY <1>3, <1>6

LEMMA LagInvInit == ASSUME LagInit PROVE LagInv
<1>1. TypeInv /\ CoverInv /\ high = 0
  BY TypeInit, CoverInit DEF LagInit
<1>2. Len(log) \in Nat
  BY <1>1 DEF TypeInv, TypeOK
<1> QED BY <1>1, <1>2 DEF LagInv

\* Beside the normalizers the collector keeps what it read; alone it reads the
\* end of the partition, or forgets what it read.
LEMMA LagStep ==
  ASSUME LagInv, [LagNext]_<< vars, lagVars >> PROVE LagInv'
<1>1. [Next]_vars /\ high' \in {high, 0, Len(log)}
  BY Zenon DEF LagNext, Collect, ReadHigh, StoreLag, lagVars
<1>2. /\ TypeInv' /\ CoverInv' /\ Len(log) <= Len(log')
      /\ Len(log) \in Nat /\ Len(log') \in Nat
  <2>1. TypeInv' /\ CoverInv' /\ Len(log) <= Len(log')
    BY <1>1, TypeStep, CoverStep, LogStays DEF LagInv
  <2> QED BY <2>1 DEF LagInv, TypeInv, TypeOK
<1> QED BY <1>1, <1>2 DEF LagInv

\* The observed lag is within one of the backlog at the moment that the
\* offsets are read, and says that a group has caught up only if it has,
\* however many normalizer runs overlap and whenever they commit.
THEOREM LagIsTrue == LagSpec => LagBrackets
<1> DEFINE Bracket == reading /\ ~reading' /\ offsets.cur > 0 =>
                        /\ Observed <= Len(log) - offsets.cur + 1
                        /\ Observed <= 1 => offsets.cur >= high
<1>1. LagInv => Bracket
  <2> SUFFICES ASSUME LagInv, offsets.cur > 0
               PROVE  /\ Observed <= Len(log) - offsets.cur + 1
                      /\ Observed <= 1 => offsets.cur >= high
    OBVIOUS
  <2>1. /\ Len(log) \in Nat /\ offsets.cur \in Nat /\ high \in Nat
        /\ high <= Len(log) /\ offsets.cur <= Len(log)
    BY NormalizeBounds DEF LagInv, CoverInv, TypeInv, TypeOK, Offsets
  <2> QED BY <2>1 DEF Observed, Difference
<1>2. LagSpec => []LagInv
  <2>1. LagInit => LagInv
    BY LagInvInit
  <2>2. LagInv /\ [LagNext]_<< vars, lagVars >> => LagInv'
    BY LagStep
  <2> QED BY <2>1, <2>2, PTL DEF LagSpec
<1> QED BY <1>1, <1>2, PTL DEF LagSpec, LagBrackets
=============================================================================
