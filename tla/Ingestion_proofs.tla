--------------------------- MODULE Ingestion_proofs ---------------------------
(***************************************************************************)
(* Proofs about the runs of producers, for any number of overlapping runs, *)
(* any sources, any sizes of pages and all values of the bounds: what a    *)
(* verdict and its counts say of the source and of the topic.              *)
(***************************************************************************)
EXTENDS Ingestion, FiniteSetTheorems, SequenceTheorems, TLAPS

-----------------------------------------------------------------------------
(* Sequences.                                                              *)

OneToOne(s) == \A i, j \in DOMAIN s : s[i] = s[j] => i = j

LEMMA TailOneToOne ==
  ASSUME NEW S, NEW s \in Seq(S), s # << >>, OneToOne(s)
  PROVE  /\ Tail(s) \in Seq(S) /\ Len(Tail(s)) = Len(s) - 1 /\ Len(s) >= 1
         /\ OneToOne(Tail(s)) /\ Head(s) \in Range(s)
         /\ Range(Tail(s)) = Range(s) \ {Head(s)}
<1> DEFINE t == Tail(s)
<1>1. /\ t \in Seq(S) /\ Len(t) = Len(s) - 1 /\ Head(s) = s[1]
      /\ \A i \in 1..Len(t) : t[i] = s[i + 1]
  BY HeadTailProperties
<1>2. /\ Len(s) \in Nat /\ DOMAIN s = 1..Len(s) /\ Len(s) # 0 /\ DOMAIN t = 1..Len(t)
  BY <1>1, EmptySeq, LenProperties
<1> HIDE DEF t
<1>3. \A i \in DOMAIN t : i + 1 \in DOMAIN s /\ t[i] = s[i + 1] /\ i + 1 # 1 /\ i \in Nat
  BY <1>1, <1>2
<1>4. OneToOne(t)
  <2> SUFFICES ASSUME NEW i \in DOMAIN t, NEW j \in DOMAIN t, t[i] = t[j]
               PROVE  i = j
    BY DEF OneToOne
  <2>1. i + 1 = j + 1
    BY <1>3 DEF OneToOne
  <2> QED BY <1>3, <2>1
<1>5. 1 \in DOMAIN s
  BY <1>2
<1>6. ASSUME NEW i \in DOMAIN s, i # 1 PROVE i - 1 \in DOMAIN t /\ t[i - 1] = s[i]
  <2>1. i - 1 \in 1..Len(t) /\ i - 1 + 1 = i
    BY <1>1, <1>2, <1>6
  <2> QED BY <1>1, <1>2, <2>1
<1>7. Range(t) \subseteq Range(s) \ {Head(s)}
  <2> SUFFICES ASSUME NEW i \in DOMAIN t PROVE t[i] \in Range(s) /\ t[i] # s[1]
    BY <1>1 DEF Range
  <2>1. t[i] = s[i + 1] /\ i + 1 \in DOMAIN s /\ i + 1 # 1
    BY <1>3
  <2>2. s[i + 1] # s[1]
    BY <1>5, <2>1 DEF OneToOne
  <2> QED BY <2>1, <2>2 DEF Range
<1>8. Range(s) \ {Head(s)} \subseteq Range(t)
  <2> SUFFICES ASSUME NEW i \in DOMAIN s, s[i] # s[1] PROVE s[i] \in Range(t)
    BY <1>1 DEF Range
  <2>1. i # 1
    OBVIOUS
  <2> QED BY <1>6, <2>1 DEF Range
<1>9. Head(s) \in Range(s)
  BY <1>1, <1>5 DEF Range
<1> QED BY <1>1, <1>2, <1>4, <1>7, <1>8, <1>9 DEF t

LEMMA AppendOneToOne ==
  ASSUME NEW S, NEW s \in Seq(S), OneToOne(s), NEW e \in S, e \notin Range(s)
  PROVE  /\ Append(s, e) \in Seq(S) /\ Len(Append(s, e)) = Len(s) + 1
         /\ OneToOne(Append(s, e)) /\ Range(Append(s, e)) = Range(s) \cup {e}
<1> DEFINE t == Append(s, e)
<1>1. /\ t \in Seq(S) /\ Len(t) = Len(s) + 1 /\ \A i \in 1..Len(s) : t[i] = s[i]
      /\ t[Len(s) + 1] = e
  BY AppendProperties
<1>2. /\ Len(s) \in Nat /\ DOMAIN s = 1..Len(s) /\ DOMAIN t = 1..(Len(s) + 1)
  BY <1>1, LenProperties
<1> HIDE DEF t
<1>3. /\ \A i \in DOMAIN t : i \in DOMAIN s \/ i = Len(s) + 1
      /\ \A i \in DOMAIN s : i \in DOMAIN t /\ t[i] = s[i]
      /\ Len(s) + 1 \in DOMAIN t
  BY <1>1, <1>2
<1>4. \A i \in DOMAIN s : s[i] # e
  BY DEF Range
<1>5. OneToOne(t)
  <2> SUFFICES ASSUME NEW i \in DOMAIN t, NEW j \in DOMAIN t, t[i] = t[j]
               PROVE  i = j
    BY DEF OneToOne
  <2>1. CASE i \in DOMAIN s /\ j \in DOMAIN s
    BY <1>3, <2>1 DEF OneToOne
  <2>2. CASE i \notin DOMAIN s \/ j \notin DOMAIN s
    BY <1>1, <1>3, <1>4, <2>2
  <2> QED BY <2>1, <2>2
<1>6. Range(t) = Range(s) \cup {e}
  BY <1>1, <1>3 DEF Range
<1> QED BY <1>1, <1>5, <1>6 DEF t

\* As many elements as places.
LEMMA CardSeq ==
  ASSUME NEW S, NEW s \in Seq(S), OneToOne(s)
  PROVE  Cardinality(Range(s)) = Len(s)
<1>1. Len(s) \in Nat /\ DOMAIN s = 1..Len(s) /\ s \in [1..Len(s) -> S]
  BY LenProperties
<1>2. s \in [1..Len(s) -> Range(s)]
  BY <1>1 DEF Range
<1>3. s \in Bijection(1..Len(s), Range(s))
  BY <1>1, <1>2 DEF Bijection, Injection, Surjection, IsInjective, OneToOne, Range
<1>4. ExistsBijection(1..Len(s), Range(s))
  BY <1>3 DEF ExistsBijection
<1> QED BY <1>1, <1>4, FS_CountingElements

\* The head of one sequence becomes the last element of another.
LEMMA MoveHead ==
  ASSUME NEW S, NEW t \in Seq(S), NEW q \in Seq(S), q # << >>
  PROVE  /\ Append(t, Head(q)) \in Seq(S) /\ Tail(q) \in Seq(S)
         /\ Len(Append(t, Head(q))) = Len(t) + 1 /\ Len(Tail(q)) = Len(q) - 1
         /\ Len(t) \in Nat /\ Len(q) \in Nat /\ Len(q) >= 1
         /\ Append(t, Head(q)) \o Tail(q) = t \o q
<1> DEFINE h == Head(q)
           u == Tail(q)
<1>1. h \in S /\ u \in Seq(S) /\ Len(u) = Len(q) - 1 /\ h = q[1]
  BY HeadTailProperties
<1>2. Len(t) \in Nat /\ Len(q) \in Nat /\ Len(q) >= 1
  BY LenProperties, EmptySeq
<1>3. q = << h >> \o u
  <2>1. SubSeq(q, 1, Len(q)) = q /\ u = SubSeq(q, 2, Len(q))
    BY SubSeqFull, TailIsSubSeq
  <2>2. 1 \in 1..Len(q) /\ Len(q) \in 1..Len(q)
    BY <1>2
  <2>3. SubSeq(q, 1, Len(q)) = << q[1] >> \o SubSeq(q, 1 + 1, Len(q))
    BY <2>2, SubSeqRecursiveFirst
  <2> QED BY <1>1, <2>1, <2>3
<1> HIDE DEF h, u
<1>4. Append(t, h) = t \o << h >> /\ Append(t, h) \in Seq(S) /\ Len(Append(t, h)) = Len(t) + 1
  BY <1>1, AppendIsConcat, AppendProperties
<1>5. << h >> \in Seq(S)
  BY <1>1
<1>6. (t \o << h >>) \o u = t \o (<< h >> \o u)
  BY <1>1, <1>5, ConcatAssociative
<1> QED BY <1>1, <1>2, <1>3, <1>4, <1>6 DEF h, u

-----------------------------------------------------------------------------
(* Pages.                                                                  *)

LEMMA Bounds ==
  /\ MaxPages \in Nat /\ MaxPages >= 1 /\ LocationsLimit \in Nat /\ LocationsLimit >= 1
  /\ MeasurementsLimit \in Nat /\ MeasurementsLimit >= 1 /\ MaxFaults \in Nat
BY IngestionBounds

LEMMA AllFacts ==
  ASSUME NEW n \in Nat
  PROVE  /\ All(n) \in Seq(Nat) /\ Len(All(n)) = n /\ OneToOne(All(n))
         /\ \A i \in 1..n : All(n)[i] = i
         /\ Range(All(n)) = 1..n
<1>1. All(n) \in [1..n -> Nat] /\ \A i \in 1..n : All(n)[i] = i
  BY DEF All
<1>2. All(n) \in Seq(Nat) /\ Len(All(n)) = n /\ DOMAIN All(n) = 1..n
  BY <1>1
<1>3. OneToOne(All(n)) /\ Range(All(n)) = 1..n
  BY <1>1, <1>2 DEF OneToOne, Range
<1> QED BY <1>1, <1>2, <1>3

\* Page i holds the results from those before it to those before the next.
LEMMA PageFacts ==
  ASSUME NEW n \in Nat, NEW L \in Nat, L >= 1, NEW i \in Nat, i >= 1
  PROVE  /\ PageOf(n, L, i) \in Seq(Nat)
         /\ Upto(n, L, i) \in Nat /\ Upto(n, L, i - 1) \in Nat
         /\ Upto(n, L, i - 1) <= Upto(n, L, i) /\ Upto(n, L, i) <= n
         /\ Len(PageOf(n, L, i)) = Upto(n, L, i) - Upto(n, L, i - 1)
         /\ \A j \in 1..Len(PageOf(n, L, i)) : PageOf(n, L, i)[j] = Upto(n, L, i - 1) + j
<1> DEFINE a == (i - 1) * L
           b == i * L
           s == PageOf(n, L, i)
           u == Upto(n, L, i)
           v == Upto(n, L, i - 1)
<1>1. All(n) \in Seq(Nat) /\ Len(All(n)) = n /\ \A j \in 1..n : All(n)[j] = j
  BY AllFacts
<1>2. a \in Nat /\ b \in Nat /\ b = a + L
  <2> DEFINE m == i - 1
  <2>1. m \in Nat /\ i = m + 1
    OBVIOUS
  <2>2. (m + 1) * L = m * L + L /\ m * L \in Nat
    <3> HIDE DEF m
    <3> QED BY <2>1
  <2> QED BY <2>1, <2>2
<1>3. s = SubSeq(All(n), a + 1, u) /\ u = Least(b, n) /\ v = Least(a, n)
  BY DEF PageOf, Upto
<1> HIDE DEF a, b, s, u, v
<1>4. /\ u \in Nat /\ v \in Nat /\ v <= u /\ u <= n /\ v <= a
      /\ (a <= n => v = a) /\ (a > n => v = n /\ u = n)
  BY <1>2, <1>3 DEF Least
<1>5. \A j \in (a + 1)..u : All(n)[j] \in Nat
  BY <1>1, <1>2, <1>4
<1>6. /\ s \in Seq(Nat)
      /\ Len(s) = IF a + 1 <= u THEN u - (a + 1) + 1 ELSE 0
      /\ \A j \in 1..(u - (a + 1) + 1) : s[j] = All(n)[a + 1 + j - 1]
  <2>1. a + 1 \in Int /\ u \in Int
    BY <1>2, <1>4
  <2> QED BY <1>3, <1>5, <2>1, SubSeqProperties
<1>7. Len(s) = u - v
  BY <1>2, <1>4, <1>6
<1>8. ASSUME NEW j \in 1..Len(s) PROVE s[j] = v + j
  <2>1. j \in Nat /\ 1 <= j /\ j <= u - v
    BY <1>4, <1>7
  <2>2. a <= n /\ v = a
    BY <1>2, <1>4, <2>1
  <2>3. j \in 1..(u - (a + 1) + 1) /\ a + 1 + j - 1 = a + j
    BY <1>2, <1>4, <2>1, <2>2
  <2>4. a + j \in 1..n
    BY <1>2, <1>4, <2>1, <2>2
  <2> QED BY <1>1, <1>6, <2>2, <2>3, <2>4
<1> QED BY <1>4, <1>6, <1>7, <1>8 DEF u, v, s

\* The first page of all starts at the first result; the last page is the last
\* that there is, or that max_pages allows.
LEMMA LastPageFacts ==
  ASSUME NEW n \in Nat, NEW L \in Nat, L >= 1, NEW i \in Nat, i >= 1, i <= MaxPages
  PROVE  /\ LastPage(n, L, i) => Upto(n, L, i) = Upto(n, L, MaxPages)
         /\ ~LastPage(n, L, i) => i + 1 <= MaxPages
<1>1. MaxPages \in Nat
  BY Bounds
<1>2. ~LastPage(n, L, i) => i + 1 <= MaxPages
  BY <1>1 DEF LastPage
<1>3. ASSUME n <= i * L PROVE n <= MaxPages * L
  <2>1. PICK k \in Nat : MaxPages = i + k
    <3>1. MaxPages - i \in Nat /\ MaxPages = i + (MaxPages - i)
      BY <1>1
    <3> QED BY <3>1
  <2>2. MaxPages * L = i * L + k * L
    BY <1>1, <2>1
  <2>3. i * L \in Nat /\ k * L \in Nat
    OBVIOUS
  <2> QED BY <1>1, <1>3, <2>2, <2>3
<1>4. ASSUME LastPage(n, L, i), i # MaxPages
      PROVE  Upto(n, L, i) = n /\ Upto(n, L, MaxPages) = n
  <2>1. i * L \in Nat /\ MaxPages * L \in Nat
    BY <1>1
  <2>2. n <= i * L
    <3>1. CASE PageOf(n, L, i) = << >>
      <4>1. Len(PageOf(n, L, i)) = 0
        BY <3>1, EmptySeq
      <4>2. /\ Upto(n, L, i) \in Nat /\ Upto(n, L, i - 1) \in Nat
            /\ Upto(n, L, i) - Upto(n, L, i - 1) = 0
        BY <4>1, PageFacts
      <4> DEFINE a == (i - 1) * L
                 b == i * L
      <4>3. b = a + L /\ a \in Nat
        <5> DEFINE m == i - 1
        <5>1. m \in Nat /\ i = m + 1
          OBVIOUS
        <5>2. (m + 1) * L = m * L + L /\ m * L \in Nat
          <6> HIDE DEF m
          <6> QED BY <1>1, <5>1
        <5> QED BY <5>1, <5>2
      <4>4. Upto(n, L, i) = Least(b, n) /\ Upto(n, L, i - 1) = Least(a, n)
        BY DEF Upto
      <4>5. n <= b
        <5> HIDE DEF a, b
        <5> QED BY <4>2, <4>3, <4>4 DEF Least
      <4> QED BY <4>5
    <3>2. CASE i * L >= n
      BY <2>1, <3>2
    <3> QED BY <1>4, <3>1, <3>2 DEF LastPage
  <2>3. n <= MaxPages * L
    BY <1>3, <2>2
  <2> QED BY <2>1, <2>2, <2>3 DEF Upto, Least
<1> QED BY <1>2, <1>4

LEMMA UptoZero == ASSUME NEW n \in Nat, NEW L \in Nat PROVE Upto(n, L, 1 - 1) = 0
<1>1. (1 - 1) * L = 0
  OBVIOUS
<1> QED BY <1>1 DEF Upto, Least

LEMMA UptoNone == ASSUME NEW L \in Nat, NEW i \in Nat PROVE Upto(0, L, i) = 0
<1>1. i * L \in Nat
  OBVIOUS
<1> QED BY <1>1 DEF Upto, Least

LEMMA UptoMonotone ==
  ASSUME NEW n \in Nat, NEW L \in Nat, NEW i \in Nat, i <= MaxPages
  PROVE  Upto(n, L, i) <= Upto(n, L, MaxPages)
<1>1. PICK k \in Nat : MaxPages = i + k
  <2>1. MaxPages - i \in Nat /\ MaxPages = i + (MaxPages - i)
    BY Bounds
  <2> QED BY <2>1
<1>2. (i + k) * L = i * L + k * L /\ i * L \in Nat /\ k * L \in Nat
  OBVIOUS
<1> DEFINE a == i * L
           b == k * L
<1>3. Upto(n, L, i) = Least(a, n) /\ Upto(n, L, MaxPages) = Least(a + b, n)
  BY <1>1, <1>2 DEF Upto
<1>4. a \in Nat /\ b \in Nat
  BY <1>2
<1> HIDE DEF a, b
<1> QED BY <1>3, <1>4 DEF Least
-----------------------------------------------------------------------------
(* The inductive invariant, of one run.                                    *)

Working(r) == run[r].pc \in {"new", "fetch", "send"}

\* OpenAQ has sent a record if its cursor is past it: behind its sensor, or at
\* it with the record no longer ahead.  The others send what they have got.
Before(r, x) ==
  IF Is(r, "openaq")
  THEN \/ x[1] < run[r].par
       \/ x[1] = run[r].par /\ x[2] < run[r].loc
       \/ x[1] = run[r].par /\ x[2] = run[r].loc /\ x[3] < run[r].sen
       \/ /\ x[1] = run[r].par /\ x[2] = run[r].loc /\ x[3] = run[r].sen
          /\ run[r].pc = "send" /\ x[4] \notin Range(run[r].got)
  ELSE run[r].pc = "send" /\ x[1] \notin Range(run[r].got)

Due(r) == {x \in Goal(r) : Before(r, x)}

\* What a run has sent is what it should have sent by now, each record once.
SentSoFar(r) ==
  /\ OneToOne(run[r].sent)
  /\ Working(r) => Range(run[r].sent) = Due(r)

\* The locations and the measurements that max_pages lets a run see.
AllSites(r) == Upto(Len(Sites(run[r].par)), LocationsLimit, MaxPages)
Here(r) == Len(Readings(run[r].par, run[r].loc, run[r].sen))

\* Where an OpenAQ run is.
Placed(r) ==
  /\ run[r].par \in 0..Len(source.sites)
  /\ run[r].locs \in 0..AllSites(r)
  /\ run[r].loc \in 0..run[r].locs
  /\ run[r].sen \in 0..Len(Sensors(run[r].par, run[r].loc))

Counting(s) == \A i \in DOMAIN s : s[i] = i

Cursor(r) ==
  /\ Placed(r)
  /\ run[r].pc # "fetch" \/ AtSensor(r) => run[r].locs = AllSites(r)
  /\ run[r].pc = "new" => run[r].par = 0 /\ run[r].got = << >>
  /\ run[r].pc = "fetch" => run[r].par > 0 /\ run[r].page \in 1..MaxPages
  /\ run[r].pc = "fetch" /\ ~AtSensor(r) =>
       /\ run[r].loc = 0 /\ run[r].got = << >>
       /\ run[r].locs = Upto(Len(Sites(run[r].par)), LocationsLimit, run[r].page - 1)
  /\ run[r].pc = "fetch" /\ AtSensor(r) =>
       /\ Len(run[r].got) = Upto(Here(r), MeasurementsLimit, run[r].page - 1)
       /\ Counting(run[r].got)
  /\ run[r].pc = "send" =>
       /\ OneToOne(run[r].got)
       /\ IF AtSensor(r) THEN Range(run[r].got) \subseteq Seen(Here(r), MeasurementsLimit)
                         ELSE run[r].got = << >>

\* Where one of the others is.
Missing(r) == IsFiniteSet(run[r].missed) /\ Cardinality(run[r].missed) = run[r].failed

Gathered(r) ==
  /\ OneToOne(run[r].got)
  /\ Is(r, "wind") => Missing(r)
  /\ run[r].pc \in {"new", "fetch"} =>
       IF Is(r, "wind")
       THEN /\ run[r].page >= 1 /\ run[r].page <= source.total + 1
            /\ Range(run[r].got) = (1..(run[r].page - 1)) \ run[r].missed
            /\ run[r].missed \subseteq 1..(run[r].page - 1)
       ELSE run[r].got = << >>
  /\ run[r].pc = "send" => \A n \in Range(run[r].got) : << n >> \in Goal(r)

Gathering(r) == Working(r) => IF Is(r, "openaq") THEN Cursor(r) ELSE Gathered(r)

\* Every message sent is in the topic or queued, but for those dropped and
\* those that died with the process.
Tallied(r) ==
  /\ Len(topic[r]) + Len(run[r].queue) <= Len(run[r].sent)
  /\ r \notin dropped /\ (run[r].pc # "over" \/ ledger[r] = "succeeded") =>
       topic[r] \o run[r].queue = run[r].sent

Complete(r) ==
  /\ Range(run[r].sent) = Goal(r)
  /\ Is(r, "wind") => booked[r].failed = Cardinality(run[r].missed)

\* What the run's row says of where its process is.
Judged(r) ==
  /\ run[r].pc = "new" => ledger[r] = "absent"
  /\ run[r].pc \in {"fetch", "send"} =>
       ledger[r] = IF Books(r) THEN "running" ELSE "absent"
  /\ run[r].pc = "failing" => ledger[r] # "absent"
  /\ ledger[r] \in {"succeeded", "failed"} =>
       /\ run[r].pc \in {"failing", "exit", "over"}
       /\ booked[r].published = Len(run[r].sent)
  /\ ledger[r] = "succeeded" => run[r].queue = << >> /\ Complete(r)

RunInv(r) == SentSoFar(r) /\ Gathering(r) /\ Tallied(r) /\ Judged(r)

IngestionInv == TypeOK /\ \A r \in Runs : RunInv(r)

-----------------------------------------------------------------------------
(* The source.                                                             *)

LEMMA SourceType ==
  ASSUME TypeOK
  PROVE  /\ source.total \in Nat
         /\ Len(source.sites) \in Nat
         /\ \A p \in 0..Len(source.sites) : Sites(p) \in Seq(Site) /\ Len(Sites(p)) \in Nat
         /\ \A p \in 0..Len(source.sites) : \A l \in 0..Len(Sites(p)) :
              Sensors(p, l) \in Seq(Sensor) /\ Len(Sensors(p, l)) \in Nat
         /\ \A p \in 0..Len(source.sites) : \A l \in 0..Len(Sites(p)) :
              \A s \in 1..Len(Sensors(p, l)) :
                /\ Readings(p, l, s) \in Seq({"value", "none", "bad"})
                /\ Len(Readings(p, l, s)) \in Nat
         /\ Sites(0) = << >> /\ \A p : Sensors(p, 0) = << >>
<1>1. source \in Source
  BY IngestionBounds DEF TypeOK
<1>2. source.total \in Nat /\ source.sites \in Seq(Seq(Site))
  BY <1>1 DEF Source
<1>3. Len(source.sites) \in Nat
  BY <1>2, LenProperties
<1>4. ASSUME NEW p \in 0..Len(source.sites)
      PROVE  Sites(p) \in Seq(Site) /\ Len(Sites(p)) \in Nat
  <2>1. CASE p = 0
    BY <2>1, EmptySeq DEF Sites
  <2>2. CASE p # 0
    <3>1. p \in 1..Len(source.sites)
      BY <1>3, <2>2
    <3>2. source.sites[p] \in Seq(Site)
      BY <1>2, <3>1, ElementOfSeq
    <3> QED BY <2>2, <3>2, LenProperties DEF Sites
  <2> QED BY <2>1, <2>2
<1>5. ASSUME NEW p \in 0..Len(source.sites), NEW l \in 0..Len(Sites(p))
      PROVE  Sensors(p, l) \in Seq(Sensor) /\ Len(Sensors(p, l)) \in Nat
  <2>1. CASE l = 0
    BY <2>1, EmptySeq DEF Sensors
  <2>2. CASE l # 0
    <3>1. l \in 1..Len(Sites(p)) /\ Sites(p) \in Seq(Site)
      BY <1>4, <2>2
    <3>2. Sites(p)[l] \in Site
      BY <3>1, ElementOfSeq
    <3>3. Sites(p)[l].sensors \in Seq(Sensor)
      BY <3>2 DEF Site
    <3> QED BY <2>2, <3>3, LenProperties DEF Sensors
  <2> QED BY <2>1, <2>2
<1>6. ASSUME NEW p \in 0..Len(source.sites), NEW l \in 0..Len(Sites(p)),
             NEW s \in 1..Len(Sensors(p, l))
      PROVE  /\ Readings(p, l, s) \in Seq({"value", "none", "bad"})
             /\ Len(Readings(p, l, s)) \in Nat
  <2>1. Sensors(p, l)[s] \in Sensor
    BY <1>5, ElementOfSeq
  <2> QED BY <2>1, LenProperties DEF Sensor, Readings
<1>7. Sites(0) = << >> /\ \A p : Sensors(p, 0) = << >>
  BY DEF Sites, Sensors
<1> QED BY <1>2, <1>3, <1>4, <1>5, <1>6, <1>7

LEMMA UptoFacts ==
  ASSUME NEW n \in Nat, NEW L \in Nat, L >= 1
  PROVE  Upto(n, L, MaxPages) \in Nat /\ Upto(n, L, MaxPages) <= n
BY Bounds, PageFacts

\* What an OpenAQ run is to publish, and where each record is.
LEMMA GoalFacts ==
  ASSUME TypeOK, NEW r \in Runs, Is(r, "openaq"), NEW x
  PROVE  x \in Goal(r) <=>
           \E p \in 1..Len(source.sites) :
             \E l \in Seen(Len(Sites(p)), LocationsLimit) :
               \E s \in 1..Len(Sensors(p, l)) :
                 \E m \in Seen(Len(Readings(p, l, s)), MeasurementsLimit) :
                   Readings(p, l, s)[m] = "value" /\ x = << p, l, s, m >>
<1>1. Goal(r) = UNION {OfParameter(p) : p \in 1..Len(source.sites)}
  BY DEF Goal, Is
<1>2. \A p, l, s : x \in OfSensor(p, l, s) <=>
        \E m \in Seen(Len(Readings(p, l, s)), MeasurementsLimit) :
          Readings(p, l, s)[m] = "value" /\ x = << p, l, s, m >>
  BY DEF OfSensor
<1>3. \A p, l : x \in OfLocation(p, l) <=>
        \E s \in 1..Len(Sensors(p, l)) : x \in OfSensor(p, l, s)
  BY Zenon DEF OfLocation
<1>4. \A p : x \in OfParameter(p) <=>
        \E l \in Seen(Len(Sites(p)), LocationsLimit) : x \in OfLocation(p, l)
  BY Zenon DEF OfParameter
<1>5. x \in Goal(r) <=> \E p \in 1..Len(source.sites) : x \in OfParameter(p)
  BY <1>1, Zenon
<1>6. ASSUME x \in Goal(r)
      PROVE  \E p \in 1..Len(source.sites) :
               \E l \in Seen(Len(Sites(p)), LocationsLimit) :
                 \E s \in 1..Len(Sensors(p, l)) :
                   \E m \in Seen(Len(Readings(p, l, s)), MeasurementsLimit) :
                     Readings(p, l, s)[m] = "value" /\ x = << p, l, s, m >>
  <2>1. PICK p \in 1..Len(source.sites) : x \in OfParameter(p)
    BY <1>5, <1>6
  <2>2. PICK l \in Seen(Len(Sites(p)), LocationsLimit) : x \in OfLocation(p, l)
    BY <1>4, <2>1
  <2>3. PICK s \in 1..Len(Sensors(p, l)) : x \in OfSensor(p, l, s)
    BY <1>3, <2>2
  <2>4. \E m \in Seen(Len(Readings(p, l, s)), MeasurementsLimit) :
          Readings(p, l, s)[m] = "value" /\ x = << p, l, s, m >>
    BY <1>2, <2>3
  <2> QED BY <2>4
<1>7. ASSUME NEW p \in 1..Len(source.sites),
             NEW l \in Seen(Len(Sites(p)), LocationsLimit),
             NEW s \in 1..Len(Sensors(p, l)),
             NEW m \in Seen(Len(Readings(p, l, s)), MeasurementsLimit),
             Readings(p, l, s)[m] = "value", x = << p, l, s, m >>
      PROVE  x \in Goal(r)
  <2>1. x \in OfSensor(p, l, s)
    BY <1>2, <1>7
  <2>2. x \in OfLocation(p, l)
    BY <1>3, <2>1
  <2>3. x \in OfParameter(p)
    BY <1>4, <2>2
  <2> QED BY <1>5, <2>3
<1> QED BY <1>6, <1>7

\* The goals of the others.
LEMMA PlainGoal ==
  ASSUME TypeOK, NEW r \in Runs, ~Is(r, "openaq"), NEW n
  PROVE  /\ << n >> \in Goal(r) <=>
              CASE Is(r, "firms") -> n \in 1..source.total
                [] Is(r, "grid")  -> n = 1
                [] Is(r, "wind")  -> n \in 1..source.total /\ n \notin run[r].missed
         /\ \A x \in Goal(r) : \E m \in Nat : x = << m >>
<1>1. run[r].kind \in Kinds
  BY DEF TypeOK, Process
<1>2. source.total \in Nat
  BY SourceType
<1>3. \A m : << m >> = << n >> <=> m = n
  OBVIOUS
<1>4. CASE Is(r, "firms")
  <2>1. Goal(r) = {<< m >> : m \in 1..source.total} /\ ~Is(r, "grid") /\ ~Is(r, "wind")
    BY <1>4 DEF Goal, Is
  <2> QED BY <1>2, <1>3, <1>4, <2>1
<1>5. CASE Is(r, "grid")
  <2>1. Goal(r) = {<< 1 >>} /\ ~Is(r, "firms") /\ ~Is(r, "wind")
    BY <1>5 DEF Goal, Is
  <2> QED BY <1>2, <1>3, <1>5, <2>1
<1>6. CASE Is(r, "wind")
  <2>1. /\ Goal(r) = {<< m >> : m \in (1..source.total) \ run[r].missed}
        /\ ~Is(r, "firms") /\ ~Is(r, "grid")
    BY <1>6 DEF Goal, Is
  <2> QED BY <1>2, <1>3, <1>6, <2>1
<1> QED BY <1>1, <1>4, <1>5, <1>6 DEF Kinds, Is

\* Nothing of the source changes.
LEMMA SameSource ==
  ASSUME source' = source
  PROVE  /\ \A p : Sites(p)' = Sites(p)
         /\ \A p, l : Sensors(p, l)' = Sensors(p, l)
         /\ \A p, l, s : Readings(p, l, s)' = Readings(p, l, s)
         /\ \A p : OfParameter(p)' = OfParameter(p)
<1>1. \A p : Sites(p)' = Sites(p)
  BY DEF Sites
<1>2. \A p, l : Sensors(p, l)' = Sensors(p, l)
  BY <1>1 DEF Sensors
<1>3. \A p, l, s : Readings(p, l, s)' = Readings(p, l, s)
  BY <1>2 DEF Readings
<1>4. \A p, l, s : OfSensor(p, l, s)' = OfSensor(p, l, s)
  <2> SUFFICES ASSUME NEW p, NEW l, NEW s PROVE OfSensor(p, l, s)' = OfSensor(p, l, s)
    OBVIOUS
  <2>1. Readings(p, l, s)' = Readings(p, l, s)
    BY <1>3
  <2> QED BY <2>1 DEF OfSensor
<1>5. \A p, l : OfLocation(p, l)' = OfLocation(p, l)
  <2> SUFFICES ASSUME NEW p, NEW l PROVE OfLocation(p, l)' = OfLocation(p, l)
    OBVIOUS
  <2>1. Sensors(p, l)' = Sensors(p, l) /\ \A s : OfSensor(p, l, s)' = OfSensor(p, l, s)
    BY <1>2, <1>4
  <2> QED BY <2>1 DEF OfLocation
<1>6. \A p : OfParameter(p)' = OfParameter(p)
  <2> SUFFICES ASSUME NEW p PROVE OfParameter(p)' = OfParameter(p)
    OBVIOUS
  <2>1. Sites(p)' = Sites(p) /\ \A l : OfLocation(p, l)' = OfLocation(p, l)
    BY <1>1, <1>5
  <2> QED BY <2>1 DEF OfParameter
<1> QED BY <1>1, <1>2, <1>3, <1>6

\* The goal of a run is the same if its kind is, and what it missed.
LEMMA SameGoal ==
  ASSUME NEW r, source' = source, run'[r].kind = run[r].kind, run[r].kind \in Kinds,
         Is(r, "wind") => run'[r].missed = run[r].missed
  PROVE  Goal(r)' = Goal(r)
<1>2. UNION {OfParameter(p) : p \in 1..Len(source.sites)}'
        = UNION {OfParameter(p) : p \in 1..Len(source.sites)}
  BY SameSource
<1>3. CASE Is(r, "wind")
  <2>1. run'[r].missed = run[r].missed /\ run[r].kind = "wind"
    BY <1>3 DEF Is
  <2> QED BY <2>1 DEF Goal, Is
<1>4. CASE Is(r, "openaq")
  <2>1. run[r].kind = "openaq"
    BY <1>4 DEF Is
  <2> QED BY <1>2, <2>1 DEF Goal, Is
<1>5. CASE Is(r, "firms")
  <2>1. run[r].kind = "firms"
    BY <1>5 DEF Is
  <2> QED BY <2>1 DEF Goal, Is
<1>6. CASE Is(r, "grid")
  <2>1. run[r].kind = "grid"
    BY <1>6 DEF Is
  <2> QED BY <2>1 DEF Goal, Is
<1> QED BY <1>3, <1>4, <1>5, <1>6 DEF Kinds, Is

-----------------------------------------------------------------------------
(* Types.                                                                  *)

LEMMA TypeInit == ASSUME Init PROVE TypeOK
<1>1. \A k \in Kinds : NewProcess(k) \in Process
  <2>1. << >> \in Seq(Nat) /\ << >> \in Seq(Record)
    BY EmptySeq
  <2> QED BY <2>1 DEF NewProcess, Process
<1>2. run \in [Runs -> Process] /\ topic \in [Runs -> Seq(Record)]
  <2>1. << >> \in Seq(Record)
    BY EmptySeq
  <2> QED BY <1>1, <2>1 DEF Init
<1>3. /\ ledger \in [Runs -> {"absent", "running", "succeeded", "failed"}]
      /\ booked \in [Runs -> Counts] /\ source \in Sources
      /\ {dropped, gone} \subseteq SUBSET Runs
      /\ faults \in 0..MaxFaults
  BY Bounds DEF Init, Counts
<1> QED BY <1>2, <1>3 DEF TypeOK

LEMMA RunType ==
  ASSUME TypeOK, NEW r \in Runs
  PROVE  /\ run[r] \in Process /\ DOMAIN run = Runs
         /\ run[r].got \in Seq(Nat) /\ run[r].queue \in Seq(Record)
         /\ run[r].sent \in Seq(Record) /\ run[r].page \in Nat /\ run[r].failed \in Nat
         /\ run[r].par \in Nat /\ run[r].loc \in Nat /\ run[r].sen \in Nat
         /\ run[r].locs \in Nat /\ run[r].kind \in Kinds
         /\ topic[r] \in Seq(Record) /\ DOMAIN topic = Runs
         /\ run[r].missed \in SUBSET Nat
BY DEF TypeOK, Process

LEMMA CountsType ==
  ASSUME TypeOK, NEW r \in Runs, NEW v \in {"succeeded", "failed"}, Judge(r, v)
  PROVE  /\ ledger' \in [Runs -> {"absent", "running", "succeeded", "failed"}]
         /\ booked' \in [Runs -> Counts]
<1>1. Len(run[r].sent) \in Nat
  BY RunType, LenProperties
<1>2. CountsOf(r) \in Counts
  BY <1>1 DEF TypeOK, Process, CountsOf, Counts
<1> QED BY <1>2 DEF TypeOK, Judge

\* Where an OpenAQ run is there are locations, sensors and measurements.
LEMMA CursorType ==
  ASSUME IngestionInv, NEW r \in Runs, Is(r, "openaq"), Working(r)
  PROVE  /\ Cursor(r)
         /\ run[r].par \in 0..Len(source.sites)
         /\ Sites(run[r].par) \in Seq(Site) /\ Len(Sites(run[r].par)) \in Nat
         /\ AllSites(r) \in Nat /\ AllSites(r) <= Len(Sites(run[r].par))
         /\ run[r].loc \in 0..Len(Sites(run[r].par)) /\ run[r].locs \in 0..AllSites(r)
         /\ run[r].loc \in 0..run[r].locs
         /\ Len(Sensors(run[r].par, run[r].loc)) \in Nat
         /\ run[r].sen \in 0..Len(Sensors(run[r].par, run[r].loc))
         /\ AtSensor(r) =>
              /\ run[r].sen \in 1..Len(Sensors(run[r].par, run[r].loc))
              /\ run[r].loc \in 1..AllSites(r)
              /\ run[r].par \in 1..Len(source.sites)
              /\ Readings(run[r].par, run[r].loc, run[r].sen)
                   \in Seq({"value", "none", "bad"})
              /\ Here(r) \in Nat
<1>1. TypeOK /\ Cursor(r) /\ Placed(r)
  BY DEF IngestionInv, RunInv, Gathering, Cursor
<1>2. /\ Len(source.sites) \in Nat /\ run[r].par \in 0..Len(source.sites)
      /\ Sites(run[r].par) \in Seq(Site) /\ Len(Sites(run[r].par)) \in Nat
  BY <1>1, SourceType DEF Placed
<1>3. AllSites(r) \in Nat /\ AllSites(r) <= Len(Sites(run[r].par))
  BY <1>2, UptoFacts, Bounds DEF AllSites
<1>4. /\ run[r].locs \in 0..AllSites(r) /\ run[r].loc \in 0..run[r].locs
      /\ run[r].loc \in 0..Len(Sites(run[r].par))
  BY <1>1, <1>2, <1>3 DEF Placed
<1>5. /\ Len(Sensors(run[r].par, run[r].loc)) \in Nat
      /\ run[r].sen \in 0..Len(Sensors(run[r].par, run[r].loc))
  BY <1>1, <1>2, <1>4, SourceType DEF Placed
<1>6. ASSUME AtSensor(r)
      PROVE  /\ run[r].sen \in 1..Len(Sensors(run[r].par, run[r].loc))
             /\ run[r].loc \in 1..AllSites(r)
             /\ run[r].par \in 1..Len(source.sites)
             /\ Readings(run[r].par, run[r].loc, run[r].sen)
                  \in Seq({"value", "none", "bad"})
             /\ Here(r) \in Nat
  <2>1. run[r].sen \in 1..Len(Sensors(run[r].par, run[r].loc))
    BY <1>5, <1>6 DEF AtSensor
  <2>2. run[r].loc # 0
    <3>1. run[r].loc = 0 => Len(Sensors(run[r].par, run[r].loc)) = 0
      BY <1>1, SourceType, EmptySeq
    <3> QED BY <2>1, <3>1
  <2>3. run[r].loc \in 1..AllSites(r) /\ AllSites(r) # 0
    BY <1>3, <1>4, <2>2
  <2>4. run[r].par # 0
    <3>1. run[r].par = 0 => Len(Sites(run[r].par)) = 0
      BY <1>1, SourceType, EmptySeq
    <3> QED BY <1>3, <2>3, <3>1
  <2>5. run[r].par \in 1..Len(source.sites)
    BY <1>2, <2>4
  <2>6. /\ Readings(run[r].par, run[r].loc, run[r].sen) \in Seq({"value", "none", "bad"})
        /\ Len(Readings(run[r].par, run[r].loc, run[r].sen)) \in Nat
    BY <1>1, <1>2, <1>4, <2>1, SourceType
  <2> QED BY <2>1, <2>3, <2>5, <2>6 DEF Here
<1> QED BY <1>1, <1>2, <1>3, <1>4, <1>5, <1>6

LEMMA NextPageFacts ==
  ASSUME NEW s \in Process, NEW last \in BOOLEAN
  PROVE  LET t == NextPage(s, last)
         IN  /\ t \in Process /\ t.page = s.page + 1 /\ t.got = s.got /\ t.sent = s.sent
             /\ t.pc = (IF last THEN "send" ELSE "fetch") /\ t.kind = s.kind
             /\ t.par = s.par /\ t.loc = s.loc /\ t.sen = s.sen /\ t.locs = s.locs
             /\ t.queue = s.queue /\ t.missed = s.missed
<1> DEFINE k == s.page + 1
           c == IF last THEN "send" ELSE "fetch"
<1>1. NextPage(s, last) = [s EXCEPT !.tries = 0, !.page = k, !.pc = c]
  BY DEF NextPage
<1>2. k \in Nat /\ c \in {"send", "fetch"}
  BY DEF Process
<1> HIDE DEF k, c
<1>3. [s EXCEPT !.tries = 0, !.page = k, !.pc = c] \in Process
  BY <1>2 DEF Process
<1> DEFINE t == [s EXCEPT !.tries = 0, !.page = k, !.pc = c]
<1>4. /\ t.page = k /\ t.got = s.got /\ t.sent = s.sent
      /\ t.pc = c /\ t.kind = s.kind
      /\ t.par = s.par /\ t.loc = s.loc /\ t.sen = s.sen /\ t.locs = s.locs
      /\ t.queue = s.queue /\ t.missed = s.missed
  BY DEF Process
<1> HIDE DEF t
<1>5. NextPage(s, last) = t /\ t \in Process
  BY <1>1, <1>3 DEF t
<1> QED BY <1>4, <1>5 DEF k, c

\* The steps that fetch.
LEMMA FetchType ==
  ASSUME IngestionInv, NEW r \in Runs,
         Fetch(r) \/ FetchRaises(r) \/ Retry(r)
  PROVE  \E s \in Process : Set(r, s)
<1>1. TypeOK /\ run[r] \in Process
  BY RunType DEF IngestionInv
<1>2. source.total \in Nat
  BY <1>1, SourceType
<1>3. CASE FetchAll(r)
  <2> DEFINE g == All(source.total)
             T == source.total
  <2>1. g \in Seq(Nat) /\ T \in Nat
    BY <1>2, AllFacts
  <2>2. [run[r] EXCEPT !.pc = "send", !.got = g, !.fetched = T] \in Process
    <3> HIDE DEF g, T
    <3> QED BY <1>1, <2>1 DEF Process
  <2>3. [run[r] EXCEPT !.pc = "send", !.got = << 1 >>] \in Process
    <3>1. << 1 >> \in Seq(Nat)
      OBVIOUS
    <3> QED BY <1>1, <3>1 DEF Process
  <2> QED BY <1>3, <2>2, <2>3 DEF FetchAll
<1>4. CASE FetchLocations(r)
  <2> DEFINE n == Len(Sites(run[r].par))
             last == LastPage(n, LocationsLimit, run[r].page)
             l == run[r].locs + Len(PageOf(n, LocationsLimit, run[r].page))
             s == [NextPage(run[r], last) EXCEPT !.locs = l]
  <2>1. n \in Nat /\ run[r].page \in Nat /\ run[r].page >= 1
    BY <1>1, <1>4, CursorType, Bounds DEF FetchLocations, Cursor, Working
  <2>2. l \in Nat
    <3>1. PageOf(n, LocationsLimit, run[r].page) \in Seq(Nat)
      BY <2>1, PageFacts, Bounds
    <3>2. Len(PageOf(n, LocationsLimit, run[r].page)) \in Nat /\ run[r].locs \in Nat
      BY <1>1, <3>1, RunType, LenProperties
    <3> QED BY <2>1, <3>2
  <2>3. Set(r, s)
    BY <1>4 DEF FetchLocations, NextPage
  <2>4. last \in BOOLEAN
    BY DEF LastPage
  <2> DEFINE t == NextPage(run[r], last)
  <2>5. t \in Process
    BY <1>1, <2>4, NextPageFacts
  <2> HIDE DEF n, l, t, last
  <2>6. [t EXCEPT !.locs = l] \in Process
    BY <2>2, <2>5 DEF Process
  <2> QED BY <2>3, <2>6 DEF t
<1>5. CASE FetchMeasurements(r)
  <2> DEFINE n == Len(Readings(run[r].par, run[r].loc, run[r].sen))
             last == LastPage(n, MeasurementsLimit, run[r].page)
             g == run[r].got \o PageOf(n, MeasurementsLimit, run[r].page)
             s == [NextPage(run[r], last) EXCEPT !.got = g]
  <2>1. n \in Nat /\ run[r].page \in Nat /\ run[r].page >= 1
    BY <1>1, <1>5, CursorType, Bounds DEF FetchMeasurements, Cursor, Working, Here
  <2>2. g \in Seq(Nat)
    <3>1. PageOf(n, MeasurementsLimit, run[r].page) \in Seq(Nat)
      BY <2>1, PageFacts, Bounds
    <3> QED BY <1>1, <2>1, <3>1, RunType, ConcatProperties
  <2>3. Set(r, s)
    BY <1>5 DEF FetchMeasurements, NextPage
  <2>4. last \in BOOLEAN
    BY DEF LastPage
  <2> DEFINE t == NextPage(run[r], last)
  <2>5. t \in Process
    BY <1>1, <2>4, NextPageFacts
  <2> HIDE DEF n, g, t, last
  <2>6. [t EXCEPT !.got = g] \in Process
    BY <2>2, <2>5 DEF Process
  <2> QED BY <2>3, <2>6 DEF t
<1>6. CASE Station(r)
  <2> DEFINE n == run[r].page
             k == n + 1
             f == run[r].failed + 1
             g == Append(run[r].got, n)
             t == run[r].fetched + 1
             M == run[r].missed \cup {n}
  <2>1. k \in Nat /\ f \in Nat /\ t \in Nat /\ g \in Seq(Nat) /\ M \in SUBSET Nat
    <3>1. /\ n \in Nat /\ run[r].failed \in Nat /\ run[r].fetched \in Nat
          /\ run[r].got \in Seq(Nat) /\ run[r].missed \in SUBSET Nat
      BY <1>1 DEF Process
    <3> QED BY <3>1, AppendProperties
  <2>2. Station(r) => \/ Set(r, [run[r] EXCEPT !.pc = "send"])
                      \/ Set(r, [run[r] EXCEPT !.page = k, !.got = g, !.fetched = t])
                      \/ Set(r, [run[r] EXCEPT !.page = k, !.failed = f, !.missed = M])
    BY DEF Station
  <2> HIDE DEF k, f, g, t, M
  <2>3. /\ [run[r] EXCEPT !.pc = "send"] \in Process
        /\ [run[r] EXCEPT !.page = k, !.got = g, !.fetched = t] \in Process
        /\ [run[r] EXCEPT !.page = k, !.failed = f, !.missed = M] \in Process
    BY <1>1, <2>1 DEF Process
  <2> QED BY <1>6, <2>2, <2>3
<1>7. CASE FetchRaises(r) \/ Retry(r)
  <2>1. \A s \in Process : \A c \in {"failing", "exit"} : [s EXCEPT !.pc = c] \in Process
    BY DEF Process
  <2> DEFINE k == run[r].tries + 1
  <2>2. [run[r] EXCEPT !.tries = k] \in Process
    <3>1. k \in Nat
      BY <1>1 DEF Process
    <3> HIDE DEF k
    <3> QED BY <1>1, <3>1 DEF Process
  <2>3. \A s \in Process : Raise(r, s) => \E t \in Process : Set(r, t)
    BY <2>1 DEF Raise
  <2> QED BY <1>1, <1>7, <2>2, <2>3 DEF FetchRaises, Retry
<1> QED BY <1>3, <1>4, <1>5, <1>6, <1>7 DEF Fetch

LEMMA RecordType ==
  ASSUME TypeOK, NEW r \in Runs, run[r].got # << >>
  PROVE  NextRecord(r) \in Record /\ Head(run[r].got) \in Nat /\ Tail(run[r].got) \in Seq(Nat)
<1>1. Head(run[r].got) \in Nat /\ Tail(run[r].got) \in Seq(Nat)
  BY RunType, HeadTailProperties
<1>2. run[r].par \in Nat /\ run[r].loc \in Nat /\ run[r].sen \in Nat
  BY RunType
<1>3. \A a, b, c, d \in Nat : << a, b, c, d >> \in Seq(Nat) /\ << d >> \in Seq(Nat)
  OBVIOUS
<1> QED BY <1>1, <1>2, <1>3 DEF NextRecord, Record

\* The steps that send and judge.
LEMMA SendType ==
  ASSUME TypeOK, NEW r \in Runs,
         \/ LocationRaises(r) \/ MeasurementRaises(r) \/ Advance(r) \/ Send(r)
         \/ SendRaises(r) \/ FinishRaises(r)
  PROVE  \E s \in Process : Set(r, s)
<1>1. run[r] \in Process
  BY RunType
<1>2. \A s \in Process : Raise(r, s) => \E t \in Process : Set(r, t)
  <2>1. \A s \in Process : \A c \in {"failing", "exit"} : [s EXCEPT !.pc = c] \in Process
    BY DEF Process
  <2> QED BY <2>1 DEF Raise
<1>3. CASE LocationRaises(r) \/ MeasurementRaises(r) \/ FinishRaises(r)
  BY <1>1, <1>2, <1>3 DEF LocationRaises, MeasurementRaises, FinishRaises
<1>4. CASE Send(r)
  <2> DEFINE x == NextRecord(r)
             f == IF Is(r, "openaq") THEN run[r].fetched + 1 ELSE run[r].fetched
             g == Tail(run[r].got)
             q == Append(run[r].queue, x)
             k == Append(run[r].sent, x)
             s == [run[r] EXCEPT !.got = g, !.sent = k, !.queue = q, !.fetched = f]
  <2>1. run[r].got # << >>
    BY <1>4 DEF Send, Sending
  <2>2. x \in Record /\ g \in Seq(Nat)
    BY <2>1, RecordType
  <2>3. q \in Seq(Record) /\ k \in Seq(Record)
    BY <2>2, RunType, AppendProperties
  <2>4. f \in Nat
    BY <1>1 DEF Process
  <2>5. Set(r, s)
    BY <1>4 DEF Send
  <2> HIDE DEF x, f, g, q, k
  <2>6. s \in Process
    BY <1>1, <2>2, <2>3, <2>4 DEF Process
  <2> QED BY <2>5, <2>6
<1>5. CASE SendRaises(r)
  <2> DEFINE k == IF run[r].kind \in {"firms", "openaq"} THEN run[r].failed + 1
                                                        ELSE run[r].failed
             f == IF Is(r, "openaq") THEN run[r].fetched + 1 ELSE run[r].fetched
             d == Is(r, "firms")
             s == [run[r] EXCEPT !.failed = k, !.fetched = f, !.drain = d]
  <2>1. k \in Nat /\ f \in Nat /\ d \in BOOLEAN
    BY <1>1 DEF Process, Is
  <2>2. Raise(r, s)
    BY <1>5 DEF SendRaises
  <2> HIDE DEF k, f, d
  <2>3. s \in Process
    BY <1>1, <2>1 DEF Process
  <2> QED BY <1>2, <2>2, <2>3
<1>6. CASE Advance(r)
  <2> DEFINE a == run[r].sen + 1
             b == run[r].loc + 1
             c == run[r].par + 1
             g == Tail(run[r].got)
  <2>1. a \in Nat /\ b \in Nat /\ c \in Nat
    <3>1. run[r].sen \in Nat /\ run[r].loc \in Nat /\ run[r].par \in Nat
      BY RunType
    <3> QED BY <3>1
  <2>2. run[r].got # << >> => g \in Seq(Nat)
    BY RecordType
  <2>3. \/ Set(r, [run[r] EXCEPT !.sen = a, !.page = 1, !.pc = "fetch"])
        \/ Set(r, [run[r] EXCEPT !.loc = b, !.sen = 0])
        \/ Set(r, [run[r] EXCEPT !.par = c, !.loc = 0, !.sen = 0, !.locs = 0,
                                 !.page = 1, !.pc = "fetch"])
        \/ run[r].got # << >> /\ Set(r, [run[r] EXCEPT !.got = g])
    BY <1>6 DEF Advance, NextSensor, NextLocation, NextParameter, Skip, Sending
  <2> HIDE DEF a, b, c, g
  <2>4. /\ [run[r] EXCEPT !.sen = a, !.page = 1, !.pc = "fetch"] \in Process
        /\ [run[r] EXCEPT !.loc = b, !.sen = 0] \in Process
        /\ [run[r] EXCEPT !.par = c, !.loc = 0, !.sen = 0, !.locs = 0,
                          !.page = 1, !.pc = "fetch"] \in Process
        /\ g \in Seq(Nat) => [run[r] EXCEPT !.got = g] \in Process
    BY <1>1, <2>1 DEF Process
  <2> QED BY <2>2, <2>3, <2>4
<1> QED BY <1>3, <1>4, <1>5, <1>6

\* The others.
LEMMA EndType ==
  ASSUME TypeOK, NEW r \in Runs,
         \/ Start(r) \/ StartRaises(r) \/ Finish(r) \/ FinishFailed(r)
         \/ FinishFailedRaises(r) \/ Exit(r) \/ Deliver(r) \/ Drop(r) \/ Kill(r)
  PROVE  \E s \in Process : Set(r, s)
<1>1. run[r] \in Process
  BY RunType
<1>2. \A c \in {"fetch", "send", "exit", "over"} : [run[r] EXCEPT !.pc = c] \in Process
  BY <1>1 DEF Process
<1>3. [run[r] EXCEPT !.pc = "over", !.queue = << >>] \in Process
  BY <1>1, EmptySeq DEF Process
<1>4. run[r].queue # << >> => [run[r] EXCEPT !.queue = Tail(@)] \in Process
  <2>1. run[r].queue # << >> => Tail(run[r].queue) \in Seq(Record)
    BY RunType, HeadTailProperties
  <2> QED BY <1>1, <2>1 DEF Process
<1> QED BY <1>2, <1>3, <1>4 DEF Start, StartRaises, Finish, FinishFailed,
     FinishFailedRaises, Exit, Deliver, Drop, Kill

\* What a step of a run may do to the variables of the whole.
LEMMA StepShape ==
  ASSUME IngestionInv, NEW r \in Runs, Start(r) \/ Progress(r) \/ Failure(r)
  PROVE  /\ \E s \in Process : Set(r, s)
         /\ source' = source
         /\ \/ ledger' = ledger /\ booked' = booked
            \/ (Start(r) \/ StartRaises(r)) /\ booked' = booked
               /\ ledger' \in {ledger, [ledger EXCEPT ![r] = "running"]}
            \/ \E v \in {"succeeded", "failed"} : Judge(r, v)
         /\ \/ topic' = topic
            \/ /\ run[r].queue # << >>
               /\ topic' = [topic EXCEPT ![r] = Append(@, Head(run[r].queue))]
         /\ dropped' \in {dropped, dropped \cup {r}} /\ gone' \in {gone, gone \cup {r}}
         /\ faults' = faults \/ Fault
<1>0. TypeOK
  BY DEF IngestionInv
<1>1. \E s \in Process : Set(r, s)
  BY <1>0, FetchType, SendType, EndType DEF Progress, Failure
<1>2. CASE Start(r)
  BY <1>1, <1>2 DEF Start
<1>3. CASE Fetch(r)
  BY <1>1, <1>3 DEF Fetch, FetchAll, Station, FetchLocations, FetchMeasurements
<1>4. CASE Advance(r)
  BY <1>1, <1>4 DEF Advance, NextSensor, NextLocation, NextParameter, Skip
<1>5. CASE LocationRaises(r) \/ MeasurementRaises(r) \/ Send(r) \/ Exit(r)
  BY <1>1, <1>5 DEF LocationRaises, MeasurementRaises, Send, Exit
<1>6. CASE Finish(r) \/ FinishFailed(r)
  BY <1>1, <1>6 DEF Finish, FinishFailed, Verdict
<1>7. CASE Deliver(r)
  BY <1>1, <1>7 DEF Deliver
<1>8. CASE StartRaises(r)
  BY <1>1, <1>8 DEF StartRaises
<1>9. CASE FetchRaises(r) \/ Retry(r) \/ SendRaises(r)
  BY <1>1, <1>9 DEF FetchRaises, Retry, SendRaises
<1>10. CASE FinishRaises(r)
  BY <1>1, <1>10 DEF FinishRaises, Verdict
<1>11. CASE FinishFailedRaises(r) \/ Drop(r) \/ Kill(r)
  BY <1>1, <1>11 DEF FinishFailedRaises, Drop, Kill
<1> QED BY <1>2, <1>3, <1>4, <1>5, <1>6, <1>7, <1>8, <1>9, <1>10, <1>11
        DEF Progress, Failure

LEMMA TypeStep == ASSUME IngestionInv, [Next]_vars PROVE TypeOK'
<1>0. TypeOK
  BY DEF IngestionInv
<1>1. CASE UNCHANGED vars
  BY <1>0, <1>1 DEF TypeOK, vars
<1>2. ASSUME NEW r \in Runs, Start(r) \/ Progress(r) \/ Failure(r) PROVE TypeOK'
  <2>0. /\ \E s \in Process : Set(r, s)
        /\ source' = source
        /\ \/ ledger' = ledger /\ booked' = booked
           \/ (Start(r) \/ StartRaises(r)) /\ booked' = booked
              /\ ledger' \in {ledger, [ledger EXCEPT ![r] = "running"]}
           \/ \E v \in {"succeeded", "failed"} : Judge(r, v)
        /\ \/ topic' = topic
           \/ /\ run[r].queue # << >>
              /\ topic' = [topic EXCEPT ![r] = Append(@, Head(run[r].queue))]
        /\ dropped' \in {dropped, dropped \cup {r}} /\ gone' \in {gone, gone \cup {r}}
        /\ faults' = faults \/ Fault
    BY <1>2, StepShape
  <2>1. PICK s \in Process : Set(r, s)
    BY <2>0
  <2>2. run' \in [Runs -> Process]
    BY <1>0, <2>1 DEF Set, TypeOK
  <2>3. /\ ledger' \in [Runs -> {"absent", "running", "succeeded", "failed"}]
        /\ booked' \in [Runs -> Counts]
    <3>1. CASE \E v \in {"succeeded", "failed"} : Judge(r, v)
      BY <1>0, <3>1, CountsType
    <3>2. CASE /\ booked' = booked
               /\ ledger' \in {ledger, [ledger EXCEPT ![r] = "running"]}
      BY <1>0, <3>2 DEF TypeOK
    <3> QED BY <2>0, <3>1, <3>2
  <2>4. topic' \in [Runs -> Seq(Record)]
    <3>1. run[r].queue # << >> => Append(topic[r], Head(run[r].queue)) \in Seq(Record)
      BY <1>0, RunType, HeadTailProperties, AppendProperties
    <3> QED BY <1>0, <2>0, <3>1 DEF TypeOK
  <2>5. dropped' \subseteq Runs /\ gone' \subseteq Runs
    BY <1>0, <2>0 DEF TypeOK
  <2>6. faults' \in 0..MaxFaults
    BY <1>0, <2>0, Bounds DEF TypeOK, Fault
  <2> QED BY <1>0, <2>0, <2>2, <2>3, <2>4, <2>5, <2>6 DEF TypeOK
<1> QED BY <1>1, <1>2 DEF Next

-----------------------------------------------------------------------------
(* A step of one run leaves the others alone.                              *)

Others(r) ==
  /\ source' = source
  /\ \A q \in Runs \ {r} :
       /\ run'[q] = run[q] /\ ledger'[q] = ledger[q] /\ booked'[q] = booked[q]
       /\ topic'[q] = topic[q] /\ (q \in dropped' <=> q \in dropped)

LEMMA OthersStep ==
  ASSUME IngestionInv, NEW r \in Runs, Start(r) \/ Progress(r) \/ Failure(r)
  PROVE  Others(r)
<1>0. TypeOK
  BY DEF IngestionInv
<1>1. PICK s \in Process : Set(r, s)
  BY StepShape
<1>2. \A q \in Runs \ {r} : run'[q] = run[q]
  BY <1>0, <1>1 DEF Set, TypeOK
<1>3. \A q \in Runs \ {r} : ledger'[q] = ledger[q] /\ booked'[q] = booked[q]
  <2>1. \/ ledger' = ledger /\ booked' = booked
        \/ booked' = booked /\ ledger' = [ledger EXCEPT ![r] = "running"]
        \/ \E v \in {"succeeded", "failed"} : Judge(r, v)
    BY StepShape
  <2> QED BY <1>0, <2>1 DEF Judge, TypeOK
<1>4. \A q \in Runs \ {r} : topic'[q] = topic[q]
  <2>1. topic' = topic \/ topic' = [topic EXCEPT ![r] = Append(@, Head(run[r].queue))]
    BY StepShape
  <2> QED BY <1>0, <2>1 DEF TypeOK
<1>5. source' = source /\ \A q \in Runs \ {r} : q \in dropped' <=> q \in dropped
  BY StepShape
<1> QED BY <1>2, <1>3, <1>4, <1>5 DEF Others

\* A run of which nothing changes.
LEMMA RunKept ==
  ASSUME NEW q, RunInv(q), source' = source, run'[q] = run[q], ledger'[q] = ledger[q],
         booked'[q] = booked[q], topic'[q] = topic[q], run[q].kind \in Kinds,
         q \in dropped' <=> q \in dropped
  PROVE  RunInv(q)'
<1>1. /\ \A k : Is(q, k)' <=> Is(q, k)
      /\ Books(q)' <=> Books(q)
      /\ Working(q)' <=> Working(q)
      /\ AtSensor(q)' <=> AtSensor(q)
  BY DEF Is, Books, Working, AtSensor
<1>2. Goal(q)' = Goal(q)
  BY SameGoal
<1>3. Due(q)' = Due(q)
  <2>1. \A x : Before(q, x)' <=> Before(q, x)
    BY <1>1 DEF Before
  <2> QED BY <1>2, <2>1 DEF Due
<1>4. SentSoFar(q)'
  BY <1>1, <1>3 DEF RunInv, SentSoFar
<1>5. /\ Placed(q)' <=> Placed(q)
      /\ AllSites(q)' = AllSites(q) /\ Here(q)' = Here(q)
  BY SameSource DEF Placed, AllSites, Here
<1>6. Cursor(q)' <=> Cursor(q)
  BY <1>1, <1>5, SameSource DEF Cursor
<1>7. Gathered(q)' <=> Gathered(q)
  BY <1>1, <1>2 DEF Gathered, Missing
<1>8. Gathering(q)'
  BY <1>1, <1>6, <1>7 DEF RunInv, Gathering
<1>9. Tallied(q)'
  BY DEF RunInv, Tallied
<1>10. Complete(q)' <=> Complete(q)
  BY <1>1, <1>2 DEF Complete
<1>11. Judged(q)'
  BY <1>1, <1>10 DEF RunInv, Judged
<1> QED BY <1>4, <1>8, <1>9, <1>11 DEF RunInv

LEMMA Frame ==
  ASSUME IngestionInv, TypeOK', NEW r \in Runs, Others(r), RunInv(r)'
  PROVE  IngestionInv'
<1>1. ASSUME NEW q \in Runs \ {r} PROVE RunInv(q)'
  <2>1. RunInv(q) /\ run[q].kind \in Kinds
    BY RunType DEF IngestionInv
  <2> QED BY <2>1, RunKept DEF Others
<1> QED BY <1>1 DEF IngestionInv

-----------------------------------------------------------------------------
(* The steps of a run.                                                     *)

\* A run goes on without a word to the topic; what is left to show is of what
\* it gathers, and of its row.
Silent(r, s) ==
  /\ Set(r, s) /\ UNCHANGED << source, topic, dropped >>
  /\ s.queue = run[r].queue /\ s.sent = run[r].sent /\ s.kind = run[r].kind
  /\ s.pc # "over" /\ run[r].pc # "over"

LEMMA SilentKeeps ==
  ASSUME IngestionInv, NEW r \in Runs, NEW s, Silent(r, s)
  PROVE  /\ run'[r] = s /\ Tallied(r)' /\ OneToOne(run[r].sent)'
         /\ \A k : Is(r, k)' <=> Is(r, k)
         /\ Books(r)' <=> Books(r)
         /\ (Is(r, "wind") => s.missed = run[r].missed) => Goal(r)' = Goal(r)
<1>1. run'[r] = s /\ run[r].kind \in Kinds
  BY RunType DEF IngestionInv, Silent, Set
<1>2. (\A k : Is(r, k)' <=> Is(r, k)) /\ (Books(r)' <=> Books(r))
  BY <1>1 DEF Silent, Is, Books
<1>3. Tallied(r)' /\ OneToOne(run[r].sent)'
  <2>1. Tallied(r) /\ OneToOne(run[r].sent)
    BY DEF IngestionInv, RunInv, SentSoFar
  <2> QED BY <1>1, <2>1 DEF Silent, Tallied
<1>4. (Is(r, "wind") => s.missed = run[r].missed) => Goal(r)' = Goal(r)
  BY <1>1, SameGoal DEF Silent
<1> QED BY <1>1, <1>2, <1>3, <1>4

\* The steps that end the run's work without a verdict of it.
LEMMA RaiseKeeps ==
  ASSUME IngestionInv, NEW r \in Runs, NEW s, Silent(r, s), booked' = booked,
         run[r].pc \in {"new", "fetch", "send"}, ledger'[r] \in {"absent", "running"},
         \/ s.pc = "exit"
         \/ s.pc = "failing" /\ Books(r) /\ run[r].pc # "new" /\ ledger'[r] = ledger[r]
  PROVE  RunInv(r)'
<1>1. run'[r] = s /\ Tallied(r)' /\ OneToOne(run[r].sent)' /\ (Books(r)' <=> Books(r))
  BY SilentKeeps
<1>2. ~Working(r)'
  BY <1>1 DEF Working
<1>3. SentSoFar(r)' /\ Gathering(r)'
  BY <1>1, <1>2 DEF SentSoFar, Gathering
<1>4. Judged(r)
  BY DEF IngestionInv, RunInv
<1>5. Judged(r)'
  BY <1>1, <1>4 DEF Judged
<1> QED BY <1>1, <1>3, <1>5 DEF RunInv

\* What Raise does to what it is given.
LEMMA RaiseFacts ==
  ASSUME NEW r \in Runs, NEW s \in Process, Raise(r, s)
  PROVE  \E t : /\ Set(r, t) /\ t.queue = s.queue /\ t.sent = s.sent
                /\ t.kind = s.kind /\ t.got = s.got /\ t.missed = s.missed
                /\ t.pc = IF Books(r) THEN "failing" ELSE "exit"
<1> DEFINE c == IF Books(r) THEN "failing" ELSE "exit"
           t == [s EXCEPT !.pc = c]
<1>1. Set(r, t)
  BY DEF Raise
<1> HIDE DEF c
<1>2. /\ t.queue = s.queue /\ t.sent = s.sent /\ t.kind = s.kind /\ t.got = s.got
      /\ t.missed = s.missed /\ t.pc = c
  BY DEF Process
<1> HIDE DEF t
<1> QED BY <1>1, <1>2 DEF c

LEMMA RaisesStep ==
  ASSUME IngestionInv, NEW r \in Runs,
         \/ StartRaises(r) \/ FetchRaises(r) \/ LocationRaises(r)
         \/ MeasurementRaises(r) \/ SendRaises(r)
  PROVE  RunInv(r)'
<1>0. TypeOK /\ run[r] \in Process /\ Judged(r)
  BY RunType DEF IngestionInv, RunInv
<1>1. /\ UNCHANGED << source, topic, dropped, booked >>
      /\ run[r].pc \in {"new", "fetch", "send"}
  BY DEF StartRaises, FetchRaises, LocationRaises, MeasurementRaises, SendRaises, Sending,
         AllSent
<1>2. CASE StartRaises(r)
  <2> DEFINE s == [run[r] EXCEPT !.pc = "exit"]
  <2>1. /\ s.queue = run[r].queue /\ s.sent = run[r].sent /\ s.kind = run[r].kind
        /\ s.pc = "exit"
    BY <1>0 DEF Process
  <2>2. Set(r, s)
    BY <1>2 DEF StartRaises
  <2>3. ledger'[r] \in {"absent", "running"}
    BY <1>0, <1>2 DEF StartRaises, Judged, TypeOK
  <2> HIDE DEF s
  <2> QED BY <1>1, <2>1, <2>2, <2>3, RaiseKeeps DEF Silent
<1>3. CASE FetchRaises(r) \/ LocationRaises(r) \/ MeasurementRaises(r) \/ SendRaises(r)
  <2>1. \E s \in Process : /\ Raise(r, s) /\ s.queue = run[r].queue /\ s.sent = run[r].sent
                           /\ s.kind = run[r].kind
    <3>1. CASE FetchRaises(r) \/ LocationRaises(r) \/ MeasurementRaises(r)
      BY <1>0, <3>1 DEF FetchRaises, LocationRaises, MeasurementRaises
    <3>2. CASE SendRaises(r)
      <4> DEFINE k == IF run[r].kind \in {"firms", "openaq"} THEN run[r].failed + 1
                                                            ELSE run[r].failed
                 f == IF Is(r, "openaq") THEN run[r].fetched + 1 ELSE run[r].fetched
                 d == Is(r, "firms")
                 s == [run[r] EXCEPT !.failed = k, !.fetched = f, !.drain = d]
      <4>1. k \in Nat /\ f \in Nat /\ d \in BOOLEAN
        <5>1. run[r] \in Process
          BY <1>0
        <5>2. run[r].failed \in Nat /\ run[r].fetched \in Nat
          BY <5>1 DEF Process
        <5> QED BY <5>2 DEF Is
      <4>2. Raise(r, s)
        BY <3>2 DEF SendRaises
      <4> HIDE DEF k, f, d
      <4>3. /\ s \in Process /\ s.queue = run[r].queue /\ s.sent = run[r].sent
            /\ s.kind = run[r].kind
        BY <1>0, <4>1 DEF Process
      <4> HIDE DEF s
      <4> QED BY <4>2, <4>3
    <3> QED BY <1>3, <3>1, <3>2
  <2>2. PICK t : /\ Set(r, t) /\ t.queue = run[r].queue /\ t.sent = run[r].sent
                 /\ t.kind = run[r].kind
                 /\ t.pc = IF Books(r) THEN "failing" ELSE "exit"
    BY <2>1, RaiseFacts
  <2>3. run[r].pc # "new" /\ ledger' = ledger
    BY <1>3 DEF FetchRaises, LocationRaises, MeasurementRaises, SendRaises, Sending, AllSent
  <2>4. ledger[r] \in {"absent", "running"}
    BY <1>0, <1>1 DEF Judged
  <2> QED BY <1>1, <2>2, <2>3, <2>4, RaiseKeeps DEF Silent
<1> QED BY <1>2, <1>3

\* A step within the work of a run, or its start, that sends nothing.
LEMMA QuietStep ==
  ASSUME IngestionInv, NEW r \in Runs, NEW s, Silent(r, s), booked' = booked,
         s.pc \in {"fetch", "send"}, run[r].pc \in {"new", "fetch", "send"},
         IF run[r].pc = "new" THEN ledger'[r] = IF Books(r) THEN "running" ELSE "absent"
                              ELSE ledger'[r] = ledger[r],
         Due(r)' = Due(r),
         IF Is(r, "openaq") THEN Cursor(r)' ELSE Gathered(r)'
  PROVE  RunInv(r)'
<1>1. /\ run'[r] = s /\ Tallied(r)' /\ OneToOne(run[r].sent)' /\ (Books(r)' <=> Books(r))
      /\ \A k : Is(r, k)' <=> Is(r, k)
  BY SilentKeeps
<1>2. Judged(r) /\ SentSoFar(r) /\ Working(r)
  BY DEF IngestionInv, RunInv, Working
<1>3. SentSoFar(r)'
  <2>1. Range(run[r].sent)' = Range(run[r].sent)
    BY <1>1 DEF Silent
  <2>2. Range(run[r].sent)' = Due(r)'
    BY <1>2, <2>1 DEF SentSoFar
  <2> QED BY <1>1, <2>2 DEF SentSoFar
<1>4. Gathering(r)'
  BY <1>1 DEF Gathering
<1>5. ledger'[r] = IF Books(r)' THEN "running" ELSE "absent"
  BY <1>1, <1>2 DEF Judged
<1>6. Judged(r)'
  BY <1>1, <1>5 DEF Judged
<1> QED BY <1>1, <1>3, <1>4, <1>6 DEF RunInv

\* Nothing is due before a run sends, and of OpenAQ what the cursor says.
LEMMA DueNone ==
  ASSUME NEW r, ~Is(r, "openaq"), run[r].pc # "send"
  PROVE  Due(r) = {}
BY DEF Due, Before

LEMMA DueKept ==
  ASSUME NEW r, Goal(r)' = Goal(r),
         \A x \in Goal(r) : Before(r, x)' <=> Before(r, x)
  PROVE  Due(r)' = Due(r)
BY DEF Due

LEMMA StartStep == ASSUME IngestionInv, NEW r \in Runs, Start(r) PROVE RunInv(r)'
<1>0. TypeOK /\ run[r] \in Process /\ Gathering(r) /\ Judged(r) /\ run[r].pc = "new"
  BY RunType DEF IngestionInv, RunInv, Start
<1> DEFINE c == IF Is(r, "openaq") THEN "send" ELSE "fetch"
           s == [run[r] EXCEPT !.pc = c]
<1>8. c \in {"send", "fetch"}
  OBVIOUS
<1>1. Set(r, s) /\ UNCHANGED << source, topic, dropped, booked >>
  BY DEF Start
<1>2. /\ s.queue = run[r].queue /\ s.sent = run[r].sent /\ s.kind = run[r].kind
      /\ s.got = run[r].got /\ s.pc = c /\ s.page = run[r].page
      /\ s.failed = run[r].failed /\ s.missed = run[r].missed /\ s.par = run[r].par
      /\ s.loc = run[r].loc /\ s.sen = run[r].sen /\ s.locs = run[r].locs
  BY <1>0, <1>8 DEF Process
<1> HIDE DEF s
<1>3. Silent(r, s)
  BY <1>0, <1>1, <1>2 DEF Silent
<1>4. run'[r] = s /\ Goal(r)' = Goal(r) /\ \A k : Is(r, k)' <=> Is(r, k)
  BY <1>2, <1>3, SilentKeeps
<1>5. ledger'[r] = IF Books(r) THEN "running" ELSE "absent"
  BY <1>0 DEF Start, Judged, TypeOK
<1>6. CASE Is(r, "openaq")
  <2>1. Cursor(r) /\ run[r].par = 0 /\ run[r].got = << >>
    BY <1>0, <1>6 DEF Gathering, Cursor, Working
  <2>2. run[r].sen = 0 /\ run[r].loc = 0
    <3>1. Len(Sites(0)) = 0 /\ AllSites(r) = 0
      BY <1>0, <2>1, SourceType, EmptySeq, UptoNone, Bounds DEF AllSites
    <3>2. run[r].loc = 0
      BY <2>1, <3>1 DEF Cursor, Placed
    <3> QED BY <1>0, <2>1, <3>2, SourceType, EmptySeq DEF Cursor, Placed
  <2>3. Cursor(r)'
    <3>1. /\ Placed(r)' /\ AllSites(r)' = AllSites(r) /\ ~AtSensor(r)'
      BY <1>1, <1>2, <1>4, <2>1, <2>2, SameSource DEF Cursor, Placed, AllSites, AtSensor
    <3>2. OneToOne(<< >>)
      BY DEF OneToOne
    <3>3. run'[r].pc = "send" /\ run'[r].got = << >> /\ run'[r].locs = AllSites(r)'
      BY <1>0, <1>2, <1>4, <1>6, <2>1, <3>1 DEF Cursor
    <3> QED BY <3>1, <3>2, <3>3 DEF Cursor
  <2>4. \A x \in Goal(r) : Before(r, x)' <=> Before(r, x)
    <3> SUFFICES ASSUME NEW x \in Goal(r) PROVE Before(r, x)' <=> Before(r, x)
      OBVIOUS
    <3>1. PICK p \in 1..Len(source.sites) : x[1] = p
      BY <1>0, <1>6, GoalFacts
    <3>2. Len(source.sites) \in Nat
      BY <1>0, SourceType
    <3>3. ~(x[1] < 0) /\ x[1] # 0
      BY <3>1, <3>2
    <3> QED BY <1>2, <1>4, <1>6, <2>1, <3>3 DEF Before
  <2>5. Due(r)' = Due(r)
    BY <1>4, <2>4, DueKept
  <2> QED BY <1>0, <1>1, <1>2, <1>3, <1>5, <1>6, <1>8, <2>3, <2>5, QuietStep
<1>7. CASE ~Is(r, "openaq")
  <2>1. Gathered(r)
    BY <1>0, <1>7 DEF Gathering, Working
  <2>2. run'[r].pc = "fetch" /\ run'[r].got = run[r].got /\ run'[r].page = run[r].page
        /\ run'[r].missed = run[r].missed /\ run'[r].failed = run[r].failed
    BY <1>2, <1>4, <1>7
  <2>3. Gathered(r)'
    BY <1>0, <1>1, <1>4, <2>1, <2>2 DEF Gathered, Missing
  <2>4. Due(r)' = {} /\ Due(r) = {}
    BY <1>0, <1>4, <1>7, <2>2, DueNone DEF Due, Before
  <2> QED BY <1>0, <1>1, <1>2, <1>3, <1>5, <1>7, <1>8, <2>3, <2>4, QuietStep
<1> QED BY <1>6, <1>7

LEMMA RetryStep == ASSUME IngestionInv, NEW r \in Runs, Retry(r) PROVE RunInv(r)'
<1>0. TypeOK /\ run[r] \in Process /\ Judged(r) /\ Gathering(r)
  BY RunType DEF IngestionInv, RunInv
<1>1. /\ UNCHANGED << source, topic, dropped, ledger, booked >> /\ run[r].pc = "fetch"
      /\ Is(r, "openaq")
  BY DEF Retry
<1> DEFINE k == run[r].tries + 1
           s == [run[r] EXCEPT !.tries = k]
<1>2. k \in Nat
  BY <1>0 DEF Process
<1>3. Raise(r, s) \/ Set(r, s)
  BY DEF Retry
<1> HIDE DEF k
<1>4. /\ s \in Process /\ s.queue = run[r].queue /\ s.sent = run[r].sent
      /\ s.kind = run[r].kind /\ s.got = run[r].got /\ s.pc = "fetch"
      /\ s.page = run[r].page /\ s.par = run[r].par
      /\ s.loc = run[r].loc /\ s.sen = run[r].sen /\ s.locs = run[r].locs
  BY <1>0, <1>1, <1>2 DEF Process
<1> HIDE DEF s
<1>5. CASE Raise(r, s)
  <2>1. PICK t : /\ Set(r, t) /\ t.queue = run[r].queue /\ t.sent = run[r].sent
                 /\ t.kind = run[r].kind
                 /\ t.pc = IF Books(r) THEN "failing" ELSE "exit"
    BY <1>4, <1>5, RaiseFacts
  <2>2. ledger[r] \in {"absent", "running"}
    BY <1>0, <1>1 DEF Judged
  <2> QED BY <1>1, <2>1, <2>2, RaiseKeeps DEF Silent
<1>6. CASE Set(r, s)
  <2>1. Silent(r, s)
    BY <1>1, <1>4, <1>6 DEF Silent
  <2>2. run'[r] = s /\ Goal(r)' = Goal(r) /\ \A j : Is(r, j)' <=> Is(r, j)
    <3>1. ~Is(r, "wind")
      BY <1>1 DEF Is
    <3> QED BY <2>1, <3>1, SilentKeeps
  <2>3. Cursor(r)
    BY <1>0, <1>1 DEF Gathering, Working
  <2>4. Cursor(r)'
    <3>1. /\ Placed(r)' /\ AllSites(r)' = AllSites(r) /\ (AtSensor(r)' <=> AtSensor(r))
          /\ Here(r)' = Here(r) /\ Len(Sites(run[r].par))' = Len(Sites(run[r].par))
      BY <1>1, <1>4, <2>2, <2>3, SameSource DEF Cursor, Placed, AllSites, AtSensor, Here
    <3> QED BY <1>1, <1>4, <2>2, <2>3, <3>1 DEF Cursor
  <2>5. Due(r)' = Due(r)
    <3>1. \A x : Before(r, x)' <=> Before(r, x)
      BY <1>1, <1>4, <2>2 DEF Before
    <3> QED BY <2>2, <3>1 DEF Due
  <2> QED BY <1>1, <1>4, <2>1, <2>4, <2>5, QuietStep
<1> QED BY <1>3, <1>5, <1>6

LEMMA FetchAllStep == ASSUME IngestionInv, NEW r \in Runs, FetchAll(r) PROVE RunInv(r)'
<1>0. TypeOK /\ run[r] \in Process /\ source.total \in Nat
  BY RunType, SourceType DEF IngestionInv
<1>1. UNCHANGED << source, topic, dropped, ledger, booked >> /\ run[r].pc = "fetch"
  BY DEF FetchAll
<1>2. PICK s, g : /\ Set(r, s) /\ s.queue = run[r].queue /\ s.sent = run[r].sent
                  /\ s.kind = run[r].kind /\ s.got = g /\ s.pc = "send"
                  /\ OneToOne(g)
                  /\ \/ Is(r, "firms") /\ Range(g) = 1..source.total
                     \/ Is(r, "grid") /\ Range(g) = {1}
  <2>1. CASE Is(r, "firms")
    <3> DEFINE T == source.total
               g == All(T)
               s == [run[r] EXCEPT !.pc = "send", !.got = g, !.fetched = T]
    <3>1. Set(r, s)
      BY <2>1 DEF FetchAll, Is
    <3>2. OneToOne(g) /\ Range(g) = 1..source.total
      BY <1>0, AllFacts
    <3> HIDE DEF g, T
    <3>3. /\ s.queue = run[r].queue /\ s.sent = run[r].sent
          /\ s.kind = run[r].kind /\ s.got = g /\ s.pc = "send"
      BY <1>0 DEF Process
    <3> HIDE DEF s
    <3> QED BY <2>1, <3>1, <3>2, <3>3
  <2>2. CASE Is(r, "grid")
    <3> DEFINE g == << 1 >>
               s == [run[r] EXCEPT !.pc = "send", !.got = g]
    <3>1. Set(r, s)
      BY <2>2 DEF FetchAll, Is
    <3>2. OneToOne(g) /\ Range(g) = {1}
      BY DEF OneToOne, Range
    <3> HIDE DEF g
    <3>3. /\ s.queue = run[r].queue /\ s.sent = run[r].sent
          /\ s.kind = run[r].kind /\ s.got = g /\ s.pc = "send"
      BY <1>0 DEF Process
    <3> HIDE DEF s
    <3> QED BY <2>2, <3>1, <3>2, <3>3
  <2> QED BY <2>1, <2>2 DEF FetchAll
<1>3. ~Is(r, "openaq") /\ ~Is(r, "wind")
  BY <1>2 DEF Is
<1>4. Silent(r, s)
  BY <1>1, <1>2 DEF Silent
<1>5. run'[r] = s /\ Goal(r)' = Goal(r) /\ \A k : Is(r, k)' <=> Is(r, k)
  BY <1>3, <1>4, SilentKeeps
<1>6. /\ \A n : n \in Range(g) <=> << n >> \in Goal(r)
      /\ \A x \in Goal(r) : \E m \in Nat : x = << m >>
  <2>1. CASE Is(r, "firms")
    <3>1. \A n : << n >> \in Goal(r) <=> n \in 1..source.total
      BY <1>0, <1>3, <2>1, PlainGoal DEF Is
    <3>2. Range(g) = 1..source.total
      BY <1>2, <2>1 DEF Is
    <3> QED BY <1>0, <1>3, <3>1, <3>2, PlainGoal
  <2>2. CASE Is(r, "grid")
    <3>1. \A n : << n >> \in Goal(r) <=> n = 1
      BY <1>0, <1>3, <2>2, PlainGoal DEF Is
    <3>2. Range(g) = {1}
      BY <1>2, <2>2 DEF Is
    <3> QED BY <1>0, <1>3, <3>1, <3>2, PlainGoal
  <2> QED BY <1>2, <2>1, <2>2
<1>7. Gathered(r)'
  BY <1>2, <1>3, <1>5, <1>6 DEF Gathered
<1>8. Due(r)' = {} /\ Due(r) = {}
  <2>1. ASSUME NEW x \in Goal(r) PROVE x[1] \in Range(g)
    <3>1. PICK m \in Nat : x = << m >>
      BY <1>6
    <3> QED BY <1>6, <3>1
  <2>2. ASSUME NEW x \in Goal(r) PROVE ~Before(r, x)'
    BY <1>2, <1>3, <1>5, <2>1 DEF Before
  <2>3. Due(r)' = {}
    BY <1>5, <2>2 DEF Due
  <2> QED BY <1>1, <1>3, <2>3, DueNone
<1> QED BY <1>1, <1>2, <1>3, <1>4, <1>7, <1>8, QuietStep

LEMMA StationStep == ASSUME IngestionInv, NEW r \in Runs, Station(r) PROVE RunInv(r)'
<1>0. /\ TypeOK /\ run[r] \in Process /\ source.total \in Nat
      /\ run[r].got \in Seq(Nat) /\ run[r].missed \in SUBSET Nat /\ run[r].page \in Nat
      /\ run[r].failed \in Nat
  BY RunType, SourceType DEF IngestionInv
<1>1. /\ UNCHANGED << source, topic, dropped, ledger, booked >>
      /\ run[r].pc = "fetch" /\ Is(r, "wind") /\ ~Is(r, "openaq")
  BY DEF Station, Is
<1> DEFINE n == run[r].page
           T == source.total
           a == run[r].got
           F == run[r].failed
           M == run[r].missed
           k == n + 1
           f == F + 1
           t == run[r].fetched + 1
           g == Append(a, n)
           N == M \cup {n}
           sA == [run[r] EXCEPT !.pc = "send"]
           sB == [run[r] EXCEPT !.page = k, !.got = g, !.fetched = t]
           sC == [run[r] EXCEPT !.page = k, !.failed = f, !.missed = N]
<1>2. \/ n > T /\ Set(r, sA)
      \/ n <= T /\ Set(r, sB)
      \/ n <= T /\ Set(r, sC)
  BY DEF Station
<1>3. /\ OneToOne(a) /\ IsFiniteSet(M) /\ Cardinality(M) = F
      /\ n >= 1 /\ n <= T + 1 /\ Range(a) = (1..(n - 1)) \ M /\ M \subseteq 1..(n - 1)
  BY <1>1 DEF IngestionInv, RunInv, Gathering, Working, Gathered, Missing
<1>4. n \in Nat /\ T \in Nat /\ F \in Nat /\ a \in Seq(Nat) /\ M \in SUBSET Nat
  BY <1>0
<1>5. /\ sA.queue = run[r].queue /\ sA.sent = run[r].sent /\ sA.kind = run[r].kind
      /\ sA.got = a /\ sA.pc = "send" /\ sA.page = n /\ sA.failed = F /\ sA.missed = M
  BY <1>0 DEF Process
<1>6. /\ sB.queue = run[r].queue /\ sB.sent = run[r].sent /\ sB.kind = run[r].kind
      /\ sB.got = g /\ sB.pc = "fetch" /\ sB.page = k /\ sB.failed = F /\ sB.missed = M
  <2> HIDE DEF k, g, t
  <2> QED BY <1>0, <1>1 DEF Process
<1>7. /\ sC.queue = run[r].queue /\ sC.sent = run[r].sent /\ sC.kind = run[r].kind
      /\ sC.got = a /\ sC.pc = "fetch" /\ sC.page = k /\ sC.failed = f /\ sC.missed = N
  <2> HIDE DEF k, f, N
  <2> QED BY <1>0, <1>1 DEF Process
<1> HIDE DEF sA, sB, sC, k, f, t, g, N, n, T, a, F, M
<1>13. PICK s \in {sA, sB, sC} : Set(r, s) /\ (s = sA => n > T) /\ (s # sA => n <= T)
  <2>1. sA # sB /\ sA # sC
    BY <1>5, <1>6, <1>7
  <2> QED BY <1>2, <2>1
<1>8. Silent(r, s)
  BY <1>1, <1>5, <1>6, <1>7, <1>13 DEF Silent
<1>9. /\ run'[r] = s /\ (\A j : Is(r, j)' <=> Is(r, j))
      /\ s.missed = run[r].missed => Goal(r)' = Goal(r)
  BY <1>8, SilentKeeps
<1>10. Due(r) = {}
  BY <1>1, DueNone
<1>11. CASE s = sA
  <2>1. n - 1 = T
    BY <1>3, <1>4, <1>11, <1>13
  <2>2. Goal(r)' = Goal(r)
    BY <1>5, <1>9, <1>11 DEF M
  <2>3. \A m : << m >> \in Goal(r) <=> m \in 1..T /\ m \notin M
    BY <1>0, <1>1, PlainGoal DEF Is, T, M
  <2>4. \A m : m \in Range(a) <=> << m >> \in Goal(r)
    BY <1>3, <2>1, <2>3
  <2>5. Gathered(r)'
    <3>1. run'[r].got = a /\ run'[r].missed = M /\ run'[r].failed = F /\ run'[r].pc = "send"
      BY <1>5, <1>9, <1>11
    <3> QED BY <1>3, <2>2, <2>4, <3>1 DEF Gathered, Missing
  <2>6. Due(r)' = {}
    <3>1. ASSUME NEW x \in Goal(r) PROVE x[1] \in Range(a)
      <4>1. PICK m \in Nat : x = << m >>
        BY <1>0, <1>1, PlainGoal
      <4> QED BY <2>4, <4>1
    <3>2. ASSUME NEW x \in Goal(r) PROVE ~Before(r, x)'
      BY <1>1, <1>5, <1>9, <1>11, <3>1 DEF Before
    <3> QED BY <2>2, <3>2 DEF Due
  <2> QED BY <1>1, <1>5, <1>8, <1>10, <1>11, <2>5, <2>6, QuietStep
<1>12. CASE s # sA
  <2>1. s.pc = "fetch" /\ s.page = k /\ n <= T
    BY <1>6, <1>7, <1>13, <1>12
  <2>2. k \in Nat /\ k >= 1 /\ k <= T + 1 /\ k - 1 = n
    BY <1>4, <2>1 DEF k
  <2>3. 1..n = (1..(n - 1)) \cup {n} /\ n \notin 1..(n - 1)
    BY <1>3, <1>4
  <2>4. Due(r)' = {}
    <3>1. ~Is(r, "openaq")' /\ run'[r].pc # "send"
      BY <1>1, <1>9, <2>1
    <3> QED BY <3>1 DEF Due, Before
  <2>5. CASE s = sB
    <3>1. n \notin Range(a) /\ n \notin M
      BY <1>3, <2>3
    <3>2. OneToOne(g) /\ Range(g) = Range(a) \cup {n}
      BY <1>3, <1>4, <3>1, AppendOneToOne DEF g
    <3>3. Range(g) = (1..(k - 1)) \ M /\ M \subseteq 1..(k - 1)
      BY <1>3, <2>2, <2>3, <3>1, <3>2
    <3>4. /\ run'[r].got = g /\ run'[r].missed = M /\ run'[r].failed = F
          /\ run'[r].pc = "fetch" /\ run'[r].page = k /\ source'.total = T
      BY <1>1, <1>6, <1>9, <2>5 DEF T
    <3>5. Gathered(r)'
      BY <1>1, <1>3, <1>9, <2>2, <3>2, <3>3, <3>4 DEF Gathered, Missing
    <3> QED BY <1>1, <1>8, <1>10, <2>1, <2>4, <3>5, QuietStep
  <2>6. CASE s = sC
    <3>1. n \notin M
      BY <1>3, <2>3
    <3>2. IsFiniteSet(N) /\ Cardinality(N) = F + 1
      BY <1>3, <3>1, FS_AddElement DEF N
    <3>3. Range(a) = (1..(k - 1)) \ N /\ N \subseteq 1..(k - 1)
      BY <1>3, <2>2, <2>3, <3>1 DEF N
    <3>4. /\ run'[r].got = a /\ run'[r].missed = N /\ run'[r].failed = F + 1
          /\ run'[r].pc = "fetch" /\ run'[r].page = k /\ source'.total = T
      BY <1>1, <1>7, <1>9, <2>6 DEF T, f
    <3>5. Gathered(r)'
      BY <1>1, <1>3, <1>9, <2>2, <3>2, <3>3, <3>4 DEF Gathered, Missing
    <3> QED BY <1>1, <1>8, <1>10, <2>1, <2>4, <3>5, QuietStep
  <2> QED BY <1>13, <1>12, <2>5, <2>6
<1> QED BY <1>11, <1>12


\* What an OpenAQ run still has to show when its cursor moves and nothing is
\* due of what it passes.
LEMMA CursorStep ==
  ASSUME IngestionInv, NEW r \in Runs, Is(r, "openaq"), NEW s \in Process, Set(r, s),
         UNCHANGED << source, topic, dropped, ledger, booked >>,
         run[r].pc \in {"fetch", "send"}, s.pc \in {"fetch", "send"},
         s.queue = run[r].queue, s.sent = run[r].sent, s.kind = run[r].kind,
         \A x \in Goal(r) : Before(r, x)' <=> Before(r, x),
         Cursor(r)'
  PROVE  RunInv(r)'
<1>1. Silent(r, s) /\ ~Is(r, "wind")
  BY DEF Silent, Is
<1>2. Goal(r)' = Goal(r)
  BY <1>1, SilentKeeps
<1>3. Due(r)' = Due(r)
  BY <1>2, DueKept
<1> QED BY <1>1, <1>3, QuietStep

\* Where a record of OpenAQ is, in numbers.
LEMMA PlaceOf ==
  ASSUME TypeOK, NEW r \in Runs, Is(r, "openaq"), NEW x \in Goal(r)
  PROVE  /\ x[1] \in 1..Len(source.sites)
         /\ x[2] \in 1..Upto(Len(Sites(x[1])), LocationsLimit, MaxPages)
         /\ x[3] \in 1..Len(Sensors(x[1], x[2]))
         /\ x[4] \in Seen(Len(Readings(x[1], x[2], x[3])), MeasurementsLimit)
         /\ Readings(x[1], x[2], x[3])[x[4]] = "value"
         /\ x = << x[1], x[2], x[3], x[4] >>
         /\ x[1] \in Nat /\ x[2] \in Nat /\ x[3] \in Nat /\ x[4] \in Nat
         /\ x[1] >= 1 /\ x[2] >= 1 /\ x[3] >= 1
<1>1. PICK p \in 1..Len(source.sites) :
        \E l \in Seen(Len(Sites(p)), LocationsLimit) :
          \E s \in 1..Len(Sensors(p, l)) :
            \E m \in Seen(Len(Readings(p, l, s)), MeasurementsLimit) :
              Readings(p, l, s)[m] = "value" /\ x = << p, l, s, m >>
  BY GoalFacts
<1>2. PICK l \in Seen(Len(Sites(p)), LocationsLimit) :
        \E s \in 1..Len(Sensors(p, l)) :
          \E m \in Seen(Len(Readings(p, l, s)), MeasurementsLimit) :
            Readings(p, l, s)[m] = "value" /\ x = << p, l, s, m >>
  BY <1>1
<1>3. PICK s \in 1..Len(Sensors(p, l)) :
        \E m \in Seen(Len(Readings(p, l, s)), MeasurementsLimit) :
          Readings(p, l, s)[m] = "value" /\ x = << p, l, s, m >>
  BY <1>2
<1>4. PICK m \in Seen(Len(Readings(p, l, s)), MeasurementsLimit) :
         Readings(p, l, s)[m] = "value" /\ x = << p, l, s, m >>
  BY <1>3
<1>5. x[1] = p /\ x[2] = l /\ x[3] = s /\ x[4] = m
  BY <1>4
<1>6. Len(source.sites) \in Nat /\ p \in Nat /\ p >= 1 /\ Len(Sites(p)) \in Nat
  <2>1. Len(source.sites) \in Nat
    BY SourceType
  <2>2. p \in 0..Len(source.sites)
    BY <2>1
  <2> QED BY <2>1, <2>2, SourceType
<1>7. l \in Nat /\ l >= 1 /\ l \in 0..Len(Sites(p))
  <2> DEFINE u == Upto(Len(Sites(p)), LocationsLimit, MaxPages)
  <2>1. u \in Nat /\ u <= Len(Sites(p)) /\ l \in 1..u
    BY <1>6, Bounds, UptoFacts DEF Seen
  <2> HIDE DEF u
  <2> QED BY <1>6, <2>1
<1>8. Len(Sensors(p, l)) \in Nat /\ s \in Nat /\ s >= 1 /\ Len(Readings(p, l, s)) \in Nat
  <2>1. p \in 0..Len(source.sites)
    BY <1>6
  <2>2. Len(Sensors(p, l)) \in Nat
    BY <1>7, <2>1, SourceType
  <2> QED BY <1>7, <2>1, <2>2, SourceType
<1>9. m \in Nat
  BY <1>8, Bounds, UptoFacts DEF Seen
<1>10. l \in 1..Upto(Len(Sites(p)), LocationsLimit, MaxPages)
  BY DEF Seen
<1> QED BY <1>4, <1>5, <1>6, <1>7, <1>8, <1>9, <1>10

LEMMA FetchLocationsStep ==
  ASSUME IngestionInv, NEW r \in Runs, FetchLocations(r) PROVE RunInv(r)'
<1>0. TypeOK /\ run[r] \in Process /\ ~AtSensor(r) /\ Is(r, "openaq") /\ run[r].pc = "fetch"
      /\ UNCHANGED << source, topic, dropped, ledger, booked >>
  BY RunType DEF IngestionInv, FetchLocations
<1> DEFINE n == Len(Sites(run[r].par))
           i == run[r].page
           L == LocationsLimit
           last == LastPage(n, L, i)
           t == NextPage(run[r], last)
           l == run[r].locs + Len(PageOf(n, L, i))
           s == [t EXCEPT !.locs = l]
<1>1. /\ Cursor(r) /\ n \in Nat /\ AllSites(r) = Upto(n, L, MaxPages)
      /\ AllSites(r) \in Nat /\ run[r].par \in 0..Len(source.sites)
  BY <1>0, CursorType DEF Working, AllSites
<1>2. /\ run[r].par > 0 /\ i \in 1..MaxPages /\ run[r].loc = 0 /\ run[r].got = << >>
      /\ run[r].locs = Upto(n, L, i - 1) /\ run[r].sen = 0
  <2>1. run[r].sen \in Nat
    BY <1>0, RunType
  <2> QED BY <1>0, <1>1, <2>1 DEF Cursor, AtSensor
<1>3. i \in Nat /\ i >= 1 /\ i <= MaxPages /\ MaxPages \in Nat /\ L \in Nat /\ L >= 1
  BY <1>2, Bounds
<1>4. /\ Upto(n, L, i) \in Nat /\ Upto(n, L, i - 1) \in Nat
      /\ Len(PageOf(n, L, i)) = Upto(n, L, i) - Upto(n, L, i - 1)
  BY <1>1, <1>3, PageFacts
<1>5. l = Upto(n, L, i)
  BY <1>2, <1>4
<1>6. Set(r, s)
  BY DEF FetchLocations, NextPage
<1>7. last \in BOOLEAN
  BY DEF LastPage
<1>8. /\ t \in Process /\ t.page = i + 1 /\ t.got = run[r].got /\ t.sent = run[r].sent
      /\ t.pc = (IF last THEN "send" ELSE "fetch") /\ t.kind = run[r].kind
      /\ t.par = run[r].par /\ t.loc = run[r].loc /\ t.sen = run[r].sen
      /\ t.queue = run[r].queue /\ t.missed = run[r].missed
  <2> HIDE DEF last
  <2> QED BY <1>0, <1>7, NextPageFacts
<1>9. (last => Upto(n, L, i) = AllSites(r)) /\ (~last => i + 1 <= MaxPages)
  BY <1>1, <1>3, LastPageFacts
<1>10. Upto(n, L, i) <= AllSites(r)
  <2>1. Upto(n, L, i) <= Upto(n, L, MaxPages)
    BY <1>1, <1>3, UptoMonotone
  <2> QED BY <1>1, <2>1
<1> HIDE DEF n, l, t, last
<1>11. /\ s \in Process /\ s.page = i + 1 /\ s.got = run[r].got /\ s.sent = run[r].sent
       /\ s.pc = (IF last THEN "send" ELSE "fetch") /\ s.kind = run[r].kind
       /\ s.par = run[r].par /\ s.loc = run[r].loc /\ s.sen = run[r].sen /\ s.locs = l
       /\ s.queue = run[r].queue /\ s.missed = run[r].missed
  BY <1>4, <1>5, <1>8 DEF Process
<1> HIDE DEF s
<1>12. run'[r] = s
  BY <1>0, <1>6 DEF Set, TypeOK
<1>13. ASSUME NEW x \in Goal(r) PROVE Before(r, x)' <=> Before(r, x)
  <2>1. x[2] >= 1 /\ x[3] >= 1 /\ x[2] \in Nat /\ x[3] \in Nat
    BY <1>0, PlaceOf
  <2>2. /\ run'[r].par = run[r].par /\ run'[r].loc = 0 /\ run'[r].sen = 0
        /\ Is(r, "openaq")'
    BY <1>0, <1>2, <1>11, <1>12 DEF Is
  <2> QED BY <1>0, <1>2, <2>1, <2>2 DEF Before
<1>14. Cursor(r)'
  <2>1. /\ n' = n /\ AllSites(r)' = AllSites(r) /\ ~AtSensor(r)'
    BY <1>0, <1>2, <1>11, <1>12, SameSource DEF AllSites, AtSensor, n
  <2>2. Placed(r)'
    <3>1. run'[r].sen = 0 /\ run'[r].loc = 0 /\ run'[r].par = run[r].par
      BY <1>2, <1>11, <1>12
    <3>2. run'[r].locs \in 0..AllSites(r)'
      BY <1>1, <1>4, <1>5, <1>10, <1>11, <1>12, <2>1
    <3>4. run'[r].par \in 0..Len(source'.sites) /\ 0 \in 0..run'[r].locs
      BY <1>0, <1>1, <1>4, <1>5, <1>11, <1>12, <3>1
    <3>5. Sensors(run[r].par, run[r].loc)' = Sensors(run[r].par, 0)
      BY <1>0, <3>1, SameSource
    <3>6. Len(Sensors(run[r].par, 0)) = 0
      BY <1>0, SourceType, EmptySeq
    <3> QED BY <3>1, <3>2, <3>4, <3>5, <3>6 DEF Placed
  <2>3. OneToOne(<< >>)
    BY DEF OneToOne
  <2>4. CASE last
    <3>1. run'[r].pc = "send" /\ run'[r].got = << >> /\ run'[r].locs = AllSites(r)'
      BY <1>2, <1>5, <1>9, <1>11, <1>12, <2>1, <2>4
    <3> QED BY <2>1, <2>2, <2>3, <3>1 DEF Cursor
  <2>5. CASE ~last
    <3>1. /\ run'[r].pc = "fetch" /\ run'[r].got = << >> /\ run'[r].par > 0
          /\ run'[r].page = i + 1 /\ run'[r].loc = 0
          /\ run'[r].locs = Upto(n', L, i)
      BY <1>2, <1>5, <1>11, <1>12, <2>1, <2>5
    <3>2. i + 1 \in 1..MaxPages /\ i + 1 - 1 = i
      BY <1>3, <1>9, <2>5
    <3>3. run'[r].page - 1 = i
      <4> HIDE DEF i
      <4> QED BY <1>3, <3>1
    <3>4. run'[r].locs = Upto(Len(Sites(run[r].par))', L, run'[r].page - 1)
      BY <3>1, <3>3 DEF n
    <3>5. run'[r].page \in 1..MaxPages /\ run'[r].pc # "send" /\ run'[r].pc # "new"
      BY <3>1, <3>2
    <3> HIDE DEF i
    <3> QED BY <2>1, <2>2, <3>1, <3>4, <3>5 DEF Cursor
  <2> QED BY <2>4, <2>5
<1> QED BY <1>0, <1>6, <1>11, <1>13, <1>14, CursorStep

\* Behind the pages so far comes the next one.
LEMMA GotGrows ==
  ASSUME NEW n \in Nat, NEW L \in Nat, L >= 1, NEW i \in Nat, i >= 1, NEW a \in Seq(Nat),
         Len(a) = Upto(n, L, i - 1), Counting(a)
  PROVE  LET b == a \o PageOf(n, L, i)
         IN  /\ b \in Seq(Nat) /\ Len(b) = Upto(n, L, i)
             /\ Counting(b) /\ OneToOne(b) /\ Range(b) = 1..Upto(n, L, i)
<1> DEFINE c == PageOf(n, L, i)
           b == a \o c
           u == Upto(n, L, i)
           v == Upto(n, L, i - 1)
<1>1. /\ c \in Seq(Nat) /\ u \in Nat /\ v \in Nat /\ v <= u /\ Len(c) = u - v
      /\ \A j \in 1..Len(c) : c[j] = v + j
  BY PageFacts
<1> HIDE DEF c, u, v
<1>2. /\ b \in Seq(Nat) /\ Len(b) = Len(a) + Len(c)
      /\ \A j \in 1..(Len(a) + Len(c)) : b[j] = IF j <= Len(a) THEN a[j] ELSE c[j - Len(a)]
  <2>1. /\ a \o c \in Seq(Nat) /\ Len(a \o c) = Len(a) + Len(c)
        /\ \A j \in 1..(Len(a) + Len(c)) :
             (a \o c)[j] = IF j <= Len(a) THEN a[j] ELSE c[j - Len(a)]
    BY <1>1, ConcatProperties
  <2> QED BY <2>1
<1>3. Len(a) = v /\ DOMAIN a = 1..v /\ Len(b) = u /\ DOMAIN b = 1..u
  BY <1>1, <1>2, LenProperties DEF v
<1> HIDE DEF b
<1>4. ASSUME NEW j \in DOMAIN b PROVE b[j] = j
  <2>1. j \in 1..u /\ j \in Nat /\ j >= 1 /\ j <= u
    BY <1>1, <1>3
  <2>2. CASE j <= v
    <3>1. j \in DOMAIN a /\ j \in 1..(Len(a) + Len(c))
      BY <1>1, <1>3, <2>1, <2>2
    <3>2. a[j] = j
      BY <3>1 DEF Counting
    <3> QED BY <1>2, <1>3, <2>2, <3>1, <3>2
  <2>3. CASE ~(j <= v)
    <3>1. j - v \in 1..Len(c) /\ j \in 1..(Len(a) + Len(c)) /\ v + (j - v) = j
      BY <1>1, <1>3, <2>1, <2>3
    <3> QED BY <1>1, <1>2, <1>3, <2>3, <3>1
  <2> QED BY <2>2, <2>3
<1>5. OneToOne(b)
  BY <1>4 DEF OneToOne
<1>6. Range(b) = 1..u
  <2>1. Range(b) = {b[j] : j \in 1..u}
    BY <1>3 DEF Range
  <2>2. \A j \in 1..u : b[j] = j
    BY <1>3, <1>4
  <2> QED BY <2>1, <2>2
<1> QED BY <1>2, <1>3, <1>4, <1>5, <1>6 DEF b, c, u, Counting

LEMMA FetchMeasurementsStep ==
  ASSUME IngestionInv, NEW r \in Runs, FetchMeasurements(r) PROVE RunInv(r)'
<1>0. TypeOK /\ run[r] \in Process /\ AtSensor(r) /\ Is(r, "openaq") /\ run[r].pc = "fetch"
      /\ UNCHANGED << source, topic, dropped, ledger, booked >>
  BY RunType DEF IngestionInv, FetchMeasurements
<1> DEFINE n == Here(r)
           i == run[r].page
           L == MeasurementsLimit
           last == LastPage(n, L, i)
           t == NextPage(run[r], last)
           a == run[r].got
           g == a \o PageOf(n, L, i)
           s == [t EXCEPT !.got = g]
<1>1. /\ Cursor(r) /\ n \in Nat
  BY <1>0, CursorType DEF Working
<1>2. /\ run[r].par > 0 /\ i \in 1..MaxPages /\ run[r].locs = AllSites(r)
      /\ Len(run[r].got) = Upto(n, L, i - 1) /\ Counting(run[r].got)
  BY <1>0, <1>1 DEF Cursor
<1>3. i \in Nat /\ i >= 1 /\ i <= MaxPages /\ MaxPages \in Nat /\ L \in Nat /\ L >= 1
  BY <1>2, Bounds
<1>4. /\ g \in Seq(Nat) /\ Len(g) = Upto(n, L, i) /\ OneToOne(g) /\ Range(g) = 1..Upto(n, L, i)
      /\ Counting(g)
  <2>1. run[r].got \in Seq(Nat)
    BY <1>0, RunType
  <2>2. /\ a \in Seq(Nat) /\ n \in Nat
        /\ Len(a) = Upto(n, L, i - 1) /\ Counting(a)
    BY <1>1, <1>2, <2>1
  <2>3. i \in Nat /\ i >= 1 /\ L \in Nat /\ L >= 1
    BY <1>3
  <2> HIDE DEF n, a, i, L
  <2> QED BY <2>2, <2>3, GotGrows
<1>6. Set(r, s)
  BY DEF FetchMeasurements, NextPage, Here
<1>7. last \in BOOLEAN
  BY DEF LastPage
<1>8. /\ t \in Process /\ t.page = i + 1 /\ t.locs = run[r].locs /\ t.sent = run[r].sent
      /\ t.pc = (IF last THEN "send" ELSE "fetch") /\ t.kind = run[r].kind
      /\ t.par = run[r].par /\ t.loc = run[r].loc /\ t.sen = run[r].sen
      /\ t.queue = run[r].queue /\ t.missed = run[r].missed
  <2> HIDE DEF last
  <2> QED BY <1>0, <1>7, NextPageFacts
<1>9. (last => Upto(n, L, i) = Upto(n, L, MaxPages)) /\ (~last => i + 1 <= MaxPages)
  BY <1>1, <1>3, LastPageFacts
<1> HIDE DEF n, a, g, t, last
<1>11. /\ s \in Process /\ s.page = i + 1 /\ s.got = g /\ s.sent = run[r].sent
       /\ s.pc = (IF last THEN "send" ELSE "fetch") /\ s.kind = run[r].kind
       /\ s.par = run[r].par /\ s.loc = run[r].loc /\ s.sen = run[r].sen
       /\ s.locs = run[r].locs
       /\ s.queue = run[r].queue /\ s.missed = run[r].missed
  BY <1>4, <1>8 DEF Process
<1> HIDE DEF s
<1>12. run'[r] = s
  BY <1>0, <1>6 DEF Set, TypeOK
<1>5. run'[r].par = run[r].par /\ run'[r].loc = run[r].loc /\ run'[r].sen = run[r].sen
  BY <1>11, <1>12
<1>13. ASSUME NEW x \in Goal(r) PROVE Before(r, x)' <=> Before(r, x)
  <2>1. Is(r, "openaq")'
    BY <1>0, <1>11, <1>12 DEF Is
  <2>2. ASSUME x[1] = run[r].par, x[2] = run[r].loc, x[3] = run[r].sen, last
        PROVE  x[4] \in Range(run'[r].got)
    <3>1. x[4] \in Seen(n, L)
      BY <1>0, <2>2, PlaceOf DEF n, Here
    <3> QED BY <1>4, <1>9, <1>11, <1>12, <2>2, <3>1 DEF Seen
  <2>3. ~last => run'[r].pc # "send"
    BY <1>11, <1>12
  <2> QED BY <1>0, <1>5, <2>1, <2>2, <2>3 DEF Before
<1>14. Cursor(r)'
  <2>1. /\ n' = n /\ AllSites(r)' = AllSites(r) /\ AtSensor(r)' /\ Here(r)' = n
        /\ Here(r) = n
    BY <1>0, <1>5, SameSource DEF AllSites, AtSensor, n, Here
  <2>2. Placed(r)'
    BY <1>0, <1>1, <1>5, <1>11, <1>12, <2>1, SameSource DEF Placed, Cursor
  <2>3. run'[r].locs = AllSites(r)'
    BY <1>2, <1>11, <1>12, <2>1
  <2>4. CASE last
    <3>1. run'[r].pc = "send" /\ OneToOne(run'[r].got) /\ Range(run'[r].got) = 1..Upto(n, L, MaxPages)
      BY <1>4, <1>9, <1>11, <1>12, <2>4
    <3>2. Range(run'[r].got) \subseteq Seen(Here(r)', L)
      BY <2>1, <3>1 DEF Seen
    <3> QED BY <2>1, <2>2, <2>3, <3>1, <3>2 DEF Cursor, Seen
  <2>5. CASE ~last
    <3>1. /\ run'[r].pc = "fetch" /\ run'[r].got = g /\ run'[r].par > 0
          /\ run'[r].page = i + 1
      BY <1>2, <1>11, <1>12, <2>5
    <3>2. i + 1 \in 1..MaxPages /\ i + 1 - 1 = i
      BY <1>3, <1>9, <2>5
    <3>3. Len(run'[r].got) = Upto(Here(r)', L, run'[r].page - 1)
      <4>1. run'[r].page - 1 = i /\ Len(run'[r].got) = Upto(n, L, i)
        <5> HIDE DEF i
        <5> QED BY <1>3, <1>4, <3>1
      <4> QED BY <2>1, <4>1
    <3> QED BY <1>4, <2>1, <2>2, <2>3, <3>1, <3>2, <3>3 DEF Cursor
  <2> QED BY <2>4, <2>5
<1> QED BY <1>0, <1>6, <1>11, <1>13, <1>14, CursorStep

LEMMA NextSensorStep ==
  ASSUME IngestionInv, NEW r \in Runs, NextSensor(r) PROVE RunInv(r)'
<1>0. TypeOK /\ run[r] \in Process /\ Is(r, "openaq") /\ run[r].pc = "send"
      /\ run[r].got = << >> /\ ~SensorsDone(r)
      /\ UNCHANGED << source, topic, dropped, ledger, booked >>
  BY RunType DEF IngestionInv, NextSensor, AllSent
<1> DEFINE k == run[r].sen + 1
           s == [run[r] EXCEPT !.sen = k, !.page = 1, !.pc = "fetch"]
<1>1. /\ Cursor(r) /\ Placed(r) /\ run[r].locs = AllSites(r)
      /\ run[r].sen \in 0..Len(Sensors(run[r].par, run[r].loc))
      /\ Len(Sensors(run[r].par, run[r].loc)) \in Nat
  BY <1>0, CursorType DEF Working, Cursor
<1>2. k \in 1..Len(Sensors(run[r].par, run[r].loc)) /\ k \in Nat /\ k # 0
      /\ run[r].sen \in Nat /\ k = run[r].sen + 1
  BY <1>0, <1>1 DEF SensorsDone
<1>3. Set(r, s)
  BY DEF NextSensor
<1> HIDE DEF k
<1>4. /\ s \in Process /\ s.page = 1 /\ s.got = << >> /\ s.sent = run[r].sent
      /\ s.pc = "fetch" /\ s.kind = run[r].kind /\ s.par = run[r].par
      /\ s.loc = run[r].loc /\ s.sen = k /\ s.locs = run[r].locs
      /\ s.queue = run[r].queue
  BY <1>0, <1>2 DEF Process
<1> HIDE DEF s
<1>5. run'[r] = s
  BY <1>0, <1>3 DEF Set, TypeOK
<1>6. ASSUME NEW x \in Goal(r) PROVE Before(r, x)' <=> Before(r, x)
  <2>1. Is(r, "openaq")'
    BY <1>0, <1>4, <1>5 DEF Is
  <2>2. x[3] \in Nat
    BY <1>0, PlaceOf
  <2>3. x[3] < k <=> x[3] < run[r].sen \/ x[3] = run[r].sen
    BY <1>2, <2>2
  <2>4. Range(run[r].got) = {}
    BY <1>0 DEF Range
  <2>5. /\ run'[r].par = run[r].par /\ run'[r].loc = run[r].loc /\ run'[r].sen = k
        /\ run'[r].pc = "fetch"
    BY <1>4, <1>5
  <2> QED BY <1>0, <2>1, <2>3, <2>4, <2>5 DEF Before
<1>7. Cursor(r)'
  <2>1. /\ AllSites(r)' = AllSites(r) /\ AtSensor(r)'
    BY <1>0, <1>2, <1>4, <1>5, SameSource DEF AllSites, AtSensor
  <2>2. Placed(r)'
    <3>1. run'[r].sen \in 0..Len(Sensors(run[r].par, run[r].loc))
      BY <1>1, <1>2, <1>4, <1>5
    <3> QED BY <1>0, <1>1, <1>4, <1>5, <2>1, <3>1, SameSource DEF Placed
  <2>3. run[r].par > 0
    <3>1. run[r].par \in Nat
      BY <1>0, RunType
    <3>2. run[r].par # 0
      <4>1. run[r].par = 0 => AllSites(r) = 0
        BY <1>0, SourceType, EmptySeq, UptoNone, Bounds DEF AllSites
      <4>2. AllSites(r) = 0 => run[r].loc = 0
        BY <1>1 DEF Placed
      <4>3. run[r].loc = 0 => Len(Sensors(run[r].par, run[r].loc)) = 0
        BY <1>0, SourceType, EmptySeq
      <4> QED BY <1>2, <4>1, <4>2, <4>3
    <3> QED BY <3>1, <3>2
  <2>4. 1 \in 1..MaxPages
    BY Bounds
  <2>5. Len(run'[r].got) = Upto(Here(r)', MeasurementsLimit, run'[r].page - 1)
    <3>1. Here(r)' \in Nat
      <4>1. Here(r)' = Len(Readings(run[r].par, run[r].loc, k))
        BY <1>0, <1>4, <1>5, SameSource DEF Here
      <4>2. run[r].loc \in 0..Len(Sites(run[r].par)) /\ run[r].par \in 0..Len(source.sites)
        BY <1>0, CursorType DEF Working
      <4> QED BY <1>0, <1>2, <4>1, <4>2, SourceType
    <3>2. Len(run'[r].got) = 0 /\ run'[r].page = 1
      BY <1>4, <1>5, EmptySeq
    <3> QED BY <3>1, <3>2, UptoZero, Bounds
  <2>6. Counting(run'[r].got)
    BY <1>4, <1>5 DEF Counting
  <2> QED BY <1>1, <1>4, <1>5, <2>1, <2>2, <2>3, <2>4, <2>5, <2>6 DEF Cursor
<1> QED BY <1>0, <1>3, <1>4, <1>6, <1>7, CursorStep

LEMMA NextLocationStep ==
  ASSUME IngestionInv, NEW r \in Runs, NextLocation(r) PROVE RunInv(r)'
<1>0. TypeOK /\ run[r] \in Process /\ Is(r, "openaq") /\ run[r].pc = "send"
      /\ run[r].got = << >> /\ SensorsDone(r) /\ ~LocationsDone(r)
      /\ UNCHANGED << source, topic, dropped, ledger, booked >>
  BY RunType DEF IngestionInv, NextLocation, AllSent
<1> DEFINE k == run[r].loc + 1
           s == [run[r] EXCEPT !.loc = k, !.sen = 0]
<1>1. /\ Cursor(r) /\ Placed(r) /\ run[r].locs = AllSites(r)
      /\ run[r].loc \in 0..run[r].locs /\ run[r].locs \in 0..AllSites(r)
      /\ AllSites(r) \in Nat /\ AllSites(r) <= Len(Sites(run[r].par))
      /\ Len(Sites(run[r].par)) \in Nat /\ run[r].par \in 0..Len(source.sites)
  BY <1>0, CursorType DEF Working, Cursor
<1>2. k \in 1..run[r].locs /\ k \in Nat /\ k = run[r].loc + 1 /\ run[r].loc \in Nat
      /\ k \in 0..Len(Sites(run[r].par)) /\ k \in 0..run[r].locs
  BY <1>0, <1>1 DEF LocationsDone
<1>3. Set(r, s)
  BY DEF NextLocation
<1> HIDE DEF k
<1>4. /\ s \in Process /\ s.page = run[r].page /\ s.got = << >> /\ s.sent = run[r].sent
      /\ s.pc = "send" /\ s.kind = run[r].kind /\ s.par = run[r].par
      /\ s.loc = k /\ s.sen = 0 /\ s.locs = run[r].locs
      /\ s.queue = run[r].queue
  BY <1>0, <1>2 DEF Process
<1> HIDE DEF s
<1>5. run'[r] = s
  BY <1>0, <1>3 DEF Set, TypeOK
<1>6. ASSUME NEW x \in Goal(r) PROVE Before(r, x)' <=> Before(r, x)
  <2>1. Is(r, "openaq")'
    BY <1>0, <1>4, <1>5 DEF Is
  <2>2. x[2] \in Nat /\ x[3] \in Nat /\ x[3] >= 1 /\ x[3] \in 1..Len(Sensors(x[1], x[2]))
    BY <1>0, PlaceOf
  <2>3. x[2] < k <=> x[2] < run[r].loc \/ x[2] = run[r].loc
    BY <1>2, <2>2
  <2>4. Range(run[r].got) = {}
    BY <1>0 DEF Range
  <2>5. /\ run'[r].par = run[r].par /\ run'[r].loc = k /\ run'[r].sen = 0
    BY <1>4, <1>5
  <2>6. x[1] = run[r].par /\ x[2] = run[r].loc => x[3] < run[r].sen \/ x[3] = run[r].sen
    <3>1. run[r].sen = Len(Sensors(run[r].par, run[r].loc)) /\ run[r].sen \in Nat
      BY <1>0, RunType DEF SensorsDone
    <3> QED BY <2>2, <3>1
  <2>7. ~(x[3] < 0) /\ x[3] # 0
    BY <2>2
  <2> QED BY <1>0, <2>1, <2>3, <2>4, <2>5, <2>6, <2>7 DEF Before
<1>7. Cursor(r)'
  <2>1. /\ AllSites(r)' = AllSites(r) /\ ~AtSensor(r)'
    BY <1>0, <1>4, <1>5, SameSource DEF AllSites, AtSensor
  <2>2. Placed(r)'
    <3>1. 0 \in 0..Len(Sensors(run[r].par, k))
      <4>1. Len(Sensors(run[r].par, k)) \in Nat
        BY <1>0, <1>1, <1>2, SourceType
      <4> QED BY <4>1
    <3> QED BY <1>0, <1>1, <1>2, <1>4, <1>5, <2>1, <3>1, SameSource DEF Placed
  <2>3. OneToOne(<< >>)
    BY DEF OneToOne
  <2> QED BY <1>1, <1>4, <1>5, <2>1, <2>2, <2>3 DEF Cursor
<1> QED BY <1>0, <1>3, <1>4, <1>6, <1>7, CursorStep

LEMMA NextParameterStep ==
  ASSUME IngestionInv, NEW r \in Runs, NextParameter(r) PROVE RunInv(r)'
<1>0. TypeOK /\ run[r] \in Process /\ Is(r, "openaq") /\ run[r].pc = "send"
      /\ run[r].got = << >> /\ LocationsDone(r) /\ run[r].par < Len(source.sites)
      /\ UNCHANGED << source, topic, dropped, ledger, booked >>
  BY RunType DEF IngestionInv, NextParameter, AllSent
<1>8. PICK k \in Nat : k = run[r].par + 1
  BY <1>0, RunType
<1> DEFINE s == [run[r] EXCEPT !.par = k, !.loc = 0, !.sen = 0, !.locs = 0,
                               !.page = 1, !.pc = "fetch"]
<1>1. /\ Cursor(r) /\ run[r].locs = AllSites(r) /\ run[r].par \in 0..Len(source.sites)
      /\ Len(source.sites) \in Nat
  BY <1>0, CursorType, SourceType DEF Working, Cursor
<1>2. k \in 1..Len(source.sites) /\ k \in Nat /\ k > 0 /\ k = run[r].par + 1
      /\ run[r].par \in Nat /\ k \in 0..Len(source.sites)
  BY <1>0, <1>1, <1>8
<1>3. Set(r, s)
  BY <1>8 DEF NextParameter
<1>4. /\ s \in Process /\ s.page = 1 /\ s.got = << >> /\ s.sent = run[r].sent
      /\ s.pc = "fetch" /\ s.kind = run[r].kind /\ s.par = k
      /\ s.loc = 0 /\ s.sen = 0 /\ s.locs = 0 /\ s.queue = run[r].queue
  BY <1>0, <1>2 DEF Process
<1> HIDE DEF s
<1>5. run'[r] = s
  BY <1>0, <1>3 DEF Set, TypeOK
<1>6. ASSUME NEW x \in Goal(r) PROVE Before(r, x)' <=> Before(r, x)
  <2>1. Is(r, "openaq")'
    BY <1>0, <1>4, <1>5 DEF Is
  <2>2. /\ x[1] \in Nat /\ x[2] \in Nat /\ x[3] \in Nat /\ x[2] >= 1 /\ x[3] >= 1
        /\ x[2] \in 1..Upto(Len(Sites(x[1])), LocationsLimit, MaxPages)
        /\ x[3] \in 1..Len(Sensors(x[1], x[2]))
    BY <1>0, PlaceOf
  <2>3. x[1] < k <=> x[1] < run[r].par \/ x[1] = run[r].par
    BY <1>2, <2>2
  <2>4. Range(run[r].got) = {}
    BY <1>0 DEF Range
  <2>5. /\ run'[r].par = k /\ run'[r].loc = 0 /\ run'[r].sen = 0
    BY <1>4, <1>5
  <2>6. /\ run[r].loc = AllSites(r) /\ run[r].sen = Len(Sensors(run[r].par, run[r].loc))
        /\ run[r].loc \in Nat /\ run[r].sen \in Nat
    BY <1>0, <1>1, RunType DEF LocationsDone, SensorsDone
  <2>7. x[1] = run[r].par => x[2] < run[r].loc \/ x[2] = run[r].loc
    BY <2>2, <2>6 DEF AllSites
  <2>8. x[1] = run[r].par /\ x[2] = run[r].loc => x[3] < run[r].sen \/ x[3] = run[r].sen
    BY <2>2, <2>6
  <2>9. ~(x[2] < 0) /\ x[2] # 0
    BY <2>2
  <2> QED BY <1>0, <2>1, <2>3, <2>4, <2>5, <2>7, <2>8, <2>9 DEF Before
<1>7. Cursor(r)'
  <2>1. ~AtSensor(r)'
    BY <1>4, <1>5 DEF AtSensor
  <2>2. AllSites(r)' \in Nat /\ Len(Sites(k))' \in Nat
    <3>1. Len(Sites(k)) \in Nat /\ Sites(k)' = Sites(k)
      BY <1>0, <1>2, SourceType, SameSource
    <3>2. AllSites(r)' = Upto(Len(Sites(k)), LocationsLimit, MaxPages)
      BY <1>4, <1>5, <3>1 DEF AllSites
    <3> QED BY <3>1, <3>2, UptoFacts, Bounds
  <2>3. Placed(r)'
    <3>1. Len(Sensors(k, 0))' = 0
      <4>1. Sensors(k, 0)' = << >>
        BY <1>0, SameSource, SourceType
      <4> QED BY <4>1, EmptySeq
    <3>2. 0 \in 0..AllSites(r)' /\ 0 \in 0..0
      BY <2>2
    <3> QED BY <1>0, <1>2, <1>4, <1>5, <3>1, <3>2 DEF Placed
  <2>4. 1 \in 1..MaxPages
    BY Bounds
  <2>5. 0 = Upto(Len(Sites(k))', LocationsLimit, 1 - 1)
    BY <2>2, UptoZero, Bounds
  <2>6. run'[r].locs = Upto(Len(Sites(run[r].par))', LocationsLimit, run'[r].page - 1)
    BY <1>4, <1>5, <2>5
  <2> QED BY <1>2, <1>4, <1>5, <2>1, <2>3, <2>4, <2>6 DEF Cursor
<1> QED BY <1>0, <1>3, <1>4, <1>6, <1>7, CursorStep

\* What a run looks at next is a measurement of the sensor that it is at.
LEMMA AtHead ==
  ASSUME IngestionInv, NEW r \in Runs, Sending(r)
  PROVE  /\ OneToOne(run[r].got) /\ OneToOne(Tail(run[r].got))
         /\ Head(run[r].got) \in Range(run[r].got)
         /\ Range(Tail(run[r].got)) = Range(run[r].got) \ {Head(run[r].got)}
         /\ Is(r, "openaq") => AtSensor(r)
<1>1. run[r].pc = "send" /\ run[r].got # << >> /\ run[r].got \in Seq(Nat) /\ Gathering(r)
  BY RunType DEF IngestionInv, RunInv, Sending
<1>2. OneToOne(run[r].got) /\ (Is(r, "openaq") => AtSensor(r))
  BY <1>1 DEF Gathering, Working, Cursor, Gathered
<1> QED BY <1>1, <1>2, TailOneToOne

LEMMA SkipStep == ASSUME IngestionInv, NEW r \in Runs, Skip(r) PROVE RunInv(r)'
<1>0. TypeOK /\ run[r] \in Process /\ Is(r, "openaq") /\ run[r].pc = "send"
      /\ run[r].got # << >> /\ Reading(r) = "none" /\ Sending(r)
      /\ UNCHANGED << source, topic, dropped, ledger, booked >>
  BY RunType DEF IngestionInv, Skip, Sending
<1> DEFINE h == Head(run[r].got)
           g == Tail(run[r].got)
           s == [run[r] EXCEPT !.got = g]
<1>1. Cursor(r) /\ Placed(r) /\ AtSensor(r)
  BY <1>0, CursorType, AtHead DEF Working, Cursor
<1>2. OneToOne(g) /\ Range(g) = Range(run[r].got) \ {h} /\ h \in Range(run[r].got)
  BY <1>0, AtHead
<1>3. Set(r, s)
  BY DEF Skip
<1>8. g \in Seq(Nat)
  BY <1>0, RecordType
<1>9. Readings(run[r].par, run[r].loc, run[r].sen)[h] = "none"
  BY <1>0 DEF Reading
<1> HIDE DEF g, h
<1>4. /\ s \in Process /\ s.page = run[r].page /\ s.got = g /\ s.sent = run[r].sent
      /\ s.pc = "send" /\ s.kind = run[r].kind /\ s.par = run[r].par
      /\ s.loc = run[r].loc /\ s.sen = run[r].sen /\ s.locs = run[r].locs
      /\ s.queue = run[r].queue
  BY <1>0, <1>8 DEF Process
<1> HIDE DEF s
<1>5. run'[r] = s
  BY <1>0, <1>3 DEF Set, TypeOK
<1>6. ASSUME NEW x \in Goal(r) PROVE Before(r, x)' <=> Before(r, x)
  <2>1. Is(r, "openaq")'
    BY <1>0, <1>4, <1>5 DEF Is
  <2>2. Readings(x[1], x[2], x[3])[x[4]] = "value"
    BY <1>0, PlaceOf
  <2>3. x[1] = run[r].par /\ x[2] = run[r].loc /\ x[3] = run[r].sen => x[4] # h
    BY <1>9, <2>2
  <2>4. x[4] # h => (x[4] \in Range(g) <=> x[4] \in Range(run[r].got))
    BY <1>2
  <2>5. /\ run'[r].par = run[r].par /\ run'[r].loc = run[r].loc /\ run'[r].sen = run[r].sen
        /\ run'[r].pc = "send" /\ run'[r].got = g
    BY <1>4, <1>5
  <2> QED BY <1>0, <2>1, <2>3, <2>4, <2>5 DEF Before
<1>7. Cursor(r)'
  <2>1. /\ AllSites(r)' = AllSites(r) /\ AtSensor(r)' /\ Here(r)' = Here(r)
    BY <1>0, <1>1, <1>4, <1>5, SameSource DEF AllSites, AtSensor, Here
  <2>2. Placed(r)'
    BY <1>0, <1>1, <1>4, <1>5, <2>1, SameSource DEF Placed
  <2>3. Range(run[r].got) \subseteq Seen(Here(r), MeasurementsLimit)
    BY <1>0, <1>1 DEF Cursor
  <2>4. Range(run'[r].got) \subseteq Seen(Here(r), MeasurementsLimit)'
    BY <1>2, <1>4, <1>5, <2>1, <2>3 DEF Seen
  <2> QED BY <1>0, <1>1, <1>2, <1>4, <1>5, <2>1, <2>2, <2>4 DEF Cursor
<1> QED BY <1>0, <1>3, <1>4, <1>6, <1>7, CursorStep

\* What a run sends next is due, and was not so far.
LEMMA NextIsDue ==
  ASSUME IngestionInv, NEW r \in Runs, Sending(r), Sendable(r)
  PROVE  NextRecord(r) \in Goal(r) /\ ~Before(r, NextRecord(r))
<1>0. /\ TypeOK /\ run[r].pc = "send" /\ Head(run[r].got) \in Range(run[r].got)
      /\ Gathering(r) /\ Working(r)
  BY AtHead DEF IngestionInv, RunInv, Sending, Working
<1> DEFINE h == Head(run[r].got)
           p == run[r].par
           l == run[r].loc
           n == run[r].sen
<1>1. CASE Is(r, "openaq")
  <2>1. AtSensor(r) /\ Cursor(r) /\ NextRecord(r) = << p, l, n, h >>
    BY <1>0, <1>1, AtHead DEF NextRecord, Gathering
  <2>2. /\ p \in 1..Len(source.sites) /\ l \in Seen(Len(Sites(p)), LocationsLimit)
        /\ n \in 1..Len(Sensors(p, l))
    BY <1>0, <1>1, <2>1, CursorType DEF AllSites, Seen
  <2>3. h \in Seen(Len(Readings(p, l, n)), MeasurementsLimit)
    BY <1>0, <2>1 DEF Cursor, Here
  <2>4. Readings(p, l, n)[h] = "value"
    BY <1>1 DEF Sendable, Reading
  <2>5. NextRecord(r) \in Goal(r)
    <3> DEFINE x == NextRecord(r)
    <3>1. x = << p, l, n, h >>
      BY <2>1
    <3> HIDE DEF x, p, l, n, h
    <3>2. x \in Goal(r)
      BY <1>0, <1>1, <2>2, <2>3, <2>4, <3>1, GoalFacts
    <3> QED BY <3>2 DEF x
  <2>6. ~Before(r, NextRecord(r))
    <3>1. p \in Nat /\ l \in Nat /\ n \in Nat
      BY <1>0, RunType
    <3>2. ~(p < p) /\ ~(l < l) /\ ~(n < n)
      BY <3>1
    <3> QED BY <1>0, <1>1, <2>1, <3>2 DEF Before
  <2> QED BY <2>5, <2>6
<1>2. CASE ~Is(r, "openaq")
  <2>1. NextRecord(r) = << h >> /\ Gathered(r)
    BY <1>0, <1>2 DEF NextRecord, Gathering
  <2>2. NextRecord(r) \in Goal(r)
    BY <1>0, <2>1 DEF Gathered
  <2>3. ~Before(r, NextRecord(r))
    BY <1>0, <1>2, <2>1 DEF Before
  <2> QED BY <2>2, <2>3
<1> QED BY <1>1, <1>2

LEMMA AppendBehind ==
  ASSUME NEW S, NEW t \in Seq(S), NEW q \in Seq(S), NEW e \in S
  PROVE  t \o Append(q, e) = Append(t \o q, e)
<1>1. << e >> \in Seq(S) /\ t \o q \in Seq(S)
  BY ConcatProperties
<1>2. Append(q, e) = q \o << e >> /\ Append(t \o q, e) = (t \o q) \o << e >>
  BY <1>1, AppendIsConcat
<1>3. (t \o q) \o << e >> = t \o (q \o << e >>)
  BY <1>1, ConcatAssociative
<1> QED BY <1>2, <1>3

LEMMA SendStep == ASSUME IngestionInv, NEW r \in Runs, Send(r) PROVE RunInv(r)'
<1>0. /\ TypeOK /\ run[r] \in Process /\ run[r].pc = "send" /\ run[r].got # << >>
      /\ Sending(r) /\ Sendable(r)
      /\ UNCHANGED << source, topic, dropped, ledger, booked >>
  BY RunType DEF IngestionInv, Send, Sending
<1> DEFINE h == Head(run[r].got)
           g == Tail(run[r].got)
           x == NextRecord(r)
           q == Append(run[r].queue, x)
           k == Append(run[r].sent, x)
           f == IF Is(r, "openaq") THEN run[r].fetched + 1 ELSE run[r].fetched
           s == [run[r] EXCEPT !.got = g, !.sent = k, !.queue = q, !.fetched = f]
<1>1. /\ SentSoFar(r) /\ Gathering(r) /\ Tallied(r) /\ Judged(r) /\ Working(r)
      /\ run[r].queue \in Seq(Record) /\ run[r].sent \in Seq(Record)
      /\ topic[r] \in Seq(Record)
  BY <1>0, RunType DEF IngestionInv, RunInv, Working
<1>2. /\ OneToOne(g) /\ Range(g) = Range(run[r].got) \ {h} /\ h \in Range(run[r].got)
      /\ OneToOne(run[r].got) /\ g \in Seq(Nat) /\ x \in Record
      /\ Is(r, "openaq") => AtSensor(r)
  BY <1>0, AtHead, RecordType
<1>3. x \in Goal(r) /\ x \notin Due(r)
  BY <1>0, NextIsDue DEF Due
<1>4. /\ OneToOne(run[r].sent) /\ Range(run[r].sent) = Due(r)
  BY <1>1 DEF SentSoFar
<1>5. /\ q \in Seq(Record) /\ k \in Seq(Record) /\ f \in Nat
      /\ Len(q) = Len(run[r].queue) + 1 /\ Len(k) = Len(run[r].sent) + 1
      /\ OneToOne(k) /\ Range(k) = Due(r) \cup {x}
      /\ topic[r] \o q = Append(topic[r] \o run[r].queue, x)
  <2>1. x \notin Range(run[r].sent)
    BY <1>3, <1>4
  <2> HIDE DEF x
  <2>2. /\ k \in Seq(Record) /\ Len(k) = Len(run[r].sent) + 1
        /\ OneToOne(k) /\ Range(k) = Due(r) \cup {x}
    BY <1>1, <1>2, <1>4, <2>1, AppendOneToOne
  <2>3. q \in Seq(Record) /\ Len(q) = Len(run[r].queue) + 1
    BY <1>1, <1>2, AppendProperties
  <2>4. topic[r] \o q = Append(topic[r] \o run[r].queue, x)
    <3> DEFINE a == topic[r]
               b == run[r].queue
    <3>1. a \in Seq(Record) /\ b \in Seq(Record) /\ x \in Record
      BY <1>1, <1>2
    <3> HIDE DEF a, b
    <3>2. a \o Append(b, x) = Append(a \o b, x)
      BY <3>1, AppendBehind
    <3> QED BY <3>2 DEF a, b
  <2>5. f \in Nat
    BY <1>0 DEF Process
  <2> QED BY <2>2, <2>3, <2>4, <2>5
<1>6. Set(r, s)
  BY DEF Send
<1>7. x = IF Is(r, "openaq") THEN << run[r].par, run[r].loc, run[r].sen, h >> ELSE << h >>
  BY DEF NextRecord
<1> HIDE DEF h, g, x, q, f
<1>8. k = Append(run[r].sent, x)
  OBVIOUS
<1> HIDE DEF k
<1>9. /\ s \in Process /\ s.page = run[r].page /\ s.got = g /\ s.sent = k
      /\ s.pc = "send" /\ s.kind = run[r].kind /\ s.par = run[r].par
      /\ s.loc = run[r].loc /\ s.sen = run[r].sen /\ s.locs = run[r].locs
      /\ s.queue = q /\ s.missed = run[r].missed /\ s.failed = run[r].failed
  BY <1>0, <1>2, <1>5 DEF Process
<1> HIDE DEF s
<1>10. /\ run'[r] = s /\ (\A j : Is(r, j)' <=> Is(r, j)) /\ (Books(r)' <=> Books(r))
       /\ Goal(r)' = Goal(r)
  <2>1. run'[r] = s /\ run[r].kind \in Kinds
    BY <1>0, <1>6, RunType DEF Set, TypeOK
  <2>2. (\A j : Is(r, j)' <=> Is(r, j)) /\ (Books(r)' <=> Books(r))
    BY <1>9, <2>1 DEF Is, Books
  <2>3. Goal(r)' = Goal(r)
    BY <1>0, <1>9, <2>1, SameGoal
  <2> QED BY <2>1, <2>2, <2>3
<1>11. ASSUME NEW y \in Goal(r) PROVE Before(r, y)' <=> Before(r, y) \/ y = x
  <2>1. CASE Is(r, "openaq")
    <3>1. y = << y[1], y[2], y[3], y[4] >>
      BY <1>0, <2>1, PlaceOf
    <3>2. x = << run[r].par, run[r].loc, run[r].sen, h >>
      BY <1>7, <2>1
    <3>3. y = x <=> /\ y[1] = run[r].par /\ y[2] = run[r].loc /\ y[3] = run[r].sen
                    /\ y[4] = h
      BY <3>1, <3>2
    <3>4. y[4] \notin Range(g) <=> y[4] \notin Range(run[r].got) \/ y[4] = h
      BY <1>2
    <3>5. /\ run'[r].par = run[r].par /\ run'[r].loc = run[r].loc /\ run'[r].sen = run[r].sen
          /\ run'[r].pc = "send" /\ run'[r].got = g /\ Is(r, "openaq")'
      BY <1>9, <1>10, <2>1
    <3> QED BY <1>0, <2>1, <3>3, <3>4, <3>5 DEF Before
  <2>2. CASE ~Is(r, "openaq")
    <3>1. PICK m \in Nat : y = << m >>
      BY <1>0, <2>2, PlainGoal
    <3>2. x = << h >>
      BY <1>7, <2>2
    <3>3. y[1] = m /\ (y = x <=> m = h)
      BY <3>1, <3>2
    <3>4. m \notin Range(g) <=> m \notin Range(run[r].got) \/ m = h
      BY <1>2
    <3>5. run'[r].pc = "send" /\ run'[r].got = g /\ ~Is(r, "openaq")'
      BY <1>9, <1>10, <2>2
    <3> QED BY <1>0, <2>2, <3>3, <3>4, <3>5 DEF Before
  <2> QED BY <2>1, <2>2
<1>12. SentSoFar(r)'
  <2>1. Due(r)' = Due(r) \cup {x}
    BY <1>3, <1>10, <1>11 DEF Due
  <2> QED BY <1>5, <1>9, <1>10, <2>1 DEF SentSoFar
<1>13. Gathering(r)'
  <2>1. CASE Is(r, "openaq")
    <3>1. Cursor(r) /\ Placed(r) /\ AtSensor(r)
      BY <1>1, <1>2, <2>1 DEF Gathering, Cursor
    <3>2. /\ AllSites(r)' = AllSites(r) /\ AtSensor(r)' /\ Here(r)' = Here(r)
      BY <1>0, <1>9, <1>10, <3>1, SameSource DEF AllSites, AtSensor, Here
    <3>3. Placed(r)'
      BY <1>0, <1>9, <1>10, <3>1, <3>2, SameSource DEF Placed
    <3>4. Range(run[r].got) \subseteq Seen(Here(r), MeasurementsLimit)
      BY <1>0, <3>1 DEF Cursor
    <3>5. Range(run'[r].got) \subseteq Seen(Here(r), MeasurementsLimit)'
      BY <1>2, <1>9, <1>10, <3>2, <3>4 DEF Seen
    <3>6. Cursor(r)'
      BY <1>0, <1>2, <1>9, <1>10, <3>1, <3>2, <3>3, <3>5 DEF Cursor
    <3> QED BY <1>10, <2>1, <3>6 DEF Gathering
  <2>2. CASE ~Is(r, "openaq")
    <3>1. Gathered(r)
      BY <1>1, <2>2 DEF Gathering
    <3>2. Gathered(r)'
      BY <1>0, <1>2, <1>9, <1>10, <3>1 DEF Gathered, Missing
    <3> QED BY <1>10, <2>2, <3>2 DEF Gathering
  <2> QED BY <2>1, <2>2
<1>14. Tallied(r)'
  <2>1. /\ Len(topic[r]) + Len(run[r].queue) <= Len(run[r].sent)
        /\ r \notin dropped => topic[r] \o run[r].queue = run[r].sent
    BY <1>0, <1>1 DEF Tallied
  <2>2. /\ run'[r].queue = q /\ run'[r].sent = k /\ topic' = topic /\ dropped' = dropped
    BY <1>0, <1>9, <1>10
  <2>3. Len(topic[r]) + Len(q) <= Len(k)
    <3> DEFINE a == Len(topic[r])
               b == Len(run[r].queue)
               c == Len(run[r].sent)
    <3>1. a \in Nat /\ b \in Nat /\ c \in Nat
      BY <1>1, LenProperties
    <3>2. a + b <= c /\ Len(q) = b + 1 /\ Len(k) = c + 1
      BY <1>5, <2>1
    <3> HIDE DEF a, b, c
    <3>3. a + (b + 1) <= c + 1
      BY <3>1, <3>2
    <3> QED BY <3>2, <3>3 DEF a
  <2>4. r \notin dropped => topic[r] \o q = k
    BY <1>5, <1>8, <2>1
  <2> QED BY <2>2, <2>3, <2>4 DEF Tallied
<1>15. Judged(r)'
  <2>1. ledger[r] = IF Books(r) THEN "running" ELSE "absent"
    BY <1>0, <1>1 DEF Judged
  <2> QED BY <1>0, <1>9, <1>10, <2>1 DEF Judged
<1> QED BY <1>12, <1>13, <1>14, <1>15 DEF RunInv

\* When nothing is left, everything was due.
LEMMA AllDue ==
  ASSUME IngestionInv, NEW r \in Runs, Finished(r)
  PROVE  Due(r) = Goal(r)
<1>0. /\ TypeOK /\ run[r].pc = "send" /\ run[r].got = << >> /\ Working(r)
      /\ Range(run[r].got) = {}
  BY DEF IngestionInv, Finished, AllSent, Working, Range
<1> SUFFICES ASSUME NEW x \in Goal(r) PROVE Before(r, x)
  BY DEF Due
<1>1. CASE Is(r, "openaq")
  <2>1. /\ x[1] \in Nat /\ x[2] \in Nat /\ x[3] \in Nat
        /\ x[1] \in 1..Len(source.sites)
        /\ x[2] \in 1..Upto(Len(Sites(x[1])), LocationsLimit, MaxPages)
        /\ x[3] \in 1..Len(Sensors(x[1], x[2]))
    BY <1>0, <1>1, PlaceOf
  <2>2. /\ run[r].par = Len(source.sites) /\ run[r].loc = AllSites(r)
        /\ run[r].sen = Len(Sensors(run[r].par, run[r].loc))
        /\ run[r].par \in Nat /\ run[r].loc \in Nat /\ run[r].sen \in Nat
    <3>1. Cursor(r)
      BY <1>0, <1>1, CursorType
    <3>2. run[r].locs = AllSites(r)
      BY <1>0, <3>1 DEF Cursor
    <3> QED BY <1>0, <1>1, <3>2, RunType DEF Finished, LocationsDone, SensorsDone
  <2>3. x[1] < run[r].par \/ x[1] = run[r].par
    BY <2>1, <2>2
  <2>4. x[1] = run[r].par => x[2] < run[r].loc \/ x[2] = run[r].loc
    BY <2>1, <2>2 DEF AllSites
  <2>5. x[1] = run[r].par /\ x[2] = run[r].loc => x[3] < run[r].sen \/ x[3] = run[r].sen
    BY <2>1, <2>2
  <2> QED BY <1>0, <1>1, <2>3, <2>4, <2>5 DEF Before
<1>2. CASE ~Is(r, "openaq")
  BY <1>0, <1>2 DEF Before
<1> QED BY <1>1, <1>2

\* finish_run, whether or not its answer comes back.
LEMMA VerdictStep ==
  ASSUME IngestionInv, NEW r \in Runs, Finish(r) \/ FinishRaises(r)
  PROVE  RunInv(r)'
<1>0. TypeOK /\ run[r] \in Process
  BY RunType DEF IngestionInv
<1>1. /\ UNCHANGED << source, topic, dropped >> /\ run[r].pc = "send"
      /\ Finished(r) /\ run[r].queue = << >>
      /\ (Judge(r, Verdict(r)) /\ Books(r)) \/ UNCHANGED << ledger, booked >>
  BY DEF Finish, FinishRaises, Flushed, Finished, AllSent
<1>2. PICK s : /\ Set(r, s) /\ s.queue = run[r].queue /\ s.sent = run[r].sent
               /\ s.kind = run[r].kind /\ s.missed = run[r].missed
               /\ s.pc = "exit" \/ (s.pc = "failing" /\ Books(r))
  <2>1. CASE Finish(r)
    <3> DEFINE s == [run[r] EXCEPT !.pc = "exit"]
    <3>1. /\ s.queue = run[r].queue /\ s.sent = run[r].sent /\ s.kind = run[r].kind
          /\ s.missed = run[r].missed /\ s.pc = "exit"
      BY <1>0 DEF Process
    <3>2. Set(r, s)
      BY <2>1 DEF Finish
    <3> HIDE DEF s
    <3> QED BY <3>1, <3>2
  <2>2. CASE FinishRaises(r)
    <3>1. Raise(r, run[r])
      BY <2>2 DEF FinishRaises
    <3> QED BY <1>0, <3>1, RaiseFacts
  <2> QED BY <2>1, <2>2
<1>3. Silent(r, s)
  BY <1>1, <1>2 DEF Silent
<1>4. /\ run'[r] = s /\ Tallied(r)' /\ OneToOne(run[r].sent)' /\ (Books(r)' <=> Books(r))
      /\ (\A j : Is(r, j)' <=> Is(r, j)) /\ Goal(r)' = Goal(r)
  BY <1>2, <1>3, SilentKeeps
<1>5. SentSoFar(r)' /\ Gathering(r)'
  <2>1. ~Working(r)'
    BY <1>2, <1>4 DEF Working
  <2> QED BY <1>4, <2>1 DEF SentSoFar, Gathering
<1>6. /\ ledger[r] = IF Books(r) THEN "running" ELSE "absent"
      /\ SentSoFar(r) /\ Gathering(r) /\ Working(r)
  BY <1>1 DEF IngestionInv, RunInv, Judged, Working
<1>7. CASE UNCHANGED << ledger, booked >>
  <2>1. Judged(r)'
    BY <1>2, <1>4, <1>6, <1>7 DEF Judged
  <2> QED BY <1>4, <1>5, <2>1 DEF RunInv
<1>8. CASE Judge(r, Verdict(r)) /\ Books(r)
  <2>1. ledger'[r] = Verdict(r) /\ booked'[r] = CountsOf(r)
    BY <1>0, <1>8 DEF Judge, TypeOK
  <2>2. booked'[r].published = Len(run[r].sent) /\ booked'[r].failed = run[r].failed
    BY <2>1 DEF CountsOf
  <2>3. Range(run[r].sent) = Goal(r)
    BY <1>1, <1>6, AllDue DEF SentSoFar
  <2>4. Is(r, "wind") => run[r].failed = Cardinality(run[r].missed)
    <3>1. Is(r, "wind") => Gathered(r)
      BY <1>6 DEF Gathering, Is
    <3> QED BY <3>1 DEF Gathered, Missing
  <2>5. Complete(r)'
    BY <1>2, <1>4, <2>2, <2>3, <2>4 DEF Complete
  <2>6. ledger'[r] \in {"succeeded", "failed"}
    BY <2>1 DEF Verdict
  <2>7. s.pc \in {"failing", "exit"} /\ s.queue = << >> /\ booked'[r].published = Len(s.sent)
    BY <1>1, <1>2, <2>2
  <2>8. Judged(r)'
    BY <1>4, <2>5, <2>6, <2>7 DEF Judged
  <2> QED BY <1>4, <1>5, <2>8 DEF RunInv
<1> QED BY <1>1, <1>7, <1>8

LEMMA FailedStep ==
  ASSUME IngestionInv, NEW r \in Runs, FinishFailed(r) \/ FinishFailedRaises(r)
  PROVE  RunInv(r)'
<1>0. TypeOK /\ run[r] \in Process
  BY RunType DEF IngestionInv
<1> DEFINE s == [run[r] EXCEPT !.pc = "exit"]
<1>1. /\ Set(r, s) /\ UNCHANGED << source, topic, dropped >> /\ run[r].pc = "failing"
      /\ Judge(r, "failed") \/ UNCHANGED << ledger, booked >>
  BY DEF FinishFailed, FinishFailedRaises
<1>2. /\ s.queue = run[r].queue /\ s.sent = run[r].sent /\ s.kind = run[r].kind
      /\ s.missed = run[r].missed /\ s.pc = "exit"
  BY <1>0 DEF Process
<1> HIDE DEF s
<1>3. Silent(r, s)
  BY <1>1, <1>2 DEF Silent
<1>4. /\ run'[r] = s /\ Tallied(r)' /\ OneToOne(run[r].sent)' /\ Goal(r)' = Goal(r)
      /\ \A j : Is(r, j)' <=> Is(r, j)
  BY <1>2, <1>3, SilentKeeps
<1>5. SentSoFar(r)' /\ Gathering(r)'
  <2>1. ~Working(r)'
    BY <1>2, <1>4 DEF Working
  <2> QED BY <1>4, <2>1 DEF SentSoFar, Gathering
<1>6. Judged(r)'
  <2>1. CASE Judge(r, "failed")
    <3>1. ledger'[r] = "failed" /\ booked'[r] = CountsOf(r)
      BY <1>0, <2>1 DEF Judge, TypeOK
    <3>2. booked'[r].published = Len(run[r].sent)
      BY <3>1 DEF CountsOf
    <3> QED BY <1>2, <1>4, <3>1, <3>2 DEF Judged
  <2>2. CASE UNCHANGED << ledger, booked >>
    <3>1. Judged(r)
      BY DEF IngestionInv, RunInv
    <3>2. Complete(r)' <=> Complete(r)
      BY <1>2, <1>4, <2>2 DEF Complete
    <3> QED BY <1>1, <1>2, <1>4, <2>2, <3>1, <3>2 DEF Judged
  <2> QED BY <1>1, <2>1, <2>2
<1> QED BY <1>4, <1>5, <1>6 DEF RunInv

\* A queue that is given up leaves fewer messages than counted.
LEMMA EndStep ==
  ASSUME IngestionInv, NEW r \in Runs, Exit(r) \/ Kill(r)
  PROVE  RunInv(r)'
<1>0. TypeOK /\ run[r] \in Process
  BY RunType DEF IngestionInv
<1> DEFINE s == [run[r] EXCEPT !.pc = "over", !.queue = << >>]
<1>1. /\ Set(r, s) /\ UNCHANGED << source, topic, dropped, ledger, booked >>
  BY DEF Exit, Kill
<1>2. /\ s.queue = << >> /\ s.sent = run[r].sent /\ s.kind = run[r].kind
      /\ s.missed = run[r].missed /\ s.pc = "over"
  BY <1>0 DEF Process
<1> HIDE DEF s
<1>3. /\ run'[r] = s /\ (\A j : Is(r, j)' <=> Is(r, j)) /\ Goal(r)' = Goal(r)
  <2>1. run'[r] = s /\ run[r].kind \in Kinds
    BY <1>0, <1>1, RunType DEF Set
  <2>2. \A j : Is(r, j)' <=> Is(r, j)
    BY <1>2, <2>1 DEF Is
  <2>3. Goal(r)' = Goal(r)
    BY <1>1, <1>2, <2>1, SameGoal
  <2> QED BY <2>1, <2>2, <2>3
<1>4. /\ SentSoFar(r) /\ Tallied(r) /\ Judged(r)
      /\ Len(topic[r]) \in Nat /\ Len(run[r].queue) \in Nat /\ Len(run[r].sent) \in Nat
  BY <1>0, RunType, LenProperties DEF IngestionInv, RunInv
<1>5. SentSoFar(r)' /\ Gathering(r)'
  <2>1. ~Working(r)'
    BY <1>2, <1>3 DEF Working
  <2> QED BY <1>2, <1>3, <1>4, <2>1 DEF SentSoFar, Gathering
<1>6. Tallied(r)'
  <2>1. Len(topic[r]) + 0 <= Len(run[r].sent)
    <3> DEFINE a == Len(topic[r])
               b == Len(run[r].queue)
               c == Len(run[r].sent)
    <3>1. a \in Nat /\ b \in Nat /\ c \in Nat /\ a + b <= c
      BY <1>4 DEF Tallied
    <3> HIDE DEF a, b, c
    <3>2. a + 0 <= c
      BY <3>1
    <3> QED BY <3>2 DEF a, c
  <2>2. ledger[r] = "succeeded" /\ r \notin dropped => topic[r] \o << >> = run[r].sent
    <3>1. ledger[r] = "succeeded" => run[r].queue = << >>
      BY <1>4 DEF Judged
    <3> QED BY <1>4, <3>1 DEF Tallied
  <2>3. Len(<< >>) = 0
    BY EmptySeq
  <2> QED BY <1>1, <1>2, <1>3, <2>1, <2>2, <2>3 DEF Tallied
<1>7. Judged(r)'
  <2>1. Complete(r)' <=> Complete(r)
    BY <1>1, <1>2, <1>3 DEF Complete
  <2> QED BY <1>1, <1>2, <1>3, <1>4, <2>1 DEF Judged
<1> QED BY <1>5, <1>6, <1>7 DEF RunInv

\* A message leaves the queue for the topic, or for nowhere.
LEMMA QueueStep ==
  ASSUME IngestionInv, NEW r \in Runs, Deliver(r) \/ Drop(r)
  PROVE  RunInv(r)'
<1>0. TypeOK /\ run[r] \in Process /\ topic[r] \in Seq(Record) /\ DOMAIN topic = Runs
  BY RunType DEF IngestionInv
<1> DEFINE h == Head(run[r].queue)
           q == Tail(run[r].queue)
           t == Append(topic[r], h)
           s == [run[r] EXCEPT !.queue = q]
<1>1. /\ Set(r, s) /\ UNCHANGED << source, ledger, booked >> /\ run[r].queue # << >>
      /\ \/ topic'[r] = t /\ dropped' = dropped
         \/ topic' = topic /\ dropped' = dropped \cup {r}
  BY <1>0 DEF Deliver, Drop
<1>2. /\ run[r].queue \in Seq(Record) /\ RunInv(r)
  BY <1>0, RunType DEF IngestionInv
<1>3. /\ Len(t) = Len(topic[r]) + 1 /\ Len(q) = Len(run[r].queue) - 1
      /\ Len(topic[r]) \in Nat /\ Len(run[r].queue) \in Nat /\ Len(run[r].sent) \in Nat
      /\ t \o q = topic[r] \o run[r].queue
  <2>1. Len(run[r].sent) \in Nat
    BY <1>0, RunType, LenProperties
  <2> DEFINE a == topic[r]
             b == run[r].queue
  <2>2. a \in Seq(Record) /\ b \in Seq(Record) /\ b # << >>
    BY <1>0, <1>1, <1>2
  <2> HIDE DEF a, b
  <2>3. /\ Len(Append(a, Head(b))) = Len(a) + 1 /\ Len(Tail(b)) = Len(b) - 1
        /\ Len(a) \in Nat /\ Len(b) \in Nat
        /\ Append(a, Head(b)) \o Tail(b) = a \o b
    BY <2>2, MoveHead
  <2> QED BY <2>1, <2>3 DEF a, b
<1> HIDE DEF h, q, t
<1>4. /\ s.queue = q /\ s.sent = run[r].sent /\ s.kind = run[r].kind /\ s.page = run[r].page
      /\ s.got = run[r].got /\ s.pc = run[r].pc /\ s.failed = run[r].failed
      /\ s.missed = run[r].missed /\ s.par = run[r].par /\ s.loc = run[r].loc
      /\ s.sen = run[r].sen /\ s.locs = run[r].locs
  BY <1>0 DEF Process
<1> HIDE DEF s
<1>5. /\ run'[r] = s /\ (\A j : Is(r, j)' <=> Is(r, j)) /\ Goal(r)' = Goal(r)
      /\ (Books(r)' <=> Books(r))
  <2>1. run'[r] = s /\ run[r].kind \in Kinds
    BY <1>0, <1>1, RunType DEF Set
  <2>2. (\A j : Is(r, j)' <=> Is(r, j)) /\ (Books(r)' <=> Books(r))
    BY <1>4, <2>1 DEF Is, Books
  <2>3. Goal(r)' = Goal(r)
    BY <1>1, <1>4, <2>1, SameGoal
  <2> QED BY <2>1, <2>2, <2>3
<1>6. SentSoFar(r)'
  <2>1. \A x : Before(r, x)' <=> Before(r, x)
    BY <1>4, <1>5 DEF Before
  <2>2. Due(r)' = Due(r)
    BY <1>5, <2>1 DEF Due
  <2> QED BY <1>2, <1>4, <1>5, <2>2 DEF RunInv, SentSoFar, Working
<1>7. Gathering(r)'
  <2>1. /\ AtSensor(r)' <=> AtSensor(r)
        /\ AllSites(r)' = AllSites(r) /\ Here(r)' = Here(r)
    BY <1>1, <1>4, <1>5, SameSource DEF AtSensor, AllSites, Here
  <2>2. Placed(r)' <=> Placed(r)
    BY <1>1, <1>4, <1>5, <2>1, SameSource DEF Placed
  <2>3. Cursor(r)' <=> Cursor(r)
    BY <1>1, <1>4, <1>5, <2>1, <2>2, SameSource DEF Cursor
  <2>4. Gathered(r)' <=> Gathered(r)
    BY <1>1, <1>4, <1>5 DEF Gathered, Missing
  <2> QED BY <1>2, <1>4, <1>5, <2>3, <2>4 DEF RunInv, Gathering, Working
<1>8. Tallied(r)'
  <2>1. /\ Len(topic[r]) + Len(run[r].queue) <= Len(run[r].sent)
        /\ r \notin dropped /\ (run[r].pc # "over" \/ ledger[r] = "succeeded") =>
             topic[r] \o run[r].queue = run[r].sent
    BY <1>2 DEF RunInv, Tallied
  <2>2. Len(t) + Len(q) <= Len(run[r].sent) /\ Len(topic[r]) + Len(q) <= Len(run[r].sent)
    <3> DEFINE a == Len(topic[r])
               b == Len(run[r].queue)
               c == Len(run[r].sent)
    <3>1. a \in Nat /\ b \in Nat /\ c \in Nat /\ a + b <= c /\ Len(t) = a + 1 /\ Len(q) = b - 1
      BY <1>3, <2>1
    <3> HIDE DEF a, b, c
    <3>2. (a + 1) + (b - 1) <= c /\ a + (b - 1) <= c
      BY <3>1
    <3> QED BY <3>1, <3>2 DEF a, c
  <2>3. CASE topic'[r] = t /\ dropped' = dropped
    BY <1>1, <1>3, <1>4, <1>5, <2>1, <2>2, <2>3 DEF Tallied
  <2>4. CASE topic' = topic /\ dropped' = dropped \cup {r}
    BY <1>4, <1>5, <2>2, <2>4 DEF Tallied
  <2> QED BY <1>1, <2>3, <2>4
<1>9. Judged(r)'
  <2>1. Judged(r) /\ ledger[r] # "succeeded"
    BY <1>1, <1>2 DEF RunInv, Judged
  <2> QED BY <1>1, <1>4, <1>5, <2>1 DEF Judged
<1> QED BY <1>6, <1>7, <1>8, <1>9 DEF RunInv

-----------------------------------------------------------------------------
(* The invariant is kept.                                                  *)

LEMMA InvInit == ASSUME Init PROVE IngestionInv
<1>1. TypeOK
  BY TypeInit
<1>2. ASSUME NEW r \in Runs PROVE RunInv(r)
  <2>1. PICK k \in Kinds : run[r] = NewProcess(k)
    BY DEF Init
  <2>2. /\ run[r].pc = "new" /\ run[r].page = 1 /\ run[r].got = << >>
        /\ run[r].sent = << >> /\ run[r].failed = 0 /\ run[r].queue = << >>
        /\ run[r].par = 0 /\ run[r].loc = 0 /\ run[r].sen = 0 /\ run[r].locs = 0
        /\ run[r].missed = {}
    BY <2>1 DEF NewProcess
  <2>3. topic[r] = << >> /\ ledger[r] = "absent"
    BY DEF Init
  <2>4. OneToOne(<< >>) /\ Range(<< >>) = {} /\ Len(<< >>) = 0
    BY EmptySeq DEF OneToOne, Range
  <2>5. SentSoFar(r)
    <3>1. CASE Is(r, "openaq")
      <4>1. ASSUME NEW x \in Goal(r) PROVE ~Before(r, x)
        <5>1. /\ x[1] \in Nat /\ x[1] >= 1 /\ x[2] \in Nat /\ x[2] >= 1
              /\ x[3] \in Nat /\ x[3] >= 1
          BY <1>1, <3>1, PlaceOf
        <5>2. ~(x[1] < 0) /\ x[1] # 0
          BY <5>1
        <5> QED BY <2>2, <3>1, <5>2 DEF Before
      <4>2. Due(r) = {}
        BY <4>1 DEF Due
      <4> QED BY <2>2, <2>4, <4>2 DEF SentSoFar
    <3>2. CASE ~Is(r, "openaq")
      BY <2>2, <2>4, <3>2, DueNone DEF SentSoFar
    <3> QED BY <3>1, <3>2
  <2>6. Tallied(r)
    <3>1. << >> \o << >> = << >>
      BY EmptySeq, ConcatEmptySeq
    <3> QED BY <2>2, <2>3, <2>4, <3>1 DEF Tallied
  <2>7. Judged(r)
    BY <2>2, <2>3 DEF Judged
  <2>8. Cursor(r)
    <3>1. Len(source.sites) \in Nat /\ Len(Sites(0)) = 0 /\ Len(Sensors(0, 0)) = 0
      BY <1>1, SourceType, EmptySeq
    <3>2. AllSites(r) = 0
      BY <2>2, <3>1, UptoNone, Bounds DEF AllSites
    <3>3. Placed(r)
      BY <2>2, <3>1, <3>2 DEF Placed
    <3> QED BY <2>2, <3>2, <3>3 DEF Cursor
  <2>9. Gathered(r)
    <3>1. IsFiniteSet({}) /\ Cardinality({}) = 0
      BY FS_EmptySet
    <3>2. source.total \in Nat
      BY <1>1, SourceType
    <3>3. 1..(1 - 1) = {} /\ 1 <= source.total + 1
      BY <3>2
    <3> QED BY <2>2, <2>4, <3>1, <3>3 DEF Gathered, Missing
  <2>10. Gathering(r)
    BY <2>8, <2>9 DEF Gathering
  <2> QED BY <2>5, <2>6, <2>7, <2>10 DEF RunInv
<1> QED BY <1>1, <1>2 DEF IngestionInv

LEMMA InvStep == IngestionInv /\ [Next]_vars => IngestionInv'
<1> SUFFICES ASSUME IngestionInv, [Next]_vars PROVE IngestionInv'
  OBVIOUS
<1>1. TypeOK'
  BY TypeStep
<1>2. CASE UNCHANGED vars
  <2>1. ASSUME NEW q \in Runs PROVE RunInv(q)'
    <3>1. RunInv(q) /\ run[q].kind \in Kinds
      BY RunType DEF IngestionInv
    <3> QED BY <1>2, <3>1, RunKept DEF vars
  <2> QED BY <1>1, <2>1 DEF IngestionInv
<1>3. ASSUME NEW r \in Runs, Start(r) \/ Progress(r) \/ Failure(r) PROVE IngestionInv'
  <2>1. Others(r)
    BY <1>3, OthersStep
  <2>2. RunInv(r)'
    BY <1>3, StartStep, FetchAllStep, StationStep, FetchLocationsStep,
       FetchMeasurementsStep, NextSensorStep, NextLocationStep, NextParameterStep, SkipStep,
       RaisesStep, RetryStep, SendStep, VerdictStep, FailedStep, EndStep, QueueStep
       DEF Progress, Failure, Fetch, Advance
  <2> QED BY <1>1, <2>1, <2>2, Frame
<1> QED BY <1>2, <1>3 DEF Next

LEMMA Invariance == Spec => []IngestionInv
<1>1. Init => IngestionInv
  BY InvInit
<1> QED BY <1>1, InvStep, PTL DEF Spec

-----------------------------------------------------------------------------
(* The theorems.                                                           *)

\* No counter leaves its bound, and what a run queues, repeats and publishes are
\* messages of the source, wherever a call of it fails.
THEOREM TypeCorrect == Spec => []TypeOK
<1>1. IngestionInv => TypeOK
  BY DEF IngestionInv
<1> QED BY <1>1, Invariance, PTL

\* records_published is what the topic holds: all of it if the run says
\* succeeded and the broker dropped nothing, and never less than the topic
\* holds once a run that says failed has ended.
THEOREM CountsMatch == Spec => []CountsMatchTopic
<1>1. IngestionInv => CountsMatchTopic
  <2> SUFFICES ASSUME IngestionInv, NEW r \in Runs
               PROVE  /\ ledger[r] = "succeeded" /\ r \notin dropped =>
                           Len(topic[r]) = booked[r].published
                      /\ ledger[r] = "failed" /\ run[r].pc = "over" =>
                           Len(topic[r]) <= booked[r].published
    BY DEF CountsMatchTopic
  <2>1. /\ Tallied(r) /\ Judged(r) /\ topic[r] \in Seq(Record)
    BY RunType DEF IngestionInv, RunInv
  <2>2. /\ Len(topic[r]) \in Nat /\ Len(run[r].queue) \in Nat /\ Len(run[r].sent) \in Nat
    BY RunType, LenProperties DEF IngestionInv
  <2>3. ASSUME ledger[r] = "succeeded", r \notin dropped
        PROVE  Len(topic[r]) = booked[r].published
    <3>1. run[r].queue = << >> /\ booked[r].published = Len(run[r].sent)
      BY <2>1, <2>3 DEF Judged
    <3>2. topic[r] \o << >> = run[r].sent
      BY <2>1, <2>3, <3>1 DEF Tallied
    <3> QED BY <2>1, <3>1, <3>2, ConcatEmptySeq
  <2>4. ASSUME ledger[r] = "failed" PROVE Len(topic[r]) <= booked[r].published
    <3> DEFINE a == Len(topic[r])
               b == Len(run[r].queue)
               c == Len(run[r].sent)
    <3>1. booked[r].published = c /\ a + b <= c /\ a \in Nat /\ b \in Nat /\ c \in Nat
      BY <2>1, <2>2, <2>4 DEF Judged, Tallied
    <3> HIDE DEF a, b, c
    <3>2. a <= booked[r].published
      BY <3>1
    <3> QED BY <3>2 DEF a
  <2> QED BY <2>3, <2>4
<1> QED BY <1>1, Invariance, PTL

\* A run says succeeded only if it has published every record of the source, and
\* none twice: of the stations those that did not fail; of OpenAQ, for every
\* parameter, every location and every sensor, the measurements with a value
\* that max_pages lets it see.
THEOREM SucceededComplete == Spec => []SucceededIsComplete
<1>1. IngestionInv => SucceededIsComplete
  <2> SUFFICES ASSUME IngestionInv, NEW r \in Runs, ledger[r] = "succeeded"
               PROVE  /\ booked[r].published = Cardinality(Goal(r))
                      /\ Is(r, "wind") => booked[r].failed = Cardinality(run[r].missed)
                      /\ r \notin dropped => Range(topic[r]) = Goal(r)
    BY DEF SucceededIsComplete
  <2>1. /\ SentSoFar(r) /\ Tallied(r) /\ Judged(r) /\ topic[r] \in Seq(Record)
        /\ run[r].sent \in Seq(Record)
    BY RunType DEF IngestionInv, RunInv
  <2>2. /\ Complete(r) /\ run[r].queue = << >> /\ booked[r].published = Len(run[r].sent)
    BY <2>1 DEF Judged
  <2>3. booked[r].published = Cardinality(Goal(r))
    BY <2>1, <2>2, CardSeq DEF SentSoFar, Complete
  <2>4. ASSUME r \notin dropped PROVE Range(topic[r]) = Goal(r)
    <3>1. topic[r] \o << >> = run[r].sent
      BY <2>1, <2>2, <2>4 DEF Tallied
    <3>2. topic[r] = run[r].sent
      BY <2>1, <3>1, ConcatEmptySeq
    <3> QED BY <2>2, <3>2 DEF Complete
  <2> QED BY <2>2, <2>3, <2>4 DEF Complete
<1> QED BY <1>1, Invariance, PTL

\* A row is opened once and gets a verdict; only a lost answer to its commit
\* turns a success into a failure, and nothing turns a failure into anything.
THEOREM OnlyWorsen == Spec => VerdictsOnlyWorsen
<1> DEFINE Worsens(r) == ledger'[r] # ledger[r] =>
             \/ ledger[r] = "absent" /\ ledger'[r] = "running"
             \/ ledger[r] = "running"
             \/ ledger[r] = "succeeded" /\ ledger'[r] = "failed"
                /\ run[r].pc = "failing"
<1>1. IngestionInv /\ [Next]_vars => [\A r \in Runs : Worsens(r)]_vars
  <2> SUFFICES ASSUME IngestionInv, [Next]_vars, NEW q \in Runs PROVE Worsens(q)
    BY Zenon
  <2>1. CASE UNCHANGED vars
    BY <2>1 DEF vars
  <2>2. ASSUME NEW r \in Runs, Start(r) \/ Progress(r) \/ Failure(r) PROVE Worsens(q)
    <3>1. CASE q # r
      BY <2>2, <3>1, OthersStep DEF Others
    <3>2. CASE q = r
      <4>1. /\ ledger \in [Runs -> {"absent", "running", "succeeded", "failed"}]
            /\ Judged(r)
        BY DEF IngestionInv, TypeOK, RunInv
      <4>2. CASE Start(r) \/ StartRaises(r)
        BY <3>2, <4>1, <4>2 DEF Start, StartRaises, Judged
      <4>3. CASE Finish(r) \/ FinishRaises(r)
        <5>1. Books(r) /\ run[r].pc = "send" => ledger[r] = "running"
          BY <4>1 DEF Judged
        <5> QED BY <3>2, <4>1, <4>3, <5>1
                DEF Finish, FinishRaises, Flushed, Finished, AllSent, Judge
      <4>4. CASE FinishFailed(r)
        BY <3>2, <4>1, <4>4 DEF FinishFailed, Judge, Judged
      <4>5. CASE ledger' = ledger
        BY <4>5
      <4> QED BY <2>2, <4>2, <4>3, <4>4, <4>5
               DEF Progress, Failure, Fetch, Advance, FetchAll, Station, FetchLocations,
                   FetchMeasurements, NextSensor, NextLocation, NextParameter, Skip,
                   LocationRaises, MeasurementRaises, Send, Exit, Deliver, FetchRaises,
                   Retry, SendRaises, FinishFailedRaises, Drop, Kill
    <3> QED BY <3>1, <3>2
  <2> QED BY <2>1, <2>2 DEF Next
<1> QED BY <1>1, Invariance, PTL DEF Spec, VerdictsOnlyWorsen
=============================================================================
