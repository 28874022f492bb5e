------------------------------- MODULE Ingestion -------------------------------
(***************************************************************************)
(* One run of a producer (producers/*.py): fetch the records of a source,  *)
(* queue a message for each on the raw topic, flush, and write a verdict   *)
(* in analytics.ingestion_runs.  The queue is delivered in the background. *)
(*                                                                         *)
(* The four producers differ in what they fetch before they send, in what  *)
(* a bad record or a failed call costs, and in whether they close their    *)
(* producer.  FIRMS takes one file; grid weather one batch; wind one       *)
(* station after the other.  OpenAQ takes, for every parameter, the pages  *)
(* of its locations, and for every sensor of each the pages of its         *)
(* measurements, and sends those before it asks for the next sensor's.     *)
(*                                                                         *)
(* A record is named by where it is in the source: << n >>, or << par,     *)
(* loc, sen, n >> for the measurements of OpenAQ.  Dry runs, which read a  *)
(* file of fixtures instead, are not modelled.                             *)
(***************************************************************************)
EXTENDS Naturals, Sequences, FiniteSets, Functions

CONSTANTS
  Runs,               \* processes, each of which is one run
  Sources,            \* what there may be to fetch
  LocationsLimit,     \* locations_limit: a page of locations
  MeasurementsLimit,  \* measurements_limit: a page of measurements
  MaxPages,           \* max_pages
  MaxRetries,         \* max_retries
  MaxFaults           \* bound: requests, calls and messages that fail, kills

\* The measurements of a sensor: most have a value, some have none, and some
\* have a time or a value that cannot be read.
Sensor == Seq({"value", "none", "bad"})

\* A location, that can be read or not, and those of its sensors that measure
\* the parameter at hand.
Site == [placed : BOOLEAN, sensors : Seq(Sensor)]

\* The rows of a file, the cells of a batch or the stations, of which some are
\* bad, and whether stations are configured at all; for OpenAQ the locations
\* for each parameter, and whether meta.found says how many results there are.
Source == [total : Nat, bad : SUBSET Nat, asked : BOOLEAN,
           sites : Seq(Seq(Site)), told : BOOLEAN]

ASSUME IngestionBounds ==
  /\ Sources \subseteq Source
  /\ MaxFaults \in Nat
  /\ {LocationsLimit, MeasurementsLimit, MaxPages, MaxRetries} \subseteq Nat \ {0}

VARIABLES
  source,   \* the source
  run,      \* the processes
  ledger,   \* status of each row of ingestion_runs
  booked,   \* records_fetched, records_published and records_failed of a verdict
  topic,    \* of the messages in the raw topic, those of each run
  dropped,  \* runs of which the broker has dropped a message
  gone,     \* runs that were killed, or could not write their verdict, or do
            \* not know the row that they opened
  faults    \* failures so far

vars == << source, run, ledger, booked, topic, dropped, gone, faults >>

-----------------------------------------------------------------------------
Kinds == {"firms", "openaq", "wind", "grid"}
Record == Seq(Nat)

\* "failing" is main's except clause, with what it waits for in "drain": the
\* flush of the dead letter.  "exit" is the end of the process.  OpenAQ is at
\* the sensor sen of the location loc of parameter par (none yet: 0), having
\* received locs locations; "got" is received and still to be sent.  History,
\* of which the process keeps but the length: the records sent, and the
\* stations that failed.
Process == [pc : {"new", "fetch", "send", "failing", "exit", "over"},
            kind : Kinds, page : Nat, tries : Nat, par : Nat, loc : Nat, sen : Nat,
            locs : Nat, got : Seq(Nat), fetched : Nat, sent : Seq(Record),
            failed : Nat, missed : SUBSET Nat, drain : BOOLEAN, queue : Seq(Record)]

Counts == [fetched : Nat, published : Nat, failed : Nat]

TypeOK ==
  /\ source \in Sources
  /\ run \in [Runs -> Process]
  /\ ledger \in [Runs -> {"absent", "running", "succeeded", "failed"}]
  /\ booked \in [Runs -> Counts]
  /\ topic \in [Runs -> Seq(Record)]
  /\ {dropped, gone} \subseteq SUBSET Runs
  /\ faults \in 0..MaxFaults

NewProcess(k) ==
  [pc |-> "new", kind |-> k, page |-> 1, tries |-> 0, par |-> 0, loc |-> 0, sen |-> 0,
   locs |-> 0, got |-> << >>, fetched |-> 0, sent |-> << >>, failed |-> 0,
   missed |-> {}, drain |-> FALSE, queue |-> << >>]

Init ==
  /\ source \in Sources
  /\ run \in [Runs -> {NewProcess(k) : k \in Kinds}]
  /\ ledger = [r \in Runs |-> "absent"]
  /\ booked = [r \in Runs |-> [fetched |-> 0, published |-> 0, failed |-> 0]]
  /\ topic = [r \in Runs |-> << >>] /\ dropped = {} /\ gone = {} /\ faults = 0

-----------------------------------------------------------------------------
Set(r, s) == run' = [run EXCEPT ![r] = s]

Fault == faults < MaxFaults /\ faults' = faults + 1

Is(r, kind) == run[r].kind = kind

\* The grid producer keeps no books.
Books(r) == ~Is(r, "grid")

\* create_run commits the row before anything is fetched.
Start(r) ==
  /\ run[r].pc = "new"
  /\ Set(r, [run[r] EXCEPT !.pc = IF Is(r, "openaq") THEN "send" ELSE "fetch"])
  /\ ledger' = IF Books(r) THEN [ledger EXCEPT ![r] = "running"] ELSE ledger
  /\ UNCHANGED << source, booked, topic, dropped, gone, faults >>

\* create_run raises, before its commit or, when the answer is lost, after it:
\* run_id is None, and nothing is booked.
StartRaises(r) ==
  /\ Fault /\ run[r].pc = "new" /\ Books(r)
  /\ Set(r, [run[r] EXCEPT !.pc = "exit"])
  /\ \/ UNCHANGED << ledger, gone >>
     \/ ledger' = [ledger EXCEPT ![r] = "running"] /\ gone' = gone \cup {r}
  /\ UNCHANGED << source, booked, topic, dropped >>

\* Mutant: an exception is not caught.
Raise_Uncaught(r, s) == Set(r, [s EXCEPT !.pc = "exit"])

\* An exception leaves the body of main's try.
Raise(r, s) == Set(r, [s EXCEPT !.pc = IF Books(r) THEN "failing" ELSE "exit"])

All(n) == [i \in 1..n |-> i]

\* FIRMS: one request, one file.  Grid weather: one batch, one message.
FetchAll(r) ==
  /\ run[r].pc = "fetch"
  /\ \/ /\ Is(r, "firms")
        /\ Set(r, [run[r] EXCEPT !.pc = "send", !.got = All(source.total),
                                 !.fetched = source.total])
     \/ /\ Is(r, "grid") /\ source.total > 0
        /\ Set(r, [run[r] EXCEPT !.pc = "send", !.got = << 1 >>])
  /\ UNCHANGED << source, ledger, booked, topic, dropped, gone, faults >>

\* Nothing takes the failure of a request (for wind, of the discovery of
\* stations), and a grid batch without cells raises.
FetchRaises(r) ==
  /\ run[r].pc = "fetch"
  /\ Is(r, "wind") => run[r].page = 1
  /\ IF Is(r, "grid") /\ source.total = 0 THEN UNCHANGED faults ELSE Fault
  /\ Raise(r, run[r])
  /\ UNCHANGED << source, ledger, booked, topic, dropped, gone >>

\* _request: an answer 429 or 5xx or a transport error is retried after a
\* pause, max_retries times in all.
Retry(r) ==
  /\ Fault /\ run[r].pc = "fetch" /\ Is(r, "openaq")
  /\ LET s == [run[r] EXCEPT !.tries = @ + 1]
     IN  IF s.tries = MaxRetries THEN Raise(r, s) ELSE Set(r, s)
  /\ UNCHANGED << source, ledger, booked, topic, dropped, gone >>

-----------------------------------------------------------------------------
(* OpenAQ: pages, and what the next page is of.                            *)

Least(a, b) == IF a <= b THEN a ELSE b

\* Of n results those before page i + 1.
Upto(n, limit, i) == Least(i * limit, n)

\* Page i of n results, empty behind the last one.
PageOf(n, limit, i) == SubSeq(All(n), (i - 1) * limit + 1, Upto(n, limit, i))

\* Mutant: the page after this one is compared with meta.found.
LastPage_Early(n, limit, i) ==
  \/ PageOf(n, limit, i) = << >>
  \/ source.told /\ (i + 1) * limit >= n
  \/ i = MaxPages

\* The loop ends with an empty page, with the page that meta.found (if it is a
\* number) says is the last one, or with max_pages.
LastPage(n, limit, i) ==
  \/ PageOf(n, limit, i) = << >>
  \/ source.told /\ i * limit >= n
  \/ i = MaxPages

\* The locations of parameter p, the sensors of its location l, and the
\* measurements of sensor s of those.
Sites(p) == IF p = 0 THEN << >> ELSE source.sites[p]
Sensors(p, l) == IF l = 0 THEN << >> ELSE Sites(p)[l].sensors
Readings(p, l, s) == Sensors(p, l)[s]

AtSensor(r) == run[r].sen > 0

\* _iter_locations_pages and _iter_sensor_measurements receive a page.
NextPage(s, last) ==
  [s EXCEPT !.tries = 0, !.page = @ + 1, !.pc = IF last THEN "send" ELSE "fetch"]

FetchLocations(r) ==
  /\ run[r].pc = "fetch" /\ Is(r, "openaq") /\ ~AtSensor(r)
  /\ LET n == Len(Sites(run[r].par))
         i == run[r].page
     IN  Set(r, [NextPage(run[r], LastPage(n, LocationsLimit, i))
                   EXCEPT !.locs = @ + Len(PageOf(n, LocationsLimit, i))])
  /\ UNCHANGED << source, ledger, booked, topic, dropped, gone, faults >>

FetchMeasurements(r) ==
  /\ run[r].pc = "fetch" /\ Is(r, "openaq") /\ AtSensor(r)
  /\ LET n == Len(Readings(run[r].par, run[r].loc, run[r].sen))
         i == run[r].page
     IN  Set(r, [NextPage(run[r], LastPage(n, MeasurementsLimit, i))
                   EXCEPT !.got = @ \o PageOf(n, MeasurementsLimit, i)])
  /\ UNCHANGED << source, ledger, booked, topic, dropped, gone, faults >>

AllSent(r) == run[r].pc = "send" /\ run[r].got = << >>

SensorsDone(r) == run[r].sen = Len(Sensors(run[r].par, run[r].loc))
LocationsDone(r) == SensorsDone(r) /\ run[r].loc = run[r].locs

\* With all of the last sensor sent: the next sensor of the location, ...
NextSensor(r) ==
  /\ AllSent(r) /\ Is(r, "openaq") /\ ~SensorsDone(r)
  /\ Set(r, [run[r] EXCEPT !.sen = @ + 1, !.page = 1, !.pc = "fetch"])
  /\ UNCHANGED << source, ledger, booked, topic, dropped, gone, faults >>

\* ... the next location, if it is complete, ...
NextLocation(r) ==
  /\ AllSent(r) /\ Is(r, "openaq") /\ SensorsDone(r) /\ ~LocationsDone(r)
  /\ Sites(run[r].par)[run[r].loc + 1].placed
  /\ Set(r, [run[r] EXCEPT !.loc = @ + 1, !.sen = 0])
  /\ UNCHANGED << source, ledger, booked, topic, dropped, gone, faults >>

\* ... or the next of the parameters.
NextParameter(r) ==
  /\ AllSent(r) /\ Is(r, "openaq") /\ LocationsDone(r)
  /\ run[r].par < Len(source.sites)
  /\ Set(r, [run[r] EXCEPT !.par = @ + 1, !.loc = 0, !.sen = 0, !.locs = 0,
                           !.page = 1, !.pc = "fetch"])
  /\ UNCHANGED << source, ledger, booked, topic, dropped, gone, faults >>

\* A location without coordinates, or with a sensor that cannot be read, raises.
LocationRaises(r) ==
  /\ AllSent(r) /\ Is(r, "openaq") /\ SensorsDone(r) /\ ~LocationsDone(r)
  /\ ~Sites(run[r].par)[run[r].loc + 1].placed
  /\ Raise(r, run[r])
  /\ UNCHANGED << source, ledger, booked, topic, dropped, gone, faults >>

-----------------------------------------------------------------------------
\* Wind: the next station.  One that fails, for its data or for its request,
\* is counted and left out.
Station(r) ==
  /\ run[r].pc = "fetch" /\ Is(r, "wind")
  /\ LET n == run[r].page
     IN  \/ /\ n > source.total
            /\ Set(r, [run[r] EXCEPT !.pc = "send"])
            /\ UNCHANGED faults
         \/ /\ n <= source.total /\ n \notin source.bad
            /\ Set(r, [run[r] EXCEPT !.page = n + 1, !.got = Append(@, n),
                                     !.fetched = @ + 1])
            /\ UNCHANGED faults
         \/ /\ n <= source.total
            /\ IF n \in source.bad THEN UNCHANGED faults ELSE Fault
            /\ Set(r, [run[r] EXCEPT !.page = n + 1, !.failed = @ + 1,
                                     !.missed = @ \cup {n}])
  /\ UNCHANGED << source, ledger, booked, topic, dropped, gone >>

Sending(r) == run[r].pc = "send" /\ run[r].got # << >>

\* The record to send next.
NextRecord(r) ==
  IF Is(r, "openaq") THEN << run[r].par, run[r].loc, run[r].sen, Head(run[r].got) >>
                     ELSE << Head(run[r].got) >>

\* What OpenAQ finds in the measurement that it looks at next.
Reading(r) == Readings(run[r].par, run[r].loc, run[r].sen)[Head(run[r].got)]

Sendable(r) == Is(r, "openaq") => Reading(r) = "value"

\* A measurement without a value is passed over, without a count.
Skip(r) ==
  /\ Sending(r) /\ Is(r, "openaq") /\ Reading(r) = "none"
  /\ Set(r, [run[r] EXCEPT !.got = Tail(@)])
  /\ UNCHANGED << source, ledger, booked, topic, dropped, gone, faults >>

\* One that cannot be read raises.
MeasurementRaises(r) ==
  /\ Sending(r) /\ Is(r, "openaq") /\ Reading(r) = "bad"
  /\ Raise(r, run[r])
  /\ UNCHANGED << source, ledger, booked, topic, dropped, gone, faults >>

\* producer.send() queues the message of the next record.
Send(r) ==
  /\ Sending(r) /\ Sendable(r)
  /\ Set(r, [run[r] EXCEPT !.got = Tail(@), !.sent = Append(@, NextRecord(r)),
                           !.queue = Append(@, NextRecord(r)),
                           !.fetched = IF Is(r, "openaq") THEN @ + 1 ELSE @])
  /\ UNCHANGED << source, ledger, booked, topic, dropped, gone, faults >>

\* producer.send() raises.  FIRMS then publishes a dead letter and flushes,
\* its own queue with it; the wind producer does not count the failure.
SendRaises(r) ==
  /\ Fault /\ Sending(r) /\ Sendable(r)
  /\ Raise(r, [run[r] EXCEPT
                 !.failed = IF run[r].kind \in {"firms", "openaq"} THEN @ + 1 ELSE @,
                 !.fetched = IF Is(r, "openaq") THEN @ + 1 ELSE @,
                 !.drain = Is(r, "firms")])
  /\ UNCHANGED << source, ledger, booked, topic, dropped, gone >>

\* Nothing is left to fetch or to send.
Finished(r) ==
  AllSent(r) /\ (Is(r, "openaq") => LocationsDone(r) /\ run[r].par = Len(source.sites))

\* Mutant: there is no producer.flush().
Flushed_Not(r) == Finished(r)

\* producer.flush() has returned.
Flushed(r) == Finished(r) /\ run[r].queue = << >>

CountsOf(r) == [fetched |-> run[r].fetched, published |-> Len(run[r].sent),
                failed |-> run[r].failed]

\* A wind run that has stations or a box to look for them, and has published
\* nothing, has failed.
Verdict(r) == IF Is(r, "wind") /\ source.asked /\ run[r].sent = << >>
              THEN "failed" ELSE "succeeded"

Judge(r, verdict) ==
  /\ ledger' = [ledger EXCEPT ![r] = verdict]
  /\ booked' = [booked EXCEPT ![r] = CountsOf(r)]

\* finish_run, over a connection of its own.
Finish(r) ==
  /\ Flushed(r)
  /\ Set(r, [run[r] EXCEPT !.pc = "exit"])
  /\ IF Books(r) THEN Judge(r, Verdict(r)) ELSE UNCHANGED << ledger, booked >>
  /\ UNCHANGED << source, topic, dropped, gone, faults >>

\* finish_run raises: before its commit, or after it when the answer is lost.
FinishRaises(r) ==
  /\ Fault /\ Flushed(r) /\ Books(r)
  /\ Judge(r, Verdict(r)) \/ UNCHANGED << ledger, booked >>
  /\ Raise(r, run[r])
  /\ UNCHANGED << source, topic, dropped, gone >>

\* The except clause books a failure, whatever is booked already.
FinishFailed(r) ==
  /\ run[r].pc = "failing"
  /\ run[r].drain => run[r].queue = << >>
  /\ Judge(r, "failed")
  /\ Set(r, [run[r] EXCEPT !.pc = "exit"])
  /\ UNCHANGED << source, topic, dropped, gone, faults >>

\* It cannot: the row keeps saying what it says.
FinishFailedRaises(r) ==
  /\ Fault /\ run[r].pc = "failing"
  /\ Set(r, [run[r] EXCEPT !.pc = "exit"])
  /\ gone' = gone \cup {r}
  /\ UNCHANGED << source, ledger, booked, topic, dropped >>

\* Mutant: a verdict in a finally clause.
Exit_Succeeds(r) ==
  /\ run[r].pc = "exit"
  /\ Set(r, [run[r] EXCEPT !.pc = "over", !.queue = << >>])
  /\ IF Books(r) THEN Judge(r, "succeeded") ELSE UNCHANGED << ledger, booked >>
  /\ UNCHANGED << source, topic, dropped, gone, faults >>

\* The wind and the grid producer close theirs, which waits for the queue; of
\* the others the interpreter's exit drops what is not delivered.
Exit(r) ==
  /\ run[r].pc = "exit"
  /\ run[r].kind \in {"wind", "grid"} => run[r].queue = << >>
  /\ Set(r, [run[r] EXCEPT !.pc = "over", !.queue = << >>])
  /\ UNCHANGED << source, ledger, booked, topic, dropped, gone, faults >>

\* The producer's thread.
Deliver(r) ==
  /\ run[r].queue # << >>
  /\ topic' = [topic EXCEPT ![r] = Append(@, Head(run[r].queue))]
  /\ Set(r, [run[r] EXCEPT !.queue = Tail(@)])
  /\ UNCHANGED << source, ledger, booked, dropped, gone, faults >>

\* Its retries are used up; nobody looks at the future.
Drop(r) ==
  /\ Fault /\ run[r].queue # << >>
  /\ dropped' = dropped \cup {r}
  /\ Set(r, [run[r] EXCEPT !.queue = Tail(@)])
  /\ UNCHANGED << source, ledger, booked, topic, gone >>

\* The process is killed.
Kill(r) ==
  /\ Fault /\ run[r].pc \notin {"new", "over"}
  /\ Set(r, [run[r] EXCEPT !.pc = "over", !.queue = << >>])
  /\ gone' = gone \cup {r}
  /\ UNCHANGED << source, ledger, booked, topic, dropped >>

-----------------------------------------------------------------------------
Fetch(r) == FetchAll(r) \/ Station(r) \/ FetchLocations(r) \/ FetchMeasurements(r)

Advance(r) == NextSensor(r) \/ NextLocation(r) \/ NextParameter(r) \/ Skip(r)

Progress(r) == \/ Fetch(r) \/ Advance(r) \/ LocationRaises(r) \/ MeasurementRaises(r)
               \/ Send(r) \/ Finish(r) \/ FinishFailed(r) \/ Exit(r) \/ Deliver(r)

Failure(r) == \/ StartRaises(r) \/ FetchRaises(r) \/ Retry(r) \/ SendRaises(r)
              \/ FinishRaises(r) \/ FinishFailedRaises(r) \/ Drop(r) \/ Kill(r)

Next == \E r \in Runs : Start(r) \/ Progress(r) \/ Failure(r)

Spec == Init /\ [][Next]_vars

\* A process that runs goes on.
FairSpec == Spec /\ \A r \in Runs : WF_vars(Progress(r))

-----------------------------------------------------------------------------
(* Properties.                                                             *)

\* Of n results, those on the first MaxPages pages.
Seen(n, limit) == 1..Upto(n, limit, MaxPages)

\* What there is to publish of the sensor s, the location l, the parameter p.
OfSensor(p, l, s) ==
  {<< p, l, s, m >> : m \in {m \in Seen(Len(Readings(p, l, s)), MeasurementsLimit) :
                               Readings(p, l, s)[m] = "value"}}
OfLocation(p, l) == UNION {OfSensor(p, l, s) : s \in 1..Len(Sensors(p, l))}
OfParameter(p) ==
  UNION {OfLocation(p, l) : l \in Seen(Len(Sites(p)), LocationsLimit)}

\* Every row of a file; a batch; of the stations those that did not fail; of
\* OpenAQ's measurements all that have a value and that max_pages lets the run
\* see, of each parameter, location and sensor.
Goal(r) ==
  CASE Is(r, "firms")  -> {<< n >> : n \in 1..source.total}
    [] Is(r, "grid")   -> {<< 1 >>}
    [] Is(r, "wind")   -> {<< n >> : n \in (1..source.total) \ run[r].missed}
    [] Is(r, "openaq") -> UNION {OfParameter(p) : p \in 1..Len(source.sites)}

\* records_published against the topic: a run that says succeeded has put as
\* many messages there as it counts, unless the broker dropped one; one that
\* says failed perhaps fewer, never more.
CountsMatchTopic ==
  \A r \in Runs :
    /\ ledger[r] = "succeeded" /\ r \notin dropped =>
         Len(topic[r]) = booked[r].published
    /\ ledger[r] = "failed" /\ run[r].pc = "over" =>
         Len(topic[r]) <= booked[r].published

\* A run says succeeded only if it has counted every record that there was to
\* publish, none of them twice, with the stations that a wind run left out as
\* failures, and has published just those, unless the broker dropped one.
SucceededIsComplete ==
  \A r \in Runs : ledger[r] = "succeeded" =>
    /\ booked[r].published = Cardinality(Goal(r))
    /\ Is(r, "wind") => booked[r].failed = Cardinality(run[r].missed)
    /\ r \notin dropped => Range(topic[r]) = Goal(r)

\* A row is opened once and gets a verdict; a verdict is never taken back but
\* for one case, the answer to finish_run's commit that is lost: then a run
\* that succeeded is booked as failed.
VerdictsOnlyWorsen ==
  [][\A r \in Runs : ledger'[r] # ledger[r] =>
       \/ ledger[r] = "absent" /\ ledger'[r] = "running"
       \/ ledger[r] = "running"
       \/ ledger[r] = "succeeded" /\ ledger'[r] = "failed"
          /\ run[r].pc = "failing"]_vars

\* A run that has opened a row gives it a verdict, whatever fails; unless the
\* process is killed, or its except clause cannot write either, or the answer
\* to create_run's commit was lost, which leaves it without the row's id.
StartedIsJudged ==
  \A r \in Runs :
    ledger[r] = "running" ~>
      \/ ledger[r] \in {"succeeded", "failed"}
      \/ r \in gone
=============================================================================
