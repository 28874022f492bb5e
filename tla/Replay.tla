-------------------------------- MODULE Replay --------------------------------
(***************************************************************************)
(* What happens to a dead letter after it is recorded: replay_dlq.py sends *)
(* it back to its raw topic, operators and compact_parse_errors.py close   *)
(* its row, and normalizer runs open it again.                             *)
(*                                                                         *)
(* A replay is a process: it reads the open rows (or the dead-letter       *)
(* topic) once, queues a message for each, and books what it did over a    *)
(* second connection that commits every row.  Its producer delivers the    *)
(* queue in the background.  A normalizer run is one step here; module     *)
(* Normalize has its inside.                                               *)
(***************************************************************************)
EXTENDS Naturals, FiniteSets, SequencesExt

CONSTANTS
  Payloads,     \* message bodies
  Fails,        \* payloads that no normalizer accepts
  Sample,       \* what parse_errors and the dead letter keep of a payload
  NoSample,     \* the sample of a payload that is JSON null
  Replays,      \* replay processes, each of which is one run
  Options,      \* the command lines and environments they are given
  Arrived,      \* the rejected messages that producers have published
  Limit,        \* DLQ_REPLAY_LIMIT
  CompactStatuses, \* PARSE_ERROR_COMPACT_STATUS of the compactions
  MaxLetters,   \* bound: dead letters kept
  MaxTriage,    \* bound: rows marked ignored by hand
  MaxFaults     \* bound: processes killed, messages dropped, calls failed

\* A sample has gone through jsonb, the redaction of keys that look secret and
\* the truncation, which may change it again when it is rejected once more.
ASSUME SampleAssumption ==
  /\ Sample \in [Payloads -> Payloads \cup {NoSample}]
  /\ NoSample \notin Payloads /\ Fails \subseteq Payloads
ASSUME OptionAssumption ==
  Options \subseteq [mode : {"postgres", "kafka"}, dry : BOOLEAN,
                     resolve : BOOLEAN, book : BOOLEAN]
ASSUME ReplayBounds ==
  /\ {Limit, MaxLetters, MaxTriage, MaxFaults} \subseteq Nat
  /\ Arrived \in Seq(Payloads) /\ Limit > 0

Statuses == {"open", "ignored", "resolved", "archived"}

ASSUME CompactAssumption == CompactStatuses \subseteq Statuses

VARIABLES
  log,       \* the raw topic
  letters,   \* the dead-letter topic: the samples of rejected messages
  errors,    \* rows of analytics.parse_errors, in the order of their insertion
  ledger,    \* status of each row of analytics.dlq_replay_runs
  booked,    \* records_scanned and records_replayed of a succeeded run
  items,     \* rows of analytics.dlq_replay_items, by run
  replay,    \* the replay processes
  triaged,   \* rows marked by hand so far
  faults,    \* failures so far
  lost       \* replays that have lost a queued message

kafka == << log, letters >>
books == << ledger, booked, items >>
vars == << kafka, errors, books, replay, triaged, faults, lost >>

-----------------------------------------------------------------------------
\* "start": the run's row is written, nothing is read; "work": in the loop;
\* "resolve": between the item of a row and the row's own update; "close":
\* producer.close() in main's finally; "over": ended or killed.
Process == [pc : {"new", "start", "work", "resolve", "close", "over"},
            mode : {"postgres", "kafka"}, dry : BOOLEAN, resolve : BOOLEAN,
            book : BOOLEAN, todo : Seq(Nat), pos : Nat, used : Nat,
            scanned : Nat, replayed : Nat, queue : Seq(Payloads)]

Idle == [pc |-> "new", mode |-> "postgres", dry |-> TRUE, resolve |-> FALSE,
         book |-> FALSE, todo |-> << >>, pos |-> 0, used |-> 0,
         scanned |-> 0, replayed |-> 0, queue |-> << >>]

\* "id" is the row's place in errors, or the letter's in the topic.
Item == [id : Nat, status : {"replayed", "skipped", "failed"}]

TypeOK ==
  /\ log \in Seq(Payloads)
  /\ letters \in Seq(Payloads \cup {NoSample}) /\ Len(letters) <= MaxLetters
  /\ errors \in Seq([body : Payloads, status : Statuses])
  /\ ledger \in [Replays -> {"absent", "running", "succeeded", "failed"}]
  /\ booked \in [Replays -> [scanned : Nat, replayed : Nat]]
  /\ items \in [Replays -> SUBSET Item]
  /\ replay \in [Replays -> Process]
  /\ triaged \in 0..MaxTriage /\ faults \in 0..MaxFaults /\ lost \subseteq Replays

Init ==
  /\ log = Arrived /\ letters = << >> /\ errors = << >>
  /\ ledger = [r \in Replays |-> "absent"]
  /\ booked = [r \in Replays |-> [scanned |-> 0, replayed |-> 0]]
  /\ items = [r \in Replays |-> {}]
  /\ replay = [r \in Replays |-> Idle]
  /\ triaged = 0 /\ faults = 0 /\ lost = {}

-----------------------------------------------------------------------------
(* The rest of the system.                                                 *)

HasOpenRow(p) ==
  \E i \in DOMAIN errors : errors[i].body = p /\ errors[i].status = "open"

HasRow(p) == \E i \in DOMAIN errors : errors[i].body = p

IsBad(p) == p \in Fails

OpenRow(p) == [body |-> p, status |-> "open"]

\* The rejected messages of the topic, in their order.
Rejected ==
  LET bad == {i \in DOMAIN log : IsBad(log[i])}
  IN  [k \in 1..Cardinality(bad) |->
         log[CHOOSE i \in bad : Cardinality({j \in bad : j <= i}) = k]]

Letters(s) == [i \in DOMAIN s |-> Sample[s[i]]]

\* INSERT ... ON CONFLICT ... WHERE status = 'open' DO UPDATE: a row for every
\* rejected payload that has no open one.
ParseErrors(new) ==
  errors \o [i \in DOMAIN new |-> OpenRow(new[i])]

\* Mutant: a payload that has a row, open or not, gets no other.
Unrecorded_AnyStatus ==
  SetToSeq({p \in ToSet(log) : IsBad(p) /\ ~HasRow(p)})

Unrecorded == SetToSeq({p \in ToSet(log) : IsBad(p) /\ ~HasOpenRow(p)})

\* A normalizer run, from the first message of the topic to the last: the
\* conflict target of parse_errors is its open rows, and every rejected
\* message is a dead letter once more.
NormalizeRun ==
  /\ errors' = ParseErrors(Unrecorded)
  /\ letters' = LET all == letters \o Letters(Rejected)
                IN  SubSeq(all, 1, IF Len(all) < MaxLetters THEN Len(all)
                                                            ELSE MaxLetters)
  /\ UNCHANGED << log, books, replay, triaged, faults, lost >>

\* An operator marks a row as noise.
Triage(i) ==
  /\ triaged < MaxTriage
  /\ errors[i].status = "open"
  /\ errors' = [errors EXCEPT ![i].status = "ignored"]
  /\ triaged' = triaged + 1
  /\ UNCHANGED << kafka, books, replay, faults, lost >>

\* compact_parse_errors: the rows of one status (resolved, unless it is told
\* another) that are old enough are archived.
Compact ==
  \E status \in CompactStatuses :
    \E aged \in SUBSET {i \in DOMAIN errors : errors[i].status = status} \ {{}} :
    /\ errors' = [i \in DOMAIN errors |->
                    IF i \in aged THEN [errors[i] EXCEPT !.status = "archived"]
                                  ELSE errors[i]]
    /\ UNCHANGED << kafka, books, replay, triaged, faults, lost >>

-----------------------------------------------------------------------------
(* A replay.                                                               *)

\* main: options, the producer, the bookkeeping connection, the run's row.
Start(r) ==
  /\ replay[r].pc = "new"
  /\ \E o \in Options :
       /\ replay' = [replay EXCEPT ![r] =
            [Idle EXCEPT !.pc = "start", !.mode = o.mode, !.dry = o.dry,
                         !.resolve = o.resolve, !.book = o.book]]
       /\ ledger' = IF o.book THEN [ledger EXCEPT ![r] = "running"] ELSE ledger
  /\ UNCHANGED << kafka, errors, booked, items, triaged, faults, lost >>

\* The rows of one status, LIMIT of them.  last_seen_at does not order them
\* further: a normalizer run stamps all it rejects with its own now().
Readable(status) ==
  LET rows == {i \in DOMAIN errors : errors[i].status = status}
      n == IF Cardinality(rows) < Limit THEN Cardinality(rows) ELSE Limit
  IN  {s \in [1..n -> rows] : IsInjective(s)}

\* replay_from_postgres: the rows are fetched once.
ReadRows(r) ==
  /\ replay[r].pc = "start" /\ replay[r].mode = "postgres"
  /\ \E s \in Readable("open") :
       replay' = [replay EXCEPT ![r].pc = "work", ![r].todo = s]
  /\ UNCHANGED << kafka, errors, books, triaged, faults, lost >>

\* replay_from_kafka_dlq: the consumer starts at the earliest letter; it
\* commits no offset.
OpenConsumer(r) ==
  /\ replay[r].pc = "start" /\ replay[r].mode = "kafka"
  /\ replay' = [replay EXCEPT ![r].pc = "work"]
  /\ UNCHANGED << kafka, errors, books, triaged, faults, lost >>

InRows(r) == /\ replay[r].pc = "work" /\ replay[r].mode = "postgres"
             /\ replay[r].todo # << >>

\* Letters that are sent or, in a dry run, looked at.
Usable(i) == letters[i] # NoSample

\* The limit is looked at after a letter is sent and before each poll: a dry
\* run goes on past it to the end of the batch that it polled.
InLetters(r) == /\ replay[r].pc = "work" /\ replay[r].mode = "kafka"
                /\ replay[r].used < Limit \/ replay[r].dry
                /\ replay[r].pos < Len(letters)

\* The row or the letter at hand, and what is kept of its payload.
At(r) == IF replay[r].mode = "postgres" THEN Head(replay[r].todo)
                                        ELSE replay[r].pos + 1
Kept(r) == IF replay[r].mode = "postgres" THEN Sample[errors[At(r)].body]
                                          ELSE letters[At(r)]

\* Replay r with the row or letter at hand counted and behind it.
Counted(r) ==
  [replay[r] EXCEPT !.scanned = @ + 1,
     !.todo = IF replay[r].mode = "postgres" THEN Tail(@) ELSE @,
     !.pos = IF replay[r].mode = "kafka" THEN @ + 1 ELSE @,
     !.used = IF Kept(r) # NoSample THEN @ + 1 ELSE @]

Booked(r, status) ==
  items' = IF replay[r].book
           THEN [items EXCEPT ![r] = @ \cup {[id |-> At(r), status |-> status]}]
           ELSE items

\* Mutant: a row without a sample leaves no item.
Skip_Silently(r) ==
  /\ InRows(r) \/ (InLetters(r) /\ Usable(At(r)))
  /\ replay[r].dry \/ Kept(r) = NoSample
  /\ replay' = [replay EXCEPT ![r] = Counted(r)]
  /\ IF Kept(r) = NoSample THEN items' = items ELSE Booked(r, "skipped")
  /\ UNCHANGED << kafka, errors, ledger, booked, triaged, faults, lost >>

\* A dry run, or a row whose sample is missing.
Skip(r) ==
  /\ InRows(r) \/ (InLetters(r) /\ Usable(At(r)))
  /\ replay[r].dry \/ Kept(r) = NoSample
  /\ replay' = [replay EXCEPT ![r] = Counted(r)]
  /\ Booked(r, "skipped")
  /\ UNCHANGED << kafka, errors, ledger, booked, triaged, faults, lost >>

\* A letter without a payload is a bad envelope: counted, and no item.
SkipBadLetter(r) ==
  /\ InLetters(r) /\ ~Usable(At(r))
  /\ replay' = [replay EXCEPT ![r] = Counted(r)]
  /\ UNCHANGED << kafka, errors, books, triaged, faults, lost >>

Sends(r) == (InRows(r) \/ InLetters(r)) /\ ~replay[r].dry /\ Kept(r) # NoSample

\* The row stays at the head of todo until its update.
Queued(r) ==
  IF replay[r].mode = "postgres" /\ replay[r].resolve
  THEN [replay[r] EXCEPT !.pc = "resolve", !.scanned = @ + 1, !.used = @ + 1,
          !.replayed = @ + 1, !.queue = Append(@, Kept(r))]
  ELSE [Counted(r) EXCEPT !.replayed = @ + 1, !.queue = Append(@, Kept(r))]

\* producer.send() queues the sample; the item says "replayed".
Send(r) ==
  /\ Sends(r)
  /\ replay' = [replay EXCEPT ![r] = Queued(r)]
  /\ Booked(r, "replayed")
  /\ UNCHANGED << kafka, errors, ledger, booked, triaged, faults, lost >>

Fault == faults < MaxFaults /\ faults' = faults + 1

\* Mutant: the handler does not continue with the next row.
SendRaises_Resolves(r) ==
  /\ Fault /\ Sends(r)
  /\ replay' = [replay EXCEPT ![r] =
       IF replay[r].mode = "postgres" /\ replay[r].resolve
       THEN [replay[r] EXCEPT !.pc = "resolve", !.scanned = @ + 1]
       ELSE Counted(r)]
  /\ Booked(r, "failed")
  /\ UNCHANGED << kafka, errors, ledger, booked, triaged, lost >>

\* producer.send() raises: the item says "failed", the row is left alone.
SendRaises(r) ==
  /\ Fault /\ Sends(r)
  /\ replay' = [replay EXCEPT ![r] = Counted(r)]
  /\ Booked(r, "failed")
  /\ UNCHANGED << kafka, errors, ledger, booked, triaged, lost >>

\* UPDATE parse_errors ... WHERE parse_error_id = ...: whatever the status is
\* by now.  Committed before the queue is flushed.
Resolve(r) ==
  /\ replay[r].pc = "resolve"
  /\ errors' = [errors EXCEPT ![Head(replay[r].todo)].status = "resolved"]
  /\ replay' = [replay EXCEPT ![r].pc = "work", ![r].todo = Tail(@)]
  /\ UNCHANGED << kafka, books, triaged, faults, lost >>

\* An exception that no handler of the loop takes (the consumer rejects its
\* options, a poll or a statement on the rows fails): the run is booked as
\* failed, with zero counts.
RaiseFailed(r) ==
  /\ Fault /\ replay[r].pc \in {"start", "work", "resolve"}
  /\ ledger' = IF replay[r].book THEN [ledger EXCEPT ![r] = "failed"] ELSE ledger
  /\ replay' = [replay EXCEPT ![r].pc = "close"]
  /\ UNCHANGED << kafka, errors, booked, items, triaged, lost >>

LoopOver(r) == /\ replay[r].pc = "work" /\ replay[r].todo = << >>
               /\ replay[r].mode = "kafka" =>
                    replay[r].used >= Limit \/ replay[r].pos >= Len(letters)

Books(r) == \/ InRows(r)
            \/ InLetters(r) /\ Usable(At(r))
            \/ LoopOver(r) /\ replay[r].queue = << >>

\* A statement on the bookkeeping connection fails: an item's, after its
\* message was queued, or the verdict's.  The transaction is aborted, so
\* neither an item "failed" nor a verdict can be written after it, and the
\* run's row keeps saying running.
BookingRaises(r) ==
  /\ Fault /\ Books(r) /\ replay[r].book
  /\ replay' = [replay EXCEPT ![r] =
       [IF Sends(r) THEN Queued(r) ELSE replay[r] EXCEPT !.pc = "close"]]
  /\ UNCHANGED << kafka, errors, books, triaged, lost >>

\* Mutant: there is no flush() before the verdict.
Finish_NoFlush(r) ==
  /\ LoopOver(r)
  /\ ledger' = IF replay[r].book THEN [ledger EXCEPT ![r] = "succeeded"] ELSE ledger
  /\ booked' = IF replay[r].book
               THEN [booked EXCEPT ![r] = [scanned |-> replay[r].scanned,
                                           replayed |-> replay[r].replayed]]
               ELSE booked
  /\ replay' = [replay EXCEPT ![r].pc = "close"]
  /\ UNCHANGED << kafka, errors, items, triaged, faults, lost >>

\* producer.flush() has returned, and the run is booked as succeeded.
Finish(r) ==
  /\ LoopOver(r) /\ replay[r].queue = << >>
  /\ ledger' = IF replay[r].book THEN [ledger EXCEPT ![r] = "succeeded"] ELSE ledger
  /\ booked' = IF replay[r].book
               THEN [booked EXCEPT ![r] = [scanned |-> replay[r].scanned,
                                           replayed |-> replay[r].replayed]]
               ELSE booked
  /\ replay' = [replay EXCEPT ![r].pc = "close"]
  /\ UNCHANGED << kafka, errors, items, triaged, faults, lost >>

\* Mutant: a verdict in main's finally.
Close_Succeeds(r) ==
  /\ replay[r].pc = "close" /\ replay[r].queue = << >>
  /\ replay' = [replay EXCEPT ![r].pc = "over"]
  /\ ledger' = IF replay[r].book THEN [ledger EXCEPT ![r] = "succeeded"] ELSE ledger
  /\ UNCHANGED << kafka, errors, booked, items, triaged, faults, lost >>

\* producer.close() waits for the queue, after a failure as well.
Close(r) ==
  /\ replay[r].pc = "close" /\ replay[r].queue = << >>
  /\ replay' = [replay EXCEPT ![r].pc = "over"]
  /\ UNCHANGED << kafka, errors, books, triaged, faults, lost >>

\* The producer's thread delivers the first message of the queue.
Deliver(r) ==
  /\ replay[r].queue # << >>
  /\ log' = Append(log, Head(replay[r].queue))
  /\ replay' = [replay EXCEPT ![r].queue = Tail(@)]
  /\ UNCHANGED << letters, errors, books, triaged, faults, lost >>

\* Its retries are used up: the future nobody looks at holds the error.
Drop(r) ==
  /\ Fault /\ replay[r].queue # << >>
  /\ replay' = [replay EXCEPT ![r].queue = Tail(@)]
  /\ lost' = lost \cup {r}
  /\ UNCHANGED << kafka, errors, books, triaged >>

\* The process is killed.
Kill(r) ==
  /\ Fault /\ replay[r].pc \notin {"new", "over"}
  /\ lost' = IF replay[r].queue = << >> THEN lost ELSE lost \cup {r}
  /\ replay' = [replay EXCEPT ![r].pc = "over", ![r].todo = << >>,
                              ![r].queue = << >>]
  /\ UNCHANGED << kafka, errors, books, triaged >>

-----------------------------------------------------------------------------
Progress(r) == \/ ReadRows(r) \/ OpenConsumer(r) \/ Skip(r) \/ SkipBadLetter(r)
               \/ Send(r) \/ Resolve(r) \/ Finish(r) \/ Close(r) \/ Deliver(r)

Failure(r) == \/ SendRaises(r) \/ RaiseFailed(r) \/ BookingRaises(r)
              \/ Drop(r) \/ Kill(r)

Next == \/ NormalizeRun \/ Compact
        \/ \E i \in DOMAIN errors : Triage(i)
        \/ \E r \in Replays : Start(r) \/ Progress(r) \/ Failure(r)

Spec == Init /\ [][Next]_vars

\* The scheduler starts normalizer runs again and again.
FairSpec == Spec /\ WF_vars(NormalizeRun) /\ \A r \in Replays : WF_vars(Progress(r))

-----------------------------------------------------------------------------
(* Properties.                                                             *)

Ledger == INSTANCE RunLedger WITH Runs <- Replays, row <- ledger

\* dlq_replay_runs is a ledger: overlapping, failing and killed replays never
\* take a verdict back, and a run that was killed never gets one.
LedgerOnlyCloses == Ledger!Spec

\* The payload that replay r meant by the item with this id.
Meant(r, id) == IF replay[r].mode = "postgres" THEN Sample[errors[id].body]
                                               ELSE letters[id]

ItemsOf(r, status) == {i \in items[r] : i.status = status}

\* A run that says succeeded has booked every row that it scanned (a bad
\* letter excepted), and what it counts as replayed are its items replayed.
SucceededAddsUp ==
  \A r \in Replays : ledger[r] = "succeeded" =>
    /\ Cardinality(ItemsOf(r, "replayed")) = booked[r].replayed
    /\ replay[r].mode = "postgres" => Cardinality(items[r]) = booked[r].scanned

\* When a run says succeeded, the messages of its items are in the raw topic,
\* whoever else replays, unless the broker has dropped one of them.
SucceededWasDelivered ==
  \A r \in Replays : ledger[r] = "succeeded" /\ r \notin lost =>
    \A i \in ItemsOf(r, "replayed") : Meant(r, i.id) \in ToSet(log)

\* The statuses that say that the sample was sent.
SentStatuses == IF CompactStatuses \subseteq {"resolved", "archived"}
                THEN {"resolved", "archived"} ELSE {"resolved"}

\* A row is resolved, and in time archived, only after its sample was sent:
\* the message is in the topic or still in a queue, as long as no process
\* with a queue was killed, nothing was dropped and compactions keep to their
\* default status.
ClosedWasSent ==
  lost = {} =>
    \A i \in DOMAIN errors : errors[i].status \in SentStatuses =>
      \/ Sample[errors[i].body] \in ToSet(log)
      \/ \E r \in Replays : Sample[errors[i].body] \in ToSet(replay[r].queue)

\* Whatever is resolved, ignored or archived: as long as a payload fails and
\* its message is in the topic, it keeps coming back as an open error.
NoErrorIsForgotten ==
  \A p \in Fails : []<>(p \in ToSet(log) => HasOpenRow(p))

=============================================================================
