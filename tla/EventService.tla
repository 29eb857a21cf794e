---------------------------- MODULE EventService ----------------------------
(***************************************************************************)
(* The events microservice, as far as single events go: the handlers of    *)
(* POST, PUT and DELETE /events, GET /events/{id} with its cache-aside     *)
(* entry event:{id} in Redis, and the hosted consumer that takes a seat    *)
(* for each BookingConfirmed message of the topic.                         *)
(*                                                                         *)
(* The data of an event are its seats and its content, which stands for    *)
(* title, description and period.  EF Core writes the columns an entity    *)
(* changed, so a PUT writes the content only and the consumer the seats    *)
(* only; a write of a row that is gone throws.                             *)
(***************************************************************************)
EXTENDS Naturals, Sequences, FiniteSets

CONSTANTS
    Event,         \* ids of the events, one for each POST
    Booking,       \* ids of the bookings the messages are about
    NoBooking,     \* the consumer handles no message
    NoEntry,       \* Redis has no such key
    Reader,        \* GET requests that may be in progress at once
    Writer,        \* PUT and DELETE requests that may be in progress at once
    Content,       \* values of an event's title, description and period
    Delete,        \* what a DELETE writes
    MaxSeats,      \* bound: seats of an event
    MaxMessages,   \* bound: messages in the topic
    MaxFaults,     \* bound: failures of calls to PostgreSQL and Redis
    MaxRestarts    \* bound: stops and crashes of the process

ASSUME MaxSeatsAssumption == MaxSeats \in Nat \ {0}
ASSUME DeleteAssumption == Delete \notin Content
ASSUME NoMessageAssumption == NoBooking \notin Booking
ASSUME BoundsAssumption == MaxFaults \in Nat /\ MaxRestarts \in Nat

VARIABLES
    \* The topic, which the booking service writes
    eventOf,      \* EventId in the messages about a booking
    topic,        \* bookings of the messages, in the order of the partition
    \* The events table
    life,         \* "unborn", "live" or "deleted"
    content,
    total,
    available,
    \* Redis
    cache,        \* event:{id}, a snapshot of the row or NoEntry
    \* HTTP requests
    reader,
    writer,
    \* The consumer
    consumer,     \* where the loop of ExecuteAsync is
    position,     \* messages Consume has returned since the start
    stored,       \* offset stored for the next automatic commit
    committed,    \* offset the broker keeps for the consumer group
    \* History and bounds
    taken,        \* times a seat was taken for a booking
    raced,        \* events written while a GET held an older row to cache
    faults,
    restarts

messageVars == <<eventOf, topic>>
seatVars == <<total, available, taken>>
tableVars == <<life, content, seatVars>>
offsetVars == <<position, stored, committed>>
boundVars == <<faults, restarts>>
vars == <<messageVars, tableVars, cache, reader, writer, consumer, offsetVars,
          raced, boundVars>>

\* EventSnapshot.From: what the cache keeps of a row.
Snapshot(e) == [content |-> content[e], available |-> available[e]]

Idle == [pc |-> "idle"]
IdleConsumer == [pc |-> "poll", booking |-> NoBooking, seen |-> 0]

Live(e) == life[e] = "live"

\* A GET has read the row of e and not yet cached it.
HeldByReader(e) == \E r \in Reader : reader[r].pc = "setting" /\ reader[r].event = e

\* The row of e is written: a GET that holds the row before now caches an old one.
Overtake(e) == raced' = IF HeldByReader(e) THEN raced \cup {e} ELSE raced

Fault == faults < MaxFaults /\ faults' = faults + 1 /\ UNCHANGED restarts

-----------------------------------------------------------------------------
(***************************************************************************)
(* The environment                                                         *)
(***************************************************************************)

\* The booking service publishes a message, again if its client library retries.
Publish(b) ==
    /\ Len(topic) < MaxMessages
    /\ topic' = Append(topic, b)
    /\ UNCHANGED <<eventOf, tableVars, cache, reader, writer, consumer, offsetVars, raced, boundVars>>

\* Redis drops an entry: its TTL is over, or memory is short.
Expire(e) ==
    /\ cache[e] # NoEntry
    /\ cache' = [cache EXCEPT ![e] = NoEntry]
    /\ UNCHANGED <<messageVars, tableVars, reader, writer, consumer, offsetVars, raced, boundVars>>

-----------------------------------------------------------------------------
(***************************************************************************)
(* POST, PUT and DELETE /events                                            *)
(***************************************************************************)

\* Event.Create refuses fewer than one seat, and makes all seats available.
CreateEvent(e, c, n) ==
    /\ life[e] = "unborn"
    /\ n >= 1
    /\ life' = [life EXCEPT ![e] = "live"]
    /\ content' = [content EXCEPT ![e] = c]
    /\ total' = [total EXCEPT ![e] = n]
    /\ available' = [available EXCEPT ![e] = n]
    /\ UNCHANGED <<messageVars, taken, cache, reader, writer, consumer,
                   offsetVars, raced, boundVars>>

\* The row is found, otherwise the answer is 404.  A PUT of the content that the
\* row has changes no column: nothing is saved, and the entry is removed next.
WriterFind(w, e, write) ==
    /\ writer[w].pc = "idle"
    /\ Live(e)
    /\ writer' = [writer EXCEPT ![w] =
                     [pc    |-> IF write = content[e] THEN "removing" ELSE "saving",
                      event |-> e,
                      write |-> write]]
    /\ UNCHANGED <<messageVars, tableVars, cache, reader, consumer, offsetVars, raced, boundVars>>

\* Mutant: the PUT writes the seats too, as those of a new event.
WriteRowResetsSeats(e, write) ==
    /\ Overtake(e)
    /\ \/ /\ write \in Content
          /\ content' = [content EXCEPT ![e] = write]
          /\ available' = [available EXCEPT ![e] = total[e]]
          /\ UNCHANGED <<life, total, taken>>
       \/ /\ write = Delete
          /\ life' = [life EXCEPT ![e] = "deleted"]
          /\ UNCHANGED <<content, seatVars>>

\* The UPDATE or the DELETE, as far as the table goes.
WriteRow(e, write) ==
    /\ Overtake(e)
    /\ \/ /\ write \in Content
          /\ content' = [content EXCEPT ![e] = write]
          /\ UNCHANGED <<life, seatVars>>
       \/ /\ write = Delete
          /\ life' = [life EXCEPT ![e] = "deleted"]
          /\ UNCHANGED <<content, seatVars>>

\* Mutant: the PUT does not invalidate the entry.
WriterSaveKeepsEntry(w) ==
    /\ writer[w].pc = "saving"
    /\ Live(writer[w].event)
    /\ WriteRow(writer[w].event, writer[w].write)
    /\ writer' = [writer EXCEPT ![w] = Idle]
    /\ UNCHANGED <<messageVars, cache, reader, consumer, offsetVars, boundVars>>

\* SaveChangesAsync; the handler then removes the cache entry.
WriterSave(w) ==
    /\ writer[w].pc = "saving"
    /\ Live(writer[w].event)
    /\ WriteRow(writer[w].event, writer[w].write)
    /\ writer' = [writer EXCEPT ![w].pc = "removing"]
    /\ UNCHANGED <<messageVars, cache, reader, consumer, offsetVars, boundVars>>

\* The row is gone: DbUpdateConcurrencyException, and no removal.
WriterMiss(w) ==
    /\ writer[w].pc = "saving"
    /\ ~Live(writer[w].event)
    /\ writer' = [writer EXCEPT ![w] = Idle]
    /\ UNCHANGED <<messageVars, tableVars, cache, reader, consumer, offsetVars, raced, boundVars>>

\* SaveChangesAsync throws, committed or not, and no removal follows.
WriterSaveFail(w) ==
    /\ Fault
    /\ writer[w].pc = "saving"
    /\ Live(writer[w].event)
    /\ \/ UNCHANGED <<tableVars, raced>>
       \/ WriteRow(writer[w].event, writer[w].write)
    /\ writer' = [writer EXCEPT ![w] = Idle]
    /\ UNCHANGED <<messageVars, cache, reader, consumer, offsetVars>>

WriterRemove(w) ==
    /\ writer[w].pc = "removing"
    /\ cache' = [cache EXCEPT ![writer[w].event] = NoEntry]
    /\ writer' = [writer EXCEPT ![w] = Idle]
    /\ UNCHANGED <<messageVars, tableVars, reader, consumer, offsetVars, raced, boundVars>>

\* Redis fails, which RemoveAsync logs, or the client cancels the request.
WriterRemoveFail(w) ==
    /\ Fault
    /\ writer[w].pc = "removing"
    /\ writer' = [writer EXCEPT ![w] = Idle]
    /\ UNCHANGED <<messageVars, tableVars, cache, reader, consumer, offsetVars, raced>>

-----------------------------------------------------------------------------
(***************************************************************************)
(* GET /events/{id}                                                        *)
(***************************************************************************)

\* Mutant: a hit sets the entry again, for another TTL.
ReaderMissSlides(r, e) ==
    /\ reader[r].pc = "idle"
    /\ reader' = [reader EXCEPT ![r] =
                     IF cache[e] = NoEntry
                     THEN [pc |-> "finding", event |-> e]
                     ELSE [pc |-> "setting", event |-> e, seen |-> cache[e]]]
    /\ UNCHANGED <<messageVars, tableVars, cache, writer, consumer, offsetVars, raced, boundVars>>

\* A hit is answered from the cache and changes nothing.
ReaderMiss(r, e) ==
    /\ reader[r].pc = "idle"
    /\ cache[e] = NoEntry
    /\ reader' = [reader EXCEPT ![r] = [pc |-> "finding", event |-> e]]
    /\ UNCHANGED <<messageVars, tableVars, cache, writer, consumer, offsetVars, raced, boundVars>>

\* Redis fails: GetAsync logs it and the handler goes on as for a miss.
ReaderGetFail(r, e) ==
    /\ Fault
    /\ reader[r].pc = "idle"
    /\ cache[e] # NoEntry
    /\ reader' = [reader EXCEPT ![r] = [pc |-> "finding", event |-> e]]
    /\ UNCHANGED <<messageVars, tableVars, cache, writer, consumer, offsetVars, raced>>

\* The row is read, or the answer is 404.
ReaderFind(r) ==
    /\ reader[r].pc = "finding"
    /\ LET e == reader[r].event
       IN  reader' = [reader EXCEPT ![r] =
                         IF Live(e)
                         THEN [pc |-> "setting", event |-> e, seen |-> Snapshot(e)]
                         ELSE Idle]
    /\ UNCHANGED <<messageVars, tableVars, cache, writer, consumer, offsetVars, raced, boundVars>>

ReaderSet(r) ==
    /\ reader[r].pc = "setting"
    /\ cache' = [cache EXCEPT ![reader[r].event] = reader[r].seen]
    /\ reader' = [reader EXCEPT ![r] = Idle]
    /\ UNCHANGED <<messageVars, tableVars, writer, consumer, offsetVars, raced, boundVars>>

\* Redis fails, or the client cancels the request.
ReaderSetFail(r) ==
    /\ Fault
    /\ reader[r].pc = "setting"
    /\ reader' = [reader EXCEPT ![r] = Idle]
    /\ UNCHANGED <<messageVars, tableVars, cache, writer, consumer, offsetVars, raced>>

-----------------------------------------------------------------------------
(***************************************************************************)
(* The consumer                                                            *)
(***************************************************************************)

\* Mutant: the offset after the next one is stored.
ConsumeStoresAhead ==
    /\ consumer.pc = "poll"
    /\ position < Len(topic)
    /\ position' = position + 1
    /\ stored' = position + 2
    /\ consumer' = [pc |-> "finding", booking |-> topic[position + 1], seen |-> 0]
    /\ UNCHANGED <<messageVars, tableVars, cache, reader, writer, committed, raced, boundVars>>

\* Consume returns the next message, and the client library stores its offset
\* for the next commit then, not when the message has been handled.
Consume ==
    /\ consumer.pc = "poll"
    /\ position < Len(topic)
    /\ position' = position + 1
    /\ stored' = position + 1
    /\ consumer' = [pc |-> "finding", booking |-> topic[position + 1], seen |-> 0]
    /\ UNCHANGED <<messageVars, tableVars, cache, reader, writer, committed, raced, boundVars>>

\* The client library commits the stored offset, every five seconds.
AutoCommit ==
    /\ committed # stored
    /\ committed' = stored
    /\ UNCHANGED <<messageVars, tableVars, cache, reader, writer, consumer,
                   position, stored, raced, boundVars>>

\* The event of the message at hand.
MessageEvent == eventOf[consumer.booking]

\* Mutant: no comparison of the free seats with the count.
ConsumerReserveAnyway ==
    /\ consumer.pc = "finding"
    /\ Live(MessageEvent)
    /\ consumer' = [consumer EXCEPT !.pc = "saving", !.seen = available[MessageEvent]]
    /\ UNCHANGED <<messageVars, tableVars, cache, reader, writer, offsetVars, raced, boundVars>>

\* The event is read and has a free seat: TryReserveSeats changes the entity.
ConsumerReserve ==
    /\ consumer.pc = "finding"
    /\ Live(MessageEvent)
    /\ available[MessageEvent] >= 1
    /\ consumer' = [consumer EXCEPT !.pc = "saving", !.seen = available[MessageEvent]]
    /\ UNCHANGED <<messageVars, tableVars, cache, reader, writer, offsetVars, raced, boundVars>>

\* Mutant: a message that cannot be handled is tried again.
ConsumerSkipRetries ==
    /\ consumer.pc = "finding"
    /\ ~Live(MessageEvent) \/ available[MessageEvent] < 1
    /\ consumer' = IdleConsumer
    /\ position' = position - 1
    /\ stored' = position - 1
    /\ UNCHANGED <<messageVars, tableVars, cache, reader, writer, committed, raced, boundVars>>

\* EntityNotFoundException or NoAvailableSeatsException: the catch-all skips
\* the message.
ConsumerSkip ==
    /\ consumer.pc = "finding"
    /\ ~Live(MessageEvent) \/ available[MessageEvent] < 1
    /\ consumer' = IdleConsumer
    /\ UNCHANGED <<messageVars, tableVars, cache, reader, writer, offsetVars, raced, boundVars>>

\* The UPDATE of AvailableSeats to what the entity holds.
TakeSeat ==
    /\ Overtake(MessageEvent)
    /\ available' = [available EXCEPT ![MessageEvent] = consumer.seen - 1]
    /\ taken' = [taken EXCEPT ![consumer.booking] = @ + 1]
    /\ UNCHANGED <<life, content, total>>

\* Mutant: the message is handled again after its seat is taken.
ConsumerSaveTwice ==
    /\ consumer.pc = "saving"
    /\ Live(MessageEvent)
    /\ TakeSeat
    /\ consumer' = [consumer EXCEPT !.pc = "finding"]
    /\ UNCHANGED <<messageVars, cache, reader, writer, offsetVars, boundVars>>

\* Mutant: the entity is never saved.
ConsumerSaveNothing ==
    /\ consumer.pc = "saving"
    /\ Live(MessageEvent)
    /\ consumer' = [consumer EXCEPT !.pc = "removing"]
    /\ UNCHANGED <<messageVars, tableVars, cache, reader, writer, offsetVars, raced, boundVars>>

ConsumerSave ==
    /\ consumer.pc = "saving"
    /\ Live(MessageEvent)
    /\ TakeSeat
    /\ consumer' = [consumer EXCEPT !.pc = "removing"]
    /\ UNCHANGED <<messageVars, cache, reader, writer, offsetVars, boundVars>>

\* The row is gone since the read: DbUpdateConcurrencyException, skipped.
ConsumerMiss ==
    /\ consumer.pc = "saving"
    /\ ~Live(MessageEvent)
    /\ consumer' = IdleConsumer
    /\ UNCHANGED <<messageVars, tableVars, cache, reader, writer, offsetVars, raced, boundVars>>

\* The read or the save throws: skipped, with the save committed or not.
ConsumerFail ==
    /\ Fault
    /\ \/ consumer.pc \in {"finding", "saving"} /\ UNCHANGED <<tableVars, raced>>
       \/ consumer.pc = "saving" /\ Live(MessageEvent) /\ TakeSeat
    /\ consumer' = IdleConsumer
    /\ UNCHANGED <<messageVars, cache, reader, writer, offsetVars>>

ConsumerRemove ==
    /\ consumer.pc = "removing"
    /\ cache' = [cache EXCEPT ![MessageEvent] = NoEntry]
    /\ consumer' = IdleConsumer
    /\ UNCHANGED <<messageVars, tableVars, reader, writer, offsetVars, raced, boundVars>>

ConsumerRemoveFail ==
    /\ Fault
    /\ consumer.pc = "removing"
    /\ consumer' = IdleConsumer
    /\ UNCHANGED <<messageVars, tableVars, cache, reader, writer, offsetVars, raced>>

-----------------------------------------------------------------------------
(***************************************************************************)
(* The process                                                             *)
(***************************************************************************)

\* The process starts again, and the consumer from the committed offset: the
\* earliest if there is none.
StartAt(offset) ==
    /\ restarts < MaxRestarts
    /\ restarts' = restarts + 1
    /\ reader' = [r \in Reader |-> Idle]
    /\ writer' = [w \in Writer |-> Idle]
    /\ consumer' = IdleConsumer
    /\ position' = offset
    /\ stored' = offset
    /\ committed' = offset
    /\ UNCHANGED <<messageVars, tableVars, cache, raced, faults>>

Crash == StartAt(committed)

\* A graceful stop cancels what is in progress, and Close commits what is stored.
Stop == StartAt(stored)

-----------------------------------------------------------------------------
Init ==
    /\ eventOf \in [Booking -> Event]
    /\ topic = <<>>
    /\ life = [e \in Event |-> "unborn"]
    /\ content = [e \in Event |-> Delete]
    /\ total = [e \in Event |-> 0]
    /\ available = [e \in Event |-> 0]
    /\ cache = [e \in Event |-> NoEntry]
    /\ reader = [r \in Reader |-> Idle]
    /\ writer = [w \in Writer |-> Idle]
    /\ consumer = IdleConsumer
    /\ position = 0
    /\ stored = 0
    /\ committed = 0
    /\ taken = [b \in Booking |-> 0]
    /\ raced = {}
    /\ faults = 0
    /\ restarts = 0

Write(w) ==
    \/ \E e \in Event, write \in Content \cup {Delete} : WriterFind(w, e, write)
    \/ WriterSave(w)
    \/ WriterMiss(w)
    \/ WriterSaveFail(w)
    \/ WriterRemove(w)
    \/ WriterRemoveFail(w)

Read(r) ==
    \/ \E e \in Event : ReaderMiss(r, e) \/ ReaderGetFail(r, e)
    \/ ReaderFind(r)
    \/ ReaderSet(r)
    \/ ReaderSetFail(r)

Handle ==
    \/ Consume
    \/ AutoCommit
    \/ ConsumerReserve
    \/ ConsumerSkip
    \/ ConsumerSave
    \/ ConsumerMiss
    \/ ConsumerFail
    \/ ConsumerRemove
    \/ ConsumerRemoveFail

\* What the service does, without the booking service.
ServiceNext ==
    \/ \E e \in Event : Expire(e)
    \/ \E e \in Event, c \in Content, n \in 1 .. MaxSeats : CreateEvent(e, c, n)
    \/ \E w \in Writer : Write(w)
    \/ \E r \in Reader : Read(r)
    \/ Handle
    \/ Crash
    \/ Stop

Next == ServiceNext \/ \E b \in Booking : Publish(b)

Spec == Init /\ [][Next]_vars

(***************************************************************************)
(* Fairness.  A request in progress, the consumer's loop and the client    *)
(* library's commits go on, and an entry with a TTL is dropped in the end. *)
(* No request or message has to arrive, and no failure has to happen.      *)
(***************************************************************************)
Fairness ==
    /\ \A e \in Event : WF_vars(Expire(e))
    /\ \A w \in Writer : WF_vars(WriterSave(w) \/ WriterMiss(w)) /\ WF_vars(WriterRemove(w))
    /\ \A r \in Reader : WF_vars(ReaderFind(r)) /\ WF_vars(ReaderSet(r))
    /\ WF_vars(Consume)
    /\ WF_vars(AutoCommit)
    /\ WF_vars(ConsumerReserve \/ ConsumerSkip)
    /\ WF_vars(ConsumerSave \/ ConsumerMiss)
    /\ WF_vars(ConsumerRemove)

FairSpec == Spec /\ Fairness

-----------------------------------------------------------------------------
(***************************************************************************)
(* Safety                                                                  *)
(***************************************************************************)

Row == [content : Content, available : Nat]

\* What a request, and the loop of the consumer, remember between two calls.
Reading ==
    {Idle} \cup [pc : {"finding"}, event : Event]
           \cup [pc : {"setting"}, event : Event, seen : Row]

Writing ==
    {Idle} \cup [pc : {"saving", "removing"}, event : Event, write : Content \cup {Delete}]

Consuming ==
    {IdleConsumer} \cup [pc : {"finding", "saving", "removing"}, booking : Booking, seen : Nat]

\* Every variable has a value of its kind.
TypeOK ==
    /\ eventOf \in [Booking -> Event]
    /\ topic \in Seq(Booking)
    /\ life \in [Event -> {"unborn", "live", "deleted"}]
    /\ content \in [Event -> Content \cup {Delete}]
    /\ total \in [Event -> Nat]
    /\ available \in [Event -> Nat]
    /\ cache \in [Event -> Row \cup {NoEntry}]
    /\ reader \in [Reader -> Reading]
    /\ writer \in [Writer -> Writing]
    /\ consumer \in Consuming
    /\ position \in Nat
    /\ stored \in Nat
    /\ committed \in Nat
    /\ taken \in [Booking -> Nat]
    /\ raced \in SUBSET Event
    /\ faults \in 0 .. MaxFaults
    /\ restarts \in 0 .. MaxRestarts

\* The seats that messages took of e: which booking, and its how manieth seat.
SeatsTaken(e) == UNION {{b} \X (1 .. taken[b]) : b \in {c \in Booking : eventOf[c] = e}}

\* The seats taken of an event, message by message, are those no longer
\* available: no save of the consumer, of a PUT or of another service run
\* overwrites the count of another, although each writes what it read earlier.
SeatsAccounted == \A e \in Event : total[e] - available[e] = Cardinality(SeatsTaken(e))

Copies(b) == Cardinality({i \in DOMAIN topic : topic[i] = b})

\* One run of the process handles a message at most once, so a booking takes at
\* most one seat for each of its messages and each run.
TakenOncePerRun == \A b \in Booking : taken[b] <= Copies(b) * (restarts + 1)

\* Offsets never overtake what was consumed: a message the broker thinks handled
\* was returned by Consume in this run or in an earlier one.
CommittedWasConsumed == committed <= stored /\ stored <= position /\ position <= Len(topic)

\* The cache holds something else than the row.
Stale(e) == cache[e] # NoEntry /\ (~Live(e) \/ cache[e] # Snapshot(e))

\* Somebody wrote the row of e and will remove the entry next.
Removing(e) ==
    \/ \E w \in Writer : writer[w].pc = "removing" /\ writer[w].event = e
    \/ consumer.pc = "removing" /\ MessageEvent = e

\* A cache entry is old only while its removal is under way, after a GET that was
\* overtaken by a write, or after a failure or a restart: the removal after the
\* save leaves no other window.
StaleHasCause ==
    \A e \in Event :
        Stale(e) => Removing(e) \/ e \in raced \/ faults > 0 \/ restarts > 0

\* The events service implements the seat ledger: the consumer's read, check and
\* save of AvailableSeats are one step with respect to the seats.
Seats == INSTANCE SeatLedger

SeatsSpec == Seats!Spec

-----------------------------------------------------------------------------
(***************************************************************************)
(* Liveness                                                                *)
(***************************************************************************)

\* Every message is handled and its offset committed, whatever becomes of it:
\* a message that cannot be handled does not stop the ones behind it.
MessagesCommitted ==
    \A i \in 1 .. MaxMessages : Len(topic) >= i ~> committed >= i

\* A message about b is still to be consumed.
Waiting(b) == \E i \in position + 1 .. Len(topic) : topic[i] = b

\* As long as nothing fails and nothing restarts, a message takes a seat, unless
\* its event is sold out or deleted before.
MessageTakesSeat ==
    \A b \in Booking :
        Waiting(b) /\ Live(eventOf[b]) ~> \/ taken[b] > 0
                                         \/ ~Live(eventOf[b])
                                         \/ available[eventOf[b]] = 0
                                         \/ faults > 0
                                         \/ restarts > 0

\* Once the row is not written any more, the cache entry is right in the end and
\* stays so, whatever raced, failed or was cut off before: the TTL removes what
\* the invalidation missed, and no GET puts an old row back for ever.
EventuallyFresh ==
    <>[][UNCHANGED tableVars]_vars => \A e \in Event : <>[]~Stale(e)

-----------------------------------------------------------------------------
(***************************************************************************)
(* What the repository says of the service and the code does not keep      *)
(***************************************************************************)

\* The consumer receives the message, finds the event and reduces AvailableSeats
\* (README.md:163), by the SeatsCount of the one booking it is about.
OneSeatPerMessage == \A b \in Booking : taken[b] <= Copies(b)

=============================================================================
