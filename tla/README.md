# TLA+ verification of EventAPI

EventAPI is a ticketing backend of three .NET services. A caller registers and
logs in with **Auth**, reads events from **Events** and books them with
**Bookings**. Bookings confirms a booking in the background and announces it on a
Kafka topic; Events consumes the topic and takes a seat. Each service has its own
PostgreSQL database; Events also has a Redis cache.

This directory models the services in TLA+, and the one script of their pages; it checks
the models with TLC and proves theorems about each of them with TLAPS. Paths below are relative to the
repository, `BookingService/` etc. to `src/EventAPI/`.

## 1. Inventory

| Part | State | Operations | Talks to |
|---|---|---|---|
| Booking commands and query (`BookingService/Booking.Application`, `Booking.Domain`) | table `bookings`; static `AdditionSemaphore` | POST `/bookings/{eventId}`, GET and DELETE `/bookings/{id}` | PostgreSQL |
| Booking worker (`BookingBackgroundService`, `KafkaPublisher`) | the tasks of a round, each with the entity it loaded | poll, `ProcessBookingAsync`, produce | PostgreSQL, topic `booking-confirmed` |
| Events, single (`EventService/Events.Application/UseCases`, `GetEventByIdQueryHandler`, `RedisEventCache`) | table `events`; Redis keys `event:{id}` | POST, PUT, DELETE `/events`, GET `/events/{id}` | PostgreSQL, Redis |
| Events consumer (`BookingConfirmedConsumer`) | position, stored and committed offset | consume, reserve, save, remove the cache entry | the topic, PostgreSQL, Redis |
| Events, list and top ten (`EventRepository.GetFilteredAsync`, `GetTopAsync`) | Redis key `events:top10` | GET `/events`, GET `/events/top` | PostgreSQL, Redis |
| Auth (`AuthService`) | table `users` with a unique index on `Login` | POST `/auth/register`, `/auth/login`, GET `/users/{id}` | PostgreSQL |
| Reconnection dialog (`Booking.Api/Components/Layout/ReconnectModal.razor.js`, the same file again in `Events.Api`) | the dialog, the `visibilitychange` listener, calls of `retry` and `resume` in progress | the events of the Blazor runtime, two buttons, the document becoming visible | the Blazor runtime in the page, and through it the server |
| Plumbing | none of its own | dependency injection, JWT validation, Swagger, health, migrations | |

The services never call each other: all they share is the topic, and the claims of
a token that Auth signs.

What is hard, and what has to hold:

* **POST /bookings.** The count of pending bookings and the insert are two round
  trips under a semaphore. The permit must come back on every path; nobody may
  exceed the limit.
* **The worker against DELETE.** Both read a row and write it back later (the worker
  ten seconds later) and there is no concurrency token. A decision must not be
  undone, and must become final.
* **Save, then produce.** Two systems, no outbox: an announcement can be lost, must
  not be made before the decision or twice.
* **One failure of many.** A read outside the `try` faults `Task.WhenAll`, stops the
  host and leaves everything to the restart.
* **Consume, handle, commit.** Offsets are stored at delivery and committed by a timer:
  messages come again after a crash. Every failing message is skipped; the loop must
  go on.
* **One row, three writers.** PUT, DELETE and the consumer write the same row from
  earlier reads; GET caches one.
* **Lists.** The total and the page are two queries; the offset is a product of two
  ints; the top ten is an ordering that is cached and rebuilt from snapshots.
* **Register.** Check, then insert; the unique index decides races.
* **Reconnecting.** `retry` and `resume` are asynchronous and overlap: with themselves, with
  the runtime's own attempts, and with the user, who comes, goes and may dismiss the
  dialog with Escape. Answers of old calls are acted on in a later outage, or after another
  call has connected the page. The listener that starts the next retry must neither get
  lost nor pile up, and a session the server still has must not be thrown away by a reload.

`PROJECT.json` lists the hazards line by line, with the properties that cover each.

## 2. Modules

| Module | What it is |
|---|---|
| `BookingLedger` | abstract: a ledger that is atomic about the limit, the decision and the announcement |
| `BookingService` | POST, GET, DELETE of bookings, the worker, the producer, failures and restarts |
| `BookingServiceProofs` | theorems about `BookingService`, with proofs |
| `SeatLedger` | abstract: seats that are only taken, one at a time, never below zero |
| `EventService` | POST, PUT, DELETE, GET of an event, its cache entry, the consumer and its offsets |
| `EventServiceProofs` | theorems about `EventService`, with proofs |
| `EventsApiSystem` | the two services over one topic |
| `EventsApiSystemProofs` | theorems about both services together, from the lemmas about each |
| `EventQueries` | GET of a page of events and of the top ten with its entry, over a table that is written meanwhile |
| `EventQueriesProofs` | theorems about `EventQueries`, with proofs |
| `AuthService` | registration against the unique index, and what a login is answered |
| `AuthServiceProofs` | theorems about `AuthService`, with proofs |
| `ReconnectModal` | the script of the reconnection dialog, between the runtime, the server and the user |
| `ReconnectModalProofs` | theorems about `ReconnectModal`, with proofs |
| `MC...` | instances for TLC: model values, symmetry |

**Granularity.** A step ends where the code awaits something outside the process:
a database round trip, a produce, a Redis call, a delay. What a handler does
between two awaits is one action. A row that was read stays in the handler's own
state (`cancelling`, `task[b].seen`, `consumer.seen`, `reader[r].seen`,
`writer[w]`), and is written back by a later action, whatever the table holds then.

**Names.** `b \in Booking` is at once a POST and the booking it may create:
`Guid.NewGuid()` gives each request a fresh id. Likewise for events and users.

**Booking service.** `CreateArrive`, `CreateAbandon` and `CreateAcquire` are the wait
for the semaphore; `CreateCount` and `CreateRefuse` the count and the comparison;
`CreateSave` the insert with the release of the `finally`; `CreateFail` a throwing
count or save. `CancelFind` and `CancelSave` are the two halves of DELETE. `Poll`
starts a task for each pending booking; `TaskFind`, `TaskConfirm` or `TaskRefuse`,
and `TaskPublish` are the steps of `ProcessBookingAsync`; `RoundEnd` is the end of
`Task.WhenAll`, and stops the worker if a task is faulted. `HostStop` and `Crash`
start the process again: table and topic survive, all else is lost.

**Failures.** A save that throws may have been committed or not (`SaveThrows`). A
produce that fails has lost the message, stored it, or stored it twice (the producer
is not idempotent). What was sent to the database before a crash is taken as
committed or lost by the time the process runs again.

**Events service.** `WriterFind`, `WriterSave`, `WriterRemove` are the steps of PUT and
DELETE; `ReaderMiss`, `ReaderFind`, `ReaderSet` of a GET that misses; `Consume`,
`ConsumerReserve`, `ConsumerSave`, `ConsumerRemove` of the consumer. EF Core writes
the columns that changed, so a PUT does not write the seats nor the consumer the
content, and a PUT that changes nothing writes nothing. A row that is gone makes the
save throw (`WriterMiss`, `ConsumerMiss`). `AutoCommit` is the client library's timer;
`Stop` commits what is stored (`Close`), `Crash` does not. `taken`, `raced`, `attempts`
are history variables.

**System.** `EventsApiSystem` instantiates both services over the same `topic`,
`eventOf` and `faults`; a step is a step of one of them. In it the topic is written by
`TaskPublish` only, and the environment action `Publish` of `EventService` is unused.

**Event queries.** `ListCount`, and `ListPage` or `ListFail`, are the two queries of
`GetFilteredAsync`; the offset is multiplied at the width of `int` (`Wrap`, modulo twice
`MaxInt + 1`). The page has
no `ORDER BY`, so it is any set of matching rows of the right size: an event may be on
two pages or on none. `Ranking` is the `ORDER BY` of `GetTopAsync`, some order of the rows in which each comes
before the next, and `GetTop` its `Take`. `TopHit`, `TopFind` and `TopSet` are GET `/events/top`; a hit
rebuilds each event from its snapshot as `EventSnapshot.ToEvent` does. The shares of sold
seats are compared by cross-multiplication, which agrees with the quotients of the query
as long as doubles tell them apart. Titles and periods are abstracted to kinds, a filter to
the kinds it lets through. The writes are those of the handlers and the consumer, at
the moment of their save.

**Reconnection dialog.** Code of the script: `Show`, `Hide`, `Failed` and `Reload` are the
branches of `handleReconnectStateChanged`; `Retry` the first part of `retry`, started by
`ClickRetry` or by `ReturnAndRetry` (`retryWhenDocumentBecomesVisible`), and `ClickResume` that of
`resume`. `attempt[a]` is the `await` at which a call is, and `answer[a]` what it has been answered.
The answer and what the script does on it are two steps: the server answers as it is at the time
(`Answer`: `ReconnectTrue`, `Refuse`, `Restore`, `Decline`, `Unreached`), and the script acts on it
later, whatever has happened since (`Act`: `ReconnectFalse`, `RetryResumed`, `RetryReload`, `RetryThrows`
for `retry`, `ResumeTrue`, `ResumeReload`, `ResumeThrows` for `resume`). So an answer may be stale when
the script acts on it. The one answer without a second step is `true` to `reconnect`, on which
`retry` does nothing.

Environment: the runtime loses (`Drop`) and regains the connection, gives up (`GiveUp`)
or is rejected; the server pauses a session, keeps it (`"kept"`) or loses it (`Evict`), and is
reachable or not (`ServerTurns`); the user leaves the page, comes back, and may close the dialog
(`Dismiss`: Escape closes what `showModal` opened), which puts its buttons out of reach. What
`reconnect` and `resumeCircuit` answer is taken from the
script's own comments (lines 27-30 and 33). Three assumptions about the runtime: it dispatches
`hide` whenever the page is connected again, it dispatches `rejected` only when the session is
lost, and it answers each call by itself, not two of them with one answer.
The code of the two services' `Program.cs` maps no Razor components, so at present no page
loads the script; it is modelled as a page that loads it would run it.

## 3. Runs

| Run | Shows | Instance |
|---|---|---|
| `booking` | permit, limit, decisions, announcements, refinement of `BookingLedger`; POSTs are answered, pending bookings decided, confirmed ones announced | 3 POSTs of one caller, limit 1, 1 DELETE at a time, 2 failures |
| `events_safety` | seats accounted for, offsets, causes of staleness, refinement of `SeatLedger` | 1 event of 1 or 2 seats, 2 bookings, 3 messages, 1 GET, 2 PUTs or DELETEs, 1 failure, 1 restart |
| `events_liveness` | messages get committed and take their seat; a cache entry is right for good once its row is not written any more | 1 seat, 2 messages, 1 failure, 1 restart |
| `system` | seats are taken for announced bookings only, and no more than there are; pending bookings get their seat | 2 bookings of one caller, 1 event of 1 or 2 seats, 1 DELETE, 1 failure, 1 restart of Events |
| `auth` | accepted registrations can log in; refusals have a reason | 3 registrations, 2 logins, 2 passwords, 1 failure |
| `queries` | pages are right for every offset that fits an int; the top ten is the ranking of one moment | 3 events of 1 or 2 seats, 2 kinds, ints of 4 bits, pages of up to 3, a top two, 4 writes |
| `reconnect` | retries do not pile up, a page that was given up recovers, sessions are not lost to a reload without a click | 3 calls at once, 2 clicks on a page |
| `booking_cancelled_is_final` | **violated**: a cancelled booking is confirmed | |
| `booking_confirmed_is_announced` | **violated**: a confirmed booking is never announced | |
| `events_redelivery` | **violated**: one message takes two seats | |
| `system_overbooking` | **violated**: more bookings are confirmed than there are seats | |
| `booking_get_cancelled` | **violated**: the GET of a cancelled booking is answered 400 | |

The bounds are named in the modules: `MaxFaults`, `MaxRestarts`, `MaxMessages`,
`MaxSeats`, `MaxWrites`, `MaxClicks`, and the sets of requests. They are chosen so that the hazards happen:
three POSTs against a limit of one fill the limit with others waiting, and leave one waiting behind a
refused one; a DELETE races the worker and the POSTs; two failures allow a failure in the recovery from the
first; two callers and two DELETEs of one booking at a time are left to the theorems, which are about all of them;
three messages for at most two seats include a duplicate and a sold-out event;
two writers let one delete the row that the other has found; a restart delivers a
message again. In `queries`, page
numbers reach past the largest int, where offsets become negative or wrap to another
page; three events compete for two places; and four writes are enough for an event that
sold all of its one seat to overtake one that sold one of two. One event is enough in the
events runs, because rows, entries and messages of different events share nothing but
the consumer's loop; the loop's progress past a message it skips is there with one
event too (`MessagesCommitted`). In `reconnect`, two
clicks and the listener start at most three calls that are under way between two loads of the page
(`AttemptsBounded`), so two of them overlap in every combination, with a third that the user did not ask for. The `auth` run disables the deadlock check, because
its requests are finite; in the other runs the worker or the environment can always go on.

### Fairness

`BookingService!Fairness` and `EventService!Fairness` say that a handler or task
that waits for nobody goes on: its query, produce or delay ends, successfully when
no fault is left. This is what the task scheduler and the timeouts of the clients
give. `CreateAcquire` has strong fairness, as `SemaphoreSlim` hands its permit to
waiters in the order they came: the permit is taken and given back over and over. `HostStop` is weakly
fair because Docker restarts the container (`restart: unless-stopped`,
`docker-compose.yml:126`). `Expire` is weakly fair: every entry has a positive TTL
(`Events.Infrastructure/DependencyInjection.cs:31`). By itself that makes no entry right, as a GET that
read an old row may set it after the TTL: `EventuallyFresh` needs that the GETs in progress end, that a hit
sets nothing, and that a later GET reads the row. Nothing is assumed of clients: no
request has to arrive, and one that waits may be abandoned. No failure has to happen.
`ReconnectModal!Fairness` says that an awaited call is answered or throws, that the script
acts on the answer, that the runtime ends its own attempts by regaining the connection or giving up, and that a page that is
being loaded from a reachable server gets loaded. Nothing is assumed of the server and the user; `FailedRecovers` has as
hypotheses that the server is reachable from some time on and that the user leaves
the page and comes back again and again. It needs no click and no dialog.

`AnnouncedUnlessFailure`, `MessageTakesSeat` and `PendingGetsSeat` have the disjunct
`faults > 0` (or `restarts > 0`), as the code gives no such guarantee across failures;
`ConfirmedIsAnnounced` is the first without it, and is violated. `PendingDecided`, `CreateAnswered`, `MessagesCommitted`
and `EventuallyFresh` hold with failures and restarts.

### What the repository says and the code does not do

1. A booking whose DELETE was answered 200 is confirmed by a task that loaded it
   before (`Booking.cs:38` against `BookingBackgroundService.cs:60`). `DecisionStands`
   says what remains true: the decision is never withdrawn, only replaced, and it is
   final when no handler holds the row as pending.
2. A confirmed booking may never be announced (`README.md:163` against
   `BookingBackgroundService.cs:60-62`).
3. A message handled before a crash and committed after it takes another seat
   (`README.md:163` against `BookingConfirmedConsumer.cs:29`, `:64`).
4. The booking after the last seat is created and confirmed (`README.md:105-108`
   against `CreateBookingCommandHandler.cs:28`).
5. The owner of a cancelled booking cannot read it: the answer is 400 (`README.md:65` against
   `BookingMapping.cs:20`).

Read, or met in the models, and not given a run:

* A message whose offset is committed before its save is lost when the process stops, and `Dispose`
  commits it at a graceful stop too: `Consume` and `Stop` are such a behaviour of `EventService`
  (`README.md:163` against `BookingConfirmedConsumer.cs:29`, `:42`, `:94`). `MessageTakesSeat` excepts it.
* A page number that the validation accepts (`GetEventsQuery.cs:26`) is answered 500 where
  `(page - 1) * pageSize` is negative as an int (`README.md:57` against `EventRepository.cs:34`). Where
  it wraps to a positive number, the answer is another page. `PageRight` states the bound up to which pages
  are right and requests do not fail.
* A retry can reload a page whose session is alive, although the script's comment says that it is then
  no longer available (`ReconnectModal.razor.js:33-34` against line 37): two
  clicks start two retries, both are refused by `reconnect`, the first resumes the session, and for the
  second there is nothing left to resume. The script does not prevent it; a runtime that answered
  both calls of `resumeCircuit` with one `true` would. `SessionKept` states what remains true: without a
  click no session is lost.
* The exception of the limit has no case in the middleware and is answered 500 (`README.md:64` says 409).
* A registration that loses the race to the unique index is answered 500 (`README.md:52` says 409).
* `README.md:168` says that `/events/top` needs no authorization, and the controller requires it.
* `README.md:170` says that creating an event removes its entry, which the handler does not do and need
  not, the id being new.

## 4. Proofs

Every theorem is proved for all values of the constants that the modules' `ASSUME`s
allow: any sets of bookings, users, requests, events (finite where cardinalities are taken),
any limit, any numbers of failures, restarts, clicks and calls.

| Module | Theorem | Statement |
|---|---|---|
| `BookingServiceProofs` | `TypeCorrect` | `Spec => []TypeOK` |
| | `PermitConserved` | `Spec => []PermitConservation` |
| | `DecisionsStand` | `Spec => DecisionStands` |
| | `LimitHolds` | `Spec => []PendingLimit` |
| | `AnnouncedAtMostOnce` | `Spec => []AnnouncedOnce` |
| | `MessagesAfterDecision` | `Spec => []MessageAfterDecision` |
| | `ImplementsLedger` | `Spec => LedgerSpec` |
| `EventServiceProofs` | `TypeCorrect` | `Spec => []TypeOK` |
| | `ImplementsSeatLedger` | `Spec => SeatsSpec` |
| | `OffsetsBehind` | `Spec => []CommittedWasConsumed` |
| | `StaleExplained` | `Spec => []StaleHasCause` |
| | `TakenOnce` | `Spec => []TakenOncePerRun` |
| | `SeatsAddUp` | `Spec => []SeatsAccounted` |
| `EventsApiSystemProofs` | `SeatsAreAnnounced` | `Spec => []SeatForAnnouncedBooking` |
| | `SeatsSoldAreBooked` | `Spec => []SeatsSoldForBookings` |
| | `LedgersKept` | `Spec => Bookings!LedgerSpec /\ Events!SeatsSpec` |
| | `PromisesKept` | `Spec =>` `[]` of the services' own `PermitConservation`, `PendingLimit`, `AnnouncedOnce`, `MessageAfterDecision`, `SeatsAccounted`, `CommittedWasConsumed`, `TakenOncePerRun` |
| `EventQueriesProofs` | `TypeCorrect` | `Spec => []TypeOK` |
| | `PagesAreRight` | `Spec => []PageRight` |
| | `TopIsRanked` | `Spec => []TopRanked` |
| `AuthServiceProofs` | `TypeCorrect` | `Spec => []TypeOK` |
| | `AcceptedLogsIn` | `Spec => []AcceptedCanLogin` |
| | `RefusalsJustified` | `Spec => []RefusalJustified` |
| `ReconnectModalProofs` | `TypeCorrect` | `Spec => []TypeOK` |
| | `AttemptsStayBounded` | `Spec => []AttemptsBounded` |
| | `NobodyStranded` | `Spec => []NeverStranded` |
| | `SessionsKept` | `Spec => SessionKept` |

**Booking service.** The inductive invariant has five parts, each inductive relative to
those before it:

1. `TypeOK`.
2. `PermitConservation`: the permit is in the semaphore or with exactly one POST.
3. `RowInv`: a POST that is not answered has no row, and only rows are loaded. Without it
   the save of a POST could overwrite a decision.
4. `LimitInv`: `PendingLimit`, and room for one more booking of the owner while its POST
   is between count and save. `PendingLimit` alone is not inductive: nothing in it says
   that what was counted is still true at the save. It is, because by
   `PermitConservation` no other POST saves in between and by `StatusStep` everything
   else only takes bookings out of Pending.
5. `MessageInv`: a task about to publish has a decided booking that was never announced,
   and so has a task that will confirm. `AnnouncedOnce` alone is not inductive: it must
   be known that a booking is out of Pending, thus out of later polls, before its
   announcement.

`ImplementsLedger` maps `announced` to the bookings with an attempted announcement.
`CreateSave` becomes `Submit`, by `LimitInv`; `TaskConfirm` and `CancelSave` become
`Decide`, or `Overwrite` when they lose the race; `TaskPublish` becomes `Announce`, by
`MessageInv`; every other step stutters.

**Events service.** `TypeOK` alone is not inductive: that the consumer's save leaves a number
of seats between zero and the total depends on what it read. `Typed` adds `RowsOpened` (an event has no seats
before it is created) and `ClaimHolds`: while the consumer is about to save, the row still has
the free seats that it read, at least one, because PUT and DELETE never write that
column. The refinement of `SeatLedger` follows from `Typed`: `ConsumerSave` becomes `Take`,
`CreateEvent` becomes `Open`, all else stutters. The offsets are inductive over `Typed`. `StaleExplained`
needs `HeldIsFresh`: what a GET is about to cache is the row, or the event was `raced`. `TakenOnce`
needs a count (`RunsCounted`): what was taken for a booking, and the message at hand, are no more
than its messages times the runs before this one, and those up to the position of this one.

`SeatsAccounted` is a sum over bookings. `SeatsTaken` turns it into one cardinality: the pairs of a booking and
the number of one of its seats, so that a seat taken is one element added (`AccountsTaken`), and no induction
over the bookings is needed. It is inductive over `Typed`, with the finiteness of these sets:
by `ClaimHolds` the seat count that the consumer writes is one less than what is there, and by `RowsOpened`
an event is opened with no seat taken. `SoldByMessages` gives each of those seats a message and a run of its own, by an
injection: the first `restarts + 1` seats of a booking belong to its first message, the next ones to its second.

**The system.** All is proved from the parts. The booking service's
invariants and the events service's are each kept by their own steps, by the lemmas of
their modules. A step of the booking service leaves the tables of the events service alone and
adds to the topic: to the events service it is `Arrive`, and each of its invariants is shown to be kept
by `Arrive` too. A step of the events service leaves the booking service and the topic alone and only
counts failures. So both hold together; a seat that was taken comes from a
message (`TakenOncePerRun`), a message from an announcement (`MessageInv`), and without
failures there is one message for a booking (`CleanTopic`), and in the first run of the consumer one
seat for a message. `SeatsSoldAreBooked` counts them for an event: seats against messages by `SoldByMessages`,
messages against bookings by `CleanTopic`. It is what remains, across the two databases, of the promise that
`system_overbooking` refutes: confirmed bookings may exceed the seats, but seats sold never exceed
what was announced, up to redelivery. `LedgersKept` takes the two refinements
into the system, where each service makes its steps among those of the other.

**Queries.** `PageRight` is inductive with two additions: the types of what a request keeps
between its two queries (`Paging`), and `Counted`: the count of a request that no write overtook is
that of the table. The rest is arithmetic: `WrapFits` (an offset that an int can hold is not wrapped) and
`PlacesOnPage` (how many of n items are on a page, from the bounds of a quotient).

`TopRanked` is about answers too; inductive is `TopRead`: the entry, a request about to set it and an
answer have the `GetTop` of a table whose rows have no more free seats than seats, so that `ToEvent` gives
back what the snapshot was made from (`HitIsRead`). That `GetTop` is the ranking is `GetTopRanked`. The order is strict and total
(`BeforeOrders`: fractions compared by cross-multiplication are transitive, `SharesTransitive`), so the number of
events ahead is different for any two events, an injection of the rows into `1 .. n`, and by the pigeonhole principle each
number is the place of one event. So an ordered sequence of the rows exists (`SortedExists`; without it `Ranking` could be
anything), and any ordered one has each event at its place (`SortedPlaces`). No induction over the length is needed.

**Auth.** `AcceptedCanLogin` rests on `OneRow`, that no login has two rows, which is the
unique index, and `AcceptedRow`, that the row of an accepted registration is in the table; both
because no row is ever deleted (`TableGrows`).

**Reconnection dialog.** `AttemptsBounded` and `NeverStranded` are inductive over `TypeOK`; the
first by cardinalities: a call that starts adds one to those under way (`Busy`) and takes the
listener, or a click, away; one that ends by an exception gives its place to the listener.
`SessionKept` does not follow from them: that a reload finds the session lost depends on when the two
answers behind it were given. `Unclicked` says that on a page without a click at most one call is under way,
only while the page is given up and without the listener (`Alone`), and that what it was answered
still holds (`Current`): after a refused `reconnect` the session is not in memory, after a refused
`resumeCircuit` it is lost. The only other steps then possible, `Evict` and those of the user, keep that.
With a click, calls overlap and neither half holds.

**Only model-checked.** The liveness properties (`CreateAnswered`, `PendingDecided`, `AnnouncedUnlessFailure`,
`MessagesCommitted`, `MessageTakesSeat`, `EventuallyFresh`, `PendingGetsSeat`, `FailedRecovers`), as the
prover has neither fairness nor `ENABLED`. Every invariant and action property of the passing runs is proved.

## 5. Not modelled

Migrations (generated, run before the service accepts requests);
JWT validation, Swagger, health checks and dependency injection (the framework's);
password hashing and token signing (`AuthService` models what they answer, not how);
malformed messages (the only producer serialises the record that the consumer reads);
the creation of the topic at start-up (with one partition, so messages have one
order); several instances of a service. `AdditionSemaphore` is static,
one per process, so two instances of Bookings would not keep the limit;
`docker-compose.yml` runs one. Of the pages, only the reconnection script has behaviour of its own; the
Razor components and style sheets are layout.

What the models leave out of the parts they model:

* A failed save is committed, or lost, by the time the handler goes on. In `CreateFail` it is so before the
  `Release` of line 34; a commit that lands only after it, on a connection that was cut, could come
  between the count and the insert of the next POST, and `PendingLimit` says nothing of that.
* The consumer stays in its group for as long as the process runs. A group that evicts it and lets it join
  again would hand it messages of the same run a second time; the properties that count seats per run
  (`TakenOncePerRun`, `SeatsSoldForBookings`) count starts of the process.
* The queries of `EventQueries` do not fail in the database; a failing one is answered 500 and changes nothing.
