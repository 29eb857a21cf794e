--------------------------- MODULE BookingService ---------------------------
(***************************************************************************)
(* The booking microservice: the command handlers behind POST and DELETE   *)
(* /bookings, the query behind GET /bookings/{id}, and the hosted          *)
(* background worker that confirms pending bookings and announces them on  *)
(* the Kafka topic "booking-confirmed".                                    *)
(*                                                                         *)
(* Every step ends where the C# code awaits something that leaves the      *)
(* process: a PostgreSQL round trip, a Kafka produce or a delay.  A row is *)
(* read into an EF Core entity by one step and written back by a later     *)
(* one; the mapping declares no concurrency token, so the write is         *)
(* unconditional.                                                          *)
(*                                                                         *)
(* The id of a booking names the request that creates it: Guid.NewGuid()   *)
(* gives every POST a fresh id, so a POST that is refused is a member of   *)
(* Booking that never becomes a row.                                       *)
(***************************************************************************)
EXTENDS Naturals, Sequences, FiniteSets

CONSTANTS
    Booking,               \* ids of the bookings, one for each POST
    User,                  \* callers, the sub claim of their token
    Admin,                 \* the callers whose role claim is admin
    Event,                 \* ids of events, taken from the POST's route
    CancelRequest,         \* DELETE requests that may be in progress at once
    NoBooking,             \* no booking is loaded
    BookingLimitPerUser,   \* 10 in the code
    MaxFaults              \* bound: failures of PostgreSQL, Kafka or the host

ASSUME BookingAssumption == IsFiniteSet(Booking)
ASSUME NoBookingAssumption == NoBooking \notin Booking
ASSUME AdminAssumption == Admin \subseteq User
ASSUME LimitAssumption == BookingLimitPerUser \in Nat \ {0}
ASSUME FaultsAssumption == MaxFaults \in Nat

VARIABLES
    \* The POST requests
    owner,        \* the caller of the POST
    eventOf,      \* the event of the POST
    createPc,     \* where each POST is
    permits,      \* CurrentCount of the static AdditionSemaphore
    \* The bookings table
    status,       \* status of the row, "None" while there is no row
    \* The DELETE requests
    cancelling,   \* the booking a DELETE has loaded and is about to save
    \* The background worker
    worker,       \* where ExecuteAsync is
    task,         \* where the ProcessBookingAsync of each booking is
    \* The Kafka topic
    topic,        \* bookings of the messages, in the order of the partition
    attempts,     \* history: calls of PublishBookingConfirmedAsync
    faults        \* failures so far

requestVars == <<owner, eventOf>>
createVars == <<createPc, permits>>
workerVars == <<worker, task>>
kafkaVars == <<topic, attempts>>
vars == <<requestVars, createVars, status, cancelling, workerVars, kafkaVars, faults>>

\* The enum without Rejected: nothing in the service calls Booking.Reject.
BookingStatus == {"Pending", "Confirmed", "Cancelled"}

CreatePc == {"idle", "waiting", "counting", "saving",
             "accepted", "limit", "failed"}

Task == [pc : {"none", "find", "delay", "publish", "faulted"},
         seen : BookingStatus \cup {"None"}]

NoTask == [pc |-> "none", seen |-> "None"]

-----------------------------------------------------------------------------
(***************************************************************************)
(* Queries                                                                 *)
(***************************************************************************)

\* The rows of BookingRepository.GetPendingAsync.
Pending == {b \in Booking : status[b] = "Pending"}

\* BookingRepository.CountPendingByUserAsync.
PendingOf(u) == {b \in Pending : owner[b] = u}

\* ExceptionHandlingMiddleware: the code that answers each exception.
StatusCode ==
    [None |-> 200, EntityNotFound |-> 404, AccessDenied |-> 403, Argument |-> 400]

\* BookingMapping.MapStatus: there is no case for Cancelled.
MapStatus(s) == IF s \in {"Pending", "Confirmed", "Rejected"} THEN "None" ELSE "Argument"

\* The answer to GET /bookings/{id}, by the exception that the handler or the mapping
\* of its result throws.  All but the owner are refused, administrators too.
GetById(b, u) ==
    StatusCode[CASE status[b] = "None" -> "EntityNotFound"
                 [] status[b] # "None" /\ owner[b] # u -> "AccessDenied"
                 [] status[b] # "None" /\ owner[b] = u -> MapStatus(status[b])]

-----------------------------------------------------------------------------
(***************************************************************************)
(* The table                                                               *)
(***************************************************************************)

\* SaveChangesAsync writes the status of the loaded row, whatever it now holds.
Save(b, s) == status' = [status EXCEPT ![b] = s]

\* SaveChangesAsync throws.  It may have been committed all the same: the
\* connection, or the caller's patience, may end after the commit.
SaveThrows(b, s) == UNCHANGED status \/ Save(b, s)

-----------------------------------------------------------------------------
(***************************************************************************)
(* POST /bookings/{eventId}                                                *)
(***************************************************************************)

\* The handler waits for the semaphore, outside the try block.
CreateArrive(b) ==
    /\ createPc[b] = "idle"
    /\ createPc' = [createPc EXCEPT ![b] = "waiting"]
    /\ UNCHANGED <<requestVars, permits, status, cancelling, workerVars, kafkaVars, faults>>

\* Mutant: the wait inside the try block, so that its finally releases a permit
\* that the abandoned request never had.
CreateAbandonReleases(b) ==
    /\ createPc[b] = "waiting"
    /\ createPc' = [createPc EXCEPT ![b] = "failed"]
    /\ permits' = permits + 1
    /\ UNCHANGED <<requestVars, status, cancelling, workerVars, kafkaVars, faults>>

\* The client gives up while it waits: WaitAsync throws, nothing to release.
CreateAbandon(b) ==
    /\ createPc[b] = "waiting"
    /\ createPc' = [createPc EXCEPT ![b] = "failed"]
    /\ UNCHANGED <<requestVars, permits, status, cancelling, workerVars, kafkaVars, faults>>

\* Mutant: no wait for the permit.
CreateAcquireUnguarded(b) ==
    /\ createPc[b] = "waiting"
    /\ permits' = permits - 1
    /\ createPc' = [createPc EXCEPT ![b] = "counting"]
    /\ UNCHANGED <<requestVars, status, cancelling, workerVars, kafkaVars, faults>>

CreateAcquire(b) ==
    /\ createPc[b] = "waiting"
    /\ permits > 0
    /\ permits' = permits - 1
    /\ createPc' = [createPc EXCEPT ![b] = "counting"]
    /\ UNCHANGED <<requestVars, status, cancelling, workerVars, kafkaVars, faults>>

\* The way out of the try block: the answer, and the Release of its finally.
CreateLeave(b, answer) ==
    /\ createPc' = [createPc EXCEPT ![b] = answer]
    /\ permits' = permits + 1

\* Mutant: > for >= in the comparison with the limit.
CreateCountAtLimit(b) ==
    /\ createPc[b] = "counting"
    /\ Cardinality(PendingOf(owner[b])) <= BookingLimitPerUser
    /\ createPc' = [createPc EXCEPT ![b] = "saving"]
    /\ UNCHANGED <<requestVars, permits, status, cancelling, workerVars, kafkaVars, faults>>

\* The owner is below the limit: go on to add the booking and save it.
CreateCount(b) ==
    /\ createPc[b] = "counting"
    /\ Cardinality(PendingOf(owner[b])) < BookingLimitPerUser
    /\ createPc' = [createPc EXCEPT ![b] = "saving"]
    /\ UNCHANGED <<requestVars, permits, status, cancelling, workerVars, kafkaVars, faults>>

\* Mutant: the limit exception leaves without the finally.
CreateRefuseKeepsPermit(b) ==
    /\ createPc[b] = "counting"
    /\ Cardinality(PendingOf(owner[b])) >= BookingLimitPerUser
    /\ createPc' = [createPc EXCEPT ![b] = "limit"]
    /\ UNCHANGED <<requestVars, permits, status, cancelling, workerVars, kafkaVars, faults>>

\* BookingLimitReachingException.
CreateRefuse(b) ==
    /\ createPc[b] = "counting"
    /\ Cardinality(PendingOf(owner[b])) >= BookingLimitPerUser
    /\ CreateLeave(b, "limit")
    /\ UNCHANGED <<requestVars, status, cancelling, workerVars, kafkaVars, faults>>

CreateSave(b) ==
    /\ createPc[b] = "saving"
    /\ Save(b, "Pending")
    /\ CreateLeave(b, "accepted")
    /\ UNCHANGED <<requestVars, cancelling, workerVars, kafkaVars, faults>>

\* The count or the save throws.
CreateFail(b) ==
    /\ faults < MaxFaults
    /\ faults' = faults + 1
    /\ \/ createPc[b] = "counting" /\ UNCHANGED status
       \/ /\ createPc[b] = "saving"
          /\ SaveThrows(b, "Pending")
    /\ CreateLeave(b, "failed")
    /\ UNCHANGED <<requestVars, cancelling, workerVars, kafkaVars>>

-----------------------------------------------------------------------------
(***************************************************************************)
(* DELETE /bookings/{id}                                                   *)
(***************************************************************************)

\* The handler loads the row and cancels the entity in memory.  The other
\* callers are answered 404, 403 or 400 and change nothing.
CancelFind(r, b, u) ==
    /\ cancelling[r] = NoBooking
    /\ status[b] # "None"
    /\ u \in Admin \/ owner[b] = u
    /\ status[b] = "Pending"
    /\ cancelling' = [cancelling EXCEPT ![r] = b]
    /\ UNCHANGED <<requestVars, createVars, status, workerVars, kafkaVars, faults>>

\* UPDATE ... SET Status = Cancelled WHERE Id = ...; the answer is 200.
CancelSave(r) ==
    /\ cancelling[r] # NoBooking
    /\ Save(cancelling[r], "Cancelled")
    /\ cancelling' = [cancelling EXCEPT ![r] = NoBooking]
    /\ UNCHANGED <<requestVars, createVars, workerVars, kafkaVars, faults>>

CancelFail(r) ==
    /\ faults < MaxFaults
    /\ faults' = faults + 1
    /\ cancelling[r] # NoBooking
    /\ SaveThrows(cancelling[r], "Cancelled")
    /\ cancelling' = [cancelling EXCEPT ![r] = NoBooking]
    /\ UNCHANGED <<requestVars, createVars, workerVars, kafkaVars>>

-----------------------------------------------------------------------------
(***************************************************************************)
(* The background worker                                                   *)
(***************************************************************************)

\* One round: a task for each pending booking, all awaited by Task.WhenAll.
Poll ==
    /\ worker = "poll"
    /\ worker' = "round"
    /\ task' = [b \in Booking |->
                   IF b \in Pending THEN [pc |-> "find", seen |-> "None"] ELSE NoTask]
    /\ UNCHANGED <<requestVars, createVars, status, cancelling, kafkaVars, faults>>

\* GetPendingAsync throws: ExecuteAsync ends in an exception, and the host
\* stops with it.
PollFail ==
    /\ faults < MaxFaults
    /\ faults' = faults + 1
    /\ worker = "poll"
    /\ worker' = "stopped"
    /\ UNCHANGED <<requestVars, createVars, status, cancelling, task, kafkaVars>>

\* Mutant: the task trusts the poll, which said that the booking is pending.
TaskFindTrustsPoll(b) ==
    /\ task[b].pc = "find"
    /\ task' = [task EXCEPT ![b] = [pc |-> "delay", seen |-> "Pending"]]
    /\ UNCHANGED <<requestVars, createVars, status, cancelling, worker, kafkaVars, faults>>

\* The task reads its booking again, then waits for ProcessingDelay.  Rows are
\* never deleted, so the early return for a missing row is not reachable.
TaskFind(b) ==
    /\ task[b].pc = "find"
    /\ task' = [task EXCEPT ![b] = [pc |-> "delay", seen |-> status[b]]]
    /\ UNCHANGED <<requestVars, createVars, status, cancelling, worker, kafkaVars, faults>>

\* FindAsync is outside the try block: its exception faults the task.
TaskFindFail(b) ==
    /\ faults < MaxFaults
    /\ faults' = faults + 1
    /\ task[b].pc = "find"
    /\ task' = [task EXCEPT ![b].pc = "faulted"]
    /\ UNCHANGED <<requestVars, createVars, status, cancelling, worker, kafkaVars>>

\* Booking.Confirm checks the status of the entity, the one read before the
\* delay, and throws unless it is Pending; the catch-all ends the task.
TaskRefuse(b) ==
    /\ task[b].pc = "delay"
    /\ task[b].seen # "Pending"
    /\ task' = [task EXCEPT ![b] = NoTask]
    /\ UNCHANGED <<requestVars, createVars, status, cancelling, worker, kafkaVars, faults>>

\* Mutant: the confirmed entity is never saved.
TaskConfirmUnsaved(b) ==
    /\ task[b].pc = "delay"
    /\ task[b].seen = "Pending"
    /\ task' = [task EXCEPT ![b] = [pc |-> "publish", seen |-> "Confirmed"]]
    /\ UNCHANGED <<requestVars, createVars, status, cancelling, worker, kafkaVars, faults>>

\* Mutant: the task ends after the save.
TaskConfirmSilent(b) ==
    /\ task[b].pc = "delay"
    /\ task[b].seen = "Pending"
    /\ Save(b, "Confirmed")
    /\ task' = [task EXCEPT ![b] = NoTask]
    /\ UNCHANGED <<requestVars, createVars, cancelling, worker, kafkaVars, faults>>

TaskConfirm(b) ==
    /\ task[b].pc = "delay"
    /\ task[b].seen = "Pending"
    /\ Save(b, "Confirmed")
    /\ task' = [task EXCEPT ![b] = [pc |-> "publish", seen |-> "Confirmed"]]
    /\ UNCHANGED <<requestVars, createVars, cancelling, worker, kafkaVars, faults>>

\* SaveChangesAsync throws, committed or not; the catch-all ends the task.
TaskConfirmFail(b) ==
    /\ faults < MaxFaults
    /\ faults' = faults + 1
    /\ task[b].pc = "delay"
    /\ task[b].seen = "Pending"
    /\ SaveThrows(b, "Confirmed")
    /\ task' = [task EXCEPT ![b] = NoTask]
    /\ UNCHANGED <<requestVars, createVars, cancelling, worker, kafkaVars>>

\* Kafka acknowledges the message.
TaskPublish(b) ==
    /\ task[b].pc = "publish"
    /\ attempts' = [attempts EXCEPT ![b] = @ + 1]
    /\ topic' = Append(topic, b)
    /\ task' = [task EXCEPT ![b] = NoTask]
    /\ UNCHANGED <<requestVars, createVars, status, cancelling, worker, faults>>

\* Mutant: the task publishes again after a failed produce.
TaskPublishRetries(b) ==
    /\ faults < MaxFaults
    /\ faults' = faults + 1
    /\ task[b].pc = "publish"
    /\ attempts' = [attempts EXCEPT ![b] = @ + 1]
    /\ topic' = Append(topic, b)
    /\ UNCHANGED <<requestVars, createVars, status, cancelling, workerVars>>

\* The broker or the connection fails during the produce.  ProduceAsync throws
\* into the catch-all, with the message lost or stored, or the client library
\* sends it again and it is stored twice: the producer is not idempotent.
TaskPublishFail(b) ==
    /\ faults < MaxFaults
    /\ faults' = faults + 1
    /\ task[b].pc = "publish"
    /\ attempts' = [attempts EXCEPT ![b] = @ + 1]
    /\ \/ UNCHANGED topic
       \/ topic' = Append(topic, b)
       \/ topic' = Append(Append(topic, b), b)
    /\ task' = [task EXCEPT ![b] = NoTask]
    /\ UNCHANGED <<requestVars, createVars, status, cancelling, worker>>

\* Task.WhenAll completes only when every task has, and throws if one faulted.
RoundEnd ==
    /\ worker = "round"
    /\ \A b \in Booking : task[b].pc \in {"none", "faulted"}
    /\ worker' = IF \E b \in Booking : task[b].pc = "faulted" THEN "stopped" ELSE "poll"
    /\ task' = [b \in Booking |-> NoTask]
    /\ UNCHANGED <<requestVars, createVars, status, cancelling, kafkaVars, faults>>

-----------------------------------------------------------------------------
(***************************************************************************)
(* The process                                                             *)
(***************************************************************************)

\* The container starts again: the table and the topic survive, the semaphore,
\* the requests and the worker's tasks do not.
StartAgain ==
    /\ createPc' = [b \in Booking |->
                       IF createPc[b] \in {"waiting", "counting", "saving"}
                       THEN "failed" ELSE createPc[b]]
    /\ permits' = 1
    /\ cancelling' = [r \in CancelRequest |-> NoBooking]
    /\ worker' = "poll"
    /\ task' = [b \in Booking |-> NoTask]
    /\ UNCHANGED <<requestVars, status, kafkaVars>>

\* Mutant: the host ignores the exception of its background service.
HostStopIgnored ==
    /\ worker = "stopped"
    /\ UNCHANGED vars

\* The host stopped because the worker failed; Docker restarts the container.
\* Requests may still go on between the failure and the stop.
HostStop ==
    /\ worker = "stopped"
    /\ StartAgain
    /\ UNCHANGED faults

Crash ==
    /\ faults < MaxFaults
    /\ faults' = faults + 1
    /\ StartAgain

-----------------------------------------------------------------------------
Init ==
    /\ owner \in [Booking -> User]
    /\ eventOf \in [Booking -> Event]
    /\ createPc = [b \in Booking |-> "idle"]
    /\ permits = 1
    /\ status = [b \in Booking |-> "None"]
    /\ cancelling = [r \in CancelRequest |-> NoBooking]
    /\ worker = "poll"
    /\ task = [b \in Booking |-> NoTask]
    /\ topic = <<>>
    /\ attempts = [b \in Booking |-> 0]
    /\ faults = 0

Create(b) ==
    \/ CreateArrive(b)
    \/ CreateAbandon(b)
    \/ CreateAcquire(b)
    \/ CreateCount(b)
    \/ CreateRefuse(b)
    \/ CreateSave(b)
    \/ CreateFail(b)

Cancel(r) ==
    \/ \E b \in Booking, u \in User : CancelFind(r, b, u)
    \/ CancelSave(r)
    \/ CancelFail(r)

ProcessBooking(b) ==
    \/ TaskFind(b)
    \/ TaskFindFail(b)
    \/ TaskRefuse(b)
    \/ TaskConfirm(b)
    \/ TaskConfirmFail(b)
    \/ TaskPublish(b)
    \/ TaskPublishFail(b)

Next ==
    \/ \E b \in Booking : Create(b)
    \/ \E r \in CancelRequest : Cancel(r)
    \/ Poll
    \/ PollFail
    \/ \E b \in Booking : ProcessBooking(b)
    \/ RoundEnd
    \/ HostStop
    \/ Crash

Spec == Init /\ [][Next]_vars

(***************************************************************************)
(* Fairness.  A handler or a task that is not waiting for anyone goes on:  *)
(* its database call, its produce or its delay ends.  The semaphore hands  *)
(* its permit to its waiters in the order they came, so a waiter is not    *)
(* passed over for ever.  No request has to arrive, no failure has to      *)
(* happen, and the client may always give up.                              *)
(***************************************************************************)
Fairness ==
    /\ \A b \in Booking :
          /\ SF_vars(CreateAcquire(b))
          /\ WF_vars(CreateCount(b) \/ CreateRefuse(b))
          /\ WF_vars(CreateSave(b))
          /\ WF_vars(TaskFind(b))
          /\ WF_vars(TaskRefuse(b) \/ TaskConfirm(b))
          /\ WF_vars(TaskPublish(b))
    /\ \A r \in CancelRequest : WF_vars(CancelSave(r))
    /\ WF_vars(Poll)
    /\ WF_vars(RoundEnd)
    /\ WF_vars(HostStop)

FairSpec == Spec /\ Fairness

-----------------------------------------------------------------------------
(***************************************************************************)
(* Safety                                                                  *)
(***************************************************************************)

Holding(b) == createPc[b] \in {"counting", "saving"}

\* A handler that has the row's Pending status in memory and will write its own.
LoadedPending(b) ==
    \/ \E r \in CancelRequest : cancelling[r] = b
    \/ task[b].pc = "delay" /\ task[b].seen = "Pending"

Decided(b) == status[b] \in {"Confirmed", "Cancelled"}

Settled(b) == Decided(b) /\ ~LoadedPending(b)

\* Every variable has a value of its kind.
TypeOK ==
    /\ owner \in [Booking -> User]
    /\ eventOf \in [Booking -> Event]
    /\ createPc \in [Booking -> CreatePc]
    /\ permits \in Nat
    /\ status \in [Booking -> BookingStatus \cup {"None"}]
    /\ cancelling \in [CancelRequest -> Booking \cup {NoBooking}]
    /\ worker \in {"poll", "round", "stopped"}
    /\ task \in [Booking -> Task]
    /\ topic \in Seq(Booking)
    /\ attempts \in [Booking -> Nat]
    /\ faults \in 0 .. MaxFaults

\* The semaphore has one permit, in the semaphore or with one handler: however
\* a POST ends (answered, refused, failed, abandoned while it waits, cut off by
\* a crash) its permit is given back exactly once.  A Release too many would
\* throw or let two handlers in at once, one too few would stop every POST.
PermitConservation ==
    /\ permits \in {0, 1}
    /\ permits = 1 => \A b \in Booking : ~Holding(b)
    /\ permits = 0 => \E b \in Booking : Holding(b)
    /\ \A b, c \in Booking : Holding(b) /\ Holding(c) => b = c

\* No user ever has more than BookingLimitPerUser pending bookings, although the
\* count and the insert are two round trips, and cancellations, confirmations
\* and other POSTs of the user go on between them.
PendingLimit == \A u \in User : Cardinality(PendingOf(u)) <= BookingLimitPerUser

\* The worker calls PublishBookingConfirmedAsync at most once for a booking, over
\* all rounds, failed saves, crashes and restarts: a second call would take a
\* second seat, the consumer does not look at the booking's id.
AnnouncedOnce == \A b \in Booking : attempts[b] <= 1

\* A message in the topic is about a booking that is no longer pending: the
\* save comes before the produce, and nothing makes a booking pending again.
MessageAfterDecision == \A i \in DOMAIN topic : Decided(topic[i])

\* A decision on a booking is never withdrawn, and once no handler that loaded
\* the booking while it was pending is left, it never changes again: the reads
\* of ProcessBookingAsync and of the cancel handler keep later ones out.
DecisionStands ==
    [][\A b \in Booking :
          /\ Decided(b) => Decided(b)'
          /\ Settled(b) => Settled(b)' /\ status'[b] = status[b]]_vars

\* The service implements the ledger: the critical section of a POST is atomic
\* with respect to the user's pending bookings, and the worker's save and
\* produce are one decision followed by at most one announcement.
Ledger == INSTANCE BookingLedger WITH announced <- {b \in Booking : attempts[b] > 0}

LedgerSpec == Ledger!Spec

-----------------------------------------------------------------------------
(***************************************************************************)
(* Liveness                                                                *)
(***************************************************************************)

\* Every POST that reaches the handler is answered: no path out of the critical
\* section keeps the permit.
CreateAnswered ==
    \A b \in Booking :
        createPc[b] = "waiting" ~> createPc[b] \in {"accepted", "limit", "failed"}

\* Every pending booking is decided: a round that loses a task to a failed read
\* stops the host, which starts again, and the next poll finds the booking.
PendingDecided == \A b \in Booking : status[b] = "Pending" ~> Decided(b)

\* As long as nothing fails, a confirmed booking is announced on the topic.
AnnouncedUnlessFailure ==
    \A b \in Booking :
        status[b] = "Confirmed" ~> (faults > 0 \/ \E i \in DOMAIN topic : topic[i] = b)

-----------------------------------------------------------------------------
(***************************************************************************)
(* What the repository says of the service and the code does not keep      *)
(***************************************************************************)

\* Booking.Confirm refuses a cancelled booking: "the booking cannot be changed,
\* the booking is cancelled" (Booking.cs:38).
CancelledIsFinal ==
    [][\A b \in Booking : status[b] = "Cancelled" => status'[b] = "Cancelled"]_vars

\* The worker moves a booking to Confirmed and publishes BookingConfirmed
\* (README.md:163).
ConfirmedIsAnnounced ==
    \A b \in Booking :
        status[b] = "Confirmed" ~> \E i \in DOMAIN topic : topic[i] = b

\* GET /bookings/{id} is answered 200, 403 or 404, next to the 401 of a caller
\* without a token (README.md:65), whatever has become of the booking.
GetAsDocumented == \A b \in Booking, u \in User : GetById(b, u) \in {200, 403, 404}

=============================================================================
