------------------------ MODULE EventsApiSystemProofs ------------------------
(***************************************************************************)
(* Proofs about the two services together, for all parameters: a seat is   *)
(* taken only for a decided and announced booking, the seats sold are      *)
(* covered by messages and bookings, and each service keeps in the system  *)
(* what it promises on its own.                                            *)
(*                                                                         *)
(* Each service brings its own inductive invariant and the proof that its  *)
(* own steps keep it.  What is left is that the steps of the other keep it *)
(* too: the events service leaves the booking service and the topic alone, *)
(* and to the events service a step of the booking service is Arrive.      *)
(***************************************************************************)
EXTENDS EventsApiSystem, FiniteSetTheorems, TLAPS

BP == INSTANCE BookingServiceProofs
EP == INSTANCE EventServiceProofs

BookingInv ==
    /\ BP!TypeOK
    /\ BP!RowInv
    /\ BP!MessageInv
    /\ BP!CleanTopic
    /\ BP!PermitConservation
    /\ BP!LimitInv

EventInv ==
    /\ EP!Typed
    /\ EP!CommittedWasConsumed
    /\ EP!RunsCounted
    /\ EP!Accounts

-----------------------------------------------------------------------------
(***************************************************************************)
(* What is assumed of the parameters, and the two names of each service    *)
(***************************************************************************)

\* The assumptions of BookingService.
LEMMA BookingAssumptions ==
    /\ BP!IsFiniteSet(Booking)
    /\ NoBooking \notin Booking
    /\ Admin \subseteq User
    /\ BookingLimitPerUser \in Nat \ {0}
    /\ MaxFaults \in Nat
  BY IdsAssumption, UsersAssumption, BoundsAssumption DEF IsFiniteSet, BP!IsFiniteSet

\* The assumptions of EventService.
LEMMA EventAssumptions ==
    /\ MaxSeats \in Nat \ {0}
    /\ Delete \notin Content
    /\ NoBooking \notin Booking
    /\ MaxFaults \in Nat /\ MaxRestarts \in Nat
  BY IdsAssumption, EventsAssumption, BoundsAssumption

\* The booking service of the system is the one of its proofs.
LEMMA SameBookings == Bookings!Next <=> BP!Next
  BY DEF Bookings!requestVars, Bookings!createVars, Bookings!workerVars,
         Bookings!kafkaVars, Bookings!BookingStatus, Bookings!Pending,
         Bookings!PendingOf, Bookings!NoTask, Bookings!Save,
         Bookings!SaveThrows, Bookings!CreateArrive, Bookings!CreateAbandon,
         Bookings!CreateAcquire, Bookings!CreateLeave, Bookings!CreateCount,
         Bookings!CreateRefuse, Bookings!CreateSave, Bookings!CreateFail,
         Bookings!CancelFind, Bookings!CancelSave, Bookings!CancelFail,
         Bookings!Poll, Bookings!PollFail, Bookings!TaskFind,
         Bookings!TaskFindFail, Bookings!TaskRefuse, Bookings!TaskConfirm,
         Bookings!TaskConfirmFail, Bookings!TaskPublish,
         Bookings!TaskPublishFail, Bookings!RoundEnd, Bookings!StartAgain,
         Bookings!HostStop, Bookings!Crash, Bookings!Create,
         Bookings!Cancel, Bookings!ProcessBooking, Bookings!Next,
         Bookings!Cardinality, Bookings!IsFiniteSet, BP!requestVars,
         BP!createVars, BP!workerVars, BP!kafkaVars, BP!BookingStatus,
         BP!Pending, BP!PendingOf, BP!NoTask, BP!Save, BP!SaveThrows,
         BP!CreateArrive, BP!CreateAbandon, BP!CreateAcquire,
         BP!CreateLeave, BP!CreateCount, BP!CreateRefuse, BP!CreateSave,
         BP!CreateFail, BP!CancelFind, BP!CancelSave, BP!CancelFail,
         BP!Poll, BP!PollFail, BP!TaskFind, BP!TaskFindFail, BP!TaskRefuse,
         BP!TaskConfirm, BP!TaskConfirmFail, BP!TaskPublish,
         BP!TaskPublishFail, BP!RoundEnd, BP!StartAgain, BP!HostStop,
         BP!Crash, BP!Create, BP!Cancel, BP!ProcessBooking, BP!Next,
         BP!Cardinality, BP!IsFiniteSet

\* So is the events service.
LEMMA SameEvents == Events!ServiceNext <=> EP!ServiceNext
  BY DEF Events!messageVars, Events!seatVars, Events!tableVars,
         Events!offsetVars, Events!boundVars, Events!Snapshot, Events!Idle,
         Events!IdleConsumer, Events!Live, Events!HeldByReader,
         Events!Overtake, Events!Fault, Events!Expire, Events!CreateEvent,
         Events!WriterFind, Events!WriteRow, Events!WriterSave,
         Events!WriterMiss, Events!WriterSaveFail, Events!WriterRemove,
         Events!WriterRemoveFail, Events!ReaderMiss, Events!ReaderGetFail,
         Events!ReaderFind, Events!ReaderSet, Events!ReaderSetFail,
         Events!Consume, Events!AutoCommit, Events!MessageEvent,
         Events!ConsumerReserve, Events!ConsumerSkip, Events!TakeSeat,
         Events!ConsumerSave, Events!ConsumerMiss, Events!ConsumerFail,
         Events!ConsumerRemove, Events!ConsumerRemoveFail, Events!StartAt,
         Events!Crash, Events!Stop, Events!Write, Events!Read,
         Events!Handle, Events!ServiceNext, EP!messageVars, EP!seatVars,
         EP!tableVars, EP!offsetVars, EP!boundVars, EP!Snapshot, EP!Idle,
         EP!IdleConsumer, EP!Live, EP!HeldByReader, EP!Overtake, EP!Fault,
         EP!Expire, EP!CreateEvent, EP!WriterFind, EP!WriteRow,
         EP!WriterSave, EP!WriterMiss, EP!WriterSaveFail, EP!WriterRemove,
         EP!WriterRemoveFail, EP!ReaderMiss, EP!ReaderGetFail,
         EP!ReaderFind, EP!ReaderSet, EP!ReaderSetFail, EP!Consume,
         EP!AutoCommit, EP!MessageEvent, EP!ConsumerReserve,
         EP!ConsumerSkip, EP!TakeSeat, EP!ConsumerSave, EP!ConsumerMiss,
         EP!ConsumerFail, EP!ConsumerRemove, EP!ConsumerRemoveFail,
         EP!StartAt, EP!Crash, EP!Stop, EP!Write, EP!Read, EP!Handle,
         EP!ServiceNext

\* Both start as they do on their own.
LEMMA SameInit == Init => BP!Init /\ EP!Init
  BY DEF Init, Bookings!Init, BP!Init, Bookings!NoTask, BP!NoTask,
         Events!Init, EP!Init, Events!Idle, EP!Idle, Events!IdleConsumer, EP!IdleConsumer

-----------------------------------------------------------------------------
(***************************************************************************)
(* The booking service among the steps of the system                       *)
(***************************************************************************)

\* Its own steps keep its invariant.
LEMMA BookingByBookings == ASSUME BookingInv, BP!Next PROVE BookingInv'
  <1>1. BP!TypeOK'
    BY BookingAssumptions, BP!TypeStep DEF BookingInv, BP!TypeStep
  <1>2. BP!RowInv'
    BY BookingAssumptions, BP!RowStep DEF BookingInv, BP!RowStep
  <1>3. BP!MessageInv'
    BY BookingAssumptions, BP!MessageStep DEF BookingInv, BP!MessageStep
  <1>4. BP!CleanTopic'
    BY BookingAssumptions, BP!CleanStep DEF BookingInv, BP!CleanStep
  <1>5. BP!PermitConservation'
    BY BookingAssumptions, BP!PermitStep DEF BookingInv, BP!PermitStep
  <1>6. BP!LimitInv'
    BY BookingAssumptions, BP!LimitStep DEF BookingInv, BP!LimitStep
  <1> QED
    BY <1>1, <1>2, <1>3, <1>4, <1>5, <1>6 DEF BookingInv

\* Others touch nothing of it, but may use up failures.
LEMMA BookingByOthers ==
    ASSUME BookingInv, UNCHANGED <<bookingVars, eventOf, topic>>,
           faults' \in 0 .. MaxFaults, faults' = 0 => faults = 0
    PROVE  BookingInv'
  <1> USE DEF BookingInv, bookingVars
  <1>1. BP!TypeOK'
    BY DEF BP!TypeOK
  <1>2. BP!RowInv'
    BY DEF BP!RowInv, BP!LoadedPending
  <1>3. BP!MessageInv'
    BY DEF BP!MessageInv, BP!Decided
  <1>4. BP!CleanTopic'
    BY DEF BP!CleanTopic
  <1>5. BP!PermitConservation'
    BY DEF BP!PermitConservation, BP!Holding
  <1>6. BP!LimitInv'
    BY DEF BP!LimitInv, BP!PendingLimit, BP!PendingOf, BP!Pending
  <1> QED
    BY <1>1, <1>2, <1>3, <1>4, <1>5, <1>6

-----------------------------------------------------------------------------
(***************************************************************************)
(* The events service among the steps of the system                        *)
(***************************************************************************)

\* Its own steps keep its invariant.
LEMMA EventByEvents == ASSUME EventInv, EP!ServiceNext PROVE EventInv'
  <1>0. EP!Next
    BY DEF EP!Next
  <1>1. EP!Typed'
    BY <1>0, EventAssumptions, EP!TypedStep DEF EventInv, EP!TypedStep
  <1>2. EP!CommittedWasConsumed'
    BY <1>0, EventAssumptions, EP!OffsetStep DEF EventInv, EP!OffsetStep
  <1>3. EP!RunsCounted'
    BY <1>0, EventAssumptions, EP!RunsStep DEF EventInv, EP!RunsStep
  <1>4. EP!Accounts'
    BY <1>0, EventAssumptions, EP!AccountsStep DEF EventInv, EP!AccountsStep
  <1> QED
    BY <1>1, <1>2, <1>3, <1>4 DEF EventInv

\* So do messages that arrive.
LEMMA EventByArrival == ASSUME EventInv, EP!Arrive PROVE EventInv'
  <1>1. EP!Typed'
    BY EventAssumptions, EP!RowsArrive DEF EventInv, EP!RowsArrive
  <1>2. EP!CommittedWasConsumed'
    BY EventAssumptions, EP!OffsetArrive DEF EventInv, EP!OffsetArrive
  <1>3. EP!RunsCounted'
    BY EventAssumptions, EP!RunsArrive DEF EventInv, EP!RunsArrive
  <1>4. EP!Accounts'
    BY EventAssumptions, EP!AccountsArrive DEF EventInv, EP!AccountsArrive
  <1> QED
    BY <1>1, <1>2, <1>3, <1>4 DEF EventInv

\* A step of the booking service is nothing else to it.
LEMMA BookingsArrive == ASSUME BookingInv, BP!Next, UNCHANGED eventVars PROVE EP!Arrive
  <1>1. /\ UNCHANGED eventOf
        /\ \/ UNCHANGED topic
           \/ \E b \in Booking : topic' \in {Append(topic, b), Append(Append(topic, b), b)}
        /\ faults' \in {faults, faults + 1}
        /\ faults' \in 0 .. MaxFaults
    BY BookingAssumptions, BP!TopicStep DEF BookingInv, BP!TopicStep
  <1>2. faults' \in faults .. MaxFaults
    BY <1>1, BookingAssumptions DEF BookingInv, BP!TypeOK
  <1> QED
    BY <1>1, <1>2 DEF EP!Arrive, EP!tableVars, EP!seatVars, EP!offsetVars, eventVars

-----------------------------------------------------------------------------
(***************************************************************************)
(* The system                                                              *)
(***************************************************************************)

\* Every step of the system keeps both invariants.
LEMMA SystemStep == BookingInv /\ EventInv /\ [Next]_vars => (BookingInv /\ EventInv)'
  <1> SUFFICES ASSUME BookingInv, EventInv, [Next]_vars
               PROVE  BookingInv' /\ EventInv'
    OBVIOUS
  <1>1. CASE Bookings!Next /\ UNCHANGED eventVars
    BY <1>1, SameBookings, BookingByBookings, BookingsArrive, EventByArrival
  <1>2. CASE Events!ServiceNext /\ UNCHANGED bookingVars
    <2>1. /\ UNCHANGED <<eventOf, topic>>
          /\ faults' \in 0 .. MaxFaults
          /\ faults' = 0 => faults = 0
      BY <1>2, SameEvents, EventAssumptions, EP!TopicKept DEF EventInv, EP!TopicKept, EP!messageVars
    <2> QED
      BY <1>2, <2>1, SameEvents, BookingByOthers, EventByEvents
  <1>3. CASE UNCHANGED vars
    <2>1. faults' \in 0 .. MaxFaults
      BY <1>3 DEF BookingInv, BP!TypeOK, vars
    <2>2. faults' \in faults .. MaxFaults
      BY <1>3, <2>1 DEF vars
    <2>3. EP!Arrive
      BY <1>3, <2>2 DEF EP!Arrive, EP!tableVars, EP!seatVars, EP!offsetVars, vars, eventVars
    <2> QED
      BY <1>3, <2>1, <2>3, BookingByOthers, EventByArrival DEF vars
  <1> QED
    BY <1>1, <1>2, <1>3 DEF Next

\* And the system starts with them.
LEMMA SystemInit == Init => BookingInv /\ EventInv
  <1> SUFFICES ASSUME Init
               PROVE  BookingInv /\ EventInv
    OBVIOUS
  <1>1. BP!TypeOK /\ BP!RowInv /\ BP!MessageInv
    BY SameInit, BookingAssumptions, BP!TypeInit, BP!RowInit, BP!MessageInit
       DEF BP!TypeInit, BP!RowInit, BP!MessageInit
  <1>2. BP!CleanTopic
    BY SameInit DEF BP!Init, BP!CleanTopic
  <1>3. EP!Typed /\ EP!RunsCounted
    BY SameInit, EventAssumptions, EP!TypedInit, EP!RunsInit DEF EP!TypedInit, EP!RunsInit
  <1>4. EP!CommittedWasConsumed
    BY SameInit DEF EP!Init, EP!CommittedWasConsumed
  <1>5. BP!PermitConservation /\ BP!LimitInv
    BY SameInit, BookingAssumptions, BP!PermitInit, BP!LimitInit DEF BP!PermitInit, BP!LimitInit
  <1>6. EP!Accounts
    BY SameInit, EventAssumptions, EP!AccountsInit DEF EP!AccountsInit
  <1> QED
    BY <1>1, <1>2, <1>3, <1>4, <1>5, <1>6 DEF BookingInv, EventInv

\* A seat is taken only for a booking that the booking service has decided and
\* announced, and never a second one while nothing has failed or restarted.
THEOREM SeatsAreAnnounced == Spec => []SeatForAnnouncedBooking
  <1>1. BookingInv /\ EventInv => SeatForAnnouncedBooking
    <2> SUFFICES ASSUME BookingInv, EventInv, NEW b \in Booking
                 PROVE  /\ taken[b] > 0 => attempts[b] = 1 /\ Bookings!Decided(b)
                        /\ taken[b] > 1 => faults > 0 \/ restarts > 0
      BY DEF SeatForAnnouncedBooking
    <2>1. ASSUME taken[b] > 0
          PROVE  attempts[b] = 1 /\ Bookings!Decided(b)
      <3>1. PICK i \in DOMAIN topic : topic[i] = b
        BY <2>1, EventAssumptions, EP!TakenFromTopic DEF EventInv, EP!TakenFromTopic
      <3>2. attempts[b] = 1
        BY <3>1 DEF BookingInv, BP!MessageInv
      <3>3. BP!Decided(b)
        BY <3>2 DEF BookingInv, BP!MessageInv
      <3> QED
        BY <3>2, <3>3 DEF BP!Decided, Bookings!Decided
    <2>2. ASSUME faults = 0, restarts = 0
          PROVE  taken[b] <= 1
      <3>1. \A i, j \in DOMAIN topic : topic[i] = topic[j] => i = j
        BY <2>2 DEF BookingInv, BP!CleanTopic
      <3> QED
        BY <2>2, <3>1, EventAssumptions, EP!TakenInFirstRun DEF EventInv, EP!TakenInFirstRun
    <2>3. taken[b] \in Nat /\ faults \in Nat /\ restarts \in Nat
      BY BoundsAssumption DEF EventInv, EP!Typed, EP!TypeOK
    <2> QED
      BY <2>1, <2>2, <2>3
  <1> QED
    BY <1>1, SystemInit, SystemStep, PTL DEF Spec

-----------------------------------------------------------------------------
(***************************************************************************)
(* Seats and bookings                                                      *)
(***************************************************************************)

\* The instance of the events service counts sets as this module does.
LEMMA SameCardinality == \A S : EP!Cardinality(S) = Cardinality(S)
  BY DEF EP!Cardinality, Cardinality

\* Without a failure, each message is the only one of its booking, and each booking
\* that has one is decided and announced.
LEMMA MessagesForBookings ==
    ASSUME BookingInv, faults = 0, NEW e \in Event
    PROVE  Cardinality(MessagesOf(e)) <=
               Cardinality({b \in Booking : eventOf[b] = e /\ attempts[b] = 1 /\ Bookings!Decided(b)})
  <1> DEFINE announced == {b \in Booking : eventOf[b] = e /\ attempts[b] = 1 /\ Bookings!Decided(b)}
             about == [i \in MessagesOf(e) |-> topic[i]]
  <1>1. ASSUME NEW i \in MessagesOf(e)
        PROVE  i \in DOMAIN topic /\ topic[i] \in announced
    <2>1. i \in DOMAIN topic /\ topic[i] \in Booking /\ eventOf[topic[i]] = e
      BY DEF BookingInv, BP!TypeOK, MessagesOf
    <2>2. attempts[topic[i]] = 1 /\ BP!Decided(topic[i])
      BY <2>1 DEF BookingInv, BP!MessageInv
    <2> QED
      BY <2>1, <2>2 DEF BP!Decided, Bookings!Decided
  <1>2. \A i, j \in DOMAIN topic : topic[i] = topic[j] => i = j
    BY DEF BookingInv, BP!CleanTopic
  <1>3. IsFiniteSet(announced)
    BY IdsAssumption, FS_Subset
  <1> HIDE DEF announced
  <1>4. about \in Injection(MessagesOf(e), announced)
    BY <1>1, <1>2 DEF Injection, IsInjective
  <1>5. Cardinality(MessagesOf(e)) <= Cardinality(announced)
    BY <1>3, <1>4, FS_Injection
  <1> QED
    BY <1>5 DEF announced

\* The seats of an event that are sold are covered by the messages about it, one
\* for each message and run of the consumer, and without failures these are covered
\* by the bookings that the booking service has decided and announced.
THEOREM SeatsSoldAreBooked == Spec => []SeatsSoldForBookings
  <1>1. BookingInv /\ EventInv => SeatsSoldForBookings
    <2> SUFFICES ASSUME BookingInv, EventInv, NEW e \in Event
                 PROVE  total[e] - available[e] <= Cardinality(MessagesOf(e)) * (restarts + 1)
      BY MessagesForBookings DEF SeatsSoldForBookings
    <2>1. total[e] - available[e] <= EP!Cardinality(EP!MessagesOf(e)) * (restarts + 1)
      BY EventAssumptions, EP!SoldByMessages DEF EventInv, EP!SoldByMessages
    <2>2. EP!MessagesOf(e) = MessagesOf(e)
      BY DEF EP!MessagesOf, MessagesOf
    <2> QED
      BY <2>1, <2>2, SameCardinality
  <1> QED
    BY <1>1, SystemInit, SystemStep, PTL DEF Spec

-----------------------------------------------------------------------------
(***************************************************************************)
(* The promises of the services in the system                              *)
(***************************************************************************)

\* Every step of the system is a step of the ledger of bookings or leaves it alone.
LEMMA BookingLedgerStep ==
    ASSUME BookingInv, [Next]_vars PROVE [BP!Ledger!Next]_(BP!Ledger!ledgerVars)
  <1>1. CASE Bookings!Next
    <2>1. BP!Next
      BY <1>1, SameBookings
    <2> QED
      BY <2>1, BookingAssumptions, BP!LedgerStep DEF BookingInv, BP!LedgerStep
  <1>2. CASE UNCHANGED bookingVars
    BY <1>2 DEF bookingVars, BP!Ledger!ledgerVars
  <1> QED
    BY <1>1, <1>2 DEF Next, vars

\* And a step of the ledger of seats, or leaves that one alone.
LEMMA SeatLedgerStep ==
    ASSUME EventInv, [Next]_vars PROVE [EP!Seats!Next]_(EP!Seats!seatVars)
  <1>1. CASE Events!ServiceNext
    <2>1. EP!Next
      BY <1>1, SameEvents DEF EP!Next
    <2> QED
      BY <2>1, EventAssumptions, EP!SeatsStep DEF EventInv, EP!SeatsStep
  <1>2. CASE UNCHANGED eventVars
    BY <1>2 DEF eventVars, EP!Seats!seatVars
  <1> QED
    BY <1>1, <1>2 DEF Next, vars

\* The two names of the ledgers.
LEMMA SameLedgers ==
    /\ BP!Ledger!Init => Bookings!Ledger!Init
    /\ [BP!Ledger!Next]_(BP!Ledger!ledgerVars) => [Bookings!Ledger!Next]_(Bookings!Ledger!ledgerVars)
    /\ EP!Seats!Init => Events!Seats!Init
    /\ [EP!Seats!Next]_(EP!Seats!seatVars) => [Events!Seats!Next]_(Events!Seats!seatVars)
  <1>1. BP!Ledger!Init => Bookings!Ledger!Init
    BY DEF BP!Ledger!Init, Bookings!Ledger!Init
  <1>2. [BP!Ledger!Next]_(BP!Ledger!ledgerVars) => [Bookings!Ledger!Next]_(Bookings!Ledger!ledgerVars)
    BY DEF BP!Ledger!Next, BP!Ledger!Submit, BP!Ledger!Decide, BP!Ledger!Overwrite,
           BP!Ledger!Announce, BP!Ledger!PendingOf, BP!Ledger!Decision, BP!Ledger!ledgerVars,
           BP!Ledger!Cardinality, BP!Ledger!IsFiniteSet,
           Bookings!Ledger!Next, Bookings!Ledger!Submit, Bookings!Ledger!Decide,
           Bookings!Ledger!Overwrite, Bookings!Ledger!Announce, Bookings!Ledger!PendingOf,
           Bookings!Ledger!Decision, Bookings!Ledger!ledgerVars,
           Bookings!Ledger!Cardinality, Bookings!Ledger!IsFiniteSet
  <1>3. EP!Seats!Init => Events!Seats!Init
    BY DEF EP!Seats!Init, Events!Seats!Init
  <1>4. [EP!Seats!Next]_(EP!Seats!seatVars) => [Events!Seats!Next]_(Events!Seats!seatVars)
    BY DEF EP!Seats!Next, EP!Seats!Open, EP!Seats!Take, EP!Seats!seatVars,
           Events!Seats!Next, Events!Seats!Open, Events!Seats!Take, Events!Seats!seatVars
  <1> QED
    BY <1>1, <1>2, <1>3, <1>4

\* Together, over the shared topic and with failures in common, the booking service
\* is still the ledger of bookings and the events service the ledger of seats.
THEOREM LedgersKept == Spec => Bookings!LedgerSpec /\ Events!SeatsSpec
  <1>1. Init => Bookings!Ledger!Init /\ Events!Seats!Init
    <2>1. Init => BP!Ledger!Init
      BY SameInit, BookingAssumptions, BP!LedgerInit DEF BP!LedgerInit
    <2>2. Init => EP!Seats!Init
      BY SameInit DEF EP!Init, EP!Seats!Init
    <2> QED
      BY <2>1, <2>2, SameLedgers
  <1>2. BookingInv /\ [Next]_vars => [Bookings!Ledger!Next]_(Bookings!Ledger!ledgerVars)
    BY BookingLedgerStep, SameLedgers
  <1>3. EventInv /\ [Next]_vars => [Events!Seats!Next]_(Events!Seats!seatVars)
    BY SeatLedgerStep, SameLedgers
  <1> QED
    BY <1>1, <1>2, <1>3, SystemInit, SystemStep, PTL
       DEF Spec, Bookings!LedgerSpec, Bookings!Ledger!Spec, Events!SeatsSpec, Events!Seats!Spec

\* What each service keeps to itself it keeps in the system: the limit of pending
\* bookings and the single announcement after the decision, the accounts of seats,
\* the offsets, and one seat for each message and run.
THEOREM PromisesKept ==
    Spec => [](/\ Bookings!PermitConservation /\ Bookings!PendingLimit
               /\ Bookings!AnnouncedOnce /\ Bookings!MessageAfterDecision
               /\ Events!SeatsAccounted /\ Events!CommittedWasConsumed
               /\ Events!TakenOncePerRun)
  <1> DEFINE Promises ==
                /\ Bookings!PermitConservation /\ Bookings!PendingLimit
                /\ Bookings!AnnouncedOnce /\ Bookings!MessageAfterDecision
                /\ Events!SeatsAccounted /\ Events!CommittedWasConsumed
                /\ Events!TakenOncePerRun
  <1>1. BookingInv /\ EventInv => Promises
    <2> SUFFICES ASSUME BookingInv, EventInv PROVE Promises
      OBVIOUS
    <2>1. Bookings!PermitConservation
      BY DEF BookingInv, BP!PermitConservation, BP!Holding,
             Bookings!PermitConservation, Bookings!Holding
    <2>2. Bookings!PendingLimit
      BY DEF BookingInv, BP!LimitInv, BP!PendingLimit, BP!PendingOf, BP!Pending, BP!Cardinality,
             BP!IsFiniteSet, Bookings!PendingLimit, Bookings!PendingOf, Bookings!Pending,
             Bookings!Cardinality, Bookings!IsFiniteSet
    <2>3. Bookings!AnnouncedOnce
      BY DEF BookingInv, BP!MessageInv, Bookings!AnnouncedOnce
    <2>4. Bookings!MessageAfterDecision
      <3>1. \A i \in DOMAIN topic : BP!Decided(topic[i])
        BY DEF BookingInv, BP!TypeOK, BP!MessageInv
      <3> QED
        BY <3>1 DEF BP!Decided, Bookings!MessageAfterDecision, Bookings!Decided
    <2>5. Events!SeatsAccounted
      BY DEF EventInv, EP!Accounts, EP!SeatsAccounted, EP!SeatsTaken, EP!Cardinality,
             EP!IsFiniteSet, Events!SeatsAccounted, Events!SeatsTaken, Events!Cardinality,
             Events!IsFiniteSet
    <2>6. Events!CommittedWasConsumed
      BY DEF EventInv, EP!CommittedWasConsumed, Events!CommittedWasConsumed
    <2>7. Events!TakenOncePerRun
      <3>1. \A b \in Booking : taken[b] <= EP!Copies(b) * (restarts + 1)
        BY EventAssumptions, EP!RunsBound DEF EventInv, EP!RunsBound
      <3>2. \A b : EP!Copies(b) = Events!Copies(b)
        BY DEF EP!Copies, Events!Copies, EP!Cardinality, EP!IsFiniteSet, Events!Cardinality,
               Events!IsFiniteSet
      <3> QED
        BY <3>1, <3>2 DEF Events!TakenOncePerRun
    <2> QED
      BY <2>1, <2>2, <2>3, <2>4, <2>5, <2>6, <2>7
  <1> HIDE DEF Promises
  <1>2. Spec => []Promises
    BY <1>1, SystemInit, SystemStep, PTL DEF Spec
  <1> QED
    BY <1>2 DEF Promises

=============================================================================
