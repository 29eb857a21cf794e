------------------------ MODULE BookingServiceProofs ------------------------
(***************************************************************************)
(* Proofs about BookingService, for every set of bookings, users, events   *)
(* and requests, every limit and every number of failures.                 *)
(*                                                                         *)
(* The inductive invariant is a conjunction of five parts, each proved     *)
(* inductive relative to the parts before it: the types, the permit of the *)
(* semaphore, the life of a row, the limit, and the life of a message.     *)
(***************************************************************************)
EXTENDS BookingService, FiniteSetTheorems, TLAPS

-----------------------------------------------------------------------------
(***************************************************************************)
(* The types                                                               *)
(***************************************************************************)

\* The states that a task of the worker goes through are in Task.
LEMMA TaskTypes ==
    /\ NoTask \in Task
    /\ [pc |-> "find", seen |-> "None"] \in Task
    /\ \A s \in BookingStatus \cup {"None"} : [pc |-> "delay", seen |-> s] \in Task
    /\ [pc |-> "publish", seen |-> "Confirmed"] \in Task
    /\ \A t \in Task : [t EXCEPT !.pc = "faulted"] \in Task
  BY DEF NoTask, Task, BookingStatus

\* The service starts well typed: an empty table and topic, one permit.
LEMMA TypeInit == Init => TypeOK
  BY TaskTypes, FaultsAssumption DEF Init, TypeOK, CreatePc

\* A step of CreateBookingCommandHandler keeps the types.
LEMMA TypeCreate ==
    ASSUME TypeOK, NEW b \in Booking, Create(b)
    PROVE  TypeOK'
  <1>1. CASE CreateArrive(b)
    BY <1>1 DEF CreateArrive, TypeOK, CreatePc, requestVars, workerVars, kafkaVars
  <1>2. CASE CreateAbandon(b)
    BY <1>2 DEF CreateAbandon, TypeOK, CreatePc, requestVars, workerVars, kafkaVars
  <1>3. CASE CreateAcquire(b)
    BY <1>3 DEF CreateAcquire, TypeOK, CreatePc, requestVars, workerVars, kafkaVars
  <1>4. CASE CreateCount(b)
    BY <1>4 DEF CreateCount, TypeOK, CreatePc, requestVars, workerVars, kafkaVars
  <1>5. CASE CreateRefuse(b)
    BY <1>5 DEF CreateRefuse, CreateLeave, TypeOK, CreatePc, requestVars, workerVars, kafkaVars
  <1>6. CASE CreateSave(b)
    BY <1>6 DEF CreateSave, CreateLeave, Save, TypeOK, CreatePc, BookingStatus,
                requestVars, workerVars, kafkaVars
  <1>7. CASE CreateFail(b)
    <2>1. status' \in [Booking -> BookingStatus \cup {"None"}]
      BY <1>7 DEF CreateFail, SaveThrows, Save, TypeOK, BookingStatus
    <2>2. createPc' \in [Booking -> CreatePc] /\ permits' \in Nat
      BY <1>7 DEF CreateFail, CreateLeave, TypeOK, CreatePc
    <2>3. faults' \in 0 .. MaxFaults
      BY <1>7, FaultsAssumption DEF CreateFail, TypeOK
    <2>4. UNCHANGED <<requestVars, cancelling, workerVars, kafkaVars>>
      BY <1>7 DEF CreateFail
    <2> QED
      BY <2>1, <2>2, <2>3, <2>4 DEF TypeOK, requestVars, workerVars, kafkaVars
  <1> QED
    BY <1>1, <1>2, <1>3, <1>4, <1>5, <1>6, <1>7 DEF Create

\* A step of CancelBookingCommandHandler keeps the types.
LEMMA TypeCancel ==
    ASSUME TypeOK, NEW r \in CancelRequest, Cancel(r)
    PROVE  TypeOK'
  <1>1. ASSUME NEW b \in Booking, NEW u \in User, CancelFind(r, b, u)
        PROVE  TypeOK'
    BY <1>1 DEF CancelFind, TypeOK, requestVars, createVars, workerVars, kafkaVars
  <1>2. CASE CancelSave(r)
    BY <1>2 DEF CancelSave, Save, TypeOK, BookingStatus,
                requestVars, createVars, workerVars, kafkaVars
  <1>3. CASE CancelFail(r)
    BY <1>3, FaultsAssumption DEF CancelFail, SaveThrows, Save, TypeOK, BookingStatus,
                requestVars, createVars, workerVars, kafkaVars
  <1> QED
    BY <1>1, <1>2, <1>3 DEF Cancel

\* A step of ProcessBookingAsync keeps the types.
LEMMA TypeProcess ==
    ASSUME TypeOK, NEW b \in Booking, ProcessBooking(b)
    PROVE  TypeOK'
  <1>1. CASE TaskFind(b)
    BY <1>1, TaskTypes DEF TaskFind, TypeOK, requestVars, createVars, kafkaVars
  <1>2. CASE TaskFindFail(b)
    BY <1>2, TaskTypes, FaultsAssumption DEF TaskFindFail, TypeOK, requestVars, createVars, kafkaVars
  <1>3. CASE TaskRefuse(b)
    BY <1>3, TaskTypes DEF TaskRefuse, TypeOK, requestVars, createVars, kafkaVars
  <1>4. CASE TaskConfirm(b)
    BY <1>4, TaskTypes DEF TaskConfirm, Save, TypeOK, BookingStatus,
                           requestVars, createVars, kafkaVars
  <1>5. CASE TaskConfirmFail(b)
    <2>1. status' \in [Booking -> BookingStatus \cup {"None"}]
      BY <1>5 DEF TaskConfirmFail, SaveThrows, Save, TypeOK, BookingStatus
    <2>2. task' \in [Booking -> Task]
      BY <1>5, TaskTypes DEF TaskConfirmFail, TypeOK
    <2>3. faults' \in 0 .. MaxFaults
      BY <1>5, FaultsAssumption DEF TaskConfirmFail, TypeOK
    <2>4. UNCHANGED <<requestVars, createVars, cancelling, worker, kafkaVars>>
      BY <1>5 DEF TaskConfirmFail
    <2> QED
      BY <2>1, <2>2, <2>3, <2>4 DEF TypeOK, requestVars, createVars, kafkaVars
  <1>6. CASE TaskPublish(b)
    BY <1>6, TaskTypes DEF TaskPublish, TypeOK, requestVars, createVars
  <1>7. CASE TaskPublishFail(b)
    <2>1. topic' \in Seq(Booking)
      <3>1. Append(topic, b) \in Seq(Booking)
        BY DEF TypeOK
      <3>2. Append(Append(topic, b), b) \in Seq(Booking)
        BY <3>1
      <3> QED
        BY <1>7, <3>1, <3>2 DEF TaskPublishFail, TypeOK
    <2>2. attempts' \in [Booking -> Nat] /\ task' \in [Booking -> Task]
      BY <1>7, TaskTypes DEF TaskPublishFail, TypeOK
    <2>3. faults' \in 0 .. MaxFaults
      BY <1>7, FaultsAssumption DEF TaskPublishFail, TypeOK
    <2>4. UNCHANGED <<requestVars, createVars, status, cancelling, worker>>
      BY <1>7 DEF TaskPublishFail
    <2> QED
      BY <2>1, <2>2, <2>3, <2>4 DEF TypeOK, requestVars, createVars
  <1> QED
    BY <1>1, <1>2, <1>3, <1>4, <1>5, <1>6, <1>7 DEF ProcessBooking

\* Every step of the service keeps the types.
LEMMA TypeStep == TypeOK /\ [Next]_vars => TypeOK'
  <1> SUFFICES ASSUME TypeOK, [Next]_vars PROVE TypeOK'
    OBVIOUS
  <1>1. ASSUME NEW b \in Booking, Create(b) PROVE TypeOK'
    BY <1>1, TypeCreate
  <1>2. ASSUME NEW r \in CancelRequest, Cancel(r) PROVE TypeOK'
    BY <1>2, TypeCancel
  <1>3. CASE Poll
    BY <1>3, TaskTypes DEF Poll, TypeOK, requestVars, createVars, kafkaVars
  <1>4. CASE PollFail
    BY <1>4, FaultsAssumption DEF PollFail, TypeOK, requestVars, createVars, kafkaVars
  <1>5. ASSUME NEW b \in Booking, ProcessBooking(b) PROVE TypeOK'
    BY <1>5, TypeProcess
  <1>6. CASE RoundEnd
    BY <1>6, TaskTypes DEF RoundEnd, TypeOK, requestVars, createVars, kafkaVars
  <1>7. CASE HostStop
    BY <1>7, TaskTypes DEF HostStop, StartAgain, TypeOK, CreatePc, requestVars, kafkaVars
  <1>8. CASE Crash
    BY <1>8, TaskTypes, FaultsAssumption DEF Crash, StartAgain, TypeOK, CreatePc, requestVars, kafkaVars
  <1>9. CASE UNCHANGED vars
    BY <1>9 DEF vars, requestVars, createVars, workerVars, kafkaVars, TypeOK
  <1> QED
    BY <1>1, <1>2, <1>3, <1>4, <1>5, <1>6, <1>7, <1>8, <1>9 DEF Next

\* Every variable of the service keeps a value of its kind.
THEOREM TypeCorrect == Spec => []TypeOK
  BY TypeInit, TypeStep, PTL DEF Spec

-----------------------------------------------------------------------------
(***************************************************************************)
(* The permit of the semaphore                                             *)
(***************************************************************************)

\* The one permit starts in AdditionSemaphore.
LEMMA PermitInit == Init => PermitConservation
  BY DEF Init, PermitConservation, Holding

\* A step of CreateBookingCommandHandler takes or gives back the permit it owes.
LEMMA PermitCreate ==
    ASSUME TypeOK, PermitConservation, NEW b \in Booking, Create(b)
    PROVE  PermitConservation'
  <1> USE DEF TypeOK, PermitConservation, Holding
  <1>1. CASE CreateArrive(b)
    BY <1>1 DEF CreateArrive
  <1>2. CASE CreateAbandon(b)
    BY <1>2 DEF CreateAbandon
  <1>3. CASE CreateAcquire(b)
    BY <1>3 DEF CreateAcquire
  <1>4. CASE CreateCount(b)
    BY <1>4 DEF CreateCount
  <1>5. CASE CreateRefuse(b)
    BY <1>5 DEF CreateRefuse, CreateLeave
  <1>6. CASE CreateSave(b)
    BY <1>6 DEF CreateSave, CreateLeave
  <1>7. CASE CreateFail(b)
    <2>1. Holding(b)
      BY <1>7 DEF CreateFail
    <2>2. CreateLeave(b, "failed")
      BY <1>7 DEF CreateFail
    <2> QED
      BY <2>1, <2>2 DEF CreateLeave
  <1> QED
    BY <1>1, <1>2, <1>3, <1>4, <1>5, <1>6, <1>7 DEF Create

\* Every step keeps the permit; a restart makes a new semaphore and ends all POSTs.
LEMMA PermitStep == TypeOK /\ PermitConservation /\ [Next]_vars => PermitConservation'
  <1> SUFFICES ASSUME TypeOK, PermitConservation, [Next]_vars
               PROVE  PermitConservation'
    OBVIOUS
  <1>1. CASE UNCHANGED createVars
    BY <1>1 DEF createVars, PermitConservation, Holding
  <1>2. ASSUME NEW b \in Booking, Create(b) PROVE PermitConservation'
    BY <1>2, PermitCreate
  <1>3. ASSUME NEW r \in CancelRequest, Cancel(r) PROVE UNCHANGED createVars
    BY <1>3 DEF Cancel, CancelFind, CancelSave, CancelFail
  <1>4. ASSUME NEW b \in Booking, ProcessBooking(b) PROVE UNCHANGED createVars
    BY <1>4 DEF ProcessBooking, TaskFind, TaskFindFail, TaskRefuse, TaskConfirm,
                TaskConfirmFail, TaskPublish, TaskPublishFail
  <1>5. CASE Poll \/ PollFail \/ RoundEnd
    BY <1>1, <1>5 DEF Poll, PollFail, RoundEnd
  <1>6. CASE HostStop \/ Crash
    <2>1. StartAgain
      BY <1>6 DEF HostStop, Crash
    <2> QED
      BY <2>1 DEF StartAgain, TypeOK, CreatePc, PermitConservation, Holding
  <1>7. CASE UNCHANGED vars
    BY <1>1, <1>7 DEF vars
  <1> QED
    BY <1>1, <1>2, <1>3, <1>4, <1>5, <1>6, <1>7 DEF Next

\* The permit of AdditionSemaphore is in the semaphore or with exactly one POST,
\* whatever way the POSTs end: CreateBookingCommandHandler releases what it took.
THEOREM PermitConserved == Spec => []PermitConservation
  BY PermitInit, PermitStep, TypeCorrect, PTL DEF Spec

-----------------------------------------------------------------------------
(***************************************************************************)
(* The life of a row                                                       *)
(***************************************************************************)

\* A POST has no row before it saves one; only rows are loaded.
RowInv ==
    \A b \in Booking :
        /\ createPc[b] \in {"idle", "waiting", "counting", "saving"} => status[b] = "None"
        /\ LoadedPending(b) => status[b] # "None"

\* What a step does to the status of a row.
StatusMove(b) ==
    \/ status'[b] = status[b]
    \/ createPc[b] = "saving" /\ createPc'[b] \in {"accepted", "failed"} /\ status'[b] = "Pending"
    \/ LoadedPending(b) /\ Decided(b)'

\* A step moves the status of a row only by the three writes of StatusMove: the
\* insert of a POST, and the saves of the worker and of the cancel handler.
LEMMA StatusStep ==
    ASSUME TypeOK, [Next]_vars
    PROVE  \A b \in Booking : StatusMove(b)
  <1> SUFFICES ASSUME NEW b \in Booking PROVE StatusMove(b)
    OBVIOUS
  <1> USE DEF TypeOK, StatusMove
  <1>1. ASSUME NEW c \in Booking, Create(c) PROVE StatusMove(b)
    <2>1. CASE CreateSave(c)
      BY <2>1 DEF CreateSave, Save, CreateLeave
    <2>2. CASE CreateFail(c)
      BY <2>2 DEF CreateFail, SaveThrows, Save, CreateLeave
    <2> QED
      BY <1>1, <2>1, <2>2
         DEF Create, CreateArrive, CreateAbandon, CreateAcquire, CreateCount, CreateRefuse
  <1>2. ASSUME NEW r \in CancelRequest, Cancel(r) PROVE StatusMove(b)
    <2>1. CASE UNCHANGED status
      BY <2>1
    <2>2. CASE cancelling[r] # NoBooking /\ Save(cancelling[r], "Cancelled")
      BY <2>2 DEF Save, LoadedPending, Decided
    <2> QED
      BY <1>2, <2>1, <2>2 DEF Cancel, CancelFind, CancelSave, CancelFail, SaveThrows
  <1>3. ASSUME NEW c \in Booking, ProcessBooking(c) PROVE StatusMove(b)
    <2>1. CASE UNCHANGED status
      BY <2>1
    <2>2. CASE task[c].pc = "delay" /\ task[c].seen = "Pending" /\ Save(c, "Confirmed")
      BY <2>2 DEF Save, LoadedPending, Decided
    <2> QED
      BY <1>3, <2>1, <2>2
         DEF ProcessBooking, TaskFind, TaskFindFail, TaskRefuse, TaskConfirm,
             TaskConfirmFail, TaskPublish, TaskPublishFail, SaveThrows
  <1>4. CASE Poll \/ PollFail \/ RoundEnd \/ HostStop \/ Crash \/ UNCHANGED vars
    BY <1>4 DEF Poll, PollFail, RoundEnd, HostStop, Crash, StartAgain, vars
  <1> QED
    BY <1>1, <1>2, <1>3, <1>4 DEF Next

\* A handler that comes to hold the row in memory as Pending has read it Pending.
LEMMA LoadedStep ==
    ASSUME TypeOK, [Next]_vars, NEW b \in Booking, LoadedPending(b)'
    PROVE  LoadedPending(b) \/ (status[b] = "Pending" /\ status'[b] = "Pending")
  <1> USE DEF TypeOK
  <1>1. CASE UNCHANGED <<cancelling, task>>
    BY <1>1 DEF LoadedPending
  <1>2. ASSUME NEW c \in Booking, Create(c) PROVE UNCHANGED <<cancelling, task>>
    BY <1>2 DEF Create, CreateArrive, CreateAbandon, CreateAcquire, CreateCount,
                CreateRefuse, CreateSave, CreateFail, workerVars
  <1>3. ASSUME NEW r \in CancelRequest, Cancel(r)
        PROVE  LoadedPending(b) \/ (status[b] = "Pending" /\ status'[b] = "Pending")
    <2>1. UNCHANGED task
      BY <1>3 DEF Cancel, CancelFind, CancelSave, CancelFail, workerVars
    <2>2. ASSUME NEW c \in Booking, NEW u \in User, CancelFind(r, c, u)
          PROVE  LoadedPending(b) \/ (status[b] = "Pending" /\ status'[b] = "Pending")
      BY <2>1, <2>2 DEF CancelFind, LoadedPending
    <2>3. CASE cancelling' = [cancelling EXCEPT ![r] = NoBooking]
      BY <2>1, <2>3, NoBookingAssumption DEF LoadedPending
    <2> QED
      BY <1>3, <2>2, <2>3 DEF Cancel, CancelSave, CancelFail
  <1>4. ASSUME NEW c \in Booking, ProcessBooking(c)
        PROVE  LoadedPending(b) \/ (status[b] = "Pending" /\ status'[b] = "Pending")
    <2>1. UNCHANGED cancelling
      BY <1>4 DEF ProcessBooking, TaskFind, TaskFindFail, TaskRefuse, TaskConfirm,
                  TaskConfirmFail, TaskPublish, TaskPublishFail
    <2>2. CASE TaskFind(c)
      BY <2>1, <2>2 DEF TaskFind, LoadedPending
    <2>3. CASE task' = [task EXCEPT ![c] = NoTask]
      BY <2>1, <2>3 DEF NoTask, LoadedPending
    <2>4. CASE task' = [task EXCEPT ![c].pc = "faulted"]
      BY <2>1, <2>4 DEF Task, LoadedPending
    <2>5. CASE task' = [task EXCEPT ![c] = [pc |-> "publish", seen |-> "Confirmed"]]
      BY <2>1, <2>5 DEF LoadedPending
    <2> QED
      BY <1>4, <2>2, <2>3, <2>4, <2>5
         DEF ProcessBooking, TaskFindFail, TaskRefuse, TaskConfirm, TaskConfirmFail,
             TaskPublish, TaskPublishFail
  <1>5. CASE Poll \/ RoundEnd
    BY <1>5 DEF Poll, RoundEnd, NoTask, LoadedPending
  <1>6. CASE PollFail \/ UNCHANGED vars
    BY <1>1, <1>6 DEF PollFail, vars, workerVars
  <1>7. CASE HostStop \/ Crash
    BY <1>7, NoBookingAssumption DEF HostStop, Crash, StartAgain, NoTask, LoadedPending
  <1> QED
    BY <1>1, <1>2, <1>3, <1>4, <1>5, <1>6, <1>7 DEF Next

\* The table starts empty and nobody has loaded a row.
LEMMA RowInit == Init => RowInv
  BY NoBookingAssumption DEF Init, RowInv, LoadedPending, NoTask

\* A POST that is not answered after a step was not answered before it.
LEMMA CreatePcStep ==
    ASSUME TypeOK, [Next]_vars, NEW b \in Booking,
           createPc'[b] \in {"idle", "waiting", "counting", "saving"}
    PROVE  createPc[b] \in {"idle", "waiting", "counting", "saving"}
  <1> USE DEF TypeOK
  <1>1. ASSUME NEW c \in Booking, Create(c)
        PROVE  createPc[b] \in {"idle", "waiting", "counting", "saving"}
    BY <1>1 DEF Create, CreateArrive, CreateAbandon, CreateAcquire, CreateCount,
                CreateRefuse, CreateSave, CreateFail, CreateLeave
  <1>2. ASSUME NEW r \in CancelRequest, Cancel(r) PROVE UNCHANGED createPc
    BY <1>2 DEF Cancel, CancelFind, CancelSave, CancelFail, createVars
  <1>3. ASSUME NEW c \in Booking, ProcessBooking(c) PROVE UNCHANGED createPc
    BY <1>3 DEF ProcessBooking, TaskFind, TaskFindFail, TaskRefuse, TaskConfirm,
                TaskConfirmFail, TaskPublish, TaskPublishFail, createVars
  <1>4. CASE Poll \/ PollFail \/ RoundEnd \/ UNCHANGED vars
    BY <1>4 DEF Poll, PollFail, RoundEnd, vars, createVars
  <1>5. CASE HostStop \/ Crash
    BY <1>5 DEF HostStop, Crash, StartAgain, CreatePc
  <1> QED
    BY <1>1, <1>2, <1>3, <1>4, <1>5 DEF Next

\* Every step keeps the life of a row.
LEMMA RowStep == TypeOK /\ RowInv /\ [Next]_vars => RowInv'
  <1> SUFFICES ASSUME TypeOK, RowInv, [Next]_vars, NEW b \in Booking
               PROVE  /\ createPc'[b] \in {"idle", "waiting", "counting", "saving"}
                            => status'[b] = "None"
                      /\ LoadedPending(b)' => status'[b] # "None"
    BY DEF RowInv
  <1>1. StatusMove(b)
    BY StatusStep
  <1>2. ASSUME createPc'[b] \in {"idle", "waiting", "counting", "saving"}
        PROVE  status'[b] = "None"
    <2>1. status[b] = "None"
      BY <1>2, CreatePcStep DEF RowInv
    <2>2. ~LoadedPending(b)
      BY <2>1 DEF RowInv
    <2> QED
      BY <1>1, <1>2, <2>1, <2>2 DEF StatusMove
  <1>3. ASSUME LoadedPending(b)' PROVE status'[b] # "None"
    <2>1. LoadedPending(b) \/ status'[b] = "Pending"
      BY <1>3, LoadedStep
    <2> QED
      BY <1>1, <2>1 DEF StatusMove, RowInv, Decided
  <1> QED
    BY <1>2, <1>3

\* A booking has no row until its POST is answered, and what the worker and the
\* cancel handler have loaded are rows.
THEOREM RowCorrect == Spec => []RowInv
  BY RowInit, RowStep, TypeCorrect, PTL DEF Spec

\* A decision is never withdrawn, and final once no handler has the row in
\* memory as pending: ProcessBookingAsync and the cancel handler read the row
\* again, and Booking.Confirm and Booking.Cancel refuse what is not pending.
THEOREM DecisionsStand == Spec => DecisionStands
  <1>1. TypeOK /\ RowInv /\ [Next]_vars =>
            [\A b \in Booking :
                /\ Decided(b) => Decided(b)'
                /\ Settled(b) => Settled(b)' /\ status'[b] = status[b]]_vars
    <2> SUFFICES ASSUME TypeOK, RowInv, [Next]_vars, NEW b \in Booking, Decided(b)
                 PROVE  /\ Decided(b)'
                        /\ Settled(b) => Settled(b)' /\ status'[b] = status[b]
      BY DEF Settled
    <2>1. StatusMove(b)
      BY StatusStep
    <2>2. createPc[b] # "saving"
      BY DEF RowInv, Decided
    <2>3. Decided(b)'
      BY <2>1, <2>2 DEF StatusMove, Decided
    <2>4. ASSUME Settled(b) PROVE status'[b] = status[b]
      BY <2>1, <2>2, <2>4 DEF StatusMove, Settled
    <2>5. ASSUME Settled(b) PROVE ~LoadedPending(b)'
      BY <2>5, LoadedStep DEF Settled, Decided
    <2> QED
      BY <2>3, <2>4, <2>5 DEF Settled
  <1> QED
    BY <1>1, TypeCorrect, RowCorrect, PTL DEF Spec, DecisionStands

-----------------------------------------------------------------------------
(***************************************************************************)
(* The limit                                                               *)
(***************************************************************************)

\* The POST that has counted and not yet saved keeps room for its booking:
\* no other POST saves one, and all other steps only make room.
LimitInv ==
    /\ PendingLimit
    /\ \A b \in Booking :
          createPc[b] = "saving" => Cardinality(PendingOf(owner[b])) < BookingLimitPerUser

\* The pending bookings of a user are a finite set.
LEMMA PendingFinite ==
    ASSUME NEW u
    PROVE  IsFiniteSet(PendingOf(u)) /\ Cardinality(PendingOf(u)) \in Nat
  <1>1. PendingOf(u) \subseteq Booking
    BY DEF PendingOf, Pending
  <1> QED
    BY <1>1, BookingAssumption, FS_Subset, FS_CardinalityType

\* The pending bookings of a user are a finite set in the next state.
LEMMA PendingFiniteNext ==
    ASSUME NEW u
    PROVE  IsFiniteSet(PendingOf(u)') /\ Cardinality(PendingOf(u)') \in Nat
  <1>1. PendingOf(u)' \subseteq Booking
    BY DEF PendingOf, Pending
  <1> QED
    BY <1>1, BookingAssumption, FS_Subset, FS_CardinalityType

\* A step in which no booking becomes pending leaves no user with more.
LEMMA PendingShrinks ==
    ASSUME NEW u, owner' = owner,
           \A b \in Booking : status'[b] = "Pending" => status[b] = "Pending"
    PROVE  Cardinality(PendingOf(u)') <= Cardinality(PendingOf(u))
  <1>1. PendingOf(u)' \subseteq PendingOf(u)
    BY DEF PendingOf, Pending
  <1> QED
    BY <1>1, PendingFinite, FS_Subset

\* Saving one booking gives its owner one more, and nobody else.
LEMMA PendingGrows ==
    ASSUME NEW u, NEW b \in Booking, owner' = owner,
           \A c \in Booking \ {b} : status'[c] = "Pending" => status[c] = "Pending"
    PROVE  /\ u # owner[b] => Cardinality(PendingOf(u)') <= Cardinality(PendingOf(u))
           /\ Cardinality(PendingOf(u)') <= Cardinality(PendingOf(u)) + 1
  <1>1. ASSUME u # owner[b] PROVE PendingOf(u)' \subseteq PendingOf(u)
    BY <1>1 DEF PendingOf, Pending
  <1>2. PendingOf(u)' \subseteq PendingOf(u) \cup {b}
    BY DEF PendingOf, Pending
  <1>3. /\ IsFiniteSet(PendingOf(u) \cup {b})
        /\ \/ Cardinality(PendingOf(u) \cup {b}) = Cardinality(PendingOf(u))
           \/ Cardinality(PendingOf(u) \cup {b}) = Cardinality(PendingOf(u)) + 1
    BY PendingFinite, FS_AddElement
  <1>4. Cardinality(PendingOf(u)') <= Cardinality(PendingOf(u) \cup {b})
    BY <1>2, <1>3, FS_Subset
  <1> QED
    BY <1>1, <1>3, <1>4, PendingFinite, PendingFiniteNext, FS_Subset

\* Nobody has a pending booking at the start.
LEMMA LimitInit == Init => LimitInv
  <1> SUFFICES ASSUME Init PROVE LimitInv
    OBVIOUS
  <1>1. \A u \in User : PendingOf(u) = {}
    BY DEF Init, PendingOf, Pending
  <1>2. Cardinality({}) = 0
    BY FS_EmptySet
  <1>3. PendingLimit
    <2> SUFFICES ASSUME NEW u \in User
                 PROVE  Cardinality(PendingOf(u)) <= BookingLimitPerUser
      BY DEF PendingLimit
    <2>1. Cardinality(PendingOf(u)) = 0
      BY <1>1, <1>2
    <2> QED
      BY <2>1, LimitAssumption
  <1>4. \A b \in Booking : createPc[b] # "saving"
    BY DEF Init
  <1> QED
    BY <1>3, <1>4 DEF LimitInv

\* A booking never changes its owner.
LEMMA OwnerStep == [Next]_vars => owner' = owner
  BY DEF Next, vars, requestVars, Create, CreateArrive, CreateAbandon, CreateAcquire,
         CreateCount, CreateRefuse, CreateSave, CreateFail, Cancel, CancelFind,
         CancelSave, CancelFail, Poll, PollFail, ProcessBooking, TaskFind,
         TaskFindFail, TaskRefuse, TaskConfirm, TaskConfirmFail, TaskPublish,
         TaskPublishFail, RoundEnd, HostStop, Crash, StartAgain

\* Only CreateCount lets a POST go on to save.
LEMMA SavingStep ==
    ASSUME TypeOK, [Next]_vars, NEW b \in Booking, createPc'[b] = "saving"
    PROVE  createPc[b] = "saving" \/ CreateCount(b)
  <1> USE DEF TypeOK
  <1>1. ASSUME NEW c \in Booking, Create(c)
        PROVE  createPc[b] = "saving" \/ CreateCount(b)
    BY <1>1 DEF Create, CreateArrive, CreateAbandon, CreateAcquire, CreateCount,
                CreateRefuse, CreateSave, CreateFail, CreateLeave
  <1>2. ASSUME NEW r \in CancelRequest, Cancel(r) PROVE UNCHANGED createPc
    BY <1>2 DEF Cancel, CancelFind, CancelSave, CancelFail, createVars
  <1>3. ASSUME NEW c \in Booking, ProcessBooking(c) PROVE UNCHANGED createPc
    BY <1>3 DEF ProcessBooking, TaskFind, TaskFindFail, TaskRefuse, TaskConfirm,
                TaskConfirmFail, TaskPublish, TaskPublishFail, createVars
  <1>4. CASE Poll \/ PollFail \/ RoundEnd \/ UNCHANGED vars
    BY <1>4 DEF Poll, PollFail, RoundEnd, vars, createVars
  <1>5. CASE HostStop \/ Crash
    BY <1>5 DEF HostStop, Crash, StartAgain, CreatePc
  <1> QED
    BY <1>1, <1>2, <1>3, <1>4, <1>5 DEF Next

\* Every step keeps the limit: the one POST past CreateCount has the permit, so no
\* other POST adds a booking before it saves its own.
LEMMA LimitStep ==
    TypeOK /\ PermitConservation /\ RowInv /\ LimitInv /\ [Next]_vars => LimitInv'
  <1> SUFFICES ASSUME TypeOK, PermitConservation, RowInv, LimitInv, [Next]_vars
               PROVE  LimitInv'
    OBVIOUS
  <1>1. owner' = owner /\ owner \in [Booking -> User]
    BY OwnerStep DEF TypeOK
  <1>2. \A b \in Booking : StatusMove(b)
    BY StatusStep
  <1>3. CASE \A b \in Booking : status'[b] = "Pending" => status[b] = "Pending"
    <2>1. \A u \in User : /\ Cardinality(PendingOf(u)') <= Cardinality(PendingOf(u))
                         /\ Cardinality(PendingOf(u)') \in Nat
                         /\ Cardinality(PendingOf(u)) \in Nat
      BY <1>1, <1>3, PendingShrinks, PendingFinite, PendingFiniteNext
    <2>2. PendingLimit'
      BY <2>1, LimitAssumption DEF LimitInv, PendingLimit
    <2>3. ASSUME NEW b \in Booking, createPc'[b] = "saving"
          PROVE  Cardinality(PendingOf(owner[b])') < BookingLimitPerUser
      <3>1. Cardinality(PendingOf(owner[b])) < BookingLimitPerUser
        BY <2>3, SavingStep DEF LimitInv, CreateCount
      <3> QED
        BY <1>1, <2>1, <3>1, LimitAssumption
    <2> QED
      BY <1>1, <2>2, <2>3 DEF LimitInv
  <1>4. ASSUME NEW b \in Booking, status'[b] = "Pending", status[b] # "Pending"
        PROVE  LimitInv'
    <2>1. createPc[b] = "saving" /\ createPc'[b] # "saving"
      BY <1>2, <1>4 DEF StatusMove, Decided
    <2>2. \A c \in Booking \ {b} : createPc[c] # "saving"
      BY <2>1 DEF PermitConservation, Holding
    <2>3. \A c \in Booking \ {b} : status'[c] = "Pending" => status[c] = "Pending"
      BY <1>2, <2>2 DEF StatusMove, Decided
    <2>4. Cardinality(PendingOf(owner[b])) < BookingLimitPerUser
      BY <2>1 DEF LimitInv
    <2>5. ASSUME NEW u \in User PROVE Cardinality(PendingOf(u)') <= BookingLimitPerUser
      <3>1. /\ u # owner[b] => Cardinality(PendingOf(u)') <= Cardinality(PendingOf(u))
            /\ Cardinality(PendingOf(u)') <= Cardinality(PendingOf(u)) + 1
        BY <1>1, <2>3, PendingGrows
      <3>2. Cardinality(PendingOf(u)) <= BookingLimitPerUser
        BY DEF LimitInv, PendingLimit
      <3>3. Cardinality(PendingOf(u)) \in Nat /\ Cardinality(PendingOf(u)') \in Nat
        BY PendingFinite, PendingFiniteNext
      <3> QED
        BY <2>4, <3>1, <3>2, <3>3, LimitAssumption
    <2>6. ASSUME NEW c \in Booking PROVE createPc'[c] # "saving"
      <3>1. ~CreateCount(c)
        <4> SUFFICES ASSUME CreateCount(c) PROVE FALSE
          OBVIOUS
        <4>1. UNCHANGED status
          BY DEF CreateCount
        <4> QED
          BY <1>4, <4>1
      <3> QED
        BY <2>1, <2>2, <3>1, SavingStep
    <2> QED
      BY <2>5, <2>6 DEF LimitInv, PendingLimit
  <1> QED
    BY <1>3, <1>4

\* No user has more than BookingLimitPerUser pending bookings, although the count
\* and the insert of CreateBookingCommandHandler are two round trips.
THEOREM LimitHolds == Spec => []PendingLimit
  <1>1. LimitInv => PendingLimit
    BY DEF LimitInv
  <1> QED
    BY <1>1, LimitInit, LimitStep, TypeCorrect, PermitConserved, RowCorrect, PTL DEF Spec

-----------------------------------------------------------------------------
(***************************************************************************)
(* The life of a message                                                   *)
(***************************************************************************)

\* Nothing is published before the decision is saved, and a task that may still
\* publish has not: the saved decision keeps the booking out of later rounds.
MessageInv ==
    /\ \A b \in Booking :
          /\ attempts[b] \in {0, 1}
          /\ attempts[b] = 1 => Decided(b)
          /\ task[b].pc = "publish" => Decided(b) /\ attempts[b] = 0
          /\ task[b].pc = "delay" /\ task[b].seen = "Pending" => attempts[b] = 0
    /\ \A i \in DOMAIN topic : attempts[topic[i]] = 1

\* Nothing is announced at the start.
LEMMA MessageInit == Init => MessageInv
  BY DEF Init, MessageInv, NoTask

\* Decisions are not withdrawn: the first half of DecisionStands.
LEMMA DecidedStep ==
    ASSUME TypeOK, RowInv, [Next]_vars, NEW b \in Booking, Decided(b)
    PROVE  Decided(b)'
  <1>1. StatusMove(b)
    BY StatusStep
  <1> QED
    BY <1>1 DEF StatusMove, RowInv, Decided

\* What f says of every element of a sequence, and of x, it says after x joins.
LEMMA AppendKeeps ==
    ASSUME NEW S, NEW s \in Seq(S), NEW x \in S, NEW f, NEW v,
           \A i \in DOMAIN s : f[s[i]] = v, f[x] = v
    PROVE  \A i \in DOMAIN Append(s, x) : f[Append(s, x)[i]] = v
  OBVIOUS

\* A step of ProcessBookingAsync keeps the life of a message.
LEMMA MessageProcess ==
    ASSUME TypeOK, RowInv, MessageInv, [Next]_vars,
           NEW c \in Booking, ProcessBooking(c)
    PROVE  MessageInv'
  <1> USE DEF TypeOK, MessageInv
  <1>1. \A b \in Booking : Decided(b) => Decided(b)'
    BY DecidedStep
  <1>2. CASE TaskFind(c)
    BY <1>1, <1>2 DEF TaskFind, Decided, kafkaVars
  <1>3. CASE TaskFindFail(c)
    BY <1>1, <1>3 DEF TaskFindFail, Task, kafkaVars
  <1>4. CASE TaskRefuse(c)
    BY <1>1, <1>4 DEF TaskRefuse, NoTask, kafkaVars
  <1>5. CASE TaskConfirm(c)
    BY <1>1, <1>5 DEF TaskConfirm, Save, Decided, kafkaVars
  <1>6. CASE TaskConfirmFail(c)
    BY <1>1, <1>6 DEF TaskConfirmFail, NoTask, kafkaVars
  <1>7. CASE TaskPublish(c) \/ TaskPublishFail(c)
    <2>1. /\ task[c].pc = "publish"
          /\ attempts' = [attempts EXCEPT ![c] = @ + 1]
          /\ task' = [task EXCEPT ![c] = NoTask]
      BY <1>7 DEF TaskPublish, TaskPublishFail
    <2>2. attempts[c] = 0 /\ Decided(c)
      BY <2>1
    <2>3. \A b \in Booking :
              /\ attempts'[b] \in {0, 1}
              /\ attempts'[b] = 1 => Decided(b)'
              /\ task'[b].pc = "publish" => Decided(b)' /\ attempts'[b] = 0
              /\ task'[b].pc = "delay" /\ task'[b].seen = "Pending" => attempts'[b] = 0
      BY <1>1, <2>1, <2>2 DEF NoTask
    <2>4. \A b \in Booking : attempts[b] = 1 => attempts'[b] = 1
      BY <2>1, <2>2
    <2>5. attempts'[c] = 1
      BY <2>1, <2>2
    <2>6. \A i \in DOMAIN topic' : attempts'[topic'[i]] = 1
      <3>1. CASE topic' = topic
        BY <2>4, <3>1
      <3>2. CASE topic' = Append(topic, c)
        BY <2>4, <2>5, <3>2
      <3>3. CASE topic' = Append(Append(topic, c), c)
        <4>1. Append(topic, c) \in Seq(Booking)
          OBVIOUS
        <4>2. \A i \in DOMAIN Append(topic, c) : attempts'[Append(topic, c)[i]] = 1
          BY <2>4, <2>5
        <4> QED
          BY ONLY <2>5, <3>3, <4>1, <4>2, AppendKeeps
      <3> QED
        BY <1>7, <3>1, <3>2, <3>3 DEF TaskPublish, TaskPublishFail
    <2> QED
      BY <2>3, <2>6
  <1> QED
    BY <1>2, <1>3, <1>4, <1>5, <1>6, <1>7 DEF ProcessBooking

\* Every step keeps the life of a message.
LEMMA MessageStep == TypeOK /\ RowInv /\ MessageInv /\ [Next]_vars => MessageInv'
  <1> SUFFICES ASSUME TypeOK, RowInv, MessageInv, [Next]_vars PROVE MessageInv'
    OBVIOUS
  <1>1. \A b \in Booking : Decided(b) => Decided(b)'
    BY DecidedStep
  <1>2. CASE UNCHANGED <<task, kafkaVars>>
    BY <1>1, <1>2 DEF MessageInv, kafkaVars
  <1>3. ASSUME NEW b \in Booking, Create(b) PROVE UNCHANGED <<task, kafkaVars>>
    BY <1>3 DEF Create, CreateArrive, CreateAbandon, CreateAcquire, CreateCount,
                CreateRefuse, CreateSave, CreateFail, workerVars
  <1>4. ASSUME NEW r \in CancelRequest, Cancel(r) PROVE UNCHANGED <<task, kafkaVars>>
    BY <1>4 DEF Cancel, CancelFind, CancelSave, CancelFail, workerVars
  <1>5. ASSUME NEW b \in Booking, ProcessBooking(b) PROVE MessageInv'
    BY <1>5, MessageProcess
  <1>6. CASE Poll \/ RoundEnd \/ HostStop \/ Crash
    BY <1>1, <1>6 DEF Poll, RoundEnd, HostStop, Crash, StartAgain, NoTask, MessageInv, kafkaVars
  <1>7. CASE PollFail \/ UNCHANGED vars
    BY <1>2, <1>7 DEF PollFail, vars, workerVars
  <1> QED
    BY <1>2, <1>3, <1>4, <1>5, <1>6, <1>7 DEF Next

\* A booking about to be published was decided and never announced before, and what
\* is in the topic was announced once: the life of a message of the worker.
THEOREM MessageCorrect == Spec => []MessageInv
  BY MessageInit, MessageStep, TypeCorrect, RowCorrect, PTL DEF Spec

\* PublishBookingConfirmedAsync is called at most once for a booking, whatever
\* fails and however often the process starts again.
THEOREM AnnouncedAtMostOnce == Spec => []AnnouncedOnce
  <1>1. MessageInv => AnnouncedOnce
    BY DEF MessageInv, AnnouncedOnce
  <1> QED
    BY <1>1, MessageCorrect, PTL

\* A message in the topic is about a booking that has left Pending for good.
THEOREM MessagesAfterDecision == Spec => []MessageAfterDecision
  <1>1. TypeOK /\ MessageInv => MessageAfterDecision
    BY DEF TypeOK, MessageInv, MessageAfterDecision
  <1> QED
    BY <1>1, TypeCorrect, MessageCorrect, PTL

\* What a step adds to the topic, and when a failure is counted.
LEMMA TopicStep ==
    ASSUME TypeOK, [Next]_vars
    PROVE  /\ UNCHANGED eventOf
           /\ \/ UNCHANGED <<topic, attempts>> /\ faults' \in {faults, faults + 1}
              \/ \E b \in Booking :
                    /\ task[b].pc = "publish"
                    /\ attempts' = [attempts EXCEPT ![b] = @ + 1]
                    /\ \/ topic' = Append(topic, b) /\ faults' = faults
                       \/ /\ topic' \in {topic, Append(topic, b), Append(Append(topic, b), b)}
                          /\ faults' = faults + 1
           /\ faults' \in 0 .. MaxFaults
  <1>1. CASE UNCHANGED vars
    BY <1>1 DEF vars, requestVars, kafkaVars, TypeOK
  <1>2. ASSUME NEW b \in Booking, Create(b)
        PROVE  UNCHANGED <<eventOf, topic, attempts>> /\ faults' \in {faults, faults + 1}
    BY <1>2 DEF Create, CreateArrive, CreateAbandon, CreateAcquire, CreateCount,
                CreateRefuse, CreateSave, CreateFail, requestVars, kafkaVars
  <1>3. ASSUME NEW r \in CancelRequest, Cancel(r)
        PROVE  UNCHANGED <<eventOf, topic, attempts>> /\ faults' \in {faults, faults + 1}
    BY <1>3 DEF Cancel, CancelFind, CancelSave, CancelFail, requestVars, kafkaVars
  <1>4. CASE Poll \/ PollFail \/ RoundEnd \/ HostStop \/ Crash
    <2>1. UNCHANGED <<eventOf, topic, attempts>> /\ faults' \in {faults, faults + 1}
      BY <1>4 DEF Poll, PollFail, RoundEnd, HostStop, Crash, StartAgain, requestVars, kafkaVars
    <2> QED
      BY <2>1, TypeStep DEF TypeOK
  <1>5. ASSUME NEW b \in Booking, ProcessBooking(b), ~TaskPublish(b), ~TaskPublishFail(b)
        PROVE  UNCHANGED <<eventOf, topic, attempts>> /\ faults' \in {faults, faults + 1}
    BY <1>5 DEF ProcessBooking, TaskFind, TaskFindFail, TaskRefuse, TaskConfirm, TaskConfirmFail,
                requestVars, kafkaVars
  <1>6. ASSUME NEW b \in Booking, TaskPublish(b) \/ TaskPublishFail(b)
        PROVE  /\ UNCHANGED eventOf
               /\ task[b].pc = "publish"
               /\ attempts' = [attempts EXCEPT ![b] = @ + 1]
               /\ \/ topic' = Append(topic, b) /\ faults' = faults
                  \/ /\ topic' \in {topic, Append(topic, b), Append(Append(topic, b), b)}
                     /\ faults' = faults + 1
    BY <1>6 DEF TaskPublish, TaskPublishFail, requestVars
  <1>7. faults' \in 0 .. MaxFaults
    BY TypeStep DEF TypeOK
  <1> QED
    BY <1>1, <1>2, <1>3, <1>4, <1>5, <1>6, <1>7 DEF Next

\* As long as nothing has failed, no two messages are about the same booking.
CleanTopic == faults = 0 => \A i, j \in DOMAIN topic : topic[i] = topic[j] => i = j

\* A booking that is published for the first time is not in the topic yet.
LEMMA CleanStep == TypeOK /\ MessageInv /\ CleanTopic /\ [Next]_vars => CleanTopic'
  <1> SUFFICES ASSUME TypeOK, MessageInv, CleanTopic, [Next]_vars, faults' = 0
               PROVE  \A i, j \in DOMAIN topic' : topic'[i] = topic'[j] => i = j
    BY DEF CleanTopic
  <1>1. faults = 0
    BY TopicStep DEF TypeOK
  <1>2. CASE UNCHANGED topic
    BY <1>1, <1>2 DEF CleanTopic
  <1>3. ASSUME NEW b \in Booking, task[b].pc = "publish", topic' = Append(topic, b)
        PROVE  \A i, j \in DOMAIN topic' : topic'[i] = topic'[j] => i = j
    <2>1. \A i \in DOMAIN topic : topic[i] # b
      BY <1>3 DEF MessageInv
    <2>2. topic \in Seq(Booking)
      BY DEF TypeOK
    <2> QED
      BY <1>1, <1>3, <2>1, <2>2 DEF CleanTopic
  <1> QED
    BY <1>1, <1>2, <1>3, TopicStep DEF TypeOK

\* Unless something fails, a booking is announced in one message.
LEMMA CleanCorrect == Spec => []CleanTopic
  <1>1. Init => CleanTopic
    BY DEF Init, CleanTopic
  <1> QED
    BY <1>1, CleanStep, TypeCorrect, MessageCorrect, PTL DEF Spec

-----------------------------------------------------------------------------
(***************************************************************************)
(* The ledger                                                              *)
(***************************************************************************)

\* The service starts as an empty ledger.
LEMMA LedgerInit == Init => Ledger!Init
  BY DEF Init, Ledger!Init

\* The instance has a Cardinality of its own, with the same definition.
LEMMA LedgerCardinality == \A S : Ledger!Cardinality(S) = Cardinality(S)
  BY DEF Cardinality, Ledger!Cardinality

\* Every step of the service is a step of the ledger or leaves it unchanged.
LEMMA LedgerStep ==
    ASSUME TypeOK, RowInv, LimitInv, MessageInv, [Next]_vars
    PROVE  [Ledger!Next]_(Ledger!ledgerVars)
  <1> DEFINE announced == {b \in Booking : attempts[b] > 0}
  <1>1. owner' = owner /\ owner \in [Booking -> User]
    BY OwnerStep DEF TypeOK
  <1>2. \A u : Ledger!PendingOf(u) = PendingOf(u)
    BY DEF Ledger!PendingOf, PendingOf, Pending
  <1>3. CASE UNCHANGED status /\ UNCHANGED attempts
    BY <1>1, <1>3 DEF Ledger!ledgerVars
  <1>4. ASSUME NEW b \in Booking, createPc[b] = "saving",
               Save(b, "Pending"), UNCHANGED attempts
        PROVE  Ledger!Next
    <2>1. status[b] = "None"
      BY <1>4 DEF RowInv
    <2>2. Cardinality(PendingOf(owner[b])) < BookingLimitPerUser
      BY <1>4 DEF LimitInv
    <2>3. Ledger!Cardinality(Ledger!PendingOf(owner[b])) < BookingLimitPerUser
      BY <1>2, <2>2, LedgerCardinality
    <2>4. announced' = announced
      BY <1>4
    <2>5. Ledger!Submit(b)
      BY <1>1, <1>4, <2>1, <2>3, <2>4 DEF Ledger!Submit, Save
    <2> QED
      BY <2>5 DEF Ledger!Next
  <1>5. ASSUME NEW b \in Booking, NEW d \in {"Confirmed", "Cancelled"},
               LoadedPending(b), Save(b, d), UNCHANGED attempts
        PROVE  Ledger!Next
    <2>1. status[b] # "None"
      BY <1>5 DEF RowInv
    <2>2. Ledger!Decide(b, d) \/ Ledger!Overwrite(b, d)
      BY <1>1, <1>5, <2>1
         DEF Ledger!Decide, Ledger!Overwrite, Ledger!Decision, Save, TypeOK, BookingStatus
    <2>3. d \in Ledger!Decision
      BY DEF Ledger!Decision
    <2> QED
      BY <2>2, <2>3 DEF Ledger!Next
  <1>6. ASSUME NEW b \in Booking, Create(b) PROVE [Ledger!Next]_(Ledger!ledgerVars)
    <2>1. UNCHANGED attempts
      BY <1>6 DEF Create, CreateArrive, CreateAbandon, CreateAcquire, CreateCount,
                  CreateRefuse, CreateSave, CreateFail, kafkaVars
    <2>2. UNCHANGED status \/ (createPc[b] = "saving" /\ Save(b, "Pending"))
      BY <1>6 DEF Create, CreateArrive, CreateAbandon, CreateAcquire, CreateCount,
                  CreateRefuse, CreateSave, CreateFail, SaveThrows
    <2> QED
      BY <1>3, <1>4, <2>1, <2>2
  <1>7. ASSUME NEW r \in CancelRequest, Cancel(r)
        PROVE  [Ledger!Next]_(Ledger!ledgerVars)
    <2>1. UNCHANGED attempts
      BY <1>7 DEF Cancel, CancelFind, CancelSave, CancelFail, kafkaVars
    <2>2. \/ UNCHANGED status
          \/ cancelling[r] # NoBooking /\ Save(cancelling[r], "Cancelled")
      BY <1>7 DEF Cancel, CancelFind, CancelSave, CancelFail, SaveThrows
    <2>3. ASSUME cancelling[r] # NoBooking
          PROVE  cancelling[r] \in Booking /\ LoadedPending(cancelling[r])
      BY <2>3 DEF TypeOK, LoadedPending
    <2> QED
      BY <1>3, <1>5, <2>1, <2>2, <2>3
  <1>8. ASSUME NEW b \in Booking, ProcessBooking(b)
        PROVE  [Ledger!Next]_(Ledger!ledgerVars)
    <2>1. CASE TaskPublish(b) \/ TaskPublishFail(b)
      <3>1. /\ task[b].pc = "publish"
            /\ UNCHANGED status
            /\ attempts' = [attempts EXCEPT ![b] = @ + 1]
        BY <2>1 DEF TaskPublish, TaskPublishFail
      <3>2. Decided(b) /\ attempts[b] = 0
        BY <3>1 DEF MessageInv
      <3>3. announced' = announced \cup {b} /\ b \notin announced
        BY <3>1, <3>2 DEF TypeOK
      <3>4. Ledger!Announce(b)
        BY <1>1, <3>1, <3>2, <3>3 DEF Ledger!Announce, Ledger!Decision, Decided
      <3> QED
        BY <3>4 DEF Ledger!Next
    <2>2. CASE ~(TaskPublish(b) \/ TaskPublishFail(b))
      <3>1. UNCHANGED attempts
        BY <1>8, <2>2 DEF ProcessBooking, TaskFind, TaskFindFail, TaskRefuse,
                          TaskConfirm, TaskConfirmFail, kafkaVars
      <3>2. \/ UNCHANGED status
            \/ task[b].pc = "delay" /\ task[b].seen = "Pending" /\ Save(b, "Confirmed")
        BY <1>8, <2>2 DEF ProcessBooking, TaskFind, TaskFindFail, TaskRefuse,
                          TaskConfirm, TaskConfirmFail, SaveThrows
      <3> QED
        BY <1>3, <1>5, <3>1, <3>2 DEF LoadedPending
    <2> QED
      BY <2>1, <2>2
  <1>9. CASE Poll \/ PollFail \/ RoundEnd \/ HostStop \/ Crash \/ UNCHANGED vars
    BY <1>3, <1>9 DEF Poll, PollFail, RoundEnd, HostStop, Crash, StartAgain, vars, kafkaVars
  <1> QED
    BY <1>6, <1>7, <1>8, <1>9 DEF Next

\* The limit, with the POST that is past its count taken into account.
LEMMA LimitCorrect == Spec => []LimitInv
  BY LimitInit, LimitStep, TypeCorrect, PermitConserved, RowCorrect, PTL DEF Spec

\* The service implements BookingLedger: the count and the insert of a POST are
\* one step for the limit, a save of a handler that loaded the row pending is a
\* decision or the overwriting of one, and each announcement is the first.
THEOREM ImplementsLedger == Spec => LedgerSpec
  <1>1. TypeOK /\ RowInv /\ LimitInv /\ MessageInv /\ [Next]_vars
            => [Ledger!Next]_(Ledger!ledgerVars)
    BY LedgerStep
  <1> QED
    BY <1>1, LedgerInit, TypeCorrect, RowCorrect, LimitCorrect, MessageCorrect, PTL
       DEF Spec, LedgerSpec, Ledger!Spec

=============================================================================
