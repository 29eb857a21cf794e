------------------------- MODULE EventServiceProofs -------------------------
(***************************************************************************)
(* Proofs about EventService, for every set of events, bookings, requests  *)
(* and contents and every bound.                                           *)
(*                                                                         *)
(* The types are inductive only together with two facts.  Rows: an event   *)
(* has no seats before it is created, and a proper content from then on.   *)
(* Claim: while the consumer is about to save a row, the table still holds *)
(* the free seats that it read, at least one, as nobody else writes them.  *)
(*                                                                         *)
(* On these rest the refinement of SeatLedger, the accounts of the seats,  *)
(* the offsets, the seats that one run of the process takes for a message, *)
(* and the causes of a stale cache entry, each with a strengthening of its *)
(* own.                                                                    *)
(***************************************************************************)
EXTENDS EventService, FiniteSetTheorems, SequenceTheorems, TLAPS

\* Rows are opened by CreateEvent, with a content.
RowsOpened ==
    /\ \A e \in Event : life[e] = "unborn" => total[e] = 0
    /\ \A e \in Event : life[e] # "unborn" => content[e] \in Content

\* What the consumer read of the row it is about to save is still there.
ClaimHolds ==
    consumer.pc = "saving" =>
        /\ life[MessageEvent] # "unborn"
        /\ consumer.seen >= 1
        /\ available[MessageEvent] = consumer.seen

Typed == TypeOK /\ RowsOpened /\ ClaimHolds

\* What the booking service may do meanwhile, retries of its client library and
\* failures of its own included: it adds to the topic, and leaves the rest alone.
Arrive ==
    /\ \/ UNCHANGED topic
       \/ \E b \in Booking : topic' \in {Append(topic, b), Append(Append(topic, b), b)}
    /\ faults' \in faults .. MaxFaults
    /\ UNCHANGED <<eventOf, tableVars, cache, reader, writer, consumer, offsetVars, raced, restarts>>

-----------------------------------------------------------------------------
(***************************************************************************)
(* The types                                                               *)
(***************************************************************************)

\* A request that waits for nothing is in the states of requests.
LEMMA IdleTypes == Idle \in Reading /\ Idle \in Writing /\ IdleConsumer \in Consuming
  BY DEF Reading, Writing, Consuming

\* A call that fails is one of a bounded number.
LEMMA FaultTypes ==
    ASSUME TypeOK, Fault
    PROVE  faults' \in 0 .. MaxFaults /\ restarts' \in 0 .. MaxRestarts
  BY BoundsAssumption DEF TypeOK, Fault

\* An event whose write is counted is an event.
LEMMA OvertakeTypes ==
    ASSUME TypeOK, NEW e \in Event, Overtake(e)
    PROVE  raced' \in SUBSET Event
  BY DEF TypeOK, Overtake

\* The parts of a request in progress have their types.
LEMMA WriterParts ==
    ASSUME TypeOK, NEW w \in Writer, writer[w].pc # "idle"
    PROVE  /\ writer[w] \in [pc : {"saving", "removing"}, event : Event,
                             write : Content \cup {Delete}]
           /\ writer[w].event \in Event
           /\ writer[w].write \in Content \cup {Delete}
  BY DEF TypeOK, Writing, Idle

\* So have those of a GET.
LEMMA ReaderParts ==
    ASSUME TypeOK, NEW r \in Reader, reader[r].pc # "idle"
    PROVE  /\ reader[r].event \in Event
           /\ reader[r].pc = "setting" => reader[r].seen \in Row
  BY DEF TypeOK, Reading, Idle

\* So have those of the message at hand.
LEMMA ConsumerParts ==
    ASSUME TypeOK, consumer.pc # "poll"
    PROVE  /\ consumer \in [pc : {"finding", "saving", "removing"}, booking : Booking, seen : Nat]
           /\ consumer.booking \in Booking
           /\ consumer.seen \in Nat
           /\ MessageEvent \in Event
  BY DEF TypeOK, Consuming, IdleConsumer, MessageEvent

\* A write of a row by a PUT or a DELETE keeps the types of the table.
LEMMA WriteRowTypes ==
    ASSUME TypeOK, NEW e \in Event, NEW x \in Content \cup {Delete}, WriteRow(e, x)
    PROVE  /\ life' \in [Event -> {"unborn", "live", "deleted"}]
           /\ content' \in [Event -> Content \cup {Delete}]
           /\ UNCHANGED seatVars
           /\ raced' \in SUBSET Event
  <1>1. raced' \in SUBSET Event
    BY OvertakeTypes DEF WriteRow
  <1>2. CASE UNCHANGED <<life, seatVars>> /\ content' = [content EXCEPT ![e] = x]
    BY <1>1, <1>2 DEF TypeOK
  <1>3. CASE UNCHANGED <<content, seatVars>> /\ life' = [life EXCEPT ![e] = "deleted"]
    BY <1>1, <1>3 DEF TypeOK
  <1> QED
    BY <1>2, <1>3 DEF WriteRow

\* A seat is taken of an event that has one.
LEMMA TakeSeatTypes ==
    ASSUME Typed, consumer.pc = "saving", TakeSeat
    PROVE  /\ available' \in [Event -> Nat]
           /\ taken' \in [Booking -> Nat]
           /\ UNCHANGED <<life, content, total>>
           /\ raced' \in SUBSET Event
  <1>1. MessageEvent \in Event /\ consumer.seen \in Nat /\ consumer.booking \in Booking
    BY ConsumerParts DEF Typed
  <1>2. consumer.seen - 1 \in Nat
    BY <1>1 DEF Typed, ClaimHolds
  <1> QED
    BY <1>1, <1>2, OvertakeTypes DEF Typed, TypeOK, TakeSeat

\* A step of a PUT or a DELETE keeps the types.
LEMMA TypeWrite ==
    ASSUME TypeOK, NEW w \in Writer, Write(w)
    PROVE  TypeOK'
  <1> USE DEF TypeOK, messageVars, tableVars, seatVars, offsetVars, boundVars
  <1>1. ASSUME NEW e \in Event, NEW x \in Content \cup {Delete}, WriterFind(w, e, x)
        PROVE  TypeOK'
    <2>1. writer' \in [Writer -> Writing]
      BY <1>1 DEF WriterFind, Writing
    <2> QED
      BY <1>1, <2>1 DEF WriterFind
  <1>2. CASE WriterSave(w)
    <2>1. writer' \in [Writer -> Writing]
      BY <1>2, WriterParts DEF WriterSave, Writing
    <2>2. WriteRow(writer[w].event, writer[w].write)
      BY <1>2 DEF WriterSave
    <2> QED
      BY <1>2, <2>1, <2>2, WriterParts, WriteRowTypes DEF WriterSave
  <1>3. CASE WriterMiss(w)
    BY <1>3, IdleTypes DEF WriterMiss
  <1>4. CASE WriterSaveFail(w)
    <2>1. UNCHANGED <<tableVars, raced>> \/ WriteRow(writer[w].event, writer[w].write)
      BY <1>4 DEF WriterSaveFail
    <2>2. writer' \in [Writer -> Writing]
      BY <1>4, IdleTypes DEF WriterSaveFail
    <2> QED
      BY <1>4, <2>1, <2>2, WriterParts, WriteRowTypes, FaultTypes DEF WriterSaveFail
  <1>5. CASE WriterRemove(w)
    BY <1>5, IdleTypes, WriterParts DEF WriterRemove
  <1>6. CASE WriterRemoveFail(w)
    BY <1>6, IdleTypes, FaultTypes DEF WriterRemoveFail
  <1> QED
    BY <1>1, <1>2, <1>3, <1>4, <1>5, <1>6 DEF Write

\* A step of a GET keeps the types.
LEMMA TypeRead ==
    ASSUME TypeOK, RowsOpened, NEW r \in Reader, Read(r)
    PROVE  TypeOK'
  <1> USE DEF TypeOK, messageVars, tableVars, seatVars, offsetVars, boundVars
  <1>1. ASSUME NEW e \in Event, ReaderMiss(r, e)
        PROVE  TypeOK'
    BY <1>1 DEF ReaderMiss, Reading
  <1>2. ASSUME NEW e \in Event, ReaderGetFail(r, e)
        PROVE  TypeOK'
    BY <1>2, FaultTypes DEF ReaderGetFail, Reading
  <1>3. CASE ReaderFind(r)
    <2>1. reader[r].event \in Event
      BY <1>3, ReaderParts DEF ReaderFind
    <2>2. Live(reader[r].event) => Snapshot(reader[r].event) \in Row
      BY <2>1 DEF RowsOpened, Live, Snapshot, Row
    <2>3. reader' \in [Reader -> Reading]
      BY <1>3, <2>1, <2>2, IdleTypes DEF ReaderFind, Reading
    <2> QED
      BY <1>3, <2>3 DEF ReaderFind
  <1>4. CASE ReaderSet(r)
    BY <1>4, IdleTypes, ReaderParts DEF ReaderSet
  <1>5. CASE ReaderSetFail(r)
    BY <1>5, IdleTypes, FaultTypes DEF ReaderSetFail
  <1> QED
    BY <1>1, <1>2, <1>3, <1>4, <1>5 DEF Read

\* A step of the consumer keeps the types.
LEMMA TypeHandle ==
    ASSUME Typed, Handle
    PROVE  TypeOK'
  <1> USE DEF Typed, TypeOK, messageVars, tableVars, seatVars, offsetVars, boundVars
  <1>1. CASE Consume
    <2>1. topic[position + 1] \in Booking
      BY <1>1 DEF Consume
    <2>2. consumer' \in Consuming
      BY <1>1, <2>1 DEF Consume, Consuming
    <2> QED
      BY <1>1, <2>2 DEF Consume
  <1>2. CASE AutoCommit
    BY <1>2 DEF AutoCommit
  <1>3. CASE ConsumerReserve
    <2>1. consumer' \in Consuming
      BY <1>3, ConsumerParts DEF ConsumerReserve, Consuming
    <2> QED
      BY <1>3, <2>1 DEF ConsumerReserve
  <1>4. CASE ConsumerSkip
    BY <1>4, IdleTypes DEF ConsumerSkip
  <1>5. CASE ConsumerSave
    <2>1. consumer' \in Consuming
      BY <1>5, ConsumerParts DEF ConsumerSave, Consuming
    <2> QED
      BY <1>5, <2>1, TakeSeatTypes DEF ConsumerSave
  <1>6. CASE ConsumerMiss
    BY <1>6, IdleTypes DEF ConsumerMiss
  <1>7. CASE ConsumerFail
    <2>1. UNCHANGED <<tableVars, raced>> \/ (consumer.pc = "saving" /\ TakeSeat)
      BY <1>7 DEF ConsumerFail
    <2> QED
      BY <1>7, <2>1, IdleTypes, TakeSeatTypes, FaultTypes DEF ConsumerFail
  <1>8. CASE ConsumerRemove
    BY <1>8, IdleTypes, ConsumerParts DEF ConsumerRemove
  <1>9. CASE ConsumerRemoveFail
    BY <1>9, IdleTypes, FaultTypes DEF ConsumerRemoveFail
  <1> QED
    BY <1>1, <1>2, <1>3, <1>4, <1>5, <1>6, <1>7, <1>8, <1>9 DEF Handle

\* Messages that arrive keep the types.
LEMMA TypeArrive == ASSUME TypeOK, Arrive PROVE TypeOK'
  <1>1. topic' \in Seq(Booking)
    <2>1. \A b \in Booking : Append(topic, b) \in Seq(Booking)
      BY DEF TypeOK
    <2>2. \A b \in Booking : Append(Append(topic, b), b) \in Seq(Booking)
      BY <2>1
    <2> QED
      BY <2>1, <2>2 DEF Arrive, TypeOK
  <1>2. faults' \in 0 .. MaxFaults
    BY BoundsAssumption DEF Arrive, TypeOK
  <1> QED
    BY <1>1, <1>2 DEF Arrive, TypeOK, tableVars, seatVars, offsetVars

\* A message that is published is one that arrives.
LEMMA PublishArrives == ASSUME TypeOK, NEW b \in Booking, Publish(b) PROVE Arrive
  <1>1. faults' \in faults .. MaxFaults
    BY BoundsAssumption DEF Publish, boundVars, TypeOK
  <1> QED
    BY <1>1 DEF Publish, Arrive, boundVars

\* So does everything else: the topic, Redis, a POST, a stop or a crash.
LEMMA TypeRest ==
    ASSUME TypeOK,
           \/ \E b \in Booking : Publish(b)
           \/ \E e \in Event : Expire(e)
           \/ \E e \in Event, c \in Content, n \in 1 .. MaxSeats : CreateEvent(e, c, n)
           \/ Crash \/ Stop
    PROVE  TypeOK'
  <1> USE DEF TypeOK, messageVars, tableVars, seatVars, offsetVars, boundVars
  <1>1. ASSUME NEW b \in Booking, Publish(b)
        PROVE  TypeOK'
    BY <1>1, PublishArrives, TypeArrive
  <1>2. ASSUME NEW e \in Event, Expire(e)
        PROVE  TypeOK'
    BY <1>2 DEF Expire
  <1>3. ASSUME NEW e \in Event, NEW c \in Content, NEW n \in 1 .. MaxSeats, CreateEvent(e, c, n)
        PROVE  TypeOK'
    <2>1. n \in Nat
      BY MaxSeatsAssumption
    <2> QED
      BY <1>3, <2>1 DEF CreateEvent
  <1>4. ASSUME NEW o \in Nat, StartAt(o)
        PROVE  TypeOK'
    BY <1>4, IdleTypes, BoundsAssumption DEF StartAt
  <1> QED
    BY <1>1, <1>2, <1>3, <1>4 DEF Crash, Stop

-----------------------------------------------------------------------------
(***************************************************************************)
(* The rows, and the claim of the consumer                                 *)
(***************************************************************************)

\* A step of a PUT or a DELETE leaves the table alone or writes one live row.
LEMMA WriteKinds ==
    ASSUME TypeOK, NEW w \in Writer, Write(w)
    PROVE  /\ UNCHANGED <<messageVars, consumer, offsetVars, restarts>>
           /\ \/ UNCHANGED tableVars
              \/ \E e \in Event, x \in Content \cup {Delete} : Live(e) /\ WriteRow(e, x)
  <1> USE DEF offsetVars, boundVars
  <1>1. ASSUME NEW e \in Event, NEW x \in Content \cup {Delete}, WriterFind(w, e, x)
        PROVE  UNCHANGED <<messageVars, consumer, offsetVars, restarts, tableVars>>
    BY <1>1 DEF WriterFind
  <1>2. CASE WriterSave(w) \/ WriterSaveFail(w)
    <2>1. writer[w].event \in Event /\ writer[w].write \in Content \cup {Delete}
      BY <1>2, WriterParts DEF WriterSave, WriterSaveFail
    <2>2. UNCHANGED <<messageVars, consumer, offsetVars, restarts>>
      BY <1>2 DEF WriterSave, WriterSaveFail, Fault
    <2>3. \/ UNCHANGED tableVars
          \/ Live(writer[w].event) /\ WriteRow(writer[w].event, writer[w].write)
      BY <1>2 DEF WriterSave, WriterSaveFail
    <2> QED
      BY <2>1, <2>2, <2>3
  <1>3. CASE WriterMiss(w) \/ WriterRemove(w) \/ WriterRemoveFail(w)
    BY <1>3 DEF WriterMiss, WriterRemove, WriterRemoveFail, Fault
  <1> QED
    BY <1>1, <1>2, <1>3 DEF Write

\* A GET writes no row and handles no message.
LEMMA ReadKinds ==
    ASSUME NEW r \in Reader, Read(r)
    PROVE  UNCHANGED <<messageVars, consumer, offsetVars, restarts, tableVars>>
  BY DEF Read, ReaderMiss, ReaderGetFail, ReaderFind, ReaderSet, ReaderSetFail, Fault,
         offsetVars, boundVars

\* The consumer takes a seat with the row it has claimed, and gives the claim up,
\* or it leaves the table alone.
LEMMA HandleKinds ==
    ASSUME Handle
    PROVE  /\ UNCHANGED messageVars
           /\ \/ UNCHANGED tableVars
              \/ /\ consumer.pc = "saving"
                 /\ Live(MessageEvent)
                 /\ TakeSeat
                 /\ consumer' \in {IdleConsumer, [consumer EXCEPT !.pc = "removing"]}
                 /\ UNCHANGED <<offsetVars, restarts>>
  BY DEF Handle, Consume, AutoCommit, ConsumerReserve, ConsumerSkip, ConsumerSave, ConsumerMiss,
         ConsumerFail, ConsumerRemove, ConsumerRemoveFail, Fault, boundVars

\* A message gets its claim from a row that has the seats it says.
LEMMA HandleClaims ==
    ASSUME Typed, Handle
    PROVE  ClaimHolds'
  <1> USE DEF ClaimHolds, MessageEvent
  <1>1. CASE Consume
    BY <1>1 DEF Consume
  <1>2. CASE AutoCommit
    BY <1>2 DEF AutoCommit, messageVars, tableVars, seatVars, Typed
  <1>3. CASE ConsumerReserve
    <2>1. MessageEvent \in Event /\ available[MessageEvent] \in Nat
      BY <1>3, ConsumerParts DEF ConsumerReserve, Typed, TypeOK
    <2>2. /\ consumer' = [consumer EXCEPT !.pc = "saving", !.seen = available[MessageEvent]]
          /\ Live(MessageEvent)
          /\ available[MessageEvent] >= 1
          /\ UNCHANGED <<eventOf, life, available>>
      BY <1>3 DEF ConsumerReserve, messageVars, tableVars, seatVars
    <2>3. consumer'.seen = available[MessageEvent] /\ consumer'.booking = consumer.booking
      BY <1>3, <2>2, ConsumerParts DEF ConsumerReserve, Typed
    <2> QED
      BY <2>1, <2>2, <2>3 DEF Live
  <1>4. CASE ConsumerSave
    <2>1. consumer'.pc = "removing"
      BY <1>4, ConsumerParts DEF ConsumerSave, Typed
    <2> QED
      BY <2>1
  <1>5. CASE ConsumerSkip \/ ConsumerMiss \/ ConsumerFail \/ ConsumerRemove \/ ConsumerRemoveFail
    <2>1. consumer' = IdleConsumer
      BY <1>5 DEF ConsumerSkip, ConsumerMiss, ConsumerFail, ConsumerRemove, ConsumerRemoveFail
    <2> QED
      BY <2>1 DEF IdleConsumer
  <1> QED
    BY <1>1, <1>2, <1>3, <1>4, <1>5 DEF Handle

\* An event that is created has its content and its seats, and no other changes.
LEMMA CreateKinds ==
    ASSUME Typed, NEW e \in Event, NEW c \in Content, NEW n \in 1 .. MaxSeats, CreateEvent(e, c, n)
    PROVE  RowsOpened' /\ ClaimHolds'
  <1>1. RowsOpened'
    BY DEF Typed, TypeOK, RowsOpened, CreateEvent
  <1>2. ClaimHolds'
    <2> SUFFICES ASSUME consumer'.pc = "saving"
                 PROVE  /\ life'[MessageEvent'] # "unborn"
                        /\ consumer'.seen >= 1
                        /\ available'[MessageEvent'] = consumer'.seen
      BY DEF ClaimHolds
    <2>1. UNCHANGED <<consumer, MessageEvent>>
      BY DEF CreateEvent, messageVars, MessageEvent
    <2>2. MessageEvent \in Event /\ MessageEvent # e
      BY <2>1, ConsumerParts DEF Typed, ClaimHolds, CreateEvent
    <2> QED
      BY <2>1, <2>2 DEF CreateEvent, Typed, TypeOK, ClaimHolds
  <1> QED
    BY <1>1, <1>2

\* A write of a live row keeps it a row, and leaves the seats to the consumer.
LEMMA WriteRowKeeps ==
    ASSUME Typed, NEW e \in Event, NEW x \in Content \cup {Delete}, Live(e), WriteRow(e, x),
           UNCHANGED <<messageVars, consumer>>
    PROVE  RowsOpened' /\ ClaimHolds'
  <1>1. RowsOpened'
    BY DEF Typed, TypeOK, RowsOpened, WriteRow, Live, seatVars
  <1>2. ClaimHolds'
    BY ConsumerParts DEF Typed, TypeOK, ClaimHolds, WriteRow, MessageEvent, messageVars, seatVars
  <1> QED
    BY <1>1, <1>2

\* Messages that arrive change neither.
LEMMA RowsArrive == ASSUME Typed, Arrive PROVE Typed'
  <1>1. RowsOpened' /\ ClaimHolds'
    BY DEF Typed, Arrive, RowsOpened, ClaimHolds, MessageEvent, tableVars, seatVars
  <1> QED
    BY <1>1, TypeArrive DEF Typed

\* Every step keeps the rows and the claim.
LEMMA RowsStep ==
    ASSUME Typed, [Next]_vars
    PROVE  RowsOpened' /\ ClaimHolds'
  <1>0. ASSUME UNCHANGED <<messageVars, tableVars>>, UNCHANGED consumer \/ consumer' = IdleConsumer
        PROVE  RowsOpened' /\ ClaimHolds'
    BY <1>0 DEF Typed, RowsOpened, ClaimHolds, MessageEvent, IdleConsumer,
                messageVars, tableVars, seatVars
  <1>1. CASE UNCHANGED vars
    BY <1>0, <1>1 DEF vars
  <1>2. ASSUME NEW b \in Booking, Publish(b)
        PROVE  RowsOpened' /\ ClaimHolds'
    BY <1>2, PublishArrives, RowsArrive DEF Typed
  <1>3. ASSUME NEW e \in Event, Expire(e)
        PROVE  RowsOpened' /\ ClaimHolds'
    BY <1>0, <1>3 DEF Expire
  <1>4. ASSUME NEW e \in Event, NEW c \in Content, NEW n \in 1 .. MaxSeats, CreateEvent(e, c, n)
        PROVE  RowsOpened' /\ ClaimHolds'
    BY <1>4, CreateKinds
  <1>5. ASSUME NEW w \in Writer, Write(w)
        PROVE  RowsOpened' /\ ClaimHolds'
    BY <1>0, <1>5, WriteKinds, WriteRowKeeps DEF Typed
  <1>6. ASSUME NEW r \in Reader, Read(r)
        PROVE  RowsOpened' /\ ClaimHolds'
    BY <1>0, <1>6, ReadKinds
  <1>7. CASE Handle
    <2>1. RowsOpened'
      BY <1>7, HandleKinds DEF Typed, RowsOpened, TakeSeat, tableVars, seatVars
    <2> QED
      BY <1>7, <2>1, HandleClaims
  <1>8. CASE Crash \/ Stop
    BY <1>0, <1>8 DEF Crash, Stop, StartAt
  <1> QED
    BY <1>1, <1>2, <1>3, <1>4, <1>5, <1>6, <1>7, <1>8 DEF Next, ServiceNext

\* The service starts well typed, without rows and claims.
LEMMA TypedInit == Init => Typed
  <1> SUFFICES ASSUME Init
               PROVE  Typed
    OBVIOUS
  <1>1. TypeOK
    BY IdleTypes, BoundsAssumption DEF Init, TypeOK
  <1> QED
    BY <1>1 DEF Init, Typed, RowsOpened, ClaimHolds, IdleConsumer

\* Every step keeps the types, the rows and the claim.
LEMMA TypedStep == Typed /\ [Next]_vars => Typed'
  <1> SUFFICES ASSUME Typed, [Next]_vars
               PROVE  Typed'
    OBVIOUS
  <1>1. TypeOK'
    <2>1. CASE UNCHANGED vars
      BY <2>1 DEF Typed, TypeOK, vars, messageVars, tableVars, seatVars, offsetVars, boundVars
    <2> QED
      BY <2>1, TypeWrite, TypeRead, TypeHandle, TypeRest DEF Typed, Next, ServiceNext
  <1> QED
    BY <1>1, RowsStep DEF Typed

\* Every reachable state is well typed, with its rows and the claim in order.
LEMMA TypedInvariant == Spec => []Typed
  BY TypedInit, TypedStep, PTL DEF Spec

\* Every variable has a value of its kind; in particular no event ever has fewer
\* than no seats left, whichever messages come, come again, or come too late.
THEOREM TypeCorrect == Spec => []TypeOK
  <1>1. Typed => TypeOK
    BY DEF Typed
  <1> QED
    BY <1>1, TypedInvariant, PTL

-----------------------------------------------------------------------------
(***************************************************************************)
(* The refinement of SeatLedger                                            *)
(***************************************************************************)

\* With the claim, the save of the consumer takes one free seat of the event.
LEMMA TakeRefined ==
    ASSUME Typed, consumer.pc = "saving", TakeSeat
    PROVE  Seats!Next
  <1>1. MessageEvent \in Event /\ consumer.seen \in Nat
    BY ConsumerParts DEF Typed
  <1>2. available[MessageEvent] > 0
    BY <1>1 DEF Typed, ClaimHolds
  <1>3. Seats!Take(MessageEvent)
    BY <1>1, <1>2 DEF Seats!Take, TakeSeat, Typed, ClaimHolds
  <1> QED
    BY <1>1, <1>3 DEF Seats!Next

\* Every step of the service is a step of the ledger or leaves the seats alone.
LEMMA SeatsStep ==
    ASSUME Typed, [Next]_vars
    PROVE  [Seats!Next]_(Seats!seatVars)
  <1> USE DEF Seats!seatVars
  <1>0. ASSUME UNCHANGED tableVars
        PROVE  [Seats!Next]_(Seats!seatVars)
    BY <1>0 DEF tableVars, seatVars
  <1>1. CASE UNCHANGED vars
    BY <1>0, <1>1 DEF vars
  <1>2. CASE Crash \/ Stop \/ \E b \in Booking : Publish(b)
    BY <1>0, <1>2 DEF Crash, Stop, StartAt, Publish
  <1>3. CASE \E e \in Event : Expire(e)
    BY <1>0, <1>3 DEF Expire
  <1>4. ASSUME NEW e \in Event, NEW c \in Content, NEW n \in 1 .. MaxSeats, CreateEvent(e, c, n)
        PROVE  [Seats!Next]_(Seats!seatVars)
    <2>1. Seats!Open(e, n)
      BY <1>4 DEF CreateEvent, Seats!Open, Typed, RowsOpened
    <2> QED
      BY <2>1 DEF Seats!Next
  <1>5. ASSUME NEW w \in Writer, Write(w)
        PROVE  [Seats!Next]_(Seats!seatVars)
    BY <1>0, <1>5, WriteKinds DEF Typed, WriteRow, seatVars
  <1>6. ASSUME NEW r \in Reader, Read(r)
        PROVE  [Seats!Next]_(Seats!seatVars)
    BY <1>0, <1>6, ReadKinds
  <1>7. CASE Handle
    BY <1>0, <1>7, HandleKinds, TakeRefined
  <1> QED
    BY <1>1, <1>2, <1>3, <1>4, <1>5, <1>6, <1>7 DEF Next, ServiceNext

\* The service implements SeatLedger: the read, the check and the save of
\* AvailableSeats are one step with respect to the seats, and nothing else, no PUT,
\* no DELETE and no restart, ever changes them.
THEOREM ImplementsSeatLedger == Spec => SeatsSpec
  <1>1. Init => Seats!Init
    BY DEF Init, Seats!Init
  <1>2. Typed /\ [Next]_vars => [Seats!Next]_(Seats!seatVars)
    BY SeatsStep
  <1> QED
    BY <1>1, <1>2, TypedInvariant, PTL DEF Spec, SeatsSpec, Seats!Spec

-----------------------------------------------------------------------------
(***************************************************************************)
(* The accounts                                                            *)
(***************************************************************************)

\* The accounts are of finite sets of seats.
Accounts == SeatsAccounted /\ \A e \in Event : IsFiniteSet(SeatsTaken(e))

\* A step opens an event, or takes the seat that the consumer claims, or changes
\* nothing that the accounts are about.
LEMMA SeatKinds ==
    ASSUME Typed, [Next]_vars
    PROVE  \/ UNCHANGED <<eventOf, total, available, taken>>
           \/ \E e \in Event, n \in 1 .. MaxSeats :
                 /\ total[e] = 0
                 /\ total' = [total EXCEPT ![e] = n]
                 /\ available' = [available EXCEPT ![e] = n]
                 /\ UNCHANGED <<eventOf, taken>>
           \/ consumer.pc = "saving" /\ TakeSeat /\ UNCHANGED eventOf
  <1> USE DEF messageVars, tableVars, seatVars
  <1>1. CASE UNCHANGED vars
    BY <1>1 DEF vars
  <1>2. CASE Crash \/ Stop \/ \E b \in Booking : Publish(b)
    BY <1>2 DEF Crash, Stop, StartAt, Publish
  <1>3. CASE \E e \in Event : Expire(e)
    BY <1>3 DEF Expire
  <1>4. ASSUME NEW e \in Event, NEW c \in Content, NEW n \in 1 .. MaxSeats, CreateEvent(e, c, n)
        PROVE  /\ total[e] = 0
               /\ total' = [total EXCEPT ![e] = n]
               /\ available' = [available EXCEPT ![e] = n]
               /\ UNCHANGED <<eventOf, taken>>
    BY <1>4 DEF CreateEvent, Typed, RowsOpened
  <1>5. CASE \E w \in Writer : Write(w)
    BY <1>5, WriteKinds DEF Typed, WriteRow
  <1>6. CASE \E r \in Reader : Read(r)
    BY <1>6, ReadKinds
  <1>7. CASE Handle
    BY <1>7, HandleKinds
  <1> QED
    BY <1>1, <1>2, <1>3, <1>4, <1>5, <1>6, <1>7 DEF Next, ServiceNext

\* An event that is opened has no seat taken, and leaves the accounts of the others.
LEMMA AccountsOpened ==
    ASSUME Typed, Accounts, NEW e \in Event, NEW n \in 1 .. MaxSeats,
           total[e] = 0, UNCHANGED <<eventOf, taken>>,
           total' = [total EXCEPT ![e] = n], available' = [available EXCEPT ![e] = n]
    PROVE  Accounts'
  <1>1. \A f : SeatsTaken(f)' = SeatsTaken(f)
    BY DEF SeatsTaken
  <1>2. /\ total[e] - available[e] = Cardinality(SeatsTaken(e))
        /\ Cardinality(SeatsTaken(e)) \in Nat
    BY FS_CardinalityType DEF Accounts, SeatsAccounted
  <1>3. available[e] \in Nat /\ n \in Nat
    BY DEF Typed, TypeOK
  <1>4. total[e] - available[e] = n - n
    BY <1>2, <1>3
  <1>5. ASSUME NEW f \in Event
        PROVE  total'[f] - available'[f] = Cardinality(SeatsTaken(f))
    <2>1. CASE f = e
      BY <1>2, <1>4, <2>1 DEF Typed, TypeOK
    <2>2. CASE f # e
      BY <2>2 DEF Accounts, SeatsAccounted, Typed, TypeOK
    <2> QED
      BY <2>1, <2>2
  <1> QED
    BY <1>1, <1>5 DEF Accounts, SeatsAccounted

\* A seat that the consumer takes is one more of its event, and one less is free.
LEMMA AccountsTaken ==
    ASSUME Typed, Accounts, consumer.pc = "saving", TakeSeat, UNCHANGED eventOf
    PROVE  Accounts'
  <1>0. PICK e \in Event, b \in Booking : e = MessageEvent /\ b = consumer.booking
    BY ConsumerParts DEF Typed
  <1>1. /\ b \in Booking /\ e \in Event /\ eventOf[b] = e
        /\ taken \in [Booking -> Nat] /\ available \in [Event -> Nat] /\ total \in [Event -> Nat]
    BY <1>0 DEF Typed, TypeOK, MessageEvent
  <1>2. /\ available' = [available EXCEPT ![e] = available[e] - 1]
        /\ available[e] >= 1
        /\ taken' = [taken EXCEPT ![b] = taken[b] + 1]
        /\ UNCHANGED total
    BY <1>0, <1>1 DEF TakeSeat, Typed, ClaimHolds
  <1>3. SeatsTaken(e)' = SeatsTaken(e) \cup {<<b, taken[b] + 1>>} /\ <<b, taken[b] + 1>> \notin SeatsTaken(e)
    <2>1. \A c \in Booking : taken'[c] = IF c = b THEN taken[b] + 1 ELSE taken[c]
      BY <1>1, <1>2
    <2>2. 1 .. (taken[b] + 1) = (1 .. taken[b]) \cup {taken[b] + 1}
      BY <1>1
    <2>3. ASSUME NEW s
          PROVE  s \in SeatsTaken(e) <=>
                    \E c \in Booking : eventOf[c] = e /\ s \in {c} \X (1 .. taken[c])
      BY DEF SeatsTaken
    <2>4. ASSUME NEW s
          PROVE  s \in SeatsTaken(e)' <=>
                    \E c \in Booking : eventOf[c] = e /\ s \in {c} \X (1 .. taken'[c])
      BY DEF SeatsTaken
    <2>5. <<b, taken[b] + 1>> \notin SeatsTaken(e)
      BY <1>1, <2>3
    <2>6. ASSUME NEW s
          PROVE  s \in SeatsTaken(e)' <=> s \in SeatsTaken(e) \/ s = <<b, taken[b] + 1>>
      <3>1. ASSUME NEW c \in Booking
            PROVE  s \in {c} \X (1 .. taken'[c]) <=>
                      s \in {c} \X (1 .. taken[c]) \/ (c = b /\ s = <<b, taken[b] + 1>>)
        BY <2>1, <2>2
      <3> QED
        BY <1>1, <2>3, <2>4, <3>1
    <2> QED
      BY <2>5, <2>6
  <1>4. \A f \in Event \ {e} : SeatsTaken(f)' = SeatsTaken(f)
    <2>1. \A c \in Booking : eventOf[c] # e => taken'[c] = taken[c]
      BY <1>1, <1>2
    <2> QED
      BY <2>1 DEF SeatsTaken
  <1>5. /\ IsFiniteSet(SeatsTaken(e)')
        /\ Cardinality(SeatsTaken(e)') = Cardinality(SeatsTaken(e)) + 1
    <2>1. IsFiniteSet(SeatsTaken(e))
      BY DEF Accounts
    <2> QED
      BY <1>3, <2>1, FS_AddElement
  <1>6. total'[e] - available'[e] = total[e] - available[e] + 1
    BY <1>1, <1>2
  <1>7. \A f \in Event \ {e} : total'[f] - available'[f] = total[f] - available[f]
    BY <1>1, <1>2
  <1>8. Cardinality(SeatsTaken(e)) \in Nat /\ total[e] - available[e] = Cardinality(SeatsTaken(e))
    BY FS_CardinalityType DEF Accounts, SeatsAccounted
  <1>9. ASSUME NEW f \in Event
        PROVE  IsFiniteSet(SeatsTaken(f)') /\ total'[f] - available'[f] = Cardinality(SeatsTaken(f)')
    <2>1. CASE f = e
      BY <1>5, <1>6, <1>8, <2>1
    <2>2. CASE f # e
      BY <1>4, <1>7, <2>2 DEF Accounts, SeatsAccounted
    <2> QED
      BY <2>1, <2>2
  <1> QED
    BY <1>9 DEF Accounts, SeatsAccounted

\* Messages that arrive leave the accounts alone.
LEMMA AccountsArrive == ASSUME Accounts, Arrive PROVE Accounts'
  BY DEF Accounts, SeatsAccounted, SeatsTaken, Arrive, tableVars, seatVars

\* Every step keeps the accounts.
LEMMA AccountsStep == Typed /\ Accounts /\ [Next]_vars => Accounts'
  <1> SUFFICES ASSUME Typed, Accounts, [Next]_vars
               PROVE  Accounts'
    OBVIOUS
  <1>1. CASE UNCHANGED <<eventOf, total, available, taken>>
    BY <1>1 DEF Accounts, SeatsAccounted, SeatsTaken
  <1> QED
    BY <1>1, SeatKinds, AccountsOpened, AccountsTaken

\* No seat is taken before the first event is opened.
LEMMA AccountsInit == Init => Accounts
  <1> SUFFICES ASSUME Init
               PROVE  Accounts
    OBVIOUS
  <1>1. \A e : SeatsTaken(e) = {}
    BY DEF Init, SeatsTaken
  <1>2. IsFiniteSet({}) /\ Cardinality({}) = 0
    BY FS_EmptySet
  <1>3. \A e \in Event : total[e] = 0 /\ available[e] = 0
    BY DEF Init
  <1> QED
    BY <1>1, <1>2, <1>3 DEF Accounts, SeatsAccounted

\* SeatsAccounted: the seats of an event that are not free any more are, one by
\* one, those that messages took, although the consumer, PUT and DELETE write the
\* same row from what each of them read before.
THEOREM SeatsAddUp == Spec => []SeatsAccounted
  <1>1. Accounts => SeatsAccounted
    BY DEF Accounts
  <1> QED
    BY <1>1, AccountsInit, AccountsStep, TypedInvariant, PTL DEF Spec

-----------------------------------------------------------------------------
(***************************************************************************)
(* The offsets                                                             *)
(***************************************************************************)

\* The topic only grows.
LEMMA TopicGrows ==
    ASSUME TypeOK, Arrive
    PROVE  /\ Len(topic') >= Len(topic)
           /\ \A i \in 1 .. Len(topic) : topic'[i] = topic[i]
           /\ Len(topic) \in Nat /\ Len(topic') \in Nat
  <1>1. ASSUME NEW s \in Seq(Booking), NEW b \in Booking
        PROVE  /\ Append(s, b) \in Seq(Booking)
               /\ Len(Append(s, b)) = Len(s) + 1 /\ Len(s) \in Nat
               /\ \A i \in 1 .. Len(s) : Append(s, b)[i] = s[i]
    OBVIOUS
  <1>2. CASE UNCHANGED topic
    BY <1>2 DEF TypeOK
  <1>3. ASSUME NEW b \in Booking, topic' = Append(topic, b)
        PROVE  /\ Len(topic') >= Len(topic)
               /\ \A i \in 1 .. Len(topic) : topic'[i] = topic[i]
               /\ Len(topic) \in Nat /\ Len(topic') \in Nat
    BY <1>1, <1>3 DEF TypeOK
  <1>4. ASSUME NEW b \in Booking, topic' = Append(Append(topic, b), b)
        PROVE  /\ Len(topic') >= Len(topic)
               /\ \A i \in 1 .. Len(topic) : topic'[i] = topic[i]
               /\ Len(topic) \in Nat /\ Len(topic') \in Nat
    BY <1>1, <1>4 DEF TypeOK
  <1> QED
    BY <1>2, <1>3, <1>4 DEF Arrive

\* The messages in the topic are counted.
LEMMA TopicLength == TypeOK => Len(topic) \in Nat
  BY DEF TypeOK

\* Messages that arrive leave the offsets where they are.
LEMMA OffsetArrive == ASSUME Typed, CommittedWasConsumed, Arrive PROVE CommittedWasConsumed'
  BY TopicGrows DEF Typed, TypeOK, Arrive, CommittedWasConsumed, offsetVars

\* Storing, committing and starting again leave the offsets in their order.
LEMMA OffsetStep ==
    ASSUME Typed, CommittedWasConsumed, [Next]_vars
    PROVE  CommittedWasConsumed'
  <1> USE TopicLength DEF Typed, TypeOK, CommittedWasConsumed
  <1>0. ASSUME UNCHANGED <<messageVars, offsetVars>>
        PROVE  CommittedWasConsumed'
    BY <1>0 DEF messageVars, offsetVars
  <1>1. CASE UNCHANGED vars
    BY <1>0, <1>1 DEF vars
  <1>2. ASSUME NEW b \in Booking, Publish(b)
        PROVE  CommittedWasConsumed'
    BY <1>2, PublishArrives, OffsetArrive
  <1>3. ASSUME NEW e \in Event,
               Expire(e) \/ \E c \in Content, n \in 1 .. MaxSeats : CreateEvent(e, c, n)
        PROVE  CommittedWasConsumed'
    BY <1>0, <1>3 DEF Expire, CreateEvent
  <1>4. ASSUME NEW w \in Writer, Write(w)
        PROVE  CommittedWasConsumed'
    BY <1>0, <1>4, WriteKinds
  <1>5. ASSUME NEW r \in Reader, Read(r)
        PROVE  CommittedWasConsumed'
    BY <1>0, <1>5, ReadKinds
  <1>6. CASE Handle
    <2>1. CASE Consume
      BY <2>1 DEF Consume, messageVars
    <2>2. CASE AutoCommit
      BY <2>2 DEF AutoCommit, messageVars
    <2>3. CASE Handle /\ ~Consume /\ ~AutoCommit
      BY <1>0, <2>3 DEF Handle, ConsumerReserve, ConsumerSkip, ConsumerSave, ConsumerMiss,
                        ConsumerFail, ConsumerRemove, ConsumerRemoveFail
    <2> QED
      BY <1>6, <2>1, <2>2, <2>3
  <1>7. CASE Crash \/ Stop
    BY <1>7 DEF Crash, Stop, StartAt, messageVars
  <1> QED
    BY <1>1, <1>2, <1>3, <1>4, <1>5, <1>6, <1>7 DEF Next, ServiceNext

\* A message that the broker takes for handled was returned by Consume, in this run
\* of the process or in an earlier one.
THEOREM OffsetsBehind == Spec => []CommittedWasConsumed
  <1>1. Init => CommittedWasConsumed
    BY DEF Init, CommittedWasConsumed
  <1>2. Typed /\ CommittedWasConsumed /\ [Next]_vars => CommittedWasConsumed'
    BY OffsetStep
  <1> QED
    BY <1>1, <1>2, TypedInvariant, PTL DEF Spec

-----------------------------------------------------------------------------
(***************************************************************************)
(* The cache                                                               *)
(***************************************************************************)

\* The row that a GET is about to cache is the row, unless a write was counted
\* that overtook it.
HeldIsFresh ==
    \A r \in Reader :
        reader[r].pc = "setting" =>
            LET e == reader[r].event
            IN  e \in raced \/ (Live(e) /\ reader[r].seen = Snapshot(e))

\* Failures and restarts are counted, and never uncounted.
Disturbed == faults > 0 \/ restarts > 0

\* A write of one row overtakes the GETs that hold it, and no other row changes.
LEMMA WriteOvertakes ==
    ASSUME Typed, HeldIsFresh, NEW e \in Event, Overtake(e), UNCHANGED reader,
           \A f \in Event \ {e} : UNCHANGED <<life[f], content[f], available[f]>>
    PROVE  HeldIsFresh'
  <1> SUFFICES ASSUME NEW r \in Reader, reader[r].pc = "setting", reader[r].event \notin raced'
               PROVE  /\ Live(reader[r].event)'
                      /\ reader[r].seen = Snapshot(reader[r].event)'
    BY DEF HeldIsFresh
  <1>1. reader[r].event \in Event /\ raced \subseteq raced'
    BY ReaderParts DEF Typed, Overtake
  <1>2. reader[r].event # e
    BY <1>1 DEF Overtake, HeldByReader
  <1> QED
    BY <1>1, <1>2 DEF HeldIsFresh, Live, Snapshot

\* A write of a row by a PUT or a DELETE is one of one row, and counted.
LEMMA WriteRowOvertakes ==
    ASSUME Typed, NEW e \in Event, NEW x \in Content \cup {Delete}, WriteRow(e, x)
    PROVE  /\ Overtake(e)
           /\ \A f \in Event \ {e} : UNCHANGED <<life[f], content[f], available[f]>>
  BY DEF Typed, TypeOK, WriteRow, seatVars

\* So is the save of a seat.
LEMMA TakeSeatOvertakes ==
    ASSUME Typed, consumer.pc = "saving", TakeSeat
    PROVE  /\ MessageEvent \in Event
           /\ Overtake(MessageEvent)
           /\ \A f \in Event \ {MessageEvent} : UNCHANGED <<life[f], content[f], available[f]>>
  <1>1. MessageEvent \in Event
    BY ConsumerParts DEF Typed
  <1> QED
    BY <1>1 DEF Typed, TypeOK, TakeSeat

\* A GET holds the row that it has just read.
LEMMA ReadFresh ==
    ASSUME Typed, HeldIsFresh, NEW r \in Reader, Read(r)
    PROVE  HeldIsFresh'
  <1> SUFFICES ASSUME NEW s \in Reader, reader'[s].pc = "setting"
               PROVE  \/ (reader[s].event \in raced)'
                      \/ (Live(reader[s].event) /\ reader[s].seen = Snapshot(reader[s].event))'
    BY DEF HeldIsFresh
  <1>1. UNCHANGED <<life, content, available, raced>>
    BY DEF Read, ReaderMiss, ReaderGetFail, ReaderFind, ReaderSet, ReaderSetFail, tableVars, seatVars
  <1>2. CASE UNCHANGED reader[s]
    BY <1>1, <1>2 DEF HeldIsFresh, Live, Snapshot
  <1>3. CASE reader'[s] # reader[s]
    <2>1. s = r
      BY <1>3 DEF Typed, TypeOK, Read, ReaderMiss, ReaderGetFail, ReaderFind, ReaderSet, ReaderSetFail
    <2>2. ReaderFind(s) /\ Live(reader[s].event)
      BY <2>1, <1>3 DEF Typed, TypeOK, Idle, Read, ReaderMiss, ReaderGetFail, ReaderFind,
                        ReaderSet, ReaderSetFail
    <2>3. reader'[s] = [pc |-> "setting", event |-> reader[s].event, seen |-> Snapshot(reader[s].event)]
      BY <2>2 DEF ReaderFind, Typed, TypeOK
    <2> QED
      BY <1>1, <2>2, <2>3 DEF Live, Snapshot
  <1> QED
    BY <1>2, <1>3

\* Whatever is written, what a GET holds is the row or was overtaken.
LEMMA FreshStep ==
    ASSUME Typed, HeldIsFresh, [Next]_vars
    PROVE  HeldIsFresh'
  <1>0. ASSUME UNCHANGED <<tableVars, raced>>, UNCHANGED reader \/ reader' = [r \in Reader |-> Idle]
        PROVE  HeldIsFresh'
    BY <1>0 DEF HeldIsFresh, Live, Snapshot, Idle, tableVars, seatVars
  <1>1. CASE UNCHANGED vars
    BY <1>0, <1>1 DEF vars
  <1>2. CASE Crash \/ Stop \/ \E b \in Booking : Publish(b)
    BY <1>0, <1>2 DEF Crash, Stop, StartAt, Publish
  <1>3. CASE \E e \in Event : Expire(e)
    BY <1>0, <1>3 DEF Expire
  <1>4. ASSUME NEW e \in Event, NEW c \in Content, NEW n \in 1 .. MaxSeats, CreateEvent(e, c, n)
        PROVE  HeldIsFresh'
    <2> SUFFICES ASSUME NEW r \in Reader, reader[r].pc = "setting", reader[r].event \notin raced
                 PROVE  Live(reader[r].event)' /\ reader[r].seen = Snapshot(reader[r].event)'
      BY <1>4 DEF CreateEvent, HeldIsFresh
    <2>1. reader[r].event \in Event /\ Live(reader[r].event)
      BY ReaderParts DEF Typed, HeldIsFresh
    <2>2. reader[r].event # e
      BY <1>4, <2>1 DEF CreateEvent, Live
    <2> QED
      BY <1>4, <2>1, <2>2 DEF CreateEvent, HeldIsFresh, Live, Snapshot, Typed, TypeOK
  <1>5. ASSUME NEW w \in Writer, Write(w)
        PROVE  HeldIsFresh'
    <2>1. CASE WriterSave(w) \/ WriterSaveFail(w)
      <3>1. writer[w].event \in Event /\ writer[w].write \in Content \cup {Delete}
        BY <2>1, WriterParts DEF WriterSave, WriterSaveFail, Typed
      <3>2. UNCHANGED reader
        BY <2>1 DEF WriterSave, WriterSaveFail
      <3>3. UNCHANGED <<tableVars, raced>> \/ WriteRow(writer[w].event, writer[w].write)
        BY <2>1 DEF WriterSave, WriterSaveFail
      <3> QED
        BY <1>0, <3>1, <3>2, <3>3, WriteRowOvertakes, WriteOvertakes
    <2>2. CASE \/ \E e \in Event, x \in Content \cup {Delete} : WriterFind(w, e, x)
               \/ WriterMiss(w) \/ WriterRemove(w) \/ WriterRemoveFail(w)
      BY <1>0, <2>2 DEF WriterFind, WriterMiss, WriterRemove, WriterRemoveFail
    <2> QED
      BY <1>5, <2>1, <2>2 DEF Write
  <1>6. ASSUME NEW r \in Reader, Read(r)
        PROVE  HeldIsFresh'
    BY <1>6, ReadFresh
  <1>7. CASE Handle
    <2>1. UNCHANGED reader
      BY <1>7 DEF Handle, Consume, AutoCommit, ConsumerReserve, ConsumerSkip, ConsumerSave,
                  ConsumerMiss, ConsumerFail, ConsumerRemove, ConsumerRemoveFail
    <2>2. UNCHANGED <<tableVars, raced>> \/ (consumer.pc = "saving" /\ TakeSeat)
      BY <1>7 DEF Handle, Consume, AutoCommit, ConsumerReserve, ConsumerSkip, ConsumerSave,
                  ConsumerMiss, ConsumerFail, ConsumerRemove, ConsumerRemoveFail
    <2> QED
      BY <1>0, <2>1, <2>2, TakeSeatOvertakes, WriteOvertakes
  <1> QED
    BY <1>1, <1>2, <1>3, <1>4, <1>5, <1>6, <1>7 DEF Next, ServiceNext

\* Nothing changes what is old about an entry: the entry and the row are those of
\* before, and so are the removals under way.
Untouched(e) == UNCHANGED <<cache[e], life[e], content[e], available[e]>>

\* An entry that was accounted for stays so if its removals stay.
LEMMA StaleKept ==
    ASSUME StaleHasCause, NEW e \in Event, Untouched(e), raced \subseteq raced',
           Removing(e) => Removing(e)', Disturbed => Disturbed', Stale(e)'
    PROVE  Removing(e)' \/ e \in raced' \/ Disturbed'
  <1>1. Stale(e)
    BY DEF Untouched, Stale, Live, Snapshot
  <1> QED
    BY <1>1 DEF StaleHasCause, Disturbed

\* A step that adds to no cause of another entry, and none that is removed.
LEMMA DisturbedStays == ASSUME Typed, [Next]_vars PROVE Disturbed => Disturbed'
  BY DEF Typed, TypeOK, Disturbed, vars, boundVars, Next, ServiceNext, Fault, Publish, Expire, CreateEvent,
         Write, WriterFind, WriterSave, WriterMiss, WriterSaveFail, WriterRemove, WriterRemoveFail,
         Read, ReaderMiss, ReaderGetFail, ReaderFind, ReaderSet, ReaderSetFail,
         Handle, Consume, AutoCommit, ConsumerReserve, ConsumerSkip, ConsumerSave,
         ConsumerMiss, ConsumerFail, ConsumerRemove, ConsumerRemoveFail, Crash, Stop, StartAt

\* A write of a row, and nothing else, makes its entry old; the writer removes it.
LEMMA StaleWrite ==
    ASSUME Typed, HeldIsFresh, StaleHasCause, NEW w \in Writer, Write(w), ~Disturbed',
           NEW e \in Event, Stale(e)'
    PROVE  Removing(e)' \/ e \in raced'
  <1>0. faults' = faults /\ raced \subseteq raced' /\ UNCHANGED messageVars
    BY FaultTypes DEF Write, WriterFind, WriterSave, WriterMiss, WriterSaveFail, WriterRemove,
           WriterRemoveFail, WriteRow, Overtake, Fault, Disturbed, boundVars, Typed, TypeOK
  <1>1. UNCHANGED consumer
    BY WriteKinds DEF Typed
  <1>2. Disturbed => Disturbed'
    BY DisturbedStays DEF Next, ServiceNext
  <1>3. ASSUME NEW f \in Event, NEW x \in Content \cup {Delete}, WriterFind(w, f, x)
        PROVE  Removing(e)' \/ e \in raced'
    <2>1. Removing(e) => Removing(e)'
      BY <1>0, <1>1, <1>3 DEF Removing, WriterFind, MessageEvent, messageVars, Typed, TypeOK
    <2> QED
      BY <1>0, <1>2, <1>3, <2>1, StaleKept DEF WriterFind, Untouched, tableVars, seatVars
  <1>4. CASE WriterSave(w)
    <2>1. writer[w].event \in Event /\ writer[w].write \in Content \cup {Delete}
      BY <1>4, WriterParts DEF WriterSave, Typed
    <2>2. WriteRow(writer[w].event, writer[w].write)
      BY <1>4 DEF WriterSave
    <2>3. writer' = [writer EXCEPT ![w].pc = "removing"] /\ UNCHANGED cache
      BY <1>4 DEF WriterSave
    <2>4. writer'[w].pc = "removing" /\ writer'[w].event = writer[w].event
      BY <1>4, <2>3, WriterParts DEF WriterSave, Typed, TypeOK
    <2>5. CASE e = writer[w].event
      BY <2>4, <2>5 DEF Removing
    <2>6. CASE e # writer[w].event
      <3>1. Untouched(e)
        BY <2>1, <2>2, <2>3, <2>6, WriteRowOvertakes DEF Untouched
      <3>2. Removing(e) => Removing(e)'
        BY <1>0, <1>1, <2>3, <2>4 DEF Removing, MessageEvent, messageVars, Typed, TypeOK
      <3> QED
        BY <1>0, <1>2, <3>1, <3>2, StaleKept
    <2> QED
      BY <2>5, <2>6
  <1>5. CASE WriterMiss(w)
    <2>1. Removing(e) => Removing(e)'
      BY <1>0, <1>1, <1>5 DEF Removing, WriterMiss, MessageEvent, messageVars, Typed, TypeOK
    <2> QED
      BY <1>0, <1>2, <1>5, <2>1, StaleKept DEF WriterMiss, Untouched, tableVars, seatVars
  <1>6. CASE WriterRemove(w)
    <2>1. writer[w].event # e
      BY <1>6 DEF WriterRemove, Stale, Typed, TypeOK
    <2>2. Removing(e) => Removing(e)'
      BY <1>0, <1>1, <1>6, <2>1 DEF Removing, WriterRemove, MessageEvent, messageVars, Typed, TypeOK
    <2>3. Untouched(e)
      BY <1>6, <2>1 DEF WriterRemove, Untouched, tableVars, seatVars, Typed, TypeOK
    <2> QED
      BY <1>0, <1>2, <2>2, <2>3, StaleKept
  <1>7. CASE WriterSaveFail(w) \/ WriterRemoveFail(w)
    BY <1>0, <1>7 DEF WriterSaveFail, WriterRemoveFail, Fault, Typed, TypeOK
  <1> QED
    BY <1>3, <1>4, <1>5, <1>6, <1>7 DEF Write

\* A GET that no write overtook caches the row as it is.
LEMMA StaleRead ==
    ASSUME Typed, HeldIsFresh, StaleHasCause, NEW r \in Reader, Read(r), ~Disturbed',
           NEW e \in Event, Stale(e)'
    PROVE  Removing(e)' \/ e \in raced'
  <1>1. UNCHANGED <<messageVars, tableVars, consumer, raced>>
    BY ReadKinds DEF Read, ReaderMiss, ReaderGetFail, ReaderFind, ReaderSet, ReaderSetFail
  <1>2. UNCHANGED writer
    BY DEF Read, ReaderMiss, ReaderGetFail, ReaderFind, ReaderSet, ReaderSetFail
  <1>3. Removing(e) => Removing(e)'
    BY <1>1, <1>2 DEF Removing, MessageEvent, messageVars
  <1>4. Disturbed => Disturbed'
    BY DisturbedStays DEF Next, ServiceNext
  <1>5. CASE UNCHANGED cache[e]
    BY <1>1, <1>3, <1>4, <1>5, StaleKept DEF Untouched, tableVars, seatVars
  <1>6. CASE cache'[e] # cache[e]
    <2>1. /\ reader[r].pc = "setting"
          /\ reader[r].event = e
          /\ cache'[e] = reader[r].seen
      BY <1>6 DEF Read, ReaderMiss, ReaderGetFail, ReaderFind, ReaderSet, ReaderSetFail, Typed, TypeOK
    <2>2. e \in raced \/ (Live(e) /\ cache'[e] = Snapshot(e))
      BY <2>1 DEF HeldIsFresh
    <2>3. Live(e)' = Live(e) /\ Snapshot(e)' = Snapshot(e)
      BY <1>1 DEF Live, Snapshot, tableVars, seatVars
    <2> QED
      BY <1>1, <2>2, <2>3 DEF Stale
  <1> QED
    BY <1>5, <1>6

\* The save of a seat makes the entry of its event old; the consumer removes it.
LEMMA StaleHandle ==
    ASSUME Typed, StaleHasCause, Handle, ~Disturbed', NEW e \in Event, Stale(e)'
    PROVE  Removing(e)' \/ e \in raced'
  <1>0. UNCHANGED <<messageVars, reader, writer>>
    BY DEF Handle, Consume, AutoCommit, ConsumerReserve, ConsumerSkip, ConsumerSave, ConsumerMiss,
           ConsumerFail, ConsumerRemove, ConsumerRemoveFail
  <1>1. Disturbed => Disturbed'
    BY DisturbedStays DEF Next, ServiceNext
  <1>2. CASE Consume \/ AutoCommit \/ ConsumerReserve \/ ConsumerSkip \/ ConsumerMiss
    <2>1. UNCHANGED <<tableVars, cache, raced>>
      BY <1>2 DEF Consume, AutoCommit, ConsumerReserve, ConsumerSkip, ConsumerMiss
    <2>2. consumer.pc = "removing" => UNCHANGED consumer
      BY <1>2 DEF Consume, AutoCommit, ConsumerReserve, ConsumerSkip, ConsumerMiss
    <2>3. Removing(e) => Removing(e)'
      BY <1>0, <2>2 DEF Removing, MessageEvent, messageVars
    <2> QED
      BY <1>1, <2>1, <2>3, StaleKept DEF Untouched, tableVars, seatVars
  <1>3. CASE ConsumerSave
    <2>1. consumer.pc = "saving" /\ TakeSeat
      BY <1>3 DEF ConsumerSave
    <2>2. consumer' = [consumer EXCEPT !.pc = "removing"] /\ UNCHANGED cache
      BY <1>3 DEF ConsumerSave
    <2>3. consumer'.pc = "removing" /\ MessageEvent' = MessageEvent
      BY <1>0, <2>1, <2>2, ConsumerParts DEF MessageEvent, messageVars, Typed
    <2>4. CASE e = MessageEvent
      BY <2>3, <2>4 DEF Removing
    <2>5. CASE e # MessageEvent
      <3>1. Untouched(e) /\ raced \subseteq raced'
        BY <2>1, <2>2, <2>5, TakeSeatOvertakes DEF Untouched, Overtake
      <3>2. Removing(e) => Removing(e)'
        BY <1>0, <2>1 DEF Removing
      <3> QED
        BY <1>1, <3>1, <3>2, StaleKept
    <2> QED
      BY <2>4, <2>5
  <1>4. CASE ConsumerFail \/ ConsumerRemoveFail
    <2>1. Fault
      BY <1>4 DEF ConsumerFail, ConsumerRemoveFail
    <2>2. faults' > 0
      BY <2>1 DEF Fault, Typed, TypeOK
    <2> QED
      BY <2>2 DEF Disturbed
  <1>5. CASE ConsumerRemove
    <2>1. MessageEvent \in Event /\ cache' = [cache EXCEPT ![MessageEvent] = NoEntry]
      BY <1>5, ConsumerParts DEF ConsumerRemove, Typed
    <2>2. MessageEvent # e
      BY <2>1 DEF Stale, Typed, TypeOK
    <2>3. Untouched(e) /\ raced \subseteq raced'
      BY <1>5, <2>1, <2>2 DEF ConsumerRemove, Untouched, tableVars, seatVars, Typed, TypeOK
    <2>4. Removing(e) => Removing(e)'
      BY <1>0, <2>2 DEF Removing
    <2> QED
      BY <1>1, <2>3, <2>4, StaleKept
  <1> QED
    BY <1>2, <1>3, <1>4, <1>5 DEF Handle

\* Every step keeps the causes of what is old.
LEMMA StaleStep ==
    ASSUME Typed, HeldIsFresh, StaleHasCause, [Next]_vars
    PROVE  StaleHasCause'
  <1> SUFFICES ASSUME NEW e \in Event, Stale(e)', ~Disturbed'
               PROVE  Removing(e)' \/ e \in raced'
    BY DEF StaleHasCause, Disturbed
  <1>1. Disturbed => Disturbed'
    BY DisturbedStays
  <1>2. ASSUME UNCHANGED <<messageVars, writer, consumer, raced>>, Untouched(e)
        PROVE  Removing(e)' \/ e \in raced'
    <2>1. Removing(e) => Removing(e)'
      BY <1>2 DEF Removing, MessageEvent, messageVars
    <2> QED
      BY <1>1, <1>2, <2>1, StaleKept
  <1>3. CASE UNCHANGED vars
    BY <1>2, <1>3 DEF vars, Untouched, tableVars, seatVars
  <1>4. ASSUME NEW b \in Booking, Publish(b)
        PROVE  Removing(e)' \/ e \in raced'
    <2>1. Removing(e) => Removing(e)'
      BY <1>4 DEF Publish, Removing, MessageEvent
    <2> QED
      BY <1>1, <1>4, <2>1, StaleKept DEF Publish, Untouched, tableVars, seatVars
  <1>5. ASSUME NEW f \in Event, Expire(f)
        PROVE  Removing(e)' \/ e \in raced'
    <2>1. f # e
      BY <1>5 DEF Expire, Stale, Typed, TypeOK
    <2> QED
      BY <1>2, <1>5, <2>1 DEF Expire, Untouched, tableVars, seatVars, Typed, TypeOK
  <1>6. ASSUME NEW f \in Event, NEW c \in Content, NEW n \in 1 .. MaxSeats, CreateEvent(f, c, n)
        PROVE  Removing(e)' \/ e \in raced'
    <2>1. CASE e = f
      <3>1. cache[e] # NoEntry /\ ~Live(e)
        BY <1>6, <2>1 DEF CreateEvent, Stale, Live
      <3>2. Removing(e) \/ e \in raced
        BY <1>1, <3>1 DEF StaleHasCause, Stale, Disturbed
      <3> QED
        BY <1>6, <3>2 DEF CreateEvent, Removing, MessageEvent, messageVars
    <2>2. CASE e # f
      BY <1>2, <1>6, <2>2 DEF CreateEvent, Untouched, Typed, TypeOK
    <2> QED
      BY <2>1, <2>2
  <1>7. CASE Crash \/ Stop
    <2>1. restarts' > 0
      BY <1>7 DEF Crash, Stop, StartAt, Typed, TypeOK
    <2> QED
      BY <2>1 DEF Disturbed
  <1> QED
    BY <1>3, <1>4, <1>5, <1>6, <1>7, StaleWrite, StaleRead, StaleHandle DEF Next, ServiceNext

\* A GET never holds an old row unless a write overtook it.
LEMMA FreshInvariant == Spec => []HeldIsFresh
  <1>1. Init => HeldIsFresh
    BY DEF Init, HeldIsFresh, Idle
  <1>2. Typed /\ HeldIsFresh /\ [Next]_vars => HeldIsFresh'
    BY FreshStep
  <1> QED
    BY <1>1, <1>2, TypedInvariant, PTL DEF Spec

\* An entry of the cache is old only while its removal is under way, after a GET
\* that a write overtook, or after a failure or a restart.
THEOREM StaleExplained == Spec => []StaleHasCause
  <1>1. Init => StaleHasCause
    BY DEF Init, StaleHasCause, Stale
  <1>2. Typed /\ HeldIsFresh /\ StaleHasCause /\ [Next]_vars => StaleHasCause'
    BY StaleStep
  <1> QED
    BY <1>1, <1>2, TypedInvariant, FreshInvariant, PTL DEF Spec

-----------------------------------------------------------------------------
(***************************************************************************)
(* One seat for a message and a run                                        *)
(***************************************************************************)

\* The messages about b among the first n.
CopiesUpTo(b, n) == Cardinality({i \in 1 .. n : topic[i] = b})

\* The message at hand is about b, and may still take its seat.
AtHand(b) == IF consumer.pc \in {"finding", "saving"} /\ consumer.booking = b THEN 1 ELSE 0

\* What the runs before this one, and this one so far, have taken for b.
RunsCounted ==
    \A b \in Booking : taken[b] + AtHand(b) <= Copies(b) * restarts + CopiesUpTo(b, position)

\* A longer prefix has no fewer messages about b.
LEMMA CopiesTypes ==
    ASSUME NEW b \in Booking, NEW n \in Nat
    PROVE  IsFiniteSet({i \in 1 .. n : topic[i] = b}) /\ CopiesUpTo(b, n) \in Nat
  <1>1. IsFiniteSet(1 .. n)
    BY FS_Interval
  <1>2. {i \in 1 .. n : topic[i] = b} \in SUBSET (1 .. n)
    OBVIOUS
  <1> QED
    BY <1>1, <1>2, FS_Subset, FS_CardinalityType DEF CopiesUpTo

\* The whole topic is a prefix of itself.
LEMMA CopiesAll ==
    ASSUME TypeOK, NEW b \in Booking
    PROVE  /\ Len(topic) \in Nat
           /\ Copies(b) = CopiesUpTo(b, Len(topic))
           /\ Copies(b) \in Nat
  <1>1. DOMAIN topic = 1 .. Len(topic) /\ Len(topic) \in Nat
    BY DEF TypeOK
  <1> QED
    BY <1>1, CopiesTypes DEF Copies, CopiesUpTo

\* So a prefix has no more of them than the topic.
LEMMA CopiesBound ==
    ASSUME TypeOK, NEW b \in Booking, NEW n \in 0 .. Len(topic)
    PROVE  CopiesUpTo(b, n) <= Copies(b)
  <1>1. Len(topic) \in Nat /\ n \in Nat
    BY CopiesAll
  <1>2. {i \in 1 .. n : topic[i] = b} \in SUBSET {i \in 1 .. Len(topic) : topic[i] = b}
    BY <1>1
  <1>3. CopiesUpTo(b, n) <= CopiesUpTo(b, Len(topic))
    BY <1>1, <1>2, CopiesTypes, FS_Subset DEF CopiesUpTo
  <1> QED
    BY <1>3, CopiesAll

\* The next message counts for its booking and no other.
LEMMA CopiesNext ==
    ASSUME TypeOK, NEW b \in Booking, NEW n \in Nat
    PROVE  CopiesUpTo(b, n + 1) = CopiesUpTo(b, n) + (IF topic[n + 1] = b THEN 1 ELSE 0)
  <1> DEFINE S == {i \in 1 .. n : topic[i] = b}
  <1>1. IsFiniteSet(S) /\ CopiesUpTo(b, n) = Cardinality(S) /\ Cardinality(S) \in Nat
    BY CopiesTypes DEF CopiesUpTo
  <1>2. CASE topic[n + 1] = b
    <2>1. {i \in 1 .. n + 1 : topic[i] = b} = S \cup {n + 1}
      BY <1>2
    <2>2. n + 1 \notin S
      OBVIOUS
    <2>3. Cardinality(S \cup {n + 1}) = Cardinality(S) + 1
      BY <1>1, <2>2, FS_AddElement
    <2> QED
      BY <1>1, <1>2, <2>1, <2>3 DEF CopiesUpTo
  <1>3. CASE topic[n + 1] # b
    <2>1. {i \in 1 .. n + 1 : topic[i] = b} = S
      BY <1>3
    <2> QED
      BY <1>1, <1>3, <2>1 DEF CopiesUpTo
  <1> QED
    BY <1>2, <1>3

\* More messages make room for more, in each run.
LEMMA RunsGrow ==
    ASSUME NEW m \in Nat, NEW n \in Nat, NEW r \in Nat, m <= n
    PROVE  /\ m * r <= n * r
           /\ m * (r + 1) = m * r + m
           /\ m * r \in Nat /\ n * r \in Nat
  OBVIOUS

\* Messages that arrive add to the topic, and leave what was consumed.
LEMMA CopiesArrive ==
    ASSUME TypeOK, CommittedWasConsumed, NEW b \in Booking, Arrive
    PROVE  /\ Copies(b) <= Copies(b)' /\ Copies(b)' \in Nat
           /\ CopiesUpTo(b, position)' = CopiesUpTo(b, position)
  <1>1. TypeOK'
    BY TypeArrive
  <1>2. /\ Len(topic) \in Nat /\ Len(topic') \in Nat /\ Len(topic') >= Len(topic)
        /\ \A i \in 1 .. Len(topic) : topic'[i] = topic[i]
    BY TopicGrows
  <1>3. position' = position /\ position \in 0 .. Len(topic)
    BY <1>2 DEF Arrive, offsetVars, CommittedWasConsumed, TypeOK
  <1>4. {i \in 1 .. position : topic'[i] = b} = {i \in 1 .. position : topic[i] = b}
    BY <1>2, <1>3
  <1>5. {i \in 1 .. Len(topic) : topic'[i] = b} = {i \in 1 .. Len(topic) : topic[i] = b}
    BY <1>2
  <1>6. /\ Copies(b)' = Cardinality({i \in 1 .. Len(topic') : topic'[i] = b})
        /\ Copies(b)' \in Nat
        /\ IsFiniteSet({i \in 1 .. Len(topic') : topic'[i] = b})
    <2>1. DOMAIN topic' = 1 .. Len(topic') /\ Len(topic') \in Nat
      BY <1>1 DEF TypeOK
    <2>2. {i \in 1 .. Len(topic') : topic'[i] = b} \in SUBSET (1 .. Len(topic'))
      OBVIOUS
    <2>3. IsFiniteSet({i \in 1 .. Len(topic') : topic'[i] = b})
      <3>1. IsFiniteSet(1 .. Len(topic'))
        BY <2>1, FS_Interval
      <3> QED
        BY <2>2, <3>1, FS_Subset
    <2>4. Copies(b)' = Cardinality({i \in DOMAIN topic' : topic'[i] = b})
      BY DEF Copies
    <2>5. Copies(b)' = Cardinality({i \in 1 .. Len(topic') : topic'[i] = b})
      BY <2>1, <2>4
    <2> QED
      BY <2>3, <2>5, FS_CardinalityType
  <1>7. {i \in 1 .. Len(topic) : topic'[i] = b} \in SUBSET {i \in 1 .. Len(topic') : topic'[i] = b}
    BY <1>2
  <1>8. Copies(b) = Cardinality({i \in 1 .. Len(topic) : topic'[i] = b})
    BY <1>5, CopiesAll DEF CopiesUpTo
  <1>9. Copies(b) <= Copies(b)'
    BY <1>6, <1>7, <1>8, FS_Subset
  <1> QED
    BY <1>3, <1>4, <1>6, <1>9 DEF CopiesUpTo

\* What is counted are natural numbers.
LEMMA RunsTypes ==
    ASSUME Typed, RunsCounted, NEW b \in Booking
    PROVE  /\ taken[b] \in Nat /\ restarts \in Nat /\ position \in Nat
           /\ AtHand(b) \in {0, 1}
           /\ Copies(b) \in Nat /\ CopiesUpTo(b, position) \in Nat
           /\ Copies(b) * restarts \in Nat
           /\ taken[b] + AtHand(b) <= Copies(b) * restarts + CopiesUpTo(b, position)
  <1>1. taken[b] \in Nat /\ restarts \in Nat /\ position \in Nat
    BY BoundsAssumption DEF Typed, TypeOK
  <1>2. AtHand(b) \in {0, 1}
    BY DEF AtHand
  <1>3. Copies(b) \in Nat /\ CopiesUpTo(b, position) \in Nat
    BY <1>1, CopiesAll, CopiesTypes DEF Typed
  <1>4. Copies(b) * restarts \in Nat
    BY <1>1, <1>3, RunsGrow
  <1> QED
    BY <1>1, <1>2, <1>3, <1>4 DEF RunsCounted

\* A step of the consumer takes a seat only for the message at hand, and has a new
\* one at hand only when Consume returns it.
LEMMA RunsHandle ==
    ASSUME Typed, CommittedWasConsumed, RunsCounted, Handle, NEW b \in Booking
    PROVE  taken'[b] + AtHand(b)' <= Copies(b)' * restarts' + CopiesUpTo(b, position)'
  <1>0. UNCHANGED messageVars
    BY HandleKinds
  <1>1. /\ taken[b] \in Nat /\ AtHand(b) \in {0, 1} /\ position \in Nat
        /\ CopiesUpTo(b, position) \in Nat /\ Copies(b) * restarts \in Nat
        /\ taken[b] + AtHand(b) <= Copies(b) * restarts + CopiesUpTo(b, position)
    BY RunsTypes
  <1>2. Copies(b)' = Copies(b)
    BY <1>0 DEF Copies, messageVars
  <1>3. CASE Consume
    <2>1. UNCHANGED <<taken, restarts>> /\ position' = position + 1 /\ AtHand(b) = 0
      BY <1>3 DEF Consume, AtHand, tableVars, seatVars, boundVars
    <2>2. AtHand(b)' = IF topic[position + 1] = b THEN 1 ELSE 0
      BY <1>3 DEF Consume, AtHand
    <2>3. CopiesUpTo(b, position)' = CopiesUpTo(b, position + 1)
      BY <1>0, <2>1 DEF CopiesUpTo, messageVars
    <2>4. CopiesUpTo(b, position + 1)
              = CopiesUpTo(b, position) + (IF topic[position + 1] = b THEN 1 ELSE 0)
      BY <1>1, CopiesNext DEF Typed
    <2> QED
      BY <1>1, <1>2, <2>1, <2>2, <2>3, <2>4
  <1>4. CASE ~Consume
    <2>1. UNCHANGED <<position, restarts>>
      BY <1>4 DEF Handle, AutoCommit, ConsumerReserve, ConsumerSkip, ConsumerSave, ConsumerMiss,
                  ConsumerFail, ConsumerRemove, ConsumerRemoveFail, Fault, offsetVars, boundVars
    <2>2. CopiesUpTo(b, position)' = CopiesUpTo(b, position)
      BY <1>0, <2>1 DEF CopiesUpTo, messageVars
    <2>3. CASE UNCHANGED tableVars
      <3>1. taken'[b] = taken[b] /\ AtHand(b)' \in {0, 1}
        BY <2>3 DEF tableVars, seatVars, AtHand
      <3>2. AtHand(b)' = 1 => AtHand(b) = 1
        <4>1. CASE ConsumerReserve
          BY <4>1, ConsumerParts DEF ConsumerReserve, AtHand, Typed
        <4>2. CASE ConsumerSave
          BY <4>2, ConsumerParts DEF ConsumerSave, AtHand, Typed
        <4>3. CASE UNCHANGED consumer \/ consumer' = IdleConsumer
          BY <4>3 DEF AtHand, IdleConsumer
        <4> QED
          BY <1>4, <4>1, <4>2, <4>3 DEF Handle, AutoCommit, ConsumerSkip, ConsumerMiss, ConsumerFail,
                                        ConsumerRemove, ConsumerRemoveFail
      <3> QED
        BY <1>1, <1>2, <2>1, <2>2, <3>1, <3>2
    <2>4. CASE /\ consumer.pc = "saving" /\ TakeSeat
               /\ consumer' \in {IdleConsumer, [consumer EXCEPT !.pc = "removing"]}
      <3>1. AtHand(b)' = 0
        BY <2>4, ConsumerParts DEF AtHand, IdleConsumer, Typed
      <3>2. taken'[b] = taken[b] + AtHand(b)
        BY <2>4 DEF TakeSeat, AtHand, Typed, TypeOK
      <3> QED
        BY <1>1, <1>2, <2>1, <2>2, <3>1, <3>2
    <2> QED
      BY <2>3, <2>4, HandleKinds
  <1> QED
    BY <1>3, <1>4

\* A run that starts has the messages before it all to itself.
LEMMA RunsStart ==
    ASSUME Typed, CommittedWasConsumed, RunsCounted, Crash \/ Stop, NEW b \in Booking
    PROVE  taken'[b] + AtHand(b)' <= Copies(b)' * restarts' + CopiesUpTo(b, position)'
  <1>1. PICK o \in Nat : StartAt(o)
    BY DEF Crash, Stop, Typed, TypeOK
  <1>2. /\ taken[b] \in Nat /\ AtHand(b) \in {0, 1} /\ restarts \in Nat /\ Copies(b) \in Nat
        /\ CopiesUpTo(b, position) \in Nat /\ Copies(b) * restarts \in Nat
        /\ taken[b] + AtHand(b) <= Copies(b) * restarts + CopiesUpTo(b, position)
    BY RunsTypes
  <1>3. CopiesUpTo(b, position) <= Copies(b)
    BY CopiesBound, TopicLength DEF CommittedWasConsumed, Typed, TypeOK
  <1>4. taken' = taken /\ restarts' = restarts + 1 /\ Copies(b)' = Copies(b) /\ AtHand(b)' = 0
    BY <1>1 DEF StartAt, tableVars, seatVars, messageVars, Copies, AtHand, IdleConsumer
  <1>5. CopiesUpTo(b, position)' \in Nat
    <2>1. CopiesUpTo(b, position)' = CopiesUpTo(b, o)
      BY <1>1 DEF StartAt, messageVars, CopiesUpTo
    <2> QED
      BY <2>1, CopiesTypes
  <1>6. Copies(b) * (restarts + 1) = Copies(b) * restarts + Copies(b)
    BY <1>2, RunsGrow
  <1> QED
    BY <1>2, <1>3, <1>4, <1>5, <1>6

\* Messages that arrive make room for more.
LEMMA RunsArrive ==
    ASSUME Typed, CommittedWasConsumed, RunsCounted, Arrive
    PROVE  RunsCounted'
  <1> SUFFICES ASSUME NEW b \in Booking
               PROVE  taken'[b] + AtHand(b)' <= Copies(b)' * restarts' + CopiesUpTo(b, position)'
    BY DEF RunsCounted
  <1>1. UNCHANGED <<taken, restarts, consumer>>
    BY DEF Arrive, tableVars, seatVars
  <1>2. /\ taken[b] \in Nat /\ AtHand(b) \in {0, 1} /\ restarts \in Nat /\ Copies(b) \in Nat
        /\ CopiesUpTo(b, position) \in Nat
        /\ taken[b] + AtHand(b) <= Copies(b) * restarts + CopiesUpTo(b, position)
    BY RunsTypes
  <1>3. /\ Copies(b) <= Copies(b)' /\ Copies(b)' \in Nat
        /\ CopiesUpTo(b, position)' = CopiesUpTo(b, position)
    BY CopiesArrive DEF Typed
  <1>4. /\ Copies(b) * restarts <= Copies(b)' * restarts
        /\ Copies(b) * restarts \in Nat /\ Copies(b)' * restarts \in Nat
    BY <1>2, <1>3, RunsGrow
  <1>5. AtHand(b)' = AtHand(b)
    BY <1>1 DEF AtHand
  <1> QED
    BY <1>1, <1>2, <1>3, <1>4, <1>5

\* Every step keeps the count.
LEMMA RunsStep ==
    ASSUME Typed, CommittedWasConsumed, RunsCounted, [Next]_vars
    PROVE  RunsCounted'
  <1> SUFFICES ASSUME NEW b \in Booking
               PROVE  taken'[b] + AtHand(b)' <= Copies(b)' * restarts' + CopiesUpTo(b, position)'
    BY DEF RunsCounted
  <1>0. ASSUME UNCHANGED <<topic, taken, consumer, position, restarts>>
        PROVE  taken'[b] + AtHand(b)' <= Copies(b)' * restarts' + CopiesUpTo(b, position)'
    BY <1>0 DEF RunsCounted, AtHand, Copies, CopiesUpTo
  <1>1. CASE UNCHANGED vars
    BY <1>0, <1>1 DEF vars, messageVars, tableVars, seatVars, offsetVars, boundVars
  <1>2. ASSUME NEW c \in Booking, Publish(c)
        PROVE  taken'[b] + AtHand(b)' <= Copies(b)' * restarts' + CopiesUpTo(b, position)'
    BY <1>2, PublishArrives, RunsArrive DEF Typed, RunsCounted
  <1>3. ASSUME NEW e \in Event,
               Expire(e) \/ \E c \in Content, n \in 1 .. MaxSeats : CreateEvent(e, c, n)
        PROVE  taken'[b] + AtHand(b)' <= Copies(b)' * restarts' + CopiesUpTo(b, position)'
    BY <1>0, <1>3 DEF Expire, CreateEvent, messageVars, tableVars, seatVars, offsetVars, boundVars
  <1>4. ASSUME NEW w \in Writer, Write(w)
        PROVE  taken'[b] + AtHand(b)' <= Copies(b)' * restarts' + CopiesUpTo(b, position)'
    BY <1>0, <1>4, WriteKinds DEF Typed, WriteRow, messageVars, tableVars, seatVars, offsetVars
  <1>5. ASSUME NEW r \in Reader, Read(r)
        PROVE  taken'[b] + AtHand(b)' <= Copies(b)' * restarts' + CopiesUpTo(b, position)'
    BY <1>0, <1>5, ReadKinds DEF messageVars, tableVars, seatVars, offsetVars
  <1> QED
    BY <1>1, <1>2, <1>3, <1>4, <1>5, RunsHandle, RunsStart DEF Next, ServiceNext

\* Nothing is taken at the start.
LEMMA RunsInit == Init => RunsCounted
  <1> SUFFICES ASSUME Init, NEW b \in Booking
               PROVE  taken[b] + AtHand(b) <= Copies(b) * restarts + CopiesUpTo(b, position)
    BY DEF RunsCounted
  <1>1. TypeOK
    BY TypedInit DEF Typed
  <1>2. Copies(b) \in Nat /\ CopiesUpTo(b, position) \in Nat
    BY <1>1, CopiesAll, CopiesTypes DEF TypeOK
  <1>3. taken[b] = 0 /\ AtHand(b) = 0 /\ restarts = 0
    BY DEF Init, AtHand, IdleConsumer
  <1>4. Copies(b) * restarts \in Nat
    BY <1>2, <1>3, RunsGrow
  <1> QED
    BY <1>2, <1>3, <1>4

\* The runs until now are those before this one, and this one.
LEMMA RunsBound ==
    ASSUME Typed, CommittedWasConsumed, RunsCounted, NEW b \in Booking
    PROVE  taken[b] <= Copies(b) * (restarts + 1)
  <1>1. /\ taken[b] \in Nat /\ AtHand(b) \in {0, 1} /\ restarts \in Nat /\ Copies(b) \in Nat
        /\ CopiesUpTo(b, position) \in Nat
        /\ taken[b] + AtHand(b) <= Copies(b) * restarts + CopiesUpTo(b, position)
    BY RunsTypes
  <1>2. CopiesUpTo(b, position) <= Copies(b)
    BY CopiesBound, TopicLength DEF CommittedWasConsumed, Typed, TypeOK
  <1>3. Copies(b) * (restarts + 1) = Copies(b) * restarts + Copies(b) /\ Copies(b) * restarts \in Nat
    BY <1>1, RunsGrow
  <1> QED
    BY <1>1, <1>2, <1>3

\* One run of the process handles a message at most once: a booking takes at most
\* one seat for each of its messages and each run.
THEOREM TakenOnce == Spec => []TakenOncePerRun
  <1>1. Typed /\ CommittedWasConsumed /\ RunsCounted /\ [Next]_vars => RunsCounted'
    BY RunsStep
  <1>2. Typed /\ CommittedWasConsumed /\ RunsCounted => TakenOncePerRun
    BY RunsBound DEF TakenOncePerRun
  <1> QED
    BY <1>1, <1>2, RunsInit, TypedInvariant, OffsetsBehind, PTL DEF Spec

-----------------------------------------------------------------------------
(***************************************************************************)
(* For the composition with the booking service                            *)
(***************************************************************************)

\* The service never writes to the topic.
LEMMA TopicKept ==
    ASSUME Typed, ServiceNext
    PROVE  UNCHANGED messageVars /\ faults' \in 0 .. MaxFaults /\ (faults' = 0 => faults = 0)
  <1>1. UNCHANGED messageVars
    <2>1. ASSUME NEW w \in Writer, Write(w) PROVE UNCHANGED messageVars
      BY <2>1, WriteKinds DEF Typed
    <2>2. ASSUME NEW r \in Reader, Read(r) PROVE UNCHANGED messageVars
      BY <2>2, ReadKinds
    <2>3. ASSUME NEW e \in Event,
                 Expire(e) \/ \E c \in Content, n \in 1 .. MaxSeats : CreateEvent(e, c, n)
          PROVE  UNCHANGED messageVars
      BY <2>3 DEF Expire, CreateEvent
    <2> QED
      BY <2>1, <2>2, <2>3, HandleKinds DEF ServiceNext, Crash, Stop, StartAt
  <1>2. faults' \in 0 .. MaxFaults
    BY TypedStep DEF Next, Typed, TypeOK
  <1>3. faults' = faults \/ faults' = faults + 1
    BY DEF ServiceNext, Expire, CreateEvent, Crash, Stop, StartAt, Fault, boundVars,
           Write, WriterFind, WriterSave, WriterMiss, WriterSaveFail, WriterRemove, WriterRemoveFail,
           Read, ReaderMiss, ReaderGetFail, ReaderFind, ReaderSet, ReaderSetFail,
           Handle, Consume, AutoCommit, ConsumerReserve, ConsumerSkip, ConsumerSave, ConsumerMiss,
           ConsumerFail, ConsumerRemove, ConsumerRemoveFail
  <1> QED
    BY <1>1, <1>2, <1>3 DEF Typed, TypeOK

\* A seat is taken only for a booking that the topic has a message about.
LEMMA TakenFromTopic ==
    ASSUME Typed, CommittedWasConsumed, RunsCounted, NEW b \in Booking, taken[b] > 0
    PROVE  \E i \in DOMAIN topic : topic[i] = b
  <1> SUFFICES ASSUME \A i \in DOMAIN topic : topic[i] # b
               PROVE  FALSE
    OBVIOUS
  <1>1. {i \in DOMAIN topic : topic[i] = b} = {}
    OBVIOUS
  <1>2. Copies(b) = 0
    BY <1>1, FS_EmptySet DEF Copies
  <1>3. taken[b] \in Nat /\ restarts \in Nat /\ Copies(b) * (restarts + 1) = 0
    BY <1>2, RunsTypes
  <1>4. taken[b] <= Copies(b) * (restarts + 1)
    BY RunsBound
  <1> QED
    BY <1>3, <1>4

\* The first run takes at most one seat for a booking that has one message.
LEMMA TakenInFirstRun ==
    ASSUME Typed, CommittedWasConsumed, RunsCounted, NEW b \in Booking, restarts = 0,
           \A i, j \in DOMAIN topic : topic[i] = topic[j] => i = j
    PROVE  taken[b] <= 1
  <1>1. Copies(b) <= 1 /\ Copies(b) \in Nat
    <2>1. CASE {i \in DOMAIN topic : topic[i] = b} = {}
      BY <2>1, FS_EmptySet DEF Copies
    <2>2. CASE {i \in DOMAIN topic : topic[i] = b} # {}
      <3>1. PICK i \in DOMAIN topic : topic[i] = b
        BY <2>2
      <3>2. {j \in DOMAIN topic : topic[j] = b} = {i}
        BY <3>1
      <3>3. Cardinality({i}) = 1
        BY FS_Singleton
      <3>4. Copies(b) = 1
        BY <3>2, <3>3 DEF Copies
      <3> QED
        BY <3>4
    <2> QED
      BY <2>1, <2>2
  <1>2. taken[b] \in Nat
    BY RunsTypes
  <1>3. taken[b] <= Copies(b) * (restarts + 1)
    BY RunsBound
  <1> QED
    BY <1>1, <1>2, <1>3

\* Of n parts of size r, a number below n * r is in one of the first n.
LEMMA PartOf ==
    ASSUME NEW a \in Nat, NEW n \in Nat, NEW r \in Nat \ {0}, a < n * r
    PROVE  /\ a \div r \in 0 .. (n - 1)
           /\ a % r \in 0 .. (r - 1)
           /\ a = (a \div r) * r + (a % r)
  <1> DEFINE d == a \div r
             m == a % r
  <1>1. d \in Nat /\ m \in 0 .. (r - 1) /\ a = d * r + m
    OBVIOUS
  <1> HIDE DEF d, m
  <1>2. CASE n <= d
    <2>1. n * r <= d * r /\ n * r \in Nat /\ d * r \in Nat
      BY <1>1, <1>2, RunsGrow
    <2> QED
      BY <1>1, <2>1
  <1>3. d \in 0 .. (n - 1)
    BY <1>1, <1>2
  <1> QED
    BY <1>1, <1>3 DEF d, m

\* The messages about bookings of an event.
MessagesOf(e) == {i \in DOMAIN topic : eventOf[topic[i]] = e}

\* They are finitely many.
LEMMA MessagesFinite ==
    ASSUME TypeOK, NEW e
    PROVE  IsFiniteSet(MessagesOf(e)) /\ Cardinality(MessagesOf(e)) \in Nat
  <1>1. DOMAIN topic = 1 .. Len(topic) /\ Len(topic) \in Nat
    BY DEF TypeOK
  <1>2. IsFiniteSet(DOMAIN topic)
    BY <1>1, FS_Interval
  <1>3. MessagesOf(e) \in SUBSET DOMAIN topic
    BY DEF MessagesOf
  <1> QED
    BY <1>2, <1>3, FS_Subset, FS_CardinalityType

\* Every seat that is not free has a message and a run of its own: of the seats of
\* a booking, restarts + 1 belong to its first message, as many to its second, and
\* so on.
LEMMA SoldByMessages ==
    ASSUME Typed, CommittedWasConsumed, RunsCounted, Accounts, NEW e \in Event
    PROVE  total[e] - available[e] <= Cardinality(MessagesOf(e)) * (restarts + 1)
  <1> DEFINE r == restarts + 1
             of(b) == {i \in DOMAIN topic : topic[i] = b}
             Slots == MessagesOf(e) \X (0 .. (r - 1))
  <1>1. r \in Nat \ {0}
    BY DEF Typed, TypeOK
  <1>2. ASSUME NEW b \in Booking
        PROVE  Copies(b) \in Nat /\ Bijection(1 .. Copies(b), of(b)) # {}
    <2>1. IsFiniteSet(of(b))
      <3>1. DOMAIN topic = 1 .. Len(topic) /\ Len(topic) \in Nat
        BY DEF Typed, TypeOK
      <3>2. IsFiniteSet(DOMAIN topic) /\ of(b) \in SUBSET DOMAIN topic
        BY <3>1, FS_Interval
      <3> QED
        BY <3>2, FS_Subset
    <2> QED
      BY <2>1, FS_CardinalityType DEF ExistsBijection, Copies
  <1> DEFINE nth == [b \in Booking |-> CHOOSE p : p \in Bijection(1 .. Copies(b), of(b))]
  <1>3. \A b \in Booking : nth[b] \in Bijection(1 .. Copies(b), of(b))
    BY <1>2
  <1> HIDE DEF r, nth
  <1>4. ASSUME NEW s \in SeatsTaken(e)
        PROVE  /\ s = <<s[1], s[2]>>
               /\ s[1] \in Booking /\ eventOf[s[1]] = e
               /\ s[2] \in Nat /\ s[2] - 1 \in Nat /\ s[2] - 1 < Copies(s[1]) * r
    <2>1. PICK b \in Booking : eventOf[b] = e /\ s \in {b} \X (1 .. taken[b])
      BY DEF SeatsTaken
    <2>2. taken[b] \in Nat /\ taken[b] <= Copies(b) * r /\ Copies(b) * r \in Nat
      BY <1>1, <1>2, RunsBound DEF Typed, TypeOK, r
    <2>3. s = <<s[1], s[2]>> /\ s[1] = b /\ s[2] \in 1 .. taken[b]
      BY <2>1
    <2> QED
      BY <2>1, <2>2, <2>3
  <1> DEFINE part(s) == (s[2] - 1) \div r
             run(s) == (s[2] - 1) % r
             slot == [s \in SeatsTaken(e) |-> <<nth[s[1]][part(s) + 1], run(s)>>]
  <1>5. ASSUME NEW s \in SeatsTaken(e)
        PROVE  /\ part(s) + 1 \in 1 .. Copies(s[1])
               /\ run(s) \in 0 .. (r - 1)
               /\ s[2] - 1 = part(s) * r + run(s)
    <2>1. Copies(s[1]) \in Nat
      BY <1>2, <1>4
    <2>2. part(s) \in 0 .. (Copies(s[1]) - 1) /\ run(s) \in 0 .. (r - 1) /\ s[2] - 1 = part(s) * r + run(s)
      BY <1>1, <1>4, <2>1, PartOf
    <2> HIDE DEF part, run
    <2> QED
      BY <2>1, <2>2
  <1> HIDE DEF part, run
  <1>6. ASSUME NEW s \in SeatsTaken(e)
        PROVE  nth[s[1]][part(s) + 1] \in MessagesOf(e) /\ topic[nth[s[1]][part(s) + 1]] = s[1]
    <2>1. nth[s[1]][part(s) + 1] \in of(s[1])
      BY <1>3, <1>4, <1>5 DEF Bijection, Injection
    <2> QED
      BY <1>4, <2>1 DEF MessagesOf
  <1>7. slot \in [SeatsTaken(e) -> Slots]
    BY <1>5, <1>6
  <1>8. ASSUME NEW s \in SeatsTaken(e), NEW t \in SeatsTaken(e), slot[s] = slot[t]
        PROVE  s = t
    <2>1. nth[s[1]][part(s) + 1] = nth[t[1]][part(t) + 1] /\ run(s) = run(t)
      BY <1>8
    <2>2. s[1] = t[1]
      BY <1>6, <2>1
    <2>3. part(s) + 1 = part(t) + 1
      <3>1. \A i, j \in 1 .. Copies(s[1]) : nth[s[1]][i] = nth[s[1]][j] => i = j
        <4> HIDE DEF of
        <4>1. nth[s[1]] \in Bijection(1 .. Copies(s[1]), of(s[1]))
          BY <1>3, <1>4
        <4> QED
          BY <4>1 DEF Bijection, Injection, IsInjective
      <3> QED
        BY <1>5, <2>1, <2>2, <3>1
    <2>4. part(s) \in Int /\ part(t) \in Int
      BY <1>1, <1>4 DEF part
    <2>5. s[2] - 1 = t[2] - 1
      BY <1>5, <2>1, <2>3, <2>4
    <2> QED
      BY <1>4, <2>2, <2>5
  <1>9. slot \in Injection(SeatsTaken(e), Slots)
    BY <1>7, <1>8 DEF Injection, IsInjective
  <1>10. IsFiniteSet(Slots) /\ Cardinality(Slots) = Cardinality(MessagesOf(e)) * r
    <2>1. IsFiniteSet(0 .. (r - 1)) /\ Cardinality(0 .. (r - 1)) = r
      BY <1>1, FS_Interval
    <2>2. IsFiniteSet(MessagesOf(e))
      BY MessagesFinite DEF Typed
    <2> QED
      BY <2>1, <2>2, FS_Product
  <1>11. Cardinality(SeatsTaken(e)) <= Cardinality(Slots)
    <2> HIDE DEF slot, Slots
    <2> QED
      BY <1>9, <1>10, FS_Injection
  <1> QED
    BY <1>10, <1>11 DEF Accounts, SeatsAccounted, r

=============================================================================
