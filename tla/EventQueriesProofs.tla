------------------------- MODULE EventQueriesProofs -------------------------
(***************************************************************************)
(* Proofs about EventQueries, for every finite set of events, every page   *)
(* size and every largest int: the types, the pages of GET /events and the *)
(* ranking of GET /events/top.                                             *)
(*                                                                         *)
(* PageRight speaks of answers only.  It is inductive together with what   *)
(* a request keeps between its two queries (Paging), and with Counted: as  *)
(* long as no write came in between, its count is that of the table.       *)
(*                                                                         *)
(* TopRanked needs TopRead: the entry, and a request that is about to set  *)
(* it, have the top of a table that was there once.  That this top is what *)
(* TopRanked says is a fact about ORDER BY (GetTopRanked): the order is    *)
(* strict and total, so that the number of events ahead gives each event a *)
(* place of its own, and what is sorted has each event at its place.       *)
(***************************************************************************)
EXTENDS EventQueries, FiniteSetTheorems, TLAPS

\* A request between its count and its page.
Paging ==
    [pc : {"paging"}, page : 1 .. MaxInt, size : 1 .. MaxPageSize, filter : Filter,
     total : Nat, overtaken : BOOLEAN]

\* A request between its reading of the top and its setting of the entry.
Setting(c) ==
    \E at, items :
        /\ at \in Table
        /\ Len(items) <= TopSize
        /\ c = [pc |-> "setting", at |-> at, items |-> items]

\* What a request keeps from one of its calls to the next.
Kept(c) ==
    /\ c.pc \in {"idle", "paging", "page", "failed", "setting", "top"}
    /\ c.pc = "paging" => c \in Paging
    /\ c.pc = "setting" => Setting(c)

ClientsKept ==
    /\ client = [q \in Client |-> client[q]]
    /\ \A q \in Client : Kept(client[q])

Typed == TypeOK /\ ClientsKept

\* PageRight, for one request.
Right(c) ==
    /\ c.pc = "failed" => ~Fits(c)
    /\ c.pc = "page" =>
          /\ \A i \in c.items : i.kind \in c.filter
          /\ Cardinality(c.items) <= c.size
    /\ c.pc = "page" /\ Fits(c) /\ ~c.overtaken =>
          Cardinality(c.items) = Cardinality({i \in 1 .. c.total : (i - 1) \div c.size = c.page - 1})

\* The count of a request that no write overtook is that of the table.
Counted ==
    \A q \in Client :
        client[q].pc = "paging" /\ ~client[q].overtaken =>
            client[q].total = Cardinality(Matching(client[q].filter))

-----------------------------------------------------------------------------
(***************************************************************************)
(* Integers                                                                *)
(***************************************************************************)

\* A number below the modulus is its own remainder.
LEMMA SmallModulo == ASSUME NEW a \in Nat, NEW b \in Nat, a < b PROVE a % b = a
  OBVIOUS

\* The unchecked product is the product, where it is an int.
LEMMA WrapFits == ASSUME NEW n \in 0 .. MaxInt PROVE Wrap(n) = n
<1>1. MaxInt \in Nat
  BY SizeAssumption
<1>2. n + MaxInt + 1 \in Nat /\ 2 * (MaxInt + 1) \in Nat /\ n + MaxInt + 1 < 2 * (MaxInt + 1)
  BY <1>1
<1>3. (n + MaxInt + 1) % (2 * (MaxInt + 1)) = n + MaxInt + 1
  BY <1>2, SmallModulo
<1> QED BY <1>1, <1>3 DEF Wrap

\* Quotient and remainder.
LEMMA Division ==
    ASSUME NEW a \in Nat, NEW s \in Nat \ {0}
    PROVE  a = (a \div s) * s + (a % s) /\ a % s \in 0 .. (s - 1) /\ a \div s \in Nat
  OBVIOUS

\* Products with the same number are ordered as the numbers.
LEMMA ProductsOrdered ==
    ASSUME NEW x \in Nat, NEW y \in Nat, NEW s \in Nat, x <= y
    PROVE  x * s <= y * s
  OBVIOUS

\* What has the quotient k lies in the kth interval of length s.
LEMMA QuotientBounds ==
    ASSUME NEW a \in Nat, NEW s \in Nat \ {0}, NEW k \in Nat
    PROVE  a \div s = k <=> k * s <= a /\ a < k * s + s
<1> DEFINE d == a \div s
           r == a % s
<1>1. d \in Nat /\ r \in 0 .. (s - 1) /\ a = d * s + r
  BY Division
<1> HIDE DEF d, r
<1>2. (k + 1) * s = k * s + s /\ (d + 1) * s = d * s + s /\ k * s \in Nat /\ d * s \in Nat
  BY <1>1
<1>3. d = k => k * s <= a /\ a < k * s + s
  BY <1>1, <1>2
<1>4. ASSUME k * s <= a, a < k * s + s, d < k PROVE FALSE
  <2>1. (d + 1) * s <= k * s
    BY <1>1, <1>4, ProductsOrdered
  <2> QED BY <2>1, <1>1, <1>2, <1>4
<1>5. ASSUME k * s <= a, a < k * s + s, k < d PROVE FALSE
  <2>1. (k + 1) * s <= d * s
    BY <1>1, <1>5, ProductsOrdered
  <2> QED BY <2>1, <1>1, <1>2, <1>5
<1> QED BY <1>1, <1>3, <1>4, <1>5 DEF d

\* How many of n items are on page k + 1, with s items on each.
LEMMA PlacesOnPage ==
    ASSUME NEW n \in Nat, NEW s \in Nat \ {0}, NEW k \in Nat
    PROVE  Cardinality({i \in 1 .. n : (i - 1) \div s = k})
             = IF n - k * s < 0 THEN 0 ELSE IF n - k * s < s THEN n - k * s ELSE s
<1> DEFINE offset == k * s
           last == IF n < offset + s THEN n ELSE offset + s
           places == {i \in 1 .. n : (i - 1) \div s = k}
<1>1. offset \in Nat
  OBVIOUS
<1>2. \A i \in 1 .. n : (i - 1) \div s = k <=> offset <= i - 1 /\ i - 1 < offset + s
  BY QuotientBounds
<1> HIDE DEF offset
<1>3. places = (offset + 1) .. last
  BY <1>1, <1>2
<1>4. last \in Int /\ offset + 1 \in Int
  BY <1>1
<1>5. Cardinality((offset + 1) .. last)
        = IF offset + 1 > last THEN 0 ELSE last - (offset + 1) + 1
  BY <1>4, FS_Interval
<1>6. (IF offset + 1 > last THEN 0 ELSE last - (offset + 1) + 1)
        = IF n - offset < 0 THEN 0 ELSE IF n - offset < s THEN n - offset ELSE s
  BY <1>1
<1> QED BY <1>3, <1>5, <1>6 DEF offset

-----------------------------------------------------------------------------
(***************************************************************************)
(* The table                                                               *)
(***************************************************************************)

\* The matching rows are finitely many.
LEMMA MatchingFinite ==
    ASSUME NEW filter PROVE IsFiniteSet(Matching(filter)) /\ Cardinality(Matching(filter)) \in Nat
<1> DEFINE matched == {f \in Rows(row) : row[f].kind \in filter}
<1>1. matched \subseteq Event
  BY DEF Rows
<1>2. IsFiniteSet(matched)
  BY <1>1, EventAssumption, FS_Subset
<1> HIDE DEF matched
<1> DEFINE read == [e \in matched |-> Snapshot(e, row)]
           rows == {Snapshot(e, row) : e \in matched}
<1>3. read \in Surjection(matched, rows)
  BY DEF Surjection
<1>4. IsFiniteSet(rows)
  BY <1>2, <1>3, FS_Surjection
<1> QED BY <1>4, FS_CardinalityType DEF Matching, matched

\* The answer to GET /events/top has at most TopSize events.
LEMMA TopLength == ASSUME NEW table PROVE Len(GetTop(table)) <= TopSize
<1>1. Rows(table) \subseteq Event
  BY DEF Rows
<1>2. Cardinality(Rows(table)) \in Nat
  BY <1>1, EventAssumption, FS_Subset, FS_CardinalityType
<1>3. TopSize \in Nat
  BY SizeAssumption
<1> QED BY <1>2, <1>3 DEF GetTop

\* A write keeps the types of the rows, as long as the new row is typed.
LEMMA TypeWrite ==
    ASSUME Typed, NEW e \in Event, NEW new, Write(e, new),
           new \in {NoRow} \cup [kind : Kind, total : 1 .. MaxSeats, available : 0 .. MaxSeats],
           new.available <= new.total
    PROVE  Typed'
<1> USE DEF Typed
<1>1. row' \in Table /\ (\A f \in Event : row[f].available <= row[f].total)'
  BY DEF Write, TypeOK, Table
<1>2. writes' \in 0 .. MaxWrites
  BY BoundsAssumption DEF Write, TypeOK
<1>3. ASSUME NEW q \in Client PROVE Kept(client'[q])
  <2>1. CASE client[q].pc = "paging"
    <3>1. client[q] \in Paging
      BY <2>1 DEF ClientsKept, Kept
    <3>2. client'[q] = [client[q] EXCEPT !.overtaken = TRUE]
      BY <2>1 DEF Write
    <3>3. client'[q] \in Paging
      BY <3>1, <3>2 DEF Paging
    <3> QED BY <3>3 DEF Kept, Paging
  <2>2. CASE client[q].pc # "paging"
    BY <2>2 DEF Write, ClientsKept
  <2> QED BY <2>1, <2>2
<1>4. ClientsKept'
  BY <1>3 DEF ClientsKept, Write
<1>5. UNCHANGED top
  BY DEF Write
<1> QED BY <1>1, <1>2, <1>4, <1>5 DEF TypeOK, ClientsKept, Kept

\* The writes of the handlers and the consumer.
LEMMA TypeWrites ==
    ASSUME Typed, NEW e \in Event,
           \/ \E k \in Kind, n \in 1 .. MaxSeats : Add(e, k, n)
           \/ \E k \in Kind : Update(e, k)
           \/ Delete(e)
           \/ Take(e)
    PROVE  Typed'
<1>1. row[e] \in {NoRow} \cup [kind : Kind, total : 1 .. MaxSeats, available : 0 .. MaxSeats]
  BY DEF Typed, TypeOK, Table
<1>2. row[e].available <= row[e].total
  BY DEF Typed, TypeOK
<1>3. ASSUME NEW k \in Kind, NEW n \in 1 .. MaxSeats, Add(e, k, n) PROVE Typed'
  BY <1>3, TypeWrite, BoundsAssumption DEF Add
<1>4. ASSUME NEW k \in Kind, Update(e, k) PROVE Typed'
  <2>1. row[e] \in [kind : Kind, total : 1 .. MaxSeats, available : 0 .. MaxSeats]
    BY <1>1, <1>4 DEF Update, Rows
  <2> DEFINE new == [row[e] EXCEPT !.kind = k]
  <2>2. new \in [kind : Kind, total : 1 .. MaxSeats, available : 0 .. MaxSeats]
    BY <2>1
  <2>3. new.available <= new.total
    BY <1>2, <2>1
  <2>4. Write(e, new)
    BY <1>4 DEF Update
  <2> QED BY <2>2, <2>3, <2>4, TypeWrite
<1>5. ASSUME Delete(e) PROVE Typed'
  BY <1>5, TypeWrite DEF Delete, NoRow
<1>6. ASSUME Take(e) PROVE Typed'
  <2>1. row[e] \in [kind : Kind, total : 1 .. MaxSeats, available : 0 .. MaxSeats]
    BY <1>1, <1>6 DEF Take, NoRow
  <2> DEFINE new == [row[e] EXCEPT !.available = @ - 1]
  <2>2. new \in [kind : Kind, total : 1 .. MaxSeats, available : 0 .. MaxSeats]
    BY <2>1, <1>6, BoundsAssumption DEF Take
  <2>3. new.available <= new.total
    BY <1>2, <2>1, BoundsAssumption
  <2>4. Write(e, new)
    BY <1>6 DEF Take
  <2> QED BY <2>2, <2>3, <2>4, TypeWrite
<1> QED BY <1>3, <1>4, <1>5, <1>6

-----------------------------------------------------------------------------
(***************************************************************************)
(* The requests                                                            *)
(***************************************************************************)

\* Steps that change one request only.
LEMMA TypeRequest ==
    ASSUME Typed, UNCHANGED <<row, writes>>, NEW q \in Client, NEW c, Kept(c),
           client' = [client EXCEPT ![q] = c],
           (top # NoEntry => top.at \in Table /\ Len(top.items) <= TopSize)'
    PROVE  Typed'
<1>1. ClientsKept'
  BY DEF Typed, ClientsKept
<1>2. TypeOK'
  BY <1>1 DEF Typed, TypeOK, ClientsKept, Kept
<1> QED BY <1>1, <1>2 DEF Typed

\* GET /events.
LEMMA TypeList == ASSUME Typed, NEW q \in Client, List(q) PROVE Typed'
<1>1. ASSUME NEW page \in 1 .. MaxInt, NEW size \in 1 .. MaxPageSize, NEW filter \in Filter,
             ListCount(q, page, size, filter)
      PROVE  Typed'
  <2> DEFINE c == [pc |-> "paging", page |-> page, size |-> size, filter |-> filter,
                   total |-> Cardinality(Matching(filter)), overtaken |-> FALSE]
  <2>1. c \in Paging
    BY MatchingFinite DEF Paging
  <2>2. Kept(c)
    BY <2>1 DEF Kept
  <2>3. client' = [client EXCEPT ![q] = c] /\ UNCHANGED <<row, top, writes>>
    BY <1>1 DEF ListCount
  <2> HIDE DEF c
  <2> QED BY <2>2, <2>3, TypeRequest DEF Typed, TypeOK
<1>2. ASSUME ListPage(q) PROVE Typed'
  <2>1. PICK items : client' = [client EXCEPT ![q] =
                               [pc |-> "page", page |-> client[q].page, size |-> client[q].size,
                                filter |-> client[q].filter, total |-> client[q].total,
                                overtaken |-> client[q].overtaken, items |-> items]]
    BY <1>2 DEF ListPage
  <2> DEFINE c == [pc |-> "page", page |-> client[q].page, size |-> client[q].size,
                   filter |-> client[q].filter, total |-> client[q].total,
                   overtaken |-> client[q].overtaken, items |-> items]
  <2>2. Kept(c)
    BY DEF Kept
  <2>3. client' = [client EXCEPT ![q] = c] /\ UNCHANGED <<row, top, writes>>
    BY <1>2, <2>1 DEF ListPage
  <2> HIDE DEF c
  <2> QED BY <2>2, <2>3, TypeRequest DEF Typed, TypeOK
<1>3. ASSUME ListFail(q) PROVE Typed'
  <2> DEFINE c == [pc |-> "failed", page |-> client[q].page, size |-> client[q].size]
  <2>1. Kept(c)
    BY DEF Kept
  <2>2. client' = [client EXCEPT ![q] = c] /\ UNCHANGED <<row, top, writes>>
    BY <1>3 DEF ListFail
  <2> HIDE DEF c
  <2> QED BY <2>1, <2>2, TypeRequest DEF Typed, TypeOK
<1> QED BY <1>1, <1>2, <1>3 DEF List

\* GET /events/top.
LEMMA TypeTop == ASSUME Typed, NEW q \in Client, Top(q) PROVE Typed'
<1>1. ASSUME TopHit(q) PROVE Typed'
  <2> DEFINE c == [pc |-> "top", at |-> top.at,
                   items |-> [i \in DOMAIN top.items |-> ToEvent(top.items[i])]]
  <2>1. Kept(c)
    BY DEF Kept
  <2>2. client' = [client EXCEPT ![q] = c] /\ UNCHANGED <<row, top, writes>>
    BY <1>1 DEF TopHit
  <2> HIDE DEF c
  <2> QED BY <2>1, <2>2, TypeRequest DEF Typed, TypeOK
<1>2. ASSUME TopFind(q) PROVE Typed'
  <2> DEFINE c == [pc |-> "setting", at |-> row, items |-> GetTop(row)]
  <2>1. row \in Table
    BY DEF Typed, TypeOK
  <2>2. Setting(c)
    BY <2>1, TopLength DEF Setting
  <2>3. Kept(c)
    BY <2>2 DEF Kept
  <2>4. client' = [client EXCEPT ![q] = c] /\ UNCHANGED <<row, top, writes>>
    BY <1>2 DEF TopFind
  <2> HIDE DEF c
  <2> QED BY <2>3, <2>4, TypeRequest DEF Typed, TypeOK
<1>3. ASSUME TopSet(q) PROVE Typed'
  <2>1. Setting(client[q])
    BY <1>3 DEF TopSet, Typed, ClientsKept, Kept
  <2>2. PICK at, items :
          /\ at \in Table
          /\ Len(items) <= TopSize
          /\ client[q] = [pc |-> "setting", at |-> at, items |-> items]
    BY <2>1 DEF Setting
  <2> DEFINE c == [pc |-> "top", at |-> at, items |-> items]
  <2>3. Kept(c)
    BY DEF Kept
  <2>4. [client[q] EXCEPT !.pc = "top"] = c
    BY <2>2
  <2>5. client' = [client EXCEPT ![q] = c]
    BY <1>3, <2>4 DEF TopSet
  <2>6. top' = top \/ top' = [at |-> at, items |-> items]
    BY <1>3, <2>2 DEF TopSet
  <2>7. (top # NoEntry => top.at \in Table /\ Len(top.items) <= TopSize)'
    BY <2>2, <2>6 DEF Typed, TypeOK, Table
  <2>8. UNCHANGED <<row, writes>>
    BY <1>3 DEF TopSet
  <2> HIDE DEF c
  <2> QED BY <2>3, <2>5, <2>7, <2>8, TypeRequest
<1> QED BY <1>1, <1>2, <1>3 DEF Top

\* Every step keeps the types.
LEMMA TypeStep == Typed /\ [Next]_vars => Typed'
<1> SUFFICES ASSUME Typed, [Next]_vars PROVE Typed'
  OBVIOUS
<1>1. ASSUME NEW q \in Client, Done(q) PROVE Typed'
  <2>1. Kept(Idle)
    BY DEF Kept, Idle
  <2>2. client' = [client EXCEPT ![q] = Idle] /\ UNCHANGED <<row, top, writes>>
    BY <1>1 DEF Done
  <2> QED BY <2>1, <2>2, TypeRequest DEF Typed, TypeOK
<1>2. ASSUME Expire PROVE Typed'
  BY <1>2 DEF Expire, Typed, TypeOK, ClientsKept, Kept
<1>3. ASSUME UNCHANGED vars PROVE Typed'
  BY <1>3 DEF vars, Typed, TypeOK, ClientsKept, Kept
<1> QED BY <1>1, <1>2, <1>3, TypeWrites, TypeList, TypeTop DEF Next

\* The types hold together with what the requests keep.
LEMMA TypedInvariant == Spec => []Typed
<1>1. Init => Typed
  BY BoundsAssumption DEF Init, Typed, TypeOK, ClientsKept, Kept, Table, NoRow, Idle
<1> QED BY <1>1, TypeStep, PTL DEF Spec

\* TypeOK: rows never have more free seats than seats, and neither the entry
\* events:top10 nor what will be kept as it has more events than the limit of
\* GetTopAsync.
THEOREM TypeCorrect == Spec => []TypeOK
BY TypedInvariant, PTL DEF Typed

-----------------------------------------------------------------------------
(***************************************************************************)
(* The pages                                                               *)
(***************************************************************************)

\* A write marks the requests between their two queries, and tells no other one.
LEMMA PagesWrite ==
    ASSUME Typed, PageRight, Counted, NEW e \in Event, NEW new, Write(e, new)
    PROVE  (PageRight /\ Counted)'
<1>1. ASSUME NEW q \in Client, client[q].pc = "paging"
      PROVE  client'[q].pc = "paging" /\ client'[q].overtaken
  <2>1. client[q] \in Paging
    BY <1>1 DEF Typed, ClientsKept, Kept
  <2>2. client'[q] = [client[q] EXCEPT !.overtaken = TRUE]
    BY <1>1 DEF Write
  <2> QED BY <2>1, <2>2 DEF Paging
<1>2. ASSUME NEW q \in Client, client[q].pc # "paging" PROVE client'[q] = client[q]
  BY <1>2 DEF Write
<1>3. PageRight'
  <2>1. ASSUME NEW q \in Client PROVE Right(client'[q])
    <3>1. CASE client[q].pc = "paging"
      BY <1>1, <3>1 DEF Right
    <3>2. CASE client[q].pc # "paging"
      <4>1. Right(client[q])
        BY DEF PageRight, Right
      <4> QED BY <1>2, <3>2, <4>1
    <3> QED BY <3>1, <3>2
  <2> QED BY <2>1 DEF PageRight, Right, Fits
<1>4. Counted'
  BY <1>1, <1>2 DEF Counted
<1> QED BY <1>3, <1>4

\* Steps that change one request only, with the table as it is.
LEMMA PagesRequest ==
    ASSUME Typed, PageRight, Counted, UNCHANGED row, NEW q \in Client, NEW c, Right(c),
           client' = [client EXCEPT ![q] = c],
           c.pc = "paging" /\ ~c.overtaken => c.total = Cardinality(Matching(c.filter))
    PROVE  (PageRight /\ Counted)'
<1>1. ASSUME NEW p \in Client PROVE client'[p] = IF p = q THEN c ELSE client[p]
  BY DEF Typed, ClientsKept
<1>2. PageRight'
  <2>1. ASSUME NEW p \in Client PROVE Right(client'[p])
    <3>1. Right(client[p])
      BY DEF PageRight, Right
    <3> QED BY <1>1, <3>1
  <2> QED BY <2>1 DEF PageRight, Right, Fits
<1>3. \A filter : Matching(filter)' = Matching(filter)
  BY DEF Matching, Rows, Snapshot
<1>4. Counted'
  BY <1>1, <1>3 DEF Counted
<1> QED BY <1>2, <1>4

\* An offset that an int can hold is the offset that was meant.
LEMMA OffsetFits ==
    ASSUME NEW c \in Paging, Fits(c)
    PROVE  Skip(c.page, c.size) = (c.page - 1) * c.size /\ (c.page - 1) * c.size \in Nat
<1>1. c.page - 1 \in Nat /\ c.size \in Nat
  BY SizeAssumption DEF Paging
<1>2. (c.page - 1) * c.size \in Nat
  BY <1>1
<1>3. (c.page - 1) * c.size \in 0 .. MaxInt
  BY <1>2, SizeAssumption DEF Fits
<1> QED BY <1>2, <1>3, WrapFits DEF Skip

\* The page that is read is the right one.
LEMMA PageIsRight ==
    ASSUME Typed, PageRight, Counted, NEW q \in Client, ListPage(q)
    PROVE  (PageRight /\ Counted)'
<1> DEFINE c == client[q]
           offset == Skip(c.page, c.size)
           left == Cardinality(Matching(c.filter)) - offset
           count == IF left < 0 THEN 0 ELSE IF left < c.size THEN left ELSE c.size
<1>1. PICK items \in SUBSET Matching(c.filter) :
        /\ Cardinality(items) = count
        /\ client' = [client EXCEPT ![q] =
                         [pc |-> "page", page |-> c.page, size |-> c.size, filter |-> c.filter,
                          total |-> c.total, overtaken |-> c.overtaken, items |-> items]]
  BY DEF ListPage
<1> DEFINE d == [pc |-> "page", page |-> c.page, size |-> c.size, filter |-> c.filter,
                 total |-> c.total, overtaken |-> c.overtaken, items |-> items]
<1>2. c \in Paging
  BY DEF ListPage, Typed, ClientsKept, Kept
<1>3. c.size \in Nat \ {0} /\ c.page - 1 \in Nat /\ c.total \in Nat
  BY <1>2, SizeAssumption DEF Paging
<1>4. offset >= 0 /\ offset \in Int
  <2>1. (c.page - 1) * c.size \in Int /\ MaxInt \in Nat
    BY <1>3, SizeAssumption
  <2>2. ((c.page - 1) * c.size + MaxInt + 1) % (2 * (MaxInt + 1)) \in Int
    <3>1. (c.page - 1) * c.size + MaxInt + 1 \in Int /\ 2 * (MaxInt + 1) \in Nat \ {0}
      BY <2>1
    <3> QED BY <3>1
  <2> QED BY <2>1, <2>2 DEF ListPage, Skip, Wrap
<1>5. \A i \in items : i.kind \in c.filter
  BY <1>1 DEF Matching, Snapshot
<1>6. count <= c.size
  BY <1>3, <1>4, MatchingFinite
<1>7. ASSUME Fits(c), ~c.overtaken
      PROVE  count = Cardinality({i \in 1 .. c.total : (i - 1) \div c.size = c.page - 1})
  <2>1. offset = (c.page - 1) * c.size
    BY <1>2, <1>7, OffsetFits
  <2>2. Cardinality(Matching(c.filter)) = c.total
    BY <1>7 DEF Counted, ListPage
  <2> HIDE DEF c
  <2> QED BY <1>3, <2>1, <2>2, PlacesOnPage
<1>8. Right(d)
  <2> HIDE DEF c, count
  <2>1. d.pc = "page" /\ d.items = items /\ d.filter = c.filter /\ d.size = c.size
          /\ d.page = c.page /\ d.total = c.total /\ d.overtaken = c.overtaken
    OBVIOUS
  <2>2. Fits(d) => Fits(c)
    BY <2>1 DEF Fits
  <2> HIDE DEF d
  <2> QED BY <1>1, <1>5, <1>6, <1>7, <2>1, <2>2 DEF Right
<1>9. client' = [client EXCEPT ![q] = d] /\ d.pc # "paging" /\ UNCHANGED row
  BY <1>1 DEF ListPage
<1> HIDE DEF d
<1> QED BY <1>8, <1>9, PagesRequest

\* GET /events.
LEMMA PagesList ==
    ASSUME Typed, PageRight, Counted, NEW q \in Client, List(q) PROVE (PageRight /\ Counted)'
<1>1. ASSUME NEW page \in 1 .. MaxInt, NEW size \in 1 .. MaxPageSize, NEW filter \in Filter,
             ListCount(q, page, size, filter)
      PROVE  (PageRight /\ Counted)'
  <2> DEFINE c == [pc |-> "paging", page |-> page, size |-> size, filter |-> filter,
                   total |-> Cardinality(Matching(filter)), overtaken |-> FALSE]
  <2>1. Right(c) /\ c.total = Cardinality(Matching(c.filter))
    BY DEF Right
  <2>2. client' = [client EXCEPT ![q] = c] /\ UNCHANGED row
    BY <1>1 DEF ListCount
  <2> HIDE DEF c
  <2> QED BY <2>1, <2>2, PagesRequest
<1>2. ASSUME ListFail(q) PROVE (PageRight /\ Counted)'
  <2> DEFINE c == [pc |-> "failed", page |-> client[q].page, size |-> client[q].size]
  <2>1. client[q] \in Paging
    BY <1>2 DEF ListFail, Typed, ClientsKept, Kept
  <2>2. ~Fits(client[q])
    BY <1>2, <2>1, OffsetFits DEF ListFail
  <2>3. Right(c) /\ c.pc # "paging"
    BY <2>2 DEF Right, Fits
  <2>4. client' = [client EXCEPT ![q] = c] /\ UNCHANGED row
    BY <1>2 DEF ListFail
  <2> HIDE DEF c
  <2> QED BY <2>3, <2>4, PagesRequest
<1> QED BY <1>1, <1>2, PageIsRight DEF List

\* GET /events/top, and the client that goes on, leave the pages alone.
LEMMA PagesTop ==
    ASSUME Typed, PageRight, Counted, NEW q \in Client, Top(q) \/ Done(q)
    PROVE  (PageRight /\ Counted)'
<1>1. ASSUME NEW c, c.pc \notin {"paging", "page", "failed"}, UNCHANGED row,
             client' = [client EXCEPT ![q] = c]
      PROVE  (PageRight /\ Counted)'
  <2>1. Right(c)
    BY <1>1 DEF Right
  <2> QED BY <1>1, <2>1, PagesRequest
<1>2. ASSUME TopHit(q) PROVE (PageRight /\ Counted)'
  <2> DEFINE c == [pc |-> "top", at |-> top.at,
                   items |-> [i \in DOMAIN top.items |-> ToEvent(top.items[i])]]
  <2>1. c.pc = "top" /\ client' = [client EXCEPT ![q] = c] /\ UNCHANGED row
    BY <1>2 DEF TopHit
  <2> HIDE DEF c
  <2> QED BY <1>1, <2>1
<1>3. ASSUME TopFind(q) PROVE (PageRight /\ Counted)'
  <2> DEFINE c == [pc |-> "setting", at |-> row, items |-> GetTop(row)]
  <2>1. c.pc = "setting" /\ client' = [client EXCEPT ![q] = c] /\ UNCHANGED row
    BY <1>3 DEF TopFind
  <2> HIDE DEF c
  <2> QED BY <1>1, <2>1
<1>4. ASSUME TopSet(q) PROVE (PageRight /\ Counted)'
  <2> DEFINE c == [client[q] EXCEPT !.pc = "top"]
  <2>1. Setting(client[q])
    BY <1>4 DEF TopSet, Typed, ClientsKept, Kept
  <2>2. c.pc = "top"
    BY <2>1 DEF Setting
  <2>3. client' = [client EXCEPT ![q] = c] /\ UNCHANGED row
    BY <1>4 DEF TopSet
  <2> HIDE DEF c
  <2> QED BY <1>1, <2>2, <2>3
<1>5. ASSUME Done(q) PROVE (PageRight /\ Counted)'
  BY <1>1, <1>5 DEF Done, Idle
<1> QED BY <1>2, <1>3, <1>4, <1>5 DEF Top

\* Every step keeps the pages right.
LEMMA PagesStep ==
    ASSUME Typed, PageRight, Counted, [Next]_vars PROVE (PageRight /\ Counted)'
<1>1. ASSUME NEW e \in Event,
             \/ \E k \in Kind, n \in 1 .. MaxSeats : Add(e, k, n)
             \/ \E k \in Kind : Update(e, k)
             \/ Delete(e)
             \/ Take(e)
      PROVE  (PageRight /\ Counted)'
  BY <1>1, PagesWrite DEF Add, Update, Delete, Take
<1>2. ASSUME UNCHANGED <<row, client>> PROVE (PageRight /\ Counted)'
  BY <1>2 DEF PageRight, Fits, Counted, Matching, Rows, Snapshot
<1>3. ASSUME Expire \/ UNCHANGED vars PROVE (PageRight /\ Counted)'
  BY <1>2, <1>3 DEF Expire, vars
<1> QED BY <1>1, <1>3, PagesList, PagesTop DEF Next

\* PageRight: for every offset that an int can hold, the page of GET /events has
\* the items that its number, its size and the total say, unless a write came
\* between the two queries, and no request fails.
THEOREM PagesAreRight == Spec => []PageRight
<1>1. Init => PageRight /\ Counted
  BY DEF Init, PageRight, Counted, Idle
<1>2. Typed /\ PageRight /\ Counted /\ [Next]_vars => (PageRight /\ Counted)'
  BY PagesStep
<1> QED BY <1>1, <1>2, TypedInvariant, PTL DEF Spec

-----------------------------------------------------------------------------
(***************************************************************************)
(* The ranking                                                             *)
(***************************************************************************)

\* A table that the writes can have led to.
Legal(table) == table \in Table /\ \A e \in Event : table[e].available <= table[e].total

\* The event f comes before the event e in the ranking of the table.
Before(f, e, table) == BestSeller(Snapshot(f, table), Snapshot(e, table))

\* The place of an event in the ranking.
Place(e, table) == Cardinality(Ahead(e, table)) + 1

\* The snapshots in the order of the query, as Ranking chooses them.
Sorted(sorted, table) ==
    LET S == Snapshots(table)
    IN  /\ sorted \in [1 .. Cardinality(S) -> S]
        /\ \A i, j \in 1 .. Cardinality(S) : i < j => BestSeller(sorted[i], sorted[j])

\* Of a row, the seats.
LEMMA SeatsOfRow ==
    ASSUME NEW table, Legal(table), NEW e \in Rows(table)
    PROVE  /\ e \in Nat
           /\ table[e].total \in Nat \ {0}
           /\ table[e].available \in Nat
           /\ Sold(table[e]) \in Nat
           /\ Snapshot(e, table).id = e
           /\ Snapshot(e, table).total = table[e].total
           /\ Sold(Snapshot(e, table)) = Sold(table[e])
<1>1. e \in Event /\ table[e] \in [kind : Kind, total : 1 .. MaxSeats, available : 0 .. MaxSeats]
  BY DEF Legal, Table, Rows
<1>2. table[e].available <= table[e].total
  BY <1>1 DEF Legal
<1>3. table[e].total \in Nat \ {0} /\ table[e].available \in Nat
  BY <1>1, BoundsAssumption
<1>4. Sold(table[e]) \in Nat
  BY <1>2, <1>3 DEF Sold
<1>5. e \in Nat
  BY <1>1, EventAssumption
<1> QED BY <1>3, <1>4, <1>5 DEF Snapshot, Sold

\* What Before compares.
LEMMA BeforeMeaning ==
    ASSUME NEW table, Legal(table), NEW f \in Rows(table), NEW e \in Rows(table)
    PROVE  Before(f, e, table) <=>
             \/ Sold(table[f]) * table[e].total > Sold(table[e]) * table[f].total
             \/ Sold(table[f]) * table[e].total = Sold(table[e]) * table[f].total /\ f < e
BY SeatsOfRow DEF Before, BestSeller

\* The events ahead are those that come before.
LEMMA AheadMeaning ==
    ASSUME NEW table, Legal(table), NEW e \in Rows(table)
    PROVE  Ahead(e, table) = {f \in Rows(table) : Before(f, e, table)}
BY BeforeMeaning DEF Ahead

\* Fractions can be compared through a third one.
LEMMA SharesTransitive ==
    ASSUME NEW p \in Nat, NEW q \in Nat, NEW r \in Nat,
           NEW a \in Nat \ {0}, NEW b \in Nat \ {0}, NEW c \in Nat \ {0},
           p * b >= q * a, q * c >= r * b
    PROVE  p * c >= r * a /\ (p * c = r * a => p * b = q * a /\ q * c = r * b)
<1>1. (p * b) * c >= (q * a) * c /\ (q * c) * a >= (r * b) * a
  <2>1. p * b \in Nat /\ q * a \in Nat /\ q * c \in Nat /\ r * b \in Nat
    OBVIOUS
  <2> QED BY <2>1, ProductsOrdered
<1>2. (p * b) * c = (p * c) * b /\ (q * a) * c = (q * c) * a /\ (r * b) * a = (r * a) * b
  OBVIOUS
<1>3. p * c \in Nat /\ r * a \in Nat /\ q * a \in Nat /\ q * c \in Nat /\ p * b \in Nat /\ r * b \in Nat
  OBVIOUS
<1>4. (p * c) * b >= (r * a) * b
  BY <1>1, <1>2, <1>3
<1>5. ASSUME NEW x \in Nat, NEW y \in Nat, NEW s \in Nat \ {0}, x * s >= y * s PROVE x >= y
  <2>1. CASE x < y
    <3>1. (x + 1) * s <= y * s
      BY <2>1, ProductsOrdered
    <3>2. (x + 1) * s = x * s + s /\ x * s \in Nat /\ y * s \in Nat
      OBVIOUS
    <3> QED BY <1>5, <3>1, <3>2
  <2> QED BY <2>1
<1>6. p * c >= r * a
  BY <1>3, <1>4, <1>5
<1>7. ASSUME p * c = r * a PROVE p * b = q * a /\ q * c = r * b
  <2>1. (p * c) * b = (r * a) * b
    BY <1>7
  <2>2. (p * b) * c = (q * a) * c /\ (q * c) * a = (r * b) * a
    BY <1>1, <1>2, <2>1, <1>3
  <2> QED BY <1>3, <1>5, <2>2
<1> QED BY <1>6, <1>7

\* The order of the query is strict and total.
LEMMA BeforeOrders ==
    ASSUME NEW table, Legal(table)
    PROVE  /\ \A e \in Rows(table) : ~Before(e, e, table)
           /\ \A e, f \in Rows(table) : e = f \/ Before(e, f, table) \/ Before(f, e, table)
           /\ \A e, f, g \in Rows(table) :
                 Before(e, f, table) /\ Before(f, g, table) => Before(e, g, table)
<1> DEFINE p(e) == Sold(table[e])
           a(e) == table[e].total
<1>1. \A e \in Rows(table) : e \in Nat /\ p(e) \in Nat /\ a(e) \in Nat \ {0}
  BY SeatsOfRow
<1>2. \A e, f \in Rows(table) :
         Before(e, f, table) <=> p(e) * a(f) > p(f) * a(e) \/ (p(e) * a(f) = p(f) * a(e) /\ e < f)
  BY BeforeMeaning
<1> HIDE DEF p, a
<1>3. \A e, f \in Rows(table) : p(e) * a(f) \in Nat
  BY <1>1
<1>4. \A e \in Rows(table) : ~Before(e, e, table)
  BY <1>1, <1>2, <1>3
<1>5. \A e, f \in Rows(table) : e = f \/ Before(e, f, table) \/ Before(f, e, table)
  BY <1>1, <1>2, <1>3
<1>6. ASSUME NEW e \in Rows(table), NEW f \in Rows(table), NEW g \in Rows(table),
             Before(e, f, table), Before(f, g, table)
      PROVE  Before(e, g, table)
  <2>1. p(e) * a(f) >= p(f) * a(e) /\ p(f) * a(g) >= p(g) * a(f)
    BY <1>2, <1>3, <1>6
  <2>2. /\ p(e) * a(g) >= p(g) * a(e)
        /\ p(e) * a(g) = p(g) * a(e) => p(e) * a(f) = p(f) * a(e) /\ p(f) * a(g) = p(g) * a(f)
    BY <1>1, <2>1, SharesTransitive
  <2>3. p(e) * a(g) = p(g) * a(e) => e < f /\ f < g
    BY <1>2, <1>3, <1>6, <2>2
  <2> QED BY <1>1, <1>2, <1>3, <2>2, <2>3
<1> QED BY <1>4, <1>5, <1>6

\* The rows of a table and their snapshots are as many.
LEMMA RowsAndSnapshots ==
    ASSUME NEW table
    PROVE  /\ IsFiniteSet(Rows(table)) /\ IsFiniteSet(Snapshots(table))
           /\ Cardinality(Rows(table)) \in Nat
           /\ Cardinality(Snapshots(table)) = Cardinality(Rows(table))
<1> DEFINE read == [e \in Rows(table) |-> Snapshot(e, table)]
<1>1. IsFiniteSet(Rows(table))
  BY EventAssumption, FS_Subset DEF Rows
<1>2. read \in Surjection(Rows(table), Snapshots(table))
  BY DEF Surjection, Snapshots
<1>3. read \in Injection(Rows(table), Snapshots(table))
  BY <1>2 DEF Injection, IsInjective, Surjection, Snapshot
<1> QED BY <1>1, <1>2, <1>3, FS_Surjection, FS_CardinalityType

\* Nobody is ahead of everybody, and who comes later has more events ahead.
LEMMA Places ==
    ASSUME NEW table, Legal(table)
    PROVE  /\ \A e \in Rows(table) : Place(e, table) \in 1 .. Cardinality(Rows(table))
           /\ \A e, f \in Rows(table) : Before(e, f, table) => Place(e, table) < Place(f, table)
<1>1. \A e \in Rows(table) : Ahead(e, table) \subseteq Rows(table) \ {e}
  BY AheadMeaning, BeforeOrders
<1>2. IsFiniteSet(Rows(table)) /\ Cardinality(Rows(table)) \in Nat
  BY RowsAndSnapshots
<1>3. \A e \in Rows(table) : IsFiniteSet(Ahead(e, table)) /\ Cardinality(Ahead(e, table)) \in Nat
  BY <1>1, <1>2, FS_Subset, FS_CardinalityType
<1>4. ASSUME NEW e \in Rows(table) PROVE Place(e, table) \in 1 .. Cardinality(Rows(table))
  <2>1. Ahead(e, table) \in SUBSET Rows(table) /\ Ahead(e, table) # Rows(table)
    BY <1>1
  <2>2. Cardinality(Ahead(e, table)) <= Cardinality(Rows(table))
          /\ Cardinality(Ahead(e, table)) # Cardinality(Rows(table))
    BY <1>2, <2>1, FS_Subset
  <2> QED BY <1>2, <1>3, <2>2 DEF Place
<1>5. ASSUME NEW e \in Rows(table), NEW f \in Rows(table), Before(e, f, table)
      PROVE  Place(e, table) < Place(f, table)
  <2>1. Ahead(e, table) \in SUBSET Ahead(f, table) /\ e \in Ahead(f, table) /\ e \notin Ahead(e, table)
    BY <1>1, <1>5, AheadMeaning, BeforeOrders
  <2>2. Cardinality(Ahead(e, table)) <= Cardinality(Ahead(f, table))
          /\ Cardinality(Ahead(e, table)) # Cardinality(Ahead(f, table))
    BY <1>3, <2>1, FS_Subset
  <2> QED BY <1>3, <2>2 DEF Place
<1> QED BY <1>4, <1>5

\* The snapshots of a table can be sorted: each row by its place.
LEMMA SortedExists ==
    ASSUME NEW table, Legal(table) PROVE \E sorted : Sorted(sorted, table)
<1> DEFINE n == Cardinality(Rows(table))
           place == [e \in Rows(table) |-> Place(e, table)]
<1>1. n \in Nat /\ Cardinality(Snapshots(table)) = n /\ IsFiniteSet(Rows(table))
  BY RowsAndSnapshots
<1>2. IsFiniteSet(1 .. n) /\ Cardinality(1 .. n) = n
  BY <1>1, FS_Interval
<1>3. place \in Injection(Rows(table), 1 .. n)
  <2>1. place \in [Rows(table) -> 1 .. n]
    BY Places
  <2>2. ASSUME NEW e \in Rows(table), NEW f \in Rows(table), place[e] = place[f] PROVE e = f
    <3>1. place[e] \in Nat /\ place[f] \in Nat
      BY <2>1
    <3>2. ~Before(e, f, table) /\ ~Before(f, e, table)
      BY <2>2, <3>1, Places
    <3> QED BY <3>2, BeforeOrders
  <2> QED BY <2>1, <2>2 DEF Injection, IsInjective
<1>4. place \in Surjection(Rows(table), 1 .. n)
  BY <1>1, <1>2, <1>3, FS_Injection
<1> DEFINE at == [i \in 1 .. n |-> CHOOSE e \in Rows(table) : place[e] = i]
           sorted == [i \in 1 .. n |-> Snapshot(at[i], table)]
<1>5. \A i \in 1 .. n : at[i] \in Rows(table) /\ place[at[i]] = i
  BY <1>4 DEF Surjection
<1>6. sorted \in [1 .. n -> Snapshots(table)]
  BY <1>5 DEF Snapshots
<1>7. ASSUME NEW i \in 1 .. n, NEW j \in 1 .. n, i < j PROVE BestSeller(sorted[i], sorted[j])
  <2>1. at[i] \in Rows(table) /\ at[j] \in Rows(table)
          /\ Place(at[i], table) = i /\ Place(at[j], table) = j
    BY <1>5
  <2>2. at[i] # at[j] /\ ~Before(at[j], at[i], table)
    BY <1>7, <2>1, Places
  <2>3. Before(at[i], at[j], table)
    BY <2>1, <2>2, BeforeOrders
  <2> QED BY <2>3 DEF Before
<1> QED BY <1>1, <1>6, <1>7 DEF Sorted

\* Ranking sorts.
LEMMA RankingSorts ==
    ASSUME NEW table, Legal(table) PROVE Sorted(Ranking(Snapshots(table)), table)
BY SortedExists DEF Sorted, Ranking

\* What is sorted has each event at its place.
LEMMA SortedPlaces ==
    ASSUME NEW table, Legal(table), NEW sorted, Sorted(sorted, table)
    PROVE  /\ \A i \in 1 .. Cardinality(Rows(table)) :
                 /\ sorted[i].id \in Rows(table)
                 /\ sorted[i] = Snapshot(sorted[i].id, table)
                 /\ Cardinality(Ahead(sorted[i].id, table)) = i - 1
           /\ \A e \in Rows(table) :
                 \E i \in 1 .. Cardinality(Rows(table)) : sorted[i].id = e
<1> DEFINE n == Cardinality(Rows(table))
           ids == [i \in 1 .. n |-> sorted[i].id]
<1>1. n \in Nat /\ Cardinality(Snapshots(table)) = n /\ IsFiniteSet(Rows(table))
  BY RowsAndSnapshots
<1>2. \A i \in 1 .. n : ids[i] \in Rows(table) /\ sorted[i] = Snapshot(ids[i], table)
  <2>1. \A i \in 1 .. n : sorted[i] \in Snapshots(table)
    BY <1>1 DEF Sorted
  <2> QED BY <2>1 DEF Snapshots, Snapshot
<1>3. \A i, j \in 1 .. n : i < j => Before(ids[i], ids[j], table)
  BY <1>1, <1>2 DEF Sorted, Before
<1> HIDE DEF n
<1>4. ids \in Injection(1 .. n, Rows(table))
  <2>1. \A i, j \in 1 .. n : i < j => ids[i] # ids[j]
    BY <1>2, <1>3, BeforeOrders
  <2>2. \A i, j \in 1 .. n : ids[i] = ids[j] => i = j
    BY <1>1, <2>1
  <2> QED BY <1>2, <2>2 DEF Injection, IsInjective
<1>5. ids \in Surjection(1 .. n, Rows(table))
  <2>1. Cardinality(1 .. n) = n
    BY <1>1, FS_Interval
  <2> QED BY <1>1, <1>4, <2>1, FS_Injection DEF n
<1>6. ASSUME NEW i \in 1 .. n PROVE Cardinality(Ahead(ids[i], table)) = i - 1
  <2> DEFINE first == [j \in 1 .. (i - 1) |-> ids[j]]
  <2>1. \A j \in 1 .. n : Before(ids[j], ids[i], table) <=> j < i
    <3>1. ASSUME NEW j \in 1 .. n, Before(ids[j], ids[i], table), ~(j < i) PROVE FALSE
      <4>1. j = i \/ i < j
        BY <1>1, <3>1
      <4> QED BY <1>2, <1>3, <3>1, <4>1, BeforeOrders
    <3> QED BY <1>3, <3>1
  <2>2. Ahead(ids[i], table) = {f \in Rows(table) : Before(f, ids[i], table)}
    BY <1>2, AheadMeaning
  <2>3. first \in [1 .. (i - 1) -> Ahead(ids[i], table)]
    BY <1>1, <1>2, <2>1, <2>2
  <2>4. first \in Surjection(1 .. (i - 1), Ahead(ids[i], table))
    <3>1. ASSUME NEW f \in Ahead(ids[i], table) PROVE \E j \in 1 .. (i - 1) : first[j] = f
      <4>1. PICK j \in 1 .. n : ids[j] = f
        BY <1>5, <2>2 DEF Surjection
      <4>2. j < i
        BY <2>1, <2>2, <4>1
      <4> QED BY <1>1, <4>1, <4>2
    <3> QED BY <2>3, <3>1 DEF Surjection
  <2>5. first \in Injection(1 .. (i - 1), Ahead(ids[i], table))
    <3>1. \A j \in 1 .. (i - 1) : j \in 1 .. n /\ first[j] = ids[j]
      BY <1>1
    <3>2. \A j, k \in 1 .. n : ids[j] = ids[k] => j = k
      BY <1>4 DEF Injection, IsInjective
    <3> HIDE DEF first, ids
    <3>3. \A j, k \in 1 .. (i - 1) : first[j] = first[k] => j = k
      BY <3>1, <3>2
    <3> QED BY <2>3, <3>3 DEF Injection, IsInjective
  <2>6. IsFiniteSet(1 .. (i - 1)) /\ Cardinality(1 .. (i - 1)) = i - 1
    BY <1>1, FS_Interval
  <2> HIDE DEF first
  <2> QED BY <2>4, <2>5, <2>6, FS_Surjection
<1>7. \A e \in Rows(table) : \E i \in 1 .. n : ids[i] = e
  BY <1>5 DEF Surjection
<1>8. \A i \in 1 .. n : ids[i] = sorted[i].id
  OBVIOUS
<1> HIDE DEF ids
<1> QED BY <1>2, <1>6, <1>7, <1>8 DEF n

\* The answer that TopRanked asks for.
Ranked(items, table) ==
    /\ \A i \in DOMAIN items :
          /\ items[i].id \in Rows(table)
          /\ items[i] = Snapshot(items[i].id, table)
          /\ Cardinality(Ahead(items[i].id, table)) = i - 1
    /\ \A e \in Rows(table) :
          Cardinality(Ahead(e, table)) < TopSize => \E i \in DOMAIN items : items[i].id = e

\* The first events of the ranking are those with few ahead.
LEMMA GetTopRanked ==
    ASSUME NEW table, Legal(table) PROVE Ranked(GetTop(table), table)
<1> DEFINE n == Cardinality(Rows(table))
           size == IF n < TopSize THEN n ELSE TopSize
           sorted == Ranking(Snapshots(table))
           items == GetTop(table)
<1>1. Sorted(sorted, table)
  BY RankingSorts
<1>2. n \in Nat /\ TopSize \in Nat
  BY RowsAndSnapshots, SizeAssumption
<1>3. items = [i \in 1 .. size |-> sorted[i]]
  BY DEF GetTop
<1> HIDE DEF sorted, items
<1>4. \A i \in 1 .. n :
         /\ sorted[i].id \in Rows(table)
         /\ sorted[i] = Snapshot(sorted[i].id, table)
         /\ Cardinality(Ahead(sorted[i].id, table)) = i - 1
  BY <1>1, SortedPlaces
<1>5. \A e \in Rows(table) : \E i \in 1 .. n : sorted[i].id = e
  BY <1>1, SortedPlaces
<1> HIDE DEF n
<1>6. \A i \in DOMAIN items : i \in 1 .. n /\ items[i] = sorted[i]
  BY <1>2, <1>3
<1>7. ASSUME NEW e \in Rows(table), Cardinality(Ahead(e, table)) < TopSize
      PROVE  \E i \in DOMAIN items : items[i].id = e
  <2>1. PICK i \in 1 .. n : sorted[i].id = e
    BY <1>5
  <2>2. i - 1 < TopSize
    BY <1>4, <1>7, <2>1
  <2>3. i \in 1 .. size
    BY <1>2, <2>2
  <2> QED BY <1>3, <2>1, <2>3
<1> QED BY <1>4, <1>6, <1>7 DEF Ranked, items

\* The events of an answer, made from the snapshots of the entry, are the snapshots.
LEMMA HitIsRead ==
    ASSUME NEW at, Legal(at), NEW items, items = GetTop(at)
    PROVE  [i \in DOMAIN items |-> ToEvent(items[i])] = items
<1>1. \A i \in DOMAIN items : items[i].id \in Rows(at) /\ items[i] = Snapshot(items[i].id, at)
  BY GetTopRanked DEF Ranked
<1>2. ASSUME NEW i \in DOMAIN items PROVE ToEvent(items[i]) = items[i]
  <2>1. PICK e \in Rows(at) : items[i] = Snapshot(e, at)
    BY <1>1
  <2>2. at[e].total \in Nat /\ at[e].available \in Nat /\ at[e].available <= at[e].total
    BY SeatsOfRow DEF Legal, Rows
  <2>3. (IF at[e].total > at[e].available
         THEN at[e].total - (at[e].total - at[e].available) ELSE at[e].total) = at[e].available
    BY <2>2
  <2> QED BY <2>1, <2>3 DEF ToEvent, Snapshot, Sold
<1>3. items = [i \in DOMAIN items |-> items[i]]
  BY DEF GetTop
<1> QED BY <1>2, <1>3

\* What a request or the entry has read: the top of a table of some moment.
ReadFrom(at, items) == Legal(at) /\ items = GetTop(at)

TopRead ==
    /\ top # NoEntry => ReadFrom(top.at, top.items)
    /\ \A q \in Client :
          client[q].pc \in {"setting", "top"} => ReadFrom(client[q].at, client[q].items)

\* Steps that change one request only, and the entry to what was read.
LEMMA ReadRequest ==
    ASSUME Typed, TopRead, NEW q \in Client, NEW c, client' = [client EXCEPT ![q] = c],
           c.pc \in {"setting", "top"} => ReadFrom(c.at, c.items),
           (top # NoEntry => ReadFrom(top.at, top.items))'
    PROVE  TopRead'
<1>1. ASSUME NEW p \in Client PROVE client'[p] = IF p = q THEN c ELSE client[p]
  BY DEF Typed, ClientsKept
<1>2. ASSUME NEW p \in Client, client'[p].pc \in {"setting", "top"}
      PROVE  ReadFrom(client'[p].at, client'[p].items)
  BY <1>1, <1>2 DEF TopRead
<1> QED BY <1>2 DEF TopRead, ReadFrom, Legal, Table, GetTop

\* A write tells no request, and no entry, what it has read.
LEMMA ReadWrite ==
    ASSUME Typed, TopRead, NEW e \in Event, NEW new, Write(e, new) PROVE TopRead'
<1>1. ASSUME NEW q \in Client, client'[q].pc \in {"setting", "top"}
      PROVE  ReadFrom(client'[q].at, client'[q].items)
  <2>1. CASE client[q].pc = "paging"
    <3>1. client[q] \in Paging
      BY <2>1 DEF Typed, ClientsKept, Kept
    <3>2. client'[q] = [client[q] EXCEPT !.overtaken = TRUE]
      BY <2>1 DEF Write
    <3> QED BY <1>1, <3>1, <3>2 DEF Paging
  <2>2. CASE client[q].pc # "paging"
    <3>1. client'[q] = client[q]
      BY <2>2 DEF Write
    <3> QED BY <1>1, <3>1 DEF TopRead
  <2> QED BY <2>1, <2>2
<1>2. UNCHANGED top
  BY DEF Write
<1> QED BY <1>1, <1>2 DEF TopRead

\* GET /events/top.
LEMMA ReadTop == ASSUME Typed, TopRead, NEW q \in Client, Top(q) PROVE TopRead'
<1>1. ASSUME TopHit(q) PROVE TopRead'
  <2> DEFINE c == [pc |-> "top", at |-> top.at,
                   items |-> [i \in DOMAIN top.items |-> ToEvent(top.items[i])]]
  <2>1. ReadFrom(top.at, top.items)
    BY <1>1 DEF TopHit, TopRead
  <2>2. c.items = top.items
    BY <2>1, HitIsRead DEF ReadFrom
  <2>3. ReadFrom(c.at, c.items)
    BY <2>1, <2>2
  <2>4. client' = [client EXCEPT ![q] = c] /\ UNCHANGED <<row, top, writes>>
    BY <1>1 DEF TopHit
  <2> HIDE DEF c
  <2> QED BY <2>3, <2>4, ReadRequest DEF TopRead
<1>2. ASSUME TopFind(q) PROVE TopRead'
  <2> DEFINE c == [pc |-> "setting", at |-> row, items |-> GetTop(row)]
  <2>1. Legal(row)
    BY DEF Typed, TypeOK, Legal
  <2>2. ReadFrom(c.at, c.items)
    BY <2>1 DEF ReadFrom
  <2>3. client' = [client EXCEPT ![q] = c] /\ UNCHANGED <<row, top, writes>>
    BY <1>2 DEF TopFind
  <2> HIDE DEF c
  <2> QED BY <2>2, <2>3, ReadRequest DEF TopRead
<1>3. ASSUME TopSet(q) PROVE TopRead'
  <2>1. ReadFrom(client[q].at, client[q].items)
    BY <1>3 DEF TopSet, TopRead
  <2>2. PICK at, items : client[q] = [pc |-> "setting", at |-> at, items |-> items]
    BY <1>3 DEF TopSet, Typed, ClientsKept, Kept, Setting
  <2> DEFINE c == [pc |-> "top", at |-> at, items |-> items]
  <2>3. ReadFrom(at, items)
    BY <2>1, <2>2
  <2>4. client' = [client EXCEPT ![q] = c]
    <3>1. [client[q] EXCEPT !.pc = "top"] = c
      BY <2>2
    <3> QED BY <1>3, <3>1 DEF TopSet
  <2>5. top' = top \/ top' = [at |-> at, items |-> items]
    BY <1>3, <2>2 DEF TopSet
  <2>6. (top # NoEntry => ReadFrom(top.at, top.items))'
    BY <2>3, <2>5 DEF TopRead
  <2> QED BY <2>3, <2>4, <2>6, ReadRequest
<1> QED BY <1>1, <1>2, <1>3 DEF Top

\* GET /events, and the client that goes on, leave what was read alone.
LEMMA ReadOther == ASSUME Typed, TopRead, NEW q \in Client, List(q) \/ Done(q) PROVE TopRead'
<1>1. ASSUME NEW c, c.pc \notin {"setting", "top"}, UNCHANGED top,
             client' = [client EXCEPT ![q] = c]
      PROVE  TopRead'
  BY <1>1, ReadRequest DEF TopRead
<1>2. ASSUME NEW page \in 1 .. MaxInt, NEW size \in 1 .. MaxPageSize, NEW filter \in Filter,
             ListCount(q, page, size, filter)
      PROVE  TopRead'
  BY <1>1, <1>2 DEF ListCount
<1>3. ASSUME ListPage(q) PROVE TopRead'
  BY <1>1, <1>3 DEF ListPage
<1>4. ASSUME ListFail(q) PROVE TopRead'
  BY <1>1, <1>4 DEF ListFail
<1>5. ASSUME Done(q) PROVE TopRead'
  BY <1>1, <1>5 DEF Done, Idle
<1> QED BY <1>2, <1>3, <1>4, <1>5 DEF List

\* Every step keeps what was read the top of some moment.
LEMMA ReadStep == ASSUME Typed, TopRead, [Next]_vars PROVE TopRead'
<1>1. ASSUME NEW e \in Event,
             \/ \E k \in Kind, n \in 1 .. MaxSeats : Add(e, k, n)
             \/ \E k \in Kind : Update(e, k)
             \/ Delete(e)
             \/ Take(e)
      PROVE  TopRead'
  BY <1>1, ReadWrite DEF Add, Update, Delete, Take
<1>2. ASSUME Expire PROVE TopRead'
  BY <1>2 DEF Expire, TopRead
<1>3. ASSUME UNCHANGED vars PROVE TopRead'
  BY <1>3 DEF vars, TopRead
<1> QED BY <1>1, <1>2, <1>3, ReadTop, ReadOther DEF Next

\* TopRanked: every answer to GET /events/top, from Redis or from the table, is the
\* ranking of the table as it was at one moment.
THEOREM TopIsRanked == Spec => []TopRanked
<1>1. Init => TopRead
  BY DEF Init, TopRead, Idle
<1>2. Typed /\ TopRead /\ [Next]_vars => TopRead'
  BY ReadStep
<1>3. TopRead => TopRanked
  BY GetTopRanked DEF TopRead, ReadFrom, TopRanked, Ranked
<1> QED BY <1>1, <1>2, <1>3, TypedInvariant, PTL DEF Spec

=============================================================================
