---------------------------- MODULE EventQueries ----------------------------
(***************************************************************************)
(* The queries of the events service over all events: GET /events, which   *)
(* counts the matching rows and then reads one page of them, and GET       *)
(* /events/top, whose answer is kept in Redis as events:top10 until its    *)
(* TTL is over.  Writes of the table go on between the calls of a request. *)
(*                                                                         *)
(* Of an event, its seats matter here, and its kind: what the filters of   *)
(* the list tell apart of its title and its period.  A filter is the set   *)
(* of the kinds it lets through.                                           *)
(***************************************************************************)
EXTENDS Integers, Sequences, FiniteSets

CONSTANTS
    Event,        \* ids of the events, ordered as numbers
    Client,       \* requests that may be in progress at once
    Kind,         \* what titles and periods can be
    Filter,       \* sets of kinds: what filters match
    NoEntry,      \* Redis has no such key
    MaxPageSize,  \* 100 in the code
    TopSize,      \* 10 in the code
    MaxInt,       \* the largest int, 2^31 - 1 in the code
    MaxSeats,     \* bound: seats of an event
    MaxWrites     \* bound: writes of the table

ASSUME EventAssumption == Event \subseteq Nat /\ IsFiniteSet(Event)
ASSUME SizeAssumption == {MaxPageSize, TopSize, MaxInt} \subseteq Nat \ {0}
ASSUME BoundsAssumption == MaxSeats \in Nat /\ MaxWrites \in Nat

VARIABLES
    row,       \* the events table: kind, total and available seats if there is none
    top,       \* the entry events:top10, with the table it was read from, or NoEntry
    client,    \* where each request is
    writes

vars == <<row, top, client, writes>>

NoRow == [kind |-> "none", total |-> 0, available |-> 0]

Rows(table) == {e \in Event : table[e] # NoRow}

Snapshot(e, table) ==
    [id |-> e, kind |-> table[e].kind, total |-> table[e].total, available |-> table[e].available]

Idle == [pc |-> "idle"]

\* The product of two ints, in the unchecked context that C# compiles to.
Wrap(n) == ((n + MaxInt + 1) % (2 * (MaxInt + 1))) - (MaxInt + 1)

-----------------------------------------------------------------------------
(***************************************************************************)
(* Writes, by the handlers and the consumer of EventService                *)
(***************************************************************************)

Write(e, new) ==
    /\ writes < MaxWrites
    /\ writes' = writes + 1
    /\ row' = [row EXCEPT ![e] = new]
    /\ client' = [q \in Client |->
                     IF client[q].pc = "paging"
                     THEN [client[q] EXCEPT !.overtaken = TRUE]
                     ELSE client[q]]
    /\ UNCHANGED top

Add(e, k, n) ==
    /\ e \notin Rows(row)
    /\ Write(e, [kind |-> k, total |-> n, available |-> n])

Update(e, k) == e \in Rows(row) /\ row[e].kind # k /\ Write(e, [row[e] EXCEPT !.kind = k])

Delete(e) == e \in Rows(row) /\ Write(e, NoRow)

Take(e) == row[e].available > 0 /\ Write(e, [row[e] EXCEPT !.available = @ - 1])

-----------------------------------------------------------------------------
(***************************************************************************)
(* GET /events                                                             *)
(***************************************************************************)

\* Mutant: pages counted from zero.
SkipFromZero(page, size) == Wrap(page * size)

Skip(page, size) == Wrap((page - 1) * size)

Matching(filter) == {Snapshot(e, row) : e \in {f \in Rows(row) : row[f].kind \in filter}}

\* CountAsync, for a page number and size within the ranges of GetEventsQuery.
ListCount(q, page, size, filter) ==
    /\ client[q].pc = "idle"
    /\ client' = [client EXCEPT ![q] =
                     [pc |-> "paging", page |-> page, size |-> size, filter |-> filter,
                      total |-> Cardinality(Matching(filter)), overtaken |-> FALSE]]
    /\ UNCHANGED <<row, top, writes>>

\* The page: no ORDER BY, so any of the matching rows, as many as there are after
\* the offset and the page holds.
ListPage(q) ==
    LET c == client[q]
        offset == Skip(c.page, c.size)
        left == Cardinality(Matching(c.filter)) - offset
        count == IF left < 0 THEN 0 ELSE IF left < c.size THEN left ELSE c.size
    IN  /\ c.pc = "paging"
        /\ offset >= 0
        /\ \E items \in SUBSET Matching(c.filter) :
              /\ Cardinality(items) = count
              /\ client' = [client EXCEPT ![q] =
                               [pc |-> "page", page |-> c.page, size |-> c.size,
                                filter |-> c.filter, total |-> c.total,
                                overtaken |-> c.overtaken, items |-> items]]
        /\ UNCHANGED <<row, top, writes>>

\* PostgreSQL refuses a negative OFFSET: the answer is 500.
ListFail(q) ==
    /\ client[q].pc = "paging"
    /\ Skip(client[q].page, client[q].size) < 0
    /\ client' = [client EXCEPT ![q] =
                     [pc |-> "failed", page |-> client[q].page, size |-> client[q].size]]
    /\ UNCHANGED <<row, top, writes>>

-----------------------------------------------------------------------------
(***************************************************************************)
(* GET /events/top                                                         *)
(***************************************************************************)

Sold(s) == s.total - s.available

\* Mutant: the number of sold seats in place of their share.
BestSellerByCount(s, t) == Sold(s) > Sold(t) \/ (Sold(s) = Sold(t) /\ s.id < t.id)

\* OrderByDescending of the share of sold seats, ThenBy of the id.
BestSeller(s, t) ==
    \/ Sold(s) * t.total > Sold(t) * s.total
    \/ Sold(s) * t.total = Sold(t) * s.total /\ s.id < t.id

Snapshots(table) == {Snapshot(e, table) : e \in Rows(table)}

\* Snapshots in the order of the query.
Ranking(S) ==
    CHOOSE sorted \in [1 .. Cardinality(S) -> S] :
        \A i, j \in 1 .. Cardinality(S) : i < j => BestSeller(sorted[i], sorted[j])

\* Mutant: no limit.
GetTopAll(table) == Ranking(Snapshots(table))

\* EventRepository.GetTopAsync.
GetTop(table) ==
    LET many == Cardinality(Rows(table))
    IN  [i \in 1 .. (IF many < TopSize THEN many ELSE TopSize) |-> Ranking(Snapshots(table))[i]]

\* Mutant: the event made from a snapshot has all its seats.
ToEventAllFree(s) == [s EXCEPT !.available = s.total]

\* EventSnapshot.ToEvent: Event.Create makes all seats available, then the sold
\* ones are reserved.
ToEvent(s) ==
    [s EXCEPT !.available = IF s.total > s.available THEN s.total - Sold(s) ELSE s.total]

\* The entry is there: it is the answer.
TopHit(q) ==
    /\ client[q].pc = "idle"
    /\ top # NoEntry
    /\ client' = [client EXCEPT ![q] =
                     [pc |-> "top", at |-> top.at,
                      items |-> [i \in DOMAIN top.items |-> ToEvent(top.items[i])]]]
    /\ UNCHANGED <<row, top, writes>>

\* There is no entry, or Redis failed: the table is read.
TopFind(q) ==
    /\ client[q].pc = "idle"
    /\ client' = [client EXCEPT ![q] = [pc |-> "setting", at |-> row, items |-> GetTop(row)]]
    /\ UNCHANGED <<row, top, writes>>

\* The entry is set, unless Redis fails, and what was read is the answer.
TopSet(q) ==
    /\ client[q].pc = "setting"
    /\ (UNCHANGED top) \/ (top' = [at |-> client[q].at, items |-> client[q].items])
    /\ client' = [client EXCEPT ![q].pc = "top"]
    /\ UNCHANGED <<row, writes>>

\* The TTL of the entry is over.
Expire ==
    /\ top # NoEntry
    /\ top' = NoEntry
    /\ UNCHANGED <<row, client, writes>>

\* The client has its answer and goes on.
Done(q) ==
    /\ client[q].pc \in {"page", "failed", "top"}
    /\ client' = [client EXCEPT ![q] = Idle]
    /\ UNCHANGED <<row, top, writes>>

-----------------------------------------------------------------------------
Init ==
    /\ row = [e \in Event |-> NoRow]
    /\ top = NoEntry
    /\ client = [q \in Client |-> Idle]
    /\ writes = 0

List(q) ==
    \/ \E page \in 1 .. MaxInt, size \in 1 .. MaxPageSize, filter \in Filter :
          ListCount(q, page, size, filter)
    \/ ListPage(q)
    \/ ListFail(q)

Top(q) == TopHit(q) \/ TopFind(q) \/ TopSet(q)

Next ==
    \/ \E e \in Event :
          \/ \E k \in Kind, n \in 1 .. MaxSeats : Add(e, k, n)
          \/ \E k \in Kind : Update(e, k)
          \/ Delete(e)
          \/ Take(e)
    \/ \E q \in Client : List(q) \/ Top(q) \/ Done(q)
    \/ Expire

Spec == Init /\ [][Next]_vars

-----------------------------------------------------------------------------
(***************************************************************************)
(* Safety                                                                  *)
(***************************************************************************)

Table == [Event -> {NoRow} \cup [kind : Kind, total : 1 .. MaxSeats, available : 0 .. MaxSeats]]

\* Every variable has a value of its kind, and no event has more free seats than
\* seats; of a request, what its next step reads.
TypeOK ==
    /\ row \in Table
    /\ \A e \in Event : row[e].available <= row[e].total
    /\ top # NoEntry => top.at \in Table /\ Len(top.items) <= TopSize
    /\ \A q \in Client :
          client[q].pc \in {"idle", "paging", "page", "failed", "setting", "top"}
    /\ writes \in 0 .. MaxWrites

\* The page lies within what an int can count.
Fits(c) == (c.page - 1) * c.size <= MaxInt

\* A page whose offset an int can hold has as many items as a page of that number
\* of total items has, all matching the filter, unless a write came between the
\* count and the page; a request fails only for an offset beyond an int.
PageRight ==
    \A q \in Client :
        LET c == client[q]
        IN  /\ c.pc = "failed" => ~Fits(c)
            /\ c.pc = "page" =>
                  /\ \A i \in c.items : i.kind \in c.filter
                  /\ Cardinality(c.items) <= c.size
            /\ c.pc = "page" /\ Fits(c) /\ ~c.overtaken =>
                  LET places == {i \in 1 .. c.total : (i - 1) \div c.size = c.page - 1}
                  IN  Cardinality(c.items) = Cardinality(places)

\* The events of a table that come before the event e in the ranking.
Ahead(e, table) ==
    {f \in Rows(table) :
        \/ Sold(table[f]) * table[e].total > Sold(table[e]) * table[f].total
        \/ Sold(table[f]) * table[e].total = Sold(table[e]) * table[f].total /\ f < e}

\* The answer to GET /events/top, from the cache or not, gives the table of one
\* moment: each of its events with its seats then, at the place given by the number
\* of events that had sold a greater share, and nobody else.
TopRanked ==
    \A q \in Client :
        client[q].pc = "top" =>
            LET items == client[q].items
                table == client[q].at
            IN  /\ \A i \in DOMAIN items :
                      /\ items[i].id \in Rows(table)
                      /\ items[i] = Snapshot(items[i].id, table)
                      /\ Cardinality(Ahead(items[i].id, table)) = i - 1
                /\ \A e \in Rows(table) :
                      Cardinality(Ahead(e, table)) < TopSize =>
                          \E i \in DOMAIN items : items[i].id = e

=============================================================================
