------------------------------ MODULE Listing -------------------------------
(***************************************************************************)
(* A client that pages through GET /tickets or GET /notifications while    *)
(* other requests write the rows.  TicketService.list_tickets and          *)
(* ReminderService.list_notifications have one shape: scope the WHERE      *)
(* clause to the caller, SELECT COUNT, then SELECT ... LIMIT OFFSET, two   *)
(* statements that see two states of the table; the endpoint derives       *)
(* hasNext from the count.                                                 *)
(*                                                                         *)
(* place[i] is row i's key in ORDER BY (the similarity to the search term, *)
(* the age), 0 if there is no such row or a filter excludes it.  The key   *)
(* is not unique: rows that tie come in an order each query chooses anew.  *)
(***************************************************************************)
EXTENDS Naturals, FiniteSets, Sequences, SequencesExt

CONSTANTS
  Items,       \* ids of tickets (or notifications)
  Places,      \* bound: different keys
  Users, Role, \* users and users.role
  Caller,      \* who lists
  Asked,       \* assigned_to_id (user_id) of the query, or None
  PageSize,    \* page_size of the query
  None

VARIABLES
  place,       \* [Items -> 0..Places], in the order of ORDER BY
  owner,       \* [Items -> Users]: assigned_to_id (user_id)
  pc,          \* "count", "fetch" (between the two statements) or "done"
  total,       \* the count this request has read
  pages,       \* the pages the client has received, in order
  initial,     \* history: the matching rows when the walk began
  written,     \* history: something was written since the walk began
  torn,        \* history: ... between the two statements, or to a matching
               \* row; or two matching rows tied
  held         \* history: the rows that have been the caller's

vars == <<place, owner, pc, total, pages, initial, written, torn, held>>
table == <<place, owner, held>>

ASSUME UsersAssumption == /\ Role \in [Users -> {"admin", "agent"}]
                          /\ Caller \in Users
                          /\ Asked \in Users \cup {None}
                          /\ None \notin Users
ASSUME ItemsAssumption == IsFiniteSet(Items)
ASSUME SizesAssumption == PageSize \in Nat \ {0} /\ Places \in Nat \ {0}

-----------------------------------------------------------------------------
\* Mutant: the query's filter comes before the caller's role
AskedFirst == IF Asked # None THEN Asked
              ELSE IF Role[Caller] = "agent" THEN Caller ELSE None

\* An agent's listing is his own; an administrator may ask for one user's
ListScope == IF Role[Caller] = "agent" THEN Caller ELSE Asked

\* The WHERE clause
Matches(i) == place[i] > 0 /\ (ListScope = None \/ owner[i] = ListScope)
Matching   == {i \in Items : Matches(i)}

\* What ORDER BY may make of the matching rows
Orders == {s \in SetToSeqs(Matching) :
             \A m, n \in DOMAIN s : m < n => place[s[m]] <= place[s[n]]}

\* ... which it leaves open where two of them tie
Tied == \E i, j \in Matching : i # j /\ place[i] = place[j]

\* Mutant: the OFFSET is one row too far
PageRowsLate(order, page) ==
  SubSeq(order, (page - 1) * PageSize + 2,
         IF page * PageSize + 1 < Len(order) THEN page * PageSize + 1 ELSE Len(order))

\* Mutant: LIMIT asks for one row more
PageRowsOneMore(order, page) ==
  SubSeq(order, (page - 1) * PageSize + 1,
         IF page * PageSize + 1 < Len(order) THEN page * PageSize + 1 ELSE Len(order))

\* LIMIT page_size OFFSET (page - 1) * page_size
PageRows(order, page) ==
  SubSeq(order, (page - 1) * PageSize + 1,
         IF page * PageSize < Len(order) THEN page * PageSize ELSE Len(order))

\* Mutant: the last page counts only if it is full
FullPages(n) == IF n > 0 THEN n \div PageSize ELSE 1

\* math.ceil(total_records / page_size), 1 for an empty list
TotalPages(n) == IF n > 0 THEN (n + PageSize - 1) \div PageSize ELSE 1

Init ==
  /\ place = [i \in Items |-> 0]
  /\ owner = [i \in Items |-> Caller]
  /\ pc = "count"
  /\ total = 0
  /\ pages = <<>>
  /\ initial = {}
  /\ written = FALSE
  /\ torn = FALSE
  /\ held = {}

\* SELECT COUNT(*): the client asks for the page after those it has
CountRows ==
  /\ pc = "count"
  /\ total' = Cardinality(Matching)
  /\ pc' = "fetch"
  /\ UNCHANGED <<pages, initial, written, torn>>
  /\ UNCHANGED table

\* SELECT ... LIMIT OFFSET, and the answer: the client goes on while hasNext
FetchPage(order) ==
  /\ pc = "fetch"
  /\ LET page == Len(pages) + 1 IN
       /\ pages' = Append(pages, PageRows(order, page))
       /\ pc' = IF page < TotalPages(total) THEN "count" ELSE "done"
  /\ torn' = (torn \/ Tied)
  /\ UNCHANGED <<total, initial, written>>
  /\ UNCHANGED table

\* The client begins again with page 1
StartWalk ==
  /\ pc = "done"
  /\ pc' = "count"
  /\ total' = 0
  /\ pages' = <<>>
  /\ initial' = Matching
  /\ written' = FALSE
  /\ torn' = FALSE
  /\ UNCHANGED table

\* Another request's statement
Write(i, p, u, tears) ==
  /\ place' = [place EXCEPT ![i] = p]
  /\ owner' = [owner EXCEPT ![i] = u]
  /\ held' = IF u = Caller THEN held \cup {i} ELSE held
  /\ written' = TRUE
  /\ torn' = (torn \/ tears)
  /\ UNCHANGED <<pc, total, pages, initial>>

\* create_ticket or a reminder check's INSERT INTO notifications; or an update
\* after which the filters let a row in
InsertRow(i, p, u) ==
  /\ place[i] = 0
  /\ p > 0
  /\ Write(i, p, u, pc = "fetch")

\* update_ticket reassigns a ticket, or moves it in the order or out of the
\* filters
UpdateRow(i, p, u) ==
  /\ place[i] > 0
  /\ Write(i, p, u, pc = "fetch" \/ Matches(i))

Next ==
  \/ CountRows
  \/ \E order \in Orders : FetchPage(order)
  \/ StartWalk
  \/ \E i \in Items, p \in 0..Places, u \in Users :
       InsertRow(i, p, u) \/ UpdateRow(i, p, u)

Spec == Init /\ [][Next]_vars

-----------------------------------------------------------------------------
\* Every variable keeps its type: a count is one of rows there are, and no page,
\* torn or not, has more rows than LIMIT allows.
TypeOK ==
  /\ place \in [Items -> 0..Places]
  /\ owner \in [Items -> Users]
  /\ pc \in {"count", "fetch", "done"}
  /\ total \in 0..Cardinality(Items)
  /\ pages \in Seq(Seq(Items))
  /\ \A p \in 1..Len(pages) : Len(pages[p]) <= PageSize
  /\ initial \in SUBSET Items
  /\ written \in BOOLEAN
  /\ torn \in BOOLEAN
  /\ held \in SUBSET Items

Seen == UNION {ToSet(pages[p]) : p \in 1..Len(pages)}

\* Rows that tie lie on both sides of the end of a page
TieAcrossPages ==
  \E i \in initial, page \in 1..Cardinality(initial) :
    /\ Cardinality({j \in initial : place[j] < place[i]}) < page * PageSize
    /\ page * PageSize < Cardinality({j \in initial : place[j] <= place[i]})

\* LIMIT, OFFSET, totalPages and hasNext agree: a walk over rows nobody writes
\* returns as many rows as match, in order, on full pages and a last one with
\* the rest, and asks for no page that is empty unless the whole list is.  It
\* meets each row once, also if rows tie, unless a tie lies across the end of a
\* page.
WalkExact ==
  pc = "done" /\ ~ written =>
    LET rows == Cardinality(initial)
        last == Len(pages)
    IN
      /\ rows <= last * PageSize
      /\ last > 1 => (last - 1) * PageSize < rows
      /\ \A p \in 1..last :
           Len(pages[p]) = IF p < last THEN PageSize ELSE rows - (p - 1) * PageSize
      /\ \A p, q \in 1..last : \A m \in DOMAIN pages[p], n \in DOMAIN pages[q] :
           p < q \/ (p = q /\ m < n) => place[pages[p][m]] <= place[pages[q][n]]
      /\ ~ TieAcrossPages => Seen = initial

\* Rows that come in push old ones to later pages, so a walk may meet a row
\* twice but misses none that was there when it began: unless one came in
\* between a request's two statements, a matching row was written, or rows tied.
WalkComplete == pc = "done" /\ ~ torn => initial \subseteq Seen

\* list_tickets and list_notifications show an agent only rows that were his,
\* whatever he asks for and however the rows are reassigned during the walk.
AgentSeesOwn == Role[Caller] = "agent" => Seen \subseteq held
=============================================================================
