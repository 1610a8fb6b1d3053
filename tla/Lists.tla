-------------------------------- MODULE Lists -------------------------------
(***************************************************************************)
(* The lists of the API, read page by page.  A client follows the cursors  *)
(* of one list from its first page to its last while rows come, go and     *)
(* move.  All lists page alike; what they differ in is a record per list.  *)
(***************************************************************************)
EXTENDS Naturals, FiniteSets

CONSTANTS
  Rows,    \* bound: ids, 1..n, which break ties
  MaxAt,   \* bound: values of the sort key, in the order of the list
  Limit    \* the page size asked for

VARIABLES
  list,
  search,  \* the query has a search text (for penalties also effectiveFrom)
  row,
  cursor,  \* what the next page is asked with
  ended,   \* the last page had no cursor
  shown,   \* history: how often each row was shown
  stray,   \* history: rows shown that the search does not find
  cut,     \* history: a page with rows after it had no cursor
  stayed   \* history: rows that are as they were at the first page

vars == <<list, search, row, cursor, ended, shown, stray, cut, stayed>>

-----------------------------------------------------------------------------
(* The lists                                                               *)

\* search: the text is one OR of the where clause ("or"), which the cursor's OR
\* replaces, or stands beside it ("and").  enters: where new rows come in.
\* moves: the application writes the sort key of old rows.  nulls: the key is
\* null at first, and null sorts first.
Newest(how) == [search |-> how, enters |-> "first", moves |-> FALSE, nulls |-> FALSE]
ByDate == [search |-> "none", enters |-> "anywhere", moves |-> FALSE, nulls |-> FALSE]

\* Of the admin API.
users == Newest("or")
photographers == Newest("and")
reviews == Newest("or")
reports == Newest("or")
penalties == Newest("or")
adminBookings == Newest("or")
activityFields == Newest("or")
roles == Newest("and")
services == Newest("or")
legalDocuments == Newest("and")

\* Of the mobile API.
incoming == Newest("none")
matches == Newest("none")
messages == Newest("none")
photographerReviews == Newest("none")
blocks == Newest("none")
bookings == ByDate
nearby == [ByDate EXCEPT !.moves = TRUE]
publicPortfolio == [ByDate EXCEPT !.moves = TRUE]
discover == [Newest("none") EXCEPT !.moves = TRUE]
conversations == [Newest("none") EXCEPT !.moves = TRUE, !.nulls = TRUE]

Lists == {users, photographers, reviews, reports, penalties, adminBookings, activityFields,
          roles, services, legalDocuments, incoming, matches, messages, photographerReviews,
          blocks, bookings, nearby, publicPortfolio, discover, conversations}

-----------------------------------------------------------------------------
\* Rows in the state "filtered" meet the filters of the query but not its
\* search; null is 0.
Row == [at: 0..MaxAt, state: {"out", "filtered", "found"}]
Start == [at |-> 0, id |-> 0]

TypeOK ==
  /\ list \in Lists
  /\ search \in BOOLEAN /\ ended \in BOOLEAN /\ cut \in BOOLEAN
  /\ row \in [Rows -> Row]
  /\ cursor \in [at: 0..MaxAt, id: Rows \cup {0}]
  /\ shown \in [Rows -> Nat]
  /\ stray \subseteq Rows /\ stayed \subseteq Rows

Keys(l) == IF l.nulls THEN 0..MaxAt ELSE 1..MaxAt
States(s) == IF s THEN {"out", "filtered", "found"} ELSE {"out", "found"}
Init ==
  /\ list \in Lists
  /\ search \in {s \in BOOLEAN : s => list.search # "none"}
  /\ row \in [Rows -> [at: Keys(list), state: States(search)]]
  /\ cursor = Start /\ ended = FALSE /\ cut = FALSE
  /\ shown = [r \in Rows |-> 0]
  /\ stray = {} /\ stayed = Rows

-----------------------------------------------------------------------------
(* Paging                                                                  *)

Comes(r, at, id) == row[r].at < at \/ (row[r].at = at /\ r < id)

\* Mutant of After: rows with the key of the cursor are taken for shown.
AfterKey(r) == row[r].at > cursor.at

\* The OR of the cursor.
After(r) == row[r].at > cursor.at \/ (row[r].at = cursor.at /\ r > cursor.id)

\* Mutant of Found: the clauses of every list are spread into one literal.
FoundFirst(r) == (search /\ cursor = Start) => row[r].state = "found"

\* The search, as the where clause that is built has it: with a cursor, the
\* second OR of the object literal is the one that counts.
Found(r) == (search /\ (cursor = Start \/ list.search = "and")) => row[r].state = "found"

Selected ==
  {r \in Rows : row[r].state # "out" /\ Found(r) /\ (cursor # Start => After(r))}

\* The first Limit of Limit + 1 rows.
Page == {r \in Selected : Cardinality({q \in Selected : Comes(q, row[r].at, r)}) < Limit}
Last == CHOOSE r \in Page : \A q \in Page \ {r} : Comes(q, row[r].at, r)
HasMore == Cardinality(Selected) > Limit

\* cursorPage; a null key cannot be encoded.
NextCursor ==
  IF HasMore /\ ~ (list.nulls /\ row[Last].at = 0) THEN [at |-> row[Last].at, id |-> Last] ELSE Start

Fetch ==
  /\ ~ ended
  /\ cursor' = NextCursor
  /\ ended' = (NextCursor = Start)
  /\ cut' = (HasMore /\ NextCursor = Start)
  /\ shown' = [r \in Rows |-> shown[r] + (IF r \in Page THEN 1 ELSE 0)]
  /\ stray' = stray \cup {r \in Page : search /\ row[r].state # "found"}
  /\ UNCHANGED <<list, search, row, stayed>>

-----------------------------------------------------------------------------
(* Rows                                                                    *)

Change(r, next) ==
  /\ ~ ended /\ cursor # Start
  /\ row' = [row EXCEPT ![r] = next]
  /\ stayed' = stayed \ {r}
  /\ UNCHANGED <<list, search, cursor, ended, shown, stray, cut>>

Present == {q \in Rows : row[q].state # "out"}
First(at) == at = 1 \/ \A q \in Present : row[q].at >= at

Enter(r, at, state) ==
  /\ row[r].state = "out" /\ state # "out"
  /\ IF list.nulls THEN at = 0 ELSE list.enters = "first" => First(at)
  /\ Change(r, [at |-> at, state |-> state])

Leave(r) == row[r].state # "out" /\ Change(r, [row[r] EXCEPT !.state = "out"])

Move(r, at) ==
  /\ list.moves /\ row[r].state # "out" /\ row[r].at # at
  /\ list.enters = "first" => at = 1
  /\ Change(r, [row[r] EXCEPT !.at = at])

Next ==
  \/ Fetch
  \/ \E r \in Rows :
       \/ Leave(r)
       \/ \E at \in Keys(list) : Move(r, at) \/ \E state \in States(search) : Enter(r, at, state)

Spec == Init /\ [][Next]_vars

-----------------------------------------------------------------------------
(* Properties                                                              *)

\* "Opaque cursor returned by the previous page" (src/common/pagination.ts:6):
\* following the cursors to the end shows every row that stayed as it was
\* exactly once, whatever comes, goes and moves around it.  Only a list with a
\* null key ends too early.
StayersShownOnce ==
  /\ \A r \in stayed : shown[r] <= 1
  /\ cut => list.nulls
  /\ ended /\ ~ cut => \A r \in stayed : row[r].state = "found" => shown[r] = 1

\* Rows the search does not find are shown by no list but those whose cursor
\* replaces the search.
SearchKeptUnlessReplaced == stray # {} => list.search = "or"

-----------------------------------------------------------------------------
(* Inductive invariant                                                   *)

\* Before the first page nothing is shown; between two pages a row that stayed
\* was shown once if it comes before the cursor and is found, and never if it
\* comes after.
ShownUpToCursor ==
  /\ ~ ended /\ cursor = Start => \A r \in Rows : shown[r] = 0
  /\ ~ ended /\ cursor # Start => \A r \in stayed :
       /\ After(r) => shown[r] = 0
       /\ ~ After(r) /\ row[r].state = "found" => shown[r] = 1

\* Only lists with a search are searched, and only the last page is cut.
SearchesAndCuts ==
  /\ search => list.search # "none"
  /\ cut => ended

IInv ==
  /\ TypeOK /\ ShownUpToCursor /\ SearchesAndCuts
  /\ StayersShownOnce /\ SearchKeptUnlessReplaced
=============================================================================
