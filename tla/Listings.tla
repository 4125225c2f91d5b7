------------------------------ MODULE Listings ------------------------------
(***************************************************************************)
(* The paged lists.  Each list route answers with one page of the rows that*)
(* match its filter, newest first, and with their number, read by two      *)
(* queries that are started together and are not of one snapshot.  A client*)
(* asks for page after page until the number says that there is no other;  *)
(* meanwhile rows are created, and updates make rows match or no longer    *)
(* match.                                                                  *)
(*                                                                         *)
(* A row is its number in the order of creation: createdAt of two rows of a*)
(* list is taken to differ.  Rows that a column keeps from ever matching   *)
(* are left out.                                                           *)
(***************************************************************************)
EXTENDS Naturals, FiniteSets

CONSTANTS
    PageSizes,      \* the limits that clients ask with
    Asked,          \* bound: the filters of the instance
    MaxRows,        \* bound: rows of the table
    MaxChanges      \* bound: rows that join or leave

-----------------------------------------------------------------------------
(* The lists: for each, the sets of columns its filter may name.           *)

GetOrders == {{"userId"}}
GetOrderHistory == {{"userId"}}
GetNotifications == {{"userId"}}
GetAdminOrders == SUBSET {"status"}
GetDisputes == SUBSET {"status"}
GetAdminSubscriptions == SUBSET {"status"}
GetAdminPayments == SUBSET {"payoutStatus"}
GetUsers == SUBSET {"role", "status"}
GetRiders == SUBSET {"verificationStatus", "riderType", "isOnline"}
ListRiders == SUBSET {"verificationStatus", "riderType", "isOnline"}

Where == GetOrders \cup GetOrderHistory \cup GetNotifications \cup GetAdminOrders
         \cup GetDisputes \cup GetAdminSubscriptions \cup GetAdminPayments
         \cup GetUsers \cup GetRiders \cup ListRiders

\* the columns that are updated; an owner, a role, a payoutStatus never are
Changing == {"status", "verificationStatus", "riderType", "isOnline"}

ASSUME ListAssumption ==
    /\ PageSizes \subseteq Nat \ {0}
    /\ Asked \subseteq Where
    /\ MaxRows \in Nat /\ MaxChanges \in Nat

VARIABLES
    rows,       \* how many rows there are
    matching,   \* those that match the filter
    where,      \* the columns that the filter names
    limit,      \* the page size
    page,       \* the page that the client asks for, from 1
    query,      \* the two reads of the call: those to do, and what was read
    shown,      \* the rows the client has got
    total,      \* the number it got with the last page
    stayed,     \* history: the rows that have matched since the client began
    repeated,   \* history: the rows it got on more than one page
    joined,     \* history: how many rows have joined,
    exits,      \* history: and how many have left
    split       \* history: a row joined between the count and the rows of a call

tableVars == <<rows, matching, where, limit>>
clientVars == <<page, query, shown, total, repeated>>
listVars == <<tableVars, clientVars, stayed, joined, exits, split>>

Row == 1..rows
Reads == {"findMany", "count"}
NoQuery == [todo |-> {}, data |-> {}, count |-> 0]

-----------------------------------------------------------------------------
(* A call for a page.                                                      *)

\* orderBy createdAt desc
Newer(r) == Cardinality({q \in matching : q > r})

\* Mutant of PageOfRows: skip is page * limit less one.
PageOverlaps == {r \in matching :
                    page * limit <= Newer(r) + limit + 1 /\ Newer(r) < page * limit}

\* Mutant of PageOfRows: pages are taken to be numbered from 0.
PageFromZero == {r \in matching :
                    page * limit <= Newer(r) /\ Newer(r) < (page + 1) * limit}

\* skip: (page - 1) * limit, take: limit
PageOfRows == {r \in matching :
                    (page - 1) * limit <= Newer(r) /\ Newer(r) < page * limit}

\* pages: Math.ceil(total / limit) are behind the client
Done == page > 1 /\ (page - 1) * limit >= total

GetPage ==
    /\ query.todo = {}
    /\ ~Done
    /\ query' = [NoQuery EXCEPT !.todo = Reads]
    /\ split' = FALSE
    /\ UNCHANGED <<tableVars, page, shown, total, repeated, stayed, joined, exits>>

\* one of the two reads; the last one sends the answer
Read(which, data, count) ==
    /\ which \in query.todo
    /\ IF query.todo = {which}
       THEN /\ query' = NoQuery
            /\ shown' = shown \cup data
            /\ repeated' = repeated \cup (shown \cap data)
            /\ total' = count
            /\ page' = page + 1
       ELSE /\ query' = [todo |-> query.todo \ {which}, data |-> data, count |-> count]
            /\ UNCHANGED <<page, shown, total, repeated>>
    /\ UNCHANGED <<tableVars, stayed, joined, exits, split>>

FindMany == Read("findMany", PageOfRows, query.count)
Count == Read("count", query.data, Cardinality(matching))

\* A read throws, or the server restarts: the client asks again.
CallLost ==
    /\ query' = NoQuery
    /\ UNCHANGED <<tableVars, page, shown, total, repeated, stayed, joined, exits, split>>

-----------------------------------------------------------------------------
(* What other calls do to the table.                                       *)

Join(r) ==
    /\ joined + exits < MaxChanges
    /\ matching' = matching \cup {r}
    /\ joined' = joined + 1
    /\ split' = (split \/ query.todo = {"findMany"})
    /\ UNCHANGED <<where, limit, clientVars, stayed, exits>>

\* orders, notifications, users, riders, disputes, payments, subscriptions
Create ==
    /\ rows < MaxRows
    /\ rows' = rows + 1
    /\ \/ Join(rows + 1)
       \/ /\ where \cap Changing # {}
          /\ UNCHANGED <<matching, where, limit, clientVars, stayed, joined, exits, split>>

Enter(r) ==
    /\ where \cap Changing # {}
    /\ r \in Row \ matching
    /\ Join(r)
    /\ UNCHANGED rows

Leave(r) ==
    /\ where \cap Changing # {}
    /\ r \in matching
    /\ joined + exits < MaxChanges
    /\ matching' = matching \ {r}
    /\ stayed' = stayed \ {r}
    /\ exits' = exits + 1
    /\ UNCHANGED <<rows, where, limit, clientVars, joined, split>>

-----------------------------------------------------------------------------
ListsInit ==
    /\ rows \in 0..MaxRows
    /\ where \in Asked
    /\ matching \in SUBSET Row
    /\ where \cap Changing = {} => matching = Row
    /\ limit \in PageSizes
    /\ page = 1
    /\ query = NoQuery
    /\ shown = {}
    /\ total = 0
    /\ stayed = matching
    /\ repeated = {}
    /\ joined = 0
    /\ exits = 0
    /\ split = FALSE

ServeLists ==
    \/ GetPage \/ FindMany \/ Count
    \/ query.todo # {} /\ CallLost
    \/ Create \/ \E r \in Row : Enter(r) \/ Leave(r)

ListsNext == ServeLists \/ CallLost

ListsSpec == ListsInit /\ [][ListsNext]_listVars

-----------------------------------------------------------------------------
(* What the lists keep to.                                                 *)

ListsTypeOK ==
    /\ rows \in Nat /\ matching \subseteq Row
    /\ where \in Asked /\ limit \in PageSizes /\ page \in Nat \ {0}
    /\ query.todo \subseteq Reads /\ query.data \subseteq Row /\ query.count \in Nat
    /\ shown \subseteq Row /\ total \in Nat
    /\ stayed \subseteq matching /\ repeated \subseteq Row
    /\ joined \in Nat /\ exits \in Nat /\ split \in BOOLEAN

\* A client that pages to the end misses at most one row for each row that left
\* the list meanwhile: of the rows that matched all the time, all but that many
\* are shown, whatever was created, failed or was asked again.  Not when a row
\* joined between the two reads of the last page: its number is then one of a
\* list that was shorter.
EachExitHidesOne ==
    Done /\ ~split => Cardinality(stayed \ shown) <= exits

\* It gets at most one row a second time for each row that joined.
EachEntryRepeatsOne == Cardinality(repeated) <= joined

=============================================================================
