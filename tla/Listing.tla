------------------------------- MODULE Listing -------------------------------
(***************************************************************************)
(* The paged lists of devices and rules (cmd_device_list_page, rule.list   *)
(* with a cursor, devlist_page.h): a page holds the rows after the cursor  *)
(* in the order of their keys, as many as fit and at least one, and names  *)
(* the last one if there are more.  Items come and go between the pages,   *)
(* and rows change their length, so a page may end after any of its rows.  *)
(***************************************************************************)
EXTENDS Naturals

CONSTANT Key              \* IEEE addresses, rule ids

ASSUME ListAssumption == Key \subseteq Nat \ {0}

VARIABLES
    here,     \* the items there are
    cursor,   \* the last one the reader was sent; 0 at the start
    reading,  \* is the reader between two pages?
    rows,     \* what it has got, per key how often
    all       \* ghost: the items that have been here ever since it began

listVars == <<here, cursor, reading, rows, all>>

\* Types; between two pages the cursor is an item's, else at the start.
ListTypeOK ==
    /\ here \subseteq Key /\ all \subseteq here
    /\ cursor \in Key \cup {0} /\ reading \in BOOLEAN /\ (cursor = 0 <=> ~reading)
    /\ rows \in [Key -> Nat]

ListInit ==
    /\ here \in SUBSET Key /\ cursor = 0 /\ reading = FALSE
    /\ rows = [k \in Key |-> 0] /\ all = {}

\* Mutant of After: the cursor's own row once more.
After_again(c) == {k \in here : k >= c}

\* What devlist_next walks; the rules after the cursor, sorted by id.
After(c) == {k \in here : k > c}

\* The rows after the cursor c up to the last that fits.
Page(c, last) == {k \in After(c) : k <= last}

\* A page that ends with the row of `last`; there are more if it is not the last of all.
NextPage(last) ==
    LET page == Page(cursor, last)
        got  == IF reading THEN rows ELSE [k \in Key |-> 0]
    IN  /\ last \in After(cursor)
        /\ rows' = [k \in Key |-> IF k \in page THEN got[k] + 1 ELSE got[k]]
        /\ reading' = (page # After(cursor))
        /\ cursor' = IF page # After(cursor) THEN last ELSE 0
        /\ all' = IF reading THEN all ELSE here
        /\ UNCHANGED here

\* Nothing after the cursor: the last page is empty.
EmptyPage ==
    /\ After(cursor) = {}
    /\ rows' = IF reading THEN rows ELSE [k \in Key |-> 0]
    /\ reading' = FALSE /\ cursor' = 0
    /\ all' = IF reading THEN all ELSE here
    /\ UNCHANGED here

\* A join or a new rule.
Arrive(k) == here' = here \cup {k} /\ UNCHANGED <<cursor, reading, rows, all>>

\* A leave, also a soft one, or a delete.
Depart(k) == here' = here \ {k} /\ all' = all \ {k} /\ UNCHANGED <<cursor, reading, rows>>

ListNext == EmptyPage \/ \E k \in Key : NextPage(k) \/ Arrive(k) \/ Depart(k)

ListSpec == ListInit /\ [][ListNext]_listVars

-----------------------------------------------------------------------------

\* At the end of the pages the reader has every item that was there all along, and
\* nothing twice, whatever came and went between two pages; until then it has those up
\* to the cursor (cmd_rule_list: "a deleted rule never shifts the next page";
\* devlist_page.h: a skipped device would be deleted from the cloud's cache).
PagesAreWhole ==
    /\ \A k \in Key : rows[k] <= 1
    /\ \A k \in all : rows[k] = 1 \/ (reading /\ k > cursor)

=============================================================================
