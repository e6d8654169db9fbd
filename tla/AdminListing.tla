----------------------------- MODULE AdminListing -----------------------------
(***************************************************************************)
(* The lists of the admin panel: transfers, audit events and admin actions *)
(* are read newest first, a page at a time, through a filter, while rows   *)
(* are added and changed.  The three handlers differ in how the cursor of  *)
(* the next page is read.  Only "Load more" and "Refresh" wait for the     *)
(* load at hand: a filter, a delete or a revoke starts another one.        *)
(***************************************************************************)
EXTENDS Integers, FiniteSets, Sequences, SequencesExt

CONSTANTS
    Listing,      \* the list: "transfers", "audit" or "actions"
    Ids,          \* row identifiers
    MaxTs,        \* timestamps are 1..MaxTs
    Filters,      \* what the filters can select, and what a row can be
    Limit,        \* limit, the rows of a page
    MaxShown,     \* bound: a view that shows so many rows loads no more
    Loads,        \* requests of the view that may be on their way
    None          \* no cursor

ASSUME ListingAssumption == Listing \in {"transfers", "audit", "actions"}
ASSUME BoundsAssumption == /\ Ids \subseteq Nat
                           /\ {MaxTs, Limit, MaxShown} \subseteq Nat \ {0}

VARIABLES
    table,        \* the committed rows
    kind,         \* what the filter looks at, of every row
    filter,       \* filters of the view
    shown,        \* rows of the view, in the order they are shown
    nextCursor,   \* nextCursor of the view
    loading,      \* loading of the view
    load,         \* the requests on their way
    shownFilter,  \* history: the filter the list was opened with,
    old,          \* ... the rows that have matched it since then,
    clean         \* ... and whether all loads since then ran alone, with it

listVars == <<table, kind, filter, shown, nextCursor, loading, load, shownFilter, old, clean>>

Row == [ts : 1..MaxTs, id : Ids]

(* A row is not the absence of one. *)
ASSUME NoneAssumption == None \notin Row

NoLoad == [at |-> "none", reset |-> TRUE, filter |-> None, cursor |-> None,
           page |-> <<>>, next |-> None, matched |-> {}, alone |-> TRUE]

ListInit ==
    /\ table \in SUBSET Row
    /\ IsFiniteSet(table)
    /\ \A r, s \in table : r.id = s.id => r = s
    /\ kind \in [Ids -> Filters]
    /\ filter \in Filters
    /\ shown = <<>>
    /\ nextCursor = None
    /\ loading = FALSE
    /\ load = [l \in Loads |-> NoLoad]
    /\ shownFilter = None
    /\ old = {}
    /\ clean = FALSE

-----------------------------------------------------------------------------
(* (ts, id) < (ts, id), the order of tuples in SQL. *)
Before(r, s) == r.ts < s.ts \/ (r.ts = s.ts /\ r.id < s.id)

(* Mutant: the row of the cursor is listed again. *)
Follows_Inclusive(r, c) == Before(r, c) \/ r = c

(* Mutant: the timestamp alone is compared. *)
Follows_TsOnly(r, c) == r.ts < c.ts

(***************************************************************************)
(* The condition on a row r that the cursor c adds to the query.           *)
(* _decode_cursor expects a UUID after the timestamp; the identifier of an *)
(* audit event is an integer, so its cursor is dropped.  The cursor of an  *)
(* admin action is a timestamp alone.                                      *)
(***************************************************************************)
Follows(r, c) ==
    CASE Listing = "transfers" -> Before(r, c)
      [] Listing = "audit"     -> TRUE
      [] Listing = "actions"   -> r.ts < c.ts

(***************************************************************************)
(* The query: newest first, at most Limit rows, and the cursor of the last *)
(* one when there are more.  The i-th row of a page is the one that has    *)
(* i - 1 newer ones.                                                       *)
(***************************************************************************)
Query(f, c) == {r \in table : kind[r.id] = f /\ (c # None => Follows(r, c))}

Newer(r, rows) == {s \in rows : Before(r, s)}

Page(rows) ==
    [i \in 1..Min({Limit, Cardinality(rows)}) |->
        CHOOSE r \in rows : Cardinality(Newer(r, rows)) = i - 1]

NextCursor(rows) == IF Cardinality(rows) > Limit THEN Last(Page(rows)) ELSE None

(***************************************************************************)
(* load() up to its await.                                                 *)
(***************************************************************************)
Start(l, reset, cursor) ==
    /\ load[l].at = "none"
    /\ loading' = TRUE
    /\ LET free == \A k \in Loads : load[k].at = "none"
       IN  load' = [k \in Loads |->
             IF k = l THEN [NoLoad EXCEPT !.at = "asked", !.reset = reset, !.filter = filter,
                                          !.cursor = cursor, !.alone = free]
             ELSE IF load[k].at = "none" THEN load[k]
             ELSE [load[k] EXCEPT !.alone = FALSE, !.matched = {}]]
    /\ UNCHANGED <<table, kind, filter, shown, nextCursor, shownFilter, old, clean>>

(***************************************************************************)
(* A select or an input with Enter, a delete, a revoke, opening the view.  *)
(***************************************************************************)
Reload(l) == Start(l, TRUE, None)

(***************************************************************************)
(* "Load more" is disabled without a cursor and while loading.             *)
(***************************************************************************)
LoadMore(l) ==
    /\ ~loading
    /\ nextCursor # None
    /\ Len(shown) < MaxShown
    /\ Start(l, FALSE, nextCursor)

(***************************************************************************)
(* The text fields change with every key, before Enter.                    *)
(***************************************************************************)
ChangeFilter(f) ==
    /\ filter' = f
    /\ UNCHANGED <<table, kind, shown, nextCursor, loading, load, shownFilter, old, clean>>

(***************************************************************************)
(* The handler runs the query.                                             *)
(***************************************************************************)
Serve(l) ==
    LET rows == Query(load[l].filter, load[l].cursor)
    IN  /\ load[l].at = "asked"
        /\ load' = [load EXCEPT ![l] =
               [@ EXCEPT !.at = "served", !.page = Page(rows), !.next = NextCursor(rows),
                         !.matched = IF load[l].reset /\ load[l].alone THEN rows ELSE {}]]
        /\ UNCHANGED <<table, kind, filter, shown, nextCursor, loading, shownFilter, old, clean>>

(***************************************************************************)
(* The answer arrives: load replaces the rows or appends to them.          *)
(***************************************************************************)
Answer(l) ==
    LET q == load[l]
    IN  /\ q.at = "served"
        /\ shown' = IF q.reset THEN q.page ELSE shown \o q.page
        /\ nextCursor' = q.next
        /\ clean' = (q.alone /\ (q.reset \/ (clean /\ q.filter = shownFilter)))
        /\ shownFilter' = IF clean' THEN q.filter ELSE None
        /\ old' = IF ~clean' THEN {} ELSE IF q.reset THEN q.matched ELSE old
        /\ loading' = FALSE
        /\ load' = [load EXCEPT ![l] = NoLoad]
        /\ UNCHANGED <<table, kind, filter>>

(***************************************************************************)
(* The request fails: the view stays as it is.                             *)
(***************************************************************************)
AnswerLost(l) ==
    /\ load[l].at # "none"
    /\ loading' = FALSE
    /\ load' = [load EXCEPT ![l] = NoLoad]
    /\ UNCHANGED <<table, kind, filter, shown, nextCursor, shownFilter, old, clean>>

(***************************************************************************)
(* A row is committed.  Its timestamp was taken before, so it may lie      *)
(* anywhere among the rows that are there.                                 *)
(***************************************************************************)
Insert(r) ==
    /\ \A s \in table : s.id # r.id
    /\ table' = table \cup {r}
    /\ UNCHANGED <<kind, filter, shown, nextCursor, loading, load, shownFilter, old, clean>>

(***************************************************************************)
(* A worker, a janitor or an admin changes what the filter looks at.       *)
(***************************************************************************)
Change(r, f) ==
    /\ kind[r.id] # f
    /\ kind' = [kind EXCEPT ![r.id] = f]
    /\ old' = old \ {r}
    /\ load' = [l \in Loads |-> [load[l] EXCEPT !.matched = @ \ {r}]]
    /\ UNCHANGED <<table, filter, shown, nextCursor, loading, shownFilter, clean>>

ListNext ==
    \/ \E l \in Loads : Reload(l) \/ LoadMore(l) \/ Serve(l) \/ Answer(l) \/ AnswerLost(l)
    \/ \E f \in Filters : ChangeFilter(f)
    \/ \E r \in Row : Insert(r)
    \/ \E r \in table, f \in Filters : Change(r, f)

ListSpec == ListInit /\ [][ListNext]_listVars

-----------------------------------------------------------------------------
(* No row is listed twice, also when rows are added, change and answers    *)
(* are lost between two pages, unless loads have overlapped or the filter  *)
(* was changed under "Load more"; a reload that runs alone mends the list. *)
EachRowOnce == clean => IsInjective(shown)

(* Every row that has matched the filter since the list was opened and is  *)
(* not older than the last one shown is shown, and at the end of the list  *)
(* all of them are (admin.py:76: two rows may share a timestamp, and none  *)
(* may be skipped), again once a reload has run alone.                     *)
NoRowSkipped ==
    clean => \A r \in old :
        \/ r \in ToSet(shown)
        \/ nextCursor # None /\ Before(r, Last(shown))

=============================================================================
