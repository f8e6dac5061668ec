----------------------------- MODULE ListPaging -----------------------------
(***************************************************************************)
(* Keyset paging, newest first: the lists of questions, messages, events,  *)
(* call sessions and the audit trail (lib/cursor.ts and their routes), and *)
(* the outstanding push work that a worker is told of when it connects and *)
(* the sweeper repeats (lib/ai/push-work.ts).  A walk reads one page after *)
(* another while rows are created, removed and superseded.  The rows of    *)
(* push work come from two tables, read by statements of their own; a row  *)
(* whose transcription is no longer the newest is dropped after the page   *)
(* has been cut.                                                           *)
(***************************************************************************)
EXTENDS Integers, FiniteSets

CONSTANTS
    Ids,        \* ids of rows, as numbers: only their order counts
    MaxStamp,   \* bound on createdAt; rows may share one
    Limit       \* rows of a page

ASSUME PagingAssumption ==
    /\ Ids \subseteq Nat /\ IsFiniteSet(Ids)
    /\ MaxStamp \in Nat /\ Limit \in Nat \ {0}

VARIABLES
    rows,       \* the rows of both tables: [table, id, stamp, superseded]
    walk,       \* the walk: kind, tables, cursors, and the page being read
    steady,     \* keys of the rows it has had to report ever since it began
    told,       \* those of them it reported
    twice       \* those of them it reported again

pagingVars == <<rows, walk, steady, told, twice>>

Tables == {"translation", "moderation"}
Rows == [table : Tables, id : Ids, stamp : 1 .. MaxStamp, superseded : BOOLEAN]
KeyOf(r) == <<r.table, r.id>>
NoCursor == [stamp |-> MaxStamp + 1, id |-> 0]

(* A list has one table, here the first; push work those whose provider is *)
(* "push".                                                                 *)
Walks == {w \in [kind : {"list", "replay", "sweep"}, over : SUBSET Tables \ {{}}] :
              w.kind = "list" => w.over = {"translation"}}

(* The rows of the tables that the walk reads, and those it must report.   *)
Read == {r \in Rows : r.table \in walk.over}
Owed(r) == walk.kind = "list" \/ ~r.superseded

PagingInit ==
    /\ \E w \in Walks :
          walk = [kind |-> w.kind, over |-> w.over, todo |-> w.over, found |-> {},
                  cursor |-> [s \in w.over |-> NoCursor], at |-> "reading"]
    /\ rows \in {S \in SUBSET Read : \A r, q \in S : KeyOf(r) = KeyOf(q) => r = q}
    /\ steady = {KeyOf(r) : r \in {q \in rows : Owed(q)}}
    /\ told = {} /\ twice = {}

-----------------------------------------------------------------------------
(* The rows change while the walk is under way.                            *)

Lost(k) ==
    /\ steady' = steady \ {k} /\ told' = told \ {k} /\ twice' = twice \ {k}
    /\ UNCHANGED walk

InsertRow(r) ==
    /\ ~r.superseded
    /\ \A q \in rows : KeyOf(q) # KeyOf(r)
    /\ rows' = rows \cup {r}
    /\ UNCHANGED <<walk, steady, told, twice>>

(* The row is deleted, or no longer matches what the query asks for.       *)
RemoveRow(r) ==
    /\ rows' = rows \ {r}
    /\ Lost(KeyOf(r))

(* A newer transcription: a list still has the row.                        *)
SupersedeRow(r) ==
    /\ walk.kind # "list" /\ ~r.superseded
    /\ rows' = (rows \ {r}) \cup {[r EXCEPT !.superseded = TRUE]}
    /\ Lost(KeyOf(r))

-----------------------------------------------------------------------------
(* A page.                                                                 *)

(* The tuple comparison of createdAtKeysetFromCursor and keysetWhere.      *)
Precedes(a, b) == a.stamp < b.stamp \/ (a.stamp = b.stamp /\ a.id < b.id)

RowsBeyond(s) == {r \in rows : r.table = s /\ Precedes(r, walk.cursor[s])}

(* orderBy createdAt, id, descending; the first n rows.                    *)
Ahead(a, b) == a.stamp > b.stamp \/ (a.stamp = b.stamp /\ a.id > b.id)
Newest(S, n) == {r \in S : Cardinality({q \in S : Ahead(q, r)}) < n}

Tell(keys) ==
    /\ told' = told \cup (keys \cap steady)
    /\ twice' = twice \cup (keys \cap steady \cap told)

CursorAfter(page) ==
    LET last == CHOOSE r \in page : \A q \in page : ~Ahead(r, q)
    IN  [stamp |-> last.stamp, id |-> last.id]

(* One row more than the page holds tells whether there is another page.   *)
ReadList ==
    /\ walk.kind = "list" /\ walk.at = "reading"
    /\ \E s \in walk.over :
          LET found == Newest(RowsBeyond(s), Limit + 1)
              items == Newest(found, Limit)
          IN  /\ Tell({KeyOf(r) : r \in items})
              /\ walk' = IF Cardinality(found) > Limit
                         THEN [walk EXCEPT !.cursor[s] = CursorAfter(items)]
                         ELSE [walk EXCEPT !.at = "done"]
    /\ UNCHANGED <<rows, steady>>

(* findOutstandingPushWorkPage: the translations, then the moderations.    *)
ReadTable(s) ==
    /\ walk.kind # "list" /\ walk.at = "reading" /\ s \in walk.todo
    /\ s = "moderation" => "translation" \notin walk.todo
    /\ LET found == Newest(RowsBeyond(s), Limit)
       IN  walk' = [walk EXCEPT !.todo = @ \ {s},
                                !.found = @ \cup {KeyOf(r) : r \in found},
                                !.cursor[s] = IF found = {} THEN @ ELSE CursorAfter(found)]
    /\ UNCHANGED <<rows, steady, told, twice>>

(* A full page of one table is enough to go on.                            *)
(* Mutant: the shorter table ends the walk. *)
HasMoreIfAllFull ==
    \A s \in walk.over : Cardinality({k \in walk.found : k[1] = s}) = Limit
HasMore == \E s \in walk.over : Cardinality({k \in walk.found : k[1] = s}) = Limit

(* The latest transcriptions are looked up and the superseded rows are     *)
(* dropped; the sweeper goes no further than the first page with work.     *)
TellWork ==
    /\ walk.kind # "list" /\ walk.at = "reading" /\ walk.todo = {}
    /\ LET work == walk.found \ {KeyOf(r) : r \in {q \in rows : q.superseded}}
       IN  /\ Tell(work)
           /\ walk' = [walk EXCEPT !.found = {}, !.todo = walk.over,
                          !.at = IF ~HasMore THEN "done"
                                 ELSE IF walk.kind = "sweep" /\ work # {} THEN "enough"
                                 ELSE "reading"]
    /\ UNCHANGED <<rows, steady>>

PagingNext ==
    \/ \E r \in Read : InsertRow(r)
    \/ \E r \in rows : RemoveRow(r) \/ SupersedeRow(r)
    \/ ReadList
    \/ \E s \in walk.over : ReadTable(s)
    \/ TellWork

PagingSpec == PagingInit /\ [][PagingNext]_pagingVars

-----------------------------------------------------------------------------
(* Properties.                                                             *)

(* A walk to the last page reports every row that was there, and owed, the *)
(* whole time exactly once, whatever came and went around it: no row is    *)
(* lost between two pages or behind a page of superseded work, and none is *)
(* repeated (the lists' cursors, replayOutstandingWork).  The sweeper      *)
(* finds nothing to do only when nothing was left.                         *)
WalkIsComplete == twice = {} /\ (walk.at = "done" => steady \subseteq told)
=============================================================================
