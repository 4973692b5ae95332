------------------------------ MODULE TableGrid ------------------------------
(***************************************************************************)
(* The result grid (VirtualTable) over QueryManager and the row store: its *)
(* filters and their debounce timers, sorting, the selection and the cell  *)
(* being edited, which are kept as row indexes, the statements it writes   *)
(* from them, and the queries that replace the rows meanwhile.             *)
(*                                                                         *)
(* One grid serves every tab: the row store keeps the rows of the query    *)
(* that answered last, while the filters, the base table and the source    *)
(* tables are read from the active tab.  A row is its table and its key; a *)
(* filter is the set of keys it keeps, so Blank keeps them all.  A query   *)
(* here is asked, answered, listened to, streams and ends: what it emits   *)
(* before its listener is registered is lost, its columns first.  Its      *)
(* handle and cancellation are in QueryRuntime.  An analysis of the agent  *)
(* is a query of no tab.  own, meant, crossed, sent, chosen and copied are *)
(* ghosts.                                                                 *)
(***************************************************************************)
EXTENDS Naturals, Sequences, FiniteSets, SequencesExt

CONSTANTS Tabs, Tables, None,
          Keys,         \* the primary keys of every table
          Texts,        \* filters a user types, as the keys they keep
          NullKeys,     \* the keys of the rows with NULL in the column
          Sorted,       \* how the database orders a set of keys
          RowLimit,     \* MAX_ROWS of the row store
          MaxGestures, MaxQueries

Order == {"none", "asc", "desc"}

ASSUME GridAssumption ==
    /\ None \notin Tables /\ None \notin Tabs
    /\ NullKeys \subseteq Keys /\ Texts \subseteq SUBSET Keys
    /\ Sorted \in [SUBSET Keys -> [Order -> Seq(Keys)]]
    /\ RowLimit \in Nat \ {0} /\ MaxGestures \in Nat /\ MaxQueries \in Nat

VARIABLES
    active,     \* activeTabId
    view,       \* tab -> queryView
    results,    \* tab -> queryResults, or None
    rows, columns, streaming,   \* the row store
    queries,    \* the queries in flight, oldest first
    timers,     \* the texts waiting for their debounce, at most one of each
    edit,       \* editingCell, with the row it was opened on
    selected, last,     \* selectedRows, lastSelectedRef
    writing,    \* statements of the grid being executed
    gestures,
    own, meant, crossed, sent, chosen, copied

store == <<rows, columns, streaming>>
cursor == <<selected, last, chosen>>
vars == <<active, view, results, store, queries, timers, edit, cursor, writing,
          gestures, own, meant, crossed, sent, copied>>

Blank == Keys

DefaultView(base) ==
    [base |-> base, sort |-> "none", global |-> Blank, column |-> Blank,
     nulls |-> Blank]

Filters(v) == <<v.global, v.column, v.nulls>>

\* What the native side answers for a view: every filter of it and its order.
RowsOf(v) ==
    LET keys == Sorted[v.global \cap v.column \cap v.nulls][v.sort]
    IN  [i \in DOMAIN keys |-> [table |-> v.base, key |-> keys[i]]]

LastRows(s) == IF Len(s) > RowLimit THEN SubSeq(s, Len(s) - RowLimit + 1, Len(s))
                                    ELSE s

Init ==
    /\ active \in Tabs
    /\ view = [t \in Tabs |-> DefaultView(None)]
    /\ results = [t \in Tabs |-> None]
    /\ rows = <<>> /\ columns = None /\ streaming = FALSE
    /\ queries = <<>>
    /\ timers = [global |-> {}, column |-> {}]
    /\ edit = None
    /\ selected = {} /\ last = None /\ chosen = {}
    /\ writing = 0 /\ gestures = 0
    /\ own = FALSE /\ crossed = FALSE /\ sent = None /\ copied = None
    /\ meant = [t \in Tabs |-> Filters(DefaultView(None))]

----------------------------------------------------------------------------
\* The renders that follow a change.

Shown == view[active]

\* The grid draws its bars once it has columns or rows, or waits for them.
Drawn == columns # None \/ rows # <<>> \/ streaming

\* The input of the cell being edited is drawn with its row and column; a click
\* elsewhere commits it first.
InputOpen == edit # None /\ columns # None /\ edit.row \in DOMAIN rows

Gesture == /\ gestures < MaxGestures
           /\ gestures' = gestures + 1

CanAsk == Len(queries) < MaxQueries

\* Mutant: the selection outlives the columns.
RenderKeepsSelection(r, c, s) ==
    LET hydrates == ~s /\ r = <<>> /\ results'[active'] # None
    IN  /\ rows' = IF hydrates THEN results'[active'].rows ELSE r
        /\ columns' = IF hydrates THEN results'[active'].fields ELSE c
        /\ streaming' = s
        /\ UNCHANGED <<selected, last, chosen>>

\* A row store that is empty and idle is filled from the active tab's results;
\* the selection goes when the columns change.
Render(r, c, s) ==
    LET hydrates == /\ ~s /\ r = <<>>
                    /\ results'[active'] # None
                    /\ results'[active'].rows # <<>>
    IN  /\ rows' = IF hydrates THEN results'[active'].rows ELSE r
        /\ columns' = IF hydrates THEN results'[active'].fields ELSE c
        /\ streaming' = s
        /\ IF columns' # columns
             THEN /\ selected' = {} /\ last' = None /\ chosen' = {}
             ELSE /\ UNCHANGED <<selected, last>>
                  /\ chosen' = IF r = rows \/ IsPrefix(rows, r) THEN chosen ELSE None

\* The cell being edited may no longer be on the row it was opened on.
Unsure == IF edit = None THEN None ELSE [edit EXCEPT !.sure = FALSE]

----------------------------------------------------------------------------
\* QueryManager.

\* head tells whether the columns are due, heard or lost; brings are the rows that
\* reach the listener, left those still to come.
Query(t, v, base) ==
    [tab |-> t, view |-> v, base |-> base, answered |-> FALSE, listening |-> FALSE,
     late |-> FALSE, head |-> "due", brings |-> RowsOf(v), left |-> RowsOf(v)]

\* Mutant: the query is built before the view is updated.
SetViewLate(v) ==
    /\ CanAsk
    /\ view' = [view EXCEPT ![active] = v]
    /\ queries' = IF v.base = None THEN queries
                  ELSE Append(queries, Query(active, Shown, FALSE))

\* Every change of the view of the active tab runs it again.
SetView(v) ==
    /\ CanAsk
    /\ view' = [view EXCEPT ![active] = v]
    /\ queries' = IF v.base = None THEN queries
                  ELSE Append(queries, Query(active, v, FALSE))

WithFilter(v, text) ==
    [v EXCEPT !.global = text, !.column = Blank, !.nulls = Blank]
WithColumnFilter(v, text) ==
    [v EXCEPT !.global = Blank, !.column = text, !.nulls = Blank]
WithNullFilter(v) ==
    [v EXCEPT !.global = Blank, !.column = Blank, !.nulls = NullKeys]
WithSort(v) ==
    [v EXCEPT !.sort = CASE v.sort = "none" -> "asc"
                         [] v.sort = "asc" -> "desc"
                         [] v.sort = "desc" -> "none"]

\* What the user asked of the filters of the active tab; the debounce of another
\* text is still running when it is not among idle.
Means(v, idle) ==
    /\ meant' = [meant EXCEPT ![active] = Filters(v)]
    /\ crossed' = (crossed \/ \E k \in DOMAIN timers \ idle : timers[k] # {})

EditorKept == UNCHANGED <<active, results, store, edit, cursor, writing, own, sent,
                          copied>>

\* Mutant: a text typed while the timer runs does not restart it.
TypeFilterThrottled(text) ==
    /\ Drawn /\ ~InputOpen /\ Gesture
    /\ timers' = [timers EXCEPT !.global = IF @ = {} THEN {text} ELSE @]
    /\ Means(WithFilter(Shown, text), {"global"})
    /\ UNCHANGED <<view, queries>> /\ EditorKept

TypeFilter(text) ==
    /\ Drawn /\ ~InputOpen /\ Gesture
    /\ timers' = [timers EXCEPT !.global = {text}]
    /\ Means(WithFilter(Shown, text), {"global"})
    /\ UNCHANGED <<view, queries>> /\ EditorKept

FilterTimer ==
    /\ \E text \in timers.global : SetView(WithFilter(Shown, text))
    /\ timers' = [timers EXCEPT !.global = {}]
    /\ UNCHANGED <<meant, crossed, gestures>> /\ EditorKept

TypeColumnFilter(text) ==
    /\ columns # None /\ ~InputOpen /\ Gesture
    /\ timers' = [timers EXCEPT !.column = {text}]
    /\ Means(WithColumnFilter(Shown, text), {"column"})
    /\ UNCHANGED <<view, queries>> /\ EditorKept

ColumnTimer ==
    /\ \E text \in timers.column : SetView(WithColumnFilter(Shown, text))
    /\ timers' = [timers EXCEPT !.column = {}]
    /\ UNCHANGED <<meant, crossed, gestures>> /\ EditorKept

\* The gestures that change the view at once; no timer is stopped.
ChangeView(v) ==
    /\ Drawn /\ ~InputOpen /\ Gesture
    /\ SetView(v)
    /\ UNCHANGED timers /\ EditorKept

\* The cross of the filter box, drawn while the box has a text.
ClearFilter ==
    /\ timers.global \ {Blank} # {} \/ Shown.global # Blank \/ Shown.nulls # Blank
    /\ ChangeView(WithFilter(Shown, Blank))
    /\ Means(WithFilter(Shown, Blank), {})

ClearColumnFilter ==
    /\ columns # None
    /\ ChangeView(WithColumnFilter(Shown, Blank))
    /\ Means(WithColumnFilter(Shown, Blank), {})

HideColumnFilters ==
    /\ rows # <<>> /\ ~streaming
    /\ ChangeView([Shown EXCEPT !.column = Blank])
    /\ Means([Shown EXCEPT !.column = Blank], {})

SetNullFilter ==
    /\ columns # None
    /\ ChangeView(WithNullFilter(Shown))
    /\ Means(WithNullFilter(Shown), {})

ToggleSort ==
    /\ columns # None
    /\ ChangeView(WithSort(Shown))
    /\ UNCHANGED <<meant, crossed>>

----------------------------------------------------------------------------
\* Queries and tabs.

\* A query of the editor or the agent: the view of the active tab starts over.
RunQuery(table) ==
    /\ CanAsk /\ Gesture
    /\ LET v == DefaultView(table)
       IN  /\ view' = [view EXCEPT ![active] = v]
           /\ queries' = Append(queries, Query(active, v, TRUE))
           /\ Means(v, {})
    /\ edit' = Unsure
    /\ UNCHANGED <<active, results, store, timers, cursor, writing, own, sent, copied>>

\* The agent analyses the tables it imported, in a query of no tab.
RunAnalysis(table) ==
    /\ CanAsk /\ Gesture
    /\ queries' = Append(queries, Query(None, DefaultView(table), FALSE))
    /\ UNCHANGED <<view, timers, meant, crossed>> /\ EditorKept

\* Nothing but an empty row store follows the tab.
SetActiveTab(t) ==
    /\ t # active /\ Gesture
    /\ active' = t /\ results' = results
    /\ Render(rows, columns, streaming)
    /\ edit' = Unsure /\ own' = FALSE
    /\ crossed' = (crossed \/ \E k \in DOMAIN timers : timers[k] # {})
    /\ UNCHANGED <<view, queries, timers, writing, meant, sent, copied>>

QueriesKept == UNCHANGED <<active, view, timers, writing, gestures, meant, crossed,
                           sent, copied>>

\* The queries asked before the i-th, which answers or fails first, are late.
Overtaken(i) ==
    [j \in DOMAIN queries |-> [queries[j] EXCEPT !.late = @ \/ j < i]]

\* The start of a query is acknowledged: the row store starts over.
Answer(i) ==
    LET q == queries[i]
    IN  /\ ~q.answered
        /\ queries' = [Overtaken(i) EXCEPT ![i].answered = TRUE]
        /\ results' = results /\ active' = active
        /\ Render(<<>>, None, TRUE)
        /\ edit' = Unsure
        /\ own' = (/\ ~q.late /\ q.tab = active
                   /\ \A j \in DOMAIN queries \ {i} : ~queries[j].answered)
        /\ QueriesKept

\* Its listener is registered.  What was emitted since the start is lost, unless that is
\* nothing: the columns and some rows.
Listens(i, lost, n) ==
    LET q == queries[i]
        after == SubSeq(q.left, n + 1, Len(q.left))
    IN  /\ q.answered /\ ~q.listening
        /\ n > 0 => lost
        /\ queries' = [queries EXCEPT
             ![i] = [q EXCEPT !.listening = TRUE, !.head = IF lost THEN "lost" ELSE "due",
                              !.brings = after, !.left = after]]
        /\ own' = (own /\ ~lost)
        /\ UNCHANGED <<results, store, cursor, edit>>
        /\ QueriesKept

\* It has ended before its listener is registered: nobody hears of it, and the row store
\* goes on to stream.
EndsUnheard(i) ==
    /\ queries[i].answered /\ ~queries[i].listening
    /\ queries' = RemoveAt(queries, i)
    /\ own' = FALSE
    /\ UNCHANGED <<results, store, cursor, edit>>
    /\ QueriesKept

\* The first batch names the columns, unless the store has columns.
Heads(i) ==
    LET q == queries[i]
    IN  /\ q.listening /\ q.head = "due"
        /\ queries' = [queries EXCEPT ![i].head = "heard"]
        /\ results' = results /\ active' = active
        /\ Render(rows, IF columns = None THEN q.view.base ELSE columns, streaming)
        /\ UNCHANGED <<own, edit>>
        /\ QueriesKept

\* Its listener appends a batch of n rows; the last one stores the results, an
\* editor's query with the tab that is active by then, an analysis nowhere.  An answer
\* without rows may come without columns.
Batch(i, n) ==
    LET q == queries[i]
        final == n = Len(q.left)
        all == rows \o SubSeq(q.left, 1, n)
    IN  /\ q.listening /\ (q.head # "due" \/ q.left = <<>>)
        /\ queries' = IF final THEN RemoveAt(queries, i)
                      ELSE [queries EXCEPT ![i].left = SubSeq(@, n + 1, Len(@))]
        /\ results' = IF final /\ q.tab # None
             THEN [results EXCEPT ![IF q.base THEN active ELSE q.tab] =
                     [table |-> q.view.base, rows |-> q.brings,
                      fields |-> IF q.head = "heard" THEN q.view.base ELSE None]]
             ELSE results
        /\ active' = active
        /\ Render(LastRows(all), columns, streaming /\ ~final)
        /\ UNCHANGED <<own, edit>>
        /\ QueriesKept

\* It never starts, or ends in an error or a time-out; rows that came stay.  The store is
\* made idle, but for an analysis that does not start and for what only the caller hears.
Fail(i, finalizes) ==
    LET q == queries[i]
    IN  /\ q.answered => q.listening /\ finalizes
        /\ q.tab = None /\ ~q.answered => ~finalizes
        /\ queries' = RemoveAt(Overtaken(i), i)
        /\ results' = results /\ active' = active
        /\ Render(rows, columns, streaming /\ ~finalizes)
        /\ own' = FALSE
        /\ edit' = Unsure
        /\ QueriesKept

\* The agent cancels, or gives up a query that has not started: only the row store is made
\* idle, whatever is in flight.
CancelQuery ==
    /\ streaming /\ Gesture
    /\ results' = results /\ active' = active
    /\ Render(rows, columns, FALSE)
    /\ own' = FALSE
    /\ edit' = Unsure
    /\ UNCHANGED <<view, queries, timers, writing, meant, crossed, sent, copied>>

----------------------------------------------------------------------------
\* Selection, cell editing and the statements written from them.

GridKept == UNCHANGED <<active, view, results, store, queries, timers, own, meant,
                        crossed>>

\* The rows behind a set of indexes; an index without a row gives none.
RowsAt(s) == {rows[i] : i \in s \cap DOMAIN rows}

Select(s, anchor) ==
    /\ Gesture
    /\ selected' = s /\ last' = anchor
    /\ chosen' = RowsAt(s)
    /\ GridKept /\ UNCHANGED <<edit, writing, sent, copied>>

ClickRow(i) ==
    /\ ~InputOpen
    /\ Select({i}, i)

CtrlClickRow(i) ==
    /\ ~InputOpen
    /\ Select(IF i \in selected THEN selected \ {i} ELSE selected \cup {i}, i)

ShiftClickRow(i) ==
    /\ ~InputOpen /\ last # None
    /\ Select(selected \cup (last .. i) \cup (i .. last), last)

\* The arrow and page keys; a page leaves the anchor, and without rows the index
\* is of none.
MoveTo(i, anchor) ==
    /\ edit = None /\ (i = 0 <=> rows = <<>>)
    /\ Select({i}, anchor)

\* Mutant: a cell is opened while rows stream in.
DoubleClickAnytime(i) ==
    /\ columns # None /\ ~InputOpen /\ Gesture
    /\ edit' = [row |-> i, on |-> rows[i], sure |-> own /\ columns = Shown.base]
    /\ GridKept /\ UNCHANGED <<cursor, writing, sent, copied>>

DoubleClick(i) ==
    /\ columns # None /\ ~streaming /\ ~InputOpen /\ Gesture
    /\ edit' = [row |-> i, on |-> rows[i], sure |-> own /\ columns = Shown.base]
    /\ GridKept /\ UNCHANGED <<cursor, writing, sent, copied>>

CancelEdit ==
    /\ InputOpen
    /\ edit' = None
    /\ GridKept /\ UNCHANGED <<cursor, writing, gestures, sent, copied>>

\* The base table of the active tab, the key of the row now at the index.
CommitEdit ==
    /\ InputOpen
    /\ edit' = None
    /\ IF Shown.base = None
         THEN UNCHANGED <<writing, sent>>
         ELSE /\ writing' = writing + 1
              /\ sent' = [on |-> edit.on, sure |-> edit.sure,
                          at |-> [table |-> Shown.base, key |-> rows[edit.row].key]]
    /\ GridKept /\ UNCHANGED <<cursor, gestures, copied>>

InsertRow ==
    /\ rows # <<>> /\ ~streaming /\ ~InputOpen /\ Gesture
    /\ Shown.base # None
    /\ writing' = writing + 1
    /\ GridKept /\ UNCHANGED <<cursor, edit, sent, copied>>

\* A statement done refreshes the tab that is active by then.
WriteDone ==
    /\ writing > 0 /\ writing' = writing - 1
    /\ SetView(Shown)
    /\ UNCHANGED <<timers, gestures, meant, crossed>>
    /\ UNCHANGED <<active, results, store, edit, cursor, own, sent, copied>>

WriteFails ==
    /\ writing > 0 /\ writing' = writing - 1
    /\ GridKept /\ UNCHANGED <<edit, cursor, gestures, sent, copied>>

\* The source table of the active tab's results, the keys of the rows now selected.
DeleteSelected ==
    /\ selected # {} /\ edit = None
    /\ results[active] # None /\ columns # None
    /\ copied' = [of |-> chosen, sure |-> own /\ ~streaming /\ chosen # None,
                  at |-> {[r EXCEPT !.table = results[active].table] :
                            r \in RowsAt(selected)}]
    /\ GridKept /\ UNCHANGED <<cursor, edit, writing, gestures, sent>>

Next ==
    \/ \E text \in Texts : TypeFilter(text) \/ TypeColumnFilter(text)
    \/ FilterTimer \/ ColumnTimer
    \/ ClearFilter \/ ClearColumnFilter \/ HideColumnFilters
    \/ SetNullFilter \/ ToggleSort
    \/ \E table \in Tables : RunQuery(table) \/ RunAnalysis(table)
    \/ \E t \in Tabs : SetActiveTab(t)
    \/ \E i \in DOMAIN queries :
          \/ Answer(i) \/ EndsUnheard(i) \/ Heads(i)
          \/ \E finalizes \in BOOLEAN : Fail(i, finalizes)
          \/ \E lost \in BOOLEAN, n \in 0..Len(queries[i].left) : Listens(i, lost, n)
          \/ \E n \in 0..Len(queries[i].left) :
                /\ n = 0 => queries[i].left = <<>>
                /\ Batch(i, n)
    \/ \E i \in DOMAIN rows :
          ClickRow(i) \/ CtrlClickRow(i) \/ ShiftClickRow(i) \/ DoubleClick(i)
    \/ \E i \in DOMAIN rows \cup {0} : MoveTo(i, i) \/ MoveTo(i, last)
    \/ CancelEdit \/ CommitEdit \/ InsertRow \/ WriteDone \/ WriteFails
    \/ DeleteSelected \/ CancelQuery

Spec == Init /\ [][Next]_vars

----------------------------------------------------------------------------
Settled == queries = <<>> /\ \A k \in DOMAIN timers : timers[k] = {}

\* An edited cell updates the table and the key of the row that was double-clicked
\* (VirtualTable.tsx 1028), whatever answered meanwhile, unless the rows or the tab
\* were changed while it was edited or were not the tab's own to begin with: the
\* index is then read in other rows, the table in another view, and nothing tells.
EditsHitTheirRow == sent # None => (sent.sure => sent.at = sent.on)

\* The DELETE copied for the selected rows names just the rows that were selected
\* (VirtualTable.tsx 894): an order or a filter asked since has cleared the selection,
\* "clear selection on new result set" (934).  It may name others when the rows are
\* not the tab's, are still streaming, or slid in a full row store.
DeleteNamesSelection == copied # None => (copied.sure => copied.at = copied.of)

\* Once nothing is pending the rows are those of the view the bars show, filters and
\* order included, for every sequence of filters, sorts and runs, unless a batch came
\* before the listener of its query (QueryManager.ts 169), answers came in another order
\* than they were asked (161), streams were mixed, a query failed, the tab was changed or
\* the agent replaced the rows by an analysis (registerHandlers.ts 1085) or cancelled.
RowsFollowView == own /\ Settled => rows = LastRows(RowsOf(Shown))

\* Once no text waits for its debounce, the filters of every tab are those its user
\* asked last, unless something else was asked while a text waited: no cross, run or
\* change of tab stops its timer (VirtualTable.tsx 980-991), which then filters the tab
\* that is active or brings the cleared text back.
LastFilterWins ==
    (\A k \in DOMAIN timers : timers[k] = {}) /\ ~crossed =>
        \A t \in Tabs : Filters(view[t]) = meant[t]
==============================================================================
