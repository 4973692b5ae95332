--------------------------- MODULE TableGridProofs ---------------------------
(***************************************************************************)
(* What the grid does to filters and rows, for any tabs, tables, texts,    *)
(* orders of the database, queries in flight, batches and gestures: the    *)
(* filters are those asked last, the rows those of the view, an edit and a *)
(* delete name the rows they were meant for.                               *)
(***************************************************************************)
EXTENDS TableGrid, TLAPS, SequenceTheorems

Table == Tables \cup {None}
Filter == SUBSET Keys
View == [base : Table, sort : Order, global : Filter, column : Filter, nulls : Filter]
Waiting == {{}} \cup {{text} : text \in Texts}

----------------------------------------------------------------------------
\* The last filter asked wins.

FiltersTyped ==
    /\ active \in Tabs
    /\ view \in [Tabs -> View]
    /\ meant \in [Tabs -> Filter \X Filter \X Filter]
    /\ timers \in [global : Waiting, column : Waiting]
    /\ crossed \in BOOLEAN

\* Unless something crossed a timer, the filters of every other tab are those meant, and
\* those of the active tab are, or will be once the only text that waits is applied.
FiltersMeant ==
    ~crossed =>
        /\ \A t \in Tabs \ {active} : meant[t] = Filters(view[t])
        /\ timers.global = {} /\ timers.column = {} => meant[active] = Filters(Shown)
        /\ \A x \in timers.global : timers.column = {} /\ meant[active] = <<x, Blank, Blank>>
        /\ \A x \in timers.column : timers.global = {} /\ meant[active] = <<Blank, x, Blank>>

FInv == FiltersTyped /\ FiltersMeant

filterState == <<active, view, meant, timers, crossed>>

\* Steps that touch no filter and no timer.
LEMMA FiltersStay == ASSUME FInv, UNCHANGED filterState PROVE FInv'
  BY DEF FInv, FiltersTyped, FiltersMeant, filterState, Filters, Shown

\* What the gestures make of a view is a view.
LEMMA ViewsTyped ==
    /\ \A base \in Table : DefaultView(base) \in View
    /\ \A v \in View, x \in Filter : /\ WithFilter(v, x) \in View
                                     /\ WithColumnFilter(v, x) \in View
                                     /\ [v EXCEPT !.column = Blank] \in View
    /\ \A v \in View : WithNullFilter(v) \in View /\ WithSort(v) \in View
  BY GridAssumption DEF DefaultView, View, WithFilter, WithColumnFilter, WithNullFilter,
     WithSort, Filter, Blank, Order

\* A text that is typed waits, alone unless it crosses another.
LEMMA TypeStep ==
    ASSUME FInv, NEW text \in Texts, TypeFilter(text) \/ TypeColumnFilter(text)
    PROVE  FInv'
  <1>1. text \in Filter /\ Shown \in View /\ Blank \in Filter
    BY GridAssumption DEF FInv, FiltersTyped, Shown, Filter, Blank
  <1>2. CASE TypeFilter(text)
    <2>1. /\ UNCHANGED <<active, view>>
          /\ timers' = [timers EXCEPT !.global = {text}]
          /\ meant' = [meant EXCEPT ![active] = <<text, Blank, Blank>>]
          /\ crossed' = (crossed \/ timers.column # {})
      BY <1>1, <1>2 DEF TypeFilter, Means, EditorKept, WithFilter, Filters, View, FInv,
         FiltersTyped
    <2>2. FiltersTyped'
      BY <1>1, <2>1 DEF FInv, FiltersTyped, Waiting
    <2>3. FiltersMeant'
      BY <2>1, <1>1 DEF FInv, FiltersTyped, FiltersMeant, Shown, Filters
    <2>4. QED  BY <2>2, <2>3 DEF FInv
  <1>3. CASE TypeColumnFilter(text)
    <2>1. /\ UNCHANGED <<active, view>>
          /\ timers' = [timers EXCEPT !.column = {text}]
          /\ meant' = [meant EXCEPT ![active] = <<Blank, text, Blank>>]
          /\ crossed' = (crossed \/ timers.global # {})
      BY <1>1, <1>3 DEF TypeColumnFilter, Means, EditorKept, WithColumnFilter, Filters,
         View, FInv, FiltersTyped
    <2>2. FiltersTyped'
      BY <1>1, <2>1 DEF FInv, FiltersTyped, Waiting
    <2>3. FiltersMeant'
      BY <2>1, <1>1 DEF FInv, FiltersTyped, FiltersMeant, Shown, Filters
    <2>4. QED  BY <2>2, <2>3 DEF FInv
  <1>4. QED  BY <1>2, <1>3

\* The timer applies the text that waited.
LEMMA TimerStep == ASSUME FInv, FilterTimer \/ ColumnTimer PROVE FInv'
  <1>1. Shown \in View /\ Blank \in Filter
    BY DEF FInv, FiltersTyped, Shown, Filter, Blank
  <1>2. CASE FilterTimer
    <2>1. PICK text \in timers.global : SetView(WithFilter(Shown, text))
      BY <1>2 DEF FilterTimer
    <2>2. text \in Filter /\ timers.global = {text}
      BY GridAssumption DEF FInv, FiltersTyped, Waiting, Filter
    <2>3. /\ WithFilter(Shown, text) \in View
          /\ Filters(WithFilter(Shown, text)) = <<text, Blank, Blank>>
      BY <1>1, <2>2, ViewsTyped DEF WithFilter, Filters, View
    <2>4. /\ view' = [view EXCEPT ![active] = WithFilter(Shown, text)]
          /\ timers' = [timers EXCEPT !.global = {}]
          /\ UNCHANGED <<active, meant, crossed>>
      BY <1>2, <2>1 DEF FilterTimer, SetView, EditorKept
    <2>5. FiltersTyped'
      BY <2>3, <2>4 DEF FInv, FiltersTyped, Waiting
    <2>6. FiltersMeant'
      BY <2>2, <2>3, <2>4 DEF FInv, FiltersTyped, FiltersMeant, Shown
    <2>7. QED  BY <2>5, <2>6 DEF FInv
  <1>3. CASE ColumnTimer
    <2>1. PICK text \in timers.column : SetView(WithColumnFilter(Shown, text))
      BY <1>3 DEF ColumnTimer
    <2>2. text \in Filter /\ timers.column = {text}
      BY GridAssumption DEF FInv, FiltersTyped, Waiting, Filter
    <2>3. /\ WithColumnFilter(Shown, text) \in View
          /\ Filters(WithColumnFilter(Shown, text)) = <<Blank, text, Blank>>
      BY <1>1, <2>2, ViewsTyped DEF WithColumnFilter, Filters, View
    <2>4. /\ view' = [view EXCEPT ![active] = WithColumnFilter(Shown, text)]
          /\ timers' = [timers EXCEPT !.column = {}]
          /\ UNCHANGED <<active, meant, crossed>>
      BY <1>3, <2>1 DEF ColumnTimer, SetView, EditorKept
    <2>5. FiltersTyped'
      BY <2>3, <2>4 DEF FInv, FiltersTyped, Waiting
    <2>6. FiltersMeant'
      BY <2>2, <2>3, <2>4 DEF FInv, FiltersTyped, FiltersMeant, Shown
    <2>7. QED  BY <2>5, <2>6 DEF FInv
  <1>4. QED  BY <1>2, <1>3

\* A view that is changed at once is the one meant, unless a text waits.
LEMMA MeantAtOnce ==
    ASSUME FInv, NEW v \in View, UNCHANGED <<active, timers>>,
           view' = [view EXCEPT ![active] = v], Means(v, {})
    PROVE  FInv'
  <1>1. /\ meant' = [meant EXCEPT ![active] = Filters(v)]
        /\ Filters(v) \in Filter \X Filter \X Filter
        /\ crossed' = (crossed \/ timers.global # {} \/ timers.column # {})
    BY DEF Means, Filters, View, FInv, FiltersTyped
  <1>2. FiltersTyped'
    BY <1>1 DEF FInv, FiltersTyped
  <1>3. FiltersMeant'
    BY <1>1 DEF FInv, FiltersTyped, FiltersMeant, Shown
  <1>4. QED  BY <1>2, <1>3 DEF FInv

\* A gesture that asks something while a text waits crosses it.
LEMMA GestureStep ==
    ASSUME FInv, \/ ClearFilter \/ ClearColumnFilter \/ HideColumnFilters \/ SetNullFilter
                 \/ \E table \in Tables : RunQuery(table)
    PROVE  FInv'
  <1>1. Shown \in View /\ Blank \in Filter
    BY DEF FInv, FiltersTyped, Shown, Filter, Blank
  <1>2. CASE ClearFilter
    BY <1>1, <1>2, ViewsTyped, MeantAtOnce DEF ClearFilter, ChangeView, SetView, EditorKept
  <1>3. CASE ClearColumnFilter
    BY <1>1, <1>3, ViewsTyped, MeantAtOnce
    DEF ClearColumnFilter, ChangeView, SetView, EditorKept
  <1>4. CASE HideColumnFilters
    BY <1>1, <1>4, ViewsTyped, MeantAtOnce
    DEF HideColumnFilters, ChangeView, SetView, EditorKept
  <1>5. CASE SetNullFilter
    BY <1>1, <1>5, ViewsTyped, MeantAtOnce DEF SetNullFilter, ChangeView, SetView, EditorKept
  <1>6. ASSUME NEW table \in Tables, RunQuery(table) PROVE FInv'
    BY <1>6, ViewsTyped, MeantAtOnce DEF RunQuery, Table
  <1>7. QED  BY <1>2, <1>3, <1>4, <1>5, <1>6

\* An order changes no filter.
LEMMA SortStep ==
    ASSUME FInv, NEW v \in View, Filters(v) = Filters(Shown),
           view' = [view EXCEPT ![active] = v], UNCHANGED <<active, timers, meant, crossed>>
    PROVE  FInv'
  BY DEF FInv, FiltersTyped, FiltersMeant, Shown

\* A change of tab while a text waits crosses it.
LEMMA SwitchStep == ASSUME FInv, NEW t \in Tabs, SetActiveTab(t) PROVE FInv'
  <1>1. /\ active' = t /\ UNCHANGED <<view, timers, meant>>
        /\ crossed' = (crossed \/ timers.global # {} \/ timers.column # {})
    BY DEF SetActiveTab, FInv, FiltersTyped
  <1>2. QED
    BY <1>1 DEF FInv, FiltersTyped, FiltersMeant, Shown

\* A statement that is done asks for the same view again.
LEMMA RefreshStep == ASSUME FInv, WriteDone PROVE FInv'
  <1>1. Shown \in View
    BY DEF FInv, FiltersTyped, Shown
  <1>2. QED
    BY <1>1, SortStep DEF WriteDone, SetView

\* At the start no filter is meant.
LEMMA InitFInv == Init => FInv
  <1> SUFFICES ASSUME Init PROVE FInv
    OBVIOUS
  <1>1. FiltersTyped
    BY ViewsTyped DEF Init, FiltersTyped, Table, Filter, Blank, Filters, DefaultView,
       Waiting, View
  <1>2. FiltersMeant
    BY DEF Init, FiltersMeant, Shown, Filters, DefaultView
  <1>3. QED  BY <1>1, <1>2 DEF FInv

\* Every step keeps the invariant.
LEMMA NextFInv == FInv /\ [Next]_vars => FInv'
  <1> SUFFICES ASSUME FInv, [Next]_vars PROVE FInv'
    OBVIOUS
  <1>1. ASSUME NEW text \in Texts, TypeFilter(text) \/ TypeColumnFilter(text) PROVE FInv'
    BY <1>1, TypeStep
  <1>2. CASE FilterTimer \/ ColumnTimer
    BY <1>2, TimerStep
  <1>3. CASE ClearFilter \/ ClearColumnFilter \/ HideColumnFilters \/ SetNullFilter
    BY <1>3, GestureStep
  <1>4. CASE ToggleSort
    <2>1. Shown \in View /\ WithSort(Shown) \in View
      BY ViewsTyped DEF FInv, FiltersTyped, Shown
    <2>2. Filters(WithSort(Shown)) = Filters(Shown)
      BY <2>1 DEF Filters, WithSort, View
    <2>3. QED
      BY <1>4, <2>1, <2>2, SortStep DEF ToggleSort, ChangeView, SetView, EditorKept
  <1>5. ASSUME NEW table \in Tables, RunQuery(table) PROVE FInv'
    BY <1>5, GestureStep
  <1>6. ASSUME NEW t \in Tabs, SetActiveTab(t) PROVE FInv'
    BY <1>6, SwitchStep
  <1>7. ASSUME NEW i \in DOMAIN queries,
               \/ Answer(i) \/ EndsUnheard(i) \/ Heads(i)
               \/ \E finalizes \in BOOLEAN : Fail(i, finalizes)
               \/ \E lost \in BOOLEAN, n \in 0..Len(queries[i].left) : Listens(i, lost, n)
               \/ \E n \in 0..Len(queries[i].left) : Batch(i, n)
        PROVE  FInv'
    <2>1. UNCHANGED filterState
      BY <1>7 DEF Answer, EndsUnheard, Heads, Fail, Listens, Batch, QueriesKept, filterState
    <2>2. QED  BY <2>1, FiltersStay
  <1>8. ASSUME NEW i \in DOMAIN rows \cup {0},
               \/ ClickRow(i) \/ CtrlClickRow(i) \/ ShiftClickRow(i) \/ DoubleClick(i)
               \/ MoveTo(i, i) \/ MoveTo(i, last)
        PROVE  FInv'
    <2>1. UNCHANGED filterState
      BY <1>8 DEF ClickRow, CtrlClickRow, ShiftClickRow, DoubleClick, MoveTo, Select,
         GridKept, filterState
    <2>2. QED  BY <2>1, FiltersStay
  <1>9. CASE CancelEdit \/ CommitEdit \/ InsertRow \/ WriteFails \/ DeleteSelected
    <2>1. UNCHANGED filterState
      BY <1>9 DEF CancelEdit, CommitEdit, InsertRow, WriteFails, DeleteSelected, GridKept,
         filterState
    <2>2. QED  BY <2>1, FiltersStay
  <1>10. CASE WriteDone
    BY <1>10, RefreshStep
  <1>11. CASE UNCHANGED vars
    BY <1>11, FiltersStay DEF vars, filterState
  <1>12. CASE CancelQuery \/ \E table \in Tables : RunAnalysis(table)
    <2>1. UNCHANGED filterState
      BY <1>12 DEF CancelQuery, RunAnalysis, EditorKept, filterState
    <2>2. QED  BY <2>1, FiltersStay
  <1>13. QED
    BY <1>1, <1>2, <1>3, <1>4, <1>5, <1>6, <1>7, <1>8, <1>9, <1>10, <1>11, <1>12 DEF Next

\* Without a text that waits, what was meant is what is filtered.
LEMMA FInvSettles == FInv => LastFilterWins
  <1> SUFFICES ASSUME FInv, \A k \in DOMAIN timers : timers[k] = {}, ~crossed, NEW t \in Tabs
               PROVE  Filters(view[t]) = meant[t]
    BY DEF LastFilterWins
  <1>1. timers.global = {} /\ timers.column = {}
    BY DEF FInv, FiltersTyped
  <1>2. QED
    BY <1>1 DEF FInv, FiltersMeant, Shown

\* Whatever is typed, cleared, sorted, run or refreshed, in any number of tabs and with
\* any number of queries in flight: once no text waits, the filters of every tab are those
\* its user asked last, unless something else was asked while a text waited.
THEOREM FiltersSettle == Spec => []LastFilterWins
  <1>1. Init => FInv
    BY InitFInv
  <1>2. FInv /\ [Next]_vars => FInv'
    BY NextFInv
  <1>3. FInv => LastFilterWins
    BY FInvSettles
  <1>4. QED  BY <1>1, <1>2, <1>3, PTL DEF Spec

----------------------------------------------------------------------------
\* The rows and the queries that bring them.

Row == [table : Tables, key : Keys]
Result == [table : Tables, rows : Seq(Row), fields : Table]
Asked == [tab : Tabs \cup {None}, view : View, base : BOOLEAN, answered : BOOLEAN,
          listening : BOOLEAN, late : BOOLEAN, head : {"due", "heard", "lost"},
          brings : Seq(Row), left : Seq(Row)]

RowsTyped ==
    /\ queries \in Seq(Asked)
    /\ results \in [Tabs -> Result \cup {None}]
    /\ rows \in Seq(Row) /\ columns \in Table /\ streaming \in BOOLEAN /\ own \in BOOLEAN
    /\ edit # None => edit \in [row : Nat, on : Row, sure : BOOLEAN]

\* A query q, of which nothing was heard, is asked for the view of a tab, or of none.
Fresh(q) == q.head = "due" /\ q.brings = RowsOf(q.view) /\ q.left = RowsOf(q.view)
Based(q, v) == q.view.base \in Tables /\ (q.tab # None => v[q.tab].base \in Tables)

\* The queries s under the views v: a query is answered after those asked before it only
\* if they are late, and the last of a tab that is not late asks for the view of the tab.
InLine(s, v, i) ==
    /\ Based(s[i], v)
    /\ ~s[i].listening => Fresh(s[i])
    /\ s[i].answered => \A j \in 1 .. Len(s) : j < i => s[j].late
    /\ s[i].listening => s[i].answered
    /\ /\ s[i].tab # None /\ ~s[i].late
       /\ \A j \in 1 .. Len(s) : j > i => s[j].tab # s[i].tab
       => s[i].view = v[s[i].tab]
Line(s, v) == \A i \in 1 .. Len(s) : InLine(s, v, i)

\* An empty grid has nothing that was chosen.
Bare == rows = <<>> => chosen \in {{}, None}

\* The store w shows the last of the first m rows of an answer r, of which the others are
\* still to come.
Window(w, r, m) ==
    /\ Len(w) = IF m > RowLimit THEN RowLimit ELSE m
    /\ \A k \in 1 .. Len(w) : w[k] = r[m - Len(w) + k]
Rest(left, r, m) ==
    /\ Len(left) = Len(r) - m
    /\ \A k \in 1 .. Len(left) : left[k] = r[m + k]

\* The rows w under the columns c are those of a query of the tab t that streams.
Brings(q, t, w, c) ==
    /\ ~q.late /\ q.tab = t /\ q.brings = RowsOf(q.view)
    /\ \/ q.head = "due" /\ w = <<>> /\ c = None
       \/ q.head = "heard" /\ c = q.view.base
    /\ \E m \in 0 .. Len(RowsOf(q.view)) :
          Window(w, RowsOf(q.view), m) /\ Rest(q.left, RowsOf(q.view), m)
Streams(q) == streaming /\ Brings(q, active, rows, columns)

\* The rows are those of the view of the tab, or another query of the tab will answer.
Calm ==
    /\ ~streaming
    /\ results[active] # None /\ columns # None => results[active].table = columns
    /\ \/ \E k \in 1 .. Len(queries) : queries[k].tab = active
       \/ rows = LastRows(RowsOf(Shown))

\* The selection is of rows there are, and of those that were chosen.
Picked ==
    /\ selected \subseteq 0 .. Len(rows) /\ (last # None => last \in 0 .. Len(rows))
    /\ chosen # None => chosen = RowsAt(selected)

Sole(i) == \A j \in 1 .. Len(queries) : queries[j].answered => j = i

Owned ==
    own =>
        /\ Shown.base \in Tables
        /\ \A k \in 1 .. Len(rows) : rows[k].table = columns
        /\ columns # None => Picked
        /\ \A i \in 1 .. Len(queries) : queries[i].answered => Streams(queries[i]) /\ Sole(i)
        /\ (\A i \in 1 .. Len(queries) : ~queries[i].answered) => Calm

\* The cell that is edited is on the row it was opened on.
Edited ==
    edit # None /\ edit.sure =>
        /\ own /\ ~streaming /\ edit.row \in 1 .. Len(rows) /\ rows[edit.row] = edit.on
        /\ edit.on.table = Shown.base

GInv ==
    /\ RowsTyped /\ Line(queries, view) /\ Bare /\ Owned /\ Edited
    /\ EditsHitTheirRow /\ DeleteNamesSelection

----------------------------------------------------------------------------
\* Answers.

\* What the native side answers for a view are rows of its table.
LEMMA RowsOfView ==
    ASSUME NEW v \in View, v.base \in Tables
    PROVE  RowsOf(v) \in Seq(Row) /\ \A k \in 1 .. Len(RowsOf(v)) : RowsOf(v)[k].table = v.base
  <1>1. v.global \cap v.column \cap v.nulls \in SUBSET Keys /\ v.sort \in Order
    BY DEF View, Filter
  <1>2. PICK keys : keys = Sorted[v.global \cap v.column \cap v.nulls][v.sort]
    OBVIOUS
  <1>3. keys \in Seq(Keys)
    BY <1>1, <1>2, GridAssumption
  <1>4. Len(keys) \in Nat /\ DOMAIN keys = 1 .. Len(keys)
        /\ \A k \in 1 .. Len(keys) : keys[k] \in Keys
    BY <1>3
  <1>5. RowsOf(v) = [k \in 1 .. Len(keys) |-> [table |-> v.base, key |-> keys[k]]]
    BY <1>2, <1>4 DEF RowsOf
  <1>6. RowsOf(v) \in [1 .. Len(keys) -> Row]
    BY <1>4, <1>5 DEF Row
  <1>7. RowsOf(v) \in Seq(Row) /\ Len(RowsOf(v)) = Len(keys)
    BY <1>4, <1>6
  <1>8. QED  BY <1>5, <1>7

\* The last rows of a sequence.
LEMMA LastRowsAre ==
    ASSUME NEW all \in Seq(Row)
    PROVE  LET new == LastRows(all)
           IN  /\ new \in Seq(Row)
               /\ Len(new) = IF Len(all) > RowLimit THEN RowLimit ELSE Len(all)
               /\ \A k \in 1 .. Len(new) : new[k] = all[Len(all) - Len(new) + k]
  <1>1. RowLimit \in Nat /\ RowLimit >= 1 /\ Len(all) \in Nat
    BY GridAssumption
  <1>2. CASE Len(all) > RowLimit
    <2>1. Len(all) - RowLimit + 1 \in 1 .. Len(all) /\ LastRows(all) = SubSeq(all, Len(all) - RowLimit + 1, Len(all))
      BY <1>1, <1>2 DEF LastRows
    <2>2. PICK from : from = Len(all) - RowLimit + 1
      OBVIOUS
    <2>3. PICK part : part = SubSeq(all, from, Len(all))
      OBVIOUS
    <2>4. from \in 1 .. Len(all) /\ Len(all) - from + 1 = RowLimit
      BY <1>1, <2>1, <2>2
    <2>5. part \in Seq(Row) /\ Len(part) = Len(all) - from + 1
          /\ \A k \in 1 .. Len(part) : part[k] = all[from + k - 1]
      BY <1>1, <2>3, <2>4
    <2>6. \A k \in 1 .. Len(part) : from + k - 1 = Len(all) - Len(part) + k
      BY <1>1, <2>2, <2>4, <2>5
    <2>7. \A k \in 1 .. Len(part) : part[k] = all[Len(all) - Len(part) + k]
      BY <2>5, <2>6
    <2>8. LastRows(all) = part
      BY <2>1, <2>2, <2>3
    <2>9. Len(part) = RowLimit
      BY <2>4, <2>5
    <2>10. QED  BY <1>2, <2>5, <2>7, <2>8, <2>9
  <1>3. CASE ~ Len(all) > RowLimit
    <2>1. LastRows(all) = all
      BY <1>3 DEF LastRows
    <2>2. \A k \in 1 .. Len(all) : Len(all) - Len(all) + k = k
      BY <1>1
    <2>3. QED  BY <1>3, <2>1, <2>2
  <1>4. QED  BY <1>2, <1>3

\* The first n rows that are to come are appended to the store w, the others are left.
Appended(w, left, n, all, rest) ==
    /\ Len(all) = Len(w) + n
    /\ \A k \in 1 .. Len(w) : all[k] = w[k]
    /\ \A k \in 1 .. n : all[Len(w) + k] = left[k]
    /\ Len(rest) = Len(left) - n
    /\ \A k \in 1 .. Len(rest) : rest[k] = left[n + k]

With(w, left, n) == w \o SubSeq(left, 1, n)
Without(left, n) == SubSeq(left, n + 1, Len(left))

LEMMA BatchIs ==
    ASSUME NEW w \in Seq(Row), NEW left \in Seq(Row), NEW n \in 0 .. Len(left),
           NEW all, all = With(w, left, n), NEW rest, rest = Without(left, n)
    PROVE  all \in Seq(Row) /\ rest \in Seq(Row) /\ Appended(w, left, n, all, rest)
  <1>1. Len(w) \in Nat /\ Len(left) \in Nat /\ n \in Nat /\ n <= Len(left)
    OBVIOUS
  <1>2. PICK part : part = SubSeq(left, 1, n)
    OBVIOUS
  <1>3. part \in Seq(Row) /\ Len(part) = n /\ \A k \in 1 .. n : part[k] = left[k]
    BY <1>1, <1>2
  <1>4. /\ w \o part \in Seq(Row) /\ Len(w \o part) = Len(w) + n
        /\ \A k \in 1 .. Len(w) : (w \o part)[k] = w[k]
        /\ \A k \in 1 .. n : (w \o part)[Len(w) + k] = part[k]
    BY <1>1, <1>3
  <1>5. all = w \o part
    BY <1>2 DEF With
  <1>6. rest \in Seq(Row) /\ Len(rest) = Len(left) - n
        /\ \A k \in 1 .. Len(rest) : rest[k] = left[n + k]
    BY <1>1 DEF Without
  <1>7. QED  BY <1>3, <1>4, <1>5, <1>6 DEF Appended

\* A batch moves the window on.
LEMMA WindowMoves ==
    ASSUME NEW w \in Seq(Row), NEW left \in Seq(Row), NEW r \in Seq(Row),
           NEW m \in 0 .. Len(r), Window(w, r, m), Rest(left, r, m),
           NEW n \in 0 .. Len(left), NEW all \in Seq(Row), NEW rest \in Seq(Row),
           Appended(w, left, n, all, rest), NEW new, new = LastRows(all)
    PROVE  /\ m + n \in 0 .. Len(r) /\ Len(new) >= Len(w)
           /\ Window(new, r, m + n) /\ Rest(rest, r, m + n)
  <1>1. /\ RowLimit \in Nat /\ RowLimit >= 1 /\ Len(w) \in Nat /\ Len(left) \in Nat
        /\ Len(r) \in Nat /\ m \in Nat /\ n \in Nat /\ n <= Len(left) /\ m <= Len(r)
        /\ Len(left) = Len(r) - m
    BY GridAssumption DEF Rest
  <1>11. /\ Len(all) = Len(w) + n
         /\ \A k \in 1 .. Len(w) : all[k] = w[k]
         /\ \A k \in 1 .. n : all[Len(w) + k] = left[k]
         /\ Len(rest) = Len(left) - n
         /\ \A k \in 1 .. Len(rest) : rest[k] = left[n + k]
    BY DEF Appended
  <1>2. /\ new \in Seq(Row)
        /\ Len(new) = IF Len(all) > RowLimit THEN RowLimit ELSE Len(all)
        /\ \A k \in 1 .. Len(new) : new[k] = all[Len(all) - Len(new) + k]
    BY LastRowsAre
  <1>3. /\ Len(w) <= m /\ (m <= RowLimit => Len(w) = m) /\ (m > RowLimit => Len(w) = RowLimit)
        /\ \A k \in 1 .. Len(w) : w[k] = r[m - Len(w) + k]
    BY <1>1 DEF Window
  <1>4. ASSUME NEW k \in 1 .. Len(all) PROVE all[k] = r[m - Len(w) + k]
    <2>1. CASE k <= Len(w)
      BY <1>11, <1>1, <1>3, <2>1
    <2>2. CASE k > Len(w)
      <3>1. PICK j : j = k - Len(w)
        OBVIOUS
      <3>2. j \in 1 .. n /\ Len(w) + j = k /\ m + j = m - Len(w) + k /\ j \in 1 .. Len(left)
        BY <1>11, <1>1, <2>2, <3>1
      <3>3. all[k] = left[j] /\ left[j] = r[m + j]
        BY <1>11, <3>2 DEF Rest
      <3>4. QED  BY <3>2, <3>3
    <2>3. QED  BY <1>11, <1>1, <2>1, <2>2
  <1>5. Len(new) = IF m + n > RowLimit THEN RowLimit ELSE m + n
    <2>1. Len(all) = Len(w) + n /\ Len(all) \in Nat /\ m + n \in Nat
      BY <1>11, <1>1
    <2>2. CASE m <= RowLimit
      BY <1>1, <1>2, <1>3, <2>1, <2>2
    <2>3. CASE m > RowLimit
      BY <1>1, <1>2, <1>3, <2>1, <2>3
    <2>4. QED  BY <1>1, <2>2, <2>3
  <1>6. ASSUME NEW k \in 1 .. Len(new) PROVE new[k] = r[m + n - Len(new) + k]
    <2>1. PICK j : j = Len(all) - Len(new) + k
      OBVIOUS
    <2>2. j \in 1 .. Len(all) /\ m - Len(w) + j = m + n - Len(new) + k
      BY <1>11, <1>1, <1>2, <2>1
    <2>3. new[k] = all[j] /\ all[j] = r[m - Len(w) + j]
      BY <1>2, <1>4, <2>1, <2>2
    <2>4. QED  BY <2>2, <2>3
  <1>7. Window(new, r, m + n)
    BY <1>5, <1>6 DEF Window
  <1>8. ASSUME NEW k \in 1 .. Len(rest) PROVE rest[k] = r[m + n + k]
    <2>1. n + k \in 1 .. Len(left) /\ m + (n + k) = m + n + k
      BY <1>11, <1>1
    <2>2. rest[k] = left[n + k] /\ left[n + k] = r[m + (n + k)]
      BY <1>11, <2>1 DEF Rest
    <2>3. QED  BY <2>1, <2>2
  <1>9. Rest(rest, r, m + n)
    BY <1>11, <1>1, <1>8 DEF Rest
  <1>10. QED  BY <1>11, <1>1, <1>2, <1>3, <1>7, <1>9

\* When nothing is to come the window is on the last rows.
LEMMA WindowEnds ==
    ASSUME NEW w \in Seq(Row), NEW r \in Seq(Row), Window(w, r, Len(r))
    PROVE  w = LastRows(r)
  <1>1. RowLimit \in Nat /\ RowLimit >= 1 /\ Len(w) \in Nat /\ Len(r) \in Nat
    BY GridAssumption
  <1>2. CASE Len(r) > RowLimit
    <2>1. PICK part : part = SubSeq(r, Len(r) - RowLimit + 1, Len(r))
      OBVIOUS
    <2>2. part \in Seq(Row) /\ Len(part) = RowLimit
          /\ \A k \in 1 .. RowLimit : part[k] = r[Len(r) - RowLimit + k]
      BY <1>1, <1>2, <2>1
    <2>3. Len(w) = RowLimit /\ \A k \in 1 .. RowLimit : w[k] = r[Len(r) - RowLimit + k]
      BY <1>1, <1>2 DEF Window
    <2>4. w = part
      BY <1>1, <2>2, <2>3, SeqEqual
    <2>5. QED  BY <1>2, <2>1, <2>4 DEF LastRows
  <1>3. CASE ~ Len(r) > RowLimit
    <2>1. Len(w) = Len(r) /\ \A k \in 1 .. Len(r) : w[k] = r[k]
      BY <1>1, <1>3 DEF Window
    <2>2. QED  BY <1>3, <2>1, SeqEqual DEF LastRows
  <1>4. QED  BY <1>2, <1>3

----------------------------------------------------------------------------
\* The queries in flight.

\* A query is put at a place of the line, or at its end, and its view is shown.
Put(s, i, q) == [s EXCEPT ![i] = q]
Asks(s, q) == Append(s, q)
Shows(v, q) == [v EXCEPT ![q.tab] = q.view]

\* A query that is asked is the last of its tab.
LEMMA LineGrows ==
    ASSUME NEW s \in Seq(Asked), NEW v \in [Tabs -> View], Line(s, v), NEW q \in Asked,
           q.view.base \in Tables, ~q.answered, ~q.listening, Fresh(q),
           NEW new, new = Asks(s, q), NEW then, then = Shows(v, q)
    PROVE  /\ new \in Seq(Asked) /\ Len(new) = Len(s) + 1 /\ Line(new, then)
           /\ \A i \in 1 .. Len(s) : new[i] = s[i]
           /\ new[Len(s) + 1] = q
  <1>1. /\ new \in Seq(Asked) /\ Len(new) = Len(s) + 1 /\ Len(s) \in Nat
        /\ \A i \in 1 .. Len(s) : new[i] = s[i]
        /\ new[Len(s) + 1] = q
    BY DEF Asks
  <1>2. q.tab \in Tabs \cup {None} /\ q.view \in View /\ None \notin Tabs
    BY GridAssumption DEF Asked
  <1>3. \A t \in Tabs : then[t] = IF t = q.tab THEN q.view ELSE v[t]
    BY <1>2 DEF Shows
  <1>4. ASSUME NEW i \in 1 .. Len(new) PROVE InLine(new, then, i)
    <2>1. CASE i = Len(s) + 1
      <3>1. Based(q, then)
        BY <1>2, <1>3 DEF Based
      <3>2. q.tab # None => q.view = then[q.tab]
        BY <1>2, <1>3
      <3>3. QED  BY <1>1, <2>1, <3>1, <3>2 DEF InLine
    <2>2. CASE i \in 1 .. Len(s)
      <3>1. s[i] \in Asked /\ s[i].tab \in Tabs \cup {None} /\ new[i] = s[i]
        <4>1. s[i] \in Asked
          BY <2>2
        <4>2. QED  BY <1>1, <2>2, <4>1 DEF Asked
      <3>2. InLine(s, v, i)
        BY <2>2 DEF Line
      <3>3. Based(s[i], then)
        BY <1>2, <1>3, <3>1, <3>2 DEF InLine, Based
      <3>4. \A j \in 1 .. Len(new) : j < i => j \in 1 .. Len(s) /\ new[j] = s[j]
        BY <1>1, <2>2
      <3>5. ASSUME s[i].tab # None, ~s[i].late,
                   \A j \in 1 .. Len(new) : j > i => new[j].tab # new[i].tab
            PROVE  s[i].view = then[s[i].tab]
        <4>1. Len(s) + 1 \in 1 .. Len(new) /\ Len(s) + 1 > i
          BY <1>1, <2>2
        <4>2. \A j \in 1 .. Len(s) : j \in 1 .. Len(new) /\ new[j] = s[j]
          BY <1>1
        <4>3. s[i].tab # q.tab /\ \A j \in 1 .. Len(s) : j > i => s[j].tab # s[i].tab
          BY <1>1, <3>1, <3>5, <4>1, <4>2
        <4>4. s[i].view = v[s[i].tab]
          BY <3>2, <3>5, <4>3 DEF InLine
        <4>5. QED  BY <1>3, <3>1, <3>5, <4>3, <4>4
      <3>6. s[i].answered => \A j \in 1 .. Len(new) : j < i => new[j].late
        BY <3>2, <3>4 DEF InLine
      <3>7. (~s[i].listening => Fresh(s[i])) /\ (s[i].listening => s[i].answered)
        BY <3>2 DEF InLine
      <3>8. QED  BY <3>1, <3>3, <3>5, <3>6, <3>7 DEF InLine
    <2>3. QED  BY <1>1, <2>1, <2>2
  <1>5. QED  BY <1>1, <1>4 DEF Line

\* A tab without a base table has asked nothing, so its view may change.
LEMMA LineStays ==
    ASSUME NEW s \in Seq(Asked), NEW v \in [Tabs -> View], Line(s, v), NEW t \in Tabs,
           v[t].base \notin Tables, NEW w \in View, NEW then, then = [v EXCEPT ![t] = w]
    PROVE  Line(s, then)
  <1>1. ASSUME NEW i \in 1 .. Len(s), s[i].tab # None PROVE then[s[i].tab] = v[s[i].tab]
    <2>1. s[i] \in Asked
      BY <1>1
    <2>2. s[i].tab \in Tabs
      BY <1>1, <2>1 DEF Asked
    <2>3. s[i].tab # t
      BY <1>1 DEF Line, InLine, Based
    <2>4. QED  BY <2>2, <2>3
  <1>2. QED  BY <1>1 DEF Line, InLine, Based

\* Queries that differ in nothing but whether they are late.
Alike(p, q) ==
    /\ p.tab = q.tab /\ p.view = q.view /\ p.base = q.base /\ p.answered = q.answered
    /\ p.listening = q.listening /\ p.head = q.head /\ p.brings = q.brings /\ p.left = q.left

\* The queries asked before the i-th are late, nothing else differs.
Marked(s, mid, i) ==
    /\ mid \in Seq(Asked) /\ Len(mid) = Len(s)
    /\ \A j \in 1 .. Len(s) : /\ Alike(mid[j], s[j])
                              /\ s[j].late => mid[j].late
                              /\ j < i => mid[j].late
                              /\ j >= i => mid[j].late = s[j].late

LEMMA OvertakenMarks ==
    ASSUME queries \in Seq(Asked), NEW i \in 1 .. Len(queries), NEW mid, mid = Overtaken(i)
    PROVE  Marked(queries, mid, i)
  <1>1. Len(queries) \in Nat /\ DOMAIN queries = 1 .. Len(queries)
    OBVIOUS
  <1>2. ASSUME NEW j \in 1 .. Len(queries)
        PROVE  /\ mid[j] = [queries[j] EXCEPT !.late = @ \/ j < i] /\ mid[j] \in Asked
               /\ Alike(mid[j], queries[j])
               /\ mid[j].late = (queries[j].late \/ j < i)
    <2>1. queries[j] \in Asked
      OBVIOUS
    <2>2. mid[j] = [queries[j] EXCEPT !.late = @ \/ j < i]
      BY <1>1 DEF Overtaken
    <2>3. QED  BY <2>1, <2>2 DEF Asked, Alike
  <1>3. mid \in [1 .. Len(queries) -> Asked]
    <2>1. mid = [j \in 1 .. Len(queries) |-> [queries[j] EXCEPT !.late = @ \/ j < i]]
      BY <1>1 DEF Overtaken
    <2>2. QED  BY <1>2, <2>1
  <1>4. mid \in Seq(Asked) /\ Len(mid) = Len(queries)
    BY <1>1, <1>3
  <1>5. ASSUME NEW j \in 1 .. Len(queries)
        PROVE  /\ queries[j].late => mid[j].late
               /\ j < i => mid[j].late
               /\ j >= i => mid[j].late = queries[j].late
    <2>1. queries[j] \in Asked
      OBVIOUS
    <2>2. queries[j].late \in BOOLEAN
      BY <2>1 DEF Asked
    <2>3. j >= i => ~ j < i
      BY <1>1
    <2>4. QED  BY <1>2, <2>2, <2>3
  <1>6. QED  BY <1>2, <1>4, <1>5 DEF Marked

\* A query that is answered has made those before it late.
LEMMA AnsweredMarks ==
    ASSUME NEW s \in Seq(Asked), NEW v, Line(s, v), NEW i \in 1 .. Len(s), s[i].answered
    PROVE  Marked(s, s, i)
  BY DEF Marked, Alike, Line, InLine

LEMMA Replaced ==
    ASSUME NEW s \in Seq(Asked), NEW i \in 1 .. Len(s), NEW q \in Asked,
           NEW new, new = [s EXCEPT ![i] = q]
    PROVE  /\ new \in Seq(Asked) /\ Len(new) = Len(s) /\ new[i] = q
           /\ \A j \in 1 .. Len(s) : j # i => new[j] = s[j]
  BY ExceptSeq

\* The i-th query is answered or goes on to stream, after those before it.
LEMMA LineAnswers ==
    ASSUME NEW s \in Seq(Asked), NEW v, Line(s, v), NEW i \in 1 .. Len(s),
           NEW mid \in Seq(Asked), Marked(s, mid, i),
           NEW q \in Asked, q.answered, q.listening \/ Fresh(q), q.tab = mid[i].tab, q.view = mid[i].view,
           q.late = mid[i].late,
           NEW new, new = Put(mid, i, q)
    PROVE  /\ new \in Seq(Asked) /\ Len(new) = Len(s) /\ Line(new, v) /\ new[i] = q
           /\ \A j \in 1 .. Len(s) : /\ new[j].tab = s[j].tab
                                     /\ j # i => Alike(new[j], s[j])
           /\ q.late = s[i].late
  <1>1. Len(s) \in Nat /\ mid \in Seq(Asked) /\ Len(mid) = Len(s) /\ i \in 1 .. Len(mid)
    BY DEF Marked
  <1>2. /\ new \in Seq(Asked) /\ Len(new) = Len(s) /\ new[i] = q
        /\ \A j \in 1 .. Len(s) : j # i => new[j] = mid[j]
    BY <1>1, Replaced DEF Put
  <1>3. ASSUME NEW j \in 1 .. Len(s)
        PROVE  /\ new[j].tab = s[j].tab /\ new[j].view = s[j].view
               /\ j # i => Alike(new[j], s[j])
               /\ s[j].late => new[j].late
               /\ j < i => new[j].late
    <2>1. Alike(mid[j], s[j]) /\ (s[j].late => mid[j].late) /\ (j < i => mid[j].late)
      BY DEF Marked
    <2>2. CASE j = i
      BY <1>1, <1>2, <2>1, <2>2 DEF Alike
    <2>3. CASE j # i
      BY <1>2, <2>1, <2>3 DEF Alike
    <2>4. QED  BY <2>2, <2>3
  <1>4. ASSUME NEW j \in 1 .. Len(new) PROVE InLine(new, v, j)
    <2>1. j \in 1 .. Len(s) /\ InLine(s, v, j)
      BY <1>2, <1>4 DEF Line
    <2>2. Based(new[j], v)
      BY <1>3, <2>1 DEF InLine, Based
    <2>3. ~new[j].listening => Fresh(new[j])
      BY <1>2, <1>3, <2>1 DEF InLine, Fresh, Alike
    <2>4. new[j].listening => new[j].answered
      BY <1>2, <1>3, <2>1 DEF InLine, Alike
    <2>5. ASSUME new[j].answered, NEW k \in 1 .. Len(new), k < j PROVE new[k].late
      <3>1. CASE j = i
        BY <1>2, <1>3, <2>5, <3>1
      <3>2. CASE j # i
        <4>1. s[j].answered
          BY <1>3, <2>1, <2>5, <3>2 DEF Alike
        <4>2. s[k].late
          BY <1>2, <2>1, <2>5, <4>1 DEF InLine
        <4>3. QED  BY <1>2, <1>3, <2>5, <4>2
      <3>3. QED  BY <3>1, <3>2
    <2>6. ASSUME new[j].tab # None, ~new[j].late,
                 \A k \in 1 .. Len(new) : k > j => new[k].tab # new[j].tab
          PROVE  new[j].view = v[new[j].tab]
      <3>1. ~s[j].late /\ new[j].tab = s[j].tab /\ new[j].view = s[j].view
        BY <1>3, <2>1, <2>6
      <3>2. \A k \in 1 .. Len(s) : k > j => s[k].tab # s[j].tab
        BY <1>2, <1>3, <2>6, <3>1
      <3>3. QED  BY <2>1, <2>6, <3>1, <3>2 DEF InLine
    <2>7. QED  BY <2>2, <2>3, <2>4, <2>5, <2>6 DEF InLine
  <1>5. q.late = s[i].late
    BY <1>1 DEF Marked
  <1>6. QED  BY <1>2, <1>3, <1>4, <1>5 DEF Line

\* The i-th query is over.
LEMMA Removed ==
    ASSUME NEW s \in Seq(Asked), NEW i \in 1 .. Len(s), NEW new, new = RemoveAt(s, i)
    PROVE  /\ new \in Seq(Asked) /\ Len(new) = Len(s) - 1 /\ Len(s) \in Nat
           /\ \A k \in 1 .. Len(new) : new[k] = IF k < i THEN s[k] ELSE s[k + 1]
  <1>1. Len(s) \in Nat /\ Len(s) >= 1 /\ i \in Nat /\ i >= 1 /\ i <= Len(s)
    OBVIOUS
  <1>2. PICK a, b : a = SubSeq(s, 1, i - 1) /\ b = SubSeq(s, i + 1, Len(s))
    OBVIOUS
  <1>3. a \in Seq(Asked) /\ Len(a) = i - 1 /\ \A k \in 1 .. Len(a) : a[k] = s[k]
    BY <1>1, <1>2
  <1>4. b \in Seq(Asked) /\ Len(b) = Len(s) - i /\ \A k \in 1 .. Len(b) : b[k] = s[i + k]
    BY <1>1, <1>2
  <1>5. new = a \o b
    BY <1>2 DEF RemoveAt
  <1>6. new \in Seq(Asked) /\ Len(new) = Len(s) - 1
    BY <1>1, <1>3, <1>4, <1>5
  <1>7. ASSUME NEW k \in 1 .. Len(new) PROVE new[k] = IF k < i THEN s[k] ELSE s[k + 1]
    <2>1. new[k] = IF k <= Len(a) THEN a[k] ELSE b[k - Len(a)]
      BY <1>1, <1>3, <1>4, <1>5, <1>6
    <2>2. CASE k < i
      BY <1>1, <1>3, <2>1, <2>2
    <2>3. CASE ~ k < i
      <3>1. PICK j : j = k - Len(a)
        OBVIOUS
      <3>2. j \in 1 .. Len(b) /\ i + j = k + 1 /\ ~ k <= Len(a)
        BY <1>1, <1>3, <1>4, <1>6, <2>3, <3>1
      <3>3. QED  BY <1>4, <2>1, <2>3, <3>1, <3>2
    <2>4. QED  BY <2>2, <2>3
  <1>8. QED  BY <1>1, <1>6, <1>7

\* Of the queries s, those but the i-th are left in new.
Leaves(s, i, new) ==
    /\ \A j \in 1 .. Len(s) \ {i} : \E k \in 1 .. Len(new) : new[k].tab = s[j].tab
    /\ \A k \in 1 .. Len(new) : \E j \in 1 .. Len(s) \ {i} : new[k].answered = s[j].answered

LEMMA LineShrinks ==
    ASSUME NEW s \in Seq(Asked), NEW v, Line(s, v), NEW i \in 1 .. Len(s), NEW mid,
           Marked(s, mid, i), NEW new, new = RemoveAt(mid, i)
    PROVE  new \in Seq(Asked) /\ Line(new, v) /\ Leaves(s, i, new)
  <1>1. /\ mid \in Seq(Asked) /\ Len(mid) = Len(s)
        /\ new \in Seq(Asked) /\ Len(new) = Len(s) - 1 /\ Len(s) \in Nat
        /\ \A k \in 1 .. Len(new) : new[k] = IF k < i THEN mid[k] ELSE mid[k + 1]
    BY Removed DEF Marked
  <1> DEFINE at(k) == IF k < i THEN k ELSE k + 1
  <1>2. ASSUME NEW k \in 1 .. Len(new)
        PROVE  at(k) \in 1 .. Len(s) \ {i} /\ new[k] = mid[at(k)]
    BY <1>1
  <1>3. ASSUME NEW j \in 1 .. Len(s) \ {i} PROVE \E k \in 1 .. Len(new) : at(k) = j
    <2>1. CASE j < i
      BY <1>1, <2>1
    <2>2. CASE j > i
      <3>1. j - 1 \in 1 .. Len(new) /\ at(j - 1) = j
        BY <1>1, <2>2
      <3>2. QED  BY <3>1
    <2>3. QED  BY <2>1, <2>2
  <1>4. \A k, j \in 1 .. Len(new) : (k < j <=> at(k) < at(j)) /\ (k > j <=> at(k) > at(j))
    BY <1>1
  <1> HIDE DEF at
  <1>5. ASSUME NEW k \in 1 .. Len(new) PROVE InLine(new, v, k)
    <2>1. PICK m : m = at(k)
      OBVIOUS
    <2>2. m \in 1 .. Len(s) /\ m # i /\ new[k] = mid[m]
      BY <1>2, <2>1
    <2>3. InLine(s, v, m)
      BY <2>2 DEF Line
    <2>4. Alike(mid[m], s[m]) /\ (m < i => mid[m].late) /\ (s[m].late => mid[m].late)
      BY <2>2 DEF Marked
    <2>5. ASSUME new[k].answered, NEW j \in 1 .. Len(new), j < k PROVE new[j].late
      <3>1. at(j) \in 1 .. Len(s) /\ at(j) < m /\ new[j] = mid[at(j)]
        BY <1>2, <1>4, <2>1, <2>5
      <3>2. s[m].answered
        BY <2>2, <2>4, <2>5 DEF Alike
      <3>3. s[at(j)].late
        BY <2>3, <3>1, <3>2 DEF InLine
      <3>4. QED  BY <3>1, <3>3 DEF Marked
    <2>6. ASSUME new[k].tab # None, ~new[k].late,
                 \A j \in 1 .. Len(new) : j > k => new[j].tab # new[k].tab
          PROVE  new[k].view = v[new[k].tab]
      <3>1. m > i /\ ~s[m].late /\ new[k].tab = s[m].tab /\ new[k].view = s[m].view
        BY <1>1, <2>2, <2>4, <2>6 DEF Alike
      <3>2. ASSUME NEW j \in 1 .. Len(s), j > m PROVE s[j].tab # s[m].tab
        <4>1. j # i
          BY <1>1, <2>2, <3>1, <3>2
        <4>2. PICK l \in 1 .. Len(new) : at(l) = j
          BY <1>3, <4>1
        <4>3. l > k /\ new[l] = mid[j]
          BY <1>2, <1>4, <2>1, <3>2, <4>2
        <4>4. mid[j].tab = s[j].tab
          BY DEF Marked, Alike
        <4>5. QED  BY <2>6, <3>1, <4>3, <4>4
      <3>3. QED  BY <2>3, <2>6, <3>1, <3>2 DEF InLine
    <2>7. Based(new[k], v)
      BY <2>2, <2>3, <2>4 DEF InLine, Based, Alike
    <2>8. (~new[k].listening => Fresh(new[k])) /\ (new[k].listening => new[k].answered)
      BY <2>2, <2>3, <2>4 DEF InLine, Fresh, Alike
    <2>9. QED  BY <2>5, <2>6, <2>7, <2>8 DEF InLine
  <1>6. ASSUME NEW j \in 1 .. Len(s) \ {i} PROVE \E k \in 1 .. Len(new) : new[k].tab = s[j].tab
    BY <1>2, <1>3 DEF Marked, Alike
  <1>7. ASSUME NEW k \in 1 .. Len(new)
        PROVE  \E j \in 1 .. Len(s) \ {i} : new[k].answered = s[j].answered
    BY <1>2 DEF Marked, Alike
  <1>8. QED  BY <1>1, <1>5, <1>6, <1>7 DEF Line, Leaves

\* An answered query goes on.
LEMMA LineStreams ==
    ASSUME NEW s \in Seq(Asked), NEW v, Line(s, v), NEW i \in 1 .. Len(s), s[i].answered,
           NEW q \in Asked, q.answered, q.listening, q.tab = s[i].tab, q.view = s[i].view,
           q.late = s[i].late, NEW new, new = Put(s, i, q)
    PROVE  /\ new \in Seq(Asked) /\ Len(new) = Len(s) /\ Line(new, v) /\ new[i] = q
           /\ \A j \in 1 .. Len(s) : /\ new[j].tab = s[j].tab
                                     /\ j # i => Alike(new[j], s[j])
  <1>1. Marked(s, s, i)
    BY AnsweredMarks
  <1>2. QED  BY <1>1, LineAnswers

----------------------------------------------------------------------------
\* The steps, and the rows.

StreamsThen(q) == streaming' /\ Brings(q, active', rows', columns')

\* The cell that is edited is no longer sure to be on its row.
LEMMA UnsureStep ==
    ASSUME RowsTyped, edit' = Unsure
    PROVE  /\ edit' # None => edit' \in [row : Nat, on : Row, sure : BOOLEAN]
           /\ Edited'
  BY DEF RowsTyped, Unsure, Edited

\* Steps that leave rows, queries and views.
LEMMA RowsStay ==
    ASSUME FInv, GInv, UNCHANGED <<active, view, results, store, queries, cursor, own>>,
           edit' = edit \/ edit' = None,
           EditsHitTheirRow', DeleteNamesSelection'
    PROVE  GInv'
  <1>1. RowsTyped' /\ Line(queries, view)' /\ Bare' /\ Edited'
    BY DEF GInv, RowsTyped, Line, Bare, Edited, store, cursor, Shown
  <1>2. Owned'
    BY DEF GInv, Owned, Picked, RowsAt, Streams, Brings, Sole, Calm, store, cursor, Shown
  <1>3. QED  BY <1>1, <1>2 DEF GInv

\* A query is asked for a view of the active tab, or for no tab.
LEMMA AskStep ==
    ASSUME FInv, GInv, NEW v \in View, NEW b \in BOOLEAN, v.base \in Tables,
           NEW t \in {active, None},
           view' = [view EXCEPT ![t] = v], queries' = Append(queries, Query(t, v, b)),
           UNCHANGED <<active, results, store, cursor, own, sent, copied>>,
           edit' = Unsure \/ (edit' = edit /\ (t = None \/ v.base = Shown.base))
    PROVE  GInv'
  <1>1. /\ active \in Tabs /\ view \in [Tabs -> View] /\ RowsTyped /\ queries \in Seq(Asked)
        /\ Line(queries, view) /\ Len(queries) \in Nat
    BY DEF FInv, FiltersTyped, GInv, RowsTyped
  <1>2. PICK q : q = Query(t, v, b)
    OBVIOUS
  <1>3. /\ q \in Asked /\ q.view = v /\ q.tab = t /\ ~q.answered /\ ~q.listening /\ Fresh(q)
    BY <1>1, <1>2, RowsOfView DEF Query, Asked, Fresh
  <1>13. /\ Shown' = IF t = active THEN v ELSE Shown
         /\ t = None => Shown' = Shown
    BY <1>1, GridAssumption DEF Shown
  <1>4. /\ queries' \in Seq(Asked) /\ Len(queries') = Len(queries) + 1 /\ Line(queries', view')
        /\ \A i \in 1 .. Len(queries) : queries'[i] = queries[i]
        /\ queries'[Len(queries) + 1] = q
    <2>1. queries' = Append(queries, q) /\ view' = [view EXCEPT ![q.tab] = q.view]
      BY <1>2, <1>3
    <2>2. PICK new, then : new = Asks(queries, q) /\ then = Shows(view, q)
      OBVIOUS
    <2>3. /\ new \in Seq(Asked) /\ Len(new) = Len(queries) + 1 /\ Line(new, then)
          /\ \A i \in 1 .. Len(queries) : new[i] = queries[i]
          /\ new[Len(queries) + 1] = q
      BY <1>1, <1>3, <2>2, LineGrows
    <2>4. queries' = new /\ view' = then
      BY <2>1, <2>2 DEF Asks, Shows
    <2>5. QED  BY <2>3, <2>4
  <1>5. RowsTyped' /\ Edited'
    <2>1. CASE edit' = Unsure
      BY <1>1, <1>4, <2>1, UnsureStep DEF RowsTyped, store
    <2>2. CASE edit' = edit /\ (t = None \/ v.base = Shown.base)
      <3>1. Shown'.base = Shown.base
        BY <1>13, <2>2
      <3>2. QED  BY <1>1, <1>4, <2>2, <3>1 DEF RowsTyped, store, GInv, Edited
    <2>3. QED  BY <2>1, <2>2
  <1>6. Bare'
    BY DEF GInv, Bare, store, cursor
  <1>7. ASSUME own PROVE Owned'
    <2>1. /\ Shown.base \in Tables /\ \A k \in 1 .. Len(rows) : rows[k].table = columns
          /\ columns # None => Picked
          /\ \A i \in 1 .. Len(queries) : queries[i].answered => Streams(queries[i]) /\ Sole(i)
          /\ (\A i \in 1 .. Len(queries) : ~queries[i].answered) => Calm
      BY <1>7 DEF GInv, Owned
    <2>2. Shown'.base \in Tables
      BY <1>13, <2>1
    <2>3. (columns' # None => Picked') /\ \A k \in 1 .. Len(rows') : rows'[k].table = columns'
      BY <2>1 DEF Picked, RowsAt, store, cursor
    <2>4. ASSUME NEW i \in 1 .. Len(queries'), queries'[i].answered
          PROVE  /\ StreamsThen(queries'[i])
                 /\ \A j \in 1 .. Len(queries') : queries'[j].answered => j = i
      <3>1. \A j \in 1 .. Len(queries') : queries'[j].answered =>
               j \in 1 .. Len(queries) /\ queries'[j] = queries[j] /\ queries[j].answered
        <4>1. \A j \in 1 .. Len(queries') : j \in 1 .. Len(queries) \/ j = Len(queries) + 1
          BY <1>1, <1>4
        <4>2. QED  BY <1>3, <1>4, <4>1
      <3>2. Streams(queries[i]) /\ Sole(i)
        BY <2>1, <2>4, <3>1
      <3>3. PICK s : s = queries[i]
        OBVIOUS
      <3>4. StreamsThen(s)
        BY <3>2, <3>3 DEF Streams, StreamsThen, store
      <3>5. QED  BY <2>4, <3>1, <3>2, <3>3, <3>4 DEF Sole
    <2>5. ASSUME \A i \in 1 .. Len(queries') : ~queries'[i].answered PROVE Calm'
      <3>1. Calm
        BY <1>1, <1>4, <2>1, <2>5
      <3>2. CASE t = active
        <4>1. /\ Len(queries) + 1 \in 1 .. Len(queries')
              /\ queries'[Len(queries) + 1].tab = active'
          BY <1>1, <1>3, <1>4, <3>2
        <4>2. QED  BY <3>1, <4>1 DEF Calm, store
      <3>3. CASE t = None
        <4>1. \A k \in 1 .. Len(queries) : k \in 1 .. Len(queries') /\ queries'[k] = queries[k]
          BY <1>1, <1>4
        <4>2. QED  BY <1>13, <3>1, <3>3, <4>1 DEF Calm, store
      <3>4. QED  BY <3>2, <3>3
    <2>6. QED
      BY <2>2, <2>3, <2>4, <2>5 DEF Owned, Streams, StreamsThen, Sole
  <1>8. Owned'
    BY <1>7 DEF Owned
  <1>9. EditsHitTheirRow' /\ DeleteNamesSelection'
    BY DEF GInv, EditsHitTheirRow, DeleteNamesSelection
  <1>10. QED  BY <1>4, <1>5, <1>6, <1>8, <1>9 DEF GInv

\* The view of the active tab changes, and is asked for if it has a base table.
LEMMA SetViewStep ==
    ASSUME FInv, GInv, NEW v \in View, v.base = Shown.base, SetView(v),
           UNCHANGED <<active, results, store, edit, cursor, own, sent, copied>>
    PROVE  GInv'
  <1>1. view' = [view EXCEPT ![active] = v]
        /\ queries' = IF v.base = None THEN queries ELSE Append(queries, Query(active, v, FALSE))
    BY DEF SetView
  <1>2. v.base \in Tables \/ v.base = None
    BY DEF View, Table
  <1>3. CASE v.base \in Tables
    <2>1. v.base # None
      BY <1>3, GridAssumption
    <2>2. QED  BY <1>1, <1>3, <2>1, AskStep
  <1>4. CASE v.base = None
    <2>1. /\ active \in Tabs /\ view \in [Tabs -> View] /\ RowsTyped /\ queries \in Seq(Asked)
          /\ Line(queries, view) /\ queries' = queries /\ view[active].base \notin Tables
      BY <1>1, <1>4, GridAssumption DEF FInv, FiltersTyped, GInv, RowsTyped, Shown
    <2>2. Line(queries', view')
      BY <1>1, <2>1, LineStays
    <2>3. ~own /\ ~own'
      BY <2>1 DEF GInv, Owned, Shown
    <2>4. Edited'
      BY <2>3 DEF GInv, Edited
    <2>5. RowsTyped' /\ Bare' /\ Owned'
      BY <2>1, <2>3 DEF GInv, RowsTyped, Bare, Owned, store, cursor
    <2>6. EditsHitTheirRow' /\ DeleteNamesSelection'
      BY DEF GInv, EditsHitTheirRow, DeleteNamesSelection
    <2>7. QED  BY <2>2, <2>4, <2>5, <2>6 DEF GInv
  <1>5. QED  BY <1>2, <1>3, <1>4

\* What the grid renders is typed, and an empty grid has nothing that was chosen.
LEMMA RenderBare ==
    ASSUME RowsTyped, Bare, active' \in Tabs, results' \in [Tabs -> Result \cup {None}],
           NEW r \in Seq(Row), NEW c \in Table, NEW s \in BOOLEAN, Render(r, c, s)
    PROVE  rows' \in Seq(Row) /\ columns' \in Table /\ streaming' \in BOOLEAN /\ Bare'
  <1> DEFINE hydrates == ~s /\ r = <<>> /\ results'[active'] # None
                         /\ results'[active'].rows # <<>>
  <1>1. /\ rows' = IF hydrates THEN results'[active'].rows ELSE r
        /\ columns' = IF hydrates THEN results'[active'].fields ELSE c
        /\ streaming' = s
        /\ IF columns' # columns
             THEN selected' = {} /\ last' = None /\ chosen' = {}
             ELSE /\ selected' = selected /\ last' = last
                  /\ chosen' = IF r = rows \/ IsPrefix(rows, r) THEN chosen ELSE None
    BY DEF Render
  <1>2. hydrates => results'[active'].fields \in Table /\ results'[active'].rows \in Seq(Row)
                    /\ results'[active'].rows # <<>>
    BY DEF Result
  <1> HIDE DEF hydrates
  <1>3. rows' \in Seq(Row) /\ columns' \in Table /\ streaming' \in BOOLEAN
    BY <1>1, <1>2
  <1>4. ASSUME rows' = <<>>, columns' = columns PROVE chosen' \in {{}, None}
    <2>1. r = <<>> /\ rows \in Seq(Row)
      BY <1>1, <1>2, <1>4 DEF RowsTyped
    <2>2. IsPrefix(rows, r) => rows = <<>>
      BY <2>1 DEF IsPrefix
    <2>3. QED  BY <1>1, <1>4, <2>1, <2>2 DEF Bare
  <1>5. Bare'
    BY <1>1, <1>4 DEF Bare
  <1>6. QED  BY <1>3, <1>5

\* The grid that is no longer the tab's, or the query's.
LEMMA LetGo ==
    ASSUME FInv, GInv, active' \in Tabs, results' = results, NEW s \in BOOLEAN,
           Render(rows, columns, s), edit' = Unsure, own' = FALSE,
           queries' \in Seq(Asked), Line(queries, view)', UNCHANGED <<sent, copied>>
    PROVE  GInv'
  <1>1. RowsTyped /\ Bare /\ results' \in [Tabs -> Result \cup {None}]
    BY DEF GInv, RowsTyped
  <1>2. rows \in Seq(Row) /\ columns \in Table
    BY <1>1 DEF RowsTyped
  <1>3. rows' \in Seq(Row) /\ columns' \in Table /\ streaming' \in BOOLEAN /\ Bare'
    BY <1>1, <1>2, RenderBare
  <1>4. RowsTyped' /\ Edited'
    BY <1>1, <1>3, UnsureStep DEF RowsTyped
  <1>5. Owned'
    BY DEF Owned
  <1>6. EditsHitTheirRow' /\ DeleteNamesSelection'
    BY DEF GInv, EditsHitTheirRow, DeleteNamesSelection
  <1>7. QED  BY <1>3, <1>4, <1>5, <1>6 DEF GInv

LEMMA TabStep == ASSUME FInv, GInv, NEW t \in Tabs, SetActiveTab(t) PROVE GInv'
  <1>1. /\ active' = t /\ results' = results /\ Render(rows, columns, streaming)
        /\ edit' = Unsure /\ own' = FALSE /\ UNCHANGED <<view, queries, sent, copied>>
    BY DEF SetActiveTab
  <1>2. queries' \in Seq(Asked) /\ Line(queries, view)' /\ streaming \in BOOLEAN
    BY <1>1 DEF GInv, RowsTyped, Line, InLine, Based
  <1>3. QED  BY <1>1, <1>2, LetGo

LEMMA FailStep ==
    ASSUME FInv, GInv, NEW i \in 1 .. Len(queries), NEW finalizes \in BOOLEAN,
           Fail(i, finalizes)
    PROVE  GInv'
  <1>1. /\ queries' = RemoveAt(Overtaken(i), i) /\ results' = results /\ active' = active
        /\ Render(rows, columns, streaming /\ ~finalizes) /\ own' = FALSE /\ edit' = Unsure
        /\ UNCHANGED <<view, sent, copied>>
    BY DEF Fail, QueriesKept
  <1>2. queries \in Seq(Asked) /\ Line(queries, view) /\ streaming \in BOOLEAN
        /\ active \in Tabs
    BY DEF GInv, RowsTyped, FInv, FiltersTyped
  <1>3. PICK mid : mid = Overtaken(i)
    OBVIOUS
  <1>4. Marked(queries, mid, i)
    BY <1>2, <1>3, OvertakenMarks
  <1>5. PICK new : new = RemoveAt(mid, i)
    OBVIOUS
  <1>6. new \in Seq(Asked) /\ Line(new, view)
    BY <1>2, <1>4, <1>5, LineShrinks
  <1>7. queries' = new /\ view' = view
    BY <1>1, <1>3, <1>5
  <1>8. queries' \in Seq(Asked) /\ Line(queries, view)'
    BY <1>6, <1>7
  <1>9. PICK s \in BOOLEAN : s = (streaming /\ ~finalizes)
    BY <1>2
  <1>10. Render(rows, columns, s)
    BY <1>1, <1>9
  <1>11. QED  BY <1>1, <1>2, <1>8, <1>10, LetGo

\* The agent cancels.
LEMMA CancelStep == ASSUME FInv, GInv, CancelQuery PROVE GInv'
  <1>1. /\ active' = active /\ results' = results /\ Render(rows, columns, FALSE)
        /\ edit' = Unsure /\ own' = FALSE /\ UNCHANGED <<view, queries, sent, copied>>
    BY DEF CancelQuery
  <1>2. queries' \in Seq(Asked) /\ Line(queries, view)' /\ active' \in Tabs
    BY <1>1 DEF GInv, RowsTyped, Line, InLine, Based, FInv, FiltersTyped
  <1>3. QED  BY <1>1, <1>2, LetGo

\* A query is answered, and the grid starts over.
LEMMA AnswerStep ==
    ASSUME FInv, GInv, NEW i \in 1 .. Len(queries), Answer(i)
    PROVE  GInv'
  <1>1. PICK q : q = queries[i]
    OBVIOUS
  <1>2. /\ ~q.answered /\ queries' = [Overtaken(i) EXCEPT ![i].answered = TRUE]
        /\ results' = results /\ active' = active /\ Render(<<>>, None, TRUE)
        /\ edit' = Unsure /\ UNCHANGED <<view, sent, copied>>
        /\ own' = (/\ ~q.late /\ q.tab = active
                   /\ \A j \in 1 .. Len(queries) \ {i} : ~queries[j].answered)
    <2>1. DOMAIN queries = 1 .. Len(queries)
      BY DEF GInv, RowsTyped
    <2>2. QED  BY <1>1, <2>1 DEF Answer, QueriesKept
  <1>3. queries \in Seq(Asked) /\ Line(queries, view) /\ active \in Tabs /\ RowsTyped /\ Bare
        /\ view \in [Tabs -> View] /\ q \in Asked
    BY <1>1 DEF GInv, RowsTyped, FInv, FiltersTyped
  <1>4. PICK mid : mid = Overtaken(i)
    OBVIOUS
  <1>5. Marked(queries, mid, i)
    BY <1>3, <1>4, OvertakenMarks
  <1>6. mid \in Seq(Asked) /\ i \in 1 .. Len(mid)
    BY <1>5 DEF Marked
  <1>7. PICK r : r = [mid[i] EXCEPT !.answered = TRUE]
    OBVIOUS
  <1>8. /\ r \in Asked /\ r.answered /\ r.tab = q.tab /\ r.view = q.view /\ Fresh(r)
        /\ r.tab = mid[i].tab /\ r.view = mid[i].view /\ r.late = mid[i].late /\ r.late = q.late
    <2>1. mid[i] \in Asked /\ Alike(mid[i], q) /\ mid[i].late = q.late
      BY <1>1, <1>5, <1>6 DEF Marked
    <2>2. InLine(queries, view, i)
      BY <1>3 DEF Line
    <2>3. Fresh(q)
      BY <1>1, <1>2, <2>2 DEF InLine
    <2>4. QED  BY <1>7, <2>1, <2>3 DEF Asked, Alike, Fresh
  <1>9. queries' = [mid EXCEPT ![i] = r]
    BY <1>2, <1>4, <1>7
  <1>10. /\ queries' \in Seq(Asked) /\ Len(queries') = Len(queries) /\ Line(queries', view)
         /\ \A j \in 1 .. Len(queries) : j # i => queries'[j].answered = queries[j].answered
         /\ queries'[i] = r
    <2>1. PICK new : new = Put(mid, i, r)
      OBVIOUS
    <2>2. /\ new \in Seq(Asked) /\ Len(new) = Len(queries) /\ Line(new, view) /\ new[i] = r
          /\ \A j \in 1 .. Len(queries) : j # i => Alike(new[j], queries[j])
      <3>1. r.listening \/ Fresh(r)
        BY <1>8
      <3>2. PICK m : m = mid
        OBVIOUS
      <3>3. m \in Seq(Asked) /\ Marked(queries, m, i) /\ new = Put(m, i, r)
            /\ r.tab = m[i].tab /\ r.view = m[i].view /\ r.late = m[i].late
        BY <1>5, <1>6, <1>8, <2>1, <3>2
      <3>4. r \in Asked /\ r.answered
        BY <1>8
      <3>5. QED  BY <1>3, <3>1, <3>3, <3>4, LineAnswers
    <2>3. queries' = new
      BY <1>9, <2>1 DEF Put
    <2>4. QED  BY <2>2, <2>3 DEF Alike
  <1>11. rows' = <<>> /\ columns' = None /\ streaming'
    BY <1>2 DEF Render
  <1>12. Bare' /\ rows' \in Seq(Row) /\ columns' \in Table
    <2>1. <<>> \in Seq(Row) /\ None \in Table /\ active' \in Tabs
          /\ results' \in [Tabs -> Result \cup {None}]
      BY <1>2, <1>3 DEF Table, RowsTyped
    <2>2. QED  BY <1>2, <1>3, <2>1, RenderBare
  <1>13. RowsTyped' /\ Edited'
    BY <1>2, <1>3, <1>10, <1>11, <1>12, UnsureStep DEF RowsTyped
  <1>14. ASSUME own' PROVE Owned'
    <2>1. ~q.late /\ q.tab = active /\ \A j \in 1 .. Len(queries) \ {i} : ~queries[j].answered
      BY <1>2, <1>14
    <2>2. Shown'.base \in Tables
      <3>1. Based(q, view)
        BY <1>1, <1>3 DEF Line, InLine
      <3>2. q.tab # None
        BY <1>3, <2>1, GridAssumption
      <3>3. QED  BY <1>2, <2>1, <3>1, <3>2 DEF Based, Shown
    <2>3. Len(rows') = 0 /\ rows' = <<>>
      BY <1>11
    <2>4. StreamsThen(r)
      <3>1. q.view.base \in Tables
        BY <1>1, <1>3 DEF Line, InLine, Based
      <3>2. RowsOf(q.view) \in Seq(Row) /\ q.view \in View
        BY <1>3, <3>1, RowsOfView DEF Asked
      <3>3. PICK w : w = RowsOf(q.view)
        OBVIOUS
      <3>4. w \in Seq(Row) /\ Len(w) \in Nat /\ 0 \in 0 .. Len(w) /\ r.left = w
        <4>1. r.left = RowsOf(r.view) /\ r.view = q.view
          BY <1>8 DEF Fresh
        <4>2. QED  BY <3>2, <3>3, <4>1
      <3>5. Rest(r.left, w, 0)
        BY <3>4 DEF Rest
      <3>6. Window(rows', w, 0)
        BY <2>3, GridAssumption DEF Window
      <3>7. QED
        BY <1>2, <1>8, <1>11, <2>1, <3>3, <3>4, <3>5, <3>6 DEF StreamsThen, Brings, Fresh
    <2>5. \A j \in 1 .. Len(queries') : queries'[j].answered => j = i
      BY <1>10, <2>1
    <2>6. \A k \in 1 .. Len(rows') : rows'[k].table = columns'
      BY <2>3
    <2>7. \A j \in 1 .. Len(queries') : queries'[j].answered =>
             /\ StreamsThen(queries'[j])
             /\ \A k \in 1 .. Len(queries') : queries'[k].answered => k = j
      BY <1>10, <2>4, <2>5
    <2>8. i \in 1 .. Len(queries') /\ queries'[i].answered
      BY <1>8, <1>10
    <2>9. QED
      BY <1>11, <2>2, <2>6, <2>7, <2>8 DEF Owned, Streams, StreamsThen, Sole
  <1>15. Owned'
    BY <1>14 DEF Owned
  <1>16. Line(queries, view)' /\ EditsHitTheirRow' /\ DeleteNamesSelection'
    BY <1>2, <1>10 DEF GInv, EditsHitTheirRow, DeleteNamesSelection, Line, InLine, Based
  <1>17. QED  BY <1>12, <1>13, <1>15, <1>16 DEF GInv

\* While the rows are those of a query that streams, no cell is sure to be on its row.
LEMMA StreamingUnsure ==
    ASSUME GInv, NEW i \in 1 .. Len(queries), queries[i].answered
    PROVE  ~(edit # None /\ edit.sure)
  BY DEF GInv, Edited, Owned, Streams

\* The listener of the i-th query is registered.
LEMMA ListensStep ==
    ASSUME FInv, GInv, NEW i \in 1 .. Len(queries), NEW lost \in BOOLEAN,
           NEW n \in 0 .. Len(queries[i].left), Listens(i, lost, n)
    PROVE  GInv'
  <1>1. PICK q, after, h : /\ q = queries[i] /\ after = SubSeq(q.left, n + 1, Len(q.left))
                           /\ h = IF lost THEN "lost" ELSE "due"
    OBVIOUS
  <1>2. PICK p : p = [q EXCEPT !.listening = TRUE, !.head = h, !.brings = after, !.left = after]
    OBVIOUS
  <1>3. /\ q.answered /\ ~q.listening /\ (n > 0 => lost) /\ queries' = Put(queries, i, p)
        /\ own' = (own /\ ~lost)
        /\ UNCHANGED <<active, view, results, store, cursor, edit, sent, copied>>
    BY <1>1, <1>2 DEF Listens, QueriesKept, Put
  <1>4. queries \in Seq(Asked) /\ Line(queries, view) /\ RowsTyped /\ q \in Asked
    BY <1>1 DEF GInv, RowsTyped
  <1>5. q.left \in Seq(Row) /\ n \in 0 .. Len(q.left) /\ Len(q.left) \in Nat
        /\ InLine(queries, view, i)
    BY <1>1, <1>4 DEF Asked, Line
  <1>6. after \in Seq(Row) /\ (n = 0 => after = q.left)
    <2>1. PICK left : left = q.left
      OBVIOUS
    <2>2. after = SubSeq(left, n + 1, Len(left)) /\ left \in Seq(Row) /\ n \in 0 .. Len(left)
      BY <1>1, <1>5, <2>1
    <2>3. after \in Seq(Row) /\ Len(after) = Len(left) - n
          /\ \A k \in 1 .. Len(after) : after[k] = left[n + k]
      BY <2>2
    <2>4. n = 0 => after = left
      BY <2>2, <2>3, SeqEqual
    <2>5. QED  BY <2>1, <2>3, <2>4
  <1>7. /\ p \in Asked /\ p.answered /\ p.listening /\ p.tab = q.tab /\ p.view = q.view
        /\ p.late = q.late /\ p.head = h /\ p.brings = after /\ p.left = after
    BY <1>1, <1>2, <1>3, <1>4, <1>6 DEF Asked
  <1>8. PICK line : line = Put(queries, i, p)
    OBVIOUS
  <1>9. /\ line \in Seq(Asked) /\ Len(line) = Len(queries) /\ Line(line, view) /\ line[i] = p
        /\ \A j \in 1 .. Len(queries) : j # i => Alike(line[j], queries[j])
    BY <1>1, <1>3, <1>4, <1>7, <1>8, LineStreams
  <1>10. queries' = line
    BY <1>3, <1>8
  <1>11. RowsTyped' /\ Line(queries, view)' /\ Bare'
    BY <1>3, <1>4, <1>9, <1>10 DEF RowsTyped, GInv, Bare, store, cursor, Line, InLine, Based
  <1>12. Edited'
    BY <1>1, <1>3, StreamingUnsure DEF Edited
  <1>13. ASSUME own, ~lost PROVE Owned'
    <2>1. /\ Shown.base \in Tables /\ (columns # None => Picked) /\ Streams(q) /\ Sole(i)
          /\ \A k \in 1 .. Len(rows) : rows[k].table = columns
      BY <1>1, <1>3, <1>13 DEF GInv, Owned
    <2>2. Fresh(q) /\ after = q.left /\ h = "due" /\ q.head = "due"
      BY <1>1, <1>3, <1>5, <1>6, <1>13 DEF InLine, Fresh
    <2>3. StreamsThen(p)
      BY <1>3, <1>7, <2>1, <2>2 DEF Streams, StreamsThen, Brings, Fresh, store
    <2>4. \A j \in 1 .. Len(queries') : queries'[j].answered => j = i
      BY <1>9, <1>10, <2>1 DEF Sole, Alike
    <2>5. \A j \in 1 .. Len(queries') : queries'[j].answered =>
             /\ StreamsThen(queries'[j])
             /\ \A k \in 1 .. Len(queries') : queries'[k].answered => k = j
      BY <1>9, <1>10, <2>3, <2>4
    <2>6. i \in 1 .. Len(queries') /\ queries'[i].answered
      BY <1>7, <1>9, <1>10
    <2>7. Shown' = Shown /\ (columns' # None => Picked')
      BY <1>3, <2>1 DEF Shown, Picked, RowsAt, store, cursor
    <2>8. \A k \in 1 .. Len(rows') : rows'[k].table = columns'
      BY <1>3, <2>1 DEF store
    <2>9. QED  BY <2>1, <2>5, <2>6, <2>7, <2>8 DEF Owned, Streams, StreamsThen, Sole
  <1>14. Owned'
    BY <1>3, <1>13 DEF Owned
  <1>15. EditsHitTheirRow' /\ DeleteNamesSelection'
    BY <1>3 DEF GInv, EditsHitTheirRow, DeleteNamesSelection
  <1>16. QED  BY <1>11, <1>12, <1>14, <1>15 DEF GInv

\* The i-th query is over before anyone listens.
LEMMA EndsStep ==
    ASSUME FInv, GInv, NEW i \in 1 .. Len(queries), EndsUnheard(i)
    PROVE  GInv'
  <1>1. /\ queries[i].answered /\ queries' = RemoveAt(queries, i) /\ own' = FALSE
        /\ UNCHANGED <<active, view, results, store, cursor, edit, sent, copied>>
    BY DEF EndsUnheard, QueriesKept
  <1>2. queries \in Seq(Asked) /\ Line(queries, view) /\ RowsTyped
    BY DEF GInv, RowsTyped
  <1>3. Marked(queries, queries, i)
    BY <1>1, <1>2, AnsweredMarks
  <1>4. PICK new : new = RemoveAt(queries, i)
    OBVIOUS
  <1>5. new \in Seq(Asked) /\ Line(new, view)
    BY <1>2, <1>3, <1>4, LineShrinks
  <1>6. queries' = new
    BY <1>1, <1>4
  <1>7. RowsTyped' /\ Line(queries, view)' /\ Bare'
    BY <1>1, <1>2, <1>5, <1>6 DEF RowsTyped, GInv, Bare, store, cursor, Line, InLine, Based
  <1>8. Edited' /\ Owned'
    BY <1>1, StreamingUnsure DEF Edited, Owned
  <1>9. EditsHitTheirRow' /\ DeleteNamesSelection'
    BY <1>1 DEF GInv, EditsHitTheirRow, DeleteNamesSelection
  <1>10. QED  BY <1>7, <1>8, <1>9 DEF GInv

\* The columns of the i-th query are heard.
LEMMA HeadsStep ==
    ASSUME FInv, GInv, NEW i \in 1 .. Len(queries), Heads(i)
    PROVE  GInv'
  <1>1. PICK q, c : q = queries[i] /\ c = IF columns = None THEN q.view.base ELSE columns
    OBVIOUS
  <1>2. PICK p : p = [q EXCEPT !.head = "heard"]
    OBVIOUS
  <1>3. /\ q.listening /\ q.head = "due" /\ queries' = Put(queries, i, p)
        /\ Render(rows, c, streaming)
        /\ UNCHANGED <<active, view, results, own, edit, sent, copied>>
    BY <1>1, <1>2 DEF Heads, QueriesKept, Put
  <1>4. queries \in Seq(Asked) /\ Line(queries, view) /\ RowsTyped /\ q \in Asked /\ Bare
        /\ active \in Tabs
    BY <1>1 DEF GInv, RowsTyped, FInv, FiltersTyped
  <1>5. InLine(queries, view, i) /\ q.answered /\ q.view.base \in Tables
    BY <1>1, <1>3, <1>4 DEF Line, InLine, Based
  <1>6. /\ p \in Asked /\ p.answered /\ p.listening /\ p.tab = q.tab /\ p.view = q.view
        /\ p.late = q.late /\ p.head = "heard" /\ p.brings = q.brings /\ p.left = q.left
    BY <1>2, <1>3, <1>4, <1>5 DEF Asked
  <1>7. PICK line : line = Put(queries, i, p)
    OBVIOUS
  <1>8. /\ line \in Seq(Asked) /\ Len(line) = Len(queries) /\ Line(line, view) /\ line[i] = p
        /\ \A j \in 1 .. Len(queries) : j # i => Alike(line[j], queries[j])
    BY <1>1, <1>4, <1>5, <1>6, <1>7, LineStreams
  <1>9. queries' = line
    BY <1>3, <1>7
  <1>10. rows' \in Seq(Row) /\ columns' \in Table /\ streaming' \in BOOLEAN /\ Bare'
    <2>1. rows \in Seq(Row) /\ c \in Table /\ streaming \in BOOLEAN
          /\ results' \in [Tabs -> Result \cup {None}] /\ active' \in Tabs
      BY <1>1, <1>3, <1>4, <1>5 DEF RowsTyped, Table
    <2>2. QED  BY <1>3, <1>4, <2>1, RenderBare
  <1>11. RowsTyped' /\ Line(queries, view)'
    BY <1>3, <1>4, <1>8, <1>9, <1>10 DEF RowsTyped, Line, InLine, Based
  <1>12. Edited'
    BY <1>1, <1>3, <1>5, StreamingUnsure DEF Edited
  <1>13. ASSUME own PROVE Owned'
    <2>1. /\ Shown.base \in Tables /\ Streams(q) /\ Sole(i)
      BY <1>1, <1>5, <1>13 DEF GInv, Owned
    <2>2. streaming /\ rows = <<>> /\ columns = None
      BY <1>3, <2>1 DEF Streams, Brings
    <2>3. rows' = <<>> /\ columns' = q.view.base /\ streaming'
      BY <1>1, <1>3, <2>2 DEF Render
    <2>4. selected' = {} /\ last' = None /\ chosen' = {}
      BY <1>3, <1>5, <2>2, <2>3, GridAssumption DEF Render
    <2>5. Picked'
      BY <2>4 DEF Picked, RowsAt
    <2>6. StreamsThen(p)
      BY <1>3, <1>6, <2>1, <2>2, <2>3 DEF Streams, StreamsThen, Brings
    <2>7. \A j \in 1 .. Len(queries') : queries'[j].answered => j = i
      BY <1>8, <1>9, <2>1 DEF Sole, Alike
    <2>8. \A j \in 1 .. Len(queries') : queries'[j].answered =>
             /\ StreamsThen(queries'[j])
             /\ \A k \in 1 .. Len(queries') : queries'[k].answered => k = j
      BY <1>8, <1>9, <2>6, <2>7
    <2>9. i \in 1 .. Len(queries') /\ queries'[i].answered
      BY <1>6, <1>8, <1>9
    <2>10. Shown' = Shown /\ \A k \in 1 .. Len(rows') : rows'[k].table = columns'
      BY <1>3, <2>3 DEF Shown
    <2>11. QED  BY <2>1, <2>5, <2>8, <2>9, <2>10 DEF Owned, Streams, StreamsThen, Sole
  <1>14. Owned'
    BY <1>3, <1>13 DEF Owned
  <1>15. EditsHitTheirRow' /\ DeleteNamesSelection'
    BY <1>3 DEF GInv, EditsHitTheirRow, DeleteNamesSelection
  <1>16. QED  BY <1>10, <1>11, <1>12, <1>14, <1>15 DEF GInv

\* A batch of the only query that streams, which may be the last.
LEMMA BatchStep ==
    ASSUME FInv, GInv, NEW i \in 1 .. Len(queries), NEW n \in 0 .. Len(queries[i].left),
           Batch(i, n)
    PROVE  GInv'
  <1>1. PICK q, r : q = queries[i] /\ r = RowsOf(q.view)
    OBVIOUS
  <1>2. PICK all, rest : /\ all = rows \o SubSeq(q.left, 1, n)
                         /\ rest = SubSeq(q.left, n + 1, Len(q.left))
    OBVIOUS
  <1>19. PICK final \in BOOLEAN : final <=> n = Len(q.left)
    <2>1. CASE n = Len(q.left)
      BY <2>1
    <2>2. CASE n # Len(q.left)
      BY <2>2
    <2>3. QED  BY <2>1, <2>2
  <1>3. PICK t, f, s : /\ t = (IF q.base THEN active ELSE q.tab)
                       /\ f = (IF q.head = "heard" THEN q.view.base ELSE None)
                       /\ s = (streaming /\ ~final)
    OBVIOUS
  <1>4. /\ q.listening /\ (q.head # "due" \/ q.left = <<>>)
        /\ active' = active /\ own' = own /\ edit' = edit
        /\ queries' = IF final THEN RemoveAt(queries, i)
                      ELSE [queries EXCEPT ![i].left = SubSeq(@, n + 1, Len(@))]
        /\ results' = IF final /\ q.tab # None
             THEN [results EXCEPT ![t] =
                     [table |-> q.view.base, rows |-> q.brings, fields |-> f]]
             ELSE results
        /\ Render(LastRows(all), columns, s)
        /\ UNCHANGED <<view, sent, copied>>
    BY <1>1, <1>2, <1>3, <1>19 DEF Batch, QueriesKept
  <1>5. queries \in Seq(Asked) /\ Line(queries, view) /\ active \in Tabs /\ RowsTyped /\ Bare
        /\ view \in [Tabs -> View]
    BY DEF GInv, RowsTyped, FInv, FiltersTyped
  <1>6. /\ q \in Asked /\ q.tab \in Tabs \cup {None} /\ q.view \in View /\ q.left \in Seq(Row)
        /\ q.view.base \in Tables /\ q.view.base # None /\ n \in 0 .. Len(q.left)
        /\ q.answered /\ Based(q, view) /\ q.brings \in Seq(Row)
    <2>1. q \in Asked
      BY <1>1, <1>5
    <2>2. InLine(queries, view, i)
      BY <1>1, <1>5 DEF Line
    <2>3. Based(q, view) /\ q.view.base \in Tables /\ q.answered
      BY <1>1, <1>4, <2>2 DEF InLine, Based
    <2>4. QED  BY <1>1, <2>1, <2>3, GridAssumption DEF Asked
  <1>7. r \in Seq(Row) /\ Len(r) \in Nat
        /\ \A k \in 1 .. Len(r) : r[k].table = q.view.base
    BY <1>1, <1>6, RowsOfView
  <1>8. rows \in Seq(Row) /\ columns \in Table /\ streaming \in BOOLEAN /\ Len(rows) \in Nat
        /\ results \in [Tabs -> Result \cup {None}]
    BY <1>5 DEF RowsTyped
  <1>18. PICK came : came = q.left
    OBVIOUS
  <1>9. /\ all \in Seq(Row) /\ rest \in Seq(Row) /\ Appended(rows, came, n, all, rest)
        /\ came \in Seq(Row) /\ n \in 0 .. Len(came)
    <2>1. came \in Seq(Row) /\ n \in 0 .. Len(came) /\ rows \in Seq(Row)
      BY <1>6, <1>8, <1>18
    <2>2. all = With(rows, came, n) /\ rest = Without(came, n)
      BY <1>2, <1>18 DEF With, Without
    <2>3. all \in Seq(Row) /\ rest \in Seq(Row) /\ Appended(rows, came, n, all, rest)
      BY <2>1, <2>2, BatchIs
    <2>4. QED  BY <2>1, <2>3
  <1>10. PICK new : new = LastRows(all)
    OBVIOUS
  <1>11. new \in Seq(Row) /\ Len(new) \in Nat
    BY <1>9, <1>10, LastRowsAre
  <1>12. (q.tab # None => t \in Tabs) /\ s \in BOOLEAN
    BY <1>3, <1>5, <1>6, <1>8
  <1>13. results' \in [Tabs -> Result \cup {None}]
    <2>1. [table |-> q.view.base, rows |-> q.brings, fields |-> f] \in Result
      BY <1>3, <1>6 DEF Result, Table
    <2>2. PICK res : res = [table |-> q.view.base, rows |-> q.brings, fields |-> f]
      OBVIOUS
    <2>3. results' = results \/ (results' = [results EXCEPT ![t] = res] /\ t \in Tabs)
      BY <1>4, <1>12, <2>2
    <2>4. QED  BY <1>8, <2>1, <2>2, <2>3
  <1>14. rows' \in Seq(Row) /\ columns' \in Table /\ streaming' \in BOOLEAN /\ Bare'
    <2>1. Render(new, columns, s)
      BY <1>4, <1>10
    <2>2. active' \in Tabs /\ columns \in Table /\ s \in BOOLEAN /\ new \in Seq(Row)
      BY <1>4, <1>5, <1>8, <1>11, <1>12
    <2>3. RowsTyped /\ Bare
      BY <1>5
    <2>4. QED  BY <1>13, <2>1, <2>2, <2>3, RenderBare
  <1>15. CASE final
    <2>1. n = Len(q.left) /\ queries' = RemoveAt(queries, i)
      BY <1>4, <1>15, <1>19
    <2>2. Marked(queries, queries, i)
      BY <1>1, <1>5, <1>6, AnsweredMarks
    <2>3. PICK left : left = RemoveAt(queries, i)
      OBVIOUS
    <2>13. left \in Seq(Asked) /\ Line(left, view) /\ Leaves(queries, i, left)
      BY <1>5, <2>2, <2>3, LineShrinks
    <2>4. /\ left \in Seq(Asked) /\ Line(left, view)
          /\ \A j \in 1 .. Len(queries) \ {i} : \E k \in 1 .. Len(left) : left[k].tab = queries[j].tab
          /\ \A k \in 1 .. Len(left) : \E j \in 1 .. Len(queries) \ {i} :
                left[k].answered = queries[j].answered
      BY <2>13 DEF Leaves
    <2>5. queries' = left
      BY <2>1, <2>3
    <2>6. RowsTyped'
      <3>1. own' = own /\ edit' = edit
        BY <1>4
      <3>2. QED  BY <1>5, <1>13, <1>14, <2>4, <2>5, <3>1 DEF RowsTyped
    <2>7. Line(queries, view)'
      <3>1. view' = view
        BY <1>4
      <3>2. Line(queries', view')
        BY <2>4, <2>5, <3>1
      <3>3. QED  BY <3>2 DEF Line, InLine, Based
    <2>8. ASSUME own PROVE Owned'
      <3>1. /\ Shown.base \in Tables /\ (columns # None => Picked) /\ Streams(q) /\ Sole(i)
            /\ \A k \in 1 .. Len(rows) : rows[k].table = columns
        BY <1>1, <1>6, <2>8 DEF GInv, Owned
      <3>2. PICK m \in 0 .. Len(r) : Window(rows, r, m) /\ Rest(q.left, r, m)
        BY <1>1, <3>1 DEF Streams, Brings
      <3>3. m + n \in 0 .. Len(r) /\ Len(new) >= Len(rows) /\ Window(new, r, m + n)
        BY <1>7, <1>8, <1>9, <1>10, <1>18, <3>2, WindowMoves
      <3>4. m + n = Len(r)
        BY <1>6, <1>7, <2>1, <3>2 DEF Rest
      <3>5. new = LastRows(r) /\ (new = <<>> => r = <<>>)
        <4>1. Window(new, r, Len(r))
          BY <3>3, <3>4
        <4>2. new = LastRows(r)
          BY <1>7, <1>11, <4>1, WindowEnds
        <4>3. Len(new) = 0 => Len(r) = 0
          BY <1>7, <4>1, GridAssumption DEF Window
        <4>4. QED  BY <1>7, <4>2, <4>3
      <3>6. /\ q.tab = active /\ t = active /\ q.brings = r
            /\ columns = q.view.base \/ (columns = None /\ q.left = <<>> /\ rows = <<>>)
            /\ columns = q.view.base \/ columns = None
        BY <1>1, <1>3, <1>4, <3>1 DEF Streams, Brings
      <3>7. /\ results'[active] = [table |-> q.view.base, rows |-> r, fields |-> f] /\ ~s
            /\ q.tab # None
        BY <1>3, <1>4, <1>5, <1>8, <1>12, <1>15, <3>6, GridAssumption
      <3>8. rows' = new /\ columns' = columns /\ ~streaming'
        <4>1. results'[active'].rows = r
          BY <1>4, <3>7
        <4>2. new = <<>> => results'[active'].rows = <<>>
          BY <3>5, <4>1
        <4>3. QED  BY <1>4, <1>10, <3>7, <4>2 DEF Render
      <3>17. columns = None => new = <<>>
        <4>1. ASSUME columns = None PROVE Len(new) = 0
          <5>1. q.left = <<>> /\ Len(q.left) = 0 /\ rows = <<>> /\ Len(rows) = 0
            BY <1>6, <3>6, <4>1, GridAssumption
          <5>2. n = 0 /\ Window(rows, r, m) /\ RowLimit >= 1
            BY <1>6, <3>2, <5>1, GridAssumption
          <5>3. m = 0
            BY <1>7, <5>1, <5>2, GridAssumption DEF Window
          <5>4. Window(new, r, 0)
            BY <3>3, <5>2, <5>3
          <5>5. QED  BY <5>4, GridAssumption DEF Window
        <4>2. QED  BY <1>11, <4>1
      <3>9. ASSUME columns # None PROVE Picked'
        <4>1. selected' = selected /\ last' = last
              /\ chosen' = IF new = rows \/ IsPrefix(rows, new) THEN chosen ELSE None
          BY <1>4, <1>10, <3>8 DEF Render
        <4>2. selected \subseteq 0 .. Len(rows) /\ (last # None => last \in 0 .. Len(rows))
              /\ (chosen # None => chosen = RowsAt(selected))
          BY <3>1, <3>9 DEF Picked
        <4>3. ASSUME chosen' # None PROVE chosen' = RowsAt(selected)'
          <5>1. chosen' = chosen /\ chosen = RowsAt(selected)
                /\ (new = rows \/ IsPrefix(rows, new))
            BY <4>1, <4>2, <4>3
          <5>2. \A k \in 1 .. Len(rows) : new[k] = rows[k]
            BY <1>8, <1>11, <5>1 DEF IsPrefix
          <5>3. selected \cap DOMAIN new = selected \cap DOMAIN rows
                /\ \A k \in selected \cap DOMAIN rows : new[k] = rows[k]
            BY <1>8, <1>11, <3>3, <4>2, <5>2
          <5>4. QED  BY <3>8, <4>1, <5>1, <5>3 DEF RowsAt
        <4>4. QED  BY <1>8, <1>11, <3>3, <3>8, <4>1, <4>2, <4>3 DEF Picked
      <3>10. \A k \in 1 .. Len(rows') : rows'[k].table = columns'
        <4>1. Len(new) \in Nat /\ Len(new) <= Len(r)
              /\ \A k \in 1 .. Len(new) : new[k] = r[Len(r) - Len(new) + k]
          <5>1. Window(new, r, Len(r))
            BY <3>3, <3>4
          <5>2. RowLimit \in Nat
            BY GridAssumption
          <5>3. Len(new) = IF Len(r) > RowLimit THEN RowLimit ELSE Len(r)
            BY <5>1 DEF Window
          <5>4. Len(r) \in Nat
            BY <1>7
          <5>5. Len(new) \in Nat /\ Len(new) <= Len(r)
            BY <5>2, <5>3, <5>4
          <5>6. \A k \in 1 .. Len(new) : new[k] = r[Len(r) - Len(new) + k]
            BY <5>1 DEF Window
          <5>7. QED  BY <5>5, <5>6
        <4>2. \A k \in 1 .. Len(new) : Len(r) - Len(new) + k \in 1 .. Len(r)
          BY <1>7, <4>1
        <4>3. \A k \in 1 .. Len(new) : new[k].table = q.view.base
          BY <1>7, <4>1, <4>2
        <4>4. new = <<>> => Len(new) = 0
          OBVIOUS
        <4>5. QED  BY <3>6, <3>8, <3>17, <4>3, <4>4
      <3>11. \A k \in 1 .. Len(queries') : ~queries'[k].answered
        BY <2>4, <2>5, <3>1 DEF Sole
      <3>12. (\E k \in 1 .. Len(queries') : queries'[k].tab = active')
             \/ rows' = LastRows(RowsOf(Shown'))
        <4>1. CASE \E j \in 1 .. Len(queries) \ {i} : queries[j].tab = active
          BY <1>4, <2>4, <2>5, <4>1
        <4>2. CASE \A j \in 1 .. Len(queries) \ {i} : queries[j].tab # active
          <5>1. ~q.late /\ q.tab # None
            BY <3>1, <3>7 DEF Streams, Brings
          <5>2. \A j \in 1 .. Len(queries) : j > i => queries[j].tab # q.tab
            BY <3>6, <4>2
          <5>3. q.view = view[q.tab]
            BY <1>1, <1>5, <5>1, <5>2 DEF Line, InLine
          <5>4. Shown' = q.view
            BY <1>4, <3>6, <5>3 DEF Shown
          <5>5. QED  BY <1>1, <3>5, <3>8, <5>4
        <4>3. QED  BY <4>1, <4>2
      <3>13. columns' # None => results'[active'].table = columns'
        BY <1>4, <3>6, <3>7, <3>8
      <3>14. Calm'
        BY <3>8, <3>12, <3>13 DEF Calm
      <3>15. Shown'.base \in Tables
        BY <1>4, <3>1 DEF Shown
      <3>16. QED  BY <3>8, <3>9, <3>10, <3>11, <3>14, <3>15 DEF Owned, Shown
    <2>9. Owned'
      BY <1>4, <2>8 DEF Owned
    <2>10. Edited'
      BY <1>1, <1>4, <1>6, StreamingUnsure DEF Edited
    <2>11. EditsHitTheirRow' /\ DeleteNamesSelection'
      BY <1>4 DEF GInv, EditsHitTheirRow, DeleteNamesSelection
    <2>12. QED  BY <1>14, <2>6, <2>7, <2>9, <2>10, <2>11 DEF GInv
  <1>16. CASE ~final
    <2>1. PICK p : p = [q EXCEPT !.left = rest]
      OBVIOUS
    <2>2. /\ p \in Asked /\ p.answered /\ p.listening /\ p.tab = q.tab /\ p.view = q.view
          /\ p.late = q.late /\ p.head = q.head /\ p.brings = q.brings /\ p.left = rest
      BY <1>4, <1>6, <1>9, <2>1 DEF Asked
    <2>3. queries' = Put(queries, i, p)
      BY <1>1, <1>2, <1>4, <1>16, <2>1 DEF Put
    <2>4. PICK line : line = Put(queries, i, p)
      OBVIOUS
    <2>5. /\ line \in Seq(Asked) /\ Len(line) = Len(queries) /\ Line(line, view) /\ line[i] = p
          /\ \A j \in 1 .. Len(queries) : j # i => Alike(line[j], queries[j])
      BY <1>1, <1>5, <1>6, <2>2, <2>4, LineStreams
    <2>6. queries' = line
      BY <2>3, <2>4
    <2>7. RowsTyped'
      BY <1>4, <1>5, <1>13, <1>14, <2>5, <2>6 DEF RowsTyped
    <2>8. Line(queries, view)'
      <3>1. view' = view
        BY <1>4
      <3>2. Line(queries', view')
        BY <2>5, <2>6, <3>1
      <3>3. QED  BY <3>2 DEF Line, InLine, Based
    <2>9. ASSUME own PROVE Owned'
      <3>1. /\ Shown.base \in Tables /\ (columns # None => Picked) /\ Streams(q) /\ Sole(i)
            /\ \A k \in 1 .. Len(rows) : rows[k].table = columns
        BY <1>1, <1>6, <2>9 DEF GInv, Owned
      <3>2. PICK m \in 0 .. Len(r) : Window(rows, r, m) /\ Rest(q.left, r, m)
        BY <1>1, <3>1 DEF Streams, Brings
      <3>3. m + n \in 0 .. Len(r) /\ Len(new) >= Len(rows) /\ Window(new, r, m + n)
            /\ Rest(rest, r, m + n)
        BY <1>7, <1>8, <1>9, <1>10, <1>18, <3>2, WindowMoves
      <3>4. /\ q.tab = active /\ columns = q.view.base /\ q.head = "heard" /\ ~q.late /\ s
            /\ q.brings = r
        <4>1. q.left # <<>>
          BY <1>6, <1>16, <1>19
        <4>2. QED  BY <1>1, <1>3, <1>4, <1>16, <3>1, <4>1 DEF Streams, Brings
      <3>5. rows' = new /\ columns' = columns /\ streaming'
        BY <1>4, <1>10, <3>4 DEF Render
      <3>6. ASSUME columns # None PROVE Picked'
        <4>1. selected' = selected /\ last' = last
              /\ chosen' = IF new = rows \/ IsPrefix(rows, new) THEN chosen ELSE None
          BY <1>4, <1>10, <3>5 DEF Render
        <4>2. selected \subseteq 0 .. Len(rows) /\ (last # None => last \in 0 .. Len(rows))
              /\ (chosen # None => chosen = RowsAt(selected))
          BY <3>1, <3>6 DEF Picked
        <4>3. ASSUME chosen' # None PROVE chosen' = RowsAt(selected)'
          <5>1. chosen' = chosen /\ chosen = RowsAt(selected)
                /\ (new = rows \/ IsPrefix(rows, new))
            BY <4>1, <4>2, <4>3
          <5>2. \A k \in 1 .. Len(rows) : new[k] = rows[k]
            BY <1>8, <1>11, <5>1 DEF IsPrefix
          <5>3. selected \cap DOMAIN new = selected \cap DOMAIN rows
                /\ \A k \in selected \cap DOMAIN rows : new[k] = rows[k]
            BY <1>8, <1>11, <3>3, <4>2, <5>2
          <5>4. QED  BY <3>5, <4>1, <5>1, <5>3 DEF RowsAt
        <4>4. QED  BY <1>8, <1>11, <3>3, <3>5, <4>1, <4>2, <4>3 DEF Picked
      <3>7. \A k \in 1 .. Len(rows') : rows'[k].table = columns'
        <4>1. PICK j : j = m + n
          OBVIOUS
        <4>2. j \in Nat /\ j <= Len(r) /\ Window(new, r, j)
          BY <1>7, <3>3, <4>1
        <4>3. Len(new) <= j /\ \A k \in 1 .. Len(new) : new[k] = r[j - Len(new) + k]
          BY <1>11, <4>2, GridAssumption DEF Window
        <4>4. \A k \in 1 .. Len(new) : j - Len(new) + k \in 1 .. Len(r)
          BY <1>7, <1>11, <4>2, <4>3
        <4>5. QED  BY <1>7, <3>4, <3>5, <4>3, <4>4
      <3>8. StreamsThen(p)
        <4>1. Window(rows', RowsOf(q.view), m + n) /\ Rest(rest, RowsOf(q.view), m + n)
              /\ m + n \in 0 .. Len(RowsOf(q.view))
          BY <1>1, <3>3, <3>5
        <4>2. QED  BY <1>1, <1>4, <2>2, <3>4, <3>5, <4>1 DEF StreamsThen, Brings
      <3>9. \A j \in 1 .. Len(queries') : queries'[j].answered => j = i
        BY <2>5, <2>6, <3>1 DEF Sole, Alike
      <3>10. i \in 1 .. Len(queries') /\ queries'[i].answered
        BY <2>2, <2>5, <2>6
      <3>11. \A j \in 1 .. Len(queries') : queries'[j].answered =>
                /\ StreamsThen(queries'[j])
                /\ \A k \in 1 .. Len(queries') : queries'[k].answered => k = j
        BY <2>5, <2>6, <3>8, <3>9
      <3>12. Shown'.base \in Tables
        BY <1>4, <3>1 DEF Shown
      <3>13. QED
        BY <3>5, <3>6, <3>7, <3>10, <3>11, <3>12 DEF Owned, Streams, StreamsThen, Sole
    <2>10. Owned'
      BY <1>4, <2>9 DEF Owned
    <2>11. Edited'
      BY <1>1, <1>4, <1>6, StreamingUnsure DEF Edited
    <2>12. EditsHitTheirRow' /\ DeleteNamesSelection'
      BY <1>4 DEF GInv, EditsHitTheirRow, DeleteNamesSelection
    <2>13. QED  BY <1>14, <2>7, <2>8, <2>10, <2>11, <2>12 DEF GInv
  <1>17. QED  BY <1>15, <1>16

----------------------------------------------------------------------------
\* Gestures on the rows.

\* Rows are selected, all of them rows the grid shows.
LEMMA SelectStep ==
    ASSUME FInv, GInv, NEW s, NEW anchor, Select(s, anchor),
           own /\ columns # None => s \subseteq 0 .. Len(rows) /\ (anchor # None => anchor \in 0 .. Len(rows))
    PROVE  GInv'
  <1>1. /\ selected' = s /\ last' = anchor /\ chosen' = RowsAt(s)
        /\ UNCHANGED <<active, view, results, rows, columns, streaming, queries, own, edit,
                       sent, copied>>
    BY DEF Select, GridKept, store
  <1>2. RowsTyped' /\ Line(queries, view)' /\ Edited'
    BY <1>1 DEF GInv, RowsTyped, Line, InLine, Based, Edited, Shown
  <1>3. Bare'
    <2>1. rows = <<>> => chosen' = {}
      BY <1>1 DEF RowsAt
    <2>2. QED  BY <1>1, <2>1 DEF GInv, Bare
  <1>4. own /\ columns # None => Picked'
    BY <1>1 DEF Picked, RowsAt
  <1>5. Owned'
    BY <1>1, <1>4 DEF GInv, Owned, Streams, Brings, Sole, Calm, Shown
  <1>6. EditsHitTheirRow' /\ DeleteNamesSelection'
    BY <1>1 DEF GInv, EditsHitTheirRow, DeleteNamesSelection
  <1>7. QED  BY <1>2, <1>3, <1>5, <1>6 DEF GInv

LEMMA ClickStep ==
    ASSUME FInv, GInv, NEW i \in DOMAIN rows, ClickRow(i) \/ CtrlClickRow(i) \/ ShiftClickRow(i)
    PROVE  GInv'
  <1>1. rows \in Seq(Row) /\ Len(rows) \in Nat /\ i \in 1 .. Len(rows)
    BY DEF GInv, RowsTyped
  <1>3. own /\ columns # None => /\ selected \subseteq 0 .. Len(rows)
                                 /\ last # None => last \in 0 .. Len(rows)
    BY DEF GInv, Owned, Picked
  <1>4. CASE ClickRow(i)
    BY <1>1, <1>4, SelectStep DEF ClickRow
  <1>5. CASE CtrlClickRow(i)
    <2>1. PICK s : s = IF i \in selected THEN selected \ {i} ELSE selected \cup {i}
      OBVIOUS
    <2>2. Select(s, i)
      BY <1>5, <2>1 DEF CtrlClickRow
    <2>3. own /\ columns # None => s \subseteq 0 .. Len(rows)
      BY <1>1, <1>3, <2>1
    <2>4. QED  BY <1>1, <2>2, <2>3, SelectStep
  <1>6. CASE ShiftClickRow(i)
    <2>1. PICK s : s = selected \cup (last .. i) \cup (i .. last)
      OBVIOUS
    <2>2. Select(s, last) /\ last # None
      BY <1>6, <2>1 DEF ShiftClickRow
    <2>3. own /\ columns # None => s \subseteq 0 .. Len(rows)
      BY <1>1, <1>3, <2>1, <2>2
    <2>4. QED  BY <1>3, <2>2, <2>3, SelectStep
  <1>7. QED  BY <1>4, <1>5, <1>6

LEMMA MoveStep ==
    ASSUME FInv, GInv, NEW i \in DOMAIN rows \cup {0}, MoveTo(i, i) \/ MoveTo(i, last)
    PROVE  GInv'
  <1>1. rows \in Seq(Row) /\ Len(rows) \in Nat /\ i \in 0 .. Len(rows)
    BY DEF GInv, RowsTyped
  <1>3. own /\ columns # None => (last # None => last \in 0 .. Len(rows))
    BY DEF GInv, Owned, Picked
  <1>4. CASE MoveTo(i, i)
    BY <1>1, <1>4, SelectStep DEF MoveTo
  <1>5. CASE MoveTo(i, last)
    BY <1>1, <1>3, <1>5, SelectStep DEF MoveTo
  <1>6. QED  BY <1>4, <1>5

\* A cell is opened on a row of the grid, or the input is closed.
LEMMA OpenStep ==
    ASSUME FInv, GInv, NEW i \in DOMAIN rows, DoubleClick(i)
    PROVE  GInv'
  <1>1. rows \in Seq(Row) /\ Len(rows) \in Nat /\ i \in 1 .. Len(rows) /\ rows[i] \in Row
        /\ own \in BOOLEAN
    BY DEF GInv, RowsTyped
  <1>2. /\ ~streaming
        /\ edit' = [row |-> i, on |-> rows[i], sure |-> own /\ columns = Shown.base]
        /\ UNCHANGED <<active, view, results, rows, columns, streaming, queries, own,
                       selected, last, chosen, sent, copied>>
    BY DEF DoubleClick, GridKept, store, cursor
  <1>3. PICK on : on = rows[i]
    OBVIOUS
  <1>4. PICK sure \in BOOLEAN : sure <=> own /\ columns = Shown.base
    OBVIOUS
  <1>5. edit' = [row |-> i, on |-> on, sure |-> sure]
    BY <1>1, <1>2, <1>3, <1>4
  <1>6. edit' \in [row : Nat, on : Row, sure : BOOLEAN]
    BY <1>1, <1>3, <1>4, <1>5
  <1>7. RowsTyped'
    BY <1>2, <1>6 DEF GInv, RowsTyped
  <1>8. Edited'
    <2>1. ASSUME sure PROVE own /\ rows[i].table = Shown.base
      BY <1>1, <1>4, <2>1 DEF GInv, Owned
    <2>2. edit'.row = i /\ edit'.on = on /\ edit'.sure = sure
      BY <1>5
    <2>3. QED  BY <1>1, <1>2, <1>3, <2>1, <2>2 DEF Edited, Shown
  <1>9. Line(queries, view)' /\ Bare'
    BY <1>2 DEF GInv, Line, InLine, Based, Bare
  <1>10. Owned'
    BY <1>2 DEF GInv, Owned, Picked, RowsAt, Streams, Brings, Sole, Calm, Shown
  <1>11. EditsHitTheirRow' /\ DeleteNamesSelection'
    BY <1>2 DEF GInv, EditsHitTheirRow, DeleteNamesSelection
  <1>12. QED  BY <1>7, <1>8, <1>9, <1>10, <1>11 DEF GInv

\* The update names the table and the key of the row that was opened.
LEMMA CommitStep == ASSUME FInv, GInv, CommitEdit PROVE GInv'
  <1>1. /\ InputOpen /\ edit' = None
        /\ UNCHANGED <<active, view, results, store, queries, cursor, own, copied>>
    BY DEF CommitEdit, GridKept
  <1>2. edit # None /\ edit \in [row : Nat, on : Row, sure : BOOLEAN] /\ edit.row \in DOMAIN rows
    BY <1>1 DEF InputOpen, GInv, RowsTyped
  <1>3. EditsHitTheirRow'
    <2>1. CASE Shown.base = None
      BY <2>1 DEF CommitEdit, GInv, EditsHitTheirRow
    <2>2. CASE Shown.base # None
      <3>1. PICK at : at = [table |-> Shown.base, key |-> rows[edit.row].key]
        OBVIOUS
      <3>2. sent' = [on |-> edit.on, sure |-> edit.sure, at |-> at]
        BY <2>2, <3>1 DEF CommitEdit
      <3>3. ASSUME edit.sure PROVE at = edit.on
        <4>1. edit.on.table = Shown.base /\ rows[edit.row] = edit.on
          BY <1>2, <3>3 DEF GInv, Edited
        <4>2. edit.on \in Row
          BY <1>2
        <4>3. QED  BY <3>1, <4>1, <4>2 DEF Row
      <3>4. QED  BY <3>2, <3>3 DEF EditsHitTheirRow
    <2>3. QED  BY <2>1, <2>2
  <1>4. DeleteNamesSelection'
    BY <1>1 DEF GInv, DeleteNamesSelection
  <1>5. QED  BY <1>1, <1>3, <1>4, RowsStay

\* Steps that only close the input, write, or wait for a text.
LEMMA OtherStep ==
    ASSUME FInv, GInv,
           \/ CancelEdit \/ InsertRow \/ WriteFails
           \/ \E text \in Texts : TypeFilter(text) \/ TypeColumnFilter(text)
           \/ UNCHANGED vars
    PROVE  GInv'
  <1>1. /\ UNCHANGED <<active, view, results, store, queries, cursor, own, sent, copied>>
        /\ edit' = edit \/ edit' = None
    BY DEF CancelEdit, InsertRow, WriteFails, TypeFilter, TypeColumnFilter, GridKept,
       EditorKept, vars, cursor, store
  <1>2. EditsHitTheirRow' /\ DeleteNamesSelection'
    BY <1>1 DEF GInv, EditsHitTheirRow, DeleteNamesSelection
  <1>3. QED  BY <1>1, <1>2, RowsStay

\* The delete names the rows that were chosen.
LEMMA DeleteStep == ASSUME FInv, GInv, DeleteSelected PROVE GInv'
  <1>1. UNCHANGED <<active, view, results, store, queries, cursor, own, edit, sent>>
    BY DEF DeleteSelected, GridKept
  <1>2. PICK at : at = {[r EXCEPT !.table = results[active].table] : r \in RowsAt(selected)}
    OBVIOUS
  <1>3. PICK sure \in BOOLEAN : sure <=> own /\ ~streaming /\ chosen # None
    OBVIOUS
  <1>4. results[active] # None /\ columns # None /\ copied' = [of |-> chosen, sure |-> sure, at |-> at]
    BY <1>2, <1>3 DEF DeleteSelected, GInv, RowsTyped
  <1>5. ASSUME sure PROVE at = chosen
    <2>1. own /\ ~streaming /\ chosen # None /\ active \in Tabs /\ rows \in Seq(Row)
      BY <1>3, <1>5 DEF FInv, FiltersTyped, GInv, RowsTyped
    <2>2. /\ chosen = RowsAt(selected) /\ \A k \in 1 .. Len(rows) : rows[k].table = columns
          /\ \A i \in 1 .. Len(queries) : queries[i].answered => Streams(queries[i])
          /\ (\A i \in 1 .. Len(queries) : ~queries[i].answered) => Calm
      BY <1>4, <2>1 DEF GInv, Owned, Picked
    <2>3. results[active].table = columns
      BY <1>4, <2>1, <2>2 DEF Streams, Calm
    <2>4. ASSUME NEW r \in RowsAt(selected) PROVE [r EXCEPT !.table = results[active].table] = r
      <3>1. r \in Row /\ r.table = columns
        BY <2>1, <2>2 DEF RowsAt
      <3>2. QED  BY <2>3, <3>1 DEF Row
    <2>5. at = {r : r \in RowsAt(selected)}
      BY <1>2, <2>4
    <2>6. QED  BY <2>2, <2>5
  <1>6. DeleteNamesSelection'
    BY <1>4, <1>5 DEF DeleteNamesSelection
  <1>7. EditsHitTheirRow'
    BY <1>1 DEF GInv, EditsHitTheirRow
  <1>8. QED  BY <1>1, <1>6, <1>7, RowsStay

----------------------------------------------------------------------------
\* Every step.

LEMMA InitGInv == Init => GInv
  <1> SUFFICES ASSUME Init PROVE GInv
    OBVIOUS
  <1>1. RowsTyped
    <2>1. <<>> \in Seq(Asked) /\ <<>> \in Seq(Row) /\ None \in Table
      BY DEF Table
    <2>2. [t \in Tabs |-> None] \in [Tabs -> Result \cup {None}]
      OBVIOUS
    <2>3. QED  BY <2>1, <2>2 DEF Init, RowsTyped
  <1>2. Len(queries) = 0 /\ Len(rows) = 0
    BY DEF Init
  <1>3. Line(queries, view) /\ Bare /\ Owned /\ Edited
    BY <1>2 DEF Init, Line, Bare, Owned, Edited
  <1>4. EditsHitTheirRow /\ DeleteNamesSelection
    BY DEF Init, EditsHitTheirRow, DeleteNamesSelection
  <1>5. QED  BY <1>1, <1>3, <1>4 DEF GInv

\* The gestures, timers and statements that ask for another view of the same table.
LEMMA ViewStep ==
    ASSUME FInv, GInv,
           \/ FilterTimer \/ ColumnTimer \/ ClearFilter \/ ClearColumnFilter
           \/ HideColumnFilters \/ SetNullFilter \/ ToggleSort \/ WriteDone
    PROVE  GInv'
  <1>1. Shown \in View /\ Blank \in Filter
    BY DEF FInv, FiltersTyped, Shown, Filter, Blank
  <1>2. PICK v : /\ SetView(v) /\ v \in View /\ v.base = Shown.base
                 /\ UNCHANGED <<active, results, store, edit, cursor, own, sent, copied>>
    <2>1. CASE FilterTimer
      <3>1. PICK text \in timers.global : SetView(WithFilter(Shown, text))
        BY <2>1 DEF FilterTimer
      <3>2. text \in Filter
        BY GridAssumption DEF FInv, FiltersTyped, Waiting, Filter
      <3>3. WithFilter(Shown, text) \in View /\ WithFilter(Shown, text).base = Shown.base
        BY <1>1, <3>2, ViewsTyped DEF WithFilter, View
      <3>4. QED  BY <2>1, <3>1, <3>3 DEF FilterTimer, EditorKept
    <2>2. CASE ColumnTimer
      <3>1. PICK text \in timers.column : SetView(WithColumnFilter(Shown, text))
        BY <2>2 DEF ColumnTimer
      <3>2. text \in Filter
        BY GridAssumption DEF FInv, FiltersTyped, Waiting, Filter
      <3>3. /\ WithColumnFilter(Shown, text) \in View
            /\ WithColumnFilter(Shown, text).base = Shown.base
        BY <1>1, <3>2, ViewsTyped DEF WithColumnFilter, View
      <3>4. QED  BY <2>2, <3>1, <3>3 DEF ColumnTimer, EditorKept
    <2>3. CASE ClearFilter
      <3>1. WithFilter(Shown, Blank) \in View /\ WithFilter(Shown, Blank).base = Shown.base
        BY <1>1, ViewsTyped DEF WithFilter, View
      <3>2. QED  BY <2>3, <3>1 DEF ClearFilter, ChangeView, EditorKept
    <2>4. CASE ClearColumnFilter
      <3>1. /\ WithColumnFilter(Shown, Blank) \in View
            /\ WithColumnFilter(Shown, Blank).base = Shown.base
        BY <1>1, ViewsTyped DEF WithColumnFilter, View
      <3>2. QED  BY <2>4, <3>1 DEF ClearColumnFilter, ChangeView, EditorKept
    <2>5. CASE HideColumnFilters
      <3>1. PICK v : v = [Shown EXCEPT !.column = Blank]
        OBVIOUS
      <3>2. v \in View /\ v.base = Shown.base
        BY <1>1, <3>1, ViewsTyped DEF View
      <3>3. QED  BY <2>5, <3>1, <3>2 DEF HideColumnFilters, ChangeView, EditorKept
    <2>6. CASE SetNullFilter
      <3>1. WithNullFilter(Shown) \in View /\ WithNullFilter(Shown).base = Shown.base
        BY <1>1, ViewsTyped DEF WithNullFilter, View
      <3>2. QED  BY <2>6, <3>1 DEF SetNullFilter, ChangeView, EditorKept
    <2>7. CASE ToggleSort
      <3>1. WithSort(Shown) \in View /\ WithSort(Shown).base = Shown.base
        BY <1>1, ViewsTyped DEF WithSort, View
      <3>2. QED  BY <2>7, <3>1 DEF ToggleSort, ChangeView, EditorKept
    <2>8. CASE WriteDone
      BY <1>1, <2>8 DEF WriteDone
    <2>9. QED  BY <2>1, <2>2, <2>3, <2>4, <2>5, <2>6, <2>7, <2>8
  <1>3. QED  BY <1>2, SetViewStep

LEMMA RunStep == ASSUME FInv, GInv, NEW table \in Tables, RunQuery(table) PROVE GInv'
  <1>1. PICK v : v = DefaultView(table)
    OBVIOUS
  <1>2. v \in View /\ v.base = table
    BY <1>1, ViewsTyped DEF DefaultView, Table
  <1>3. /\ view' = [view EXCEPT ![active] = v]
        /\ queries' = Append(queries, Query(active, v, TRUE))
        /\ edit' = Unsure
        /\ UNCHANGED <<active, results, store, cursor, own, sent, copied>>
    BY <1>1 DEF RunQuery
  <1>4. QED  BY <1>2, <1>3, AskStep

LEMMA AnalysisStep == ASSUME FInv, GInv, NEW table \in Tables, RunAnalysis(table) PROVE GInv'
  <1>1. PICK v : v = DefaultView(table)
    OBVIOUS
  <1>2. v \in View /\ v.base = table
    BY <1>1, ViewsTyped DEF DefaultView, Table
  <1>3. /\ view' = view /\ queries' = Append(queries, Query(None, v, FALSE)) /\ edit' = edit
        /\ UNCHANGED <<active, results, store, cursor, own, sent, copied>>
    BY <1>1 DEF RunAnalysis, EditorKept
  <1>4. view' = [view EXCEPT ![None] = v]
    BY <1>3, GridAssumption DEF FInv, FiltersTyped
  <1>5. QED  BY <1>2, <1>3, <1>4, AskStep

LEMMA NextGInv == FInv /\ GInv /\ [Next]_vars => GInv'
  <1> SUFFICES ASSUME FInv, GInv, [Next]_vars PROVE GInv'
    OBVIOUS
  <1>1. DOMAIN queries = 1 .. Len(queries)
    BY DEF GInv, RowsTyped
  <1>2. CASE \/ FilterTimer \/ ColumnTimer \/ ClearFilter \/ ClearColumnFilter
             \/ HideColumnFilters \/ SetNullFilter \/ ToggleSort \/ WriteDone
    BY <1>2, ViewStep
  <1>3. ASSUME NEW table \in Tables, RunQuery(table) PROVE GInv'
    BY <1>3, RunStep
  <1>4. ASSUME NEW t \in Tabs, SetActiveTab(t) PROVE GInv'
    BY <1>4, TabStep
  <1>5. ASSUME NEW i \in DOMAIN queries, Answer(i) PROVE GInv'
    BY <1>1, <1>5, AnswerStep
  <1>6. ASSUME NEW i \in DOMAIN queries, NEW finalizes \in BOOLEAN, Fail(i, finalizes)
        PROVE  GInv'
    BY <1>1, <1>6, FailStep
  <1>7. ASSUME NEW i \in DOMAIN queries, NEW n \in 0 .. Len(queries[i].left), Batch(i, n)
        PROVE  GInv'
    BY <1>1, <1>7, BatchStep
  <1>15. ASSUME NEW i \in DOMAIN queries, NEW lost \in BOOLEAN,
                NEW n \in 0 .. Len(queries[i].left), Listens(i, lost, n)
         PROVE  GInv'
    BY <1>1, <1>15, ListensStep
  <1>16. ASSUME NEW i \in DOMAIN queries, EndsUnheard(i) \/ Heads(i) PROVE GInv'
    BY <1>1, <1>16, EndsStep, HeadsStep
  <1>17. ASSUME NEW table \in Tables, RunAnalysis(table) PROVE GInv'
    BY <1>17, AnalysisStep
  <1>18. CASE CancelQuery
    BY <1>18, CancelStep
  <1>8. ASSUME NEW i \in DOMAIN rows, ClickRow(i) \/ CtrlClickRow(i) \/ ShiftClickRow(i)
        PROVE  GInv'
    BY <1>8, ClickStep
  <1>9. ASSUME NEW i \in DOMAIN rows, DoubleClick(i) PROVE GInv'
    BY <1>9, OpenStep
  <1>10. ASSUME NEW i \in DOMAIN rows \cup {0}, MoveTo(i, i) \/ MoveTo(i, last) PROVE GInv'
    BY <1>10, MoveStep
  <1>11. CASE CommitEdit
    BY <1>11, CommitStep
  <1>12. CASE DeleteSelected
    BY <1>12, DeleteStep
  <1>13. CASE \/ CancelEdit \/ InsertRow \/ WriteFails
              \/ \E text \in Texts : TypeFilter(text) \/ TypeColumnFilter(text)
              \/ UNCHANGED vars
    BY <1>13, OtherStep
  <1>14. QED
    BY <1>2, <1>3, <1>4, <1>5, <1>6, <1>7, <1>8, <1>9, <1>10, <1>11, <1>12, <1>13,
       <1>15, <1>16, <1>17, <1>18 DEF Next

\* Without queries or texts that wait, the rows are those of the view.
LEMMA GInvFollows == GInv => RowsFollowView
  <1> SUFFICES ASSUME GInv, own, queries = <<>> PROVE rows = LastRows(RowsOf(Shown))
    BY DEF RowsFollowView, Settled
  <1>1. Len(queries) = 0
    OBVIOUS
  <1>2. Calm
    BY <1>1 DEF GInv, Owned
  <1>3. QED  BY <1>1, <1>2 DEF Calm

\* Whatever is typed, sorted, run, answered, failed, switched to or selected meanwhile, in
\* any number of tabs: an edited cell updates the table and the key of the row that was
\* double-clicked, unless the rows or the tab were changed while it was edited or were not
\* the tab's own to begin with.
THEOREM EditsHit == Spec => []EditsHitTheirRow
  <1>1. FInv /\ GInv => EditsHitTheirRow
    BY DEF GInv
  <1>2. QED  BY <1>1, InitFInv, NextFInv, InitGInv, NextGInv, PTL DEF Spec

\* The DELETE copied for the selected rows names just the rows that were selected, however
\* often the rows were replaced since, unless they are not the tab's, still stream, or slid
\* in a full row store.
THEOREM DeletesHit == Spec => []DeleteNamesSelection
  <1>1. FInv /\ GInv => DeleteNamesSelection
    BY DEF GInv
  <1>2. QED  BY <1>1, InitFInv, NextFInv, InitGInv, NextGInv, PTL DEF Spec

\* Once every query asked has answered, in batches of any size, the rows are the last of
\* those the view of the bars asks, unless answers came in another order than they were
\* asked, streams were mixed, a query failed or the tab was changed.
THEOREM RowsFollow == Spec => []RowsFollowView
  <1>1. FInv /\ GInv => RowsFollowView
    BY GInvFollows
  <1>2. QED  BY <1>1, InitFInv, NextFInv, InitGInv, NextGInv, PTL DEF Spec
==============================================================================
