------------------------------ MODULE ListView ------------------------------
(***************************************************************************)
(* The list on screen: apply_filter_sort, render and the selection of      *)
(* src/app.rs, with the cells that src/ui.rs writes.                       *)
(*                                                                         *)
(* A refresh does not rebuild the list if it can help it: it compares the  *)
(* rows it has drawn with the new ones and writes the cells that differ,   *)
(* the measurements only in the part of the list that is scrolled into     *)
(* view.  The selection is an index; refreshes come while the user scrolls,*)
(* selects, or has a context menu open.                                    *)
(*                                                                         *)
(* Abstracted: evidence stands for trust and findings; load for CPU,       *)
(* memory and disk; the name, PID and path of a process never change, so   *)
(* that one column stands for the three.  External: deleting all items of  *)
(* the control clears its selection and scrolls it to the top.             *)
(***************************************************************************)
EXTENDS Naturals, Sequences, FiniteSets, SequencesExt

CONSTANTS
    Keys,       \* the processes, by ProcKey
    NameOf,     \* NameOf[k]: the place of the name of k among the names
    Evidences,  \* trust and findings of a row
    RankOf,     \* RankOf[e]: risk_rank
    Loads,      \* measurements
    Scans,      \* bound: what a scan may find
    Filters,    \* a filter is the set of evidences that match it
    Queries,    \* a search: the keys and the labels that match it
    Columns,    \* bound: the columns the user may sort by
    Page        \* rows that fit the window

NoKey == 0

Labels == Evidences \cup {"Paused by ProcDrift"}

\* An empty search.
Everything == [keys |-> Keys, labels |-> Labels]

ASSUME ListAssumption ==
    /\ Keys \subseteq Nat \ {NoKey} /\ IsFiniteSet(Keys)
    /\ NameOf \in [Keys -> Nat] /\ RankOf \in [Evidences -> Nat]
    /\ Loads \subseteq Nat
    /\ Filters \subseteq SUBSET Evidences
    /\ Queries \subseteq [keys : SUBSET Keys, labels : SUBSET Labels] /\ Everything \in Queries
    /\ "finding" \in Columns /\ Columns \subseteq {"finding", "name", "load"}
    /\ Page \in Nat

Rows == [key : Keys, evidence : Evidences, paused : BOOLEAN, load : Loads]

\* What a line of the control shows.
Cells == [key : Keys, label : Labels, load : Loads]

ASSUME ScanAssumption ==
    \A s \in Scans : s \in Seq(Rows) /\ \A i, j \in DOMAIN s : s[i].key = s[j].key => i = j

VARIABLES
    rows,       \* AppState.rows
    displayed,  \* AppState.displayed
    rendered,   \* AppState.rendered: the rows as they were drawn
    filter, query, column, descending,  \* what the user asked for
    cells,      \* the control: its lines
    selected,   \* the control: the selected lines
    top,        \* the control: how many lines are scrolled out at the top
    menu,       \* the process of the line a context menu was opened on
    drawn       \* history: "refresh", "resort", or "scrolled" since then

vars == <<rows, displayed, rendered, filter, query, column, descending,
          cells, selected, top, menu, drawn>>

asked == <<filter, query, column, descending>>

KeysIn(s) == {s[i].key : i \in DOMAIN s}

Init ==
    /\ rows = <<>> /\ displayed = <<>> /\ rendered = <<>>
    /\ filter \in Filters
    /\ query = Everything
    /\ column = "finding" /\ descending = FALSE
    /\ cells = <<>> /\ selected = {} /\ top = 0
    /\ menu = NoKey
    /\ drawn = "resort"

-----------------------------------------------------------------------------
(* Selection *)

\* selected_key: of the first selected line.
SelectedKey ==
    IF selected = {} THEN NoKey ELSE rendered[Min(selected)].key

\* selected: the row every command acts on.
Selected == IF SelectedKey \in KeysIn(displayed) THEN SelectedKey ELSE NoKey

-----------------------------------------------------------------------------
(* apply_filter_sort *)

\* legacy_category, the first column.
Label(r) == IF r.paused THEN "Paused by ProcDrift" ELSE r.evidence

Matches(r, f, q) == r.evidence \in f /\ (r.key \in q.keys \/ Label(r) \in q.labels)

\* A stable sort of the rows of s at the places in found: the place of a row
\* counts those that go before it.
Sorted(s, found, before(_, _)) ==
    LET place == [i \in found |->
                    Cardinality({j \in found :
                        \/ before(s[j], s[i])
                        \/ ~before(s[i], s[j]) /\ j <= i})]
    IN  [n \in 1 .. Cardinality(found) |-> s[CHOOSE i \in found : place[i] = n]]

Before(a, b, c) ==
    CASE c = "finding" -> \/ RankOf[a.evidence] < RankOf[b.evidence]
                          \/ /\ RankOf[a.evidence] = RankOf[b.evidence]
                             /\ NameOf[a.key] < NameOf[b.key]
      [] c = "name"    -> NameOf[a.key] < NameOf[b.key]
      [] c = "load"    -> a.load < b.load

ByColumn(s, found, c, down) ==
    Sorted(s, found, LAMBDA a, b : IF down THEN Before(b, a, c) ELSE Before(a, b, c))

\* Where k was drawn; a row that was not drawn comes last.
Position(k) ==
    IF k \in KeysIn(rendered) THEN CHOOSE i \in DOMAIN rendered : rendered[i].key = k
    ELSE Len(rendered) + 1

\* A column of measurements is sorted when the user asks, and keeps its order
\* from then on.
OrderIsHeld(c, force) == ~force /\ c = "load" /\ rendered # <<>>

Arranged(rs, f, q, c, down, force) ==
    LET found == {i \in DOMAIN rs : Matches(rs[i], f, q)}
    IN  IF OrderIsHeld(c, force)
          THEN Sorted(rs, found, LAMBDA a, b : Position(a.key) < Position(b.key))
          ELSE ByColumn(rs, found, c, down)

-----------------------------------------------------------------------------
(* render *)

SameLength(list) == Len(rendered) = Len(list)

SameOrder(list) ==
    Len(rendered) = Len(list) /\ \A i \in DOMAIN list : rendered[i].key = list[i].key

\* The lines whose measurements are written: those in view, one before, and
\* the one that is cut at the bottom.
InView(i) == top <= i /\ i <= top + Page + 1

StaticChanged(old, new)  == old.evidence # new.evidence
DynamicChanged(old, new) == old.load # new.load

ForgetsNotDrawn(i, new) == new

\* What is remembered as drawn of line i.
Drawn(i, new) ==
    IF InView(i) THEN new ELSE [rendered[i] EXCEPT !.evidence = new.evidence]

Written(i, new) ==
    [cells[i] EXCEPT
       !.label = IF StaticChanged(rendered[i], new) THEN Label(new) ELSE @,
       !.load  = IF InView(i) /\ DynamicChanged(rendered[i], new) THEN new.load ELSE @]

Redraw(list) ==
    /\ IF \E i \in DOMAIN list : \/ StaticChanged(rendered[i], list[i])
                                 \/ InView(i) /\ DynamicChanged(rendered[i], list[i])
         THEN /\ cells'    = [i \in DOMAIN list |-> Written(i, list[i])]
              /\ rendered' = [i \in DOMAIN list |-> Drawn(i, list[i])]
         ELSE UNCHANGED <<cells, rendered>>
    /\ UNCHANGED <<selected, top>>

SameLines(list, key) == selected
NotReselected(list, key) == {}

\* After the items were deleted, only the key that was selected is selected.
Reselected(list, key) == {i \in DOMAIN list : list[i].key = key}

Rebuild(list) ==
    /\ cells' = [i \in DOMAIN list |->
                   [key |-> list[i].key, label |-> Label(list[i]), load |-> list[i].load]]
    /\ rendered' = list
    /\ selected' = Reselected(list, SelectedKey)
    /\ top' = 0

\* apply_filter_sort, with the rows and the wishes of the user after the step.
Apply(force) ==
    /\ displayed' = Arranged(rows', filter', query', column', descending', force)
    /\ IF SameOrder(displayed') THEN Redraw(displayed') ELSE Rebuild(displayed')
    /\ drawn' = IF force THEN "resort" ELSE "refresh"

-----------------------------------------------------------------------------
(* What the window does *)

\* refresh, by the timer also while a menu is open, with what a scan found.
Refresh(found) ==
    /\ rows' = found
    /\ UNCHANGED asked /\ UNCHANGED menu
    /\ Apply(FALSE)

SetFilter(f) ==
    /\ menu = NoKey
    /\ filter' = f
    /\ UNCHANGED <<rows, query, column, descending, menu>>
    /\ Apply(TRUE)

UpdateSearch(q) ==
    /\ menu = NoKey
    /\ query' = q
    /\ UNCHANGED <<rows, filter, column, descending, menu>>
    /\ Apply(TRUE)

\* A click on a column heading.
SortBy(c) ==
    /\ menu = NoKey
    /\ column' = c
    /\ descending' = IF c = column THEN ~descending ELSE c = "load"
    /\ UNCHANGED <<rows, filter, query, menu>>
    /\ Apply(TRUE)

\* The control itself: the user selects lines, or scrolls.
Click(lines) ==
    /\ menu = NoKey
    /\ selected' = lines
    /\ UNCHANGED <<rows, displayed, rendered, cells, top, menu, drawn>> /\ UNCHANGED asked

Scroll(t) ==
    /\ t + Page <= Len(cells)
    /\ top' = t
    /\ drawn' = "scrolled"
    /\ UNCHANGED <<rows, displayed, rendered, cells, selected, menu>> /\ UNCHANGED asked

\* A right click on line i: select_index and context_menu.
OpenMenu(i) ==
    /\ menu = NoKey
    /\ selected' = {i}
    /\ menu' = cells[i].key
    /\ UNCHANGED <<rows, displayed, rendered, cells, top, drawn>> /\ UNCHANGED asked

\* The menu closes.  A command takes its row from Selected, now.
CloseMenu ==
    /\ menu # NoKey
    /\ menu' = NoKey
    /\ UNCHANGED <<rows, displayed, rendered, cells, selected, top, drawn>> /\ UNCHANGED asked

Next ==
    \/ \E found \in Scans : Refresh(found)
    \/ \E f \in Filters : SetFilter(f)
    \/ \E q \in Queries : UpdateSearch(q)
    \/ \E c \in Columns : SortBy(c)
    \/ \E lines \in SUBSET DOMAIN cells : Click(lines)
    \/ \E t \in 0 .. Len(cells) : Scroll(t)
    \/ \E i \in DOMAIN cells : OpenMenu(i)
    \/ CloseMenu

Spec == Init /\ [][Next]_vars

-----------------------------------------------------------------------------
(* Properties *)

\* Every variable keeps its type; the control and what ProcDrift remembers of
\* it have the same lines, and only lines that exist are selected.
TypeOK ==
    /\ \A s \in {rows, displayed, rendered} : s \in Seq(Rows)
    /\ filter \in Filters /\ query \in Queries
    /\ column \in Columns /\ descending \in BOOLEAN
    /\ cells \in Seq(Cells)
    /\ selected \subseteq DOMAIN cells
    /\ top \in Nat
    /\ menu \in Keys \cup {NoKey}
    /\ drawn \in {"refresh", "resort", "scrolled"}

\* The lines on screen, the last one cut.
OnScreen == {i \in DOMAIN cells : top < i /\ i <= top + Page + 1}

\* Cells are written only where something differs from what was drawn before,
\* measurements only in view, and still nothing on screen is out of date: each
\* line is of the process in its place, with its measurements, and no line at
\* all shows the evidence of another scan, but for the mark of a paused one.
ScreenCurrent ==
    /\ Len(cells) = Len(displayed)
    /\ \A i \in DOMAIN cells :
         /\ cells[i].key = displayed[i].key
         /\ cells[i].label \in {displayed[i].evidence, "Paused by ProcDrift"}
    /\ drawn # "scrolled" => \A i \in OnScreen : cells[i].load = displayed[i].load

\* ui.rs on updating by cell: no refresh moves the selection to another
\* process, selects anything, or loses the selected process while it is shown.
SelectionKept ==
    [][cells' # cells =>
         LET before == SelectedKey
             after  == SelectedKey'
         IN  after = IF before \in KeysIn(displayed') THEN before ELSE NoKey]_vars

\* A command of the context menu reaches the process of the line that was
\* right-clicked, or nothing, whatever was refreshed while the menu was open.
MenuIsOfLine == menu # NoKey => Selected \in {menu, NoKey}

\* README.md: findings "are what is true about it right now".  The first
\* column shows what the last refresh found, for each line.
FindingShown ==
    \A i \in DOMAIN cells : cells[i].label = Label(displayed[i])
=============================================================================
