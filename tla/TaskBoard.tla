---- MODULE TaskBoard ----
(***************************************************************************)
(* A project's task surface in the web client: board.tsx or               *)
(* tasks-table.tsx over useTaskSurface, with the selection the keyboard and *)
(* the pointer share, the pickers, the bar over a selection, and the       *)
(* address that says which task is open.                                   *)
(*                                                                         *)
(* The tasks have been loaded once; a later refetch may fail, and then the *)
(* query keeps them and is in error until something else is written to it. *)
(* React runs the effects of a press, or of data that has come, before the *)
(* next press; only a navigation is slower: the App Router shows it some   *)
(* time after router.replace, gives it up when another one is asked for,   *)
(* and the effect on ?task= runs after that.  The peek panel is left out.  *)
(***************************************************************************)
EXTENDS Naturals, Sequences, FiniteSets

CONSTANTS
  Tasks,       \* the project's tasks
  NoTask,      \* no ?task= and no dialog
  Kinds,       \* the pickers of the bulk bar: "status", "priority" and "assignee"
  LastGroup,   \* the lanes or the status groups are 1..LastGroup, from top to bottom
  MaxChanges   \* bound: changes of the tasks, the filter, the folding and the address

ASSUME GroupsAssumption == LastGroup \in Nat \ {0}
ASSUME KindsAssumption == Kinds \subseteq {"status", "priority", "assignee"}
ASSUME TasksAssumption == IsFiniteSet(Tasks) /\ "none" \notin Tasks \cup {NoTask}
ASSUME NoTaskAssumption == NoTask \notin Tasks
ASSUME ChangesAssumption == MaxChanges \in Nat

VARIABLES
  surface,    \* "board" or "table", whichever tab is mounted
  data,       \* the query's tasks as they are laid out: rows, and the group of each
  lanes,      \* the groups a board draws a lane for: a former member's tasks have none
  filter,     \* the group the filters leave, or 0 for every one
  collapsed,  \* the groups folded away
  failed,     \* tasks.isError: a refetch has failed, and the tasks there were are kept
  store,      \* use-task-selection's module state: order, focus, anchor, selected
  picker,     \* the tasks the surface's picker was opened for; {} when it is shut
  bar,        \* which picker the bulk bar has open, or "none"
  palette,    \* whether the command palette is open: the caret is in its field
  suppressed, \* KeyboardProvider's suppressedRef
  open,       \* openTaskId
  url,        \* the ?task= the page was rendered with
  nav,        \* the ?task= the router is on its way to, or "none"
  due,        \* whether the effect on ?task= has still to run
  crossed,    \* history: the router was sent back to the ?task= it had not left yet
  changes     \* changes so far

boardVars ==
  <<surface, data, lanes, filter, collapsed, failed, store, picker, bar, palette, suppressed, open, url,
    nav, due, crossed, changes>>

page == <<surface, data, lanes, filter, collapsed, failed>>
address == <<open, url, nav, due, crossed>>
keyboard == <<palette, suppressed>>

Groups == 1..LastGroup
ToSet(seq) == {seq[i] : i \in DOMAIN seq}

(* The tasks in the order of their groups, and in any order within one. *)
Layouts ==
  UNION {{[rows |-> r, group |-> g] :
            r \in {r \in [1..Cardinality(T) -> T] : ToSet(r) = T}, g \in [T -> Groups]} : T \in SUBSET Tasks}
Laid == {d \in Layouts : \A i, j \in DOMAIN d.rows : i < j => d.group[d.rows[i]] <= d.group[d.rows[j]]}

Passes(d, f, t) == f \in {0, d.group[t]}

(* The filters keep the tasks of a set, in the order they had. *)
Filtered(seq, set) ==
  LET upto[n \in 0..Len(seq)] ==
        IF n = 0 THEN <<>>
        ELSE IF seq[n] \in set THEN Append(upto[n - 1], seq[n]) ELSE upto[n - 1]
  IN upto[Len(seq)]

Passing(d, f, groups) == {t \in ToSet(d.rows) : Passes(d, f, t) /\ d.group[t] \in groups}

(* order: the tasks the keyboard walks.  A board's has every lane that it draws, folded or not. *)
BoardOrder(d, f) == Filtered(d.rows, Passing(d, f, lanes))

TableOrder_WithFolded(d, f, c) == Filtered(d.rows, Passing(d, f, Groups))

(* "Keyboard / range selection follows the visible (expanded) grouped order." *)
TableOrder(d, f, c) == Filtered(d.rows, Passing(d, f, Groups \ c))

Order(s, d, f, c) == IF s = "board" THEN BoardOrder(d, f) ELSE TableOrder(d, f, c)

(* What is drawn: the cards of the unfolded lanes, the rows of the unfolded groups, and an
   ErrorState in their place after a refetch that failed. *)
Cards == Passing(data, filter, lanes \ collapsed)
Rows == Passing(data, filter, Groups \ collapsed)
Visible == CASE failed -> {} [] surface = "board" -> Cards [] OTHER -> Rows

(* The ErrorState is all a board renders: its controls, its dialogs and the bulk bar go with the
   cards.  A table keeps them around it. *)
Gone(s, failing) == s = "board" /\ failing

(* The cards of the lanes a board has folded away: ranges and select-all reach them. *)
Hidden == IF surface = "board" THEN Passing(data, filter, lanes \cap collapsed) ELSE {}

-----------------------------------------------------------------------------
(* use-task-selection: each operation from a state of the store to the next. *)

IsStore(s) ==
  /\ s \in [order: Seq(Tasks), focus: Nat, anchor: Nat, selected: SUBSET Tasks]
  /\ s.selected \subseteq ToSet(s.order)
  /\ {s.focus, s.anchor} \subseteq 0..Len(s.order)

EmptyStore == [order |-> <<>>, focus |-> 0, anchor |-> 0, selected |-> {}]

IndexOf(order, t) ==
  IF t \in ToSet(order) THEN CHOOSE i \in DOMAIN order : order[i] = t ELSE 0

Focused(s) == IF s.focus = 0 THEN NoTask ELSE s.order[s.focus]

clampIndex(index, length) == IF index < 1 THEN 1 ELSE IF index > length THEN length ELSE index

buildRange(order, from, to) ==
  {order[i] : i \in {i \in DOMAIN order : (from <= i /\ i <= to) \/ (to <= i /\ i <= from)}}

setOrder_KeepsIndex(s, order) ==
  LET kept == s.selected \cap ToSet(order)
      focus == IF s.focus <= Len(order) THEN s.focus ELSE 0
  IN [order |-> order, focus |-> focus, anchor |-> focus, selected |-> kept]

setOrder_KeepsSelection(s, order) ==
  LET focus == IndexOf(order, Focused(s)) IN
  IF order = s.order THEN s ELSE [s EXCEPT !.order = order, !.focus = focus, !.anchor = focus]

(* The order has been laid out again: the selection loses what is gone, and the focus stays
   on its task. *)
setOrder(s, order) ==
  LET kept == s.selected \cap ToSet(order)
      focus == IndexOf(order, Focused(s))
  IN IF order = s.order /\ kept = s.selected /\ focus = s.focus THEN s
     ELSE [order |-> order, focus |-> focus, anchor |-> focus, selected |-> kept]

clearAll(s) ==
  IF s.focus = 0 /\ s.selected = {} THEN s ELSE [s EXCEPT !.focus = 0, !.anchor = 0, !.selected = {}]

(* down: the arrow that was pressed *)
moveFocus(s, down) ==
  LET last == Len(s.order)
      next == IF s.focus = 0 THEN IF down THEN 1 ELSE last
              ELSE clampIndex(IF down THEN s.focus + 1 ELSE s.focus - 1, last)
  IN IF last = 0 \/ next = s.focus THEN s ELSE [s EXCEPT !.focus = next, !.anchor = next]

(* With nothing focused the step is taken from the first task, not to it. *)
extendSelection(s, down) ==
  LET last == Len(s.order)
      anchor == IF s.anchor = 0 THEN s.focus ELSE s.anchor
      base == IF s.focus = 0 THEN IF anchor = 0 THEN 1 ELSE anchor ELSE s.focus
      next == clampIndex(IF down THEN base + 1 ELSE base - 1, last)
      from == IF anchor = 0 THEN next ELSE anchor
  IN IF last = 0 THEN s
     ELSE [s EXCEPT !.focus = next, !.anchor = from, !.selected = buildRange(s.order, from, next)]

selectId(s, t) ==
  LET index == IndexOf(s.order, t) IN
  IF index = 0 THEN s ELSE [s EXCEPT !.focus = index, !.anchor = index, !.selected = {t}]

toggleId(s, t) ==
  LET index == IndexOf(s.order, t) IN
  IF index = 0 THEN s
  ELSE [s EXCEPT !.focus = index, !.anchor = index,
                 !.selected = IF t \in @ THEN @ \ {t} ELSE @ \cup {t}]

rangeToId(s, t) ==
  LET index == IndexOf(s.order, t)
      anchor == IF s.anchor = 0 THEN index ELSE s.anchor
  IN IF index = 0 THEN s ELSE [s EXCEPT !.focus = index, !.selected = buildRange(s.order, anchor, index)]

toggleFocused(s) == IF s.focus = 0 THEN s ELSE toggleId(s, Focused(s))

selectAll(s) ==
  IF s.order = <<>> THEN s
  ELSE [s EXCEPT !.selected = ToSet(s.order), !.anchor = IF s.focus = 0 THEN 1 ELSE s.focus]

-----------------------------------------------------------------------------
(* What React does after a step. *)

(* useTaskKeyboard's enabled: active, which is tasks.isSuccess, and no dialog of the surface *)
Enabled(opened, picking, failing) == ~failing /\ opened = NoTask /\ picking = {}

(* The bar is on screen while something is selected, and its three pickers with it. *)
BarShown == store.selected # {} /\ ~Gone(surface, failed)
BarPicking == bar # "none" /\ BarShown

Change == changes < MaxChanges /\ changes' = changes + 1

(* useTaskKeyboard hands the order over, while it is enabled, to a store that a step left at s. *)
HandOver(s) ==
  IF Enabled(open', picker', failed')
  THEN \E order \in {Order(surface', data', filter', collapsed')} : store' = setOrder(s, order)
  ELSE store' = s

(* The effects of a step that leaves the store at s: the order is handed over, and the bar
   comes, or goes, with the selection.  A picker that comes says whether it is open,
   one that goes says that none is, and the last has the last word: of a board that is drawn
   again, the surface's own picker for the assignee. *)
Settle(s) ==
  LET comes == store.selected = {} /\ store'.selected # {}
      goes == store.selected # {} /\ store'.selected = {}
      returns == Gone(surface, failed) /\ ~Gone(surface', failed')
  IN
  /\ HandOver(s)
  /\ suppressed' \in CASE returns -> {FALSE, picker' # {}}
                        [] comes -> {bar' = "assignee"}
                        [] goes -> {FALSE}
                        [] OTHER -> {suppressed}

-----------------------------------------------------------------------------
(* Keys.  shortcutAllowed: while the caret is in a field or an overlay suppresses them, only
   mod+k runs. *)
Blocked == suppressed \/ palette

KeysWork == ~Blocked /\ Enabled(open, picker, failed)

(* A dialog lies over the surface and the bar, or there is nothing to click. *)
Modal == palette \/ open # NoTask \/ picker # {} \/ BarPicking \/ Gone(surface, failed)

Walk(moved) ==
  /\ KeysWork
  /\ UNCHANGED <<page, changes, address, picker, bar, palette>>
  /\ Settle(moved)

Keys ==
  \/ \E down \in BOOLEAN : Walk(moveFocus(store, down)) \/ Walk(extendSelection(store, down))
  \/ Walk(selectAll(store)) \/ Walk(toggleFocused(store)) \/ Walk(clearAll(store))

(* selectFromClick: plain, with meta or ctrl, or with shift *)
Click ==
  /\ ~Modal
  /\ UNCHANGED <<page, changes, address, picker, bar, palette>>
  /\ \E t \in Visible : \E s \in {selectId(store, t), toggleId(store, t), rangeToId(store, t)} : Settle(s)

(* onAction: the picker is for the tasks that are selected now, or the focused one. *)
Targets == IF store.selected # {} THEN store.selected ELSE {Focused(store)} \ {NoTask}

OpenPicker ==
  /\ KeysWork /\ Targets # {}
  /\ picker' = Targets
  /\ suppressed' = TRUE
  /\ UNCHANGED <<page, changes, address, store, bar, palette>>

(* PickerShell's effect when its picker shuts, whether another one is open or not *)
Shut == suppressed' = FALSE

ClosePicker ==
  /\ picker # {} /\ ~palette /\ ~Gone(surface, failed)
  /\ picker' = {} /\ Shut
  /\ UNCHANGED <<page, changes, address, bar, palette>>
  /\ HandOver(store)

OpenBarPicker ==
  /\ ~Modal /\ BarShown
  /\ bar' \in Kinds
  /\ suppressed' = TRUE
  /\ UNCHANGED <<page, changes, address, store, picker, palette>>

CloseBarPicker ==
  /\ BarPicking /\ ~palette
  /\ bar' = "none" /\ Shut
  /\ UNCHANGED <<page, changes, address, store, picker, palette>>

-----------------------------------------------------------------------------
(* The tasks change: an answer has come, or a guess of useUpdateTask has been made or taken back.
   Whatever is written to a query takes it out of its error. *)
Written(tasks) == data' \in tasks /\ failed' = FALSE

TasksArrive ==
  /\ Change /\ Written(Laid)
  /\ UNCHANGED <<surface, lanes, filter, collapsed, address, picker, bar, palette>>
  /\ Settle(store)

(* A refetch has failed: a board takes everything off the screen, and shuts its pickers, but what
   is selected, and what its picker was opened for, stays. *)
RefetchFails ==
  /\ ~failed /\ failed' = TRUE /\ Change
  /\ UNCHANGED <<surface, data, lanes, filter, collapsed, address, picker, palette, store>>
  /\ IF surface = "board" THEN bar' = "none" /\ Shut ELSE UNCHANGED <<bar, suppressed>>

(* What a task can be moved to: a member, or the next status. *)
Reach == IF surface = "board" THEN lanes ELSE Groups

(* updateTask.mutate for every one of ts: those the query still has move to the group g. *)
Moved(ts, g) == {d \in Laid : d.group = [t \in DOMAIN data.group |-> IF t \in ts THEN g ELSE data.group[t]]}

(* applyToPicker: the tasks it was opened for, whatever has come since *)
ApplyPicker ==
  /\ picker # {} /\ ~palette /\ ~Gone(surface, failed) /\ Change
  /\ Written(UNION {Moved(picker, g) : g \in Reach})
  /\ picker' = {} /\ Shut
  /\ UNCHANGED <<surface, lanes, filter, collapsed, address, bar, palette>>
  /\ HandOver(store)

(* The bar's pickers: the tasks that are selected when it is applied.  Those that leave the
   filter by it leave the selection. *)
ApplyBarPicker ==
  /\ BarPicking /\ ~palette /\ Change
  /\ Written(UNION {Moved(store.selected, g) : g \in Reach})
  /\ bar' = "none" /\ Shut
  /\ UNCHANGED <<surface, lanes, filter, collapsed, address, picker, palette>>
  /\ HandOver(store)

(* Archive moves the selected tasks and clears the selection; delete leaves them in the query
   until an answer comes without them. *)
ArchiveOrDelete ==
  /\ ~Modal /\ BarShown /\ Change
  /\ Written(UNION {Moved(store.selected, g) : g \in Reach}) \/ UNCHANGED <<data, failed>>
  /\ UNCHANGED <<surface, lanes, filter, collapsed, address, picker, bar, palette>>
  /\ Settle(clearAll(store))

(* handleDragEnd and a card's menu, or the key of assign-me *)
MoveSome ==
  /\ Change
  /\ \/ ~Modal /\ \E t \in Visible : Written(UNION {Moved({t}, g) : g \in Reach})
     \/ KeysWork /\ Targets # {} /\ Written(UNION {Moved(Targets, g) : g \in Reach})
  /\ UNCHANGED <<surface, lanes, filter, collapsed, address, picker, bar, palette>>
  /\ Settle(store)

(* A filter is chosen, by hand or by a saved view; a group is folded or unfolded; t folds every
   lane of a board, or unfolds them all. *)
ChangeFilter ==
  /\ ~Modal /\ Change
  /\ filter' \in (Groups \cup {0}) \ {filter}
  /\ UNCHANGED <<surface, data, lanes, collapsed, failed, address, picker, bar, palette>>
  /\ Settle(store)

Fold ==
  /\ Change
  /\ \/ ~Modal /\ ~failed /\ \E g \in Groups : collapsed' = IF g \in collapsed THEN collapsed \ {g} ELSE collapsed \cup {g}
     \/ surface = "board" /\ ~Blocked /\ open = NoTask /\ collapsed' = IF collapsed # {} THEN {} ELSE lanes
  /\ UNCHANGED <<surface, data, lanes, filter, failed, address, picker, bar, palette>>
  /\ Settle(store)

-----------------------------------------------------------------------------
(* The palette. *)

(* mod+k, or its own dialog *)
TogglePalette ==
  /\ palette' = ~palette
  /\ suppressed' = palette'
  /\ UNCHANGED <<page, changes, address, store, picker, bar>>

-----------------------------------------------------------------------------
(* The address. *)

(* setOpenTaskId: the state at once, the address when the router gets there *)
setOpenTaskId(t) ==
  /\ open' = t /\ nav' = t
  /\ crossed' = FALSE
  /\ UNCHANGED <<url, due>>

(* enter, r, a card's title, a row's second click; a task the dialog links to; its close *)
OpenTask ==
  /\ \/ KeysWork /\ Targets # {} /\ \E t \in Targets \cup ({Focused(store)} \ {NoTask}) : setOpenTaskId(t)
     \/ ~Modal /\ \E t \in Visible : setOpenTaskId(t)
  /\ Change
  /\ UNCHANGED <<page, picker, bar, palette>>
  /\ Settle(store)

LeaveTask ==
  /\ open # NoTask /\ ~palette /\ ~Gone(surface, failed)
  /\ \E t \in Tasks \cup {NoTask} : t # open /\ setOpenTaskId(t)
  /\ Change
  /\ UNCHANGED <<page, picker, bar, palette>>
  /\ Settle(store)

(* A link of the page around it, an entry of the palette, or the browser's back button *)
FollowLink ==
  /\ nav' \in Tasks \cup {NoTask}
  /\ crossed' = (crossed \/ (nav # "none" /\ nav' = url))
  /\ Change
  /\ UNCHANGED <<page, store, picker, bar, keyboard, open, url, due>>

Arrive ==
  /\ nav # "none"
  /\ url' = nav /\ nav' = "none"
  /\ due' = (due \/ url' # url)
  /\ UNCHANGED <<page, changes, store, picker, bar, keyboard, open, crossed>>

SyncOpen_AtMount ==
  /\ due /\ due' = FALSE
  /\ UNCHANGED <<page, changes, store, picker, bar, keyboard, open, url, nav, crossed>>

(* "The URL owns which task is open" *)
SyncOpen ==
  /\ due /\ due' = FALSE
  /\ open' = url /\ crossed' = FALSE
  /\ UNCHANGED <<page, changes, picker, bar, palette, url, nav>>
  /\ Settle(store)

(* mod+b, or the toggle: one surface goes, with clearAll and its pickers, and the other one
   reads the address anew. *)
SwitchSurface ==
  /\ ~Blocked /\ nav = "none"
  /\ surface' \in {"board", "table"} \ {surface}
  /\ filter' = 0 /\ collapsed' = {} /\ picker' = {} /\ bar' = "none"
  /\ open' = url /\ due' = FALSE /\ crossed' = FALSE
  /\ suppressed' = FALSE
  /\ Change
  /\ UNCHANGED <<data, lanes, failed, palette, url, nav>>
  /\ HandOver(clearAll(store))

-----------------------------------------------------------------------------
BoardInit ==
  /\ surface \in {"board", "table"}
  /\ data \in {d \in Laid : ToSet(d.rows) = Tasks}
  /\ lanes \in {Groups, Groups \ {LastGroup}} /\ filter = 0 /\ collapsed = {}
  /\ failed = FALSE
  /\ url \in Tasks \cup {NoTask} /\ open = url /\ nav = "none" /\ due = FALSE
  /\ picker = {} /\ bar = "none" /\ palette = FALSE /\ suppressed = FALSE
  /\ store = IF open = NoTask THEN setOrder(EmptyStore, Order(surface, data, 0, {})) ELSE EmptyStore
  /\ crossed = FALSE /\ changes = 0

BoardNext ==
  \/ Keys \/ Click
  \/ OpenPicker \/ ClosePicker \/ ApplyPicker \/ OpenBarPicker \/ CloseBarPicker \/ ApplyBarPicker
  \/ TasksArrive \/ RefetchFails \/ ArchiveOrDelete \/ MoveSome \/ ChangeFilter \/ Fold
  \/ TogglePalette \/ OpenTask \/ LeaveTask \/ FollowLink \/ Arrive \/ SyncOpen \/ SwitchSurface

BoardSpec == BoardInit /\ [][BoardNext]_boardVars

-----------------------------------------------------------------------------
BoardTypeOK ==
  /\ surface \in {"board", "table"}
  /\ data \in Laid
  /\ lanes \subseteq Groups /\ filter \in Groups \cup {0}
  /\ collapsed \subseteq Groups
  /\ IsStore(store)
  /\ picker \subseteq Tasks
  /\ bar \in Kinds \cup {"none"}
  /\ {failed, palette, suppressed, due, crossed} \subseteq BOOLEAN
  /\ {open, url} \subseteq Tasks \cup {NoTask}
  /\ nav \in Tasks \cup {NoTask, "none"}
  /\ changes \in 0..MaxChanges

(* What the bulk bar acts on is what the reader sees: while no dialog is open and the tasks are
   shown, every selected one is on a table's screen, after any answer, guess, filter or fold, and
   from the first answer after one that failed.  Two exceptions: a board's folded lanes, which
   ranges and select-all reach into; and failed, while a table shows an ErrorState in the place
   of its rows but goes on showing the bar. *)
SelectedIsShown == Enabled(open, picker, failed) => store.selected \subseteq Visible \cup Hidden

(* The keys act on the task that was focused, wherever new data, a filter or a fold puts it, also
   while a dialog was open.  A step that takes the focus to another task is a key's or a click's:
   it is taken while the keys work or no dialog is open, and changes nothing else that is seen. *)
FocusStaysOnTask ==
  [][Focused(store') \notin {Focused(store), NoTask} =>
       (KeysWork \/ ~Modal) /\ UNCHANGED <<page, address, picker, bar, palette>>]_boardVars

(* use-task-surface.ts: "The URL owns which task is open, so a link that lands on the page we
   are already on still opens the dialog."  The exception: a link to the address the router is
   just leaving, which changes nothing the effect would see. *)
UrlOwnsOpenTask == nav = "none" /\ ~due /\ ~crossed => open = url
====
