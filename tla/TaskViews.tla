---- MODULE TaskViews ----
(***************************************************************************)
(* The saved views of a task surface: task-views.ts, TaskViewsBar, and the *)
(* filters of board.tsx and tasks-table.tsx: the inline ones, which a view *)
(* sets, and those of the Filter menu, which it does not.  A view lives in *)
(* localStorage; every tab keeps a copy from the time it mounted, and each *)
(* operation writes the whole of its copy back, if the storage takes it.   *)
(* A view's name is left out.                                              *)
(***************************************************************************)
EXTENDS Naturals, FiniteSets

CONSTANTS
  Browsers,   \* the browser tabs that show the surface
  ViewIds,    \* the ids createId gives out
  NoView,     \* no default, no active view
  Filters,    \* what the inline controls can be set to
  Plain,      \* what they are when the surface mounts
  Menus,      \* the priorities and labels the Filter menu can have chosen
  NoMenu,     \* none of them
  Densities,  \* the table's row heights; a board has one
  MaxEdits    \* bound: operations on the views

ASSUME PlainAssumption == Plain \in Filters
ASSUME MenuAssumption == NoMenu \in Menus
ASSUME NoViewAssumption == NoView \notin ViewIds
ASSUME EditsAssumption == MaxEdits \in Nat

VARIABLES
  stored,   \* the item in localStorage
  copy,     \* state: the copy of each tab
  config,   \* currentConfig of each tab
  menu,     \* useTaskFilters of each tab
  active,   \* activeViewId of each tab
  applied,  \* appliedDefault of each tab
  outdated, \* history: the tabs whose copy is not what is stored
  edits     \* operations so far

viewVars == <<stored, copy, config, menu, active, applied, outdated, edits>>

Configs == [filter: Filters, density: Densities]
SavedView == [config: Configs, locked: BOOLEAN]
ViewsState == [views: UNION {[V -> SavedView] : V \in SUBSET ViewIds}, defaultId: ViewIds \cup {NoView}]

Empty == [views |-> [v \in {} |-> <<>>], defaultId |-> NoView]

Saved(b) == DOMAIN copy[b].views

-----------------------------------------------------------------------------
(* Each operation makes a new state from the tab's copy and writes it: read checks the default
   against the views, write is the whole item.  A write that throws is caught and forgotten: the
   tab keeps its new state, the storage what it had. *)
Write(b, state) ==
  /\ edits < MaxEdits /\ edits' = edits + 1
  /\ copy' = [copy EXCEPT ![b] = state]
  /\ \/ stored' = state /\ outdated' = (IF state = stored THEN outdated ELSE Browsers) \ {b}
     \/ stored' = stored /\ outdated' = IF state = stored THEN outdated \ {b} ELSE outdated \cup {b}

(* prev.views.map: one view is changed. *)
Changed(state, v, view) == [state EXCEPT !.views = [state.views EXCEPT ![v] = view]]

(* applyView, of a state a step leads to *)
Applied(b, state, v) ==
  /\ config' = [config EXCEPT ![b] = state.views[v].config]
  /\ active' = [active EXCEPT ![b] = v]

(* The surface mounts: useState, then the effect that reads, and finds nothing in a storage that
   throws.  The effect on the default view applies it, once per mount. *)
Mount(b) ==
  /\ \E found \in {stored, Empty} :
       /\ copy' = [copy EXCEPT ![b] = found]
       /\ outdated' = IF found = stored THEN outdated \ {b} ELSE outdated \cup {b}
       /\ applied' = [applied EXCEPT ![b] = found.defaultId # NoView]
       /\ \E d \in Densities :
            IF found.defaultId # NoView THEN Applied(b, found, found.defaultId)
            ELSE /\ config' = [config EXCEPT ![b] = [filter |-> Plain, density |-> d]]
                 /\ active' = [active EXCEPT ![b] = NoView]
  /\ menu' = [menu EXCEPT ![b] = NoMenu]
  /\ UNCHANGED <<stored, edits>>

(* commitSave: the new view is saved and applied. *)
saveView(b) ==
  \E v \in ViewIds \ (DOMAIN stored.views \cup UNION {Saved(c) : c \in Browsers}) :
    LET view == [config |-> config[b], locked |-> FALSE]
        state == [views |-> [w \in Saved(b) \cup {v} |-> IF w = v THEN view ELSE copy[b].views[w]],
                  defaultId |-> copy[b].defaultId]
    IN Write(b, state) /\ Applied(b, state, v) /\ UNCHANGED <<menu, applied>>

(* A view's tab is clicked. *)
Apply(b) ==
  /\ \E v \in Saved(b) : Applied(b, copy[b], v)
  /\ UNCHANGED <<stored, copy, menu, applied, outdated, edits>>

changeFilter_KeepsActive(b) ==
  /\ \E f \in Filters : config' = [config EXCEPT ![b].filter = f]
  /\ UNCHANGED <<stored, copy, menu, active, applied, outdated, edits>>

(* changeStatus, changeAssignee, changeQuery, changeSwimlane: no view is active any more. *)
changeFilter(b) ==
  /\ \E f \in Filters : config' = [config EXCEPT ![b].filter = f]
  /\ active' = [active EXCEPT ![b] = NoView]
  /\ UNCHANGED <<stored, copy, menu, applied, outdated, edits>>

(* The Filter menu: togglePriority, toggleLabel and clear leave the active view marked. *)
toggleMenu(b) ==
  /\ menu' \in {[menu EXCEPT ![b] = m] : m \in Menus}
  /\ UNCHANGED <<stored, copy, config, active, applied, outdated, edits>>

(* The row height is the page's: changing it leaves the view active, and dirty. *)
changeDensity(b) ==
  /\ \E d \in Densities : config' = [config EXCEPT ![b].density = d]
  /\ UNCHANGED <<stored, copy, menu, active, applied, outdated, edits>>

clearActive(b) ==
  /\ active[b] # NoView
  /\ active' = [active EXCEPT ![b] = NoView]
  /\ UNCHANGED <<stored, copy, config, menu, applied, outdated, edits>>

updateView_Locked(b) ==
  /\ active[b] # NoView
  /\ copy[b].views[active[b]].config # config[b]
  /\ Write(b, Changed(copy[b], active[b], [copy[b].views[active[b]] EXCEPT !.config = config[b]]))
  /\ UNCHANGED <<config, menu, active, applied>>

(* disabled={!dirty || activeView.locked} *)
updateView(b) ==
  /\ active[b] # NoView
  /\ LET view == copy[b].views[active[b]] IN view.config # config[b] /\ ~view.locked
  /\ Write(b, Changed(copy[b], active[b], [copy[b].views[active[b]] EXCEPT !.config = config[b]]))
  /\ UNCHANGED <<config, menu, active, applied>>

(* A new name for a view that is not locked: what is written is the tab's copy. *)
renameView(b) ==
  /\ \E v \in Saved(b) : ~copy[b].views[v].locked
  /\ Write(b, copy[b])
  /\ UNCHANGED <<config, menu, active, applied>>

(* onDelete clears the active view first; a locked view has no delete button. *)
deleteView(b) ==
  \E v \in Saved(b) :
    /\ ~copy[b].views[v].locked
    /\ Write(b, [views |-> [w \in Saved(b) \ {v} |-> copy[b].views[w]],
                 defaultId |-> IF copy[b].defaultId = v THEN NoView ELSE copy[b].defaultId])
    /\ active' = IF active[b] = v THEN [active EXCEPT ![b] = NoView] ELSE active
    /\ UNCHANGED <<config, menu, applied>>

(* The pin.  The effect on the default view has not run yet in a mount that found none: the
   first view that is pinned is applied there and then. *)
setDefault(b) ==
  \E v \in Saved(b) :
    LET id == IF copy[b].defaultId = v THEN NoView ELSE v IN
    /\ Write(b, [copy[b] EXCEPT !.defaultId = id]) /\ UNCHANGED menu
    /\ IF id # NoView /\ ~applied[b]
       THEN Applied(b, copy[b], v) /\ applied' = [applied EXCEPT ![b] = TRUE]
       ELSE UNCHANGED <<config, active, applied>>

toggleLock(b) ==
  \E v \in Saved(b) :
    /\ Write(b, Changed(copy[b], v, [copy[b].views[v] EXCEPT !.locked = ~@]))
    /\ UNCHANGED <<config, menu, active, applied>>

-----------------------------------------------------------------------------
ViewsInit ==
  /\ stored = Empty
  /\ copy = [b \in Browsers |-> Empty]
  /\ config \in [Browsers -> {c \in Configs : c.filter = Plain}]
  /\ active = [b \in Browsers |-> NoView]
  /\ menu = [b \in Browsers |-> NoMenu]
  /\ applied = [b \in Browsers |-> FALSE]
  /\ outdated = {} /\ edits = 0

ViewsNext ==
  \E b \in Browsers :
    \/ Mount(b) \/ saveView(b) \/ Apply(b) \/ changeFilter(b) \/ toggleMenu(b) \/ changeDensity(b)
    \/ clearActive(b) \/ updateView(b) \/ renameView(b) \/ deleteView(b) \/ setDefault(b) \/ toggleLock(b)

ViewsSpec == ViewsInit /\ [][ViewsNext]_viewVars

-----------------------------------------------------------------------------
ViewsTypeOK ==
  /\ stored \in ViewsState /\ copy \in [Browsers -> ViewsState]
  /\ config \in [Browsers -> Configs] /\ menu \in [Browsers -> Menus]
  /\ active \in [Browsers -> ViewIds \cup {NoView}]
  /\ applied \in [Browsers -> BOOLEAN]
  /\ outdated \subseteq Browsers /\ edits \in 0..MaxEdits

Consistent(state) == state.defaultId = NoView \/ state.defaultId \in DOMAIN state.views

(* The pinned view exists, in storage and in every tab: a mount never looks for a view that was
   deleted, whichever tab deleted it and whichever wrote last. *)
DefaultExists == Consistent(stored) /\ \A b \in Browsers : Consistent(copy[b])

(* What a task has to pass to be shown in a tab *)
Passed(b) == [inline |-> config[b].filter, menu |-> menu[b]]

(* The view that is shown as active is one of the tab's views, and its filters are the ones the
   tasks went through: nothing that changes them leaves it marked.  "It captures the current
   grouping together with the inline status, assignee, and search filters": the exception is the
   Filter menu, which a view neither holds nor resets; it may hide some of what the view shows,
   and no choice in it brings back what the view leaves out.  The row height may differ too. *)
ActiveViewIsApplied ==
  \A b \in Browsers :
    active[b] # NoView =>
      /\ active[b] \in Saved(b)
      /\ Passed(b) \in [inline: {copy[b].views[active[b]].config.filter}, menu: Menus]

(* A locked view is neither changed nor deleted while it is locked, unless a tab whose copy is
   older writes its own views over it (which takes the tab out of outdated). *)
LockedViewsStay ==
  [][\A v \in DOMAIN stored.views :
       stored.views[v].locked /\ outdated \subseteq outdated' =>
         v \in DOMAIN stored'.views /\ stored'.views[v].config = stored.views[v].config]_viewVars
====
