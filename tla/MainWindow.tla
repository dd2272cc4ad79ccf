------------------------------ MODULE MainWindow ------------------------------
(***************************************************************************)
(* The main window: the tree of resources, whose nested containers are     *)
(* opened when first expanded, the details view that shows one location of *)
(* it with a history, the selection and its preview, and the two timers    *)
(* that load icons one per turn of the event loop.  Each action is one     *)
(* event; between events nothing runs.                                     *)
(*                                                                         *)
(* An item of the tree is a node of the document in the window's gen-th    *)
(* opening, or the "..." placeholder below a pending container: pointers   *)
(* of two openings differ, which is what the history, the rows, the icon   *)
(* queue and the location hold.  Labels are the nodes themselves; icons    *)
(* other than those of embedded executables are left out.                  *)
(***************************************************************************)
EXTENDS Integers, Sequences, SequencesExt

CONSTANTS
  Documents,        \* the files a user may open
  Damaged,          \* those of them that cannot be opened
  NoDocument,
  Nodes,            \* what the trees are made of
  Groups,           \* path and type nodes
  Resources,        \* nodes with a resource: all but some groups
  Lost,             \* those of them that cannot be opened when selected
  Containers,       \* nodes that are nested containers
  Navigable,        \* those of them that open with something in them
  Executables,      \* nodes with an embedded executable's icon
  Below,            \* the nodes below a document, container or group, in order
  Added,            \* the nodes opening a document or container adds, in order
  Above,            \* the node a node is below, or its document
  Addresses,        \* the paths that may be typed, as the labels on the way
  MaxOpens, MaxHistory,
  MaxScan           \* rows scanned in one turn (256)

Null == [gen |-> 0, node |-> NoDocument, kind |-> "null"]
Sources == Documents \cup Navigable

(* What opening a source adds is new, is below the source or below a group *)
(* that was added with it, and is all there is below either.               *)
ASSUME MainWindowAssumption ==
  /\ Damaged \subseteq Documents /\ NoDocument \notin Documents \cup Nodes
  /\ Groups \subseteq Nodes /\ Resources \subseteq Nodes /\ Nodes \ Groups \subseteq Resources
  /\ Lost \subseteq Resources /\ Executables \subseteq Resources
  /\ Containers \subseteq Nodes \ Groups /\ Navigable \subseteq Containers
  /\ Nodes \cap Documents = {}
  /\ Below \in [Sources \cup Groups -> Seq(Nodes)] /\ Added \in [Sources -> Seq(Nodes)]
  /\ \A s \in Sources \cup Groups, n \in Nodes : n \in ToSet(Below[s]) <=> Above[n] = s
  /\ \A s \in Sources : \A n \in ToSet(Added[s]) :
       /\ Above[n] = s \/ Above[n] \in Groups \cap ToSet(Added[s])
       /\ n \in Groups => ToSet(Below[n]) \subseteq ToSet(Added[s])
  /\ \A s \in Sources : ToSet(Below[s]) \subseteq ToSet(Added[s])
  /\ \A s, r \in Sources : s # r => ToSet(Added[s]) \cap ToSet(Added[r]) = {}
  /\ Addresses \subseteq Seq(Nodes) \ {<<>>}
  /\ MaxOpens \in Nat /\ MaxHistory \in Nat /\ MaxScan \in Nat \ {0}

VARIABLES
  tree,     \* [doc, gen, pending, sessions, bare, queue, next, timer]
  pane,     \* [current, selected, preview, exports]
  details,  \* [on, location, back, forward, rows, row, next, timer]
  bar,      \* [address, back, forward, up, edit], as the widgets show them
  icons,    \* the items that were given their embedded icon
  freed     \* whether a deleted item was used

vars == <<tree, pane, details, bar, icons, freed>>

-----------------------------------------------------------------------------
Item(t, n) == [gen |-> t.gen, node |-> n, kind |-> "node"]
Placeholder(t, c) == [gen |-> t.gen, node |-> c, kind |-> "..."]

(* The nodes in the tree, and the items: children come with a session.     *)
Present(t) == IF t.doc = NoDocument THEN {}
              ELSE UNION {ToSet(Added[s]) : s \in {t.doc} \cup t.sessions}
Live(t) == {Item(t, n) : n \in Present(t)} \cup {Placeholder(t, c) : c \in t.pending}

Pending(t, i) == i.kind = "node" /\ i.node \in t.pending
HasType(i) == i.kind = "node" /\ i.node \in Resources

ParentOf(t, i) ==
  CASE i.kind = "..." -> Item(t, i.node)
    [] i.kind # "..." /\ Above[i.node] \in Documents -> Null
    [] OTHER -> Item(t, Above[i.node])

(* The children of an item, or the top level, without placeholders.        *)
Children(t, i) ==
  LET from == IF i = Null THEN t.doc ELSE i.node
      known == \/ i = Null /\ t.doc # NoDocument
               \/ i # Null /\ i.kind = "node" /\ i.node \in Groups \cup t.sessions
  IN  IF known THEN [k \in 1..Len(Below[from]) |-> Item(t, Below[from][k])] ELSE <<>>

HasChildren(t, i) == Pending(t, i) \/ Children(t, i) # <<>>

-----------------------------------------------------------------------------
(* The window w = [tree, pane, details, bar] after the calls of a handler. *)

(* Mutant of Select: a group leaves the exports of the last preview on.    *)
SelectAlwaysExports(p, i) ==
  IF p.selected = i THEN [p EXCEPT !.current = i]
  ELSE [current |-> i, selected |-> i, exports |-> TRUE,
        preview |-> IF HasType(i) THEN i ELSE p.preview]

(* setCurrentItem of the tree: a new selection shows its resource; a group *)
(* without one, or a placeholder, leaves the last preview where it was. A  *)
(* resource that cannot be opened is shown as such, and the export is left *)
(* as it was.                                                              *)
Select(p, i) ==
  IF p.selected = i THEN [p EXCEPT !.current = i]
  ELSE [current |-> i, selected |-> i,
        exports |-> HasType(i) /\ (i.node \in Lost => p.exports),
        preview |-> IF HasType(i) THEN i ELSE p.preview]

ClearSelection(p) ==
  IF p.selected = Null THEN p ELSE [p EXCEPT !.selected = Null, !.exports = FALSE]

(* scheduleTreeIconLoading.                                                *)
ScheduleTree(t) == [t EXCEPT !.timer = @ \/ t.next < Len(t.queue)]

(* The executables of a sequence of nodes, in order.                       *)
WithIcon(new) ==
  LET icon[k \in 0..Len(new)] ==
        IF k = 0 THEN <<>>
        ELSE IF new[k] \in Executables THEN Append(icon[k - 1], new[k]) ELSE icon[k - 1]
  IN  icon[Len(new)]

(* populateFromSession: nested containers get a placeholder, executables   *)
(* wait for their icon.                                                    *)
Populate(t, source) ==
  LET waiting == WithIcon(Added[source])
  IN  [t EXCEPT !.pending = @ \cup (ToSet(Added[source]) \cap Containers),
                !.queue = @ \o [k \in 1..Len(waiting) |-> Item(t, waiting[k])]]

(* Mutant of Expand: the icons found below a container are not scheduled.  *)
ExpandUnscheduled(w, i) ==
  IF i = Null \/ ~Pending(w.tree, i) THEN w
  ELSE LET emptied == [w.tree EXCEPT !.pending = @ \ {i.node}, !.bare = @ \ {i.node}]
           opened == [emptied EXCEPT !.sessions = @ \cup {i.node}]
       IN  [w EXCEPT !.tree = IF i.node \in Navigable THEN Populate(opened, i.node) ELSE emptied,
                     !.pane = IF @.current = Placeholder(w.tree, i.node) THEN Select(@, i) ELSE @]

(* expandContainerItem: the placeholder goes, the selection with it to the *)
(* container, and what opens as something navigable takes its place.       *)
Expand(w, i) ==
  IF i = Null \/ ~Pending(w.tree, i) THEN w
  ELSE LET emptied == [w.tree EXCEPT !.pending = @ \ {i.node}, !.bare = @ \ {i.node}]
           opened == [emptied EXCEPT !.sessions = @ \cup {i.node}]
       IN  [w EXCEPT !.tree = IF i.node \in Navigable
                                THEN ScheduleTree(Populate(opened, i.node)) ELSE emptied,
                     !.pane = IF @.current = Placeholder(w.tree, i.node) THEN Select(@, i) ELSE @]

(* Mutants of Refresh: the root leaves what is out of view selected; the   *)
(* scan for icons goes on where it was in the last listing.                *)
RefreshKeepsSelection(w) ==
  LET at == w.details.location
      rows == Children(w.tree, at)
      shown == w.pane.current # Null /\ ParentOf(w.tree, w.pane.current) = at
  IN  [w EXCEPT !.details = [@ EXCEPT !.rows = rows, !.next = 0,
                               !.row = IF shown /\ w.pane.current \in ToSet(rows)
                                         THEN w.pane.current ELSE Null,
                               !.timer = w.details.on /\ rows # <<>>],
                !.pane = CASE shown -> @ [] ~shown /\ at # Null -> Select(@, at)
                           [] OTHER -> @]

RefreshKeepsIndex(w) ==
  LET at == w.details.location
      rows == Children(w.tree, at)
      shown == w.pane.current # Null /\ ParentOf(w.tree, w.pane.current) = at
  IN  [w EXCEPT !.details = [@ EXCEPT !.rows = rows, 
                               !.row = IF shown /\ w.pane.current \in ToSet(rows)
                                         THEN w.pane.current ELSE Null,
                               !.timer = w.details.on /\ rows # <<>>],
                !.pane = CASE shown -> @ [] ~shown /\ at # Null -> Select(@, at)
                           [] OTHER -> ClearSelection(@)]

(* refreshDetailsView, which keeps the selection if the location shows it  *)
(* and otherwise selects the location.                                     *)
Refresh(w) ==
  LET at == w.details.location
      rows == Children(w.tree, at)
      shown == w.pane.current # Null /\ ParentOf(w.tree, w.pane.current) = at
  IN  [w EXCEPT !.details = [@ EXCEPT !.rows = rows, !.next = 0,
                               !.row = IF shown /\ w.pane.current \in ToSet(rows)
                                         THEN w.pane.current ELSE Null,
                               !.timer = w.details.on /\ rows # <<>>],
                !.pane = CASE shown -> @ [] ~shown /\ at # Null -> Select(@, at)
                           [] OTHER -> ClearSelection(@)]

(* updateNavigationUi.                                                     *)
UpdateBar(w) ==
  LET d == w.details
  IN  [w EXCEPT !.bar = [address |-> d.location, back |-> d.on /\ d.back # <<>>,
                         forward |-> d.on /\ d.forward # <<>>, up |-> d.on /\ d.location # Null,
                         edit |-> d.on /\ w.tree.doc # NoDocument]]

(* Mutants of Navigate: the location is saved also when it does not        *)
(* change; what is pending is opened after it was listed.                  *)
NavigateSavesAlways(w, to, saveHistory) ==
  LET d == w.details
      saved == IF saveHistory
                 THEN [d EXCEPT !.back = Append(@, d.location), !.forward = <<>>] ELSE d
  IN  UpdateBar(Refresh([Expand(w, to) EXCEPT !.details = [saved EXCEPT !.location = to]]))

NavigateExpandsLast(w, to, saveHistory) ==
  LET d == w.details
      saved == IF saveHistory /\ to # d.location
                 THEN [d EXCEPT !.back = Append(@, d.location), !.forward = <<>>] ELSE d
  IN  Expand(UpdateBar(Refresh([w EXCEPT !.details = [saved EXCEPT !.location = to]])), to)

(* navigateDetailsTo.                                                      *)
Navigate(w, to, saveHistory) ==
  LET d == w.details
      saved == IF saveHistory /\ to # d.location
                 THEN [d EXCEPT !.back = Append(@, d.location), !.forward = <<>>] ELSE d
  IN  UpdateBar(Refresh([Expand(w, to) EXCEPT !.details = [saved EXCEPT !.location = to]]))

Window == [tree |-> tree, pane |-> pane, details |-> details, bar |-> bar]

Becomes(w) == tree' = w.tree /\ pane' = w.pane /\ details' = w.details /\ bar' = w.bar

Shows(w) == Becomes(w) /\ UNCHANGED <<icons, freed>>

-----------------------------------------------------------------------------
NoSelection == [current |-> Null, selected |-> Null, preview |-> Null, exports |-> FALSE]
Closed(gen) == [doc |-> NoDocument, gen |-> gen, pending |-> {}, sessions |-> {}, bare |-> {},
                queue |-> <<>>, next |-> 0, timer |-> FALSE]

Init ==
  /\ tree = Closed(0) /\ pane = NoSelection
  /\ details = [on |-> FALSE, location |-> Null, back |-> <<>>, forward |-> <<>>,
                rows |-> <<>>, row |-> Null, next |-> 0, timer |-> FALSE]
  /\ bar = [address |-> Null, back |-> FALSE, forward |-> FALSE, up |-> FALSE, edit |-> FALSE]
  /\ icons = {} /\ freed = FALSE

(* Mutants of Reset: the next locations, or the queued icons, stay.        *)
ResetKeepsForward(gen) ==
  [tree |-> Closed(gen), pane |-> [NoSelection EXCEPT !.exports = ClearSelection(pane).exports],
   details |-> [details EXCEPT !.location = Null, !.back = <<>>,
                               !.rows = <<>>, !.row = Null, !.timer = FALSE],
   bar |-> bar]

ResetKeepsQueue(gen) ==
  [tree |-> [tree EXCEPT !.doc = NoDocument, !.gen = gen, !.pending = {}, !.sessions = {},
                        !.bare = {}], pane |-> [NoSelection EXCEPT !.exports = ClearSelection(pane).exports],
   details |-> [details EXCEPT !.location = Null, !.back = <<>>, !.forward = <<>>,
                               !.rows = <<>>, !.row = Null, !.timer = FALSE],
   bar |-> bar]

(* showModuleSummary: everything is reset, which clears the selection      *)
(* first, then the file is opened.  If it cannot be, the handler ends with *)
(* a message.                                                              *)
Reset(gen) ==
  [tree |-> Closed(gen), pane |-> [NoSelection EXCEPT !.exports = ClearSelection(pane).exports],
   details |-> [details EXCEPT !.location = Null, !.back = <<>>, !.forward = <<>>,
                               !.rows = <<>>, !.row = Null, !.timer = FALSE],
   bar |-> bar]

OpenFails(d) ==
  /\ d \in Damaged /\ tree.gen < MaxOpens
  /\ Becomes(Reset(tree.gen + 1))
  /\ icons' = {} /\ UNCHANGED freed

Open(d) ==
  /\ d \notin Damaged /\ tree.gen < MaxOpens
  /\ LET w == Reset(tree.gen + 1)
         filled == [w EXCEPT !.tree = ScheduleTree(Populate([@ EXCEPT !.doc = d], d)),
                             !.pane = NoSelection]
     IN  Becomes(IF details.on THEN Navigate(filled, Null, FALSE) ELSE UpdateBar(filled))
  /\ icons' = {} /\ UNCHANGED freed

(* The tree view: a click, the arrow of an item, and the two menu actions. *)
(* Expanding everything emits no itemExpanded, so that pending containers  *)
(* are then shown with their placeholder, to be clicked like any item.     *)
ClickTree(i) ==
  /\ ~details.on /\ i \in Live(tree) /\ i # pane.selected
  /\ i.kind = "..." => i.node \in tree.bare
  /\ Shows([Window EXCEPT !.pane = Select(@, i)])

ExpandItem(i) ==
  /\ ~details.on /\ i \in Live(tree) /\ Pending(tree, i) /\ i.node \notin tree.bare
  /\ Shows(Expand(Window, i))

CollapseItem(i) ==
  /\ ~details.on /\ i \in Live(tree) /\ i.kind = "node" /\ i.node \in tree.bare
  /\ Shows([Window EXCEPT !.tree.bare = @ \ {i.node}])

ExpandAll ==
  /\ tree.bare # tree.pending
  /\ Shows([Window EXCEPT !.tree.bare = tree.pending])

CollapseAll ==
  /\ tree.bare # {}
  /\ Shows([Window EXCEPT !.tree.bare = {}])

(* setDetailsMode(true).  The item that was selected is used after the     *)
(* location was expanded; if it was the placeholder there, it is gone, and *)
(* what its memory holds then decides which row is selected.               *)
SelectRow(w, i) ==
  IF i \in ToSet(w.details.rows) /\ w.details.row # i
    THEN [w EXCEPT !.details.row = i, !.pane = Select(@, i)] ELSE w

SwitchToDetails ==
  LET i == pane.current
      at == IF i # Null /\ ~Pending(tree, i) /\ ~HasChildren(tree, i) THEN ParentOf(tree, i) ELSE i
      on == [Window EXCEPT !.details = [@ EXCEPT !.on = TRUE, !.location = Null,
                                                 !.back = <<>>, !.forward = <<>>]]
      w == Navigate(on, at, FALSE)
  IN  /\ ~details.on
      /\ freed' = (freed \/ (i # Null /\ i \notin Live(w.tree)))
      /\ \/ i = Null /\ Becomes(w)
         \/ i # Null /\ i \in Live(w.tree) /\ Becomes(UpdateBar(SelectRow(w, i)))
         \/ /\ i # Null /\ i \notin Live(w.tree)
            /\ \E r \in ToSet(w.details.rows) \cup {Null} : Becomes(SelectRow(w, r))
      /\ UNCHANGED icons

(* setDetailsMode(false).                                                  *)
SwitchToTree ==
  /\ details.on
  /\ Shows(UpdateBar([Window EXCEPT
       !.details = [@ EXCEPT !.on = FALSE, !.timer = FALSE],
       !.pane = IF @.current = Null /\ details.location # Null
                  THEN Select(@, details.location) ELSE @]))

(* The details view: a row is clicked, then activated.                     *)
ClickRow(r) ==
  /\ details.on /\ r \in ToSet(details.rows) /\ r # details.row
  /\ Shows([Window EXCEPT !.details.row = r, !.pane = Select(@, r)])

Room == Len(details.back) + Len(details.forward) < MaxHistory

ActivateRow(r) ==
  /\ details.on /\ r = details.row /\ r # Null /\ Room
  /\ Shows(IF HasChildren(tree, r) THEN Navigate(Window, r, TRUE)
           ELSE [Window EXCEPT !.pane = Select(@, r)])

(* Mutant of NavigateBack: the navigation bar is left as it was.           *)
NavigateBackQuietly ==
  /\ details.on /\ details.back # <<>>
  /\ Shows(Refresh([Window EXCEPT !.details =
       [details EXCEPT !.forward = Append(@, details.location), !.location = Last(details.back),
                       !.back = Front(@)]]))

NavigateBack ==
  /\ details.on /\ details.back # <<>>
  /\ Shows(UpdateBar(Refresh([Window EXCEPT !.details =
       [details EXCEPT !.forward = Append(@, details.location), !.location = Last(details.back),
                       !.back = Front(@)]])))

NavigateForward ==
  /\ details.on /\ details.forward # <<>>
  /\ LET to == Last(details.forward)
         moved == [Window EXCEPT !.details =
                     [details EXCEPT !.back = Append(@, details.location), !.location = to,
                                     !.forward = Front(@)]]
     IN  Shows(UpdateBar(Refresh(Expand(moved, to))))

NavigateUp ==
  /\ details.on /\ details.location # Null /\ Room
  /\ Shows(Navigate(Window, ParentOf(tree, details.location), TRUE))

(* findDetailsPath goes from the top to the child a label names, and opens *)
(* what is pending there; the first label it does not find ends it.        *)
Follow(found, n) ==
  LET child == Item(found.w.tree, n)
  IN  IF found.ok /\ child \in ToSet(Children(found.w.tree, found.at))
        THEN [ok |-> TRUE, at |-> child, w |-> Expand(found.w, child)]
        ELSE [found EXCEPT !.ok = FALSE]

Walk(w, path) ==
  LET found[k \in 0..Len(path)] ==
        IF k = 0 THEN [ok |-> TRUE, at |-> Null, w |-> w] ELSE Follow(found[k - 1], path[k])
  IN  found[Len(path)]

(* Only a place with children is one to go to; what was opened on the way  *)
(* to another stays open.                                                  *)
NavigateAddress(path) ==
  LET found == Walk(Window, path)
  IN  /\ bar.edit /\ Room
      /\ Shows(IF found.ok /\ HasChildren(found.w.tree, found.at)
                 THEN Navigate(found.w, found.at, TRUE) ELSE UpdateBar(found.w))

NavigateRoot ==
  /\ bar.edit /\ Room
  /\ Shows(Navigate(Window, Null, TRUE))

-----------------------------------------------------------------------------
(* loadNextDetailsIcon: rows are scanned up to the first executable.       *)
DetailsTimer ==
  LET rest == details.next + 1..Len(details.rows)
      scan == {k \in rest : k =< details.next + MaxScan}
      hits == {k \in scan : details.rows[k].node \in Executables}
      last == IF hits # {} THEN CHOOSE k \in hits : \A h \in hits : k =< h
              ELSE CHOOSE k \in scan \cup {details.next} : \A h \in scan : h =< k
  IN  /\ details.timer /\ details.on
      /\ details' = [details EXCEPT !.next = last, !.timer = last < Len(details.rows)]
      /\ icons' = icons \cup {details.rows[k] : k \in hits \cap {last}}
      /\ UNCHANGED <<tree, pane, bar, freed>>

(* loadNextTreeIcon: one queued item a turn.                               *)
TreeTimer ==
  LET next == tree.next + 1
      ends == next >= Len(tree.queue)
  IN  /\ tree.timer
      /\ tree' = [tree EXCEPT !.timer = ~ends, !.next = IF ends THEN 0 ELSE next,
                              !.queue = IF ends THEN <<>> ELSE @]
      /\ icons' = icons \cup {tree.queue[next]}
      /\ UNCHANGED <<pane, details, bar, freed>>

Next ==
  \/ \E d \in Documents : OpenFails(d) \/ Open(d)
  \/ \E i \in Live(tree) : ClickTree(i) \/ ExpandItem(i) \/ CollapseItem(i)
  \/ ExpandAll \/ CollapseAll \/ SwitchToDetails \/ SwitchToTree
  \/ \E r \in ToSet(details.rows) : ClickRow(r) \/ ActivateRow(r)
  \/ NavigateBack \/ NavigateForward \/ NavigateUp \/ NavigateRoot
  \/ \E path \in Addresses : NavigateAddress(path)
  \/ DetailsTimer \/ TreeTimer

(* The event loop delivers the timers' events, whatever the user does.     *)
Spec == Init /\ [][Next]_vars /\ WF_vars(TreeTimer) /\ WF_vars(DetailsTimer)

-----------------------------------------------------------------------------
Items == [gen : 1..MaxOpens, node : Nodes, kind : {"node", "..."}] \cup {Null}

(* Each part of the window has its type.                                   *)
TypeOK ==
  /\ tree \in [doc : Documents \cup {NoDocument}, gen : 0..MaxOpens, pending : SUBSET Containers,
               sessions : SUBSET Navigable, bare : SUBSET tree.pending,
               queue : Seq(Items), next : Nat, timer : BOOLEAN]
  /\ pane \in [current : Items, selected : Items, preview : Items, exports : BOOLEAN]
  /\ details \in [on : BOOLEAN, location : Items, back : Seq(Items), forward : Seq(Items),
                  rows : Seq(Items), row : Items, next : Nat, timer : BOOLEAN]
  /\ bar \in [address : Items, back : BOOLEAN, forward : BOOLEAN, up : BOOLEAN, edit : BOOLEAN]
  /\ icons \subseteq Live(tree) /\ freed \in BOOLEAN

(* Whatever is opened, expanded or closed, the pointers the window keeps   *)
(* are to items still in the tree: location, history, rows, icon queue,    *)
(* selection, and the resource the export of a preview would read.         *)
PointersLive ==
  {details.location, details.row, pane.current, pane.selected, pane.preview}
    \cup ToSet(details.back) \cup ToSet(details.forward) \cup ToSet(details.rows)
    \cup ToSet(tree.queue) \subseteq Live(tree) \cup {Null}

(* An icon waiting in the queue or the rows has its timer running: nothing *)
(* else restarts it.                                                       *)
TimersArmed ==
  /\ tree.timer <=> tree.queue # <<>>
  /\ tree.timer => tree.next < Len(tree.queue)
  /\ details.on => (details.timer <=> details.next < Len(details.rows))
  /\ details.timer => details.on

(* What Export would write is in view: in the details the selected item is *)
(* the location or one of its rows, and the highlighted row is the item    *)
(* selected in the tree.                                                   *)
ExportTargetInView ==
  details.on /\ pane.selected # Null =>
    /\ pane.selected \in ToSet(details.rows) \cup {details.location}
    /\ details.row # Null => details.row = pane.selected

(* While an export is enabled, something is selected, and the preview it   *)
(* converts is the selected resource's.                                    *)
PreviewOfSelection ==
  pane.exports => pane.selected # Null /\ pane.preview = pane.selected

(* Back and Forward always lead somewhere else: the history, read through  *)
(* the location, holds no place next to itself.                            *)
BackGoesElsewhere ==
  LET line == details.back \o <<details.location>> \o Reverse(details.forward)
  IN  \A k \in 1..Len(line) - 1 : line[k] # line[k + 1]

(* The navigation bar tells the truth about a document that is open.       *)
BarAgrees ==
  tree.doc # NoDocument => bar = UpdateBar(Window).bar

(* The rows are the location's children: expanding anything elsewhere      *)
(* leaves no stale listing.                                                *)
RowsAreChildren ==
  details.on => details.rows = Children(tree, details.location)

(* Every executable shown in the tree gets its icon, unless its document   *)
(* is closed before.                                                       *)
IconsArrive ==
  \A n \in Executables :
    n \in Present(tree) ~> (n \notin Present(tree) \/ Item(tree, n) \in icons)

(* Nothing from a prior document survives the opening of another, whether  *)
(* or not it succeeds: no part of the window names an item that is gone.   *)
NothingSurvives == bar.address \in Live(tree) \cup {Null}

(* No deleted item is used.                                                *)
NoDeletedItemUsed == ~freed
=============================================================================
