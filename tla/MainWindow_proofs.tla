--------------------------- MODULE MainWindow_proofs ---------------------------
(***************************************************************************)
(* The invariants of the main window, for every set of documents, every    *)
(* tree below them and every bound.  Handlers are compositions of calls on *)
(* a window value, so what is shown of them is shown call by call: Expand, *)
(* Refresh and Navigate keep a window sound, and an action makes the       *)
(* window its handler returns the next state.                              *)
(***************************************************************************)
EXTENDS MainWindow, Intervals, SequenceTheorems

(* The items made for nodes, and what a pointer of the window may name.    *)
Shown(t) == {Item(t, n) : n \in Present(t)}
Places(t) == Shown(t) \cup {Null}

TreeOK(t) ==
  /\ t \in [doc : Documents \cup {NoDocument}, gen : 0..MaxOpens, pending : SUBSET Containers,
            sessions : SUBSET Navigable, bare : SUBSET Containers,
            queue : Seq(Items), next : Nat, timer : BOOLEAN]
  /\ t.queue \in Seq(Shown(t))
  /\ t.bare \subseteq t.pending /\ t.pending \subseteq Present(t)
  /\ t.sessions \subseteq Present(t) \ t.pending
  /\ t.doc # NoDocument => t.gen > 0
  /\ t.timer <=> t.queue # <<>>
  /\ t.timer => t.next < Len(t.queue)
  /\ t.queue = <<>> => t.next = 0

(* Only the current item may be selected, and only it exported.            *)
PaneOK(t, p) ==
  /\ p \in [current : Live(t) \cup {Null}, selected : Live(t) \cup {Null},
            preview : Places(t), exports : BOOLEAN]
  /\ p.selected \in {p.current, Null}
  /\ p.exports => p.selected # Null /\ p.preview = p.selected

(* A place the history holds, or the location, is open.                    *)
HistoryOK(t, d) ==
  /\ ~Pending(t, d.location)
  /\ \A k \in 1..Len(d.back) : ~Pending(t, d.back[k])
  /\ \A k \in 1..Len(d.forward) : ~Pending(t, d.forward[k])
  /\ \A k \in 1..Len(d.back) - 1 : d.back[k] # d.back[k + 1]
  /\ \A k \in 1..Len(d.forward) - 1 : d.forward[k] # d.forward[k + 1]
  /\ d.back # <<>> => d.back[Len(d.back)] # d.location
  /\ d.forward # <<>> => d.forward[Len(d.forward)] # d.location

DetailsOK(t, d) ==
  d \in [on : BOOLEAN, location : Places(t), back : Seq(Places(t)), forward : Seq(Places(t)),
         rows : Seq(Shown(t)), row : Places(t), next : Nat, timer : BOOLEAN]

BarType == [address : Items, back : BOOLEAN, forward : BOOLEAN, up : BOOLEAN, edit : BOOLEAN]

(* What holds of a window between two calls of a handler.                  *)
Sound(w) ==
  /\ w = [tree |-> w.tree, pane |-> w.pane, details |-> w.details, bar |-> w.bar]
  /\ w.bar \in BarType
  /\ TreeOK(w.tree) /\ PaneOK(w.tree, w.pane)
  /\ DetailsOK(w.tree, w.details) /\ HistoryOK(w.tree, w.details)

(* The details view in step with the tree and the selection.               *)
InStep(w) ==
  /\ w.details.timer => w.details.on
  /\ w.details.on =>
       /\ w.details.rows = Children(w.tree, w.details.location)
       /\ w.details.timer <=> w.details.next < Len(w.details.rows)
       /\ w.pane.current.kind # "..."
       /\ w.pane.selected # Null =>
            /\ w.pane.selected \in ToSet(w.details.rows) \cup {w.details.location}
            /\ w.details.row # Null => w.details.row = w.pane.selected

BarOK(w) ==
  /\ w.bar.edit => w.details.on
  /\ w.tree.doc # NoDocument => w.bar = UpdateBar(w).bar

WindowOK(w) == Sound(w) /\ InStep(w) /\ BarOK(w)

Inv == WindowOK(Window) /\ icons \subseteq Shown(tree) /\ freed \in BOOLEAN
-----------------------------------------------------------------------------
(* Sequences of a set are sequences of a larger one.                       *)
LEMMA SeqGrows ==
  ASSUME NEW A, NEW B, A \subseteq B, NEW s \in Seq(A)
  PROVE  s \in Seq(B)
  OBVIOUS

(* Items of the tree are items, and none of them is the null pointer.      *)
LEMMA ShownItems ==
  ASSUME NEW t, TreeOK(t)
  PROVE  /\ Shown(t) \subseteq Items /\ Live(t) \subseteq Items
         /\ Null \notin Live(t) /\ Shown(t) \subseteq Live(t)
         /\ \A i \in Shown(t) : i.kind = "node" /\ i.node \in Present(t) /\ i = Item(t, i.node)
         /\ Present(t) \subseteq Nodes
<1>1. Present(t) \subseteq Nodes
  BY MainWindowAssumption DEF Present, TreeOK, Sources, ToSet
<1>2. Present(t) # {} => t.gen \in 1..MaxOpens
  BY MainWindowAssumption DEF Present, TreeOK
<1>3. t.pending \subseteq Present(t)
  BY DEF TreeOK
<1>4. \A n \in Present(t) : Item(t, n) \in Items /\ Placeholder(t, n) \in Items
  BY <1>1, <1>2 DEF Items, Item, Placeholder
<1>5. Shown(t) \subseteq Items /\ Live(t) \subseteq Items /\ Shown(t) \subseteq Live(t)
  BY <1>3, <1>4 DEF Shown, Live
<1>6. Null \notin Live(t)
  BY DEF Live, Null, Item, Placeholder
<1>7. \A i \in Shown(t) : i.kind = "node" /\ i.node \in Present(t) /\ i = Item(t, i.node)
  BY DEF Shown, Item
<1> QED
  BY <1>1, <1>5, <1>6, <1>7

(* What is present was added by the document or an open container.         *)
LEMMA PresentSource ==
  ASSUME NEW t, TreeOK(t), NEW n \in Present(t)
  PROVE  \E s \in {t.doc} \cup t.sessions :
           /\ s \in Sources /\ t.doc # NoDocument /\ n \in ToSet(Added[s])
           /\ ToSet(Added[s]) \subseteq Present(t)
<1>1. t.doc # NoDocument /\ Present(t) = UNION {ToSet(Added[s]) : s \in {t.doc} \cup t.sessions}
  BY DEF Present
<1>2. t.doc \in Sources /\ t.sessions \subseteq Sources
  BY <1>1 DEF TreeOK, Sources
<1>3. PICK s \in {t.doc} \cup t.sessions : n \in ToSet(Added[s])
  BY <1>1
<1>4. ToSet(Added[s]) \subseteq Present(t)
  BY <1>1
<1> QED
  BY <1>1, <1>2, <1>3, <1>4

(* The children of a place in the tree are in the tree.                    *)
LEMMA ChildrenShown ==
  ASSUME NEW t, TreeOK(t), NEW i \in Places(t)
  PROVE  Children(t, i) \in Seq(Shown(t))
<1> DEFINE from == IF i = Null THEN t.doc ELSE i.node
           known == \/ i = Null /\ t.doc # NoDocument
                    \/ i # Null /\ i.kind = "node" /\ i.node \in Groups \cup t.sessions
<1>1. ASSUME known PROVE from \in Sources \cup Groups /\ ToSet(Below[from]) \subseteq Present(t)
  <2>1. ASSUME t.doc # NoDocument, from \in {t.doc} \cup t.sessions
        PROVE  from \in Sources /\ ToSet(Below[from]) \subseteq Present(t)
    <3>1. from \in Sources
      BY <2>1 DEF TreeOK, Sources
    <3>2. ToSet(Added[from]) \subseteq Present(t)
      BY <2>1 DEF Present
    <3> QED
      BY <3>1, <3>2, MainWindowAssumption
  <2>2. CASE i # Null /\ i.node \in t.sessions
    <3>1. t.doc # NoDocument
      BY <2>2 DEF TreeOK, Present
    <3> QED
      BY <2>1, <2>2, <3>1
  <2>3. CASE i # Null /\ i.node \in Groups
    <3>1. i \in Shown(t) /\ i.node \in Present(t)
      BY <2>3, ShownItems DEF Places
    <3>2. PICK s \in {t.doc} \cup t.sessions :
            s \in Sources /\ i.node \in ToSet(Added[s]) /\ ToSet(Added[s]) \subseteq Present(t)
      BY <3>1, PresentSource
    <3> QED
      BY <2>3, <3>2, MainWindowAssumption
  <2> QED
    BY <1>1, <2>1, <2>2, <2>3
<1>2. ASSUME known PROVE Below[from] \in Seq(Nodes)
                         /\ \A k \in 1..Len(Below[from]) : Below[from][k] \in Present(t)
  <2>1. Below[from] \in Seq(Nodes)
    BY <1>1, <1>2, MainWindowAssumption
  <2> QED
    BY <1>1, <1>2, <2>1 DEF ToSet
<1>3. ASSUME known
      PROVE  [k \in 1..Len(Below[from]) |-> Item(t, Below[from][k])] \in Seq(Shown(t))
  BY <1>2, <1>3 DEF Shown
<1>4. CASE known
  BY <1>3, <1>4 DEF Children
<1>5. CASE ~known
  <2>1. Children(t, i) = <<>>
    BY <1>5 DEF Children
  <2> QED
    BY <2>1
<1> QED
  BY <1>4, <1>5

(* An item is a child of its parent, which is in the tree.                 *)
LEMMA ParentShown ==
  ASSUME NEW t, TreeOK(t), NEW i \in Live(t)
  PROVE  /\ ParentOf(t, i) \in Places(t)
         /\ i.kind # "..." => i \in ToSet(Children(t, ParentOf(t, i)))
<1>1. CASE i.kind = "..."
  BY <1>1 DEF ParentOf, Live, Item, Placeholder, TreeOK, Places, Shown
<1>2. CASE i.kind # "..."
  <2>1. i \in Shown(t) /\ i.node \in Present(t) /\ i = Item(t, i.node) /\ i # Null
    BY <1>2, ShownItems DEF Live, Shown, Item, Placeholder
  <2>2. PICK s \in {t.doc} \cup t.sessions :
          s \in Sources /\ t.doc # NoDocument /\ i.node \in ToSet(Added[s])
          /\ ToSet(Added[s]) \subseteq Present(t)
    BY <2>1, PresentSource
  <2> DEFINE a == Above[i.node]
  <2>3. i.node \in Nodes
    BY <2>1, ShownItems
  <2>4. a = s \/ a \in Groups \cap ToSet(Added[s])
    BY <2>2, MainWindowAssumption
  <2>5. t.doc \in Documents /\ t.sessions \subseteq Nodes /\ t.sessions \subseteq Present(t)
    BY <2>2, MainWindowAssumption DEF TreeOK
  <2>6. CASE a \in Documents
    <3>1. a = t.doc
      BY <2>2, <2>4, <2>5, <2>6, MainWindowAssumption
    <3>2. ParentOf(t, i) = Null
      BY <1>2, <2>6 DEF ParentOf
    <3>3. i.node \in ToSet(Below[t.doc])
      BY <2>2, <2>3, <2>5, <3>1, MainWindowAssumption DEF Sources
    <3>4. Below[t.doc] \in Seq(Nodes)
      BY <2>5, MainWindowAssumption DEF Sources
    <3>5. PICK k \in 1..Len(Below[t.doc]) : Below[t.doc][k] = i.node
      BY <3>3, <3>4 DEF ToSet
    <3>6. Children(t, Null) = [j \in 1..Len(Below[t.doc]) |-> Item(t, Below[t.doc][j])]
      BY <2>2 DEF Children
    <3>7. i \in ToSet(Children(t, Null))
      BY <2>1, <3>5, <3>6 DEF ToSet
    <3> QED
      BY <3>2, <3>7 DEF Places
  <2>7. CASE a \notin Documents
    <3>1. a \in Groups \cup t.sessions /\ a \in Present(t) /\ a \in Nodes
      BY <2>2, <2>4, <2>5, <2>7, MainWindowAssumption
    <3>2. ParentOf(t, i) = Item(t, a)
      BY <1>2, <2>7 DEF ParentOf
    <3>3. a \in Sources \cup Groups
      BY <3>1, MainWindowAssumption DEF Sources, TreeOK
    <3>4. i.node \in ToSet(Below[a])
      BY <2>3, <3>3, MainWindowAssumption
    <3>5. Below[a] \in Seq(Nodes)
      BY <3>3, MainWindowAssumption
    <3>6. PICK k \in 1..Len(Below[a]) : Below[a][k] = i.node
      BY <3>4, <3>5 DEF ToSet
    <3>7. Children(t, Item(t, a)) = [j \in 1..Len(Below[a]) |-> Item(t, Below[a][j])]
      BY <3>1 DEF Children, Item, Null
    <3>8. i \in ToSet(Children(t, Item(t, a)))
      BY <2>1, <3>6, <3>7 DEF ToSet
    <3> QED
      BY <3>1, <3>2, <3>8 DEF Places, Shown
  <2> QED
    BY <2>6, <2>7
<1> QED
  BY <1>1, <1>2
-----------------------------------------------------------------------------
(* The executables of a sequence are elements of it.                       *)
LEMMA WithIconType ==
  ASSUME NEW new \in Seq(Nodes)
  PROVE  WithIcon(new) \in Seq(ToSet(new))
<1> DEFINE N == Len(new)
           A == Seq(ToSet(new))
           Step(s, k) == IF new[k] \in Executables THEN Append(s, new[k]) ELSE s
           Is(g) == g = [k \in 0..N |-> IF k = 0 THEN <<>> ELSE Step(g[k - 1], k)]
           step == [k \in 1..N |-> [s \in A |-> Step(s, k)]]
<1>1. N \in Nat /\ \A k \in 1..N : new[k] \in ToSet(new)
  BY DEF ToSet
<1>2. \A s \in A, k \in 1..N : Step(s, k) \in A
  BY <1>1
<1>3. step \in [1..N -> [A -> A]]
  BY <1>2
<1>4. PICK f \in [0..N -> A] : Recurses(f, N, <<>>, step)
  <2>1. <<>> \in A
    OBVIOUS
  <2> HIDE DEF A, step, N
  <2> QED
    BY <1>1, <1>3, <2>1, RecursionDefines
<1>5. Is(f)
  <2>1. ASSUME NEW k \in 1..N PROVE f[k] = Step(f[k - 1], k)
    <3>1. f[k - 1] \in A
      BY <1>1
    <3> HIDE DEF A, Step
    <3> QED
      BY <1>4, <3>1 DEF Recurses
  <2> HIDE DEF Step, step, A
  <2> QED
    BY <1>1, <1>4, <2>1 DEF Recurses
<1> DEFINE icon == CHOOSE g : Is(g)
<1>6. Is(icon)
  <2> HIDE DEF Is
  <2> QED
    BY <1>5
<1> DEFINE S == {k \in 0..N : icon[k] \in A}
<1>7. 0..N \subseteq S
  <2>1. <<>> \in A
    OBVIOUS
  <2> HIDE DEF icon, Step, A, N
  <2>2. icon[0] = <<>> /\ \A k \in 1..N : icon[k] = Step(icon[k - 1], k)
    BY <1>1, <1>6
  <2>3. 0 \in S
    BY <1>1, <2>1, <2>2
  <2>4. \A k \in 1..N : k - 1 \in S => k \in S
    BY <1>1, <1>2, <2>2
  <2> HIDE DEF S
  <2> QED
    BY <1>1, <2>3, <2>4, SetInduction
<1>8. icon[N] \in A
  <2> HIDE DEF icon, A
  <2> QED
    BY <1>1, <1>7
<1> QED
  BY <1>8 DEF WithIcon
-----------------------------------------------------------------------------
(* A tree whose newest source is populated is sound again, and waits for   *)
(* the icons of what was added.                                            *)
LEMMA PopulateOK ==
  ASSUME NEW t, TreeOK(t), NEW s \in {t.doc} \cup t.sessions, s \in Sources,
         ToSet(Added[s]) \cap t.sessions = {}
  PROVE  LET r == ScheduleTree(Populate(t, s))
         IN  /\ TreeOK(r) /\ r.doc = t.doc /\ r.gen = t.gen /\ r.sessions = t.sessions
             /\ r.pending = t.pending \cup (ToSet(Added[s]) \cap Containers)
             /\ r.bare = t.bare
<1> DEFINE waiting == WithIcon(Added[s])
           new == [k \in 1..Len(waiting) |-> Item(t, waiting[k])]
           q == t.queue \o new
           more == ToSet(Added[s]) \cap Containers
           r == ScheduleTree(Populate(t, s))
<1>1. Added[s] \in Seq(Nodes) /\ ToSet(Added[s]) \subseteq Present(t)
  <2>1. t.doc # NoDocument
    BY MainWindowAssumption DEF TreeOK, Present, Sources
  <2> QED
    BY <2>1, MainWindowAssumption DEF Present
<1>2. waiting \in Seq(ToSet(Added[s]))
  BY <1>1, WithIconType
<1>3. new \in Seq(Shown(t)) /\ Len(new) \in Nat
  <2> HIDE DEF waiting
  <2>1. \A k \in 1..Len(waiting) : waiting[k] \in Present(t)
    BY <1>1, <1>2
  <2>2. \A k \in 1..Len(waiting) : Item(t, waiting[k]) \in Shown(t)
    BY <2>1 DEF Shown
  <2> QED
    BY <1>2, <2>2
<1>4. /\ t.queue \in Seq(Shown(t)) /\ q \in Seq(Shown(t)) /\ Len(q) = Len(t.queue) + Len(new)
      /\ Len(t.queue) \in Nat /\ t.next \in Nat
  <2> HIDE DEF new
  <2> QED
    BY <1>3 DEF TreeOK
<1>5. r = [t EXCEPT !.pending = t.pending \cup more, !.queue = q,
                    !.timer = t.timer \/ t.next < Len(q)]
  <2> HIDE DEF waiting
  <2>1. t \in [doc : Documents \cup {NoDocument}, gen : 0..MaxOpens, pending : SUBSET Containers,
               sessions : SUBSET Navigable, bare : SUBSET Containers,
               queue : Seq(Items), next : Nat, timer : BOOLEAN]
    BY DEF TreeOK
  <2>2. Populate(t, s) = [t EXCEPT !.pending = t.pending \cup more, !.queue = q]
    BY <2>1 DEF Populate, waiting
  <2> HIDE DEF q, more
  <2> QED
    BY <2>1, <2>2 DEF ScheduleTree
<1> HIDE DEF r, q, new, waiting
<1>6. /\ r.doc = t.doc /\ r.gen = t.gen /\ r.sessions = t.sessions /\ r.bare = t.bare
      /\ r.pending = t.pending \cup more /\ r.queue = q /\ r.next = t.next
      /\ r.timer = (t.timer \/ t.next < Len(q))
  BY <1>5 DEF TreeOK
<1>7. Present(r) = Present(t) /\ Shown(r) = Shown(t)
  BY <1>6 DEF Present, Shown, Item
<1>8. q \in Seq(Items)
  BY <1>4, ShownItems, SeqGrows
<1>9. r \in [doc : Documents \cup {NoDocument}, gen : 0..MaxOpens, pending : SUBSET Containers,
             sessions : SUBSET Navigable, bare : SUBSET Containers,
             queue : Seq(Items), next : Nat, timer : BOOLEAN]
  BY <1>4, <1>5, <1>8 DEF TreeOK
<1>10. /\ r.bare \subseteq r.pending /\ r.pending \subseteq Present(r)
       /\ r.sessions \subseteq Present(r) \ r.pending
       /\ r.doc # NoDocument => r.gen > 0
  BY <1>1, <1>6, <1>7 DEF TreeOK
<1>11. /\ r.timer <=> r.queue # <<>>
       /\ r.timer => r.next < Len(r.queue)
       /\ r.queue = <<>> => r.next = 0
  <2>1. q = <<>> <=> Len(q) = 0
    BY <1>4
  <2>2. t.queue = <<>> <=> Len(t.queue) = 0
    BY <1>4
  <2>5. r.timer <=> (t.timer \/ t.next < Len(q))
    BY <1>6
  <2>3. CASE t.queue = <<>>
    <3>1. ~t.timer /\ t.next = 0
      BY <2>3 DEF TreeOK
    <3> QED
      BY <1>3, <1>4, <1>6, <2>1, <2>2, <2>3, <2>5, <3>1
  <2>4. CASE t.queue # <<>>
    <3>1. t.timer /\ t.next < Len(t.queue)
      BY <2>4 DEF TreeOK
    <3> QED
      BY <1>3, <1>4, <1>6, <2>1, <2>2, <2>4, <2>5, <3>1
  <2> QED
    BY <2>3, <2>4
<1>12. TreeOK(r)
  BY <1>4, <1>6, <1>7, <1>9, <1>10, <1>11 DEF TreeOK
<1> QED
  BY <1>6, <1>12 DEF r

(* The tree after a pending container was opened.                          *)
Emptied(t, c) == [t EXCEPT !.pending = @ \ {c}, !.bare = @ \ {c}]
ExpandedTree(t, c) ==
  IF c \in Navigable
    THEN ScheduleTree(Populate([Emptied(t, c) EXCEPT !.sessions = @ \cup {c}], c))
    ELSE Emptied(t, c)

(* It is sound, holds all it held but the container's placeholder, and     *)
(* what is pending in it and was there before was pending then.            *)
LEMMA ExpandedTreeOK ==
  ASSUME NEW t, TreeOK(t), NEW c \in t.pending
  PROVE  LET r == ExpandedTree(t, c)
         IN  /\ TreeOK(r) /\ r.doc = t.doc /\ r.gen = t.gen
             /\ Present(t) \subseteq Present(r)
             /\ t.pending \ {c} \subseteq r.pending
             /\ r.pending \cap Present(t) \subseteq t.pending \ {c}
             /\ t.sessions \subseteq r.sessions /\ r.sessions \subseteq t.sessions \cup {c}
<1> DEFINE e == Emptied(t, c)
           o == [e EXCEPT !.sessions = @ \cup {c}]
<1>1. /\ e = [t EXCEPT !.pending = t.pending \ {c}, !.bare = t.bare \ {c}]
      /\ e.doc = t.doc /\ e.gen = t.gen /\ e.sessions = t.sessions /\ e.queue = t.queue
      /\ e.next = t.next /\ e.timer = t.timer
      /\ e.pending = t.pending \ {c} /\ e.bare = t.bare \ {c}
  BY DEF Emptied, TreeOK
<1>2. Present(e) = Present(t) /\ Shown(e) = Shown(t)
  BY <1>1 DEF Present, Shown, Item
<1>3. TreeOK(e)
  BY <1>1, <1>2 DEF TreeOK
<1>4. CASE c \notin Navigable
  BY <1>1, <1>2, <1>3, <1>4 DEF ExpandedTree
<1>5. CASE c \in Navigable
  <2> HIDE DEF e
  <2>1. /\ o = [e EXCEPT !.sessions = t.sessions \cup {c}]
        /\ o.doc = t.doc /\ o.gen = t.gen /\ o.sessions = t.sessions \cup {c}
        /\ o.queue = t.queue /\ o.next = t.next /\ o.timer = t.timer
        /\ o.pending = t.pending \ {c} /\ o.bare = t.bare \ {c}
    BY <1>1, <1>3 DEF TreeOK
  <2> HIDE DEF o
  <2>2. t.doc # NoDocument /\ c \in Present(t) /\ c \in Sources /\ t.doc \in Documents
    BY <1>5 DEF TreeOK, Present, Sources
  <2>3. Present(o) = Present(t) \cup ToSet(Added[c])
    BY <2>1, <2>2 DEF Present
  <2>4. Shown(t) \subseteq Shown(o)
    BY <2>1, <2>3 DEF Shown, Item
  <2>5. t.queue \in Seq(Shown(o))
    BY <2>4, SeqGrows DEF TreeOK
  <2>6. o \in [doc : Documents \cup {NoDocument}, gen : 0..MaxOpens, pending : SUBSET Containers,
               sessions : SUBSET Navigable, bare : SUBSET Containers,
               queue : Seq(Items), next : Nat, timer : BOOLEAN]
    BY <1>3, <1>5, <2>1 DEF TreeOK
  <2>7. TreeOK(o)
    BY <2>1, <2>2, <2>3, <2>5, <2>6 DEF TreeOK
  <2>8. ToSet(Added[c]) \cap Present(t) = {}
    <3>1. ASSUME NEW n \in ToSet(Added[c]), n \in Present(t) PROVE FALSE
      <4>1. PICK s \in {t.doc} \cup t.sessions : s \in Sources /\ n \in ToSet(Added[s])
        BY <3>1, PresentSource
      <4>2. s # c
        BY <1>5, <2>2, MainWindowAssumption DEF TreeOK
      <4> QED
        BY <2>2, <3>1, <4>1, <4>2, MainWindowAssumption
    <3> QED
      BY <3>1
  <2>9. c \notin ToSet(Added[c]) /\ ToSet(Added[c]) \cap o.sessions = {}
    BY <2>1, <2>2, <2>8 DEF TreeOK
  <2> DEFINE r == ScheduleTree(Populate(o, c))
  <2>10. /\ TreeOK(r) /\ r.doc = t.doc /\ r.gen = t.gen /\ r.sessions = t.sessions \cup {c}
         /\ r.pending = (t.pending \ {c}) \cup (ToSet(Added[c]) \cap Containers)
    <3>1. c \in {o.doc} \cup o.sessions
      BY <2>1
    <3>2. /\ TreeOK(r) /\ r.doc = o.doc /\ r.gen = o.gen /\ r.sessions = o.sessions
          /\ r.pending = o.pending \cup (ToSet(Added[c]) \cap Containers)
      BY <2>2, <2>7, <2>9, <3>1, PopulateOK
    <3> QED
      BY <2>1, <3>2
  <2>11. ExpandedTree(t, c) = r
    BY <1>5 DEF ExpandedTree, o, e
  <2> HIDE DEF r
  <2>12. Present(r) = Present(o)
    BY <2>1, <2>10 DEF Present
  <2> QED
    BY <2>3, <2>8, <2>10, <2>11, <2>12
<1> QED
  BY <1>4, <1>5
-----------------------------------------------------------------------------
(* Selecting an item of the tree keeps the selection sound.                *)
LEMMA SelectOK ==
  ASSUME NEW t, TreeOK(t), NEW p, PaneOK(t, p), NEW i \in Live(t)
  PROVE  /\ PaneOK(t, Select(p, i))
         /\ Select(p, i).current = i /\ Select(p, i).selected = i
<1>1. i # Null /\ (HasType(i) => i \in Shown(t))
  BY ShownItems DEF HasType, Live, Shown, Item, Placeholder
<1>2. HasType(i) \in BOOLEAN
  BY DEF HasType
<1>3. CASE p.selected = i
  <2>1. Select(p, i) = [p EXCEPT !.current = i]
    BY <1>3 DEF Select
  <2> QED
    BY <1>1, <1>3, <2>1 DEF PaneOK
<1>4. CASE p.selected # i
  <2> DEFINE exports == HasType(i) /\ (i.node \in Lost => p.exports)
  <2>1. Select(p, i) = [current |-> i, selected |-> i, exports |-> exports,
                        preview |-> IF HasType(i) THEN i ELSE p.preview]
    BY <1>4 DEF Select
  <2>2. p.preview \in Places(t) /\ p.exports \in BOOLEAN
    BY DEF PaneOK
  <2>3. exports \in BOOLEAN /\ (exports => HasType(i))
    BY <1>2, <2>2
  <2> HIDE DEF HasType, exports
  <2> QED
    BY <1>1, <1>2, <2>1, <2>2, <2>3 DEF PaneOK, Places
<1> QED
  BY <1>3, <1>4

(* Clearing it does too.                                                   *)
LEMMA ClearOK ==
  ASSUME NEW t, NEW p, PaneOK(t, p)
  PROVE  /\ PaneOK(t, ClearSelection(p)) /\ ClearSelection(p).selected = Null
         /\ ClearSelection(p).current = p.current
<1>1. CASE p.selected = Null
  BY <1>1 DEF ClearSelection
<1>2. CASE p.selected # Null
  <2>1. ClearSelection(p) = [p EXCEPT !.selected = Null, !.exports = FALSE]
    BY <1>2 DEF ClearSelection
  <2> QED
    BY <2>1 DEF PaneOK
<1> QED
  BY <1>1, <1>2

(* The details stay sound when the tree grows and opens nothing they hold. *)
LEMMA DetailsGrow ==
  ASSUME NEW t, NEW r, NEW d, Shown(t) \subseteq Shown(r), DetailsOK(t, d)
  PROVE  DetailsOK(r, d)
<1>1. Places(t) \subseteq Places(r)
  BY DEF Places
<1>2. /\ d.back \in Seq(Places(r)) /\ d.forward \in Seq(Places(r)) /\ d.rows \in Seq(Shown(r))
      /\ d.location \in Places(r) /\ d.row \in Places(r)
  BY <1>1, SeqGrows DEF DetailsOK
<1> QED
  BY <1>2 DEF DetailsOK

(* Expanding an item keeps a window sound.  What was open stays so, with   *)
(* the children it had, and a selection moves only from the placeholder    *)
(* that is gone to the item that was expanded.                             *)
LEMMA ExpandOK ==
  ASSUME NEW w, Sound(w), NEW i \in Places(w.tree)
  PROVE  LET r == Expand(w, i)
         IN  /\ Sound(r) /\ r.details = w.details /\ r.bar = w.bar
             /\ r.tree.doc = w.tree.doc /\ r.tree.gen = w.tree.gen
             /\ Shown(w.tree) \subseteq Shown(r.tree) /\ ~Pending(r.tree, i)
             /\ \A j \in Places(w.tree) : ~Pending(w.tree, j) =>
                  ~Pending(r.tree, j) /\ Children(r.tree, j) = Children(w.tree, j)
             /\ r.pane = w.pane \/ r.pane.current = i
             /\ r.pane.current # Placeholder(w.tree, i.node) \/ ~Pending(w.tree, i)
             /\ w.pane.current.kind # "..." => r.pane = w.pane
<1> DEFINE t == w.tree
           c == i.node
           u == ExpandedTree(t, c)
           p == IF w.pane.current = Placeholder(t, c) THEN Select(w.pane, i) ELSE w.pane
           r == Expand(w, i)
<1>1. CASE i = Null \/ ~Pending(t, i)
  <2>1. r = w
    BY <1>1 DEF Expand
  <2>2. ~Pending(t, i)
    BY <1>1 DEF Pending, Null
  <2>3. w.tree = t
    OBVIOUS
  <2> HIDE DEF r, t
  <2> QED
    BY <2>1, <2>2, <2>3 DEF r
<1>2. CASE i # Null /\ Pending(t, i)
  <2>1. /\ w = [tree |-> t, pane |-> w.pane, details |-> w.details, bar |-> w.bar]
        /\ TreeOK(t) /\ PaneOK(t, w.pane) /\ DetailsOK(t, w.details) /\ HistoryOK(t, w.details)
        /\ w.bar \in BarType
    BY DEF Sound
  <2>2. i \in Shown(t) /\ c \in t.pending /\ i = Item(t, c)
    BY <1>2, <2>1, ShownItems DEF Places, Pending
  <2>3. r = [w EXCEPT !.tree = u, !.pane = p]
    BY <1>2, <2>1 DEF Expand, ExpandedTree, Emptied
  <2>4. /\ r = [tree |-> u, pane |-> p, details |-> w.details, bar |-> w.bar]
        /\ r.tree = u /\ r.pane = p /\ r.details = w.details /\ r.bar = w.bar
    <3> HIDE DEF u, p, r
    <3> QED
      BY <2>1, <2>3
  <2>5. /\ TreeOK(u) /\ u.doc = t.doc /\ u.gen = t.gen
        /\ Present(t) \subseteq Present(u)
        /\ t.pending \ {c} \subseteq u.pending
        /\ u.pending \cap Present(t) \subseteq t.pending \ {c}
        /\ t.sessions \subseteq u.sessions /\ u.sessions \subseteq t.sessions \cup {c}
    BY <2>1, <2>2, ExpandedTreeOK
  <2> HIDE DEF u, t, r
  <2>6. Shown(t) \subseteq Shown(u)
    BY <2>5 DEF Shown, Item
  <2>7. \A j \in Shown(t) : j.kind = "node" /\ j.node \in Present(t) /\ j = Item(t, j.node)
    BY <2>1, ShownItems
  <2>8. ~Pending(u, i)
    BY <2>2, <2>5, <2>7 DEF Pending
  <2>9. ASSUME NEW j \in Places(t), ~Pending(t, j)
        PROVE  ~Pending(u, j) /\ Children(u, j) = Children(t, j)
    <3>1. CASE j = Null
      BY <2>5, <3>1 DEF Pending, Null, Children, Item
    <3>2. CASE j \in Shown(t)
      <4>1. j.node # c /\ j.node \notin t.pending /\ j.node \in Present(t)
        BY <2>2, <2>7, <2>9, <3>2 DEF Pending
      <4>2. j.node \notin u.pending
        BY <2>5, <4>1
      <4>3. j.node \in u.sessions <=> j.node \in t.sessions
        BY <2>5, <4>1
      <4>4. Children(u, j) = Children(t, j)
        BY <2>5, <4>3 DEF Children, Item
      <4> QED
        BY <4>2, <4>4 DEF Pending
    <3> QED
      BY <2>9, <3>1, <3>2 DEF Places
  <2>10. \A x \in Live(t) : x \in Live(u) \/ x = Placeholder(t, c)
    <3>1. ASSUME NEW n \in Present(t) PROVE Item(t, n) \in Live(u)
      BY <2>5 DEF Live, Item
    <3>2. ASSUME NEW n \in t.pending, n # c PROVE Placeholder(t, n) \in Live(u)
      BY <2>5, <3>2 DEF Live, Placeholder
    <3> QED
      BY <3>1, <3>2 DEF Live
  <2>11. i \in Live(u) /\ i \in Shown(u) /\ i.kind = "node"
    BY <2>2, <2>5, <2>6, <2>7, ShownItems
  <2>12. PaneOK(u, p) /\ (p = w.pane \/ p.current = i) /\ p.current # Placeholder(t, c)
         /\ (w.pane.current.kind # "..." => p = w.pane)
    <3>1. CASE w.pane.current = Placeholder(t, c)
      <4>1. w.pane.selected # i
        BY <2>1, <2>11, <3>1 DEF PaneOK, Placeholder, Null
      <4>2. HasType(i)
        BY <2>2, <2>11, MainWindowAssumption DEF HasType, TreeOK, Sound, t
      <4> DEFINE exports == i.node \in Lost => w.pane.exports
      <4>3. p = [current |-> i, selected |-> i, exports |-> exports, preview |-> i]
        BY <3>1, <4>1, <4>2 DEF Select
      <4>5. exports \in BOOLEAN
        BY <2>1 DEF PaneOK
      <4>4. w.pane.current.kind = "..." /\ i # Placeholder(t, c)
        BY <2>11, <3>1 DEF Placeholder
      <4> HIDE DEF p, exports
      <4> QED
        BY <2>11, <4>3, <4>4, <4>5 DEF PaneOK, Places, Null
    <3>2. CASE w.pane.current # Placeholder(t, c)
      <4>1. p = w.pane
        BY <3>2
      <4>2. w.pane.current \in Live(u) \cup {Null} /\ w.pane.selected \in Live(u) \cup {Null}
        BY <2>1, <2>10, <3>2 DEF PaneOK
      <4>3. w.pane.preview \in Places(u)
        BY <2>1, <2>6 DEF PaneOK, Places
      <4> QED
        BY <2>1, <3>2, <4>1, <4>2, <4>3 DEF PaneOK
    <3> QED
      BY <3>1, <3>2
  <2>13. HistoryOK(u, w.details)
    <3>1. w.details.location \in Places(t)
      BY <2>1 DEF DetailsOK
    <3>2. \A k \in 1..Len(w.details.back) : w.details.back[k] \in Places(t)
      BY <2>1 DEF DetailsOK
    <3>3. \A k \in 1..Len(w.details.forward) : w.details.forward[k] \in Places(t)
      BY <2>1 DEF DetailsOK
    <3> QED
      BY <2>1, <2>9, <3>1, <3>2, <3>3 DEF HistoryOK
  <2>14. DetailsOK(u, w.details)
    BY <2>1, <2>6, DetailsGrow
  <2>15. Sound(r)
    BY <2>1, <2>4, <2>5, <2>12, <2>13, <2>14 DEF Sound
  <2> HIDE DEF p
  <2>16. Pending(t, i) /\ w.tree = t
    BY <1>2 DEF t
  <2> QED
    BY <2>4, <2>5, <2>6, <2>8, <2>9, <2>12, <2>15, <2>16 DEF r
<1> QED
  BY <1>1, <1>2
-----------------------------------------------------------------------------
(* Refreshing the details brings them in step with tree and selection.     *)
LEMMA RefreshOK ==
  ASSUME NEW w, Sound(w), w.details.on => w.pane.current.kind # "..."
  PROVE  LET r == Refresh(w)
         IN  /\ Sound(r) /\ InStep(r) /\ r.tree = w.tree /\ r.bar = w.bar
             /\ r.details.on = w.details.on /\ r.details.location = w.details.location
             /\ r.details.back = w.details.back /\ r.details.forward = w.details.forward
<1> DEFINE t == w.tree
           d == w.details
           p == w.pane
           at == d.location
           rows == Children(t, at)
           shown == p.current # Null /\ ParentOf(t, p.current) = at
           row == IF shown /\ p.current \in ToSet(rows) THEN p.current ELSE Null
           e == [d EXCEPT !.rows = rows, !.next = 0, !.row = row, !.timer = d.on /\ rows # <<>>]
           q == CASE shown -> p [] ~shown /\ at # Null -> Select(p, at)
                  [] OTHER -> ClearSelection(p)
           r == Refresh(w)
<1>1. /\ w = [tree |-> t, pane |-> p, details |-> d, bar |-> w.bar] /\ w.bar \in BarType
      /\ TreeOK(t) /\ PaneOK(t, p) /\ DetailsOK(t, d) /\ HistoryOK(t, d)
  BY DEF Sound
<1>2. r = [w EXCEPT !.details = e, !.pane = q]
  BY <1>1 DEF Refresh
<1>3. /\ r = [tree |-> t, pane |-> q, details |-> e, bar |-> w.bar]
      /\ r.tree = t /\ r.pane = q /\ r.details = e /\ r.bar = w.bar
  <2> HIDE DEF e, q, r
  <2> QED
    BY <1>1, <1>2
<1> HIDE DEF r
<1>4. at \in Places(t) /\ rows \in Seq(Shown(t)) /\ d.on \in BOOLEAN
  BY <1>1, ChildrenShown DEF DetailsOK
<1>5. p.current \in Live(t) \cup {Null} /\ p.selected \in {p.current, Null}
  BY <1>1 DEF PaneOK
<1>6. row \in Places(t)
  <2>1. ASSUME p.current \in ToSet(rows) PROVE p.current \in Shown(t)
    <3> HIDE DEF rows
    <3> QED
      BY <1>4, <2>1 DEF ToSet
  <2> QED
    BY <2>1 DEF Places
<1>7. /\ e.on = d.on /\ e.location = at /\ e.back = d.back /\ e.forward = d.forward
      /\ e.rows = rows /\ e.next = 0 /\ e.row = row /\ e.timer = (d.on /\ rows # <<>>)
  <2> HIDE DEF rows, row
  <2> QED
    BY <1>1 DEF DetailsOK
<1>8. r.details.rows = Children(r.tree, r.details.location)
  BY <1>3, <1>7
<1>9. DetailsOK(t, e)
  <2> HIDE DEF rows, row
  <2> QED
    BY <1>1, <1>4, <1>6 DEF DetailsOK
<1>10. (e.timer <=> e.next < Len(e.rows) /\ d.on) /\ (e.timer => e.on)
  <2>1. rows # <<>> <=> 0 < Len(rows)
    <3> HIDE DEF rows
    <3> QED
      BY <1>4
  <2>2. e.timer <=> d.on /\ rows # <<>>
    BY <1>7
  <2> HIDE DEF e, rows
  <2> QED
    BY <1>7, <2>1, <2>2
<1>11. HistoryOK(t, e)
  <2> HIDE DEF e
  <2> QED
    BY <1>1, <1>7 DEF HistoryOK
<1>12. at # Null => at \in Shown(t) /\ at \in Live(t) /\ at.kind = "node"
  BY <1>1, <1>4, ShownItems DEF Places
<1>13. CASE shown
  <2>1. q = p
    BY <1>13
  <2>2. ASSUME d.on, p.selected # Null
        PROVE  p.selected = p.current /\ p.current \in ToSet(rows) /\ row = p.current
    <3>1. p.current.kind # "..."
      BY <2>2
    <3>2. p.current \in ToSet(rows)
      BY <1>1, <1>5, <1>13, <3>1, ParentShown
    <3> QED
      BY <1>5, <1>13, <2>2, <3>2
  <2> HIDE DEF e, q, rows, row, shown
  <2>3. InStep(r)
    BY <1>3, <1>7, <1>8, <2>1, <1>10, <2>2 DEF InStep
  <2>4. Sound(r)
    BY <1>1, <1>3, <1>9, <1>11, <2>1 DEF Sound
  <2> QED
    BY <1>3, <1>7, <2>3, <2>4 DEF r
<1>14. CASE ~shown /\ at # Null
  <2>1. q = Select(p, at) /\ row = Null
    BY <1>14
  <2>2. PaneOK(t, q) /\ q.current = at /\ q.selected = at
    BY <1>1, <1>12, <1>14, <2>1, SelectOK
  <2> HIDE DEF e, q, rows, row, shown
  <2>3. InStep(r)
    BY <1>3, <1>7, <1>12, <1>14, <1>8, <2>1, <1>10, <2>2 DEF InStep
  <2>4. Sound(r)
    BY <1>1, <1>3, <1>9, <1>11, <2>2 DEF Sound
  <2> QED
    BY <1>3, <1>7, <2>3, <2>4 DEF r
<1>15. CASE ~shown /\ at = Null
  <2>1. q = ClearSelection(p)
    BY <1>15
  <2>2. PaneOK(t, q) /\ q.current = p.current /\ q.selected = Null
    BY <1>1, <2>1, ClearOK
  <2> HIDE DEF e, q, rows, row, shown
  <2>3. InStep(r)
    BY <1>1, <1>3, <1>7, <1>8, <1>10, <2>2 DEF InStep
  <2>4. Sound(r)
    BY <1>1, <1>3, <1>9, <1>11, <2>2 DEF Sound
  <2> QED
    BY <1>3, <1>7, <2>3, <2>4 DEF r
<1> QED
  BY <1>13, <1>14, <1>15

(* What the navigation bar of a window shows when it is up to date.        *)
BarOf(w) ==
  [address |-> w.details.location, back |-> w.details.on /\ w.details.back # <<>>,
   forward |-> w.details.on /\ w.details.forward # <<>>,
   up |-> w.details.on /\ w.details.location # Null,
   edit |-> w.details.on /\ w.tree.doc # NoDocument]

(* Updating the bar brings it there, and changes nothing else.             *)
LEMMA UpdateBarOK ==
  ASSUME NEW w, Sound(w)
  PROVE  LET r == UpdateBar(w)
         IN  /\ Sound(r) /\ BarOK(r) /\ (InStep(w) => InStep(r))
             /\ r.tree = w.tree /\ r.pane = w.pane /\ r.details = w.details /\ r.bar = BarOf(w)
<1> DEFINE r == UpdateBar(w)
<1>1. /\ w = [tree |-> w.tree, pane |-> w.pane, details |-> w.details, bar |-> w.bar]
      /\ TreeOK(w.tree) /\ DetailsOK(w.tree, w.details)
  BY DEF Sound
<1>2. r = [w EXCEPT !.bar = BarOf(w)]
  BY DEF UpdateBar, BarOf
<1>3. /\ r = [tree |-> w.tree, pane |-> w.pane, details |-> w.details, bar |-> BarOf(w)]
      /\ r.tree = w.tree /\ r.pane = w.pane /\ r.details = w.details /\ r.bar = BarOf(w)
  BY <1>1, <1>2
<1> HIDE DEF r
<1>4. BarOf(w) \in BarType
  <2>1. w.details.location \in Items
    BY <1>1, ShownItems DEF DetailsOK, Places, Items
  <2> QED
    BY <2>1 DEF BarOf, BarType
<1>5. Sound(r)
  BY <1>3, <1>4 DEF Sound
<1>6. BarOf(r) = BarOf(w)
  BY <1>3 DEF BarOf
<1>7. UpdateBar(r).bar = BarOf(r)
  BY <1>3 DEF UpdateBar, BarOf
<1>8. r.bar.edit => r.details.on
  BY <1>3 DEF BarOf
<1>9. BarOK(r)
  BY <1>3, <1>6, <1>7, <1>8 DEF BarOK
<1>10. InStep(w) => InStep(r)
  BY <1>3 DEF InStep
<1> QED
  BY <1>3, <1>5, <1>9, <1>10 DEF r

(* What the bar of a window shows is up to date depends on this alone.     *)
LEMMA BarKept ==
  ASSUME NEW w, Sound(w), BarOK(w), NEW r, Sound(r), r.bar = w.bar, r.tree.doc = w.tree.doc,
         r.details.on = w.details.on, r.details.location = w.details.location,
         r.details.back = w.details.back, r.details.forward = w.details.forward
  PROVE  BarOK(r)
<1>1. BarOf(r) = BarOf(w)
  BY DEF BarOf
<1>2. UpdateBar(w).bar = BarOf(w) /\ UpdateBar(r).bar = BarOf(r)
  BY UpdateBarOK
<1> QED
  BY <1>1, <1>2 DEF BarOK
-----------------------------------------------------------------------------
(* The details of a window that goes to a place.                           *)
Gone(d, to, saveHistory) ==
  [(IF saveHistory /\ to # d.location
      THEN [d EXCEPT !.back = Append(@, d.location), !.forward = <<>>] ELSE d)
   EXCEPT !.location = to]

(* The history stays a walk through open places, none next to itself.      *)
LEMMA GoneOK ==
  ASSUME NEW t, NEW d, DetailsOK(t, d), HistoryOK(t, d), NEW to \in Places(t), ~Pending(t, to),
         NEW save \in BOOLEAN, ~save => d.back = <<>> /\ d.forward = <<>>
  PROVE  LET e == Gone(d, to, save)
         IN  DetailsOK(t, e) /\ HistoryOK(t, e) /\ e.on = d.on /\ e.location = to
<1> DEFINE e == Gone(d, to, save)
<1>1. /\ d.back \in Seq(Places(t)) /\ d.forward \in Seq(Places(t)) /\ d.location \in Places(t)
      /\ Len(d.back) \in Nat /\ Len(d.forward) \in Nat
  BY DEF DetailsOK
<1>2. CASE save /\ to # d.location
  <2> DEFINE back == Append(d.back, d.location)
  <2>1. e = [d EXCEPT !.back = back, !.forward = <<>>, !.location = to]
    BY <1>2 DEF Gone, DetailsOK
  <2>2. /\ back \in Seq(Places(t)) /\ Len(back) = Len(d.back) + 1
        /\ \A k \in 1..Len(d.back) : back[k] = d.back[k]
        /\ back[Len(d.back) + 1] = d.location
    BY <1>1
  <2>3. /\ e.on = d.on /\ e.location = to /\ e.back = back /\ e.forward = <<>>
        /\ e.rows = d.rows /\ e.next = d.next /\ e.row = d.row /\ e.timer = d.timer
    BY <2>1 DEF DetailsOK
  <2>4. DetailsOK(t, e)
    <3> HIDE DEF back
    <3>0. e.back \in Seq(Places(t)) /\ e.forward \in Seq(Places(t))
      BY <2>2, <2>3
    <3>1. e \in [on : BOOLEAN, location : Places(t), back : Seq(Places(t)),
                 forward : Seq(Places(t)), rows : Seq(Shown(t)), row : Places(t), next : Nat,
                 timer : BOOLEAN]
      BY <2>1, <3>0 DEF DetailsOK
    <3> QED
      BY <2>3, <3>1 DEF DetailsOK
  <2> HIDE DEF e, back
  <2>5. /\ ~Pending(t, d.location)
        /\ d.back # <<>> => d.back[Len(d.back)] # d.location
        /\ \A k \in 1..Len(d.back) : ~Pending(t, d.back[k])
        /\ \A k \in 1..Len(d.back) - 1 : d.back[k] # d.back[k + 1]
    BY DEF HistoryOK
  <2>6. \A k \in 1..Len(back) : ~Pending(t, back[k])
    BY <1>1, <2>2, <2>5
  <2>7. ASSUME NEW k \in 1..Len(back) - 1 PROVE back[k] # back[k + 1]
    <3>1. CASE k = Len(d.back)
      <4>1. d.back # <<>> /\ back[k] = d.back[Len(d.back)] /\ back[k + 1] = d.location
        BY <1>1, <2>2, <3>1
      <4> QED
        BY <2>5, <4>1
    <3>2. CASE k # Len(d.back)
      <4>1. /\ k \in 1..Len(d.back) - 1 /\ k \in 1..Len(d.back) /\ k + 1 \in 1..Len(d.back)
        BY <1>1, <2>2, <3>2
      <4> QED
        BY <2>2, <2>5, <4>1
    <3> QED
      BY <3>1, <3>2
  <2>8. back[Len(back)] # to
    BY <1>1, <1>2, <2>2
  <2>9. HistoryOK(t, e)
    BY <2>3, <2>6, <2>7, <2>8 DEF HistoryOK
  <2> QED
    BY <2>3, <2>4, <2>9 DEF e
<1>3. CASE ~(save /\ to # d.location)
  <2>1. e = [d EXCEPT !.location = to]
    BY <1>3 DEF Gone
  <2>2. /\ e.on = d.on /\ e.location = to /\ e.back = d.back /\ e.forward = d.forward
        /\ e.rows = d.rows /\ e.next = d.next /\ e.row = d.row /\ e.timer = d.timer
    BY <2>1 DEF DetailsOK
  <2>3. DetailsOK(t, e)
    <3>1. e \in [on : BOOLEAN, location : Places(t), back : Seq(Places(t)),
                 forward : Seq(Places(t)), rows : Seq(Shown(t)), row : Places(t), next : Nat,
                 timer : BOOLEAN]
      BY <2>1 DEF DetailsOK
    <3> QED
      BY <2>2, <3>1 DEF DetailsOK
  <2> HIDE DEF e
  <2>4. to = d.location \/ (d.back = <<>> /\ d.forward = <<>>)
    BY <1>3
  <2>5. HistoryOK(t, e)
    BY <2>2, <2>4 DEF HistoryOK
  <2> QED
    BY <2>2, <2>3, <2>5 DEF e
<1> QED
  BY <1>2, <1>3

(* Going to a place leaves the window as it should be: the place open, its *)
(* children listed, the bar up to date.  A placeholder may be current only *)
(* where the place is the container it stands in.                          *)
LEMMA NavigateOK ==
  ASSUME NEW w, Sound(w), NEW to \in Places(w.tree), NEW save \in BOOLEAN,
         ~save => w.details.back = <<>> /\ w.details.forward = <<>>,
         \/ w.pane.current.kind # "..."
         \/ Pending(w.tree, to) /\ w.pane.current = Placeholder(w.tree, to.node)
  PROVE  LET r == Navigate(w, to, save)
         IN  /\ WindowOK(r) /\ Shown(w.tree) \subseteq Shown(r.tree)
             /\ r.tree = Expand(w, to).tree /\ r.details.on = w.details.on
             /\ r.details.location = to
<1> DEFINE x == Expand(w, to)
           e == Gone(w.details, to, save)
           y == [x EXCEPT !.details = e]
           z == Refresh(y)
           r == UpdateBar(z)
<1>1. r = Navigate(w, to, save)
  BY DEF Navigate, Gone
<1>2. /\ Sound(x) /\ x.details = w.details /\ Shown(w.tree) \subseteq Shown(x.tree)
      /\ ~Pending(x.tree, to)
      /\ x.pane = w.pane \/ x.pane.current = to
      /\ x.pane.current # Placeholder(w.tree, to.node) \/ ~Pending(w.tree, to)
  BY ExpandOK
<1> HIDE DEF x
<1>3. to \in Places(x.tree)
  BY <1>2 DEF Places
<1>4. /\ x = [tree |-> x.tree, pane |-> x.pane, details |-> x.details, bar |-> x.bar]
      /\ x.bar \in BarType /\ TreeOK(x.tree) /\ PaneOK(x.tree, x.pane)
      /\ DetailsOK(x.tree, w.details) /\ HistoryOK(x.tree, w.details)
  BY <1>2 DEF Sound
<1>5. DetailsOK(x.tree, e) /\ HistoryOK(x.tree, e) /\ e.on = w.details.on /\ e.location = to
  BY <1>2, <1>3, <1>4, GoneOK
<1> HIDE DEF e
<1>6. /\ y = [tree |-> x.tree, pane |-> x.pane, details |-> e, bar |-> x.bar]
      /\ y.tree = x.tree /\ y.pane = x.pane /\ y.details = e /\ y.bar = x.bar
  BY <1>4
<1> HIDE DEF y
<1>7. Sound(y)
  BY <1>4, <1>5, <1>6 DEF Sound
<1>8. x.pane.current.kind # "..."
  <2>1. to.kind # "..."
    BY <1>3, <1>4, ShownItems DEF Places, Null
  <2> QED
    BY <1>2, <2>1
<1>9. /\ Sound(z) /\ InStep(z) /\ z.tree = x.tree /\ z.details.on = w.details.on
      /\ z.details.location = to
  BY <1>5, <1>6, <1>7, <1>8, RefreshOK
<1> HIDE DEF z
<1>10. WindowOK(r) /\ r.tree = x.tree /\ r.details = z.details
  BY <1>9, UpdateBarOK DEF WindowOK
<1> HIDE DEF r
<1>11. r.details.on = w.details.on /\ r.details.location = to
  BY <1>9, <1>10
<1> QED
  BY <1>1, <1>2, <1>10, <1>11 DEF x
-----------------------------------------------------------------------------
(* The type of a window's parts, and that a sound window has it.           *)
Windows ==
  [tree : [doc : Documents \cup {NoDocument}, gen : 0..MaxOpens, pending : SUBSET Containers,
           sessions : SUBSET Navigable, bare : SUBSET Containers,
           queue : Seq(Items), next : Nat, timer : BOOLEAN],
   pane : [current : Items, selected : Items, preview : Items, exports : BOOLEAN],
   details : [on : BOOLEAN, location : Items, back : Seq(Items), forward : Seq(Items),
              rows : Seq(Items), row : Items, next : Nat, timer : BOOLEAN],
   bar : BarType]

LEMMA SoundType ==
  ASSUME NEW w, Sound(w)
  PROVE  w \in Windows
<1> DEFINE d == w.details
<1>1. /\ w = [tree |-> w.tree, pane |-> w.pane, details |-> w.details, bar |-> w.bar]
      /\ w.bar \in BarType /\ TreeOK(w.tree) /\ PaneOK(w.tree, w.pane)
      /\ DetailsOK(w.tree, d)
  BY DEF Sound
<1>2. Places(w.tree) \subseteq Items /\ Shown(w.tree) \subseteq Items
      /\ Live(w.tree) \cup {Null} \subseteq Items
  BY <1>1, ShownItems DEF Places, Items
<1>3. w.pane \in [current : Items, selected : Items, preview : Items, exports : BOOLEAN]
  BY <1>1, <1>2 DEF PaneOK
<1>4. /\ d.back \in Seq(Items) /\ d.forward \in Seq(Items) /\ d.rows \in Seq(Items)
      /\ d.location \in Items /\ d.row \in Items
  BY <1>1, <1>2, SeqGrows DEF DetailsOK
<1>5. d \in [on : BOOLEAN, location : Items, back : Seq(Items), forward : Seq(Items),
             rows : Seq(Items), row : Items, next : Nat, timer : BOOLEAN]
  BY <1>1, <1>4 DEF DetailsOK
<1>6. w.tree \in [doc : Documents \cup {NoDocument}, gen : 0..MaxOpens,
                  pending : SUBSET Containers, sessions : SUBSET Navigable,
                  bare : SUBSET Containers, queue : Seq(Items), next : Nat, timer : BOOLEAN]
  BY <1>1 DEF TreeOK
<1> HIDE DEF d
<1> QED
  BY <1>1, <1>3, <1>5, <1>6 DEF Windows, d

(* What walking along an address may have come to from window w: only the  *)
(* tree has changed, and what was listed is what there is to list.         *)
Followed(w) ==
  {f \in [ok : BOOLEAN, at : Items, w : Windows] :
     /\ Sound(f.w) /\ f.w.pane = w.pane /\ f.w.details = w.details /\ f.w.bar = w.bar
     /\ f.w.tree.doc = w.tree.doc /\ Shown(w.tree) \subseteq Shown(f.w.tree)
     /\ Children(f.w.tree, w.details.location) = Children(w.tree, w.details.location)
     /\ f.at \in Places(f.w.tree) /\ ~Pending(f.w.tree, f.at)}

(* A label more leaves it so.                                              *)
LEMMA FollowOK ==
  ASSUME NEW w, w.pane.current.kind # "...", NEW f \in Followed(w), NEW n
  PROVE  Follow(f, n) \in Followed(w)
<1> DEFINE child == Item(f.w.tree, n)
           x == Expand(f.w, child)
           found == f.ok /\ child \in ToSet(Children(f.w.tree, f.at))
<1>1. /\ f \in [ok : BOOLEAN, at : Items, w : Windows]
      /\ Sound(f.w) /\ f.w.pane = w.pane /\ f.w.details = w.details /\ f.w.bar = w.bar
      /\ f.w.tree.doc = w.tree.doc /\ Shown(w.tree) \subseteq Shown(f.w.tree)
      /\ Children(f.w.tree, w.details.location) = Children(w.tree, w.details.location)
      /\ f.at \in Places(f.w.tree) /\ ~Pending(f.w.tree, f.at)
  BY DEF Followed
<1>2. CASE found
  <2>1. TreeOK(f.w.tree) /\ w.details.location \in Places(f.w.tree)
        /\ ~Pending(f.w.tree, w.details.location)
    BY <1>1 DEF Sound, DetailsOK, HistoryOK
  <2>2. Children(f.w.tree, f.at) \in Seq(Shown(f.w.tree))
    BY <1>1, <2>1, ChildrenShown
  <2>3. child \in Shown(f.w.tree)
    BY <1>2, <2>2 DEF ToSet
  <2> HIDE DEF child, x
  <2>4. child \in Places(f.w.tree)
    BY <2>3 DEF Places
  <2>5. /\ Sound(x) /\ x.details = f.w.details /\ x.bar = f.w.bar
        /\ x.tree.doc = f.w.tree.doc /\ Shown(f.w.tree) \subseteq Shown(x.tree)
        /\ ~Pending(x.tree, child) /\ x.pane = f.w.pane
        /\ Children(x.tree, w.details.location) = Children(f.w.tree, w.details.location)
    <3>1. /\ Sound(x) /\ x.details = f.w.details /\ x.bar = f.w.bar
          /\ x.tree.doc = f.w.tree.doc /\ Shown(f.w.tree) \subseteq Shown(x.tree)
          /\ ~Pending(x.tree, child)
          /\ f.w.pane.current.kind # "..." => x.pane = f.w.pane
          /\ \A j \in Places(f.w.tree) : ~Pending(f.w.tree, j) =>
               Children(x.tree, j) = Children(f.w.tree, j)
      BY <1>1, <2>4, ExpandOK DEF x
    <3>2. f.w.pane.current.kind # "..."
      BY <1>1
    <3> QED
      BY <2>1, <3>1, <3>2
  <2>6. x \in Windows
    BY <2>5, SoundType
  <2>7. child \in Items /\ child \in Places(x.tree)
    BY <2>1, <2>3, <2>5, ShownItems DEF Places
  <2>8. Follow(f, n) = [ok |-> TRUE, at |-> child, w |-> x]
    BY <1>2 DEF Follow, child, x
  <2>9. [ok |-> TRUE, at |-> child, w |-> x] \in Followed(w)
    BY <1>1, <2>5, <2>6, <2>7 DEF Followed
  <2> QED
    BY <2>8, <2>9
<1>3. CASE ~found
  <2> DEFINE g == [f EXCEPT !.ok = FALSE]
  <2>1. Follow(f, n) = g
    BY <1>3 DEF Follow
  <2>2. g \in [ok : BOOLEAN, at : Items, w : Windows] /\ g.at = f.at /\ g.w = f.w
    BY <1>1
  <2> HIDE DEF g
  <2>3. g \in Followed(w)
    BY <1>1, <2>2 DEF Followed
  <2> QED
    BY <2>1, <2>3
<1> QED
  BY <1>2, <1>3

(* So does the whole address.                                              *)
LEMMA WalkOK ==
  ASSUME NEW w, Sound(w), w.pane.current.kind # "...", NEW path \in Seq(Nodes)
  PROVE  Walk(w, path) \in Followed(w)
<1> DEFINE N == Len(path)
           A == Followed(w)
           base == [ok |-> TRUE, at |-> Null, w |-> w]
           step == [k \in 1..N |-> [f \in A |-> Follow(f, path[k])]]
           Is(g) == g = [k \in 0..N |-> IF k = 0 THEN base ELSE Follow(g[k - 1], path[k])]
<1>1. N \in Nat
  OBVIOUS
<1>2. base \in A
  <2>1. w \in Windows /\ Null \in Items /\ Null \in Places(w.tree) /\ ~Pending(w.tree, Null)
    BY SoundType DEF Items, Places, Pending, Null
  <2> QED
    BY <2>1 DEF Followed
<1>3. \A f \in A, k \in 1..N : Follow(f, path[k]) \in A
  BY FollowOK
<1>4. step \in [1..N -> [A -> A]]
  <2> HIDE DEF A
  <2> QED
    BY <1>3
<1>5. PICK f \in [0..N -> A] : Recurses(f, N, base, step)
  <2> HIDE DEF A, step, N, base
  <2> QED
    BY <1>1, <1>2, <1>4, RecursionDefines
<1>6. Is(f)
  <2>1. ASSUME NEW k \in 1..N PROVE f[k] = Follow(f[k - 1], path[k])
    <3>1. f[k - 1] \in A
      BY <1>1
    <3> HIDE DEF A
    <3> QED
      BY <1>5, <3>1 DEF Recurses
  <2> HIDE DEF step, A, base
  <2> QED
    BY <1>1, <1>5, <2>1 DEF Recurses
<1> DEFINE found == CHOOSE g : Is(g)
           S == {k \in 0..N : found[k] \in A}
<1>7. Is(found)
  <2> HIDE DEF Is
  <2> QED
    BY <1>6
<1>8. 0..N \subseteq S
  <2> HIDE DEF found, A, N, base
  <2>1. found[0] = base /\ \A k \in 1..N : found[k] = Follow(found[k - 1], path[k])
    BY <1>1, <1>7
  <2>2. 0 \in S
    BY <1>1, <1>2, <2>1
  <2>3. \A k \in 1..N : k - 1 \in S => k \in S
    BY <1>1, <1>3, <2>1
  <2> HIDE DEF S
  <2> QED
    BY <1>1, <2>2, <2>3, SetInduction
<1>9. found[N] \in A
  <2> HIDE DEF found, A
  <2> QED
    BY <1>1, <1>8
<1> QED
  BY <1>9 DEF Walk
-----------------------------------------------------------------------------
(* The next window is the one a handler returns.                           *)
LEMMA BecomesInv ==
  ASSUME NEW w, WindowOK(w), Becomes(w), icons' \subseteq Shown(w.tree), freed' \in BOOLEAN
  PROVE  Inv'
<1>1. w = [tree |-> w.tree, pane |-> w.pane, details |-> w.details, bar |-> w.bar]
  BY DEF WindowOK, Sound
<1>2. Window' = w
  BY <1>1 DEF Becomes, Window
<1>3. tree' = w.tree
  BY DEF Becomes
<1> QED
  BY <1>2, <1>3 DEF Inv

(* A handler that keeps what is shown leaves the icons where they are.     *)
LEMMA ShowsInv ==
  ASSUME Inv, NEW w, WindowOK(w), Shown(tree) \subseteq Shown(w.tree), Shows(w)
  PROVE  Inv'
<1>1. Becomes(w) /\ icons' = icons /\ freed' = freed
  BY DEF Shows
<1>2. icons' \subseteq Shown(w.tree) /\ freed' \in BOOLEAN
  BY <1>1 DEF Inv
<1> QED
  BY <1>1, <1>2, BecomesInv

(* The parts of the window as it is.                                       *)
LEMMA WindowNow ==
  ASSUME Inv
  PROVE  /\ Sound(Window) /\ InStep(Window) /\ BarOK(Window)
         /\ Window.tree = tree /\ Window.pane = pane
         /\ Window.details = details /\ Window.bar = bar
         /\ TreeOK(tree) /\ PaneOK(tree, pane) /\ DetailsOK(tree, details)
         /\ HistoryOK(tree, details) /\ bar \in BarType
         /\ icons \subseteq Shown(tree) /\ freed \in BOOLEAN
<1>1. /\ Window.tree = tree /\ Window.pane = pane
      /\ Window.details = details /\ Window.bar = bar
  BY DEF Window
<1>2. Sound(Window) /\ InStep(Window) /\ BarOK(Window)
  BY DEF Inv, WindowOK
<1>3. /\ TreeOK(tree) /\ PaneOK(tree, pane) /\ DetailsOK(tree, details)
      /\ HistoryOK(tree, details) /\ bar \in BarType
  BY <1>1, <1>2 DEF Sound
<1> QED
  BY <1>1, <1>2, <1>3 DEF Inv

(* The empty tree of a window whose document is closed, and a window on it *)
(* once everything is reset.                                               *)
LEMMA ClosedOK ==
  ASSUME NEW gen \in 0..MaxOpens
  PROVE  TreeOK(Closed(gen)) /\ Shown(Closed(gen)) = {} /\ Live(Closed(gen)) = {}
<1> DEFINE t == Closed(gen)
<1>1. t = [doc |-> NoDocument, gen |-> gen, pending |-> {}, sessions |-> {}, bare |-> {},
           queue |-> <<>>, next |-> 0, timer |-> FALSE]
  BY DEF Closed
<1>2. Present(t) = {}
  BY <1>1 DEF Present
<1>3. Shown(t) = {} /\ Live(t) = {}
  <2>1. t.pending = {}
    BY <1>1
  <2> HIDE DEF t
  <2> QED
    BY <1>2, <2>1 DEF Shown, Live
<1>4. <<>> \in Seq(Items) /\ <<>> \in Seq(Shown(t))
  OBVIOUS
<1>5. TreeOK(t)
  BY <1>1, <1>2, <1>4 DEF TreeOK
<1> QED
  BY <1>3, <1>5

(* A selection of nothing is sound whatever the tree.                      *)
LEMMA NoSelectionOK ==
  ASSUME NEW t, NEW p, PaneOK(t, p), NEW r
  PROVE  /\ [NoSelection EXCEPT !.exports = ClearSelection(p).exports] = NoSelection
         /\ PaneOK(r, NoSelection)
<1>1. ClearSelection(p).exports = FALSE
  <2>1. ClearSelection(p).selected = Null /\ PaneOK(t, ClearSelection(p))
    BY ClearOK
  <2> QED
    BY <2>1 DEF PaneOK
<1>2. [NoSelection EXCEPT !.exports = ClearSelection(p).exports] = NoSelection
  <2> DEFINE e == ClearSelection(p).exports
  <2>1. e = FALSE
    BY <1>1
  <2> HIDE DEF e
  <2>2. [NoSelection EXCEPT !.exports = e]
          = [current |-> Null, selected |-> Null, preview |-> Null, exports |-> e]
    BY DEF NoSelection
  <2>3. [NoSelection EXCEPT !.exports = e] = NoSelection
    BY <2>1, <2>2, Zenon DEF NoSelection
  <2> QED
    BY <2>3 DEF e
<1>3. PaneOK(r, NoSelection)
  BY DEF NoSelection, PaneOK, Places
<1> QED
  BY <1>2, <1>3

LEMMA InitInv == Init => Inv
<1> SUFFICES ASSUME Init PROVE Inv
  OBVIOUS
<1>1. TreeOK(tree)
  BY MainWindowAssumption, ClosedOK DEF Init
<1>2. PaneOK(tree, pane)
  BY DEF Init, NoSelection, PaneOK, Places
<1>3. DetailsOK(tree, details) /\ HistoryOK(tree, details)
  BY DEF Init, DetailsOK, HistoryOK, Places, Pending, Null
<1>4. bar \in BarType
  BY DEF Init, BarType, Items
<1>5. Sound(Window)
  BY <1>1, <1>2, <1>3, <1>4 DEF Sound, Window
<1>6. InStep(Window) /\ BarOK(Window)
  <2>1. ~details.on /\ ~details.timer /\ ~bar.edit /\ tree.doc = NoDocument
    BY DEF Init, Closed
  <2>2. Window.details = details /\ Window.bar = bar /\ Window.tree = tree
    BY DEF Window
  <2> QED
    BY <2>1, <2>2 DEF InStep, BarOK
<1> QED
  BY <1>5, <1>6 DEF Inv, WindowOK, Init
-----------------------------------------------------------------------------
(* The details once everything is reset.                                   *)
Blank == [details EXCEPT !.location = Null, !.back = <<>>, !.forward = <<>>,
                         !.rows = <<>>, !.row = Null, !.timer = FALSE]

(* They hold nothing of any tree.                                          *)
LEMMA BlankOK ==
  ASSUME Inv, NEW t
  PROVE  /\ DetailsOK(t, Blank) /\ HistoryOK(t, Blank) /\ Blank.on = details.on
         /\ Blank.location = Null /\ Blank.back = <<>> /\ Blank.forward = <<>>
         /\ Blank.rows = <<>> /\ ~Blank.timer /\ Blank.next \in Nat
<1>1. DetailsOK(tree, details)
  BY WindowNow
<1>2. /\ Blank.on = details.on /\ Blank.location = Null /\ Blank.back = <<>>
      /\ Blank.forward = <<>> /\ Blank.rows = <<>> /\ Blank.row = Null
      /\ Blank.timer = FALSE /\ Blank.next \in Nat
  BY <1>1 DEF Blank, DetailsOK
<1>3. DetailsOK(t, Blank)
  <2>1. /\ <<>> \in Seq(Places(t)) /\ <<>> \in Seq(Shown(t)) /\ Null \in Places(t)
        /\ FALSE \in BOOLEAN
    BY DEF Places
  <2>2. details \in [on : BOOLEAN, location : Places(tree), back : Seq(Places(tree)),
                    forward : Seq(Places(tree)), rows : Seq(Shown(tree)), row : Places(tree),
                    next : Nat, timer : BOOLEAN]
    BY <1>1 DEF DetailsOK
  <2>3. Blank \in [on : BOOLEAN, location : Places(t), back : Seq(Places(t)),
                  forward : Seq(Places(t)), rows : Seq(Shown(t)), row : Places(t),
                  next : Nat, timer : BOOLEAN]
    BY <2>1, <2>2 DEF Blank
  <2> QED
    BY <2>3 DEF DetailsOK
<1>4. HistoryOK(t, Blank)
  BY <1>2 DEF HistoryOK, Pending, Null
<1> QED
  BY <1>2, <1>3, <1>4

(* Once everything is reset the window is in step with its empty tree.     *)
LEMMA ResetOK ==
  ASSUME Inv, NEW gen \in 0..MaxOpens
  PROVE  LET r == Reset(gen)
         IN  /\ WindowOK(r) /\ r.details = Blank
             /\ r = [tree |-> r.tree, pane |-> r.pane, details |-> r.details, bar |-> r.bar]
             /\ r.tree = Closed(gen)
<1> DEFINE t == Closed(gen)
           p == [NoSelection EXCEPT !.exports = ClearSelection(pane).exports]
           r == Reset(gen)
<1>1. /\ r = [tree |-> t, pane |-> p, details |-> Blank, bar |-> bar]
      /\ r.tree = t /\ r.pane = p /\ r.details = Blank /\ r.bar = bar
  BY DEF Reset, Blank
<1>2. TreeOK(t) /\ t.doc = NoDocument
  BY ClosedOK DEF Closed
<1>3. PaneOK(t, p) /\ p.current = Null /\ p.selected = Null
  <2>1. PaneOK(tree, pane)
    BY WindowNow
  <2>2. p = NoSelection /\ PaneOK(t, NoSelection)
    BY <2>1, NoSelectionOK
  <2> QED
    BY <2>2 DEF NoSelection
<1>4. /\ DetailsOK(t, Blank) /\ HistoryOK(t, Blank) /\ Blank.on = details.on
      /\ Blank.location = Null /\ Blank.rows = <<>> /\ ~Blank.timer /\ Blank.next \in Nat
  BY BlankOK
<1>5. bar \in BarType /\ (bar.edit => details.on)
  BY WindowNow DEF BarOK
<1> HIDE DEF r, p, t
<1>6. Sound(r)
  BY <1>1, <1>2, <1>3, <1>4, <1>5 DEF Sound
<1>7. Children(t, Null) = <<>>
  BY <1>2 DEF Children
<1>8. ~(Blank.next < Len(<<>>))
  BY <1>4
<1>9. InStep(r)
  BY <1>1, <1>3, <1>4, <1>7, <1>8 DEF InStep, Null
<1>10. BarOK(r)
  BY <1>1, <1>2, <1>4, <1>5 DEF BarOK
<1> QED
  BY <1>1, <1>6, <1>9, <1>10 DEF WindowOK, r, t

(* A file that cannot be opened leaves the window reset.                   *)
LEMMA OpenFailsInv ==
  ASSUME Inv, NEW d \in Documents, OpenFails(d)
  PROVE  Inv'
<1>1. tree.gen + 1 \in 0..MaxOpens
  BY WindowNow, MainWindowAssumption DEF TreeOK, OpenFails
<1> DEFINE w == Reset(tree.gen + 1)
<1>2. WindowOK(w)
  BY <1>1, ResetOK
<1>3. Becomes(w) /\ icons' = {} /\ freed' \in BOOLEAN
  BY WindowNow DEF OpenFails
<1> HIDE DEF w
<1> QED
  BY <1>2, <1>3, BecomesInv

(* The tree of a document that was opened.                                 *)
LEMMA OpenedOK ==
  ASSUME NEW d \in Documents, NEW gen \in 1..MaxOpens
  PROVE  LET r == ScheduleTree(Populate([Closed(gen) EXCEPT !.doc = d], d))
         IN  TreeOK(r) /\ r.doc = d
<1> DEFINE t == [Closed(gen) EXCEPT !.doc = d]
<1>1. TreeOK(Closed(gen))
  BY ClosedOK, MainWindowAssumption
<1>2. TreeOK(t) /\ t.doc = d /\ t.sessions = {}
  <2>1. Closed(gen).gen = gen /\ Closed(gen).pending = {} /\ Closed(gen).sessions = {}
        /\ Closed(gen).bare = {} /\ Closed(gen).queue = <<>> /\ Closed(gen).next = 0
    BY DEF Closed
  <2>2. ~Closed(gen).timer
    BY DEF Closed
  <2>3. Closed(gen) \in [doc : Documents \cup {NoDocument}, gen : 0..MaxOpens,
                        pending : SUBSET Containers, sessions : SUBSET Navigable,
                        bare : SUBSET Containers, queue : Seq(Items), next : Nat,
                        timer : BOOLEAN]
    BY <1>1 DEF TreeOK
  <2>4. /\ t \in [doc : Documents \cup {NoDocument}, gen : 0..MaxOpens,
                 pending : SUBSET Containers, sessions : SUBSET Navigable,
                 bare : SUBSET Containers, queue : Seq(Items), next : Nat, timer : BOOLEAN]
        /\ t.doc = d /\ t.gen = gen /\ t.pending = {} /\ t.sessions = {} /\ t.bare = {}
        /\ t.queue = <<>> /\ t.next = 0 /\ t.timer = Closed(gen).timer
    BY <2>1, <2>3
  <2> HIDE DEF t
  <2>5. <<>> \in Seq(Shown(t)) /\ gen > 0
    OBVIOUS
  <2> QED
    BY <2>2, <2>4, <2>5 DEF TreeOK
<1> HIDE DEF t
<1>3. d \in {t.doc} \cup t.sessions /\ d \in Sources /\ ToSet(Added[d]) \cap t.sessions = {}
  BY <1>2 DEF Sources
<1>4. LET r == ScheduleTree(Populate(t, d)) IN TreeOK(r) /\ r.doc = t.doc
  BY <1>2, <1>3, PopulateOK
<1> QED
  BY <1>2, <1>4 DEF t

(* A file that can be opened is shown from its top level.                  *)
LEMMA OpenInv ==
  ASSUME Inv, NEW d \in Documents, Open(d)
  PROVE  Inv'
<1>1. tree.gen + 1 \in 0..MaxOpens /\ tree.gen + 1 \in 1..MaxOpens
  BY WindowNow, MainWindowAssumption DEF TreeOK, Open
<1> DEFINE w == Reset(tree.gen + 1)
           t == ScheduleTree(Populate([w.tree EXCEPT !.doc = d], d))
           f == [w EXCEPT !.tree = t, !.pane = NoSelection]
           r == IF details.on THEN Navigate(f, Null, FALSE) ELSE UpdateBar(f)
<1>2. Becomes(r) /\ icons' = {} /\ freed' \in BOOLEAN
  BY WindowNow DEF Open
<1>3. /\ WindowOK(w) /\ w.details = Blank /\ w.tree = Closed(tree.gen + 1)
      /\ w = [tree |-> w.tree, pane |-> w.pane, details |-> w.details, bar |-> w.bar]
  BY <1>1, ResetOK
<1>4. TreeOK(t) /\ t.doc = d
  BY <1>1, <1>3, OpenedOK
<1> HIDE DEF w, t
<1>5. /\ f = [tree |-> t, pane |-> NoSelection, details |-> Blank, bar |-> w.bar]
      /\ f.tree = t /\ f.pane = NoSelection /\ f.details = Blank /\ f.bar = w.bar
  <2>1. w = [tree |-> w.tree, pane |-> w.pane, details |-> w.details, bar |-> w.bar]
    BY <1>3
  <2>2. f = [w EXCEPT !.tree = t, !.pane = NoSelection]
    OBVIOUS
  <2> HIDE DEF f
  <2>3. /\ f = [tree |-> t, pane |-> NoSelection, details |-> w.details, bar |-> w.bar]
        /\ f.tree = t /\ f.pane = NoSelection /\ f.details = w.details /\ f.bar = w.bar
    BY <2>1, <2>2
  <2> QED
    BY <1>3, <2>3
<1> HIDE DEF f
<1>6. PaneOK(t, NoSelection) /\ NoSelection.current = Null
  BY DEF NoSelection, PaneOK, Places
<1>7. /\ DetailsOK(t, Blank) /\ HistoryOK(t, Blank) /\ Blank.on = details.on
      /\ Blank.back = <<>> /\ Blank.forward = <<>> /\ ~Blank.timer
  BY BlankOK
<1>8. w.bar \in BarType
  BY <1>3 DEF WindowOK, Sound
<1>9. Sound(f)
  BY <1>4, <1>5, <1>6, <1>7, <1>8 DEF Sound
<1>10. WindowOK(r)
  <2>1. CASE details.on
    <3>1. Null \in Places(f.tree) /\ f.pane.current.kind # "..."
      BY <1>5, <1>6 DEF Places, Null
    <3>2. WindowOK(Navigate(f, Null, FALSE))
      BY <1>5, <1>7, <1>9, <3>1, NavigateOK
    <3> QED
      BY <2>1, <3>2
  <2>2. CASE ~details.on
    <3>1. InStep(f)
      BY <1>5, <1>7, <2>2 DEF InStep
    <3>2. WindowOK(UpdateBar(f))
      BY <1>9, <3>1, UpdateBarOK DEF WindowOK
    <3> QED
      BY <2>2, <3>2
  <2> QED
    BY <2>1, <2>2
<1> HIDE DEF r
<1> QED
  BY <1>2, <1>10, BecomesInv
-----------------------------------------------------------------------------
(* A window with another selection, and with the row highlighted that the  *)
(* details show it in, is as sound as it was.                              *)
LEMMA SelectWindowOK ==
  ASSUME NEW w, WindowOK(w), NEW i \in Live(w.tree), NEW row,
         row = w.details.row \/ (row = i /\ i \in Shown(w.tree)),
         w.details.on => i \in ToSet(w.details.rows) /\ (row # Null => row = i),
         NEW r, r = [tree |-> w.tree, pane |-> Select(w.pane, i),
                     details |-> [w.details EXCEPT !.row = row], bar |-> w.bar]
  PROVE  WindowOK(r) /\ r.tree = w.tree
<1> DEFINE t == w.tree
           d == w.details
           e == [d EXCEPT !.row = row]
           q == Select(w.pane, i)
<1>1. /\ TreeOK(t) /\ PaneOK(t, w.pane) /\ DetailsOK(t, d) /\ HistoryOK(t, d)
      /\ w.bar \in BarType /\ Sound(w) /\ InStep(w) /\ BarOK(w)
  BY DEF WindowOK, Sound
<1>2. /\ r = [tree |-> t, pane |-> q, details |-> e, bar |-> w.bar]
      /\ r.tree = t /\ r.pane = q /\ r.details = e /\ r.bar = w.bar
  <2> HIDE DEF q, e
  <2> QED
    BY DEF q, e
<1>3. PaneOK(t, q) /\ q.current = i /\ q.selected = i
  BY <1>1, SelectOK
<1>4. /\ e.on = d.on /\ e.location = d.location /\ e.back = d.back /\ e.forward = d.forward
      /\ e.rows = d.rows /\ e.next = d.next /\ e.row = row /\ e.timer = d.timer
  BY <1>1 DEF DetailsOK
<1>5. DetailsOK(t, e)
  <2>1. row \in Places(t)
    BY <1>1 DEF DetailsOK, Places
  <2> QED
    BY <1>1, <2>1 DEF DetailsOK
<1> HIDE DEF e, q
<1>6. HistoryOK(t, e)
  BY <1>1, <1>4 DEF HistoryOK
<1>7. Sound(r)
  BY <1>1, <1>2, <1>3, <1>5, <1>6 DEF Sound
<1>8. ASSUME d.on PROVE i.kind # "..."
  <2>1. d.rows \in Seq(Shown(t)) /\ i \in ToSet(d.rows)
    BY <1>1, <1>8 DEF DetailsOK
  <2>2. i \in Shown(t)
    BY <2>1 DEF ToSet
  <2> QED
    BY <1>1, <2>2, ShownItems
<1>9. InStep(r)
  BY <1>1, <1>2, <1>3, <1>4, <1>8 DEF InStep
<1>10. BarOK(r)
  BY <1>1, <1>2, <1>4, <1>7, BarKept
<1> QED
  BY <1>2, <1>7, <1>9, <1>10 DEF WindowOK

(* Selecting a row of the details does so, if there is such a row.         *)
LEMMA SelectRowOK ==
  ASSUME NEW w, WindowOK(w), w.details.on, NEW i
  PROVE  WindowOK(SelectRow(w, i)) /\ SelectRow(w, i).tree = w.tree
<1>1. CASE i \in ToSet(w.details.rows) /\ w.details.row # i
  <2>1. /\ w = [tree |-> w.tree, pane |-> w.pane, details |-> w.details, bar |-> w.bar]
        /\ TreeOK(w.tree) /\ DetailsOK(w.tree, w.details)
    BY DEF WindowOK, Sound
  <2>2. w.details.rows \in Seq(Shown(w.tree))
    BY <2>1 DEF DetailsOK
  <2>3. i \in Shown(w.tree) /\ i \in Live(w.tree)
    BY <1>1, <2>1, <2>2, ShownItems DEF ToSet
  <2> DEFINE e == [w.details EXCEPT !.row = i]
             q == Select(w.pane, i)
             r == SelectRow(w, i)
  <2>4. r = [w EXCEPT !.details = e, !.pane = q]
    BY <1>1, <2>1 DEF SelectRow
  <2>5. r = [tree |-> w.tree, pane |-> q, details |-> e, bar |-> w.bar]
    <3> HIDE DEF r, q, e
    <3> QED
      BY <2>1, <2>4
  <2> HIDE DEF r
  <2>6. WindowOK(r) /\ r.tree = w.tree
    BY <1>1, <2>3, <2>5, SelectWindowOK
  <2> QED
    BY <2>6 DEF r
<1>2. CASE ~(i \in ToSet(w.details.rows) /\ w.details.row # i)
  <2>1. SelectRow(w, i) = w
    BY <1>2 DEF SelectRow
  <2> QED
    BY <2>1
<1> QED
  BY <1>1, <1>2

(* A click in the tree, or on a row.                                       *)
LEMMA ClickTreeInv ==
  ASSUME Inv, NEW i \in Live(tree), ClickTree(i)
  PROVE  Inv'
<1> DEFINE w == [Window EXCEPT !.pane = Select(@, i)]
<1>1. ~details.on /\ Shows(w)
  BY DEF ClickTree
<1>2. DetailsOK(tree, details)
  BY WindowNow
<1>3. w = [tree |-> tree, pane |-> Select(pane, i), details |-> details, bar |-> bar]
  BY DEF Window
<1> HIDE DEF w
<1>4. details = [details EXCEPT !.row = details.row]
  BY <1>2 DEF DetailsOK
<1>5. /\ Window.tree = tree /\ Window.pane = pane /\ Window.details = details
      /\ Window.bar = bar /\ WindowOK(Window)
  BY WindowNow DEF WindowOK
<1>6. WindowOK(w) /\ w.tree = tree
  BY <1>1, <1>3, <1>4, <1>5, SelectWindowOK
<1> QED
  BY <1>1, <1>6, ShowsInv

LEMMA ClickRowInv ==
  ASSUME Inv, NEW i \in ToSet(details.rows), ClickRow(i)
  PROVE  Inv'
<1> DEFINE e == [details EXCEPT !.row = i]
           w == [Window EXCEPT !.details.row = i, !.pane = Select(@, i)]
<1>1. details.on /\ Shows(w)
  BY DEF ClickRow
<1>2. TreeOK(tree) /\ DetailsOK(tree, details)
  BY WindowNow
<1>3. w = [tree |-> tree, pane |-> Select(pane, i), details |-> e, bar |-> bar]
  <2> DEFINE q == Select(pane, i)
  <2>1. Window.details = details /\ Window.pane = pane
    BY DEF Window
  <2>2. Window = [tree |-> tree, pane |-> pane, details |-> details, bar |-> bar]
    BY DEF Window
  <2>3. w = [Window EXCEPT !.details = e, !.pane = q]
    BY <2>1, <2>2
  <2> HIDE DEF w, e, q
  <2>4. w = [tree |-> tree, pane |-> q, details |-> e, bar |-> bar]
    BY <2>2, <2>3
  <2> QED
    BY <2>4 DEF q
<1> HIDE DEF w
<1>4. details.rows \in Seq(Shown(tree))
  BY <1>2 DEF DetailsOK
<1>5. i \in Shown(tree) /\ i \in Live(tree)
  BY <1>2, <1>4, ShownItems DEF ToSet
<1>6. /\ Window.tree = tree /\ Window.pane = pane /\ Window.details = details
      /\ Window.bar = bar /\ WindowOK(Window)
  BY WindowNow DEF WindowOK
<1>7. WindowOK(w) /\ w.tree = tree
  BY <1>1, <1>3, <1>5, <1>6, SelectWindowOK
<1> QED
  BY <1>1, <1>7, ShowsInv

(* The arrow of a pending container.                                       *)
LEMMA ExpandItemInv ==
  ASSUME Inv, NEW i \in Live(tree), ExpandItem(i)
  PROVE  Inv'
<1> DEFINE w == Expand(Window, i)
<1>1. ~details.on /\ Pending(tree, i) /\ Shows(w)
  BY DEF ExpandItem
<1>2. i \in Places(tree)
  BY <1>1 DEF Live, Places, Shown, Pending, Placeholder
<1>3. /\ Sound(Window) /\ InStep(Window) /\ BarOK(Window)
      /\ Window.tree = tree /\ Window.details = details /\ Window.bar = bar
  BY WindowNow
<1>4. /\ Sound(w) /\ w.details = details /\ w.bar = bar /\ w.tree.doc = tree.doc
      /\ Shown(tree) \subseteq Shown(w.tree)
  BY <1>2, <1>3, ExpandOK
<1> HIDE DEF w
<1>5. InStep(w)
  BY <1>1, <1>3, <1>4 DEF InStep
<1>6. BarOK(w)
  BY <1>3, <1>4, BarKept
<1> QED
  BY <1>1, <1>4, <1>5, <1>6, ShowsInv DEF WindowOK

(* The items of a tree depend on its document, opening, open and pending   *)
(* containers alone.                                                       *)
LEMMA SameItems ==
  ASSUME NEW t, NEW u, t.doc = u.doc, t.gen = u.gen, t.pending = u.pending,
         t.sessions = u.sessions
  PROVE  /\ Present(t) = Present(u) /\ Shown(t) = Shown(u) /\ Live(t) = Live(u)
         /\ \A j : Pending(t, j) <=> Pending(u, j)
         /\ \A j : Children(t, j) = Children(u, j)
<1>1. Present(t) = Present(u)
  BY DEF Present
<1>2. \A n : Item(t, n) = Item(u, n) /\ Placeholder(t, n) = Placeholder(u, n)
  BY DEF Item, Placeholder
<1>3. \A j : Children(t, j) = Children(u, j)
  BY <1>2 DEF Children
<1> QED
  BY <1>1, <1>2, <1>3 DEF Shown, Live, Pending

(* So does everything else in the window.                                  *)
LEMMA SameTree ==
  ASSUME Inv, NEW t, TreeOK(t), t.doc = tree.doc, t.gen = tree.gen, t.pending = tree.pending,
         t.sessions = tree.sessions,
         NEW w, w = [tree |-> t, pane |-> pane, details |-> details, bar |-> bar]
  PROVE  WindowOK(w) /\ w.tree = t /\ Shown(t) = Shown(tree)
<1>1. /\ Sound(Window) /\ InStep(Window) /\ BarOK(Window) /\ Window.tree = tree
      /\ Window.pane = pane /\ Window.details = details /\ Window.bar = bar
      /\ PaneOK(tree, pane) /\ DetailsOK(tree, details)
      /\ HistoryOK(tree, details) /\ bar \in BarType
  BY WindowNow
<1>2. w.tree = t /\ w.pane = pane /\ w.details = details /\ w.bar = bar
  OBVIOUS
<1>3. /\ Present(t) = Present(tree) /\ Shown(t) = Shown(tree) /\ Live(t) = Live(tree)
      /\ \A j : Pending(t, j) <=> Pending(tree, j)
      /\ \A j : Children(t, j) = Children(tree, j)
  BY SameItems
<1>4. PaneOK(t, pane)
  BY <1>1, <1>3 DEF PaneOK, Places
<1>5. DetailsOK(t, details) /\ HistoryOK(t, details)
  BY <1>1, <1>3 DEF DetailsOK, HistoryOK, Places
<1>6. Sound(w)
  BY <1>1, <1>2, <1>4, <1>5 DEF Sound
<1>7. InStep(w)
  BY <1>1, <1>2, <1>3 DEF InStep
<1>8. BarOK(w)
  BY <1>1, <1>2, <1>6, BarKept
<1> QED
  BY <1>2, <1>3, <1>6, <1>7, <1>8 DEF WindowOK

(* Which pending containers show their placeholder matters to none of it.  *)
LEMMA BareOK ==
  ASSUME Inv, NEW B, B \subseteq tree.pending, Shows([Window EXCEPT !.tree.bare = B])
  PROVE  Inv'
<1> DEFINE t == [tree EXCEPT !.bare = B]
           w == [Window EXCEPT !.tree.bare = B]
<1>1. TreeOK(tree)
  BY WindowNow
<1>2. w = [tree |-> t, pane |-> pane, details |-> details, bar |-> bar]
  BY DEF Window
<1>3. /\ t.doc = tree.doc /\ t.gen = tree.gen /\ t.pending = tree.pending
      /\ t.sessions = tree.sessions /\ t.bare = B /\ t.queue = tree.queue
      /\ t.next = tree.next /\ t.timer = tree.timer
      /\ t \in [doc : Documents \cup {NoDocument}, gen : 0..MaxOpens, pending : SUBSET Containers,
                sessions : SUBSET Navigable, bare : SUBSET Containers,
                queue : Seq(Items), next : Nat, timer : BOOLEAN]
  BY <1>1 DEF TreeOK
<1> HIDE DEF t
<1>4. Present(t) = Present(tree) /\ Shown(t) = Shown(tree)
  BY <1>3, SameItems
<1>5. TreeOK(t)
  BY <1>1, <1>3, <1>4 DEF TreeOK
<1>6. Shows(w)
  OBVIOUS
<1> HIDE DEF w
<1>7. WindowOK(w) /\ w.tree = t
  BY <1>2, <1>3, <1>5, SameTree
<1> QED
  BY <1>4, <1>6, <1>7, ShowsInv

LEMMA BareInv ==
  ASSUME Inv, (\E i \in Live(tree) : CollapseItem(i)) \/ ExpandAll \/ CollapseAll
  PROVE  Inv'
<1>1. tree.bare \subseteq tree.pending
  BY WindowNow DEF TreeOK
<1>2. ASSUME NEW i \in Live(tree), CollapseItem(i) PROVE Inv'
  <2>1. Shows([Window EXCEPT !.tree.bare = tree.bare \ {i.node}])
    BY <1>2, WindowNow DEF CollapseItem
  <2> QED
    BY <1>1, <2>1, BareOK
<1>3. CASE ExpandAll
  BY <1>3, BareOK DEF ExpandAll
<1>4. CASE CollapseAll
  BY <1>4, BareOK DEF CollapseAll
<1> QED
  BY <1>2, <1>3, <1>4
-----------------------------------------------------------------------------
(* Switching to the details keeps the window as it should be, whatever the *)
(* deleted item's memory holds.                                            *)
LEMMA SwitchToDetailsInv ==
  ASSUME Inv, SwitchToDetails
  PROVE  Inv'
<1> DEFINE i == pane.current
           at == IF i # Null /\ ~Pending(tree, i) /\ ~HasChildren(tree, i)
                   THEN ParentOf(tree, i) ELSE i
           e == [details EXCEPT !.on = TRUE, !.location = Null, !.back = <<>>, !.forward = <<>>]
           on == [Window EXCEPT !.details = [@ EXCEPT !.on = TRUE, !.location = Null,
                                                      !.back = <<>>, !.forward = <<>>]]
           w == Navigate(on, at, FALSE)
           live == i \in Live(w.tree)
<1>1. /\ freed' = (freed \/ (i # Null /\ ~live)) /\ icons' = icons
      /\ \/ i = Null /\ Becomes(w)
         \/ i # Null /\ live /\ Becomes(UpdateBar(SelectRow(w, i)))
         \/ \E r \in ToSet(w.details.rows) \cup {Null} : Becomes(SelectRow(w, r))
  BY DEF SwitchToDetails
<1>2. /\ TreeOK(tree) /\ PaneOK(tree, pane) /\ DetailsOK(tree, details) /\ bar \in BarType
      /\ icons \subseteq Shown(tree) /\ freed \in BOOLEAN
  BY WindowNow
<1>3. on = [tree |-> tree, pane |-> pane, details |-> e, bar |-> bar]
  <2>1. Window = [tree |-> tree, pane |-> pane, details |-> details, bar |-> bar]
    BY DEF Window
  <2>2. Window.details = details
    BY DEF Window
  <2>3. on = [Window EXCEPT !.details = e]
    BY <2>2
  <2> HIDE DEF on, e
  <2> QED
    BY <2>1, <2>3
<1>4. /\ e \in [on : BOOLEAN, location : Places(tree), back : Seq(Places(tree)),
               forward : Seq(Places(tree)), rows : Seq(Shown(tree)), row : Places(tree),
               next : Nat, timer : BOOLEAN]
      /\ e.on /\ e.location = Null /\ e.back = <<>> /\ e.forward = <<>>
  <2>1. Null \in Places(tree) /\ <<>> \in Seq(Places(tree)) /\ TRUE \in BOOLEAN
    BY DEF Places
  <2> QED
    BY <1>2, <2>1 DEF DetailsOK
<1> HIDE DEF e, on
<1>5. HistoryOK(tree, e) /\ DetailsOK(tree, e)
  BY <1>4 DEF HistoryOK, DetailsOK, Pending, Null
<1>6. /\ on.tree = tree /\ on.pane = pane /\ on.details = e /\ on.bar = bar
  BY <1>3
<1>7. Sound(on)
  BY <1>2, <1>3, <1>5, <1>6 DEF Sound
<1>8. i \in Live(tree) \cup {Null}
  BY <1>2 DEF PaneOK
<1>9. /\ at \in Places(tree)
      /\ i.kind # "..." \/ (Pending(tree, at) /\ i = Placeholder(tree, at.node))
  <2>1. CASE i = Null
    BY <2>1 DEF Places, Null
  <2>2. CASE i \in Live(tree) /\ i.kind = "..."
    <3>1. PICK c \in tree.pending : i = Placeholder(tree, c)
      BY <2>2 DEF Live, Item
    <3>2. ~Pending(tree, i) /\ i # Null
      BY <2>2 DEF Pending, Null
    <3>3. Children(tree, i) = <<>>
      BY <2>2, <3>2 DEF Children
    <3>4. ParentOf(tree, i) = Item(tree, c) /\ i.node = c
      BY <2>2, <3>1 DEF ParentOf, Placeholder
    <3>5. at = Item(tree, c)
      BY <3>2, <3>3, <3>4 DEF HasChildren
    <3>6. at \in Places(tree) /\ at.node = c /\ at.kind = "node"
      BY <1>2, <3>5 DEF TreeOK, Places, Shown, Item
    <3> HIDE DEF at
    <3> QED
      BY <3>1, <3>6 DEF Pending
  <2>3. CASE i \in Live(tree) /\ i.kind # "..."
    <3>1. ParentOf(tree, i) \in Places(tree)
      BY <1>2, <2>3, ParentShown
    <3>2. i \in Places(tree)
      BY <2>3 DEF Live, Shown, Places, Placeholder
    <3> QED
      BY <2>3, <3>1, <3>2
  <2> QED
    BY <1>8, <2>1, <2>2, <2>3
<1> HIDE DEF at
<1>10. WindowOK(w) /\ Shown(tree) \subseteq Shown(w.tree) /\ w.details.on
  <2>1. at \in Places(on.tree) /\ on.details.back = <<>> /\ on.details.forward = <<>>
    BY <1>4, <1>6, <1>9
  <2>2. \/ on.pane.current.kind # "..."
        \/ Pending(on.tree, at) /\ on.pane.current = Placeholder(on.tree, at.node)
    BY <1>6, <1>9
  <2>3. /\ WindowOK(w) /\ Shown(on.tree) \subseteq Shown(w.tree)
        /\ w.details.on = on.details.on
    BY <1>7, <2>1, <2>2, NavigateOK
  <2> HIDE DEF w
  <2> QED
    BY <1>4, <1>6, <2>3
<1> HIDE DEF w
<1>11. icons' \subseteq Shown(w.tree) /\ freed' \in BOOLEAN
  <2>1. (freed \/ (i # Null /\ ~live)) \in BOOLEAN
    OBVIOUS
  <2> QED
    BY <1>1, <1>2, <1>10, <2>1
<1>12. ASSUME NEW r PROVE WindowOK(SelectRow(w, r)) /\ SelectRow(w, r).tree = w.tree
  BY <1>10, SelectRowOK
<1>13. CASE Becomes(w)
  BY <1>10, <1>11, <1>13, BecomesInv
<1>14. CASE Becomes(UpdateBar(SelectRow(w, i)))
  <2> DEFINE x == SelectRow(w, i)
             y == UpdateBar(x)
  <2>1. WindowOK(x) /\ x.tree = w.tree
    BY <1>12
  <2>2. WindowOK(y) /\ y.tree = w.tree
    BY <2>1, UpdateBarOK DEF WindowOK
  <2>3. Becomes(y)
    BY <1>14
  <2> HIDE DEF y
  <2> QED
    BY <1>11, <2>2, <2>3, BecomesInv
<1>15. CASE \E r \in ToSet(w.details.rows) \cup {Null} : Becomes(SelectRow(w, r))
  <2>1. PICK r : Becomes(SelectRow(w, r))
    BY <1>15
  <2> DEFINE x == SelectRow(w, r)
  <2>2. WindowOK(x) /\ x.tree = w.tree /\ Becomes(x)
    BY <1>12, <2>1
  <2> HIDE DEF x
  <2> QED
    BY <1>11, <2>2, BecomesInv
<1> QED
  BY <1>1, <1>13, <1>14, <1>15

(* Switching back to the tree does, too.                                   *)
LEMMA SwitchToTreeInv ==
  ASSUME Inv, SwitchToTree
  PROVE  Inv'
<1> DEFINE e == [details EXCEPT !.on = FALSE, !.timer = FALSE]
           q == IF pane.current = Null /\ details.location # Null
                  THEN Select(pane, details.location) ELSE pane
           x == [Window EXCEPT
                  !.details = [@ EXCEPT !.on = FALSE, !.timer = FALSE],
                  !.pane = IF @.current = Null /\ details.location # Null
                             THEN Select(@, details.location) ELSE @]
           w == UpdateBar(x)
<1>1. Shows(w)
  BY DEF SwitchToTree
<1>2. /\ TreeOK(tree) /\ PaneOK(tree, pane) /\ DetailsOK(tree, details)
      /\ HistoryOK(tree, details) /\ bar \in BarType
  BY WindowNow
<1>3. x = [tree |-> tree, pane |-> q, details |-> e, bar |-> bar]
  <2>1. Window = [tree |-> tree, pane |-> pane, details |-> details, bar |-> bar]
    BY DEF Window
  <2>2. Window.details = details /\ Window.pane = pane
    BY DEF Window
  <2>3. x = [Window EXCEPT !.details = e, !.pane = q]
    BY <2>2
  <2> HIDE DEF x, e, q
  <2> QED
    BY <2>1, <2>3
<1>4. /\ e \in [on : BOOLEAN, location : Places(tree), back : Seq(Places(tree)),
               forward : Seq(Places(tree)), rows : Seq(Shown(tree)), row : Places(tree),
               next : Nat, timer : BOOLEAN]
      /\ ~e.on /\ ~e.timer
      /\ e.location = details.location /\ e.back = details.back /\ e.forward = details.forward
  <2>1. FALSE \in BOOLEAN
    OBVIOUS
  <2> QED
    BY <1>2, <2>1 DEF DetailsOK
<1> HIDE DEF e, x
<1>5. DetailsOK(tree, e) /\ HistoryOK(tree, e)
  BY <1>2, <1>4 DEF DetailsOK, HistoryOK
<1>6. PaneOK(tree, q)
  <2>1. CASE pane.current = Null /\ details.location # Null
    <3>1. details.location \in Live(tree)
      BY <1>2, <2>1, ShownItems DEF DetailsOK, Places
    <3> QED
      BY <1>2, <2>1, <3>1, SelectOK
  <2>2. CASE ~(pane.current = Null /\ details.location # Null)
    BY <1>2, <2>2
  <2> QED
    BY <2>1, <2>2
<1> HIDE DEF q
<1>7. x.tree = tree /\ x.pane = q /\ x.details = e /\ x.bar = bar
  BY <1>3
<1>8. Sound(x)
  BY <1>2, <1>3, <1>5, <1>6, <1>7 DEF Sound
<1>9. InStep(x)
  BY <1>4, <1>7 DEF InStep
<1>10. WindowOK(w) /\ w.tree = tree
  BY <1>7, <1>8, <1>9, UpdateBarOK DEF WindowOK
<1> HIDE DEF w
<1> QED
  BY <1>1, <1>10, ShowsInv

(* Going up or to the top.                                                 *)
LEMMA GoInv ==
  ASSUME Inv, details.on, NEW to \in Places(tree), Shows(Navigate(Window, to, TRUE))
  PROVE  Inv'
<1> DEFINE w == Navigate(Window, to, TRUE)
<1>1. /\ Sound(Window) /\ InStep(Window)
      /\ Window.tree = tree /\ Window.pane = pane /\ Window.details = details
  BY WindowNow
<1>2. Window.pane.current.kind # "..."
  BY <1>1 DEF InStep
<1>3. WindowOK(w) /\ Shown(tree) \subseteq Shown(w.tree)
  BY <1>1, <1>2, NavigateOK
<1>4. Shows(w)
  OBVIOUS
<1> HIDE DEF w
<1> QED
  BY <1>3, <1>4, ShowsInv

LEMMA NavigateUpInv ==
  ASSUME Inv, NavigateUp
  PROVE  Inv'
<1>1. details.on /\ details.location # Null
      /\ Shows(Navigate(Window, ParentOf(tree, details.location), TRUE))
  BY DEF NavigateUp
<1>2. TreeOK(tree) /\ details.location \in Places(tree)
  BY WindowNow DEF DetailsOK
<1>3. details.location \in Live(tree)
  BY <1>1, <1>2, ShownItems DEF Places
<1>4. ParentOf(tree, details.location) \in Places(tree)
  BY <1>2, <1>3, ParentShown
<1> QED
  BY <1>1, <1>4, GoInv

LEMMA NavigateRootInv ==
  ASSUME Inv, NavigateRoot
  PROVE  Inv'
<1>1. bar.edit => details.on
  BY WindowNow DEF BarOK
<1>2. Null \in Places(tree)
  BY DEF Places
<1> QED
  BY <1>1, <1>2, GoInv DEF NavigateRoot

(* Activating a row goes to it or selects it.                              *)
LEMMA ActivateRowInv ==
  ASSUME Inv, NEW r \in ToSet(details.rows), ActivateRow(r)
  PROVE  Inv'
<1> DEFINE w == [Window EXCEPT !.pane = Select(@, r)]
<1>1. details.on /\ r = details.row /\ r # Null
      /\ (Shows(Navigate(Window, r, TRUE)) \/ Shows(w))
  BY DEF ActivateRow
<1>2. TreeOK(tree) /\ DetailsOK(tree, details)
  BY WindowNow
<1>3. details.rows \in Seq(Shown(tree))
  BY <1>2 DEF DetailsOK
<1>4. r \in Shown(tree) /\ r \in Live(tree) /\ r \in Places(tree)
  BY <1>2, <1>3, ShownItems DEF ToSet, Places
<1>5. CASE Shows(Navigate(Window, r, TRUE))
  BY <1>1, <1>4, <1>5, GoInv
<1>6. CASE Shows(w)
  <2>1. w = [tree |-> tree, pane |-> Select(pane, r), details |-> details, bar |-> bar]
    BY DEF Window
  <2> HIDE DEF w
  <2>2. details = [details EXCEPT !.row = details.row]
    BY <1>2 DEF DetailsOK
  <2>3. /\ Window.tree = tree /\ Window.pane = pane /\ Window.details = details
        /\ Window.bar = bar /\ WindowOK(Window)
    BY WindowNow DEF WindowOK
  <2>4. WindowOK(w) /\ w.tree = tree
    BY <1>1, <1>4, <2>1, <2>2, <2>3, SelectWindowOK
  <2> QED
    BY <1>6, <2>4, ShowsInv
<1> QED
  BY <1>1, <1>5, <1>6
-----------------------------------------------------------------------------
(* What holds of one of the two sides of the history.                      *)
Side(t, a, at) ==
  /\ \A k \in 1..Len(a) : ~Pending(t, a[k])
  /\ \A k \in 1..Len(a) - 1 : a[k] # a[k + 1]
  /\ a # <<>> => a[Len(a)] # at

(* Stepping to the end of one side puts the location at the end of the     *)
(* other, and leaves both as they should be.                               *)
LEMMA SidesOK ==
  ASSUME NEW t, NEW P, NEW a \in Seq(P), NEW b \in Seq(P), NEW at \in P, a # <<>>,
         Side(t, a, at), Side(t, b, at), ~Pending(t, at)
  PROVE  /\ Front(a) \in Seq(P) /\ Append(b, at) \in Seq(P) /\ Last(a) \in P
         /\ Side(t, Front(a), Last(a)) /\ Side(t, Append(b, at), Last(a))
         /\ ~Pending(t, Last(a))
<1> DEFINE f == Front(a)
           e == Append(b, at)
<1>1. /\ Len(a) \in Nat /\ Len(a) > 0 /\ Last(a) = a[Len(a)] /\ Last(a) \in P
      /\ Len(b) \in Nat
  BY DEF Last
<1>2. /\ f \in Seq(P) /\ Len(f) = Len(a) - 1 /\ \A k \in 1..Len(a) - 1 : f[k] = a[k]
  <2>1. f = SubSeq(a, 1, Len(a) - 1)
    BY DEF Front
  <2>2. /\ SubSeq(a, 1, Len(a) - 1) \in Seq(P)
        /\ Len(SubSeq(a, 1, Len(a) - 1)) = (IF 1 =< Len(a) - 1 THEN Len(a) - 1 - 1 + 1 ELSE 0)
        /\ \A k \in 1..Len(a) - 1 - 1 + 1 : SubSeq(a, 1, Len(a) - 1)[k] = a[1 + k - 1]
    <3>1. 1 \in 1..Len(a) + 1 /\ Len(a) - 1 \in 0..Len(a)
      BY <1>1
    <3>2. \A k \in 1..Len(a) - 1 : a[k] \in P
      BY <1>1
    <3> QED
      BY <3>1, <3>2, SubSeqProperties
  <2> HIDE DEF f
  <2>3. Len(a) - 1 - 1 + 1 = Len(a) - 1 /\ \A k \in 1..Len(a) - 1 : 1 + k - 1 = k
    BY <1>1
  <2> QED
    BY <1>1, <2>1, <2>2, <2>3
<1>3. /\ e \in Seq(P) /\ Len(e) = Len(b) + 1 /\ e[Len(b) + 1] = at
      /\ \A k \in 1..Len(b) : e[k] = b[k]
  BY <1>1
<1>4. Last(a) # at /\ ~Pending(t, Last(a))
  BY <1>1 DEF Side
<1> HIDE DEF f, e
<1>5. Side(t, f, Last(a))
  <2>1. \A k \in 1..Len(f) : ~Pending(t, f[k])
    BY <1>1, <1>2 DEF Side
  <2>2. ASSUME NEW k \in 1..Len(f) - 1 PROVE f[k] # f[k + 1]
    <3>1. k \in 1..Len(a) - 1 /\ k + 1 \in 1..Len(a) - 1
      BY <1>1, <1>2
    <3> QED
      BY <1>2, <3>1 DEF Side
  <2>3. ASSUME f # <<>> PROVE f[Len(f)] # Last(a)
    <3>1. Len(a) - 1 \in 1..Len(a) - 1
      BY <1>1, <1>2, <2>3
    <3>2. a[Len(a) - 1] # a[Len(a) - 1 + 1]
      BY <3>1 DEF Side
    <3> QED
      BY <1>1, <1>2, <3>1, <3>2
  <2> QED
    BY <2>1, <2>2, <2>3 DEF Side
<1>6. Side(t, e, Last(a))
  <2>1. \A k \in 1..Len(e) : ~Pending(t, e[k])
    BY <1>1, <1>3 DEF Side
  <2>2. ASSUME NEW k \in 1..Len(e) - 1 PROVE e[k] # e[k + 1]
    <3>1. CASE k = Len(b)
      <4>1. b # <<>> /\ e[k] = b[Len(b)] /\ e[k + 1] = at
        BY <1>1, <1>3, <3>1
      <4> QED
        BY <4>1 DEF Side
    <3>2. CASE k # Len(b)
      <4>1. k \in 1..Len(b) - 1 /\ k \in 1..Len(b) /\ k + 1 \in 1..Len(b)
        BY <1>1, <1>3, <3>2
      <4> QED
        BY <1>3, <4>1 DEF Side
    <3> QED
      BY <3>1, <3>2
  <2>3. e[Len(e)] # Last(a)
    BY <1>1, <1>3, <1>4
  <2> QED
    BY <2>1, <2>2, <2>3 DEF Side
<1> QED
  BY <1>1, <1>2, <1>3, <1>4, <1>5, <1>6 DEF f, e

(* The details with another history are as sound.                          *)
LEMMA MovedOK ==
  ASSUME Inv, NEW back \in Seq(Places(tree)), NEW forward \in Seq(Places(tree)),
         NEW to \in Places(tree), ~Pending(tree, to),
         Side(tree, back, to), Side(tree, forward, to),
         NEW e, \/ e = [details EXCEPT !.back = back, !.forward = forward, !.location = to]
                \/ e = [details EXCEPT !.forward = forward, !.location = to, !.back = back]
                \/ e = [details EXCEPT !.back = back, !.location = to, !.forward = forward]
  PROVE  LET w == [tree |-> tree, pane |-> pane, details |-> e, bar |-> bar]
         IN  Sound(w) /\ e.on = details.on
<1>1. DetailsOK(tree, details)
  BY WindowNow
<1>2. e.back = back /\ e.forward = forward /\ e.location = to /\ e.on = details.on
  BY <1>1 DEF DetailsOK
<1>3. DetailsOK(tree, e)
  BY <1>1 DEF DetailsOK
<1>4. HistoryOK(tree, e)
  BY <1>2 DEF HistoryOK, Side
<1> DEFINE w == [tree |-> tree, pane |-> pane, details |-> e, bar |-> bar]
<1>5. w.tree = tree /\ w.pane = pane /\ w.details = e /\ w.bar = bar
  OBVIOUS
<1>6. w = [tree |-> w.tree, pane |-> w.pane, details |-> w.details, bar |-> w.bar]
  OBVIOUS
<1> HIDE DEF w
<1>7. TreeOK(tree) /\ PaneOK(tree, pane) /\ bar \in BarType
  BY WindowNow
<1>8. Sound(w)
  BY <1>3, <1>4, <1>5, <1>6, <1>7 DEF Sound
<1> QED
  BY <1>2, <1>8 DEF w

(* Wherever it goes, the view is refreshed and so is the bar.              *)
LEMMA ArriveOK ==
  ASSUME NEW w, Sound(w), w.pane.current.kind # "..."
  PROVE  LET r == UpdateBar(Refresh(w)) IN WindowOK(r) /\ r.tree = w.tree
<1> DEFINE x == Refresh(w)
<1>1. Sound(x) /\ InStep(x) /\ x.tree = w.tree
  BY RefreshOK
<1> HIDE DEF x
<1>2. WindowOK(UpdateBar(x)) /\ UpdateBar(x).tree = x.tree
  BY <1>1, UpdateBarOK DEF WindowOK
<1> QED
  BY <1>1, <1>2 DEF x

(* Back and forth.                                                         *)
LEMMA NavigateBackInv ==
  ASSUME Inv, NavigateBack
  PROVE  Inv'
<1> DEFINE back == Front(details.back)
           forward == Append(details.forward, details.location)
           to == Last(details.back)
           e == [details EXCEPT !.forward = forward, !.location = to, !.back = back]
           x == [Window EXCEPT !.details =
                  [details EXCEPT !.forward = Append(@, details.location),
                                  !.location = Last(details.back), !.back = Front(@)]]
           w == UpdateBar(Refresh(x))
<1>1. details.on /\ details.back # <<>> /\ Shows(w)
  BY DEF NavigateBack
<1>2. DetailsOK(tree, details) /\ HistoryOK(tree, details) /\ InStep(Window)
      /\ Window.pane = pane /\ Window.details = details
  BY WindowNow
<1>3. x = [tree |-> tree, pane |-> pane, details |-> e, bar |-> bar]
  <2>1. Window = [tree |-> tree, pane |-> pane, details |-> details, bar |-> bar]
    BY DEF Window
  <2>2. x = [Window EXCEPT !.details = e]
    OBVIOUS
  <2> HIDE DEF x, e
  <2> QED
    BY <2>1, <2>2
<1>4. /\ details.back \in Seq(Places(tree)) /\ details.forward \in Seq(Places(tree))
      /\ details.location \in Places(tree)
  BY <1>2 DEF DetailsOK
<1>5. /\ Side(tree, details.back, details.location) /\ Side(tree, details.forward, details.location)
      /\ ~Pending(tree, details.location)
  BY <1>2 DEF HistoryOK, Side
<1>6. /\ back \in Seq(Places(tree)) /\ forward \in Seq(Places(tree)) /\ to \in Places(tree)
      /\ Side(tree, back, to) /\ Side(tree, forward, to) /\ ~Pending(tree, to)
  BY <1>1, <1>4, <1>5, SidesOK
<1> HIDE DEF x, back, forward, to
<1>7. Sound(x)
  BY <1>3, <1>6, MovedOK
<1>8. x.pane = pane /\ x.tree = tree /\ pane.current.kind # "..."
  BY <1>1, <1>2, <1>3 DEF InStep
<1>9. WindowOK(w) /\ w.tree = tree
  BY <1>7, <1>8, ArriveOK
<1> HIDE DEF w
<1> QED
  BY <1>1, <1>9, ShowsInv

LEMMA NavigateForwardInv ==
  ASSUME Inv, NavigateForward
  PROVE  Inv'
<1> DEFINE forward == Front(details.forward)
           back == Append(details.back, details.location)
           to == Last(details.forward)
           e == [details EXCEPT !.back = back, !.location = to, !.forward = forward]
           x == [Window EXCEPT !.details =
                  [details EXCEPT !.back = Append(@, details.location), !.location = to,
                                  !.forward = Front(@)]]
           y == Expand(x, to)
           w == UpdateBar(Refresh(y))
<1>1. details.on /\ details.forward # <<>> /\ Shows(w)
  BY DEF NavigateForward
<1>2. DetailsOK(tree, details) /\ HistoryOK(tree, details) /\ InStep(Window)
      /\ Window.pane = pane /\ Window.details = details
  BY WindowNow
<1>3. x = [tree |-> tree, pane |-> pane, details |-> e, bar |-> bar]
  <2>1. Window = [tree |-> tree, pane |-> pane, details |-> details, bar |-> bar]
    BY DEF Window
  <2>2. x = [Window EXCEPT !.details = e]
    OBVIOUS
  <2> HIDE DEF x, e
  <2> QED
    BY <2>1, <2>2
<1>4. /\ details.back \in Seq(Places(tree)) /\ details.forward \in Seq(Places(tree))
      /\ details.location \in Places(tree)
  BY <1>2 DEF DetailsOK
<1>5. /\ Side(tree, details.back, details.location) /\ Side(tree, details.forward, details.location)
      /\ ~Pending(tree, details.location)
  BY <1>2 DEF HistoryOK, Side
<1>6. /\ back \in Seq(Places(tree)) /\ forward \in Seq(Places(tree)) /\ to \in Places(tree)
      /\ Side(tree, back, to) /\ Side(tree, forward, to) /\ ~Pending(tree, to)
  BY <1>1, <1>4, <1>5, SidesOK
<1> HIDE DEF x, back, forward, to
<1>7. Sound(x)
  BY <1>3, <1>6, MovedOK
<1>8. x.pane = pane /\ x.tree = tree /\ pane.current.kind # "..."
  BY <1>1, <1>2, <1>3 DEF InStep
<1>9. Sound(y) /\ y.pane = pane /\ Shown(tree) \subseteq Shown(y.tree)
  BY <1>6, <1>7, <1>8, ExpandOK
<1> HIDE DEF y
<1>10. WindowOK(w) /\ w.tree = y.tree
  BY <1>8, <1>9, ArriveOK
<1> HIDE DEF w
<1> QED
  BY <1>1, <1>9, <1>10, ShowsInv
-----------------------------------------------------------------------------
(* A typed address: the walk to it opens what is on the way.               *)
LEMMA NavigateAddressInv ==
  ASSUME Inv, NEW path \in Addresses, NavigateAddress(path)
  PROVE  Inv'
<1> DEFINE f == Walk(Window, path)
           x == Navigate(f.w, f.at, TRUE)
           y == UpdateBar(f.w)
<1>1. bar.edit /\ ((f.ok /\ Shows(x)) \/ Shows(y))
  BY DEF NavigateAddress
<1>2. /\ Sound(Window) /\ InStep(Window) /\ BarOK(Window)
      /\ Window.tree = tree /\ Window.pane = pane
      /\ Window.details = details /\ Window.bar = bar
  BY WindowNow
<1>3. details.on
  BY <1>1, <1>2 DEF BarOK
<1>4. pane.current.kind # "..."
  BY <1>2, <1>3 DEF InStep
<1>5. path \in Seq(Nodes)
  BY MainWindowAssumption
<1>6. f \in Followed(Window)
  BY <1>2, <1>4, <1>5, WalkOK
<1> HIDE DEF f
<1>7. /\ Sound(f.w) /\ f.w.pane = pane /\ f.w.details = details
      /\ Shown(tree) \subseteq Shown(f.w.tree)
      /\ Children(f.w.tree, details.location) = Children(tree, details.location)
      /\ f.at \in Places(f.w.tree)
  BY <1>2, <1>6 DEF Followed
<1>8. WindowOK(x) /\ Shown(tree) \subseteq Shown(x.tree)
  <2>1. f.w.pane.current.kind # "..."
    BY <1>4, <1>7
  <2>2. WindowOK(x) /\ Shown(f.w.tree) \subseteq Shown(x.tree)
    BY <1>7, <2>1, NavigateOK
  <2> HIDE DEF x
  <2> QED
    BY <1>7, <2>2
<1>9. WindowOK(y) /\ Shown(tree) \subseteq Shown(y.tree)
  <2>1. InStep(f.w)
    BY <1>2, <1>7 DEF InStep
  <2>2. WindowOK(y) /\ y.tree = f.w.tree
    BY <1>7, <2>1, UpdateBarOK DEF WindowOK
  <2> HIDE DEF y
  <2> QED
    BY <1>7, <2>2
<1> HIDE DEF x, y
<1> QED
  BY <1>1, <1>8, <1>9, ShowsInv
-----------------------------------------------------------------------------
(* One turn of the details' timer scans a part of the rows.                *)
LEMMA DetailsTimerInv ==
  ASSUME Inv, DetailsTimer
  PROVE  Inv'
<1> DEFINE next == details.next
           N == Len(details.rows)
           rest == next + 1..N
           scan == {k \in rest : k =< next + MaxScan}
           hits == {k \in scan : details.rows[k].node \in Executables}
           last == IF hits # {} THEN CHOOSE k \in hits : \A h \in hits : k =< h
                   ELSE CHOOSE k \in scan \cup {next} : \A h \in scan : h =< k
           e == [details EXCEPT !.next = last, !.timer = last < N]
           w == [tree |-> tree, pane |-> pane, details |-> e, bar |-> bar]
<1>1. /\ details.timer /\ details.on /\ details' = e
      /\ icons' = icons \cup {details.rows[k] : k \in hits \cap {last}}
      /\ UNCHANGED <<tree, pane, bar, freed>>
  BY DEF DetailsTimer
<1>2. /\ Sound(Window) /\ InStep(Window) /\ BarOK(Window)
      /\ Window.tree = tree /\ Window.pane = pane
      /\ Window.details = details /\ Window.bar = bar
      /\ TreeOK(tree) /\ PaneOK(tree, pane) /\ DetailsOK(tree, details)
      /\ HistoryOK(tree, details) /\ bar \in BarType
      /\ icons \subseteq Shown(tree) /\ freed \in BOOLEAN
  BY WindowNow
<1>3. /\ next \in Nat /\ details.rows \in Seq(Shown(tree)) /\ N \in Nat /\ MaxScan \in Nat
  BY <1>2, MainWindowAssumption DEF DetailsOK
<1> HIDE DEF next, N
<1>4. scan \subseteq 1..N /\ hits \subseteq scan
  BY <1>3
<1>40. scan \in SUBSET Nat /\ hits \in SUBSET Nat
  <2> HIDE DEF scan, hits
  <2> QED
    BY <1>3, <1>4
<1>5. last \in Nat
  <2>1. CASE hits # {}
    <3>1. \E k \in hits : \A h \in hits : k =< h
      <4> HIDE DEF hits
      <4> QED
        BY <1>40, <2>1, LeastElement
    <3> HIDE DEF hits
    <3>2. last \in hits
      BY <2>1, <3>1
    <3> HIDE DEF last
    <3> QED
      BY <1>40, <3>2
  <2>2. CASE hits = {}
    <3>1. \E k \in scan \cup {next} : \A h \in scan : h =< k
      <4>1. CASE scan = {}
        BY <4>1
      <4>2. CASE scan # {} /\ N =< next + MaxScan
        <5>1. N \in scan
          BY <1>3, <4>2
        <5>2. \A h \in scan : h =< N
          BY <1>3, <1>4
        <5> HIDE DEF scan
        <5> QED
          BY <5>1, <5>2
      <4>3. CASE scan # {} /\ ~(N =< next + MaxScan)
        <5>1. next + MaxScan \in scan \cup {next}
          BY <1>3, <4>3
        <5>2. \A h \in scan : h =< next + MaxScan
          OBVIOUS
        <5> HIDE DEF scan
        <5> QED
          BY <5>1, <5>2
      <4> QED
        BY <4>1, <4>2, <4>3
    <3> DEFINE most == CHOOSE k \in scan \cup {next} : \A h \in scan : h =< k
    <3>2. last = most
      BY <2>2
    <3> HIDE DEF scan, hits, last
    <3>3. most \in scan \cup {next}
      BY <3>1
    <3> HIDE DEF most
    <3> QED
      BY <1>3, <1>40, <3>2, <3>3
  <2> QED
    BY <2>1, <2>2
<1> HIDE DEF last, hits
<1>6. ASSUME NEW k \in hits PROVE details.rows[k] \in Shown(tree)
  <2>1. k \in 1..Len(details.rows)
    BY <1>4 DEF N
  <2> QED
    BY <1>3, <2>1
<1>7. icons' \subseteq Shown(w.tree) /\ freed' \in BOOLEAN
  BY <1>1, <1>2, <1>6
<1>8. /\ e.on = details.on /\ e.location = details.location /\ e.back = details.back
      /\ e.forward = details.forward /\ e.rows = details.rows /\ e.row = details.row
      /\ e.next = last /\ e.timer = (last < N)
  BY <1>2 DEF DetailsOK
<1>9. DetailsOK(tree, e)
  <2> DEFINE more == last < N
  <2>1. more \in BOOLEAN
    OBVIOUS
  <2>2. e = [details EXCEPT !.next = last, !.timer = more]
    OBVIOUS
  <2> HIDE DEF e, more
  <2> QED
    BY <1>2, <1>5, <2>1, <2>2 DEF DetailsOK
<1> HIDE DEF e
<1>10. w.tree = tree /\ w.pane = pane /\ w.details = e /\ w.bar = bar
  OBVIOUS
<1>11. w = [tree |-> w.tree, pane |-> w.pane, details |-> w.details, bar |-> w.bar]
  OBVIOUS
<1>12. Becomes(w)
  BY <1>1, <1>10 DEF Becomes
<1> HIDE DEF w
<1>13. HistoryOK(tree, e)
  BY <1>2, <1>8 DEF HistoryOK
<1>14. Sound(w)
  BY <1>2, <1>9, <1>10, <1>11, <1>13 DEF Sound
<1>15. InStep(w)
  <2>1. (e.timer <=> e.next < Len(e.rows)) /\ e.on
    BY <1>1, <1>8 DEF N
  <2> QED
    BY <1>2, <1>8, <1>10, <2>1 DEF InStep
<1>16. BarOK(w)
  BY <1>2, <1>8, <1>10, <1>14, BarKept
<1> QED
  BY <1>7, <1>12, <1>14, <1>15, <1>16, BecomesInv DEF WindowOK

(* One turn of the tree's timer takes an item off the queue.               *)
LEMMA TreeTimerInv ==
  ASSUME Inv, TreeTimer
  PROVE  Inv'
<1> DEFINE next == tree.next + 1
           ends == next >= Len(tree.queue)
           t == [tree EXCEPT !.timer = ~ends, !.next = IF ends THEN 0 ELSE next,
                             !.queue = IF ends THEN <<>> ELSE @]
           w == [tree |-> t, pane |-> pane, details |-> details, bar |-> bar]
<1>1. /\ tree.timer /\ tree' = t /\ icons' = icons \cup {tree.queue[next]}
      /\ UNCHANGED <<pane, details, bar, freed>>
  BY DEF TreeTimer
<1>2. TreeOK(tree) /\ icons \subseteq Shown(tree) /\ freed \in BOOLEAN
  BY WindowNow
<1>3. /\ tree.queue \in Seq(Shown(tree)) /\ tree.queue \in Seq(Items)
      /\ tree.next \in Nat /\ tree.next < Len(tree.queue)
      /\ tree \in [doc : Documents \cup {NoDocument}, gen : 0..MaxOpens,
                   pending : SUBSET Containers, sessions : SUBSET Navigable,
                   bare : SUBSET Containers, queue : Seq(Items), next : Nat, timer : BOOLEAN]
  BY <1>1, <1>2 DEF TreeOK
<1>4. next \in 1..Len(tree.queue) /\ tree.queue[next] \in Shown(tree)
  BY <1>3
<1> HIDE DEF next
<1>5. /\ t.doc = tree.doc /\ t.gen = tree.gen /\ t.pending = tree.pending
      /\ t.sessions = tree.sessions /\ t.bare = tree.bare /\ t.timer = ~ends
      /\ t.next = (IF ends THEN 0 ELSE next)
      /\ t.queue = (IF ends THEN <<>> ELSE tree.queue)
  <2> HIDE DEF ends
  <2> QED
    BY <1>3
<1>6. t \in [doc : Documents \cup {NoDocument}, gen : 0..MaxOpens,
             pending : SUBSET Containers, sessions : SUBSET Navigable,
             bare : SUBSET Containers, queue : Seq(Items), next : Nat, timer : BOOLEAN]
  <2>1. (~ends) \in BOOLEAN
    OBVIOUS
  <2>2. /\ (IF ends THEN 0 ELSE next) \in Nat
        /\ (IF ends THEN <<>> ELSE tree.queue) \in Seq(Items)
    BY <1>3, <1>4
  <2> HIDE DEF ends
  <2> QED
    BY <1>3, <2>1, <2>2
<1> HIDE DEF t
<1>7. Present(t) = Present(tree) /\ Shown(t) = Shown(tree)
  BY <1>5, SameItems
<1>8. TreeOK(t)
  <2>1. t.timer <=> ~ends
    BY <1>5
  <2>2. CASE ends
    BY <1>2, <1>5, <1>6, <1>7, <2>1, <2>2 DEF TreeOK
  <2>3. CASE ~ends
    <3>1. next < Len(tree.queue) /\ tree.queue # <<>>
      BY <1>3, <1>4, <2>3
    <3> QED
      BY <1>2, <1>5, <1>6, <1>7, <2>1, <2>3, <3>1 DEF TreeOK
  <2> QED
    BY <2>2, <2>3
<1>9. WindowOK(w) /\ w.tree = t
  BY <1>5, <1>8, SameTree
<1>10. Becomes(w)
  BY <1>1 DEF Becomes
<1> HIDE DEF w
<1>11. icons' \subseteq Shown(w.tree) /\ freed' \in BOOLEAN
  BY <1>1, <1>2, <1>4, <1>7, <1>9
<1> QED
  BY <1>9, <1>10, <1>11, BecomesInv
-----------------------------------------------------------------------------
LEMMA NextInv == Inv /\ [Next]_vars => Inv'
<1> SUFFICES ASSUME Inv, [Next]_vars PROVE Inv'
  OBVIOUS
<1>1. ASSUME NEW d \in Documents, OpenFails(d) PROVE Inv'
  BY <1>1, OpenFailsInv
<1>2. ASSUME NEW d \in Documents, Open(d) PROVE Inv'
  BY <1>2, OpenInv
<1>3. ASSUME NEW i \in Live(tree), ClickTree(i) PROVE Inv'
  BY <1>3, ClickTreeInv
<1>4. ASSUME NEW i \in Live(tree), ExpandItem(i) PROVE Inv'
  BY <1>4, ExpandItemInv
<1>5. CASE (\E i \in Live(tree) : CollapseItem(i)) \/ ExpandAll \/ CollapseAll
  BY <1>5, BareInv
<1>6. CASE SwitchToDetails
  BY <1>6, SwitchToDetailsInv
<1>7. CASE SwitchToTree
  BY <1>7, SwitchToTreeInv
<1>8. ASSUME NEW r \in ToSet(details.rows), ClickRow(r) PROVE Inv'
  BY <1>8, ClickRowInv
<1>9. ASSUME NEW r \in ToSet(details.rows), ActivateRow(r) PROVE Inv'
  BY <1>9, ActivateRowInv
<1>10. CASE NavigateBack
  BY <1>10, NavigateBackInv
<1>11. CASE NavigateForward
  BY <1>11, NavigateForwardInv
<1>12. CASE NavigateUp
  BY <1>12, NavigateUpInv
<1>13. CASE NavigateRoot
  BY <1>13, NavigateRootInv
<1>14. ASSUME NEW path \in Addresses, NavigateAddress(path) PROVE Inv'
  BY <1>14, NavigateAddressInv
<1>15. CASE DetailsTimer
  BY <1>15, DetailsTimerInv
<1>16. CASE TreeTimer
  BY <1>16, TreeTimerInv
<1>17. CASE UNCHANGED vars
  <2>1. /\ tree' = tree /\ pane' = pane /\ details' = details /\ bar' = bar
        /\ icons' = icons /\ freed' = freed
    BY <1>17 DEF vars
  <2>2. WindowOK(Window) /\ Shown(tree) \subseteq Shown(Window.tree) /\ Shows(Window)
    BY <2>1, WindowNow DEF WindowOK, Shows, Becomes
  <2> QED
    BY <2>2, ShowsInv
<1> QED
  BY <1>1, <1>2, <1>3, <1>4, <1>5, <1>6, <1>7, <1>8, <1>9, <1>10, <1>11, <1>12, <1>13,
     <1>14, <1>15, <1>16, <1>17 DEF Next

(* Every window the program comes to, through any sequence of opened       *)
(* files, clicks, keys and timers, is one its handlers can rely on.        *)
THEOREM Reliable == Spec => []Inv
<1> QED
  BY InitInv, NextInv, PTL DEF Spec

(* Each part of the window has its type, and the icons that were given are *)
(* those of items still in the tree.                                       *)
THEOREM TypeCorrect == Spec => []TypeOK
<1>1. ASSUME Inv PROVE TypeOK
  <2>1. /\ TreeOK(tree) /\ bar \in BarType /\ icons \subseteq Shown(tree) /\ freed \in BOOLEAN
        /\ Sound(Window) /\ Window.tree = tree /\ Window.pane = pane
        /\ Window.details = details
    BY <1>1, WindowNow
  <2>2. Window \in Windows
    BY <2>1, SoundType
  <2>3. icons \subseteq Live(tree)
    BY <2>1, ShownItems
  <2>4. tree \in [doc : Documents \cup {NoDocument}, gen : 0..MaxOpens,
                  pending : SUBSET Containers, sessions : SUBSET Navigable,
                  bare : SUBSET tree.pending, queue : Seq(Items), next : Nat, timer : BOOLEAN]
    BY <2>1 DEF TreeOK
  <2>5. /\ Window.pane \in [current : Items, selected : Items, preview : Items,
                           exports : BOOLEAN]
        /\ Window.details \in [on : BOOLEAN, location : Items, back : Seq(Items),
                              forward : Seq(Items), rows : Seq(Items), row : Items,
                              next : Nat, timer : BOOLEAN]
    BY <2>2 DEF Windows
  <2> QED
    BY <2>1, <2>3, <2>4, <2>5 DEF TypeOK, BarType
<1> QED
  BY Reliable, <1>1, PTL

(* Whatever is opened, expanded, navigated or closed, no pointer the       *)
(* window keeps is to an item that was deleted.                            *)
THEOREM PointersStayLive == Spec => []PointersLive
<1>1. ASSUME Inv PROVE PointersLive
  <2>1. TreeOK(tree) /\ PaneOK(tree, pane) /\ DetailsOK(tree, details)
    BY <1>1, WindowNow
  <2>2. Places(tree) \subseteq Live(tree) \cup {Null}
    BY <2>1, ShownItems DEF Places
  <2>3. {details.location, details.row, pane.preview} \subseteq Places(tree)
    BY <2>1 DEF PaneOK, DetailsOK
  <2>4. {pane.current, pane.selected} \subseteq Live(tree) \cup {Null}
    BY <2>1 DEF PaneOK
  <2>5. ASSUME NEW a, a \in Seq(Places(tree)) PROVE ToSet(a) \subseteq Places(tree)
    BY <2>5 DEF ToSet
  <2>6. /\ details.back \in Seq(Places(tree)) /\ details.forward \in Seq(Places(tree))
        /\ details.rows \in Seq(Places(tree)) /\ tree.queue \in Seq(Places(tree))
    <3>1. Shown(tree) \subseteq Places(tree)
      BY DEF Places
    <3>2. details.rows \in Seq(Shown(tree)) /\ tree.queue \in Seq(Shown(tree))
      BY <2>1 DEF DetailsOK, TreeOK
    <3>3. details.rows \in Seq(Places(tree)) /\ tree.queue \in Seq(Places(tree))
      BY <3>1, <3>2, SeqGrows
    <3> QED
      BY <2>1, <3>3 DEF DetailsOK
  <2>7. /\ ToSet(details.back) \subseteq Places(tree)
        /\ ToSet(details.forward) \subseteq Places(tree)
        /\ ToSet(details.rows) \subseteq Places(tree) /\ ToSet(tree.queue) \subseteq Places(tree)
    BY <2>5, <2>6
  <2> QED
    BY <2>2, <2>3, <2>4, <2>7 DEF PointersLive
<1> QED
  BY Reliable, <1>1, PTL

(* An icon that waits has its timer running: nothing else restarts it.     *)
THEOREM TimersStayArmed == Spec => []TimersArmed
<1>1. ASSUME Inv PROVE TimersArmed
  <2>1. TreeOK(tree) /\ InStep(Window) /\ Window.details = details
    BY <1>1, WindowNow
  <2> QED
    BY <2>1 DEF TreeOK, InStep, TimersArmed
<1> QED
  BY Reliable, <1>1, PTL

(* What Export would write is in view in the details.                      *)
THEOREM ExportStaysInView == Spec => []ExportTargetInView
<1>1. ASSUME Inv PROVE ExportTargetInView
  <2>1. InStep(Window) /\ Window.details = details /\ Window.pane = pane
    BY <1>1, WindowNow
  <2> QED
    BY <2>1 DEF InStep, ExportTargetInView
<1> QED
  BY Reliable, <1>1, PTL

(* While an export is enabled, it converts the selected resource's preview.*)
THEOREM PreviewStaysSelected == Spec => []PreviewOfSelection
<1>1. ASSUME Inv PROVE PreviewOfSelection
  BY <1>1, WindowNow DEF PaneOK, PreviewOfSelection
<1> QED
  BY Reliable, <1>1, PTL

(* Back and Forward always lead somewhere else: in the history, read       *)
(* through the location, no place is next to itself.                       *)
THEOREM HistoryMoves == Spec => []BackGoesElsewhere
<1>1. ASSUME Inv PROVE BackGoesElsewhere
  <2> DEFINE b == details.back
             f == details.forward
             at == details.location
             r == Reverse(f)
             line == b \o <<at>> \o r
             M == Len(b)
             N == Len(f)
  <2>1. HistoryOK(tree, details) /\ DetailsOK(tree, details)
    BY <1>1, WindowNow
  <2>2. /\ b \in Seq(Places(tree)) /\ f \in Seq(Places(tree)) /\ at \in Places(tree)
        /\ M \in Nat /\ N \in Nat
    BY <2>1 DEF DetailsOK
  <2>3. /\ \A k \in 1..M - 1 : b[k] # b[k + 1]
        /\ \A k \in 1..N - 1 : f[k] # f[k + 1]
        /\ M > 0 => b[M] # at
        /\ N > 0 => f[N] # at
    BY <2>1, <2>2 DEF HistoryOK
  <2>4. r \in Seq(Places(tree)) /\ Len(r) = N /\ \A k \in 1..N : r[k] = f[N - k + 1]
    <3>1. r = [k \in 1..N |-> f[N - k + 1]]
      BY DEF Reverse
    <3>2. \A k \in 1..N : N - k + 1 \in 1..N
      BY <2>2
    <3> HIDE DEF r, f, N
    <3>3. \A k \in 1..N : f[N - k + 1] \in Places(tree)
      BY <2>2, <3>2 DEF N
    <3> QED
      BY <2>2, <3>1, <3>3
  <2> HIDE DEF r, b, f, at, M, N
  <2>5. /\ Len(line) = M + 1 + N
        /\ \A k \in 1..M : line[k] = b[k]
        /\ line[M + 1] = at
        /\ \A k \in 1..N : line[M + 1 + k] = r[k]
    <3> DEFINE c == b \o <<at>>
    <3>1. Len(b) = M
      BY DEF M
    <3>2. /\ c \in Seq(Places(tree)) /\ Len(c) = M + 1 /\ c[M + 1] = at
          /\ \A k \in 1..M : c[k] = b[k]
      BY <2>2, <3>1
    <3>3. line = c \o r
      OBVIOUS
    <3> HIDE DEF c, line
    <3>4. /\ Len(line) = M + 1 + N
          /\ \A k \in 1..M + 1 : line[k] = c[k]
          /\ \A k \in 1..N : line[M + 1 + k] = r[k]
      <4>1. /\ Len(line) = Len(c) + Len(r)
            /\ \A k \in 1..Len(c) + Len(r) :
                 line[k] = IF k =< Len(c) THEN c[k] ELSE r[k - Len(c)]
        BY <2>4, <3>2, <3>3, ConcatProperties
      <4>2. /\ Len(line) = M + 1 + N
            /\ \A k \in 1..M + 1 + N :
                 line[k] = IF k =< M + 1 THEN c[k] ELSE r[k - (M + 1)]
        BY <2>4, <3>2, <4>1
      <4>3. ASSUME NEW k \in 1..N PROVE line[M + 1 + k] = r[k]
        <5> DEFINE m == M + 1 + k
        <5>1. m \in 1..M + 1 + N /\ ~(m =< M + 1) /\ m - (M + 1) = k
          BY <2>2
        <5> HIDE DEF m
        <5>2. line[m] = r[m - (M + 1)]
          BY <4>2, <5>1
        <5> QED
          BY <5>1, <5>2 DEF m
      <4>4. ASSUME NEW k \in 1..M + 1 PROVE line[k] = c[k]
        BY <2>2, <4>2
      <4> QED
        BY <4>2, <4>3, <4>4
    <3> QED
      BY <2>2, <3>2, <3>4
  <2> HIDE DEF line
  <2>6. ASSUME NEW k \in 1..Len(line) - 1 PROVE line[k] # line[k + 1]
    <3>1. CASE k < M
      <4>1. k \in 1..M - 1 /\ k \in 1..M /\ k + 1 \in 1..M
        BY <2>2, <3>1
      <4> QED
        BY <2>3, <2>5, <4>1
    <3>2. CASE k = M
      <4>1. M \in 1..M /\ M > 0
        BY <2>2, <3>2
      <4>2. line[k] = b[M] /\ line[k + 1] = at
        BY <2>5, <3>2, <4>1
      <4>3. b[M] # at
        BY <2>3, <4>1
      <4> QED
        BY <4>2, <4>3
    <3>3. CASE k = M + 1
      <4>1. 1 \in 1..N /\ N - 1 + 1 = N
        BY <2>2, <2>5, <3>3
      <4>2. line[k + 1] = f[N]
        BY <2>4, <2>5, <3>3, <4>1
      <4> QED
        BY <2>2, <2>3, <2>5, <3>3, <4>1, <4>2
    <3>4. CASE k > M + 1
      <4> DEFINE j == k - M - 1
      <4>1. /\ j \in 1..N - 1 /\ j \in 1..N /\ j + 1 \in 1..N
            /\ k = M + 1 + j /\ k + 1 = M + 1 + (j + 1)
            /\ N - j \in 1..N - 1 /\ N - (j + 1) + 1 = N - j /\ N - j + 1 = (N - j) + 1
        BY <2>2, <2>5, <3>4
      <4> HIDE DEF j
      <4>2. line[k] = f[N - j + 1] /\ line[k + 1] = f[N - j]
        BY <2>4, <2>5, <4>1
      <4> QED
        BY <2>3, <4>1, <4>2
    <3> QED
      BY <2>2, <2>5, <3>1, <3>2, <3>3, <3>4
  <2> QED
    BY <2>6 DEF BackGoesElsewhere, line, b, at, r, f
<1> QED
  BY Reliable, <1>1, PTL

(* The navigation bar tells the truth about a document that is open.       *)
THEOREM BarStaysTrue == Spec => []BarAgrees
<1>1. ASSUME Inv PROVE BarAgrees
  BY <1>1, WindowNow DEF BarOK, BarAgrees
<1> QED
  BY Reliable, <1>1, PTL

(* No listing is stale: the rows are the location's children.              *)
THEOREM RowsStayChildren == Spec => []RowsAreChildren
<1>1. ASSUME Inv PROVE RowsAreChildren
  <2>1. InStep(Window) /\ Window.details = details /\ Window.tree = tree
    BY <1>1, WindowNow
  <2> QED
    BY <2>1 DEF InStep, RowsAreChildren
<1> QED
  BY Reliable, <1>1, PTL
================================================================================
