---------------------------- MODULE OpenerContract ----------------------------
(***************************************************************************)
(* What the opener ABI promises its caller (docs/API_OPENER.md, "Nested    *)
(* containers" and "Navigation"), with sessions, folders and snapshots     *)
(* left out.  An opener shows one place or nothing; a resource handle is a *)
(* resource some opener was showing when it was taken; a source handle     *)
(* names a place that resource leads to; and only files and sources can be *)
(* shown.                                                                  *)
(***************************************************************************)
EXTENDS Naturals

CONSTANTS Openers, Handles, Sources,
          Entrances,  \* the places (an image, a directory in it) that are files
          Count,      \* how many resources a place lists
          Leads       \* Leads[p][i]: the places resource i of p may lead to

VARIABLES shown, held, named

cvars == <<shown, held, named>>

(* An option: a set with at most one member. *)
Some(x) == {x}
None == {}

CInit ==
  /\ shown = [o \in Openers |-> None]
  /\ held = [h \in Handles |-> None]
  /\ named = [s \in Sources |-> None]

Showable == Entrances \cup UNION {named[s] : s \in Sources}

Show(o) ==
  /\ \E p \in Showable : shown' = [shown EXCEPT ![o] = Some(p)]
  /\ UNCHANGED <<held, named>>

(* Closing, destroying, or an input that could not be spooled. *)
Hide(o) ==
  /\ shown' = [shown EXCEPT ![o] = None]
  /\ UNCHANGED <<held, named>>

Hold(h, o) ==
  /\ held[h] = None
  /\ \E p \in shown[o] : \E i \in 1..Count[p] :
       held' = [held EXCEPT ![h] = Some(<<p, i>>)]
  /\ UNCHANGED <<shown, named>>

Drop(h) ==
  /\ held' = [held EXCEPT ![h] = None]
  /\ UNCHANGED <<shown, named>>

Name(s, h) ==
  /\ named[s] = None
  /\ \E x \in held[h] : \E p \in Leads[x[1]][x[2]] :
       named' = [named EXCEPT ![s] = Some(p)]
  /\ UNCHANGED <<shown, held>>

Forget(s) ==
  /\ named' = [named EXCEPT ![s] = None]
  /\ UNCHANGED <<shown, held>>

CNext ==
  \/ \E o \in Openers : Hide(o) \/ Show(o)
  \/ \E h \in Handles : Drop(h) \/ \E o \in Openers : Hold(h, o)
  \/ \E s \in Sources : Forget(s) \/ \E h \in Handles : Name(s, h)

CSpec == CInit /\ [][CNext]_cvars

===============================================================================
