------------------------------ MODULE OpenerApi ------------------------------
(***************************************************************************)
(* The C ABI of the opener (opener/api/Api.cpp): opener handles that own a *)
(* session, resource handles that are snapshots of one listed resource and *)
(* source handles that name bytes to open.  The three kinds of handle have *)
(* independent lifetimes: a resource survives its opener and a source      *)
(* survives its resource.  Every call is synchronous, so a behaviour is a  *)
(* sequence of calls in any order.                                         *)
(***************************************************************************)
EXTENDS OpenerSession

CONSTANTS Openers, Handles, Sources,  \* handle slots of the caller
          Files, FileContent,         \* what is on disk
          MaxIndex,                   \* bound on the indices a caller tries
          Faults,                     \* what may fail
          Padded                      \* a blob filled up with zeros

(* What may fail: an allocation of a session or of anything else inside a  *)
(* try block, of a handle, of a copy of bytes, of the store reference or   *)
(* of the sub-path of a snapshot; and writing the temporary file.          *)
ASSUME ApiAssumption ==
  /\ FileContent \in [Files -> Contents]
  /\ MaxIndex \in Nat
  /\ Faults \subseteq {"session", "handle", "copy", "store", "subPath", "spool"}

VARIABLES openers,  \* NoOpener, or the session of a live opener handle
          handles,  \* NoHandle, or the snapshot a resource handle owns
          sources,  \* NoSource, or the place a source handle names
          reply     \* the last call and what it returned

vars == <<openers, handles, sources, reply>>

NoOpener == [live |-> FALSE, session |-> NoSession]
Live(session) == [live |-> TRUE, session |-> session]

NoHandle == [live |-> FALSE]
NoSource == [live |-> FALSE]

Slots == Openers \cup Handles \cup Sources

(* A call on slot "on" that returns "status": an open keeps the place it   *)
(* was asked for, get_payload the blob it handed out.                      *)
Answer(call, on, asked, status, bytes) ==
  reply' = [call |-> call, on |-> on, asked |-> asked, status |-> status, bytes |-> bytes]

Reply(call, on, status) == Answer(call, on, At(NoBytes, Root), status, NoBytes)

ReplyOpen(o, place, status) == Answer("open", o, place, status, NoBytes)

(* The catch clauses of create, close and the two ways to a resource.      *)
ReplyCaught(call, o) ==
  /\ "session" \in Faults
  /\ \E status \in {"ALLOCATION_FAILED", "INTERNAL_ERROR"} : Reply(call, o, status)

-----------------------------------------------------------------------------
(* fillSnapshotItem copies the resource.  Allocating the store reference   *)
(* or the sub-path may fail without an error: the item then lacks it.      *)
(* "origin", the place that listed it, is kept for the properties only.    *)
Snapshot(place, e, index, lost) ==
  LET kept == e.lazy /\ "store" \notin lost
  IN [live |-> TRUE, origin |-> place, index |-> index, type |-> e.type, name |-> e.name,
      language |-> e.language, format |-> e.format, container |-> e.container,
      directory |-> e.directory, lazy |-> kept,
      content |-> IF kept \/ ~e.lazy THEN e.content ELSE NoBytes,
      subPath |-> IF e.directory /\ "subPath" \notin lost THEN e.subPath ELSE Root]

Losses == SUBSET (Faults \cap {"store", "subPath"})

(* What opening a source shows: its bytes are opened without a sub-path. *)
Opens(source) ==
  IF source.stored THEN source.place ELSE At(source.place.content, Root)

-----------------------------------------------------------------------------
Create(o) ==
  /\ ~openers[o].live
  /\ \/ /\ openers' = [openers EXCEPT ![o] = Live(NoSession)]
        /\ Reply("create", o, "OK")
     \/ UNCHANGED openers /\ ReplyCaught("create", o)
  /\ UNCHANGED <<handles, sources>>

(* Mutant: destroying an opener releases the resources taken from it. *)
DestroyReleases(o) ==
  /\ openers[o].live
  /\ openers' = [openers EXCEPT ![o] = NoOpener]
  /\ handles' = [h \in Handles |-> NoHandle]
  /\ Reply("destroy", o, "OK")
  /\ UNCHANGED sources

Destroy(o) ==
  /\ openers[o].live
  /\ openers' = [openers EXCEPT ![o] = NoOpener]
  /\ Reply("destroy", o, "OK")
  /\ UNCHANGED <<handles, sources>>

(* A close that fails leaves the session as it was. *)
Close(o) ==
  /\ openers[o].live
  /\ \/ /\ openers' = [openers EXCEPT ![o] = Live(NoSession)]
        /\ Reply("close", o, "OK")
     \/ UNCHANGED openers /\ ReplyCaught("close", o)
  /\ UNCHANGED <<handles, sources>>

(* Mutants: a failed open leaves the previous session in place, or leaves  *)
(* the previous resources beside the new module.                           *)
OpenKeepsSession(o, place) ==
  LET opened == IsOpen(Adopted(place))
  IN /\ openers' = IF opened THEN [openers EXCEPT ![o] = Live(Adopted(place))] ELSE openers
     /\ ReplyOpen(o, place, IF opened THEN "OK" ELSE "OPEN_FAILED")

OpenKeepsResources(o, place) ==
  LET next == Adopted(place)
      old == openers[o].session
  IN /\ openers' = [openers EXCEPT ![o] =
          Live(IF IsOpen(next) THEN next
               ELSE [next EXCEPT !.resources = old.resources, !.folders = old.folders])]
     /\ ReplyOpen(o, place, IF IsOpen(next) THEN "OK" ELSE "OPEN_FAILED")

(* peare_opener_open once the source is known: the new session replaces    *)
(* the old one even when it is not valid; an exception, of the module or   *)
(* of the allocation of the new session, leaves the old one.               *)
OpenPlace(o, place) ==
  \/ /\ Outcome[place] # "throws"
     /\ openers' = [openers EXCEPT ![o] = Live(Adopted(place))]
     /\ ReplyOpen(o, place, IF IsOpen(Adopted(place)) THEN "OK" ELSE "OPEN_FAILED")
  \/ /\ Outcome[place] = "throws" \/ "session" \in Faults
     /\ UNCHANGED openers
     /\ ReplyOpen(o, place, "INTERNAL_ERROR")

(* A file is opened through a source handle made for the call.  *)
OpenFile(o, f) ==
  /\ openers[o].live
  /\ \/ OpenPlace(o, At(FileContent[f], Root))
     \/ /\ "handle" \in Faults
        /\ UNCHANGED openers
        /\ ReplyOpen(o, At(FileContent[f], Root), "ALLOCATION_FAILED")
  /\ UNCHANGED <<handles, sources>>

(* A source with a store is opened in place. *)
OpenStore(o, s) ==
  /\ openers[o].live /\ sources[s].live /\ sources[s].stored
  /\ OpenPlace(o, Opens(sources[s]))
  /\ UNCHANGED <<handles, sources>>

(* A source with bytes is spooled to a temporary file first.  *)
OpenBuffer(o, s) ==
  /\ openers[o].live /\ sources[s].live /\ ~sources[s].stored
  /\ \/ OpenPlace(o, Opens(sources[s]))
     \/ /\ "spool" \in Faults
        /\ openers' = [openers EXCEPT ![o] = Live(Unspooled)]
        /\ ReplyOpen(o, Opens(sources[s]), "OPEN_FAILED")
  /\ UNCHANGED <<handles, sources>>

-----------------------------------------------------------------------------
(* Mutant: the index is taken for one-based. *)
MakeHandleOffByOne(call, o, h, index) ==
  LET session == openers[o].session
  IN /\ InRange(session, index)
     /\ handles' = [handles EXCEPT ![h] =
          Snapshot(session.place, session.resources[IF index = 1 THEN 1 ELSE index - 1],
                   index, {})]
     /\ Reply(call, o, "OK")

(* makeResourceHandle on the resource at "index", inside a try block; the  *)
(* handle or the copy of a string or of the bytes may not be allocated.    *)
MakeHandle(call, o, h, index) ==
  LET session == openers[o].session
  IN \/ /\ ~InRange(session, index)
        /\ UNCHANGED handles
        /\ Reply(call, o, "NOT_FOUND")
     \/ /\ InRange(session, index)
        /\ \E lost \in Losses :
             handles' = [handles EXCEPT ![h] =
                           Snapshot(session.place, session.resources[index], index, lost)]
        /\ Reply(call, o, "OK")
     \/ /\ InRange(session, index) /\ Faults \cap {"handle", "copy"} # {}
        /\ UNCHANGED handles
        /\ Reply(call, o, "ALLOCATION_FAILED")
     \/ UNCHANGED handles /\ ReplyCaught(call, o)

(* Neither of the two ways to a resource asks whether the session is open. *)
OpenResourceAt(o, h, folder, position) ==
  /\ openers[o].live /\ ~handles[h].live
  /\ LET folders == openers[o].session.folders
         listed == folder \in DOMAIN folders /\ position \in DOMAIN folders[folder].indices
     IN \/ /\ ~listed
           /\ UNCHANGED handles
           /\ Reply("resourceAt", o, "OUT_OF_RANGE")
        \/ /\ listed
           /\ MakeHandle("resourceAt", o, h, folders[folder].indices[position])
  /\ UNCHANGED <<openers, sources>>

FindResourceByName(o, h, type, name, language) ==
  /\ openers[o].live /\ ~handles[h].live
  /\ MakeHandle("find", o, h, FindResource(openers[o].session, type, name, language))
  /\ UNCHANGED <<openers, sources>>

DestroyResource(h) ==
  /\ handles[h].live
  /\ handles' = [handles EXCEPT ![h] = NoHandle]
  /\ Reply("destroyResource", h, "OK")
  /\ UNCHANGED <<openers, sources>>

(* The bytes get_payload copies: nothing of a directory, a store read to   *)
(* its end (readExactly fills up with zeros what it cannot produce), or    *)
(* the bytes of the snapshot.                                              *)
Blob(item) ==
  CASE item.directory -> NoBytes
    [] ~item.directory /\ item.lazy /\ item.content \in Undecodable -> Padded
    [] OTHER -> item.content

(* Mutant: a directory's store is read like any other. *)
GetPayloadOfImage(h) ==
  /\ handles[h].live
  /\ Answer("payload", h, At(NoBytes, Root), "OK",
            Blob([handles[h] EXCEPT !.directory = FALSE]))
  /\ UNCHANGED <<openers, handles, sources>>

(* peare_resource_get_payload: the copy for the caller may not be          *)
(* allocated, when there is anything to copy.                              *)
GetPayload(h) ==
  /\ handles[h].live
  /\ \/ Answer("payload", h, At(NoBytes, Root), "OK", Blob(handles[h]))
     \/ /\ "copy" \in Faults /\ Blob(handles[h]) # NoBytes
        /\ Reply("payload", h, "ALLOCATION_FAILED")
  /\ UNCHANGED <<openers, handles, sources>>

-----------------------------------------------------------------------------
(* peare_resource_get_source: the store, or a copy of the bytes, and the   *)
(* directory inside it.                                                    *)
SourceOf(item) ==
  [live |-> TRUE, stored |-> item.lazy, place |-> At(item.content, item.subPath)]

(* Mutant: a file's source inherits the directory the file was listed in. *)
GetSourceHere(h, s) ==
  /\ handles[h].live /\ ~sources[s].live
  /\ sources' = [sources EXCEPT ![s] =
       [SourceOf(handles[h]) EXCEPT !.place.subPath =
         IF handles[h].directory THEN @ ELSE handles[h].origin.subPath]]
  /\ Reply("getSource", h, "OK")
  /\ UNCHANGED <<openers, handles>>

GetSource(h, s) ==
  /\ handles[h].live /\ ~sources[s].live
  /\ \/ /\ sources' = [sources EXCEPT ![s] = SourceOf(handles[h])]
        /\ Reply("getSource", h, "OK")
     \/ /\ "handle" \in Faults
        /\ UNCHANGED sources
        /\ Reply("getSource", h, "ALLOCATION_FAILED")
  /\ UNCHANGED <<openers, handles>>

DestroySource(s) ==
  /\ sources[s].live
  /\ sources' = [sources EXCEPT ![s] = NoSource]
  /\ Reply("destroySource", s, "OK")
  /\ UNCHANGED <<openers, handles>>

-----------------------------------------------------------------------------
Init ==
  /\ openers = [o \in Openers |-> NoOpener]
  /\ handles = [h \in Handles |-> NoHandle]
  /\ sources = [s \in Sources |-> NoSource]
  /\ reply = [call |-> "none", on |-> "none", asked |-> At(NoBytes, Root),
              status |-> "OK", bytes |-> NoBytes]

OpenerStep(o) ==
  \/ Create(o) \/ Destroy(o) \/ Close(o)
  \/ \E f \in Files : OpenFile(o, f)
  \/ \E s \in Sources : OpenStore(o, s) \/ OpenBuffer(o, s)

TakeStep(o, h) ==
  \/ \E folder, position \in 1..MaxIndex : OpenResourceAt(o, h, folder, position)
  \/ \E type \in Types, name \in Names, language \in Languages :
        FindResourceByName(o, h, type, name, language)

HandleStep(h) ==
  \/ DestroyResource(h)
  \/ GetPayload(h)
  \/ \E s \in Sources : GetSource(h, s)

Next ==
  \/ \E o \in Openers : OpenerStep(o) \/ \E h \in Handles : TakeStep(o, h)
  \/ \E h \in Handles : HandleStep(h)
  \/ \E s \in Sources : DestroySource(s)

Spec == Init /\ [][Next]_vars

-----------------------------------------------------------------------------
Statuses == {"OK", "OPEN_FAILED", "INTERNAL_ERROR", "NOT_FOUND", "OUT_OF_RANGE",
             "ALLOCATION_FAILED"}

Sessions == {NoSession} \cup {Adopted(p) : p \in Place}

Item == [live : {TRUE}, origin : Place, index : Nat, type : Types, name : Names,
         language : Languages, format : Formats, container : BOOLEAN,
         directory : BOOLEAN, lazy : BOOLEAN, content : Contents, subPath : SubPaths]

(* The type invariant; a session is nothing or exactly what adoptModule    *)
(* makes of one place, never a mixture of two openings.                    *)
TypeOK ==
  /\ openers \in [Openers -> {NoOpener} \cup {Live(s) : s \in Sessions}]
  /\ handles \in [Handles -> {NoHandle} \cup Item]
  /\ sources \in [Sources -> {NoSource} \cup
                   [live : {TRUE}, stored : BOOLEAN, place : Place]]
  /\ reply.status \in Statuses /\ reply.asked \in Place
  /\ reply.bytes \in Contents \cup {Padded}

(* The snapshots a resource of a place may have, losses included. *)
SnapshotsOf(p, i) ==
  {Snapshot(p, Probed(Listing[p][i]), i, lost) : lost \in Losses}

(* A resource handle still is the resource its opener listed when it was   *)
(* taken, whatever that opener has shown or released since                 *)
(* (peare_resource_handle_s is a deep copy).                               *)
HandlesShowListedResources ==
  \A h \in Handles : handles[h].live =>
    LET item == handles[h]
    IN /\ item.index \in 1..Len(Listing[item.origin])
       /\ item \in SnapshotsOf(item.origin, item.index)

(* The status of peare_opener_open tells the caller what its opener now    *)
(* shows: OK, the very place it asked for and nothing else; OPEN_FAILED,   *)
(* no open container: what could be read of that place (or nothing, when   *)
(* its bytes could not be spooled) and nothing of what was shown before;   *)
(* any other status, exactly what it showed before.  No other opener is    *)
(* touched.                                                                *)
OpenReplyTellsState ==
  [][reply'.call = "open" =>
       LET o == reply'.on
           now == openers'[o].session
           asked == Adopted(reply'.asked)
       IN /\ CASE reply'.status = "OK" -> IsOpen(now) /\ now = asked
               [] reply'.status = "OPEN_FAILED" -> ~IsOpen(now) /\ now \in {asked, Unspooled}
               [] OTHER -> openers' = openers
          /\ \A other \in Openers \ {o} : openers'[other] = openers[other]]_vars

(* Walking the folders by index, as docs/API_OPENER.md "Navigation" tells  *)
(* a caller to, visits every resource of the session exactly once and each *)
(* folder holds one hierarchy path.                                        *)
WalkVisitsEveryResource ==
  \A o \in Openers :
    LET session == openers[o].session
        folders == session.folders
        Visits(i) == {x \in (DOMAIN folders) \X (1..Len(session.resources)) :
                        /\ x[2] \in DOMAIN folders[x[1]].indices
                        /\ folders[x[1]].indices[x[2]] = i}
    IN /\ \A i \in 1..Len(session.resources) : Cardinality(Visits(i)) = 1
       /\ \A k \in DOMAIN folders :
            /\ folders[k].indices # << >>
            /\ \A n \in DOMAIN folders[k].indices :
                 /\ InRange(session, folders[k].indices[n])
                 /\ FolderType(session.resources[folders[k].indices[n]]) = folders[k].type

(* A resource found by name is in the preferred language whenever the      *)
(* container has it in that language, else it is the first of that name    *)
(* ("preserving the original order as fallback").                          *)
PreferredLanguageWins ==
  [][reply'.call = "find" /\ reply'.status = "OK" => \A o \in Openers, h \in Handles, type \in Types, name \in Names,
        language \in Languages \ {AnyLanguage} :
       FindResourceByName(o, h, type, name, language) /\ handles'[h].live =>
         LET resources == openers[o].session.resources
             fits(i) == resources[i].type = type /\ resources[i].name = name
             taken == handles'[h]
             rank(i) == IF resources[i].language = language THEN i
                        ELSE Len(resources) + i
         IN /\ fits(taken.index)
            /\ \A i \in 1..Len(resources) :
                 fits(i) => rank(taken.index) <= rank(i)]_vars

(* Whatever its opener shows by now and whatever was lost when the handle  *)
(* was made, peare_resource_get_payload hands out with status OK exactly   *)
(* the bytes of the resource the handle was taken for, as long as their    *)
(* store can be decoded, but nothing for a directory (whose store is the   *)
(* whole image) and nothing when the snapshot lost its store; with any     *)
(* other status, no bytes.  What it does with a store that cannot be       *)
(* decoded is PayloadNeverFabricated's question.                           *)
PayloadIsListedContent ==
  reply.call = "payload" =>
    LET item == handles[reply.on]
        listed == Listing[item.origin][item.index]
        lost == listed.lazy /\ ~item.lazy
    IN /\ reply.status # "OK" \/ listed.directory \/ lost => reply.bytes = NoBytes
       /\ /\ reply.status = "OK" /\ ~listed.directory /\ ~lost
          /\ ~(listed.lazy /\ listed.content \in Undecodable)
          => reply.bytes = listed.content

(* A payload handed out with status OK holds no byte that was made up      *)
(* (README.md: "explicit failures instead of fabricated output").  The     *)
(* code answers OK, and zeros, for a store it could not decode.            *)
PayloadNeverFabricated ==
  reply.call = "payload" /\ reply.status = "OK" => reply.bytes # Padded

-----------------------------------------------------------------------------
(* The refinement mapping to the contract. *)
Entrances == {At(FileContent[f], Root) : f \in Files}
Count == [p \in Place |-> Len(Listing[p])]
Leads == [p \in Place |-> [i \in 1..Len(Listing[p]) |->
            {Opens(SourceOf(item)) : item \in SnapshotsOf(p, i)}]]

Shown == [o \in Openers |-> IF openers[o].session.loaded
                            THEN {openers[o].session.place} ELSE {}]
Held == [h \in Handles |-> IF handles[h].live
                           THEN {<<handles[h].origin, handles[h].index>>} ELSE {}]
Named == [s \in Sources |-> IF sources[s].live THEN {Opens(sources[s])} ELSE {}]

Contract == INSTANCE OpenerContract
              WITH shown <- Shown, held <- Held, named <- Named

(* The C ABI keeps the contract: every call is a contract step or changes  *)
(* nothing the contract speaks of.                                         *)
KeepsContract == Contract!CSpec

(* Places that contain every file and every place their resources lead to. *)
Closed(R) ==
  /\ Entrances \subseteq R
  /\ \A p \in R : \A i \in 1..Count[p] : Leads[p][i] \subseteq R

(* The places nested, at some depth, in a file: all but those that some    *)
(* closed set leaves out.                                                  *)
Nested == Place \ UNION {Place \ R : R \in {S \in SUBSET Place : Closed(S)}}

(* Whatever an opener shows, a resource was taken from or a source names   *)
(* is nested in a file that was opened by its path, through any sequence   *)
(* of calls and any lost allocation: no handle leads out of the documents  *)
(* the caller opened.                                                      *)
EverythingComesFromAFile ==
  /\ \A o \in Openers : openers[o].session.loaded => openers[o].session.place \in Nested
  /\ \A h \in Handles : handles[h].live => handles[h].origin \in Nested
  /\ \A s \in Sources : sources[s].live => Opens(sources[s]) \in Nested
==============================================================================
