-------------------------- MODULE OpenerApi_proofs --------------------------
(***************************************************************************)
(* Theorems about the opener ABI, for any documents and any number of      *)
(* handles.  The inductive invariant is Inv: TypeOK says that a session is *)
(* nothing or what adoptModule makes of one place, so that the resources a *)
(* handle is taken from are a listing; with it, the two statements about   *)
(* handles and about provenance are preserved call by call.                *)
(* That a walk of the folders meets every resource needs TypeOK and what   *)
(* FoldersOf makes of a listing.                                           *)
(***************************************************************************)
EXTENDS OpenerApi, Intervals, FiniteSetTheorems

Inv == TypeOK /\ HandlesShowListedResources /\ EverythingComesFromAFile

-----------------------------------------------------------------------------
(* The probe chain yields a format of the program, whatever it finds. *)
LEMMA NestedFormatType ==
  ASSUME NEW e \in Entry
  PROVE  NestedFormat(e) \in Formats
<1> USE DocumentsAssumption, FormatNamesAssumption
<1>1. e.content \in Contents /\ e.name \in Names
  BY DEF Entry
<1>2. Signature[e.content].prefix \in Formats /\ Signature[e.content].deep \in Formats
  BY <1>1 DEF Signatures
<1>3. StrongFormat(e) \in Formats
  BY <1>2 DEF StrongFormat
<1> QED
  BY <1>2, <1>3 DEF NestedFormat

(* Probing a resource changes its container flag and its format only. *)
LEMMA ProbedType ==
  ASSUME NEW e \in Entry
  PROVE  /\ Probed(e) \in Entry
         /\ Probed(e).content = e.content /\ Probed(e).lazy = e.lazy
         /\ Probed(e).directory = e.directory /\ Probed(e).subPath = e.subPath
  BY NestedFormatType DEF Probed, Entry

(* A place is adopted with its listing, entry by entry. *)
LEMMA AdoptedListing ==
  ASSUME NEW p \in Place
  PROVE  /\ Adopted(p).loaded
         /\ Adopted(p).place = p
         /\ Adopted(p).valid = (Outcome[p] = "valid")
         /\ Len(Adopted(p).resources) = Len(Listing[p])
         /\ \A i \in 1..Len(Listing[p]) :
              /\ Listing[p][i] \in Entry
              /\ Adopted(p).resources[i] = Probed(Listing[p][i])
<1>1. Listing[p] \in Seq(Entry)
  BY DocumentsAssumption
<1>2. Len(Listing[p]) \in Nat /\ \A i \in 1..Len(Listing[p]) : Listing[p][i] \in Entry
  BY <1>1
<1>3. Adopted(p).resources = [i \in 1..Len(Listing[p]) |-> Probed(Listing[p][i])]
  BY DEF Adopted
<1>4. Len([i \in 1..Len(Listing[p]) |-> Probed(Listing[p][i])]) = Len(Listing[p])
  BY <1>2
<1> QED
  BY <1>2, <1>3, <1>4 DEF Adopted

LEMMA SnapshotType ==
  ASSUME NEW p \in Place, NEW e \in Entry, NEW i \in Nat, NEW lost
  PROVE  Snapshot(p, e, i, lost) \in Item
  BY DocumentsAssumption DEF Snapshot, Item, Entry

(* A session in use holds what one place lists. *)
LEMMA LiveSession ==
  ASSUME TypeOK, NEW o \in Openers
  PROVE  openers[o].session \in Sessions
<1>1. openers[o] \in {NoOpener} \cup {Live(s) : s \in Sessions}
  BY DEF TypeOK
<1> QED
  BY <1>1 DEF NoOpener, Live, Sessions

(* A resource in range belongs to a loaded session and is a listed one. *)
LEMMA ResourceInRange ==
  ASSUME TypeOK, NEW o \in Openers, NEW i, InRange(openers[o].session, i)
  PROVE  LET session == openers[o].session
         IN /\ session.loaded
            /\ session.place \in Place
            /\ i \in 1..Len(Listing[session.place])
            /\ Listing[session.place][i] \in Entry
            /\ session.resources[i] = Probed(Listing[session.place][i])
<1>1. openers[o].session \in Sessions
  BY LiveSession
<1>2. CASE openers[o].session = NoSession
  BY <1>2 DEF InRange, NoSession
<1>3. ASSUME NEW p \in Place, openers[o].session = Adopted(p)
      PROVE  LET session == openers[o].session
             IN /\ session.loaded
                /\ session.place \in Place
                /\ i \in 1..Len(Listing[session.place])
                /\ Listing[session.place][i] \in Entry
                /\ session.resources[i] = Probed(Listing[session.place][i])
  BY <1>3, AdoptedListing DEF InRange
<1> QED
  BY <1>1, <1>2, <1>3 DEF Sessions

-----------------------------------------------------------------------------
(* A source taken from a handle opens a place the handle's resource leads to. *)
LEMMA SourceLeads ==
  ASSUME NEW p \in Place, NEW i \in 1..Len(Listing[p]), NEW item \in SnapshotsOf(p, i)
  PROVE  /\ Opens(SourceOf(item)) \in Leads[p][i]
         /\ Opens(SourceOf(item)) \in Place
         /\ SourceOf(item) \in [live : {TRUE}, stored : BOOLEAN, place : Place]
<1>1. Listing[p][i] \in Entry
  BY AdoptedListing
<1>2. PICK lost \in Losses : item = Snapshot(p, Probed(Listing[p][i]), i, lost)
  BY DEF SnapshotsOf
<1>3. i \in Nat
  BY DocumentsAssumption
<1>4. item \in Item
  BY <1>1, <1>2, <1>3, ProbedType, SnapshotType
<1>5. SourceOf(item) \in [live : {TRUE}, stored : BOOLEAN, place : Place]
  BY <1>4 DEF SourceOf, Item, At, Place
<1>6. Opens(SourceOf(item)) \in Place
  BY <1>5, DocumentsAssumption DEF Opens, At, Place
<1> QED
  BY <1>5, <1>6 DEF Leads

LEMMA EntrancesArePlaces == Entrances \subseteq Place
  BY DocumentsAssumption, ApiAssumption DEF Entrances, At, Place

(* The nested places are themselves closed under nesting. *)
LEMMA NestedIsClosed ==
  /\ Entrances \subseteq Nested
  /\ Nested \subseteq Place
  /\ \A p \in Nested : \A i \in 1..Len(Listing[p]) : Leads[p][i] \subseteq Nested
<1>1. Entrances \subseteq Nested
  BY EntrancesArePlaces DEF Nested, Closed
<1>2. Nested \subseteq Place
  BY DEF Nested
<1>3. ASSUME NEW p \in Nested, NEW i \in 1..Len(Listing[p]), NEW q \in Leads[p][i]
      PROVE  q \in Nested
  <2>1. p \in Place
    BY <1>2
  <2>2. q \in Place
    <3>1. Leads[p][i] = {Opens(SourceOf(item)) : item \in SnapshotsOf(p, i)}
      BY <2>1 DEF Leads
    <3> QED
      BY <2>1, <3>1, SourceLeads
  <2>3. ASSUME NEW S \in SUBSET Place, Closed(S)
        PROVE  q \in S
    <3>1. p \in S
      BY <2>3 DEF Nested
    <3>2. i \in 1..Count[p]
      BY <2>1 DEF Count
    <3> QED
      BY <2>3, <3>1, <3>2 DEF Closed
  <2> QED
    BY <2>2, <2>3 DEF Nested
<1> QED
  BY <1>1, <1>2, <1>3

-----------------------------------------------------------------------------
(* What every call answers: a status, and nothing or what it was asked.    *)
Answered ==
  reply.status \in Statuses /\ reply.asked \in Place /\ reply.bytes \in Contents \cup {Padded}

LEMMA ReplyAnswered ==
  ASSUME NEW call, NEW on, NEW status \in Statuses, Reply(call, on, status)
  PROVE  Answered' /\ reply'.call = call
  BY DocumentsAssumption DEF Reply, Answer, Answered, At, Place

LEMMA ReplyOpenAnswered ==
  ASSUME NEW o, NEW place \in Place, NEW status \in Statuses, ReplyOpen(o, place, status)
  PROVE  /\ Answered'
         /\ reply'.call = "open" /\ reply'.on = o
         /\ reply'.asked = place /\ reply'.status = status
  BY DocumentsAssumption DEF ReplyOpen, Answer, Answered

LEMMA ReplyCaughtAnswered ==
  ASSUME NEW call, NEW o, ReplyCaught(call, o)
  PROVE  Answered' /\ reply'.call = call
  BY ReplyAnswered DEF ReplyCaught, Statuses

LEMMA InitInv == Init => Inv
<1> SUFFICES ASSUME Init PROVE Inv
  OBVIOUS
<1> USE DEF Init
<1>1. TypeOK
  BY DocumentsAssumption DEF TypeOK, Statuses, At, Place
<1>2. HandlesShowListedResources
  BY DEF HandlesShowListedResources, NoHandle
<1>3. EverythingComesFromAFile
  BY DEF EverythingComesFromAFile, NoHandle, NoSource, NoOpener, NoSession
<1> QED
  BY <1>1, <1>2, <1>3 DEF Inv

(* Calls that put a session into an opener and touch no other handle. *)
LEMMA OpenerStepInv ==
  ASSUME Inv, NEW o \in Openers, UNCHANGED <<handles, sources>>,
         NEW opener \in {NoOpener, Live(NoSession)} \cup {Live(Adopted(p)) : p \in Nested},
         openers' = [openers EXCEPT ![o] = opener],
         Answered'
  PROVE  Inv'
<1>1. opener \in {NoOpener} \cup {Live(s) : s \in Sessions}
  BY NestedIsClosed DEF Sessions
<1>2. TypeOK'
  BY <1>1 DEF Inv, TypeOK, Answered
<1>3. HandlesShowListedResources'
  BY DEF Inv, HandlesShowListedResources
<1>4. EverythingComesFromAFile'
  <2>1. opener.session.loaded => opener.session.place \in Nested
    <3>1. CASE opener \in {NoOpener, Live(NoSession)}
      BY <3>1 DEF NoOpener, Live, NoSession
    <3>2. ASSUME NEW p \in Nested, opener = Live(Adopted(p))
          PROVE  opener.session.place \in Nested
      BY <3>2, AdoptedListing, NestedIsClosed DEF Live
    <3> QED
      BY <3>1, <3>2
  <2>2. \A x \in Openers : openers'[x].session.loaded =>
                             openers'[x].session.place \in Nested
    BY <2>1 DEF Inv, EverythingComesFromAFile, TypeOK
  <2> QED
    BY <2>2 DEF Inv, EverythingComesFromAFile
<1> QED
  BY <1>2, <1>3, <1>4 DEF Inv

(* A call that only answers. *)
LEMMA AnswerInv ==
  ASSUME Inv, UNCHANGED <<openers, handles, sources>>,
         Answered'
  PROVE  Inv'
  BY DEF Inv, TypeOK, Answered, HandlesShowListedResources, EverythingComesFromAFile

LEMMA OpenPlaceInv ==
  ASSUME Inv, NEW o \in Openers, NEW place \in Nested, OpenPlace(o, place),
         UNCHANGED <<handles, sources>>
  PROVE  Inv'
<1>1. Answered'
  <2>1. place \in Place /\ {"OK", "OPEN_FAILED", "INTERNAL_ERROR"} \subseteq Statuses
    BY NestedIsClosed DEF Statuses
  <2> QED
    BY <2>1, ReplyOpenAnswered DEF OpenPlace
<1>2. CASE openers' = [openers EXCEPT ![o] = Live(Adopted(place))]
  BY <1>1, <1>2, OpenerStepInv
<1>3. CASE UNCHANGED openers
  BY <1>1, <1>3, AnswerInv
<1> QED
  BY <1>2, <1>3 DEF OpenPlace

(* A resource handle is made from a listed resource or not at all. *)
LEMMA MakeHandleInv ==
  ASSUME Inv, NEW o \in Openers, NEW h \in Handles, NEW call, NEW index,
         MakeHandle(call, o, h, index), UNCHANGED <<openers, sources>>
  PROVE  Inv'
<1> DEFINE session == openers[o].session
<1>1. Answered'
  BY ReplyAnswered, ReplyCaughtAnswered DEF MakeHandle, Statuses
<1>2. CASE UNCHANGED handles
  BY <1>1, <1>2, AnswerInv
<1>3. ASSUME InRange(session, index), NEW lost \in Losses,
             handles' = [handles EXCEPT ![h] =
                Snapshot(session.place, session.resources[index], index, lost)]
      PROVE  Inv'
  <2> DEFINE p == session.place
             item == Snapshot(p, session.resources[index], index, lost)
  <2>1. /\ session.loaded /\ p \in Place /\ index \in 1..Len(Listing[p])
        /\ Listing[p][index] \in Entry /\ session.resources[index] = Probed(Listing[p][index])
    BY <1>3, ResourceInRange DEF Inv
  <2>2. item \in Item
    <3>1. index \in Nat
      BY <2>1, DocumentsAssumption
    <3>2. session.resources[index] \in Entry
      BY <2>1, ProbedType
    <3> QED
      BY <2>1, <3>1, <3>2, SnapshotType
  <2>3. item.origin = p /\ item.index = index /\ item \in SnapshotsOf(p, index)
    <3>1. item.origin = p /\ item.index = index
      BY DEF Snapshot
    <3>2. item = Snapshot(p, Probed(Listing[p][index]), index, lost)
      BY <2>1
    <3> QED
      BY <3>1, <3>2 DEF SnapshotsOf
  <2>4. p \in Nested
    BY <2>1 DEF Inv, EverythingComesFromAFile
  <2> HIDE DEF p, item
  <2>5. handles' = [handles EXCEPT ![h] = item]
    BY <1>3 DEF p, item
  <2>6. handles'[h] = item /\ \A x \in Handles \ {h} : handles'[x] = handles[x]
    BY <2>5 DEF Inv, TypeOK
  <2>7. TypeOK'
    BY <1>1, <2>2, <2>5 DEF Inv, TypeOK, Answered
  <2>8. HandlesShowListedResources'
    BY <2>1, <2>3, <2>6 DEF Inv, HandlesShowListedResources, p
  <2>9. EverythingComesFromAFile'
    BY <2>3, <2>4, <2>6 DEF Inv, EverythingComesFromAFile
  <2> QED
    BY <2>7, <2>8, <2>9 DEF Inv
<1> QED
  BY <1>2, <1>3 DEF MakeHandle

LEMMA DestroyResourceInv ==
  ASSUME Inv, NEW h \in Handles, DestroyResource(h)
  PROVE  Inv'
<1> USE DEF DestroyResource, Inv
<1>1. TypeOK'
  BY ReplyAnswered DEF TypeOK, Answered, Statuses
<1>2. HandlesShowListedResources'
  BY DEF TypeOK, HandlesShowListedResources, NoHandle
<1>3. EverythingComesFromAFile'
  BY DEF TypeOK, EverythingComesFromAFile, NoHandle
<1> QED
  BY <1>1, <1>2, <1>3

LEMMA DestroySourceInv ==
  ASSUME Inv, NEW s \in Sources, DestroySource(s)
  PROVE  Inv'
<1> USE DEF DestroySource, Inv
<1>1. TypeOK'
  BY ReplyAnswered DEF TypeOK, Answered, Statuses
<1>2. HandlesShowListedResources'
  BY DEF HandlesShowListedResources
<1>3. EverythingComesFromAFile'
  BY DEF TypeOK, EverythingComesFromAFile, NoSource
<1> QED
  BY <1>1, <1>2, <1>3

(* A handle's source leads where its resource does, so to a nested place. *)
LEMMA GetSourceInv ==
  ASSUME Inv, NEW h \in Handles, NEW s \in Sources, GetSource(h, s)
  PROVE  Inv'
<1>1. Answered'
  BY ReplyAnswered DEF GetSource, Statuses
<1>2. CASE UNCHANGED sources
  BY <1>1, <1>2, AnswerInv DEF GetSource
<1>3. CASE sources' = [sources EXCEPT ![s] = SourceOf(handles[h])]
  <2> DEFINE item == handles[h]
             source == SourceOf(item)
  <2>1. handles[h].live
    BY DEF GetSource
  <2>2. /\ item.origin \in Nested
        /\ item.index \in 1..Len(Listing[item.origin])
        /\ item \in SnapshotsOf(item.origin, item.index)
    BY <2>1 DEF Inv, HandlesShowListedResources, EverythingComesFromAFile
  <2>3. /\ Opens(source) \in Nested
        /\ source \in [live : {TRUE}, stored : BOOLEAN, place : Place]
    BY <2>2, SourceLeads, NestedIsClosed
  <2> HIDE DEF item, source
  <2>4. sources' = [sources EXCEPT ![s] = source]
    BY <1>3 DEF source, item
  <2>5. UNCHANGED <<openers, handles>>
    BY DEF GetSource
  <2>6. TypeOK'
    BY <1>1, <2>3, <2>4, <2>5 DEF Inv, TypeOK, Answered
  <2>7. HandlesShowListedResources'
    BY <2>5 DEF Inv, HandlesShowListedResources
  <2>8. EverythingComesFromAFile'
    BY <2>3, <2>4, <2>5 DEF Inv, TypeOK, EverythingComesFromAFile
  <2> QED
    BY <2>6, <2>7, <2>8 DEF Inv
<1> QED
  BY <1>2, <1>3 DEF GetSource

LEMMA NextInv == Inv /\ [Next]_vars => Inv'
<1> SUFFICES ASSUME Inv, [Next]_vars PROVE Inv'
  OBVIOUS
<1> USE DocumentsAssumption
<1>1. ASSUME NEW o \in Openers, OpenerStep(o) PROVE Inv'
  <2>1. CASE Create(o) \/ Close(o)
    <3>1. /\ \/ openers' = [openers EXCEPT ![o] = Live(NoSession)]
             \/ UNCHANGED openers
          /\ UNCHANGED <<handles, sources>>
      BY <2>1 DEF Create, Close
    <3>2. Answered'
      BY <2>1, ReplyAnswered, ReplyCaughtAnswered DEF Create, Close, Statuses
    <3>3. Live(NoSession) \in {NoOpener, Live(NoSession)} \cup {Live(Adopted(p)) : p \in Nested}
      OBVIOUS
    <3> QED
      BY <3>1, <3>2, <3>3, OpenerStepInv, AnswerInv
  <2>2. CASE Destroy(o)
    BY <2>2, OpenerStepInv, ReplyAnswered DEF Destroy, Statuses
  <2>3. ASSUME NEW f \in Files, OpenFile(o, f) PROVE Inv'
    <3>1. At(FileContent[f], Root) \in Nested
      BY NestedIsClosed DEF Entrances
    <3>2. CASE UNCHANGED openers /\ ReplyOpen(o, At(FileContent[f], Root), "ALLOCATION_FAILED")
      <4>1. At(FileContent[f], Root) \in Place /\ "ALLOCATION_FAILED" \in Statuses
        BY <3>1, NestedIsClosed DEF Statuses
      <4>2. Answered'
        BY <3>2, <4>1, ReplyOpenAnswered
      <4> QED
        BY <2>3, <3>2, <4>2, AnswerInv DEF OpenFile
    <3> QED
      BY <2>3, <3>1, <3>2, OpenPlaceInv DEF OpenFile
  <2>4. ASSUME NEW s \in Sources, OpenStore(o, s) \/ OpenBuffer(o, s) PROVE Inv'
    <3>1. sources[s].live
      BY <2>4 DEF OpenStore, OpenBuffer
    <3>2. Opens(sources[s]) \in Nested
      BY <3>1 DEF Inv, EverythingComesFromAFile
    <3>3. CASE OpenPlace(o, Opens(sources[s])) /\ UNCHANGED <<handles, sources>>
      BY <3>2, <3>3, OpenPlaceInv
    <3>4. CASE OpenBuffer(o, s) /\ openers' = [openers EXCEPT ![o] = Live(Unspooled)]
                                /\ ReplyOpen(o, Opens(sources[s]), "OPEN_FAILED")
      <4>1. Opens(sources[s]) \in Place /\ "OPEN_FAILED" \in Statuses
        BY <3>2, NestedIsClosed DEF Statuses
      <4>2. Answered'
        BY <3>4, <4>1, ReplyOpenAnswered
      <4> QED
        BY <3>4, <4>2, OpenerStepInv DEF OpenBuffer, Unspooled
    <3> QED
      BY <2>4, <3>3, <3>4 DEF OpenStore, OpenBuffer
  <2> QED
    BY <1>1, <2>1, <2>2, <2>3, <2>4 DEF OpenerStep
<1>2. ASSUME NEW o \in Openers, NEW h \in Handles, TakeStep(o, h) PROVE Inv'
  <2>1. ASSUME NEW folder, NEW position, OpenResourceAt(o, h, folder, position) PROVE Inv'
    <3>1. CASE UNCHANGED handles /\ Reply("resourceAt", o, "OUT_OF_RANGE")
      BY <2>1, <3>1, AnswerInv, ReplyAnswered DEF OpenResourceAt, Statuses
    <3> QED
      BY <2>1, <3>1, MakeHandleInv DEF OpenResourceAt
  <2>2. ASSUME NEW type, NEW name, NEW language,
               FindResourceByName(o, h, type, name, language)
        PROVE  Inv'
    BY <2>2, MakeHandleInv DEF FindResourceByName
  <2> QED
    BY <1>2, <2>1, <2>2 DEF TakeStep
<1>3. ASSUME NEW h \in Handles, HandleStep(h) PROVE Inv'
  <2>1. CASE GetPayload(h)
    <3>1. handles[h] \in Item
      BY <2>1 DEF GetPayload, Inv, TypeOK, NoHandle
    <3>2. CASE Answer("payload", h, At(NoBytes, Root), "OK", Blob(handles[h]))
      <4>1. Blob(handles[h]) \in Contents \cup {Padded}
        BY <3>1, DocumentsAssumption DEF Blob, Item
      <4>2. Answered'
        BY <3>2, <4>1, DocumentsAssumption DEF Answer, Answered, Statuses, At, Place
      <4> QED
        BY <2>1, <4>2, AnswerInv DEF GetPayload
    <3>3. CASE Reply("payload", h, "ALLOCATION_FAILED")
      BY <2>1, <3>3, ReplyAnswered, AnswerInv DEF GetPayload, Statuses
    <3> QED
      BY <2>1, <3>2, <3>3 DEF GetPayload
  <2> QED
    BY <1>3, <2>1, DestroyResourceInv, GetSourceInv DEF HandleStep
<1>4. CASE UNCHANGED vars
  BY <1>4 DEF vars, Inv, TypeOK, HandlesShowListedResources, EverythingComesFromAFile
<1> QED
  BY <1>1, <1>2, <1>3, <1>4, DestroySourceInv DEF Next

(* The invariant holds in every reachable state, for any documents. *)
THEOREM Safety == Spec => []Inv
<1>1. Init => Inv
  BY InitInv
<1>2. Inv /\ [Next]_vars => Inv'
  BY NextInv
<1> QED
  BY <1>1, <1>2, PTL DEF Spec

(* Every session is what one place lists and every handle is well formed. *)
THEOREM TypeCorrect == Spec => []TypeOK
<1>1. Inv => TypeOK
  BY DEF Inv
<1> QED
  BY <1>1, Safety, PTL

(* A resource handle keeps showing the resource it was taken for. *)
THEOREM HandlesAreSnapshots == Spec => []HandlesShowListedResources
<1>1. Inv => HandlesShowListedResources
  BY DEF Inv
<1> QED
  BY <1>1, Safety, PTL

(* No sequence of calls shows or names anything outside the opened files. *)
THEOREM Provenance == Spec => []EverythingComesFromAFile
<1>1. Inv => EverythingComesFromAFile
  BY DEF Inv
<1> QED
  BY <1>1, Safety, PTL

-----------------------------------------------------------------------------
(* The two ways to a resource answer as themselves.                        *)
LEMMA TakeReplies ==
  ASSUME NEW o \in Openers, NEW h \in Handles, TakeStep(o, h)
  PROVE  reply'.call \in {"resourceAt", "find"}
<1>1. ASSUME NEW call, NEW index, MakeHandle(call, o, h, index) PROVE reply'.call = call
  BY <1>1 DEF MakeHandle, ReplyCaught, Reply, Answer
<1>2. ASSUME NEW folder, NEW position, OpenResourceAt(o, h, folder, position)
      PROVE  reply'.call = "resourceAt"
  <2>1. CASE Reply("resourceAt", o, "OUT_OF_RANGE")
    BY <2>1 DEF Reply, Answer
  <2> QED
    BY <1>1, <1>2, <2>1 DEF OpenResourceAt
<1>3. ASSUME NEW type, NEW name, NEW language, FindResourceByName(o, h, type, name, language)
      PROVE  reply'.call = "find"
  BY <1>1, <1>3 DEF FindResourceByName
<1> QED
  BY <1>2, <1>3 DEF TakeStep

(* What the answer of an open means.                                       *)
OpenTells ==
  reply'.call = "open" =>
    LET o == reply'.on
        now == openers'[o].session
        asked == Adopted(reply'.asked)
    IN /\ CASE reply'.status = "OK" -> IsOpen(now) /\ now = asked
            [] reply'.status = "OPEN_FAILED" -> ~IsOpen(now) /\ now \in {asked, Unspooled}
            [] OTHER -> openers' = openers
       /\ \A other \in Openers \ {o} : openers'[other] = openers[other]

(* An open that answers without touching the opener says so.               *)
LEMMA UntouchedTells ==
  ASSUME NEW o \in Openers, NEW place \in Place, UNCHANGED openers,
         NEW status \in {"INTERNAL_ERROR", "ALLOCATION_FAILED"}, ReplyOpen(o, place, status)
  PROVE  OpenTells
<1>1. status \in Statuses
  BY DEF Statuses
<1> QED
  BY <1>1, ReplyOpenAnswered DEF OpenTells

(* An open that replaces the session answers what the new session is.      *)
LEMMA ReplacedTells ==
  ASSUME TypeOK, NEW o \in Openers, NEW place \in Place, NEW session \in {Adopted(place), Unspooled},
         openers' = [openers EXCEPT ![o] = Live(session)],
         session = Unspooled => ~IsOpen(session),
         NEW status, ReplyOpen(o, place, status),
         \/ status = "OK" /\ session = Adopted(place) /\ IsOpen(session)
         \/ status = "OPEN_FAILED" /\ ~IsOpen(session)
  PROVE  OpenTells
<1>1. status \in Statuses
  BY DEF Statuses
<1>2. /\ reply'.on = o /\ reply'.asked = place /\ reply'.status = status
  BY <1>1, ReplyOpenAnswered
<1>3. openers'[o].session = session
  BY DEF TypeOK, Live
<1>4. \A other \in Openers \ {o} : openers'[other] = openers[other]
  BY DEF TypeOK
<1> HIDE DEF Unspooled
<1> QED
  BY <1>2, <1>3, <1>4 DEF OpenTells

LEMMA OpenPlaceTells ==
  ASSUME TypeOK, NEW o \in Openers, NEW place \in Place, OpenPlace(o, place)
  PROVE  OpenTells
<1>1. CASE UNCHANGED openers /\ ReplyOpen(o, place, "INTERNAL_ERROR")
  BY <1>1, UntouchedTells
<1>2. CASE /\ openers' = [openers EXCEPT ![o] = Live(Adopted(place))]
           /\ ReplyOpen(o, place, IF IsOpen(Adopted(place)) THEN "OK" ELSE "OPEN_FAILED")
  <2> DEFINE session == Adopted(place)
             status == IF IsOpen(session) THEN "OK" ELSE "OPEN_FAILED"
  <2>1. session = Unspooled => ~IsOpen(session)
    BY DEF Unspooled, NoSession, IsOpen
  <2>2. \/ status = "OK" /\ IsOpen(session)
        \/ status = "OPEN_FAILED" /\ ~IsOpen(session)
    OBVIOUS
  <2> QED
    BY <1>2, <2>1, <2>2, ReplacedTells
<1> QED
  BY <1>1, <1>2 DEF OpenPlace

LEMMA NextTells ==
  ASSUME Inv, Next
  PROVE  OpenTells
<1>1. ASSUME NEW o \in Openers, OpenerStep(o) PROVE OpenTells
  <2>1. CASE Create(o) \/ Destroy(o) \/ Close(o)
    <3>1. reply'.call # "open"
      BY <2>1 DEF Create, Destroy, Close, ReplyCaught, Reply, Answer
    <3> QED
      BY <3>1 DEF OpenTells
  <2>2. ASSUME NEW f \in Files, OpenFile(o, f) PROVE OpenTells
    <3>1. At(FileContent[f], Root) \in Place
      BY EntrancesArePlaces DEF Entrances
    <3> QED
      BY <2>2, <3>1, OpenPlaceTells, UntouchedTells DEF OpenFile, Inv
  <2>3. ASSUME NEW s \in Sources, OpenStore(o, s) \/ OpenBuffer(o, s) PROVE OpenTells
    <3>1. Opens(sources[s]) \in Place
      BY <2>3, NestedIsClosed DEF OpenStore, OpenBuffer, Inv, EverythingComesFromAFile
    <3>2. CASE OpenPlace(o, Opens(sources[s]))
      BY <3>1, <3>2, OpenPlaceTells DEF Inv
    <3>3. CASE /\ openers' = [openers EXCEPT ![o] = Live(Unspooled)]
               /\ ReplyOpen(o, Opens(sources[s]), "OPEN_FAILED")
      <4>1. ~IsOpen(Unspooled)
        BY DEF IsOpen, NoSession, Unspooled
      <4> QED
        BY <3>1, <3>3, <4>1, ReplacedTells DEF Inv
    <3> QED
      BY <2>3, <3>2, <3>3 DEF OpenStore, OpenBuffer
  <2> QED
    BY <1>1, <2>1, <2>2, <2>3 DEF OpenerStep
<1>2. ASSUME reply'.call # "open" PROVE OpenTells
  BY <1>2 DEF OpenTells
<1>3. ASSUME NEW o \in Openers, NEW h \in Handles, TakeStep(o, h) PROVE reply'.call # "open"
  BY <1>3, TakeReplies
<1>4. ASSUME NEW h \in Handles, HandleStep(h) PROVE reply'.call # "open"
  BY <1>4 DEF HandleStep, DestroyResource, GetPayload, GetSource, Reply, Answer
<1>5. ASSUME NEW s \in Sources, DestroySource(s) PROVE reply'.call # "open"
  BY <1>5 DEF DestroySource, Reply, Answer
<1> QED
  BY <1>1, <1>2, <1>3, <1>4, <1>5 DEF Next

(* The status of an open tells what the opener shows after it, so a caller *)
(* that remembers only the status (app/PeareApi.cpp Session::open_) agrees *)
(* with the session.                                                       *)
THEOREM OpenIsTold == Spec => OpenReplyTellsState
<1>1. ASSUME Inv, [Next]_vars
      PROVE  [OpenTells]_vars
  BY <1>1, NextTells
<1>2. Spec => [][OpenTells]_vars
  BY <1>1, Safety, PTL DEF Spec
<1> QED
  BY <1>2 DEF OpenReplyTellsState, OpenTells

-----------------------------------------------------------------------------
(* The C ABI implements its contract.                                      *)

LEMMA InitContract == Init => Contract!CInit
  BY DEF Init, Contract!CInit, Contract!None, Shown, Held, Named,
         NoOpener, NoSession, NoHandle, NoSource

LEMMA StutterContract ==
  ASSUME UNCHANGED <<openers, handles, sources>>
  PROVE  UNCHANGED Contract!cvars
  BY DEF Contract!cvars, Shown, Held, Named, Opens

(* A call that replaces a session is a Show or a Hide. *)
LEMMA OpenerStepContract ==
  ASSUME Inv, NEW o \in Openers, UNCHANGED <<handles, sources>>,
         NEW session \in Sessions, NEW live,
         openers' = [openers EXCEPT ![o] = [live |-> live, session |-> session]],
         session.loaded => \/ session.place \in Entrances
                           \/ \E s \in Sources : sources[s].live /\ session.place = Opens(sources[s])
  PROVE  Contract!CNext
<1>1. UNCHANGED <<Held, Named>>
  BY DEF Held, Named, Opens
<1>2. Shown' = [Shown EXCEPT ![o] = IF session.loaded THEN {session.place} ELSE {}]
  BY DEF Inv, TypeOK, Shown
<1>3. CASE ~session.loaded
  BY <1>1, <1>2, <1>3 DEF Contract!CNext, Contract!Hide, Contract!None
<1>4. CASE session.loaded
  <2>1. session.place \in Place
    BY <1>4, AdoptedListing DEF Sessions, NoSession
  <2>2. \/ session.place \in Entrances
        \/ \E s \in Sources : session.place \in Named[s]
    BY <1>4 DEF Named
  <2>3. session.place \in Contract!Showable
    BY <2>2 DEF Contract!Showable
  <2>4. Shown' = [Shown EXCEPT ![o] = Contract!Some(session.place)]
    BY <1>2, <1>4 DEF Contract!Some
  <2>5. Contract!Show(o)
    BY <1>1, <2>3, <2>4 DEF Contract!Show
  <2> QED
    BY <2>5 DEF Contract!CNext
<1> QED
  BY <1>3, <1>4

LEMMA OpenPlaceContract ==
  ASSUME Inv, NEW o \in Openers, NEW place \in Place, OpenPlace(o, place),
         UNCHANGED <<handles, sources>>,
         \/ place \in Entrances
         \/ \E s \in Sources : sources[s].live /\ place = Opens(sources[s])
  PROVE  [Contract!CNext]_(Contract!cvars)
<1>1. CASE UNCHANGED openers
  BY <1>1, StutterContract
<1>2. CASE openers' = [openers EXCEPT ![o] = Live(Adopted(place))]
  <2>1. Adopted(place) \in Sessions /\ Adopted(place).place = place
    BY AdoptedListing DEF Sessions
  <2> QED
    BY <1>2, <2>1, OpenerStepContract DEF Live
<1> QED
  BY <1>1, <1>2 DEF OpenPlace

(* Taking a resource handle is a Hold. *)
LEMMA MakeHandleContract ==
  ASSUME Inv, NEW o \in Openers, NEW h \in Handles, NEW call, NEW index, ~handles[h].live,
         MakeHandle(call, o, h, index), UNCHANGED <<openers, sources>>
  PROVE  [Contract!CNext]_(Contract!cvars)
<1> DEFINE session == openers[o].session
<1>1. CASE UNCHANGED handles
  BY <1>1, StutterContract
<1>2. ASSUME InRange(session, index), NEW lost \in Losses,
             handles' = [handles EXCEPT ![h] =
                Snapshot(session.place, session.resources[index], index, lost)]
      PROVE  Contract!CNext
  <2> DEFINE p == session.place
             item == Snapshot(p, session.resources[index], index, lost)
  <2>1. session.loaded /\ p \in Place /\ index \in 1..Len(Listing[p])
    BY <1>2, ResourceInRange DEF Inv
  <2>2. item.live /\ item.origin = p /\ item.index = index
    BY DEF Snapshot
  <2> HIDE DEF item
  <2>3. handles' = [handles EXCEPT ![h] = item]
    BY <1>2 DEF item
  <2>4. UNCHANGED <<Shown, Named>>
    BY DEF Shown, Named, Opens
  <2>5. Held' = [Held EXCEPT ![h] = {<<p, index>>}]
    BY <2>2, <2>3 DEF Inv, TypeOK, Held
  <2>6. Held[h] = {} /\ p \in Shown[o] /\ index \in 1..Count[p]
    BY <2>1 DEF Held, Shown, Count
  <2>7. Contract!Hold(h, o)
    BY <2>4, <2>5, <2>6 DEF Contract!Hold, Contract!Some, Contract!None
  <2> QED
    BY <2>7 DEF Contract!CNext
<1> QED
  BY <1>1, <1>2 DEF MakeHandle

LEMMA DestroyResourceContract ==
  ASSUME Inv, NEW h \in Handles, DestroyResource(h)
  PROVE  Contract!CNext
<1>1. UNCHANGED <<Shown, Named>>
  BY DEF DestroyResource, Shown, Named, Opens
<1>2. Held' = [Held EXCEPT ![h] = {}]
  BY DEF DestroyResource, Inv, TypeOK, Held, NoHandle
<1>3. Contract!Drop(h)
  BY <1>1, <1>2 DEF Contract!Drop, Contract!None
<1> QED
  BY <1>3 DEF Contract!CNext

LEMMA DestroySourceContract ==
  ASSUME Inv, NEW s \in Sources, DestroySource(s)
  PROVE  Contract!CNext
<1>1. UNCHANGED <<Shown, Held>>
  BY DEF DestroySource, Shown, Held
<1>2. Named' = [Named EXCEPT ![s] = {}]
  BY DEF DestroySource, Inv, TypeOK, Named, NoSource
<1>3. Contract!Forget(s)
  BY <1>1, <1>2 DEF Contract!Forget, Contract!None
<1> QED
  BY <1>3 DEF Contract!CNext

LEMMA GetSourceContract ==
  ASSUME Inv, NEW h \in Handles, NEW s \in Sources, GetSource(h, s)
  PROVE  [Contract!CNext]_(Contract!cvars)
<1>1. CASE UNCHANGED sources
  BY <1>1, StutterContract DEF GetSource
<1>2. CASE sources' = [sources EXCEPT ![s] = SourceOf(handles[h])]
  <2> DEFINE p == handles[h].origin
             i == handles[h].index
             source == SourceOf(handles[h])
  <2>1. handles[h].live /\ ~sources[s].live /\ UNCHANGED <<openers, handles>>
    BY DEF GetSource
  <2>2. p \in Place /\ i \in 1..Len(Listing[p]) /\ handles[h] \in SnapshotsOf(p, i)
    BY <2>1, NestedIsClosed DEF Inv, HandlesShowListedResources, EverythingComesFromAFile
  <2>3. Opens(source) \in Leads[p][i] /\ source.live
    BY <2>2, SourceLeads DEF SourceOf
  <2> HIDE DEF source
  <2>4. UNCHANGED <<Shown, Held>>
    BY <2>1 DEF Shown, Held
  <2>5. Named' = [Named EXCEPT ![s] = {Opens(source)}]
    BY <1>2, <2>3 DEF Inv, TypeOK, Named, source
  <2>6. Named[s] = {} /\ <<p, i>> \in Held[h]
    BY <2>1 DEF Named, Held
  <2>7. Contract!Name(s, h)
    BY <2>3, <2>4, <2>5, <2>6 DEF Contract!Name, Contract!Some, Contract!None
  <2> QED
    BY <2>7 DEF Contract!CNext
<1> QED
  BY <1>1, <1>2 DEF GetSource

LEMMA NextContract ==
  ASSUME Inv, [Next]_vars
  PROVE  [Contract!CNext]_(Contract!cvars)
<1>1. ASSUME NEW o \in Openers, OpenerStep(o) PROVE [Contract!CNext]_(Contract!cvars)
  <2>1. CASE Create(o) \/ Destroy(o) \/ Close(o)
    <3>1. /\ UNCHANGED <<handles, sources>>
          /\ \/ openers' = [openers EXCEPT ![o] = [live |-> TRUE, session |-> NoSession]]
             \/ openers' = [openers EXCEPT ![o] = [live |-> FALSE, session |-> NoSession]]
             \/ UNCHANGED openers
      BY <2>1 DEF Create, Destroy, Close, Live, NoOpener
    <3>2. NoSession \in Sessions /\ ~NoSession.loaded
      BY DEF Sessions, NoSession
    <3> QED
      BY <3>1, <3>2, OpenerStepContract, StutterContract
  <2>2. ASSUME NEW f \in Files, OpenFile(o, f) PROVE [Contract!CNext]_(Contract!cvars)
    <3>1. At(FileContent[f], Root) \in Entrances
      BY DEF Entrances
    <3> QED
      BY <2>2, <3>1, EntrancesArePlaces, OpenPlaceContract, StutterContract DEF OpenFile
  <2>3. ASSUME NEW s \in Sources, OpenStore(o, s) \/ OpenBuffer(o, s)
        PROVE  [Contract!CNext]_(Contract!cvars)
    <3>1. sources[s].live /\ Opens(sources[s]) \in Place /\ UNCHANGED <<handles, sources>>
      BY <2>3, NestedIsClosed DEF OpenStore, OpenBuffer, Inv, EverythingComesFromAFile
    <3>2. CASE OpenPlace(o, Opens(sources[s]))
      BY <3>1, <3>2, OpenPlaceContract
    <3>3. CASE openers' = [openers EXCEPT ![o] = Live(Unspooled)]
      <4>1. NoSession \in Sessions /\ ~NoSession.loaded
        BY DEF Sessions, NoSession
      <4> QED
        BY <3>1, <3>3, <4>1, OpenerStepContract DEF Live, Unspooled
    <3> QED
      BY <2>3, <3>2, <3>3 DEF OpenStore, OpenBuffer
  <2> QED
    BY <1>1, <2>1, <2>2, <2>3 DEF OpenerStep
<1>2. ASSUME NEW o \in Openers, NEW h \in Handles, TakeStep(o, h)
      PROVE  [Contract!CNext]_(Contract!cvars)
  <2>1. ASSUME NEW folder, NEW position, OpenResourceAt(o, h, folder, position)
        PROVE  [Contract!CNext]_(Contract!cvars)
    <3>1. CASE UNCHANGED handles
      BY <2>1, <3>1, StutterContract DEF OpenResourceAt
    <3> QED
      BY <2>1, <3>1, MakeHandleContract DEF OpenResourceAt
  <2>2. ASSUME NEW type, NEW name, NEW language,
               FindResourceByName(o, h, type, name, language)
        PROVE  [Contract!CNext]_(Contract!cvars)
    BY <2>2, MakeHandleContract DEF FindResourceByName
  <2> QED
    BY <1>2, <2>1, <2>2 DEF TakeStep
<1>3. ASSUME NEW h \in Handles, HandleStep(h) PROVE [Contract!CNext]_(Contract!cvars)
  <2>1. CASE GetPayload(h)
    BY <2>1, StutterContract DEF GetPayload
  <2> QED
    BY <1>3, <2>1, DestroyResourceContract, GetSourceContract DEF HandleStep
<1>4. CASE UNCHANGED vars
  BY <1>4, StutterContract DEF vars
<1> QED
  BY <1>1, <1>2, <1>3, <1>4, DestroySourceContract DEF Next

(* Every call is a step of the contract or changes nothing it speaks of. *)
THEOREM Refinement == Spec => KeepsContract
<1>1. Init => Contract!CInit
  BY InitContract
<1>2. Inv /\ [Next]_vars => [Contract!CNext]_(Contract!cvars)
  BY NextContract
<1> QED
  BY <1>1, <1>2, Safety, PTL DEF Spec, KeepsContract, Contract!CSpec
-----------------------------------------------------------------------------
(* A snapshot of a listed resource reads as the listing says.              *)
LEMMA SnapshotBlob ==
  ASSUME NEW p \in Place, NEW i \in 1..Len(Listing[p]), NEW item \in SnapshotsOf(p, i)
  PROVE  LET listed == Listing[p][i]
             lost == listed.lazy /\ ~item.lazy
         IN /\ listed.directory \/ lost => Blob(item) = NoBytes
            /\ /\ ~listed.directory /\ ~lost
               /\ ~(listed.lazy /\ listed.content \in Undecodable)
               => Blob(item) = listed.content
<1>1. Listing[p][i] \in Entry
  BY AdoptedListing
<1>2. PICK lost \in Losses : item = Snapshot(p, Probed(Listing[p][i]), i, lost)
  BY DEF SnapshotsOf
<1>3. /\ Probed(Listing[p][i]).content = Listing[p][i].content
      /\ Probed(Listing[p][i]).lazy = Listing[p][i].lazy
      /\ Probed(Listing[p][i]).directory = Listing[p][i].directory
  BY <1>1, ProbedType
<1>4. /\ item.directory = Listing[p][i].directory
      /\ item.lazy = (Listing[p][i].lazy /\ "store" \notin lost)
      /\ item.content = IF (Listing[p][i].lazy /\ "store" \notin lost) \/ ~Listing[p][i].lazy
                        THEN Listing[p][i].content ELSE NoBytes
  BY <1>2, <1>3 DEF Snapshot
<1>5. Listing[p][i].lazy \in BOOLEAN /\ Listing[p][i].directory \in BOOLEAN
  BY <1>1 DEF Entry
<1> QED
  BY <1>4, <1>5 DEF Blob

LEMMA PayloadStep ==
  ASSUME Inv, PayloadIsListedContent, [Next]_vars
  PROVE  PayloadIsListedContent'
<1>1. ASSUME NEW h \in Handles, GetPayload(h) PROVE PayloadIsListedContent'
  <2> DEFINE item == handles[h]
  <2>1. item.live /\ handles' = handles
    BY <1>1 DEF GetPayload
  <2>2. /\ item.origin \in Place /\ item.index \in 1..Len(Listing[item.origin])
        /\ item \in SnapshotsOf(item.origin, item.index)
    BY <2>1, NestedIsClosed DEF Inv, HandlesShowListedResources, EverythingComesFromAFile
  <2>3. /\ reply'.on = h
        /\ \/ reply'.status = "OK" /\ reply'.bytes = Blob(item)
           \/ reply'.status # "OK" /\ reply'.bytes = NoBytes
    BY <1>1 DEF GetPayload, Reply, Answer
  <2> HIDE DEF item
  <2>4. handles'[h] = item
    BY <2>1 DEF item
  <2> QED
    BY <2>2, <2>3, <2>4, SnapshotBlob DEF PayloadIsListedContent
<1>2. ASSUME reply'.call # "payload" PROVE PayloadIsListedContent'
  BY <1>2 DEF PayloadIsListedContent
<1>3. ASSUME NEW o \in Openers, OpenerStep(o) PROVE reply'.call # "payload"
  BY <1>3 DEF OpenerStep, Create, Destroy, Close, OpenFile, OpenStore, OpenBuffer, OpenPlace,
              ReplyOpen, ReplyCaught, Reply, Answer
<1>4. ASSUME NEW o \in Openers, NEW h \in Handles, TakeStep(o, h) PROVE reply'.call # "payload"
  BY <1>4, TakeReplies
<1>5. ASSUME NEW h \in Handles, DestroyResource(h) \/ \E s \in Sources : GetSource(h, s)
      PROVE  reply'.call # "payload"
  BY <1>5 DEF DestroyResource, GetSource, Reply, Answer
<1>6. ASSUME NEW s \in Sources, DestroySource(s) PROVE reply'.call # "payload"
  BY <1>6 DEF DestroySource, Reply, Answer
<1>7. CASE UNCHANGED vars
  BY <1>7 DEF vars, PayloadIsListedContent
<1> QED
  BY <1>1, <1>2, <1>3, <1>4, <1>5, <1>6, <1>7 DEF Next, HandleStep

(* A payload with status OK of a resource whose store can be decoded is    *)
(* the content that was listed for it, or nothing when it is a directory   *)
(* or its store was lost, whatever its opener became since; with any other *)
(* status, nothing.                                                        *)
THEOREM PayloadIsTrue == Spec => []PayloadIsListedContent
<1>1. Init => PayloadIsListedContent
  BY DEF Init, PayloadIsListedContent
<1>2. Inv /\ PayloadIsListedContent /\ [Next]_vars => PayloadIsListedContent'
  BY PayloadStep
<1> QED
  BY <1>1, <1>2, Safety, PTL DEF Spec
-----------------------------------------------------------------------------
(* A set of positions has a least one, and Min is it.                      *)
LEMMA MinOfPositions ==
  ASSUME NEW S, S \subseteq Nat, S # {}
  PROVE  Min(S) \in S /\ \A x \in S : Min(S) =< x
<1> DEFINE Least(m) == m \in S /\ \A x \in S : m =< x
<1>1. \E m \in S : \A x \in S : m =< x
  BY LeastElement
<1>2. PICK m : Least(m)
  BY <1>1
<1>3. Least(CHOOSE k : Least(k))
  <2> HIDE DEF Least
  <2> QED
    BY <1>2
<1>4. (CHOOSE k : Least(k)) = Min(S)
  BY DEF Min
<1> QED
  BY <1>3, <1>4

LEMMA ResourceCount ==
  ASSUME TypeOK, NEW o \in Openers
  PROVE  Len(openers[o].session.resources) \in Nat
<1>1. openers[o].session \in Sessions
  BY LiveSession
<1>2. CASE openers[o].session = NoSession
  BY <1>2 DEF NoSession
<1>3. ASSUME NEW p \in Place, openers[o].session = Adopted(p)
      PROVE  Len(openers[o].session.resources) \in Nat
  <2>1. Listing[p] \in Seq(Entry)
    BY DocumentsAssumption
  <2> QED
    BY <1>3, <2>1, AdoptedListing
<1> QED
  BY <1>1, <1>2, <1>3 DEF Sessions

(* What findResource picks: a match, in the language when there is one,    *)
(* and the first of those.                                                 *)
LEMMA FoundIsPreferred ==
  ASSUME TypeOK, NEW o \in Openers, NEW type, NEW name, NEW language, language # AnyLanguage,
         FindResource(openers[o].session, type, name, language) \in 1..Len(openers[o].session.resources)
  PROVE  LET session == openers[o].session
             index == FindResource(session, type, name, language)
             rank(i) == IF session.resources[i].language = language THEN i
                        ELSE Len(session.resources) + i
         IN /\ index \in Matches(session, type, name)
            /\ \A i \in Matches(session, type, name) : rank(index) =< rank(i)
<1> DEFINE session == openers[o].session
           n == Len(session.resources)
           found == Matches(session, type, name)
           spoken == {i \in found : session.resources[i].language = language}
           index == FindResource(session, type, name, language)
           rank(i) == IF session.resources[i].language = language THEN i ELSE n + i
<1>1. n \in Nat
  BY ResourceCount
<1>2. found \subseteq 1..n /\ spoken \subseteq found
  BY DEF Matches
<1>3. \A i \in found : i \in 1..n /\ i \in Nat
  BY <1>1, <1>2
<1>4. CASE spoken # {}
  <2>1. index = Min(spoken)
    BY <1>4 DEF FindResource
  <2>2. spoken \subseteq Nat
    BY <1>3
  <2>3. index \in spoken /\ \A i \in spoken : index =< i
    <3> HIDE DEF spoken, index
    <3> QED
      BY <1>4, <2>1, <2>2, MinOfPositions
  <2>4. index \in found /\ index \in 1..n
    BY <1>3, <2>3
  <2>5. rank(index) = index
    BY <2>3
  <2>6. ASSUME NEW i \in found PROVE index =< rank(i)
    <3>1. i \in 1..n
      BY <1>3
    <3>2. CASE session.resources[i].language = language
      BY <2>3, <3>2
    <3>3. CASE session.resources[i].language # language
      <4>1. rank(i) = n + i
        BY <3>3
      <4> HIDE DEF n, index, rank
      <4> QED
        BY <1>1, <2>4, <3>1, <4>1
    <3> QED
      BY <3>2, <3>3
  <2> QED
    BY <2>4, <2>5, <2>6
<1>5. CASE spoken = {}
  <2>1. found # {}
    BY <1>1, <1>5 DEF FindResource
  <2>2. index = Min(found)
    BY <1>5, <2>1 DEF FindResource
  <2>3. found \subseteq Nat
    BY <1>3
  <2>4. index \in found /\ \A i \in found : index =< i
    <3> HIDE DEF found, index
    <3> QED
      BY <2>1, <2>2, <2>3, MinOfPositions
  <2>5. \A i \in found : rank(i) = n + i
    BY <1>5
  <2>6. \A i \in found : n + index =< n + i
    <3>1. \A i \in found : index =< i /\ index \in Nat /\ i \in Nat
      BY <1>3, <2>4
    <3> HIDE DEF n, index, found
    <3> QED
      BY <1>1, <3>1
  <2> QED
    BY <2>4, <2>5, <2>6
<1> QED
  BY <1>4, <1>5

(* A find that makes a handle takes the resource findResource picks.       *)
FindPrefers ==
  reply'.call = "find" /\ reply'.status = "OK" => \A o \in Openers, h \in Handles, type \in Types, name \in Names,
        language \in Languages \ {AnyLanguage} :
       FindResourceByName(o, h, type, name, language) /\ handles'[h].live =>
         LET resources == openers[o].session.resources
             fits(i) == resources[i].type = type /\ resources[i].name = name
             taken == handles'[h]
             rank(i) == IF resources[i].language = language THEN i
                        ELSE Len(resources) + i
         IN /\ fits(taken.index)
            /\ \A i \in 1..Len(resources) :
                 fits(i) => rank(taken.index) <= rank(i)

LEMMA FindStep ==
  ASSUME Inv
  PROVE  FindPrefers
<1> SUFFICES ASSUME NEW o \in Openers, NEW h \in Handles, NEW type \in Types, NEW name \in Names,
                    NEW language \in Languages \ {AnyLanguage},
                    FindResourceByName(o, h, type, name, language), handles'[h].live
             PROVE  LET resources == openers[o].session.resources
                        fits(i) == resources[i].type = type /\ resources[i].name = name
                        taken == handles'[h]
                        rank(i) == IF resources[i].language = language THEN i
                                   ELSE Len(resources) + i
                    IN /\ fits(taken.index)
                       /\ \A i \in 1..Len(resources) :
                            fits(i) => rank(taken.index) <= rank(i)
  BY DEF FindPrefers
<1> DEFINE session == openers[o].session
           index == FindResource(session, type, name, language)
<1>1. MakeHandle("find", o, h, index) /\ ~handles[h].live
  BY DEF FindResourceByName
<1>2. PICK lost \in Losses :
        InRange(session, index)
        /\ handles' = [handles EXCEPT ![h] = Snapshot(session.place, session.resources[index], index, lost)]
  <2> HIDE DEF index
  <2> QED
    BY <1>1 DEF MakeHandle
<1>3. handles'[h].index = index
  BY <1>2 DEF Inv, TypeOK, Snapshot
<1>4. index \in 1..Len(session.resources)
  BY <1>2 DEF InRange
<1>5. /\ index \in Matches(session, type, name)
      /\ \A i \in Matches(session, type, name) :
           (IF session.resources[index].language = language THEN index ELSE Len(session.resources) + index)
             =< (IF session.resources[i].language = language THEN i ELSE Len(session.resources) + i)
  BY <1>4, FoundIsPreferred DEF Inv
<1> HIDE DEF index
<1> QED
  BY <1>3, <1>5 DEF Matches

(* A resource found by name is in the preferred language whenever there is *)
(* one, and the first of its name otherwise.                               *)
THEOREM PreferredLanguageIsFound == Spec => PreferredLanguageWins
<1>1. Inv => [FindPrefers]_vars
  BY FindStep
<1>2. Spec => [][FindPrefers]_vars
  BY <1>1, Safety, PTL DEF Spec
<1> QED
  BY <1>2 DEF PreferredLanguageWins, FindPrefers

-----------------------------------------------------------------------------
(* A list of the members of S up to k, each of them once.                  *)
ListsOnce(f, S, k) ==
  /\ f \in Seq(S) /\ Len(f) =< k
  /\ \A i \in 1..Len(f) : f[i] =< k
  /\ \A x \in S : x =< k => \E j \in 1..Len(f) : f[j] = x
  /\ \A i, j \in 1..Len(f) : f[i] = f[j] => i = j

(* The next member is put behind those before it.                          *)
LEMMA ListedNext ==
  ASSUME NEW S, S \subseteq Nat, NEW k \in Nat \ {0}, NEW f, ListsOnce(f, S, k - 1)
  PROVE  ListsOnce(IF k \in S THEN Append(f, k) ELSE f, S, k)
<1>1. f \in Seq(S) /\ Len(f) \in Nat /\ Len(f) =< k - 1
  BY DEF ListsOnce
<1>2. \A i \in 1..Len(f) : f[i] \in S /\ f[i] \in Nat /\ f[i] =< k - 1
  <2>1. \A i \in 1..Len(f) : f[i] \in S
    BY <1>1
  <2> QED
    BY <2>1 DEF ListsOnce
<1>3. /\ \A x \in S : x =< k - 1 => \E j \in 1..Len(f) : f[j] = x
      /\ \A i, j \in 1..Len(f) : f[i] = f[j] => i = j
  BY DEF ListsOnce
<1>4. CASE k \in S
  <2> DEFINE g == Append(f, k)
  <2>1. /\ g \in Seq(S) /\ Len(g) = Len(f) + 1 /\ g[Len(f) + 1] = k
        /\ \A i \in 1..Len(f) : g[i] = f[i]
    BY <1>1, <1>2, <1>3, <1>4
  <2> HIDE DEF g
  <2>2. \A i \in 1..Len(g) : i = Len(f) + 1 \/ i \in 1..Len(f)
    BY <1>1, <1>2, <1>3, <2>1
  <2>3. \A i \in 1..Len(g) : g[i] =< k
    BY <1>1, <1>2, <1>3, <2>1, <2>2
  <2>4. ASSUME NEW x \in S, x =< k PROVE \E j \in 1..Len(g) : g[j] = x
    <3>1. CASE x = k
      BY <1>1, <1>2, <1>3, <2>1, <3>1
    <3>2. CASE x # k
      <4>1. PICK j \in 1..Len(f) : f[j] = x
        BY <1>1, <1>2, <1>3, <2>4, <3>2
      <4> QED
        BY <1>1, <1>2, <1>3, <2>1, <4>1
    <3> QED
      BY <3>1, <3>2
  <2>5. ASSUME NEW i \in 1..Len(g), NEW j \in 1..Len(g), g[i] = g[j] PROVE i = j
    BY <1>1, <1>2, <1>3, <2>1, <2>2, <2>5
  <2> QED
    BY <1>1, <1>2, <1>3, <1>4, <2>1, <2>3, <2>4, <2>5 DEF ListsOnce, g
<1>5. CASE k \notin S
  <2>1. \A x \in S : x =< k => x =< k - 1
    BY <1>5
  <2> QED
    BY <1>1, <1>2, <1>3, <1>5, <2>1 DEF ListsOnce
<1> QED
  BY <1>4, <1>5

(* So the loop over the resources lists every position of a set once.      *)
LEMMA AscendingLists ==
  ASSUME NEW n \in Nat, NEW S, S \subseteq 1..n
  PROVE  ListsOnce(Ascending(S, n), S, n)
<1> DEFINE A == Seq(S)
           Step(s, k) == IF k \in S THEN Append(s, k) ELSE s
           Is(g) == g = [k \in 0..n |-> IF k = 0 THEN << >> ELSE Step(g[k - 1], k)]
           step == [k \in 1..n |-> [s \in A |-> Step(s, k)]]
<1>1. \A s \in A, k \in 1..n : Step(s, k) \in A
  OBVIOUS
<1>2. step \in [1..n -> [A -> A]]
  <2> HIDE DEF A, Step
  <2> QED
    BY <1>1
<1>3. PICK f \in [0..n -> A] : Recurses(f, n, << >>, step)
  <2>1. << >> \in A
    OBVIOUS
  <2> HIDE DEF A, step
  <2> QED
    BY <1>2, <2>1, RecursionDefines
<1>4. Is(f)
  <2>1. ASSUME NEW k \in 1..n PROVE f[k] = Step(f[k - 1], k)
    <3>1. f[k - 1] \in A
      OBVIOUS
    <3> HIDE DEF A, Step
    <3> QED
      BY <1>3, <3>1 DEF Recurses
  <2> HIDE DEF Step, step, A
  <2> QED
    BY <1>3, <2>1 DEF Recurses
<1> DEFINE order == CHOOSE g : Is(g)
<1>5. Is(order)
  <2> HIDE DEF Is
  <2> QED
    BY <1>4
<1>6. Ascending(S, n) = order[n]
  BY DEF Ascending
<1> HIDE DEF order, Step
<1>7. order[0] = << >> /\ \A k \in 1..n : order[k] = Step(order[k - 1], k)
  BY <1>5
<1> DEFINE Good == {k \in 0..n : ListsOnce(order[k], S, k)}
<1>8. 0 \in Good
  <2>1. ListsOnce(<< >>, S, 0)
    BY DEF ListsOnce
  <2> QED
    BY <1>7, <2>1
<1>9. ASSUME NEW k \in 1..n, k - 1 \in Good PROVE k \in Good
  <2>1. ListsOnce(order[k - 1], S, k - 1) /\ k \in Nat \ {0} /\ S \subseteq Nat
    BY <1>9
  <2>2. ListsOnce(Step(order[k - 1], k), S, k)
    BY <2>1, ListedNext DEF Step
  <2> QED
    BY <1>7, <2>2
<1>10. 0..n \subseteq Good
  <2> HIDE DEF Good
  <2> QED
    BY <1>8, <1>9, SetInduction
<1> QED
  BY <1>6, <1>10


(* What rebuildFolders makes of a listing: each resource lies in a folder, *)
(* at one place of it, and what lies in a folder has its path.             *)
Filed(resources, folders) ==
  /\ \A i \in 1..Len(resources) : \E k \in DOMAIN folders :
       \E n \in DOMAIN folders[k].indices : folders[k].indices[n] = i
  /\ \A k, l \in DOMAIN folders :
       \A n \in DOMAIN folders[k].indices, m \in DOMAIN folders[l].indices :
         folders[k].indices[n] = folders[l].indices[m] => k = l /\ n = m
  /\ \A k \in DOMAIN folders :
       /\ folders[k].indices # << >> /\ DOMAIN folders[k].indices \subseteq 1..Len(resources)
       /\ \A n \in DOMAIN folders[k].indices :
            /\ folders[k].indices[n] \in 1..Len(resources)
            /\ FolderType(resources[folders[k].indices[n]]) = folders[k].type

(* A folder stands where its path appears first, and no path has two.      *)
LEMMA FirstsOfFolders ==
  ASSUME NEW resources, Len(resources) \in Nat
  PROVE  LET first == FirstOfFolder(resources)
             type(i) == FolderType(resources[i])
         IN  /\ Len(first) \in Nat
             /\ \A k \in 1..Len(first) : first[k] \in 1..Len(resources)
             /\ \A i \in 1..Len(resources) : \E k \in 1..Len(first) : type(first[k]) = type(i)
             /\ \A k, l \in 1..Len(first) : type(first[k]) = type(first[l]) => k = l
<1> DEFINE N == Len(resources)
           first == FirstOfFolder(resources)
           type(i) == FolderType(resources[i])
           S == {i \in 1..N : \A j \in 1..(i - 1) : type(j) # type(i)}
<1> HIDE DEF type
<1>1. ListsOnce(first, S, N)
  <2>1. first = Ascending(S, N)
    BY DEF FirstOfFolder, type
  <2>2. S \subseteq 1..N
    OBVIOUS
  <2> HIDE DEF S, first
  <2> QED
    BY <2>1, <2>2, AscendingLists
<1> HIDE DEF first
<1>2. /\ Len(first) \in Nat
      /\ \A k \in 1..Len(first) : first[k] \in S
      /\ \A i \in S : \E k \in 1..Len(first) : first[k] = i
      /\ \A k, l \in 1..Len(first) : first[k] = first[l] => k = l
  <2> HIDE DEF S
  <2>1. first \in Seq(S) /\ Len(first) \in Nat
    BY <1>1 DEF ListsOnce
  <2>2. \A k \in 1..Len(first) : first[k] \in S
    BY <2>1
  <2>3. \A i \in S : i =< N
    BY DEF S
  <2> QED
    BY <1>1, <2>1, <2>2, <2>3 DEF ListsOnce
<1>3. ASSUME NEW i \in 1..N
      PROVE  \E k \in 1..Len(first) : type(first[k]) = type(i)
  <2> DEFINE T == {j \in 1..N : type(j) = type(i)}
  <2>1. PICK m \in T : \A x \in T : m =< x
    <3>1. T \subseteq Nat /\ T # {}
      OBVIOUS
    <3> HIDE DEF T
    <3> QED
      BY <3>1, LeastElement
  <2>2. m \in S
    <3>1. ASSUME NEW j \in 1..(m - 1) PROVE type(j) # type(m)
      BY <2>1
    <3> QED
      BY <3>1
  <2> QED
    BY <1>2, <2>2
<1>4. ASSUME NEW i \in S, NEW j \in S, type(i) = type(j)
      PROVE  i = j
  <2>1. ~ (i < j) /\ ~ (j < i)
    BY <1>4
  <2> QED
    BY <2>1
<1> QED
  BY <1>2, <1>3, <1>4 DEF first, type

(* Every resource is filed in the folder of its path, and nowhere else.    *)
LEMMA FoldersFile ==
  ASSUME NEW resources, Len(resources) \in Nat
  PROVE  Filed(resources, FoldersOf(resources))
<1> DEFINE N == Len(resources)
           first == FirstOfFolder(resources)
           type(i) == FolderType(resources[i])
           folders == FoldersOf(resources)
           S(k) == {i \in 1..N : type(i) = type(first[k])}
<1> HIDE DEF type
<1>1. /\ Len(first) \in Nat
      /\ \A k \in 1..Len(first) : first[k] \in 1..N
      /\ \A i \in 1..N : \E k \in 1..Len(first) : type(first[k]) = type(i)
      /\ \A k, l \in 1..Len(first) : type(first[k]) = type(first[l]) => k = l
  BY FirstsOfFolders DEF type
<1>2. /\ DOMAIN folders = 1..Len(first)
      /\ \A k \in 1..Len(first) : /\ folders[k].type = type(first[k])
                                 /\ folders[k].indices = Ascending(S(k), N)
  BY DEF FoldersOf, type
<1> HIDE DEF folders, first
<1>3. ASSUME NEW k \in 1..Len(first)
      PROVE  LET f == folders[k].indices
             IN  /\ f \in Seq(1..N) /\ Len(f) \in Nat /\ Len(f) =< N /\ DOMAIN f = 1..Len(f)
                 /\ \A n \in 1..Len(f) : f[n] \in S(k)
                 /\ \A i \in S(k) : \E n \in 1..Len(f) : f[n] = i
                 /\ \A n, m \in 1..Len(f) : f[n] = f[m] => n = m
  <2> DEFINE f == folders[k].indices
             Sk == S(k)
  <2>1. ListsOnce(f, Sk, N)
    <3>1. f = Ascending(Sk, N) /\ Sk \subseteq 1..N
      BY <1>2
    <3> HIDE DEF f, Sk
    <3> QED
      BY <3>1, AscendingLists
  <2>2. \A i \in Sk : i =< N /\ i \in 1..N
    OBVIOUS
  <2> HIDE DEF f, Sk
  <2>3. f \in Seq(Sk) /\ Len(f) \in Nat /\ DOMAIN f = 1..Len(f) /\ Len(f) =< N
    BY <2>1 DEF ListsOnce
  <2>4. \A n \in 1..Len(f) : f[n] \in Sk
    BY <2>3
  <2>5. f \in Seq(1..N)
    BY <2>2, <2>3, <2>4
  <2>6. /\ \A i \in Sk : \E n \in 1..Len(f) : f[n] = i
        /\ \A n, m \in 1..Len(f) : f[n] = f[m] => n = m
    BY <2>1, <2>2 DEF ListsOnce
  <2> QED
    BY <2>3, <2>4, <2>5, <2>6 DEF f, Sk
<1> DEFINE list(k) == folders[k].indices
<1>4. ASSUME NEW k \in DOMAIN folders
      PROVE  /\ list(k) # << >> /\ DOMAIN list(k) \subseteq 1..N
             /\ \A n \in DOMAIN list(k) :
                  list(k)[n] \in 1..N /\ type(list(k)[n]) = type(first[k])
             /\ \A i \in 1..N : type(i) = type(first[k]) => \E n \in DOMAIN list(k) : list(k)[n] = i
             /\ \A n, m \in DOMAIN list(k) : list(k)[n] = list(k)[m] => n = m
  <2> DEFINE f == list(k)
  <2>1. /\ f \in Seq(1..N) /\ Len(f) \in Nat /\ Len(f) =< N /\ DOMAIN f = 1..Len(f)
        /\ \A n \in 1..Len(f) : f[n] \in S(k)
        /\ \A i \in S(k) : \E n \in 1..Len(f) : f[n] = i
        /\ \A n, m \in 1..Len(f) : f[n] = f[m] => n = m
    BY <1>2, <1>3
  <2>2. first[k] \in S(k)
    BY <1>1, <1>2
  <2> HIDE DEF f
  <2>3. f # << >>
    BY <2>1, <2>2
  <2>4. DOMAIN f \subseteq 1..N
    BY <2>1
  <2> QED
    BY <2>1, <2>3, <2>4 DEF f
<1> HIDE DEF list
<1>5. ASSUME NEW i \in 1..N
      PROVE  \E k \in DOMAIN folders : \E n \in DOMAIN list(k) : list(k)[n] = i
  <2>1. PICK k \in 1..Len(first) : type(first[k]) = type(i)
    BY <1>1
  <2> QED
    BY <1>2, <1>4, <2>1
<1>6. ASSUME NEW k \in DOMAIN folders, NEW l \in DOMAIN folders,
             NEW n \in DOMAIN list(k), NEW m \in DOMAIN list(l), list(k)[n] = list(l)[m]
      PROVE  k = l /\ n = m
  <2>1. type(first[k]) = type(first[l])
    BY <1>4, <1>6
  <2>2. k = l
    BY <1>1, <1>2, <2>1
  <2> QED
    BY <1>4, <1>6, <2>2
<1>7. \A k \in DOMAIN folders : folders[k].type = type(first[k])
  BY <1>2
<1> QED
  BY <1>4, <1>5, <1>6, <1>7 DEF Filed, folders, type, list

(* Filed resources are visited once each by a walk of the folders.         *)
LEMMA FiledIsWalked ==
  ASSUME NEW resources, NEW folders, Filed(resources, folders), NEW i \in 1..Len(resources)
  PROVE  Cardinality({x \in (DOMAIN folders) \X (1..Len(resources)) :
                        /\ x[2] \in DOMAIN folders[x[1]].indices
                        /\ folders[x[1]].indices[x[2]] = i}) = 1
<1> DEFINE Visits == {x \in (DOMAIN folders) \X (1..Len(resources)) :
                        /\ x[2] \in DOMAIN folders[x[1]].indices
                        /\ folders[x[1]].indices[x[2]] = i}
<1>1. PICK k \in DOMAIN folders : \E n \in DOMAIN folders[k].indices : folders[k].indices[n] = i
  BY DEF Filed
<1>2. PICK n \in DOMAIN folders[k].indices : folders[k].indices[n] = i
  BY <1>1
<1>3. <<k, n>> \in Visits
  BY <1>2 DEF Filed
<1>4. \A x \in Visits : x = <<k, n>>
  BY <1>2 DEF Filed
<1>5. Visits = {<<k, n>>}
  BY <1>3, <1>4
<1> QED
  BY <1>5, FS_Singleton

(* The folders of a session file its listing, so each opener is walked.    *)
LEMMA SessionsAreWalked ==
  ASSUME TypeOK
  PROVE  WalkVisitsEveryResource
<1> SUFFICES ASSUME NEW o \in Openers
             PROVE  Filed(openers[o].session.resources, openers[o].session.folders)
  <2>1. ASSUME NEW o \in Openers,
               Filed(openers[o].session.resources, openers[o].session.folders)
        PROVE  LET session == openers[o].session
                   folders == session.folders
                   Visits(i) == {x \in (DOMAIN folders) \X (1..Len(session.resources)) :
                                   /\ x[2] \in DOMAIN folders[x[1]].indices
                                   /\ folders[x[1]].indices[x[2]] = i}
               IN  \A i \in 1..Len(session.resources) : Cardinality(Visits(i)) = 1
    <3> DEFINE resources == openers[o].session.resources
               folders == openers[o].session.folders
    <3> HIDE DEF resources, folders
    <3>1. Filed(resources, folders)
      BY <2>1 DEF resources, folders
    <3>2. \A i \in 1..Len(resources) :
            Cardinality({x \in (DOMAIN folders) \X (1..Len(resources)) :
                           /\ x[2] \in DOMAIN folders[x[1]].indices
                           /\ folders[x[1]].indices[x[2]] = i}) = 1
      BY <3>1, FiledIsWalked
    <3> QED
      BY <3>2 DEF resources, folders
  <2> QED
    BY <2>1 DEF WalkVisitsEveryResource, Filed, InRange
<1>1. openers[o].session \in Sessions
  BY LiveSession
<1>2. CASE openers[o].session = NoSession
  BY <1>2 DEF NoSession, Filed
<1>3. ASSUME NEW p \in Place, openers[o].session = Adopted(p)
      PROVE  Filed(openers[o].session.resources, openers[o].session.folders)
  <2>1. openers[o].session.folders = FoldersOf(openers[o].session.resources)
    BY <1>3 DEF Adopted
  <2> QED
    BY <2>1, ResourceCount, FoldersFile
<1> QED
  BY <1>1, <1>2, <1>3 DEF Sessions

(* Walking the folders by index visits every resource exactly once, and    *)
(* each folder holds one path, whatever a module lists and in whatever     *)
(* order its paths come (OpenerSession::rebuildFolders).                   *)
THEOREM WalksAreComplete == Spec => []WalkVisitsEveryResource
<1>1. TypeOK => WalkVisitsEveryResource
  BY SessionsAreWalked
<1> QED
  BY <1>1, TypeCorrect, PTL

=============================================================================
