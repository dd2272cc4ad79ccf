---------------------------- MODULE OpenerSession ----------------------------
(***************************************************************************)
(* peare::OpenerSession: one opened module, its resources and the folder   *)
(* index built over them.  A session is a value; the C API replaces it.    *)
(*                                                                         *)
(* Which resources a module lists for an image opened at a directory, what *)
(* the signature probes see in a content and whether a lazy store can be   *)
(* decoded is decided by the format modules under opener/modules; here it  *)
(* is a fixed function of the bytes, so that the session and the C API     *)
(* above it can be checked and proved for every such function.  A          *)
(* "content" is a byte sequence, array- or store-backed, together with the *)
(* name it is opened under: ModuleFactory dispatches on both.              *)
(***************************************************************************)
EXTENDS Integers, Sequences, FiniteSets, FiniteSetsExt

CONSTANTS Contents,    \* byte sequences
          NoBytes,     \* the empty one
          SubPaths,    \* directories inside a filesystem image
          Root,        \* the empty sub-path
          Types, Names, Languages,
          AnyLanguage, \* no preferred language was given
          Formats, Unknown,
          Selectable,  \* the types that are tree nodes by themselves
          Listing,     \* what the module opened at a place lists
          Outcome,     \* how opening a place ends
          Undecodable, \* contents whose lazy store cannot produce its bytes
          Signature,   \* what the header, footer and structure probes see
          NameTraits   \* what the extension of a name tells

(* ModuleFactory::open names a place by an image and a directory in it. *)
Place == [content : Contents, subPath : SubPaths]

At(content, subPath) == [content |-> content, subPath |-> subPath]

(* A resource as its module declares it.  lazy: content is a store.  *)
Entry == [type : Types, name : Names, language : Languages,
          path : Seq(Types), directory : BOOLEAN, subPath : SubPaths,
          embedded : BOOLEAN, lazy : BOOLEAN, content : Contents,
          format : Formats, container : BOOLEAN]

Traits == {"img", "bin", "rom", "appPackage", "installer"}

Signatures == [prefix : Formats,   \* detectNestedBuffer on 512 bytes
               deep : Formats,     \* detectBuffer on 0x14000 bytes
               compound : {"none", "outlook", "other"},
               siemensFooter : BOOLEAN,
               romdir : BOOLEAN, raid : BOOLEAN, dynamicDisk : BOOLEAN,
               cheap : BOOLEAN]    \* cheapRandomAccess() of its store

ASSUME DocumentsAssumption ==
  /\ NoBytes \in Contents
  /\ Root \in SubPaths
  /\ AnyLanguage \in Languages
  /\ Unknown \in Formats
  /\ Selectable \subseteq Types
  /\ Listing \in [Place -> Seq(Entry)]
  /\ \A p \in Place : \A i \in DOMAIN Listing[p] :
       Listing[p][i].directory => Listing[p][i].lazy
  /\ Outcome \in [Place -> {"valid", "invalid", "throws"}]
  /\ Undecodable \subseteq Contents
  /\ Signature \in [Contents -> Signatures]
  /\ NameTraits \in [Names -> SUBSET Traits]

CONSTANTS FormatNames   \* the formats the probe chain names itself

ASSUME FormatNamesAssumption ==
  FormatNames \in [{"ZIP", "AppPackage", "MSG", "MSI", "WINCE_ROM",
                    "SIEMENS_IMG", "PS2_ROMDIR", "LINUX_RAID",
                    "DYNAMIC_DISK"} -> Formats]

(* A session holding no module; "loaded" is module_ != nullptr. *)
NoSession == [loaded |-> FALSE, valid |-> FALSE, place |-> At(NoBytes, Root),
              resources |-> << >>, folders |-> << >>]

-----------------------------------------------------------------------------
(* The probe chain of adoptModule: which format, if any, makes a resource  *)
(* navigable.  Each stage runs only when the ones before found nothing,    *)
(* except the Siemens footer, which overrides a weaker signature.          *)

StrongFormat(e) ==
  LET seen == Signature[e.content].prefix
      kind == Signature[e.content].compound
  IN CASE seen = FormatNames["ZIP"] /\ "appPackage" \in NameTraits[e.name] ->
            FormatNames["AppPackage"]
       [] seen = Unknown /\ kind = "outlook" -> FormatNames["MSG"]
       [] seen = Unknown /\ kind = "other" /\ "installer" \in NameTraits[e.name] ->
            FormatNames["MSI"]
       [] OTHER -> seen

(* The footer is read only where a read near the end is cheap. *)
FooterWins(e) ==
  /\ "img" \in NameTraits[e.name] \/ StrongFormat(e) = FormatNames["WINCE_ROM"]
  /\ ~e.lazy \/ Signature[e.content].cheap
  /\ Signature[e.content].siemensFooter

NestedFormat(e) ==
  LET sig == Signature[e.content]
      first == IF FooterWins(e) THEN FormatNames["SIEMENS_IMG"] ELSE StrongFormat(e)
  IN CASE first # Unknown -> first
       [] first = Unknown /\ sig.deep # Unknown -> sig.deep
       [] first = Unknown /\ sig.deep = Unknown /\ e.lazy /\ sig.romdir
            /\ NameTraits[e.name] \cap {"bin", "rom", "img"} # {} ->
            FormatNames["PS2_ROMDIR"]
       [] OTHER ->
            IF ~(e.lazy /\ sig.cheap) THEN Unknown
            ELSE IF sig.raid THEN FormatNames["LINUX_RAID"]
            ELSE IF sig.dynamicDisk THEN FormatNames["DYNAMIC_DISK"]
            ELSE Unknown

Probed(e) ==
  IF e.directory THEN [e EXCEPT !.container = TRUE]
  ELSE IF e.embedded /\ NestedFormat(e) # Unknown
       THEN [e EXCEPT !.container = TRUE, !.format = NestedFormat(e)]
       ELSE [e EXCEPT !.container = FALSE]

-----------------------------------------------------------------------------
(* rebuildFolders: resources grouped by hierarchy path, in the order in    *)
(* which the paths first appear.                                           *)

FolderType(e) ==
  IF \/ e.directory \/ e.type \in Selectable
     \/ e.path # << >> /\ e.path[Len(e.path)] = e.type
  THEN e.path ELSE Append(e.path, e.type)

(* The positions of a set up to n, one after the other.                    *)
Ascending(S, n) ==
  LET order[k \in 0..n] == IF k = 0 THEN << >>
                           ELSE IF k \in S THEN Append(order[k - 1], k) ELSE order[k - 1]
  IN order[n]

(* Mutant: only the previous resource is asked for its folder. *)
FirstOfRun(resources) ==
  Ascending({i \in 1..Len(resources) :
               i = 1 \/ FolderType(resources[i - 1]) # FolderType(resources[i])},
            Len(resources))

FirstOfFolder(resources) ==
  Ascending({i \in 1..Len(resources) :
               \A j \in 1..(i - 1) : FolderType(resources[j]) # FolderType(resources[i])},
            Len(resources))

FoldersOf(resources) ==
  LET first == FirstOfFolder(resources)
      type(k) == FolderType(resources[first[k]])
  IN [k \in 1..Len(first) |->
        [type |-> type(k),
         indices |-> Ascending({i \in 1..Len(resources) : FolderType(resources[i]) = type(k)},
                               Len(resources))]]

(* adoptModule: the resources are taken over, probed and indexed whether   *)
(* or not the module says it is valid (an XEX with a malformed             *)
(* RESOURCE_INFO reports an error and still lists what it read).           *)
Adopted(place) ==
  LET resources == [i \in 1..Len(Listing[place]) |-> Probed(Listing[place][i])]
  IN [loaded |-> TRUE, valid |-> Outcome[place] = "valid", place |-> place,
      resources |-> resources, folders |-> FoldersOf(resources)]

(* openBuffer when the temporary file cannot be created or written. *)
Unspooled == NoSession

IsOpen(session) == session.loaded /\ session.valid

-----------------------------------------------------------------------------
(* findResource: the first match in the preferred language, else the first *)
(* match in any language.  0 stands for the code's -1.                     *)
Matches(session, type, name) ==
  {i \in 1..Len(session.resources) :
     session.resources[i].type = type /\ session.resources[i].name = name}

(* Mutant: the preferred language is not looked for. *)
FindFirst(session, type, name, language) ==
  LET found == Matches(session, type, name)
  IN IF found # {} THEN Min(found) ELSE 0

FindResource(session, type, name, language) ==
  LET found == Matches(session, type, name)
      spoken == {i \in found : session.resources[i].language = language}
  IN IF language # AnyLanguage /\ spoken # {} THEN Min(spoken)
     ELSE IF found # {} THEN Min(found) ELSE 0

(* resourceEntry: out of range there is no resource. *)
InRange(session, index) == index \in 1..Len(session.resources)
==============================================================================
