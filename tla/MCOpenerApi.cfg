SPECIFICATION Spec
CONSTANTS
  Contents <- MCContents
  NoBytes = "empty"
  SubPaths = {"", "dir"}
  Root = ""
  Types <- MCTypes
  Names <- MCNames
  Languages <- MCLanguages
  AnyLanguage = ""
  Formats <- MCFormats
  Unknown = "none"
  Selectable = {"FILE"}
  Listing <- MCListing
  Outcome <- MCOutcome
  Undecodable = {"damaged"}
  Signature <- MCSignature
  NameTraits <- MCNameTraits
  FormatNames <- MCFormatNames
  Openers = {o1, o2}
  Handles = {"h1"}
  Sources = {"s1"}
  Files = {"disk.vhd", "game.xex"}
  FileContent <- MCFileContent
  MaxIndex = 2
  Faults = {"session", "handle", "copy", "store", "subPath", "spool"}
  Padded = "zeros"
SYMMETRY MCSymmetry
INVARIANTS
  TypeOK
  HandlesShowListedResources
  WalkVisitsEveryResource
  PayloadIsListedContent
  EverythingComesFromAFile
PROPERTIES
  OpenReplyTellsState
  PreferredLanguageWins
  KeepsContract
CHECK_DEADLOCK FALSE
