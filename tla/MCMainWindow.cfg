SPECIFICATION Spec
CONSTANTS
  Documents <- MCDocuments
  Damaged = {"bad"}
  NoDocument = "none"
  Nodes <- MCNodes
  Groups = {"g", "s"}
  Resources <- MCResources
  Lost = {"a"}
  Containers = {"c", "e"}
  Navigable = {"c"}
  Executables <- MCExecutables
  Below <- MCBelow
  Added <- MCAdded
  Above <- MCAbove
  Addresses <- MCAddresses
  MaxOpens = 2
  MaxHistory = 2
  MaxScan = 1
INVARIANT TypeOK
INVARIANT PointersLive
INVARIANT TimersArmed
INVARIANT ExportTargetInView
INVARIANT PreviewOfSelection
INVARIANT BackGoesElsewhere
INVARIANT BarAgrees
INVARIANT RowsAreChildren
CHECK_DEADLOCK FALSE
PROPERTY IconsArrive
