----------------------------- MODULE MCOpenerApi -----------------------------
(***************************************************************************)
(* A small world for OpenerApi: a disk image with a directory that holds   *)
(* an executable (two language variants of one resource), an archive with  *)
(* an undecodable member and one whose opening throws, and an executable   *)
(* whose module reports an error but lists what it read.                   *)
(***************************************************************************)
EXTENDS OpenerApi, TLC

MCSymmetry == Permutations(Openers)

MCContents == {"empty", "disk", "exe", "zip", "leaf", "damaged", "xex"}
MCTypes == {"DIR", "FILE", "RT"}
MCNames == {"a", "b.img"}
MCLanguages == {"", "en", "it"}
MCFormats == {"none", "disk", "PE", "zip", "imgFormat", "romdir", "raid", "ldm",
              "app", "msg", "msi", "ce"}
MCFormatNames ==
  [ZIP |-> "zip", AppPackage |-> "app", MSG |-> "msg", MSI |-> "msi",
   WINCE_ROM |-> "ce", SIEMENS_IMG |-> "imgFormat", PS2_ROMDIR |-> "romdir",
   LINUX_RAID |-> "raid", DYNAMIC_DISK |-> "ldm"]

Leaf(type, name, language, content) ==
  [type |-> type, name |-> name, language |-> language, path |-> << >>,
   directory |-> FALSE, subPath |-> "", embedded |-> FALSE, lazy |-> FALSE,
   content |-> content, format |-> "none", container |-> FALSE]

File(name, content) ==
  [Leaf("FILE", name, "", content) EXCEPT !.embedded = TRUE, !.lazy = TRUE]

Directory(name, image, sub) ==
  [Leaf("DIR", name, "", image) EXCEPT !.directory = TRUE, !.lazy = TRUE, !.subPath = sub]

MCListing ==
  [p \in Place |->
     CASE p = At("disk", "")    -> <<Directory("a", "disk", "dir"), File("b.img", "zip")>>
       [] p = At("disk", "dir") -> <<File("a", "exe")>>
       [] p = At("zip", "")     -> <<File("a", "damaged")>>
       [] p = At("exe", "")     -> <<Leaf("RT", "a", "en", "leaf"), Leaf("FILE", "a", "", "leaf"),
                                     Leaf("RT", "a", "it", "zip")>>
       [] p = At("xex", "")     -> <<Leaf("RT", "a", "", "leaf")>>
       [] OTHER                 -> << >>]

MCOutcome ==
  [p \in Place |->
     CASE p \in {At("disk", ""), At("disk", "dir"), At("zip", ""), At("exe", "")} -> "valid"
       [] p = At("damaged", "") -> "throws"
       [] OTHER -> "invalid"]

MCSignature ==
  [c \in MCContents |->
     [prefix |-> CASE c = "zip" -> "zip" [] c = "exe" -> "PE" [] OTHER -> "none",
      deep |-> IF c = "disk" THEN "disk" ELSE "none",
      compound |-> "none", siemensFooter |-> FALSE,
      romdir |-> FALSE, raid |-> FALSE, dynamicDisk |-> FALSE,
      cheap |-> c \notin {"leaf", "damaged"}]]

MCNameTraits == [n \in MCNames |-> IF n = "b.img" THEN {"img"} ELSE {}]
MCFileContent == [f \in {"disk.vhd", "game.xex"} |-> IF f = "disk.vhd" THEN "disk" ELSE "xex"]
==============================================================================
