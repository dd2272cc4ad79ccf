# Verification of Peare

Peare opens executables, archives, filesystem and disk images and lets a user
browse, preview and export what is nested inside. This directory holds TLA+
models of its stateful parts, the TLC runs that check them on small instances
and TLAPS proofs of the results that hold for every instance.

## Inventory: the system's parts

| part | state | operations | interacts with | what makes it correct |
|---|---|---|---|---|
| **Opener session** `opener/OpenerSession.cpp` | the module, its info and error, the resources with their probed formats, the folder index | openFile/openStore/openBuffer, close, findResource, openResource | takes modules from the factory; owned by an opener handle | folders partition the resources; lookups return the listed resource; a probe never changes anything but the container flag and format |
| **Opener C ABI** `opener/api/Api.cpp` | opener handles (a session each), resource snapshots, source handles | create, open, close, destroy, open_resource_at, find_resource, get_payload, get_source, the destroys | called by the GUI wrapper and by tests through ctypes | handles with independent lifetimes; statuses that tell what happened; nested opens that open what the handle named |
| **Module factory / detector** `opener/modules/ModuleFactory.cpp`, `ModuleFormat.cpp` | none | dispatch a content to a format module; header probes | session, format modules | the session's probe and the factory agree on the format |
| **Byte stores** `opener/fs/DiscStore.h` | windows over parents | positioned `read`, `readExactly`, `readRange` | every reader, every disk, every lazy member | a byte is the same whatever read returns it |
| **Lazy stores** ZIP, CAB, WIM, SquashFS | decoded prefixes, block caches, sticky failure | read | above | a cache never changes what a read returns |
| **Virtual disks** QCOW, VHD(X), VMDK, VDI, DMG, Parallels | block tables, table caches | read with block translation | stores, partition table | guest byte to host byte translation |
| **Volumes** partition tables, LVM, MD RAID, LDM | none after opening | table walks | stores, filesystem readers | walks end, entries do not overlap what they cannot |
| **Filesystem readers** FAT, exFAT, NTFS, ext, XFS, Btrfs, UDF, ISO, HFS+, HPFS, JFS, SquashFS | mounted metadata, directory caches | list a directory, open a file as a store | stores | cluster-chain and tree walks end and stay in bounds |
| **Archives, executables, compound documents, firmware** | the listing | parse | session | the listing |
| **Decoder** `decoder/` | none but two font caches | route a type, decode images, texts, information | GUI | routing order, statuses |
| **GUI** `app/MainWindow.cpp` | tree items, pending containers, child sessions, details rows, history, selection, preview, two icon timers, the icon cache | open, expand, select, navigate, switch view, export, timers | C ABI through `app/PeareApi.cpp` | no dangling item, sessions outlive their subtree, timers drain, nothing of an earlier document survives |

Behaviours that are hard: handles that outlive what they came from; failed
opens and silent allocation failures; nested opens through stores that answer
short; lazy decoding that fails half way; deferred work in the GUI (timers,
pending subtrees, history) racing an open, and walks over cyclic metadata. The
program is single-threaded except for the operating system's event delivery:
the interleavings are those of calls and of GUI events.

## Plan

Each item names the modules that carry it out and what they compose with.

1. `OpenerSession`, `OpenerApi` and the abstract `OpenerContract`
   they implement, with `OpenerApi_proofs`.
2. `ByteStores`: the read loops against the content they stand for, with
   `ByteStores_proofs`.
3. `MainWindow`: tree, details, history, selection, timers, with
   `MainWindow_proofs`.
4. Virtual disks: `DiskImages` (what each format's header and tables say) and
   `VirtualDisks` (reading through the caches), with `DiskImages_proofs` (where
   each format looks) and `VirtualDisks_proofs` on top of it.
5. Volumes: one module per reader, and `Volumes`, the machine that mounts,
   lists, resolves and reads with any of them.
6. Containers: the decoders (`Inflate`, `LzCodecs`, `LzxCodec`),
   the listings (`ArchiveFiles`, `Executables`, `MediaFiles`), `Detection`, and
   `Containers`, the machine that detects, opens and reads with any of them.

All six are done and described below. Left for later: the decoder's
routing and the statuses of its images; the tables of MSI and MSG documents on
top of the compound files; the Windows CE ROMs and the Siemens images. Every
safety property of the first four parts is proved; of the volumes what holds of
damaged ones (`NothingTwice`, `PartsOnTheDisk`), and of the containers that what their
stores keep is never seen (`CachesAreInvisible`); what sound samples show is about
those samples and stays with TLC.
`Intervals` holds the induction and recursion over `0..N` the proofs share. No module
declares a recursive operator: a loop of a decoder is `Turns(start, n, Turn)` of `Inflate`, a
recursive function over the number of its turns, of which there are as many as there is
input or output, so the prover takes the modules as they are.

The map of `PROJECT.json` lists a function's lines under the definitions that
carry it; the one-line helpers they are written with stand for the same lines.

## The opener ABI

`OpenerSession` holds the world as constants: what a module lists for a *place* (an
image and a directory inside it), how opening it ends, what the header probes
see. It translates `adoptModule` (`Adopted`, with the probe chain
`StrongFormat`, `FooterWins`, `NestedFormat`), `rebuildFolders` (`FoldersOf`)
and `findResource`. A session is a value, because `peare_opener_open` builds a
new one and swaps it in. `OpenerApi` has one action per call, and `reply` what it
answered: the status, the place an open was asked for, the bytes of a payload.
Modelled are exceptions (`Outcome = "throws"`, and `ReplyCaught`, the catch
clauses of create, close and the two lookups), a temporary file that cannot be
written (`"spool"`), the blob of a payload that cannot be allocated (`"copy"`) and
allocations of a handle's parts that fail, two of them silently (`"store"`,
`"subPath"`). So every status of these calls is answered but `INVALID_ARGUMENT` and
`INVALID_HANDLE`: null pointers and dead handles are the caller's errors, and no
state depends on them. A payload is read to its end whatever the store answers, so
one that cannot be decoded is `Padded` (zeros), never the listed bytes.

`OpenReplyTellsState` compares what an opener shows after an open with what the
place asked for is adopted as, for each status. `PayloadIsListedContent` is about
stores that can be decoded; what is handed out for one that cannot is
`PayloadNeverFabricated`, which the code violates.

`OpenerContract` says only that an opener shows a place or nothing, that a
resource handle stands for a resource of a shown place, that a source stands
for a place the resource leads to, and that only files and sources are shown.

### Runs

* `api` - two interchangeable openers, one resource handle, one source handle
  over a disk image with a directory, an executable with language variants, an
  archive with an undecodable member, and an executable whose module reports an
  error but lists resources. One handle of each kind is enough because handles
  do not refer to each other; two openers let one be reopened or destroyed
  while a handle taken from the other is live. `MaxIndex = 2` reaches the end of the
  longest folder and goes past the end of every other. Deadlock is not checked: a world may end with all slots used.
* `api_payload` - the one disagreement met here: a payload whose store cannot
  be decoded is handed out zero-filled with status OK.

### Proved

`OpenerApi_proofs` proves, for any documents and any number of handles,
`TypeOK`, `HandlesShowListedResources`, `EverythingComesFromAFile`,
`OpenReplyTellsState`, `KeepsContract`, `PayloadIsListedContent` and
`PreferredLanguageWins`. The inductive invariant is `Inv`, the
conjunction of the first three: `TypeOK` says a session is nothing or what
`adoptModule` makes of *one* place, which makes a resource in range a listed one
(`ResourceInRange`); then a new handle is a snapshot of a listing, and a source
taken from it leads where the listing leads, which stays inside the nested
places because those are themselves closed under nesting (`NestedIsClosed`). A
payload is true because the handle it is asked of is such a snapshot
(`SnapshotContent`) and its store, not among the undecodable ones, gives what it
was listed with. The preferred language wins because `FindResource` takes the
least of the positions that fit: `MinOfPositions` (every nonempty set of naturals
has a least member, by well-founded induction) and `FindPrefers`, the two passes of
the loop. The proofs assume the named assumptions of
`OpenerSession` and `OpenerApi`, which only type the constants and say that a
directory entry carries its image.

`WalkVisitsEveryResource` (`WalksAreComplete`) follows from `TypeOK` alone, since the
folders of a session are `FoldersOf` its listing. The two loops of `rebuildFolders`
are `Ascending`, a recursive function over the positions: `AscendingLists` shows,
by the recursion and the induction over `0..n` of `Intervals`, that it lists each
position of a set once. Hence no path has two folders (`FirstsOfFolders`), each
resource is filed in the folder of its path and in no other (`FoldersFile`), and
the pairs of folder and index that lead to it are exactly one (`FiledIsWalked`).

## Byte stores

`ByteStores` models one composed store of `opener/fs/DiscStore.h` and one read
of it, a turn of the loop per step: `SubStore` (a window), the memory store,
the optical view of raw sectors (`UserSector` bytes out of every `RawSector`),
`ConcatStore` with its binary search for the part (`Locate`, `Back`) and
`StripedStore`. The read comes through `readRange`, `readExactly` or directly;
`readRange` casts its length to an `int` of width `IntMax` (`AsInt`), positions may
be negative or past the end. In the instances each byte's value names its part
and offset, so `dst` tells where every byte of the destination came from; 0 is
the zero that `readExactly` fills in. A part that holds fewer bytes than it declares (a
file cut short, a member that stops decoding) answers any positive number of
what it has, then nothing.

### Runs

* `byte_stores` - every kind of store over one to four parts (whole, cut short,
  null, uneven), read from before its start to past its end with counts up to
  the whole, through `readRange` and `read`, with parts answering short.
  `IntMax = 7` is below the longest store, so a range overflows the cast.
  Checked are `NeverOverruns` (nothing outside the
  caller's buffer), `NeverMisplaced` (each byte is the one its position stands
  for, or zero), `AnswersWhenItHolds` and `IntactRangeHolds` (what the parts
  hold is delivered), and `ReadEnds`.
* `byte_stores_hole` - the disagreement met here: behind a part that is cut
  short, a concatenation answers nothing, although a read that starts later
  returns the bytes.

Fairness is weak fairness of `Step`: the loop is straight code that runs until
it returns.

### Proved

`ByteStores_proofs` proves `TypeOK`, `NeverOverruns`, `NeverMisplaced`,
`AnswersWhenItHolds` and `IntactRangeHolds` for
any stores, positions, counts and sector and stripe sizes. The inductive
invariant adds to these that the bytes produced so far fit what is left of the
request (`Fits`), that the loop is inside the store (`Inside`) and that nothing
is pending between reads (`Resting`): without them a turn could not be shown to
stay inside `dst`. The heart is arithmetic: a copy that starts where the
position says ends there too (`CopyIsRight`), and dividing a position by the
stripe or sector size and recombining gives the same part and offset for every
byte up to the end of that stripe (`UnitIsRight`). 

That bytes which are held are delivered needs more. `AnswerInv` adds where a
read that has produced nothing yet stands: the binary search has the position
between its ends (`Searching`), the part it ends on has the byte (`Found`), and
something is still wanted (`Asking`). On intact optical and striped stores the
unit asked is held (`UnitIsHeld`), for which even parts must start at multiples
of their size (`EvenStarts`, by the least part that would not). `RangeInv` adds that
`readExactly` was asked the whole of a range an `int` can count, and gives up only at
its end (`Asked`, `Finished`). A position stands for one byte of one part
(`StandsOnce`), so what was delivered is what the range holds. Only `ReadEnds` stays
model-checked: it is liveness, out of the prover's reach.

## Main window

`MainWindow` models `app/MainWindow.cpp`. An action is one event of the event
loop with everything its handler calls; modal dialogs do not break a handler in
two, since nothing of the window changes while they are up. A pointer to a tree
item is a record of the opening it belongs to and its node, so that an item of
a closed document differs from its namesake in the next one.

| variable | code |
|---|---|
| `tree` | the items and `PendingRole`, `childSessions_`, `pendingEmbeddedIconItems_`, `treeIconIndex_`, `treeIconTimer_`; `bare` are the pending items shown expanded |
| `pane` | the tree's current and selected item, the resource of `currentPreview_`, the export actions |
| `details` | `detailsMode_`, `currentDetailsLocation_`, `previousLocations_`, `nextLocations_`, the rows and the selected one, `detailsIconIndex_`, `detailsIconTimer_` |
| `bar` | the address line and the enabled state of it and of the buttons |
| `icons` | the items that were given their embedded icon |
| `freed` | whether a deleted item was used; the memory then holds anything |

Operators on a window value (`Expand`, `Refresh`, `UpdateBar`, `Navigate`,
`Reset`) stand for the functions the handlers share and are composed in the
order of the calls. A path node may be a resource too (`Groups` and `Resources`
overlap where a member's path is also a folder of others), and a resource may fail
to open when it is selected (`Lost`): the exports are then left as they were. What Qt does is taken from its behaviour as the code uses
it: `expandAll` emits no `itemExpanded`; clearing a tree first clears its selection,
which is signalled, and so disables the exports (`ClearSelection`); taking away the current item's row makes its parent current; the rows'
signals are blocked while they are rebuilt.

### Runs

* `main_window` - a document with a group (whose resource is lost), a container
  that opens (and lists an executable and a container that does not open), a second
  document with a group that is a resource itself and holds an executable, and one
  that cannot be opened. `MaxOpens = 2` openings, because
  what survives an opening shows at the next one; `MaxHistory = 2` places of
  history, enough for a place on each side of the location and for two on one;
  `MaxScan = 1` row per turn instead of 256, so that a listing of two rows
  already takes several turns. Deadlock is not checked: with the openings used
  up and nothing left to click the window may rest.
* `main_window_failed_open` - in the details view a failed open leaves the
  address and buttons of the closed document.
* `main_window_expand_all` - *Expand treeview* makes a placeholder selectable;
  switching to the details view then deletes it and uses it.

Fairness is weak fairness of the two icon timers, whose events Qt delivers
whatever the user does; `IconsArrive` (every executable shown gets its icon
unless its document is closed) rests on it. `BarAgrees` is conditional on an
open document because of the first disagreement.

### Proved

`MainWindow_proofs` proves every invariant of the run, for any documents, any
trees below them, any addresses and any bounds: `TypeOK`, `PointersLive`,
`TimersArmed`, `ExportTargetInView`, `PreviewOfSelection`, `BackGoesElsewhere`,
`BarAgrees` and `RowsAreChildren`. They follow from one inductive invariant,
`Inv`, which TLC also checked on the instance of `main_window` before it was
proved. Beyond the invariants themselves it says what the handlers rely on
without testing it: a placeholder is never current in the details; only the
current item is selected; no place of the history, nor the location, is still
pending (so going back or forth opens nothing and cannot move a listing); the
pending containers, the open ones and what either added are all in the tree and
no container is both; the tree's icon index starts over whenever its queue is
empty; the address may be typed only in the details.

Handlers are compositions of calls, so the proof goes call by call on a window
value: `ExpandOK` (what was open stays so, with the children it had, and a
selection moves only off the placeholder that goes), `RefreshOK` (which puts the
details in step from any sound window), `UpdateBarOK`, `SelectOK`, `NavigateOK`
made of these, and `SidesOK` for a step through the history. `Sound` holds
between any two calls, `InStep` and `BarOK` only at the end of a handler. An
address is walked label by label by a recursive function; that the walk stays
among sound windows with the same details (`WalkOK`) is shown with
`RecursionDefines`: a recursion over `0..N` in a set defines a function into that
set. It is stated of a set of values and a function of steps, not of an operator,
and rests on `SetInduction`, from the well-foundedness of the naturals.

The named assumption says of the trees what `populateFromSession` builds: what a
source adds is below it or below a group added with it, is all there is below
either, and no node is added by two sources. Only `IconsArrive`, which is
liveness, stays with TLC.

Not modelled: a container that is also a folder of other members (`Containers` and
`Groups` are disjoint; an XUIZ archive can make one, and expanding it deletes all its
children, the folder's members included), the export dialogs, the keyboard focus Qt may give the first
item, duplicate labels (the first match of an address), the icon cache of
`SettingsIcons` (see the hazard in `PROJECT.json`).

## Virtual disks

`DiskImages` says, for QCOW v1 to v3, VHD, VHDX, VDI, Parallels, VMDK (sparse,
streamOptimized and descriptor) and DMG, which headers and tables opening
accepts (`Accepts`) and where a guest position is kept (`QcowPlace`,
`VhdPlace` and so on). An image is a record of its fields and tables; its host bytes are named
by their address, a compressed cluster by what it inflates to. `VirtualDisks`
is the reading:

| variable | code |
|---|---|
| `mounted` | whether `open*Disk` accepted the image |
| `slots`, `l2Age` | `l2Cache_` and its clock (`QcowDisk.cpp`) |
| `unit` | the inflated cluster (QCOW) or grain (streamOptimized VMDK) kept |
| `kept` | `bitmaps_` (VHD), `cache_` (DMG), the grain of each streamOptimized extent below a descriptor |
| `reader` | per reader, the request, what it produced and where it stands |

A turn of a read loop is one step (`Turn`), except that QCOW locks its two
caches one after the other: its readers interleave between the two critical
sections (`QcowHit` or `QcowMiss`, then `QcowUnpack`). The other stores hold no lock, and only one
reader reads them. A `SPARSE` extent of a descriptor is whatever `openVmdkExtent`
makes of its file, a sparse or a streamOptimized store with a cache of its own
(`DescriptorTurn`). A window of an image answers nothing for what lies before its
first byte, so a DMG run with a negative offset is read as the code reads it.

### Runs

* `virtual_disks` - every image of `MCImages`, sound and damaged, under any
  sequence of requests (before the disk, across blocks, past its end). Two
  `Readers` are the fewest that disturb each other, two `Slots` the fewest with
  a victim to choose; with `AgeBound = 2` no new request starts once the cache
  clock is there, late enough for an eviction between the sections of another
  reader's turn. The units of the formats are scaled so that blocks of a few
  bytes still hold several sectors (`Sector`, `Word`, `ChunkSectors`, `MiB`,
  `BitmapBits`, `Subclusters`). Checked are that the caches hold what the image
  holds (`CachesHoldTheImage`), that a read returns the guest's bytes
  (`ReadsTheGuestDisk`), that a mounted disk maps all of its size
  (`MountedDiskIsMapped`), that the table used last is never the victim
  (`LastUsedTableStays`) and that reads end (`ReadsEnd`). Deadlock is not
  checked: with the clock at its bound, or an image refused, readers rest.

Fairness is weak fairness of every reader's turn: a read is straight code on a
thread the system schedules, and the mutexes are held for one section only.

### Proved

`VirtualDisks_proofs` proves every safety property of the run, for any images,
sizes, readers, requests and at least two slots (`SlotsAssumption`; with one,
the table used last is the only one to give up):

* `CachesCorrect` - `Spec => []CachesHoldTheImage`. The inductive invariant
  `CachesInv` adds that a reader is a reader with a program counter, and waits
  to unpack a cluster only on a QCOW image (`ReadersInv`; otherwise a cluster
  could be put where a grain is expected), that no table is in two slots
  (`SlotsInv`; otherwise aging one would leave its twin), and what each of the
  other caches is keyed by (`UnitInv`, `KeptInv`).
* `LastUsedTableIsKept` - `Spec => LastUsedTableStays`. `AgesInv` adds that no
  two slots share the present age and that a table in a slot was used at some
  time; then the victim, an empty slot or the oldest (`VictimIsOldest`), is
  never the table used last.
* `MountedDisksAreMapped` - `Spec => []MountedDiskIsMapped`, from what opening
  checks: of QCOW that the rounded-up number of clusters fits the L1 table
  (`QcowMapped`), of VHDX that the entries the file must have, bitmap blocks
  counted in, reach the index a read computes for the last block
  (`VhdxEntryInside`), of a sparse extent that its grain tables cover it
  (`SparseMapped`).
* `ReadsShowTheGuestDisk` - `Spec => []ReadsTheGuestDisk`, for images that were
  written from their guest disks. `ReadOK` adds what a read under way may still
  ask for, `BufferOK` that a cluster left for unpacking holds the bytes it will
  be asked for, and `KeptInside` that no bitmap is kept which a second look
  would find outside the file.
* `TypesAreCorrect` - `Spec => []TypeOK`, from all of these and `OneReader`.

The argument for `ReadsShowTheGuestDisk` has two halves. `DiskImages_proofs`
shows of each format that the place a turn looks for a guest byte serves some of
what is asked, no more, and bytes of the guest disk (`QcowServes`, `VhdServes`,
`VhdxServes`, `VdiServes`, `ParallelsServes`, `SparseServes`, `StreamServes`,
`DmgServes`, `DescriptorServes`). `VirtualDisks_proofs` shows of each turn that it
keeps the reads right when its place does, the caches holding the image
(`TurnsAreSound`), and that no other reader is touched (`OthersStay`).

Two things are assumed of the images. `Typed` (the named assumption
`ImagesAssumption`) says which fields are numbers and which entries a table of
an accepted image has; it restricts no value. `Written`, the premise of
`ReadsShowTheGuestDisk`, says that the disk was laid out as the format says:
part by part from addresses, multiplied out, without the divisions a reader finds
a part by. `MCVirtualDisks` has TLC check both of every image of the run. `Written`
asks for three things no reader checks: that the blocks of a VHD disk are whole
sectors (`VhdDisk.cpp:121` takes any block size, and a bit of the bitmap stands for
a sector); and two without which the same byte is
read differently by different requests, that a QCOW cluster lies wholly within
the file or past its end (a cluster that straddles it is zeros to a
request for all of it, since `RangeInside` is asked of the whole chunk, and
stored bytes to a request for its first half), and that no DMG run begins inside
a later one (a turn would take the bytes that the run found first has, up to its
end, where a later request finds the other run).

`ReadsEnd` is liveness and stays with TLC.

## Volumes

A reader of `opener/fs` mounts a volume, then answers `list` and `openFile` a
path at a time. `Volumes` is one machine for all of them: `state` goes from
`"new"` through `"mounting"` to `"ready"` or `"refused"`, and for each question
from `"entering"` a name of the path, through `"walking"` the directory or
extent structure a turn at a time and `"gathered"`, to `"answered"`. What a
turn does is in the reader's module:

| module | code |
|---|---|
| `PartitionVolumes` | MBR chains, GPT, Apple maps, BSD labels, the search for lost JFS volumes (`PartitionTable.cpp`) |
| `LogicalVolumes` | LDM databases (`DynamicDisk.cpp`), LVM metadata, md superblocks |
| `FatVolumes`, `NtfsVolumes`, `LinuxVolumes` (ext2/3/4, XFS, Btrfs), `OpticalVolumes` (ISO 9660, UDF), `HfsPlusVolumes`, `HpfsVolumes`, `JfsVolumes` | the reader of that name; exFAT is in `FatVolumes` |
| `ImageVolumes` | SquashFS, WIM |
| `RegistryHives` | `RegistryReader` |
| `Filesystems` | `DiscFileSystem`: paths, extents and what every reader shares |

A partition table, an LDM database, an LVM group or an array is a volume whose
files are its parts. `VolumeOf(disk)` gives the decoded metadata (`volume`) and,
for the properties alone, what was written there (`guest`) and what to ask
(`asks`). A lost JFS volume is searched for in
the first 64 MiB and a little, as the code's bounded scan does (`ScanLimit`).
Labels, times, permissions and checksums are left out; names are
model values, ordered and folded by the tables `NameRank` and `LowerCase`.

### Runs

* `volumes` - a sound volume of every kind and layout in
  `SampleVolumes` and `SampleDisks`, and families of damaged ones in
  `MCVolumes`: every FAT of three clusters, every pair of sibling or branch
  pointers of the trees, partition tables whose links and sizes say anything.
  Sound volumes list and read what their guest wrote (`ListsTheGuest`,
  `ReadsTheGuest`); on any, no cluster or entry is visited twice
  (`NothingTwice`), parts lie on the disk (`PartsOnTheDisk`) and walks end
  (`WalksEnd`). Scaled are `HfsGuard` (6 for the 100000 nodes after which a
  leaf chain is given up) and the end mark of exFAT (2^31-1 for 2^32-1).
* `volumes_lost_jfs` - a JFS volume found again without its partition table
  is placed before its start when it begins at sector 63.

Fairness is stated as `[]<>~Due \/ []<><<beat' # beat>>_vars`: while a question is
due, turns are taken. The run checks deadlock too, so a turn is always possible
while one is due, and this is weak fairness of the turn without an `ENABLED`
that TLC would evaluate at every state. The loops are straight code, so they run on.

The sound volumes stay clear of places where readers differ from what they
read, which the models keep as they are: the LDM reader does not reset its
column cursor between the components of a mirror (`DynamicDisk.cpp:278`); a
WIM directory with no entries lists the root, and a path below a file goes on
in its directory; ext resolves names without case; ext and XFS read
unwritten extents, Btrfs takes an inline compressed extent for as long as its
packed bytes; NTFS ignores the initialized size; SquashFS stops a read at a
sparse block; exFAT gives a file its valid length; LVM does not match a
physical volume's name; the `il` lists of a registry hive are read for `li`.
Walks of Btrfs and ext trees and of ISO directories have no visited set: their
depth, or the disk's size, is what ends them.

### Proved

`Volumes_proofs` proves `NothingTwice` for any volumes, whatever their tables
say (`FatAssumption` only says that a FAT volume has the numbers of its boot
sector). While a FAT chain is walked, the clusters listed are among those seen
and among those the volume has, and the list is as long as the set of its
elements (`ChainOK`); a turn of `chain` appends a cluster only after it looked
for it in both (`ChainTurn`). A HPFS directory has no visited set for entries:
`walkDnode` compares an entry with every one listed (`DirectoryTurn`). Both are
put on the loops' own steps, `WalkSkips`, `WalkVisits` and `WalkGathers`, and on
`OneMore`: a list of distinct things stays one when it grows by what it does not
hold. The volume that is walked is the one that was mounted, because mounting
adds no fact of its own to a FAT volume (`MountedClusters`).

It also proves `PartsOnTheDisk`, again whatever is written
(`TablesAssumption` says that what is decoded are numbers, signed or not as the
reader keeps them, and lists of records with their fields). `TableInv` says that
only what was accepted is asked, that the links an MBR walk has still to
follow and the partitions it found are of that disk (`MbrWalk`), that a mounted disk
keeps partitions that lie on it (`PartFacts`) and that the entries at hand
show what they may (`EntriesFit`, `Lies`). A step is then one of `MbrTurnKeeps`, of
`PartDoneFits` (GPT, the Apple map, JFS volumes that are recovered and then joined,
each a list built element by element) or of `EntriesRead`, which has one lemma per
kind of table. Beneath these are facts about lists that the readers share:
what is kept of one, one made of several, one sorted (`KeptList`,
`ConcatenatedList`, `SortedList`), parts that are cut (`CutParts`), and
for the loops `LoopsRun` and `LoopsKeep`, recursion and induction over `0..n`.

Two kinds show something else than bytes of the disk. A striped volume
of a dynamic disk has a gap where one of its extents ends before the others:
that is `Nothing`, no place. LVM compares a segment with the data area its
label tells of, and that area with nothing (`LvmModule.cpp:109-121`,
`LvmModule.cpp:331`), so a segment is shown to lie in the area (`Room`) and what is past
the disk's end is read as nothing (`PartReads`). Products of LVM, array and LDM
numbers are taken to fit 64 bits; the readers do not check that either. The orders in which
DriveLink segments are tried start from the disk's and only go up, as the loop on
`std::next_permutation` does. `ListsTheGuest` and `ReadsTheGuest` are about the
samples' guests, and `WalksEnd` is liveness: these stay with TLC.

## Containers

`Containers` is the other machine. A file comes to the factory by a door (a
path, a store with or without its name, bytes in memory, a temporary file);
`Detection` finds the module, and the module opens it a header a turn: `walk`
is where it stands, what it listed, what it has seen and the error that ended
it. Then its members are read, in any order and any ranges, through the stores
that decode them: `caches` is what each store keeps.

| module | code |
|---|---|
| `Detection` | `detectFile`, `detectBuffer`, `detectNestedBuffer` rule by rule, the factory's doors, the session's probe. What a format's check reads is a mark at an offset of `seen` |
| `Inflate`, `LzCodecs`, `LzxCodec` | deflate; SZDD, Shrink with its partial clear, PACK LZW and PACK2; LZX with blocks, trees and E8, XPRESS |
| `ArchiveFiles` | ZIP (ZIP64, packages), TAR, CAB, SZDD, OS/2 PACK, OLE compound files, WIM |
| `Executables` | NE, LE, LX, PE (files and images in memory), XBE, XEX (its keys, its image as it is, in blocks with zeros or in hashed LZX blocks, the resources mapped into it): structure areas, page decoders, resources, members inside sections |
| `MediaFiles` | MTF backups, SDI, WAD, ROMDIR, PUP, XUIZ, OS/2 extended attributes, FSF, FFU, MDF and BIN/CUE discs, encrypted APPX packages and bundles (a bundle whose package lies where the bundle does lists it inside itself, eight levels deep and no further) |

A byte that is not packed is named by its place in the file, so a wrong offset
shows as a wrong byte. A packed stream is the sequence of what its decoder
reads (symbols, lengths, code tables), from which the decoder translated here
computes the bytes; how symbols are packed into bits is left out. `Deflate`,
`Lzx` and the other codec constants are the scaled windows, code widths and
tables; `Limits` holds the guards on sizes and counts and the lengths of a disc's
sectors, small enough that some damaged sample passes each. The million entries a ZIP
archive may announce is kept as it is, and a damaged sample announces one more.
A WIM resource that is packed in an archive without the LZX or XPRESS
flag is copied as it is, as the code does. ZIP64 end records are read, although
`docs/API_OPENER.md:99` still lists ZIP64 as unsupported.

### Runs

* `containers` - every sound sample by every door it may come by, and damaged
  ones by family (fields out of range, links that lead back, sizes that do not
  agree, streams cut or misled). What a file is decides which module opens it
  (`OpensAsWhatItIs`); the session's probe agrees with the factory
  (`ProbeAgrees`, with the exceptions its comment names); a sound file lists its
  members in order and a damaged one nothing that is not there
  (`ListsTheFile`); the content listed for a member decodes, whole, in each prefix and
  in each chunk a store may decode by itself, to the member's bytes (`PackedAsWritten`); any
  sequence of the reads asked of it returns a member's bytes whatever the
  stores kept (`ReadsTheMember`); opening ends (`OpeningEnds`).
* `containers_wim_chunk` - after a chunk that cannot be decoded was asked for,
  the sound chunk cached before it reads as zeros.

Fairness is stated as for volumes, with `Opening` for `Due`; the loops that open
a file are straight code. Deadlock is checked.

### Proved

`Containers_proofs` proves `Spec => [](PackedAsWritten => ReadsTheMember)` for any
files and any tables of the decoders (`CachesAreInvisible`). The premise says
nothing of caches: it is about single decodings that start from nothing, and
`containers` checks it in every state. The
theorem is what the stores add: what was decoded before, which prefix, which chunk,
in which order and how often it failed, does not show.
`FilesAssumption` says that what is asked is a member, a place and a length, and that
members hold sequences.

The inductive invariant is `StoresInvariant`: there is a store for each entry, it
keeps what a store of its member may keep (`Keeps`: a prefix, all or nothing, or the
chunk whose number it has; it failed only where the member was damaged), and the last
answer is right. Opening gives every entry a new store (`TurnKeeps`), and a read is
`EveryStoreReads`, one lemma per kind of store: `ReadsPlaces` (windows, chains, mini
streams, sectors), `ReadsDeflated` on `PrefixKept`, `ReadsShrunk`, and
`ReadsInChunks`, where each turn of the read loop (`ChunkTurn`) extends the range
read by at least a byte, so that the loop is done after as many turns as bytes were asked for.
The premise does not hold of a WIM member with a chunk that cannot be decoded, and
there the cache does show: `containers_wim_chunk`.

`OpensAsWhatItIs`, `ProbeAgrees`, `ListsTheFile` and `PackedAsWritten` are about what
the samples were made of, and `OpeningEnds` is liveness: these stay with TLC.

Sound samples stay clear of these, which the models keep: the factory never
detects XVA (TAR comes first in both detectors), a CUE sheet that comes as a
store looks for its tracks beside a temporary file, executables whose
new header is beyond the probe are probed as DOS programs, an `.img` FAT floppy
is probed as FAT; ZIP checks no CRC; a deflate
prefix decodes up to one symbol too far, so damage right behind what is asked
fails the read; LZX undoes E8 over the whole output of a CAB folder; PACK's
dictionary loses its oldest end once emptied, and its member chain can never come
back to an offset it has seen (`Os2PackModule.cpp:359`), because a link must lead
forward (line 199); TAR and CAB keep `..` in paths
that ZIP skips and PACK refuses; LE page numbers are decoded in two ways
(`rebuildLeObject`, `extractResourceLe`), so the LE sample has zero pages; LX
resources past their pages succeed with zeros; an XEX whose blocks are not LZX is
decrypted with the retail key whatever comes out, an unencrypted one in basic blocks
is taken as it is without the zeros between them, the value of a one-word XEX
header is taken for a place in the file, and an XEX whose resource table is malformed
lists what it found without the folders a sound one has.

Simplified: limits on decoded sizes that no small sample can reach (CAB's, FFU's);
bytes a failed decoder leaves behind are zeros; the texts made for XBE and CUE
are one made-up byte; a CUE sheet's tokens are lines that are fine or not, and the
files it names are found without case folding or symbolic links; FFU
partition bytes are computed when listed.

## Not modelled

`PROJECT.json` lists every component.

* Resource decoders (`decoder/resources`): conversions of one payload to pixels,
  glyphs or text. They keep no state but two font caches, and their inputs are
  whole images and fonts; a model of them would restate them. The routing in
  front of them is a table.
* Windows CE ROMs, the Siemens IMG and FWF parsers, STFS packages, RESX and PlayReady files, the tables of MSI and MSG documents and the
  boot stores: parsers of further fixed layouts, which the session sees as a listing and
  an outcome. XVA is unreachable behind TAR.
* The icon cache of `SettingsIcons`, the export dialogs and the layout of the window.
