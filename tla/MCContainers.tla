----------------------------- MODULE MCContainers -----------------------------
(***************************************************************************)
(* The container files TLC opens: sound ones of every kind, and damaged.   *)
(***************************************************************************)
EXTENDS SampleContents

SoundFiles == << ZipFile, Zip64, Tar, Cab, Szdd1, Pack1, Ole, WimFile, ZipBroken,
                Ne1, Ne2, Le1, Lx1, PeFile, PeImage, Xbe1, Xex1, Xex2, Xex3, Xex4,
                Mtf1, Sdi1, Wad1, Rom1, Rom2, Pup1, Xuiz1, Ea1, Fsf1, Ffu1, Ffu2, Mdf1, Mdf2, Mdf3, Cue1, Cue2, Eappx1 >> \o Packages

DamagedBy(sample, damage) == [i \in DOMAIN damage |-> Damaged(sample, damage[i])]
DamagedFiles ==
  [ne |-> DamagedBy(Ne1, SubSeq(NeDamage, 1, 7)) \o DamagedBy(Ne2, SubSeq(NeDamage, 8, 12)), le |-> DamagedBy(Le1, LeDamage),
   lx |-> DamagedBy(Lx1, LxDamage), pe |-> DamagedBy(PeFile, PeDamage), xbe |-> DamagedBy(Xbe1, XbeDamage),
   xex |-> DamagedBy(Xex1, XexDamage1) \o DamagedBy(Xex2, XexDamage2) \o DamagedBy(Xex3, XexDamage3),
   mtf |-> DamagedBy(Mtf1, MtfDamage), sdi |-> DamagedBy(Sdi1, SdiDamage), wad |-> DamagedBy(Wad1, WadDamage),
   romdir |-> DamagedBy(Rom1, RomDamage), pup |-> DamagedBy(Pup1, PupDamage), xuiz |-> DamagedBy(Xuiz1, XuizDamage),
   ea |-> DamagedBy(Ea1, EaDamage), fsf |-> DamagedBy(Fsf1, FsfDamage),
   ffu |-> DamagedBy(Ffu1, FfuDamage) \o DamagedBy(Ffu2, FfuDamage2), mdf |-> DamagedBy(Mdf1, MdfDamage),
   cue |-> DamagedBy(Cue1, CueDamage), eappx |-> DamagedBy(Eappx1, EappxDamage) \o << EappxLoop >>,
   wim |-> << WimBroken >>, zip |-> DamagedBy(ZipFile, ZipDamage), tar |-> DamagedBy(Tar, TarDamage), cab |-> DamagedBy(Cab, CabDamage),
   szdd |-> DamagedBy(Szdd1, SzddDamage), pack |-> DamagedBy(Pack1, PackDamage),
   chain |-> DamagedBy(Pack1, PackChains), ole |-> DamagedBy(Ole, OleDamage),
   tree |-> DamagedBy(Ole, OleTrees), fat |-> DamagedBy(Ole, OleChains)]

MCFiles == {<<"sound", i>> : i \in DOMAIN SoundFiles}
           \cup {<<"other", i>> : i \in DOMAIN Contents}
           \cup UNION {{<<k, i>> : i \in DOMAIN DamagedFiles[k]} : k \in DOMAIN DamagedFiles \ {"wim"}}
MCFileOf(name) ==
  IF name[1] = "sound" THEN SoundFiles[name[2]]
  ELSE IF name[1] = "other" THEN Contents[name[2]] ELSE DamagedFiles[name[1]][name[2]]
MCWimFiles == {<<"wim", 1>>}
=============================================================================
