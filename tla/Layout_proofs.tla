---------------------------- MODULE Layout_proofs ----------------------------
(***************************************************************************)
(* Layout's two properties for every configuration, disk and renaming,     *)
(* where the runs have two disks and a few partition tables.               *)
(***************************************************************************)
EXTENDS Layout, TLAPS

MountPoints == {"root", "boot", "swap"}

(* A configuration the wizard lets through, as far as the disk code reads  *)
(* it: with the manual scheme a root partition has been chosen.            *)
IsConfig(c) ==
    /\ {"disk", "scheme", "firmware", "swap", "mounts"} \subseteq DOMAIN c
    /\ c.scheme \in {"guided", "manual"}
    /\ c.firmware \in {"uefi", "bios"}
    /\ c.mounts = [m \in MountPoints |-> c.mounts[m]]
    /\ IsManual(c) => c.mounts.root # None

(* A guided root is where the partitioner put it. *)
LEMMA RootIsRoot ==
    ASSUME NEW c, IsConfig(c), ~ IsManual(c)
    PROVE  RightRoles(c, { << "root", RootPartition(c) >> })
BY DEF IsConfig, IsManual, RightRoles, RootPartition, Created

(* So are the ESP and the swap partition. *)
LEMMA OthersAreTheirs ==
    ASSUME NEW c, IsConfig(c), ~ IsManual(c)
    PROVE  /\ c.firmware = "uefi" => RightRoles(c, { << "efi", << c.disk, 1 >> >> })
           /\ IsSwapPart(c) => RightRoles(c, { << "swap", << c.disk, 2 >> >> })
BY DEF IsConfig, IsManual, RightRoles, Created

(***************************************************************************)
(* Formatting, mounting and the saved state agree with the partitioner on  *)
(* which partition is which, for every configuration.                      *)
(***************************************************************************)
THEOREM LayoutAgrees ==
    ASSUME NEW c, IsConfig(c)
    PROVE  Agrees(c)
<1>1. CASE IsManual(c)
  <2>1. /\ DOMAIN c.mounts = MountPoints
        /\ c.mounts.root # None
    BY <1>1 DEF IsConfig
  <2>2. \A r : r \in ByHand(c) <=>
          \/ r = << "root", c.mounts.root >>
          \/ c.mounts.boot # None /\ r = << "efi", c.mounts.boot >>
          \/ c.mounts.swap # None /\ r = << "swap", c.mounts.swap >>
    BY <2>1 DEF ByHand, MountPoints
  <2>3. \A r : r \in Mounted(c) <=> r \in ByHand(c)
    BY <1>1, <2>1, <2>2 DEF Mounted, Only
  <2>4. Mounted(c) = ByHand(c)
    BY <2>3
  <2> QED
    BY <1>1, <2>4 DEF Agrees, Formatted, Roles
<1>2. CASE ~ IsManual(c)
  <2>1. Mounted(c) = Formatted(c) /\ Roles(c) = Formatted(c)
    BY <1>2 DEF Mounted, Formatted, Roles
  <2>2. RightRoles(c, Formatted(c))
    BY <1>2, RootIsRoot, OthersAreTheirs DEF Formatted, Only, RightRoles
  <2> QED
    BY <1>2, <2>1, <2>2, RootIsRoot DEF Agrees
<1> QED
  BY <1>1, <1>2

-----------------------------------------------------------------------------
(* A renamed partition is still one: None is no pair of a disk and a       *)
(* number.                                                                 *)
StaysSome(c, name) ==
    IsManual(c) => \A m \in MountPoints :
        c.mounts[m] # None => Now(name, c.mounts[m]) # None

(* Renaming the disks renames the partitions mapped by hand, and loses     *)
(* none.                                                                   *)
LEMMA RenamedByHand ==
    ASSUME NEW c, IsConfig(c), IsManual(c), NEW name, StaysSome(c, name)
    PROVE  /\ IsManual(Remapped(c, name))
           /\ ByHand(Remapped(c, name)) =
                 { << r[1], Now(name, r[2]) >> : r \in ByHand(c) }
<1> DEFINE renamed == Remapped(c, name)
           mapped == { m \in DOMAIN c.mounts : c.mounts[m] # None }
<1>1. IsManual(renamed)
  BY DEF Remapped, IsManual, IsConfig
<1>2. renamed.mounts = [m \in DOMAIN c.mounts |->
         IF c.mounts[m] = None THEN None ELSE Now(name, c.mounts[m])]
  BY DEF Remapped, IsManual, IsConfig
<1>3. \A m \in DOMAIN c.mounts : renamed.mounts[m] # None <=> c.mounts[m] # None
  BY <1>2 DEF StaysSome, IsConfig
<1>4. /\ { m \in DOMAIN renamed.mounts : renamed.mounts[m] # None } = mapped
      /\ \A m \in mapped : renamed.mounts[m] = Now(name, c.mounts[m])
  BY <1>2, <1>3
<1>5. ByHand(renamed) =
        { << IF m = "boot" THEN "efi" ELSE m, Now(name, c.mounts[m]) >> : m \in mapped }
  BY <1>4 DEF ByHand
<1>6. ByHand(c) = { << IF m = "boot" THEN "efi" ELSE m, c.mounts[m] >> : m \in mapped }
  BY DEF ByHand
<1>7. { << r[1], Now(name, r[2]) >> : r \in ByHand(c) } =
        { << IF m = "boot" THEN "efi" ELSE m, Now(name, c.mounts[m]) >> : m \in mapped }
  <2> DEFINE entry(m) == << IF m = "boot" THEN "efi" ELSE m, c.mounts[m] >>
             moved(r) == << r[1], Now(name, r[2]) >>
             new(m)   == << IF m = "boot" THEN "efi" ELSE m, Now(name, c.mounts[m]) >>
  <2>1. \A m \in mapped : moved(entry(m)) = new(m)
    OBVIOUS
  <2>2. ByHand(c) = { entry(m) : m \in mapped }
    BY <1>6
  <2> HIDE DEF entry, moved, new, mapped
  <2>3. { moved(r) : r \in ByHand(c) } = { new(m) : m \in mapped }
    BY <2>1, <2>2
  <2> QED
    BY <2>3 DEF moved, new
<1> QED
  BY <1>1, <1>5, <1>7

(***************************************************************************)
(* Whatever names the disks come up with, the saved layout is recognised   *)
(* and leads to the partitions it was saved for.                           *)
(***************************************************************************)
THEOREM LayoutFollows ==
    ASSUME NEW c, IsConfig(c), NEW name, StaysSome(c, name)
    PROVE  Follows(c, name)
<1>1. CASE IsManual(c)
  BY <1>1, RenamedByHand DEF Follows, RemapAccepts, Roles
<1>2. CASE ~ IsManual(c)
  <2>1. /\ ~ IsManual(Remapped(c, name))
        /\ Remapped(c, name).disk = name[c.disk]
        /\ Remapped(c, name).firmware = c.firmware
        /\ Remapped(c, name).swap = c.swap
    BY <1>2 DEF IsConfig, Remapped, IsManual, IsSwapPart, RootPartition, Now
  <2>2. Roles(Remapped(c, name)) = { << r[1], Now(name, r[2]) >> : r \in Roles(c) }
    <3> DEFINE root(d) == << "root", << d, IF IsSwapPart(c) THEN 3 ELSE 2 >> >>
               esp(d)  == << "efi", << d, 1 >> >>
               swap(d) == << "swap", << d, 2 >> >>
               moved(r) == << r[1], Now(name, r[2]) >>
               uefi == c.firmware = "uefi"
               roles(d) == {root(d)} \cup Only(uefi, {esp(d)})
                                     \cup Only(IsSwapPart(c), {swap(d)})
    <3>1. Roles(c) = roles(c.disk)
      BY <1>2 DEF Roles, RootPartition
    <3>2. Roles(Remapped(c, name)) = roles(name[c.disk])
      BY <2>1 DEF Roles, RootPartition, IsSwapPart
    <3>3. \A d : /\ moved(root(d)) = root(name[d])
                /\ moved(esp(d)) = esp(name[d])
                /\ moved(swap(d)) = swap(name[d])
      BY DEF Now
    <3>4. \A d, r : r \in roles(d) <=>
             \/ r = root(d)
             \/ uefi /\ r = esp(d)
             \/ IsSwapPart(c) /\ r = swap(d)
      BY DEF Only
    <3> HIDE DEF root, esp, swap, moved, uefi, roles
    <3>5. \A x : x \in { moved(r) : r \in roles(c.disk) } <=> x \in roles(name[c.disk])
      BY <3>3, <3>4
    <3>6. roles(name[c.disk]) = { moved(r) : r \in roles(c.disk) }
      BY <3>5 DEF roles
    <3>7. Roles(Remapped(c, name)) = { moved(r) : r \in Roles(c) }
      BY <3>1, <3>2, <3>6
    <3> QED
      BY <3>7 DEF moved
  <2> QED
    BY <2>2 DEF Follows, RemapAccepts
<1> QED
  BY <1>1, <1>2
=============================================================================
