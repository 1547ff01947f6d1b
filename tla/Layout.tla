------------------------------- MODULE Layout -------------------------------
(***************************************************************************)
(* Which partition is which.  The partitioner numbers the partitions by    *)
(* the order in which it creates them; formatting, mounting, the boot      *)
(* loader and the saved state each compute the numbers again from the      *)
(* configuration.  A device is a pair <<disk, number>>.                    *)
(***************************************************************************)
EXTENDS Integers, Sequences

CONSTANT None       \* no partition

(* The part of the configuration the disk code reads; mounts are the       *)
(* partitions mapped by hand, used with the manual scheme only.            *)
IsSwapPart(c) == c.swap = "partition"
IsManual(c) == c.scheme = "manual"

(* What parted creates on an empty disk: the partitions in order, each from *)
(* its first MiB to its last (100% is the size of the disk).                *)
EndOfDisk == 1000000

Created(c) ==
    LET first == IF c.firmware = "uefi"
                 THEN [role |-> "efi", from |-> 1, to |-> 513]
                 ELSE [role |-> "bios_grub", from |-> 1, to |-> 2]
        swap == [role |-> "swap", from |-> first.to, to |-> first.to + c.swapSize]
        root(from) == [role |-> "root", from |-> from, to |-> EndOfDisk]
    IN  IF IsSwapPart(c) THEN << first, swap, root(swap.to) >>
        ELSE << first, root(first.to) >>

(* Wrong: root is taken to be the second partition with and without swap. *)
RootAlwaysSecond(c) ==
    IF IsManual(c) THEN c.mounts.root ELSE << c.disk, 2 >>

RootPartition(c) ==
    IF IsManual(c) THEN c.mounts.root
    ELSE IF IsSwapPart(c) THEN << c.disk, 3 >> ELSE << c.disk, 2 >>

Only(b, S) == IF b THEN S ELSE {}

(* The partitions mapped by hand, as pairs of a role and a device. *)
ByHand(c) ==
    { << IF m = "boot" THEN "efi" ELSE m, c.mounts[m] >> :
        m \in { m \in DOMAIN c.mounts : c.mounts[m] # None } }

(* FormatDisks: the file systems made. *)
Formatted(c) ==
    IF IsManual(c) THEN ByHand(c)
    ELSE { << "root", RootPartition(c) >> }
           \cup Only(c.firmware = "uefi", { << "efi", << c.disk, 1 >> >> })
           \cup Only(IsSwapPart(c), { << "swap", << c.disk, 2 >> >> })

(* MountDisks: what is mounted, and what swapped on.  Without a root the   *)
(* manual layout is refused.                                               *)
Mounted(c) ==
    IF IsManual(c)
    THEN Only(c.mounts.root # None,
              { << "root", c.mounts.root >> }
                \cup Only(c.mounts.boot # None, { << "efi", c.mounts.boot >> })
                \cup Only(c.mounts.swap # None, { << "swap", c.mounts.swap >> }))
    ELSE { << "root", RootPartition(c) >> }
           \cup Only(c.firmware = "uefi", { << "efi", << c.disk, 1 >> >> })
           \cup Only(IsSwapPart(c), { << "swap", << c.disk, 2 >> >> })

(* partitionRoles: what the saved state records by PARTUUID. *)
Roles(c) ==
    IF IsManual(c) THEN ByHand(c)
    ELSE { << "root", RootPartition(c) >> }
           \cup Only(c.firmware = "uefi", { << "efi", << c.disk, 1 >> >> })
           \cup Only(IsSwapPart(c), { << "swap", << c.disk, 2 >> >> })

(* remapDevices after a reboot in which disk d came up as name[d]: the     *)
(* partitions are found by PARTUUID, the disk is that of root, a manual    *)
(* layout takes the new names, a guided one must match them.               *)
Now(name, dev) == << name[dev[1]], dev[2] >>

Remapped(c, name) ==
    LET moved == [ c EXCEPT !.disk = Now(name, RootPartition(c))[1] ]
    IN  IF IsManual(c)
        THEN [ moved EXCEPT !.mounts =
                 [ m \in DOMAIN c.mounts |->
                     IF c.mounts[m] = None THEN None ELSE Now(name, c.mounts[m]) ] ]
        ELSE moved

RemapAccepts(c, name) ==
    IsManual(c)
      \/ Roles(Remapped(c, name)) = { << r[1], Now(name, r[2]) >> : r \in Roles(c) }

-----------------------------------------------------------------------------
(* Every use of a partition names one of the role it was created in.       *)
RightRoles(c, used) ==
    \A u \in used :
        /\ u[2][1] = c.disk
        /\ u[2][2] \in 1..Len(Created(c))
        /\ Created(c)[u[2][2]].role = u[1]

(* Formatting, mounting and the saved state agree with the partitioner on  *)
(* which partition is which, and nothing is mounted that was not formatted.*)
Agrees(c) ==
    /\ ~ IsManual(c) => RightRoles(c, Formatted(c)) /\ RightRoles(c, Roles(c))
                          /\ RightRoles(c, { << "root", RootPartition(c) >> })
    /\ Mounted(c) = Formatted(c) /\ Roles(c) = Formatted(c)

(* Whatever names the disks come up with, the saved layout is recognised   *)
(* and leads to the same partitions.                                       *)
Follows(c, name) ==
    /\ RemapAccepts(c, name)
    /\ Roles(Remapped(c, name)) = { << r[1], Now(name, r[2]) >> : r \in Roles(c) }
=============================================================================
