---------------------------- MODULE Removal_proofs ----------------------------
(***************************************************************************)
(* What an install leaves behind: no copy of the state when it is over,    *)
(* nothing held when it has failed, and its record on the target until     *)
(* then.                                                                   *)
(***************************************************************************)
EXTENDS ResumableInstall_proofs

(* A step of the loop has the target mounted when it removes the state. *)
LEMMA RemovalMounted ==
    ASSUME Control, pc = "step", Key = "remove-state"
    PROVE  "root" \in held /\ (Uefi => "esp" \in held)
<1>1. /\ TypeOK /\ LoopOrdered /\ MountsKept
      /\ mem.cfg \in Configs /\ at \in 1..Len(Plan[mem.cfg])
  BY KeyType DEF Control
<1>2. \E j \in 1..(at - 1) : Plan[mem.cfg][j] = "mount-disks"
  BY <1>1, RemovalAssumption DEF Before, Key
<1>3. MountedIn(mem)
  BY <1>1, <1>2 DEF LoopOrdered, Active, MountedIn
<1>4. Target(mem.cfg) \subseteq held
  BY <1>1, <1>3 DEF MountsKept
<1> QED
  BY <1>1, <1>4, FirmwareAssumption DEF Target, Root, Esp, Uefi

LEMMA RemovalInit == Init => Removal
BY DEF Init, Removal, EspIsUefi, RemovalUnrecorded, RemovalInOrder, RemovedForGood,
   DoneHasRemoved, Active, Stored

(* The commands that write to the ESP exist only with one. *)
LEMMA EspCommands ==
    ASSUME TypeOK, EspIsUefi, NEW s \in State
    PROVE  /\ MountCommands(s.cfg) \cap {"mount-esp", "write-esp", "rename-esp"} # {} => Uefi
           /\ SaveCommands(s) \cap {"mount-esp", "write-esp", "rename-esp"} # {} => Uefi
           /\ RestoreCommands(s) \cap {"mount-esp", "write-esp", "rename-esp"} # {} => Uefi
           /\ \A k : StepCommands(k, s.cfg) \cap {"mount-esp", "write-esp", "rename-esp"} # {}
                       => Uefi
<1>1. s.cfg \in Configs
  BY DEF State
<1>2. MountCommands(s.cfg) \cap {"mount-esp", "write-esp", "rename-esp"} # {} => Uefi
  BY <1>1 DEF MountCommands, Uefi
<1>3. SaveCommands(s) \cap {"mount-esp", "write-esp", "rename-esp"} # {} => Uefi
  BY DEF SaveCommands, EspIsUefi
<1>4. RestoreCommands(s) \cap {"mount-esp", "write-esp", "rename-esp"} # {} => Uefi
  BY <1>2 DEF RestoreCommands
<1>5. \A k : StepCommands(k, s.cfg) \cap {"mount-esp", "write-esp", "rename-esp"} # {} => Uefi
  BY <1>2 DEF StepCommands, ReleaseCommands, ReleaseDisk, FormatCommands
<1> QED
  BY <1>2, <1>3, <1>4, <1>5

(* An ESP appears nowhere but on a UEFI machine. *)
LEMMA EspIsUefiNext ==
    ASSUME Control, EspIsUefi, [Next]_vars
    PROVE  EspIsUefi'
<1>0. TypeOK
  BY DEF Control
<1>1. ASSUME NEW c \in Configs, Launch(c) PROVE EspIsUefi'
  <2>1. mem' \in State /\ todo' = SaveCommands(mem')
    BY <1>0, <1>1, TypeNext DEF Launch, Next, TypeOK, State
  <2>2. UNCHANGED <<held, stub>>
    BY <1>1 DEF Launch, copies, target
  <2> QED
    BY <1>0, <2>1, <2>2, EspCommands DEF EspIsUefi
<1>2. CASE Resume
  <2>1. PICK s \in Found : held' = HeldAfterScan(s) /\ todo' = SaveCommands(s)
    BY <1>2 DEF Resume
  <2>2. s \in State /\ ("esp" \in held' => "esp" \in held) /\ stub' = stub
    BY <1>0, <1>2, <2>1 DEF Found, TypeOK, HeldAfterScan, Resume, copies
  <2> QED
    BY <1>0, <2>1, <2>2, EspCommands DEF EspIsUefi
<1>3. CASE Confirm \/ SaveEnds \/ BeginStep \/ StepSucceeds \/ SoftStepFails
  <2>1. mem \in State /\ UNCHANGED <<held, stub>>
    BY <1>0, <1>3 DEF Confirm, SaveEnds, BeginStep, StepSucceeds, SoftStepFails, TypeOK,
       target, copies
  <2>2. CASE StepSucceeds \/ SoftStepFails
    <3>1. mem' \in State /\ todo' \in {SaveCommands(mem'), {}}
      BY <1>0, <2>2, MarkDoneType DEF StepSucceeds, SoftStepFails, MarkDone
    <3> QED
      BY <1>0, <2>1, <3>1, EspCommands DEF EspIsUefi
  <2>3. CASE Confirm \/ SaveEnds \/ BeginStep
    <3>1. \/ todo' \in {SaveCommands(mem), RestoreCommands(mem), {}}
          \/ todo' = StepCommands(Key, mem.cfg)
      BY <2>3 DEF Confirm, SaveEnds, BeginStep
    <3> QED
      BY <1>0, <2>1, <3>1, EspCommands DEF EspIsUefi
  <2> QED
    BY <1>3, <2>2, <2>3
<1>4. CASE Capture \/ WriteTmp \/ RenameLocal \/ RenameDisk \/ SaveFails
  BY <1>4 DEF Capture, WriteTmp, RenameLocal, RenameDisk, SaveFails, Exit, Do, target, copies,
     EspIsUefi
<1>5. CASE RenameStub
  BY <1>5 DEF RenameStub, Do, Due, target, EspIsUefi
<1>6. CASE Mounts
  BY <1>6 DEF Mounts, OpenLuks, MountRoot, MountEsp, Swapon, SwaponFile, Mounted, Do, Due,
     RestoreFails, RestoreEnds, target, copies, EspIsUefi
<1>7. CASE Releases
  BY <1>7 DEF Releases, Swapoff, Umount, CloseLuks, Released, Do, ReleaseFails, ReleaseEnds,
     target, copies, EspIsUefi
<1>8. CASE DiskSteps
  BY <1>8 DEF DiskSteps, Partition, FormatEsp, FormatSwap, FormatLuks, FormatRoot, Do,
     RemoveStub, RemoveLocal, RemoveDisk, NewTable, EspLost, RootLost, target, copies, EspIsUefi
<1>9. CASE HardStepFails
  <2>1. todo' \subseteq ReleaseCommands
    BY <1>9 DEF HardStepFails, ReleaseDisk
  <2>2. held' \in {held, held \cup {"root"}} /\ stub' \in {stub, 0}
    BY <1>9, LeftMountedIs DEF HardStepFails, DiskKept, Mangled, NewTable, EspLost, RootLost
  <2> QED
    BY <2>1, <2>2 DEF EspIsUefi, ReleaseCommands
<1>10. CASE SkipDone \/ InstallDone \/ Quit \/ Decline \/ EditPartitions \/ ResumeRefused
  BY <1>10 DEF SkipDone, InstallDone, Quit, Decline, EditPartitions, Starting, ResumeRefused,
     HeldAfterScan, NewTable, Exit, run, target, copies, EspIsUefi
<1>11. CASE OrphanEnds \/ Reboot \/ UNCHANGED vars
  BY <1>11 DEF OrphanEnds, Reboot, DiskKept, RootLost, vars, run, target, copies, EspIsUefi
<1>12. CASE Kill
  <2>1. held' \in {held, held \cup {"root"}} /\ stub' \in {stub, 0} /\ todo' = {}
    BY <1>12, LeftMountedIs DEF Kill, DiskKept, Mangled, NewTable, EspLost, RootLost, Exit
  <2> QED
    BY <2>1 DEF EspIsUefi
<1> QED
  BY <1>1, <1>2, <1>3, <1>4, <1>5, <1>6, <1>7, <1>8, <1>9, <1>10, <1>11, <1>12
  DEF Next, Saves, Loop, Idle

(* A save records the state in memory, which has not been removed. *)
LEMMA RemovalUnrecordedNext ==
    ASSUME Removal, [Next]_vars
    PROVE  RemovalUnrecorded'
<1>1. pc = "save" => "remove-state" \notin mem.done
  BY DEF Removal, RemovedForGood, Active
<1>2. RemovalUnrecorded
  BY DEF Removal
<1> QED
  BY <1>1, <1>2, CopiesNext DEF RemovalUnrecorded, Stored

(* The three commands of the removal, each with the target mounted. *)
LEMMA RemovalInOrderNext ==
    ASSUME Control, Removal, [Next]_vars
    PROVE  RemovalInOrder'
<1> SUFFICES ASSUME pc' = "step", Key' = "remove-state"
             PROVE  RemovalInOrder'
  BY DEF RemovalInOrder
<1>0. TypeOK /\ StepTodo /\ EspIsUefi /\ RemovalInOrder
  BY DEF Control, Removal
<1>1. CASE BeginStep
  BY <1>1 DEF BeginStep, StepCommands, Key, RemovalInOrder
<1>2. CASE RemoveStub
  <2>1. Key = "remove-state" /\ pc = "step"
    BY <1>2 DEF RemoveStub, Key
  <2>2. stub' = 0
    BY <1>0, <1>2, <2>1, RemovalMounted DEF RemoveStub, EspIsUefi
  <2> QED
    BY <1>0, <1>2, <2>1, <2>2 DEF RemoveStub, Do, RemovalInOrder
<1>3. CASE RemoveLocal
  <2>1. Key = "remove-state" /\ pc = "step"
    BY <1>3 DEF RemoveLocal, Key
  <2> QED
    BY <1>0, <1>3, <2>1 DEF RemoveLocal, Do, RemovalInOrder
<1>4. CASE RemoveDisk
  <2>1. Key = "remove-state" /\ pc = "step"
    BY <1>4 DEF RemoveDisk, Key
  <2>2. disk' = None
    BY <1>4, <2>1, RemovalMounted DEF RemoveDisk
  <2> QED
    BY <1>0, <1>4, <2>1, <2>2 DEF RemoveDisk, Do, RemovalInOrder
<1>5. CASE pc = "step" /\ Key' = Key /\ todo' \subseteq todo
           /\ (todo \ todo') \cap {"rm-stub", "rm-local", "rm-disk"} = {}
  <2>1. local' \in {local, None} /\ disk' \in {disk, None} /\ stub' \in {stub, 0}
    BY <1>5, CopiesNext
  <2> QED
    BY <1>0, <1>5, <2>1 DEF RemovalInOrder
<1>6. CASE OpenLuks \/ MountRoot \/ MountEsp \/ Swapon \/ SwaponFile
             \/ Swapoff \/ Umount \/ CloseLuks \/ ReleaseFails
             \/ Partition \/ FormatEsp \/ FormatSwap \/ FormatLuks \/ FormatRoot
  <2>1. /\ pc' = pc /\ UNCHANGED <<mem, at>>
        /\ todo' \subseteq todo
        /\ (todo \ todo') \cap {"rm-stub", "rm-local", "rm-disk"} = {}
    BY <1>6 DEF OpenLuks, MountRoot, MountEsp, Swapon, SwaponFile, Mounted, Do,
       Swapoff, Umount, CloseLuks, Released, ReleaseFails,
       Partition, FormatEsp, FormatSwap, FormatLuks, FormatRoot
  <2> QED
    BY <1>5, <2>1 DEF Key
<1>7. CASE OrphanEnds \/ UNCHANGED vars
  BY <1>5, <1>7 DEF OrphanEnds, vars, run, Key
<1>8. CASE Saves \/ RestoreFails \/ RestoreEnds \/ ReleaseEnds
  BY <1>0, <1>8 DEF Saves, Capture, WriteTmp, RenameLocal, RenameDisk, RenameStub, SaveFails,
     SaveEnds, Exit, RestoreFails, RestoreEnds, ReleaseEnds, TypeOK
<1>9. CASE SkipDone \/ InstallDone \/ StepSucceeds \/ SoftStepFails \/ HardStepFails
  BY <1>9 DEF SkipDone, InstallDone, StepSucceeds, SoftStepFails, MarkDone, HardStepFails
<1>10. CASE EditPartitions \/ ResumeRefused \/ Resume \/ Confirm \/ Decline \/ Quit \/ Kill
              \/ Reboot \/ \E c \in Configs : Launch(c)
  BY <1>10 DEF EditPartitions, Starting, ResumeRefused, Resume, Confirm, Decline, Quit, Kill,
     Exit, Reboot, Launch, run
<1> QED
  BY <1>1, <1>2, <1>3, <1>4, <1>6, <1>7, <1>8, <1>9, <1>10
  DEF Next, Mounts, Releases, DiskSteps, Loop, Idle

(* Once removed, the state is never saved again. *)
LEMMA RemovedForGoodNext ==
    ASSUME Control, Removal, [Next]_vars
    PROVE  RemovedForGood' /\ DoneHasRemoved'
<1>0. TypeOK /\ LoopOrdered /\ RemovalUnrecorded /\ RemovalInOrder /\ RemovedForGood
      /\ DoneHasRemoved
  BY DEF Control, Removal
<1>1. CASE pc' = "off"
  BY <1>1 DEF RemovedForGood, DoneHasRemoved, Active
<1>2. CASE pc = "off" /\ pc' = "save" /\ (mem'.done = {} \/ mem' \in Stored)
  BY <1>0, <1>2 DEF RemovedForGood, DoneHasRemoved, RemovalUnrecorded, Active
<1>3. CASE pc = "step" /\ pc' \in {"save", "run"} /\ MarkDone
             /\ (todo = {} \/ Key \in Soft) /\ UNCHANGED copies
  <2>1. mem'.done = mem.done \cup {Key}
    BY <1>0, <1>3, MarkDoneFacts
  <2>2. CASE Key = "remove-state"
    <3>1. local = None /\ disk = None /\ stub = 0
      BY <1>0, <1>3, <2>2, SoftAssumption DEF RemovalInOrder
    <3>2. saving' = FALSE /\ pc' = "run"
      BY <1>3, <2>2 DEF MarkDone
    <3> QED
      BY <1>3, <3>1, <3>2 DEF RemovedForGood, DoneHasRemoved, copies
  <2>3. CASE Key # "remove-state" /\ "remove-state" \in mem.done
    <3>1. ~ saving /\ local = None /\ disk = None /\ stub = 0
      BY <1>0, <1>3, <2>3 DEF RemovedForGood, Active
    <3>2. ~ saving' /\ pc' = "run"
      BY <1>3, <3>1 DEF MarkDone
    <3> QED
      BY <1>3, <3>1, <3>2 DEF RemovedForGood, DoneHasRemoved, copies
  <2>4. CASE Key # "remove-state" /\ "remove-state" \notin mem.done
    BY <1>3, <2>1, <2>4 DEF RemovedForGood, DoneHasRemoved
  <2> QED
    BY <2>2, <2>3, <2>4
<1>4. CASE /\ pc # "off" /\ mem'.done = mem.done /\ saving' = saving
           /\ pc' \in {"save", "ask", "restore"} => pc \in {"save", "ask", "restore"}
           /\ pc' = "done" => pc = "done" \/ InstallDone
  <2>1. RemovedForGood'
    BY <1>0, <1>4, CopiesNext DEF RemovedForGood, Active
  <2>2. InstallDone => "remove-state" \in mem.done
    <3> SUFFICES ASSUME InstallDone PROVE "remove-state" \in mem.done
      OBVIOUS
    <3>1. pc = "run" /\ at > Len(Plan[mem.cfg]) /\ mem.cfg \in Configs
      BY <1>0 DEF InstallDone, TypeOK, State
    <3>2. PICK i \in 1..Len(Plan[mem.cfg]) : Plan[mem.cfg][i] = "remove-state"
      BY <3>1, RemovalAssumption
    <3>3. i \in 1..(at - 1)
      BY <1>0, <3>1, <3>2, PlanAssumption DEF TypeOK
    <3> QED
      BY <1>0, <3>1, <3>2, <3>3 DEF LoopOrdered, Active
  <2>3. DoneHasRemoved'
    BY <1>0, <1>4, <2>2 DEF DoneHasRemoved
  <2> QED
    BY <2>1, <2>3
<1> QED
  BY <1>0, <1>1, <1>2, <1>3, <1>4, MemoryNext

-----------------------------------------------------------------------------
(***************************************************************************)
(* The removal: no copy records remove-state, its three commands leave     *)
(* nothing behind them, and once it is done no save writes again, whatever *)
(* the partitioning scheme and whatever fails, is killed or reboots.       *)
(***************************************************************************)
THEOREM RemovalKept == Spec => []Removal
<1>1. Init => Removal
  BY RemovalInit
<1>2. Control /\ Removal /\ [Next]_vars => Removal'
  BY EspIsUefiNext, RemovalUnrecordedNext, RemovalInOrderNext, RemovedForGoodNext DEF Removal
<1> QED
  BY <1>1, <1>2, ControlInvariant, PTL DEF Spec

(***************************************************************************)
(* When the install is over, no copy of the state, with every password in  *)
(* it, is left in /tmp, on the target or on the ESP, whichever runs wrote  *)
(* them.                                                                   *)
(***************************************************************************)
THEOREM NoCopyIsLeft == Spec => []NoCopyLeft
<1>1. Removal => NoCopyLeft
  BY DEF Removal, RemovedForGood, DoneHasRemoved, NoCopyLeft, Active
<1> QED
  BY <1>1, RemovalKept, PTL

-----------------------------------------------------------------------------
(* What a failed run leaves held.                                          *)

(* A step below the target has the root mounted. *)
LEMMA RootMounted ==
    ASSUME Control, pc = "run", at <= Len(Plan[mem.cfg]), Key = "setup-swap"
    PROVE  "root" \in held
<1>1. TypeOK /\ LoopOrdered /\ MountsKept
  BY DEF Control
<1>2. mem.cfg \in Configs /\ Plan[mem.cfg] \in Seq(Keys) /\ at \in 1..Len(Plan[mem.cfg])
  BY <1>1, PlanAssumption DEF TypeOK, State
<1>3. Key \in Keys /\ OnTarget(Key)
  BY <1>2 DEF Key, OnTarget, OffTarget
<1>4. \E j \in 1..(at - 1) : Plan[mem.cfg][j] = "mount-disks"
  BY <1>2, <1>3, PlanAssumption DEF Before, Key
<1>5. MountedIn(mem)
  BY <1>1, <1>4 DEF LoopOrdered, Active, MountedIn
<1> QED
  BY <1>1, <1>2, <1>5 DEF MountsKept, Target, Root

(* Mounting and releasing are separate lists of commands, and each mounts  *)
(* the root first.                                                         *)
LEMMA StepLists ==
    ASSUME NEW k, k # "setup-swap", NEW c
    PROVE  StepCommands(k, c) \cap {"mount-esp", "swapon", "swapon-file"} # {} =>
               /\ StepCommands(k, c) \cap ReleaseCommands = {}
               /\ "mount-root" \in StepCommands(k, c)
               /\ "swapon" \in StepCommands(k, c) => SwapPart(c)
BY DEF StepCommands, MountCommands, ReleaseDisk, ReleaseCommands, FormatCommands

LEMMA RestoreLists ==
    ASSUME NEW s
    PROVE  RestoreCommands(s) \cap {"mount-esp", "swapon", "swapon-file"} # {} =>
               /\ RestoreCommands(s) \cap ReleaseCommands = {}
               /\ "mount-root" \in RestoreCommands(s)
               /\ "swapon" \in RestoreCommands(s) => SwapPart(s.cfg)
BY DEF RestoreCommands, MountCommands, ReleaseCommands

(* A step begins with its mounts or its releases still to do. *)
LEMMA ReleasableBegin ==
    ASSUME Control, Releasable, BeginStep
    PROVE  Releasable'
<1>1. /\ pc' = "step" /\ todo' = StepCommands(Key, mem.cfg)
      /\ UNCHANGED <<mem, held, orphan>> /\ mem.cfg \in Configs
  BY DEF BeginStep, target, outside, Control, TypeOK, State
<1>2. HeldIsSeen' /\ orphan' = "none"
  BY <1>1 DEF Releasable, HeldIsSeen
<1>3. ReleasedInOrder'
  <2>1. "umount" \in todo' => "swapoff" \in todo'
    BY <1>1 DEF StepCommands, ReleaseDisk, ReleaseCommands, FormatCommands, MountCommands
  <2> QED
    BY <1>1, <2>1 DEF ReleasedInOrder
<1>4. MountsInOrder'
  <2>1. CASE Key = "setup-swap"
    <3>1. todo' = {"swapon-file"} /\ "root" \in held
      BY <1>1, <2>1, RootMounted DEF StepCommands, BeginStep
    <3> QED
      BY <1>1, <3>1 DEF MountsInOrder, ReleaseCommands
  <2>2. CASE Key # "setup-swap"
    <3>1. StepCommands(Key, mem.cfg) \cap {"mount-esp", "swapon", "swapon-file"} # {} =>
               /\ StepCommands(Key, mem.cfg) \cap ReleaseCommands = {}
               /\ "mount-root" \in StepCommands(Key, mem.cfg)
               /\ "swapon" \in StepCommands(Key, mem.cfg) => SwapPart(mem.cfg)
      BY <2>2, StepLists
    <3> QED
      BY <1>1, <3>1 DEF MountsInOrder
  <2> QED
    BY <2>1, <2>2
<1> QED
  BY <1>2, <1>3, <1>4 DEF Releasable

(* Mounting adds below the root only what follows the root. *)
LEMMA ReleasableMounts ==
    ASSUME ReleasingWorks, Control, Releasable, Mounts
    PROVE  Releasable'
<1>0. /\ orphan = "none" /\ HeldIsSeen /\ MountsInOrder /\ ReleasedInOrder
      /\ pc # "off" => mem.cfg \in Configs
  BY DEF Releasable, Control, TypeOK, State
<1>1. CASE RestoreFails \/ RestoreEnds
  BY <1>0, <1>1 DEF RestoreFails, RestoreEnds, target, outside, Releasable, HeldIsSeen,
     MountsInOrder, ReleasedInOrder, Releasing
<1>2. ASSUME NEW x, Mounted(x), Mounting, NEW c, c \in todo, todo' = todo \ {c},
             c \notin ReleaseCommands,
             x \in {"luks", "root"} \/ "mount-root" \notin todo,
             \/ c = "luks-open" /\ x = "luks"
             \/ c = "mount-root" /\ x = "root"
             \/ c \in {"mount-esp", "swapon-file"} /\ x \in {"esp", "swap-file"}
             \/ c = "swapon" /\ x = "swap-part"
      PROVE  Releasable'
  <2>1. /\ held' = held \cup {x} /\ UNCHANGED <<pc, mem, orphan>>
        /\ pc \in {"restore", "step"}
    BY <1>2 DEF Mounted, Mounting, outside
  <2>2. x \notin {"luks", "root"} => /\ "root" \in held
                                     /\ todo \cap ReleaseCommands = {}
    BY <1>0, <1>2, <2>1 DEF MountsInOrder
  <2>3. x = "swap-part" => \A d \in Configs : SwapPart(d)
    BY <1>0, <1>2, <2>1 DEF MountsInOrder, ReleasingWorks
  <2>4. HeldIsSeen'
    BY <1>0, <1>2, <2>1, <2>2, <2>3 DEF HeldIsSeen, Swaps
  <2>5. MountsInOrder'
    BY <1>0, <1>2, <2>1 DEF MountsInOrder
  <2>6. ReleasedInOrder'
    BY <1>0, <1>2, <2>1, <2>2 DEF ReleasedInOrder, Releasing, Swaps, ReleaseCommands
  <2> QED
    BY <1>0, <2>1, <2>4, <2>5, <2>6 DEF Releasable
<1>3. CASE OpenLuks
  BY <1>2, <1>3 DEF OpenLuks, Do, Due, ReleaseCommands
<1>4. CASE MountRoot
  BY <1>2, <1>4 DEF MountRoot, Do, Due, ReleaseCommands
<1>5. CASE MountEsp
  BY <1>2, <1>5 DEF MountEsp, Do, Due, ReleaseCommands
<1>6. CASE Swapon
  BY <1>2, <1>6 DEF Swapon, Do, Due, ReleaseCommands
<1>7. CASE SwaponFile
  <2>1. "swapon-file" \in todo /\ todo \cap {"mount-root", "mount-esp", "swapon"} = {}
    BY <1>7 DEF SwaponFile, Do, Due
  <2> QED
    BY <1>2, <1>7, <2>1 DEF SwaponFile, Do, Due, ReleaseCommands
<1> QED
  BY <1>1, <1>3, <1>4, <1>5, <1>6, <1>7 DEF Mounts

(* Releasing switches swap off, unmounts and closes, in this order. *)
LEMMA ReleasableReleases ==
    ASSUME ReleasingWorks, Control, Releasable, Releases
    PROVE  Releasable'
<1>0. /\ orphan = "none" /\ HeldIsSeen /\ MountsInOrder /\ ReleasedInOrder
      /\ mem.cfg \in Configs /\ held \subseteq Holds
  <2>1. pc # "off"
    BY DEF Releases, Swapoff, Umount, CloseLuks, Releasing, ReleaseFails, ReleaseEnds
  <2> QED
    BY <2>1 DEF Releasable, Control, TypeOK, State
<1>1. ~ ReleaseFails
  BY DEF ReleaseFails, Fault, ReleasingWorks
<1>2. CASE ReleaseEnds
  BY <1>0, <1>2 DEF ReleaseEnds, target, outside, Releasable, HeldIsSeen, MountsInOrder,
     ReleasedInOrder, Releasing
<1>3. ASSUME NEW gone, Released(gone), Releasing, NEW c \in ReleaseCommands, c \in todo,
             todo' = todo \ {c}, HeldIsSeen', ReleasedInOrder'
      PROVE  Releasable'
  <2>1. UNCHANGED <<pc, mem, orphan>>
    BY <1>3 DEF Released, outside
  <2>2. MountsInOrder'
    BY <1>0, <1>3, <2>1 DEF MountsInOrder
  <2> QED
    BY <1>0, <1>3, <2>1, <2>2 DEF Releasable
<1>4. CASE Swapoff
  <2>1. /\ Releasing /\ "swapoff" \in todo /\ todo' = todo \ {"swapoff"}
        /\ Released({"swap-file"} \cup
                    IF SwapPart(mem.cfg) THEN {"swap-part"} ELSE {})
    BY <1>4 DEF Swapoff, Do, Due
  <2>2. held' \subseteq held \ Swaps /\ UNCHANGED <<pc, mem>>
        /\ held \ Swaps \subseteq held'
    BY <1>0, <2>1 DEF HeldIsSeen, Released, Swaps
  <2>3. HeldIsSeen'
    BY <1>0, <2>2 DEF HeldIsSeen, Swaps
  <2>4. ReleasedInOrder'
    BY <1>0, <2>1, <2>2 DEF ReleasedInOrder, Releasing
  <2> QED
    BY <1>3, <2>1, <2>3, <2>4 DEF ReleaseCommands
<1>5. CASE Umount
  <2>1. /\ Releasing /\ "umount" \in todo /\ "swapoff" \notin todo
        /\ todo' = todo \ {"umount"} /\ Released({"root", "esp"})
    BY <1>5 DEF Umount, Released, Do, Due, Fault, ReleasingWorks, outside
  <2>2. held' = held \ {"root", "esp"} /\ UNCHANGED <<pc, mem>> /\ held \cap Swaps = {}
    BY <1>0, <2>1 DEF ReleasedInOrder, Released
  <2>3. held' \subseteq {"luks"}
    BY <1>0, <2>2 DEF Holds, Swaps
  <2>4. HeldIsSeen'
    BY <2>3 DEF HeldIsSeen, Swaps
  <2>5. ReleasedInOrder'
    BY <1>0, <2>1, <2>2, <2>3 DEF ReleasedInOrder, Releasing
  <2> QED
    BY <1>3, <2>1, <2>4, <2>5 DEF ReleaseCommands
<1>6. CASE CloseLuks
  <2>1. /\ Releasing /\ "close" \in todo /\ {"swapoff", "umount"} \cap todo = {}
        /\ todo' = todo \ {"close"}
        /\ Released(IF held \cap {"root", "swap-file"} = {} /\ orphan = "none"
                    THEN {"luks"} ELSE {})
    BY <1>6 DEF CloseLuks, Do, Due
  <2>2. UNCHANGED <<pc, mem>> /\ held' \in {held, held \ {"luks"}}
        /\ (held \subseteq {"luks"} => held' = {})
    BY <1>0, <2>1 DEF Released
  <2>3. HeldIsSeen'
    BY <1>0, <2>2 DEF HeldIsSeen, Swaps
  <2>4. ReleasedInOrder'
    BY <1>0, <2>1, <2>2 DEF ReleasedInOrder, Releasing
  <2> QED
    BY <1>3, <2>1, <2>3, <2>4 DEF ReleaseCommands
<1> QED
  BY <1>1, <1>2, <1>4, <1>5, <1>6 DEF Releases

(* Whatever happens, ReleaseDisk can see what is held. *)
LEMMA ReleasableNext ==
    ASSUME ReleasingWorks, Control, Releasable, [Next]_vars
    PROVE  Releasable'
<1>0. orphan = "none" /\ HeldIsSeen /\ MountsInOrder /\ ReleasedInOrder /\ held \subseteq Holds
  BY DEF Releasable, Control, TypeOK
<1>1. ASSUME orphan' = "none", held' \in {held, held \cup {"luks"}, held \cup {"root"}, {}},
             pc' \notin {"step", "restore", "release"}
      PROVE  Releasable'
  BY <1>0, <1>1 DEF Releasable, HeldIsSeen, MountsInOrder, ReleasedInOrder, Releasing, Swaps
<1>2. ASSUME UNCHANGED <<pc, mem, held>>, orphan' = "none",
             todo' \subseteq todo, (todo \ todo') \cap ReleaseCommands = {},
             "mount-root" \in todo => "mount-root" \in todo'
      PROVE  Releasable'
  BY <1>0, <1>2 DEF Releasable, HeldIsSeen, MountsInOrder, ReleasedInOrder, Releasing,
     ReleaseCommands
<1>3. CASE Mounts
  BY <1>3, ReleasableMounts
<1>4. CASE Releases
  BY <1>4, ReleasableReleases
<1>5. CASE BeginStep
  BY <1>5, ReleasableBegin
<1>6. CASE SaveEnds /\ after = "restore"
  <2>1. /\ pc' = "restore" /\ todo' = RestoreCommands(mem)
        /\ UNCHANGED <<mem, held, orphan>> /\ mem.cfg \in Configs
    BY <1>6 DEF SaveEnds, target, outside, Control, TypeOK, State
  <2>2. RestoreCommands(mem) \cap {"mount-esp", "swapon", "swapon-file"} # {} =>
               /\ RestoreCommands(mem) \cap ReleaseCommands = {}
               /\ "mount-root" \in RestoreCommands(mem)
               /\ "swapon" \in RestoreCommands(mem) => SwapPart(mem.cfg)
    BY RestoreLists
  <2>3. MountsInOrder'
    BY <2>1, <2>2 DEF MountsInOrder
  <2> QED
    BY <1>0, <2>1, <2>3 DEF Releasable, HeldIsSeen, ReleasedInOrder, Releasing
<1>7. CASE HardStepFails
  <2>1. /\ UNCHANGED <<mem, orphan>> /\ held' \in {held, held \cup {"root"}}
        /\ \/ pc' = "release" /\ todo' = ReleaseDisk'
           \/ pc' = "error" /\ todo' = {}
    BY <1>7, LeftMountedIs DEF HardStepFails
  <2>2. held' \cap {"root", "luks"} = {} => held' = {}
    BY <1>0, <2>1 DEF HeldIsSeen, Holds, Swaps
  <2>3. ReleasedInOrder'
    BY <2>1, <2>2 DEF ReleasedInOrder, Releasing, ReleaseDisk, ReleaseCommands
  <2> QED
    BY <1>0, <2>1, <2>3 DEF Releasable, HeldIsSeen, MountsInOrder
<1>8. CASE DiskSteps
  <2>1. /\ UNCHANGED <<pc, mem, held, orphan>>
        /\ \E c \in Commands \ (ReleaseCommands \cup {"mount-root"}) : todo' = todo \ {c}
    BY <1>8 DEF DiskSteps, Partition, FormatEsp, FormatSwap, FormatLuks, FormatRoot, Do,
       RemoveStub, RemoveLocal, RemoveDisk, target, outside, Commands, ReleaseCommands
  <2> QED
    BY <1>0, <1>2, <2>1
<1>9. CASE (Saves /\ ~ (SaveEnds /\ after = "restore")) \/ \E c \in Configs : Launch(c)
  BY <1>0, <1>1, <1>9 DEF Saves, Capture, WriteTmp, RenameLocal, RenameDisk, RenameStub,
     SaveFails, SaveEnds, Exit, Launch, target, outside, Control, TypeOK
<1>10. CASE EditPartitions \/ ResumeRefused \/ Resume \/ Confirm \/ Decline
  BY <1>0, <1>1, <1>10 DEF EditPartitions, Starting, ResumeRefused, Resume, Confirm, Decline,
     HeldAfterScan, Exit, run, target, outside
<1>11. CASE SkipDone \/ InstallDone
  BY <1>0, <1>1, <1>11 DEF SkipDone, InstallDone, target, outside
<1>12. CASE StepSucceeds \/ SoftStepFails
  BY <1>0, <1>1, <1>12 DEF StepSucceeds, SoftStepFails, MarkDone, target, outside
<1>13. CASE Quit \/ Kill \/ Reboot
  <2>1. orphan' = "none" /\ pc' = "off"
    BY <1>0, <1>13 DEF Quit, Kill, Reboot, Exit, run, outside, ReleasingWorks
  <2>2. held' \in {held, held \cup {"root"}, {}}
    BY <1>13, LeftMountedIs DEF Quit, Kill, Reboot, target
  <2> QED
    BY <1>1, <2>1, <2>2
<1>14. CASE OrphanEnds \/ UNCHANGED vars
  BY <1>0, <1>2, <1>14 DEF OrphanEnds, vars, run, target, outside
<1> QED
  BY <1>3, <1>4, <1>5, <1>6, <1>7, <1>8, <1>9, <1>10, <1>11, <1>12, <1>13, <1>14
  DEF Next, Loop, Idle

(***************************************************************************)
(* ReleaseDisk, which looks only for a mounted root or an open container,  *)
(* sees everything an install holds, in every state a failed, killed or    *)
(* resumed one can leave.                                                  *)
(***************************************************************************)
THEOREM HeldCanBeReleased ==
    ASSUME ReleasingWorks
    PROVE  Spec => []Releasable
<1>1. Init => Releasable
  BY DEF Init, Releasable, HeldIsSeen, MountsInOrder, ReleasedInOrder, Releasing, Swaps
<1>2. Control /\ Releasable /\ [Next]_vars => Releasable'
  BY ReleasableNext
<1> QED
  BY <1>1, <1>2, ControlInvariant, PTL DEF Spec

(***************************************************************************)
(* progress.go releases the disk when a step has failed, and when it is    *)
(* released nothing holds it: a retry can partition it again.              *)
(***************************************************************************)
THEOREM FailureReleases ==
    ASSUME ReleasingWorks
    PROVE  Spec => NothingHeldAfterFailure
<1>1. Control /\ Releasable /\ [Next]_vars => [pc = "release" /\ pc' = "error" => held' = {}]_vars
  <2> SUFFICES ASSUME Control, Releasable, [Next]_vars, pc = "release", pc' = "error"
               PROVE  held' = {}
    OBVIOUS
  <2>1. ReleaseEnds
    BY DEF Next, Launch, EditPartitions, Starting, ResumeRefused, Resume, Confirm, Decline, Saves,
       Capture, WriteTmp, RenameLocal, RenameDisk, RenameStub, SaveFails, SaveEnds, Mounts,
       OpenLuks, MountRoot, MountEsp, Swapon, SwaponFile, Mounting, RestoreFails, RestoreEnds,
       Releases, Swapoff, Umount, CloseLuks, Released, ReleaseFails, DiskSteps, Partition,
       FormatEsp, FormatSwap, FormatLuks, FormatRoot, RemoveStub, RemoveLocal, RemoveDisk, Loop,
       SkipDone, BeginStep, InstallDone, StepSucceeds, SoftStepFails, HardStepFails, Quit, Kill,
       Exit, OrphanEnds, Reboot, Idle, run, vars
  <2> QED
    BY <2>1 DEF ReleaseEnds, target, Releasable, ReleasedInOrder
<1> QED
  BY <1>1, ControlInvariant, HeldCanBeReleased, PTL DEF Spec, NothingHeldAfterFailure

-----------------------------------------------------------------------------
(* What of a failed run's record outlives a reboot.                        *)

(* Where the loop is in a hard step, it has not passed remove-state; in    *)
(* cleanup, it has.                                                        *)
LEMMA RemovalPlace ==
    ASSUME Control, Removal, RemovalPassed, pc = "step"
    PROVE  /\ Key \notin Soft => "remove-state" \notin mem.done
           /\ Key = "cleanup" => "remove-state" \in mem.done /\ local = None
<1>1. /\ LoopOrdered /\ TypeOK /\ RemovedForGood
      /\ mem.cfg \in Configs /\ at \in 1..Len(Plan[mem.cfg])
  BY KeyType DEF Control, Removal
<1>2. "remove-state" \in mem.done => Key \in Soft
  <2> SUFFICES ASSUME "remove-state" \in mem.done PROVE Key \in Soft
    OBVIOUS
  <2>1. PICK i \in 1..(at - 1) : Plan[mem.cfg][i] = "remove-state"
    BY DEF RemovalPassed, Active
  <2>2. i \in 1..Len(Plan[mem.cfg]) /\ at \in (i + 1)..Len(Plan[mem.cfg])
    BY <1>1, <2>1
  <2> QED
    BY <1>1, <2>1, <2>2, RemovalAssumption DEF Key
<1>3. Key = "cleanup" => "remove-state" \in mem.done
  <2> SUFFICES ASSUME Key = "cleanup" PROVE "remove-state" \in mem.done
    OBVIOUS
  <2>1. PICK i \in 1..Len(Plan[mem.cfg]) : Plan[mem.cfg][i] = "remove-state"
    BY <1>1, RemovalAssumption
  <2>2. at = Len(Plan[mem.cfg]) /\ i # at
    BY <1>1, <2>1, PlanAssumption DEF Key
  <2>3. i \in 1..(at - 1)
    BY <1>1, <2>1, <2>2
  <2> QED
    BY <1>1, <2>1, <2>3 DEF LoopOrdered, Active
<1> QED
  BY <1>1, <1>2, <1>3 DEF RemovedForGood, Active

LEMMA RemovalPassedNext ==
    ASSUME Control, Removal, RemovalPassed, [Next]_vars
    PROVE  RemovalPassed'
<1>0. TypeOK /\ RemovedForGood /\ RemovalUnrecorded
  BY DEF Control, Removal
<1>1. CASE pc' = "off"
  BY <1>1 DEF RemovalPassed, Active
<1>2. CASE pc = "off" /\ pc' = "save" /\ saving' = TRUE /\ (mem'.done = {} \/ mem' \in Stored)
  BY <1>0, <1>2 DEF RemovalPassed, RemovalUnrecorded, Active
<1>3. CASE pc = "step" /\ pc' \in {"save", "run"} /\ MarkDone
  <2>1. /\ mem'.cfg = mem.cfg /\ mem'.done = mem.done \cup {Key} /\ at' = at + 1
        /\ at \in Nat \ {0}
    BY <1>0, <1>3, MarkDoneFacts DEF TypeOK
  <2>2. ~ saving' => "remove-state" \in mem'.done
    BY <1>3, <2>1 DEF RemovalPassed, MarkDone, Active
  <2>3. "remove-state" \in mem'.done => \E i \in 1..at : Plan[mem.cfg][i] = "remove-state"
    <3>1. CASE Key = "remove-state"
      BY <2>1, <3>1 DEF Key
    <3>2. CASE Key # "remove-state"
      BY <1>3, <2>1, <3>2 DEF RemovalPassed, Active
    <3> QED
      BY <3>1, <3>2
  <2> QED
    BY <1>3, <2>1, <2>2, <2>3 DEF RemovalPassed
<1>4. CASE /\ pc # "off" /\ mem'.done = mem.done /\ mem'.cfg = mem.cfg
           /\ saving' = saving /\ at' \in {at, at + 1}
           /\ pc' \in {"release", "error"} =>
                 pc \in {"restore", "release", "error"} \/ HardStepFails
  <2>1. at \in Nat
    BY <1>0 DEF TypeOK
  <2>2. pc' \in {"release", "error"} => "remove-state" \notin mem.done
    <3>1. HardStepFails => "remove-state" \notin mem.done
      BY RemovalPlace DEF HardStepFails
    <3>2. pc = "restore" => "remove-state" \notin mem.done
      BY <1>0, <1>4 DEF RemovedForGood, Active
    <3>3. pc \in {"release", "error"} => "remove-state" \notin mem.done
      BY DEF RemovalPassed
    <3> QED
      BY <1>4, <3>1, <3>2, <3>3
  <2>3. ~ saving' => "remove-state" \in mem'.done
    BY <1>4 DEF RemovalPassed, Active
  <2>4. "remove-state" \in mem'.done =>
           \E i \in 1..(at' - 1) : Plan[mem'.cfg][i] = "remove-state"
    <3>1. 1..(at - 1) \subseteq 1..(at' - 1)
      BY <1>4, <2>1
    <3> QED
      BY <1>4, <3>1 DEF RemovalPassed, Active
  <2>5. pc' \in {"release", "error"} => "remove-state" \notin mem'.done
    BY <1>4, <2>2
  <2> QED
    BY <2>3, <2>4, <2>5 DEF RemovalPassed
<1> QED
  BY <1>0, <1>1, <1>2, <1>3, <1>4, MemoryNext

(* What a step can do to a save in progress, and to a step whose commands  *)
(* have all run.                                                           *)
LEMMA SavingNext ==
    ASSUME "save" \notin Faults, [Next]_vars, pc = "save"
    PROVE  \/ pc' = "off"
           \/ SaveEnds /\ pc' = after /\ todo = {}
           \/ /\ pc' = "save" /\ held' = held
              /\ "rename-local" \in todo => "rename-local" \in todo' \/ RenameLocal
              /\ "rename-disk" \in todo => "rename-disk" \in todo' \/ RenameDisk
              /\ todo' \subseteq todo
<1>1. CASE Saves
  BY <1>1 DEF Saves, Capture, WriteTmp, RenameLocal, RenameDisk, RenameStub, SaveFails, SaveEnds,
     Do, Fault, target
<1>2. CASE ~ Saves
  BY <1>2 DEF Next, Launch, EditPartitions, Starting, ResumeRefused, Resume, Confirm, Decline,
     Mounts, OpenLuks, MountRoot, MountEsp, Swapon, SwaponFile, Mounting, RestoreFails,
     RestoreEnds, Releases, Swapoff, Umount, CloseLuks, Releasing, ReleaseFails, ReleaseEnds,
     DiskSteps, Partition, FormatEsp, FormatSwap, FormatLuks, FormatRoot, RemoveStub,
     RemoveLocal, RemoveDisk, Loop, SkipDone, BeginStep, InstallDone, StepSucceeds,
     SoftStepFails, HardStepFails, Quit, Kill, Exit, OrphanEnds, Reboot, Idle, run, vars, target
<1> QED
  BY <1>1, <1>2

LEMMA StepEndsNext ==
    ASSUME [Next]_vars, pc = "step", todo = {}
    PROVE  \/ pc' = "off" \/ StepSucceeds \/ SoftStepFails
           \/ HardStepFails /\ Key \notin CommandsOnly
           \/ UNCHANGED run
<1>1. ~ Busy
  BY DEF Busy, TableDue, EspDue, SwapDue, LuksDue, RootDue, Due
<1>2. CASE HardStepFails
  BY <1>1, <1>2 DEF HardStepFails
<1>3. CASE Saves \/ Mounts \/ Releases \/ DiskSteps
  BY <1>3 DEF Saves, Capture, WriteTmp, RenameLocal, RenameDisk, RenameStub, SaveFails, SaveEnds,
     Mounts, OpenLuks, MountRoot, MountEsp, Swapon, SwaponFile, RestoreFails,
     RestoreEnds, Releases, Swapoff, Umount, CloseLuks, ReleaseFails, ReleaseEnds, DiskSteps,
     Partition, FormatEsp, FormatSwap, FormatLuks, FormatRoot, RemoveStub, RemoveLocal,
     RemoveDisk, Do, Due, EspDue, SwapDue, LuksDue, RootDue
<1>4. CASE SkipDone \/ BeginStep \/ InstallDone
  BY <1>4 DEF SkipDone, BeginStep, InstallDone
<1>5. CASE EditPartitions \/ ResumeRefused \/ Resume \/ Confirm \/ Decline \/ Quit \/ Kill
              \/ Reboot \/ \E c \in Configs : Launch(c)
  BY <1>5 DEF EditPartitions, Starting, ResumeRefused, Resume, Confirm, Decline, Quit, Kill, Exit,
     Reboot, Launch
<1>6. CASE OrphanEnds \/ UNCHANGED vars
  BY <1>6 DEF OrphanEnds, vars
<1> QED
  BY <1>2, <1>3, <1>4, <1>5, <1>6 DEF Next, Loop, Idle

(* The root stays mounted unless it is unmounted or the machine reboots. *)
LEMMA RootHeldNext ==
    ASSUME [Next]_vars, "root" \in held, "root" \notin held'
    PROVE  Umount \/ (Reboot /\ local' = None)
<1>1. CASE Saves \/ Loop \/ DiskSteps
  BY <1>1 DEF Saves, Capture, WriteTmp, RenameLocal, RenameDisk, RenameStub, SaveFails, SaveEnds,
     DiskSteps, Partition, FormatEsp, FormatSwap, FormatLuks, FormatRoot, RemoveStub, RemoveLocal,
     RemoveDisk, Loop, SkipDone, BeginStep, InstallDone, StepSucceeds, SoftStepFails,
     HardStepFails, LeftMounted, target
<1>2. CASE Mounts \/ Releases
  BY <1>2 DEF Mounts, OpenLuks, MountRoot, MountEsp, Swapon, SwaponFile, Mounted, RestoreFails,
     RestoreEnds, Releases, Swapoff, CloseLuks, Released, ReleaseFails, ReleaseEnds, target
<1>3. CASE EditPartitions \/ ResumeRefused \/ Resume \/ Confirm \/ Decline \/ Quit \/ Kill
              \/ OrphanEnds \/ Reboot \/ UNCHANGED vars \/ \E c \in Configs : Launch(c)
  BY <1>3 DEF EditPartitions, ResumeRefused, Resume, HeldAfterScan, Confirm, Decline, Quit, Kill,
     LeftMounted, OrphanEnds, Reboot, Launch, target, vars
<1> QED
  BY <1>1, <1>2, <1>3 DEF Next, Idle

(* The copy on the root filesystem is written by a save, removed by        *)
(* remove-state, or lost when nothing counts on it.                        *)
LEMMA DiskCopyNext ==
    ASSUME Guided, IInv, [Next]_vars, disk' # disk
    PROVE  \/ RenameDisk
           \/ RemoveDisk /\ Key = "remove-state"
           \/ /\ local' = local
              /\ \A s \in Stored : Current(s) => ~ MountedIn(s)
              /\ Active => ~ MountedIn(mem)
<1>0. /\ TypeOK /\ StepTodo /\ LoopOrdered /\ FormatPending /\ OrphanBlocks
      /\ \A s \in States : Ordered(s)
  BY DEF IInv, Control
<1>1. ASSUME pc = "step", Key = "format-disks"
      PROVE  /\ \A s \in Stored : Current(s) => ~ MountedIn(s)
             /\ ~ MountedIn(mem)
  <2>1. Partitioned(mem) /\ ~ FormattedIn(mem)
    BY <1>0, <1>1, PlanFacts DEF FormattedIn
  <2> QED
    BY <1>0, <1>1, <2>1 DEF FormatPending, States, Ordered, Active
<1>2. CASE FormatLuks \/ FormatRoot
  <2>1. pc = "step" /\ Key = "format-disks" /\ local' = local
    BY <1>0, <1>2 DEF FormatLuks, FormatRoot, LuksDue, RootDue, Due, StepTodo
  <2> QED
    BY <1>1, <2>1
<1>3. CASE HardStepFails \/ Kill
  <2>1. pc = "step" /\ ~ Busy /\ Mangled /\ local' = local
    BY <1>3 DEF HardStepFails, Kill, DiskKept
  <2>2. Key = "format-disks"
    BY <1>0, <2>1, MangledKinds DEF DiskKept, NewTable
  <2> QED
    BY <1>1, <2>1, <2>2
<1>4. CASE OrphanEnds
  <2>1. orphan = "mkfs" /\ local' = local
    BY <1>4 DEF OrphanEnds, DiskKept
  <2> QED
    BY <1>0, <2>1 DEF FormatPending, OrphanBlocks, States, Ordered, Active
<1>5. CASE RemoveDisk
  BY <1>0, <1>5 DEF RemoveDisk, Do, Due, StepTodo
<1>6. CASE (Saves /\ ~ RenameDisk) \/ Mounts \/ Releases
  BY <1>6 DEF Saves, Capture, WriteTmp, RenameLocal, RenameStub, SaveFails, SaveEnds, Mounts,
     OpenLuks, MountRoot, MountEsp, Swapon, SwaponFile, Mounted, RestoreFails, RestoreEnds,
     Releases, Swapoff, Umount, CloseLuks, Released, ReleaseFails, ReleaseEnds, copies
<1>7. CASE Partition \/ FormatEsp \/ FormatSwap \/ RemoveStub \/ RemoveLocal \/ SkipDone
             \/ BeginStep \/ InstallDone \/ StepSucceeds \/ SoftStepFails
  BY <1>7 DEF Partition, NewTable, FormatEsp, EspLost, FormatSwap, RemoveStub, RemoveLocal,
     SkipDone, BeginStep, InstallDone, StepSucceeds, SoftStepFails, copies
<1>8. CASE EditPartitions \/ ResumeRefused \/ Resume \/ Confirm \/ Decline \/ Quit
              \/ Reboot \/ UNCHANGED vars \/ \E c \in Configs : Launch(c)
  BY <1>8 DEF EditPartitions, NewTable, ResumeRefused, Resume, Confirm, Decline, Quit, Reboot,
     Launch, copies, vars
<1> QED
  BY <1>2, <1>3, <1>4, <1>5, <1>6, <1>7, <1>8 DEF Next, DiskSteps, Loop, Idle

(* The state in memory changes when it is loaded, captured or marked. *)
LEMMA MemoryKept ==
    ASSUME [Next]_vars, pc # "off", pc' # "off"
    PROVE  \/ mem' = mem
           \/ Capture /\ "capture" \in todo
           \/ pc = "step" /\ MarkDone
BY DEF Next, Launch, EditPartitions, Starting, ResumeRefused, Resume, Confirm, Decline, Saves,
   Capture, WriteTmp, RenameLocal, RenameDisk, RenameStub, SaveFails, SaveEnds, Do, Due,
   Mounts, OpenLuks, MountRoot, MountEsp, Swapon, SwaponFile, Mounted, RestoreFails,
   RestoreEnds, Releases, Swapoff, Umount, CloseLuks, Released, ReleaseFails, ReleaseEnds,
   DiskSteps, Partition, FormatEsp, FormatSwap, FormatLuks, FormatRoot, RemoveStub,
   RemoveLocal, RemoveDisk, Loop, SkipDone, BeginStep, InstallDone, StepSucceeds,
   SoftStepFails, HardStepFails, Quit, Kill, Exit, OrphanEnds, Reboot, Idle, run, vars

(* An install that is over does not go on. *)
LEMMA DoneStays ==
    ASSUME [Next]_vars, pc = "done"
    PROVE  pc' \in {"done", "off"}
BY DEF Next, Launch, EditPartitions, Starting, ResumeRefused, Resume, Confirm, Decline, Saves,
   Capture, WriteTmp, RenameLocal, RenameDisk, RenameStub, SaveFails, SaveEnds, Mounts, Mounting,
   OpenLuks, MountRoot, MountEsp, Swapon, SwaponFile, RestoreFails, RestoreEnds, Releases,
   Releasing, Swapoff, Umount, CloseLuks, ReleaseFails, ReleaseEnds, DiskSteps, Partition,
   FormatEsp, FormatSwap, FormatLuks, FormatRoot, RemoveStub, RemoveLocal, RemoveDisk, Loop,
   SkipDone, BeginStep, InstallDone, StepSucceeds, SoftStepFails, HardStepFails, Quit, Kill,
   Exit, OrphanEnds, Reboot, Idle, run, vars

(* What saves write, and with what mounted. *)
LEMMA SaveLists ==
    ASSUME NEW s
    PROVE  /\ "rename-local" \in SaveCommands(s)
           /\ "rename-disk" \in SaveCommands(s) => "root" \in held
           /\ MountedIn(s) /\ "root" \in held => "rename-disk" \in SaveCommands(s)
BY DEF SaveCommands, MountedIn

(* Every save starts from the top. *)
LEMMA SaveBegins ==
    ASSUME [Next]_vars, TypeOK, pc # "save", pc' = "save"
    PROVE  /\ \E s : s.done = mem'.done /\ todo' = SaveCommands(s)
           /\ held \subseteq held'
<1>1. CASE StepSucceeds \/ SoftStepFails
  BY <1>1 DEF StepSucceeds, SoftStepFails, MarkDone, target
<1>2. CASE Confirm \/ Resume \/ \E c \in Configs : Launch(c)
  BY <1>2 DEF Confirm, Resume, HeldAfterScan, Launch, target
<1>3. CASE ~ (StepSucceeds \/ SoftStepFails \/ Confirm \/ Resume \/ \E c \in Configs : Launch(c))
  BY <1>3 DEF Next, EditPartitions, Starting, ResumeRefused, Decline, Saves, Capture, WriteTmp,
     RenameLocal, RenameDisk, RenameStub, SaveFails, SaveEnds,
     Mounts, OpenLuks, MountRoot, MountEsp, Swapon, SwaponFile, Mounted, RestoreFails,
     RestoreEnds, Releases, Swapoff, Umount, CloseLuks, Released, ReleaseFails, ReleaseEnds,
     DiskSteps, Partition, FormatEsp, FormatSwap, FormatLuks, FormatRoot, RemoveStub,
     RemoveLocal, RemoveDisk, Loop, SkipDone, BeginStep, InstallDone,
     HardStepFails, Quit, Kill, Exit, OrphanEnds, Reboot, Idle, run, vars
<1> QED
  BY <1>1, <1>2, <1>3

(* Between two saves, /tmp has what the run recorded. *)
LEMMA LocalIsMemNext ==
    ASSUME "save" \notin Faults, IInv, Removal, Surviving, [Next]_vars
    PROVE  LocalIsMem'
<1> SUFFICES ASSUME pc' # "off", pc' = "save" => "rename-local" \notin todo'
             PROVE  local' \in {mem', None}
  BY DEF LocalIsMem, Active
<1>0. /\ TypeOK /\ SaveOrdered /\ LocalIsMem /\ Control
      /\ RemovedForGood' /\ RemovalPassed'
  BY RemovedForGoodNext, RemovalPassedNext DEF IInv, Control, Surviving
<1>1. pc' = "save" => pc = "save"
  BY <1>0, SaveBegins, SaveLists
<1>2. CASE pc = "save" /\ todo # {}
  <2>1. pc' = "save" /\ ("rename-local" \in todo => RenameLocal)
    BY <1>2, SavingNext
  <2>2. CASE RenameLocal
    BY <2>2 DEF RenameLocal
  <2>3. CASE "rename-local" \notin todo
    <3>1. "capture" \notin todo /\ local \in {mem, None}
      BY <1>0, <1>2, <2>3 DEF SaveOrdered, LocalIsMem, Active
    <3>2. mem' = mem
      BY <1>2, <2>1, <3>1, MemoryKept
    <3> QED
      BY <1>0, <1>2, <2>3, <3>1, <3>2, CopiesNext
  <2> QED
    BY <2>1, <2>2, <2>3
<1>3. CASE pc = "save" /\ todo = {}
  <2>1. local \in {mem, None} /\ mem' = mem
    BY <1>0, <1>3, MemoryKept DEF LocalIsMem, Active
  <2> QED
    BY <2>1, <1>3, CopiesNext
<1>4. CASE pc # "save"
  <2>1. local' \in {local, None}
    BY <1>4, CopiesNext
  <2>2. CASE pc = "off"
    BY <1>0, <1>1, <1>4, <2>2, MemoryNext
  <2>3. CASE pc # "off" /\ mem' = mem
    BY <1>0, <1>4, <2>1, <2>3 DEF LocalIsMem, Active
  <2>4. CASE pc = "step" /\ MarkDone
    <3>1. ~ saving'
      BY <1>1, <1>4, <2>4 DEF MarkDone
    <3> QED
      BY <1>0, <3>1 DEF RemovalPassed, RemovedForGood, Active
  <2> QED
    BY <1>4, <2>2, <2>3, <2>4, MemoryKept DEF Capture
<1> QED
  BY <1>2, <1>3, <1>4

(* /tmp is never ahead of the root filesystem without it mounted. *)
LEMMA LocalCatchesUpNext ==
    ASSUME Guided, "save" \notin Faults, IInv, Removal, Surviving, [Next]_vars
    PROVE  LocalCatchesUp'
<1>0. /\ TypeOK /\ SaveOrdered /\ StepTodo /\ LoopOrdered /\ Control /\ Identified
      /\ RecordSaved /\ LocalCatchesUp /\ LocalIsMem /\ RemovalPassed
      /\ RemovedForGood /\ RemovalInOrder
      /\ Active => Ordered(mem)
  BY DEF IInv, Control, Surviving, Removal, States
<1>1. ASSUME pc' = "save", "rename-disk" \in todo' PROVE "root" \in held'
  <2>1. CASE pc = "save"
    <3>1. pc' # after
      BY <1>0, <1>1 DEF TypeOK
    <3> QED
      BY <1>0, <1>1, <2>1, <3>1, SavingNext DEF LocalCatchesUp
  <2>2. CASE pc # "save"
    BY <1>0, <1>1, <2>2, SaveBegins, SaveLists
  <2> QED
    BY <2>1, <2>2
<1>2. ASSUME local' # None, Current(local)', MountedIn(local)'
      PROVE  SavedOnDisk(local)' \/ "root" \in held'
  <2>1. table' = table
    <3>1. CASE TableMade
      <4>1. local' = local /\ table' = table + 1 /\ table \in Nat
        BY <1>0, <3>1 DEF TableMade, NewTable, TypeOK
      <4>2. local \in States /\ local.uuid <= table /\ local.uuid \in Nat
        BY <1>0, <1>2, <4>1 DEF Identified, States, Stored, TypeOK, State
      <4> QED
        BY <1>2, <4>1, <4>2 DEF Current
    <3> QED
      BY <1>0, <3>1, TableGrows, NextKinds
  <2>2. CASE RenameLocal
    <3>1. /\ local' = mem /\ UNCHANGED <<disk, table, held>> /\ pc = "save"
      BY <2>2 DEF RenameLocal, target
    <3>2. "remove-state" \notin mem.done
      BY <1>0, <3>1 DEF RemovedForGood, Active
    <3>3. SavedOnDisk(mem) \/ "rename-disk" \in todo
      BY <1>0, <1>2, <3>1, <3>2 DEF RecordSaved, Active, MountedIn
    <3> QED
      BY <1>0, <3>1, <3>3 DEF LocalCatchesUp, SavedOnDisk, Current
  <2>3. CASE RenameDisk
    <3>1. /\ disk' = mem /\ UNCHANGED <<local, table>> /\ pc = "save"
          /\ "rename-disk" \in todo /\ "rename-local" \notin todo
      BY <2>3 DEF RenameDisk, Do, Due, target
    <3>2. local = mem
      BY <1>0, <3>1 DEF SaveOrdered
    <3> QED
      BY <1>2, <3>1, <3>2 DEF SavedOnDisk, Current
  <2>4. CASE ~ RenameLocal /\ ~ RenameDisk
    <3>1. local' = local
      BY <1>2, <2>4, CopiesNext
    <3>2. local \in Stored /\ Current(local) /\ MountedIn(local)
      BY <1>2, <2>1, <3>1 DEF Stored, Current, MountedIn
    <3>3. disk' = disk
      <4>1. RemoveDisk /\ Key = "remove-state" => local = None
        BY <1>0 DEF RemoveDisk, Do, Due, RemovalInOrder
      <4> QED
        BY <2>4, <3>2, <4>1, DiskCopyNext DEF Stored
    <3>4. CASE SavedOnDisk(local)
      BY <2>1, <3>1, <3>3, <3>4 DEF SavedOnDisk, Current
    <3>5. CASE ~ SavedOnDisk(local)
      <4>1. "root" \in held
        BY <1>0, <3>2, <3>5 DEF LocalCatchesUp, Stored
      <4>2. ~ Umount
        <5> SUFFICES ASSUME Umount PROVE FALSE
          OBVIOUS
        <5>1. pc \in {"step", "release"} /\ "umount" \in todo
          BY DEF Umount, Releasing, Do, Due
        <5>2. local = mem /\ MountedIn(mem)
          BY <1>0, <3>2, <5>1 DEF LocalIsMem, Active, Stored
        <5>3. "remove-state" \notin mem.done
          BY <1>0, <3>2, <5>1 DEF RemovedForGood, Active, Stored
        <5>4. pc = "release"
          <6> SUFFICES ASSUME pc = "step" PROVE FALSE
            BY <5>1
          <6>1. Key \in {"partition-disk", "format-disks", "cleanup"}
            BY <1>0, <5>1 DEF StepTodo
          <6>2. Key # "cleanup"
            BY <1>0, <5>3, RemovalPlace DEF Removal
          <6>3. Partitioned(mem) /\ FormattedIn(mem)
            BY <1>0, <5>2 DEF Ordered, Active
          <6> QED
            BY <1>0, <6>1, <6>2, <6>3, PlanFacts DEF Partitioned, FormattedIn
        <5> QED
          BY <1>0, <3>5, <5>2, <5>3, <5>4 DEF RecordSaved, Active
      <4> QED
        BY <1>2, <4>1, <4>2, RootHeldNext
    <3> QED
      BY <3>4, <3>5
  <2> QED
    BY <2>2, <2>3, <2>4
<1> QED
  BY <1>1, <1>2 DEF LocalCatchesUp

(* What the run recorded stays on the root filesystem. *)
LEMMA RecordSavedNext ==
    ASSUME Guided, "save" \notin Faults, IInv, Removal, Surviving, [Next]_vars
    PROVE  RecordSaved'
<1> SUFFICES ASSUME pc' # "off", pc' # "done", MountedIn(mem'), "remove-state" \notin mem'.done
             PROVE  \/ SavedOnDisk(mem)'
                    \/ pc' = "save" /\ "rename-disk" \in todo'
                    \/ pc' = "step" /\ Key' = "remove-state" /\ todo' = {}
  BY DEF RecordSaved, Active, MountedIn
<1>0. /\ TypeOK /\ SaveOrdered /\ StepTodo /\ LoopOrdered /\ MountsKept /\ Control /\ Identified
      /\ RecordSaved /\ LocalCatchesUp /\ LocalIsMem /\ RemovalPassed /\ RemovalPassed'
      /\ RemovedForGood /\ RemovalInOrder
      /\ \A s \in States : Ordered(s)
  BY RemovalPassedNext DEF IInv, Control, Surviving, Removal
<1>1. CASE Resume /\ pc' = "save"
  <2>1. PICK s \in Found : mem' = s /\ todo' = SaveCommands(s) /\ ~ Refused(s)
    BY <1>1 DEF Resume
  <2>2. s \in Stored /\ s \in {local, disk} /\ UNCHANGED <<local, disk, table>>
    BY <1>1, <2>1 DEF Resume, Found, Stored, copies
  <2>3. MountedIn(s) /\ Partitioned(s)
    BY <1>0, <2>1, <2>2 DEF Ordered, States
  <2>4. Current(s)
    BY <1>0, <2>1, <2>2, <2>3 DEF Refused, Identified, Current
  <2>5. SavedOnDisk(s) \/ "root" \in held
    BY <1>0, <2>2, <2>3, <2>4 DEF LocalCatchesUp, SavedOnDisk, Stored
  <2> QED
    BY <1>1, <2>1, <2>2, <2>3, <2>5, SaveLists DEF SavedOnDisk, Current
<1>2. CASE pc = "step" /\ MarkDone /\ (todo = {} \/ Key \in Soft)
  <2>1. mem'.done = mem.done \cup {Key} /\ mem \in State /\ at \in 1..Len(Plan[mem.cfg])
    BY <1>0, <1>2, MarkDoneFacts, KeyType
  <2>2. saving' /\ pc' = "save" /\ todo' = SaveCommands(mem')
    BY <1>0, <1>2 DEF RemovalPassed, MarkDone, Active
  <2>3. "root" \in held
    <3>1. CASE Key = "mount-disks"
      BY <1>0, <1>2, <3>1, SoftAssumption DEF MountsKept, Root
    <3>2. CASE Key # "mount-disks"
      <4>1. MountedIn(mem) /\ Key # "cleanup"
        BY <1>0, <1>2, <2>1, <3>2, RemovalPlace DEF MountedIn
      <4> QED
        BY <1>0, <1>2, <2>1, <4>1 DEF MountsKept, Target, Root
    <3> QED
      BY <3>1, <3>2
  <2> QED
    BY <2>2, <2>3, SaveLists
<1>3. CASE pc # "off" /\ mem'.done = mem.done
  <2>0. MountedIn(mem) /\ "remove-state" \notin mem.done /\ Active /\ pc # "done"
        /\ Ordered(mem) /\ FormattedIn(mem) /\ Partitioned(mem)
    BY <1>0, <1>3, DoneStays DEF MountedIn, Ordered, Active, States
  <2>1. table' = table
    <3>1. ~ TableMade
      BY <1>0, <2>0, PlanFacts DEF TableMade, Partitioned
    <3> QED
      BY <1>0, <3>1, TableGrows, NextKinds
  <2>2. CASE RenameDisk
    <3>1. /\ disk' = mem /\ mem' = mem /\ pc = "save" /\ todo # {} /\ "capture" \notin todo
      BY <2>2 DEF RenameDisk, Do, Due
    <3>2. mem.uuid = table
      BY <1>0, <2>0, <3>1 DEF SaveOrdered, Identified
    <3> QED
      BY <1>0, <2>0, <2>1, <3>1, <3>2 DEF SavedOnDisk, Current, TypeOK, Active
  <2>3. CASE RemoveDisk /\ Key = "remove-state"
    BY <1>0, <2>3 DEF RemoveDisk, Do, Due, RemovalInOrder, Key
  <2>4. CASE disk' = disk
    <3>1. CASE SavedOnDisk(mem)
      BY <1>3, <2>1, <2>4, <3>1 DEF SavedOnDisk, Current
    <3>2. CASE pc = "save" /\ "rename-disk" \in todo
      BY <2>2, <3>2, SavingNext
    <3>3. CASE pc = "step" /\ Key = "remove-state" /\ todo = {}
      <4>1. ~ StepSucceeds /\ ~ SoftStepFails /\ Key \in CommandsOnly
        BY <1>0, <1>3, <3>3, MarkDoneFacts DEF StepSucceeds, SoftStepFails, LoopOrdered, Active,
           CommandsOnly
      <4>2. UNCHANGED run
        BY <3>3, <4>1, StepEndsNext
      <4> QED
        BY <3>3, <4>2 DEF run, Key
    <3> QED
      BY <1>0, <2>0, <3>1, <3>2, <3>3 DEF RecordSaved
  <2> QED
    BY <2>0, <2>2, <2>3, <2>4, DiskCopyNext
<1> QED
  BY <1>0, <1>1, <1>2, <1>3, MemoryNext DEF MountedIn

(***************************************************************************)
(* The record on the target: as long as a step may fail, the copy on the   *)
(* root filesystem has all that the run recorded or the save under way is  *)
(* about to write it, in every state a failed, killed, orphaning or        *)
(* rebooted install can leave, provided that saves themselves succeed.     *)
(***************************************************************************)
THEOREM RecordKept ==
    ASSUME Guided, "save" \notin Faults
    PROVE  Spec => []Surviving
<1>1. Init => Surviving
  BY DEF Init, Surviving, RecordSaved, LocalCatchesUp, LocalIsMem, RemovalPassed, Active
<1>2. IInv /\ Removal /\ Surviving /\ [Next]_vars => Surviving'
  <2> SUFFICES ASSUME IInv, Removal, Surviving, [Next]_vars PROVE Surviving'
    OBVIOUS
  <2>1. Control /\ RemovalPassed
    BY DEF IInv, Surviving
  <2> QED
    BY <2>1, RecordSavedNext, LocalCatchesUpNext, LocalIsMemNext, RemovalPassedNext DEF Surviving
<1> QED
  BY <1>1, <1>2, Invariant, RemovalKept, PTL DEF Spec

(***************************************************************************)
(* The error screen's promise: once mount-disks is done a failed install   *)
(* can be resumed after a reboot without losing a step it recorded.        *)
(***************************************************************************)
THEOREM FailureKeepsProgress ==
    ASSUME Guided, "save" \notin Faults
    PROVE  Spec => []ProgressSurvivesReboot
<1>1. Surviving => ProgressSurvivesReboot
  BY DEF Surviving, RecordSaved, RemovalPassed, ProgressSurvivesReboot, SavedOnDisk, Current,
     MountedIn, Active
<1> QED
  BY <1>1, RecordKept, PTL
=============================================================================
