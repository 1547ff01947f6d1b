----------------------- MODULE ResumableInstall_proofs -----------------------
(***************************************************************************)
(* Theorems about ResumableInstall, for any configurations, plans, fault   *)
(* sets and bounds its assumptions allow.                                  *)
(***************************************************************************)
EXTENDS ResumableInstall, TLAPS

-----------------------------------------------------------------------------
(* Type correctness.                                                       *)

(* The key of the step the loop is in is a key of the plan. *)
LEMMA KeyType ==
    ASSUME TypeOK, pc = "step"
    PROVE  /\ mem \in State /\ mem.cfg \in Configs
           /\ at \in 1..Len(Plan[mem.cfg])
           /\ Key \in Keys
<1>1. mem \in State /\ mem.cfg \in Configs
  BY NoneAssumption DEF TypeOK, State
<1>2. Plan[mem.cfg] \in Seq(Keys)
  BY <1>1, PlanAssumption
<1>3. at \in 1..Len(Plan[mem.cfg])
  BY <1>2 DEF TypeOK
<1>4. Key \in Keys
  BY <1>1, <1>2, <1>3 DEF Key
<1> QED
  BY <1>1, <1>3, <1>4

(* The machine before the first run is well typed. *)
LEMMA TypeInit == Init => TypeOK
BY NoneAssumption, BoundAssumption DEF Init, TypeOK, Media, Copies, Holds

(* The commands of a save, a restore, a step and a release. *)
LEMMA CommandsType ==
    /\ \A s : SaveCommands(s) \in SUBSET Commands
    /\ \A s : RestoreCommands(s) \in SUBSET Commands
    /\ \A k, c : StepCommands(k, c) \in SUBSET Commands
    /\ ReleaseDisk \in SUBSET Commands
<1>1. ReleaseDisk \in SUBSET Commands
  BY DEF ReleaseDisk, ReleaseCommands, Commands
<1>2. \A s : SaveCommands(s) \in SUBSET Commands
  BY DEF SaveCommands, Commands
<1>3. \A c : MountCommands(c) \in SUBSET Commands
  BY DEF MountCommands, Commands
<1>4. \A c : FormatCommands(c) \in SUBSET Commands
  BY DEF FormatCommands, Commands
<1>5. \A s : RestoreCommands(s) \in SUBSET Commands
  BY <1>3 DEF RestoreCommands, Commands
<1>6. \A k, c : StepCommands(k, c) \in SUBSET Commands
  BY <1>1, <1>3, <1>4 DEF StepCommands, ReleaseCommands, Commands
<1> QED
  BY <1>1, <1>2, <1>5, <1>6

(* MarkDone leaves a well-typed run behind. *)
LEMMA MarkDoneType ==
    ASSUME TypeOK, pc = "step", MarkDone
    PROVE  /\ mem' \in State /\ saving' \in BOOLEAN /\ at' \in Nat \ {0}
           /\ pc' \in {"save", "run"} /\ after' = "run"
           /\ todo' \in SUBSET Commands
<1>1. mem \in State /\ Key \in Keys
  BY KeyType
<1>2. mem' \in State
  BY <1>1 DEF MarkDone, State
<1>3. saving' \in BOOLEAN
  BY Zenon DEF MarkDone
<1>4. at' \in Nat \ {0} /\ after' = "run"
  BY DEF MarkDone, TypeOK
<1>5. pc' \in {"save", "run"} /\ todo' \in SUBSET Commands
  BY CommandsType DEF MarkDone
<1> QED
  BY <1>2, <1>3, <1>4, <1>5

(* What an interrupted command leaves of the disk. *)
LEMMA DiskType ==
    ASSUME TypeOK, DiskKept \/ NewTable \/ RootLost \/ EspLost
    PROVE  /\ disk' \in State \cup {None} /\ stub' \in Nat
           /\ table' \in Nat \ {0} /\ has' \in [Media -> SUBSET Keys]
<1>1. CASE DiskKept
  BY <1>1 DEF DiskKept, TypeOK
<1>2. CASE NewTable
  BY <1>2 DEF NewTable, TypeOK, Media
<1>3. CASE RootLost
  BY <1>3 DEF RootLost, TypeOK, Media
<1>4. CASE EspLost
  BY <1>4 DEF EspLost, TypeOK, Media
<1> QED
  BY <1>1, <1>2, <1>3, <1>4

(* What is cut short leaves at most the root mounted. *)
LEMMA LeftMountedIs == LeftMounted \in {held, held \cup {"root"}}
BY DEF LeftMounted

(* Every action, of the installer, the user or the machine, keeps types. *)
LEMMA TypeNext == TypeOK /\ [Next]_vars => TypeOK'
<1> SUFFICES ASSUME TypeOK, [Next]_vars PROVE TypeOK'
  OBVIOUS
<1> USE NoneAssumption, BoundAssumption
<1>1. ASSUME NEW c \in Configs, Launch(c) PROVE TypeOK'
  <2>1. mem' \in State
    BY <1>1 DEF Launch, State
  <2>2. todo' \subseteq Commands
    BY <1>1, CommandsType DEF Launch
  <2>3. launches' \in 0..MaxLaunches
    BY <1>1 DEF Launch, Starting, TypeOK
  <2> QED
    BY <1>1, <2>1, <2>2, <2>3 DEF Launch, Starting, TypeOK, copies, target
<1>2. CASE EditPartitions
  BY <1>2, DiskType DEF EditPartitions, Starting, NewTable, TypeOK, run
<1>3. CASE ResumeRefused
  BY <1>3 DEF ResumeRefused, HeldAfterScan, TypeOK, Holds, run, copies, outside
<1>4. CASE Resume
  <2>1. PICK s \in Found : held' = HeldAfterScan(s) /\ mem' = s
                             /\ todo' = SaveCommands(s)
    BY <1>4 DEF Resume
  <2>2. mem' \in State
    BY <2>1 DEF Found, TypeOK
  <2> QED
    BY <1>4, <2>1, <2>2, CommandsType
    DEF Resume, Starting, HeldAfterScan, TypeOK, Holds, copies
<1>5. CASE Confirm
  BY <1>5, CommandsType DEF Confirm, TypeOK, copies, target, outside
<1>6. CASE Decline
  BY <1>6 DEF Decline, Exit, TypeOK, copies, target, outside
<1>7. CASE Saves
  <2>1. CASE Capture
    <3>1. mem' \in State /\ mem # None
      BY <1>7, <2>1 DEF Capture, TypeOK, State
    <3> QED
      BY <2>1, <3>1 DEF Capture, Do, TypeOK, copies, target, outside
  <2>2. CASE WriteTmp
    BY <2>2 DEF WriteTmp, Do, TypeOK, target, outside
  <2>3. CASE RenameLocal
    BY <2>3 DEF RenameLocal, Do, TypeOK, target, outside
  <2>4. CASE RenameDisk
    BY <2>4 DEF RenameDisk, Do, TypeOK, target, outside
  <2>5. CASE RenameStub
    <3>1. mem.uuid \in Nat
      BY <2>5 DEF RenameStub, TypeOK, State
    <3> QED
      BY <2>5, <3>1 DEF RenameStub, Do, TypeOK, target, outside
  <2>6. CASE SaveFails
    <3>1. partial' \in SUBSET Copies
      BY <2>6 DEF SaveFails, TypeOK
    <3>2. faults' \in 0..MaxFaults
      BY <2>6 DEF SaveFails, Fault, TypeOK
    <3>3. CASE after = "ask"
      BY <2>6, <3>1, <3>2, <3>3 DEF SaveFails, Exit, TypeOK, target
    <3>4. CASE after # "ask"
      BY <2>6, <3>1, <3>2, <3>4 DEF SaveFails, TypeOK, target
    <3> QED
      BY <3>3, <3>4
  <2>7. CASE SaveEnds
    BY <2>7, CommandsType DEF SaveEnds, TypeOK, copies, target, outside
  <2> QED
    BY <1>7, <2>1, <2>2, <2>3, <2>4, <2>5, <2>6, <2>7 DEF Saves
<1>8. CASE Mounts
  <2>1. CASE OpenLuks \/ MountRoot \/ MountEsp \/ Swapon \/ SwaponFile
    <3>1. /\ \E x \in Holds : Mounted(x)
          /\ todo' \in SUBSET Commands
      BY <2>1 DEF OpenLuks, MountRoot, MountEsp, Swapon, SwaponFile, Do, Holds, TypeOK
    <3> QED
      BY <3>1 DEF Mounted, TypeOK, copies, outside
  <2>2. CASE RestoreFails
    BY <2>2 DEF RestoreFails, Fault, TypeOK, copies, target
  <2>3. CASE RestoreEnds
    BY <2>3 DEF RestoreEnds, TypeOK, copies, target, outside
  <2> QED
    BY <1>8, <2>1, <2>2, <2>3 DEF Mounts
<1>9. CASE Releases
  <2>1. CASE Swapoff \/ Umount \/ CloseLuks
    <3>1. /\ held' \subseteq held /\ todo' \in SUBSET Commands
          /\ UNCHANGED <<pc, after, mem, at, saving, copies, table, has, launches>>
      BY <2>1 DEF Swapoff, Umount, CloseLuks, Released, Do, TypeOK, outside
    <3>2. orphan' \in {orphan, "holder"} /\ faults' \in 0..MaxFaults
      BY <2>1 DEF Swapoff, Umount, CloseLuks, Released, Fault, TypeOK, outside
    <3> QED
      BY <3>1, <3>2 DEF TypeOK, copies
  <2>2. CASE ReleaseFails
    BY <2>2 DEF ReleaseFails, Do, Fault, TypeOK, copies, target
  <2>3. CASE ReleaseEnds
    BY <2>3 DEF ReleaseEnds, TypeOK, copies, target, outside
  <2> QED
    BY <1>9, <2>1, <2>2, <2>3 DEF Releases
<1>10. CASE DiskSteps
  <2>1. CASE Partition \/ FormatEsp \/ FormatLuks \/ FormatRoot
    <3>1. /\ NewTable \/ EspLost \/ RootLost
          /\ todo' \in SUBSET Commands /\ partial' \in SUBSET Copies
          /\ UNCHANGED <<pc, after, mem, at, saving, local, held, outside>>
      BY <2>1 DEF Partition, FormatEsp, FormatLuks, FormatRoot, Do, TypeOK,
                  NewTable, EspLost, RootLost
    <3> QED
      BY <3>1, DiskType DEF TypeOK, outside
  <2>2. CASE FormatSwap
    BY <2>2 DEF FormatSwap, TypeOK, copies, target, outside
  <2>3. CASE RemoveStub \/ RemoveLocal \/ RemoveDisk
    BY <2>3 DEF RemoveStub, RemoveLocal, RemoveDisk, Do, TypeOK, target, outside
  <2> QED
    BY <1>10, <2>1, <2>2, <2>3 DEF DiskSteps
<1>11. CASE Loop
  <2>1. CASE SkipDone
    BY <2>1 DEF SkipDone, TypeOK, copies, target, outside
  <2>2. CASE BeginStep
    BY <2>2, CommandsType DEF BeginStep, TypeOK, copies, target, outside
  <2>3. CASE InstallDone
    BY <2>3 DEF InstallDone, TypeOK, copies, target, outside
  <2>4. CASE StepSucceeds
    <3>1. has' \in [Media -> SUBSET Keys]
      BY <2>4, KeyType DEF StepSucceeds, Landed, TypeOK
    <3> QED
      BY <2>4, <3>1, MarkDoneType DEF StepSucceeds, TypeOK, copies, outside
  <2>5. CASE SoftStepFails
    BY <2>5, MarkDoneType DEF SoftStepFails, Fault, TypeOK, copies, target
  <2>6. CASE HardStepFails
    <3>1. /\ DiskKept \/ NewTable \/ EspLost \/ RootLost
          /\ partial' \in SUBSET Copies
      BY <2>6 DEF HardStepFails, Mangled, DiskKept, NewTable, EspLost, RootLost, TypeOK
    <3>2. pc' \in {"release", "error"} /\ todo' \in SUBSET Commands
      BY <2>6 DEF HardStepFails, ReleaseDisk, ReleaseCommands, Commands
    <3>4. held' \subseteq Holds
      BY <2>6, LeftMountedIs DEF HardStepFails, TypeOK, Holds
    <3>3. faults' \in 0..MaxFaults
      BY <2>6 DEF HardStepFails, Fault, TypeOK
    <3> QED
      BY <2>6, <3>1, <3>2, <3>3, <3>4, DiskType DEF HardStepFails, TypeOK
  <2> QED
    BY <1>11, <2>1, <2>2, <2>3, <2>4, <2>5, <2>6 DEF Loop
<1>12. CASE Quit
  BY <1>12 DEF Quit, Exit, TypeOK, copies, target, outside
<1>13. CASE Kill
  <2>1. /\ DiskKept \/ NewTable \/ EspLost \/ RootLost
        /\ partial' \in SUBSET Copies
        /\ orphan' \in {"none", "mkfs", "tool", "holder"}
    BY <1>13 DEF Kill, Mangled, DiskKept, NewTable, EspLost, RootLost, TypeOK
  <2>2. held' \subseteq Holds
    BY <1>13, LeftMountedIs DEF Kill, TypeOK, Holds
  <2>3. faults' \in 0..MaxFaults
    BY <1>13 DEF Kill, Fault, TypeOK
  <2> QED
    BY <1>13, <2>1, <2>2, <2>3, DiskType DEF Kill, Exit, TypeOK
<1>14. CASE OrphanEnds
  <2>1. /\ DiskKept \/ RootLost
        /\ partial' \in SUBSET Copies
    BY <1>14 DEF OrphanEnds, DiskKept, RootLost, TypeOK
  <2> QED
    BY <1>14, <2>1, DiskType DEF OrphanEnds, TypeOK, run
<1>15. CASE Reboot
  BY <1>15 DEF Reboot, Fault, TypeOK, run
<1>16. CASE UNCHANGED vars
  BY <1>16 DEF TypeOK, vars, run, copies, target, outside
<1> QED
  BY <1>1, <1>2, <1>3, <1>4, <1>5, <1>6, <1>7, <1>8, <1>9, <1>10, <1>11,
     <1>12, <1>13, <1>14, <1>15, <1>16 DEF Next, Idle

(***************************************************************************)
(* Every variable keeps its type, for any configurations and plans.        *)
(***************************************************************************)
THEOREM TypeCorrect == Spec => []TypeOK
<1>1. Init => TypeOK
  BY TypeInit
<1>2. TypeOK /\ [Next]_vars => TypeOK'
  BY TypeNext
<1> QED
  BY <1>1, <1>2, PTL DEF Spec

-----------------------------------------------------------------------------
(* Control: what each pending command means for where the loop is.         *)

USE NoneAssumption

(* A save runs its commands in order, and each save starts from the top. *)
LEMMA SaveOrderedNext ==
    Control /\ [Next]_vars => SaveOrdered'
<1> SUFFICES ASSUME Control, [Next]_vars, pc' = "save" PROVE SaveOrdered'
  BY DEF SaveOrdered
<1> USE DEF Control, TypeOK, SaveOrdered
<1>1. ASSUME NEW c \in Configs, Launch(c) PROVE SaveOrdered'
  BY <1>1 DEF Launch, SaveCommands, Partitioned
<1>2. CASE Resume
  BY <1>2 DEF Resume, SaveCommands, Partitioned
<1>3. CASE Confirm
  BY <1>3 DEF Confirm, SaveCommands, Partitioned
<1>4. CASE Saves
  <2>1. CASE Capture
    <3>1. mem'.uuid # 0
      BY <1>4, <2>1 DEF Capture, State
    <3> QED
      BY <2>1, <3>1 DEF Capture, Do, Due
  <2>2. CASE WriteTmp
    BY <2>2 DEF WriteTmp, Do, Due
  <2>3. CASE RenameLocal
    BY <2>3 DEF RenameLocal, Do, Due
  <2>4. CASE RenameDisk
    BY <2>4 DEF RenameDisk, Do, Due
  <2>5. CASE RenameStub
    BY <2>5 DEF RenameStub, Do, Due
  <2>6. CASE SaveFails
    BY <2>6 DEF SaveFails, Exit
  <2>7. CASE SaveEnds
    BY <2>7 DEF SaveEnds
  <2> QED
    BY <1>4, <2>1, <2>2, <2>3, <2>4, <2>5, <2>6, <2>7 DEF Saves
<1>5. CASE StepSucceeds \/ SoftStepFails
  BY <1>5 DEF StepSucceeds, SoftStepFails, MarkDone, SaveCommands, Partitioned
<1>6. CASE EditPartitions \/ ResumeRefused \/ OrphanEnds \/ UNCHANGED vars
  BY <1>6 DEF EditPartitions, ResumeRefused, OrphanEnds, vars, run, copies, Partitioned
<1>7. CASE Decline \/ Quit \/ Kill \/ Reboot
  BY <1>7 DEF Decline, Quit, Kill, Exit, Reboot, run
<1>8. CASE Mounts \/ Releases
  BY <1>8 DEF Mounts, OpenLuks, MountRoot, MountEsp, Swapon, SwaponFile,
      Mounting, Mounted, RestoreFails, RestoreEnds, Releases, Swapoff, Umount,
      CloseLuks, Releasing, Released, ReleaseFails, ReleaseEnds
<1>9. CASE DiskSteps
  BY <1>9 DEF DiskSteps, Partition, FormatEsp, FormatSwap, FormatLuks,
      FormatRoot, RemoveStub, RemoveLocal, RemoveDisk
<1>10. CASE SkipDone \/ BeginStep \/ InstallDone \/ HardStepFails
  BY <1>10 DEF SkipDone, BeginStep, InstallDone, HardStepFails
<1> QED
  BY <1>1, <1>2, <1>3, <1>4, <1>5, <1>6, <1>7, <1>8, <1>9, <1>10
  DEF Next, Loop, Idle

(* What marking a step done changes of the run. *)
LEMMA MarkDoneFacts ==
    ASSUME TypeOK, pc = "step", MarkDone
    PROVE  /\ mem'.cfg = mem.cfg /\ mem'.uuid = mem.uuid
           /\ mem'.done = mem.done \cup {Key}
           /\ at' = at + 1 /\ pc' \in {"save", "run"} /\ after' = "run"
<1>1. mem \in State
  BY KeyType
<1> QED
  BY <1>1 DEF MarkDone, State

(* Every step leaves a copy alone, loses it or, in a save, writes it. *)
LEMMA CopiesNext ==
    ASSUME [Next]_vars
    PROVE  /\ local' \in {local, None} \/ (RenameLocal /\ pc = "save" /\ local' = mem)
           /\ disk' \in {disk, None} \/ (pc = "save" /\ disk' = mem)
           /\ stub' \in {stub, 0} \/ pc = "save"
<1>1. CASE Saves
  BY <1>1 DEF Saves, Capture, WriteTmp, RenameLocal, RenameDisk, RenameStub, SaveFails,
     SaveEnds, copies
<1>2. CASE Mounts \/ Releases
  BY <1>2 DEF Mounts, OpenLuks, MountRoot, MountEsp, Swapon, SwaponFile, Mounted,
     RestoreFails, RestoreEnds, Releases, Swapoff, Umount, CloseLuks, Released,
     ReleaseFails, ReleaseEnds, copies
<1>3. CASE DiskSteps
  BY <1>3 DEF DiskSteps, Partition, FormatEsp, FormatSwap, FormatLuks, FormatRoot, NewTable,
     EspLost, RootLost, RemoveStub, RemoveLocal, RemoveDisk, copies
<1>4. CASE Loop
  BY <1>4 DEF Loop, SkipDone, BeginStep, InstallDone, StepSucceeds, SoftStepFails,
     HardStepFails, DiskKept, Mangled, NewTable, EspLost, RootLost, copies
<1>5. CASE EditPartitions \/ ResumeRefused \/ Resume \/ Confirm \/ Decline
             \/ \E c \in Configs : Launch(c)
  BY <1>5 DEF EditPartitions, NewTable, ResumeRefused, Resume, Confirm, Decline, Launch, copies
<1>6. CASE Quit \/ Kill \/ OrphanEnds \/ Reboot \/ UNCHANGED vars
  BY <1>6 DEF Quit, Kill, OrphanEnds, Reboot, DiskKept, Mangled, NewTable, EspLost, RootLost,
     copies, vars
<1> QED
  BY <1>1, <1>2, <1>3, <1>4, <1>5, <1>6 DEF Next, Idle

(* The state in memory is loaded, extended by a finished step, or kept.    *)
LEMMA MemoryNext ==
    ASSUME TypeOK, [Next]_vars
    PROVE  \/ pc' = "off"
           \/ /\ pc = "off" /\ pc' = "save" /\ saving' = TRUE
              /\ mem'.done = {} \/ (Resume /\ mem' \in Stored)
           \/ pc = "step" /\ pc' \in {"save", "run"} /\ MarkDone
                /\ (todo = {} \/ Key \in Soft) /\ UNCHANGED copies
           \/ /\ pc # "off" /\ mem'.done = mem.done /\ mem'.cfg = mem.cfg
              /\ saving' = saving /\ at' \in {at, at + 1}
              /\ pc' \in {"save", "ask", "restore"} => pc \in {"save", "ask", "restore"}
              /\ pc' = "done" => pc = "done" \/ InstallDone
              /\ pc' \in {"release", "error"} =>
                    pc \in {"restore", "release", "error"} \/ HardStepFails
<1>1. CASE Saves
  <2>1. CASE Capture
    BY <2>1 DEF Capture, TypeOK, State
  <2>2. CASE WriteTmp \/ RenameLocal \/ RenameDisk \/ RenameStub
    BY <2>2 DEF WriteTmp, RenameLocal, RenameDisk, RenameStub
  <2>3. CASE SaveFails \/ SaveEnds
    BY <2>3 DEF SaveFails, SaveEnds, Exit, TypeOK
  <2> QED
    BY <1>1, <2>1, <2>2, <2>3 DEF Saves
<1>2. CASE Mounts \/ Releases
  BY <1>2 DEF Mounts, OpenLuks, MountRoot, MountEsp, Swapon, SwaponFile, Mounting, Mounted,
     RestoreFails, RestoreEnds, Releases, Swapoff, Umount, CloseLuks, Releasing, Released,
     ReleaseFails, ReleaseEnds
<1>3. CASE DiskSteps
  BY <1>3 DEF DiskSteps, Partition, FormatEsp, FormatSwap, FormatLuks, FormatRoot,
     RemoveStub, RemoveLocal, RemoveDisk
<1>4. CASE SkipDone \/ BeginStep \/ InstallDone \/ HardStepFails
  BY <1>4 DEF SkipDone, BeginStep, InstallDone, HardStepFails
<1>5. CASE StepSucceeds \/ SoftStepFails
  BY <1>5, MarkDoneFacts DEF StepSucceeds, SoftStepFails
<1>6. ASSUME NEW c \in Configs, Launch(c)
      PROVE  pc = "off" /\ pc' = "save" /\ saving' = TRUE /\ mem'.done = {}
  BY <1>6 DEF Launch, Starting
<1>7. CASE Resume
  BY <1>7 DEF Resume, Starting, Found, Stored
<1>8. CASE EditPartitions \/ ResumeRefused \/ Reboot
  BY <1>8 DEF EditPartitions, Starting, ResumeRefused, Reboot, run
<1>9. CASE Confirm \/ Decline \/ Quit \/ Kill
  BY <1>9 DEF Confirm, Decline, Quit, Kill, Exit
<1>10. CASE OrphanEnds \/ UNCHANGED vars
  BY <1>10 DEF OrphanEnds, vars, run
<1> QED
  BY <1>1, <1>2, <1>3, <1>4, <1>5, <1>6, <1>7, <1>8, <1>9, <1>10 DEF Next, Loop, Idle

(* The steps the loop has passed stay done; the one it is in is not. *)
LEMMA LoopOrderedNext ==
    Control /\ [Next]_vars => LoopOrdered'
<1> SUFFICES ASSUME Control, [Next]_vars, pc' # "off" PROVE LoopOrdered'
  BY DEF LoopOrdered, Active
<1> USE DEF Control, TypeOK, LoopOrdered, Active
<1>1. ASSUME NEW c \in Configs, Launch(c) PROVE LoopOrdered'
  BY <1>1 DEF Launch
<1>2. CASE Resume
  BY <1>2 DEF Resume
<1>3. CASE Capture
  BY <1>3 DEF Capture, State, Key
<1>4. CASE SkipDone
  BY <1>4 DEF SkipDone, Key
<1>5. CASE BeginStep
  BY <1>5 DEF BeginStep, Key
<1>6. CASE StepSucceeds \/ SoftStepFails
  <2>1. pc = "step" /\ MarkDone
    BY <1>6 DEF StepSucceeds, SoftStepFails
  <2>2. /\ mem'.cfg = mem.cfg /\ mem'.done = mem.done \cup {Key}
        /\ at' = at + 1 /\ pc' \in {"save", "run"}
    BY <2>1, MarkDoneFacts
  <2>3. at \in Nat \ {0}
    OBVIOUS
  <2>4. \A j \in 1..(at' - 1) : Plan[mem'.cfg][j] \in mem'.done
    <3> SUFFICES ASSUME NEW j \in 1..at PROVE Plan[mem.cfg][j] \in mem.done \cup {Key}
      BY <2>2, <2>3
    <3>1. j = at \/ j \in 1..(at - 1)
      BY <2>3
    <3> QED
      BY <2>1, <3>1 DEF Key
  <2> QED
    BY <2>2, <2>4
<1>7. CASE UNCHANGED <<mem, at>> /\ (pc' = "step" => pc = "step") /\ pc # "off"
  BY <1>7 DEF Key
<1>8. CASE Confirm \/ WriteTmp \/ RenameLocal \/ RenameDisk \/ RenameStub
             \/ SaveFails \/ SaveEnds
  BY <1>7, <1>8 DEF Confirm, WriteTmp, RenameLocal, RenameDisk, RenameStub,
      SaveFails, SaveEnds, Exit
<1>9. CASE Mounts \/ Releases
  BY <1>7, <1>9 DEF Mounts, OpenLuks, MountRoot, MountEsp, Swapon, SwaponFile,
      Mounting, Mounted, RestoreFails, RestoreEnds, Releases, Swapoff, Umount,
      CloseLuks, Releasing, Released, ReleaseFails, ReleaseEnds
<1>10. CASE DiskSteps
  BY <1>7, <1>10 DEF DiskSteps, Partition, FormatEsp, FormatSwap, FormatLuks,
      FormatRoot, RemoveStub, RemoveLocal, RemoveDisk
<1>11. CASE InstallDone \/ HardStepFails
  BY <1>7, <1>11 DEF InstallDone, HardStepFails
<1>12. CASE OrphanEnds \/ UNCHANGED vars
  BY <1>7, <1>12 DEF OrphanEnds, vars, run, Key
<1>13. CASE EditPartitions \/ ResumeRefused \/ Decline \/ Quit \/ Kill \/ Reboot
  BY <1>13 DEF EditPartitions, Starting, ResumeRefused, Decline, Quit, Kill,
      Exit, Reboot, run
<1> QED
  BY <1>1, <1>2, <1>3, <1>4, <1>5, <1>6, <1>8, <1>9, <1>10, <1>11, <1>12, <1>13
  DEF Next, Saves, Loop, Idle

(* Destroying and releasing commands are pending only in their own steps. *)
LEMMA StepTodoNext ==
    Control /\ [Next]_vars => StepTodo'
<1> SUFFICES ASSUME Control, [Next]_vars, pc' = "step" PROVE StepTodo'
  BY DEF StepTodo
<1> USE DEF Control, TypeOK, StepTodo
<1>1. CASE BeginStep
  <2>1. todo' = StepCommands(Key, mem.cfg) /\ Key' = Key
    BY <1>1 DEF BeginStep, Key
  <2> QED
    BY <2>1 DEF StepCommands, ReleaseDisk, ReleaseCommands, FormatCommands, MountCommands
<1>2. CASE pc = "step" /\ UNCHANGED <<mem, at>> /\ todo' \subseteq todo
  <2>1. Key' = Key
    BY <1>2 DEF Key
  <2> QED
    BY <1>2, <2>1
<1>3. CASE Mounts
  BY <1>2, <1>3 DEF Mounts, OpenLuks, MountRoot, MountEsp, Swapon, SwaponFile,
      Mounted, Do, RestoreFails, RestoreEnds
<1>4. CASE Releases
  BY <1>2, <1>4 DEF Releases, Swapoff, Umount, CloseLuks, Released, Do,
      ReleaseFails, ReleaseEnds
<1>5. CASE DiskSteps
  BY <1>2, <1>5 DEF DiskSteps, Partition, FormatEsp, FormatSwap, FormatLuks,
      FormatRoot, RemoveStub, RemoveLocal, RemoveDisk, Do
<1>6. CASE OrphanEnds \/ UNCHANGED vars
  BY <1>2, <1>6 DEF OrphanEnds, vars, run
<1>7. CASE Saves
  <2>1. pc = "save" /\ pc' \in {"save", "off", after}
    BY <1>7 DEF Saves, Capture, WriteTmp, RenameLocal, RenameDisk, RenameStub,
        SaveFails, SaveEnds, Exit
  <2> QED
    BY <2>1
<1>8. CASE SkipDone \/ InstallDone \/ StepSucceeds \/ SoftStepFails \/ HardStepFails
  BY <1>8, MarkDoneFacts DEF SkipDone, InstallDone, StepSucceeds, SoftStepFails, HardStepFails
<1>9. ASSUME NEW c \in Configs, Launch(c) PROVE FALSE
  BY <1>9 DEF Launch
<1>10. CASE EditPartitions \/ ResumeRefused \/ Resume \/ Confirm \/ Decline
              \/ Quit \/ Kill \/ Reboot
  BY <1>10 DEF EditPartitions, Starting, ResumeRefused, Resume, Confirm, Decline,
      Quit, Kill, Exit, Reboot, run
<1> QED
  BY <1>1, <1>3, <1>4, <1>5, <1>6, <1>7, <1>8, <1>9, <1>10 DEF Next, Loop, Idle

(* What the order of the plan says of the step the loop is in. *)
LEMMA PlanFacts ==
    ASSUME TypeOK, LoopOrdered, pc = "step"
    PROVE  /\ Key \notin mem.done
           /\ Key = "format-disks" => Partitioned(mem)
           /\ Key = "mount-disks" => FormattedIn(mem)
           /\ OnTarget(Key) \/ Key = "cleanup" => MountedIn(mem)
           /\ Key = "cleanup" => at = Len(Plan[mem.cfg])
<1>1. /\ mem.cfg \in Configs /\ at \in 1..Len(Plan[mem.cfg]) /\ Key \in Keys
  BY KeyType
<1>2. Key \notin mem.done
  BY DEF LoopOrdered, Active
<1>3. ASSUME NEW a, NEW b, Before(mem.cfg, a, b), Key = b PROVE a \in mem.done
  <2>1. \E j \in 1..(at - 1) : Plan[mem.cfg][j] = a
    BY <1>1, <1>3 DEF Before, Key
  <2> QED
    BY <2>1 DEF LoopOrdered, Active
<1>4. /\ Before(mem.cfg, "partition-disk", "format-disks")
      /\ Before(mem.cfg, "format-disks", "mount-disks")
      /\ OnTarget(Key) \/ Key = "cleanup" => Before(mem.cfg, "mount-disks", Key)
      /\ Key = "cleanup" => at = Len(Plan[mem.cfg])
  BY <1>1, PlanAssumption DEF Key
<1> QED
  BY <1>2, <1>3, <1>4 DEF Partitioned, FormattedIn, MountedIn

(* The target stays mounted from mount-disks, or the restore, to cleanup. *)
LEMMA MountsKeptNext ==
    Control /\ [Next]_vars => MountsKept'
<1> SUFFICES ASSUME Control, [Next]_vars PROVE MountsKept'
  OBVIOUS
<1>t. TypeOK /\ LoopOrdered /\ StepTodo /\ MountsKept
  BY DEF Control
<1>o. pc # "off" => Ordered(mem)
  BY DEF Control, States, Active
<1>c. ASSUME Key = "cleanup", at \in 1..Len(Plan[mem.cfg]), mem \in State
      PROVE  at = Len(Plan[mem.cfg])
  BY <1>c, PlanAssumption DEF Key, State
<1>m. pc # "off" => mem \in State /\ mem.cfg \in Configs
  BY <1>t DEF TypeOK, State
<1> USE DEF Target, Root, Esp
<1>1. ASSUME NEW c \in Configs, Launch(c) PROVE MountsKept'
  BY <1>1 DEF Launch, MountsKept, MountedIn
<1>2. CASE Resume \/ Confirm
  BY <1>2 DEF Resume, Confirm, MountsKept
<1>3. CASE Saves
  <2>1. CASE SaveEnds
    <3>1. UNCHANGED <<mem, at, held, after>> /\ pc = "save" /\ pc' = after
      BY <2>1 DEF SaveEnds, target
    <3>2. after \in {"ask", "restore", "run"}
      BY <1>t DEF TypeOK
    <3>3. CASE after = "restore"
      <4>1. todo' = RestoreCommands(mem)
        BY <2>1, <3>3 DEF SaveEnds
      <4>2. MountedIn(mem) => MountCommands(mem.cfg) \subseteq todo'
        BY <1>o, <3>1, <4>1 DEF RestoreCommands, Ordered, MountedIn, FormattedIn
      <4>3. mem.cfg.firmware # "uefi" => Esp(mem.cfg) = {}
        OBVIOUS
      <4> QED
        BY <3>1, <3>3, <4>2 DEF MountsKept, MountCommands, MountedIn
    <3>4. CASE after # "restore"
      BY <1>t, <3>1, <3>2, <3>4 DEF MountsKept, MountedIn, Key
    <3> QED
      BY <3>3, <3>4
  <2>2. CASE ~ SaveEnds
    <3>1. /\ pc = "save" /\ pc' \in {"save", "off"}
          /\ pc' = "save" =>
               UNCHANGED <<after, at, held>> /\ mem'.cfg = mem.cfg /\ mem'.done = mem.done
      BY <1>3, <2>2, <1>m DEF Saves, Capture, WriteTmp, RenameLocal, RenameDisk,
          RenameStub, SaveFails, Exit, target, State
    <3> QED
      BY <1>t, <3>1 DEF MountsKept, MountedIn, Key
  <2> QED
    BY <2>1, <2>2
<1>4. CASE Mounts
  <2>1. CASE OpenLuks \/ Swapon \/ SwaponFile
    <3>1. /\ UNCHANGED <<pc, after, mem, at>> /\ held \subseteq held'
          /\ pc \in {"restore", "step"}
          /\ "mount-root" \in todo => "mount-root" \in todo'
          /\ "mount-esp" \in todo => "mount-esp" \in todo'
      BY <2>1 DEF OpenLuks, Swapon, SwaponFile, Mounting, Mounted, Do
    <3> QED
      BY <1>t, <3>1 DEF MountsKept, MountedIn, Key
  <2>2. CASE MountRoot
    <3>1. /\ UNCHANGED <<pc, after, mem, at>> /\ held' = held \cup {"root"}
          /\ pc \in {"restore", "step"}
          /\ mem.cfg.encrypt => "luks" \in held
          /\ "mount-esp" \in todo => "mount-esp" \in todo'
      BY <2>2 DEF MountRoot, Mounting, Mounted, Do
    <3> QED
      BY <1>t, <3>1 DEF MountsKept, MountedIn, Key
  <2>3. CASE MountEsp
    <3>1. /\ UNCHANGED <<pc, after, mem, at>> /\ held' = held \cup {"esp"}
          /\ pc \in {"restore", "step"}
          /\ "mount-root" \in todo => "mount-root" \in todo'
      BY <2>3 DEF MountEsp, Mounting, Mounted, Do
    <3> QED
      BY <1>t, <3>1 DEF MountsKept, MountedIn, Key
  <2>4. CASE RestoreFails
    BY <1>t, <2>4 DEF RestoreFails, MountsKept, MountedIn, Key, target
  <2>5. CASE RestoreEnds
    BY <1>t, <2>5 DEF RestoreEnds, MountsKept, MountedIn, Key, target
  <2> QED
    BY <1>4, <2>1, <2>2, <2>3, <2>4, <2>5 DEF Mounts
<1>5. CASE Releases
  <2>1. CASE pc = "release"
    BY <1>5, <2>1 DEF Releases, Swapoff, Umount, CloseLuks, Released,
        ReleaseFails, ReleaseEnds, MountsKept
  <2>2. CASE pc = "step"
    <3>1. /\ UNCHANGED <<pc, after, mem, at>>
          /\ "mount-root" \in todo => "mount-root" \in todo'
          /\ "mount-esp" \in todo => "mount-esp" \in todo'
          /\ \/ held \cap {"root", "esp", "luks"} \subseteq held'
             \/ todo \cap {"umount", "close"} # {}
      BY <1>5, <2>2 DEF Releases, Swapoff, Umount, CloseLuks, Released,
          ReleaseFails, ReleaseEnds, Do, Due, target
    <3>2. CASE held \cap {"root", "esp", "luks"} \subseteq held'
      BY <1>t, <3>1, <3>2 DEF MountsKept, MountedIn, Key
    <3>3. CASE todo \cap {"umount", "close"} # {}
      <4>1. Key \in {"partition-disk", "format-disks", "cleanup"}
        BY <1>t, <2>2, <3>3 DEF StepTodo
      <4>2. MountedIn(mem) => Key = "cleanup"
        BY <1>t, <1>o, <2>2, <4>1, PlanFacts
        DEF Ordered, Partitioned, FormattedIn, MountedIn
      <4> QED
        BY <2>2, <3>1, <4>1, <4>2 DEF MountsKept, MountedIn, Key
    <3> QED
      BY <3>1, <3>2, <3>3
  <2> QED
    BY <1>5, <2>1, <2>2 DEF Releases, Swapoff, Umount, CloseLuks, Releasing,
        ReleaseFails, ReleaseEnds
<1>6. CASE DiskSteps
  <2>1. /\ UNCHANGED <<pc, after, mem, at, held>> /\ pc = "step"
        /\ "mount-root" \in todo => "mount-root" \in todo'
        /\ "mount-esp" \in todo => "mount-esp" \in todo'
    BY <1>6 DEF DiskSteps, Partition, FormatEsp, FormatSwap, FormatLuks,
        FormatRoot, RemoveStub, RemoveLocal, RemoveDisk, Do, target
  <2> QED
    BY <1>t, <2>1 DEF MountsKept, MountedIn, Key
<1>7. CASE SkipDone
  <2>1. /\ UNCHANGED <<pc, after, mem, held>> /\ pc = "run" /\ at' = at + 1
        /\ at <= Len(Plan[mem.cfg])
    BY <1>7 DEF SkipDone, target
  <2>2. at' <= Len(Plan[mem.cfg]) => Key # "cleanup"
    BY <1>c, <1>m, <1>t, <2>1 DEF TypeOK
  <2> QED
    BY <1>t, <2>1, <2>2 DEF MountsKept, MountedIn, TypeOK
<1>8. CASE BeginStep
  <2>1. /\ UNCHANGED <<after, mem, at, held>> /\ pc = "run" /\ pc' = "step"
        /\ todo' = StepCommands(Key, mem.cfg) /\ Key' = Key
    BY <1>8 DEF BeginStep, target, Key
  <2>2. Key = "mount-disks" => todo' = MountCommands(mem.cfg)
    BY <2>1 DEF StepCommands
  <2>3. Key = "mount-disks" =>
          /\ "mount-root" \in todo'
          /\ mem.cfg.firmware = "uefi" => "mount-esp" \in todo'
    BY <2>2 DEF MountCommands
  <2> QED
    BY <1>t, <2>1, <2>3 DEF MountsKept, MountedIn
<1>9. CASE StepSucceeds \/ SoftStepFails
  <2>1. pc = "step" /\ MarkDone /\ held' = held /\ (todo = {} \/ Key \in Soft)
    BY <1>9 DEF StepSucceeds, SoftStepFails, target
  <2>2. at \in 1..Len(Plan[mem.cfg]) /\ mem \in State
    BY <1>t, <2>1, KeyType
  <2>3. CASE Key = "mount-disks"
    <3>1. Target(mem.cfg) \subseteq held
      BY <1>t, <2>1, <2>3, SoftAssumption DEF MountsKept
    <3> QED
      BY <1>t, <2>1, <3>1, MarkDoneFacts DEF MountsKept
  <2>4. CASE Key # "mount-disks"
    <3>1. MountedIn(mem)' => MountedIn(mem)
      BY <1>t, <2>1, <2>4, MarkDoneFacts DEF MountedIn
    <3>2. at' <= Len(Plan[mem.cfg]) => Key # "cleanup" /\ at <= Len(Plan[mem.cfg])
      BY <1>t, <1>c, <2>1, <2>2, MarkDoneFacts
    <3> QED
      BY <1>t, <2>1, <3>1, <3>2, MarkDoneFacts DEF MountsKept
  <2> QED
    BY <2>3, <2>4
<1>10. CASE InstallDone \/ HardStepFails
  BY <1>10 DEF InstallDone, HardStepFails, MountsKept
<1>11. CASE OrphanEnds \/ UNCHANGED vars
  BY <1>t, <1>11 DEF OrphanEnds, vars, run, target, MountsKept, MountedIn, Key
<1>12. CASE EditPartitions \/ ResumeRefused \/ Decline \/ Quit \/ Kill \/ Reboot
  BY <1>12 DEF EditPartitions, Starting, ResumeRefused, Decline, Quit, Kill,
      Exit, Reboot, run, MountsKept
<1> QED
  BY <1>1, <1>2, <1>3, <1>4, <1>5, <1>6, <1>7, <1>8, <1>9, <1>10, <1>11, <1>12
  DEF Next, Loop, Idle

(* Recorded steps keep the order of the plan. *)
LEMMA OrderedNext ==
    ASSUME Control, [Next]_vars
    PROVE  \A s \in States' : Ordered(s)
<1>t. TypeOK /\ LoopOrdered /\ \A s \in States : Ordered(s)
  BY DEF Control
<1>e. ASSUME NEW s, NEW t, Ordered(s), t.done = s.done \/ t.done = {} PROVE Ordered(t)
  BY <1>e DEF Ordered, Partitioned, FormattedIn, MountedIn
<1>1. \A s \in Stored' : Ordered(s)
  <2>1. Stored' \subseteq Stored \cup {mem} /\ (pc # "save" => Stored' \subseteq Stored)
    BY CopiesNext DEF Stored
  <2> QED
    BY <1>t, <2>1 DEF States, Active
<1>2. pc' # "off" => Ordered(mem')
  <2>1. CASE pc = "off" /\ pc' = "save" /\ (mem'.done = {} \/ mem' \in Stored)
    BY <1>t, <2>1 DEF States, Ordered, Partitioned, FormattedIn, MountedIn
  <2>2. CASE pc = "step" /\ MarkDone
    <3>1. mem'.done = mem.done \cup {Key} /\ Ordered(mem)
      BY <1>t, <2>2, MarkDoneFacts DEF States, Active
    <3> QED
      BY <1>t, <2>2, <3>1, PlanFacts
      DEF Ordered, Partitioned, FormattedIn, MountedIn, OnTarget, OffTarget
  <2>3. CASE pc # "off" /\ mem'.done = mem.done
    BY <1>t, <1>e, <2>3 DEF States, Active
  <2> QED
    BY <1>t, <2>1, <2>2, <2>3, MemoryNext
<1> QED
  BY <1>1, <1>2 DEF States, Active

LEMMA ControlInit == Init => Control
<1> SUFFICES ASSUME Init PROVE Control
  OBVIOUS
<1>1. TypeOK /\ States = {} /\ pc = "off"
  BY TypeInit DEF Init, Stored, States, Active
<1> QED
  BY <1>1 DEF Control, SaveOrdered, LoopOrdered, StepTodo, MountsKept, Active

LEMMA ControlNext == Control /\ [Next]_vars => Control'
<1> SUFFICES ASSUME Control, [Next]_vars PROVE Control'
  OBVIOUS
<1>1. TypeOK'
  BY TypeNext DEF Control
<1>2. (\A s \in States : Ordered(s))'
  BY OrderedNext DEF Ordered, Partitioned, FormattedIn, MountedIn
<1> QED
  BY <1>1, <1>2, SaveOrderedNext, LoopOrderedNext, StepTodoNext, MountsKeptNext DEF Control

(***************************************************************************)
(* What the loop has passed is done, records keep the plan's order and the *)
(* target is mounted from mount-disks to cleanup, whatever is partitioned  *)
(* by whom.                                                                *)
(***************************************************************************)
THEOREM ControlInvariant == Spec => []Control
BY ControlInit, ControlNext, PTL DEF Spec

(***************************************************************************)
(* No step that writes to the target runs without the target mounted, a    *)
(* resumed one included, with guided and with manual partitioning.         *)
(***************************************************************************)
THEOREM NeverUnmounted == Spec => []MountedWhileInstalling
<1>1. Control => MountedWhileInstalling
  <2> SUFFICES ASSUME Control, pc = "step", OnTarget(Key)
               PROVE  Target(mem.cfg) \subseteq held
    BY DEF MountedWhileInstalling, Target, Root
  <2>1. TypeOK /\ LoopOrdered /\ MountsKept
    BY DEF Control
  <2>2. MountedIn(mem) /\ at \in 1..Len(Plan[mem.cfg])
    BY <2>1, PlanFacts, KeyType
  <2> QED
    BY <2>1, <2>2 DEF MountsKept, OnTarget, OffTarget
<1> QED
  BY <1>1, ControlInvariant, PTL

-----------------------------------------------------------------------------
(***************************************************************************)
(* The steps of guided installs, by what they do to the copies, the disk   *)
(* and the record: the invariants below look at nothing else.              *)
(***************************************************************************)
Follows == pc' = "off" \/ (pc # "off" /\ pc' # "off" /\ mem' = mem)

TableMade ==
    /\ NewTable /\ local' = local /\ orphan' = "none"
    /\ pc = "step" /\ Key = "partition-disk" /\ Follows

FormatLost ==
    /\ RootLost \/ EspLost
    /\ UNCHANGED <<local, orphan>>
    /\ pc = "step" /\ Key = "format-disks" /\ Follows /\ ~ PartitionRan'

OrphanLoses ==
    /\ orphan = "mkfs" /\ orphan' = "none" /\ RootLost
    /\ UNCHANGED local /\ Follows /\ (PartitionRan' => PartitionRan)

Orphaned ==
    /\ UNCHANGED <<table, has, local, disk>>
    /\ pc = "step" /\ pc' = "off"
    /\ orphan' = "mkfs" => Key = "format-disks"

Quiet ==
    /\ UNCHANGED <<table, has>>
    /\ local' \in {local, None} /\ disk' \in {disk, None}
    /\ orphan' \in {orphan, "none", "holder"}
    /\ Follows /\ (PartitionRan' => PartitionRan)

GuidedStep ==
    \/ \E c \in Configs : Launch(c)
    \/ Resume \/ Capture \/ RenameLocal \/ RenameDisk
    \/ StepSucceeds \/ SoftStepFails
    \/ TableMade \/ FormatLost \/ OrphanLoses \/ Orphaned \/ Quiet

(* A command that fails, or is cut short, did nothing, made a new table or *)
(* lost a filesystem, and each only in the step it belongs to.             *)
LEMMA MangledKinds ==
    ASSUME TypeOK, StepTodo, pc = "step", ~ Busy, Mangled
    PROVE  \/ DiskKept
           \/ NewTable /\ Key = "partition-disk" /\ orphan = "none"
           \/ (RootLost \/ EspLost) /\ Key = "format-disks"
<1>1. CASE TableDue /\ NewTable
  BY <1>1 DEF TableDue, Due, StepTodo, Busy
<1>2. CASE EspDue /\ EspLost
  BY <1>2 DEF EspDue, Due, StepTodo
<1>3. CASE (LuksDue \/ RootDue) /\ RootLost
  BY <1>3 DEF LuksDue, RootDue, Due, StepTodo
<1> QED
  BY <1>1, <1>2, <1>3 DEF Mangled

(* Every step of a guided install is of one of these kinds. *)
LEMMA NextKinds ==
    ASSUME Guided, IInv, [Next]_vars
    PROVE  GuidedStep
<1>t. TypeOK /\ StepTodo
  BY DEF IInv, Control
<1>k. ASSUME pc = "step", pc' = "step", UNCHANGED <<mem, at>>,
             "table" \in todo => "table" \in todo'
      PROVE  PartitionRan' => PartitionRan
  BY <1>k DEF PartitionRan, Key
<1>n. ASSUME pc' # "step" PROVE ~ PartitionRan'
  BY <1>n DEF PartitionRan
<1>u. ASSUME UNCHANGED run PROVE Follows /\ (PartitionRan' => PartitionRan)
  <2>1. pc' = "off" => ~ PartitionRan'
    BY DEF PartitionRan
  <2> QED
    BY <1>u, <2>1 DEF Follows, PartitionRan, Key, run
<1>1. CASE EditPartitions
  BY <1>1 DEF EditPartitions, Guided
<1>2. CASE ResumeRefused \/ UNCHANGED vars
  BY <1>2, <1>u DEF ResumeRefused, vars, copies, target, outside, Quiet, GuidedStep
<1>3. CASE Confirm \/ Decline \/ Quit
  BY <1>3, <1>n DEF Confirm, Decline, Quit, Exit, Follows, copies, target, outside, Quiet, GuidedStep
<1>4. CASE Saves
  <2>1. CASE Capture \/ RenameLocal \/ RenameDisk
    BY <2>1 DEF GuidedStep
  <2>2. CASE WriteTmp \/ RenameStub
    BY <2>2, <1>n DEF WriteTmp, RenameStub, Follows, target, outside, Quiet, GuidedStep
  <2>3. CASE SaveFails
    BY <2>3, <1>n DEF SaveFails, Exit, Follows, target, Quiet, GuidedStep
  <2>4. CASE SaveEnds
    <3>1. pc' # "step" /\ pc' # "off"
      BY <1>t, <2>4 DEF SaveEnds, TypeOK
    <3> QED
      BY <2>4, <3>1, <1>n DEF SaveEnds, Follows, copies, target, outside, Quiet, GuidedStep
  <2> QED
    BY <1>4, <2>1, <2>2, <2>3, <2>4 DEF Saves
<1>5. CASE Mounts
  <2>1. /\ UNCHANGED <<table, has, local, disk, orphan, mem, at>>
        /\ pc \in {"restore", "step"} /\ pc' \in {"restore", "step", "error", "run"}
        /\ pc' = "step" => pc = "step"
        /\ pc = "step" /\ "table" \in todo => "table" \in todo'
    BY <1>5 DEF Mounts, OpenLuks, MountRoot, MountEsp, Swapon, SwaponFile,
        Mounting, Mounted, Do, RestoreFails, RestoreEnds, copies, target, outside
  <2> QED
    BY <2>1, <1>k, <1>n DEF Follows, Quiet, GuidedStep
<1>6. CASE Releases
  <2>1. /\ UNCHANGED <<table, has, local, disk, mem, at>> /\ orphan' \in {orphan, "holder"}
        /\ pc \in {"release", "step"} /\ pc' \in {"release", "step", "error"}
        /\ pc' = "step" => pc = "step"
        /\ pc = "step" /\ "table" \in todo => "table" \in todo'
    BY <1>6 DEF Releases, Swapoff, Umount, CloseLuks, Releasing, Released, Do,
        ReleaseFails, ReleaseEnds, copies, target, outside
  <2> QED
    BY <2>1, <1>k, <1>n DEF Follows, Quiet, GuidedStep
<1>7. CASE DiskSteps
  <2>1. CASE Partition
    BY <2>1, <1>t DEF Partition, Do, Due, TableDue, Busy, StepTodo, Follows,
        outside, TableMade, GuidedStep
  <2>2. CASE FormatEsp \/ FormatLuks \/ FormatRoot
    <3>1. /\ RootLost \/ EspLost
          /\ UNCHANGED <<local, orphan, pc, mem, at>> /\ pc = "step"
          /\ todo \cap {"mkesp", "mkroot", "luks-format"} # {}
      BY <2>2 DEF FormatEsp, FormatLuks, FormatRoot, EspDue, LuksDue, RootDue, Due, outside
    <3>2. Key = "format-disks" /\ Key' = Key
      BY <1>t, <3>1 DEF StepTodo, Key
    <3> QED
      BY <3>1, <3>2 DEF Follows, PartitionRan, FormatLost, GuidedStep
  <2>3. CASE FormatSwap \/ RemoveStub \/ RemoveLocal \/ RemoveDisk
    <3>1. /\ UNCHANGED <<table, has, orphan, mem, at, pc>> /\ pc = "step"
          /\ local' \in {local, None} /\ disk' \in {disk, None}
          /\ "table" \in todo => "table" \in todo'
      BY <2>3 DEF FormatSwap, RemoveStub, RemoveLocal, RemoveDisk, Do, copies, target, outside
    <3> QED
      BY <3>1, <1>k DEF Follows, Quiet, GuidedStep
  <2> QED
    BY <1>7, <2>1, <2>2, <2>3 DEF DiskSteps
<1>8. CASE SkipDone \/ InstallDone
  BY <1>8, <1>n DEF SkipDone, InstallDone, Follows, copies, target, outside, Quiet, GuidedStep
<1>9. CASE BeginStep
  <2>1. /\ UNCHANGED <<table, has, local, disk, orphan, mem, at>>
        /\ pc = "run" /\ pc' = "step" /\ todo' = StepCommands(Key, mem.cfg)
    BY <1>9 DEF BeginStep, copies, target, outside
  <2>2. mem.cfg.scheme = "guided"
    BY <1>t, <2>1 DEF Guided, TypeOK, State
  <2>3. Key = "partition-disk" => "table" \in todo'
    BY <2>1, <2>2 DEF StepCommands
  <2> QED
    BY <2>1, <2>3 DEF Follows, PartitionRan, Key, Quiet, GuidedStep
<1>10. CASE HardStepFails
  <2>1. /\ UNCHANGED <<local, orphan, mem>>
        /\ pc = "step" /\ pc' \in {"release", "error"}
        /\ DiskKept \/ (~ Busy /\ Mangled)
    BY <1>10 DEF HardStepFails
  <2> QED
    BY <2>1, <1>n, <1>t, MangledKinds
    DEF Follows, DiskKept, TableMade, FormatLost, Quiet, GuidedStep
<1>11. CASE Kill
  <2>1. /\ local' = local /\ pc # "off" /\ pc' = "off"
        /\ \/ UNCHANGED orphan /\ (DiskKept \/ (pc = "step" /\ ~ Busy /\ Mangled))
           \/ /\ pc = "step" /\ DiskKept
              /\ orphan' = "mkfs" => LuksDue \/ RootDue
    BY <1>11 DEF Kill, Exit
  <2>2. pc = "step" /\ (LuksDue \/ RootDue) => Key = "format-disks"
    BY <1>t DEF LuksDue, RootDue, Due, StepTodo
  <2> QED
    BY <2>1, <2>2, <1>n, <1>t, MangledKinds
    DEF Follows, DiskKept, TableMade, FormatLost, Orphaned, Quiet, GuidedStep
<1>12. CASE OrphanEnds
  BY <1>12, <1>u DEF OrphanEnds, DiskKept, OrphanLoses, Quiet, GuidedStep
<1>13. CASE Reboot
  BY <1>13, <1>u DEF Reboot, Quiet, GuidedStep
<1>14. CASE Resume \/ StepSucceeds \/ SoftStepFails \/ \E c \in Configs : Launch(c)
  BY <1>14 DEF GuidedStep
<1> QED
  BY <1>1, <1>2, <1>3, <1>4, <1>5, <1>6, <1>7, <1>8, <1>9, <1>10, <1>11,
     <1>12, <1>13, <1>14 DEF Next, Loop, Idle

-----------------------------------------------------------------------------
(* Where effects live, and what destroys them.                             *)

(* The effects of guided steps: the table, or the target's filesystems. *)
LEMMA HomeFacts ==
    ASSUME Guided, NEW c \in Configs, NEW k
    PROVE  /\ Home(k, c) \subseteq Media
           /\ "table" \in Home(k, c) => k = "partition-disk"
           /\ k = "partition-disk" => Home(k, c) = {"table"}
           /\ k \in OffTarget \ {"partition-disk", "format-disks"} => Home(k, c) = {}
           /\ OnTarget(k) => Home(k, c) \subseteq {"root"} \cup Esp(c)
<1>1. c.scheme = "guided"
  BY DEF Guided
<1>2. CASE k = "partition-disk"
  BY <1>1, <1>2 DEF Home, Media, OnTarget, OffTarget
<1>3. CASE k \in {"format-disks", "bootloader"}
  BY <1>3 DEF Home, Media, Esp, OnTarget, OffTarget
<1>4. CASE OnTarget(k) /\ k # "bootloader"
  BY <1>4 DEF Home, Media, OnTarget, OffTarget
<1>5. CASE ~ OnTarget(k) /\ k \notin {"partition-disk", "format-disks", "bootloader"}
  BY <1>5 DEF Home, OnTarget
<1> QED
  BY <1>2, <1>3, <1>4, <1>5

(* A record from before partitioning claims no effect. *)
LEMMA NothingClaimed ==
    ASSUME Guided, NEW s \in State, Ordered(s), ~ Partitioned(s), NEW h
    PROVE  Covered(s, h)
<1> SUFFICES ASSUME NEW k \in s.done PROVE Home(k, s.cfg) = {}
  BY DEF Covered
<1>1. k \in OffTarget \ {"partition-disk", "format-disks"}
  BY DEF Ordered, Partitioned, FormattedIn, OnTarget
<1> QED
  BY <1>1, HomeFacts DEF State

(* Formatting destroys nothing a record from before it claims. *)
LEMMA UnformattedSurvives ==
    ASSUME Guided, TypeOK, NEW s \in State, Ordered(s), ~ FormattedIn(s),
           InPlace(s), RootLost \/ EspLost
    PROVE  Covered(s, has')
<1> SUFFICES ASSUME NEW k \in s.done, NEW m \in Home(k, s.cfg) PROVE k \in has'[m]
  BY DEF Covered
<1>1. k \in OffTarget \ {"format-disks"}
  BY DEF Ordered, FormattedIn, OnTarget
<1>2. m = "table" /\ m \in Media
  BY <1>1, HomeFacts DEF State, Media
<1>3. has'[m] = has[m]
  BY <1>2 DEF RootLost, EspLost, TypeOK
<1> QED
  BY <1>3 DEF InPlace, Covered

(* The disk only ever gets a newer table. *)
LEMMA TableGrows ==
    ASSUME TypeOK, GuidedStep
    PROVE  table' \in Nat /\ (table' = table \/ (NewTable /\ table' = table + 1 /\ TableMade))
BY DEF TypeOK, GuidedStep, Launch, Resume, Capture, RenameLocal, RenameDisk, StepSucceeds,
   SoftStepFails, TableMade, NewTable, FormatLost, RootLost, EspLost, OrphanLoses,
   Orphaned, Quiet, target

(* A step that only loses copies leaves no state that was not there. *)
LEMMA NoNewState ==
    ASSUME TableMade \/ FormatLost \/ OrphanLoses \/ Orphaned \/ Quiet
    PROVE  /\ Stored' \subseteq Stored /\ States' \subseteq States
           /\ pc' # "off" => pc # "off" /\ mem' = mem
           /\ local' \in {local, None} /\ disk' \in {disk, None}
<1>1. /\ local' \in {local, None} /\ disk' \in {disk, None}
      /\ pc' # "off" => pc # "off" /\ mem' = mem
  BY DEF TableMade, NewTable, FormatLost, RootLost, EspLost, OrphanLoses,
     Orphaned, Quiet, Follows
<1> QED
  BY <1>1 DEF Stored, States, Active

-----------------------------------------------------------------------------
(* Data: what the copies and the run record, against what is on the disk.  *)

(* PARTUUIDs name this table or an older one. *)
LEMMA IdentifiedNext ==
    ASSUME IInv, GuidedStep
    PROVE  Identified'
<1>t. /\ TypeOK /\ LoopOrdered /\ SaveOrdered /\ Identified
      /\ Active => mem \in States /\ mem \in State
  BY DEF IInv, Control, States, TypeOK, Active
<1>s. \A s \in States : s.uuid \in Nat
  BY <1>t DEF TypeOK, States, Stored, State, Active
<1>1. ASSUME NEW c \in Configs, Launch(c) PROVE Identified'
  <2>1. /\ Stored' = Stored /\ States' \subseteq Stored \cup {mem'} /\ table' = table
        /\ mem'.uuid = 0 /\ mem'.done = {}
    BY <1>1 DEF Launch, States, Stored, copies, target
  <2> QED
    BY <1>t, <2>1 DEF Identified, Partitioned, States, TypeOK
<1>2. CASE Resume
  <2>1. /\ mem' \in Stored /\ mem'.uuid \in {0, table} /\ table' = table
        /\ Stored' = Stored /\ States' \subseteq States
    BY <1>2 DEF Resume, Found, Refused, States, Stored, copies
  <2> QED
    BY <1>t, <2>1 DEF Identified, Partitioned, States
<1>3. CASE Capture
  <2>1. /\ mem'.done = mem.done /\ mem'.uuid = table /\ table' = table
        /\ Stored' = Stored /\ States' \subseteq Stored \cup {mem'}
    BY <1>t, <1>3 DEF Capture, State, States, Stored, Active, copies, target
  <2>2. Partitioned(mem)
    BY <1>t, <1>3 DEF Capture, Do, Due, SaveOrdered
  <2> QED
    BY <1>t, <2>1, <2>2 DEF Identified, Partitioned, States, TypeOK
<1>4. CASE RenameLocal \/ RenameDisk
  <2>1. /\ UNCHANGED <<mem, table>> /\ pc = "save" /\ todo # {} /\ "capture" \notin todo
        /\ Stored' \subseteq Stored \cup {mem} /\ States' \subseteq States
    BY <1>4 DEF RenameLocal, RenameDisk, Do, Due, Stored, States, Active, target
  <2>2. Partitioned(mem) => mem.uuid # 0
    BY <1>t, <2>1 DEF SaveOrdered
  <2> QED
    BY <1>t, <2>1, <2>2 DEF Identified, Partitioned, Active
<1>5. CASE StepSucceeds \/ SoftStepFails
  <2>1. /\ pc = "step" /\ mem'.done = mem.done \cup {Key} /\ mem'.uuid = mem.uuid
        /\ Stored' = Stored /\ States' \subseteq Stored \cup {mem'} /\ table' = table
    BY <1>t, <1>5, MarkDoneFacts
    DEF StepSucceeds, SoftStepFails, States, Stored, copies, target
  <2>2. mem \in States /\ Active
    BY <1>t, <2>1 DEF Active
  <2>3. mem.uuid \in {0, table}
    BY <1>t, <2>2 DEF Identified
  <2> QED
    BY <1>t, <2>1, <2>2, <2>3 DEF Identified, Partitioned, States
<1>6. CASE TableMade \/ FormatLost \/ OrphanLoses \/ Orphaned \/ Quiet
  <2>1. /\ Stored' \subseteq Stored /\ States' \subseteq States
        /\ pc' # "off" => pc # "off" /\ mem' = mem
    BY <1>6, NoNewState
  <2>2. CASE table' = table
    BY <1>t, <2>1, <2>2 DEF Identified, Partitioned, Active
  <2>3. CASE TableMade
    <3>1. table' = table + 1 /\ pc = "step" /\ Key = "partition-disk"
      BY <2>3 DEF TableMade, NewTable
    <3>2. ~ Partitioned(mem)
      BY <1>t, <3>1, PlanFacts DEF Partitioned
    <3> QED
      BY <1>t, <1>s, <2>1, <3>1, <3>2 DEF Identified, Partitioned, Active, TypeOK
  <2> QED
    BY <1>t, <1>6, <2>2, <2>3, TableGrows DEF GuidedStep
<1> QED
  BY <1>1, <1>2, <1>3, <1>4, <1>5, <1>6 DEF GuidedStep

(* Nothing stored is from a table that has just been made. *)
LEMMA NoneCurrent ==
    ASSUME IInv, TableMade
    PROVE  \A s \in Stored' : ~ Current(s)'
<1>1. Stored' \subseteq Stored
  BY NoNewState
<1>2. \A s \in Stored : s.uuid \in Nat /\ s.uuid <= table
  BY DEF IInv, Control, TypeOK, Identified, States, Stored, State
<1>3. table' = table + 1 /\ table \in Nat
  BY DEF TableMade, NewTable, IInv, Control, TypeOK
<1> QED
  BY <1>1, <1>2, <1>3 DEF Current

(* What the record claims, and every copy of this table, is on the disk. *)
LEMMA BackedNext ==
    ASSUME Guided, IInv, GuidedStep
    PROVE  Backed'
<1>t. /\ TypeOK /\ Backed /\ Identified /\ FormatPending /\ OrphanBlocks
      /\ LoopOrdered /\ MountsKept
      /\ \A s \in States : Ordered(s) /\ s \in State
      /\ Active => mem \in States
  BY DEF IInv, Control, TypeOK, States, Stored, Active
<1>1. ASSUME NEW c \in Configs, Launch(c) PROVE Backed'
  BY <1>t, <1>1 DEF Launch, Backed, InPlace, Covered, Stored, Current, Active, copies, target
<1>2. CASE Resume
  <2>1. /\ mem' \in Stored /\ mem'.uuid \in {0, table} /\ UNCHANGED <<table, has>>
        /\ Stored' = Stored
    BY <1>2 DEF Resume, Found, Refused, Stored, copies
  <2>2. CASE mem'.uuid = table
    BY <1>t, <2>1, <2>2 DEF Backed, InPlace, Covered, Current
  <2>3. CASE mem'.uuid = 0
    <3>1. mem' \in State /\ Ordered(mem') /\ ~ Partitioned(mem')
      BY <1>t, <2>1, <2>3 DEF Identified, States
    <3>2. Covered(mem', has')
      BY <3>1, NothingClaimed
    <3> QED
      BY <1>t, <2>1, <3>2 DEF Backed, InPlace, Covered, Current
  <2> QED
    BY <2>1, <2>2, <2>3
<1>3. CASE Capture
  <2>1. /\ mem'.done = mem.done /\ mem'.cfg = mem.cfg /\ UNCHANGED <<table, has, pc>>
        /\ Stored' = Stored /\ Active
    BY <1>t, <1>3 DEF Capture, State, Stored, Active, copies, target, TypeOK
  <2> QED
    BY <1>t, <2>1 DEF Backed, InPlace, Covered, Current, Active
<1>4. CASE RenameLocal \/ RenameDisk
  <2>1. /\ UNCHANGED <<mem, table, has, pc>> /\ Active
        /\ Stored' \subseteq Stored \cup {mem}
    BY <1>4 DEF RenameLocal, RenameDisk, Stored, Active, target
  <2> QED
    BY <1>t, <2>1 DEF Backed, InPlace, Covered, Current, Active
<1>5. CASE StepSucceeds \/ SoftStepFails
  <2>1. /\ pc = "step" /\ mem'.done = mem.done \cup {Key} /\ mem'.cfg = mem.cfg
        /\ Stored' = Stored /\ table' = table /\ Active
        /\ mem \in State /\ mem.cfg \in Configs /\ at \in 1..Len(Plan[mem.cfg])
    BY <1>t, <1>5, MarkDoneFacts, KeyType
    DEF StepSucceeds, SoftStepFails, Stored, Active, copies, target
  <2>2. \A m \in Media : has[m] \subseteq has'[m]
    BY <1>t, <1>5 DEF StepSucceeds, SoftStepFails, Landed, target, TypeOK
  <2>3. \A s \in State : \A k : Home(k, s.cfg) \subseteq Media
    BY HomeFacts DEF State
  <2>4. \A s \in State : InPlace(s) => Covered(s, has')
    BY <2>2, <2>3 DEF InPlace, Covered
  <2>5. \A m \in Home(Key, mem.cfg) : Key \in has'[m]
    <3>1. CASE StepSucceeds
      <4>1. OnTarget(Key) => Target(mem.cfg) \subseteq held
        BY <1>t, <2>1, PlanFacts DEF MountsKept, OnTarget, OffTarget
      <4>2. OnTarget(Key) => Home(Key, mem.cfg) \subseteq held
        BY <2>1, <4>1, HomeFacts DEF Target, Root
      <4> QED
        BY <2>1, <2>3, <3>1, <4>2 DEF StepSucceeds, Landed, OnTarget
    <3>2. CASE SoftStepFails
      BY <2>1, <3>2, SoftAssumption, HomeFacts DEF SoftStepFails
    <3> QED
      BY <1>5, <3>1, <3>2
  <2>6. Covered(mem', has')
    BY <1>t, <2>1, <2>4, <2>5 DEF Backed, Covered
  <2> QED
    BY <1>t, <2>1, <2>4, <2>6 DEF Backed, InPlace, Current, States
<1>6. CASE TableMade
  <2>1. pc = "step" /\ Key = "partition-disk" /\ Active /\ (Active' => mem' = mem)
    BY <1>6, NoNewState DEF TableMade, Active
  <2>2. ~ Partitioned(mem)
    BY <1>t, <2>1, PlanFacts DEF Partitioned
  <2>3. Covered(mem, has')
    BY <1>t, <2>1, <2>2, NothingClaimed
  <2> QED
    BY <1>6, <2>1, <2>3, NoneCurrent DEF Backed, InPlace, Covered
<1>7. CASE FormatLost \/ OrphanLoses
  <2>1. /\ Stored' \subseteq Stored /\ table' = table
        /\ RootLost \/ EspLost
        /\ Active' => Active /\ mem' = mem
    BY <1>7, NoNewState DEF FormatLost, OrphanLoses, RootLost, EspLost, Active
  <2>2. /\ Active => ~ FormattedIn(mem)
        /\ \A s \in Stored : Current(s) => ~ FormattedIn(s)
    <3>1. CASE FormatLost
      <4>1. pc = "step" /\ Key = "format-disks" /\ Active
        BY <3>1 DEF FormatLost, Active
      <4> QED
        BY <1>t, <4>1, PlanFacts DEF FormatPending, FormattedIn
    <3>2. CASE OrphanLoses
      BY <1>t, <3>2 DEF OrphanLoses, FormatPending, OrphanBlocks, Ordered
    <3> QED
      BY <1>7, <3>1, <3>2
  <2>3. \A s \in States : InPlace(s) /\ ~ FormattedIn(s) => Covered(s, has')
    BY <1>t, <2>1, UnformattedSurvives
  <2>4. \A s \in Stored : Current(s) => Covered(s, has')
    BY <1>t, <2>2, <2>3 DEF Backed, States
  <2>5. Active => Covered(mem, has')
    BY <1>t, <2>2, <2>3 DEF Backed
  <2>6. \A s \in Stored' : Current(s)' => InPlace(s)'
    BY <2>1, <2>4 DEF InPlace, Covered, Current
  <2>7. Active' => InPlace(mem)'
    BY <2>1, <2>5 DEF InPlace, Covered
  <2> QED
    BY <2>6, <2>7 DEF Backed
<1>8. CASE Orphaned \/ Quiet
  <2>1. /\ Stored' \subseteq Stored /\ UNCHANGED <<table, has>>
        /\ Active' => Active /\ mem' = mem
    BY <1>8, NoNewState DEF Orphaned, Quiet, Active
  <2> QED
    BY <1>t, <2>1 DEF Backed, InPlace, Covered, Current
<1> QED
  BY <1>1, <1>2, <1>3, <1>4, <1>5, <1>6, <1>7, <1>8 DEF GuidedStep

(* A pending format contradicts no copy of this table. *)
LEMMA FormatPendingNext ==
    ASSUME IInv, GuidedStep
    PROVE  FormatPending'
<1>t. /\ TypeOK /\ FormatPending /\ Identified /\ OrphanBlocks /\ LocalNewer
      /\ SaveOrdered /\ LoopOrdered
      /\ \A s \in States : Ordered(s)
      /\ Active => mem \in States
  BY DEF IInv, Control, States, Active
<1>1. ASSUME NEW c \in Configs, Launch(c) PROVE FormatPending'
  <2>1. /\ ~ Partitioned(mem') /\ Stored' = Stored /\ UNCHANGED <<table, orphan>>
        /\ pc' # "step"
    BY <1>1 DEF Launch, Partitioned, Stored, copies, target
  <2> QED
    BY <1>t, <2>1 DEF FormatPending, PartitionRan, Current, Partitioned, FormattedIn
<1>2. CASE Resume
  <2>1. /\ mem' \in Stored /\ mem'.uuid \in {0, table} /\ table' = table
        /\ local # None => mem' = local
        /\ local = None => mem' = disk
        /\ UNCHANGED <<local, disk>> /\ pc' # "step"
        /\ orphan \notin {"mkfs", "tool"} /\ orphan' = orphan
    BY <1>2 DEF Resume, Found, Refused, Stored, copies
  <2>2. ASSUME Partitioned(mem'), ~ FormattedIn(mem'), NEW s \in Stored, Current(s)
        PROVE  ~ FormattedIn(s)
    <3>1. Current(mem')
      BY <1>t, <2>1, <2>2 DEF Identified, Current
    <3> QED
      BY <1>t, <2>1, <2>2, <3>1 DEF LocalNewer, Stored
  <2> QED
    BY <2>1, <2>2 DEF FormatPending, PartitionRan, Current, Partitioned, FormattedIn, Stored
<1>3. CASE Capture
  <2>1. /\ mem'.done = mem.done /\ UNCHANGED <<table, pc, orphan>>
        /\ Stored' = Stored /\ pc = "save"
    BY <1>t, <1>3 DEF Capture, State, Stored, copies, target, outside, TypeOK
  <2> QED
    BY <1>t, <2>1 DEF FormatPending, PartitionRan, Current, Partitioned, FormattedIn, Active
<1>4. CASE RenameLocal \/ RenameDisk
  <2>1. /\ UNCHANGED <<mem, table, pc, orphan>> /\ pc = "save" /\ Active
        /\ Stored' \subseteq Stored \cup {mem}
    BY <1>4 DEF RenameLocal, RenameDisk, Stored, target, outside, Active
  <2>2. orphan = "mkfs" => ~ FormattedIn(mem)
    BY <1>t, <2>1 DEF OrphanBlocks, Ordered
  <2> QED
    BY <1>t, <2>1, <2>2 DEF FormatPending, PartitionRan, Current, Active
<1>5. CASE StepSucceeds \/ SoftStepFails
  <2>1. /\ pc = "step" /\ mem'.done = mem.done \cup {Key} /\ pc' # "step"
        /\ Stored' = Stored /\ UNCHANGED <<table, orphan>> /\ Active
        /\ Key = "partition-disk" => todo = {}
    BY <1>t, <1>5, MarkDoneFacts, SoftAssumption
    DEF StepSucceeds, SoftStepFails, Stored, Active, copies, target, outside
  <2>2. ASSUME Partitioned(mem'), ~ FormattedIn(mem'), NEW s \in Stored, Current(s)
        PROVE  ~ FormattedIn(s)
    <3>1. CASE Key = "partition-disk"
      BY <1>t, <2>1, <2>2, <3>1 DEF FormatPending, PartitionRan
    <3>2. CASE Key # "partition-disk"
      BY <1>t, <2>1, <2>2, <3>2 DEF FormatPending, Partitioned, FormattedIn
    <3> QED
      BY <3>1, <3>2
  <2> QED
    BY <1>t, <2>1, <2>2 DEF FormatPending, PartitionRan, Current, Partitioned, FormattedIn
<1>6. CASE TableMade
  BY <1>6, NoneCurrent DEF FormatPending
<1>7. CASE FormatLost \/ OrphanLoses \/ Orphaned \/ Quiet
  <2>1. /\ Stored' \subseteq Stored /\ table' = table
        /\ Active' => Active /\ mem' = mem
        /\ PartitionRan' => PartitionRan
    BY <1>7, NoNewState DEF FormatLost, OrphanLoses, Orphaned, Quiet, RootLost,
       EspLost, Active, PartitionRan
  <2>2. orphan' = "mkfs" => \A s \in Stored : Current(s) => ~ FormattedIn(s)
    <3>1. CASE Orphaned
      BY <1>t, <3>1, PlanFacts DEF Orphaned, FormatPending, FormattedIn, Active
    <3>2. CASE FormatLost \/ OrphanLoses \/ Quiet
      BY <1>t, <3>2 DEF FormatLost, OrphanLoses, Quiet, FormatPending
    <3> QED
      BY <1>7, <3>1, <3>2
  <2> QED
    BY <1>t, <2>1, <2>2 DEF FormatPending, Current
<1> QED
  BY <1>1, <1>2, <1>3, <1>4, <1>5, <1>6, <1>7 DEF GuidedStep

(* The copy in /tmp is not behind the one on the disk across the format. *)
LEMMA LocalNewerNext ==
    ASSUME IInv, GuidedStep
    PROVE  LocalNewer'
<1>t. TypeOK /\ LocalNewer /\ FormatPending /\ Identified /\ SaveOrdered
  BY DEF IInv, Control
<1>1. CASE RenameLocal
  <2>1. local' = mem /\ UNCHANGED <<disk, table>> /\ Active
    BY <1>1 DEF RenameLocal, target, Active
  <2>2. ASSUME Current(mem), disk # None, Current(disk), FormattedIn(disk)
        PROVE  FormattedIn(mem)
    <3>1. mem \in States /\ mem.uuid # 0
      BY <1>t, <2>1, <2>2 DEF States, Current, TypeOK
    <3>2. Partitioned(mem)
      BY <1>t, <3>1 DEF Identified
    <3> QED
      BY <1>t, <2>1, <2>2, <3>2 DEF FormatPending, Stored
  <2> QED
    BY <2>1, <2>2 DEF LocalNewer, Current, FormattedIn
<1>2. CASE RenameDisk
  BY <1>t, <1>2 DEF RenameDisk, Do, Due, SaveOrdered, LocalNewer
<1>3. CASE TableMade
  BY <1>3, NoneCurrent DEF LocalNewer, Stored
<1>4. CASE FormatLost \/ OrphanLoses \/ Orphaned \/ Quiet
  <2>1. local' \in {local, None} /\ disk' \in {disk, None} /\ table' = table
    BY <1>4, NoNewState DEF FormatLost, OrphanLoses, Orphaned, Quiet, RootLost, EspLost
  <2> QED
    BY <1>t, <2>1 DEF LocalNewer, Current
<1>5. CASE Resume \/ Capture \/ StepSucceeds \/ SoftStepFails \/ \E c \in Configs : Launch(c)
  BY <1>t, <1>5 DEF Resume, Capture, StepSucceeds, SoftStepFails, Launch, copies,
      target, LocalNewer, Current
<1> QED
  BY <1>1, <1>2, <1>3, <1>4, <1>5 DEF GuidedStep

(* An orphan keeps the runs after it from partitioning. *)
LEMMA OrphanBlocksNext ==
    ASSUME IInv, GuidedStep
    PROVE  OrphanBlocks'
<1>t. TypeOK /\ OrphanBlocks /\ LoopOrdered
  BY DEF IInv, Control
<1>1. CASE \E c \in Configs : Launch(c)
  BY <1>1 DEF Launch, OrphanBlocks, Partitioned, PartitionRan
<1>2. CASE Resume
  BY <1>2 DEF Resume, Refused, OrphanBlocks
<1>3. CASE Capture
  <2>1. mem'.done = mem.done /\ UNCHANGED <<pc, orphan>> /\ pc = "save"
    BY <1>t, <1>3 DEF Capture, State, TypeOK, outside
  <2> QED
    BY <1>t, <2>1 DEF OrphanBlocks, Partitioned, PartitionRan, Active
<1>4. CASE RenameLocal \/ RenameDisk
  BY <1>t, <1>4 DEF RenameLocal, RenameDisk, outside, OrphanBlocks, PartitionRan, Active
<1>5. CASE StepSucceeds \/ SoftStepFails
  <2>1. /\ pc = "step" /\ mem'.done = mem.done \cup {Key} /\ pc' # "step"
        /\ orphan' = orphan
        /\ Key = "partition-disk" => todo = {}
    BY <1>t, <1>5, MarkDoneFacts, SoftAssumption DEF StepSucceeds, SoftStepFails, outside
  <2> QED
    BY <1>t, <2>1 DEF OrphanBlocks, Partitioned, PartitionRan, Active
<1>6. CASE TableMade \/ OrphanLoses \/ Orphaned
  BY <1>6 DEF TableMade, OrphanLoses, Orphaned, OrphanBlocks, Active
<1>7. CASE FormatLost \/ Quiet
  <2>1. /\ orphan' \in {orphan, "none", "holder"} /\ (Active' => Active /\ mem' = mem)
        /\ PartitionRan' => PartitionRan
    BY <1>7, NoNewState DEF FormatLost, Quiet, Active
  <2> QED
    BY <1>t, <2>1 DEF OrphanBlocks
<1> QED
  BY <1>1, <1>2, <1>3, <1>4, <1>5, <1>6, <1>7 DEF GuidedStep

-----------------------------------------------------------------------------
(* The invariant holds before the first run. *)
LEMMA InvariantInit == Init => IInv
<1> SUFFICES ASSUME Init PROVE IInv
  OBVIOUS
<1>1. Control /\ Stored = {} /\ States = {} /\ pc = "off" /\ orphan = "none"
  BY ControlInit DEF Init, Stored, States, Active
<1> QED
  BY <1>1 DEF IInv, Init, Identified, Backed, FormatPending, PartitionRan, LocalNewer,
     OrphanBlocks, Active

(***************************************************************************)
(* The inductive invariant of guided installs, whatever fails, is killed,  *)
(* outlives its run or reboots, and however often.                         *)
(***************************************************************************)
THEOREM Invariant ==
    ASSUME Guided
    PROVE  Spec => []IInv
<1>1. Init => IInv
  BY InvariantInit
<1>2. IInv /\ [Next]_vars => IInv'
  <2> SUFFICES ASSUME IInv, [Next]_vars PROVE IInv'
    OBVIOUS
  <2>1. GuidedStep
    BY NextKinds
  <2>2. Control'
    BY ControlNext DEF IInv
  <2> QED
    BY <2>1, <2>2, IdentifiedNext, BackedNext, FormatPendingNext, LocalNewerNext,
       OrphanBlocksNext
    DEF IInv
<1> QED
  BY <1>1, <1>2, PTL DEF Spec

(***************************************************************************)
(* No run skips a step whose effect is gone: progress.go skips on IsDone   *)
(* alone, and across every sequence of runs, faults and resumes that alone *)
(* is enough when the partitions are falconia's own.                       *)
(***************************************************************************)
THEOREM SkipsAreSafe ==
    ASSUME Guided
    PROVE  Spec => []SkippedStepsInPlace
<1>1. IInv => SkippedStepsInPlace
  BY DEF IInv, Control, Backed, SkippedStepsInPlace, Active
<1> QED
  BY <1>1, Invariant, PTL
=============================================================================
