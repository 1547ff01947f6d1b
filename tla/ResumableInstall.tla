-------------------------- MODULE ResumableInstall --------------------------
(***************************************************************************)
(* One target disk, and the successive runs of falconia that install on    *)
(* it: fresh runs, runs that fail and release the disk, runs that are      *)
(* killed between any two commands, reboots, and `falconia --resume`.      *)
(* The loop is the goroutine of tui/steps/progress.go; the saved state is  *)
(* installer/state.go; finding it again and restoring the mounts is        *)
(* installer/resume.go; the disk commands are installer/disk.go.           *)
(*                                                                         *)
(* A save, a restore, a step and a release are sequences of commands.  The *)
(* commands still to run are the set todo; Do says which one is next.      *)
(*                                                                         *)
(* Definitions whose comment starts with "Wrong" are not part of the       *)
(* specification: each is a mistake the code could plausibly contain in    *)
(* place of the definition after it, and some property fails with it.      *)
(***************************************************************************)
EXTENDS Integers, Sequences

CONSTANTS
    Configs,       \* the configurations a fresh run may be started with
    Plan,          \* Plan[c]: the steps that apply to c, in order
    Soft,          \* the steps whose failure does not abort the install
    None,          \* no state in memory, no copy in a file
    Faults,        \* the kinds of fault that may happen: "step", "save",
                   \* "restore", "release", "kill", "orphan", "reboot"
    MaxLaunches,   \* bound: how often falconia starts working
    MaxFaults      \* bound: how many faults happen

Keys == UNION { {Plan[c][i] : i \in 1..Len(Plan[c])} : c \in Configs }

Media == {"table", "root", "esp"}
Holds == {"root", "esp", "luks", "swap-part", "swap-file"}
Copies == {"local", "disk", "esp"}

(* What a save, a restore, a step and a release are made of. *)
Commands ==
    { "capture", "write-local", "rename-local", "write-disk", "rename-disk",
      "write-esp", "rename-esp", "swapoff", "umount", "close", "table",
      "mkesp", "mkswap", "luks-format", "luks-open", "mkroot", "mount-root",
      "mount-esp", "swapon", "swapon-file", "rm-stub", "rm-local", "rm-disk" }

(* installer.State: the configuration, the completed steps and the         *)
(* PARTUUIDs, of which only the generation of the partition table they     *)
(* were read from matters; 0 is the nil map.                               *)
State == [cfg : Configs, done : SUBSET Keys, uuid : Nat]

(***************************************************************************)
(* Where a finished step's effect lives.  Steps with no medium leave       *)
(* nothing a resumed run depends on, or something it redoes itself.        *)
(***************************************************************************)
OffTarget == { "verify-internet", "sync-clock", "rank-mirrors",
               "partition-disk", "format-disks", "mount-disks",
               "detect-windows", "remove-state", "cleanup" }

OnTarget(k) == k \notin OffTarget

(* The partitions page asks for /boot/efi with UEFI; the further mappings  *)
(* of a manual layout are formatted and mounted like the ESP.              *)
Esp(c) == IF c.firmware = "uefi" THEN {"esp"} ELSE {}

(* Manual layouts swap where the mappings say, whatever the swap mode.     *)
SwapPart(c) == IF c.scheme = "manual" THEN c.mapsSwap ELSE c.swap = "partition"

Home(k, c) ==
    CASE k = "partition-disk" -> IF c.scheme = "guided" THEN {"table"} ELSE {}
      [] k \in {"format-disks", "bootloader"} -> {"root"} \cup Esp(c)
      [] OnTarget(k) /\ k # "bootloader" -> {"root"}
      [] OTHER -> {}

(* Step a comes before step b wherever b occurs in c's plan. *)
Before(c, a, b) ==
    \A i \in 1..Len(Plan[c]) :
        Plan[c][i] = b => \E j \in 1..(i - 1) : Plan[c][j] = a

ASSUME PlanAssumption ==
    \A c \in Configs :
        /\ Plan[c] \in Seq(Keys)
        /\ \A i, j \in 1..Len(Plan[c]) : Plan[c][i] = Plan[c][j] => i = j
        /\ Before(c, "partition-disk", "format-disks")
        /\ Before(c, "format-disks", "mount-disks")
        /\ \A k \in Keys : OnTarget(k) \/ k = "cleanup" =>
                              Before(c, "mount-disks", k)
        /\ \A i \in 1..Len(Plan[c]) :
              Plan[c][i] = "cleanup" => i = Len(Plan[c])

(* Every plan removes the state, while the target is mounted, and no step  *)
(* after that can abort the install.                                       *)
ASSUME RemovalAssumption ==
    \A c \in Configs :
        /\ \E i \in 1..Len(Plan[c]) : Plan[c][i] = "remove-state"
        /\ Before(c, "mount-disks", "remove-state")
        /\ \A i \in 1..Len(Plan[c]) :
              Plan[c][i] = "remove-state" =>
                  \A j \in (i + 1)..Len(Plan[c]) : Plan[c][j] \in Soft

ASSUME ConfigAssumption ==
    \A c \in Configs :
        /\ c.scheme \in {"guided", "manual"}
        /\ c.firmware \in {"uefi", "bios"}
        /\ c.encrypt \in BOOLEAN
        /\ c.encrypt => c.scheme = "guided"
        /\ c.swap \in {"none", "partition", "file", "suspend"}
        /\ c.mapsSwap \in BOOLEAN

(* One machine: the firmware is detected, not chosen. *)
ASSUME FirmwareAssumption == \A c, d \in Configs : c.firmware = d.firmware

ASSUME SoftAssumption ==
    \A k \in Soft : k \in OffTarget /\ k \notin
        {"partition-disk", "format-disks", "mount-disks", "remove-state"}

ASSUME NoneAssumption == None \notin State

ASSUME NobodyAssumption == None \notin [cfg : Configs, done : SUBSET Keys]

ASSUME BoundAssumption == MaxLaunches \in Nat /\ MaxFaults \in Nat

VARIABLES
    pc,        \* what this run is doing
    after,     \* where the run goes on once the save in progress ends
    mem,       \* ProgressModel.saved
    at,        \* index of the step the loop is at
    todo,      \* commands of the current save, restore, step or release
    saving,    \* the flag save() looks at
    local,     \* /tmp/falconia/state.json
    disk,      \* /var/lib/falconia/state.json on the root filesystem
    stub,      \* falconia-resume.json on the ESP: a table generation, or 0
    partial,   \* the copies that left a .tmp file beside them
    table,     \* generation of the partition table: what PARTUUIDs name
    has,       \* has[m]: the steps whose effect is on medium m
    held,      \* mounts, mapper and swap that keep the disk busy
    orphan,    \* a process that outlived the command or run that started
               \* it: "mkfs" formats the root, "tool" is another one that
               \* --resume looks for, "holder" one that it does not
    launches, faults

run     == <<pc, after, mem, at, todo, saving>>
copies  == <<local, disk, stub, partial>>
target  == <<table, has, held>>
outside == <<orphan, launches, faults>>
vars    == <<run, copies, target, outside>>

TypeOK ==
    /\ pc \in {"off", "save", "ask", "restore", "run", "step", "release",
               "error", "done"}
    /\ after \in {"ask", "restore", "run"}
    /\ mem \in State \cup {None}
    /\ (mem = None) = (pc = "off")
    /\ at \in Nat \ {0}
    /\ pc = "step" => at <= Len(Plan[mem.cfg])
    /\ todo \subseteq Commands
    /\ saving \in BOOLEAN
    /\ local \in State \cup {None}
    /\ disk \in State \cup {None}
    /\ stub \in Nat
    /\ partial \subseteq Copies
    /\ table \in Nat \ {0}
    /\ has \in [Media -> SUBSET Keys]
    /\ held \subseteq Holds
    /\ orphan \in {"none", "mkfs", "tool", "holder"}
    /\ launches \in 0..MaxLaunches
    /\ faults \in 0..MaxFaults

-----------------------------------------------------------------------------
(* The disk.                                                               *)

(* A new table: new PARTUUIDs, and no step's effect is reachable.  The old *)
(* filesystems, and the copies on them, can still be read until mkfs.      *)
NewTable ==
    /\ table' = table + 1
    /\ has' = [m \in Media |-> {}]
    /\ UNCHANGED <<disk, stub, partial>>

RootLost ==
    /\ has' = [has EXCEPT !["root"] = {}]
    /\ disk' = None
    /\ partial' = partial \ {"disk"}
    /\ UNCHANGED <<table, stub>>

EspLost ==
    /\ has' = [has EXCEPT !["esp"] = {}]
    /\ stub' = 0
    /\ partial' = partial \ {"esp"}
    /\ UNCHANGED <<table, disk>>

DiskKept == UNCHANGED <<table, has, disk, stub, partial>>

(* Commands. *)
ReleaseCommands == {"swapoff", "umount", "close"}

FormatCommands(c) ==
    {"mkroot"}
      \cup (IF c.firmware = "uefi" THEN {"mkesp"} ELSE {})
      \cup (IF SwapPart(c) THEN {"mkswap"} ELSE {})
      \cup (IF c.encrypt THEN {"luks-format", "luks-open"} ELSE {})

MountCommands(c) ==
    {"mount-root"}
      \cup (IF c.firmware = "uefi" THEN {"mount-esp"} ELSE {})
      \cup (IF SwapPart(c) THEN {"swapon"} ELSE {})

(* Wrong: an open container does not count as held. *)
ReleaseDiskMountedOnly == IF "root" \in held THEN ReleaseCommands ELSE {}

(* ReleaseDisk does nothing unless /mnt is mounted or cryptroot exists. *)
ReleaseDisk == IF held \cap {"root", "luks"} # {} THEN ReleaseCommands ELSE {}

StepCommands(k, c) ==
    CASE k = "partition-disk" /\ c.scheme = "guided" -> ReleaseDisk \cup {"table"}
      [] k = "format-disks" -> ReleaseDisk \cup FormatCommands(c)
      [] k = "mount-disks"  -> MountCommands(c)
      [] k = "setup-swap"   -> {"swapon-file"}
      [] k = "remove-state" -> {"rm-stub", "rm-local", "rm-disk"}
      [] k = "cleanup"      -> ReleaseCommands
      [] OTHER              -> {}

RestoreCommands(s) ==
    IF "format-disks" \notin s.done THEN {}
    ELSE (IF s.cfg.encrypt THEN {"luks-open"} ELSE {})
           \cup IF "mount-disks" \notin s.done THEN {}
                ELSE MountCommands(s.cfg) \cup
                     IF "setup-swap" \in s.done THEN {"swapon-file"} ELSE {}

(* Wrong: the PARTUUIDs are captured before there is a new table. *)
SaveCommandsCaptureEarly(s) ==
    {"write-local", "rename-local"}
      \cup (IF s.uuid = 0 THEN {"capture"} ELSE {})
      \cup (IF "mount-disks" \in s.done /\ "root" \in held
              THEN {"write-disk", "rename-disk"} \cup
                   (IF "esp" \in held THEN {"write-esp", "rename-esp"} ELSE {})
              ELSE {})

(* SaveState: capture the PARTUUIDs once, then /tmp, then the target.      *)
SaveCommands(s) ==
    {"write-local", "rename-local"}
      \cup (IF s.uuid = 0 /\ "partition-disk" \in s.done
              THEN {"capture"} ELSE {})
      \cup (IF "mount-disks" \in s.done /\ "root" \in held
              THEN {"write-disk", "rename-disk"} \cup
                   (IF "esp" \in held THEN {"write-esp", "rename-esp"} ELSE {})
              ELSE {})

Key == Plan[mem.cfg][at]

(* x is the next command: it is still to run, what precedes it has run.    *)
Due(x, earlier) == x \in todo /\ todo \cap earlier = {}
Do(x, earlier)  == Due(x, earlier) /\ todo' = todo \ {x}

(* Guided formatting is in source order; manual formatting ranges over a   *)
(* Go map, so the partitions come in any order.                            *)
Formatted(earlier) ==
    ReleaseCommands \cup IF mem.cfg.scheme = "guided" THEN earlier ELSE {}

TableDue == Due("table", ReleaseCommands)
EspDue   == Due("mkesp", ReleaseCommands)
SwapDue  == Due("mkswap", Formatted({"mkesp"}))
LuksDue  == Due("luks-format", Formatted({"mkesp", "mkswap"}))
RootDue  == Due("mkroot", Formatted({"mkesp", "mkswap", "luks-format", "luks-open"}))

(* The tools refuse a device that is mounted, mapped, swapped on or open   *)
(* in another process.                                                     *)
Busy ==
    \/ TableDue /\ (held # {} \/ orphan # "none")
    \/ EspDue /\ ("esp" \in held \/ orphan # "none")
    \/ SwapDue /\ ("swap-part" \in held \/ orphan # "none")
    \/ LuksDue /\ (held \cap {"root", "luks"} # {} \/ orphan # "none")
    \/ RootDue /\ \/ "root" \in held
                  \/ ("luks" \in held) # mem.cfg.encrypt
                  \/ orphan # "none"

Fault(kind) ==
    /\ kind \in Faults
    /\ faults < MaxFaults
    /\ faults' = faults + 1

(* A command that fails, or is cut short, may have destroyed what it was   *)
(* about to replace.                                                       *)
Mangled ==
    \/ DiskKept
    \/ TableDue /\ NewTable
    \/ EspDue /\ EspLost
    \/ (LuksDue \/ RootDue) /\ RootLost

(* The process is gone; the initial values stand for "no process".         *)
Exit ==
    /\ pc' = "off" /\ after' = "run" /\ mem' = None
    /\ at' = 1 /\ todo' = {} /\ saving' = TRUE

-----------------------------------------------------------------------------
(* Starting: a fresh run, or --resume and the question it asks.            *)

Init ==
    /\ pc = "off" /\ after = "run" /\ mem = None
    /\ at = 1 /\ todo = {} /\ saving = TRUE
    /\ local = None /\ disk = None /\ stub = 0 /\ partial = {}
    /\ table = 1 /\ has = [m \in Media |-> {}]
    /\ held = {} /\ orphan = "none" /\ launches = 0 /\ faults = 0

Starting == pc = "off" /\ launches < MaxLaunches /\ launches' = launches + 1

(* StartInstallMsg: NewState, then the save() before the first step.       *)
Launch(c) ==
    /\ Starting
    /\ pc' = "save" /\ after' = "run" /\ at' = 1 /\ saving' = TRUE
    /\ mem' = [cfg |-> c, done |-> {}, uuid |-> 0]
    /\ todo' = SaveCommands(mem')
    /\ UNCHANGED <<copies, target, orphan, faults>>

(* cfdisk, which the wizard opens for manual partitioning.                 *)
EditPartitions ==
    /\ Starting
    /\ \E c \in Configs : c.scheme = "manual"
    /\ held = {} /\ orphan = "none"
    /\ NewTable
    /\ UNCHANGED <<run, local, held, orphan, faults>>

(* /tmp first; without it the scan of the partitions, which cannot open a  *)
(* LUKS container while another one is called cryptroot.  Whether a plain  *)
(* root that is still mounted can be mounted once more, read-only, depends *)
(* on its filesystem; the scan is given the benefit of the doubt.          *)
Found ==
    IF local # None THEN {local}
    ELSE IF disk # None /\ ~ (disk.cfg.encrypt /\ "luks" \in held)
         THEN {disk} ELSE {}

(* The scan leaves the container open for the restore.                     *)
HeldAfterScan(s) ==
    IF local = None /\ s.cfg.encrypt THEN held \cup {"luks"} ELSE held

(* Wrong: a copy from before the last partitioning is good enough. *)
RefusedForToolsOnly(s) == orphan \in {"mkfs", "tool"}

Refused(s) == orphan \in {"mkfs", "tool"} \/ s.uuid \notin {0, table}

ResumeRefused ==
    /\ pc = "off"
    /\ \E s \in Found : Refused(s) /\ held' = HeldAfterScan(s)
    /\ UNCHANGED <<run, copies, table, has, outside>>

Resume ==
    /\ Starting
    /\ \E s \in Found :
          /\ ~ Refused(s)
          /\ held' = HeldAfterScan(s)
          /\ mem' = s
          /\ todo' = SaveCommands(s)
    /\ pc' = "save" /\ after' = "ask" /\ at' = 1 /\ saving' = TRUE
    /\ UNCHANGED <<copies, table, has, orphan, faults>>

Confirm ==
    /\ pc = "ask"
    /\ pc' = "save" /\ after' = "restore" /\ todo' = SaveCommands(mem)
    /\ UNCHANGED <<mem, at, saving, copies, target, outside>>

Decline == pc = "ask" /\ Exit /\ UNCHANGED <<copies, target, outside>>

-----------------------------------------------------------------------------
(* Saving.                                                                 *)

Capture ==
    /\ pc = "save" /\ Do("capture", {})
    /\ mem' = [mem EXCEPT !.uuid = table]
    /\ UNCHANGED <<pc, after, at, saving, copies, target, outside>>

(* The temporary file writePrivate is about to write for each copy.        *)
TmpDue(f) ==
    CASE f = "local" -> Due("write-local", {"capture"})
      [] f = "disk"  -> Due("write-disk", {"rename-local"})
      [] f = "esp"   -> Due("write-esp", {"rename-local", "rename-disk"})

WriteTmp ==
    /\ pc = "save"
    /\ \E f \in Copies : TmpDue(f) /\ partial' = partial \cup {f}
    /\ \/ Do("write-local", {"capture"})
       \/ Do("write-disk", {"rename-local"})
       \/ Do("write-esp", {"rename-local", "rename-disk"})
    /\ UNCHANGED <<pc, after, mem, at, saving, local, disk, stub, target, outside>>

RenameLocal ==
    /\ pc = "save" /\ Do("rename-local", {"capture", "write-local"})
    /\ local' = mem /\ partial' = partial \ {"local"}
    /\ UNCHANGED <<pc, after, mem, at, saving, disk, stub, target, outside>>

RenameDisk ==
    /\ pc = "save" /\ Do("rename-disk", {"capture", "rename-local", "write-disk"})
    /\ disk' = mem /\ partial' = partial \ {"disk"}
    /\ UNCHANGED <<pc, after, mem, at, saving, local, stub, target, outside>>

RenameStub ==
    /\ pc = "save" /\ Do("rename-esp", {"rename-local", "rename-disk", "write-esp"})
    /\ stub' = mem.uuid /\ partial' = partial \ {"esp"}
    /\ UNCHANGED <<pc, after, mem, at, saving, local, disk, target, outside>>

(* SaveState returns at the first error.  FindResumeState gives up on it,  *)
(* save() and the save after "Continue?" only print a warning.             *)
SaveFails ==
    /\ pc = "save" /\ todo # {} /\ Fault("save")
    /\ \/ UNCHANGED partial
       \/ \E f \in Copies : TmpDue(f) /\ partial' = partial \cup {f}
    /\ IF after = "ask" THEN Exit
       ELSE todo' = {} /\ UNCHANGED <<pc, after, mem, at, saving>>
    /\ UNCHANGED <<local, disk, stub, target, orphan, launches>>

SaveEnds ==
    /\ pc = "save" /\ todo = {}
    /\ pc' = after
    /\ todo' = IF after = "restore" THEN RestoreCommands(mem) ELSE {}
    /\ UNCHANGED <<after, mem, at, saving, copies, target, outside>>

-----------------------------------------------------------------------------
(* Mounting: the mount-disks step and RestoreEnvironment.                  *)

Mounting == pc \in {"restore", "step"}

Mounted(x) ==
    /\ held' = held \cup {x}
    /\ UNCHANGED <<pc, after, mem, at, saving, copies, table, has, outside>>

OpenLuks ==
    /\ Mounting /\ Do("luks-open", ReleaseCommands \cup {"mkesp", "mkswap", "luks-format"})
    /\ Mounted("luks")

MountRoot ==
    /\ Mounting /\ Do("mount-root", {"luks-open"})
    /\ mem.cfg.encrypt => "luks" \in held
    /\ Mounted("root")

MountEsp == Mounting /\ Do("mount-esp", {"mount-root"}) /\ Mounted("esp")

Swapon == Mounting /\ Do("swapon", {"mount-root", "mount-esp"}) /\ Mounted("swap-part")

SwaponFile ==
    /\ Mounting /\ Do("swapon-file", {"mount-root", "mount-esp", "swapon"})
    /\ Mounted("swap-file")

(* Wrong: every failure of the restore is only a warning. *)
RestoreFailsSoftly ==
    /\ pc = "restore" /\ todo # {} /\ Fault("restore")
    /\ todo' = {}
    /\ UNCHANGED <<pc, after, mem, at, saving, copies, target, orphan, launches>>

(* A swap file that cannot be switched on is only a warning; any other     *)
(* failure, that to remove pacman's lock at the end included, ends the run *)
(* as it stands, without releasing the disk.                               *)
RestoreFails ==
    /\ pc = "restore" /\ Fault("restore")
    /\ todo # {} \/ "mount-disks" \in mem.done
    /\ todo' = {}
    /\ pc' = IF todo = {"swapon-file"} THEN "restore" ELSE "error"
    /\ UNCHANGED <<after, mem, at, saving, copies, target, orphan, launches>>

RestoreEnds ==
    /\ pc = "restore" /\ todo = {} /\ pc' = "run"
    /\ UNCHANGED <<after, mem, at, todo, saving, copies, target, outside>>

-----------------------------------------------------------------------------
(* The loop over the steps.                                                *)

SkipDone ==
    /\ pc = "run" /\ at <= Len(Plan[mem.cfg]) /\ Key \in mem.done
    /\ at' = at + 1
    /\ UNCHANGED <<pc, after, mem, todo, saving, copies, target, outside>>

BeginStep ==
    /\ pc = "run" /\ at <= Len(Plan[mem.cfg]) /\ Key \notin mem.done
    /\ pc' = "step" /\ todo' = StepCommands(Key, mem.cfg)
    /\ UNCHANGED <<after, mem, at, saving, copies, target, outside>>

InstallDone ==
    /\ pc = "run" /\ at > Len(Plan[mem.cfg])
    /\ pc' = "done"
    /\ UNCHANGED <<after, mem, at, todo, saving, copies, target, outside>>

(* ReleaseDisk ignores errors, and the container only closes when nothing  *)
(* is left on it.                                                          *)
Releasing == pc \in {"step", "release"}

Released(gone) ==
    /\ held' = held \ gone
    /\ UNCHANGED <<pc, after, mem, at, saving, copies, table, has, outside>>

(* swapoffTarget knows the swap file and the swap partition of this run's  *)
(* own configuration.                                                      *)
Swapoff ==
    /\ Releasing /\ Do("swapoff", {})
    /\ Released({"swap-file"} \cup
                IF SwapPart(mem.cfg) THEN {"swap-part"} ELSE {})

(* A process that holds a mount makes Cleanup detach it lazily; one that   *)
(* was started inside the chroot may do so after any step.                 *)
Umount ==
    /\ Releasing /\ Do("umount", {"swapoff"})
    /\ held' = held \ {"root", "esp"}
    /\ \/ UNCHANGED <<orphan, faults>>
       \/ /\ "root" \in held /\ Fault("release")
          /\ orphan = "none" /\ orphan' = "holder"
    /\ UNCHANGED <<pc, after, mem, at, saving, copies, table, has, launches>>

CloseLuks ==
    /\ Releasing /\ Do("close", {"swapoff", "umount"})
    /\ Released(IF held \cap {"root", "swap-file"} = {} /\ orphan = "none"
                THEN {"luks"} ELSE {})

ReleaseFails ==
    /\ Releasing /\ Fault("release")
    /\ Do("swapoff", {}) \/ Do("umount", {"swapoff"}) \/ Do("close", {"swapoff", "umount"})
    /\ UNCHANGED <<pc, after, mem, at, saving, copies, target, orphan, launches>>

Partition ==
    /\ pc = "step" /\ ~ Busy /\ Do("table", ReleaseCommands)
    /\ NewTable
    /\ UNCHANGED <<pc, after, mem, at, saving, local, held, outside>>

FormatEsp ==
    /\ pc = "step" /\ ~ Busy /\ EspDue /\ todo' = todo \ {"mkesp"}
    /\ EspLost
    /\ UNCHANGED <<pc, after, mem, at, saving, local, held, outside>>

FormatSwap ==
    /\ pc = "step" /\ ~ Busy /\ SwapDue /\ todo' = todo \ {"mkswap"}
    /\ UNCHANGED <<pc, after, mem, at, saving, copies, target, outside>>

FormatLuks ==
    /\ pc = "step" /\ ~ Busy /\ LuksDue /\ todo' = todo \ {"luks-format"}
    /\ RootLost
    /\ UNCHANGED <<pc, after, mem, at, saving, local, held, outside>>

FormatRoot ==
    /\ pc = "step" /\ ~ Busy /\ RootDue /\ todo' = todo \ {"mkroot"}
    /\ RootLost
    /\ UNCHANGED <<pc, after, mem, at, saving, local, held, outside>>

(* RemoveState: the stub, /tmp, then the directory on the root filesystem. *)
RemoveStub ==
    /\ pc = "step" /\ Do("rm-stub", {})
    /\ stub' = IF "esp" \in held THEN 0 ELSE stub
    /\ UNCHANGED <<pc, after, mem, at, saving, local, disk, partial, target, outside>>

RemoveLocal ==
    /\ pc = "step" /\ Do("rm-local", {"rm-stub"})
    /\ local' = None
    /\ UNCHANGED <<pc, after, mem, at, saving, disk, stub, partial, target, outside>>

RemoveDisk ==
    /\ pc = "step" /\ Do("rm-disk", {"rm-stub", "rm-local"})
    /\ IF "root" \in held THEN disk' = None /\ partial' = partial \ {"disk"}
       ELSE UNCHANGED <<disk, partial>>
    /\ UNCHANGED <<pc, after, mem, at, saving, local, stub, target, outside>>

(* The step's effect lands where it belongs only if the medium is mounted. *)
Landed(k) ==
    [m \in Media |->
        IF m \in Home(k, mem.cfg) /\ (k \in OffTarget \/ m \in held)
        THEN has[m] \cup {k} ELSE has[m]]

(* Wrong: the save after remove-state writes the copies again. *)
MarkDoneKeepsSaving ==
    /\ mem' = [mem EXCEPT !.done = @ \cup {Key}]
    /\ UNCHANGED saving
    /\ at' = at + 1 /\ after' = "run"
    /\ pc' = "save" /\ todo' = SaveCommands(mem')

(* MarkDone, save() and on to the next step.                               *)
MarkDone ==
    /\ mem' = [mem EXCEPT !.done = @ \cup {Key}]
    /\ saving' = (saving /\ Key # "remove-state")
    /\ at' = at + 1 /\ after' = "run"
    /\ IF saving' THEN pc' = "save" /\ todo' = SaveCommands(mem')
       ELSE pc' = "run" /\ todo' = {}

StepSucceeds ==
    /\ pc = "step" /\ todo = {}
    /\ MarkDone /\ has' = Landed(Key)
    /\ UNCHANGED <<copies, table, held, outside>>

SoftStepFails ==
    /\ pc = "step" /\ Key \in Soft /\ Fault("step")
    /\ MarkDone
    /\ UNCHANGED <<copies, target, orphan, launches>>

(* Guided formatting ends with btrfs: createBtrfsSubvols mounts the new    *)
(* filesystem, and what is cut short there leaves it on /mnt.              *)
LeftMounted ==
    IF Key = "format-disks" /\ todo = {} /\ mem.cfg.scheme = "guided"
    THEN held \cup {"root"} ELSE held

(* These steps do nothing after their last command. *)
CommandsOnly == {"partition-disk", "mount-disks", "remove-state"}

HardStepFails ==
    /\ pc = "step" /\ Key \notin Soft
    /\ \/ Busy /\ DiskKept /\ UNCHANGED <<held, faults>>
       \/ /\ ~ Busy /\ Mangled /\ Fault("step")
          /\ todo # {} \/ Key \notin CommandsOnly
          /\ held' \in {held, LeftMounted}
    /\ IF "partition-disk" \in mem.done \cup {Key}
       THEN pc' = "release" /\ todo' = ReleaseDisk'
       ELSE pc' = "error" /\ todo' = {}
    /\ UNCHANGED <<after, mem, at, saving, local, orphan, launches>>

ReleaseEnds ==
    /\ pc = "release" /\ todo = {} /\ pc' = "error"
    /\ UNCHANGED <<after, mem, at, todo, saving, copies, target, outside>>

Quit == pc \in {"error", "done"} /\ Exit /\ UNCHANGED <<copies, target, outside>>

-----------------------------------------------------------------------------
(* What happens to the installer and to the machine.                       *)

(* The installer is quit or killed; the command it was waiting for is cut  *)
(* short, or goes on without it if it is one of the tools runningInstall-  *)
(* Tools looks for, or the one that makes the swap file, which it does not *)
(* look for.  So it is with wipefs, parted, mkfs.fat and mkswap of the     *)
(* other disk steps: they are taken to end before the next run, within a   *)
(* second or so.                                                           *)
Kill ==
    /\ pc \in {"save", "restore", "run", "step", "release"} /\ Fault("kill")
    /\ Exit
    /\ \/ DiskKept /\ UNCHANGED <<held, orphan>>
       \/ /\ pc = "step" /\ ~ Busy /\ Mangled
          /\ held' \in {held, LeftMounted} /\ UNCHANGED orphan
       \/ /\ "orphan" \in Faults /\ orphan = "none"
          /\ pc = "step" /\ ~ Busy /\ DiskKept /\ UNCHANGED held
          /\ \/ (LuksDue \/ RootDue) /\ orphan' = "mkfs"
             \/ /\ OnTarget(Key) /\ Key # "setup-swap"
                /\ todo = {} /\ orphan' = "tool"
             \/ Key = "setup-swap" /\ todo # {} /\ orphan' = "holder"
    /\ UNCHANGED <<local, launches>>

OrphanEnds ==
    /\ orphan # "none" /\ orphan' = "none"
    /\ DiskKept \/ (orphan = "mkfs" /\ RootLost)
    /\ UNCHANGED <<run, local, held, launches, faults>>

Reboot ==
    /\ pc = "off" /\ Fault("reboot")
    /\ local' = None /\ partial' = partial \ {"local"}
    /\ held' = {} /\ orphan' = "none"
    /\ UNCHANGED <<run, disk, stub, table, has, launches>>

(* Nobody runs the installer.                                              *)
Idle == pc = "off" /\ UNCHANGED vars

Saves == Capture \/ WriteTmp \/ RenameLocal \/ RenameDisk \/ RenameStub
           \/ SaveFails \/ SaveEnds

Mounts == OpenLuks \/ MountRoot \/ MountEsp \/ Swapon \/ SwaponFile
            \/ RestoreFails \/ RestoreEnds

Releases == Swapoff \/ Umount \/ CloseLuks \/ ReleaseFails \/ ReleaseEnds

DiskSteps == Partition \/ FormatEsp \/ FormatSwap \/ FormatLuks \/ FormatRoot
               \/ RemoveStub \/ RemoveLocal \/ RemoveDisk

Loop == SkipDone \/ BeginStep \/ InstallDone \/ StepSucceeds
          \/ SoftStepFails \/ HardStepFails

Next ==
    \/ \E c \in Configs : Launch(c)
    \/ EditPartitions \/ ResumeRefused \/ Resume \/ Confirm \/ Decline
    \/ Saves \/ Mounts \/ Releases \/ DiskSteps \/ Loop
    \/ Quit \/ Kill \/ OrphanEnds \/ Reboot \/ Idle

Spec == Init /\ [][Next]_vars

(***************************************************************************)
(* A user who does not give up: resumes whenever --resume accepts what it  *)
(* finds, starts over when it does not, waits for an orphaned tool first.  *)
(* Fairness: the goroutine and the commands it waits for keep running, an  *)
(* orphan ends, and this user keeps trying; faults may happen, up to their *)
(* bound, but none has to.                                                 *)
(***************************************************************************)
StartOver ==
    /\ orphan = "none" /\ \A s \in Found : Refused(s)
    /\ \E c \in Configs : Launch(c)

Persisting ==
    \/ Resume \/ Confirm \/ StartOver \/ (pc = "error" /\ Quit)
    \/ pc = "done" /\ UNCHANGED vars
    \/ Saves \/ Mounts \/ Releases \/ DiskSteps \/ Loop
    \/ Kill \/ OrphanEnds \/ Reboot

PersistentSpec == Init /\ [][Persisting]_vars /\ WF_vars(Persisting)

-----------------------------------------------------------------------------
(* Properties.                                                             *)

Stored == {local, disk} \ {None}

Covered(s, h) == \A k \in s.done : \A m \in Home(k, s.cfg) : k \in h[m]

InPlace(s) == Covered(s, has)

(***************************************************************************)
(* A run never skips a step whose effect is gone: whatever the steps       *)
(* recorded as done left on the partition table, the root filesystem and   *)
(* the ESP is still there while the loop runs.  (progress.go skips on      *)
(* IsDone alone; between the record and the skip lie kills, reboots, other *)
(* runs, a new partition table, mkfs and stale copies.)                    *)
(***************************************************************************)
SkippedStepsInPlace == pc \in {"run", "step"} => InPlace(mem)

(***************************************************************************)
(* README.md, on --resume: "It skips the steps that already finished,      *)
(* remounts the target and continues".  Then an install that ends has on   *)
(* the target what every step put there, whichever run it ran in.          *)
(***************************************************************************)
InstalledWhenDone ==
    pc = "done" =>
        \A k \in mem.done : OnTarget(k) =>
            \A m \in Home(k, mem.cfg) : k \in has[m]

(***************************************************************************)
(* A step that writes to the target finds it mounted: otherwise it would   *)
(* write into the live system's /mnt, succeed and be recorded as done.     *)
(***************************************************************************)
MountedWhileInstalling ==
    pc = "step" /\ OnTarget(Key) =>
        /\ {"root"} \cup Esp(mem.cfg) \subseteq held
        /\ mem.cfg.encrypt => "luks" \in held

(***************************************************************************)
(* ReleaseDisk's comment and the one in progress.go: when a failed step    *)
(* has released the disk, nothing holds it.                                *)
(***************************************************************************)
NothingHeldAfterFailure ==
    [][pc = "release" /\ pc' = "error" => held' = {}]_vars

(***************************************************************************)
(* The error screen's promise: once mount-disks is done, a reboot loses no *)
(* recorded step, because the copy on the root filesystem holds them all   *)
(* and names partitions that exist.                                        *)
(***************************************************************************)
ProgressSurvivesReboot ==
    pc = "error" /\ "mount-disks" \in mem.done =>
        /\ disk # None /\ disk.done = mem.done
        /\ disk.uuid = table

(***************************************************************************)
(* RemoveState: when the install is over no copy of the state, which holds *)
(* every password in plain text, is left on the target or in /tmp.         *)
(***************************************************************************)
NoCopyLeft == pc = "done" => local = None /\ disk = None /\ stub = 0

(***************************************************************************)
(* This module implements InstallPromise: a run starts from what is in     *)
(* place, does the first step that is not done, never loses what it counts *)
(* on and finishes with everything there.  The claim is the state in       *)
(* memory; the copies it is loaded from have no counterpart.               *)
(***************************************************************************)
P == INSTANCE InstallPromise WITH
        claim <- IF pc = "off" THEN None ELSE [cfg |-> mem.cfg, done |-> mem.done],
        effects <- has,
        finished <- pc = "done"

KeepsThePromise == P!Spec

(***************************************************************************)
(* Whatever fails, is killed or reboots, a user who keeps resuming (and    *)
(* starts over when a resume is refused) gets the install finished: no     *)
(* sequence of faults leaves the disk, the mapper or the copies in a state *)
(* neither --resume nor a fresh run gets out of.                           *)
(***************************************************************************)
EventuallyInstalled == <>(pc = "done")

-----------------------------------------------------------------------------
(***************************************************************************)
(* The inductive invariants: Control, behind MountedWhileInstalling, and   *)
(* IInv, behind SkippedStepsInPlace for guided partitioning.               *)
(***************************************************************************)
Guided == \A c \in Configs : c.scheme = "guided"

Active == pc # "off"
States == Stored \cup IF Active THEN {mem} ELSE {}

Partitioned(s)  == "partition-disk" \in s.done
FormattedIn(s)  == "format-disks" \in s.done
MountedIn(s)    == "mount-disks" \in s.done
Current(s)      == s.uuid = table

(* Recorded steps respect the order the disk steps have in every plan. *)
Ordered(s) ==
    /\ FormattedIn(s) => Partitioned(s)
    /\ MountedIn(s) => FormattedIn(s)
    /\ \A k \in s.done : OnTarget(k) => MountedIn(s)

(* PARTUUIDs are read after partitioning, from this table or an older one; *)
(* a stored copy that has partitioned has them.                            *)
Identified ==
    /\ \A s \in States : s.uuid <= table /\ (s.uuid # 0 => Partitioned(s))
    /\ \A s \in Stored : Partitioned(s) => s.uuid # 0
    /\ Active /\ Partitioned(mem) => mem.uuid \in {0, table}

(* What a copy of this table, and the run, recorded is in place. *)
Backed ==
    /\ \A s \in Stored : Current(s) => InPlace(s)
    /\ Active => InPlace(mem)

(* The partition-disk step has made its table and is about to be recorded. *)
PartitionRan == pc = "step" /\ Key = "partition-disk" /\ "table" \notin todo

(* Formatting is only pending when no copy of this table says it is done. *)
FormatPending ==
    /\ Active /\ Partitioned(mem) /\ ~ FormattedIn(mem) =>
          \A s \in Stored : Current(s) => ~ FormattedIn(s)
    /\ orphan = "mkfs" => \A s \in Stored : Current(s) => ~ FormattedIn(s)
    /\ PartitionRan => \A s \in Stored : ~ Current(s)

(* Of two copies of this table, /tmp's, which --resume prefers, is not     *)
(* from before formatting when the other one is from after it.             *)
LocalNewer ==
    local # None /\ disk # None /\ Current(local) /\ Current(disk)
        /\ FormattedIn(disk) => FormattedIn(local)

(* While a tool --resume looks for runs on without its run, no other run   *)
(* gets past its partition-disk step.                                      *)
OrphanBlocks ==
    orphan \in {"mkfs", "tool"} /\ Active => ~ Partitioned(mem) /\ ~ PartitionRan

(* The writes of a save come in order. *)
SaveOrdered ==
    pc = "save" =>
        /\ "capture" \in todo => "rename-local" \in todo /\ Partitioned(mem)
        /\ todo # {} /\ Partitioned(mem) /\ mem.uuid = 0 => "capture" \in todo
        /\ todo # {} /\ "rename-local" \notin todo => local = mem

(* The loop has passed only steps it found or made done. *)
LoopOrdered ==
    Active =>
        /\ \A j \in 1..(at - 1) : Plan[mem.cfg][j] \in mem.done
        /\ pc = "step" => Key \notin mem.done

(* Whose commands are pending. *)
StepTodo ==
    pc = "step" =>
        /\ "table" \in todo => Key = "partition-disk"
        /\ todo \cap {"mkesp", "mkroot", "luks-format"} # {} => Key = "format-disks"
        /\ todo \cap {"umount", "close"} # {} =>
              Key \in {"partition-disk", "format-disks", "cleanup"}
        /\ todo \cap {"rm-stub", "rm-local", "rm-disk"} # {} => Key = "remove-state"

(* The target is mounted from mount-disks, or the restore, to cleanup. *)
Root(c) == {"root"} \cup IF c.encrypt THEN {"luks"} ELSE {}
Target(c) == Root(c) \cup Esp(c)

MountsKept ==
    /\ /\ pc \in {"run", "step"} \/ (pc = "save" /\ after = "run")
       /\ MountedIn(mem)
       /\ at <= Len(Plan[mem.cfg]) /\ Key # "cleanup"
       => Target(mem.cfg) \subseteq held
    /\ (pc = "step" /\ Key = "mount-disks") \/ (pc = "restore" /\ MountedIn(mem)) =>
          /\ "mount-root" \in todo \/ Root(mem.cfg) \subseteq held
          /\ "mount-esp" \in todo \/ Esp(mem.cfg) \subseteq held

(* What holds of a run whatever the partitioning scheme. *)
Control ==
    /\ TypeOK
    /\ \A s \in States : Ordered(s)
    /\ SaveOrdered /\ LoopOrdered /\ StepTodo /\ MountsKept

IInv ==
    /\ Control
    /\ Identified /\ Backed /\ FormatPending /\ LocalNewer /\ OrphanBlocks

-----------------------------------------------------------------------------
(***************************************************************************)
(* The inductive invariant behind NoCopyLeft.                              *)
(***************************************************************************)
Uefi == \E c \in Configs : c.firmware = "uefi"

(* An ESP is mounted, or written to, only on a machine that has one. *)
EspIsUefi ==
    "esp" \in held \/ stub # 0
        \/ todo \cap {"mount-esp", "write-esp", "rename-esp"} # {} => Uefi

(* The removal is the one step no copy ever records. *)
RemovalUnrecorded == \A s \in Stored : "remove-state" \notin s.done

(* While the state is removed, what is no longer to do is gone. *)
RemovalInOrder ==
    pc = "step" /\ Key = "remove-state" =>
        /\ todo \subseteq {"rm-stub", "rm-local", "rm-disk"}
        /\ "rm-stub" \notin todo => stub = 0
        /\ "rm-local" \notin todo => local = None
        /\ "rm-disk" \notin todo => disk = None

(* Once it is removed, nothing is written any more. *)
RemovedForGood ==
    Active /\ "remove-state" \in mem.done =>
        /\ ~ saving /\ pc \notin {"save", "ask", "restore"}
        /\ local = None /\ disk = None /\ stub = 0

DoneHasRemoved == pc = "done" => "remove-state" \in mem.done

Removal ==
    /\ EspIsUefi /\ RemovalUnrecorded /\ RemovalInOrder
    /\ RemovedForGood /\ DoneHasRemoved

-----------------------------------------------------------------------------
(***************************************************************************)
(* The inductive invariant behind NothingHeldAfterFailure, where releasing *)
(* works: its commands succeed, no tool outlives its run, and every run    *)
(* knows the swap partition another one may have switched on.              *)
(***************************************************************************)
ReleasingWorks ==
    /\ {"release", "orphan"} \cap Faults = {}
    /\ \A c, d \in Configs : SwapPart(c) => SwapPart(d)

Swaps == {"swap-part", "swap-file"}

(* ReleaseDisk looks for a mounted root or an open container: nothing else *)
(* is ever held without the root, and the swap partition only by a run     *)
(* that has one.                                                           *)
HeldIsSeen ==
    /\ held \cap ({"esp"} \cup Swaps) # {} => "root" \in held
    /\ "swap-part" \in held => \A c \in Configs : SwapPart(c)

(* What is mounted below the root is mounted after it, and never while     *)
(* something is being released.                                            *)
MountsInOrder ==
    pc \in {"step", "restore"} /\ todo \cap {"mount-esp", "swapon", "swapon-file"} # {} =>
        /\ todo \cap ReleaseCommands = {}
        /\ "mount-root" \in todo \/ "root" \in held
        /\ "swapon" \in todo => SwapPart(mem.cfg)

(* Swap is off before the root is unmounted, and what the release after a  *)
(* failed step no longer has to do is done.                                *)
ReleasedInOrder ==
    /\ Releasing /\ "umount" \in todo /\ "swapoff" \notin todo => held \cap Swaps = {}
    /\ pc = "release" =>
          /\ "umount" \notin todo => held \subseteq {"luks"}
          /\ "close" \notin todo => held = {}

Releasable == orphan = "none" /\ HeldIsSeen /\ MountsInOrder /\ ReleasedInOrder

-----------------------------------------------------------------------------
(***************************************************************************)
(* The inductive invariant behind ProgressSurvivesReboot, where no save    *)
(* fails.                                                                  *)
(***************************************************************************)
SavedOnDisk(s) == disk # None /\ disk.done = s.done /\ Current(disk)

(* As long as a step may fail, the root filesystem has what the run        *)
(* recorded, or the save under way is about to write it there.             *)
RecordSaved ==
    Active /\ pc # "done" /\ MountedIn(mem) /\ "remove-state" \notin mem.done =>
        \/ SavedOnDisk(mem)
        \/ pc = "save" /\ "rename-disk" \in todo
        \/ pc = "step" /\ Key = "remove-state" /\ todo = {}

(* /tmp is ahead of the root filesystem only while that is still mounted,  *)
(* so that the first save of a resumed run catches up.                     *)
LocalCatchesUp ==
    /\ local # None /\ Current(local) /\ MountedIn(local) =>
          SavedOnDisk(local) \/ "root" \in held
    /\ pc = "save" /\ "rename-disk" \in todo => "root" \in held

(* Between two saves /tmp has what the run recorded. *)
LocalIsMem ==
    Active /\ ~ (pc = "save" /\ "rename-local" \in todo) => local \in {mem, None}

(* A run stops saving when it has passed remove-state, and no longer fails.*)
RemovalPassed ==
    /\ Active /\ ~ saving => "remove-state" \in mem.done
    /\ Active /\ "remove-state" \in mem.done =>
          \E i \in 1..(at - 1) : Plan[mem.cfg][i] = "remove-state"
    /\ pc \in {"release", "error"} => "remove-state" \notin mem.done

Surviving == RecordSaved /\ LocalCatchesUp /\ LocalIsMem /\ RemovalPassed
=============================================================================
