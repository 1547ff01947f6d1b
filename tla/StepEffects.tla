---------------------------- MODULE StepEffects ----------------------------
(***************************************************************************)
(* What the steps after mount-disks write to the target, command by        *)
(* command, when the installer is killed, fails or the machine reboots     *)
(* between two commands and the install is resumed: every step that is not *)
(* recorded as done starts again from its first command, on whatever the   *)
(* earlier attempts have left.  The disk, the mounts and the copies of the *)
(* state are the subject of ResumableInstall; here a resume finds them.    *)
(***************************************************************************)
EXTENDS Flow, FiniteSets

CONSTANTS
    Configs,        \* the configurations installed
    Excludes,       \* the sets --exclude may name at a launch
    MaxFaults       \* bound: kills, reboots, commands and saves that fail

ASSUME StepEffectsAssumption ==
    /\ Configs \subseteq ConfigType
    /\ MaxFaults \in Nat

(* Step a comes before step b wherever b occurs in sequence s. *)
Before(s, a, b) ==
    \A i \in 1..Len(s) : s[i] = b => \E j \in 1..(i - 1) : s[j] = a

(* The steps up to mount-disks, which do not write to the target. *)
LiveSteps == { "verify-internet", "sync-clock", "rank-mirrors", "partition-disk",
               "format-disks", "mount-disks" }

(* What the proofs use of the pipelines of data/flow.go, for every         *)
(* configuration there is and not only for those installed.                *)
ASSUME OrderAssumption ==
    \A c \in ConfigType :
      LET s == Steps(c)
      IN  /\ s \in Seq(StepKeys) /\ Len(s) <= Len(Pipeline)
          /\ \A i \in 1..Len(s) : When(s[i], c)
          /\ \A i, j \in 1..Len(s) : s[i] = s[j] => i = j
          /\ \E i \in 1..Len(s) : /\ s[i] = "mount-disks"
                                 /\ \A j \in 1..i : s[j] \in LiveSteps
          /\ When("setup-swap", c) => /\ Before(s, "setup-swap", "initramfs")
                                      /\ Before(s, "setup-swap", "gen-fstab")
          /\ When("luks-keyfile", c) => Before(s, "luks-keyfile", "initramfs")
          /\ Before(s, "initramfs", "bootloader")
          /\ Before(s, "initramfs", "install-drivers")

VARIABLES
    cfg, excluded,  \* the configuration, ExcludePackages in it
    inTmp, onRoot,  \* ExcludePackages in the two copies of the state
    mounted,        \* the target is mounted, so a copy can be saved on it
    step, op,       \* the step that runs and its command, both from 1
    saved,          \* steps done in the copy the next --resume reads
    running, saving,\* the installer runs, and its saves succeed
    sys,            \* the target, see SysType
    odd,            \* what went wrong in a way the installer only warns of
    misread,        \* checks of an enrolled keyfile that failed
    faults

copies == << inTmp, onRoot, mounted >>
vars == << cfg, excluded, inTmp, onRoot, mounted, step, op, saved, running, saving,
           sys, odd, misread, faults >>

-----------------------------------------------------------------------------
(* The commands of the steps, in order. *)

SwapOps(c) ==
    IF c.swap = "suspend"
    THEN << "remove-swapfile", "make-swapfile", "swapon", "resume-conf" >>
    ELSE << "remove-swapfile", "make-swapfile", "swapon" >>

(* Wrong: the keyfile is registered before it is written. *)
KeyfileOpsSwapped == << "check-keyfile", "add-key", "write-keyfile" >>

(* Wrong: a keyfile that is enrolled already is not looked for. *)
KeyfileOpsUnchecked == << "write-keyfile", "add-key" >>

KeyfileOps == << "check-keyfile", "write-keyfile", "add-key" >>

(* Wrong: the drop-in for encryption is written after the image is built. *)
InitramfsOpsLate(c) == << "dracut", "dracut-fallback", "encryption-conf" >>

InitramfsOps(c) ==
    IF c.encrypt THEN << "encryption-conf", "dracut", "dracut-fallback" >>
    ELSE << "dracut", "dracut-fallback" >>

GrubOps(c) ==
    IF c.encrypt
    THEN << "grub-package", "backup", "base-params", "crypt-params", "grub-install",
            "grub-mkconfig" >>
    ELSE << "grub-package", "backup", "base-params", "grub-install", "grub-mkconfig" >>

SystemdBootOps == << "bootctl", "copy-kernel", "copy-initramfs", "loader-entry" >>

DriverOps(c) ==
    IF c.bootloader = "systemd-boot" THEN << "driver-package", "driver-dracut" >>
    ELSE << "driver-package", "driver-dracut", "driver-mkconfig" >>

UserOps == << "useradd", "passwd", "sudoers" >>

RemoveStateOps == << "remove-stub", "remove-backup", "remove-tmp", "remove-disk" >>

(* Steps that write files anew each time they run, and the files. *)
TimezoneFiles == << "/etc/localtime", "/etc/timezone" >>
LocaleFiles == << "/etc/locale.gen", "/etc/locale.conf", "/etc/vconsole.conf" >>
NetworkFiles == << "nmconnection" >>
HostnameFiles == << "/etc/hostname", "/etc/hosts" >>
RootPasswordFiles == << "/etc/shadow" >>
LiveFiles == << "/etc/pacman.conf" >>
ServiceLinks == << "services", "default.target" >>
CleanupFiles == << "machine-id", "journald" >>

Ops(k, c) ==
    CASE k = "setup-swap"       -> SwapOps(c)
      [] k = "copy-live-files"  -> LiveFiles
      [] k = "pacstrap"         -> << "pacstrap" >>
      [] k = "luks-keyfile"     -> KeyfileOps
      [] k = "initramfs"        -> InitramfsOps(c)
      [] k = "gen-fstab"        -> << "genfstab" >>
      [] k = "set-timezone"     -> TimezoneFiles
      [] k = "write-crypttab"   -> << "crypttab" >>
      [] k = "set-locale"       -> LocaleFiles
      [] k = "config-network"   -> NetworkFiles
      [] k = "set-hostname"     -> HostnameFiles
      [] k = "root-password"    -> RootPasswordFiles
      [] k = "bootloader"       -> IF c.bootloader = "systemd-boot"
                                   THEN SystemdBootOps ELSE GrubOps(c)
      [] k = "install-desktop"  -> << "desktop-packages" >>
      [] k = "install-packages" -> << "extra-packages" >>
      [] k = "install-drivers"  -> DriverOps(c)
      [] k = "create-users"     -> UserOps
      [] k = "enable-services"  -> ServiceLinks
      [] k = "post-cleanup"     -> CleanupFiles
      [] k = "remove-state"     -> RemoveStateOps
      [] OTHER                  -> << >>

Files == UNION { { F[i] : i \in 1..Len(F) } :
                   F \in { TimezoneFiles, LocaleFiles, NetworkFiles, HostnameFiles,
                           RootPasswordFiles, LiveFiles, ServiceLinks, CleanupFiles } }

(* Commands whose failure is only logged. *)
WarnOnly == {"dracut-fallback", "base-params", "driver-dracut",
             "driver-mkconfig", "services", "machine-id", "journald"}

Key == Steps(cfg)[step]
Command == IF running /\ step <= Len(Steps(cfg)) /\ op <= Len(Ops(Key, cfg))
           THEN Ops(Key, cfg)[op] ELSE "none"

-----------------------------------------------------------------------------
(* Packages: PackageList builds a list without duplicates, a set here, and *)
(* what is excluded is dropped from it before pacman sees it.              *)

Base(c) == {"base", "dracut", "vim"} \cup (IF c.encrypt THEN {"cryptsetup"} ELSE {})
CommonDE == {"xorg", "vim"}
Extra == {"nmap"}
Driver == {"nvidia"}

WithoutExcluded(pkgs) == pkgs \ excluded

-----------------------------------------------------------------------------
(* The target.  A swap file and a keyfile are numbered as they are made, 0 *)
(* for none; an image is what dracut found when it was built.              *)

NoImage == [key |-> 0, resume |-> 0, driver |-> FALSE, built |-> FALSE]

(* /etc/default/grub and its backup: how often each kind of parameters has *)
(* been appended, and whether the text of the package is there.            *)
NoText == [whole |-> FALSE, base |-> 0, crypt |-> 0, exists |-> FALSE]
Pristine == [whole |-> TRUE, base |-> 0, crypt |-> 0, exists |-> TRUE]
CutShort == [whole |-> FALSE, base |-> 0, crypt |-> 0, exists |-> TRUE]

Empty ==
    [ swapfile |-> 0, swapOn |-> FALSE, resumeConf |-> 0, made |-> 0,
      keyfile |-> 0, slots |-> {}, keyConf |-> FALSE,
      image |-> NoImage, fallback |-> NoImage, esp |-> NoImage,
      fstab |-> "none", crypttab |-> "none",
      grub |-> NoText, backup |-> NoText, grubCfg |-> NoText,
      copy |-> TRUE, files |-> {}, packages |-> {}, user |-> FALSE, password |-> FALSE ]

(* dracut bakes in what its drop-ins name, and the modules installed. *)
Dracut(s) ==
    [ key |-> IF s.keyConf THEN s.keyfile ELSE 0, resume |-> s.resumeConf,
      driver |-> Driver \subseteq s.packages, built |-> TRUE ]

AddPackages(s, pkgs) == [ s EXCEPT !.packages = @ \cup WithoutExcluded(pkgs) ]

(* The package, unless it is excluded, brings its own file when there is   *)
(* none yet.                                                               *)
GrubPackage(s) ==
    LET t == AddPackages(s, {"grub", "efibootmgr"})
    IN  IF s.grub.exists \/ "grub" \in excluded THEN t
        ELSE [ t EXCEPT !.grub = Pristine ]

(* Wrong: the file is backed up each time, an edited one too. *)
BackUpAgain(s) == [ s EXCEPT !.backup = s.grub ]

(* restoreOrBackup: a re-run starts from the pristine file. *)
RestoreOrBackup(s) ==
    IF s.backup.exists THEN [ s EXCEPT !.grub = s.backup ]
    ELSE [ s EXCEPT !.backup = s.grub ]

(* copyFile cut short: it truncates what it writes to. *)
CopyCut(s) ==
    IF s.backup.exists THEN [ s EXCEPT !.grub = CutShort ]
    ELSE [ s EXCEPT !.backup = CutShort ]

(* sed appends parameters to a line a truncated file does not have. *)
Appended(s, kind) ==
    IF s.grub.whole THEN [ s EXCEPT !.grub[kind] = @ + 1 ] ELSE s

CrypttabPass(c) == IF c.bootloader = "systemd-boot" THEN "prompt" ELSE "keyfile"

(* dracut resumes from the swap file there is now. *)
SetupResume(s) == [ s EXCEPT !.resumeConf = s.swapfile ]

(* genfstab lists the swap that is on. *)
GenFstab(s) == [ s EXCEPT !.fstab = IF s.swapOn THEN "swap" ELSE "plain" ]

UserAdd(s) == IF s.user THEN s ELSE [ s EXCEPT !.user = TRUE ]

(* What command k does to target s. *)
Effect(k, s, c) ==
    CASE k = "remove-swapfile" -> [ s EXCEPT !.swapfile = 0, !.swapOn = FALSE ]
      [] k = "make-swapfile"   -> [ s EXCEPT !.swapfile = s.made + 1, !.made = @ + 1 ]
      [] k = "swapon"          -> [ s EXCEPT !.swapOn = TRUE ]
      [] k = "resume-conf"     -> SetupResume(s)
      [] k = "pacstrap"        -> AddPackages(s, Base(c))
      [] k = "check-keyfile"   -> IF s.keyfile \in s.slots THEN s
                                  ELSE [ s EXCEPT !.keyfile = 0 ]
      [] k = "write-keyfile"   -> [ s EXCEPT !.keyfile = s.made + 1, !.made = @ + 1 ]
      [] k = "add-key"         -> [ s EXCEPT !.slots = @ \cup {s.keyfile} ]
      [] k = "encryption-conf" -> [ s EXCEPT !.keyConf = c.bootloader # "systemd-boot" ]
      [] k \in {"dracut", "driver-dracut"} -> [ s EXCEPT !.image = Dracut(s) ]
      [] k = "dracut-fallback" -> [ s EXCEPT !.fallback = Dracut(s) ]
      [] k = "genfstab"        -> GenFstab(s)
      [] k = "crypttab"        -> [ s EXCEPT !.crypttab = CrypttabPass(c) ]
      [] k = "grub-package"    -> GrubPackage(s)
      [] k = "backup"          -> RestoreOrBackup(s)
      [] k = "base-params"     -> Appended(s, "base")
      [] k = "crypt-params"    -> Appended(s, "crypt")
      [] k \in {"grub-mkconfig", "driver-mkconfig"} -> [ s EXCEPT !.grubCfg = s.grub ]
      [] k = "copy-initramfs"  -> [ s EXCEPT !.esp = s.image ]
      [] k = "desktop-packages" -> AddPackages(s, CommonDE)
      [] k = "extra-packages"  -> AddPackages(s, Extra)
      [] k = "driver-package"  -> AddPackages(s, Driver)
      [] k = "useradd"         -> UserAdd(s)
      [] k = "passwd"          -> [ s EXCEPT !.password = s.user ]
      [] k = "remove-backup"   -> [ s EXCEPT !.backup = NoText ]
      [] k = "remove-disk"     -> [ s EXCEPT !.copy = FALSE ]
      [] k \in Files           -> [ s EXCEPT !.files = @ \cup {k} ]
      [] OTHER                 -> s

-----------------------------------------------------------------------------
IndexOf(k) == CHOOSE i \in 1..Len(Steps(cfg)) : Steps(cfg)[i] = k
Recorded(k) == \E i \in 1..saved : Steps(cfg)[i] = k

(* The state was last saved when mount-disks was done. *)
Init ==
    /\ cfg \in Configs /\ excluded \in Excludes
    /\ saved = IndexOf("mount-disks") /\ step = saved + 1 /\ op = 1
    /\ inTmp = excluded /\ onRoot = excluded /\ mounted = TRUE
    /\ running = TRUE /\ saving = TRUE
    /\ sys = Empty /\ odd = {} /\ misread = 0 /\ faults = 0

(* Without the grub package, or its file, there is nothing to back up.     *)
Stuck == Command = "backup" /\ ~ sys.grub.exists /\ ~ sys.backup.exists

(* What the next resume no longer finds once the copy in /tmp is gone.     *)
Dropped == IF inTmp \subseteq onRoot THEN {} ELSE {"excludes"}

(* A command runs to its end.  A keyfile that unlocks the disk already     *)
(* makes the rest of its step unnecessary.                                 *)
Run ==
    /\ Command # "none" /\ ~ Stuck
    /\ sys' = Effect(Command, sys, cfg)
    /\ op' = IF Command = "check-keyfile" /\ sys.keyfile \in sys.slots
             THEN Len(Ops(Key, cfg)) + 1 ELSE op + 1
    /\ inTmp' = IF Command = "remove-tmp" THEN onRoot ELSE inTmp
    /\ odd' = odd \cup
         CASE Command = "remove-backup" /\ ~ Recorded("bootloader") -> {"backup"}
           [] Command = "remove-tmp" -> Dropped
           [] OTHER -> {}
    /\ UNCHANGED << cfg, excluded, onRoot, mounted, step, saved, running, saving,
                    misread, faults >>

(* The step is done: it is recorded, unless saving has failed or the       *)
(* copies have just been removed.                                          *)
StepDone ==
    /\ running /\ step <= Len(Steps(cfg)) /\ op > Len(Ops(Key, cfg))
    /\ step' = step + 1 /\ op' = 1
    /\ saving' = (saving /\ Key # "remove-state")
    /\ IF saving' THEN saved' = step /\ inTmp' = excluded /\ onRoot' = excluded
       ELSE UNCHANGED << saved, inTmp, onRoot >>
    /\ UNCHANGED << cfg, excluded, mounted, running, sys, odd, misread, faults >>

Fault == faults < MaxFaults /\ faults' = faults + 1

(* The target is full or gone: saves fail for the rest of the run. *)
SavingFails ==
    /\ Fault /\ running /\ saving
    /\ saving' = FALSE
    /\ UNCHANGED << cfg, excluded, copies, step, op, saved, running, sys, odd, misread >>

(* A command that is only warned of fails, and its step goes on. *)
Warn ==
    /\ Fault /\ Command \in WarnOnly
    /\ op' = op + 1 /\ odd' = odd \cup {Command}
    /\ UNCHANGED << cfg, excluded, copies, step, saved, running, saving, sys, misread >>

(* The check of an enrolled keyfile fails, for want of memory or a device: *)
(* that is read as a keyfile never enrolled, and another one is made.      *)
MisreadCheck ==
    /\ Fault /\ Command = "check-keyfile" /\ sys.keyfile \in sys.slots
    /\ op' = op + 1 /\ misread' = misread + 1
    /\ sys' = [ sys EXCEPT !.keyfile = 0 ]
    /\ UNCHANGED << cfg, excluded, copies, step, saved, running, saving, odd >>

(* The run ends here, with target s and warnings o: killed alone, failed   *)
(* with the disk released, or with the machine, which loses /tmp as well.  *)
Interrupted(how, s, o) ==
    /\ running' = FALSE
    /\ sys' = [ s EXCEPT !.swapOn = @ /\ how = "killed" ]
    /\ mounted' = (mounted /\ how = "killed")
    /\ inTmp' = IF how = "reboot" THEN onRoot ELSE inTmp
    /\ odd' = o \cup IF how = "reboot" THEN Dropped ELSE {}
    /\ UNCHANGED << cfg, excluded, onRoot, step, op, saved, saving, misread >>

(* Any other failure ends the run, and the disk is released. *)
HardFailure ==
    /\ Command \notin WarnOnly \cup {"none"}
    /\ Fault \/ (Stuck /\ UNCHANGED faults)
    /\ Interrupted("failed", sys, odd)

(* The installer is killed between two commands, or with the machine; a    *)
(* reboot may also follow later.                                           *)
Kill ==
    /\ Fault
    /\ \/ running /\ Interrupted("killed", sys, odd)
       \/ Interrupted("reboot", sys, odd)

(* A kill or an error in the middle of restoreOrBackup. *)
CutInCopy ==
    /\ Fault /\ Command = "backup" /\ ~ Stuck
    /\ \E how \in {"killed", "failed", "reboot"} :
         Interrupted(how, CopyCut(sys),
                     IF sys.backup.exists THEN odd ELSE odd \cup {"backup"})

(* Wrong: the excludes of this launch replace those of the copy. *)
MergeExcludesAnew(E) == excluded' = E

MergeExcludes(E) == excluded' = inTmp \cup E

(* --resume: the state found is saved, and once more with the excludes     *)
(* merged, on the root filesystem only while it is still mounted; swap is  *)
(* switched on again, which may fail with a warning as the second save     *)
(* may; and the pipeline goes on at the first step that is not recorded.   *)
Resume ==
    /\ ~ running /\ sys.copy
    /\ running' = TRUE /\ saving' = TRUE /\ mounted' = TRUE
    /\ step' = saved + 1 /\ op' = 1
    /\ \E E \in Excludes : MergeExcludes(E)
    /\ \E place \in {"none", "tmp", "root"}, noSwap \in BOOLEAN :
         LET off == Recorded("setup-swap") /\ ~ sys.swapOn
             unsaved == place # IF mounted THEN "root" ELSE "tmp"
         IN  /\ place = "root" => mounted
             /\ noSwap => off
             /\ inTmp' = IF place = "none" THEN inTmp ELSE excluded'
             /\ onRoot' = IF place = "root" THEN excluded'
                          ELSE IF mounted THEN inTmp ELSE onRoot
             /\ sys' = [ sys EXCEPT !.swapOn = @ \/ (off /\ ~ noSwap) ]
             /\ odd' = odd \cup (IF noSwap THEN {"swapon"} ELSE {})
                           \cup (IF place = "none" THEN {"excludes"} ELSE {})
             /\ faults' = faults + (IF noSwap THEN 1 ELSE 0) + (IF unsaved THEN 1 ELSE 0)
             /\ faults' <= MaxFaults
    /\ UNCHANGED << cfg, saved, misread >>

(* The install is over, or its copies are gone and it cannot be resumed. *)
Over ==
    /\ step > Len(Steps(cfg)) \/ (~ running /\ ~ sys.copy)
    /\ UNCHANGED vars

Next ==
    \/ Run \/ StepDone
    \/ SavingFails \/ Warn \/ MisreadCheck \/ HardFailure \/ Kill \/ CutInCopy
    \/ Resume \/ Over

Spec == Init /\ [][Next]_vars

-----------------------------------------------------------------------------
ImageType == [ key : Nat, resume : Nat, driver : BOOLEAN, built : BOOLEAN ]
TextType == [ whole : BOOLEAN, base : Nat, crypt : Nat, exists : BOOLEAN ]

(* Every variable is of its type, and the target has its parts. *)
TypeOK ==
    /\ cfg \in ConfigType /\ step \in 1..(Len(Pipeline) + 1) /\ op \in Nat \ {0}
    /\ saved \in 1..Len(Pipeline)
    /\ running \in BOOLEAN /\ saving \in BOOLEAN /\ mounted \in BOOLEAN
    /\ faults \in 0..MaxFaults /\ misread \in Nat
    /\ DOMAIN sys = DOMAIN Empty /\ sys.made \in Nat
    /\ sys.slots \subseteq 1..sys.made
    /\ { sys.keyfile, sys.swapfile, sys.resumeConf } \subseteq 0..sys.made
    /\ { sys.image, sys.fallback, sys.esp } \subseteq ImageType
    /\ { sys.grub, sys.backup, sys.grubCfg } \subseteq TextType
    /\ sys.files \subseteq Files

HasGrub == cfg.bootloader # "systemd-boot"

(* What a step that is done has put in place.  The exceptions are failures *)
(* the installer only warns of, and a backup of the grub defaults that was *)
(* cut short or removed before the boot loader step was recorded.          *)
InPlace(k) ==
    CASE k = "setup-swap"   -> /\ sys.swapfile # 0
                               /\ cfg.swap = "suspend" => sys.resumeConf = sys.swapfile
      [] k = "luks-keyfile" -> sys.keyfile \in sys.slots
      [] k = "initramfs"    -> /\ sys.image.built
                               /\ sys.image.key = IF cfg.encrypt /\ HasGrub
                                                  THEN sys.keyfile ELSE 0
                               /\ sys.image.resume = sys.resumeConf
      [] k = "gen-fstab"    -> "swapon" \in odd \/ sys.fstab =
                                 IF cfg.swap \in {"file", "suspend"}
                                 THEN "swap" ELSE "plain"
      [] k = "write-crypttab" -> sys.crypttab = CrypttabPass(cfg)
      [] k = "bootloader"   ->
           IF HasGrub
           THEN "backup" \in odd \/
                  /\ sys.grubCfg.whole
                  /\ "base-params" \notin odd => sys.grubCfg.base = 1
                  /\ sys.grubCfg.crypt = IF cfg.encrypt THEN 1 ELSE 0
           ELSE sys.esp.built /\ sys.esp.key = 0
      [] k = "install-drivers" ->
           "driver-dracut" \notin odd =>
             (sys.image.driver <=> Driver \subseteq sys.packages)
      [] k = "create-users" -> sys.user /\ sys.password
      [] OTHER -> \A i \in 1..Len(Ops(k, cfg)) :
                    Ops(k, cfg)[i] \in Files \ odd => Ops(k, cfg)[i] \in sys.files

(* What a step has put in place stays right while the later ones run, are  *)
(* cut short and run again: the image has the keyfile that unlocks the     *)
(* disk and the offset of the swap file there is, grub.cfg each parameter  *)
(* once, fstab the swap file, and the user a password.                     *)
DoneStepsHold ==
    LET s == Steps(cfg) IN \A i \in 1..saved : InPlace(s[i])

(* An uninterrupted stretch of steps leaves all of them in place, recorded *)
(* or not, so the end of the pipeline is the end of the install.           *)
FinishedInPlace ==
    LET s == Steps(cfg)
    IN  running /\ step > Len(s) => \A i \in 1..Len(s) : InPlace(s[i])

(* However often the keyfile step is cut short and run again, it takes one *)
(* key slot beside the passphrase, and one more for each check that failed *)
(* on a keyfile that was enrolled: slots are few, and each one left over   *)
(* is a key nobody holds.                                                  *)
KeyfileSlotsBounded == Cardinality(sys.slots) <= 1 + misread

(* What was excluded once stays so on every later run and is installed by  *)
(* none, unless a save of the merged list has failed or the only copy that *)
(* had it was lost with /tmp.                                              *)
ExcludedStayOut ==
    [][ /\ (sys'.packages \ sys.packages) \cap excluded = {}
        /\ excluded \subseteq excluded' \/ "excludes" \in odd ]_vars

(* systemd-boot boots the image on the ESP: it is the one that was built.  *)
BootsTheBuiltImage ==
    ~ HasGrub /\ step > Len(Steps(cfg)) /\ "driver-dracut" \notin odd =>
      sys.esp = sys.image

-----------------------------------------------------------------------------
(***************************************************************************)
(* The inductive invariant behind DoneStepsHold and FinishedInPlace: what  *)
(* is in place once a command has run, and stays so until the step starts  *)
(* again.                                                                  *)
(***************************************************************************)
Passed(k) ==
    LET s == Steps(cfg)
    IN  \E i \in 1..Len(s) : s[i] = k /\ i < step

(* Command n of the step at i has run since that step last started. *)
Reached(i, n) == i < step \/ (i = step /\ op > n)

Ran(k, n) ==
    LET s == Steps(cfg)
    IN  \E i \in 1..Len(s) : s[i] = k /\ Reached(i, n)

FileSwap == cfg.swap \in {"file", "suspend"}

(* The run is ahead of the copy it would be resumed from. *)
AheadOfCopy == saved < step /\ step <= Len(Steps(cfg)) + 1

(* The swap file, its offset for dracut, and whether it is on for genfstab.*)
SwapKept ==
    /\ Ran("setup-swap", 2) => sys.swapfile # 0
    /\ cfg.swap = "suspend" /\ Ran("setup-swap", 4) => sys.resumeConf = sys.swapfile
    /\ running /\ Ran("setup-swap", 3) => sys.swapOn \/ "swapon" \in odd
    /\ ~ FileSwap => ~ sys.swapOn

(* The slots are those of the keyfile there is and of the ones misread;    *)
(* the keyfile that is being made has none yet.                            *)
KeyKept ==
    /\ Cardinality(sys.slots \ {sys.keyfile}) <= misread
    /\ Command \in {"write-keyfile", "add-key"} => sys.keyfile \notin sys.slots
    /\ Ran("luks-keyfile", 2) => sys.keyfile # 0
    /\ Ran("luks-keyfile", 3) => sys.keyfile \in sys.slots

(* The next resume starts from all that has been excluded.                 *)
ExcludesKept == "excludes" \in odd \/ excluded \subseteq inTmp

(* The place of dracut in its step. *)
DracutAt == IF cfg.encrypt THEN 2 ELSE 1

(* The image has the keyfile and the offset; drivers rebuild it. *)
ImageKept ==
    /\ sys.keyConf => cfg.encrypt
    /\ cfg.encrypt /\ Ran("initramfs", 1) => (sys.keyConf <=> HasGrub)
    /\ Ran("initramfs", DracutAt) => InPlace("initramfs")
    /\ Ran("install-drivers", 2) => InPlace("install-drivers")

(* The text of the package is edited once. *)
Edited(t, n) ==
    /\ t.whole
    /\ n > 3 => "base-params" \in odd \/ t.base = 1
    /\ n = 3 => t.base = 0
    /\ t.crypt = IF cfg.encrypt /\ n > 4 THEN 1 ELSE 0

(* Until bootloader is recorded the backup, or else the file itself, is    *)
(* the package's; from the backup on the file holds each parameter once.   *)
GrubKept ==
    /\ "backup" \in odd \/ Recorded("bootloader") \/
         IF sys.backup.exists THEN sys.backup = Pristine
         ELSE sys.grub \in {NoText, Pristine}
    /\ HasGrub /\ Ran("bootloader", 2) => sys.grub.exists
    /\ HasGrub /\ Ran("bootloader", 2) /\ "backup" \notin odd =>
         Edited(sys.grub, IF Passed("bootloader") THEN 5 ELSE op)
    /\ HasGrub /\ Ran("bootloader", 2) =>
         "backup" \in odd \/ Recorded("bootloader") \/ sys.backup.exists
    /\ HasGrub /\ Ran("bootloader", Len(GrubOps(cfg))) => InPlace("bootloader")
    /\ ~ HasGrub /\ Ran("bootloader", 3) => InPlace("bootloader")

(* A file that a step of files writes is there once its command has run. *)
FilesKept ==
    LET s == Steps(cfg)
    IN  \A i \in 1..Len(s) : \A n \in 1..Len(Ops(s[i], cfg)) :
          LET f == Ops(s[i], cfg)[n]
          IN  Reached(i, n) /\ f \in Files \ odd => f \in sys.files

(* What needs one command only. *)
OthersKept ==
    /\ Ran("gen-fstab", 1) => InPlace("gen-fstab")
    /\ Ran("write-crypttab", 1) => InPlace("write-crypttab")
    /\ Ran("create-users", 1) => sys.user
    /\ Ran("create-users", 2) => sys.password

IInv ==
    /\ TypeOK /\ AheadOfCopy
    /\ SwapKept /\ KeyKept /\ ExcludesKept /\ ImageKept /\ GrubKept /\ OthersKept /\ FilesKept
=============================================================================
