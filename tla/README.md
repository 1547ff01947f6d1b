# A TLA+ verification of falconia

falconia installs an Arch-based system: a wizard fills in a configuration, a
goroutine then runs a pipeline of about thirty steps against one disk, and
`falconia --resume` continues an install that failed, was quit, or was cut off
by a reboot. What is hard to test is not any step, but what is left between
two of them: mounts, an open LUKS container, swap, a partition table, three
copies of the progress, a half-edited file, a tool that outlived the
installer. That is what these modules are about.

## Inventory

| Component | Source | State it keeps | Operations |
|---|---|---|---|
| Wizard | `tui/app.go`, `tui/steps/*.go` | current page, its inputs, the configuration, messages under way | edit, enter, back, ctrl+a, validate, save, cfdisk, start |
| Pipeline | `data/flow.go` | none | the ordered steps, which apply to a configuration, which are soft |
| Install loop | `tui/steps/progress.go` | step index, the saved state in memory, `saving` | restore, skip, run, mark done, save, release on failure |
| Resume state | `installer/state.go` | `/tmp/falconia/state.json`, `/var/lib/falconia/state.json` on the root filesystem, a stub on the ESP | `SaveState`, `RemoveState`, PARTUUID capture, `remapDevices` |
| Finding an install | `installer/resume.go` | an opened LUKS container | `FindResumeState`, the scan, the orphan check, `RestoreEnvironment` |
| Disk commands | `installer/disk.go`, `swap.go` | the disk, `/mnt`, cryptroot, swap | partition, format, mount, `OpenLuks`, `ReleaseDisk`, `Cleanup`, `SetupSwap` |
| Step implementations | `installer/base.go`, `bootloader.go`, `system.go`, `drivers.go`, `postinstall.go`, `livefiles.go`, `packages.go` | files on the target, key slots, images | one function per step |
| Progress channel | `progress.go`, `tui/app.go` | a buffered channel, the outstanding `waitForMsg`, the screen, the quit dialog | send, receive, handle, drop, open and answer the dialog |
| Command line | `main.go` | none | fresh start, `--resume`, Continue?, `--exclude` |
| Runner | `installer/runner.go` | a child process and a pipe | run a command, hand on its lines |
| Detection, tables, styles | `installer/hardware.go`, `detect.go`, `data/*.go`, `style/` | none | read-only |

How they interact. The wizard hands its configuration to the loop
(`StartInstallMsg`), or `main.go` hands it a saved state. The loop calls one
step after the other; steps call the disk commands and log lines through the
channel to the screen. After every step the loop saves: to `/tmp`, and once
the target is mounted to the root filesystem and the ESP. The next process
knows the previous one only through these copies, through what the kernel
still holds of the disk, through what half-done steps left on the target, and
through tools still running.

What makes each correct:

* wizard: a page that is behind the user keeps what it asks for; the install
  starts once, from a configuration the pipeline is made for;
* loop: a step is only skipped if what it did is still there; a step that
  writes to the target finds it mounted; a failed step leaves the disk free;
* steps: run again after a cut, a step ends where one run would have ended,
  and what earlier steps left stays right;
* copies: a reboot loses nothing that was promised; at the end none is left;
* disk: whatever happened before, some next run can partition and format, and
  everybody means the same partition by "root";
* channel: everything sent is shown, once and in order; the verdict is true;
  the dialog does not disturb the install.

## Modules

```
Flow        data/flow.go: Pipeline, When, SoftSteps, Steps(c)
Layout      which partition is which
  Wizard             extends Flow, Layout        WizardMC
  StepEffects        extends Flow                StepEffectsMC
  ResumableInstall   (plans are a constant)      ResumableInstallMC extends Flow
    refines InstallPromise
ProgressChannel
*_proofs    theorems, one module per subject
```

`Flow`. `Steps(c)` is the plan of a configuration. A configuration is the part
of `InstallConfig` the pipeline and the disk code branch on; `ReachableConfig`
is what the wizard lets through, which `Wizard` checks (`Installable`).

`Layout` is pure: what the partitioner creates (`Created`), and what
`FormatDisks`, `MountDisks`, `rootPartition`, `partitionRoles` and
`remapDevices` each make of the numbers. `Agrees` and `Follows` compare them.

`Wizard` is phase 1. A page is a record of its inputs, filled from the
configuration when it is shown (`DiskForm`, ..., `Load`); `Accepts` is the
check of Enter, `Entered` what Enter writes, `Saved` what ctrl+a writes. A key
is handled at once, but the page change it asks for is a command bubbletea runs
in a goroutine: `pending` is the bag of messages under way, delivered in any
order, with keys in between (`Hasty`). Of a text matters whether it is empty
and whether the check accepts it; of a swap size that is refused, whether it is
a negative number, because ctrl+a saves it as one (`SizeOf`); of a zone or
locale, whether another name contains it, because Enter on that field puts a
suggestion there (`Pick`, `Suggestions`: `"good"` contains `"other"`, as
Etc/UTC contains UTC). The cursor is left out except on the disk page, where fields appear and disappear (`NextField`, `PrevField`). The
filesystem is left out: nothing modelled depends on it. The quit dialog takes
keys but no message in this phase, so opening it and answering no is no step;
`Quit` is answering yes.

`ResumableInstall` is the core: one disk and the successive runs of falconia on
it. It takes plans as a constant, so the proofs hold for any pipeline that
keeps the order `PlanAssumption` states; `ResumableInstallMC` gives it Flow's
plans and its `EveryPlanAssumed` checks that every configuration the wizard
can produce has a plan of that kind.

| Variable | In the code |
|---|---|
| `pc`, `after`, `at` | where the goroutine, or `resumeApp`, is |
| `mem` | `ProgressModel.saved`: configuration, completed steps, PARTUUIDs |
| `todo` | the commands still to run of the save, restore, step or release in progress |
| `saving` | the flag of the closure `save` |
| `local`, `disk`, `stub` | the three copies |
| `partial` | copies whose `.tmp` file exists |
| `table` | a generation number of the partition table: what PARTUUIDs identify |
| `has` | ghost: for the table, the root filesystem and the ESP, the steps whose effect is there |
| `held` | `/mnt`, `/mnt/boot/efi`, cryptroot, swap partition, swap file |
| `orphan` | a process that outlived its command or run: one that formats the root (`"mkfs"`), another that `runningInstallTools` looks for (`"tool"`), or one it does not look for and that only keeps the disk in use (`"holder"`) |
| `launches`, `faults` | counters for the bounds only |

A command is one action (`Capture`, `WriteTmp`, `RenameDisk`, `FormatLuks`,
`MountEsp`, `CloseLuks`, ...), so kills, failures and reboots fall between any
two. `todo` is a set because the order is the same in every run: `Do(x,
earlier)` names what must have run before `x`; only manual formatting has none
(it ranges over a Go map). A step's own work after its commands is one action,
`StepSucceeds`, which records the effect in `has` where the medium is mounted,
marks the step done and starts the save, as the loop does. What cannot happen
on a busy disk fails without a fault (`Busy`): parted wants nothing held, mkfs
and luksFormat their own device free.

Faults are a constant, so that each run says which ones it allows: `"step"` a
step's error, which may leave its target half destroyed (`Mangled`); `"save"`,
`"restore"`, `"release"` an error inside those, or a process in the chroot that
makes `Cleanup` unmount lazily (`Umount`); `"kill"` quit or kill anywhere;
`"orphan"` lets the killed command go on; `"reboot"` clears `/tmp`, mounts and
processes. What is cut short while btrfs subvolumes are made leaves the root on
`/mnt` (`LeftMounted`). One assumption is about time: wipefs, parted, mkfs.fat
and mkswap, which `--resume` does not look for, are taken to end before another
run starts; the command that makes the swap file, which takes longer, may go on
(`Kill`). A configuration of the model has `mapsSwap` beside the fields of Flow:
a manual layout formats and switches on a swap partition when one is mapped,
whatever the swap mode (`SwapPart`).

`InstallPromise` is the abstract specification: a run claims a set of steps,
may begin only with a claim that is in place, does the first step that is
missing, never loses what it claims, and says "finished" with a complete claim
only. `ResumableInstall` implements it (`KeepsThePromise`) under the mapping

| InstallPromise | ResumableInstall |
|---|---|
| `claim` | the configuration and completed steps in `mem`, nobody while `pc = "off"` |
| `effects` | `has` |
| `finished` | `pc = "done"` |

Copies, mounts, commands and orphans have no counterpart: they are how the
promise is kept across a crash, when the claim itself is lost.

`StepEffects` opens up what `ResumableInstall` treats as one effect per step:
the commands of the steps after mount-disks (`Ops`), what each does to the
target (`Effect`), and where a kill, a failure, a failed save or a reboot may
fall. `sys` is the target: the swap file and the keyfile by number, LUKS key
slots, what dracut baked into each image, `/etc/default/grub`, its backup and
grub.cfg by how often parameters were appended, fstab, crypttab, packages,
the user. A resumed run starts the first unrecorded step from its first
command. The network is taken to be Wi-Fi, the case that writes a file.
`excluded` is the exclude list in memory, `inTmp` and `onRoot` the one in each
copy of the state; a resume starts from `/tmp`'s, merges what this launch names
(`MergeExcludes`) and saves the result on the root filesystem only while that is
`mounted`, that is if the run before was killed and not released. Three things
can go wrong with a command: it is only warned of (`Warn`), it ends the run
(`HardFailure`), or, for the check of the keyfile, its failure is read as an
answer (`MisreadCheck`, counted by `misread`). `restoreOrBackup` can be cut in
the middle (`CutInCopy`) and fails when there is nothing to copy (`Stuck`: the
grub package was excluded). `odd` collects what went wrong in a way the
installer only warns of or does not notice, so that a property can name its
exceptions.

`ProgressChannel` is the way from the goroutine to the screen: `ch` the
buffered channel, `waiting` the outstanding `waitForMsg`, `inbox` the message
on its way to `App.Update`, `shown`/`current`/`state` the progress model,
`quitting` the dialog. `sent` and `shown` are histories.

The definitions whose comment begins with "Wrong" are deliberate mistakes, one
per property, used to see that the property notices.

## Runs

| Run | Question | Result |
|---|---|---|
| `ResumableInstallGuided` | an encrypted install with a swap partition and one with a swap file, every fault | `SkippedStepsInPlace`, `MountedWhileInstalling`, `NoCopyLeft`, `InstalledWhenDone`, the invariant of the proofs `IInv`, and the refinement `KeepsThePromise` hold |
| `ResumableInstallMixed` | the whole pipeline, guided and manual, cfdisk between runs: what does a failed run leave when saving and releasing work? | `ProgressSurvivesReboot`, `NothingHeldAfterFailure`, `MountedWhileInstalling`, `NoCopyLeft` hold, and so do the invariants three of them are proved with, `Surviving`, `Releasable` and `Removal` |
| `ResumableInstallPersistent` | can a user who keeps trying always finish? | `EventuallyInstalled` holds without failing releases |
| `ProgressChannel` | delivery through a channel that fills, the quit dialog opening twice at any moment | `NothingLost`, `EventuallyReported` hold until the dialog opens; `NoGapOnScreen`, `VerdictIsTrue` and `IInv` always |
| `Wizard` | every walk through the pages, with messages that arrive late | `PromisesHold`, `Installable`, `KeepsWhatItShows`, `CursorVisitsWhatIsShown`, `LayoutHolds` and the invariant of the proofs `IInv` hold |
| `StepEffects` | steps cut short at any two points and run again | `DoneStepsHold`, `FinishedInPlace`, `KeyfileSlotsBounded`, `ExcludedStayOut` and the invariant of the proofs `IInv` hold |
| `ResumableInstallSwapLeft` | another swap setting on the second run | swap stays on: `NothingHeldAfterFailure` fails |
| `ResumableInstallUnsaved` | a failed save, then a failed step | the error screen's promise is empty: `ProgressSurvivesReboot` fails |
| `ResumableInstallManualStale` | manual formatting twice under one table | an install ends without its bootloader: `InstalledWhenDone` fails |
| `ProgressChannelStall` | "no, stay" in the quit dialog | the install stalls: `EventuallyEnds` fails |
| `WizardTwoInstallers` | Enter twice on the confirm page | two goroutines on one disk: `OneInstaller` fails |
| `StepEffectsStaleEsp` | systemd-boot with NVIDIA drivers, no fault | the image that boots is not the one that was built: `BootsTheBuiltImage` fails |

The last six show what the code does against what its comments or README say;
`PROJECT.json` quotes them.

Bounds, and why they are enough.

* All runs explore the whole state space of their bounds.
* `ResumableInstall`: three launches are the least in which a copy can be made
  by one run, overtaken by a second and picked up by a third; three faults let
  a run fail, a second die and a reboot fall in between. The invariants do not
  mention the counters, and the proofs do without the bounds.
  `EventuallyInstalled` needs more launches than faults: each fault costs at
  most one run, and one more launch starts over after a refused resume.
  `ShortPlan` keeps one step of every kind the model tells apart (`Kinds`);
  other steps differ in name only. One disk, one installer at a time.
* `ResumableInstallMixed` leaves out `"save"`, `"release"` and `"orphan"`: with
  a failed save the promise is empty (`ResumableInstallUnsaved`), with a failed
  release, or an orphan that keeps cryptroot open, the disk stays held.
* `ProgressChannel`: three steps, a buffer of 2 for the code's 256, with more
  messages than buffer, so that it fills.
* `Wizard`: two disks, one of which cfdisk may extend. `MaxOdd = 2`: two edits
  other than those every walk needs (`Usual`), enough to tick something and
  contradict it on another page or after coming back. `MaxHurries = 1`: one key
  pressed while a message is under way. Such a key can carry the user past a
  page nobody checked, so `PromisesHold` allows as many broken pages as hasty
  keys and, with none, not one. Taking a suggestion is not counted as an edit:
  it happens on the way through an untouched page.
* `StepEffects`: every combination of encryption, boot loader and drivers with
  a swap file to hibernate to, and without drivers also with a plain one;
  `MaxFaults = 2`, so that a step can be
  cut short twice, or one step cut and a later one. Only UEFI and guided: BIOS
  and manual layouts differ before these steps. `Excludes` is nothing or two
  packages, one of which the grub step cannot do without, and may change at
  every resume.

Deadlock is checked except in the runs of `ProgressChannel`, where the dialog
really can stop everything, and of `Wizard`, where the user leaves or the
install takes over.

Fairness. `PersistentSpec` is weakly fair on everything but an idle user: the
goroutine is never descheduled for ever, commands end, an orphan ends, and the
user keeps resuming, or starts over when a resume is refused. Faults are in the
same relation but bounded, so fairness cannot force or exclude one.
`ProgressChannel!FairSpec` is weakly fair on the goroutine (unless it blocks),
on the runtime running `waitForMsg` and delivering its message, and on the user
answering the dialog; not on opening it or on leaving.

## Proofs

For any set of configurations, any plans, any kinds of fault and any bounds
that satisfy the assumptions of `ResumableInstall`: formatting follows
partitioning, mounting follows formatting, and steps on the target follow
mounting (`PlanAssumption`); remove-state is in every plan and on the target
(`RemovalAssumption`); no disk step is soft (`SoftAssumption`); manual
partitioning is not encrypted (`ConfigAssumption`); one machine has one
firmware (`FirmwareAssumption`); `None` is no state and no claim. Flow's
pipeline satisfies them for every configuration (`EveryPlanAssumed`, evaluated
by TLC).

| Module | Theorem | States |
|---|---|---|
| `ResumableInstall_proofs` | `TypeCorrect`, `ControlInvariant` | `TypeOK`, and `Control`, the part of the invariant that needs no hypothesis |
| | `NeverUnmounted` | `MountedWhileInstalling` |
| | `Invariant`, `SkipsAreSafe` | `IInv`, `SkippedStepsInPlace`, every configuration guided |
| `Removal_proofs` | `RemovalKept`, `NoCopyIsLeft` | `Removal`, `NoCopyLeft` |
| | `HeldCanBeReleased`, `FailureReleases` | `Releasable`, `NothingHeldAfterFailure`, when `ReleasingWorks` |
| | `RecordKept`, `FailureKeepsProgress` | `Surviving`, `ProgressSurvivesReboot`, guided, no save failing |
| `Refinement_proofs` | `ImplementsThePromise` | `Spec => P!Spec`: the refinement, every configuration guided |
| | `FinishedIsInstalled` | `InstalledWhenDone`, every configuration guided |
| `InstallPromise_proofs` | `PromiseKept` | `InstallPromise!Spec => []Promise` |
| `ProgressChannel_proofs` | `ChannelInvariant`, `ChannelTypeCorrect` | `IInv`, `TypeOK` for any numbers of steps and lines and any capacity |
| | `MessagesAreKept`, `ScreenHasNoGap`, `ScreenTellsTheTruth` | `NothingLost`, `NoGapOnScreen`, `VerdictIsTrue` |
| `Layout_proofs` | `LayoutAgrees`, `LayoutFollows` | `Agrees` and `Follows` for any configuration, disk and renaming |
| `Wizard_proofs` | `WizardTyped`, `WizardInvariant` | `TypeOK`, `IInv` for any disks, tables and numbers of edits and hasty keys |
| | `PromisesKept`, `AlwaysInstallable`, `LayoutKept` | `PromisesHold`, `Installable`, `LayoutHolds` |
| | `WhatIsShownIsKept`, `CursorKeepsToTheForm` | `KeepsWhatItShows`, `CursorVisitsWhatIsShown` |
| `StepEffects_proofs` | `TypeCorrect`, `TargetKept` | `TypeOK`, `IInv` for any configurations, excludes and number of faults |
| | `RecordedStepsHold`, `FinishedInstallInPlace` | `DoneStepsHold`, `FinishedInPlace` |
| | `KeyfileSlotBounded`, `ExcludedNotInstalled` | `KeyfileSlotsBounded`, `ExcludedStayOut` |

`Wizard` assumes that there is a disk, that cfdisk leaves some table, whose
partitions are pairs of their disk and a number, and that `None` is no such
pair (`WizardAssumption`). `StepEffects` assumes that its configurations are of
`ConfigType` and that a plan has each step once, in an order the commands rely
on (`OrderAssumption`), which TLC evaluates for every configuration.

Resuming. `SkippedStepsInPlace` speaks of the run's record while it loops;
a record comes from a copy, so its effects must be in place for as long as
some copy that `--resume` would accept claims them. An accepted copy names
this table's PARTUUIDs, or none and then it is from before partitioning and
claims nothing (`Identified`). So `Backed` says that every copy of this table
is in place, and each thing that destroys must leave it true:

* a new table makes every copy one of an older table;
* formatting would falsify a copy that says it is done. None of this table
  does while the running install has yet to format (`FormatPending`). This
  survives a resume only because the copy `--resume` prefers, `/tmp`'s, is not
  from before the format when the other one is from after it (`LocalNewer`),
  which is the order of the two writes in a save (`SaveOrdered`);
* a mkfs that outlived its run formats later, under another run. The runs
  after it cannot get past the partitioner, which refuses a device in use
  (`OrphanBlocks`), and --resume refuses too.

`LoopOrdered` turns the order of the plan into facts about the record,
`StepTodo` ties a destroying command to its step, `MountsKept` carries the
mounts from mount-disks or the restore to the step that needs them. The lemma
`NextKinds` sorts the steps of a guided install by what they do to copies,
disk and record, so that the data invariants are argued over twelve kinds of
step and not over forty actions.

`Control` is what does not depend on the data: the order of the records, the
mounts, the order of the writes in a save. It holds for manual layouts too and
carries `NeverUnmounted`, `RemovalKept` and `HeldCanBeReleased`. For the rest
of `IInv`, `Guided` is needed: manual formatting keeps the table, so a copy from
before it still looks current (`ResumableInstallManualStale` is the
counterexample).

The refinement. With `IInv` at hand each kind of step is a step of
`InstallPromise` or leaves its variables alone: launching and resuming are
`Begin` (a resumed claim is in place by `Backed`), a completed step is `Work`,
a destroying command is `Lose` (what it destroys is not claimed, by
`LoopOrdered`), the end is `Finish`, and every way to stop is `Stop`.
`PromiseKept` then gives `FinishedIsInstalled`.

Removal. That a finished install has left no copy needs more than that
remove-state ran: no copy may claim that it did, or a resume would skip it
(`RemovalUnrecorded`); the three removals have happened when their commands
are gone (`RemovalInOrder`); and nothing is written afterwards
(`RemovedForGood`), which is what `saving` is for. A stub can only be out of
reach of the removal if the ESP is not mounted (`EspIsUefi`).

Failing. `ReleaseDisk` looks for a mounted `/mnt` and for cryptroot, nothing
else, so everything an install holds must be below one of them, in every state
a failed, killed or resumed run can leave (`HeldIsSeen`). It stays so because
ESP and swap come after the root they are mounted under (`MountsInOrder`), and
go before it; and what a release no longer has to do is done
(`ReleasedInOrder`). The hypothesis `ReleasingWorks` is what the code needs, no
more than that: a release command that fails, a tool that goes on and keeps the
container open, and a run that does not know of the swap partition another one
switched on each leave the disk held (`ResumableInstallSwapLeft` is the last of
these). It allows failing steps, saves and restores, kills and reboots.

The record. As long as a step may fail, the root filesystem has all that was
recorded, or the save under way is about to write it (`RecordSaved`): after
mount-disks every mark is followed by a save. `/tmp` is ahead of it only while
the root is still mounted, so that the first save of a resumed run catches up
(`LocalCatchesUp`), and between two saves `/tmp` has what the run recorded
(`LocalIsMem`). A run that has stopped saving has passed remove-state and fails
no more (`RemovalPassed`). Saves must succeed, or the promise is empty
(`ResumableInstallUnsaved`). With a manual layout `Surviving` is model-checked
(`ResumableInstallMixed`); the proof uses that a format of this table is
recorded by no copy, `FormatPending`, which takes `Guided`.

The channel. Until a message is dropped, what is shown, then the one in the
inbox, then the channel, is what was sent (`InSync`); once one was dropped no
`waitForMsg` is outstanding and nothing is ever shown again (`ChainBroken`).
`StepsCounted` reads the counters of both ends off the histories, and
`VerdictIsLast` says that nothing follows a verdict.

The steps' commands. `Ran(k, n)` says that command n of step k has run since
the step last started. Each part of `IInv` ties such facts to the target: what
a command has put there is there until the step starts again. The parts are
about the places where steps meet. Apart from the slot of the keyfile
there is, at most as many are taken as checks were misread, and while a key is
about to be written or enrolled the keyfile there is has none (`KeyKept`): the
step's first command has looked, and has left the step or made away with the
keyfile. The image has what was configured when dracut ran, and the
drivers rebuild it from the same configuration (`ImageKept`). Until the boot
loader is recorded the backup, or else the file itself, is the package's, so
that the edits start from it and each parameter is there once (`GrubKept`). The
swap file outlives a reboot, being switched on does not, and its offset is read
anew when it is made anew (`SwapKept`). A run is never behind the copy it would
be resumed from (`AheadOfCopy`), so a recorded step has run all its commands
and is in place: `DoneStepsHold`, and at the end of the plan `FinishedInPlace`.
`odd` lists the exceptions the code really has (next section).
`ExcludedNotInstalled` needs that the copy in `/tmp`, which the next resume
merges into, has all that is excluded (`ExcludesKept`): every save writes the
merged list there, and where it is lost with `/tmp` the copy on the root
filesystem has it too, or `odd` says that it has not.

The wizard. `Consistent` is what every page may rely on of the configuration,
`FormFits` what the page shown and the configuration have in common: a page
takes its inputs from a consistent configuration, an edit chooses among what is
offered, and the disk page drops encryption when it saves a manual layout.
This is `Installable`. `PromisesHold` needs a measure, since a hasty key may let
a message arrive on a page nobody checked. `Charge` counts what has to be paid
for: each page behind whose promise is broken or may be by a cfdisk still to
run (`Risky`); each message that leads on (`Leading`) past the one the user
waits for; the page those messages leave first, if it is at risk or its list of
partitions is old (`Stale`); and, once the install is asked for, an edit of the
disk page that is not saved yet (`Unsaved`). A key pressed with nothing under
way never raises the charge, because Enter has checked the page; a hasty one
raises it by one at most; a message moves a charge and adds none. So
`Charge <= hurries` is kept (`Charged`), and it bounds the broken pages. With no
hasty key none is broken, which is what `Layout_proofs` asks of a configuration:
`LayoutKept`. That no passphrase is kept without encryption and no host name is
empty (`Tidy`) makes a page write back what it shows. `WhatIsShownIsKept` takes
each page twice, left as it is loaded and left by Enter on every field
(`Walked`), where the locale page may put a suggestion in place of a name.

Only model-checked: `EventuallyInstalled` and `EventuallyReported`, liveness
under fairness being out of the prover's reach. Every other property of a
passing run is proved, some under the hypotheses above; what the runs add is
that the hypotheses are met by Flow's plans and the configurations of the
wizard. The runs that end in a violation have nothing to prove.

## What else the models show

Facts of the code that no property calls right:

* ctrl+a writes what is in the inputs: a swap size that is no number becomes 0,
  a negative one is saved as it is, and either stays if leaving advanced mode
  hides the field.
* Enter on the zone or locale field takes the first name that contains the
  text, so walking an untouched page by Enter turns UTC into Etc/UTC, say; by
  tab it does not (the first is excepted from `KeepsWhatItShows`, the replaced
  value being the suggestion and nothing else).
* The kernel page starts from the first kernel again when it is revisited, so
  passing through it resets the choice (excepted from `KeepsWhatItShows`).
* A swapoff that fails once leaves swap on, and `ReleaseDisk`, which acts only
  while `/mnt` or cryptroot is there, never tries again: partitioning fails in
  every later run (`ResumableInstallPersistent` leaves out `"release"`).
* A kill between writing a copy's `.tmp` and its rename leaves that file for
  good; `NoCopyLeft` speaks of the copies under their own names.
* A check of an enrolled keyfile that fails for another reason, for want of
  memory, say, is read as "not enrolled" (`base.go:60`): the keyfile is deleted
  and another slot taken, although the comment at `base.go:50` says that none
  is. `KeyfileSlotsBounded` counts these slots, and shows that there are no
  others.
* `main.go:80` saves the merged excludes "so they survive another
  interruption". After a failed run the target is not mounted at that moment,
  so they are in `/tmp` only and a reboot before the first step is done loses
  them (excepted by `odd`).
* With grub excluded there are no grub defaults to back up: the boot loader step
  fails on every resume (`Stuck`).
* A lazy umount takes the target off `/mnt` while a process still holds it: the
  container stays open and partitioning fails until that process ends.
* A kill or an error inside `copyFile` leaves a truncated backup of the grub defaults, and
  a backup removed by a first remove-state, after a failed save, is taken again
  from an edited file (both excepted by `odd` in `StepEffects`).
* A swap file that cannot be switched on after a reboot is a warning, and fstab
  is then written without it (excepted likewise).
* The package page hides an entry when any earlier header of its category is
  collapsed, not only its own (`isRowVisible`); found by reading.

## Not modelled

* `--dry-run` (every state change returns early), file formats and versions,
  the log file.
* Several interrupted installs in the scan, the order in which their stubs are
  found, passphrase prompts, a wrong passphrase. The scan finds the one
  target's copy or nothing.
* A second process on the same disk; power cuts that lose renamed files.
* The rows of the package page (collapsing, scrolling), the cursors of the
  simple pages and of the suggestions, of which any may be taken, rendering.
* Output lines longer than the scanner's buffer; detection, which is input.

## Plan

Done: `Flow`, `ResumableInstall`, `ProgressChannel`, `InstallPromise`,
`Layout`, `Wizard`, `StepEffects`, their runs, and the proofs above. Left:

1. `ResumeScan`: several partitions, the stub's search order, prompts; which
   install is found, and what stays open after a failed search.
2. `PackagePicker`: collapsing, scrolling and the cursor of the package page.
3. Two processes sharing the copies; copies without fsync.
4. Proofs: what of `ProgressSurvivesReboot` and `SkippedStepsInPlace` remains
   with manual partitioning, when cfdisk or a format is run only once.
