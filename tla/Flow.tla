-------------------------------- MODULE Flow --------------------------------
(***************************************************************************)
(* The install pipeline of data/flow.go: the step keys in order, the       *)
(* condition under which a step applies to a configuration, and the steps  *)
(* whose failure only logs a warning.  A configuration is the part of      *)
(* config.InstallConfig the pipeline and the disk code branch on.          *)
(***************************************************************************)
EXTENDS Integers, Sequences

Schemes == {"guided", "manual"}
Firmwares == {"uefi", "bios"}

(* "suspend" creates the same swap file as "file" (swap.go). *)
SwapModes == {"none", "partition", "file", "suspend"}
Bootloaders == {"grub", "systemd-boot"}

(* The fields with a single Boolean stand for a list or a name the         *)
(* pipeline only tests: desktop for DesktopEnv # "none", drivers for a     *)
(* GPU, WiFi chip or VM that needs drivers.                                *)
ConfigType ==
    [ scheme : Schemes, firmware : Firmwares, encrypt : BOOLEAN,
      swap : SwapModes, bootloader : Bootloaders, rankMirrors : BOOLEAN,
      desktop : BOOLEAN, drivers : BOOLEAN ]

(* What the wizard lets through: systemd-boot is offered on UEFI only, and *)
(* manual partitioning switches encryption off.                            *)
ReachableConfig(c) ==
    /\ c \in ConfigType
    /\ c.bootloader = "systemd-boot" => c.firmware = "uefi"
    /\ c.scheme = "manual" => ~ c.encrypt

Pipeline ==
    << "verify-internet", "sync-clock", "rank-mirrors", "partition-disk",
       "format-disks", "mount-disks", "setup-swap", "copy-live-files",
       "pacstrap", "luks-keyfile", "initramfs", "gen-fstab", "set-timezone",
       "write-crypttab", "set-locale", "config-network", "set-hostname",
       "root-password", "detect-windows", "bootloader", "install-desktop",
       "install-packages", "install-drivers", "create-users",
       "enable-services", "post-cleanup", "remove-state", "cleanup" >>

StepKeys == { Pipeline[i] : i \in 1..Len(Pipeline) }

SoftSteps == {"sync-clock", "rank-mirrors", "detect-windows", "cleanup"}

(* The When functions; a step without one always runs. *)
When(k, c) ==
    CASE k = "rank-mirrors"    -> c.rankMirrors
      [] k = "setup-swap"      -> c.swap \in {"file", "suspend"}
      [] k = "luks-keyfile"    -> c.encrypt /\ c.bootloader # "systemd-boot"
      [] k = "write-crypttab"  -> c.encrypt
      [] k = "install-desktop" -> c.desktop
      [] k = "install-drivers" -> c.drivers
      [] OTHER                 -> TRUE

(* The entries that apply to c, in pipeline order. *)
Steps(c) == SelectSeq(Pipeline, LAMBDA k : When(k, c))
=============================================================================
