------------------------- MODULE ResumableInstallMC -------------------------
(***************************************************************************)
(* Configurations and plans for TLC.  The plans are Flow's: the pipeline   *)
(* of data/flow.go, filtered by each configuration.                        *)
(***************************************************************************)
EXTENDS ResumableInstall

F == INSTANCE Flow

(* The configuration with most to release and to restore: an encrypted     *)
(* root, an ESP and a swap partition.                                      *)
GuidedEncrypted ==
    [ scheme |-> "guided", firmware |-> "uefi", encrypt |-> TRUE,
      swap |-> "partition", mapsSwap |-> FALSE, bootloader |-> "grub",
      rankMirrors |-> TRUE, desktop |-> FALSE, drivers |-> FALSE ]

(* One whose swap is a file on the root filesystem. *)
GuidedSuspend == [GuidedEncrypted EXCEPT !.encrypt = FALSE, !.swap = "suspend"]
GuidedPlain == [GuidedEncrypted EXCEPT !.encrypt = FALSE, !.swap = "none"]
GuidedSwap == [GuidedPlain EXCEPT !.swap = "partition"]
Manual == [GuidedPlain EXCEPT !.scheme = "manual", !.mapsSwap = TRUE]

OneGuided == {GuidedEncrypted}
TwoGuided == {GuidedEncrypted, GuidedSuspend}
SwapChanges == {GuidedPlain, GuidedSwap}
ManualOnly == {Manual}
GuidedOrManual == {GuidedEncrypted, Manual}

SoftSteps == F!SoftSteps

FullPlan == [c \in Configs |-> F!Steps(c)]

(* One step of every kind the model tells apart, for the runs whose state  *)
(* space the full pipeline would only multiply.                            *)
Kinds == { "verify-internet", "partition-disk", "format-disks", "mount-disks",
           "setup-swap", "pacstrap", "detect-windows", "bootloader",
           "remove-state", "cleanup" }

ShortPlan == [c \in Configs |-> SelectSeq(F!Steps(c), LAMBDA k : k \in Kinds)]

(* The plan of every configuration the wizard can produce, not only those  *)
(* above, is one the assumptions allow: no step twice, the disk steps in   *)
(* order, everything that writes to the target after mount-disks, nothing  *)
(* that can abort after remove-state.                                      *)
ASSUME EveryPlanAssumed ==
    \A c \in F!ConfigType :
        F!ReachableConfig(c) =>
            LET s == F!Steps(c)
                Precedes(a, b) ==
                    \A i \in 1..Len(s) :
                        s[i] = b => \E j \in 1..(i - 1) : s[j] = a
            IN /\ \A i, j \in 1..Len(s) : s[i] = s[j] => i = j
               /\ Precedes("partition-disk", "format-disks")
               /\ Precedes("format-disks", "mount-disks")
               /\ \A k \in F!StepKeys :
                     OnTarget(k) => Precedes("mount-disks", k)
               /\ Precedes("mount-disks", "remove-state")
               /\ \E i \in 1..Len(s) :
                     /\ s[i] = "remove-state"
                     /\ \A j \in (i + 1)..Len(s) : s[j] \in F!SoftSteps
               /\ s[Len(s)] = "cleanup"
=============================================================================
