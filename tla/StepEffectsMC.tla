---------------------------- MODULE StepEffectsMC ----------------------------
(* Every combination of encryption, boot loader and drivers, with a swap     *)
(* file to resume from; without drivers also with a plain swap file.         *)
EXTENDS StepEffects

ConfigsMC ==
    { c \in ConfigType : c.scheme = "guided" /\ c.firmware = "uefi"
                           /\ c.swap \in {"file", "suspend"} /\ ~ c.rankMirrors
                           /\ c.desktop
                           /\ (c.swap = "file" => ~ c.drivers) }

ExcludesMC == { {}, {"nvidia", "grub"} }
=============================================================================
