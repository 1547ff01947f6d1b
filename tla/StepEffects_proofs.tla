-------------------------- MODULE StepEffects_proofs --------------------------
(***************************************************************************)
(* KeyfileSlotsBounded, ExcludedStayOut, TypeOK, DoneStepsHold and              *)
(* FinishedInPlace for any configurations, any excludes and any number of  *)
(* faults, the last three through the inductive invariant IInv.            *)
(***************************************************************************)
EXTENDS StepEffects, FiniteSetTheorems, SequenceTheorems, TLAPS

Parts == DOMAIN Empty
IsTarget(s) == s = [ p \in Parts |-> s[p] ]

LEMMA PartsAre ==
    Parts = { "swapfile", "swapOn", "resumeConf", "made", "keyfile", "slots", "keyConf",
              "image", "fallback", "esp", "fstab", "crypttab", "grub", "backup",
              "grubCfg", "copy", "files", "packages", "user", "password" }
BY DEF Parts, Empty

(* The files are none of the commands Effect tells apart. *)
LEMMA FilesAre ==
    Files = { "/etc/localtime", "/etc/timezone", "/etc/locale.gen", "/etc/locale.conf",
              "/etc/vconsole.conf", "nmconnection", "/etc/hostname", "/etc/hosts",
              "/etc/shadow", "/etc/pacman.conf", "services", "default.target",
              "machine-id", "journald" }
<1> DEFINE Listed(F) == { F[i] : i \in 1..Len(F) }
<1>1. Listed(TimezoneFiles) = { "/etc/localtime", "/etc/timezone" }
  BY DEF TimezoneFiles
<1>2. Listed(LocaleFiles) = { "/etc/locale.gen", "/etc/locale.conf", "/etc/vconsole.conf" }
  BY DEF LocaleFiles
<1>3. Listed(NetworkFiles) = { "nmconnection" }
  BY DEF NetworkFiles
<1>4. Listed(HostnameFiles) = { "/etc/hostname", "/etc/hosts" }
  BY DEF HostnameFiles
<1>5. Listed(RootPasswordFiles) = { "/etc/shadow" }
  BY DEF RootPasswordFiles
<1>6. Listed(LiveFiles) = { "/etc/pacman.conf" }
  BY DEF LiveFiles
<1>7. Listed(ServiceLinks) = { "services", "default.target" }
  BY DEF ServiceLinks
<1>8. Listed(CleanupFiles) = { "machine-id", "journald" }
  BY DEF CleanupFiles
<1>9. Files = Listed(TimezoneFiles) \cup Listed(LocaleFiles) \cup Listed(NetworkFiles)
                \cup Listed(HostnameFiles) \cup Listed(RootPasswordFiles) \cup Listed(LiveFiles)
                \cup Listed(ServiceLinks) \cup Listed(CleanupFiles)
  BY DEF Files
<1> HIDE DEF Listed
<1> QED
  BY <1>1, <1>2, <1>3, <1>4, <1>5, <1>6, <1>7, <1>8, <1>9

(* An assignment to one part leaves the others. *)
LEMMA OnePart ==
    ASSUME NEW s, IsTarget(s), NEW p \in Parts, NEW v
    PROVE  /\ IsTarget([ s EXCEPT ![p] = v ])
           /\ [ s EXCEPT ![p] = v ][p] = v
           /\ \A q \in Parts \ {p} : [ s EXCEPT ![p] = v ][q] = s[q]
BY DEF IsTarget

(* What a command outside the keyfile step does: the key and the slots are *)
(* left alone, and no excluded package is added.                           *)
Harmless(s, t) ==
    /\ IsTarget(t)
    /\ t.slots = s.slots /\ t.keyfile = s.keyfile
    /\ s.made \in Nat => t.made \in Nat /\ s.made <= t.made
    /\ (t.packages \ s.packages) \cap excluded = {}

LEMMA HarmlessPart ==
    ASSUME NEW s, IsTarget(s), NEW p \in Parts \ {"slots", "keyfile", "packages", "made"},
           NEW v
    PROVE  Harmless(s, [ s EXCEPT ![p] = v ])
BY OnePart, PartsAre DEF Harmless

LEMMA HarmlessPackages ==
    ASSUME NEW s, IsTarget(s), NEW pkgs
    PROVE  Harmless(s, AddPackages(s, pkgs))
BY OnePart, PartsAre DEF Harmless, AddPackages, WithoutExcluded

LEMMA HarmlessTwice ==
    ASSUME NEW s, NEW t, Harmless(s, t), NEW u, Harmless(t, u)
    PROVE  Harmless(s, u)
BY DEF Harmless

LEMMA HarmlessGrub ==
    ASSUME NEW s, IsTarget(s), NEW kind
    PROVE  /\ Harmless(s, GrubPackage(s)) /\ Harmless(s, RestoreOrBackup(s))
           /\ Harmless(s, CopyCut(s)) /\ Harmless(s, Appended(s, kind))
<1>0. Harmless(s, s)
  BY DEF Harmless
<1>1. Harmless(s, GrubPackage(s))
  <2>1. Harmless(s, AddPackages(s, {"grub", "efibootmgr"}))
    BY HarmlessPackages
  <2>2. IsTarget(AddPackages(s, {"grub", "efibootmgr"}))
    BY <2>1 DEF Harmless
  <2>3. Harmless(AddPackages(s, {"grub", "efibootmgr"}),
                 [ AddPackages(s, {"grub", "efibootmgr"}) EXCEPT !.grub = Pristine ])
    BY <2>2, HarmlessPart, PartsAre
  <2> QED
    BY <2>1, <2>3, HarmlessTwice DEF GrubPackage
<1>2. Harmless(s, RestoreOrBackup(s))
  BY HarmlessPart, PartsAre DEF RestoreOrBackup
<1>3. Harmless(s, CopyCut(s))
  BY HarmlessPart, PartsAre DEF CopyCut
<1>4. Harmless(s, Appended(s, kind))
  BY <1>0, HarmlessPart, PartsAre DEF Appended
<1> QED
  BY <1>1, <1>2, <1>3, <1>4

LEMMA HarmlessRest ==
    ASSUME NEW s, IsTarget(s)
    PROVE  Harmless(s, UserAdd(s)) /\ Harmless(s, SetupResume(s)) /\ Harmless(s, GenFstab(s))
<1>0. Harmless(s, s)
  BY DEF Harmless
<1>1. Harmless(s, UserAdd(s))
  BY <1>0, HarmlessPart, PartsAre DEF UserAdd
<1>2. Harmless(s, SetupResume(s))
  BY HarmlessPart, PartsAre DEF SetupResume
<1>3. Harmless(s, GenFstab(s))
  BY HarmlessPart, PartsAre DEF GenFstab
<1> QED
  BY <1>1, <1>2, <1>3

KeyOps == {"check-keyfile", "write-keyfile", "add-key"}

(* Every command outside the keyfile step is harmless. *)
LEMMA HarmlessEffect ==
    ASSUME NEW k, k \notin KeyOps, NEW s, IsTarget(s), NEW c
    PROVE  Harmless(s, Effect(k, s, c))
<1>0. Harmless(s, s)
  BY DEF Harmless
<1>1. CASE k \in {"remove-swapfile", "make-swapfile"}
  <2>1. \A u : Harmless(s, [ s EXCEPT !.swapfile = u ])
    BY HarmlessPart, PartsAre
  <2>2. CASE k = "remove-swapfile"
    <3> DEFINE t == [ s EXCEPT !.swapfile = 0 ]
    <3>1. Harmless(t, [ t EXCEPT !.swapOn = FALSE ])
      BY <2>1, HarmlessPart, PartsAre DEF Harmless
    <3>2. Effect(k, s, c) = [ t EXCEPT !.swapOn = FALSE ]
      BY <2>2, FilesAre DEF Effect
    <3> QED
      BY <2>1, <3>1, <3>2, HarmlessTwice
  <2>3. CASE k = "make-swapfile"
    <3> DEFINE t == [ s EXCEPT !.swapfile = s.made + 1 ]
    <3>1. Harmless(t, [ t EXCEPT !.made = s.made + 1 ])
      <4>1. IsTarget(t) /\ t.made = s.made
        BY OnePart, PartsAre
      <4> HIDE DEF t
      <4> QED
        BY <4>1, OnePart, PartsAre DEF Harmless
    <3>2. Effect(k, s, c) = [ t EXCEPT !.made = s.made + 1 ]
      BY <2>3, FilesAre DEF Effect
    <3> QED
      BY <2>1, <3>1, <3>2, HarmlessTwice
  <2> QED
    BY <1>1, <2>2, <2>3
<1>2. CASE k \in {"swapon", "resume-conf", "encryption-conf", "genfstab", "crypttab", "useradd"}
  <2>1. CASE k \in {"swapon", "encryption-conf", "crypttab"}
    BY <2>1, HarmlessPart, PartsAre, FilesAre DEF Effect
  <2>2. CASE k \in {"resume-conf", "genfstab", "useradd"}
    <3>1. Effect(k, s, c) \in { SetupResume(s), GenFstab(s), UserAdd(s) }
      BY <2>2, FilesAre DEF Effect
    <3> QED
      BY <3>1, HarmlessRest
  <2> QED
    BY <1>2, <2>1, <2>2
<1>3. CASE k \in {"pacstrap", "desktop-packages", "extra-packages", "driver-package"}
  <2>1. Effect(k, s, c) \in { AddPackages(s, Base(c)), AddPackages(s, CommonDE),
                              AddPackages(s, Extra), AddPackages(s, Driver) }
    BY <1>3, FilesAre DEF Effect
  <2> QED
    BY <2>1, HarmlessPackages
<1>4. CASE k \in {"dracut", "driver-dracut", "dracut-fallback", "grub-mkconfig",
                  "driver-mkconfig", "copy-initramfs"}
  <2>1. CASE k \in {"dracut", "driver-dracut"}
    BY <2>1, HarmlessPart, PartsAre, FilesAre DEF Effect
  <2>2. CASE k \in {"dracut-fallback", "copy-initramfs"}
    BY <2>2, HarmlessPart, PartsAre, FilesAre DEF Effect
  <2>3. CASE k \in {"grub-mkconfig", "driver-mkconfig"}
    BY <2>3, HarmlessPart, PartsAre, FilesAre DEF Effect
  <2> QED
    BY <1>4, <2>1, <2>2, <2>3
<1>5. CASE k \in {"grub-package", "backup", "base-params", "crypt-params"}
  <2>1. Effect(k, s, c) \in { GrubPackage(s), RestoreOrBackup(s), Appended(s, "base"),
                              Appended(s, "crypt") }
    BY <1>5, FilesAre DEF Effect
  <2> QED
    BY <2>1, HarmlessGrub
<1>6. CASE k \in {"passwd", "remove-backup", "remove-disk"}
  BY <1>6, HarmlessPart, PartsAre, FilesAre DEF Effect
<1>7. CASE k \notin {"remove-swapfile", "make-swapfile", "swapon", "resume-conf",
                     "encryption-conf", "genfstab", "crypttab", "useradd", "pacstrap",
                     "desktop-packages", "extra-packages", "driver-package", "dracut",
                     "driver-dracut", "dracut-fallback", "grub-mkconfig",
                     "driver-mkconfig", "copy-initramfs", "grub-package", "backup",
                     "base-params", "crypt-params", "passwd", "remove-backup",
                     "remove-disk"}
  <2>1. Effect(k, s, c) = IF k \in Files THEN [ s EXCEPT !.files = @ \cup {k} ] ELSE s
    BY <1>7, FilesAre DEF Effect, KeyOps
  <2> QED
    BY <1>0, <2>1, HarmlessPart, PartsAre
<1> QED
  BY <1>1, <1>2, <1>3, <1>4, <1>5, <1>6, <1>7

(* The keyfile step looks for a key that is enrolled, drops one that is    *)
(* not, makes a new one and enrolls it.                                    *)
LEMMA KeyEffects ==
    ASSUME NEW s, IsTarget(s), NEW c
    PROVE  /\ s.keyfile \in s.slots => Effect("check-keyfile", s, c) = s
           /\ s.keyfile \notin s.slots =>
                LET t == Effect("check-keyfile", s, c)
                IN  /\ IsTarget(t) /\ t.slots = s.slots /\ t.packages = s.packages
                    /\ t.keyfile = 0 /\ t.made = s.made
           /\ LET t == Effect("write-keyfile", s, c)
              IN  /\ IsTarget(t) /\ t.slots = s.slots /\ t.packages = s.packages
                  /\ t.keyfile = s.made + 1 /\ t.made = s.made + 1
           /\ LET t == Effect("add-key", s, c)
              IN  /\ IsTarget(t) /\ t.slots = s.slots \cup {s.keyfile}
                  /\ t.keyfile = s.keyfile /\ t.packages = s.packages /\ t.made = s.made
<1>1. s.keyfile \in s.slots => Effect("check-keyfile", s, c) = s
  BY FilesAre DEF Effect
<1>2. ASSUME s.keyfile \notin s.slots, NEW t, t = Effect("check-keyfile", s, c)
      PROVE  /\ IsTarget(t) /\ t.slots = s.slots /\ t.packages = s.packages
             /\ t.keyfile = 0 /\ t.made = s.made
  <2>1. t = [ s EXCEPT !.keyfile = 0 ]
    BY <1>2, FilesAre DEF Effect
  <2> QED
    BY <2>1, OnePart, PartsAre
<1>3. ASSUME NEW t, t = Effect("write-keyfile", s, c)
      PROVE  /\ IsTarget(t) /\ t.slots = s.slots /\ t.packages = s.packages
             /\ t.keyfile = s.made + 1 /\ t.made = s.made + 1
  <2> DEFINE u == [ s EXCEPT !.keyfile = s.made + 1 ]
  <2>1. t = [ u EXCEPT !.made = s.made + 1 ]
    BY <1>3, FilesAre DEF Effect
  <2>2. IsTarget(u) /\ u.slots = s.slots /\ u.packages = s.packages /\ u.keyfile = s.made + 1
    BY OnePart, PartsAre
  <2> HIDE DEF u
  <2> QED
    BY <2>1, <2>2, OnePart, PartsAre
<1>4. ASSUME NEW t, t = Effect("add-key", s, c)
      PROVE  /\ IsTarget(t) /\ t.slots = s.slots \cup {s.keyfile}
             /\ t.keyfile = s.keyfile /\ t.packages = s.packages /\ t.made = s.made
  <2>1. t = [ s EXCEPT !.slots = s.slots \cup {s.keyfile} ]
    BY <1>4, FilesAre DEF Effect
  <2> QED
    BY <2>1, OnePart, PartsAre
<1> QED
  BY <1>1, <1>2, <1>3, <1>4

(* The commands of the other steps. *)
OtherOps == Files \cup
    { "remove-swapfile", "make-swapfile", "swapon", "resume-conf", "pacstrap",
      "encryption-conf", "dracut", "dracut-fallback", "genfstab", "crypttab",
      "grub-package", "backup", "base-params", "crypt-params", "grub-install",
      "grub-mkconfig", "bootctl", "copy-kernel", "copy-initramfs", "loader-entry",
      "desktop-packages", "extra-packages", "driver-package", "driver-dracut",
      "driver-mkconfig", "useradd", "passwd", "sudoers", "remove-stub",
      "remove-backup", "remove-tmp", "remove-disk" }

(* No other step has a command of the keyfile step. *)
LEMMA OtherSteps ==
    ASSUME NEW k, k # "luks-keyfile", NEW c
    PROVE  Ops(k, c) \in Seq(OtherOps)
<1>0. << >> \in Seq(OtherOps)
  OBVIOUS
<1>1. SwapOps(c) \in Seq(OtherOps)
  <2>1. << "remove-swapfile", "make-swapfile", "swapon", "resume-conf" >> \in Seq(OtherOps)
    BY DEF OtherOps
  <2>2. << "remove-swapfile", "make-swapfile", "swapon" >> \in Seq(OtherOps)
    BY DEF OtherOps
  <2> QED
    BY <2>1, <2>2, Zenon DEF SwapOps
<1>2. InitramfsOps(c) \in Seq(OtherOps)
  <2>1. << "encryption-conf", "dracut", "dracut-fallback" >> \in Seq(OtherOps)
    BY DEF OtherOps
  <2>2. << "dracut", "dracut-fallback" >> \in Seq(OtherOps)
    BY DEF OtherOps
  <2> QED
    BY <2>1, <2>2, Zenon DEF InitramfsOps
<1>3. GrubOps(c) \in Seq(OtherOps)
  <2>1. << "grub-package", "backup", "base-params", "crypt-params",
          "grub-install", "grub-mkconfig" >> \in Seq(OtherOps)
    BY DEF OtherOps
  <2>2. << "grub-package", "backup", "base-params", "grub-install",
          "grub-mkconfig" >> \in Seq(OtherOps)
    BY DEF OtherOps
  <2> QED
    BY <2>1, <2>2, Zenon DEF GrubOps
<1>4. DriverOps(c) \in Seq(OtherOps)
  <2>1. << "driver-package", "driver-dracut" >> \in Seq(OtherOps)
    BY DEF OtherOps
  <2>2. << "driver-package", "driver-dracut", "driver-mkconfig" >> \in Seq(OtherOps)
    BY DEF OtherOps
  <2> QED
    BY <2>1, <2>2, Zenon DEF DriverOps
<1>5. /\ LiveFiles \in Seq(OtherOps) /\ TimezoneFiles \in Seq(OtherOps)
      /\ LocaleFiles \in Seq(OtherOps) /\ NetworkFiles \in Seq(OtherOps)
      /\ HostnameFiles \in Seq(OtherOps) /\ RootPasswordFiles \in Seq(OtherOps)
      /\ ServiceLinks \in Seq(OtherOps) /\ CleanupFiles \in Seq(OtherOps)
  BY FilesAre DEF LiveFiles, TimezoneFiles, LocaleFiles, NetworkFiles, HostnameFiles,
         RootPasswordFiles, ServiceLinks, CleanupFiles, OtherOps
<1>6. /\ SystemdBootOps \in Seq(OtherOps) /\ UserOps \in Seq(OtherOps)
      /\ RemoveStateOps \in Seq(OtherOps)
  BY DEF SystemdBootOps, UserOps, RemoveStateOps, OtherOps
<1>7. /\ << "pacstrap" >> \in Seq(OtherOps) /\ << "genfstab" >> \in Seq(OtherOps)
      /\ << "crypttab" >> \in Seq(OtherOps) /\ << "desktop-packages" >> \in Seq(OtherOps)
      /\ << "extra-packages" >> \in Seq(OtherOps)
  BY DEF OtherOps
<1>8. Ops(k, c) \in { << >>, SwapOps(c), InitramfsOps(c), GrubOps(c), DriverOps(c), LiveFiles,
                     TimezoneFiles, LocaleFiles, NetworkFiles, HostnameFiles,
                     RootPasswordFiles, ServiceLinks, CleanupFiles, SystemdBootOps,
                     UserOps, RemoveStateOps, << "pacstrap" >>, << "genfstab" >>,
                     << "crypttab" >>, << "desktop-packages" >>, << "extra-packages" >> }
  BY DEF Ops
<1> QED
  BY <1>0, <1>1, <1>2, <1>3, <1>4, <1>5, <1>6, <1>7, <1>8, Zenon

(* So a command of the keyfile step is at its place in that step. *)
LEMMA KeyCommands ==
    ASSUME NEW k, NEW c, NEW i \in Nat \ {0}, i <= Len(Ops(k, c)),
           Ops(k, c)[i] \in KeyOps
    PROVE  /\ k = "luks-keyfile" /\ i \in 1..3 /\ Ops(k, c) = KeyfileOps
           /\ Ops(k, c)[i] = KeyfileOps[i]
<1>1. OtherOps \cap KeyOps = {}
  BY FilesAre DEF OtherOps, KeyOps
<1>2. k = "luks-keyfile"
  <2>1. SUFFICES ASSUME k # "luks-keyfile"
                 PROVE  FALSE
    OBVIOUS
  <2>2. Ops(k, c) \in Seq(OtherOps)
    BY <2>1, OtherSteps
  <2>3. i \in 1..Len(Ops(k, c))
    BY <2>2, LenProperties
  <2>4. Ops(k, c)[i] \in OtherOps
    BY <2>2, <2>3, ElementOfSeq
  <2> QED
    BY <1>1, <2>4
<1>3. Ops(k, c) = KeyfileOps
  BY <1>2 DEF Ops
<1>4. Len(KeyfileOps) = 3
  BY DEF KeyfileOps
<1> QED
  BY <1>2, <1>3, <1>4

(* Beside the slot of the keyfile there is, there is one slot for each     *)
(* check that was misread.  A key that is about to be written or enrolled  *)
(* has none yet, since its number is new.                                  *)
SlotInv ==
    /\ IsTarget(sys) /\ op \in Nat \ {0} /\ misread \in Nat
    /\ sys.made \in Nat /\ sys.slots \subseteq 1..sys.made
    /\ Cardinality(sys.slots \ {sys.keyfile}) <= misread
    /\ Command \in {"write-keyfile", "add-key"} => sys.keyfile \notin sys.slots
    /\ Command = "add-key" => sys.keyfile \in 1..sys.made

(* A command of the keyfile step stands where it stands in KeyfileOps. *)
LEMMA KeyCommand ==
    ASSUME op \in Nat \ {0}, Command \in KeyOps
    PROVE  /\ op \in 1..3 /\ Ops(Key, cfg) = KeyfileOps /\ Command = KeyfileOps[op]
           /\ running /\ step <= Len(Steps(cfg))
<1>1. /\ running /\ step <= Len(Steps(cfg)) /\ op <= Len(Ops(Key, cfg))
      /\ Command = Ops(Key, cfg)[op]
  BY DEF Command, KeyOps
<1> QED
  BY <1>1, KeyCommands

(* The step goes on to its next command. *)
LEMMA NextCommand ==
    ASSUME op \in Nat \ {0}, op' = op + 1, UNCHANGED << cfg, step, running >>,
           Command' \in {"write-keyfile", "add-key"}
    PROVE  /\ Command \in {"check-keyfile", "write-keyfile"}
           /\ Command' = "add-key" => Command = "write-keyfile"
<1>1. /\ op' <= Len(Ops(Key, cfg)) /\ Command' = Ops(Key, cfg)[op']
      /\ running /\ step <= Len(Steps(cfg))
  BY DEF Command, Key
<1>2. op' \in 1..3 /\ Ops(Key, cfg) = KeyfileOps /\ Command' = KeyfileOps[op']
  BY <1>1, KeyCommands DEF KeyOps
<1>3. op \in 1..2 /\ Len(KeyfileOps) = 3
  BY <1>2 DEF KeyfileOps
<1>4. Command = KeyfileOps[op]
  BY <1>1, <1>2, <1>3 DEF Command
<1> QED
  BY <1>2, <1>3, <1>4 DEF KeyfileOps

(* A step starts with none of these. *)
LEMMA FirstCommand ==
    ASSUME op' = 1
    PROVE  Command' \notin {"write-keyfile", "add-key"}
<1>1. SUFFICES ASSUME Command' \in {"write-keyfile", "add-key"}
               PROVE  FALSE
  OBVIOUS
<1>2. op' <= Len(Ops(Key', cfg')) /\ Command' = Ops(Key', cfg')[op']
  BY <1>1 DEF Command
<1>3. Command' = KeyfileOps[1]
  BY <1>1, <1>2, KeyCommands DEF KeyOps
<1> QED
  BY <1>1, <1>3 DEF KeyfileOps

(* A step after which no command writes or enrolls a key. *)
LEMMA Elsewhere ==
    ASSUME SlotInv, Command' \notin {"write-keyfile", "add-key"}, op' \in Nat \ {0},
           misread' = misread, Harmless(sys, sys')
    PROVE  SlotInv'
BY DEF SlotInv, Harmless

LEMMA GoesOn ==
    ASSUME SlotInv, Command \notin KeyOps, op' = op + 1, misread' = misread,
           UNCHANGED << cfg, step, running >>, Harmless(sys, sys')
    PROVE  SlotInv'
<1>1. Command' \notin {"write-keyfile", "add-key"}
  BY NextCommand DEF SlotInv, KeyOps
<1> QED
  BY <1>1, Elsewhere DEF SlotInv

LEMMA SlotInit == Init => SlotInv
<1> SUFFICES ASSUME Init
             PROVE  SlotInv
  OBVIOUS
<1>1. sys = Empty /\ op = 1 /\ misread = 0
  BY DEF Init
<1>2. IsTarget(Empty) /\ Empty.slots = {} /\ Empty.made = 0
  BY DEF IsTarget, Parts, Empty
<1>3. Command \notin {"write-keyfile", "add-key"}
  <2>1. SUFFICES ASSUME Command \in {"write-keyfile", "add-key"}
                 PROVE  FALSE
    OBVIOUS
  <2>2. Command = KeyfileOps[1]
    BY <1>1, <2>1, KeyCommand DEF KeyOps
  <2> QED
    BY <2>1, <2>2 DEF KeyfileOps
<1>4. Cardinality({} \ {sys.keyfile}) = 0
  <2>1. {} \ {sys.keyfile} = {}
    OBVIOUS
  <2> QED
    BY <2>1, FS_EmptySet
<1> QED
  BY <1>1, <1>2, <1>3, <1>4 DEF SlotInv

LEMMA SlotRun == SlotInv /\ Run => SlotInv'
<1> SUFFICES ASSUME SlotInv, Run
             PROVE  SlotInv'
  OBVIOUS
<1>0. /\ IsTarget(sys) /\ op \in Nat \ {0} /\ misread \in Nat
      /\ sys.made \in Nat /\ sys.slots \subseteq 1..sys.made
      /\ Cardinality(sys.slots \ {sys.keyfile}) <= misread
      /\ UNCHANGED << cfg, step, running, misread >>
      /\ sys' = Effect(Command, sys, cfg)
  BY DEF SlotInv, Run
<1>1. CASE Command = "check-keyfile" /\ sys.keyfile \in sys.slots
  <2>1. op' = Len(Ops(Key, cfg)) + 1 /\ Ops(Key, cfg) = KeyfileOps
    BY <1>0, <1>1, KeyCommand DEF Run, KeyOps
  <2>2. Len(KeyfileOps) = 3
    BY DEF KeyfileOps
  <2>3. Command' = "none"
    BY <1>0, <2>1, <2>2 DEF Command, Key
  <2>4. sys' = sys
    BY <1>0, <1>1, KeyEffects
  <2> QED
    BY <1>0, <2>1, <2>2, <2>3, <2>4 DEF SlotInv
<1>2. CASE Command = "check-keyfile" /\ sys.keyfile \notin sys.slots
  <2>1. /\ IsTarget(sys') /\ sys'.slots = sys.slots
        /\ sys'.keyfile = 0 /\ sys'.made = sys.made
    BY <1>0, <1>2, KeyEffects
  <2>2. sys'.keyfile \notin sys'.slots /\ sys'.slots \ {sys'.keyfile} = sys.slots \ {sys.keyfile}
    BY <1>0, <1>2, <2>1
  <2>3. op' = op + 1
    BY <1>2 DEF Run
  <2>4. Command' # "add-key"
    BY <1>0, <1>2, <2>3, NextCommand
  <2> QED
    BY <1>0, <2>1, <2>2, <2>3, <2>4 DEF SlotInv
<1>3. CASE Command = "write-keyfile"
  <2>1. /\ IsTarget(sys') /\ sys'.slots = sys.slots
        /\ sys'.keyfile = sys.made + 1 /\ sys'.made = sys.made + 1
    BY <1>0, <1>3, KeyEffects
  <2>2. sys.keyfile \notin sys.slots
    BY <1>3 DEF SlotInv
  <2>3. sys'.keyfile \notin sys'.slots /\ sys'.slots \ {sys'.keyfile} = sys.slots \ {sys.keyfile}
    BY <1>0, <2>1, <2>2
  <2>4. op' \in Nat \ {0}
    BY <1>0, <1>3 DEF Run
  <2> QED
    BY <1>0, <2>1, <2>3, <2>4 DEF SlotInv
<1>4. CASE Command = "add-key"
  <2>1. Command' \notin {"write-keyfile", "add-key"}
    BY <1>0, <1>4, NextCommand DEF Run
  <2>2. /\ IsTarget(sys') /\ sys'.slots = sys.slots \cup {sys.keyfile}
        /\ sys'.keyfile = sys.keyfile /\ sys'.made = sys.made
    BY <1>0, <1>4, KeyEffects
  <2>3. sys.keyfile \in 1..sys.made
    BY <1>4 DEF SlotInv
  <2>4. sys'.slots \ {sys'.keyfile} = sys.slots \ {sys.keyfile}
    BY <2>2
  <2>5. op' \in Nat \ {0}
    BY <1>0, <1>4 DEF Run
  <2> QED
    BY <1>0, <2>1, <2>2, <2>3, <2>4, <2>5 DEF SlotInv
<1>5. CASE Command \notin KeyOps
  <2>1. Harmless(sys, sys')
    BY <1>0, <1>5, HarmlessEffect
  <2>2. op' = op + 1
    BY <1>5 DEF Run, KeyOps
  <2> QED
    BY <1>0, <1>5, <2>1, <2>2, GoesOn
<1> QED
  BY <1>1, <1>2, <1>3, <1>4, <1>5 DEF KeyOps

LEMMA SlotsFinite ==
    ASSUME NEW n \in Nat, NEW S, S \subseteq 1..n
    PROVE  /\ IsFiniteSet(S) /\ Cardinality(S) \in Nat
           /\ \A x : /\ Cardinality(S \ {x}) \in Nat
                    /\ Cardinality(S \ {x}) = IF x \in S THEN Cardinality(S) - 1
                                             ELSE Cardinality(S)
<1>1. IsFiniteSet(1..n)
  BY FS_Interval
<1>2. IsFiniteSet(S)
  BY <1>1, FS_Subset
<1>3. \A T : IsFiniteSet(T) => Cardinality(T) \in Nat
  BY FS_CardinalityType
<1>4. ASSUME NEW x
      PROVE  /\ Cardinality(S \ {x}) \in Nat
             /\ Cardinality(S \ {x}) = IF x \in S THEN Cardinality(S) - 1
                                      ELSE Cardinality(S)
  <2>1. IsFiniteSet(S \ {x})
    BY <1>2, FS_Subset
  <2>2. CASE x \in S
    BY <1>2, <1>3, <2>1, <2>2, FS_RemoveElement
  <2>3. CASE x \notin S
    <3>1. S \ {x} = S
      BY <2>3
    <3> QED
      BY <1>2, <1>3, <2>3, <3>1
  <2> QED
    BY <2>2, <2>3
<1> QED
  BY <1>2, <1>3, <1>4

(* A misread check leaves the slot it forgets behind, and no other.        *)
LEMMA SlotMisread == SlotInv /\ MisreadCheck => SlotInv'
<1> SUFFICES ASSUME SlotInv, MisreadCheck
             PROVE  SlotInv'
  OBVIOUS
<1>0. /\ IsTarget(sys) /\ op \in Nat \ {0} /\ misread \in Nat
      /\ sys.made \in Nat /\ sys.slots \subseteq 1..sys.made
      /\ Cardinality(sys.slots \ {sys.keyfile}) <= misread
  BY DEF SlotInv
<1>1. /\ UNCHANGED << cfg, step, running >> /\ op' = op + 1 /\ misread' = misread + 1
      /\ sys' = [ sys EXCEPT !.keyfile = 0 ]
      /\ Command = "check-keyfile" /\ sys.keyfile \in sys.slots
  BY DEF MisreadCheck
<1>2. /\ IsTarget(sys') /\ sys'.slots = sys.slots /\ sys'.keyfile = 0 /\ sys'.made = sys.made
  BY <1>0, <1>1, OnePart, PartsAre
<1>3. sys'.keyfile \notin sys'.slots /\ sys'.slots \ {sys'.keyfile} = sys.slots
  BY <1>0, <1>2
<1>4. /\ Cardinality(sys.slots) \in Nat
      /\ Cardinality(sys.slots \ {sys.keyfile}) = Cardinality(sys.slots) - 1
  BY <1>0, <1>1, SlotsFinite
<1>5. Cardinality(sys'.slots \ {sys'.keyfile}) = Cardinality(sys.slots)
  BY <1>3
<1>6. Cardinality(sys'.slots \ {sys'.keyfile}) <= misread'
  BY <1>0, <1>1, <1>4, <1>5
<1>7. Command' # "add-key"
  BY <1>0, <1>1, NextCommand
<1> QED
  BY <1>0, <1>1, <1>2, <1>3, <1>6, <1>7 DEF SlotInv

(* The end of a run changes the target given to it in the swap alone.      *)
LEMMA InterruptedTarget ==
    ASSUME NEW how, NEW s, IsTarget(s), NEW o, Interrupted(how, s, o)
    PROVE  /\ IsTarget(sys') /\ (sys'.swapOn => s.swapOn)
           /\ \A p \in Parts \ {"swapOn"} : sys'[p] = s[p]
           /\ UNCHANGED << cfg, excluded, onRoot, step, op, saved, saving, misread >>
           /\ running' = FALSE /\ o \subseteq odd'
           /\ inTmp' = inTmp \/ (inTmp' = onRoot /\ odd' = o \cup Dropped)
<1>1. sys' = [ s EXCEPT !.swapOn = s.swapOn /\ how = "killed" ]
  BY DEF Interrupted
<1>2. \A v : LET t == [ s EXCEPT !.swapOn = v ]
            IN  IsTarget(t) /\ t.swapOn = v /\ \A p \in Parts \ {"swapOn"} : t[p] = s[p]
  BY OnePart, PartsAre
<1>3. PICK v : v = (s.swapOn /\ how = "killed")
  OBVIOUS
<1>4. /\ IsTarget(sys') /\ sys'.swapOn = v
      /\ \A p \in Parts \ {"swapOn"} : sys'[p] = s[p]
  BY <1>1, <1>2, <1>3
<1>5. sys'.swapOn => s.swapOn
  BY <1>3, <1>4
<1>6. /\ UNCHANGED << cfg, excluded, onRoot, step, op, saved, saving, misread >>
      /\ running' = FALSE /\ o \subseteq odd'
      /\ inTmp' = inTmp \/ (inTmp' = onRoot /\ odd' = o \cup Dropped)
  BY DEF Interrupted
<1> QED
  BY <1>4, <1>5, <1>6

(* What is neither a command nor a misread check leaves the key, the slots *)
(* and the packages alone.                                                 *)
NotRun ==
    \/ StepDone \/ SavingFails \/ Warn \/ HardFailure \/ Kill \/ CutInCopy
    \/ Resume \/ Over

LEMMA HarmlessInterrupted ==
    ASSUME NEW how, NEW s, Harmless(sys, s), NEW o, Interrupted(how, s, o)
    PROVE  Harmless(sys, sys')
<1>1. IsTarget(s)
  BY DEF Harmless
<1>2. IsTarget(sys') /\ \A p \in Parts \ {"swapOn"} : sys'[p] = s[p]
  BY <1>1, InterruptedTarget
<1> QED
  BY <1>2, PartsAre DEF Harmless

LEMMA NotRunHarmless == IsTarget(sys) /\ NotRun => Harmless(sys, sys')
<1> SUFFICES ASSUME IsTarget(sys), NotRun
             PROVE  Harmless(sys, sys')
  OBVIOUS
<1>0. Harmless(sys, sys)
  BY DEF Harmless
<1>1. \A b : Harmless(sys, [ sys EXCEPT !.swapOn = b ])
  BY HarmlessPart, PartsAre
<1>2. CASE StepDone \/ SavingFails \/ Warn \/ Over
  BY <1>0, <1>2 DEF StepDone, SavingFails, Warn, Over, vars
<1>3. CASE HardFailure
  BY <1>0, <1>3, HarmlessInterrupted DEF HardFailure
<1>4. CASE Kill
  BY <1>0, <1>4, HarmlessInterrupted DEF Kill
<1>5. CASE CutInCopy
  BY <1>5, HarmlessGrub, HarmlessInterrupted DEF CutInCopy
<1>6. CASE Resume
  BY <1>1, <1>6 DEF Resume
<1> QED
  BY <1>2, <1>3, <1>4, <1>5, <1>6 DEF NotRun

LEMMA SlotNotRun == SlotInv /\ NotRun => SlotInv'
<1> SUFFICES ASSUME SlotInv, NotRun
             PROVE  SlotInv'
  OBVIOUS
<1>0. op \in Nat \ {0} /\ Harmless(sys, sys') /\ IsTarget(sys)
  BY NotRunHarmless DEF SlotInv
<1>1. CASE StepDone
  BY <1>0, <1>1, Elsewhere, FirstCommand DEF StepDone
<1>2. CASE SavingFails
  BY <1>2 DEF SavingFails, SlotInv, Command, Key
<1>3. CASE Warn
  <2>1. /\ Command \notin KeyOps /\ op' = op + 1 /\ misread' = misread
        /\ UNCHANGED << cfg, step, running >>
    BY <1>3 DEF Warn, WarnOnly, KeyOps
  <2> QED
    BY <1>0, <2>1, GoesOn
<1>4. CASE HardFailure \/ Kill \/ CutInCopy
  <2>1. running' = FALSE /\ op' = op /\ misread' = misread
    BY <1>4 DEF HardFailure, Kill, CutInCopy, Interrupted
  <2>2. Command' = "none"
    BY <2>1 DEF Command
  <2> QED
    BY <1>0, <2>1, <2>2, Elsewhere
<1>5. CASE Resume
  BY <1>0, <1>5, Elsewhere, FirstCommand DEF Resume
<1>6. CASE Over
  BY <1>6 DEF Over, vars, SlotInv, Command, Key
<1> QED
  BY <1>1, <1>2, <1>3, <1>4, <1>5, <1>6 DEF NotRun

LEMMA SlotStep == SlotInv /\ [Next]_vars => SlotInv'
<1>1. SlotInv /\ UNCHANGED vars => SlotInv'
  BY DEF vars, SlotInv, Command, Key
<1> QED
  BY <1>1, SlotRun, SlotMisread, SlotNotRun DEF Next, NotRun

LEMMA SlotBound == SlotInv => KeyfileSlotsBounded
<1> SUFFICES ASSUME SlotInv
             PROVE  KeyfileSlotsBounded
  OBVIOUS
<1>1. /\ Cardinality(sys.slots) \in Nat /\ misread \in Nat
      /\ Cardinality(sys.slots \ {sys.keyfile}) \in Nat
      /\ Cardinality(sys.slots) <= Cardinality(sys.slots \ {sys.keyfile}) + 1
  <2>1. misread \in Nat /\ sys.made \in Nat /\ sys.slots \subseteq 1..sys.made
    BY DEF SlotInv
  <2> QED
    BY <2>1, SlotsFinite
<1> QED
  BY <1>1 DEF SlotInv, KeyfileSlotsBounded

(* However often the keyfile step (AddLuksKeyfile) is cut short, fails or   *)
(* runs again, it takes one key slot beside the passphrase, and one more    *)
(* for each failed check of a keyfile that was enrolled.                    *)
THEOREM KeyfileSlotBounded == Spec => []KeyfileSlotsBounded
<1>1. Spec => []SlotInv
  BY SlotInit, SlotStep, PTL DEF Spec
<1> QED
  BY <1>1, SlotBound, PTL

-----------------------------------------------------------------------------
(* What is excluded. *)

(* No command adds a package that is excluded when it runs. *)
LEMMA NoneAdded ==
    SlotInv /\ [Next]_vars => (sys'.packages \ sys.packages) \cap excluded = {}
<1> SUFFICES ASSUME SlotInv, [Next]_vars
             PROVE  (sys'.packages \ sys.packages) \cap excluded = {}
  OBVIOUS
<1>0. IsTarget(sys)
  BY DEF SlotInv
<1>1. CASE Run
  <2>1. sys' = Effect(Command, sys, cfg)
    BY <1>1 DEF Run
  <2>2. CASE Command \in KeyOps
    BY <1>0, <2>1, <2>2, KeyEffects DEF KeyOps
  <2>3. CASE Command \notin KeyOps
    BY <1>0, <2>1, <2>3, HarmlessEffect DEF Harmless
  <2> QED
    BY <2>2, <2>3
<1>2. CASE NotRun
  BY <1>0, <1>2, NotRunHarmless DEF Harmless
<1>3. CASE MisreadCheck
  <2>1. sys' = [ sys EXCEPT !.keyfile = 0 ]
    BY <1>3 DEF MisreadCheck
  <2> QED
    BY <1>0, <2>1, OnePart, PartsAre
<1>4. CASE UNCHANGED vars
  BY <1>4 DEF vars
<1> QED
  BY <1>1, <1>2, <1>3, <1>4 DEF Next, NotRun

(* The copy the next resume reads has all that was excluded, or a warning  *)
(* or the loss of /tmp has been noted.                                     *)
LEMMA ExcludesInit == Init => ExcludesKept
BY DEF Init, ExcludesKept

LEMMA ExcludesStep == ExcludesKept /\ [Next]_vars => ExcludesKept'
<1> SUFFICES ASSUME ExcludesKept, [Next]_vars
             PROVE  ExcludesKept'
  OBVIOUS
<1>0. "excludes" \notin Dropped => inTmp \subseteq onRoot
  BY DEF Dropped
<1>1. ASSUME excluded' = excluded, odd \subseteq odd',
             inTmp' = inTmp \/ (inTmp' = onRoot /\ Dropped \subseteq odd')
      PROVE  ExcludesKept'
  BY <1>0, <1>1 DEF ExcludesKept
<1>2. CASE Run
  <2>1. Command = "remove-tmp" => Dropped \subseteq odd'
    BY <1>2 DEF Run
  <2> QED
    BY <1>1, <1>2, <2>1 DEF Run
<1>3. CASE StepDone
  BY <1>1, <1>3 DEF StepDone, ExcludesKept
<1>4. CASE SavingFails \/ Warn \/ MisreadCheck \/ Over \/ UNCHANGED vars
  BY <1>1, <1>4 DEF SavingFails, Warn, MisreadCheck, Over, vars, copies
<1>5. ASSUME NEW how, NEW s, NEW o, odd \subseteq o, Interrupted(how, s, o)
      PROVE  ExcludesKept'
  BY <1>1, <1>5 DEF Interrupted
<1>6. CASE HardFailure \/ Kill \/ CutInCopy
  BY <1>5, <1>6 DEF HardFailure, Kill, CutInCopy
<1>7. CASE Resume
  <2>1. PICK place \in {"none", "tmp", "root"} :
          /\ inTmp' = IF place = "none" THEN inTmp ELSE excluded'
          /\ place = "none" => "excludes" \in odd'
    BY <1>7 DEF Resume
  <2> QED
    BY <2>1 DEF ExcludesKept
<1> QED
  BY <1>2, <1>3, <1>4, <1>6, <1>7 DEF Next

(* What was excluded once is on the list of every later run.               *)
LEMMA ExcludesGrow ==
    ExcludesKept /\ [Next]_vars => excluded \subseteq excluded' \/ "excludes" \in odd
<1> SUFFICES ASSUME ExcludesKept, [Next]_vars
             PROVE  excluded \subseteq excluded' \/ "excludes" \in odd
  OBVIOUS
<1>1. CASE Resume
  BY <1>1 DEF Resume, MergeExcludes, ExcludesKept
<1>2. CASE ~ Resume
  BY <1>2 DEF Next, Run, StepDone, SavingFails, Warn, MisreadCheck, HardFailure, Kill, CutInCopy,
    Interrupted, Over, vars
<1> QED
  BY <1>1, <1>2

(* A package given to --exclude, at the first launch or at a resume, is     *)
(* excluded from every later run and installed by none, unless a save of    *)
(* the merged list failed or the only copy that had it was lost.            *)
THEOREM ExcludedNotInstalled == Spec => ExcludedStayOut
<1>1. Spec => []SlotInv
  BY SlotInit, SlotStep, PTL DEF Spec
<1>2. Spec => []ExcludesKept
  BY ExcludesInit, ExcludesStep, PTL DEF Spec
<1>3. SlotInv /\ ExcludesKept /\ [Next]_vars =>
        [ /\ (sys'.packages \ sys.packages) \cap excluded = {}
          /\ excluded \subseteq excluded' \/ "excludes" \in odd ]_vars
  BY NoneAdded, ExcludesGrow
<1> QED
  BY <1>1, <1>2, <1>3, PTL DEF Spec, ExcludedStayOut

-----------------------------------------------------------------------------
(* The lists of commands, spelled out. *)

(* The commands of the steps whose list depends on the configuration. *)
LEMMA SwapTable ==
    ASSUME NEW c, NEW u, u = SwapOps(c)
    PROVE  /\ Len(u) = IF c.swap = "suspend" THEN 4 ELSE 3
           /\ u[1] = "remove-swapfile" /\ u[2] = "make-swapfile" /\ u[3] = "swapon"
           /\ c.swap = "suspend" => u[4] = "resume-conf"
<1>1. CASE c.swap = "suspend"
  BY <1>1 DEF SwapOps
<1>2. CASE c.swap # "suspend"
  BY <1>2 DEF SwapOps
<1> QED
  BY <1>1, <1>2

LEMMA InitramfsTable ==
    ASSUME NEW c, NEW u, u = InitramfsOps(c)
    PROVE  /\ c.encrypt => /\ Len(u) = 3 /\ u[1] = "encryption-conf"
                           /\ u[2] = "dracut" /\ u[3] = "dracut-fallback"
           /\ ~ c.encrypt => Len(u) = 2 /\ u[1] = "dracut" /\ u[2] = "dracut-fallback"
<1>1. CASE c.encrypt
  BY <1>1 DEF InitramfsOps
<1>2. CASE ~ c.encrypt
  BY <1>2 DEF InitramfsOps
<1> QED
  BY <1>1, <1>2

LEMMA GrubTable ==
    ASSUME NEW c, NEW u, u = GrubOps(c)
    PROVE  /\ Len(u) = IF c.encrypt THEN 6 ELSE 5
           /\ u[1] = "grub-package" /\ u[2] = "backup" /\ u[3] = "base-params"
           /\ c.encrypt => u[4] = "crypt-params" /\ u[5] = "grub-install"
           /\ ~ c.encrypt => u[4] = "grub-install"
           /\ u[Len(u)] = "grub-mkconfig"
<1>1. CASE c.encrypt
  BY <1>1 DEF GrubOps
<1>2. CASE ~ c.encrypt
  BY <1>2 DEF GrubOps
<1> QED
  BY <1>1, <1>2

LEMMA DriverTable ==
    ASSUME NEW c, NEW u, u = DriverOps(c)
    PROVE  /\ Len(u) = IF c.bootloader # "systemd-boot" THEN 3 ELSE 2
           /\ u[1] = "driver-package" /\ u[2] = "driver-dracut"
           /\ c.bootloader # "systemd-boot" => u[3] = "driver-mkconfig"
<1>1. CASE c.bootloader = "systemd-boot"
  BY <1>1 DEF DriverOps
<1>2. CASE c.bootloader # "systemd-boot"
  BY <1>2 DEF DriverOps
<1> QED
  BY <1>1, <1>2

-----------------------------------------------------------------------------
(* What a command does to the target. *)

(* t is s but for the parts in Q. *)
Touches(s, t, Q) == IsTarget(t) /\ \A p \in Parts \ Q : t[p] = s[p]

LEMMA TouchesOne ==
    ASSUME NEW s, IsTarget(s), NEW p \in Parts, NEW v
    PROVE  Touches(s, [ s EXCEPT ![p] = v ], {p}) /\ [ s EXCEPT ![p] = v ][p] = v
BY OnePart DEF Touches

(* The number of the next swap file or keyfile. *)
NextMade(s) == s.made + 1

(* What each command does. *)
LEMMA RemoveSwapfile ==
    ASSUME NEW s, IsTarget(s), NEW c, NEW k, k = "remove-swapfile", NEW t, t = Effect(k, s, c)
    PROVE  Touches(s, t, {"swapfile", "swapOn"}) /\ t.swapfile = 0 /\ t.swapOn = FALSE
<1> DEFINE u == [ s EXCEPT !.swapfile = 0 ]
<1>1. t = [ u EXCEPT !.swapOn = FALSE ]
  BY FilesAre DEF Effect
<1>2. Touches(s, u, {"swapfile"}) /\ u.swapfile = 0
  BY TouchesOne, PartsAre
<1> HIDE DEF u
<1>3. IsTarget(u)
  BY <1>2 DEF Touches
<1>4. Touches(u, t, {"swapOn"}) /\ t.swapOn = FALSE
  BY <1>1, <1>3, TouchesOne, PartsAre
<1> QED
  BY <1>2, <1>4, PartsAre DEF Touches

LEMMA MakeSwapfile ==
    ASSUME NEW s, IsTarget(s), NEW c, NEW k, k = "make-swapfile", NEW t, t = Effect(k, s, c)
    PROVE  Touches(s, t, {"swapfile", "made"}) /\ t.swapfile = NextMade(s) /\ t.made = NextMade(s)
<1> DEFINE u == [ s EXCEPT !.swapfile = NextMade(s) ]
<1>1. t = [ u EXCEPT !.made = NextMade(s) ]
  BY FilesAre DEF Effect, NextMade
<1>2. Touches(s, u, {"swapfile"}) /\ u.swapfile = NextMade(s)
  BY TouchesOne, PartsAre
<1> HIDE DEF u
<1>3. IsTarget(u)
  BY <1>2 DEF Touches
<1>4. Touches(u, t, {"made"}) /\ t.made = NextMade(s)
  BY <1>1, <1>3, TouchesOne, PartsAre
<1> QED
  BY <1>2, <1>4, PartsAre DEF Touches

LEMMA SwapOn ==
    ASSUME NEW s, IsTarget(s), NEW c, NEW k, k = "swapon", NEW t, t = Effect(k, s, c)
    PROVE  Touches(s, t, {"swapOn"}) /\ t.swapOn = TRUE
<1>1. t = [ s EXCEPT !.swapOn = TRUE ]
  BY FilesAre DEF Effect
<1> QED
  BY <1>1, TouchesOne, PartsAre

LEMMA ResumeConf ==
    ASSUME NEW s, IsTarget(s), NEW c, NEW k, k = "resume-conf", NEW t, t = Effect(k, s, c)
    PROVE  Touches(s, t, {"resumeConf"}) /\ t.resumeConf = s.swapfile
<1>1. t = [ s EXCEPT !.resumeConf = s.swapfile ]
  BY FilesAre DEF Effect, SetupResume
<1> QED
  BY <1>1, TouchesOne, PartsAre

LEMMA Genfstab ==
    ASSUME NEW s, IsTarget(s), NEW c, NEW k, k = "genfstab", NEW t, t = Effect(k, s, c)
    PROVE  Touches(s, t, {"fstab"}) /\ t.fstab = IF s.swapOn THEN "swap" ELSE "plain"
<1>1. t = [ s EXCEPT !.fstab = IF s.swapOn THEN "swap" ELSE "plain" ]
  BY FilesAre DEF Effect, GenFstab
<1> QED
  BY <1>1, TouchesOne, PartsAre

LEMMA CheckKeyfile ==
    ASSUME NEW s, IsTarget(s), NEW c, NEW k, k = "check-keyfile", NEW t, t = Effect(k, s, c)
    PROVE  /\ Touches(s, t, {"keyfile"})
           /\ t.keyfile = IF s.keyfile \in s.slots THEN s.keyfile ELSE 0
<1>1. CASE s.keyfile \in s.slots
  <2>1. t = s
    BY <1>1, FilesAre DEF Effect
  <2> QED
    BY <1>1, <2>1 DEF Touches
<1>2. CASE s.keyfile \notin s.slots
  <2>1. t = [ s EXCEPT !.keyfile = 0 ]
    BY <1>2, FilesAre DEF Effect
  <2> QED
    BY <1>2, <2>1, TouchesOne, PartsAre
<1> QED
  BY <1>1, <1>2

LEMMA WriteKeyfile ==
    ASSUME NEW s, IsTarget(s), NEW c, NEW k, k = "write-keyfile", NEW t, t = Effect(k, s, c)
    PROVE  Touches(s, t, {"keyfile", "made"}) /\ t.keyfile = NextMade(s) /\ t.made = NextMade(s)
<1> DEFINE u == [ s EXCEPT !.keyfile = NextMade(s) ]
<1>1. t = [ u EXCEPT !.made = NextMade(s) ]
  BY FilesAre DEF Effect, NextMade
<1>2. Touches(s, u, {"keyfile"}) /\ u.keyfile = NextMade(s)
  BY TouchesOne, PartsAre
<1> HIDE DEF u
<1>3. IsTarget(u)
  BY <1>2 DEF Touches
<1>4. Touches(u, t, {"made"}) /\ t.made = NextMade(s)
  BY <1>1, <1>3, TouchesOne, PartsAre
<1> QED
  BY <1>2, <1>4, PartsAre DEF Touches

LEMMA AddKey ==
    ASSUME NEW s, IsTarget(s), NEW c, NEW k, k = "add-key", NEW t, t = Effect(k, s, c)
    PROVE  Touches(s, t, {"slots"}) /\ t.slots = s.slots \cup {s.keyfile}
<1>1. t = [ s EXCEPT !.slots = s.slots \cup {s.keyfile} ]
  BY FilesAre DEF Effect
<1> QED
  BY <1>1, TouchesOne, PartsAre

LEMMA EncryptionConf ==
    ASSUME NEW s, IsTarget(s), NEW c, NEW k, k = "encryption-conf", NEW t, t = Effect(k, s, c)
    PROVE  Touches(s, t, {"keyConf"}) /\ t.keyConf = (c.bootloader # "systemd-boot")
<1>1. t = [ s EXCEPT !.keyConf = c.bootloader # "systemd-boot" ]
  BY FilesAre DEF Effect
<1> QED
  BY <1>1, TouchesOne, PartsAre

LEMMA DracutImage ==
    ASSUME NEW s, IsTarget(s), NEW c, NEW k, k \in {"dracut", "driver-dracut"}, NEW t, t = Effect(k, s, c)
    PROVE  Touches(s, t, {"image"}) /\ t.image = Dracut(s)
<1>1. t = [ s EXCEPT !.image = Dracut(s) ]
  BY FilesAre DEF Effect
<1> QED
  BY <1>1, TouchesOne, PartsAre

LEMMA DracutFallback ==
    ASSUME NEW s, IsTarget(s), NEW c, NEW k, k = "dracut-fallback", NEW t, t = Effect(k, s, c)
    PROVE  Touches(s, t, {"fallback"}) /\ t.fallback = Dracut(s)
<1>1. t = [ s EXCEPT !.fallback = Dracut(s) ]
  BY FilesAre DEF Effect
<1> QED
  BY <1>1, TouchesOne, PartsAre

LEMMA CopyInitramfs ==
    ASSUME NEW s, IsTarget(s), NEW c, NEW k, k = "copy-initramfs", NEW t, t = Effect(k, s, c)
    PROVE  Touches(s, t, {"esp"}) /\ t.esp = s.image
<1>1. t = [ s EXCEPT !.esp = s.image ]
  BY FilesAre DEF Effect
<1> QED
  BY <1>1, TouchesOne, PartsAre

LEMMA WriteCrypttab ==
    ASSUME NEW s, IsTarget(s), NEW c, NEW k, k = "crypttab", NEW t, t = Effect(k, s, c)
    PROVE  Touches(s, t, {"crypttab"}) /\ t.crypttab = CrypttabPass(c)
<1>1. t = [ s EXCEPT !.crypttab = CrypttabPass(c) ]
  BY FilesAre DEF Effect
<1> QED
  BY <1>1, TouchesOne, PartsAre

LEMMA Passwd ==
    ASSUME NEW s, IsTarget(s), NEW c, NEW k, k = "passwd", NEW t, t = Effect(k, s, c)
    PROVE  Touches(s, t, {"password"}) /\ t.password = s.user
<1>1. t = [ s EXCEPT !.password = s.user ]
  BY FilesAre DEF Effect
<1> QED
  BY <1>1, TouchesOne, PartsAre

LEMMA Useradd ==
    ASSUME NEW s, IsTarget(s), NEW c, NEW k, k = "useradd", NEW t, t = Effect(k, s, c)
    PROVE  Touches(s, t, {"user"}) /\ t.user
<1>1. CASE s.user
  <2>1. t = s
    BY <1>1, FilesAre DEF Effect, UserAdd
  <2> QED
    BY <1>1, <2>1 DEF Touches
<1>2. CASE ~ s.user
  <2>1. t = [ s EXCEPT !.user = TRUE ]
    BY <1>2, FilesAre DEF Effect, UserAdd
  <2> QED
    BY <2>1, TouchesOne, PartsAre
<1> QED
  BY <1>1, <1>2

LEMMA RemoveDisk ==
    ASSUME NEW s, IsTarget(s), NEW c, NEW k, k = "remove-disk", NEW t, t = Effect(k, s, c)
    PROVE  Touches(s, t, {"copy"}) /\ t.copy = FALSE
<1>1. t = [ s EXCEPT !.copy = FALSE ]
  BY FilesAre DEF Effect
<1> QED
  BY <1>1, TouchesOne, PartsAre

LEMMA WriteFile ==
    ASSUME NEW s, IsTarget(s), NEW c, NEW k, k \in Files, NEW t, t = Effect(k, s, c)
    PROVE  Touches(s, t, {"files"}) /\ t.files = s.files \cup {k}
<1>1. t = [ s EXCEPT !.files = s.files \cup {k} ]
  BY FilesAre DEF Effect
<1> QED
  BY <1>1, TouchesOne, PartsAre

LEMMA Backup ==
    ASSUME NEW s, IsTarget(s), NEW c, NEW k, k = "backup", NEW t, t = Effect(k, s, c)
    PROVE  IF s.backup.exists THEN Touches(s, t, {"grub"}) /\ t.grub = s.backup
           ELSE Touches(s, t, {"backup"}) /\ t.backup = s.grub
<1>1. CASE s.backup.exists
  <2>1. t = [ s EXCEPT !.grub = s.backup ]
    BY <1>1, FilesAre DEF Effect, RestoreOrBackup
  <2> QED
    BY <1>1, <2>1, TouchesOne, PartsAre
<1>2. CASE ~ s.backup.exists
  <2>1. t = [ s EXCEPT !.backup = s.grub ]
    BY <1>2, FilesAre DEF Effect, RestoreOrBackup
  <2> QED
    BY <1>2, <2>1, TouchesOne, PartsAre
<1> QED
  BY <1>1, <1>2

LEMMA GrubMkconfig ==
    ASSUME NEW s, IsTarget(s), NEW c, NEW k, k \in {"grub-mkconfig", "driver-mkconfig"}, NEW t, t = Effect(k, s, c)
    PROVE  Touches(s, t, {"grubCfg"}) /\ t.grubCfg = s.grub
<1>1. t = [ s EXCEPT !.grubCfg = s.grub ]
  BY FilesAre DEF Effect
<1> QED
  BY <1>1, TouchesOne, PartsAre

LEMMA RemoveBackup ==
    ASSUME NEW s, IsTarget(s), NEW c, NEW k, k = "remove-backup", NEW t, t = Effect(k, s, c)
    PROVE  Touches(s, t, {"backup"}) /\ t.backup = NoText
<1>1. t = [ s EXCEPT !.backup = NoText ]
  BY FilesAre DEF Effect
<1> QED
  BY <1>1, TouchesOne, PartsAre

LEMMA BaseParams ==
    ASSUME NEW s, IsTarget(s), NEW c, NEW k, k = "base-params", NEW t, t = Effect(k, s, c)
    PROVE  /\ Touches(s, t, {"grub"})
           /\ t.grub = IF s.grub.whole THEN [ s.grub EXCEPT !.base = @ + 1 ] ELSE s.grub
<1>1. CASE s.grub.whole
  <2>1. t = [ s EXCEPT !.grub = [ s.grub EXCEPT !.base = s.grub.base + 1 ] ]
    BY <1>1, FilesAre DEF Effect, Appended
  <2> QED
    BY <1>1, <2>1, TouchesOne, PartsAre
<1>2. CASE ~ s.grub.whole
  <2>1. t = s
    BY <1>2, FilesAre DEF Effect, Appended
  <2> QED
    BY <1>2, <2>1 DEF Touches
<1> QED
  BY <1>1, <1>2

LEMMA CryptParams ==
    ASSUME NEW s, IsTarget(s), NEW c, NEW k, k = "crypt-params", NEW t, t = Effect(k, s, c)
    PROVE  /\ Touches(s, t, {"grub"})
           /\ t.grub = IF s.grub.whole THEN [ s.grub EXCEPT !.crypt = @ + 1 ] ELSE s.grub
<1>1. CASE s.grub.whole
  <2>1. t = [ s EXCEPT !.grub = [ s.grub EXCEPT !.crypt = s.grub.crypt + 1 ] ]
    BY <1>1, FilesAre DEF Effect, Appended
  <2> QED
    BY <1>1, <2>1, TouchesOne, PartsAre
<1>2. CASE ~ s.grub.whole
  <2>1. t = s
    BY <1>2, FilesAre DEF Effect, Appended
  <2> QED
    BY <1>2, <2>1 DEF Touches
<1> QED
  BY <1>1, <1>2

(* Only the drivers' own command installs the drivers. *)
LEMMA AddedPackages ==
    ASSUME NEW s, IsTarget(s), NEW pkgs
    PROVE  /\ Touches(s, AddPackages(s, pkgs), {"packages"})
           /\ "nvidia" \notin pkgs =>
                (Driver \subseteq AddPackages(s, pkgs).packages <=> Driver \subseteq s.packages)
<1>1. AddPackages(s, pkgs) = [ s EXCEPT !.packages = s.packages \cup (pkgs \ excluded) ]
  BY DEF AddPackages, WithoutExcluded
<1>2. /\ Touches(s, AddPackages(s, pkgs), {"packages"})
      /\ AddPackages(s, pkgs).packages = s.packages \cup (pkgs \ excluded)
  BY <1>1, TouchesOne, PartsAre
<1> QED
  BY <1>2 DEF Driver

LEMMA OtherPackages ==
    ASSUME NEW s, IsTarget(s), NEW c, NEW k, k \in {"pacstrap", "desktop-packages", "extra-packages"}, NEW t, t = Effect(k, s, c)
    PROVE  Touches(s, t, {"packages"}) /\ (Driver \subseteq t.packages <=> Driver \subseteq s.packages)
<1>1. t \in { AddPackages(s, Base(c)), AddPackages(s, CommonDE), AddPackages(s, Extra) }
  BY FilesAre DEF Effect
<1>2. "nvidia" \notin Base(c) \cup CommonDE \cup Extra
  BY DEF Base, CommonDE, Extra
<1> QED
  BY <1>1, <1>2, AddedPackages

LEMMA DriverPackage ==
    ASSUME NEW s, IsTarget(s), NEW c, NEW k, k = "driver-package", NEW t, t = Effect(k, s, c)
    PROVE  Touches(s, t, {"packages"})
<1>1. t = AddPackages(s, Driver)
  BY FilesAre DEF Effect
<1> QED
  BY <1>1, AddedPackages

LEMMA GrubPackageIs ==
    ASSUME NEW s, IsTarget(s), NEW c, NEW k, k = "grub-package", NEW t, t = Effect(k, s, c)
    PROVE  /\ Touches(s, t, {"packages", "grub"})
           /\ t.grub = s.grub \/ (~ s.grub.exists /\ t.grub = Pristine)
           /\ Driver \subseteq t.packages <=> Driver \subseteq s.packages
<1> DEFINE u == AddPackages(s, {"grub", "efibootmgr"})
<1>1. t = u \/ (~ s.grub.exists /\ t = [ u EXCEPT !.grub = Pristine ])
  BY FilesAre DEF Effect, GrubPackage
<1>2. /\ Touches(s, u, {"packages"})
      /\ Driver \subseteq u.packages <=> Driver \subseteq s.packages
  BY AddedPackages
<1> HIDE DEF u
<1>3. IsTarget(u) /\ u.grub = s.grub
  BY <1>2, PartsAre DEF Touches
<1>4. CASE t = u
  BY <1>2, <1>3, <1>4, PartsAre DEF Touches
<1>5. CASE ~ s.grub.exists /\ t = [ u EXCEPT !.grub = Pristine ]
  <2>1. Touches(u, t, {"grub"}) /\ t.grub = Pristine
    BY <1>1, <1>3, <1>5, TouchesOne, PartsAre
  <2> QED
    BY <1>2, <1>5, <2>1, PartsAre DEF Touches
<1> QED
  BY <1>1, <1>4, <1>5

(* A command that is none of these leaves the target alone. *)
LEMMA OtherEffects ==
    ASSUME NEW s, NEW c, NEW k, k \notin Files,
           k \notin { "remove-swapfile", "make-swapfile", "swapon", "resume-conf", "genfstab",
                      "check-keyfile", "write-keyfile", "add-key", "encryption-conf",
                      "dracut", "driver-dracut", "dracut-fallback", "copy-initramfs",
                      "crypttab", "passwd", "useradd", "remove-disk", "backup",
                      "grub-mkconfig", "driver-mkconfig", "remove-backup", "base-params",
                      "crypt-params", "pacstrap", "desktop-packages", "extra-packages",
                      "driver-package", "grub-package" }
    PROVE  Effect(k, s, c) = s
BY DEF Effect

(* Which commands write to which part of the target. *)
Writers(p) ==
    CASE p = "swapfile"   -> {"remove-swapfile", "make-swapfile"}
      [] p = "swapOn"     -> {"remove-swapfile", "swapon"}
      [] p = "resumeConf" -> {"resume-conf"}
      [] p = "made"       -> {"make-swapfile", "write-keyfile"}
      [] p = "keyfile"    -> {"check-keyfile", "write-keyfile"}
      [] p = "slots"      -> {"add-key"}
      [] p = "keyConf"    -> {"encryption-conf"}
      [] p = "image"      -> {"dracut", "driver-dracut"}
      [] p = "fallback"   -> {"dracut-fallback"}
      [] p = "esp"        -> {"copy-initramfs"}
      [] p = "fstab"      -> {"genfstab"}
      [] p = "crypttab"   -> {"crypttab"}
      [] p = "grub"       -> {"grub-package", "backup", "base-params", "crypt-params"}
      [] p = "backup"     -> {"backup", "remove-backup"}
      [] p = "grubCfg"    -> {"grub-mkconfig", "driver-mkconfig"}
      [] p = "copy"       -> {"remove-disk"}
      [] p = "files"      -> Files
      [] p = "packages"   -> {"pacstrap", "desktop-packages", "extra-packages",
                              "driver-package", "grub-package"}
      [] p = "user"       -> {"useradd"}
      [] p = "password"   -> {"passwd"}

LEMMA WritersAre ==
    /\ Writers("swapfile") = {"remove-swapfile", "make-swapfile"}
    /\ Writers("swapOn") = {"remove-swapfile", "swapon"}
    /\ Writers("resumeConf") = {"resume-conf"}
    /\ Writers("made") = {"make-swapfile", "write-keyfile"}
    /\ Writers("keyfile") = {"check-keyfile", "write-keyfile"}
    /\ Writers("slots") = {"add-key"}
    /\ Writers("keyConf") = {"encryption-conf"}
    /\ Writers("image") = {"dracut", "driver-dracut"}
    /\ Writers("fallback") = {"dracut-fallback"}
    /\ Writers("esp") = {"copy-initramfs"}
    /\ Writers("fstab") = {"genfstab"}
    /\ Writers("crypttab") = {"crypttab"}
    /\ Writers("grub") = {"grub-package", "backup", "base-params", "crypt-params"}
    /\ Writers("backup") = {"backup", "remove-backup"}
    /\ Writers("grubCfg") = {"grub-mkconfig", "driver-mkconfig"}
    /\ Writers("copy") = {"remove-disk"}
    /\ Writers("files") = Files
    /\ Writers("packages") = {"pacstrap", "desktop-packages", "extra-packages",
                              "driver-package", "grub-package"}
    /\ Writers("user") = {"useradd"}
    /\ Writers("password") = {"passwd"}
BY DEF Writers

(* Nothing else is changed by a command. *)
Framed(s, t, k) == IsTarget(t) /\ \A p \in Parts : k \notin Writers(p) => t[p] = s[p]

LEMMA FramedBy ==
    ASSUME NEW s, NEW t, NEW k, NEW Q, Touches(s, t, Q), \A p \in Q : k \in Writers(p)
    PROVE  Framed(s, t, k)
BY DEF Touches, Framed

LEMMA Frame ==
    ASSUME NEW s, IsTarget(s), NEW c, NEW k, NEW t, t = Effect(k, s, c)
    PROVE  Framed(s, t, k)
<1>1. CASE k = "remove-swapfile"
  <2>1. Touches(s, t, {"swapfile", "swapOn"})
    BY <1>1, RemoveSwapfile
  <2> QED
    BY <1>1, <2>1, FramedBy, WritersAre
<1>2. CASE k = "make-swapfile"
  <2>1. Touches(s, t, {"swapfile", "made"})
    BY <1>2, MakeSwapfile
  <2> QED
    BY <1>2, <2>1, FramedBy, WritersAre
<1>3. CASE k = "swapon"
  <2>1. Touches(s, t, {"swapOn"})
    BY <1>3, SwapOn
  <2> QED
    BY <1>3, <2>1, FramedBy, WritersAre
<1>4. CASE k = "resume-conf"
  <2>1. Touches(s, t, {"resumeConf"})
    BY <1>4, ResumeConf
  <2> QED
    BY <1>4, <2>1, FramedBy, WritersAre
<1>5. CASE k = "genfstab"
  <2>1. Touches(s, t, {"fstab"})
    BY <1>5, Genfstab
  <2> QED
    BY <1>5, <2>1, FramedBy, WritersAre
<1>6. CASE k = "check-keyfile"
  <2>1. Touches(s, t, {"keyfile"})
    BY <1>6, CheckKeyfile
  <2> QED
    BY <1>6, <2>1, FramedBy, WritersAre
<1>7. CASE k = "write-keyfile"
  <2>1. Touches(s, t, {"keyfile", "made"})
    BY <1>7, WriteKeyfile
  <2> QED
    BY <1>7, <2>1, FramedBy, WritersAre
<1>8. CASE k = "add-key"
  <2>1. Touches(s, t, {"slots"})
    BY <1>8, AddKey
  <2> QED
    BY <1>8, <2>1, FramedBy, WritersAre
<1>9. CASE k = "encryption-conf"
  <2>1. Touches(s, t, {"keyConf"})
    BY <1>9, EncryptionConf
  <2> QED
    BY <1>9, <2>1, FramedBy, WritersAre
<1>10. CASE k \in {"dracut", "driver-dracut"}
  <2>1. Touches(s, t, {"image"})
    BY <1>10, DracutImage
  <2> QED
    BY <1>10, <2>1, FramedBy, WritersAre
<1>11. CASE k = "dracut-fallback"
  <2>1. Touches(s, t, {"fallback"})
    BY <1>11, DracutFallback
  <2> QED
    BY <1>11, <2>1, FramedBy, WritersAre
<1>12. CASE k = "copy-initramfs"
  <2>1. Touches(s, t, {"esp"})
    BY <1>12, CopyInitramfs
  <2> QED
    BY <1>12, <2>1, FramedBy, WritersAre
<1>13. CASE k = "crypttab"
  <2>1. Touches(s, t, {"crypttab"})
    BY <1>13, WriteCrypttab
  <2> QED
    BY <1>13, <2>1, FramedBy, WritersAre
<1>14. CASE k = "passwd"
  <2>1. Touches(s, t, {"password"})
    BY <1>14, Passwd
  <2> QED
    BY <1>14, <2>1, FramedBy, WritersAre
<1>15. CASE k = "useradd"
  <2>1. Touches(s, t, {"user"})
    BY <1>15, Useradd
  <2> QED
    BY <1>15, <2>1, FramedBy, WritersAre
<1>16. CASE k = "remove-disk"
  <2>1. Touches(s, t, {"copy"})
    BY <1>16, RemoveDisk
  <2> QED
    BY <1>16, <2>1, FramedBy, WritersAre
<1>17. CASE k \in Files
  <2>1. Touches(s, t, {"files"})
    BY <1>17, WriteFile
  <2> QED
    BY <1>17, <2>1, FramedBy, WritersAre
<1>18. CASE k = "backup"
  <2>1. Touches(s, t, {"grub"}) \/ Touches(s, t, {"backup"})
    BY <1>18, Backup
  <2> QED
    BY <1>18, <2>1, FramedBy, WritersAre
<1>19. CASE k \in {"grub-mkconfig", "driver-mkconfig"}
  <2>1. Touches(s, t, {"grubCfg"})
    BY <1>19, GrubMkconfig
  <2> QED
    BY <1>19, <2>1, FramedBy, WritersAre
<1>20. CASE k = "remove-backup"
  <2>1. Touches(s, t, {"backup"})
    BY <1>20, RemoveBackup
  <2> QED
    BY <1>20, <2>1, FramedBy, WritersAre
<1>21. CASE k \in {"base-params", "crypt-params"}
  <2>1. Touches(s, t, {"grub"})
    BY <1>21, BaseParams, CryptParams
  <2> QED
    BY <1>21, <2>1, FramedBy, WritersAre
<1>22. CASE k \in {"pacstrap", "desktop-packages", "extra-packages", "driver-package"}
  <2>1. Touches(s, t, {"packages"})
    BY <1>22, OtherPackages, DriverPackage
  <2> QED
    BY <1>22, <2>1, FramedBy, WritersAre
<1>23. CASE k = "grub-package"
  <2>1. Touches(s, t, {"packages", "grub"})
    BY <1>23, GrubPackageIs
  <2> QED
    BY <1>23, <2>1, FramedBy, WritersAre
<1>24. CASE k \notin Files /\
           k \notin { "remove-swapfile", "make-swapfile", "swapon", "resume-conf", "genfstab",
                      "check-keyfile", "write-keyfile", "add-key", "encryption-conf",
                      "dracut", "driver-dracut", "dracut-fallback", "copy-initramfs",
                      "crypttab", "passwd", "useradd", "remove-disk", "backup",
                      "grub-mkconfig", "driver-mkconfig", "remove-backup", "base-params",
                      "crypt-params", "pacstrap", "desktop-packages", "extra-packages",
                      "driver-package", "grub-package" }
  BY <1>24, OtherEffects DEF Framed
<1> QED
  BY <1>1, <1>2, <1>3, <1>4, <1>5, <1>6, <1>7, <1>8, <1>9, <1>10, <1>11, <1>12, <1>13, <1>14, <1>15, <1>16, <1>17, <1>18, <1>19, <1>20, <1>21, <1>22, <1>23, <1>24

(* Commands of the steps that no other step depends on, but for "pacstrap" *)
(* and the like none writes to a part the invariant is about.              *)
PlainOps ==
    Files \cup { "pacstrap", "desktop-packages", "extra-packages", "remove-stub",
                 "remove-backup", "remove-tmp", "remove-disk" }

LEMMA PlainSteps ==
    ASSUME NEW k, k \notin { "setup-swap", "luks-keyfile", "initramfs", "gen-fstab",
                             "write-crypttab", "bootloader", "install-drivers", "create-users" },
           NEW c
    PROVE  Ops(k, c) \in Seq(PlainOps)
<1>0. << >> \in Seq(PlainOps)
  OBVIOUS
<1>1. LiveFiles \in Seq(PlainOps) /\ NetworkFiles \in Seq(PlainOps)
      /\ RootPasswordFiles \in Seq(PlainOps)
  BY FilesAre DEF LiveFiles, NetworkFiles, RootPasswordFiles, PlainOps
<1>2. TimezoneFiles \in Seq(PlainOps) /\ HostnameFiles \in Seq(PlainOps)
  BY FilesAre DEF TimezoneFiles, HostnameFiles, PlainOps
<1>3. LocaleFiles \in Seq(PlainOps)
  BY FilesAre DEF LocaleFiles, PlainOps
<1>4. ServiceLinks \in Seq(PlainOps) /\ CleanupFiles \in Seq(PlainOps)
  BY FilesAre DEF ServiceLinks, CleanupFiles, PlainOps
<1>5. RemoveStateOps \in Seq(PlainOps)
  BY DEF RemoveStateOps, PlainOps
<1>6. /\ << "pacstrap" >> \in Seq(PlainOps) /\ << "desktop-packages" >> \in Seq(PlainOps)
      /\ << "extra-packages" >> \in Seq(PlainOps)
  BY DEF PlainOps
<1>7. Ops(k, c) \in { << >>, LiveFiles, TimezoneFiles, LocaleFiles, NetworkFiles, HostnameFiles,
                     RootPasswordFiles, ServiceLinks, CleanupFiles, RemoveStateOps,
                     << "pacstrap" >>, << "desktop-packages" >>, << "extra-packages" >> }
  BY DEF Ops
<1> QED
  BY <1>0, <1>1, <1>2, <1>3, <1>4, <1>5, <1>6, <1>7, Zenon

(* Command n of step k runs. *)
At(k, n) == running /\ step <= Len(Steps(cfg)) /\ Key = k /\ op = n

(* Where each command of the other steps has its place. *)
LEMMA Where ==
    ASSUME op \in Nat \ {0}
    PROVE  \/ Command \in PlainOps \cup {"none"}
           \/ Command = "remove-swapfile" /\ At("setup-swap", 1)
           \/ Command = "make-swapfile" /\ At("setup-swap", 2)
           \/ Command = "swapon" /\ At("setup-swap", 3)
           \/ Command = "resume-conf" /\ At("setup-swap", 4) /\ cfg.swap = "suspend"
           \/ Command = "check-keyfile" /\ At("luks-keyfile", 1)
           \/ Command = "write-keyfile" /\ At("luks-keyfile", 2)
           \/ Command = "add-key" /\ At("luks-keyfile", 3)
           \/ Command = "encryption-conf" /\ At("initramfs", 1) /\ cfg.encrypt
           \/ Command = "dracut" /\ At("initramfs", DracutAt)
           \/ Command = "dracut-fallback" /\ At("initramfs", DracutAt + 1)
           \/ Command = "genfstab" /\ At("gen-fstab", 1)
           \/ Command = "crypttab" /\ At("write-crypttab", 1)
           \/ HasGrub /\ Command = "grub-package" /\ At("bootloader", 1)
           \/ HasGrub /\ Command = "backup" /\ At("bootloader", 2)
           \/ HasGrub /\ Command = "base-params" /\ At("bootloader", 3)
           \/ HasGrub /\ Command = "crypt-params" /\ At("bootloader", 4) /\ cfg.encrypt
           \/ HasGrub /\ Command = "grub-install" /\ At("bootloader", IF cfg.encrypt THEN 5 ELSE 4)
           \/ HasGrub /\ Command = "grub-mkconfig" /\ At("bootloader", Len(GrubOps(cfg)))
           \/ ~ HasGrub /\ Command = "bootctl" /\ At("bootloader", 1)
           \/ ~ HasGrub /\ Command = "copy-kernel" /\ At("bootloader", 2)
           \/ ~ HasGrub /\ Command = "copy-initramfs" /\ At("bootloader", 3)
           \/ ~ HasGrub /\ Command = "loader-entry" /\ At("bootloader", 4)
           \/ Command = "driver-package" /\ At("install-drivers", 1)
           \/ Command = "driver-dracut" /\ At("install-drivers", 2)
           \/ HasGrub /\ Command = "driver-mkconfig" /\ At("install-drivers", 3)
           \/ Command = "useradd" /\ At("create-users", 1)
           \/ Command = "passwd" /\ At("create-users", 2)
           \/ Command = "sudoers" /\ At("create-users", 3)
<1>1. CASE Command = "none"
  BY <1>1
<1>2. CASE Command # "none"
  <2>1. /\ running /\ step <= Len(Steps(cfg)) /\ op <= Len(Ops(Key, cfg))
        /\ Command = Ops(Key, cfg)[op]
    BY <1>2 DEF Command
  <2>2. CASE Key = "setup-swap"
    <3>1. Ops(Key, cfg) = SwapOps(cfg)
      BY <2>2 DEF Ops
    <3> QED
      BY <2>1, <2>2, <3>1, SwapTable DEF At
  <2>3. CASE Key = "luks-keyfile"
    <3>1. Ops(Key, cfg) = KeyfileOps
      BY <2>3 DEF Ops
    <3> QED
      BY <2>1, <2>3, <3>1 DEF At, KeyfileOps
  <2>4. CASE Key = "initramfs"
    <3>1. Ops(Key, cfg) = InitramfsOps(cfg)
      BY <2>4 DEF Ops
    <3> QED
      BY <2>1, <2>4, <3>1, InitramfsTable DEF At, DracutAt
  <2>5. CASE Key = "gen-fstab"
    <3>1. Ops(Key, cfg) = << "genfstab" >>
      BY <2>5 DEF Ops
    <3> QED
      BY <2>1, <2>5, <3>1 DEF At
  <2>6. CASE Key = "write-crypttab"
    <3>1. Ops(Key, cfg) = << "crypttab" >>
      BY <2>6 DEF Ops
    <3> QED
      BY <2>1, <2>6, <3>1 DEF At
  <2>7. CASE Key = "bootloader" /\ HasGrub
    <3>1. Ops(Key, cfg) = GrubOps(cfg)
      BY <2>7 DEF Ops, HasGrub
    <3> DEFINE u == Ops(Key, cfg)
    <3>2. /\ Len(u) = IF cfg.encrypt THEN 6 ELSE 5
          /\ u[1] = "grub-package" /\ u[2] = "backup" /\ u[3] = "base-params"
          /\ cfg.encrypt => u[4] = "crypt-params" /\ u[5] = "grub-install"
          /\ ~ cfg.encrypt => u[4] = "grub-install"
          /\ u[Len(u)] = "grub-mkconfig" /\ Len(u) = Len(GrubOps(cfg))
      BY <3>1, GrubTable
    <3>3. op <= Len(u) /\ Command = u[op]
      BY <2>1
    <3> HIDE DEF u
    <3>4. CASE cfg.encrypt
      <4>1. op \in 1..6
        BY <3>2, <3>3, <3>4
      <4> QED
        BY <2>1, <2>7, <3>2, <3>3, <3>4, <4>1 DEF At
    <3>5. CASE ~ cfg.encrypt
      <4>1. op \in 1..5
        BY <3>2, <3>3, <3>5
      <4> QED
        BY <2>1, <2>7, <3>2, <3>3, <3>5, <4>1 DEF At
    <3> QED
      BY <3>4, <3>5
  <2>8. CASE Key = "bootloader" /\ ~ HasGrub
    <3>1. Ops(Key, cfg) = SystemdBootOps
      BY <2>8 DEF Ops, HasGrub
    <3> QED
      BY <2>1, <2>8, <3>1 DEF At, SystemdBootOps
  <2>9. CASE Key = "install-drivers"
    <3>1. Ops(Key, cfg) = DriverOps(cfg)
      BY <2>9 DEF Ops
    <3> QED
      BY <2>1, <2>9, <3>1, DriverTable DEF At, HasGrub
  <2>10. CASE Key = "create-users"
    <3>1. Ops(Key, cfg) = UserOps
      BY <2>10 DEF Ops
    <3> QED
      BY <2>1, <2>10, <3>1 DEF At, UserOps
  <2>11. CASE Key \notin { "setup-swap", "luks-keyfile", "initramfs", "gen-fstab",
                           "write-crypttab", "bootloader", "install-drivers", "create-users" }
    <3> DEFINE s == Ops(Key, cfg)
    <3>1. s \in Seq(PlainOps)
      BY <2>11, PlainSteps
    <3>2. op \in 1..Len(s)
      BY <2>1, <3>1, LenProperties
    <3>3. s[op] \in PlainOps
      BY <3>1, <3>2, ElementOfSeq
    <3> QED
      BY <2>1, <3>3
  <2> QED
    BY <2>2, <2>3, <2>4, <2>5, <2>6, <2>7, <2>8, <2>9, <2>10, <2>11
<1> QED
  BY <1>1, <1>2

-----------------------------------------------------------------------------
(* The order of the steps, and what has run. *)

(* Steps are distinct, so what runs has not run yet, nor has what is after *)
(* it, and what is before it has.                                          *)
Placed == cfg \in ConfigType /\ step \in Nat \ {0} /\ op \in Nat \ {0} /\ saved \in Nat /\ AheadOfCopy

LEMMA PlanFacts ==
    ASSUME cfg \in ConfigType, NEW s, s = Steps(cfg)
    PROVE  /\ s \in Seq(StepKeys) /\ Len(s) \in Nat /\ Len(s) <= Len(Pipeline)
           /\ \A i \in 1..Len(s) : When(s[i], cfg)
           /\ \A i, j \in 1..Len(s) : s[i] = s[j] => i = j
<1>1. /\ s \in Seq(StepKeys) /\ Len(s) <= Len(Pipeline)
      /\ \A i \in 1..Len(s) : When(s[i], cfg)
      /\ \A i, j \in 1..Len(s) : s[i] = s[j] => i = j
  BY OrderAssumption
<1> QED
  BY <1>1, LenProperties

LEMMA NotYet ==
    ASSUME Placed, NEW k, NEW n \in Nat, At(k, n), NEW m \in Nat, m >= n
    PROVE  ~ Ran(k, m) /\ ~ Passed(k) /\ ~ Recorded(k) /\ When(k, cfg)
<1> DEFINE s == Steps(cfg)
<1>1. /\ Len(s) \in Nat /\ \A i \in 1..Len(s) : When(s[i], cfg)
      /\ \A i, j \in 1..Len(s) : s[i] = s[j] => i = j
  BY PlanFacts DEF Placed
<1>2. step \in 1..Len(s) /\ s[step] = k /\ op = n /\ saved < step /\ saved \in Nat
  BY <1>1 DEF At, Key, Placed, AheadOfCopy
<1>3. Ran(k, m) = \E i \in 1..Len(s) : s[i] = k /\ (i < step \/ (i = step /\ op > m))
  BY DEF Ran, Reached
<1>4. Passed(k) = \E i \in 1..Len(s) : s[i] = k /\ i < step
  BY DEF Passed
<1>5. Recorded(k) = \E i \in 1..saved : s[i] = k
  BY DEF Recorded
<1> HIDE DEF s
<1> QED
  BY <1>1, <1>2, <1>3, <1>4, <1>5

LEMMA Already ==
    ASSUME Placed, NEW k, NEW n \in Nat, At(k, n), NEW m \in Nat, m < n
    PROVE  Ran(k, m)
<1> DEFINE s == Steps(cfg)
<1>1. Len(s) \in Nat
  BY PlanFacts DEF Placed
<1>2. step \in 1..Len(s) /\ s[step] = k /\ op = n
  BY <1>1 DEF At, Key, Placed
<1>3. Ran(k, m) = \E i \in 1..Len(s) : s[i] = k /\ (i < step \/ (i = step /\ op > m))
  BY DEF Ran, Reached
<1> HIDE DEF s
<1> QED
  BY <1>1, <1>2, <1>3

LEMMA EarlierRan ==
    ASSUME Placed, NEW a, NEW b, Before(Steps(cfg), a, b), NEW n \in Nat, At(b, n),
           NEW m \in Nat
    PROVE  Ran(a, m) /\ Passed(a)
<1> DEFINE s == Steps(cfg)
<1>1. Len(s) \in Nat
  BY PlanFacts DEF Placed
<1>2. step \in 1..Len(s) /\ s[step] = b
  BY <1>1 DEF At, Key, Placed
<1>3. Ran(a, m) = \E i \in 1..Len(s) : s[i] = a /\ (i < step \/ (i = step /\ op > m))
  BY DEF Ran, Reached
<1>4. Passed(a) = \E i \in 1..Len(s) : s[i] = a /\ i < step
  BY DEF Passed
<1>5. \A i \in 1..Len(s) : s[i] = b => \E j \in 1..(i - 1) : s[j] = a
  BY DEF Before
<1> HIDE DEF s
<1>6. PICK j \in 1..(step - 1) : s[j] = a
  BY <1>2, <1>5
<1>7. j \in 1..Len(s) /\ j < step
  BY <1>1, <1>2, <1>6
<1> QED
  BY <1>3, <1>4, <1>6, <1>7

LEMMA LaterNotRan ==
    ASSUME Placed, NEW a, NEW b, Before(Steps(cfg), a, b), NEW n \in Nat, At(a, n),
           NEW m \in Nat
    PROVE  ~ Ran(b, m) /\ ~ Passed(b)
<1> DEFINE s == Steps(cfg)
<1>1. Len(s) \in Nat /\ \A i, j \in 1..Len(s) : s[i] = s[j] => i = j
  BY PlanFacts DEF Placed
<1>2. step \in 1..Len(s) /\ s[step] = a
  BY <1>1 DEF At, Key, Placed
<1>3. Ran(b, m) = \E i \in 1..Len(s) : s[i] = b /\ (i < step \/ (i = step /\ op > m))
  BY DEF Ran, Reached
<1>4. Passed(b) = \E i \in 1..Len(s) : s[i] = b /\ i < step
  BY DEF Passed
<1>5. \A i \in 1..Len(s) : s[i] = b => \E j \in 1..(i - 1) : s[j] = a
  BY DEF Before
<1> HIDE DEF s
<1>6. \A i \in 1..Len(s) : s[i] = b => step < i
  <2> SUFFICES ASSUME NEW i \in 1..Len(s), s[i] = b
               PROVE  step < i
    OBVIOUS
  <2>1. PICK j \in 1..(i - 1) : s[j] = a
    BY <1>5
  <2>2. j \in 1..Len(s) /\ j < i
    BY <1>1, <2>1
  <2>3. j = step
    BY <1>1, <1>2, <2>1, <2>2
  <2> QED
    BY <2>2, <2>3
<1> QED
  BY <1>1, <1>2, <1>3, <1>4, <1>6

LEMMA PassedRan ==
    ASSUME NEW k, Passed(k), NEW n
    PROVE  Ran(k, n)
BY DEF Passed, Ran, Reached

(* A command has run once the step has gone on from it. *)
LEMMA RanOn ==
    ASSUME Placed, running, step <= Len(Steps(cfg)), op' = op + 1, UNCHANGED << cfg, step >>,
           NEW k, NEW n \in Nat, Ran(k, n)'
    PROVE  Ran(k, n) \/ At(k, n)
<1> DEFINE s == Steps(cfg)
<1>1. PICK i \in 1..Len(s) : s[i] = k /\ (i < step \/ (i = step /\ op' > n))
  BY DEF Ran, Reached
<1>2. CASE i < step \/ (i = step /\ op > n)
  BY <1>1, <1>2 DEF Ran, Reached
<1>3. CASE i = step /\ ~ (op > n)
  <2>1. op = n
    BY <1>1, <1>3 DEF Placed
  <2> QED
    BY <1>1, <1>3, <2>1 DEF At, Key
<1> QED
  BY <1>1, <1>2, <1>3

LEMMA RanSkip ==
    ASSUME UNCHANGED << cfg, step >>, NEW k, NEW n, Ran(k, n)'
    PROVE  Ran(k, n) \/ Key = k
BY DEF Ran, Reached, Key

LEMMA PassedSame ==
    ASSUME UNCHANGED << cfg, step >>, NEW k
    PROVE  Passed(k)' <=> Passed(k)
BY DEF Passed

(* Whatever is not a command of a step makes nothing run. *)
Still ==
    \/ StepDone \/ SavingFails \/ HardFailure \/ Kill \/ CutInCopy \/ Resume \/ Over
    \/ UNCHANGED vars

OpCount(k) == Len(Ops(k, cfg))

LEMMA StillRan ==
    ASSUME Placed, Still, NEW k, NEW n \in Nat \ {0}, OpCount(k) \in Nat, n <= OpCount(k),
           Ran(k, n)'
    PROVE  Ran(k, n)
<1> DEFINE s == Steps(cfg)
<1>0. cfg' = cfg
  BY DEF Still, StepDone, SavingFails, HardFailure, Kill, CutInCopy, Interrupted, Resume, Over, vars
<1>1. PICK i \in 1..Len(s) : s[i] = k /\ (i < step' \/ (i = step' /\ op' > n))
  BY <1>0 DEF Ran, Reached
<1>2. i \in Nat /\ saved \in Nat /\ saved < step /\ step \in Nat /\ op \in Nat
  BY PlanFacts DEF Placed, AheadOfCopy
<1>3. CASE StepDone
  <2>1. step' = step + 1 /\ op' = 1 /\ op > OpCount(Key)
    BY <1>3 DEF StepDone, OpCount
  <2>2. i < step \/ i = step
    BY <1>1, <1>2, <2>1
  <2>3. i = step => op > n
    BY <1>1, <1>2, <2>1 DEF Key
  <2> QED
    BY <1>1, <2>2, <2>3 DEF Ran, Reached
<1>4. CASE Resume
  <2>1. step' = saved + 1 /\ op' = 1
    BY <1>4 DEF Resume
  <2>2. i < step
    BY <1>1, <1>2, <2>1
  <2> QED
    BY <1>1, <2>2 DEF Ran, Reached
<1>5. CASE ~ StepDone /\ ~ Resume
  <2>1. step' = step /\ op' = op
    BY <1>5 DEF Still, SavingFails, HardFailure, Kill, CutInCopy, Interrupted, Over, vars
  <2> QED
    BY <1>1, <2>1 DEF Ran, Reached
<1> QED
  BY <1>3, <1>4, <1>5

(* What a resume takes as done is recorded. *)
LEMMA ResumeRan ==
    ASSUME Placed, Resume, NEW k, NEW n \in Nat \ {0}, Ran(k, n)'
    PROVE  Recorded(k) /\ Passed(k) /\ Passed(k)'
<1> DEFINE s == Steps(cfg)
<1>0. cfg' = cfg /\ step' = saved + 1 /\ op' = 1
  BY DEF Resume
<1>1. PICK i \in 1..Len(s) : s[i] = k /\ (i < step' \/ (i = step' /\ op' > n))
  BY <1>0 DEF Ran, Reached
<1>2. i \in Nat /\ i >= 1 /\ saved \in Nat /\ saved < step /\ step \in Nat
  BY PlanFacts DEF Placed, AheadOfCopy
<1>3. i \in 1..saved /\ i < step /\ i < step'
  BY <1>0, <1>1, <1>2
<1> QED
  BY <1>0, <1>1, <1>3 DEF Recorded, Passed

LEMMA CutTouches ==
    ASSUME NEW s, IsTarget(s)
    PROVE  Touches(s, CopyCut(s), {"grub", "backup"})
<1>1. CASE s.backup.exists
  BY <1>1, TouchesOne, PartsAre DEF CopyCut, Touches
<1>2. CASE ~ s.backup.exists
  BY <1>2, TouchesOne, PartsAre DEF CopyCut, Touches
<1> QED
  BY <1>1, <1>2

LEMMA CutTarget ==
    ASSUME IsTarget(sys), CutInCopy
    PROVE  /\ IsTarget(sys') /\ (sys'.swapOn => sys.swapOn)
           /\ \A p \in Parts \ {"swapOn"} : sys'[p] = CopyCut(sys)[p]
           /\ sys.backup.exists \/ "backup" \in odd'
<1>1. IsTarget(CopyCut(sys)) /\ CopyCut(sys).swapOn = sys.swapOn
  BY CutTouches, PartsAre DEF Touches
<1>2. PICK how \in {"killed", "failed", "reboot"} :
        Interrupted(how, CopyCut(sys), IF sys.backup.exists THEN odd ELSE odd \cup {"backup"})
  BY DEF CutInCopy
<1> DEFINE o == IF sys.backup.exists THEN odd ELSE odd \cup {"backup"}
<1>3. sys.backup.exists \/ "backup" \in o
  OBVIOUS
<1>4. Interrupted(how, CopyCut(sys), o)
  BY <1>2
<1> HIDE DEF o
<1>5. odd' = o \/ o \subseteq odd'
  BY <1>4 DEF Interrupted
<1> QED
  BY <1>1, <1>3, <1>4, <1>5, InterruptedTarget

(* The target, while no command runs. *)
LEMMA StillTarget ==
    ASSUME IsTarget(sys), Still
    PROVE  /\ IsTarget(sys') /\ cfg' = cfg /\ odd \subseteq odd'
           /\ \A p \in Parts \ {"swapOn", "grub", "backup"} : sys'[p] = sys[p]
           /\ ~ CutInCopy => sys'.grub = sys.grub /\ sys'.backup = sys.backup
<1>0. cfg' = cfg /\ odd \subseteq odd'
  BY DEF Still, StepDone, SavingFails, HardFailure, Kill, CutInCopy, Interrupted, Resume, Over, vars
<1>1. \A b : Touches(sys, [ sys EXCEPT !.swapOn = b ], {"swapOn"})
  BY TouchesOne, PartsAre
<1>2. CASE CutInCopy
  <2>1. \A p \in Parts \ {"swapOn"} : sys'[p] = CopyCut(sys)[p]
    BY <1>2, CutTarget
  <2>2. Touches(sys, CopyCut(sys), {"grub", "backup"})
    BY CutTouches
  <2> QED
    BY <1>0, <1>2, <2>1, <2>2, CutTarget DEF Touches
<1>3. CASE ~ CutInCopy
  <2>1. CASE StepDone \/ SavingFails \/ Over \/ UNCHANGED vars
    BY <1>0, <1>3, <2>1, PartsAre DEF StepDone, SavingFails, Over, vars
  <2>2. CASE Resume
    <3>1. PICK b : sys' = [ sys EXCEPT !.swapOn = b ]
      BY <2>2 DEF Resume
    <3>2. Touches(sys, sys', {"swapOn"})
      BY <1>1, <3>1
    <3> QED
      BY <1>0, <1>3, <3>2, PartsAre DEF Touches
  <2>3. CASE HardFailure \/ Kill
    <3>1. PICK how \in {"killed", "failed", "reboot"} : Interrupted(how, sys, odd)
      BY <2>3 DEF HardFailure, Kill
    <3> QED
      BY <1>0, <1>3, <3>1, InterruptedTarget, PartsAre
  <2> QED
    BY <1>3, <2>1, <2>2, <2>3 DEF Still
<1> QED
  BY <1>2, <1>3

Inv == IInv /\ IsTarget(sys)

LEMMA InvPlaced == Inv => Placed /\ TypeOK
<1>1. Len(Pipeline) \in Nat
  BY DEF Pipeline
<1> QED
  BY <1>1 DEF Inv, IInv, TypeOK, Placed

LEMMA RunFacts ==
    ASSUME Inv, Run
    PROVE  /\ Command # "none" /\ UNCHANGED << cfg, step, saved, running >> /\ running
           /\ step <= Len(Steps(cfg)) /\ odd \subseteq odd' /\ op' \in Nat \ {0}
           /\ sys' = Effect(Command, sys, cfg) /\ Framed(sys, sys', Command)
           /\ \A p \in Parts : Command \notin Writers(p) => sys'[p] = sys[p]
<1>1. IsTarget(sys) /\ op \in Nat \ {0}
  BY InvPlaced DEF Inv, Placed
<1>2. /\ Command # "none" /\ UNCHANGED << cfg, step, saved, running >>
      /\ sys' = Effect(Command, sys, cfg) /\ odd \subseteq odd'
  BY DEF Run
<1>3. running /\ step <= Len(Steps(cfg))
  BY <1>2 DEF Command
<1>4. Framed(sys, sys', Command)
  BY <1>1, <1>2, Frame
<1>5. op' \in Nat \ {0}
  <2>1. CASE Command = "check-keyfile" /\ sys.keyfile \in sys.slots
    <3>1. op' = Len(Ops(Key, cfg)) + 1 /\ Ops(Key, cfg) = KeyfileOps
      BY <1>1, <2>1, KeyCommand DEF Run, KeyOps
    <3> QED
      BY <3>1 DEF KeyfileOps
  <2>2. CASE ~ (Command = "check-keyfile" /\ sys.keyfile \in sys.slots)
    BY <1>1, <2>2 DEF Run
  <2> QED
    BY <2>1, <2>2
<1> QED
  BY <1>2, <1>3, <1>4, <1>5 DEF Framed

LEMMA RunRan ==
    ASSUME Inv, Run, NEW k, NEW n \in Nat, Ran(k, n)'
    PROVE  \/ Ran(k, n)
           \/ At(k, n)
           \/ k = "luks-keyfile" /\ Command = "check-keyfile" /\ sys.keyfile \in sys.slots
<1>1. Placed
  BY InvPlaced
<1>2. CASE Command = "check-keyfile" /\ sys.keyfile \in sys.slots
  <2>1. Ran(k, n) \/ Key = k
    BY RunFacts, RanSkip
  <2>2. Key = "luks-keyfile"
    BY <1>1, <1>2, Where, FilesAre DEF At, Placed, PlainOps
  <2> QED
    BY <1>2, <2>1, <2>2
<1>3. CASE ~ (Command = "check-keyfile" /\ sys.keyfile \in sys.slots)
  <2>1. op' = op + 1
    BY <1>3 DEF Run
  <2> QED
    BY <1>1, <2>1, RunFacts, RanOn
<1> QED
  BY <1>2, <1>3

(* The command at a place. *)
LEMMA CommandAt ==
    ASSUME NEW k, NEW n, At(k, n), Command # "none"
    PROVE  Command = Ops(k, cfg)[n]
BY DEF At, Command

LEMMA CommandsAt ==
    ASSUME Command # "none"
    PROVE  /\ At("setup-swap", 2) => Command = "make-swapfile"
           /\ At("setup-swap", 3) => Command = "swapon"
           /\ At("setup-swap", 4) /\ cfg.swap = "suspend" => Command = "resume-conf"
           /\ At("luks-keyfile", 2) => Command = "write-keyfile"
           /\ At("luks-keyfile", 3) => Command = "add-key"
           /\ At("initramfs", 1) /\ cfg.encrypt => Command = "encryption-conf"
           /\ At("initramfs", DracutAt) => Command = "dracut"
           /\ At("gen-fstab", 1) => Command = "genfstab"
           /\ At("write-crypttab", 1) => Command = "crypttab"
           /\ At("bootloader", 1) /\ HasGrub => Command = "grub-package"
           /\ At("bootloader", 2) /\ HasGrub => Command = "backup"
           /\ At("bootloader", Len(GrubOps(cfg))) /\ HasGrub => Command = "grub-mkconfig"
           /\ At("bootloader", 3) /\ ~ HasGrub => Command = "copy-initramfs"
           /\ At("install-drivers", 2) => Command = "driver-dracut"
           /\ At("create-users", 1) => Command = "useradd"
           /\ At("create-users", 2) => Command = "passwd"
<1>1. Ops("setup-swap", cfg) = SwapOps(cfg)
  BY DEF Ops
<1>2. Ops("luks-keyfile", cfg) = KeyfileOps
  BY DEF Ops
<1>3. Ops("initramfs", cfg) = InitramfsOps(cfg)
  BY DEF Ops
<1>4. Ops("gen-fstab", cfg) = << "genfstab" >> /\ Ops("write-crypttab", cfg) = << "crypttab" >>
  BY DEF Ops
<1>5. HasGrub => Ops("bootloader", cfg) = GrubOps(cfg)
  BY DEF Ops, HasGrub
<1>6. ~ HasGrub => Ops("bootloader", cfg) = SystemdBootOps
  BY DEF Ops, HasGrub
<1>7. Ops("install-drivers", cfg) = DriverOps(cfg)
  BY DEF Ops
<1>8. Ops("create-users", cfg) = UserOps
  BY DEF Ops
<1>9. /\ At("setup-swap", 2) => Command = "make-swapfile"
      /\ At("setup-swap", 3) => Command = "swapon"
      /\ At("setup-swap", 4) /\ cfg.swap = "suspend" => Command = "resume-conf"
  BY <1>1, CommandAt, SwapTable
<1>10. /\ At("luks-keyfile", 2) => Command = "write-keyfile"
       /\ At("luks-keyfile", 3) => Command = "add-key"
  BY <1>2, CommandAt DEF KeyfileOps
<1>11. /\ At("initramfs", 1) /\ cfg.encrypt => Command = "encryption-conf"
       /\ At("initramfs", DracutAt) => Command = "dracut"
  BY <1>3, CommandAt, InitramfsTable DEF DracutAt
<1>12. /\ At("gen-fstab", 1) => Command = "genfstab"
       /\ At("write-crypttab", 1) => Command = "crypttab"
  BY <1>4, CommandAt
<1>13. /\ At("bootloader", 1) /\ HasGrub => Command = "grub-package"
       /\ At("bootloader", 2) /\ HasGrub => Command = "backup"
       /\ At("bootloader", Len(GrubOps(cfg))) /\ HasGrub => Command = "grub-mkconfig"
  BY <1>5, CommandAt, GrubTable
<1>14. At("bootloader", 3) /\ ~ HasGrub => Command = "copy-initramfs"
  BY <1>6, CommandAt DEF SystemdBootOps
<1>15. At("install-drivers", 2) => Command = "driver-dracut"
  BY <1>7, CommandAt, DriverTable
<1>16. /\ At("create-users", 1) => Command = "useradd"
       /\ At("create-users", 2) => Command = "passwd"
  BY <1>8, CommandAt DEF UserOps
<1> QED
  BY <1>9, <1>10, <1>11, <1>12, <1>13, <1>14, <1>15, <1>16

(* And the place of a command. *)
LEMMA Places ==
    ASSUME op \in Nat \ {0}
    PROVE  /\ Command = "remove-swapfile" => At("setup-swap", 1)
           /\ Command = "make-swapfile" => At("setup-swap", 2)
           /\ Command = "swapon" => At("setup-swap", 3)
           /\ Command = "resume-conf" => At("setup-swap", 4) /\ cfg.swap = "suspend"
           /\ Command = "check-keyfile" => At("luks-keyfile", 1)
           /\ Command = "write-keyfile" => At("luks-keyfile", 2)
           /\ Command = "add-key" => At("luks-keyfile", 3)
           /\ Command = "encryption-conf" => At("initramfs", 1) /\ cfg.encrypt
           /\ Command = "dracut" => At("initramfs", DracutAt)
           /\ Command = "genfstab" => At("gen-fstab", 1)
           /\ Command = "crypttab" => At("write-crypttab", 1)
           /\ Command = "grub-package" => At("bootloader", 1) /\ HasGrub
           /\ Command = "backup" => At("bootloader", 2) /\ HasGrub
           /\ Command = "base-params" => At("bootloader", 3) /\ HasGrub
           /\ Command = "crypt-params" => At("bootloader", 4) /\ HasGrub /\ cfg.encrypt
           /\ Command = "grub-mkconfig" => At("bootloader", Len(GrubOps(cfg))) /\ HasGrub
           /\ Command = "copy-initramfs" => At("bootloader", 3) /\ ~ HasGrub
           /\ Command = "driver-package" => At("install-drivers", 1)
           /\ Command = "driver-dracut" => At("install-drivers", 2)
           /\ Command = "driver-mkconfig" => At("install-drivers", 3) /\ HasGrub
           /\ Command = "useradd" => At("create-users", 1)
           /\ Command = "passwd" => At("create-users", 2)
<1>1. PlainOps \cap { "remove-swapfile", "make-swapfile", "swapon", "resume-conf",
                      "check-keyfile", "write-keyfile", "add-key", "encryption-conf", "dracut",
                      "genfstab", "crypttab", "grub-package", "backup", "base-params",
                      "crypt-params", "grub-mkconfig", "copy-initramfs", "driver-package",
                      "driver-dracut", "driver-mkconfig", "useradd", "passwd", "none" } = {}
  BY FilesAre DEF PlainOps
<1> QED
  BY <1>1, Where

-----------------------------------------------------------------------------
(* The conjuncts of IInv, one at a time: the swap file. *)

LEMMA SwapRun ==
    ASSUME Inv, Run
    PROVE  SwapKept'
<1>0. /\ Placed /\ op \in Nat \ {0} /\ cfg \in ConfigType /\ SwapKept /\ IsTarget(sys)
      /\ sys.made \in Nat
  BY InvPlaced DEF Inv, IInv, Placed, TypeOK
<1> DEFINE k == "setup-swap"
<1>1. /\ Command # "none" /\ cfg' = cfg /\ running /\ odd \subseteq odd'
      /\ sys' = Effect(Command, sys, cfg)
  BY RunFacts
<1>2. /\ Command \notin {"remove-swapfile", "make-swapfile"} => sys'.swapfile = sys.swapfile
      /\ Command \notin {"remove-swapfile", "swapon"} => sys'.swapOn = sys.swapOn
      /\ Command # "resume-conf" => sys'.resumeConf = sys.resumeConf
  BY RunFacts, WritersAre, PartsAre
<1>3. \A n \in Nat : Ran(k, n)' => Ran(k, n) \/ At(k, n)
  BY RunRan
<1>4. Command = "remove-swapfile" => /\ sys'.swapOn = FALSE
                                     /\ \A n \in 2..4 : ~ Ran(k, n)'
  <2> SUFFICES ASSUME Command = "remove-swapfile"
               PROVE  sys'.swapOn = FALSE /\ \A n \in 2..4 : ~ Ran(k, n)'
    OBVIOUS
  <2>1. At(k, 1)
    BY <1>0, Places
  <2>2. \A n \in 2..4 : ~ Ran(k, n) /\ ~ At(k, n)
    BY <1>0, <2>1, NotYet DEF At
  <2>3. sys'.swapOn = FALSE
    BY <1>0, <1>1, RemoveSwapfile
  <2> QED
    BY <1>3, <2>2, <2>3
<1>5. Command = "make-swapfile" => /\ sys'.swapfile = NextMade(sys)
                                   /\ \A n \in 3..4 : ~ Ran(k, n)'
  <2> SUFFICES ASSUME Command = "make-swapfile"
               PROVE  sys'.swapfile = NextMade(sys) /\ \A n \in 3..4 : ~ Ran(k, n)'
    OBVIOUS
  <2>1. At(k, 2)
    BY <1>0, Places
  <2>2. \A n \in 3..4 : ~ Ran(k, n) /\ ~ At(k, n)
    BY <1>0, <2>1, NotYet DEF At
  <2>3. sys'.swapfile = NextMade(sys)
    BY <1>0, <1>1, MakeSwapfile
  <2> QED
    BY <1>3, <2>2, <2>3
<1>6. Command = "swapon" => sys'.swapOn = TRUE /\ FileSwap
  <2> SUFFICES ASSUME Command = "swapon"
               PROVE  sys'.swapOn = TRUE /\ FileSwap
    OBVIOUS
  <2>1. At(k, 3)
    BY <1>0, Places
  <2>2. When(k, cfg)
    BY <1>0, <2>1, NotYet
  <2> QED
    BY <1>0, <1>1, <2>2, SwapOn DEF When, FileSwap
<1>7. Command = "resume-conf" => sys'.resumeConf = sys.swapfile
  BY <1>0, <1>1, ResumeConf
<1>8. Ran(k, 2)' => sys'.swapfile # 0
  BY <1>0, <1>1, <1>2, <1>3, <1>4, <1>5, CommandsAt DEF SwapKept, NextMade
<1>9. cfg.swap = "suspend" /\ Ran(k, 4)' => sys'.resumeConf = sys'.swapfile
  BY <1>0, <1>1, <1>2, <1>3, <1>4, <1>5, <1>7, CommandsAt DEF SwapKept
<1>10. Ran(k, 3)' => sys'.swapOn \/ "swapon" \in odd'
  BY <1>0, <1>1, <1>2, <1>3, <1>4, <1>6, CommandsAt DEF SwapKept
<1>11. ~ FileSwap => ~ sys'.swapOn
  BY <1>0, <1>2, <1>4, <1>6 DEF SwapKept
<1> QED
  BY <1>1, <1>8, <1>9, <1>10, <1>11 DEF SwapKept, FileSwap

LEMMA WarnFacts ==
    ASSUME Inv, Warn
    PROVE  /\ Command \in WarnOnly /\ Command # "none" /\ running /\ op' = op + 1
           /\ UNCHANGED << cfg, step, saved, running, sys >> /\ odd' = odd \cup {Command}
           /\ \A k : \A n \in Nat : Ran(k, n)' => Ran(k, n) \/ At(k, n)
           /\ Command \notin { "make-swapfile", "swapon", "resume-conf", "write-keyfile",
                               "add-key", "encryption-conf", "dracut", "genfstab", "crypttab",
                               "grub-package", "backup", "grub-mkconfig", "copy-initramfs",
                               "useradd", "passwd" }
<1>1. /\ Command \in WarnOnly /\ Command # "none" /\ op' = op + 1
      /\ UNCHANGED << cfg, step, saved, running, sys >> /\ odd' = odd \cup {Command}
  BY DEF Warn, WarnOnly
<1>2. running /\ step <= Len(Steps(cfg))
  BY <1>1 DEF Command
<1>3. Placed
  BY InvPlaced
<1>4. \A k : \A n \in Nat : Ran(k, n)' => Ran(k, n) \/ At(k, n)
  BY <1>1, <1>2, <1>3, RanOn
<1> QED
  BY <1>1, <1>2, <1>4 DEF WarnOnly

LEMMA SwapWarn ==
    ASSUME Inv, Warn
    PROVE  SwapKept'
<1>1. \A n \in 2..3 : Ran("setup-swap", n)' => Ran("setup-swap", n)
  BY WarnFacts, CommandsAt
<1>2. cfg.swap = "suspend" /\ Ran("setup-swap", 4)' => Ran("setup-swap", 4)
  BY WarnFacts, CommandsAt
<1> QED
  BY <1>1, <1>2, WarnFacts DEF SwapKept, Inv, IInv, FileSwap

(* How long the lists of commands are. *)
LEMMA Lengths ==
    /\ OpCount("setup-swap") = IF cfg.swap = "suspend" THEN 4 ELSE 3
    /\ OpCount("luks-keyfile") = 3
    /\ OpCount("initramfs") = DracutAt + 1
    /\ OpCount("gen-fstab") = 1 /\ OpCount("write-crypttab") = 1
    /\ HasGrub => OpCount("bootloader") = IF cfg.encrypt THEN 6 ELSE 5
    /\ ~ HasGrub => OpCount("bootloader") = 4
    /\ OpCount("install-drivers") = IF HasGrub THEN 3 ELSE 2
    /\ OpCount("create-users") = 3
<1>1. OpCount("setup-swap") = IF cfg.swap = "suspend" THEN 4 ELSE 3
  BY SwapTable DEF OpCount, Ops
<1>2. OpCount("luks-keyfile") = 3
  BY DEF OpCount, Ops, KeyfileOps
<1>3. OpCount("initramfs") = DracutAt + 1
  BY InitramfsTable DEF OpCount, Ops, DracutAt
<1>4. OpCount("gen-fstab") = 1 /\ OpCount("write-crypttab") = 1
  BY DEF OpCount, Ops
<1>5. HasGrub => OpCount("bootloader") = IF cfg.encrypt THEN 6 ELSE 5
  BY GrubTable DEF OpCount, Ops, HasGrub
<1>6. ~ HasGrub => OpCount("bootloader") = 4
  BY DEF OpCount, Ops, HasGrub, SystemdBootOps
<1>7. OpCount("install-drivers") = IF HasGrub THEN 3 ELSE 2
  BY DriverTable DEF OpCount, Ops, HasGrub
<1>8. OpCount("create-users") = 3
  BY DEF OpCount, Ops, UserOps
<1> QED
  BY <1>1, <1>2, <1>3, <1>4, <1>5, <1>6, <1>7, <1>8

(* A resume switches recorded swap on, or warns. *)
LEMMA ResumeSwap ==
    ASSUME IsTarget(sys), Resume
    PROVE  /\ Recorded("setup-swap") => sys'.swapOn \/ "swapon" \in odd'
           /\ sys'.swapOn => sys.swapOn \/ Recorded("setup-swap")
<1>1. PICK noSwap \in BOOLEAN :
        /\ sys' = [ sys EXCEPT !.swapOn = sys.swapOn \/
                      ((Recorded("setup-swap") /\ ~ sys.swapOn) /\ ~ noSwap) ]
        /\ noSwap => "swapon" \in odd'
  BY DEF Resume
<1>2. PICK v : v = (sys.swapOn \/ ((Recorded("setup-swap") /\ ~ sys.swapOn) /\ ~ noSwap))
  OBVIOUS
<1>3. sys'.swapOn = v
  BY <1>1, <1>2, OnePart, PartsAre
<1> QED
  BY <1>1, <1>2, <1>3

LEMMA SwapStill ==
    ASSUME Inv, Still
    PROVE  SwapKept'
<1>0. Placed /\ SwapKept /\ IsTarget(sys)
  BY InvPlaced DEF Inv, IInv
<1>1. /\ IsTarget(sys') /\ cfg' = cfg /\ odd \subseteq odd'
      /\ sys'.swapfile = sys.swapfile /\ sys'.resumeConf = sys.resumeConf
  BY <1>0, StillTarget, PartsAre
<1>2. \A n \in 2..3 : Ran("setup-swap", n)' => Ran("setup-swap", n)
  <2>1. OpCount("setup-swap") \in Nat /\ OpCount("setup-swap") >= 3
    BY Lengths
  <2> QED
    BY <1>0, <2>1, StillRan
<1>3. cfg.swap = "suspend" /\ Ran("setup-swap", 4)' => Ran("setup-swap", 4)
  <2>1. cfg.swap = "suspend" => OpCount("setup-swap") = 4
    BY Lengths
  <2> QED
    BY <1>0, <2>1, StillRan
<1>4. running' /\ Ran("setup-swap", 3)' => sys'.swapOn \/ "swapon" \in odd'
  <2>1. CASE Resume
    <3>1. Ran("setup-swap", 3)' => Recorded("setup-swap")
      BY <1>0, <2>1, ResumeRan
    <3> QED
      BY <1>0, <2>1, <3>1, ResumeSwap
  <2>2. CASE StepDone \/ SavingFails \/ Over \/ UNCHANGED vars
    <3>1. sys' = sys /\ running' = running
      BY <2>2 DEF StepDone, SavingFails, Over, vars
    <3> QED
      BY <1>0, <1>1, <1>2, <3>1 DEF SwapKept
  <2>3. CASE HardFailure \/ Kill \/ CutInCopy
    BY <2>3 DEF HardFailure, Kill, CutInCopy, Interrupted
  <2> QED
    BY <2>1, <2>2, <2>3 DEF Still
<1>5. ~ FileSwap => ~ sys'.swapOn
  <2>1. CASE Resume
    <3>1. Recorded("setup-swap") => When("setup-swap", cfg)
      BY <1>0, PlanFacts DEF Recorded, Placed, AheadOfCopy
    <3>2. ~ FileSwap => ~ Recorded("setup-swap")
      BY <3>1 DEF When, FileSwap
    <3> QED
      BY <1>0, <2>1, <3>2, ResumeSwap DEF SwapKept
  <2>2. CASE StepDone \/ SavingFails \/ Over \/ UNCHANGED vars
    <3>1. sys' = sys
      BY <2>2 DEF StepDone, SavingFails, Over, vars
    <3> QED
      BY <1>0, <3>1 DEF SwapKept
  <2>3. CASE HardFailure \/ Kill \/ CutInCopy
    <3>1. sys'.swapOn => sys.swapOn
      BY <1>0, <2>3, CutTarget, InterruptedTarget DEF HardFailure, Kill
    <3> QED
      BY <1>0, <3>1 DEF SwapKept
  <2> QED
    BY <2>1, <2>2, <2>3 DEF Still
<1> QED
  BY <1>0, <1>1, <1>2, <1>3, <1>4, <1>5 DEF SwapKept, FileSwap

-----------------------------------------------------------------------------
(* The keyfile and the image. *)

LEMMA InvSlots == Inv => SlotInv
<1> SUFFICES ASSUME Inv
             PROVE  SlotInv
  OBVIOUS
<1>1. /\ IsTarget(sys) /\ op \in Nat \ {0} /\ Placed /\ KeyKept
      /\ misread \in Nat /\ sys.made \in Nat /\ sys.slots \subseteq 1..sys.made
      /\ sys.keyfile \in 0..sys.made
  BY InvPlaced DEF Inv, IInv, TypeOK, Placed
<1>2. Command = "add-key" => sys.keyfile # 0
  BY <1>1, Places, Already DEF KeyKept
<1> QED
  BY <1>1, <1>2 DEF SlotInv, KeyKept

LEMMA KeySlots == Inv /\ [Next]_vars =>
    /\ Cardinality(sys'.slots \ {sys'.keyfile}) <= misread'
    /\ Command' \in {"write-keyfile", "add-key"} => sys'.keyfile \notin sys'.slots
BY InvSlots, SlotStep DEF SlotInv

LEMMA KeyRun ==
    ASSUME Inv, Run
    PROVE  /\ Ran("luks-keyfile", 2)' => sys'.keyfile # 0
           /\ Ran("luks-keyfile", 3)' => sys'.keyfile \in sys'.slots
<1>0. /\ Placed /\ op \in Nat \ {0} /\ KeyKept /\ IsTarget(sys) /\ sys.made \in Nat
      /\ sys.slots \subseteq 1..sys.made
  BY InvPlaced DEF Inv, IInv, Placed, TypeOK
<1> DEFINE k == "luks-keyfile"
<1>1. Command # "none" /\ sys' = Effect(Command, sys, cfg)
  BY RunFacts
<1>2. /\ Command \notin {"check-keyfile", "write-keyfile"} => sys'.keyfile = sys.keyfile
      /\ Command # "add-key" => sys'.slots = sys.slots
  BY RunFacts, WritersAre, PartsAre
<1>3. \A n \in Nat : Ran(k, n)' => \/ Ran(k, n) \/ At(k, n)
                                   \/ Command = "check-keyfile" /\ sys.keyfile \in sys.slots
  BY RunRan
<1>4. CASE Command = "check-keyfile" /\ sys.keyfile \in sys.slots
  <2>1. sys'.keyfile = sys.keyfile /\ sys'.slots = sys.slots
    BY <1>0, <1>1, <1>2, <1>4, CheckKeyfile
  <2>2. sys.keyfile # 0
    BY <1>0, <1>4
  <2> QED
    BY <1>4, <2>1, <2>2
<1>5. CASE Command = "check-keyfile" /\ sys.keyfile \notin sys.slots
  <2>1. At(k, 1)
    BY <1>0, <1>5, Places
  <2>2. \A n \in 2..3 : ~ Ran(k, n) /\ ~ At(k, n)
    BY <1>0, <2>1, NotYet DEF At
  <2> QED
    BY <1>3, <1>5, <2>2
<1>6. CASE Command = "write-keyfile"
  <2>1. At(k, 2)
    BY <1>0, <1>6, Places
  <2>2. ~ Ran(k, 3) /\ ~ At(k, 3)
    BY <1>0, <2>1, NotYet DEF At
  <2>3. sys'.keyfile = NextMade(sys)
    BY <1>0, <1>1, <1>6, WriteKeyfile
  <2>4. NextMade(sys) # 0
    BY <1>0 DEF NextMade
  <2> QED
    BY <1>3, <1>6, <2>2, <2>3, <2>4
<1>7. CASE Command = "add-key"
  <2>1. At(k, 3)
    BY <1>0, <1>7, Places
  <2>2. Ran(k, 2)
    BY <1>0, <2>1, Already
  <2>3. sys'.slots = sys.slots \cup {sys.keyfile}
    BY <1>0, <1>1, <1>7, AddKey
  <2> QED
    BY <1>0, <1>2, <1>7, <2>2, <2>3 DEF KeyKept
<1>8. CASE Command \notin {"check-keyfile", "write-keyfile", "add-key"}
  <2>1. \A n \in 2..3 : Ran(k, n)' => Ran(k, n)
    BY <1>1, <1>3, <1>8, CommandsAt
  <2> QED
    BY <1>0, <1>2, <1>8, <2>1 DEF KeyKept
<1> QED
  BY <1>4, <1>5, <1>6, <1>7, <1>8

LEMMA KeyRest ==
    ASSUME Inv, Warn \/ Still
    PROVE  /\ Ran("luks-keyfile", 2)' => sys'.keyfile # 0
           /\ Ran("luks-keyfile", 3)' => sys'.keyfile \in sys'.slots
<1>0. Placed /\ KeyKept /\ IsTarget(sys)
  BY InvPlaced DEF Inv, IInv
<1>1. CASE Warn
  <2>1. \A n \in 2..3 : Ran("luks-keyfile", n)' => Ran("luks-keyfile", n)
    BY <1>1, WarnFacts, CommandsAt
  <2> QED
    BY <1>0, <1>1, <2>1, WarnFacts DEF KeyKept
<1>2. CASE Still
  <2>1. OpCount("luks-keyfile") = 3
    BY Lengths
  <2>2. \A n \in 2..3 : Ran("luks-keyfile", n)' => Ran("luks-keyfile", n)
    BY <1>0, <1>2, <2>1, StillRan
  <2>3. sys'.keyfile = sys.keyfile /\ sys'.slots = sys.slots
    BY <1>0, <1>2, StillTarget, PartsAre
  <2> QED
    BY <1>0, <2>2, <2>3 DEF KeyKept
<1> QED
  BY <1>1, <1>2

(* The orders the invariant depends on. *)
LEMMA Orders ==
    ASSUME cfg \in ConfigType
    PROVE  /\ FileSwap => /\ Before(Steps(cfg), "setup-swap", "initramfs")
                          /\ Before(Steps(cfg), "setup-swap", "gen-fstab")
           /\ cfg.encrypt /\ HasGrub => Before(Steps(cfg), "luks-keyfile", "initramfs")
           /\ Before(Steps(cfg), "initramfs", "bootloader")
           /\ Before(Steps(cfg), "initramfs", "install-drivers")
<1>1. When("setup-swap", cfg) <=> FileSwap
  BY DEF When, FileSwap
<1>2. When("luks-keyfile", cfg) <=> (cfg.encrypt /\ HasGrub)
  BY DEF When, HasGrub
<1> QED
  BY <1>1, <1>2, OrderAssumption

(* What is needed of the drop-in, the image and the drivers. *)
InitramfsInPlace(s) ==
    /\ s.image.built
    /\ s.image.key = IF cfg.encrypt /\ HasGrub THEN s.keyfile ELSE 0
    /\ s.image.resume = s.resumeConf

LEMMA InitramfsIs == InPlace("initramfs") <=> InitramfsInPlace(sys)
BY DEF InPlace, InitramfsInPlace

LEMMA DriversAre ==
    InPlace("install-drivers") <=>
      ("driver-dracut" \notin odd => (sys.image.driver <=> Driver \subseteq sys.packages))
BY DEF InPlace

(* dracut finds what there is. *)
LEMMA DracutFinds ==
    ASSUME NEW s, NEW i, i = Dracut(s)
    PROVE  /\ i.built /\ i.resume = s.resumeConf
           /\ i.key = IF s.keyConf THEN s.keyfile ELSE 0
           /\ i.driver <=> Driver \subseteq s.packages
BY DEF Dracut

LEMMA ImageRun ==
    ASSUME Inv, Run
    PROVE  ImageKept'
<1>0. /\ Placed /\ op \in Nat \ {0} /\ cfg \in ConfigType /\ ImageKept /\ IsTarget(sys)
  BY InvPlaced DEF Inv, IInv, Placed
<1>1. /\ Command # "none" /\ cfg' = cfg /\ odd \subseteq odd'
      /\ sys' = Effect(Command, sys, cfg)
  BY RunFacts
<1>2. /\ Command # "encryption-conf" => sys'.keyConf = sys.keyConf
      /\ Command \notin {"dracut", "driver-dracut"} => sys'.image = sys.image
      /\ Command \notin {"check-keyfile", "write-keyfile"} => sys'.keyfile = sys.keyfile
      /\ Command # "resume-conf" => sys'.resumeConf = sys.resumeConf
      /\ Command \notin {"pacstrap", "desktop-packages", "extra-packages", "driver-package",
                         "grub-package"} => sys'.packages = sys.packages
  BY RunFacts, WritersAre, PartsAre
<1>3. \A k : \A n \in Nat : Ran(k, n)' /\ k # "luks-keyfile" => Ran(k, n) \/ At(k, n)
  BY RunRan
<1>4. DracutAt \in 1..2 /\ DracutAt' = DracutAt
      /\ DracutAt = IF cfg.encrypt THEN 2 ELSE 1
  BY <1>1 DEF DracutAt
<1>5. (sys'.keyConf => cfg.encrypt) /\ (cfg.encrypt /\ Ran("initramfs", 1)' => (sys'.keyConf <=> HasGrub))
  <2>1. CASE Command = "encryption-conf"
    <3>1. At("initramfs", 1) /\ cfg.encrypt
      BY <1>0, <2>1, Places
    <3>2. sys'.keyConf <=> HasGrub
      BY <1>0, <1>1, <2>1, EncryptionConf DEF HasGrub
    <3> QED
      BY <3>1, <3>2
  <2>2. CASE Command # "encryption-conf"
    <3>1. cfg.encrypt /\ Ran("initramfs", 1)' => Ran("initramfs", 1)
      BY <1>1, <1>3, <2>2, CommandsAt
    <3> QED
      BY <1>0, <1>2, <2>2, <3>1 DEF ImageKept
  <2> QED
    BY <2>1, <2>2
<1>6. Ran("initramfs", DracutAt)' => InitramfsInPlace(sys)'
  <2> SUFFICES ASSUME Ran("initramfs", DracutAt)'
               PROVE  InitramfsInPlace(sys)'
    OBVIOUS
  <2>1. Ran("initramfs", DracutAt) \/ At("initramfs", DracutAt)
    BY <1>3, <1>4
  <2>2. CASE Command \in {"dracut", "driver-dracut"}
    <3>1. At("initramfs", DracutAt) \/ At("install-drivers", 2)
      BY <1>0, <2>2, Places
    <3>2. cfg.encrypt => Ran("initramfs", 1)
      BY <1>0, <1>4, <3>1, Already, EarlierRan, Orders
    <3>3. sys.keyConf <=> cfg.encrypt /\ HasGrub
      BY <1>0, <3>2 DEF ImageKept
    <3>4. sys'.image = Dracut(sys)
      BY <1>0, <1>1, <2>2, DracutImage
    <3>5. /\ sys'.image.built /\ sys'.image.resume = sys.resumeConf
          /\ sys'.image.key = IF sys.keyConf THEN sys.keyfile ELSE 0
      BY <3>4, DracutFinds
    <3>6. sys'.keyfile = sys.keyfile /\ sys'.resumeConf = sys.resumeConf
      BY <1>2, <2>2
    <3> QED
      BY <1>1, <3>3, <3>5, <3>6 DEF InitramfsInPlace, HasGrub
  <2>3. CASE Command \notin {"dracut", "driver-dracut"}
    <3>1. Ran("initramfs", DracutAt)
      BY <1>1, <2>1, <2>3, CommandsAt
    <3>2. InitramfsInPlace(sys)
      BY <1>0, <1>4, <3>1, InitramfsIs DEF ImageKept
    <3>3. Command \notin {"check-keyfile", "write-keyfile"} \/ ~ (cfg.encrypt /\ HasGrub)
      BY <1>0, <1>4, <3>1, Places, LaterNotRan, Orders
    <3>4. Command # "resume-conf"
      <4>1. SUFFICES ASSUME Command = "resume-conf"
                     PROVE  FALSE
        OBVIOUS
      <4>2. At("setup-swap", 4) /\ FileSwap
        BY <1>0, <4>1, Places DEF FileSwap
      <4> QED
        BY <1>0, <1>4, <3>1, <4>2, LaterNotRan, Orders
    <3> QED
      BY <1>1, <1>2, <2>3, <3>2, <3>3, <3>4 DEF InitramfsInPlace, HasGrub
  <2> QED
    BY <2>2, <2>3
<1>7. Ran("install-drivers", 2)' /\ "driver-dracut" \notin odd' =>
        (sys'.image.driver <=> Driver \subseteq sys'.packages)
  <2> SUFFICES ASSUME Ran("install-drivers", 2)', "driver-dracut" \notin odd'
               PROVE  sys'.image.driver <=> Driver \subseteq sys'.packages
    OBVIOUS
  <2>1. Ran("install-drivers", 2) \/ At("install-drivers", 2)
    BY <1>3
  <2>2. CASE Command = "driver-dracut"
    <3>1. sys'.image = Dracut(sys) /\ sys'.packages = sys.packages
      BY <1>0, <1>1, <1>2, <2>2, DracutImage
    <3> QED
      BY <3>1, DracutFinds
  <2>3. CASE Command # "driver-dracut"
    <3>1. Ran("install-drivers", 2)
      BY <1>1, <2>1, <2>3, CommandsAt
    <3>2. sys.image.driver <=> Driver \subseteq sys.packages
      BY <1>0, <1>1, <3>1, DriversAre DEF ImageKept
    <3>3. Command # "dracut"
      BY <1>0, <1>4, <3>1, Places, LaterNotRan, Orders
    <3>4. Command # "driver-package"
      BY <1>0, <3>1, Places, NotYet
    <3>5. Driver \subseteq sys'.packages <=> Driver \subseteq sys.packages
      BY <1>0, <1>1, <1>2, <3>4, OtherPackages, GrubPackageIs
    <3> QED
      BY <1>2, <2>3, <3>2, <3>3, <3>5
  <2> QED
    BY <2>2, <2>3
<1>8. InPlace("initramfs")' <=> InitramfsInPlace(sys)'
  BY DEF InPlace, InitramfsInPlace
<1>9. InPlace("install-drivers")' <=>
        ("driver-dracut" \notin odd' => (sys'.image.driver <=> Driver \subseteq sys'.packages))
  BY DEF InPlace
<1>10. Ran("initramfs", DracutAt)' => InitramfsInPlace(sys)'
  BY <1>1, <1>4, <1>6 DEF Ran
<1> QED
  BY <1>1, <1>5, <1>7, <1>8, <1>9, <1>10 DEF ImageKept, HasGrub

LEMMA ImageWarn ==
    ASSUME Inv, Warn
    PROVE  ImageKept'
<1>0. ImageKept /\ cfg' = cfg /\ sys' = sys /\ odd' = odd \cup {Command}
  BY WarnFacts DEF Inv, IInv
<1>1. DracutAt' = DracutAt /\ DracutAt \in Nat
  BY <1>0 DEF DracutAt
<1>2. /\ Ran("initramfs", DracutAt)' => Ran("initramfs", DracutAt)
      /\ cfg.encrypt /\ Ran("initramfs", 1)' => Ran("initramfs", 1)
  <2>1. \A n \in Nat : Ran("initramfs", n)' => Ran("initramfs", n) \/ At("initramfs", n)
    BY WarnFacts
  <2>2. ~ At("initramfs", DracutAt) /\ ~ (cfg.encrypt /\ At("initramfs", 1))
    BY WarnFacts, CommandsAt
  <2>3. Ran("initramfs", DracutAt)' => \E n \in {DracutAt} : Ran("initramfs", n)'
    BY <1>1 DEF Ran, Reached
  <2> QED
    BY <1>1, <2>1, <2>2, <2>3
<1>3. Ran("install-drivers", 2)' => Ran("install-drivers", 2) \/ Command = "driver-dracut"
  BY WarnFacts, CommandsAt
<1>4. InPlace("initramfs")' <=> InPlace("initramfs")
  BY <1>0 DEF InPlace, HasGrub
<1>5. /\ InPlace("install-drivers") => InPlace("install-drivers")'
      /\ Command = "driver-dracut" => InPlace("install-drivers")'
  BY <1>0 DEF InPlace
<1> QED
  BY <1>0, <1>2, <1>3, <1>4, <1>5 DEF ImageKept, HasGrub

LEMMA ImageStill ==
    ASSUME Inv, Still
    PROVE  ImageKept'
<1>0. Placed /\ ImageKept /\ IsTarget(sys)
  BY InvPlaced DEF Inv, IInv
<1>1. /\ cfg' = cfg /\ odd \subseteq odd'
      /\ sys'.keyConf = sys.keyConf /\ sys'.image = sys.image /\ sys'.keyfile = sys.keyfile
      /\ sys'.resumeConf = sys.resumeConf /\ sys'.packages = sys.packages
  BY <1>0, StillTarget, PartsAre
<1>2. DracutAt' = DracutAt /\ DracutAt \in 1..2
  BY <1>1 DEF DracutAt
<1>3. \A n \in 1..DracutAt : Ran("initramfs", n)' => Ran("initramfs", n)
  <2>1. OpCount("initramfs") = DracutAt + 1
    BY Lengths
  <2> QED
    BY <1>0, <1>2, <2>1, StillRan
<1>4. Ran("initramfs", DracutAt)' => \E n \in {DracutAt} : Ran("initramfs", n)'
  BY <1>2 DEF Ran, Reached
<1>5. Ran("install-drivers", 2)' => Ran("install-drivers", 2)
  <2>1. OpCount("install-drivers") \in 2..3
    BY Lengths
  <2> QED
    BY <1>0, <2>1, StillRan
<1>6. InPlace("initramfs")' <=> InPlace("initramfs")
  BY <1>1 DEF InPlace, HasGrub
<1>7. InPlace("install-drivers") => InPlace("install-drivers")'
  BY <1>1 DEF InPlace
<1> QED
  BY <1>0, <1>1, <1>2, <1>3, <1>4, <1>5, <1>6, <1>7 DEF ImageKept, HasGrub

-----------------------------------------------------------------------------
(* The grub defaults. *)

EditedWith(t, n, o) ==
    /\ t.whole
    /\ n > 3 => "base-params" \in o \/ t.base = 1
    /\ n = 3 => t.base = 0
    /\ t.crypt = IF cfg.encrypt /\ n > 4 THEN 1 ELSE 0

EditedSoFar == IF Passed("bootloader") THEN 5 ELSE op

RightCfg(t, o) ==
    "backup" \in o \/
      /\ t.whole
      /\ "base-params" \notin o => t.base = 1
      /\ t.crypt = IF cfg.encrypt THEN 1 ELSE 0

Unedited(s) == IF s.backup.exists THEN s.backup = Pristine ELSE s.grub \in {NoText, Pristine}

GrubHere ==
    /\ "backup" \in odd \/ Recorded("bootloader") \/ Unedited(sys)
    /\ HasGrub /\ Ran("bootloader", 2) => sys.grub.exists
    /\ HasGrub /\ Ran("bootloader", 2) /\ "backup" \notin odd =>
         EditedWith(sys.grub, EditedSoFar, odd)
    /\ HasGrub /\ Ran("bootloader", 2) =>
         "backup" \in odd \/ Recorded("bootloader") \/ sys.backup.exists
    /\ HasGrub /\ Ran("bootloader", Len(GrubOps(cfg))) => RightCfg(sys.grubCfg, odd)
    /\ ~ HasGrub /\ Ran("bootloader", 3) => sys.esp.built /\ sys.esp.key = 0

LEMMA GrubIs == GrubKept <=> GrubHere
<1>1. HasGrub => (InPlace("bootloader") <=> RightCfg(sys.grubCfg, odd))
  BY DEF InPlace, RightCfg
<1>2. ~ HasGrub => (InPlace("bootloader") <=> (sys.esp.built /\ sys.esp.key = 0))
  BY DEF InPlace
<1>3. Edited(sys.grub, IF Passed("bootloader") THEN 5 ELSE op)
        <=> EditedWith(sys.grub, EditedSoFar, odd)
  BY DEF Edited, EditedWith, EditedSoFar
<1> QED
  BY <1>1, <1>2, <1>3 DEF GrubKept, GrubHere, Unedited

LEMMA GrubIsNext == GrubKept' <=> GrubHere'
BY GrubIs, PTL

(* The parts GrubHere is about. *)
LEMMA RanLess ==
    ASSUME Placed, NEW k, NEW n \in Nat, NEW m \in Nat, m <= n, Ran(k, n)
    PROVE  Ran(k, m)
BY DEF Ran, Reached, Placed

LEMMA RanNow ==
    ASSUME Placed, NEW k, NEW n \in Nat, Ran(k, n), ~ Passed(k)
    PROVE  Key = k /\ op > n /\ step <= Len(Steps(cfg))
<1>1. PICK i \in 1..Len(Steps(cfg)) : Steps(cfg)[i] = k /\ Reached(i, n)
  BY DEF Ran
<1>2. ~ (i < step)
  BY <1>1 DEF Passed
<1>3. i = step /\ op > n
  BY <1>1, <1>2 DEF Reached
<1>4. Len(Steps(cfg)) \in Nat
  BY PlanFacts DEF Placed
<1> QED
  BY <1>1, <1>3, <1>4 DEF Key

GrubLength == Len(GrubOps(cfg))

LEMMA GrubLengthIs == GrubLength = IF cfg.encrypt THEN 6 ELSE 5
BY GrubTable DEF GrubLength

LEMMA GrubCommandsAt ==
    ASSUME Command # "none", HasGrub
    PROVE  /\ At("bootloader", 3) => Command = "base-params"
           /\ At("bootloader", 4) /\ cfg.encrypt => Command = "crypt-params"
           /\ At("bootloader", GrubLength) => Command = "grub-mkconfig"
<1>1. Ops("bootloader", cfg) = GrubOps(cfg)
  BY DEF Ops, HasGrub
<1> QED
  BY <1>1, CommandAt, GrubTable, CommandsAt DEF GrubLength

LEMMA TextsAre ==
    /\ Pristine.whole /\ Pristine.base = 0 /\ Pristine.crypt = 0 /\ Pristine.exists
    /\ ~ NoText.exists /\ ~ CutShort.whole /\ CutShort.exists
BY DEF Pristine, NoText, CutShort

(* What each command does to the defaults and their backup. *)
LEMMA GrubFacts ==
    ASSUME Inv, Run
    PROVE  /\ Placed /\ GrubHere /\ Command # "none" /\ cfg' = cfg /\ odd \subseteq odd'
           /\ (Recorded("bootloader")' <=> Recorded("bootloader"))
           /\ (Passed("bootloader")' <=> Passed("bootloader"))
           /\ sys.grub \in TextType /\ sys.backup \in TextType
           /\ Command \notin {"grub-package", "backup", "base-params", "crypt-params"} =>
                sys'.grub = sys.grub
           /\ Command \notin {"backup", "remove-backup"} => sys'.backup = sys.backup
           /\ Command \notin {"grub-mkconfig", "driver-mkconfig"} => sys'.grubCfg = sys.grubCfg
           /\ Command # "copy-initramfs" => sys'.esp = sys.esp
           /\ \A n \in Nat : Ran("bootloader", n)' => Ran("bootloader", n) \/ At("bootloader", n)
<1>1. /\ Placed /\ GrubHere /\ sys.grub \in TextType /\ sys.backup \in TextType
  BY InvPlaced, GrubIs DEF Inv, IInv, TypeOK
<1>2. /\ Command # "none" /\ cfg' = cfg /\ odd \subseteq odd'
      /\ UNCHANGED << step, saved >>
  BY RunFacts
<1>3. /\ Command \notin {"grub-package", "backup", "base-params", "crypt-params"} =>
           sys'.grub = sys.grub
      /\ Command \notin {"backup", "remove-backup"} => sys'.backup = sys.backup
      /\ Command \notin {"grub-mkconfig", "driver-mkconfig"} => sys'.grubCfg = sys.grubCfg
      /\ Command # "copy-initramfs" => sys'.esp = sys.esp
  BY RunFacts, WritersAre, PartsAre
<1>4. Recorded("bootloader")' <=> Recorded("bootloader")
  BY <1>2 DEF Recorded
<1>5. Passed("bootloader")' <=> Passed("bootloader")
  BY <1>2, PassedSame
<1>6. \A n \in Nat : Ran("bootloader", n)' => Ran("bootloader", n) \/ At("bootloader", n)
  BY RunRan
<1> QED
  BY <1>1, <1>2, <1>3, <1>4, <1>5, <1>6

LEMMA GrubEffects ==
    ASSUME Inv, Run
    PROVE  /\ Command = "grub-package" =>
                sys'.grub = sys.grub \/ (~ sys.grub.exists /\ sys'.grub = Pristine)
           /\ Command = "backup" /\ sys.backup.exists =>
                sys'.grub = sys.backup /\ sys'.backup = sys.backup
           /\ Command = "backup" /\ ~ sys.backup.exists =>
                sys'.grub = sys.grub /\ sys'.backup = sys.grub
           /\ Command = "base-params" =>
                /\ sys'.grub.exists = sys.grub.exists /\ sys'.grub.whole = sys.grub.whole
                /\ sys'.grub.crypt = sys.grub.crypt
                /\ sys.grub.whole => sys'.grub.base = sys.grub.base + 1
           /\ Command = "crypt-params" =>
                /\ sys'.grub.exists = sys.grub.exists /\ sys'.grub.whole = sys.grub.whole
                /\ sys'.grub.base = sys.grub.base
                /\ sys.grub.whole => sys'.grub.crypt = sys.grub.crypt + 1
           /\ Command \in {"grub-mkconfig", "driver-mkconfig"} => sys'.grubCfg = sys.grub
           /\ Command = "remove-backup" => sys'.backup = NoText
           /\ Command = "copy-initramfs" => sys'.esp = sys.image
<1>0. IsTarget(sys) /\ sys' = Effect(Command, sys, cfg) /\ sys.grub \in TextType
  BY RunFacts, GrubFacts DEF Inv
<1>1. Command = "grub-package" =>
        sys'.grub = sys.grub \/ (~ sys.grub.exists /\ sys'.grub = Pristine)
  BY <1>0, GrubPackageIs
<1>2. ASSUME Command = "backup"
      PROVE  /\ sys.backup.exists => sys'.grub = sys.backup /\ sys'.backup = sys.backup
             /\ ~ sys.backup.exists => sys'.grub = sys.grub /\ sys'.backup = sys.grub
  <2>1. IF sys.backup.exists THEN Touches(sys, sys', {"grub"}) /\ sys'.grub = sys.backup
        ELSE Touches(sys, sys', {"backup"}) /\ sys'.backup = sys.grub
    BY <1>0, <1>2, Backup
  <2> QED
    BY <2>1, PartsAre DEF Touches
<1>3. ASSUME Command = "base-params"
      PROVE  /\ sys'.grub.exists = sys.grub.exists /\ sys'.grub.whole = sys.grub.whole
             /\ sys'.grub.crypt = sys.grub.crypt
             /\ sys.grub.whole => sys'.grub.base = sys.grub.base + 1
  <2>1. sys'.grub = IF sys.grub.whole THEN [ sys.grub EXCEPT !.base = @ + 1 ] ELSE sys.grub
    BY <1>0, <1>3, BaseParams
  <2> QED
    BY <1>0, <2>1 DEF TextType
<1>4. ASSUME Command = "crypt-params"
      PROVE  /\ sys'.grub.exists = sys.grub.exists /\ sys'.grub.whole = sys.grub.whole
             /\ sys'.grub.base = sys.grub.base
             /\ sys.grub.whole => sys'.grub.crypt = sys.grub.crypt + 1
  <2>1. sys'.grub = IF sys.grub.whole THEN [ sys.grub EXCEPT !.crypt = @ + 1 ] ELSE sys.grub
    BY <1>0, <1>4, CryptParams
  <2> QED
    BY <1>0, <2>1 DEF TextType
<1>5. Command \in {"grub-mkconfig", "driver-mkconfig"} => sys'.grubCfg = sys.grub
  BY <1>0, GrubMkconfig
<1>6. Command = "remove-backup" => sys'.backup = NoText
  BY <1>0, RemoveBackup
<1>7. Command = "copy-initramfs" => sys'.esp = sys.image
  BY <1>0, CopyInitramfs
<1> QED
  BY <1>1, <1>2, <1>3, <1>4, <1>5, <1>6, <1>7

(* In which state of the step each of them runs. *)
LEMMA GrubAt ==
    ASSUME Inv, Run
    PROVE  /\ Command = "grub-package" => HasGrub /\ At("bootloader", 1) /\ ~ Ran("bootloader", 2)'
           /\ Command = "backup" => /\ HasGrub /\ At("bootloader", 2)
                                    /\ sys.grub.exists \/ sys.backup.exists
                                    /\ ~ Passed("bootloader") /\ ~ Recorded("bootloader")
           /\ Command = "base-params" => /\ HasGrub /\ At("bootloader", 3) /\ Ran("bootloader", 2)
                                         /\ ~ Passed("bootloader") /\ ~ Recorded("bootloader")
           /\ Command = "crypt-params" => /\ HasGrub /\ At("bootloader", 4) /\ Ran("bootloader", 2)
                                          /\ ~ Passed("bootloader") /\ ~ Recorded("bootloader")
                                          /\ cfg.encrypt
           /\ Command = "grub-mkconfig" =>
                /\ HasGrub /\ At("bootloader", GrubLength) /\ Ran("bootloader", 2)
                /\ ~ Passed("bootloader")
           /\ Command = "driver-mkconfig" => At("install-drivers", 3)
           /\ Command = "copy-initramfs" => ~ HasGrub /\ At("bootloader", 3)
<1>0. Placed /\ op \in Nat \ {0} /\ GrubHere
      /\ \A n \in Nat : Ran("bootloader", n)' => Ran("bootloader", n) \/ At("bootloader", n)
  BY GrubFacts DEF Placed
<1>1. Command = "grub-package" => HasGrub /\ At("bootloader", 1) /\ ~ Ran("bootloader", 2)'
  <2> SUFFICES ASSUME Command = "grub-package"
               PROVE  HasGrub /\ At("bootloader", 1) /\ ~ Ran("bootloader", 2)'
    OBVIOUS
  <2>1. HasGrub /\ At("bootloader", 1)
    BY <1>0, Places
  <2>2. ~ Ran("bootloader", 2) /\ ~ At("bootloader", 2)
    BY <1>0, <2>1, NotYet DEF At
  <2> QED
    BY <1>0, <2>1, <2>2
<1>2. ASSUME NEW n \in 2..6, At("bootloader", n)
      PROVE  /\ ~ Passed("bootloader") /\ ~ Recorded("bootloader") /\ Ran("bootloader", 1)
             /\ n > 2 => Ran("bootloader", 2)
  <2>1. ~ Passed("bootloader") /\ ~ Recorded("bootloader")
    BY <1>0, <1>2, NotYet
  <2>2. Ran("bootloader", 1) /\ (n > 2 => Ran("bootloader", 2))
    BY <1>0, <1>2, Already
  <2> QED
    BY <2>1, <2>2
<1>3. GrubLength \in 5..6
  BY GrubLengthIs
<1>4. Command = "grub-mkconfig" => HasGrub /\ At("bootloader", GrubLength)
  BY <1>0, Places DEF GrubLength
<1>5. Command = "backup" => sys.grub.exists \/ sys.backup.exists
  BY DEF Run, Stuck
<1> QED
  BY <1>0, <1>1, <1>2, <1>3, <1>4, <1>5, Places

LEMMA GrubRunBackup ==
    ASSUME Inv, Run
    PROVE  /\ "backup" \in odd' \/ Recorded("bootloader") \/ Unedited(sys')
           /\ HasGrub /\ Ran("bootloader", 2)' => sys'.grub.exists
           /\ HasGrub /\ Ran("bootloader", 2)' =>
                "backup" \in odd' \/ Recorded("bootloader") \/ sys'.backup.exists
<1>0. GrubHere /\ Command # "none" /\ odd \subseteq odd'
  BY GrubFacts
<1>1. CASE Command = "grub-package"
  <2>1. /\ sys'.grub = sys.grub \/ (~ sys.grub.exists /\ sys'.grub = Pristine)
        /\ sys'.backup = sys.backup
    BY <1>1, GrubFacts, GrubEffects
  <2> QED
    BY <1>0, <1>1, <2>1, GrubAt, TextsAre DEF GrubHere, Unedited
<1>2. CASE Command = "backup"
  <2>1. IF sys.backup.exists THEN sys'.grub = sys.backup /\ sys'.backup = sys.backup
        ELSE sys'.grub = sys.grub /\ sys'.backup = sys.grub
    BY <1>2, GrubEffects
  <2>2. (sys.grub.exists \/ sys.backup.exists) /\ ~ Recorded("bootloader")
    BY <1>2, GrubAt
  <2> QED
    BY <1>0, <2>1, <2>2, TextsAre DEF GrubHere, Unedited
<1>3. CASE Command \in {"base-params", "crypt-params"}
  <2>1. sys'.grub.exists = sys.grub.exists /\ sys'.backup = sys.backup
    BY <1>3, GrubFacts, GrubEffects
  <2>2. HasGrub /\ ~ Recorded("bootloader") /\ Ran("bootloader", 2) /\ Placed
    BY <1>3, GrubAt, GrubFacts
  <2> QED
    BY <1>0, <2>1, <2>2 DEF GrubHere, Unedited
<1>4. CASE Command = "remove-backup"
  <2>1. ~ Recorded("bootloader") => "backup" \in odd'
    BY <1>4 DEF Run
  <2>2. sys'.grub = sys.grub
    BY <1>4, GrubFacts
  <2>3. HasGrub /\ Ran("bootloader", 2)' => Ran("bootloader", 2)
    BY <1>4, GrubFacts, CommandsAt
  <2> QED
    BY <1>0, <2>1, <2>2, <2>3 DEF GrubHere
<1>5. CASE Command \notin {"grub-package", "backup", "base-params", "crypt-params", "remove-backup"}
  <2>1. sys'.grub = sys.grub /\ sys'.backup = sys.backup
    BY <1>5, GrubFacts
  <2>2. HasGrub /\ Ran("bootloader", 2)' => Ran("bootloader", 2)
    BY <1>0, <1>5, GrubFacts, CommandsAt
  <2> QED
    BY <1>0, <2>1, <2>2 DEF GrubHere, Unedited
<1> QED
  BY <1>1, <1>2, <1>3, <1>4, <1>5

LEMMA GrubRunText ==
    ASSUME Inv, Run, HasGrub, Ran("bootloader", 2)', "backup" \notin odd'
    PROVE  EditedWith(sys'.grub, IF Passed("bootloader") THEN 5 ELSE op', odd')
<1>0. GrubHere /\ Command # "none" /\ odd \subseteq odd' /\ Placed /\ op \in Nat \ {0}
  BY GrubFacts DEF Placed
<1>1. CASE Command = "grub-package"
  BY <1>1, GrubAt
<1>2. CASE Command = "backup"
  <2>1. op' = 3
    BY <1>2, GrubAt DEF Run, At
  <2>2. sys'.grub = Pristine
    BY <1>0, <1>2, GrubAt, GrubEffects, TextsAre DEF GrubHere, Unedited
  <2> QED
    BY <1>2, <2>1, <2>2, GrubAt, TextsAre DEF EditedWith
<1>3. CASE Command = "base-params"
  <2>1. op = 3 /\ op' = 4 /\ ~ Passed("bootloader") /\ Ran("bootloader", 2)
    BY <1>3, GrubAt DEF Run, At
  <2>2. EditedWith(sys.grub, 3, odd)
    BY <1>0, <2>1 DEF GrubHere, EditedSoFar
  <2>3. /\ sys'.grub.whole = sys.grub.whole /\ sys'.grub.crypt = sys.grub.crypt
        /\ sys.grub.whole => sys'.grub.base = sys.grub.base + 1
    BY <1>3, GrubEffects
  <2>4. EditedWith(sys'.grub, 4, odd')
    BY <2>2, <2>3 DEF EditedWith
  <2> QED
    BY <2>1, <2>4
<1>4. CASE Command = "crypt-params"
  <2>1. op = 4 /\ op' = 5 /\ ~ Passed("bootloader") /\ Ran("bootloader", 2) /\ cfg.encrypt
    BY <1>4, GrubAt DEF Run, At
  <2>2. EditedWith(sys.grub, 4, odd)
    BY <1>0, <2>1 DEF GrubHere, EditedSoFar
  <2>3. /\ sys'.grub.whole = sys.grub.whole /\ sys'.grub.base = sys.grub.base
        /\ sys.grub.whole => sys'.grub.crypt = sys.grub.crypt + 1
    BY <1>4, GrubEffects
  <2>4. EditedWith(sys'.grub, 5, odd')
    BY <1>0, <2>1, <2>2, <2>3 DEF EditedWith
  <2> QED
    BY <2>1, <2>4
<1>5. CASE Command \notin {"grub-package", "backup", "base-params", "crypt-params"}
  <2>1. sys'.grub = sys.grub
    BY <1>5, GrubFacts
  <2>2. Ran("bootloader", 2)
    BY <1>0, <1>5, GrubFacts, CommandsAt
  <2>3. EditedWith(sys.grub, EditedSoFar, odd)
    BY <1>0, <2>2 DEF GrubHere
  <2>4. CASE Passed("bootloader")
    BY <1>0, <2>1, <2>3, <2>4 DEF EditedWith, EditedSoFar
  <2>5. CASE ~ Passed("bootloader")
    <3>1. Key = "bootloader" /\ op > 2 /\ step <= Len(Steps(cfg)) /\ running
      BY <1>0, <2>2, <2>5, RanNow, RunFacts
    <3>2. \A n \in Nat : op = n => At("bootloader", n)
      BY <3>1 DEF At
    <3>3. op # 3 /\ ~ (op = 4 /\ cfg.encrypt)
      BY <1>0, <1>5, <3>2, GrubCommandsAt
    <3>4. op' = op + 1
      <4>1. Command # "check-keyfile"
        BY <1>0, <3>1, Places DEF At
      <4> QED
        BY <4>1 DEF Run
    <3> QED
      BY <1>0, <2>1, <2>3, <2>5, <3>1, <3>3, <3>4 DEF EditedWith, EditedSoFar
  <2> QED
    BY <2>4, <2>5
<1> QED
  BY <1>1, <1>2, <1>3, <1>4, <1>5

LEMMA GrubRunCfg ==
    ASSUME Inv, Run, HasGrub, NEW n \in {GrubLength}, Ran("bootloader", n)'
    PROVE  RightCfg(sys'.grubCfg, odd')
<1>0. GrubHere /\ Command # "none" /\ odd \subseteq odd' /\ Placed /\ op \in Nat \ {0}
  BY GrubFacts DEF Placed
<1>1. n \in 5..6 /\ n = GrubLength /\ n = IF cfg.encrypt THEN 6 ELSE 5
  BY GrubLengthIs
<1>2. CASE Command = "grub-mkconfig"
  <2>1. op = n /\ ~ Passed("bootloader") /\ Ran("bootloader", 2)
    BY <1>2, GrubAt DEF At
  <2>2. "backup" \in odd \/ EditedWith(sys.grub, GrubLength, odd)
    BY <1>0, <2>1 DEF GrubHere, EditedSoFar
  <2>3. sys'.grubCfg = sys.grub
    BY <1>2, GrubEffects
  <2> QED
    BY <1>0, <1>1, <2>2, <2>3 DEF EditedWith, RightCfg
<1>3. CASE Command = "driver-mkconfig"
  <2>1. At("install-drivers", 3)
    BY <1>3, GrubAt
  <2>2. Ran("bootloader", n)
    BY <1>1, <2>1, GrubFacts DEF At
  <2>3. Passed("bootloader")
    BY <1>0, <1>1, <2>1, <2>2, RanNow DEF At
  <2>4. Ran("bootloader", 2)
    BY <2>3, PassedRan
  <2>5. "backup" \in odd \/ EditedWith(sys.grub, 5, odd)
    BY <1>0, <2>3, <2>4 DEF GrubHere, EditedSoFar
  <2>6. sys'.grubCfg = sys.grub
    BY <1>3, GrubEffects
  <2> QED
    BY <1>0, <2>5, <2>6 DEF EditedWith, RightCfg
<1>4. CASE Command \notin {"grub-mkconfig", "driver-mkconfig"}
  <2>1. Ran("bootloader", n)
    BY <1>0, <1>1, <1>4, GrubFacts, GrubCommandsAt
  <2>2. sys'.grubCfg = sys.grubCfg
    BY <1>4, GrubFacts
  <2>3. RightCfg(sys.grubCfg, odd)
    BY <1>0, <2>1 DEF GrubHere, GrubLength
  <2> QED
    BY <1>0, <2>2, <2>3 DEF RightCfg
<1> QED
  BY <1>2, <1>3, <1>4

LEMMA EspRun ==
    ASSUME Inv, Run, ~ HasGrub, Ran("bootloader", 3)'
    PROVE  sys'.esp.built /\ sys'.esp.key = 0
<1>0. GrubHere /\ ImageKept /\ Command # "none" /\ Placed /\ cfg \in ConfigType
  BY GrubFacts DEF Placed, Inv, IInv
<1>1. CASE Command = "copy-initramfs"
  <2>1. At("bootloader", 3) /\ sys'.esp = sys.image
    BY <1>1, GrubAt, GrubEffects
  <2>2. DracutAt \in Nat
    BY DEF DracutAt
  <2>3. Ran("initramfs", DracutAt)
    BY <1>0, <2>1, <2>2, EarlierRan, Orders
  <2> QED
    BY <1>0, <2>1, <2>3, InitramfsIs DEF ImageKept, InitramfsInPlace
<1>2. CASE Command # "copy-initramfs"
  <2>1. Ran("bootloader", 3) /\ sys'.esp = sys.esp
    BY <1>0, <1>2, GrubFacts, CommandsAt
  <2> QED
    BY <1>0, <2>1 DEF GrubHere
<1> QED
  BY <1>1, <1>2

LEMMA GrubRun ==
    ASSUME Inv, Run
    PROVE  GrubKept'
<1>1. cfg' = cfg /\ (Recorded("bootloader")' <=> Recorded("bootloader"))
      /\ (Passed("bootloader")' <=> Passed("bootloader"))
  BY GrubFacts
<1>2. HasGrub' <=> HasGrub
  BY <1>1 DEF HasGrub
<1>3. EditedSoFar' = IF Passed("bootloader") THEN 5 ELSE op'
  BY <1>1 DEF EditedSoFar
<1>4. Ran("bootloader", Len(GrubOps(cfg)))' <=> \E n \in {GrubLength} : Ran("bootloader", n)'
  BY <1>1 DEF Ran, Reached, GrubLength
<1>5. HasGrub /\ Ran("bootloader", Len(GrubOps(cfg)))' => RightCfg(sys.grubCfg, odd)'
  BY <1>1, <1>4, GrubRunCfg DEF RightCfg
<1>6. HasGrub /\ Ran("bootloader", 2)' /\ "backup" \notin odd' =>
        EditedWith(sys.grub, EditedSoFar, odd)'
  BY <1>1, <1>3, GrubRunText DEF EditedWith
<1>7. "backup" \in odd' \/ Recorded("bootloader")' \/ Unedited(sys)'
  BY <1>1, GrubRunBackup DEF Unedited
<1> QED
  BY <1>1, <1>2, <1>5, <1>6, <1>7, GrubRunBackup, EspRun, GrubIsNext DEF GrubHere

LEMMA GrubWarn ==
    ASSUME Inv, Warn
    PROVE  GrubKept'
<1>0. Placed /\ op \in Nat \ {0} /\ GrubHere
  BY InvPlaced, GrubIs DEF Inv, IInv, Placed
<1>1. /\ Command # "none" /\ UNCHANGED << cfg, step, saved, sys >> /\ op' = op + 1 /\ running
      /\ odd' = odd \cup {Command} /\ Command # "backup"
      /\ \A n \in Nat : Ran("bootloader", n)' => Ran("bootloader", n) \/ At("bootloader", n)
      /\ Command \notin {"grub-package", "backup", "grub-mkconfig", "copy-initramfs"}
      /\ Command # "crypt-params"
  BY WarnFacts DEF WarnOnly
<1>2. /\ HasGrub' <=> HasGrub
      /\ Recorded("bootloader")' <=> Recorded("bootloader")
      /\ Passed("bootloader")' <=> Passed("bootloader")
  BY <1>1 DEF HasGrub, Recorded, Passed
<1>3. /\ HasGrub /\ Ran("bootloader", 2)' => Ran("bootloader", 2)
      /\ ~ HasGrub /\ Ran("bootloader", 3)' => Ran("bootloader", 3)
  BY <1>1, CommandsAt
<1>4. HasGrub /\ Ran("bootloader", Len(GrubOps(cfg)))' => RightCfg(sys.grubCfg, odd)'
  <2>1. Ran("bootloader", Len(GrubOps(cfg)))' <=> \E n \in {GrubLength} : Ran("bootloader", n)'
    BY <1>1 DEF Ran, Reached, GrubLength
  <2>2. GrubLength \in Nat
    BY GrubLengthIs
  <2>3. HasGrub /\ Ran("bootloader", Len(GrubOps(cfg)))' => Ran("bootloader", GrubLength)
    BY <1>1, <2>1, <2>2, GrubCommandsAt
  <2>4. RightCfg(sys.grubCfg, odd) => RightCfg(sys.grubCfg, odd)'
    BY <1>1 DEF RightCfg
  <2> QED
    BY <1>0, <2>3, <2>4 DEF GrubHere, GrubLength
<1>5. HasGrub /\ Ran("bootloader", 2)' /\ "backup" \notin odd' =>
        EditedWith(sys.grub, EditedSoFar, odd)'
  <2> SUFFICES ASSUME HasGrub, Ran("bootloader", 2)', "backup" \notin odd'
               PROVE  EditedWith(sys.grub, EditedSoFar, odd)'
    OBVIOUS
  <2>1. EditedWith(sys.grub, EditedSoFar, odd) /\ Ran("bootloader", 2)
    BY <1>0, <1>1, <1>3 DEF GrubHere
  <2>2. EditedSoFar' = IF Passed("bootloader") THEN 5 ELSE op'
    BY <1>2 DEF EditedSoFar
  <2>3. CASE Passed("bootloader")
    BY <1>1, <2>1, <2>2, <2>3 DEF EditedWith, EditedSoFar
  <2>4. CASE ~ Passed("bootloader")
    <3>1. Key = "bootloader" /\ op > 2 /\ step <= Len(Steps(cfg))
      BY <1>0, <2>1, <2>4, RanNow
    <3>2. \A n \in Nat : op = n => At("bootloader", n)
      BY <1>1, <3>1 DEF At
    <3>3. (op = 3 => "base-params" \in odd') /\ ~ (op = 4 /\ cfg.encrypt)
      BY <1>1, <3>2, GrubCommandsAt
    <3> QED
      BY <1>0, <1>1, <2>1, <2>2, <2>4, <3>1, <3>3 DEF EditedWith, EditedSoFar
  <2> QED
    BY <2>3, <2>4
<1>6. "backup" \in odd' \/ Recorded("bootloader")' \/ Unedited(sys)'
  BY <1>0, <1>1, <1>2 DEF GrubHere, Unedited
<1> QED
  BY <1>0, <1>1, <1>2, <1>3, <1>4, <1>5, <1>6, GrubIsNext DEF GrubHere

(* A kill or an error while the defaults are copied. *)
LEMMA GrubCut ==
    ASSUME Inv, CutInCopy
    PROVE  /\ HasGrub /\ ~ Ran("bootloader", 2)
           /\ "backup" \in odd' \/ Unedited(sys')
<1>0. Placed /\ op \in Nat \ {0} /\ GrubHere /\ IsTarget(sys)
  BY InvPlaced, GrubIs DEF Inv, IInv, Placed
<1>1. Command = "backup"
  BY DEF CutInCopy
<1>2. HasGrub /\ ~ Ran("bootloader", 2) /\ ~ Recorded("bootloader")
  BY <1>0, <1>1, Places, NotYet
<1>3. CASE sys.backup.exists
  <2>1. CopyCut(sys) = [ sys EXCEPT !.grub = CutShort ]
    BY <1>3 DEF CopyCut
  <2>2. CopyCut(sys).backup = sys.backup
    BY <1>0, <2>1, TouchesOne, PartsAre DEF Touches
  <2>3. sys'.backup = sys.backup
    BY <1>0, <2>2, CutTarget, PartsAre
  <2>4. "backup" \in odd \/ Unedited(sys)
    BY <1>0, <1>2 DEF GrubHere
  <2>5. odd \subseteq odd'
    BY <1>0, StillTarget DEF Still
  <2> QED
    BY <1>2, <1>3, <2>3, <2>4, <2>5 DEF Unedited
<1>4. CASE ~ sys.backup.exists
  BY <1>0, <1>2, <1>4, CutTarget
<1> QED
  BY <1>3, <1>4

LEMMA GrubStill ==
    ASSUME Inv, Still
    PROVE  GrubKept'
<1>0. Placed /\ op \in Nat \ {0} /\ saved \in Nat /\ GrubHere /\ IsTarget(sys)
  BY InvPlaced, GrubIs DEF Inv, IInv, Placed
<1>1. /\ cfg' = cfg /\ odd \subseteq odd'
      /\ sys'.grubCfg = sys.grubCfg /\ sys'.esp = sys.esp
      /\ ~ CutInCopy => sys'.grub = sys.grub /\ sys'.backup = sys.backup
  BY <1>0, StillTarget, PartsAre
<1>2. HasGrub' <=> HasGrub
  BY <1>1 DEF HasGrub
<1>3. Recorded("bootloader") => Recorded("bootloader")'
  <2>1. saved' = saved \/ saved' = step
    BY DEF Still, StepDone, SavingFails, HardFailure, Kill, CutInCopy, Interrupted, Resume, Over, vars
  <2>2. saved < step /\ step \in Nat
    BY <1>0 DEF Placed, AheadOfCopy
  <2>3. \A i \in 1..saved : i \in 1..saved'
    BY <1>0, <2>1, <2>2
  <2> QED
    BY <1>1, <2>3 DEF Recorded
<1>4. GrubLength \in 5..6 /\ (HasGrub => OpCount("bootloader") = GrubLength)
      /\ (~ HasGrub => OpCount("bootloader") = 4)
  BY Lengths, GrubLengthIs
<1>5. /\ HasGrub => \A n \in 1..GrubLength : Ran("bootloader", n)' => Ran("bootloader", n)
      /\ ~ HasGrub => (Ran("bootloader", 3)' => Ran("bootloader", 3))
  BY <1>0, <1>4, StillRan
<1>6. "backup" \in odd' \/ Recorded("bootloader")' \/ Unedited(sys)'
  <2>1. ~ CutInCopy => (Unedited(sys) => Unedited(sys)')
    BY <1>1 DEF Unedited
  <2>2. Unedited(sys') <=> Unedited(sys)'
    BY DEF Unedited
  <2> QED
    BY <1>0, <1>1, <1>3, <2>1, <2>2, GrubCut DEF GrubHere
<1>7. HasGrub /\ Ran("bootloader", 2)' => sys'.grub.exists
  BY <1>0, <1>1, <1>4, <1>5, GrubCut DEF GrubHere
<1>8. HasGrub /\ Ran("bootloader", 2)' =>
        "backup" \in odd' \/ Recorded("bootloader")' \/ sys'.backup.exists
  BY <1>0, <1>1, <1>3, <1>4, <1>5, GrubCut DEF GrubHere
<1>9. HasGrub /\ Ran("bootloader", Len(GrubOps(cfg)))' => RightCfg(sys.grubCfg, odd)'
  <2>1. Ran("bootloader", Len(GrubOps(cfg)))' <=> \E n \in {GrubLength} : Ran("bootloader", n)'
    BY <1>1 DEF Ran, Reached, GrubLength
  <2>2. HasGrub /\ Ran("bootloader", Len(GrubOps(cfg)))' => Ran("bootloader", GrubLength)
    BY <1>4, <1>5, <2>1
  <2>3. RightCfg(sys.grubCfg, odd) => RightCfg(sys.grubCfg, odd)'
    BY <1>1 DEF RightCfg
  <2> QED
    BY <1>0, <2>2, <2>3 DEF GrubHere, GrubLength
<1>10. ~ HasGrub /\ Ran("bootloader", 3)' => sys'.esp.built /\ sys'.esp.key = 0
  BY <1>0, <1>1, <1>5 DEF GrubHere
<1>11. HasGrub /\ Ran("bootloader", 2)' /\ "backup" \notin odd' =>
         EditedWith(sys.grub, EditedSoFar, odd)'
  <2> SUFFICES ASSUME HasGrub, Ran("bootloader", 2)', "backup" \notin odd'
               PROVE  EditedWith(sys.grub, EditedSoFar, odd)'
    OBVIOUS
  <2>1. EditedWith(sys.grub, EditedSoFar, odd) /\ Ran("bootloader", 2) /\ sys'.grub = sys.grub
    BY <1>0, <1>1, <1>4, <1>5, GrubCut DEF GrubHere
  <2>2. CASE StepDone
    <3>1. step' = step + 1 /\ op > OpCount(Key) /\ step <= Len(Steps(cfg))
      BY <2>2 DEF StepDone, OpCount
    <3>2. Passed("bootloader")'
      <4>1. CASE Passed("bootloader")
        <5>1. PICK i \in 1..Len(Steps(cfg)) : Steps(cfg)[i] = "bootloader" /\ i < step
          BY <4>1 DEF Passed
        <5>2. i < step' /\ Steps(cfg)[i] = "bootloader"
          BY <1>0, <3>1, <5>1 DEF Placed
        <5> QED
          BY <1>1, <5>2 DEF Passed
      <4>2. CASE ~ Passed("bootloader")
        <5>1. Key = "bootloader" /\ step \in Nat \ {0} /\ Len(Steps(cfg)) \in Nat
          BY <1>0, <2>1, <4>2, RanNow, PlanFacts DEF Placed
        <5>2. step \in 1..Len(Steps(cfg)) /\ Steps(cfg)[step] = "bootloader" /\ step < step'
          BY <3>1, <5>1 DEF Key
        <5> QED
          BY <1>1, <5>2 DEF Passed
      <4> QED
        BY <4>1, <4>2
    <3>3. ~ Passed("bootloader") => op > 5
      BY <1>0, <1>4, <2>1, <3>1, RanNow
    <3>4. EditedSoFar' = 5
      BY <3>2 DEF EditedSoFar
    <3> QED
      BY <1>0, <1>1, <2>1, <3>3, <3>4 DEF EditedWith, EditedSoFar
  <2>3. CASE Resume
    <3>1. Passed("bootloader") /\ Passed("bootloader")'
      BY <1>0, <2>3, ResumeRan
    <3>2. EditedSoFar = 5 /\ EditedSoFar' = 5
      BY <3>1 DEF EditedSoFar
    <3> QED
      BY <1>1, <2>1, <3>2 DEF EditedWith
  <2>4. CASE ~ StepDone /\ ~ Resume
    <3>1. step' = step /\ op' = op
      BY <2>4 DEF Still, SavingFails, HardFailure, Kill, CutInCopy, Interrupted, Over, vars
    <3>2. EditedSoFar' = EditedSoFar
      BY <1>1, <3>1, PassedSame DEF EditedSoFar
    <3> QED
      BY <1>1, <2>1, <3>2 DEF EditedWith
  <2> QED
    BY <2>2, <2>3, <2>4
<1> QED
  BY <1>2, <1>6, <1>7, <1>8, <1>9, <1>10, <1>11, GrubIsNext DEF GrubHere

-----------------------------------------------------------------------------
(* What needs one command only, and the files. *)

(* What one command puts in place. *)
FstabIs(s, o) == "swapon" \in o \/ s.fstab = IF FileSwap THEN "swap" ELSE "plain"

LEMMA FstabInPlace == InPlace("gen-fstab") <=> FstabIs(sys, odd)
BY DEF InPlace, FstabIs, FileSwap

LEMMA CrypttabInPlace == InPlace("write-crypttab") <=> sys.crypttab = CrypttabPass(cfg)
BY DEF InPlace

LEMMA OthersNext ==
    ASSUME cfg' = cfg
    PROVE  /\ InPlace("gen-fstab")' <=> FstabIs(sys', odd')
           /\ InPlace("write-crypttab")' <=> sys'.crypttab = CrypttabPass(cfg)
BY DEF InPlace, FstabIs, FileSwap, CrypttabPass

LEMMA OthersRun ==
    ASSUME Inv, Run
    PROVE  OthersKept'
<1>0. /\ Placed /\ op \in Nat \ {0} /\ cfg \in ConfigType /\ IsTarget(sys)
      /\ SwapKept /\ OthersKept
  BY InvPlaced DEF Inv, IInv, Placed
<1>1. /\ Command # "none" /\ cfg' = cfg /\ odd \subseteq odd' /\ running
      /\ sys' = Effect(Command, sys, cfg)
  BY RunFacts
<1>2. /\ Command # "genfstab" => sys'.fstab = sys.fstab
      /\ Command # "crypttab" => sys'.crypttab = sys.crypttab
      /\ Command # "useradd" => sys'.user = sys.user
      /\ Command # "passwd" => sys'.password = sys.password
  BY RunFacts, WritersAre, PartsAre
<1>3. \A k : \A n \in Nat : Ran(k, n)' /\ k # "luks-keyfile" => Ran(k, n) \/ At(k, n)
  BY RunRan
<1>4. Ran("gen-fstab", 1)' => FstabIs(sys', odd')
  <2>1. CASE Command = "genfstab"
    <3>1. At("gen-fstab", 1)
      BY <1>0, <2>1, Places
    <3>2. FileSwap => sys.swapOn \/ "swapon" \in odd
      BY <1>0, <1>1, <3>1, EarlierRan, Orders DEF SwapKept
    <3>3. sys'.fstab = IF sys.swapOn THEN "swap" ELSE "plain"
      BY <1>0, <1>1, <2>1, Genfstab
    <3> QED
      BY <1>0, <1>1, <3>2, <3>3 DEF SwapKept, FstabIs
  <2>2. CASE Command # "genfstab"
    <3>1. Ran("gen-fstab", 1)' => Ran("gen-fstab", 1)
      BY <1>1, <1>3, <2>2, CommandsAt
    <3> QED
      BY <1>0, <1>1, <1>2, <2>2, <3>1, FstabInPlace DEF OthersKept, FstabIs
  <2> QED
    BY <2>1, <2>2
<1>5. Ran("write-crypttab", 1)' => sys'.crypttab = CrypttabPass(cfg)
  <2>1. CASE Command = "crypttab"
    BY <1>0, <1>1, <2>1, WriteCrypttab
  <2>2. CASE Command # "crypttab"
    <3>1. Ran("write-crypttab", 1)' => Ran("write-crypttab", 1)
      BY <1>1, <1>3, <2>2, CommandsAt
    <3> QED
      BY <1>0, <1>2, <2>2, <3>1, CrypttabInPlace DEF OthersKept
  <2> QED
    BY <2>1, <2>2
<1>6. Ran("create-users", 1)' => sys'.user
  <2>1. CASE Command = "useradd"
    BY <1>0, <1>1, <2>1, Useradd
  <2>2. CASE Command # "useradd"
    <3>1. Ran("create-users", 1)' => Ran("create-users", 1)
      BY <1>1, <1>3, <2>2, CommandsAt
    <3> QED
      BY <1>0, <1>2, <2>2, <3>1 DEF OthersKept
  <2> QED
    BY <2>1, <2>2
<1>7. Ran("create-users", 2)' => sys'.password
  <2>1. CASE Command = "passwd"
    <3>1. Ran("create-users", 1)
      BY <1>0, <2>1, Places, Already
    <3>2. sys'.password = sys.user
      BY <1>0, <1>1, <2>1, Passwd
    <3> QED
      BY <1>0, <3>1, <3>2 DEF OthersKept
  <2>2. CASE Command # "passwd"
    <3>1. Ran("create-users", 2)' => Ran("create-users", 2)
      BY <1>1, <1>3, <2>2, CommandsAt
    <3> QED
      BY <1>0, <1>2, <2>2, <3>1 DEF OthersKept
  <2> QED
    BY <2>1, <2>2
<1> QED
  BY <1>1, <1>4, <1>5, <1>6, <1>7, OthersNext DEF OthersKept

LEMMA OthersRest ==
    ASSUME Inv, Warn \/ Still
    PROVE  OthersKept'
<1>0. Placed /\ IsTarget(sys) /\ OthersKept
  BY InvPlaced DEF Inv, IInv
<1>1. /\ cfg' = cfg /\ odd \subseteq odd'
      /\ sys'.fstab = sys.fstab /\ sys'.crypttab = sys.crypttab
      /\ sys'.user = sys.user /\ sys'.password = sys.password
  BY <1>0, WarnFacts, StillTarget, PartsAre
<1>2. /\ Ran("gen-fstab", 1)' => Ran("gen-fstab", 1)
      /\ Ran("write-crypttab", 1)' => Ran("write-crypttab", 1)
      /\ \A n \in 1..2 : Ran("create-users", n)' => Ran("create-users", n)
  <2>1. CASE Warn
    BY <2>1, WarnFacts, CommandsAt
  <2>2. CASE Still
    <3>1. OpCount("gen-fstab") = 1 /\ OpCount("write-crypttab") = 1 /\ OpCount("create-users") = 3
      BY Lengths
    <3> QED
      BY <1>0, <2>2, <3>1, StillRan
  <2> QED
    BY <2>1, <2>2
<1>3. FstabIs(sys, odd) => FstabIs(sys', odd')
  BY <1>1 DEF FstabIs
<1> QED
  BY <1>0, <1>1, <1>2, <1>3, FstabInPlace, CrypttabInPlace, OthersNext DEF OthersKept

(* Which commands have run, by their places. *)
LEMMA FilesRun ==
    ASSUME Inv, Run
    PROVE  FilesKept'
<1>0. Placed /\ op \in Nat \ {0} /\ IsTarget(sys) /\ FilesKept
  BY InvPlaced DEF Inv, IInv, Placed
<1>1. /\ UNCHANGED << cfg, step >> /\ odd \subseteq odd' /\ running /\ step <= Len(Steps(cfg))
      /\ sys' = Effect(Command, sys, cfg) /\ Command # "none"
  BY RunFacts
<1>2. sys.files \subseteq sys'.files /\ (Command \in Files => Command \in sys'.files)
  <2>1. CASE Command \in Files
    BY <1>0, <1>1, <2>1, WriteFile
  <2>2. CASE Command \notin Files
    BY <2>2, RunFacts, WritersAre, PartsAre
  <2> QED
    BY <2>1, <2>2
<1> SUFFICES ASSUME NEW i \in 1..Len(Steps(cfg)), NEW n \in 1..Len(Ops(Steps(cfg)[i], cfg)),
                    NEW f, f = Ops(Steps(cfg)[i], cfg)[n], Reached(i, n)', f \in Files \ odd'
             PROVE  f \in sys'.files
  BY <1>1 DEF FilesKept
<1>3. CASE Reached(i, n)
  BY <1>0, <1>1, <1>2, <1>3 DEF FilesKept
<1>4. CASE ~ Reached(i, n)
  <2>1. i = step /\ ~ (op > n) /\ op' > n
    BY <1>1, <1>4 DEF Reached
  <2>2. f = Ops(Key, cfg)[n] /\ n \in 1..Len(Ops(Key, cfg))
    BY <2>1 DEF Key
  <2>3. CASE Command = "check-keyfile"
    <3>1. Key = "luks-keyfile"
      BY <1>0, <2>3, Places DEF At
    <3>2. Ops(Key, cfg) = KeyfileOps
      BY <3>1 DEF Ops
    <3>3. f \in KeyOps
      BY <2>2, <3>2 DEF KeyfileOps, KeyOps
    <3> QED
      BY <3>3, FilesAre DEF KeyOps
  <2>4. CASE Command # "check-keyfile"
    <3>1. op' = op + 1
      BY <2>4 DEF Run
    <3>2. op = n
      BY <1>0, <2>1, <3>1
    <3>3. Command = f
      BY <1>1, <2>2, <3>2 DEF Command
    <3> QED
      BY <1>2, <3>3
  <2> QED
    BY <2>3, <2>4
<1> QED
  BY <1>3, <1>4

LEMMA FilesWarn ==
    ASSUME Inv, Warn
    PROVE  FilesKept'
<1>0. Placed /\ op \in Nat \ {0} /\ FilesKept
  BY InvPlaced DEF Inv, IInv, Placed
<1>1. /\ UNCHANGED << cfg, step, sys >> /\ op' = op + 1 /\ odd' = odd \cup {Command} /\ running
  BY WarnFacts
<1> SUFFICES ASSUME NEW i \in 1..Len(Steps(cfg)), NEW n \in 1..Len(Ops(Steps(cfg)[i], cfg)),
                    NEW f, f = Ops(Steps(cfg)[i], cfg)[n], Reached(i, n)', f \in Files \ odd'
             PROVE  f \in sys'.files
  BY <1>1 DEF FilesKept
<1>2. CASE Reached(i, n)
  BY <1>0, <1>1, <1>2 DEF FilesKept
<1>3. CASE ~ Reached(i, n)
  <2>1. i = step /\ op = n
    BY <1>0, <1>1, <1>3 DEF Reached
  <2>2. f = Ops(Key, cfg)[op] /\ op <= Len(Ops(Key, cfg)) /\ step <= Len(Steps(cfg))
    BY <2>1 DEF Key
  <2>3. Command = f
    BY <1>1, <2>2 DEF Command
  <2> QED
    BY <1>1, <2>3
<1> QED
  BY <1>2, <1>3

LEMMA FilesStill ==
    ASSUME Inv, Still
    PROVE  FilesKept'
<1>0. /\ Placed /\ op \in Nat \ {0} /\ IsTarget(sys) /\ FilesKept
      /\ saved \in Nat /\ step \in Nat /\ saved < step
  BY InvPlaced DEF Inv, IInv, Placed, AheadOfCopy
<1>1. cfg' = cfg /\ odd \subseteq odd' /\ sys'.files = sys.files
  BY <1>0, StillTarget, PartsAre
<1> SUFFICES ASSUME NEW i \in 1..Len(Steps(cfg)), NEW n \in 1..Len(Ops(Steps(cfg)[i], cfg)),
                    NEW f, f = Ops(Steps(cfg)[i], cfg)[n], Reached(i, n)', f \in Files \ odd'
             PROVE  f \in sys'.files
  BY <1>1 DEF FilesKept
<1>2. Reached(i, n)
  <2>1. CASE StepDone
    <3>1. step' = step + 1 /\ op' = 1 /\ op > Len(Ops(Key, cfg))
      BY <2>1 DEF StepDone
    <3>2. i < step \/ i = step
      BY <1>0, <3>1 DEF Reached
    <3>3. i = step => op > n
      BY <1>0, <3>1 DEF Key
    <3> QED
      BY <3>2, <3>3 DEF Reached
  <2>2. CASE Resume
    <3>1. step' = saved + 1 /\ op' = 1
      BY <2>2 DEF Resume
    <3>2. i < step
      BY <1>0, <3>1 DEF Reached
    <3> QED
      BY <3>2 DEF Reached
  <2>3. CASE ~ StepDone /\ ~ Resume
    <3>1. step' = step /\ op' = op
      BY <2>3 DEF Still, SavingFails, HardFailure, Kill, CutInCopy, Interrupted, Over, vars
    <3> QED
      BY <3>1 DEF Reached
  <2> QED
    BY <2>1, <2>2, <2>3
<1> QED
  BY <1>0, <1>1, <1>2 DEF FilesKept

-----------------------------------------------------------------------------
(* Types. *)

Numbered(s) ==
    /\ s.made \in Nat /\ s.slots \subseteq 1..s.made
    /\ s.keyfile \in 0..s.made /\ s.swapfile \in 0..s.made /\ s.resumeConf \in 0..s.made

Imaged(s) == s.image \in ImageType /\ s.fallback \in ImageType /\ s.esp \in ImageType

Texted(s) == s.grub \in TextType /\ s.backup \in TextType /\ s.grubCfg \in TextType

Typed(s) == Numbered(s) /\ Imaged(s) /\ Texted(s) /\ s.files \subseteq Files

LEMMA TypeIs ==
    TypeOK <=>
      /\ cfg \in ConfigType /\ step \in 1..(Len(Pipeline) + 1) /\ op \in Nat \ {0}
      /\ saved \in 1..Len(Pipeline)
      /\ running \in BOOLEAN /\ saving \in BOOLEAN /\ mounted \in BOOLEAN
      /\ faults \in 0..MaxFaults /\ misread \in Nat
      /\ DOMAIN sys = DOMAIN Empty /\ Typed(sys)
BY DEF TypeOK, Typed, Numbered, Imaged, Texted

LEMMA TypeIsNext ==
    TypeOK' <=>
      /\ cfg' \in ConfigType /\ step' \in 1..(Len(Pipeline) + 1) /\ op' \in Nat \ {0}
      /\ saved' \in 1..Len(Pipeline)
      /\ running' \in BOOLEAN /\ saving' \in BOOLEAN /\ mounted' \in BOOLEAN
      /\ faults' \in 0..MaxFaults /\ misread' \in Nat
      /\ DOMAIN sys' = DOMAIN Empty /\ Typed(sys')
BY DEF TypeOK, Typed, Numbered, Imaged, Texted

(* Numbers are given in order. *)
LEMMA NumberedRun ==
    ASSUME Inv, Run
    PROVE  Numbered(sys')
<1>0. /\ Placed /\ op \in Nat \ {0} /\ IsTarget(sys) /\ Numbered(sys) /\ KeyKept
      /\ sys' = Effect(Command, sys, cfg)
  BY InvPlaced, RunFacts DEF Inv, IInv, Placed, TypeOK, Numbered
<1>1. /\ Command \notin {"remove-swapfile", "make-swapfile"} => sys'.swapfile = sys.swapfile
      /\ Command # "resume-conf" => sys'.resumeConf = sys.resumeConf
      /\ Command \notin {"make-swapfile", "write-keyfile"} => sys'.made = sys.made
      /\ Command \notin {"check-keyfile", "write-keyfile"} => sys'.keyfile = sys.keyfile
      /\ Command # "add-key" => sys'.slots = sys.slots
  BY RunFacts, WritersAre, PartsAre
<1>2. CASE Command = "remove-swapfile"
  <2>1. sys'.swapfile = 0
    BY <1>0, <1>2, RemoveSwapfile
  <2> QED
    BY <1>0, <1>1, <1>2, <2>1 DEF Numbered
<1>3. CASE Command = "make-swapfile"
  <2>1. sys'.swapfile = sys.made + 1 /\ sys'.made = sys.made + 1
    BY <1>0, <1>3, MakeSwapfile DEF NextMade
  <2> QED
    BY <1>0, <1>1, <1>3, <2>1 DEF Numbered
<1>4. CASE Command = "resume-conf"
  <2>1. sys'.resumeConf = sys.swapfile
    BY <1>0, <1>4, ResumeConf
  <2> QED
    BY <1>0, <1>1, <1>4, <2>1 DEF Numbered
<1>5. CASE Command = "check-keyfile"
  <2>1. sys'.keyfile = IF sys.keyfile \in sys.slots THEN sys.keyfile ELSE 0
    BY <1>0, <1>5, CheckKeyfile
  <2> QED
    BY <1>0, <1>1, <1>5, <2>1 DEF Numbered
<1>6. CASE Command = "write-keyfile"
  <2>1. sys'.keyfile = sys.made + 1 /\ sys'.made = sys.made + 1
    BY <1>0, <1>6, WriteKeyfile DEF NextMade
  <2> QED
    BY <1>0, <1>1, <1>6, <2>1 DEF Numbered
<1>7. CASE Command = "add-key"
  <2>1. sys'.slots = sys.slots \cup {sys.keyfile}
    BY <1>0, <1>7, AddKey
  <2>2. sys.keyfile # 0
    BY <1>0, <1>7, Places, Already DEF KeyKept
  <2> QED
    BY <1>0, <1>1, <1>7, <2>1, <2>2 DEF Numbered
<1>8. CASE Command \notin {"remove-swapfile", "make-swapfile", "resume-conf", "check-keyfile",
                           "write-keyfile", "add-key"}
  BY <1>0, <1>1, <1>8 DEF Numbered
<1> QED
  BY <1>2, <1>3, <1>4, <1>5, <1>6, <1>7, <1>8

LEMMA ImagedRun ==
    ASSUME Inv, Run
    PROVE  Imaged(sys')
<1>0. /\ IsTarget(sys) /\ Numbered(sys) /\ Imaged(sys)
      /\ sys' = Effect(Command, sys, cfg)
  BY RunFacts DEF Inv, IInv, TypeOK, Numbered, Imaged
<1>1. /\ Command \notin {"dracut", "driver-dracut"} => sys'.image = sys.image
      /\ Command # "dracut-fallback" => sys'.fallback = sys.fallback
      /\ Command # "copy-initramfs" => sys'.esp = sys.esp
  BY RunFacts, WritersAre, PartsAre
<1>2. Dracut(sys) \in ImageType
  <2>1. sys.keyfile \in Nat /\ sys.resumeConf \in Nat
    BY <1>0 DEF Numbered
  <2> QED
    BY <2>1 DEF Dracut, ImageType
<1>3. CASE Command \in {"dracut", "driver-dracut"}
  BY <1>0, <1>1, <1>2, <1>3, DracutImage DEF Imaged
<1>4. CASE Command = "dracut-fallback"
  BY <1>0, <1>1, <1>2, <1>4, DracutFallback DEF Imaged
<1>5. CASE Command = "copy-initramfs"
  BY <1>0, <1>1, <1>5, CopyInitramfs DEF Imaged
<1>6. CASE Command \notin {"dracut", "driver-dracut", "dracut-fallback", "copy-initramfs"}
  BY <1>0, <1>1, <1>6 DEF Imaged
<1> QED
  BY <1>3, <1>4, <1>5, <1>6

LEMMA TextsTyped == NoText \in TextType /\ Pristine \in TextType /\ CutShort \in TextType
BY DEF NoText, Pristine, CutShort, TextType

LEMMA TextedRun ==
    ASSUME Inv, Run
    PROVE  Texted(sys')
<1>0. /\ IsTarget(sys) /\ Texted(sys) /\ sys' = Effect(Command, sys, cfg)
  BY RunFacts DEF Inv, IInv, TypeOK, Texted
<1>1. /\ Command \notin {"grub-package", "backup", "base-params", "crypt-params"} =>
           sys'.grub = sys.grub
      /\ Command \notin {"backup", "remove-backup"} => sys'.backup = sys.backup
      /\ Command \notin {"grub-mkconfig", "driver-mkconfig"} => sys'.grubCfg = sys.grubCfg
  BY GrubFacts
<1>2. CASE Command = "base-params"
  <2>1. [ sys.grub EXCEPT !.base = @ + 1 ] \in TextType
    BY <1>0 DEF Texted, TextType
  <2>2. sys'.grub = IF sys.grub.whole THEN [ sys.grub EXCEPT !.base = @ + 1 ] ELSE sys.grub
    BY <1>0, <1>2, BaseParams
  <2>3. sys'.grub \in TextType
    BY <1>0, <2>1, <2>2 DEF Texted
  <2> QED
    BY <1>0, <1>1, <1>2, <2>3 DEF Texted
<1>3. CASE Command = "crypt-params"
  <2>1. [ sys.grub EXCEPT !.crypt = @ + 1 ] \in TextType
    BY <1>0 DEF Texted, TextType
  <2>2. sys'.grub = IF sys.grub.whole THEN [ sys.grub EXCEPT !.crypt = @ + 1 ] ELSE sys.grub
    BY <1>0, <1>3, CryptParams
  <2>3. sys'.grub \in TextType
    BY <1>0, <2>1, <2>2 DEF Texted
  <2> QED
    BY <1>0, <1>1, <1>3, <2>3 DEF Texted
<1>4. CASE Command \in {"grub-package", "backup"}
  <2>1. sys'.grub \in { sys.grub, sys.backup, Pristine } /\ sys'.backup \in { sys.grub, sys.backup }
    BY <1>1, <1>4, GrubEffects
  <2> QED
    BY <1>0, <1>1, <1>4, <2>1, TextsTyped DEF Texted
<1>5. CASE Command = "remove-backup"
  BY <1>0, <1>1, <1>5, GrubEffects, TextsTyped DEF Texted
<1>6. CASE Command \in {"grub-mkconfig", "driver-mkconfig"}
  BY <1>0, <1>1, <1>6, GrubEffects DEF Texted
<1>7. CASE Command \notin {"grub-package", "backup", "base-params", "crypt-params",
                           "remove-backup", "grub-mkconfig", "driver-mkconfig"}
  BY <1>0, <1>1, <1>7 DEF Texted
<1> QED
  BY <1>2, <1>3, <1>4, <1>5, <1>6, <1>7

LEMMA TypedRun ==
    ASSUME Inv, Run
    PROVE  Typed(sys') /\ IsTarget(sys')
<1>0. /\ IsTarget(sys) /\ sys.files \subseteq Files /\ sys' = Effect(Command, sys, cfg)
      /\ IsTarget(sys')
  BY RunFacts DEF Inv, IInv, TypeOK, Framed
<1>1. sys'.files \subseteq Files
  <2>1. CASE Command \in Files
    BY <1>0, <2>1, WriteFile
  <2>2. CASE Command \notin Files
    BY <1>0, <2>2, RunFacts, WritersAre, PartsAre
  <2> QED
    BY <2>1, <2>2
<1> QED
  BY <1>0, <1>1, NumberedRun, ImagedRun, TextedRun DEF Typed

LEMMA TypedRest ==
    ASSUME Inv, Warn \/ Still
    PROVE  Typed(sys') /\ IsTarget(sys')
<1>0. IsTarget(sys) /\ Typed(sys)
  BY TypeIs DEF Inv, IInv
<1>1. CASE Warn
  BY <1>0, <1>1, WarnFacts
<1>2. CASE Still
  <2>1. /\ IsTarget(sys')
        /\ \A p \in Parts \ {"swapOn", "grub", "backup"} : sys'[p] = sys[p]
        /\ ~ CutInCopy => sys'.grub = sys.grub /\ sys'.backup = sys.backup
    BY <1>0, <1>2, StillTarget
  <2>2. sys'.grub \in { sys.grub, CutShort } /\ sys'.backup \in { sys.backup, CutShort }
    <3>1. CASE CutInCopy
      <4>1. sys'.grub = CopyCut(sys).grub /\ sys'.backup = CopyCut(sys).backup
        BY <1>0, <3>1, CutTarget, PartsAre
      <4>2. CopyCut(sys).grub \in { sys.grub, CutShort }
            /\ CopyCut(sys).backup \in { sys.backup, CutShort }
        BY <1>0, TouchesOne, PartsAre DEF CopyCut, Touches
      <4> QED
        BY <4>1, <4>2
    <3>2. CASE ~ CutInCopy
      BY <2>1, <3>2
    <3> QED
      BY <3>1, <3>2
  <2>3. Numbered(sys') /\ Imaged(sys') /\ sys'.files = sys.files
    BY <1>0, <2>1, PartsAre DEF Typed, Numbered, Imaged
  <2>4. Texted(sys')
    <3>1. sys'.grubCfg = sys.grubCfg
      BY <2>1, PartsAre
    <3> QED
      BY <1>0, <2>2, <3>1, TextsTyped DEF Typed, Texted
  <2> QED
    BY <1>0, <2>1, <2>3, <2>4 DEF Typed
<1> QED
  BY <1>1, <1>2

-----------------------------------------------------------------------------
(* The invariant. *)

(* The run stays ahead of its copy, and within the pipeline. *)
LEMMA AheadStep ==
    ASSUME Inv, [Next]_vars
    PROVE  AheadOfCopy' /\ saved' \in 1..Len(Pipeline) /\ op' \in Nat \ {0} /\ step' \in Nat \ {0}
<1>0. /\ step \in Nat \ {0} /\ saved \in Nat \ {0} /\ op \in Nat \ {0} /\ AheadOfCopy
      /\ saved \in 1..Len(Pipeline)
  BY DEF Inv, IInv, TypeOK
<1>1. Len(Steps(cfg)) \in Nat /\ Len(Steps(cfg)) <= Len(Pipeline) /\ Len(Pipeline) \in Nat
  <2>1. Len(Pipeline) \in Nat
    BY DEF Pipeline
  <2> QED
    BY <2>1, PlanFacts DEF Inv, IInv, TypeOK
<1>2. cfg' = cfg
  BY DEF Next, Run, StepDone, SavingFails, Warn, MisreadCheck, HardFailure, Kill, CutInCopy, Interrupted, Resume, Over, vars
<1>3. CASE Run
  BY <1>0, <1>2, <1>3, RunFacts DEF AheadOfCopy
<1>4. CASE StepDone
  <2>1. step <= Len(Steps(cfg)) /\ step' = step + 1 /\ op' = 1 /\ (saved' = step \/ saved' = saved)
    BY <1>4 DEF StepDone
  <2> QED
    BY <1>0, <1>1, <1>2, <2>1 DEF AheadOfCopy
<1>5. CASE Resume
  <2>1. step' = saved + 1 /\ op' = 1 /\ saved' = saved
    BY <1>5 DEF Resume
  <2> QED
    BY <1>0, <1>1, <1>2, <2>1 DEF AheadOfCopy
<1>6. CASE ~ Run /\ ~ StepDone /\ ~ Resume
  <2>1. step' = step /\ saved' = saved /\ (op' = op \/ op' = op + 1)
    BY <1>6 DEF Next, SavingFails, Warn, MisreadCheck, HardFailure, Kill, CutInCopy, Interrupted, Over, vars
  <2> QED
    BY <1>0, <1>2, <2>1 DEF AheadOfCopy
<1> QED
  BY <1>3, <1>4, <1>5, <1>6

LEMMA FlagsStep ==
    ASSUME TypeOK, [Next]_vars
    PROVE  /\ running' \in BOOLEAN /\ saving' \in BOOLEAN /\ mounted' \in BOOLEAN
           /\ faults' \in 0..MaxFaults /\ misread' \in Nat
<1>0. /\ running \in BOOLEAN /\ saving \in BOOLEAN /\ mounted \in BOOLEAN
      /\ faults \in 0..MaxFaults /\ MaxFaults \in Nat /\ misread \in Nat
  BY StepEffectsAssumption DEF TypeOK
<1>1. faults' \in 0..MaxFaults
  <2>1. CASE Resume
    <3>1. PICK b, d \in {0, 1} : faults' = faults + b + d /\ faults' <= MaxFaults
      BY <2>1 DEF Resume
    <3> QED
      BY <1>0, <3>1
  <2>2. CASE ~ Resume
    <3>1. faults' = faults \/ Fault
      BY <2>2 DEF Next, Run, StepDone, SavingFails, Warn, MisreadCheck, HardFailure, Kill,
        CutInCopy, Over, vars
    <3> QED
      BY <1>0, <3>1 DEF Fault
  <2> QED
    BY <2>1, <2>2
<1>2. misread' = misread \/ misread' = misread + 1
  BY DEF Next, Run, StepDone, SavingFails, Warn, MisreadCheck, HardFailure, Kill, CutInCopy,
    Interrupted, Resume, Over, vars
<1>3. running' \in BOOLEAN
  BY <1>0 DEF Next, Run, StepDone, SavingFails, Warn, MisreadCheck, HardFailure, Kill, CutInCopy,
    Interrupted, Resume, Over, vars
<1>4. mounted' \in BOOLEAN
  BY <1>0 DEF Next, Run, StepDone, SavingFails, Warn, MisreadCheck, HardFailure, Kill, CutInCopy,
    Interrupted, Resume, Over, vars, copies
<1>5. saving' \in BOOLEAN
  <2>1. CASE StepDone
    BY <1>0, <2>1 DEF StepDone
  <2>2. CASE ~ StepDone
    BY <1>0, <2>2 DEF Next, Run, SavingFails, Warn, MisreadCheck, HardFailure, Kill, CutInCopy,
      Interrupted, Resume, Over, vars
  <2> QED
    BY <2>1, <2>2
<1> QED
  BY <1>0, <1>1, <1>2, <1>3, <1>4, <1>5

LEMMA MisreadTouches ==
    ASSUME IsTarget(sys), MisreadCheck
    PROVE  Touches(sys, sys', {"keyfile"}) /\ sys'.keyfile = 0
<1>1. sys' = [ sys EXCEPT !.keyfile = 0 ]
  BY DEF MisreadCheck
<1> QED
  BY <1>1, TouchesOne, PartsAre

LEMMA TypedMisread ==
    ASSUME Inv, MisreadCheck
    PROVE  Typed(sys') /\ IsTarget(sys')
<1>1. IsTarget(sys) /\ Typed(sys)
  BY TypeIs DEF Inv, IInv
<1>2. /\ IsTarget(sys') /\ \A p \in Parts \ {"keyfile"} : sys'[p] = sys[p]
      /\ sys'.keyfile = 0
  BY <1>1, MisreadTouches DEF Touches
<1> QED
  BY <1>1, <1>2, PartsAre DEF Typed, Numbered, Imaged, Texted

LEMMA TypeStep ==
    ASSUME Inv, [Next]_vars
    PROVE  TypeOK' /\ AheadOfCopy' /\ IsTarget(sys)'
<1>1. TypeOK /\ cfg \in ConfigType
  BY DEF Inv, IInv, TypeOK
<1>2. Typed(sys') /\ IsTarget(sys')
  BY TypedRun, TypedRest, TypedMisread DEF Next, Still
<1>3. cfg' = cfg
  BY DEF Next, Run, StepDone, SavingFails, Warn, MisreadCheck, HardFailure, Kill, CutInCopy, Interrupted, Resume, Over, vars
<1>4. step' \in 1..(Len(Pipeline) + 1)
  <2>1. step' \in Nat \ {0} /\ step' <= Len(Steps(cfg)) + 1
    BY <1>3, AheadStep DEF AheadOfCopy
  <2>2. Len(Steps(cfg)) \in Nat /\ Len(Steps(cfg)) <= Len(Pipeline) /\ Len(Pipeline) \in Nat
    BY <1>1, PlanFacts DEF Pipeline
  <2> QED
    BY <2>1, <2>2
<1>5. DOMAIN sys' = DOMAIN Empty
  BY <1>2 DEF IsTarget, Parts
<1>6. IsTarget(sys)'
  BY <1>2 DEF IsTarget
<1> QED
  BY <1>1, <1>2, <1>3, <1>4, <1>5, <1>6, AheadStep, FlagsStep, TypeIsNext

(* A check of the keyfile that is misread: the run goes on in the keyfile   *)
(* step, before anything that uses the keyfile.                            *)
LEMMA MisreadKept ==
    ASSUME Inv, MisreadCheck
    PROVE  SwapKept' /\ ImageKept' /\ GrubKept' /\ OthersKept' /\ FilesKept'
           /\ (Ran("luks-keyfile", 2)' => sys'.keyfile # 0)
           /\ (Ran("luks-keyfile", 3)' => sys'.keyfile \in sys'.slots)
<1>0. /\ Placed /\ op \in Nat \ {0} /\ cfg \in ConfigType /\ IsTarget(sys)
      /\ SwapKept /\ ImageKept /\ GrubHere /\ OthersKept /\ FilesKept
  BY InvPlaced, GrubIs DEF Inv, IInv, Placed
<1>1. /\ UNCHANGED << cfg, step, saved, running, odd >> /\ op' = op + 1
      /\ Command = "check-keyfile" /\ running /\ step <= Len(Steps(cfg))
  BY DEF MisreadCheck, Command
<1>2. /\ IsTarget(sys') /\ \A p \in Parts \ {"keyfile"} : sys'[p] = sys[p]
  BY <1>0, MisreadTouches DEF Touches
<1>3. At("luks-keyfile", 1)
  BY <1>0, <1>1, Places
<1>4. \A k : \A n \in Nat : Ran(k, n)' => Ran(k, n) \/ At(k, n)
  BY <1>0, <1>1, RanOn
<1>5. \A n \in 2..3 : ~ Ran("luks-keyfile", n)'
  <2>1. \A n \in 2..3 : ~ Ran("luks-keyfile", n) /\ ~ At("luks-keyfile", n)
    BY <1>0, <1>3, NotYet DEF At
  <2> QED
    BY <1>4, <2>1
<1>6. \A k : \A n \in Nat : k # "luks-keyfile" => (Ran(k, n)' => Ran(k, n))
  BY <1>3, <1>4 DEF At
<1>7. SwapKept'
  BY <1>0, <1>1, <1>2, <1>6, PartsAre DEF SwapKept, FileSwap
<1>8. ImageKept'
  <2>1. DracutAt' = DracutAt /\ DracutAt \in Nat
    BY <1>1 DEF DracutAt
  <2>2. Ran("initramfs", DracutAt)' => \E n \in {DracutAt} : Ran("initramfs", n)'
    BY <2>1 DEF Ran, Reached
  <2>3. Ran("initramfs", DracutAt) => ~ (cfg.encrypt /\ HasGrub)
    BY <1>0, <1>3, <2>1, LaterNotRan, Orders
  <2>4. ~ (cfg.encrypt /\ HasGrub) => (InPlace("initramfs") => InPlace("initramfs")')
    BY <1>1, <1>2, PartsAre DEF InPlace, HasGrub
  <2>5. InPlace("install-drivers") => InPlace("install-drivers")'
    BY <1>1, <1>2, PartsAre DEF InPlace
  <2> QED
    BY <1>0, <1>1, <1>2, <1>6, <2>1, <2>2, <2>3, <2>4, <2>5, PartsAre DEF ImageKept, HasGrub
<1>9. GrubKept'
  <2>1. /\ sys'.grub = sys.grub /\ sys'.backup = sys.backup
        /\ sys'.grubCfg = sys.grubCfg /\ sys'.esp = sys.esp
    BY <1>2, PartsAre
  <2>2. /\ HasGrub' <=> HasGrub
        /\ Recorded("bootloader")' <=> Recorded("bootloader")
        /\ Passed("bootloader")' <=> Passed("bootloader")
    BY <1>1 DEF HasGrub, Recorded, Passed
  <2>3. Ran("bootloader", Len(GrubOps(cfg)))' <=> \E n \in {GrubLength} : Ran("bootloader", n)'
    BY <1>1 DEF Ran, Reached, GrubLength
  <2>4. GrubLength \in Nat
    BY GrubLengthIs
  <2>5. HasGrub /\ Ran("bootloader", Len(GrubOps(cfg)))' => RightCfg(sys.grubCfg, odd)'
    BY <1>0, <1>1, <1>6, <2>1, <2>3, <2>4 DEF GrubHere, GrubLength, RightCfg
  <2>6. Ran("bootloader", 2) => Passed("bootloader")
    BY <1>0, <1>3, RanNow DEF At
  <2>7. Ran("bootloader", 2) => EditedSoFar = 5 /\ EditedSoFar' = 5
    BY <2>2, <2>6 DEF EditedSoFar
  <2>8. HasGrub /\ Ran("bootloader", 2)' /\ "backup" \notin odd' =>
          EditedWith(sys.grub, EditedSoFar, odd)'
    BY <1>0, <1>1, <1>6, <2>1, <2>7 DEF GrubHere, EditedWith
  <2>9. "backup" \in odd' \/ Recorded("bootloader")' \/ Unedited(sys)'
    BY <1>0, <1>1, <2>1, <2>2 DEF GrubHere, Unedited
  <2> QED
    BY <1>0, <1>1, <1>6, <2>1, <2>2, <2>5, <2>8, <2>9, GrubIsNext DEF GrubHere
<1>10. OthersKept'
  BY <1>0, <1>1, <1>2, <1>6, PartsAre, FstabInPlace, CrypttabInPlace, OthersNext
    DEF OthersKept, FstabIs
<1>11. FilesKept'
  <2> SUFFICES ASSUME NEW i \in 1..Len(Steps(cfg)), NEW n \in 1..Len(Ops(Steps(cfg)[i], cfg)),
                      NEW f, f = Ops(Steps(cfg)[i], cfg)[n], Reached(i, n)', f \in Files \ odd'
               PROVE  f \in sys'.files
    BY <1>1 DEF FilesKept
  <2>1. sys'.files = sys.files
    BY <1>2, PartsAre
  <2>2. CASE Reached(i, n)
    BY <1>0, <1>1, <2>1, <2>2 DEF FilesKept
  <2>3. CASE ~ Reached(i, n)
    <3>1. i = step /\ op = n
      BY <1>0, <1>1, <2>3 DEF Reached
    <3>2. f = Command
      BY <1>1, <3>1 DEF Command, Key
    <3> QED
      BY <1>1, <3>2, FilesAre
  <2> QED
    BY <2>2, <2>3
<1> QED
  BY <1>5, <1>7, <1>8, <1>9, <1>10, <1>11

LEMMA InvStep == Inv /\ [Next]_vars => Inv'
<1> SUFFICES ASSUME Inv, [Next]_vars
             PROVE  Inv'
  OBVIOUS
<1>0. ExcludesKept'
  BY ExcludesStep DEF Inv, IInv
<1>1. CASE Run
  <2>1. KeyKept'
    BY <1>1, KeySlots, KeyRun DEF KeyKept
  <2> QED
    BY <1>0, <1>1, <2>1, TypeStep, SwapRun, ImageRun, GrubRun, OthersRun, FilesRun DEF Inv, IInv
<1>2. CASE Warn
  <2>1. KeyKept'
    BY <1>2, KeySlots, KeyRest DEF KeyKept
  <2> QED
    BY <1>0, <1>2, <2>1, TypeStep, SwapWarn, ImageWarn, GrubWarn, OthersRest, FilesWarn DEF Inv, IInv
<1>3. CASE Still
  <2>1. KeyKept'
    BY <1>3, KeySlots, KeyRest DEF KeyKept
  <2> QED
    BY <1>0, <1>3, <2>1, TypeStep, SwapStill, ImageStill, GrubStill, OthersRest, FilesStill
      DEF Inv, IInv
<1>4. CASE MisreadCheck
  <2>1. KeyKept'
    BY <1>4, KeySlots, MisreadKept DEF KeyKept
  <2> QED
    BY <1>0, <1>4, <2>1, TypeStep, MisreadKept DEF Inv, IInv
<1> QED
  BY <1>1, <1>2, <1>3, <1>4 DEF Next, Still

(* Nothing has run when the copy of mount-disks is there. *)
LEMMA InitPlan ==
    ASSUME Init
    PROVE  /\ cfg \in ConfigType /\ saved \in 1..Len(Steps(cfg)) /\ step = saved + 1 /\ op = 1
           /\ Len(Steps(cfg)) \in Nat /\ Len(Steps(cfg)) <= Len(Pipeline)
           /\ \A i \in 1..Len(Steps(cfg)) : \A n \in Nat \ {0} : Reached(i, n) =>
                Steps(cfg)[i] \in LiveSteps
<1> DEFINE s == Steps(cfg)
<1>1. cfg \in ConfigType /\ step = saved + 1 /\ op = 1
  BY StepEffectsAssumption DEF Init
<1>2. /\ Len(s) \in Nat /\ Len(s) <= Len(Pipeline)
      /\ \A i, j \in 1..Len(s) : s[i] = s[j] => i = j
  BY <1>1, PlanFacts
<1>3. PICK m \in 1..Len(s) : s[m] = "mount-disks" /\ \A j \in 1..m : s[j] \in LiveSteps
  BY <1>1, OrderAssumption
<1>4. saved \in 1..Len(s) /\ s[saved] = "mount-disks"
  <2>1. saved = CHOOSE i \in 1..Len(s) : s[i] = "mount-disks"
    BY DEF Init, IndexOf
  <2> HIDE DEF s
  <2> QED
    BY <1>3, <2>1
<1>5. saved = m
  BY <1>2, <1>3, <1>4
<1>6. ASSUME NEW i \in 1..Len(s), NEW n \in Nat \ {0}, Reached(i, n)
      PROVE  s[i] \in LiveSteps
  <2>1. i <= saved
    BY <1>1, <1>2, <1>4, <1>6 DEF Reached
  <2>2. i \in 1..m
    BY <1>2, <1>5, <2>1
  <2> QED
    BY <1>3, <2>2
<1> QED
  BY <1>1, <1>2, <1>4, <1>6

LEMMA InitInv == Init => Inv
<1> SUFFICES ASSUME Init
             PROVE  Inv
  OBVIOUS
<1>1. /\ cfg \in ConfigType /\ saved \in 1..Len(Steps(cfg)) /\ step = saved + 1 /\ op = 1
      /\ Len(Steps(cfg)) \in Nat /\ Len(Steps(cfg)) <= Len(Pipeline)
  BY InitPlan
<1>2. /\ sys = Empty /\ running = TRUE /\ saving = TRUE /\ faults = 0 /\ odd = {}
      /\ mounted = TRUE /\ misread = 0 /\ MaxFaults \in Nat
  BY StepEffectsAssumption DEF Init
<1>3. IsTarget(sys)
  BY <1>2 DEF IsTarget, Parts, Empty
<1>4. /\ sys.made = 0 /\ sys.slots = {} /\ sys.keyfile = 0 /\ sys.swapfile = 0
      /\ sys.resumeConf = 0 /\ sys.swapOn = FALSE /\ sys.keyConf = FALSE
      /\ sys.image = NoImage /\ sys.fallback = NoImage /\ sys.esp = NoImage
      /\ sys.grub = NoText /\ sys.backup = NoText /\ sys.grubCfg = NoText /\ sys.files = {}
  BY <1>2 DEF Empty
<1>5. Typed(sys)
  <2>1. NoImage \in ImageType
    BY DEF NoImage, ImageType
  <2> QED
    BY <1>4, <2>1, TextsTyped DEF Typed, Numbered, Imaged, Texted
<1>6. TypeOK
  <2>1. step \in 1..(Len(Pipeline) + 1) /\ saved \in 1..Len(Pipeline)
    BY <1>1 DEF Pipeline
  <2> QED
    BY <1>1, <1>2, <1>5, <2>1, TypeIs
<1>7. AheadOfCopy
  BY <1>1 DEF AheadOfCopy
<1>8. ASSUME NEW k, k \notin LiveSteps, NEW n \in Nat \ {0}
      PROVE  ~ Ran(k, n)
  BY <1>8, InitPlan DEF Ran
<1>9. /\ ~ Ran("setup-swap", 2) /\ ~ Ran("setup-swap", 3) /\ ~ Ran("setup-swap", 4)
      /\ ~ Ran("luks-keyfile", 2) /\ ~ Ran("luks-keyfile", 3)
      /\ ~ Ran("initramfs", 1) /\ ~ Ran("initramfs", DracutAt) /\ ~ Ran("install-drivers", 2)
      /\ ~ Ran("bootloader", 1) /\ ~ Ran("bootloader", 2) /\ ~ Ran("bootloader", 3)
      /\ ~ Ran("bootloader", GrubLength) /\ ~ Ran("gen-fstab", 1) /\ ~ Ran("write-crypttab", 1)
      /\ ~ Ran("create-users", 1) /\ ~ Ran("create-users", 2)
  <2>1. DracutAt \in 1..2 /\ GrubLength \in 5..6
    BY GrubLengthIs DEF DracutAt
  <2>2. LiveSteps \cap { "setup-swap", "luks-keyfile", "initramfs", "install-drivers",
                         "bootloader", "gen-fstab", "write-crypttab", "create-users" } = {}
    BY DEF LiveSteps
  <2> QED
    BY <1>8, <2>1, <2>2
<1>10. SwapKept /\ KeyKept /\ ExcludesKept /\ ImageKept /\ GrubKept /\ OthersKept
  <2>1. SwapKept
    BY <1>4, <1>9 DEF SwapKept
  <2>2. KeyKept
    BY <1>4, <1>9, SlotInit DEF KeyKept, SlotInv
  <2>0. ExcludesKept
    BY ExcludesInit
  <2>3. ImageKept
    BY <1>4, <1>9 DEF ImageKept
  <2>4. GrubKept
    BY <1>4, <1>9, TextsAre DEF GrubKept, GrubLength
  <2>5. OthersKept
    BY <1>9 DEF OthersKept
  <2> QED
    BY <2>0, <2>1, <2>2, <2>3, <2>4, <2>5
<1>11. FilesKept
  <2> SUFFICES ASSUME NEW i \in 1..Len(Steps(cfg)), NEW n \in 1..Len(Ops(Steps(cfg)[i], cfg)),
                      Reached(i, n)
               PROVE  FALSE
    BY DEF FilesKept
  <2>1. Steps(cfg)[i] \in LiveSteps
    BY InitPlan
  <2>2. Ops(Steps(cfg)[i], cfg) = << >>
    BY <2>1 DEF LiveSteps, Ops
  <2> QED
    BY <2>2
<1> QED
  BY <1>3, <1>6, <1>7, <1>10, <1>11 DEF Inv, IInv

LEMMA InvAlways == Spec => []Inv
BY InitInv, InvStep, PTL DEF Spec

(* What the run has passed is in place. *)
LEMMA PassedInPlace ==
    ASSUME Inv, NEW i \in 1..Len(Steps(cfg)), i < step, NEW k, k = Steps(cfg)[i]
    PROVE  InPlace(k)
<1>0. Placed /\ SwapKept /\ KeyKept /\ ImageKept /\ GrubHere /\ GrubKept /\ OthersKept /\ FilesKept
  BY InvPlaced, GrubIs DEF Inv, IInv
<1>1. \A n : Ran(k, n)
  BY PassedRan DEF Passed
<1>2. CASE k = "setup-swap"
  BY <1>0, <1>1, <1>2 DEF SwapKept, InPlace
<1>3. CASE k = "luks-keyfile"
  BY <1>0, <1>1, <1>3 DEF KeyKept, InPlace
<1>4. CASE k \in {"initramfs", "install-drivers"}
  BY <1>0, <1>1, <1>4 DEF ImageKept
<1>5. CASE k \in {"gen-fstab", "write-crypttab"}
  BY <1>0, <1>1, <1>5 DEF OthersKept
<1>6. CASE k = "bootloader"
  BY <1>0, <1>1, <1>6 DEF GrubKept
<1>7. CASE k = "create-users"
  BY <1>0, <1>1, <1>7 DEF OthersKept, InPlace
<1>8. CASE k \notin { "setup-swap", "luks-keyfile", "initramfs", "install-drivers", "gen-fstab",
                      "write-crypttab", "bootloader", "create-users" }
  <2>1. InPlace(k) <=> \A n \in 1..Len(Ops(k, cfg)) :
                         Ops(k, cfg)[n] \in Files \ odd => Ops(k, cfg)[n] \in sys.files
    BY <1>8 DEF InPlace
  <2>2. \A n : Reached(i, n)
    BY DEF Reached
  <2> QED
    BY <1>0, <2>1, <2>2 DEF FilesKept
<1> QED
  BY <1>2, <1>3, <1>4, <1>5, <1>6, <1>7, <1>8

LEMMA InvDone == Inv => DoneStepsHold
<1> SUFFICES ASSUME Inv, NEW i \in 1..saved
             PROVE  InPlace(Steps(cfg)[i])
  BY DEF DoneStepsHold
<1>1. /\ saved \in Nat /\ saved < step /\ step \in Nat /\ step <= Len(Steps(cfg)) + 1
      /\ Len(Steps(cfg)) \in Nat
  BY InvPlaced, PlanFacts DEF Placed, AheadOfCopy
<1>2. i \in 1..Len(Steps(cfg)) /\ i < step
  BY <1>1
<1> QED
  BY <1>2, PassedInPlace

LEMMA InvFinished == Inv => FinishedInPlace
<1> SUFFICES ASSUME Inv, step > Len(Steps(cfg)), NEW i \in 1..Len(Steps(cfg))
             PROVE  InPlace(Steps(cfg)[i])
  BY DEF FinishedInPlace
<1>1. Len(Steps(cfg)) \in Nat /\ step \in Nat
  BY InvPlaced, PlanFacts DEF Placed
<1>2. i < step
  BY <1>1
<1> QED
  BY <1>2, PassedInPlace

(* Every variable keeps its type and the target its parts: a key slot and   *)
(* an image only ever name a swap file or keyfile that was made.           *)
THEOREM TypeCorrect == Spec => []TypeOK
<1>1. Inv => TypeOK
  BY InvPlaced
<1> QED
  BY <1>1, InvAlways, PTL

(* What the steps of installer/steps.go have put in place is kept: the      *)
(* inductive invariant of the target, whatever is killed, fails or is       *)
(* resumed.                                                                 *)
THEOREM TargetKept == Spec => []IInv
<1>1. Inv => IInv
  BY DEF Inv
<1> QED
  BY <1>1, InvAlways, PTL

(* Every step the copy of the state records as done is in place on the      *)
(* target: a resume may leave it out.                                       *)
THEOREM RecordedStepsHold == Spec => []DoneStepsHold
BY InvDone, InvAlways, PTL

(* When the pipeline has come to its end every step of it is in place,      *)
(* recorded or not.                                                         *)
THEOREM FinishedInstallInPlace == Spec => []FinishedInPlace
BY InvFinished, InvAlways, PTL
=============================================================================
