---------------------------- MODULE Wizard_proofs ----------------------------
(***************************************************************************)
(* The wizard for any disks, any tables cfdisk may leave, and any number   *)
(* of edits and hasty keys: its types; what the configuration and the page *)
(* shown have in common; that each page whose promise is broken was paid   *)
(* for with a hasty key; that the layout chosen is one Layout's theorems   *)
(* are about; and that a page saves what it shows and its cursor visits    *)
(* what is shown.                                                          *)
(***************************************************************************)
EXTENDS Wizard, Layout_proofs, FiniteSetTheorems, TLAPS

(* The bag of messages under way: what a step does to it.                  *)
Counts(B) == \A x \in DOMAIN B : B[x] \in Nat /\ B[x] > 0

More(B, C, m) ==
    /\ DOMAIN C = DOMAIN B \cup {m}
    /\ \A x \in DOMAIN B : x # m => C[x] = B[x]
    /\ C[m] = IF m \in DOMAIN B THEN B[m] + 1 ELSE 1

Less(B, C, m) ==
    /\ DOMAIN C = IF B[m] = 1 THEN DOMAIN B \ {m} ELSE DOMAIN B
    /\ \A x \in DOMAIN C : x # m => C[x] = B[x]
    /\ m \in DOMAIN C => C[m] = B[m] - 1

LEMMA BagIsCounts ==
    ASSUME NEW B
    PROVE  IsABag(B) <=> B = [x \in DOMAIN B |-> B[x]] /\ Counts(B)
<1>1. ASSUME IsABag(B)
      PROVE  B = [x \in DOMAIN B |-> B[x]] /\ Counts(B)
  BY <1>1 DEF IsABag, Counts
<1>2. ASSUME B = [x \in DOMAIN B |-> B[x]], Counts(B)
      PROVE  IsABag(B)
  <2>1. \A x \in DOMAIN B : B[x] \in {n \in Nat : n > 0}
    BY <1>2 DEF Counts
  <2> QED
    BY <1>2, <2>1 DEF IsABag
<1> QED
  BY <1>1, <1>2

LEMMA PostBag ==
    ASSUME NEW B, IsABag(B), NEW m
    PROVE  IsABag(B (+) SetToBag({m})) /\ More(B, B (+) SetToBag({m}), m)
<1> DEFINE C == [e \in DOMAIN B \cup {m} |->
                   (IF e \in DOMAIN B THEN B[e] ELSE 0) + (IF e \in {m} THEN 1 ELSE 0)]
<1>1. B (+) SetToBag({m}) = C
  BY DEF (+), SetToBag
<1>2. Counts(B)
  BY BagIsCounts
<1>3. C = [x \in DOMAIN C |-> C[x]]
  OBVIOUS
<1>4. More(B, C, m)
  BY <1>2 DEF More, Counts
<1>5. Counts(C)
  BY <1>2 DEF Counts
<1> HIDE DEF C
<1> QED
  BY <1>1, <1>3, <1>4, <1>5, BagIsCounts

LEMMA DropBag ==
    ASSUME NEW B, IsABag(B), NEW m \in DOMAIN B
    PROVE  IsABag(B (-) SetToBag({m})) /\ Less(B, B (-) SetToBag({m}), m)
<1> DEFINE D == [e \in DOMAIN B |-> IF e \in {m} THEN B[e] - 1 ELSE B[e]]
           S == {d \in DOMAIN D : D[d] > 0}
           C == [e \in S |-> D[e]]
<1>1. B (-) SetToBag({m}) = C
  BY DEF (-), SetToBag
<1>2. Counts(B)
  BY BagIsCounts
<1>3. C = [x \in DOMAIN C |-> C[x]]
  OBVIOUS
<1>4. S = IF B[m] = 1 THEN DOMAIN B \ {m} ELSE DOMAIN B
  <2>1. \A x : x \in S <=> x \in DOMAIN B /\ (x = m => B[m] # 1)
    BY <1>2 DEF Counts
  <2> HIDE DEF S
  <2> QED
    BY <2>1
<1>5. Less(B, C, m)
  BY <1>4 DEF Less
<1>6. Counts(C)
  BY <1>2 DEF Counts
<1> HIDE DEF C
<1> QED
  BY <1>1, <1>3, <1>5, <1>6, BagIsCounts

(* Leading as a function of the bag. *)
Copies(B) == UNION { { <<m, n>> : n \in 1..B[m] } : m \in DOMAIN B \cap Forward }

LEMMA CopiesAre ==
    ASSUME NEW B
    PROVE  /\ \A m, n : m \in DOMAIN B /\ m \in Forward /\ n \in 1..B[m] => <<m, n>> \in Copies(B)
           /\ \A x \in Copies(B) :
                \E m, n : x = <<m, n>> /\ m \in DOMAIN B /\ m \in Forward /\ n \in 1..B[m]
           /\ \A m, n : <<m, n>> \in Copies(B) => m \in DOMAIN B /\ m \in Forward /\ n \in 1..B[m]
<1>1. \A x : x \in Copies(B) <=>
               \E m \in DOMAIN B \cap Forward : \E n \in 1..B[m] : x = <<m, n>>
  BY DEF Copies
<1>2. ASSUME NEW x \in Copies(B)
      PROVE  \E m, n : x = <<m, n>> /\ m \in DOMAIN B /\ m \in Forward /\ n \in 1..B[m]
  <2>1. PICK m \in DOMAIN B \cap Forward : \E n \in 1..B[m] : x = <<m, n>>
    BY <1>1
  <2>2. PICK n \in 1..B[m] : x = <<m, n>>
    BY <2>1
  <2> QED
    BY <2>1, <2>2
<1>3. ASSUME NEW m, NEW n, <<m, n>> \in Copies(B)
      PROVE  m \in DOMAIN B /\ m \in Forward /\ n \in 1..B[m]
  <2>1. PICK k, l : <<m, n>> = <<k, l>> /\ k \in DOMAIN B /\ k \in Forward /\ l \in 1..B[k]
    BY <1>2, <1>3
  <2> QED
    BY <2>1
<1> QED
  BY <1>1, <1>2, <1>3

(* A message that leads on is one copy more, or one less. *)
LEMMA MoreCopies ==
    ASSUME NEW B, Counts(B), NEW C, NEW m, More(B, C, m)
    PROVE  /\ m \notin Forward => Copies(C) = Copies(B)
           /\ m \in Forward => /\ Copies(C) = Copies(B) \cup {<<m, C[m]>>}
                               /\ <<m, C[m]>> \notin Copies(B)
<1>1. ASSUME NEW x \in Copies(B)
      PROVE  x \in Copies(C)
  <2>1. PICK k, n : x = <<k, n>> /\ k \in DOMAIN B /\ k \in Forward /\ n \in 1..B[k]
    BY CopiesAre
  <2>2. k \in DOMAIN C /\ n \in 1..C[k]
    BY <2>1 DEF More, Counts
  <2> QED
    BY <2>1, <2>2, CopiesAre
<1>2. ASSUME NEW x \in Copies(C)
      PROVE  x \in Copies(B) \/ (m \in Forward /\ x = <<m, C[m]>>)
  <2>1. PICK k, n : x = <<k, n>> /\ k \in DOMAIN C /\ k \in Forward /\ n \in 1..C[k]
    BY CopiesAre
  <2>2. (k \in DOMAIN B /\ n \in 1..B[k]) \/ (k = m /\ n = C[m])
    BY <2>1 DEF More, Counts
  <2> QED
    BY <2>1, <2>2, CopiesAre
<1>3. m \in Forward => <<m, C[m]>> \in Copies(C)
  <2>1. m \in DOMAIN C /\ C[m] \in 1..C[m]
    BY DEF More, Counts
  <2> QED
    BY <2>1, CopiesAre
<1>4. <<m, C[m]>> \notin Copies(B)
  <2>1. ~ (m \in DOMAIN B /\ C[m] \in 1..B[m])
    BY DEF More, Counts
  <2> QED
    BY <2>1, CopiesAre
<1> QED
  BY <1>1, <1>2, <1>3, <1>4

LEMMA LessCopies ==
    ASSUME NEW B, Counts(B), NEW C, NEW m \in DOMAIN B, Less(B, C, m)
    PROVE  /\ m \notin Forward => Copies(C) = Copies(B)
           /\ m \in Forward => /\ Copies(C) = Copies(B) \ {<<m, B[m]>>}
                               /\ <<m, B[m]>> \in Copies(B)
<1>1. ASSUME NEW x \in Copies(C)
      PROVE  x \in Copies(B) /\ x # <<m, B[m]>>
  <2>1. PICK k, n : x = <<k, n>> /\ k \in DOMAIN C /\ k \in Forward /\ n \in 1..C[k]
    BY CopiesAre
  <2>2. k \in DOMAIN B /\ n \in 1..B[k] /\ (k = m => n # B[m])
    BY <2>1 DEF Less, Counts
  <2> QED
    BY <2>1, <2>2, CopiesAre
<1>2. ASSUME NEW x \in Copies(B), x # <<m, B[m]>> \/ m \notin Forward
      PROVE  x \in Copies(C)
  <2>1. PICK k, n : x = <<k, n>> /\ k \in DOMAIN B /\ k \in Forward /\ n \in 1..B[k]
    BY CopiesAre
  <2>2. k = m => n # B[m]
    BY <1>2, <2>1
  <2>3. k \in DOMAIN C /\ n \in 1..C[k]
    BY <2>1, <2>2 DEF Less, Counts
  <2> QED
    BY <2>1, <2>3, CopiesAre
<1>3. m \in Forward => <<m, B[m]>> \in Copies(B)
  <2>1. B[m] \in 1..B[m]
    BY DEF Counts
  <2> QED
    BY <2>1, CopiesAre
<1> QED
  BY <1>1, <1>2, <1>3
-----------------------------------------------------------------------------
(* Types.  What a page shows, and what it writes, is of its type.          *)
ListsOK(ps) == DOMAIN ps = DiskSet /\ \A d \in DiskSet : ps[d] \in Tables[d]

LEMMA ListsArePartitions ==
    ASSUME NEW ps, ListsOK(ps), NEW d \in DiskSet
    PROVE  ps[d] \subseteq Partitions
BY DEF ListsOK, Partitions

LEMMA FirstDisk == Disks[1] \in DiskSet
BY WizardAssumption DEF DiskSet

(* A configuration stays one when a field is set to a value of its type.   *)
LEMMA KeysAre ==
    Keys = { "firmware", "disk", "scheme", "encrypt", "encPass", "swap", "swapSize",
             "mounts", "mode", "ssid", "zone", "locale", "keymap", "hostname", "root",
             "userName", "userPass", "kernel", "desktop", "packages", "bootloader" }
BY DEF Keys, Defaults

FieldOK(k, v) ==
    /\ k = "firmware" => v \in Firmwares
    /\ k = "disk" => v \in DiskSet \cup {None}
    /\ k = "scheme" => v \in Schemes
    /\ k = "encrypt" => v \in BOOLEAN
    /\ k = "encPass" => v \in Password
    /\ k = "root" => v \in Password
    /\ k = "userPass" => v \in Password
    /\ k = "swap" => v \in SwapModes
    /\ k = "swapSize" => v \in SwapSizes
    /\ k = "mounts" => v \in Mounts
    /\ k = "mode" => v \in ModesOrNone
    /\ k = "ssid" => v \in Text
    /\ k = "zone" => v \in NameTexts
    /\ k = "locale" => v \in NameTexts
    /\ k = "keymap" => v \in Text
    /\ k = "hostname" => v \in Text
    /\ k = "userName" => v \in Text
    /\ k = "kernel" => v \in Kernels
    /\ k = "desktop" => v \in Desktops
    /\ k = "packages" => v \subseteq PackageNames
    /\ k = "bootloader" => v \in Bootloaders

LEMMA SetField ==
    ASSUME NEW c, ConfigOK(c), NEW k \in Keys, NEW v, FieldOK(k, v)
    PROVE  ConfigOK([c EXCEPT ![k] = v])
<1> DEFINE d == [c EXCEPT ![k] = v]
<1>1. DOMAIN d = Keys /\ \A j \in Keys : d[j] = IF j = k THEN v ELSE c[j]
  BY DEF ConfigOK
<1> HIDE DEF d
<1>2. ConfigOK(d)
  BY <1>1, KeysAre DEF ConfigOK, FieldOK
<1> QED
  BY <1>2 DEF d

(* The pages one by one. *)
PageNames == { "welcome", "disk", "partitions", "network", "locale", "hostname",
               "users", "kernel", "desktop", "packages", "bootloader", "confirm" }

LEMMA PageIs == ASSUME NEW i \in 1..Len(Pages) PROVE Pages[i] \in PageNames
BY DEF Pages, PageNames

LEMMA FormsAre ==
    /\ Forms("disk") = [ disk : DiskSet, scheme : Schemes, encrypt : BOOLEAN,
                         pass : Password, conf : Password, swap : SwapModes,
                         size : Sizes ]
    /\ Forms("partitions") = [ listed : SUBSET Partitions, root : Mappings,
                               boot : Mappings, swap : Mappings ]
    /\ Forms("network") = [ mode : ModeChoices, ssid : Text ]
    /\ Forms("locale") = [ zone : NameTexts, locale : NameTexts, keymap : Text ]
    /\ Forms("hostname") = [ hostname : Text ]
    /\ Forms("users") = [ rootDone : BOOLEAN, root : Password, rootConf : Password,
                          name : Text, pass : Password, conf : Password ]
    /\ Forms("kernel") = [ kernel : Kernels ]
    /\ Forms("desktop") = [ desktop : Desktops ]
    /\ Forms("packages") = [ checked : SUBSET Entries ]
    /\ Forms("bootloader") = [ bootloader : Bootloaders ]
    /\ Forms("confirm") = [ button : {"install", "back"} ]
    /\ Forms("welcome") = [ welcome : {TRUE} ]
BY DEF Forms

(* The inputs of a page by name. *)
LEMMA InputsAre ==
    ASSUME NEW f
    PROVE  /\ f \in Forms("disk") =>
                f.disk \in DiskSet /\ f.scheme \in Schemes
                /\ f.encrypt \in BOOLEAN /\ f.pass \in Password
                /\ f.conf \in Password /\ f.swap \in SwapModes
                /\ f.size \in Sizes
           /\ f \in Forms("partitions") =>
                f.listed \in SUBSET Partitions /\ f.root \in Mappings
                /\ f.boot \in Mappings /\ f.swap \in Mappings
           /\ f \in Forms("network") =>
                f.mode \in ModeChoices /\ f.ssid \in Text
           /\ f \in Forms("locale") =>
                f.zone \in NameTexts /\ f.locale \in NameTexts /\ f.keymap \in Text
           /\ f \in Forms("hostname") =>
                f.hostname \in Text
           /\ f \in Forms("users") =>
                f.rootDone \in BOOLEAN /\ f.root \in Password
                /\ f.rootConf \in Password /\ f.name \in Text
                /\ f.pass \in Password /\ f.conf \in Password
           /\ f \in Forms("kernel") =>
                f.kernel \in Kernels
           /\ f \in Forms("desktop") =>
                f.desktop \in Desktops
           /\ f \in Forms("packages") =>
                f.checked \in SUBSET Entries
           /\ f \in Forms("bootloader") =>
                f.bootloader \in Bootloaders
           /\ f \in Forms("confirm") =>
                f.button \in {"install", "back"}
<1>1. ASSUME f \in Forms("disk")
      PROVE  f.disk \in DiskSet /\ f.scheme \in Schemes
             /\ f.encrypt \in BOOLEAN /\ f.pass \in Password
             /\ f.conf \in Password /\ f.swap \in SwapModes
             /\ f.size \in Sizes
  <2>1. f \in [ disk : DiskSet, scheme : Schemes, encrypt : BOOLEAN,
              pass : Password, conf : Password, swap : SwapModes,
              size : Sizes ]
    BY <1>1 DEF Forms
  <2> QED
    BY <2>1
<1>2. ASSUME f \in Forms("partitions")
      PROVE  f.listed \in SUBSET Partitions /\ f.root \in Mappings
             /\ f.boot \in Mappings /\ f.swap \in Mappings
  <2>1. f \in [ listed : SUBSET Partitions, root : Mappings,
              boot : Mappings, swap : Mappings ]
    BY <1>2 DEF Forms
  <2> QED
    BY <2>1
<1>3. ASSUME f \in Forms("network")
      PROVE  f.mode \in ModeChoices /\ f.ssid \in Text
  <2>1. f \in [ mode : ModeChoices, ssid : Text ]
    BY <1>3 DEF Forms
  <2> QED
    BY <2>1
<1>4. ASSUME f \in Forms("locale")
      PROVE  f.zone \in NameTexts /\ f.locale \in NameTexts /\ f.keymap \in Text
  <2>1. f \in [ zone : NameTexts, locale : NameTexts, keymap : Text ]
    BY <1>4 DEF Forms
  <2> QED
    BY <2>1
<1>5. ASSUME f \in Forms("hostname")
      PROVE  f.hostname \in Text
  <2>1. f \in [ hostname : Text ]
    BY <1>5 DEF Forms
  <2> QED
    BY <2>1
<1>6. ASSUME f \in Forms("users")
      PROVE  f.rootDone \in BOOLEAN /\ f.root \in Password
             /\ f.rootConf \in Password /\ f.name \in Text
             /\ f.pass \in Password /\ f.conf \in Password
  <2>1. f \in [ rootDone : BOOLEAN, root : Password, rootConf : Password,
              name : Text, pass : Password, conf : Password ]
    BY <1>6 DEF Forms
  <2> QED
    BY <2>1
<1>7. ASSUME f \in Forms("kernel")
      PROVE  f.kernel \in Kernels
  <2>1. f \in [ kernel : Kernels ]
    BY <1>7 DEF Forms
  <2> QED
    BY <2>1
<1>8. ASSUME f \in Forms("desktop")
      PROVE  f.desktop \in Desktops
  <2>1. f \in [ desktop : Desktops ]
    BY <1>8 DEF Forms
  <2> QED
    BY <2>1
<1>9. ASSUME f \in Forms("packages")
      PROVE  f.checked \in SUBSET Entries
  <2>1. f \in [ checked : SUBSET Entries ]
    BY <1>9 DEF Forms
  <2> QED
    BY <2>1
<1>10. ASSUME f \in Forms("bootloader")
      PROVE  f.bootloader \in Bootloaders
  <2>1. f \in [ bootloader : Bootloaders ]
    BY <1>10 DEF Forms
  <2> QED
    BY <2>1
<1>11. ASSUME f \in Forms("confirm")
      PROVE  f.button \in {"install", "back"}
  <2>1. f \in [ button : {"install", "back"} ]
    BY <1>11 DEF Forms
  <2> QED
    BY <2>1
<1> QED
  BY <1>1, <1>2, <1>3, <1>4, <1>5, <1>6, <1>7, <1>8, <1>9, <1>10, <1>11

LEMMA LoadIs ==
    ASSUME NEW c, NEW ps
    PROVE  /\ Load("disk", c, ps) = DiskForm(c)
           /\ Load("partitions", c, ps) = PartitionsForm(c, ps)
           /\ Load("network", c, ps) = NetworkForm(c)
           /\ Load("locale", c, ps) = LocaleForm(c)
           /\ Load("hostname", c, ps) = HostnameForm(c)
           /\ Load("users", c, ps) = UsersForm(c)
           /\ Load("kernel", c, ps) = KernelForm(c)
           /\ Load("desktop", c, ps) = DesktopForm(c)
           /\ Load("packages", c, ps) = PackagesForm(c)
           /\ Load("bootloader", c, ps) = BootloaderForm(c)
           /\ Load("confirm", c, ps) = ConfirmForm
           /\ Load("welcome", c, ps) = [ welcome |-> TRUE ]
BY DEF Load

LEMMA LoadTyped ==
    ASSUME NEW p \in PageNames, NEW c, ConfigOK(c), NEW ps, ListsOK(ps)
    PROVE  Load(p, c, ps) \in Forms(p)
<1>1. DiskForm(c) \in Forms("disk")
  <2> DEFINE d == IF c.disk \in DiskSet THEN c.disk ELSE Disks[1]
             s == IF c.swapSize > 0 THEN "good" ELSE ""
  <2>1. d \in DiskSet /\ s \in Sizes
    BY FirstDisk DEF Sizes, Text
  <2>2. DiskForm(c) = [ disk |-> d, scheme |-> c.scheme, encrypt |-> c.encrypt,
                        pass |-> c.encPass, conf |-> c.encPass, swap |-> c.swap,
                        size |-> s ]
    BY DEF DiskForm
  <2>3. /\ c.scheme \in Schemes /\ c.encrypt \in BOOLEAN /\ c.swap \in SwapModes
        /\ c.encPass \in Password
    BY DEF ConfigOK
  <2> HIDE DEF d, s
  <2> QED
    BY <2>1, <2>2, <2>3, FormsAre
<1>2. PartitionsForm(c, ps) \in Forms("partitions")
  <2> DEFINE l == IF c.disk \in DiskSet THEN ps[c.disk] ELSE {}
             Find(q) == IF q \in l THEN q ELSE None
  <2>1. l \in SUBSET Partitions
    BY ListsArePartitions
  <2>2. PartitionsForm(c, ps) = [ listed |-> l, root |-> Find(c.mounts.root),
                           boot |-> Find(c.mounts.boot), swap |-> Find(c.mounts.swap) ]
    BY DEF PartitionsForm
  <2>3. \A q : Find(q) \in Mappings
    BY <2>1 DEF Mappings
  <2> HIDE DEF l, Find
  <2> QED
    BY <2>1, <2>2, <2>3, FormsAre
<1>3. NetworkForm(c) \in Forms("network")
  <2> DEFINE m == IF c.mode \in ModeChoices THEN c.mode ELSE "ethernet"
  <2>1. m \in ModeChoices /\ c.ssid \in Text
    BY DEF ModeChoices, ConfigOK
  <2>2. NetworkForm(c) = [ mode |-> m, ssid |-> c.ssid ]
    BY DEF NetworkForm
  <2> HIDE DEF m
  <2> QED
    BY <2>1, <2>2, FormsAre
<1>4. LocaleForm(c) \in Forms("locale")
  <2>1. c.zone \in NameTexts /\ c.locale \in NameTexts /\ c.keymap \in Text
    BY DEF ConfigOK
  <2> QED
    BY <2>1, FormsAre DEF LocaleForm
<1>5. HostnameForm(c) \in Forms("hostname")
  <2>1. c.hostname \in Text
    BY DEF ConfigOK
  <2> QED
    BY <2>1, FormsAre DEF HostnameForm
<1>6. UsersForm(c) \in Forms("users")
  <2> DEFINE r == c.root # ""
  <2>1. /\ r \in BOOLEAN /\ c.root \in Password /\ c.userName \in Text
        /\ c.userPass \in Password
    BY DEF ConfigOK
  <2>2. UsersForm(c) = [ rootDone |-> r, root |-> c.root, rootConf |-> c.root,
                         name |-> c.userName, pass |-> c.userPass,
                         conf |-> c.userPass ]
    BY DEF UsersForm
  <2> HIDE DEF r
  <2> QED
    BY <2>1, <2>2, FormsAre
<1>7. KernelForm(c) \in Forms("kernel")
  BY FormsAre DEF KernelForm, Kernels
<1>8. DesktopForm(c) \in Forms("desktop")
  <2>1. c.desktop \in Desktops
    BY DEF ConfigOK
  <2> QED
    BY <2>1, FormsAre DEF DesktopForm
<1>9. PackagesForm(c) \in Forms("packages")
  <2> DEFINE s == { e \in Entries : e[2] \in c.packages }
  <2>1. s \in SUBSET Entries
    OBVIOUS
  <2>2. PackagesForm(c) = [ checked |-> s ]
    BY DEF PackagesForm
  <2> HIDE DEF s
  <2> QED
    BY <2>1, <2>2, FormsAre
<1>10. BootloaderForm(c) \in Forms("bootloader")
  <2> DEFINE b == IF c.bootloader = "systemd-boot" /\ c.firmware # "uefi"
                  THEN "grub" ELSE c.bootloader
  <2>1. b \in Bootloaders
    BY DEF ConfigOK, Bootloaders
  <2>2. BootloaderForm(c) = [ bootloader |-> b ]
    BY DEF BootloaderForm
  <2> HIDE DEF b
  <2> QED
    BY <2>1, <2>2, FormsAre
<1>11. ConfirmForm \in Forms("confirm") /\ [ welcome |-> TRUE ] \in Forms("welcome")
  BY FormsAre DEF ConfirmForm
<1> QED
  BY <1>1, <1>2, <1>3, <1>4, <1>5, <1>6, <1>7, <1>8, <1>9, <1>10, <1>11, LoadIs DEF PageNames
-----------------------------------------------------------------------------
(* What a page writes: the fields of K, and no other.                      *)
Changed(c, d, K) == DOMAIN d = Keys /\ \A k \in Keys \ K : d[k] = c[k]

LEMMA ChangedOK ==
    ASSUME NEW c, ConfigOK(c), NEW d, NEW K, Changed(c, d, K),
           \A k \in K : FieldOK(k, d[k])
    PROVE  ConfigOK(d)
<1>1. \A k \in Keys : FieldOK(k, c[k])
  BY KeysAre DEF ConfigOK, FieldOK
<1>2. \A k \in Keys : FieldOK(k, d[k])
  <2> TAKE k \in Keys
  <2>1. CASE k \in K
    BY <2>1
  <2>2. CASE k \notin K
    <3>1. d[k] = c[k]
      BY <2>2 DEF Changed
    <3> QED
      BY <1>1, <3>1
  <2> QED
    BY <2>1, <2>2
<1> QED
  BY <1>2, KeysAre DEF ConfigOK, FieldOK, Changed

DiskKeys == {"disk", "scheme", "encrypt", "encPass", "swap", "swapSize"}

LEMMA DiskSaveIs ==
    ASSUME NEW c, ConfigOK(c), NEW f \in Forms("disk")
    PROVE  LET d == DiskSave(f, c)
           IN  /\ Changed(c, d, DiskKeys) /\ ConfigOK(d)
               /\ d.disk = f.disk /\ d.scheme = f.scheme /\ f.disk \in DiskSet
               /\ d.encrypt = (f.encrypt /\ f.scheme # "manual")
               /\ d.encPass = IF d.encrypt THEN f.pass ELSE ""
               /\ d.swap = f.swap
               /\ d.swapSize = IF SwapSizeVisible(f) THEN SizeOf(f.size) ELSE c.swapSize
<1>1. /\ f.disk \in DiskSet /\ f.scheme \in Schemes /\ f.encrypt \in BOOLEAN
      /\ f.pass \in Password /\ f.swap \in SwapModes
  BY InputsAre
<1> DEFINE crypt == f.encrypt /\ f.scheme # "manual"
           pass == IF crypt THEN f.pass ELSE ""
           size == IF SwapSizeVisible(f) THEN SizeOf(f.size) ELSE c.swapSize
           d == [ c EXCEPT !.disk = f.disk, !.scheme = f.scheme, !.encrypt = crypt,
                           !.encPass = pass, !.swap = f.swap, !.swapSize = size ]
<1>2. DiskSave(f, c) = d
  BY DEF DiskSave
<1>3. crypt \in BOOLEAN /\ pass \in Password
  BY <1>1 DEF Password
<1>4. size \in SwapSizes
  BY DEF SizeOf, SwapSizes, ConfigOK
<1> HIDE DEF crypt, pass, size
<1>5. /\ DOMAIN d = Keys /\ \A k \in Keys \ DiskKeys : d[k] = c[k]
      /\ d.disk = f.disk /\ d.scheme = f.scheme /\ d.encrypt = crypt
      /\ d.encPass = pass /\ d.swap = f.swap /\ d.swapSize = size
  BY KeysAre DEF ConfigOK, DiskKeys
<1> HIDE DEF d
<1>6. \A k \in DiskKeys : FieldOK(k, d[k])
  BY <1>1, <1>3, <1>4, <1>5 DEF DiskKeys, FieldOK
<1>7. Changed(c, d, DiskKeys)
  BY <1>5 DEF Changed
<1>8. ConfigOK(d)
  BY <1>6, <1>7, ChangedOK
<1> QED
  BY <1>1, <1>2, <1>5, <1>7, <1>8 DEF crypt, pass, size

LEMMA PartitionsSaveIs ==
    ASSUME NEW c, ConfigOK(c), NEW f \in Forms("partitions")
    PROVE  LET d == Saved("partitions", f, c)
           IN  /\ Changed(c, d, {"mounts"}) /\ ConfigOK(d)
               /\ d.mounts = [root |-> f.root, boot |-> f.boot, swap |-> f.swap]
<1>1. f.root \in Mappings /\ f.boot \in Mappings /\ f.swap \in Mappings
  BY InputsAre
<1> DEFINE m == [root |-> f.root, boot |-> f.boot, swap |-> f.swap]
           d == [ c EXCEPT !.mounts = m ]
<1>2. Saved("partitions", f, c) = d
  BY DEF Saved
<1>3. m \in Mounts
  BY <1>1 DEF Mounts
<1> HIDE DEF m
<1>4. DOMAIN d = Keys /\ (\A k \in Keys \ {"mounts"} : d[k] = c[k]) /\ d.mounts = m
  BY KeysAre DEF ConfigOK
<1> HIDE DEF d
<1>5. \A k \in {"mounts"} : FieldOK(k, d[k])
  BY <1>3, <1>4 DEF FieldOK
<1>6. Changed(c, d, {"mounts"})
  BY <1>4 DEF Changed
<1>7. ConfigOK(d)
  BY <1>5, <1>6, ChangedOK
<1> QED
  BY <1>2, <1>4, <1>6, <1>7 DEF m

LEMMA NetworkSaveIs ==
    ASSUME NEW c, ConfigOK(c), NEW f \in Forms("network")
    PROVE  LET d == NetworkSave(f, c)
           IN  /\ Changed(c, d, {"mode", "ssid"}) /\ ConfigOK(d)
               /\ d.mode = f.mode /\ f.mode \in ModeChoices
               /\ d.ssid = IF f.mode = "wifi" THEN f.ssid ELSE c.ssid
<1>1. f.mode \in ModeChoices /\ f.ssid \in Text /\ c.ssid \in Text
  BY InputsAre DEF ConfigOK
<1> DEFINE s == IF f.mode = "wifi" THEN f.ssid ELSE c.ssid
           d == [ c EXCEPT !.mode = f.mode, !.ssid = s ]
<1>2. NetworkSave(f, c) = d
  BY DEF NetworkSave
<1>3. s \in Text
  BY <1>1
<1> HIDE DEF s
<1>4. /\ DOMAIN d = Keys /\ \A k \in Keys \ {"mode", "ssid"} : d[k] = c[k]
      /\ d.mode = f.mode /\ d.ssid = s
  BY KeysAre DEF ConfigOK
<1> HIDE DEF d
<1>5. \A k \in {"mode", "ssid"} : FieldOK(k, d[k])
  BY <1>1, <1>3, <1>4 DEF FieldOK, ModesOrNone
<1>6. Changed(c, d, {"mode", "ssid"})
  BY <1>4 DEF Changed
<1>7. ConfigOK(d)
  BY <1>5, <1>6, ChangedOK
<1> QED
  BY <1>1, <1>2, <1>4, <1>6, <1>7 DEF s

LEMMA LocaleSaveIs ==
    ASSUME NEW c, ConfigOK(c), NEW f \in Forms("locale")
    PROVE  LET d == Saved("locale", f, c)
           IN  /\ Changed(c, d, {"zone", "locale", "keymap"}) /\ ConfigOK(d)
               /\ d.zone = f.zone /\ d.locale = f.locale /\ d.keymap = f.keymap
<1>1. f.zone \in NameTexts /\ f.locale \in NameTexts /\ f.keymap \in Text
  BY InputsAre
<1> DEFINE d == [ c EXCEPT !.zone = f.zone, !.locale = f.locale, !.keymap = f.keymap ]
<1>2. Saved("locale", f, c) = d
  BY DEF Saved
<1>4. /\ DOMAIN d = Keys /\ \A k \in Keys \ {"zone", "locale", "keymap"} : d[k] = c[k]
      /\ d.zone = f.zone /\ d.locale = f.locale /\ d.keymap = f.keymap
  BY KeysAre DEF ConfigOK
<1> HIDE DEF d
<1>5. \A k \in {"zone", "locale", "keymap"} : FieldOK(k, d[k])
  BY <1>1, <1>4 DEF FieldOK
<1>6. Changed(c, d, {"zone", "locale", "keymap"})
  BY <1>4 DEF Changed
<1>7. ConfigOK(d)
  BY <1>5, <1>6, ChangedOK
<1> QED
  BY <1>2, <1>4, <1>6, <1>7

LEMMA HostnameSaveIs ==
    ASSUME NEW c, ConfigOK(c), NEW f \in Forms("hostname")
    PROVE  LET d == HostnameSave(f, c)
           IN  /\ Changed(c, d, {"hostname"}) /\ ConfigOK(d) /\ f.hostname \in Text
               /\ d.hostname = IF f.hostname = "" THEN "good" ELSE f.hostname
<1>1. f.hostname \in Text
  BY InputsAre
<1> DEFINE h == IF f.hostname = "" THEN "good" ELSE f.hostname
           d == [ c EXCEPT !.hostname = h ]
<1>2. HostnameSave(f, c) = d
  BY DEF HostnameSave
<1>3. h \in Text
  BY <1>1 DEF Text
<1> HIDE DEF h
<1>4. DOMAIN d = Keys /\ (\A k \in Keys \ {"hostname"} : d[k] = c[k]) /\ d.hostname = h
  BY KeysAre DEF ConfigOK
<1> HIDE DEF d
<1>5. \A k \in {"hostname"} : FieldOK(k, d[k])
  BY <1>3, <1>4 DEF FieldOK
<1>6. Changed(c, d, {"hostname"})
  BY <1>4 DEF Changed
<1>7. ConfigOK(d)
  BY <1>5, <1>6, ChangedOK
<1> QED
  BY <1>1, <1>2, <1>4, <1>6, <1>7 DEF h

LEMMA UserSaveIs ==
    ASSUME NEW c, ConfigOK(c), NEW f \in Forms("users")
    PROVE  LET d == UserSave(f, c)
           IN  /\ Changed(c, d, {"userName", "userPass"}) /\ ConfigOK(d)
               /\ d.userName = f.name /\ d.userPass = f.pass
<1>1. f.name \in Text /\ f.pass \in Password
  BY InputsAre
<1> DEFINE d == [ c EXCEPT !.userName = f.name, !.userPass = f.pass ]
<1>2. UserSave(f, c) = d
  BY DEF UserSave
<1>4. /\ DOMAIN d = Keys /\ \A k \in Keys \ {"userName", "userPass"} : d[k] = c[k]
      /\ d.userName = f.name /\ d.userPass = f.pass
  BY KeysAre DEF ConfigOK
<1> HIDE DEF d
<1>5. \A k \in {"userName", "userPass"} : FieldOK(k, d[k])
  BY <1>1, <1>4 DEF FieldOK
<1>6. Changed(c, d, {"userName", "userPass"})
  BY <1>4 DEF Changed
<1>7. ConfigOK(d)
  BY <1>5, <1>6, ChangedOK
<1> QED
  BY <1>2, <1>4, <1>6, <1>7

(* A single field. *)
LEMMA OneField ==
    ASSUME NEW c, ConfigOK(c), NEW k \in Keys, NEW v, FieldOK(k, v)
    PROVE  LET d == [c EXCEPT ![k] = v]
           IN  Changed(c, d, {k}) /\ ConfigOK(d) /\ d[k] = v
<1> DEFINE d == [c EXCEPT ![k] = v]
<1>1. DOMAIN d = Keys /\ (\A j \in Keys \ {k} : d[j] = c[j]) /\ d[k] = v
  BY DEF ConfigOK
<1>2. ConfigOK(d)
  BY SetField
<1> QED
  BY <1>1, <1>2 DEF Changed

LEMMA UsersSaveIs ==
    ASSUME NEW c, ConfigOK(c), NEW f \in Forms("users")
    PROVE  LET d == UsersSave(f, c)
           IN  /\ Changed(c, d, {"root", "userName", "userPass"}) /\ ConfigOK(d)
               /\ d.root = c.root \/ d.root # ""
               /\ d.root = IF f.root # "" /\ f.root = f.rootConf THEN f.root ELSE c.root
               /\ f.name # "" => d.userName = f.name /\ d.userPass = f.pass
               /\ f.name = "" => d.userName = c.userName /\ d.userPass = c.userPass
<1> DEFINE set == f.root # "" /\ f.root = f.rootConf
           d == IF set THEN [ c EXCEPT !.root = f.root ] ELSE c
           e == IF f.name # "" THEN UserSave(f, d) ELSE d
<1>1. UsersSave(f, c) = e
  BY DEF UsersSave
<1>2. f.root \in Password
  BY InputsAre
<1>3. /\ Changed(c, d, {"root"}) /\ ConfigOK(d)
      /\ d.root = IF set THEN f.root ELSE c.root
  <2>1. FieldOK("root", f.root)
    BY <1>2 DEF FieldOK
  <2>2. "root" \in Keys
    BY KeysAre
  <2>3. CASE set
    BY <2>1, <2>2, <2>3, OneField
  <2>4. CASE ~ set
    BY <2>4 DEF Changed, ConfigOK
  <2> QED
    BY <2>3, <2>4
<1> HIDE DEF d
<1>4. /\ Changed(d, e, {"userName", "userPass"}) /\ ConfigOK(e)
      /\ f.name # "" => e.userName = f.name /\ e.userPass = f.pass
      /\ f.name = "" => e.userName = d.userName /\ e.userPass = d.userPass
  <2>1. CASE f.name # ""
    BY <2>1, <1>3, UserSaveIs
  <2>2. CASE f.name = ""
    BY <2>2, <1>3 DEF Changed, ConfigOK
  <2> QED
    BY <2>1, <2>2
<1> HIDE DEF e
<1>5. Changed(c, e, {"root", "userName", "userPass"})
  BY <1>3, <1>4 DEF Changed
<1>6. e.root = d.root
  BY <1>4, KeysAre DEF Changed
<1>7. f.name = "" => e.userName = c.userName /\ e.userPass = c.userPass
  BY <1>3, <1>4, KeysAre DEF Changed
<1> QED
  BY <1>1, <1>3, <1>4, <1>5, <1>6, <1>7

LEMMA PackagesSaveIs ==
    ASSUME NEW c, ConfigOK(c), NEW f \in Forms("packages")
    PROVE  LET d == Saved("packages", f, c)
           IN  /\ Changed(c, d, {"packages"}) /\ ConfigOK(d)
               /\ d.packages = { e[2] : e \in f.checked }
<1>1. f.checked \subseteq Entries
  BY InputsAre
<1> DEFINE v == { e[2] : e \in f.checked }
<1>2. Saved("packages", f, c) = [ c EXCEPT !.packages = v ]
  BY DEF Saved
<1>3. v \subseteq PackageNames
  BY <1>1 DEF PackageNames
<1> HIDE DEF v
<1>4. FieldOK("packages", v) /\ "packages" \in Keys
  BY <1>3, KeysAre DEF FieldOK
<1>5. LET d == [ c EXCEPT !["packages"] = v ]
      IN  Changed(c, d, {"packages"}) /\ ConfigOK(d) /\ d["packages"] = v
  BY <1>4, OneField
<1> QED
  BY <1>2, <1>5 DEF v
-----------------------------------------------------------------------------
(* TypeOK is kept by every action. *)
LEMMA ValuesAre ==
    /\ Values("disk") = DiskSet /\ Values("scheme") = Schemes
    /\ Values("encrypt") = BOOLEAN
    /\ page = "disk" => Values("swap") = SwapModes
    /\ Values("pass") = Password /\ Values("conf") = Password
    /\ Values("rootConf") = Password
    /\ page = "users" => Values("root") = Password
    /\ page = "partitions" =>
         \A i \in {"root", "boot", "swap"} : Values(i) = form.listed \cup {None}
    /\ Values("mode") = ModeChoices
    /\ Values("kernel") = Kernels /\ Values("desktop") = Desktops
    /\ Values("checked") = { SymDiff(form.checked, {e}) : e \in Entries }
    /\ Values("bootloader") = IF cfg.firmware = "uefi" THEN Bootloaders ELSE {"grub"}
    /\ Values("button") = {"install", "back"}
    /\ Values("size") = Sizes
    /\ \A i \in {"zone", "locale"} : Values(i) = NameTexts
    /\ \A i \in {"ssid", "keymap", "hostname", "name"} : Values(i) = Text
BY DEF Values

(* An input is set to one of its values. *)
LEMMA EditTyped ==
    ASSUME page \in PageNames, form \in Forms(page),
           NEW i \in Reached, NEW v \in Values(i)
    PROVE  [ form EXCEPT ![i] = v ] \in Forms(page)
<1> DEFINE f == [ form EXCEPT ![i] = v ]
<1>1. CASE page = "disk"
  <2>1. form \in [ disk : DiskSet, scheme : Schemes, encrypt : BOOLEAN, pass : Password,
                   conf : Password, swap : SwapModes, size : Sizes ]
    BY <1>1, FormsAre
  <2>2. /\ i = "disk" => v \in DiskSet
        /\ i = "scheme" => v \in Schemes
        /\ i = "encrypt" => v \in BOOLEAN
        /\ i \in {"pass", "conf"} => v \in Password
        /\ i = "swap" => v \in SwapModes
        /\ i = "size" => v \in Sizes
    BY <1>1, ValuesAre
  <2>3. f \in [ disk : DiskSet, scheme : Schemes, encrypt : BOOLEAN, pass : Password,
                conf : Password, swap : SwapModes, size : Sizes ]
    BY <2>1, <2>2
  <2> QED
    BY <1>1, <2>3, FormsAre
<1>2. CASE page = "partitions"
  <2>1. form \in [ listed : SUBSET Partitions, root : Mappings, boot : Mappings,
                   swap : Mappings ]
    BY <1>2, FormsAre
  <2>2. i \in {"root", "boot", "swap"}
    BY <1>2 DEF Reached
  <2>3. v \in Mappings
    BY <1>2, <2>1, <2>2, ValuesAre DEF Mappings
  <2>4. f \in [ listed : SUBSET Partitions, root : Mappings, boot : Mappings,
                swap : Mappings ]
    BY <2>1, <2>2, <2>3
  <2> QED
    BY <1>2, <2>4, FormsAre
<1>3. CASE page = "network"
  <2>1. form \in [ mode : ModeChoices, ssid : Text ]
    BY <1>3, FormsAre
  <2>2. (i = "mode" => v \in ModeChoices) /\ (i = "ssid" => v \in Text)
    BY ValuesAre
  <2>3. f \in [ mode : ModeChoices, ssid : Text ]
    BY <2>1, <2>2
  <2> QED
    BY <1>3, <2>3, FormsAre
<1>4. CASE page = "locale"
  <2>1. form \in [ zone : NameTexts, locale : NameTexts, keymap : Text ]
    BY <1>4, FormsAre
  <2>2. (i \in {"zone", "locale"} => v \in NameTexts) /\ (i = "keymap" => v \in Text)
    BY ValuesAre
  <2>3. f \in [ zone : NameTexts, locale : NameTexts, keymap : Text ]
    BY <2>1, <2>2
  <2> QED
    BY <1>4, <2>3, FormsAre
<1>5. CASE page = "hostname"
  <2>1. form \in [ hostname : Text ]
    BY <1>5, FormsAre
  <2>2. i = "hostname" => v \in Text
    BY ValuesAre
  <2>3. f \in [ hostname : Text ]
    BY <2>1, <2>2
  <2> QED
    BY <1>5, <2>3, FormsAre
<1>6. CASE page = "users"
  <2>1. form \in [ rootDone : BOOLEAN, root : Password, rootConf : Password, name : Text,
                   pass : Password, conf : Password ]
    BY <1>6, FormsAre
  <2>2. i \in {"name", "pass", "conf", "root", "rootConf"}
    BY <1>6 DEF Reached
  <2>3. (i = "name" => v \in Text) /\ (i # "name" => v \in Password)
    BY <1>6, <2>2, ValuesAre
  <2>4. f \in [ rootDone : BOOLEAN, root : Password, rootConf : Password, name : Text,
                pass : Password, conf : Password ]
    BY <2>1, <2>2, <2>3
  <2> QED
    BY <1>6, <2>4, FormsAre
<1>7. CASE page = "kernel"
  <2>1. form \in [ kernel : Kernels ]
    BY <1>7, FormsAre
  <2>2. i = "kernel" => v \in Kernels
    BY ValuesAre
  <2>3. f \in [ kernel : Kernels ]
    BY <2>1, <2>2
  <2> QED
    BY <1>7, <2>3, FormsAre
<1>8. CASE page = "desktop"
  <2>1. form \in [ desktop : Desktops ]
    BY <1>8, FormsAre
  <2>2. i = "desktop" => v \in Desktops
    BY ValuesAre
  <2>3. f \in [ desktop : Desktops ]
    BY <2>1, <2>2
  <2> QED
    BY <1>8, <2>3, FormsAre
<1>9. CASE page = "packages"
  <2>1. form \in [ checked : SUBSET Entries ]
    BY <1>9, FormsAre
  <2>2. i = "checked" => v \in SUBSET Entries
    <3>1. form.checked \subseteq Entries
      BY <2>1
    <3> QED
      BY <3>1, ValuesAre DEF SymDiff
  <2>3. f \in [ checked : SUBSET Entries ]
    BY <2>1, <2>2
  <2> QED
    BY <1>9, <2>3, FormsAre
<1>10. CASE page = "bootloader"
  <2>1. form \in [ bootloader : Bootloaders ]
    BY <1>10, FormsAre
  <2>2. i = "bootloader" => v \in Bootloaders
    BY ValuesAre DEF Bootloaders
  <2>3. f \in [ bootloader : Bootloaders ]
    BY <2>1, <2>2
  <2> QED
    BY <1>10, <2>3, FormsAre
<1>11. CASE page = "confirm"
  <2>1. form \in [ button : {"install", "back"} ]
    BY <1>11, FormsAre
  <2>2. i = "button" => v \in {"install", "back"}
    BY ValuesAre
  <2>3. f \in [ button : {"install", "back"} ]
    BY <2>1, <2>2
  <2> QED
    BY <1>11, <2>3, FormsAre
<1>12. CASE page = "welcome"
  BY <1>12 DEF Reached
<1> QED
  BY <1>1, <1>2, <1>3, <1>4, <1>5, <1>6, <1>7, <1>8, <1>9, <1>10, <1>11, <1>12
     DEF PageNames

LEMMA SavedTyped ==
    ASSUME NEW p \in Saveable, NEW c, ConfigOK(c), NEW f \in Forms(p)
    PROVE  ConfigOK(Saved(p, f, c))
<1>1. CASE p = "disk"
  BY <1>1, DiskSaveIs DEF Saved
<1>2. CASE p = "partitions"
  BY <1>2, PartitionsSaveIs
<1>3. CASE p = "network"
  BY <1>3, NetworkSaveIs DEF Saved
<1>4. CASE p = "locale"
  BY <1>4, LocaleSaveIs
<1>5. CASE p = "hostname"
  BY <1>5, HostnameSaveIs DEF Saved
<1>6. CASE p = "users"
  BY <1>6, UsersSaveIs DEF Saved
<1>7. CASE p = "packages"
  BY <1>7, PackagesSaveIs
<1> QED
  BY <1>1, <1>2, <1>3, <1>4, <1>5, <1>6, <1>7 DEF Saveable

(* What Enter writes, page by page. *)
LEMMA EnteredIs ==
    ASSUME NEW f, NEW c
    PROVE  /\ Entered("users", f, c) = UserSave(f, c)
           /\ Entered("disk", f, c) = DiskSave(f, c)
           /\ Entered("partitions", f, c) = Saved("partitions", f, c)
           /\ Entered("network", f, c) = NetworkSave(f, c)
           /\ Entered("locale", f, c) = Saved("locale", f, c)
           /\ Entered("hostname", f, c) = HostnameSave(f, c)
           /\ Entered("packages", f, c) = Saved("packages", f, c)
           /\ Entered("kernel", f, c) = [ c EXCEPT !.kernel = f.kernel ]
           /\ Entered("desktop", f, c) = [ c EXCEPT !.desktop = f.desktop ]
           /\ Entered("bootloader", f, c) = [ c EXCEPT !.bootloader = f.bootloader ]
           /\ Entered("welcome", f, c) = c /\ Entered("confirm", f, c) = c
BY DEF Entered, Saveable, Saved

LEMMA EnteredTyped ==
    ASSUME NEW p \in PageNames, NEW c, ConfigOK(c), NEW f \in Forms(p)
    PROVE  ConfigOK(Entered(p, f, c))
<1>1. CASE p = "users"
  BY <1>1, EnteredIs, UserSaveIs
<1>2. CASE p = "disk"
  <2>1. ConfigOK(DiskSave(f, c))
    BY <1>2, DiskSaveIs
  <2> QED
    BY <1>2, <2>1, EnteredIs
<1>7. CASE p = "partitions"
  <2>1. ConfigOK(Saved("partitions", f, c))
    BY <1>7, PartitionsSaveIs
  <2> QED
    BY <1>7, <2>1, EnteredIs
<1>8. CASE p = "network"
  <2>1. ConfigOK(NetworkSave(f, c))
    BY <1>8, NetworkSaveIs
  <2> QED
    BY <1>8, <2>1, EnteredIs
<1>9. CASE p = "locale"
  <2>1. ConfigOK(Saved("locale", f, c))
    BY <1>9, LocaleSaveIs
  <2> QED
    BY <1>9, <2>1, EnteredIs
<1>10. CASE p = "hostname"
  <2>1. ConfigOK(HostnameSave(f, c))
    BY <1>10, HostnameSaveIs
  <2> QED
    BY <1>10, <2>1, EnteredIs
<1>11. CASE p = "packages"
  <2>1. ConfigOK(Saved("packages", f, c))
    BY <1>11, PackagesSaveIs
  <2> QED
    BY <1>11, <2>1, EnteredIs
<1>3. CASE p = "kernel"
  <2>1. FieldOK("kernel", f.kernel) /\ "kernel" \in Keys
    BY <1>3, InputsAre, KeysAre DEF FieldOK
  <2>2. ConfigOK([ c EXCEPT !.kernel = f.kernel ])
    BY <2>1, SetField
  <2> QED
    BY <1>3, <2>2, EnteredIs
<1>4. CASE p = "desktop"
  <2>1. FieldOK("desktop", f.desktop) /\ "desktop" \in Keys
    BY <1>4, InputsAre, KeysAre DEF FieldOK
  <2>2. ConfigOK([ c EXCEPT !.desktop = f.desktop ])
    BY <2>1, SetField
  <2> QED
    BY <1>4, <2>2, EnteredIs
<1>5. CASE p = "bootloader"
  <2>1. FieldOK("bootloader", f.bootloader) /\ "bootloader" \in Keys
    BY <1>5, InputsAre, KeysAre DEF FieldOK
  <2>2. ConfigOK([ c EXCEPT !.bootloader = f.bootloader ])
    BY <2>1, SetField
  <2> QED
    BY <1>5, <2>2, EnteredIs
<1>6. CASE p \in {"welcome", "confirm"}
  BY <1>6, EnteredIs
<1> QED
  BY <1>1, <1>2, <1>3, <1>4, <1>5, <1>6, <1>7, <1>8, <1>9, <1>10, <1>11
     DEF PageNames

LEMMA DefaultsTyped ==
    ASSUME NEW fw \in Firmwares
    PROVE  ConfigOK(Defaults(fw))
<1> DEFINE d == Defaults(fw)
<1>1. DOMAIN d = Keys
  BY DEF Defaults, Keys
<1>2. None \in Mappings /\ NoMounts \in Mounts
  BY DEF Mappings, NoMounts, Mounts
<1>3. d.swapSize \in SwapSizes
  BY DEF Defaults, SwapSizes
<1>4. ConfigOK(d)
  <2>1. /\ d.firmware = fw /\ d.disk = None /\ d.scheme = "guided" /\ d.encrypt = FALSE
        /\ d.encPass = "" /\ d.swap = "partition" /\ d.mounts = NoMounts
        /\ d.mode = "" /\ d.ssid = "" /\ d.zone = "" /\ d.locale = "good"
        /\ d.keymap = "good" /\ d.hostname = "good" /\ d.root = ""
        /\ d.userName = "" /\ d.userPass = "" /\ d.kernel = "linux" /\ d.desktop = "none"
        /\ d.packages = {} /\ d.bootloader = "grub"
    BY DEF Defaults
  <2>2. /\ "guided" \in Schemes /\ "" \in Password /\ "partition" \in SwapModes
        /\ "" \in ModesOrNone /\ "" \in Text /\ "good" \in Text
        /\ "" \in NameTexts /\ "good" \in NameTexts
        /\ "linux" \in Kernels /\ "none" \in Desktops /\ "grub" \in Bootloaders
    BY DEF Schemes, Password, SwapModes, ModesOrNone, Text, NameTexts, Names, Kernels,
           Desktops, Bootloaders
  <2> HIDE DEF d
  <2> QED
    BY <1>1, <1>2, <1>3, <2>1, <2>2 DEF ConfigOK
<1> QED
  BY <1>4
LEMMA MessagesPosted ==
    ASSUME NEW B, IsABag(B), DOMAIN B \subseteq Messages, NEW m \in Messages
    PROVE  /\ IsABag(B (+) SetToBag({m})) /\ DOMAIN (B (+) SetToBag({m})) \subseteq Messages
           /\ DOMAIN (B (+) SetToBag({m})) = DOMAIN B \cup {m}
<1> DEFINE C == B (+) SetToBag({m})
<1>1. IsABag(C) /\ More(B, C, m)
  BY PostBag
<1>2. DOMAIN C = DOMAIN B \cup {m}
  BY <1>1 DEF More
<1> QED
  BY <1>1, <1>2

LEMMA MessagesDropped ==
    ASSUME NEW B, IsABag(B), DOMAIN B \subseteq Messages, NEW m \in DOMAIN B
    PROVE  /\ IsABag(B (-) SetToBag({m})) /\ DOMAIN (B (-) SetToBag({m})) \subseteq Messages
<1> DEFINE C == B (-) SetToBag({m})
<1>1. IsABag(C) /\ Less(B, C, m)
  BY DropBag
<1>2. DOMAIN C \subseteq DOMAIN B
  BY <1>1 DEF Less
<1> QED
  BY <1>1, <1>2

LEMMA AsksIs ==
    ASSUME page \in PageNames, form \in Forms(page)
    PROVE  /\ Asks(page, form) \in Messages
           /\ \/ page = "confirm" /\ Asks(page, form) \in {<<"start">>, <<"back">>}
              \/ page = "disk" /\ form.disk \in DiskSet /\ form.scheme = "manual"
                   /\ Asks(page, form) = <<"cfdisk", form.disk>>
              \/ page # "confirm" /\ Asks(page, form) = <<"done">>
<1>1. CASE page = "disk" /\ form.scheme = "manual"
  <2>1. form.disk \in DiskSet
    BY <1>1, InputsAre
  <2>2. Asks(page, form) = <<"cfdisk", form.disk>>
    BY <1>1 DEF Asks
  <2> QED
    BY <1>1, <2>1, <2>2 DEF Messages, Forward
<1>2. CASE page = "confirm"
  <2>1. form.button \in {"install", "back"}
    BY <1>2, InputsAre
  <2>2. Asks(page, form) \in {<<"start">>, <<"back">>}
    BY <1>2, <2>1 DEF Asks
  <2> QED
    BY <1>2, <2>2 DEF Messages
<1>3. CASE page # "confirm" /\ ~ (page = "disk" /\ form.scheme = "manual")
  <2>1. Asks(page, form) = <<"done">>
    BY <1>3 DEF Asks
  <2> QED
    BY <1>3, <2>1 DEF Messages, Forward
<1> QED
  BY <1>1, <1>2, <1>3

LEMMA PageTyped == TypeOK => page \in PageNames
BY PageIs DEF TypeOK, page

LEMMA HastyTyped == TypeOK /\ Hasty => hurries' \in 0..MaxHurries
BY WizardAssumption DEF TypeOK, Hasty

LEMMA ListsTyped == TypeOK => ListsOK(parts)
BY DEF TypeOK, ListsOK

LEMMA TypeInit == Init => TypeOK
<1> SUFFICES ASSUME Init
             PROVE  TypeOK
  OBVIOUS
<1>1. PICK fw \in Firmwares : cfg = Defaults(fw)
  BY DEF Init
<1>2. ConfigOK(cfg)
  BY <1>1, DefaultsTyped
<1>3. step \in 1..Len(Pages) /\ page = "welcome"
  BY DEF Init, page, Pages
<1>4. DOMAIN parts = DiskSet /\ \A d \in DiskSet : parts[d] \in Tables[d]
  <2>1. parts = [ d \in DiskSet |-> CHOOSE t \in Tables[d] : TRUE ]
    BY DEF Init
  <2>2. \A d \in DiskSet : (CHOOSE t \in Tables[d] : TRUE) \in Tables[d]
    BY WizardAssumption
  <2> QED
    BY <2>1, <2>2
<1>5. form \in Forms(page)
  <2>1. form = Load("welcome", cfg, parts)
    BY DEF Init
  <2>2. ListsOK(parts) /\ "welcome" \in PageNames
    BY <1>4 DEF ListsOK, PageNames
  <2> QED
    BY <1>2, <1>3, <2>1, <2>2, LoadTyped
<1>6. IsABag(pending) /\ BagToSet(pending) = {}
  <2>1. pending = [e \in {} |-> 1]
    BY DEF Init, EmptyBag, SetToBag
  <2> QED
    BY <2>1 DEF IsABag, BagToSet
<1>7. /\ phase \in {"wizard", "install", "quit"} /\ advanced \in BOOLEAN
      /\ started \in Nat /\ odd \in 0..MaxOdd /\ hurries \in 0..MaxHurries
  <2>1. phase = "wizard" /\ advanced = FALSE /\ started = 0 /\ odd = 0 /\ hurries = 0
    BY DEF Init
  <2>2. MaxOdd \in Nat /\ MaxHurries \in Nat
    BY WizardAssumption
  <2>3. advanced \in BOOLEAN /\ phase \in {"wizard", "install", "quit"}
    BY <2>1
  <2>4. started \in Nat /\ odd \in 0..MaxOdd /\ hurries \in 0..MaxHurries
    BY <2>1, <2>2
  <2> QED
    BY <2>3, <2>4
<1> QED
  BY <1>2, <1>3, <1>4, <1>5, <1>6, <1>7 DEF TypeOK

(* Edits and picked suggestions alike set an input to one of its values. *)
Typed ==
    /\ \E i \in Reached : \E v \in Values(i) : form' = [ form EXCEPT ![i] = v ]
    /\ odd' \in 0..MaxOdd /\ phase = "wizard" /\ Hasty
    /\ UNCHANGED << phase, step, cfg, advanced, parts, pending, started >>
    /\ page' = page

LEMMA TypedIs == TypeOK /\ (Edit \/ Pick) => Typed
<1> SUFFICES ASSUME TypeOK, Edit \/ Pick
             PROVE  Typed
  OBVIOUS
<1>1. CASE Edit
  <2>1. \E i \in Reached : \E v \in Values(i) :
             /\ odd' = IF Usual(i, v) THEN odd ELSE odd + 1
             /\ odd' <= MaxOdd
             /\ form' = [ form EXCEPT ![i] = v ]
    BY <1>1 DEF Edit
  <2>2. odd' \in 0..MaxOdd
    BY <2>1, WizardAssumption DEF TypeOK
  <2> QED
    BY <1>1, <2>1, <2>2 DEF Edit, Typing, Typed, page
<1>2. CASE Pick
  <2>1. PICK i \in {"zone", "locale"} :
               \E v \in Suggestions(form[i]) : form' = [ form EXCEPT ![i] = v ]
    BY <1>2 DEF Pick
  <2>2. i \in Reached
    <3>1. page = "locale" /\ form \in Forms("locale")
      BY <1>2 DEF Pick, TypeOK
    <3>2. form \in [ zone : NameTexts, locale : NameTexts, keymap : Text ]
      BY <3>1, FormsAre
    <3>3. Reached = DOMAIN form
      BY <3>1 DEF Reached
    <3> QED
      BY <2>1, <3>2, <3>3
  <2>3. Suggestions(form[i]) \subseteq Values(i)
    <3>1. Values(i) = NameTexts
      BY <2>1, ValuesAre
    <3> QED
      BY <3>1 DEF Suggestions, NameTexts, Names
  <2>4. odd' \in 0..MaxOdd
    BY <1>2 DEF Pick, TypeOK
  <2> QED
    BY <1>2, <2>1, <2>2, <2>3, <2>4 DEF Pick, Typing, Typed, page
<1> QED
  BY <1>1, <1>2

LEMMA TypeTyped == TypeOK /\ Typed => TypeOK'
<1> SUFFICES ASSUME TypeOK, Typed
             PROVE  TypeOK'
  OBVIOUS
<1>1. PICK i \in Reached : \E v \in Values(i) : form' = [ form EXCEPT ![i] = v ]
  BY DEF Typed
<1>2. PICK v \in Values(i) : form' = [ form EXCEPT ![i] = v ]
  BY <1>1
<1>3. form' \in Forms(page)
  BY <1>2, PageTyped, EditTyped DEF TypeOK
<1>4. hurries' \in 0..MaxHurries
  BY HastyTyped DEF Typed
<1> QED
  BY <1>3, <1>4 DEF TypeOK, Typed

LEMMA TypeEnterRoot == TypeOK /\ EnterRoot => TypeOK'
<1> SUFFICES ASSUME TypeOK, EnterRoot
             PROVE  TypeOK'
  OBVIOUS
<1>1. /\ page = "users" /\ page' = page
      /\ UNCHANGED << phase, step, advanced, parts, pending, started, odd >>
  BY DEF EnterRoot, page
<1>2. form \in [ rootDone : BOOLEAN, root : Password, rootConf : Password, name : Text,
                 pass : Password, conf : Password ]
  BY <1>1, FormsAre DEF TypeOK
<1>3. cfg' = cfg \/ cfg' = [ cfg EXCEPT !.root = form.root ]
  BY DEF EnterRoot
<1>4. form' = [ form EXCEPT !.rootDone = TRUE ] \/ form' = [ form EXCEPT !.rootConf = "" ]
  BY DEF EnterRoot
<1>5. ConfigOK(cfg')
  <2>1. FieldOK("root", form.root) /\ "root" \in Keys
    BY <1>2, KeysAre DEF FieldOK
  <2>2. ConfigOK([ cfg EXCEPT !.root = form.root ])
    BY <2>1, SetField DEF TypeOK
  <2> QED
    BY <1>3, <2>2 DEF TypeOK
<1>6. form' \in Forms(page)
  <2>1. form' \in [ rootDone : BOOLEAN, root : Password, rootConf : Password, name : Text,
                    pass : Password, conf : Password ]
    BY <1>2, <1>4 DEF Password
  <2> QED
    BY <1>1, <2>1, FormsAre
<1>7. hurries' \in 0..MaxHurries
  BY HastyTyped DEF EnterRoot
<1> QED
  BY <1>1, <1>5, <1>6, <1>7 DEF TypeOK

LEMMA TypeEnter == TypeOK /\ Enter => TypeOK'
<1> SUFFICES ASSUME TypeOK, Enter
             PROVE  TypeOK'
  OBVIOUS
<1>1. /\ cfg' = Entered(page, form, cfg) /\ pending' = pending (+) SetToBag({Asks(page, form)})
      /\ page' = page
      /\ UNCHANGED << phase, step, form, advanced, parts, started, odd >>
  BY DEF Enter, Post, page
<1>2. page \in PageNames /\ form \in Forms(page) /\ ConfigOK(cfg)
  BY PageTyped DEF TypeOK
<1>3. ConfigOK(cfg')
  BY <1>1, <1>2, EnteredTyped
<1>4. IsABag(pending') /\ DOMAIN pending' \subseteq Messages
  BY <1>1, <1>2, AsksIs, MessagesPosted DEF TypeOK, BagToSet
<1>5. hurries' \in 0..MaxHurries
  BY HastyTyped DEF Enter
<1> QED
  BY <1>1, <1>3, <1>4, <1>5 DEF TypeOK, BagToSet

LEMMA TypeEsc == TypeOK /\ Esc => TypeOK'
<1> SUFFICES ASSUME TypeOK, Esc
             PROVE  TypeOK'
  OBVIOUS
<1>1. /\ page' = page
      /\ UNCHANGED << phase, step, cfg, advanced, parts, started, odd >>
      /\ \/ page = "users" /\ form' = [ form EXCEPT !.rootDone = FALSE ] /\ pending' = pending
         \/ pending' = pending (+) SetToBag({<<"back">>}) /\ form' = form
  BY DEF Esc, Post, page
<1>2. form' \in Forms(page)
  <2>1. CASE page = "users" /\ form' = [ form EXCEPT !.rootDone = FALSE ]
    <3>1. form \in [ rootDone : BOOLEAN, root : Password, rootConf : Password, name : Text,
                     pass : Password, conf : Password ]
      BY <2>1, FormsAre DEF TypeOK
    <3>2. form' \in [ rootDone : BOOLEAN, root : Password, rootConf : Password, name : Text,
                      pass : Password, conf : Password ]
      BY <2>1, <3>1
    <3> QED
      BY <2>1, <3>2, FormsAre
  <2>2. CASE form' = form
    BY <2>2 DEF TypeOK
  <2> QED
    BY <1>1, <2>1, <2>2
<1>3. IsABag(pending') /\ DOMAIN pending' \subseteq Messages
  <2>1. IsABag(pending) /\ DOMAIN pending \subseteq Messages /\ <<"back">> \in Messages
    BY DEF TypeOK, BagToSet, Messages
  <2>2. CASE pending' = pending
    BY <2>1, <2>2
  <2>3. CASE pending' = pending (+) SetToBag({<<"back">>})
    BY <2>1, <2>3, MessagesPosted
  <2> QED
    BY <1>1, <2>2, <2>3
<1>4. hurries' \in 0..MaxHurries
  BY HastyTyped DEF Esc
<1> QED
  BY <1>1, <1>2, <1>3, <1>4 DEF TypeOK, BagToSet

LEMMA TypeToggle == TypeOK /\ ToggleAdvanced => TypeOK'
<1> SUFFICES ASSUME TypeOK, ToggleAdvanced
             PROVE  TypeOK'
  OBVIOUS
<1>1. /\ cfg' = IF page \in Saveable THEN Saved(page, form, cfg) ELSE cfg
      /\ form' = Load(page, cfg', parts) /\ page' = page /\ advanced' = ~ advanced
      /\ UNCHANGED << phase, step, parts, pending, started, odd >>
  BY DEF ToggleAdvanced, page
<1>2. page \in PageNames /\ form \in Forms(page) /\ ConfigOK(cfg)
  BY PageTyped DEF TypeOK
<1>3. ConfigOK(cfg')
  BY <1>1, <1>2, SavedTyped
<1>4. form' \in Forms(page)
  BY <1>1, <1>2, <1>3, ListsTyped, LoadTyped
<1>5. hurries' \in 0..MaxHurries
  BY HastyTyped DEF ToggleAdvanced
<1> QED
  BY <1>1, <1>3, <1>4, <1>5 DEF TypeOK

LEMMA TypeQuit == TypeOK /\ Quit => TypeOK'
<1> SUFFICES ASSUME TypeOK, Quit
             PROVE  TypeOK'
  OBVIOUS
<1>1. /\ phase' = "quit" /\ pending' = EmptyBag /\ step' = 1
      /\ cfg' = Defaults(cfg.firmware) /\ advanced' = FALSE
      /\ form' = Load("welcome", cfg', parts)
      /\ UNCHANGED << parts, started, odd, hurries >>
  BY DEF Quit
<1>2. page' = "welcome" /\ step' \in 1..Len(Pages)
  BY <1>1 DEF page, Pages
<1>3. ConfigOK(cfg')
  <2>1. cfg.firmware \in Firmwares
    BY DEF TypeOK, ConfigOK
  <2> QED
    BY <1>1, <2>1, DefaultsTyped
<1>4. form' \in Forms("welcome")
  BY <1>1, <1>3, ListsTyped, LoadTyped DEF PageNames
<1>5. IsABag(pending') /\ BagToSet(pending') = {}
  <2>1. pending' = [e \in {} |-> 1]
    BY <1>1 DEF EmptyBag, SetToBag
  <2> QED
    BY <2>1 DEF IsABag, BagToSet
<1> QED
  BY <1>1, <1>2, <1>3, <1>4, <1>5 DEF TypeOK

(* A message that is dropped, or replaced by another one. *)
LEMMA TypeShow ==
    ASSUME TypeOK, NEW s \in 1..Len(Pages), Show(s)
    PROVE  step' \in 1..Len(Pages) /\ form' \in Forms(page')
<1>1. step' = s /\ form' = Load(Pages[s], cfg, parts) /\ page' = Pages[s]
  BY DEF Show, page
<1>2. Pages[s] \in PageNames
  BY PageIs
<1> QED
  BY <1>1, <1>2, ListsTyped, LoadTyped DEF TypeOK

LEMMA StepShow ==
    ASSUME TypeOK, Done \/ Back
    PROVE  \/ UNCHANGED << step, form >>
           \/ \E s \in 1..Len(Pages) : Show(s)
<1>1. Len(Pages) = 12 /\ step \in 1..12
  BY DEF TypeOK, Pages
<1>2. ASSUME Done
      PROVE  UNCHANGED << step, form >> \/ \E s \in 1..Len(Pages) : Show(s)
  <2> DEFINE next == IF step < Len(Pages) /\ Guided(step + 1) THEN step + 2 ELSE step + 1
  <2>1. IF next <= Len(Pages) THEN Show(next) ELSE UNCHANGED << step, form >>
    BY <1>2 DEF Done
  <2>2. next \in Nat /\ next >= 1
    BY <1>1
  <2> HIDE DEF next
  <2> QED
    BY <1>1, <2>1, <2>2
<1>3. ASSUME Back
      PROVE  UNCHANGED << step, form >> \/ \E s \in 1..Len(Pages) : Show(s)
  <2> DEFINE prev == IF step > 1 /\ Guided(step - 1) THEN step - 2 ELSE step - 1
  <2>1. IF prev >= 1 THEN Show(prev) ELSE UNCHANGED << step, form >>
    BY <1>3 DEF Back
  <2>2. prev \in Int /\ prev <= 12
    BY <1>1
  <2> HIDE DEF prev
  <2> QED
    BY <1>1, <2>1, <2>2
<1> QED
  BY <1>2, <1>3

LEMMA TypeDeliver == TypeOK /\ Deliver => TypeOK'
<1> SUFFICES ASSUME TypeOK, Deliver
             PROVE  TypeOK'
  OBVIOUS
<1>0. IsABag(pending) /\ DOMAIN pending \subseteq Messages
  BY DEF TypeOK, BagToSet
<1>1. ASSUME Done \/ Back
      PROVE  TypeOK'
  <2>1. PICK m \in DOMAIN pending : pending' = pending (-) SetToBag({m})
    BY <1>1 DEF Done, Back, Take, Drop, BagIn, BagToSet
  <2>2. UNCHANGED << phase, cfg, advanced, parts, started, odd, hurries >>
    BY <1>1 DEF Done, Back
  <2>3. IsABag(pending') /\ DOMAIN pending' \subseteq Messages
    BY <1>0, <2>1, MessagesDropped
  <2>4. step' \in 1..Len(Pages) /\ form' \in Forms(page')
    <3>1. CASE UNCHANGED << step, form >>
      BY <3>1 DEF TypeOK, page
    <3>2. CASE \E s \in 1..Len(Pages) : Show(s)
      BY <3>2, TypeShow
    <3> QED
      BY <1>1, <3>1, <3>2, StepShow
  <2> QED
    BY <2>2, <2>3, <2>4 DEF TypeOK, BagToSet
<1>2. ASSUME Cfdisk
      PROVE  TypeOK'
  <2>1. PICK d \in DiskSet :
          /\ Take(<<"cfdisk", d>>)
          /\ \E t \in Tables[d] : parts' = [ parts EXCEPT ![d] = t ]
          /\ pending' = (pending (-) SetToBag({<<"cfdisk", d>>})) (+) SetToBag({<<"done">>})
          /\ UNCHANGED << phase, step, form, cfg, advanced, started, odd, hurries >>
    BY <1>2 DEF Cfdisk
  <2>2. <<"cfdisk", d>> \in DOMAIN pending
    BY <2>1 DEF Take, BagIn, BagToSet
  <2>3. /\ IsABag(pending (-) SetToBag({<<"cfdisk", d>>}))
        /\ DOMAIN (pending (-) SetToBag({<<"cfdisk", d>>})) \subseteq Messages
    BY <1>0, <2>2, MessagesDropped
  <2>4. <<"done">> \in Messages
    BY DEF Messages, Forward
  <2>5. IsABag(pending') /\ DOMAIN pending' \subseteq Messages
    BY <2>1, <2>3, <2>4, MessagesPosted
  <2>6. DOMAIN parts' = DiskSet /\ \A e \in DiskSet : parts'[e] \in Tables[e]
    <3>1. PICK t \in Tables[d] : parts' = [ parts EXCEPT ![d] = t ]
      BY <2>1
    <3> QED
      BY <3>1 DEF TypeOK
  <2> QED
    BY <2>1, <2>5, <2>6 DEF TypeOK, BagToSet, page
<1>3. ASSUME StartInstall
      PROVE  TypeOK'
  <2>1. /\ <<"start">> \in DOMAIN pending /\ pending' = pending (-) SetToBag({<<"start">>})
        /\ phase' = "install" /\ started' = started + 1
        /\ UNCHANGED << step, form, cfg, advanced, parts, odd, hurries >>
    BY <1>3 DEF StartInstall, Take, Drop, BagIn, BagToSet
  <2>2. IsABag(pending') /\ DOMAIN pending' \subseteq Messages
    BY <1>0, <2>1, MessagesDropped
  <2> QED
    BY <2>1, <2>2 DEF TypeOK, BagToSet, page
<1> QED
  BY <1>1, <1>2, <1>3 DEF Deliver

LEMMA TypeNext == TypeOK /\ [Next]_vars => TypeOK'
<1>1. TypeOK /\ UNCHANGED vars => TypeOK'
  BY DEF TypeOK, vars, page
<1> QED
  BY <1>1, TypedIs, TypeTyped, TypeEnterRoot, TypeEnter, TypeEsc, TypeToggle, TypeQuit, TypeDeliver
     DEF Next

(* Every variable keeps its type: a page has the inputs of its step,       *)
(* whatever is edited, saved or loaded, and only the messages the pages    *)
(* send are under way.                                                     *)
THEOREM WizardTyped == Spec => []TypeOK
BY TypeInit, TypeNext, PTL DEF Spec
-----------------------------------------------------------------------------
(* Consistent and FormFits.  The fields page p writes: *)
Own(p) ==
    CASE p = "disk"       -> DiskKeys
      [] p = "partitions" -> {"mounts"}
      [] p = "network"    -> {"mode", "ssid"}
      [] p = "locale"     -> {"zone", "locale", "keymap"}
      [] p = "hostname"   -> {"hostname"}
      [] p = "users"      -> {"root", "userName", "userPass"}
      [] p = "kernel"     -> {"kernel"}
      [] p = "desktop"    -> {"desktop"}
      [] p = "packages"   -> {"packages"}
      [] p = "bootloader" -> {"bootloader"}
      [] OTHER            -> {}

LEMMA OwnIs ==
    /\ Own("disk") = DiskKeys /\ Own("partitions") = {"mounts"}
    /\ Own("network") = {"mode", "ssid"} /\ Own("locale") = {"zone", "locale", "keymap"}
    /\ Own("hostname") = {"hostname"} /\ Own("users") = {"root", "userName", "userPass"}
    /\ Own("kernel") = {"kernel"} /\ Own("desktop") = {"desktop"}
    /\ Own("packages") = {"packages"} /\ Own("bootloader") = {"bootloader"}
    /\ Own("welcome") = {} /\ Own("confirm") = {}
BY DEF Own

LEMMA SavedOwn ==
    ASSUME NEW p \in Saveable, NEW c, ConfigOK(c), NEW f \in Forms(p)
    PROVE  Changed(c, Saved(p, f, c), Own(p))
<1>1. CASE p = "disk"
  <2>1. Changed(c, DiskSave(f, c), DiskKeys) /\ Saved("disk", f, c) = DiskSave(f, c)
    BY <1>1, DiskSaveIs DEF Saved
  <2> QED
    BY <1>1, <2>1, OwnIs
<1>2. CASE p = "partitions"
  <2>1. Changed(c, Saved("partitions", f, c), {"mounts"})
    BY <1>2, PartitionsSaveIs
  <2> QED
    BY <1>2, <2>1, OwnIs
<1>3. CASE p = "network"
  <2>1. Changed(c, NetworkSave(f, c), {"mode", "ssid"})
        /\ Saved("network", f, c) = NetworkSave(f, c)
    BY <1>3, NetworkSaveIs DEF Saved
  <2> QED
    BY <1>3, <2>1, OwnIs
<1>4. CASE p = "locale"
  <2>1. Changed(c, Saved("locale", f, c), {"zone", "locale", "keymap"})
    BY <1>4, LocaleSaveIs
  <2> QED
    BY <1>4, <2>1, OwnIs
<1>5. CASE p = "hostname"
  <2>1. Changed(c, HostnameSave(f, c), {"hostname"})
        /\ Saved("hostname", f, c) = HostnameSave(f, c)
    BY <1>5, HostnameSaveIs DEF Saved
  <2> QED
    BY <1>5, <2>1, OwnIs
<1>6. CASE p = "users"
  <2>1. Changed(c, UsersSave(f, c), {"root", "userName", "userPass"})
        /\ Saved("users", f, c) = UsersSave(f, c)
    BY <1>6, UsersSaveIs DEF Saved
  <2> QED
    BY <1>6, <2>1, OwnIs
<1>7. CASE p = "packages"
  <2>1. Changed(c, Saved("packages", f, c), {"packages"})
    BY <1>7, PackagesSaveIs
  <2> QED
    BY <1>7, <2>1, OwnIs
<1> QED
  BY <1>1, <1>2, <1>3, <1>4, <1>5, <1>6, <1>7 DEF Saveable

LEMMA EnteredOwn ==
    ASSUME NEW p \in PageNames, NEW c, ConfigOK(c), NEW f \in Forms(p)
    PROVE  Changed(c, Entered(p, f, c), Own(p))
<1>1. CASE p \in Saveable \ {"users"}
  <2>1. Entered(p, f, c) = Saved(p, f, c)
    BY <1>1 DEF Entered, Saveable
  <2>2. Changed(c, Saved(p, f, c), Own(p))
    BY <1>1, SavedOwn
  <2> QED
    BY <2>1, <2>2
<1>2. CASE p = "users"
  <2>1. Entered(p, f, c) = UserSave(f, c)
    BY <1>2, EnteredIs
  <2>2. Changed(c, UserSave(f, c), {"userName", "userPass"})
    BY <1>2, UserSaveIs
  <2> QED
    BY <1>2, <2>1, <2>2, OwnIs DEF Changed
<1>3. CASE p = "kernel"
  BY <1>3, EnteredIs, OwnIs, KeysAre DEF Changed, ConfigOK
<1>4. CASE p = "desktop"
  BY <1>4, EnteredIs, OwnIs, KeysAre DEF Changed, ConfigOK
<1>5. CASE p = "bootloader"
  BY <1>5, EnteredIs, OwnIs, KeysAre DEF Changed, ConfigOK
<1>6. CASE p \in {"welcome", "confirm"}
  BY <1>6, EnteredIs, OwnIs DEF Changed, ConfigOK
<1> QED
  BY <1>1, <1>2, <1>3, <1>4, <1>5, <1>6 DEF PageNames, Saveable

(* Consistency of one configuration. *)
Sound(c) ==
    /\ c.bootloader = "systemd-boot" => c.firmware = "uefi"
    /\ c.scheme = "manual" => ~ c.encrypt /\ c.disk \in DiskSet

FitsForm(p, f, c) ==
    /\ p = "bootloader" => (f.bootloader = "systemd-boot" => c.firmware = "uefi")
    /\ p = "users" => (f.rootDone => c.root # "")
    /\ p = "partitions" => /\ c.scheme = "manual"
                           /\ {f.root, f.boot, f.swap} \subseteq f.listed \cup {None}

LEMMA SavedSound ==
    ASSUME NEW p \in Saveable, NEW c, ConfigOK(c), Sound(c), NEW f \in Forms(p)
    PROVE  Sound(Saved(p, f, c)) /\ Saved(p, f, c).firmware = c.firmware
<1> DEFINE d == Saved(p, f, c)
<1>1. CASE p = "disk"
  <2>1. /\ Changed(c, d, DiskKeys) /\ d.disk = f.disk /\ d.scheme = f.scheme
        /\ f.disk \in DiskSet /\ d.encrypt = (f.encrypt /\ f.scheme # "manual")
    BY <1>1, DiskSaveIs DEF Saved
  <2>2. d.bootloader = c.bootloader /\ d.firmware = c.firmware
    BY <2>1, KeysAre DEF Changed, DiskKeys
  <2> QED
    BY <2>1, <2>2 DEF Sound
<1>2. CASE p # "disk"
  <2>1. Changed(c, d, Own(p))
    BY SavedOwn
  <2>2. Own(p) \cap {"firmware", "disk", "scheme", "encrypt", "bootloader"} = {}
    BY <1>2, OwnIs DEF Saveable
  <2> HIDE DEF d
  <2>3. /\ d.firmware = c.firmware /\ d.disk = c.disk /\ d.scheme = c.scheme
        /\ d.encrypt = c.encrypt /\ d.bootloader = c.bootloader
    BY <2>1, <2>2, KeysAre DEF Changed
  <2> QED
    BY <2>3 DEF Sound, d
<1> QED
  BY <1>1, <1>2

LEMMA EnteredSound ==
    ASSUME NEW p \in PageNames, NEW c, ConfigOK(c), Sound(c), NEW f \in Forms(p),
           FitsForm(p, f, c)
    PROVE  Sound(Entered(p, f, c)) /\ Entered(p, f, c).firmware = c.firmware
<1> DEFINE d == Entered(p, f, c)
<1>1. CASE p = "disk"
  <2>1. d = Saved("disk", f, c)
    BY <1>1 DEF Entered, Saveable
  <2>2. Sound(Saved("disk", f, c)) /\ Saved("disk", f, c).firmware = c.firmware
    BY <1>1, SavedSound DEF Saveable
  <2> QED
    BY <2>1, <2>2
<1>2. CASE p # "disk"
  <2>1. Changed(c, d, Own(p))
    BY EnteredOwn
  <2>2. Own(p) \cap {"firmware", "disk", "scheme", "encrypt"} = {}
    BY <1>2, OwnIs DEF PageNames
  <2>3. p # "bootloader" => "bootloader" \notin Own(p)
    BY <1>2, OwnIs DEF PageNames, DiskKeys
  <2>4. p = "bootloader" => d.bootloader = f.bootloader
    BY EnteredIs, KeysAre DEF ConfigOK
  <2> HIDE DEF d
  <2>5. /\ d.firmware = c.firmware /\ d.disk = c.disk /\ d.scheme = c.scheme
        /\ d.encrypt = c.encrypt /\ (p # "bootloader" => d.bootloader = c.bootloader)
    BY <2>1, <2>2, <2>3, KeysAre DEF Changed
  <2>6. d.bootloader = "systemd-boot" => d.firmware = "uefi"
    BY <2>4, <2>5 DEF FitsForm, Sound
  <2>7. Sound(d) /\ d.firmware = c.firmware
    BY <2>5, <2>6 DEF Sound
  <2> QED
    BY <2>7 DEF d
<1> QED
  BY <1>1, <1>2

(* A page that has just been loaded fits, and its list is new. *)
LEMMA LoadFits ==
    ASSUME NEW p \in PageNames, NEW c, ConfigOK(c), Sound(c), NEW ps,
           p = "partitions" => c.scheme = "manual"
    PROVE  /\ FitsForm(p, Load(p, c, ps), c)
           /\ p = "partitions" => Load(p, c, ps).listed = ps[c.disk]
<1>1. CASE p = "bootloader"
  <2>1. BootloaderForm(c).bootloader = "systemd-boot" => c.firmware = "uefi"
    BY DEF BootloaderForm
  <2> QED
    BY <1>1, <2>1, LoadIs DEF FitsForm
<1>2. CASE p = "users"
  <2>1. UsersForm(c).rootDone => c.root # ""
    BY DEF UsersForm
  <2> QED
    BY <1>2, <2>1, LoadIs DEF FitsForm
<1>3. CASE p = "partitions"
  <2> DEFINE l == ps[c.disk]
             Find(q) == IF q \in l THEN q ELSE None
  <2>1. PartitionsForm(c, ps) =
          [ listed |-> l, root |-> Find(c.mounts.root), boot |-> Find(c.mounts.boot),
            swap |-> Find(c.mounts.swap) ]
    BY <1>3 DEF PartitionsForm, Sound
  <2>2. \A q : Find(q) \in l \cup {None}
    OBVIOUS
  <2> HIDE DEF l, Find
  <2>3. /\ PartitionsForm(c, ps).listed = l
        /\ {PartitionsForm(c, ps).root, PartitionsForm(c, ps).boot,
            PartitionsForm(c, ps).swap} \subseteq PartitionsForm(c, ps).listed \cup {None}
    BY <2>1, <2>2
  <2> QED
    BY <1>3, <2>3, LoadIs DEF FitsForm, l
<1> QED
  BY <1>1, <1>2, <1>3 DEF FitsForm
LEMMA ConsistentIs == Consistent <=> Sound(cfg)
BY DEF Consistent, Sound

LEMMA FitsIs == FormFits <=> FitsForm(page, form, cfg) /\ (Stale => Leading # {})
BY DEF FormFits, FitsForm, Stale

LEMMA LeadingIs == Leading = Copies(pending)
BY DEF Leading, Copies

(* What a message does to the messages under way. *)
LEMMA LeadsOn ==
    /\ <<"done">> \in Forward /\ <<"back">> \notin Forward /\ <<"start">> \notin Forward
    /\ \A d \in DiskSet : <<"cfdisk", d>> \in Forward
BY DEF Forward

LEMMA PostLeads ==
    ASSUME TypeOK, NEW m, pending' = pending (+) SetToBag({m})
    PROVE  /\ DOMAIN pending' = DOMAIN pending \cup {m}
           /\ m \notin Forward => Leading' = Leading
           /\ m \in Forward => /\ Leading' = Leading \cup {<<m, pending'[m]>>}
                               /\ <<m, pending'[m]>> \notin Leading
<1>1. IsABag(pending)
  BY DEF TypeOK
<1>2. More(pending, pending', m)
  BY <1>1, PostBag
<1>3. Counts(pending)
  BY <1>1, BagIsCounts
<1>4. Leading' = Copies(pending')
  BY DEF Leading, Copies
<1> QED
  BY <1>2, <1>3, <1>4, MoreCopies, LeadingIs DEF More

LEMMA DropLeads ==
    ASSUME TypeOK, NEW m \in DOMAIN pending, pending' = pending (-) SetToBag({m})
    PROVE  /\ DOMAIN pending' \subseteq DOMAIN pending
           /\ DOMAIN pending \subseteq DOMAIN pending' \cup {m}
           /\ m \notin Forward => Leading' = Leading
           /\ m \in Forward => /\ Leading' = Leading \ {<<m, pending[m]>>}
                               /\ <<m, pending[m]>> \in Leading
<1>1. IsABag(pending)
  BY DEF TypeOK
<1>2. Less(pending, pending', m)
  BY <1>1, DropBag
<1>3. Counts(pending)
  BY <1>1, BagIsCounts
<1>4. Leading' = Copies(pending')
  BY DEF Leading, Copies
<1> QED
  BY <1>2, <1>3, <1>4, LessCopies, LeadingIs DEF Less

(* Where the messages lead: the page of partitions is skipped when the     *)
(* scheme is guided.                                                       *)
LEMMA PagesAre ==
    /\ Len(Pages) = 12
    /\ Pages[1] = "welcome" /\ Pages[2] = "disk" /\ Pages[3] = "partitions"
    /\ Pages[12] = "confirm"
    /\ \A i \in 1..12 : /\ Pages[i] = "welcome" <=> i = 1
                        /\ Pages[i] = "disk" <=> i = 2
                        /\ Pages[i] = "partitions" <=> i = 3
                        /\ Pages[i] = "confirm" <=> i = 12
BY DEF Pages

LEMMA DoneMoves ==
    ASSUME TypeOK, Done
    PROVE  /\ \/ step = 12 /\ UNCHANGED << step, form >>
              \/ /\ step < 12 /\ form' = Load(page', cfg, parts)
                 /\ \/ step = 2 /\ cfg.scheme = "guided" /\ step' = 4
                    \/ ~ (step = 2 /\ cfg.scheme = "guided") /\ step' = step + 1
           /\ <<"done">> \in DOMAIN pending /\ pending' = pending (-) SetToBag({<<"done">>})
           /\ UNCHANGED << phase, cfg, advanced, parts, started, odd, hurries >>
<1> DEFINE next == IF step < Len(Pages) /\ Guided(step + 1) THEN step + 2 ELSE step + 1
<1>1. IF next <= Len(Pages) THEN Show(next) ELSE UNCHANGED << step, form >>
  BY DEF Done
<1>2. step \in 1..12 /\ Len(Pages) = 12
  BY PagesAre DEF TypeOK
<1>3. Guided(step + 1) /\ step < 12 <=> step = 2 /\ cfg.scheme = "guided"
  BY <1>2, PagesAre DEF Guided
<1>4. /\ step = 2 /\ cfg.scheme = "guided" => next = 4
      /\ ~ (step = 2 /\ cfg.scheme = "guided") => next = step + 1
  BY <1>2, <1>3
<1> HIDE DEF next
<1>5. \/ step = 12 /\ UNCHANGED << step, form >>
      \/ step < 12 /\ Show(next)
  BY <1>1, <1>2, <1>4
<1>6. Show(next) => step' = next /\ form' = Load(page', cfg, parts)
  BY DEF Show, page
<1>7. /\ <<"done">> \in DOMAIN pending /\ pending' = pending (-) SetToBag({<<"done">>})
      /\ UNCHANGED << phase, cfg, advanced, parts, started, odd, hurries >>
  BY DEF Done, Take, Drop, BagIn, BagToSet
<1> QED
  BY <1>4, <1>5, <1>6, <1>7

LEMMA BackMoves ==
    ASSUME TypeOK, Back
    PROVE  /\ \/ step = 1 /\ UNCHANGED << step, form >>
              \/ /\ step > 1 /\ form' = Load(page', cfg, parts)
                 /\ \/ step = 4 /\ cfg.scheme = "guided" /\ step' = 2
                    \/ ~ (step = 4 /\ cfg.scheme = "guided") /\ step' = step - 1
           /\ <<"back">> \in DOMAIN pending /\ pending' = pending (-) SetToBag({<<"back">>})
           /\ UNCHANGED << phase, cfg, advanced, parts, started, odd, hurries >>
<1> DEFINE prev == IF step > 1 /\ Guided(step - 1) THEN step - 2 ELSE step - 1
<1>1. IF prev >= 1 THEN Show(prev) ELSE UNCHANGED << step, form >>
  BY DEF Back
<1>2. step \in 1..12
  BY PagesAre DEF TypeOK
<1>3. Guided(step - 1) /\ step > 1 <=> step = 4 /\ cfg.scheme = "guided"
  BY <1>2, PagesAre DEF Guided
<1>4. /\ step = 4 /\ cfg.scheme = "guided" => prev = 2
      /\ ~ (step = 4 /\ cfg.scheme = "guided") => prev = step - 1
  BY <1>2, <1>3
<1> HIDE DEF prev
<1>5. \/ step = 1 /\ UNCHANGED << step, form >>
      \/ step > 1 /\ Show(prev)
  BY <1>1, <1>2, <1>4
<1>6. Show(prev) => step' = prev /\ form' = Load(page', cfg, parts)
  BY DEF Show, page
<1>7. /\ <<"back">> \in DOMAIN pending /\ pending' = pending (-) SetToBag({<<"back">>})
      /\ UNCHANGED << phase, cfg, advanced, parts, started, odd, hurries >>
  BY DEF Back, Take, Drop, BagIn, BagToSet
<1> QED
  BY <1>4, <1>5, <1>6, <1>7
-----------------------------------------------------------------------------
(* Consistent and FormFits are kept by every action. *)
Fits == Consistent /\ FormFits

LEMMA FitsWhen ==
    Sound(cfg') /\ FitsForm(page', form', cfg') /\ (Stale' => Leading' # {}) => Fits'
BY DEF Fits, Consistent, FormFits, Sound, FitsForm, Stale

LEMMA FitsMeans ==
    Fits => Sound(cfg) /\ FitsForm(page, form, cfg) /\ (Stale => Leading # {})
BY ConsistentIs, FitsIs DEF Fits

LEMMA StaleIs == Stale' = (page' = "partitions" /\ form'.listed # parts'[cfg'.disk])
BY DEF Stale

LEMMA DefaultsSound ==
    ASSUME NEW fw PROVE Sound(Defaults(fw))
BY DEF Sound, Defaults

LEMMA FitsInit == Init => Fits
<1> SUFFICES ASSUME Init
             PROVE  Fits
  OBVIOUS
<1>1. PICK fw \in Firmwares : cfg = Defaults(fw)
  BY DEF Init
<1>2. page = "welcome"
  BY DEF Init, page, Pages
<1>3. Sound(cfg)
  BY <1>1, DefaultsSound
<1> QED
  BY <1>2, <1>3, ConsistentIs DEF Fits, FormFits

LEMMA FitsTyped == TypeOK /\ Fits /\ Typed => Fits' /\ (Stale' => Stale)
<1> SUFFICES ASSUME TypeOK, Fits, Typed
             PROVE  Fits' /\ (Stale' => Stale)
  OBVIOUS
<1>1. PICK i \in Reached : \E v \in Values(i) : form' = [ form EXCEPT ![i] = v ]
  BY DEF Typed
<1>2. PICK v \in Values(i) : form' = [ form EXCEPT ![i] = v ]
  BY <1>1
<1>3. UNCHANGED << cfg, parts, pending >> /\ page' = page
  BY DEF Typed
<1>4. page \in PageNames /\ form \in Forms(page)
  BY PageTyped DEF TypeOK
<1>5. FitsForm(page, form', cfg) /\ Stale' = Stale
  <2>1. CASE page = "bootloader"
    <3>1. form \in [ bootloader : Bootloaders ]
      BY <1>4, <2>1, FormsAre
    <3>2. i = "bootloader"
      BY <2>1, <3>1 DEF Reached
    <3>3. v = "systemd-boot" => cfg.firmware = "uefi"
      BY <3>2, ValuesAre
    <3>4. form'.bootloader = v
      BY <1>2, <3>1, <3>2
    <3> QED
      BY <1>3, <2>1, <3>3, <3>4 DEF FitsForm, Stale
  <2>2. CASE page = "users"
    <3>1. i # "rootDone"
      BY <2>2 DEF Reached
    <3>2. form'.rootDone = form.rootDone
      BY <1>2, <3>1
    <3> QED
      BY <1>3, <2>2, <3>2, FitsMeans DEF FitsForm, Stale
  <2>3. CASE page = "partitions"
    <3>1. form \in [ listed : SUBSET Partitions, root : Mappings,
                     boot : Mappings, swap : Mappings ]
      BY <1>4, <2>3, FormsAre
    <3>2. i \in {"root", "boot", "swap"}
      BY <2>3 DEF Reached
    <3>3. v \in form.listed \cup {None}
      BY <2>3, <3>2, ValuesAre
    <3>4. /\ form'.listed = form.listed
          /\ form'.root \in {v, form.root} /\ form'.boot \in {v, form.boot}
          /\ form'.swap \in {v, form.swap}
      BY <1>2, <3>1, <3>2
    <3>5. FitsForm(page, form', cfg)
      BY <2>3, <3>3, <3>4, FitsMeans DEF FitsForm
    <3> QED
      BY <1>3, <3>4, <3>5 DEF Stale
  <2>4. CASE page \notin {"bootloader", "users", "partitions"}
    BY <1>3, <2>4 DEF FitsForm, Stale
  <2> QED
    BY <2>1, <2>2, <2>3, <2>4
<1>6. Leading' = Leading
  BY <1>3 DEF Leading
<1>7. Sound(cfg')
  BY <1>3, FitsMeans
<1> QED
  BY <1>3, <1>5, <1>6, <1>7, FitsMeans, FitsWhen

LEMMA FitsEnterRoot == TypeOK /\ Fits /\ EnterRoot => Fits' /\ ~ Stale'
<1> SUFFICES ASSUME TypeOK, Fits, EnterRoot
             PROVE  Fits' /\ ~ Stale'
  OBVIOUS
<1>1. /\ page = "users" /\ page' = page /\ form.root # ""
      /\ \/ cfg' = [ cfg EXCEPT !.root = form.root ] /\ form' = [ form EXCEPT !.rootDone = TRUE ]
         \/ cfg' = cfg /\ form' = [ form EXCEPT !.rootConf = "" ]
  BY DEF EnterRoot, page
<1>2. form \in [ rootDone : BOOLEAN, root : Password, rootConf : Password, name : Text,
                 pass : Password, conf : Password ]
  BY <1>1, FormsAre DEF TypeOK
<1>3. form'.rootDone => cfg'.root # ""
  <2>1. "root" \in DOMAIN cfg
    BY KeysAre DEF TypeOK, ConfigOK
  <2>2. cfg' = cfg => form'.rootDone = form.rootDone \/ cfg.root # ""
    BY <1>1, <1>2, <2>1
  <2>3. form.rootDone => cfg.root # ""
    BY <1>1, FitsMeans DEF FitsForm
  <2> QED
    BY <1>1, <2>1, <2>2, <2>3
<1>4. Sound(cfg')
  <2>1. Sound(cfg)
    BY FitsMeans
  <2>2. Sound([ cfg EXCEPT !.root = form.root ])
    BY <2>1 DEF Sound
  <2> QED
    BY <1>1, <2>1, <2>2
<1>5. FitsForm(page', form', cfg') /\ ~ Stale'
  BY <1>1, <1>3, StaleIs DEF FitsForm
<1> QED
  BY <1>4, <1>5, FitsWhen

LEMMA FitsEnter == TypeOK /\ Fits /\ Enter => Fits' /\ (Stale' => Stale)
<1> SUFFICES ASSUME TypeOK, Fits, Enter
             PROVE  Fits' /\ (Stale' => Stale)
  OBVIOUS
<1>1. /\ cfg' = Entered(page, form, cfg) /\ pending' = pending (+) SetToBag({Asks(page, form)})
      /\ form' = form /\ parts' = parts /\ page' = page
  BY DEF Enter, Post, page
<1>2. page \in PageNames /\ form \in Forms(page) /\ ConfigOK(cfg)
  BY PageTyped DEF TypeOK
<1>3. Sound(cfg') /\ cfg'.firmware = cfg.firmware
  BY <1>1, <1>2, EnteredSound, FitsMeans
<1>4. Leading \subseteq Leading'
  BY <1>1, PostLeads
<1>5. FitsForm(page, form, cfg') /\ Stale' = Stale
  <2>1. Changed(cfg, cfg', Own(page))
    BY <1>1, <1>2, EnteredOwn
  <2>2. CASE page = "users"
    <3>1. cfg' = UserSave(form, cfg)
      BY <1>1, <2>2, EnteredIs
    <3>2. Changed(cfg, UserSave(form, cfg), {"userName", "userPass"})
      BY <1>2, <2>2, UserSaveIs
    <3>3. cfg'.root = cfg.root
      BY <3>1, <3>2, KeysAre DEF Changed
    <3> QED
      BY <1>1, <2>2, <3>3, FitsMeans DEF FitsForm, Stale
  <2>3. CASE page = "partitions"
    <3>1. Own(page) = {"mounts"}
      BY <2>3, OwnIs
    <3>2. cfg'.scheme = cfg.scheme /\ cfg'.disk = cfg.disk
      BY <2>1, <3>1, KeysAre DEF Changed
    <3> QED
      BY <1>1, <2>3, <3>2, FitsMeans DEF FitsForm, Stale
  <2>4. CASE page \notin {"users", "partitions"}
    BY <1>1, <1>3, <2>4, FitsMeans DEF FitsForm, Stale
  <2> QED
    BY <2>2, <2>3, <2>4
<1> QED
  BY <1>1, <1>3, <1>4, <1>5, FitsMeans, FitsWhen

LEMMA FitsEsc == TypeOK /\ Fits /\ Esc => Fits' /\ (Stale' => Stale)
<1> SUFFICES ASSUME TypeOK, Fits, Esc
             PROVE  Fits' /\ (Stale' => Stale)
  OBVIOUS
<1>1. /\ page' = page /\ cfg' = cfg /\ parts' = parts
      /\ \/ page = "users" /\ form' = [ form EXCEPT !.rootDone = FALSE ] /\ pending' = pending
         \/ pending' = pending (+) SetToBag({<<"back">>}) /\ form' = form
  BY DEF Esc, Post, page
<1>2. Leading' = Leading
  <2>1. pending' = pending => Leading' = Leading
    BY DEF Leading
  <2> QED
    BY <1>1, <2>1, PostLeads, LeadsOn
<1>3. CASE page = "users" /\ form' = [ form EXCEPT !.rootDone = FALSE ]
  <2>1. form \in [ rootDone : BOOLEAN, root : Password, rootConf : Password, name : Text,
                   pass : Password, conf : Password ]
    BY <1>3, FormsAre DEF TypeOK
  <2>2. ~ form'.rootDone
    BY <1>3, <2>1
  <2>3. FitsForm(page', form', cfg') /\ ~ Stale'
    BY <1>1, <1>3, <2>2, StaleIs DEF FitsForm
  <2>4. Sound(cfg')
    BY <1>1, FitsMeans
  <2> QED
    BY <2>3, <2>4, FitsWhen
<1>4. CASE form' = form
  <2>1. Stale' = Stale
    BY <1>1, <1>4 DEF Stale
  <2> QED
    BY <1>1, <1>2, <1>4, <2>1, FitsMeans, FitsWhen
<1> QED
  BY <1>1, <1>3, <1>4

LEMMA FitsToggle == TypeOK /\ Fits /\ ToggleAdvanced => Fits' /\ ~ Stale'
<1> SUFFICES ASSUME TypeOK, Fits, ToggleAdvanced
             PROVE  Fits' /\ ~ Stale'
  OBVIOUS
<1>1. /\ cfg' = IF page \in Saveable THEN Saved(page, form, cfg) ELSE cfg
      /\ form' = Load(page, cfg', parts) /\ page' = page /\ parts' = parts
  BY DEF ToggleAdvanced, page
<1>2. page \in PageNames /\ form \in Forms(page) /\ ConfigOK(cfg)
  BY PageTyped DEF TypeOK
<1>3. Sound(cfg') /\ ConfigOK(cfg')
  BY <1>1, <1>2, SavedSound, SavedTyped, FitsMeans
<1>4. page = "partitions" => cfg'.scheme = "manual"
  <2>1. page = "partitions" => Changed(cfg, cfg', {"mounts"})
    BY <1>1, <1>2, SavedOwn, OwnIs DEF Saveable
  <2>2. page = "partitions" => cfg.scheme = "manual"
    BY FitsMeans DEF FitsForm
  <2> QED
    BY <2>1, <2>2, KeysAre DEF Changed
<1>5. /\ FitsForm(page, Load(page, cfg', parts), cfg')
      /\ page = "partitions" => Load(page, cfg', parts).listed = parts[cfg'.disk]
  BY <1>2, <1>3, <1>4, LoadFits
<1>6. FitsForm(page', form', cfg') /\ ~ Stale'
  BY <1>1, <1>5, StaleIs
<1> QED
  BY <1>3, <1>6, FitsWhen

LEMMA FitsQuit == TypeOK /\ Fits /\ Quit => Fits'
<1> SUFFICES ASSUME TypeOK, Fits, Quit
             PROVE  Fits'
  OBVIOUS
<1>1. page' = "welcome" /\ cfg' = Defaults(cfg.firmware)
  BY DEF Quit, page, Pages
<1>2. Sound(cfg')
  BY <1>1, DefaultsSound
<1> QED
  BY <1>1, <1>2, FitsWhen, StaleIs DEF FitsForm

(* A page shown after another one fits, with a new list. *)
LEMMA FitsShow ==
    ASSUME TypeOK, Fits, step' \in 1..Len(Pages), form' = Load(page', cfg, parts),
           step' = 3 => cfg.scheme = "manual", cfg' = cfg, parts' = parts
    PROVE  Fits' /\ ~ Stale'
<1>1. page' \in PageNames /\ (page' = "partitions" <=> step' = 3)
  BY PageIs, PagesAre DEF page
<1>2. Sound(cfg) /\ ConfigOK(cfg)
  BY FitsMeans DEF TypeOK
<1>3. /\ FitsForm(page', Load(page', cfg, parts), cfg)
      /\ page' = "partitions" => Load(page', cfg, parts).listed = parts[cfg.disk]
  BY <1>1, <1>2, LoadFits
<1>4. FitsForm(page', form', cfg') /\ ~ Stale'
  BY <1>3, StaleIs
<1> QED
  BY <1>2, <1>4, FitsWhen

LEMMA SchemeIs == TypeOK => (cfg.scheme = "manual" <=> cfg.scheme # "guided")
BY DEF TypeOK, ConfigOK, Schemes

LEMMA FitsDone == TypeOK /\ Fits /\ Done => Fits' /\ ~ Stale'
<1> SUFFICES ASSUME TypeOK, Fits, Done
             PROVE  Fits' /\ ~ Stale'
  OBVIOUS
<1>1. step \in 1..12 /\ cfg' = cfg /\ parts' = parts
  BY DoneMoves, PagesAre DEF TypeOK
<1>2. CASE step = 12 /\ UNCHANGED << step, form >>
  <2>1. page' = "confirm"
    BY <1>2, PagesAre DEF page
  <2>2. FitsForm(page', form', cfg') /\ ~ Stale'
    BY <2>1, StaleIs DEF FitsForm
  <2> QED
    BY <1>1, <2>2, FitsWhen, FitsMeans
<1>3. CASE /\ step < 12 /\ form' = Load(page', cfg, parts)
           /\ \/ step = 2 /\ cfg.scheme = "guided" /\ step' = 4
              \/ ~ (step = 2 /\ cfg.scheme = "guided") /\ step' = step + 1
  <2>1. step' \in 1..Len(Pages) /\ (step' = 3 => cfg.scheme = "manual")
    BY <1>1, <1>3, PagesAre, SchemeIs
  <2> QED
    BY <1>1, <1>3, <2>1, FitsShow
<1> QED
  BY <1>2, <1>3, DoneMoves

LEMMA FitsBack == TypeOK /\ Fits /\ Back => Fits' /\ ~ Stale'
<1> SUFFICES ASSUME TypeOK, Fits, Back
             PROVE  Fits' /\ ~ Stale'
  OBVIOUS
<1>1. step \in 1..12 /\ cfg' = cfg /\ parts' = parts
  BY BackMoves, PagesAre DEF TypeOK
<1>2. CASE step = 1 /\ UNCHANGED << step, form >>
  <2>1. page' = "welcome"
    BY <1>2, PagesAre DEF page
  <2>2. FitsForm(page', form', cfg') /\ ~ Stale'
    BY <2>1, StaleIs DEF FitsForm
  <2> QED
    BY <1>1, <2>2, FitsWhen, FitsMeans
<1>3. CASE /\ step > 1 /\ form' = Load(page', cfg, parts)
           /\ \/ step = 4 /\ cfg.scheme = "guided" /\ step' = 2
              \/ ~ (step = 4 /\ cfg.scheme = "guided") /\ step' = step - 1
  <2>1. step' \in 1..Len(Pages) /\ (step' = 3 => cfg.scheme = "manual")
    BY <1>1, <1>3, PagesAre, SchemeIs
  <2> QED
    BY <1>1, <1>3, <2>1, FitsShow
<1> QED
  BY <1>2, <1>3, BackMoves

(* cfdisk leaves a done behind, which leads on. *)
LEMMA CfdiskMoves ==
    ASSUME TypeOK, NEW d \in DiskSet, <<"cfdisk", d>> \in DOMAIN pending,
           pending' = (pending (-) SetToBag({<<"cfdisk", d>>})) (+) SetToBag({<<"done">>})
    PROVE  /\ DOMAIN pending' \subseteq DOMAIN pending \cup {<<"done">>}
           /\ DOMAIN pending \subseteq DOMAIN pending' \cup {<<"cfdisk", d>>}
           /\ <<<<"cfdisk", d>>, pending[<<"cfdisk", d>>]>> \in Leading
           /\ \E x : /\ Leading' = (Leading \ {<<<<"cfdisk", d>>, pending[<<"cfdisk", d>>]>>})
                                     \cup {x}
                     /\ x \notin Leading \ {<<<<"cfdisk", d>>, pending[<<"cfdisk", d>>]>>}
<1> DEFINE m == <<"cfdisk", d>>
           n == <<"done">>
           B == pending (-) SetToBag({m})
<1>0. /\ IsABag(pending) /\ Counts(pending) /\ m \in DOMAIN pending
      /\ m \in Forward /\ n \in Forward
  BY BagIsCounts, LeadsOn DEF TypeOK
<1>1. IsABag(B) /\ Less(pending, B, m)
  BY <1>0, DropBag
<1>2. Counts(B)
  BY <1>1, BagIsCounts
<1>3. More(B, pending', n)
  <2>1. pending' = B (+) SetToBag({n})
    OBVIOUS
  <2> HIDE DEF B
  <2> QED
    BY <1>1, <2>1, PostBag
<1> HIDE DEF B, m, n
<1>4. Copies(B) = Copies(pending) \ {<<m, pending[m]>>} /\ <<m, pending[m]>> \in Copies(pending)
  BY <1>0, <1>1, LessCopies
<1>5. Copies(pending') = Copies(B) \cup {<<n, pending'[n]>>} /\ <<n, pending'[n]>> \notin Copies(B)
  <2> DEFINE C == pending'
  <2>1. More(B, C, n)
    BY <1>3
  <2> HIDE DEF C
  <2>2. Copies(C) = Copies(B) \cup {<<n, C[n]>>} /\ <<n, C[n]>> \notin Copies(B)
    BY <1>0, <1>2, <2>1, MoreCopies
  <2> QED
    BY <2>2 DEF C
<1>6. Leading' = Copies(pending') /\ Leading = Copies(pending)
  BY DEF Leading, Copies
<1>7. DOMAIN pending' = DOMAIN B \cup {n} /\ DOMAIN B \subseteq DOMAIN pending
      /\ DOMAIN pending \subseteq DOMAIN B \cup {m}
  BY <1>1, <1>3 DEF Less, More
<1> QED
  BY <1>4, <1>5, <1>6, <1>7 DEF m, n

LEMMA FitsCfdisk == TypeOK /\ Fits /\ Cfdisk => Fits'
<1> SUFFICES ASSUME TypeOK, Fits, Cfdisk
             PROVE  Fits'
  OBVIOUS
<1>1. PICK d \in DiskSet :
          /\ Take(<<"cfdisk", d>>)
          /\ pending' = (pending (-) SetToBag({<<"cfdisk", d>>})) (+) SetToBag({<<"done">>})
          /\ UNCHANGED << phase, step, form, cfg, advanced, started, odd, hurries >>
  BY DEF Cfdisk
<1>2. <<"cfdisk", d>> \in DOMAIN pending /\ page' = page
  BY <1>1 DEF Take, BagIn, BagToSet, page
<1>3. Leading' # {}
  BY <1>1, <1>2, CfdiskMoves
<1> QED
  BY <1>1, <1>2, <1>3, FitsMeans, FitsWhen

LEMMA FitsStart == TypeOK /\ Fits /\ StartInstall => Fits'
<1> SUFFICES ASSUME TypeOK, Fits, StartInstall
             PROVE  Fits'
  OBVIOUS
<1>1. /\ <<"start">> \in DOMAIN pending /\ pending' = pending (-) SetToBag({<<"start">>})
      /\ UNCHANGED << form, cfg, parts >> /\ page' = page
  BY DEF StartInstall, Take, Drop, BagIn, BagToSet, page
<1>2. Leading' = Leading /\ Stale' = Stale
  BY <1>1, DropLeads, LeadsOn DEF Stale
<1> QED
  BY <1>1, <1>2, FitsMeans, FitsWhen

LEMMA FitsNext == TypeOK /\ Fits /\ [Next]_vars => Fits'
<1>1. TypeOK /\ Fits /\ UNCHANGED vars => Fits'
  <2> SUFFICES ASSUME TypeOK, Fits, UNCHANGED vars
               PROVE  Fits'
    OBVIOUS
  <2>1. /\ UNCHANGED << form, cfg >> /\ page' = page /\ Stale' = Stale /\ Leading' = Leading
    BY DEF vars, page, Stale, Leading
  <2> QED
    BY <2>1, FitsMeans, FitsWhen
<1> QED
  BY <1>1, TypedIs, FitsTyped, FitsEnterRoot, FitsEnter, FitsEsc, FitsToggle, FitsQuit, FitsDone,
     FitsBack, FitsCfdisk, FitsStart DEF Next, Deliver

(* Whatever the user does on the pages of tui/steps, and however late the  *)
(* messages between them arrive, the configuration is one the pipeline is  *)
(* made for: no manual layout is encrypted, and systemd-boot is chosen on  *)
(* UEFI only.                                                              *)
THEOREM AlwaysInstallable == Spec => []Installable
<1>1. Init => TypeOK /\ Fits
  BY TypeInit, FitsInit
<1>2. TypeOK /\ Fits /\ [Next]_vars => (TypeOK /\ Fits)'
  BY TypeNext, FitsNext
<1>3. TypeOK /\ Fits => Installable
  <2> SUFFICES ASSUME TypeOK, Fits
               PROVE  Installable
    OBVIOUS
  <2>1. /\ cfg.scheme \in Schemes /\ cfg.firmware \in Firmwares /\ cfg.encrypt \in BOOLEAN
        /\ cfg.swap \in SwapModes /\ cfg.bootloader \in Bootloaders
    BY DEF TypeOK, ConfigOK
  <2> QED
    BY <2>1, FitsMeans DEF Sound, Installable, ReachableConfig, Projected, ConfigType
<1> QED
  BY <1>1, <1>2, <1>3, PTL DEF Spec

-----------------------------------------------------------------------------
(* Tidy is kept by every action: of the fields it is about, only the disk  *)
(* and the host name page write any.                                       *)
TidyConfig(c) == (~ c.encrypt => c.encPass = "") /\ c.hostname # ""

LEMMA TidyElsewhere ==
    ASSUME NEW c, TidyConfig(c), NEW d, NEW p \in PageNames \ {"disk", "hostname"},
           Changed(c, d, Own(p))
    PROVE  TidyConfig(d)
<1>1. Own(p) \cap {"encrypt", "encPass", "hostname"} = {}
  BY OwnIs DEF PageNames
<1>2. d.encrypt = c.encrypt /\ d.encPass = c.encPass /\ d.hostname = c.hostname
  BY <1>1, KeysAre DEF Changed
<1> QED
  BY <1>2 DEF TidyConfig

LEMMA TidyDisk ==
    ASSUME NEW c, ConfigOK(c), TidyConfig(c), NEW f \in Forms("disk")
    PROVE  TidyConfig(DiskSave(f, c))
<1> DEFINE d == DiskSave(f, c)
<1>1. Changed(c, d, DiskKeys) /\ d.encPass = IF d.encrypt THEN f.pass ELSE ""
  BY DiskSaveIs
<1>2. d.hostname = c.hostname
  BY <1>1, KeysAre DEF Changed, DiskKeys
<1> QED
  BY <1>1, <1>2 DEF TidyConfig

LEMMA TidyHostname ==
    ASSUME NEW c, ConfigOK(c), TidyConfig(c), NEW f \in Forms("hostname")
    PROVE  TidyConfig(HostnameSave(f, c))
<1> DEFINE d == HostnameSave(f, c)
<1>1. /\ Changed(c, d, {"hostname"})
      /\ d.hostname = IF f.hostname = "" THEN "good" ELSE f.hostname
  BY HostnameSaveIs
<1>2. d.encrypt = c.encrypt /\ d.encPass = c.encPass /\ d.hostname # ""
  BY <1>1, KeysAre DEF Changed
<1> QED
  BY <1>2 DEF TidyConfig

LEMMA TidyWritten ==
    ASSUME NEW c, ConfigOK(c), TidyConfig(c), NEW p \in PageNames, NEW f \in Forms(p)
    PROVE  /\ TidyConfig(Entered(p, f, c))
           /\ p \in Saveable => TidyConfig(Saved(p, f, c))
<1>1. CASE p = "disk"
  <2>1. Entered(p, f, c) = DiskSave(f, c)
    BY <1>1, EnteredIs
  <2>2. Saved("disk", f, c) = DiskSave(f, c)
    BY DEF Saved
  <2> QED
    BY <1>1, <2>1, <2>2, TidyDisk
<1>2. CASE p = "hostname"
  <2>1. Entered(p, f, c) = HostnameSave(f, c)
    BY <1>2, EnteredIs
  <2>2. Saved("hostname", f, c) = HostnameSave(f, c)
    BY DEF Saved
  <2> QED
    BY <1>2, <2>1, <2>2, TidyHostname
<1>3. CASE p \notin {"disk", "hostname"}
  <2>1. Changed(c, Entered(p, f, c), Own(p))
    BY EnteredOwn
  <2>2. p \in Saveable => Changed(c, Saved(p, f, c), Own(p))
    BY SavedOwn
  <2> QED
    BY <1>3, <2>1, <2>2, TidyElsewhere
<1> QED
  BY <1>1, <1>2, <1>3

LEMMA TidyIs == Tidy <=> TidyConfig(cfg)
BY DEF Tidy, TidyConfig

LEMMA TidyPrime == TidyConfig(cfg') => Tidy'
BY DEF Tidy, TidyConfig

LEMMA DefaultsTidy == ASSUME NEW fw PROVE TidyConfig(Defaults(fw))
BY DEF TidyConfig, Defaults

LEMMA TidyInit == Init => Tidy
BY DefaultsTidy, TidyIs DEF Init

LEMMA TidyNext == TypeOK /\ Tidy /\ [Next]_vars => Tidy'
<1> SUFFICES ASSUME TypeOK, Tidy, [Next]_vars
             PROVE  TidyConfig(cfg')
  BY TidyPrime
<1>1. page \in PageNames /\ form \in Forms(page) /\ ConfigOK(cfg) /\ TidyConfig(cfg)
  BY PageTyped, TidyIs DEF TypeOK
<1>2. CASE EnterRoot
  <2>1. \/ cfg' = [ cfg EXCEPT !.root = form.root ]
        \/ cfg' = cfg
    BY <1>2 DEF EnterRoot
  <2>2. TidyConfig([ cfg EXCEPT !.root = form.root ])
    BY <1>1, KeysAre DEF TidyConfig, ConfigOK
  <2> QED
    BY <1>1, <2>1, <2>2
<1>3. CASE Enter
  BY <1>1, <1>3, TidyWritten DEF Enter
<1>4. CASE ToggleAdvanced
  <2>1. cfg' = IF page \in Saveable THEN Saved(page, form, cfg) ELSE cfg
    BY <1>4 DEF ToggleAdvanced
  <2> QED
    BY <1>1, <2>1, TidyWritten
<1>5. CASE Quit
  BY <1>5, DefaultsTidy DEF Quit
<1>6. CASE Edit \/ Pick \/ Esc \/ Deliver \/ UNCHANGED vars
  <2>1. cfg' = cfg
    BY <1>6 DEF Edit, Pick, Esc, Deliver, Done, Back, Cfdisk, StartInstall, vars
  <2> QED
    BY <1>1, <2>1
<1> QED
  BY <1>2, <1>3, <1>4, <1>5, <1>6 DEF Next
-----------------------------------------------------------------------------
(* Promises.  Promised with the partitions as a parameter. *)
PromisedIn(p, c, ps) ==
    CASE p = "disk"       -> /\ c.disk \in DiskSet
                             /\ c.encrypt => c.encPass # ""
      [] p = "partitions" -> c.scheme = "manual" =>
                               /\ c.mounts.root # None
                               /\ c.firmware = "uefi" => c.mounts.boot # None
                               /\ \A m \in DOMAIN c.mounts :
                                    c.mounts[m] \in ps[c.disk] \cup {None}
      [] p = "network"    -> /\ c.mode \in ModeChoices
                             /\ c.mode = "wifi" => c.ssid # ""
      [] p = "locale"     -> /\ {c.zone, c.locale} \subseteq Names
                             /\ c.keymap # ""
      [] p = "hostname"   -> c.hostname = "good"
      [] p = "users"      -> /\ c.root # "" /\ c.userName = "good"
                             /\ c.userPass # ""
      [] OTHER            -> TRUE

LEMMA PromisedInIs ==
    ASSUME NEW c, NEW ps
    PROVE  /\ PromisedIn("disk", c, ps) <=> (c.disk \in DiskSet /\ (c.encrypt => c.encPass # ""))
           /\ PromisedIn("partitions", c, ps) <=>
                (c.scheme = "manual" =>
                   /\ c.mounts.root # None
                   /\ c.firmware = "uefi" => c.mounts.boot # None
                   /\ \A m \in DOMAIN c.mounts : c.mounts[m] \in ps[c.disk] \cup {None})
           /\ PromisedIn("network", c, ps) <=>
                (c.mode \in ModeChoices /\ (c.mode = "wifi" => c.ssid # ""))
           /\ PromisedIn("locale", c, ps) <=>
                ({c.zone, c.locale} \subseteq Names /\ c.keymap # "")
           /\ PromisedIn("hostname", c, ps) <=> (c.hostname = "good")
           /\ PromisedIn("users", c, ps) <=>
                (c.root # "" /\ c.userName = "good" /\ c.userPass # "")
           /\ \A p : p \notin {"disk", "partitions", "network", "locale", "hostname", "users"} =>
                PromisedIn(p, c, ps)
BY DEF PromisedIn

(* A page keeps the promises of the others; only the disk page can break   *)
(* another one, that of the partitions page, and not as long as it leaves  *)
(* the disk and the scheme alone, or when it saves the guided scheme.      *)
LEMMA PromiseKept ==
    ASSUME NEW c, NEW d, NEW p \in PageNames, Changed(c, d, Own(p)),
           NEW q \in PageNames, q # p, NEW ps,
           p = "disk" /\ q = "partitions" => d.scheme = c.scheme /\ d.disk = c.disk
    PROVE  PromisedIn(q, d, ps) <=> PromisedIn(q, c, ps)
<1>1. CASE q = "disk"
  <2>1. Own(p) \cap {"disk", "encrypt", "encPass"} = {}
    BY <1>1, OwnIs DEF PageNames
  <2>2. d.disk = c.disk /\ d.encrypt = c.encrypt /\ d.encPass = c.encPass
    BY <2>1, KeysAre DEF Changed
  <2> QED
    BY <1>1, <2>2, PromisedInIs
<1>2. CASE q = "partitions"
  <2>1. Own(p) \cap {"mounts", "firmware"} = {}
    BY <1>2, OwnIs DEF PageNames, DiskKeys
  <2>2. d.mounts = c.mounts /\ d.firmware = c.firmware
    BY <2>1, KeysAre DEF Changed
  <2>3. d.scheme = c.scheme /\ d.disk = c.disk
    <3>1. CASE p = "disk"
      BY <1>2, <3>1
    <3>2. CASE p # "disk"
      <4>1. Own(p) \cap {"scheme", "disk"} = {}
        BY <3>2, OwnIs DEF PageNames
      <4> QED
        BY <4>1, KeysAre DEF Changed
    <3> QED
      BY <3>1, <3>2
  <2> QED
    BY <1>2, <2>2, <2>3, PromisedInIs
<1>3. CASE q = "network"
  <2>1. Own(p) \cap {"mode", "ssid"} = {}
    BY <1>3, OwnIs DEF PageNames, DiskKeys
  <2>2. d.mode = c.mode /\ d.ssid = c.ssid
    BY <2>1, KeysAre DEF Changed
  <2> QED
    BY <1>3, <2>2, PromisedInIs
<1>4. CASE q = "locale"
  <2>1. Own(p) \cap {"zone", "locale", "keymap"} = {}
    BY <1>4, OwnIs DEF PageNames, DiskKeys
  <2>2. d.zone = c.zone /\ d.locale = c.locale /\ d.keymap = c.keymap
    BY <2>1, KeysAre DEF Changed
  <2> QED
    BY <1>4, <2>2, PromisedInIs
<1>5. CASE q = "hostname"
  <2>1. Own(p) \cap {"hostname"} = {}
    BY <1>5, OwnIs DEF PageNames, DiskKeys
  <2>2. d.hostname = c.hostname
    BY <2>1, KeysAre DEF Changed
  <2> QED
    BY <1>5, <2>2, PromisedInIs
<1>6. CASE q = "users"
  <2>1. Own(p) \cap {"root", "userName", "userPass"} = {}
    BY <1>6, OwnIs DEF PageNames, DiskKeys
  <2>2. d.root = c.root /\ d.userName = c.userName /\ d.userPass = c.userPass
    BY <2>1, KeysAre DEF Changed
  <2> QED
    BY <1>6, <2>2, PromisedInIs
<1>7. CASE q \notin {"disk", "partitions", "network", "locale", "hostname", "users"}
  BY <1>7, PromisedInIs
<1> QED
  BY <1>1, <1>2, <1>3, <1>4, <1>5, <1>6, <1>7

(* What Enter accepts is what the page promises, if the list of partitions *)
(* it was chosen from is still the one on the disk.                        *)
LEMMA AcceptedPromise ==
    ASSUME NEW p \in PageNames, NEW c, ConfigOK(c), NEW f \in Forms(p), FitsForm(p, f, c),
           NEW ps, Accepts(p, f, c), p = "users" => f.rootDone,
           p = "partitions" => f.listed = ps[c.disk]
    PROVE  PromisedIn(p, Entered(p, f, c), ps)
<1> DEFINE d == Entered(p, f, c)
<1>1. CASE p = "disk"
  <2>1. /\ DiskSave(f, c).disk = f.disk /\ f.disk \in DiskSet
        /\ DiskSave(f, c).encrypt = (f.encrypt /\ f.scheme # "manual")
        /\ DiskSave(f, c).encPass = IF DiskSave(f, c).encrypt THEN f.pass ELSE ""
    BY <1>1, DiskSaveIs
  <2>2. f.encrypt => f.pass # ""
    BY <1>1 DEF Accepts, DiskAccepts
  <2>3. PromisedIn("disk", DiskSave(f, c), ps)
    BY <2>1, <2>2, PromisedInIs
  <2> QED
    BY <1>1, <2>3, EnteredIs
<1>2. CASE p = "partitions"
  <2> DEFINE e == Saved("partitions", f, c)
  <2>1. /\ Changed(c, e, {"mounts"})
        /\ e.mounts = [root |-> f.root, boot |-> f.boot, swap |-> f.swap]
    BY <1>2, PartitionsSaveIs
  <2>2. e.disk = c.disk /\ e.firmware = c.firmware
    BY <2>1, KeysAre DEF Changed
  <2>3. f.root # None /\ (c.firmware = "uefi" => f.boot # None)
    BY <1>2 DEF Accepts
  <2>4. {f.root, f.boot, f.swap} \subseteq ps[c.disk] \cup {None}
    BY <1>2 DEF FitsForm
  <2> HIDE DEF e
  <2>5. DOMAIN e.mounts = {"root", "boot", "swap"} /\ e.mounts.root = f.root
        /\ e.mounts.boot = f.boot /\ e.mounts.swap = f.swap
    BY <2>1
  <2>6. \A m \in DOMAIN e.mounts : e.mounts[m] \in ps[e.disk] \cup {None}
    BY <2>2, <2>4, <2>5
  <2>7. PromisedIn("partitions", e, ps)
    BY <2>2, <2>3, <2>5, <2>6, PromisedInIs
  <2> QED
    BY <1>2, <2>7, EnteredIs DEF e
<1>3. CASE p = "network"
  <2>1. /\ NetworkSave(f, c).mode = f.mode /\ f.mode \in ModeChoices
        /\ NetworkSave(f, c).ssid = IF f.mode = "wifi" THEN f.ssid ELSE c.ssid
    BY <1>3, NetworkSaveIs
  <2>2. f.mode = "wifi" => f.ssid # ""
    BY <1>3 DEF Accepts
  <2>3. PromisedIn("network", NetworkSave(f, c), ps)
    BY <2>1, <2>2, PromisedInIs
  <2> QED
    BY <1>3, <2>3, EnteredIs
<1>4. CASE p = "locale"
  <2>1. /\ Saved("locale", f, c).zone = f.zone /\ Saved("locale", f, c).locale = f.locale
        /\ Saved("locale", f, c).keymap = f.keymap
    BY <1>4, LocaleSaveIs
  <2>2. {f.zone, f.locale} \subseteq Names /\ f.keymap # ""
    BY <1>4 DEF Accepts
  <2>3. PromisedIn("locale", Saved("locale", f, c), ps)
    BY <2>1, <2>2, PromisedInIs
  <2> QED
    BY <1>4, <2>3, EnteredIs
<1>5. CASE p = "hostname"
  <2>1. /\ HostnameSave(f, c).hostname = IF f.hostname = "" THEN "good" ELSE f.hostname
        /\ f.hostname \in {"", "bad", "good"}
    BY <1>5, HostnameSaveIs DEF Text
  <2>2. f.hostname # "bad"
    BY <1>5 DEF Accepts
  <2>3. PromisedIn("hostname", HostnameSave(f, c), ps)
    BY <2>1, <2>2, PromisedInIs
  <2> QED
    BY <1>5, <2>3, EnteredIs
<1>6. CASE p = "users"
  <2>1. /\ Changed(c, UserSave(f, c), {"userName", "userPass"})
        /\ UserSave(f, c).userName = f.name /\ UserSave(f, c).userPass = f.pass
    BY <1>6, UserSaveIs
  <2>2. f.name = "good" /\ f.pass # ""
    BY <1>6 DEF Accepts
  <2>3. UserSave(f, c).root = c.root /\ c.root # ""
    BY <1>6, <2>1, KeysAre DEF Changed, FitsForm
  <2>4. PromisedIn("users", UserSave(f, c), ps)
    BY <2>1, <2>2, <2>3, PromisedInIs
  <2> QED
    BY <1>6, <2>4, EnteredIs
<1>7. CASE p \notin {"disk", "partitions", "network", "locale", "hostname", "users"}
  BY <1>7, PromisedInIs
<1> QED
  BY <1>1, <1>2, <1>3, <1>4, <1>5, <1>6, <1>7

(* The pages at risk. *)
CfdiskIn(B) == \E d \in DiskSet : <<"cfdisk", d>> \in DOMAIN B

RiskyIn(c, ps, B) ==
    { i \in 1..12 : \/ ~ PromisedIn(Pages[i], c, ps)
                    \/ i = 3 /\ c.scheme = "manual" /\ CfdiskIn(B) }

LEMMA RiskyIs ==
    Risky = RiskyIn(cfg, parts, pending) /\ Risky' = RiskyIn(cfg', parts', pending')
<1>1. \A p, c : Promised(p, c) = PromisedIn(p, c, parts)
  BY DEF Promised, PromisedIn
<1>2. \A p : Promised(p, cfg)' = PromisedIn(p, cfg', parts')
  BY DEF Promised, PromisedIn
<1>3. Cfdisks # {} <=> CfdiskIn(pending)
  BY DEF Cfdisks, CfdiskIn, BagIn, BagToSet
<1>4. (Cfdisks # {})' <=> CfdiskIn(pending')
  BY DEF Cfdisks, CfdiskIn, BagIn, BagToSet
<1>5. \A i \in 1..12 : AtRisk(Pages[i]) <=>
            \/ ~ PromisedIn(Pages[i], cfg, parts)
            \/ i = 3 /\ cfg.scheme = "manual" /\ CfdiskIn(pending)
  BY <1>1, <1>3, PagesAre DEF AtRisk
<1>6. \A i \in 1..12 : AtRisk(Pages[i])' <=>
            \/ ~ PromisedIn(Pages[i], cfg', parts')
            \/ i = 3 /\ cfg'.scheme = "manual" /\ CfdiskIn(pending')
  BY <1>2, <1>4, PagesAre DEF AtRisk
<1>7. Risky = RiskyIn(cfg, parts, pending)
  BY <1>5, PagesAre DEF Risky, RiskyIn
<1>8. Risky' = RiskyIn(cfg', parts', pending')
  BY <1>6, PagesAre DEF Risky, RiskyIn
<1> QED
  BY <1>7, <1>8

LEMMA RiskyFinite ==
    ASSUME NEW c, NEW ps, NEW B
    PROVE  RiskyIn(c, ps, B) \subseteq 1..12
BY DEF RiskyIn

(* A page puts at risk at most itself, and the disk page the partitions,   *)
(* unless it leaves disk and scheme alone or saves the guided scheme.      *)
LEMMA RiskySpreads ==
    ASSUME NEW c, NEW d, NEW j \in 1..12, Changed(c, d, Own(Pages[j])), NEW ps, NEW B, NEW C,
           CfdiskIn(C) => CfdiskIn(B) \/ j = 2
    PROVE  /\ j # 2 => RiskyIn(d, ps, C) \subseteq RiskyIn(c, ps, B) \cup {j}
           /\ j = 2 => RiskyIn(d, ps, C) \subseteq RiskyIn(c, ps, B) \cup {2, 3}
           /\ (CfdiskIn(C) => CfdiskIn(B)) /\ d.scheme = c.scheme /\ (d.disk = c.disk \/ d.scheme = "guided") =>
                RiskyIn(d, ps, C) \subseteq RiskyIn(c, ps, B) \cup {j}
<1>1. Pages[j] \in PageNames /\ (Pages[j] = "disk" <=> j = 2)
  BY PageIs, PagesAre
<1>2. j # 2 => d.scheme = c.scheme
  <2>1. j # 2 => "scheme" \notin Own(Pages[j])
    BY <1>1, OwnIs DEF PageNames
  <2> QED
    BY <2>1, KeysAre DEF Changed
<1>3. ASSUME NEW i \in 1..12, i # j, ~ (j = 2 /\ i = 3)
      PROVE  PromisedIn(Pages[i], d, ps) <=> PromisedIn(Pages[i], c, ps)
  <2>1. Pages[i] \in PageNames /\ Pages[i] # Pages[j] /\ (Pages[i] = "partitions" <=> i = 3)
    BY <1>3, PageIs, PagesAre DEF Pages
  <2> QED
    BY <1>1, <1>3, <2>1, PromiseKept
<1>5. ASSUME d.scheme = c.scheme, d.disk = c.disk \/ d.scheme = "guided", j = 2
      PROVE  PromisedIn("partitions", d, ps) <=> PromisedIn("partitions", c, ps)
  <2>1. CASE d.scheme = "guided"
    BY <1>5, <2>1, PromisedInIs
  <2>2. CASE d.disk = c.disk
    BY <1>1, <1>5, <2>2, PromiseKept DEF PageNames
  <2> QED
    BY <1>5, <2>1, <2>2
<1>6. ASSUME NEW i \in RiskyIn(d, ps, C), i # j, ~ (j = 2 /\ i = 3)
      PROVE  i \in RiskyIn(c, ps, B)
  <2>1. i \in 1..12 /\ (\/ ~ PromisedIn(Pages[i], d, ps)
                        \/ i = 3 /\ d.scheme = "manual" /\ CfdiskIn(C))
    BY <1>6 DEF RiskyIn
  <2>2. i \in 1..12 /\ (\/ ~ PromisedIn(Pages[i], c, ps)
                        \/ i = 3 /\ c.scheme = "manual" /\ CfdiskIn(B))
    BY <1>2, <1>3, <1>6, <2>1
  <2> QED
    BY <2>2 DEF RiskyIn
<1>7. ASSUME d.scheme = c.scheme, d.disk = c.disk \/ d.scheme = "guided", j = 2,
             CfdiskIn(C) => CfdiskIn(B), 3 \in RiskyIn(d, ps, C)
      PROVE  3 \in RiskyIn(c, ps, B)
  BY <1>5, <1>7, PagesAre DEF RiskyIn
<1>8. j # 2 => RiskyIn(d, ps, C) \subseteq RiskyIn(c, ps, B) \cup {j}
  BY <1>6
<1>9. j = 2 => RiskyIn(d, ps, C) \subseteq RiskyIn(c, ps, B) \cup {2, 3}
  BY <1>6
<1>10. (CfdiskIn(C) => CfdiskIn(B)) /\ d.scheme = c.scheme /\ (d.disk = c.disk \/ d.scheme = "guided") =>
         RiskyIn(d, ps, C) \subseteq RiskyIn(c, ps, B) \cup {j}
  BY <1>6, <1>7
<1> QED
  BY <1>8, <1>9, <1>10
-----------------------------------------------------------------------------
(* The charge: what it comes to once the install is asked for, with cost e *)
(* of an edit of the disk page, and before that, on page s with messages L *)
(* that lead on, the first of which costs b.                               *)
Below(R, s) == { i \in R : i < s }

Total(R, e) == Cardinality(R) + e

Running(R, s, L, b) ==
    Cardinality(Below(R, s)) + IF L = {} THEN 0 ELSE Cardinality(L) - 1 + b

EditCost == IF Unsaved THEN 1 ELSE 0
PageCost == IF step \in Risky \/ Stale THEN 1 ELSE 0

LEMMA ChargeIs ==
    /\ Confirmed => Charge = Total(Risky, EditCost)
    /\ ~ Confirmed => Charge = Running(Risky, step, Leading, PageCost)
    /\ Confirmed' => Charge' = Total(Risky', EditCost')
    /\ ~ Confirmed' => Charge' = Running(Risky', step', Leading', PageCost')
BY DEF Charge, Total, Running, Below, EditCost, PageCost

LEMMA CostIs ==
    /\ EditCost \in {0, 1} /\ EditCost' \in {0, 1}
    /\ PageCost \in {0, 1} /\ PageCost' \in {0, 1}
    /\ Unsaved => EditCost = 1
    /\ ~ Unsaved' => EditCost' = 0
    /\ step \in Risky \/ Stale => PageCost = 1
    /\ ~ (step' \in Risky') /\ ~ Stale' => PageCost' = 0
BY DEF EditCost, PageCost

LEMMA SmallFinite ==
    ASSUME NEW R, R \subseteq 1..12
    PROVE  IsFiniteSet(R) /\ Cardinality(R) \in Nat
<1>2. IsFiniteSet(1..12)
  <2>1. 1 \in Int /\ 12 \in Int
    OBVIOUS
  <2> QED
    BY <2>1, FS_Interval
<1>3. IsFiniteSet(R)
  BY <1>2, FS_Subset
<1> QED
  BY <1>3, FS_CardinalityType

LEMMA BelowFinite ==
    ASSUME NEW R, R \subseteq 1..12, NEW s
    PROVE  IsFiniteSet(Below(R, s)) /\ Cardinality(Below(R, s)) \in Nat
<1>1. Below(R, s) \subseteq 1..12
  BY DEF Below
<1> QED
  BY <1>1, SmallFinite

LEMMA BelowIs ==
    ASSUME NEW R, NEW s
    PROVE  \A i : i \in Below(R, s) <=> i \in R /\ i < s
BY DEF Below

(* More pages cost more. *)
LEMMA BelowGrows ==
    ASSUME NEW Q, NEW R, NEW s, R \subseteq 1..12, \A i \in Q : i < s => i \in R
    PROVE  /\ Cardinality(Below(Q, s)) <= Cardinality(Below(R, s))
           /\ Cardinality(Below(Q, s)) \in Nat /\ Cardinality(Below(R, s)) \in Nat
<1>1. IsFiniteSet(Below(R, s))
  BY BelowFinite
<1>2. Below(Q, s) \subseteq Below(R, s)
  BY DEF Below
<1>3. IsFiniteSet(Below(Q, s)) /\ Cardinality(Below(Q, s)) <= Cardinality(Below(R, s))
  BY <1>1, <1>2, FS_Subset
<1> QED
  BY <1>1, <1>3, FS_CardinalityType

LEMMA LeadingCounts ==
    ASSUME NEW L, IsFiniteSet(L)
    PROVE  Cardinality(L) \in Nat /\ (L # {} => Cardinality(L) >= 1)
BY FS_CardinalityType, FS_EmptySet

(* Fewer pages at risk, everything else as before, cost no more. *)
LEMMA TotalNoDearer ==
    ASSUME NEW Q, NEW R, R \subseteq 1..12, Q \subseteq R, NEW d \in {0, 1}, NEW e \in {0, 1},
           d <= e
    PROVE  Total(Q, d) <= Total(R, e)
<1>1. Cardinality(Q) <= Cardinality(R) /\ Cardinality(Q) \in Nat /\ Cardinality(R) \in Nat
  BY SmallFinite, FS_Subset
<1> QED
  BY <1>1 DEF Total

LEMMA RunningNoDearer ==
    ASSUME NEW Q, NEW R, R \subseteq 1..12, NEW s, \A i \in Q : i < s => i \in R,
           NEW L, IsFiniteSet(L), NEW a \in {0, 1}, NEW b \in {0, 1}
    PROVE  /\ a <= b \/ L = {} => Running(Q, s, L, a) <= Running(R, s, L, b)
           /\ Running(Q, s, L, a) <= Running(R, s, L, b) + 1
<1>1. /\ Cardinality(Below(Q, s)) <= Cardinality(Below(R, s))
      /\ Cardinality(Below(Q, s)) \in Nat /\ Cardinality(Below(R, s)) \in Nat
  BY BelowGrows
<1>2. Cardinality(L) \in Nat
  BY LeadingCounts
<1> QED
  BY <1>1, <1>2 DEF Running

(* With the install asked for, one page more at risk, or two when an edit  *)
(* of the disk page was not saved, cost one more.                          *)
LEMMA AddOne ==
    ASSUME NEW R, IsFiniteSet(R), NEW j, NEW Q, Q \subseteq R \cup {j}
    PROVE  /\ IsFiniteSet(Q) /\ Cardinality(Q) \in Nat /\ Cardinality(R) \in Nat
           /\ Cardinality(Q) <= Cardinality(R) + 1
<1>1. /\ IsFiniteSet(R \cup {j}) /\ Cardinality(R \cup {j}) <= Cardinality(R) + 1
      /\ Cardinality(R \cup {j}) \in Nat /\ Cardinality(R) \in Nat
  BY FS_AddElement, FS_CardinalityType
<1>2. IsFiniteSet(Q) /\ Cardinality(Q) <= Cardinality(R \cup {j})
  BY <1>1, FS_Subset
<1>3. Cardinality(Q) \in Nat
  BY <1>2, FS_CardinalityType
<1> QED
  BY <1>1, <1>2, <1>3

LEMMA TotalDearer ==
    ASSUME NEW Q, NEW R, R \subseteq 1..12, NEW j, NEW k, NEW e \in {0, 1},
           Q \subseteq R \cup {j} \/ (e = 1 /\ Q \subseteq R \cup {j, k})
    PROVE  Total(Q, 0) <= Total(R, e) + 1
<1>1. IsFiniteSet(R) /\ Cardinality(R) \in Nat
  BY SmallFinite
<1>2. CASE Q \subseteq R \cup {j}
  <2>1. Cardinality(Q) \in Nat /\ Cardinality(Q) <= Cardinality(R) + 1
    BY <1>1, <1>2, AddOne
  <2> QED
    BY <1>1, <2>1 DEF Total
<1>3. CASE e = 1 /\ Q \subseteq R \cup {j, k}
  <2> DEFINE S == R \cup {j}
  <2>1. IsFiniteSet(S) /\ Cardinality(S) \in Nat /\ Cardinality(S) <= Cardinality(R) + 1
    BY <1>1, AddOne
  <2>2. Q \subseteq S \cup {k}
    BY <1>3
  <2> HIDE DEF S
  <2>3. Cardinality(Q) \in Nat /\ Cardinality(Q) <= Cardinality(S) + 1
    BY <2>1, <2>2, AddOne
  <2> QED
    BY <1>1, <1>3, <2>1, <2>3 DEF Total
<1> QED
  BY <1>2, <1>3

(* One message more that leads on costs one more, and nothing when it is   *)
(* the first, unless the page it leaves has come at risk.                  *)
LEMMA PostDearer ==
    ASSUME NEW Q, NEW R, R \subseteq 1..12, NEW s, \A i \in Q : i < s => i \in R,
           NEW L, IsFiniteSet(L), NEW x, x \notin L, NEW a \in {0, 1}, NEW b \in {0, 1},
           L = {} => a = 0, a <= b \/ L = {}
    PROVE  /\ Running(Q, s, L \cup {x}, a) <= Running(R, s, L, b) + 1
           /\ L = {} => Running(Q, s, L \cup {x}, a) <= Running(R, s, L, b)
<1>1. /\ Cardinality(Below(Q, s)) <= Cardinality(Below(R, s))
      /\ Cardinality(Below(Q, s)) \in Nat /\ Cardinality(Below(R, s)) \in Nat
  BY BelowGrows
<1>2. Cardinality(L \cup {x}) = Cardinality(L) + 1 /\ L \cup {x} # {}
  BY FS_AddElement
<1>3. Cardinality(L) \in Nat /\ (L = {} => Cardinality(L) = 0)
  BY LeadingCounts, FS_EmptySet
<1>4. Running(Q, s, L \cup {x}, a) = Cardinality(Below(Q, s)) + (Cardinality(L) + a)
  <2>1. Running(Q, s, L \cup {x}, a) =
          Cardinality(Below(Q, s)) + (Cardinality(L \cup {x}) - 1 + a)
    BY <1>2 DEF Running
  <2> QED
    BY <1>1, <1>2, <1>3, <2>1
<1> QED
  BY <1>1, <1>3, <1>4 DEF Running

(* A message that leads on is taken off the bill when it arrives, and what *)
(* it left at risk, if anything, is then behind.                           *)
LEMMA OnwardsNoDearer ==
    ASSUME NEW R, R \subseteq 1..12, NEW s \in 1..12, NEW r \in 1..12,
           \A i \in R : i < r => i <= s, NEW L, IsFiniteSet(L), NEW x \in L,
           NEW a \in {0, 1}, NEW b \in {0, 1}, s \in R => b = 1
    PROVE  Running(R, r, L \ {x}, a) <= Running(R, s, L, b)
<1>1. /\ IsFiniteSet(L \ {x}) /\ Cardinality(L \ {x}) = Cardinality(L) - 1
      /\ Cardinality(L) \in Nat /\ Cardinality(L \ {x}) \in Nat
      /\ L \ {x} = {} => Cardinality(L \ {x}) = 0
  BY FS_RemoveElement, LeadingCounts, FS_EmptySet
<1>2. /\ Cardinality(Below(R, s)) \in Nat /\ Cardinality(Below(R, r)) \in Nat
      /\ IsFiniteSet(Below(R, s))
  BY BelowFinite
<1>3. Cardinality(Below(R, r)) <= Cardinality(Below(R, s)) + b
  <2>1. ASSUME NEW i \in Below(R, r)
        PROVE  i \in Below(R, s) \/ (i = s /\ s \in R)
    <3>1. i \in R /\ i < r /\ i \in 1..12
      BY <2>1, BelowIs
    <3>2. i <= s
      BY <3>1
    <3>3. i < s \/ i = s
      BY <3>1, <3>2
    <3> QED
      BY <3>1, <3>3, BelowIs
  <2>2. CASE s \in R
    <3>1. Below(R, r) \subseteq Below(R, s) \cup {s}
      BY <2>1
    <3>2. Cardinality(Below(R, r)) <= Cardinality(Below(R, s)) + 1
      BY <1>2, <3>1, AddOne
    <3> QED
      BY <2>2, <3>2
  <2>3. CASE s \notin R
    <3>1. Below(R, r) \subseteq Below(R, s)
      BY <2>1, <2>3
    <3>2. Cardinality(Below(R, r)) <= Cardinality(Below(R, s))
      BY <1>2, <3>1, FS_Subset
    <3> QED
      BY <1>2, <3>2
  <2> QED
    BY <2>2, <2>3
<1>4. Running(R, s, L, b) = Cardinality(Below(R, s)) + (Cardinality(L) - 1 + b)
  <2>1. L # {}
    OBVIOUS
  <2> QED
    BY <2>1 DEF Running
<1>5. CASE L \ {x} = {}
  <2>1. Running(R, r, L \ {x}, a) = Cardinality(Below(R, r)) + 0
    BY <1>5 DEF Running
  <2> QED
    BY <1>1, <1>2, <1>3, <1>4, <1>5, <2>1
<1>6. CASE L \ {x} # {}
  <2>1. Running(R, r, L \ {x}, a) =
          Cardinality(Below(R, r)) + (Cardinality(L \ {x}) - 1 + a)
    BY <1>6 DEF Running
  <2> QED
    BY <1>1, <1>2, <1>3, <1>4, <2>1
<1> QED
  BY <1>5, <1>6

(* Back on a page that is at risk, one page less is behind. *)
LEMMA BackNoDearer ==
    ASSUME NEW R, R \subseteq 1..12, NEW s \in 1..12, NEW r \in 1..12, r < s,
           NEW L, IsFiniteSet(L), NEW a \in {0, 1}, NEW b \in {0, 1}, r \notin R => a = 0
    PROVE  Running(R, r, L, a) <= Running(R, s, L, b)
<1>1. Cardinality(L) \in Nat
  BY LeadingCounts
<1>2. /\ Cardinality(Below(R, s)) \in Nat /\ Cardinality(Below(R, r)) \in Nat
      /\ IsFiniteSet(Below(R, s)) /\ IsFiniteSet(Below(R, r))
  BY BelowFinite
<1>3. \A i \in Below(R, r) : i \in Below(R, s)
  <2> TAKE i \in Below(R, r)
  <2>1. i \in R /\ i < r /\ i \in 1..12
    BY BelowIs
  <2>2. i < s
    BY <2>1
  <2> QED
    BY <2>1, <2>2, BelowIs
<1>4. Cardinality(Below(R, r)) + a <= Cardinality(Below(R, s))
  <2>1. CASE r \in R
    <3>1. r \notin Below(R, r) /\ r \in Below(R, s)
      BY <2>1, BelowIs
    <3>2. Below(R, r) \cup {r} \subseteq Below(R, s)
      BY <1>3, <3>1
    <3>3. Cardinality(Below(R, r) \cup {r}) = Cardinality(Below(R, r)) + 1
      BY <1>2, <3>1, FS_AddElement
    <3>4. Cardinality(Below(R, r) \cup {r}) <= Cardinality(Below(R, s))
      BY <1>2, <3>2, FS_Subset
    <3> QED
      BY <1>2, <3>3, <3>4
  <2>2. CASE r \notin R
    <3>1. Cardinality(Below(R, r)) <= Cardinality(Below(R, s))
      BY <1>2, <1>3, FS_Subset
    <3> QED
      BY <1>2, <2>2, <3>1
  <2> QED
    BY <2>1, <2>2
<1> QED
  BY <1>1, <1>2, <1>4 DEF Running
-----------------------------------------------------------------------------
(* Charged is kept by every action. *)
Owes == Charged /\ IsFiniteSet(Leading)

LEMMA ConfirmedIs ==
    /\ Confirmed <=> phase = "install" \/ <<"start">> \in DOMAIN pending
    /\ Confirmed' <=> phase' = "install" \/ <<"start">> \in DOMAIN pending'
BY DEF Confirmed, BagIn, BagToSet

LEMMA RiskySmall == Risky \subseteq 1..12 /\ Risky' \subseteq 1..12
BY RiskyIs, RiskyFinite

LEMMA CostsNoMore ==
    /\ (Unsaved' => Unsaved) => EditCost' <= EditCost
    /\ (step' \in Risky' \/ Stale' => step \in Risky \/ Stale) => PageCost' <= PageCost
BY DEF EditCost, PageCost

LEMMA TotalInt ==
    ASSUME NEW R, R \subseteq 1..12, NEW e \in {0, 1} PROVE Total(R, e) \in Int
<1>1. Cardinality(R) \in Nat
  BY SmallFinite
<1> QED
  BY <1>1 DEF Total

LEMMA RunningInt ==
    ASSUME NEW R, R \subseteq 1..12, NEW s, NEW L, IsFiniteSet(L), NEW b \in {0, 1}
    PROVE  Running(R, s, L, b) \in Int
<1>1. Cardinality(Below(R, s)) \in Nat /\ Cardinality(L) \in Nat
  BY BelowFinite, LeadingCounts
<1> QED
  BY <1>1 DEF Running

LEMMA ChargeInt ==
    ASSUME IsFiniteSet(Leading), IsFiniteSet(Leading')
    PROVE  Charge \in Int /\ Charge' \in Int
BY RiskySmall, CostIs, ChargeIs, TotalInt, RunningInt

(* A step that costs no more than it pays. *)
LEMMA StillOwes ==
    ASSUME TypeOK, TypeOK', Owes, IsFiniteSet(Leading'), phase # "quit",
           Charge' <= Charge + (hurries' - hurries)
    PROVE  Owes'
<1>1. Charge \in Int /\ Charge' \in Int
  BY ChargeInt DEF Owes
<1>2. hurries \in Nat /\ hurries' \in Nat
  BY WizardAssumption DEF TypeOK
<1>3. Charge <= hurries
  BY DEF Owes, Charged
<1>4. \A a, b \in Int, h, k \in Nat : a <= h /\ b <= a + (k - h) => b <= k
  OBVIOUS
<1>5. Charge' <= hurries'
  BY <1>1, <1>2, <1>3, <1>4
<1> QED
  BY <1>5 DEF Owes, Charged

LEMMA HastyPays ==
    ASSUME TypeOK, Hasty
    PROVE  /\ hurries' = hurries \/ hurries' = hurries + 1
           /\ DOMAIN pending # {} => hurries' = hurries + 1
<1>1. DOMAIN EmptyBag = {}
  BY DEF EmptyBag, SetToBag
<1> QED
  BY <1>1 DEF Hasty

LEMMA LeadingWhen ==
    ASSUME TypeOK
    PROVE  /\ \A m \in DOMAIN pending : m \in Forward => Leading # {}
           /\ Leading # {} => DOMAIN pending # {}
<1>1. Counts(pending)
  BY BagIsCounts DEF TypeOK
<1>2. ASSUME NEW m \in DOMAIN pending, m \in Forward
      PROVE  Leading # {}
  <2>1. 1 \in 1..pending[m]
    BY <1>1 DEF Counts
  <2>2. <<m, 1>> \in Copies(pending)
    BY <1>2, <2>1, CopiesAre
  <2> QED
    BY <2>2, LeadingIs
<1>3. ASSUME Leading # {}
      PROVE  DOMAIN pending # {}
  BY <1>3, CopiesAre, LeadingIs
<1> QED
  BY <1>2, <1>3

(* A disk page just shown is saved. *)
LEMMA ShownSaved ==
    ASSUME Sound(cfg'), NEW ps, form' = Load(page', cfg', ps)
    PROVE  ~ Unsaved'
<1>1. Unsaved' = (page' = "disk" /\ (form'.scheme = cfg'.scheme =>
                                       form'.scheme = "manual" /\ form'.disk # cfg'.disk))
  BY DEF Unsaved
<1>2. CASE page' = "disk"
  <2>1. form' = DiskForm(cfg')
    BY <1>2, LoadIs
  <2>2. DiskForm(cfg').scheme = cfg'.scheme
        /\ (cfg'.disk \in DiskSet => DiskForm(cfg').disk = cfg'.disk)
    BY DEF DiskForm
  <2> QED
    BY <1>1, <2>1, <2>2 DEF Sound
<1> QED
  BY <1>1, <1>2

(* A step that changes neither the configuration, nor the partitions, nor  *)
(* the page, nor what leads on. *)
LEMMA OwesSame ==
    ASSUME TypeOK, TypeOK', Owes, phase # "quit", Confirmed' = Confirmed,
           Risky' \subseteq Risky, step' = step, Leading' = Leading,
           Unsaved' => Unsaved, Stale' => Stale \/ step \in Risky,
           hurries' = hurries \/ hurries' = hurries + 1
    PROVE  Owes'
<1>1. IsFiniteSet(Leading) /\ IsFiniteSet(Leading')
  BY DEF Owes
<1>2. EditCost' <= EditCost /\ PageCost' <= PageCost
  BY CostsNoMore
<1>3. Charge' <= Charge
  <2>1. CASE Confirmed
    BY <1>2, <2>1, ChargeIs, TotalNoDearer, RiskySmall, CostIs
  <2>2. CASE ~ Confirmed
    <3>1. Running(Risky', step, Leading, PageCost') <= Running(Risky, step, Leading, PageCost)
      BY <1>1, <1>2, RunningNoDearer, RiskySmall, CostIs
    <3> QED
      BY <2>2, <3>1, ChargeIs
  <2> QED
    BY <2>1, <2>2
<1>4. Charge' <= Charge + (hurries' - hurries)
  <2>1. Charge \in Int /\ Charge' \in Int
    BY <1>1, ChargeInt
  <2>2. hurries \in Nat
    BY DEF TypeOK
  <2> QED
    BY <1>3, <2>1, <2>2
<1> QED
  BY <1>1, <1>4, StillOwes

LEMMA OwesInit == Init => Owes
<1> SUFFICES ASSUME Init
             PROVE  Owes
  OBVIOUS
<1>1. DOMAIN pending = {}
  BY DEF Init, EmptyBag, SetToBag
<1>2. Leading = {}
  BY <1>1 DEF Leading
<1>3. ~ Confirmed
  BY <1>1, ConfirmedIs DEF Init
<1>4. Below(Risky, step) = {}
  <2>1. Risky \subseteq 1..12 /\ step = 1
    BY RiskySmall DEF Init
  <2>2. \A i \in Risky : ~ (i < step)
    BY <2>1
  <2> QED
    BY <2>2, BelowIs
<1>5. Charge = 0
  <2>1. Cardinality(Below(Risky, step)) = 0
    BY <1>4, FS_EmptySet
  <2> QED
    BY <1>2, <1>3, <2>1, ChargeIs DEF Running
<1>6. IsFiniteSet(Leading)
  BY <1>2, FS_EmptySet
<1> QED
  BY <1>5, <1>6 DEF Owes, Charged, Init

(* Edits of the disk page are paid for once the install is asked for. *)
LEMMA OwesTyped == TypeOK /\ Fits /\ Owes /\ Typed => Owes'
<1> SUFFICES ASSUME TypeOK, Fits, Owes, Typed
             PROVE  Owes'
  OBVIOUS
<1>1. /\ UNCHANGED << phase, step, cfg, parts, pending >> /\ phase = "wizard" /\ Hasty
  BY DEF Typed
<1>2. TypeOK' /\ (Stale' => Stale)
  BY TypeTyped, FitsTyped
<1>3. /\ Risky' = Risky /\ Leading' = Leading /\ (Confirmed' <=> Confirmed)
  BY <1>1, RiskyIs, ConfirmedIs DEF Leading
<1>4. IsFiniteSet(Leading) /\ IsFiniteSet(Leading')
  BY <1>3 DEF Owes
<1>5. hurries \in Nat /\ Charge \in Int /\ Charge' \in Int
  BY <1>4, ChargeInt DEF TypeOK
<1>6. CASE Confirmed
  <2>1. hurries' = hurries + 1
    BY <1>1, <1>6, ConfirmedIs, HastyPays
  <2>2. Charge' <= Charge + 1
    <3>1. Cardinality(Risky) \in Nat
      BY RiskySmall, SmallFinite
    <3> QED
      BY <1>3, <1>6, <3>1, ChargeIs, CostIs DEF Total
  <2> QED
    BY <1>1, <1>2, <1>4, <1>5, <2>1, <2>2, StillOwes
<1>7. CASE ~ Confirmed
  <2>1. PageCost' <= PageCost
    BY <1>1, <1>2, <1>3, CostsNoMore
  <2>2. Running(Risky', step, Leading, PageCost') <= Running(Risky, step, Leading, PageCost)
    BY <1>3, <1>4, <2>1, RunningNoDearer, RiskySmall, CostIs
  <2>3. Charge' <= Charge
    BY <1>1, <1>3, <1>7, <2>2, ChargeIs
  <2>4. hurries' = hurries \/ hurries' = hurries + 1
    BY <1>1, HastyPays
  <2> QED
    BY <1>1, <1>2, <1>4, <1>5, <2>3, <2>4, StillOwes
<1> QED
  BY <1>6, <1>7

LEMMA OwesEnterRoot == TypeOK /\ Fits /\ Owes /\ EnterRoot => Owes'
<1> SUFFICES ASSUME TypeOK, Fits, Owes, EnterRoot
             PROVE  Owes'
  OBVIOUS
<1>1. /\ UNCHANGED << phase, step, parts, pending >> /\ phase = "wizard" /\ Hasty
      /\ page = "users" /\ page' = page /\ form.root # ""
      /\ cfg' = cfg \/ cfg' = [ cfg EXCEPT !.root = form.root ]
  BY DEF EnterRoot, Typing, page
<1>2. TypeOK' /\ ~ Stale'
  BY TypeEnterRoot, FitsEnterRoot
<1>3. Leading' = Leading /\ (Confirmed' <=> Confirmed) /\ ~ Unsaved'
  <2>0. pending' = pending => Leading' = Leading
    BY DEF Leading
  <2>1. Leading' = Leading
    BY <1>1, <2>0
  <2>2. ~ Unsaved'
    BY <1>1 DEF Unsaved
  <2> QED
    BY <1>1, <2>1, <2>2, ConfirmedIs
<1>4. Risky' \subseteq Risky
  <2>1. CASE cfg' = cfg
    BY <1>1, <2>1, RiskyIs
  <2>2. CASE cfg' = [ cfg EXCEPT !.root = form.root ]
    <3>1. DOMAIN cfg = Keys
      BY DEF TypeOK, ConfigOK
    <3>2. /\ Changed(cfg, cfg', {"root"}) /\ cfg'.root # ""
      BY <1>1, <2>2, <3>1, KeysAre DEF Changed
    <3>3. step \in 1..12 /\ Pages[step] = "users"
      BY <1>1, PagesAre DEF TypeOK, page
    <3>4. Changed(cfg, cfg', Own("users"))
      BY <3>2, OwnIs DEF Changed
    <3>5. cfg'.scheme = cfg.scheme /\ cfg'.userName = cfg.userName
          /\ cfg'.userPass = cfg.userPass
      BY <3>2, KeysAre DEF Changed
    <3>6. \A i \in 1..12 : PromisedIn(Pages[i], cfg, parts) => PromisedIn(Pages[i], cfg', parts)
      <4> TAKE i \in 1..12
      <4>1. CASE Pages[i] = "users"
        BY <3>2, <3>5, <4>1, PromisedInIs
      <4>2. CASE Pages[i] # "users"
        <5>1. Pages[i] \in PageNames /\ "users" \in PageNames
          BY PageIs, PagesAre DEF PageNames
        <5> QED
          BY <3>4, <4>2, <5>1, PromiseKept
      <4> QED
        BY <4>1, <4>2
    <3> QED
      BY <1>1, <3>5, <3>6, RiskyIs DEF RiskyIn
  <2> QED
    BY <1>1, <2>1, <2>2
<1>5. hurries' = hurries \/ hurries' = hurries + 1
  BY <1>1, HastyPays
<1>6. Confirmed' = Confirmed
  BY <1>3 DEF Confirmed
<1> QED
  BY <1>1, <1>2, <1>3, <1>4, <1>5, <1>6, OwesSame

LEMMA OwesEsc == TypeOK /\ Fits /\ Owes /\ Esc => Owes'
<1> SUFFICES ASSUME TypeOK, Fits, Owes, Esc
             PROVE  Owes'
  OBVIOUS
<1>1. /\ UNCHANGED << phase, step, cfg, parts >> /\ phase = "wizard" /\ Hasty
      /\ page' = page
      /\ \/ page = "users" /\ pending' = pending
         \/ pending' = pending (+) SetToBag({<<"back">>}) /\ form' = form
  BY DEF Esc, Post, Typing, page
<1>2. TypeOK' /\ (Stale' => Stale)
  BY TypeEsc, FitsEsc
<1>3. /\ Leading' = Leading
      /\ \A m : m # <<"back">> => (m \in DOMAIN pending' <=> m \in DOMAIN pending)
  <2>1. pending' = pending => Leading' = Leading
    BY DEF Leading
  <2> QED
    BY <1>1, <2>1, PostLeads, LeadsOn
<1>4. /\ Confirmed' <=> Confirmed
      /\ CfdiskIn(pending') <=> CfdiskIn(pending)
  BY <1>1, <1>3, ConfirmedIs DEF CfdiskIn
<1>5. Risky' = Risky
  BY <1>1, <1>4, RiskyIs DEF RiskyIn
<1>6. Unsaved' => Unsaved
  BY <1>1 DEF Unsaved
<1>7. hurries' = hurries \/ hurries' = hurries + 1
  BY <1>1, HastyPays
<1>8. Confirmed' = Confirmed
  BY <1>4 DEF Confirmed
<1> QED
  BY <1>1, <1>2, <1>3, <1>5, <1>6, <1>7, <1>8, OwesSame
(* Enter.  What the page promises holds afterwards, unless the list its    *)
(* partitions were chosen from is old.                                     *)
LEMMA EnterFacts ==
    ASSUME TypeOK, Fits, Enter
    PROVE  /\ step \in 1..12 /\ step' = step /\ page' = page /\ page = Pages[step]
           /\ Changed(cfg, cfg', Own(page))
           /\ pending' = pending (+) SetToBag({Asks(page, form)})
           /\ UNCHANGED << phase, form, parts >> /\ phase = "wizard" /\ Hasty
           /\ ~ Stale => PromisedIn(page, cfg', parts)
           /\ CfdiskIn(pending') => CfdiskIn(pending) \/ page = "disk"
           /\ ~ Unsaved'
<1>1. /\ step' = step /\ page' = page /\ cfg' = Entered(page, form, cfg)
      /\ pending' = pending (+) SetToBag({Asks(page, form)})
      /\ UNCHANGED << phase, form, parts >> /\ phase = "wizard" /\ Hasty
      /\ Accepts(page, form, cfg) /\ (page = "users" => form.rootDone)
  BY DEF Enter, Post, Typing, page
<1>2. /\ step \in 1..12 /\ page = Pages[step] /\ page \in PageNames
      /\ form \in Forms(page) /\ ConfigOK(cfg)
  BY PageTyped, PagesAre DEF TypeOK, page
<1>3. Changed(cfg, cfg', Own(page))
  BY <1>1, <1>2, EnteredOwn
<1>4. ~ Stale => PromisedIn(page, cfg', parts)
  <2>1. ~ Stale => (page = "partitions" => form.listed = parts[cfg.disk])
    BY DEF Stale
  <2>2. FitsForm(page, form, cfg)
    BY FitsMeans
  <2> QED
    BY <1>1, <1>2, <2>1, <2>2, AcceptedPromise
<1>5. CfdiskIn(pending') => CfdiskIn(pending) \/ page = "disk"
  <2>1. DOMAIN pending' = DOMAIN pending \cup {Asks(page, form)}
    BY <1>1, PostLeads
  <2>2. page # "disk" => Asks(page, form) \in {<<"start">>, <<"back">>, <<"done">>}
    BY <1>2, AsksIs
  <2> QED
    BY <2>1, <2>2 DEF CfdiskIn
<1>6. ~ Unsaved'
  <2>1. CASE page = "disk"
    <3>1. DiskSave(form, cfg).disk = form.disk /\ DiskSave(form, cfg).scheme = form.scheme
      BY <1>2, <2>1, DiskSaveIs
    <3>2. cfg' = DiskSave(form, cfg)
      BY <1>1, <2>1, EnteredIs
    <3>3. form'.scheme = cfg'.scheme /\ form'.disk = cfg'.disk
      BY <1>1, <3>1, <3>2
    <3> QED
      BY <3>3 DEF Unsaved
  <2>2. CASE page # "disk"
    BY <1>1, <2>2 DEF Unsaved
  <2> QED
    BY <2>1, <2>2
<1> QED
  BY <1>1, <1>2, <1>3, <1>4, <1>5, <1>6

LEMMA EnterSpreads ==
    ASSUME TypeOK, Fits, Enter
    PROVE  /\ Risky' \subseteq Risky \cup {3}
           /\ \A i \in Risky' : i < step => i \in Risky
           /\ ~ Stale /\ (step = 3 => ~ CfdiskIn(pending)) => step \notin Risky'
           /\ page = "confirm" => Risky' = Risky
<1>1. /\ step \in 1..12 /\ page = Pages[step] /\ Changed(cfg, cfg', Own(Pages[step]))
      /\ parts' = parts
      /\ CfdiskIn(pending') => CfdiskIn(pending) \/ step = 2
      /\ ~ Stale => PromisedIn(Pages[step], cfg', parts)
  <2>1. page = "disk" <=> page = Pages[2]
    BY PagesAre
  <2>2. step \in 1..12 /\ page = Pages[step] /\ (page = "disk" <=> step = 2)
    BY EnterFacts, PagesAre
  <2> QED
    BY <2>2, EnterFacts
<1>2. /\ step # 2 => Risky' \subseteq Risky \cup {step}
      /\ step = 2 => Risky' \subseteq Risky \cup {2, 3}
  BY <1>1, RiskySpreads, RiskyIs
<1>3. step # 3 /\ ~ Stale => step \notin Risky'
  BY <1>1, RiskyIs DEF RiskyIn
<1>4. step # 3 => ~ Stale
  BY <1>1, PagesAre DEF Stale
<1>5. step = 3 /\ ~ Stale /\ ~ CfdiskIn(pending) => step \notin Risky'
  BY <1>1, RiskyIs DEF RiskyIn
<1>6. page = "confirm" => Risky' = Risky
  <2> SUFFICES ASSUME page = "confirm"
               PROVE  Risky' = Risky
    OBVIOUS
  <2>1. cfg' = cfg /\ parts' = parts
    BY EnteredIs DEF Enter
  <2>2. pending' = pending (+) SetToBag({Asks(page, form)})
        /\ Asks(page, form) \in {<<"start">>, <<"back">>}
    BY EnterFacts, AsksIs, PageTyped DEF TypeOK
  <2>3. DOMAIN pending' = DOMAIN pending \cup {Asks(page, form)}
    BY <2>2, PostLeads
  <2>4. CfdiskIn(pending') <=> CfdiskIn(pending)
    BY <2>2, <2>3 DEF CfdiskIn
  <2> QED
    BY <2>1, <2>4, RiskyIs DEF RiskyIn
<1>7. \A i \in Risky' : i < step => i \in Risky
  <2> SUFFICES ASSUME NEW i \in Risky', i < step
               PROVE  i \in Risky
    OBVIOUS
  <2>1. i # step /\ (step = 2 => i # 3)
    BY <1>1
  <2> QED
    BY <1>2, <2>1
<1> QED
  BY <1>2, <1>3, <1>4, <1>5, <1>6, <1>7

LEMMA OwesEnter == TypeOK /\ Fits /\ Owes /\ Enter => Owes'
<1> SUFFICES ASSUME TypeOK, Fits, Owes, Enter
             PROVE  Owes'
  OBVIOUS
<1>1. /\ step \in 1..12 /\ step' = step /\ page' = page /\ page = Pages[step]
      /\ pending' = pending (+) SetToBag({Asks(page, form)})
      /\ phase' = phase /\ phase = "wizard" /\ Hasty /\ ~ Unsaved'
  BY EnterFacts
<1>2. TypeOK' /\ (Stale' => Stale)
  BY TypeEnter, FitsEnter
<1>3. page \in PageNames /\ form \in Forms(page)
  BY PageTyped DEF TypeOK
<1>4. /\ Risky' \subseteq Risky \cup {3} /\ \A i \in Risky' : i < step => i \in Risky
      /\ ~ Stale /\ (step = 3 => ~ CfdiskIn(pending)) => step \notin Risky'
      /\ page = "confirm" => Risky' = Risky
  BY EnterSpreads
<1>5. IsFiniteSet(Leading) /\ Risky \subseteq 1..12 /\ Risky' \subseteq 1..12
  BY RiskySmall DEF Owes
<1>6. IsFiniteSet(Leading')
  <2>1. PICK x : Leading' = Leading \/ Leading' = Leading \cup {x}
    BY <1>1, PostLeads
  <2> QED
    BY <1>5, <2>1, FS_AddElement
<1>7. /\ hurries' = hurries \/ hurries' = hurries + 1
      /\ DOMAIN pending # {} => hurries' = hurries + 1
      /\ hurries \in Nat
  BY <1>1, HastyPays DEF TypeOK
<1>8. Charge \in Int /\ Charge' \in Int
  BY <1>5, <1>6, ChargeInt
<1>9. DOMAIN pending' = DOMAIN pending \cup {Asks(page, form)}
  BY <1>1, PostLeads
<1>10. CASE Confirmed
  <2>1. Confirmed' /\ hurries' = hurries + 1
    BY <1>1, <1>7, <1>9, <1>10, ConfirmedIs
  <2>2. Charge' = Total(Risky', 0) /\ Charge = Total(Risky, EditCost)
    BY <1>1, <1>10, <2>1, ChargeIs, CostIs
  <2>3. Total(Risky', 0) <= Total(Risky, EditCost) + 1
    BY <1>4, <1>5, CostIs, TotalDearer
  <2> QED
    BY <1>1, <1>2, <1>6, <1>7, <1>8, <2>1, <2>2, <2>3, StillOwes
<1>11. CASE ~ Confirmed /\ Asks(page, form) = <<"start">>
  <2>1. Confirmed'
    BY <1>9, <1>11, ConfirmedIs
  <2>2. page = "confirm" /\ step = 12
    BY <1>1, <1>3, <1>11, AsksIs, LeadsOn, PagesAre
  <2>3. 12 \notin Risky
    <3>1. \A c, ps : PromisedIn("confirm", c, ps)
      BY PromisedInIs
    <3> QED
      BY <3>1, RiskyIs, PagesAre DEF RiskyIn
  <2>4. Risky = Below(Risky, step)
    <3>1. \A i \in Risky : i < 12
      BY <1>5, <2>3
    <3> QED
      BY <2>2, <3>1 DEF Below
  <2>5. Charge' = Cardinality(Below(Risky, step)) + 0
    BY <1>1, <1>4, <2>1, <2>2, <2>4, ChargeIs, CostIs DEF Total
  <2>6. Charge = Running(Risky, step, Leading, PageCost)
    BY <1>11, ChargeIs
  <2>7. Cardinality(Leading) \in Nat /\ (Leading # {} => Cardinality(Leading) >= 1)
        /\ Cardinality(Below(Risky, step)) \in Nat
    BY <1>5, LeadingCounts, BelowFinite
  <2>8. Charge' <= Charge
    BY <2>5, <2>6, <2>7, CostIs DEF Running
  <2> QED
    BY <1>1, <1>2, <1>6, <1>7, <1>8, <2>8, StillOwes
<1>12. CASE ~ Confirmed /\ Asks(page, form) = <<"back">>
  <2>1. page = "confirm" /\ step = 12
    BY <1>1, <1>3, <1>12, AsksIs, LeadsOn, PagesAre
  <2>2. Leading' = Leading
    BY <1>1, <1>12, PostLeads, LeadsOn
  <2>3. ~ Confirmed'
    BY <1>1, <1>9, <1>12, ConfirmedIs
  <2>4. Risky' = Risky
    BY <1>4, <2>1
  <2>5. Confirmed' = Confirmed
    BY <1>12, <2>3 DEF Confirmed
  <2> QED
    BY <1>1, <1>2, <1>7, <2>2, <2>4, <2>5, OwesSame
<1>13. CASE ~ Confirmed /\ Asks(page, form) \notin {<<"start">>, <<"back">>}
  <2>1. Asks(page, form) \in Forward
    BY <1>3, <1>13, AsksIs DEF Messages
  <2>2. ~ Confirmed'
    BY <1>1, <1>9, <1>13, ConfirmedIs
  <2>3. PICK x : Leading' = Leading \cup {x} /\ x \notin Leading
    BY <1>1, <2>1, PostLeads
  <2>4. Leading = {} => ~ Stale /\ ~ CfdiskIn(pending)
    <3>1. CfdiskIn(pending) => Leading # {}
      BY LeadingWhen, LeadsOn DEF CfdiskIn
    <3> QED
      BY <3>1, FitsMeans
  <2>5. step = 3 /\ step \notin Risky => ~ CfdiskIn(pending)
    <3>1. step = 3 => cfg.scheme = "manual"
      BY <1>1, PagesAre, FitsMeans DEF FitsForm
    <3> QED
      BY <3>1, RiskyIs DEF RiskyIn
  <2>6. Leading = {} \/ ~ (step \in Risky \/ Stale) => ~ (step' \in Risky') /\ ~ Stale'
    BY <1>1, <1>2, <1>4, <2>4, <2>5
  <2>7. (Leading = {} => PageCost' = 0) /\ (PageCost' <= PageCost \/ Leading = {})
    BY <2>6, CostIs
  <2>8. /\ Running(Risky', step, Leading \cup {x}, PageCost')
             <= Running(Risky, step, Leading, PageCost) + 1
        /\ Leading = {} => Running(Risky', step, Leading \cup {x}, PageCost')
                             <= Running(Risky, step, Leading, PageCost)
    BY <1>4, <1>5, <2>3, <2>7, CostIs, PostDearer
  <2>9. Charge = Running(Risky, step, Leading, PageCost)
        /\ Charge' = Running(Risky', step, Leading \cup {x}, PageCost')
    BY <1>1, <1>13, <2>2, <2>3, ChargeIs
  <2>10. Charge' <= Charge + 1 /\ (Leading = {} => Charge' <= Charge)
    BY <2>8, <2>9
  <2>11. Leading # {} => hurries' = hurries + 1
    BY <1>7, LeadingWhen
  <2>12. Charge' <= Charge + (hurries' - hurries)
    BY <1>7, <1>8, <2>10, <2>11
  <2> QED
    BY <1>1, <1>2, <1>6, <2>12, StillOwes
<1> QED
  BY <1>10, <1>11, <1>12, <1>13

(* ctrl+a.  A page shown anew is not old, and nothing of it is unsaved. *)
LEMMA OwesToggle == TypeOK /\ Fits /\ Owes /\ ToggleAdvanced => Owes'
<1> SUFFICES ASSUME TypeOK, Fits, Owes, ToggleAdvanced
             PROVE  Owes'
  OBVIOUS
<1>1. /\ UNCHANGED << phase, step, parts, pending >> /\ phase = "wizard" /\ Hasty
      /\ cfg' = IF page \in Saveable THEN Saved(page, form, cfg) ELSE cfg
      /\ form' = Load(page, cfg', parts) /\ page' = page
  BY DEF ToggleAdvanced, Typing, page
<1>2. TypeOK' /\ ~ Stale' /\ Fits'
  BY TypeToggle, FitsToggle
<1>3. /\ step \in 1..12 /\ page = Pages[step] /\ page \in PageNames
      /\ form \in Forms(page) /\ ConfigOK(cfg)
  BY PageTyped, PagesAre DEF TypeOK, page
<1>4. ~ Unsaved'
  <2>1. Sound(cfg')
    BY <1>2 DEF Fits, Consistent, Sound
  <2>2. form' = Load(page', cfg', parts)
    BY <1>1
  <2> QED
    BY <2>1, <2>2, ShownSaved
<1>5. Changed(cfg, cfg', Own(Pages[step]))
  <2>1. page \in Saveable => Changed(cfg, cfg', Own(page))
    BY <1>1, <1>3, SavedOwn
  <2>2. page \notin Saveable => Changed(cfg, cfg', Own(page))
    BY <1>1 DEF Changed, TypeOK, ConfigOK
  <2> QED
    BY <1>3, <2>1, <2>2
<1>6. /\ step # 2 => Risky' \subseteq Risky \cup {step}
      /\ step = 2 => Risky' \subseteq Risky \cup {2, 3}
      /\ cfg'.scheme = cfg.scheme /\ (cfg'.disk = cfg.disk \/ cfg'.scheme = "guided") =>
           Risky' \subseteq Risky \cup {step}
  BY <1>1, <1>3, <1>5, RiskySpreads, RiskyIs
<1>7. step = 2 /\ ~ Unsaved => Risky' \subseteq Risky \cup {2}
  <2> SUFFICES ASSUME step = 2, ~ Unsaved
               PROVE  Risky' \subseteq Risky \cup {2}
    OBVIOUS
  <2>1. page = "disk" /\ page \in Saveable
    BY <1>3, PagesAre DEF Saveable
  <2>2. cfg' = DiskSave(form, cfg)
    BY <1>1, <2>1 DEF Saved
  <2>3. DiskSave(form, cfg).disk = form.disk /\ DiskSave(form, cfg).scheme = form.scheme
    BY <1>3, <2>1, DiskSaveIs
  <2>4. form.scheme = cfg.scheme /\ (form.scheme # "manual" \/ form.disk = cfg.disk)
    BY <2>1 DEF Unsaved
  <2>5. form.scheme # "manual" => form.scheme = "guided"
    BY <2>4, SchemeIs
  <2> QED
    BY <1>6, <2>2, <2>3, <2>4, <2>5
<1>8. Leading' = Leading /\ (Confirmed' <=> Confirmed)
  <2>1. pending' = pending => Leading' = Leading
    BY DEF Leading
  <2> QED
    BY <1>1, <2>1, ConfirmedIs
<1>9. IsFiniteSet(Leading) /\ IsFiniteSet(Leading') /\ Risky \subseteq 1..12
  BY <1>8, RiskySmall DEF Owes
<1>10. /\ hurries' = hurries \/ hurries' = hurries + 1
       /\ DOMAIN pending # {} => hurries' = hurries + 1
       /\ hurries \in Nat /\ Charge \in Int /\ Charge' \in Int
  BY <1>1, <1>9, HastyPays, ChargeInt DEF TypeOK
<1>11. CASE Confirmed
  <2>1. hurries' = hurries + 1
    BY <1>1, <1>10, <1>11, ConfirmedIs
  <2>2. Charge' = Total(Risky', 0) /\ Charge = Total(Risky, EditCost)
    BY <1>4, <1>8, <1>11, ChargeIs, CostIs
  <2>3. \/ Risky' \subseteq Risky \cup {step}
        \/ EditCost = 1 /\ Risky' \subseteq Risky \cup {step, 3}
    BY <1>6, <1>7, CostIs
  <2>4. Total(Risky', 0) <= Total(Risky, EditCost) + 1
    BY <1>9, <2>3, CostIs, TotalDearer
  <2> QED
    BY <1>1, <1>2, <1>9, <1>10, <2>1, <2>2, <2>4, StillOwes
<1>12. CASE ~ Confirmed
  <2>1. \A i \in Risky' : i < step => i \in Risky
    BY <1>3, <1>6
  <2>2. Charge = Running(Risky, step, Leading, PageCost)
        /\ Charge' = Running(Risky', step, Leading, PageCost')
    BY <1>1, <1>8, <1>12, ChargeIs
  <2>3. /\ Running(Risky', step, Leading, PageCost') <= Running(Risky, step, Leading, PageCost) + 1
        /\ Leading = {} => Running(Risky', step, Leading, PageCost')
                             <= Running(Risky, step, Leading, PageCost)
    BY <1>9, <2>1, CostIs, RunningNoDearer
  <2>4. Leading # {} => hurries' = hurries + 1
    BY <1>10, LeadingWhen
  <2>5. Charge' <= Charge + (hurries' - hurries)
    BY <1>10, <2>2, <2>3, <2>4
  <2> QED
    BY <1>1, <1>2, <1>9, <2>5, StillOwes
<1> QED
  BY <1>11, <1>12
(* Messages.  They change neither the configuration nor, but for cfdisk,   *)
(* the pages at risk.                                                      *)
LEMMA RiskySame ==
    ASSUME TypeOK, NEW m \in {<<"done">>, <<"back">>, <<"start">>}, m \in DOMAIN pending,
           pending' = pending (-) SetToBag({m}), cfg' = cfg, parts' = parts
    PROVE  Risky' = Risky
<1>1. /\ DOMAIN pending' \subseteq DOMAIN pending
      /\ DOMAIN pending \subseteq DOMAIN pending' \cup {m}
  BY DropLeads
<1>2. CfdiskIn(pending') <=> CfdiskIn(pending)
  <2>1. \A d : m # <<"cfdisk", d>>
    <3>1. m = <<"done">> \/ m = <<"back">> \/ m = <<"start">>
      OBVIOUS
    <3> QED
      BY <3>1
  <2> QED
    BY <1>1, <2>1 DEF CfdiskIn
<1> QED
  BY <1>2, RiskyIs DEF RiskyIn

LEMMA OwesDone == TypeOK /\ Fits /\ Owes /\ Done => Owes'
<1> SUFFICES ASSUME TypeOK, Fits, Owes, Done
             PROVE  Owes'
  OBVIOUS
<1>1. /\ <<"done">> \in DOMAIN pending /\ pending' = pending (-) SetToBag({<<"done">>})
      /\ cfg' = cfg /\ parts' = parts /\ phase' = phase /\ hurries' = hurries
  BY DoneMoves
<1>2. \/ step = 12 /\ step' = 12 /\ form' = form
      \/ /\ step < 12 /\ form' = Load(page', cfg', parts')
         /\ \/ step = 2 /\ cfg.scheme = "guided" /\ step' = 4
            \/ step' = step + 1
  BY DoneMoves
<1>3. /\ DOMAIN pending' \subseteq DOMAIN pending
      /\ DOMAIN pending \subseteq DOMAIN pending' \cup {<<"done">>}
  BY <1>1, DropLeads
<1>4. PICK x \in Leading : Leading' = Leading \ {x}
  <2>1. Leading' = Leading \ {<<<<"done">>, pending[<<"done">>]>>}
        /\ <<<<"done">>, pending[<<"done">>]>> \in Leading
    BY <1>1, DropLeads, LeadsOn
  <2> QED
    BY <2>1
<1>5. Risky' = Risky /\ Risky \subseteq 1..12
  BY <1>1, RiskySame, RiskySmall
<1>6. TypeOK' /\ Fits' /\ step \in 1..12 /\ step' \in 1..12
  BY TypeDeliver, FitsDone, PagesAre DEF TypeOK, Deliver
<1>7. IsFiniteSet(Leading) /\ IsFiniteSet(Leading')
  BY <1>4, FS_RemoveElement DEF Owes
<1>8. Confirmed' <=> Confirmed
  BY <1>1, <1>3, ConfirmedIs
<1>9. hurries \in Nat /\ Charge \in Int /\ Charge' \in Int /\ phase # "quit"
  BY <1>7, ChargeInt DEF TypeOK, Done, Take
<1>10. Charge' <= Charge
  <2>1. CASE Confirmed
    <3>1. ~ Unsaved'
      <4>1. CASE step = 12 /\ step' = 12
        <5>1. page' = "confirm"
          BY <4>1, PagesAre DEF page
        <5> QED
          BY <5>1 DEF Unsaved
      <4>2. CASE form' = Load(page', cfg', parts')
        <5>1. Sound(cfg')
          BY <1>6 DEF Fits, Consistent, Sound
        <5> QED
          BY <4>2, <5>1, ShownSaved
      <4> QED
        BY <1>2, <4>1, <4>2
    <3>2. EditCost' <= EditCost
      BY <3>1, CostIs
    <3> QED
      BY <1>5, <1>8, <2>1, <3>2, ChargeIs, CostIs, TotalNoDearer
  <2>2. CASE ~ Confirmed
    <3>1. \A i \in Risky : i < step' => i <= step
      <4> SUFFICES ASSUME NEW i \in Risky, i < step'
                   PROVE  i <= step
        OBVIOUS
      <4>1. CASE step = 2 /\ cfg.scheme = "guided" /\ step' = 4
        <5>1. 3 \notin Risky
          <6>1. PromisedIn("partitions", cfg, parts)
            BY <4>1, PromisedInIs
          <6> QED
            BY <4>1, <6>1, RiskyIs, PagesAre DEF RiskyIn
        <5> QED
          BY <1>5, <4>1, <5>1
      <4>2. CASE step' = step + 1 \/ step' = step
        BY <1>5, <1>6, <4>2
      <4> QED
        BY <1>2, <4>1, <4>2
    <3>2. Running(Risky, step', Leading \ {x}, PageCost')
            <= Running(Risky, step, Leading, PageCost)
      BY <1>5, <1>6, <1>7, <3>1, CostIs, OnwardsNoDearer
    <3> QED
      BY <1>4, <1>5, <1>8, <2>2, <3>2, ChargeIs
  <2> QED
    BY <2>1, <2>2
<1> QED
  BY <1>1, <1>6, <1>7, <1>9, <1>10, StillOwes

LEMMA OwesBack == TypeOK /\ Fits /\ Owes /\ Back => Owes'
<1> SUFFICES ASSUME TypeOK, Fits, Owes, Back
             PROVE  Owes'
  OBVIOUS
<1>1. /\ <<"back">> \in DOMAIN pending /\ pending' = pending (-) SetToBag({<<"back">>})
      /\ cfg' = cfg /\ parts' = parts /\ phase' = phase /\ hurries' = hurries
  BY BackMoves
<1>2. \/ step = 1 /\ step' = 1 /\ form' = form
      \/ step > 1 /\ form' = Load(page', cfg', parts') /\ step' < step
  <2>1. step \in 1..12
    BY PagesAre DEF TypeOK
  <2> QED
    BY <2>1, BackMoves
<1>3. /\ DOMAIN pending' \subseteq DOMAIN pending
      /\ DOMAIN pending \subseteq DOMAIN pending' \cup {<<"back">>}
  BY <1>1, DropLeads
<1>4. Leading' = Leading
  BY <1>1, DropLeads, LeadsOn
<1>5. Risky' = Risky /\ Risky \subseteq 1..12
  BY <1>1, RiskySame, RiskySmall
<1>6. TypeOK' /\ Fits' /\ ~ Stale' /\ step \in 1..12 /\ step' \in 1..12
  BY TypeDeliver, FitsBack, PagesAre DEF TypeOK, Deliver
<1>7. IsFiniteSet(Leading) /\ IsFiniteSet(Leading')
  BY <1>4 DEF Owes
<1>8. Confirmed' <=> Confirmed
  BY <1>1, <1>3, ConfirmedIs
<1>9. hurries \in Nat /\ Charge \in Int /\ Charge' \in Int /\ phase # "quit"
  BY <1>7, ChargeInt DEF TypeOK, Back, Take
<1>10. CASE step = 1 /\ step' = 1 /\ form' = form
  <2>1. page' = "welcome"
    BY <1>10, PagesAre DEF page
  <2>2. ~ Unsaved'
    BY <2>1 DEF Unsaved
  <2>3. Confirmed' = Confirmed
    BY <1>8 DEF Confirmed
  <2> QED
    BY <1>1, <1>4, <1>5, <1>6, <1>9, <1>10, <2>2, <2>3, OwesSame
<1>11. CASE step > 1 /\ form' = Load(page', cfg', parts') /\ step' < step
  <2>1. CASE Confirmed
    <3>1. ~ Unsaved'
      <4>1. Sound(cfg')
        BY <1>6 DEF Fits, Consistent, Sound
      <4> QED
        BY <1>11, <4>1, ShownSaved
    <3>2. EditCost' <= EditCost
      BY <3>1, CostIs
    <3>3. Charge' <= Charge
      BY <1>5, <1>8, <2>1, <3>2, ChargeIs, CostIs, TotalNoDearer
    <3> QED
      BY <1>1, <1>6, <1>7, <1>9, <3>3, StillOwes
  <2>2. CASE ~ Confirmed
    <3>1. step' \notin Risky => PageCost' = 0
      BY <1>5, <1>6, CostIs
    <3>2. Running(Risky, step', Leading, PageCost') <= Running(Risky, step, Leading, PageCost)
      BY <1>5, <1>6, <1>7, <1>11, <3>1, CostIs, BackNoDearer
    <3>3. Charge' <= Charge
      BY <1>4, <1>5, <1>8, <2>2, <3>2, ChargeIs
    <3> QED
      BY <1>1, <1>6, <1>7, <1>9, <3>3, StillOwes
  <2> QED
    BY <2>1, <2>2
<1> QED
  BY <1>2, <1>10, <1>11

(* As long as cfdisk runs, the partitions page of a manual layout counts   *)
(* as at risk; what cfdisk leaves can put nothing more at risk.            *)
LEMMA OwesCfdisk == TypeOK /\ Fits /\ Owes /\ Cfdisk => Owes'
<1> SUFFICES ASSUME TypeOK, Fits, Owes, Cfdisk
             PROVE  Owes'
  OBVIOUS
<1>1. PICK d \in DiskSet :
          /\ Take(<<"cfdisk", d>>)
          /\ pending' = (pending (-) SetToBag({<<"cfdisk", d>>})) (+) SetToBag({<<"done">>})
          /\ UNCHANGED << phase, step, form, cfg, advanced, started, odd, hurries >>
  BY DEF Cfdisk
<1>2. <<"cfdisk", d>> \in DOMAIN pending /\ page' = page /\ phase # "quit"
  BY <1>1 DEF Take, BagIn, BagToSet, page
<1>3. TypeOK'
  BY TypeDeliver DEF Deliver
<1>4. /\ DOMAIN pending' \subseteq DOMAIN pending \cup {<<"done">>}
      /\ DOMAIN pending \subseteq DOMAIN pending' \cup {<<"cfdisk", d>>}
  BY <1>1, <1>2, CfdiskMoves
<1>5. PICK y, x : /\ y \in Leading /\ x \notin Leading \ {y}
                  /\ Leading' = (Leading \ {y}) \cup {x}
  BY <1>1, <1>2, CfdiskMoves
<1>6. /\ IsFiniteSet(Leading) /\ IsFiniteSet(Leading')
      /\ Cardinality(Leading') = Cardinality(Leading) /\ Cardinality(Leading) \in Nat
  <2>1. IsFiniteSet(Leading) /\ Cardinality(Leading) \in Nat
    BY FS_CardinalityType DEF Owes
  <2> DEFINE S == Leading \ {y}
  <2>2. IsFiniteSet(S) /\ Cardinality(S) = Cardinality(Leading) - 1
    BY <1>5, <2>1, FS_RemoveElement
  <2> HIDE DEF S
  <2>3. IsFiniteSet(S \cup {x}) /\ Cardinality(S \cup {x}) =
          IF x \in S THEN Cardinality(S) ELSE Cardinality(S) + 1
    BY <2>2, FS_AddElement
  <2>4. Leading' = S \cup {x} /\ x \notin S
    BY <1>5 DEF S
  <2> QED
    BY <2>1, <2>2, <2>3, <2>4
<1>7. cfg.scheme = "manual" => 3 \in Risky
  BY <1>2, RiskyIs DEF RiskyIn, CfdiskIn
<1>8. Risky' \subseteq Risky
  <2> SUFFICES ASSUME NEW i \in Risky'
               PROVE  i \in Risky
    OBVIOUS
  <2>1. i \in 1..12 /\ \/ ~ PromisedIn(Pages[i], cfg, parts')
                       \/ i = 3 /\ cfg.scheme = "manual"
    BY <1>1, RiskyIs DEF RiskyIn
  <2>2. CASE i = 3
    <3>1. cfg.scheme # "manual" => PromisedIn("partitions", cfg, parts')
      BY PromisedInIs
    <3>2. cfg.scheme = "manual"
      BY <2>1, <2>2, <3>1, PagesAre
    <3> QED
      BY <1>7, <2>2, <3>2
  <2>3. CASE i # 3
    <3>1. Pages[i] # "partitions"
      BY <2>1, <2>3, PagesAre
    <3>2. PromisedIn(Pages[i], cfg, parts') <=> PromisedIn(Pages[i], cfg, parts)
      BY <3>1 DEF PromisedIn
    <3> QED
      BY <2>1, <2>3, <3>2, RiskyIs DEF RiskyIn
  <2> QED
    BY <2>2, <2>3
<1>9. Stale' => step \in Risky
  <2>1. Stale' => page = "partitions"
    BY <1>2 DEF Stale
  <2>2. step \in 1..12 /\ (page = "partitions" => step = 3)
    BY PagesAre DEF TypeOK, page
  <2>3. page = "partitions" => cfg.scheme = "manual"
    BY FitsMeans DEF FitsForm
  <2> QED
    BY <1>7, <2>1, <2>2, <2>3
<1>10. Unsaved' => Unsaved
  BY <1>1, <1>2 DEF Unsaved
<1>11. Confirmed' <=> Confirmed
  BY <1>1, <1>4, ConfirmedIs
<1>12. EditCost' <= EditCost /\ PageCost' <= PageCost
  BY <1>1, <1>8, <1>9, <1>10, CostsNoMore
<1>13. Risky \subseteq 1..12 /\ Risky' \subseteq 1..12
  BY RiskySmall
<1>14. Charge' <= Charge
  <2>1. CASE Confirmed
    BY <1>8, <1>11, <1>12, <1>13, <2>1, ChargeIs, CostIs, TotalNoDearer
  <2>2. CASE ~ Confirmed
    <3>1. Running(Risky', step, Leading, PageCost') <= Running(Risky, step, Leading, PageCost)
      BY <1>6, <1>8, <1>12, <1>13, CostIs, RunningNoDearer
    <3>2. Leading # {} /\ Leading' # {}
      BY <1>5
    <3>3. Running(Risky', step, Leading', PageCost') = Running(Risky', step, Leading, PageCost')
      BY <1>6, <3>2 DEF Running
    <3> QED
      BY <1>1, <1>11, <2>2, <3>1, <3>3, ChargeIs
  <2> QED
    BY <2>1, <2>2
<1>15. hurries \in Nat /\ Charge \in Int /\ Charge' \in Int
  BY <1>6, ChargeInt DEF TypeOK
<1> QED
  BY <1>1, <1>2, <1>3, <1>6, <1>14, <1>15, StillOwes

LEMMA OwesStart == TypeOK /\ Fits /\ Owes /\ StartInstall => Owes'
<1> SUFFICES ASSUME TypeOK, Fits, Owes, StartInstall
             PROVE  Owes'
  OBVIOUS
<1>1. /\ <<"start">> \in DOMAIN pending /\ pending' = pending (-) SetToBag({<<"start">>})
      /\ UNCHANGED << step, form, cfg, parts, hurries >> /\ page' = page
      /\ phase' = "install" /\ phase # "quit"
  BY DEF StartInstall, Take, Drop, BagIn, BagToSet, page
<1>2. Leading' = Leading /\ Risky' = Risky
  BY <1>1, DropLeads, LeadsOn, RiskySame
<1>3. Confirmed /\ Confirmed'
  BY <1>1, ConfirmedIs
<1>4. Confirmed' = Confirmed
  BY <1>3 DEF Confirmed
<1>5. TypeOK' /\ (Unsaved' => Unsaved) /\ (Stale' => Stale)
  BY <1>1, TypeDeliver DEF Deliver, Unsaved, Stale
<1> QED
  BY <1>1, <1>2, <1>4, <1>5, OwesSame

LEMMA OwesQuit == TypeOK /\ Quit => Owes'
<1> SUFFICES ASSUME TypeOK, Quit
             PROVE  Owes'
  OBVIOUS
<1>1. phase' = "quit" /\ pending' = EmptyBag
  BY DEF Quit
<1>2. DOMAIN pending' = {}
  BY <1>1 DEF EmptyBag, SetToBag
<1>3. Leading' = {}
  BY <1>2 DEF Leading
<1> QED
  BY <1>1, <1>3, FS_EmptySet DEF Owes, Charged

LEMMA OwesNext == TypeOK /\ Fits /\ Owes /\ [Next]_vars => Owes'
<1>1. Owes /\ UNCHANGED vars => Owes'
  <2> SUFFICES ASSUME Owes, UNCHANGED vars
               PROVE  Owes'
    OBVIOUS
  <2>1. /\ phase' = phase /\ hurries' = hurries /\ step' = step
        /\ cfg' = cfg /\ parts' = parts /\ pending' = pending
        /\ form' = form /\ page' = page
    BY DEF vars, page
  <2>2. Leading' = Leading /\ Risky' = Risky /\ (Confirmed' <=> Confirmed)
    <3>1. pending' = pending => Leading' = Leading
      BY DEF Leading
    <3> QED
      BY <2>1, <3>1, RiskyIs, ConfirmedIs
  <2>3. (Unsaved' <=> Unsaved) /\ (Stale' <=> Stale)
    BY <2>1 DEF Unsaved, Stale
  <2>4. EditCost' = EditCost /\ PageCost' = PageCost
    BY <2>1, <2>2, <2>3 DEF EditCost, PageCost
  <2>5. Charge' = Charge
    <3>1. CASE Confirmed
      BY <2>2, <2>4, <3>1, ChargeIs
    <3>2. CASE ~ Confirmed
      BY <2>1, <2>2, <2>4, <3>2, ChargeIs
    <3> QED
      BY <3>1, <3>2
  <2> QED
    BY <2>1, <2>2, <2>5 DEF Owes, Charged
<1> QED
  BY <1>1, TypedIs, OwesTyped, OwesEnterRoot, OwesEnter, OwesEsc, OwesToggle, OwesQuit, OwesDone,
     OwesBack, OwesCfdisk, OwesStart DEF Next, Deliver

-----------------------------------------------------------------------------
(* What the charge is worth: a broken promise is one of a page at risk,    *)
(* and that of the page shown counts when it is being left.                *)
LEMMA BrokenPaid ==
    ASSUME TypeOK, Owes, phase # "quit"
    PROVE  IsFiniteSet(Broken) /\ Cardinality(Broken) <= hurries
<1>1. Risky \subseteq 1..12 /\ IsFiniteSet(Leading) /\ Charge <= hurries
  BY RiskySmall DEF Owes, Charged
<1>2. Broken \subseteq Risky
  <2>1. \A i \in Broken : i \in 1..12 /\ ~ Promised(Pages[i], cfg)
    BY PagesAre DEF Broken, Behind
  <2> QED
    BY <2>1, PagesAre DEF Risky, AtRisk
<1>3. hurries \in Nat
  BY DEF TypeOK
<1>4. CASE Confirmed
  <2>1. IsFiniteSet(Broken) /\ Cardinality(Broken) <= Cardinality(Risky)
        /\ Cardinality(Broken) \in Nat /\ Cardinality(Risky) \in Nat
    BY <1>1, <1>2, SmallFinite, FS_Subset, FS_CardinalityType
  <2>2. Charge = Cardinality(Risky) + EditCost
    BY <1>4, ChargeIs DEF Total
  <2> QED
    BY <1>1, <1>3, <2>1, <2>2, CostIs
<1>5. CASE ~ Confirmed
  <2>1. <<"start">> \notin DOMAIN pending /\ phase # "install"
    BY <1>5, ConfirmedIs
  <2>2. ASSUME NEW i \in Broken
        PROVE  i \in Risky /\ (i < step \/ (i = step /\ Leading # {}))
    <3>1. Behind = LET leaving == BagToSet(pending) \ {<<"back">>} # {}
                   IN  { j \in 1..Len(Pages) : j < step \/ (j = step /\ leaving) }
      BY <2>1 DEF Behind, BagIn, BagToSet
    <3>2. i \in Behind
      BY DEF Broken
    <3>3. i < step \/ (i = step /\ DOMAIN pending \ {<<"back">>} # {})
      BY <3>1, <3>2 DEF BagToSet
    <3>4. DOMAIN pending \ {<<"back">>} # {} => Leading # {}
      <4>1. \A m \in DOMAIN pending : m \in Forward \/ m = <<"back">>
        BY <2>1 DEF TypeOK, BagToSet, Messages
      <4> QED
        BY <4>1, LeadingWhen
    <3>5. i \in Risky
      BY <1>2, <2>2
    <3>6. i < step \/ (i = step /\ Leading # {})
      BY <3>3, <3>4
    <3> QED
      BY <3>5, <3>6
  <2>3. /\ IsFiniteSet(Below(Risky, step)) /\ Cardinality(Below(Risky, step)) \in Nat
        /\ Cardinality(Leading) \in Nat /\ (Leading # {} => Cardinality(Leading) >= 1)
    BY <1>1, BelowFinite, LeadingCounts
  <2>4. Charge = Running(Risky, step, Leading, PageCost)
    BY <1>5, ChargeIs
  <2>5. CASE Leading = {} \/ step \notin Risky
    <3>1. Broken \subseteq Below(Risky, step)
      BY <2>2, <2>5, BelowIs
    <3>2. IsFiniteSet(Broken) /\ Cardinality(Broken) <= Cardinality(Below(Risky, step))
          /\ Cardinality(Broken) \in Nat
      BY <2>3, <3>1, FS_Subset, FS_CardinalityType
    <3>3. Cardinality(Below(Risky, step)) <= Charge
      BY <2>3, <2>4, CostIs DEF Running
    <3> QED
      BY <1>1, <1>3, <2>3, <2>4, <3>2, <3>3, CostIs DEF Running
  <2>6. CASE Leading # {} /\ step \in Risky
    <3>1. Broken \subseteq Below(Risky, step) \cup {step}
      BY <2>2, BelowIs
    <3>2. IsFiniteSet(Broken) /\ Cardinality(Broken) <= Cardinality(Below(Risky, step)) + 1
          /\ Cardinality(Broken) \in Nat
      BY <2>3, <3>1, AddOne
    <3>3. PageCost = 1
      BY <2>6, CostIs
    <3>4. Charge = Cardinality(Below(Risky, step)) + (Cardinality(Leading) - 1 + 1)
      BY <2>4, <2>6, <3>3 DEF Running
    <3> QED
      BY <1>1, <1>3, <2>3, <2>6, <3>2, <3>4
  <2> QED
    BY <2>5, <2>6
<1> QED
  BY <1>4, <1>5

(* The inductive invariant of the wizard: each hasty key pays for one page *)
(* whose promise may be broken.                                            *)
THEOREM WizardInvariant == Spec => []IInv
<1>1. Init => TypeOK /\ Fits /\ Tidy /\ Owes
  BY TypeInit, FitsInit, TidyInit, OwesInit
<1>2. TypeOK /\ Fits /\ Tidy /\ Owes /\ [Next]_vars => (TypeOK /\ Fits /\ Tidy /\ Owes)'
  BY TypeNext, FitsNext, TidyNext, OwesNext
<1>3. TypeOK /\ Fits /\ Tidy /\ Owes => IInv
  BY DEF IInv, Fits, Owes
<1> QED
  BY <1>1, <1>2, <1>3, PTL DEF Spec

(* A user who waits for each page gets past it, and into the install, only *)
(* with what it asks for, and every hasty key breaks the promise of one    *)
(* page at most: validate on the pages of tui/steps is enough, however     *)
(* they are revisited, saved by ctrl+a, or changed by cfdisk.              *)
THEOREM PromisesKept == Spec => []PromisesHold
<1>1. Init => TypeOK /\ Fits /\ Owes
  BY TypeInit, FitsInit, OwesInit
<1>2. TypeOK /\ Fits /\ Owes /\ [Next]_vars => (TypeOK /\ Fits /\ Owes)'
  BY TypeNext, FitsNext, OwesNext
<1>3. TypeOK /\ Fits /\ Owes => PromisesHold
  BY BrokenPaid DEF PromisesHold
<1> QED
  BY <1>1, <1>2, <1>3, PTL DEF Spec

-----------------------------------------------------------------------------
(* LayoutHolds.  With no hasty key no promise of a page behind is broken,  *)
(* and what the disk and the partitions page promise is what Layout's      *)
(* theorems ask for.                                                       *)
LEMMA PromisesKeptUnhurried ==
    ASSUME TypeOK, Owes, phase # "quit", hurries = 0, NEW i \in Behind
    PROVE  Promised(Pages[i], cfg)
<1>1. IsFiniteSet(Broken) /\ Cardinality(Broken) <= 0
  BY BrokenPaid
<1>2. Cardinality(Broken) = 0
  BY <1>1, FS_CardinalityType
<1>3. Broken = {}
  BY <1>1, <1>2, FS_EmptySet
<1> QED
  BY <1>3 DEF Broken

(* The partitions mapped by hand, and the disk, are renamed to others.     *)
LEMMA RenamedStays ==
    ASSUME TypeOK, NEW n \in [DiskSet -> DiskSet]
    PROVE  StaysSome(cfg, n)
<1>1. cfg.mounts \in Mounts
  BY DEF TypeOK, ConfigOK
<1>2. \A m \in MountPoints : cfg.mounts[m] \in Partitions \cup {None}
  BY <1>1 DEF Mounts, Mappings, MountPoints
<1>3. \A p \in Partitions : Now(n, p) # None
  <2> SUFFICES ASSUME NEW p \in Partitions PROVE Now(n, p) # None
    OBVIOUS
  <2>1. PICK d \in DiskSet : \E t \in Tables[d] : p \in t
    BY DEF Partitions
  <2>2. p = << d, p[2] >>
    BY <2>1, WizardAssumption
  <2>3. p[1] = d
    BY <2>2
  <2>4. n[p[1]] \in DiskSet
    BY <2>3
  <2>5. None # << n[p[1]], p[2] >>
    BY <2>4, WizardAssumption
  <2> QED
    BY <2>5 DEF Now
<1> QED
  BY <1>2, <1>3 DEF StaysSome

LEMMA ChosenLayout ==
    ASSUME TypeOK, Owes, phase # "quit", hurries = 0, {2, 3} \subseteq Behind
    PROVE  IsConfig(cfg)
<1>1. cfg.scheme = "manual" => cfg.mounts.root # None
  <2>1. Promised("partitions", cfg)
    BY PromisesKeptUnhurried, PagesAre
  <2> QED
    BY <2>1 DEF Promised
<1>2. /\ {"disk", "scheme", "firmware", "swap", "mounts"} \subseteq DOMAIN cfg
      /\ cfg.scheme \in {"guided", "manual"}
      /\ cfg.firmware \in {"uefi", "bios"}
  BY KeysAre DEF TypeOK, ConfigOK, Schemes, Firmwares
<1>3. cfg.mounts = [m \in MountPoints |-> cfg.mounts[m]]
  <2>1. cfg.mounts \in Mounts
    BY DEF TypeOK, ConfigOK
  <2> QED
    BY <2>1 DEF Mounts, MountPoints
<1> QED
  BY <1>1, <1>2, <1>3 DEF IsConfig, IsManual

(* A user who waits for each page leaves the disk and the partitions page  *)
(* only with a layout that formatting, mounting, the boot loader and the   *)
(* saved state all read alike, and that RemapDevices recognises whatever   *)
(* the disks are called after a reboot.                                    *)
THEOREM LayoutKept == Spec => []LayoutHolds
<1>1. TypeOK /\ Owes => LayoutHolds
  <2> SUFFICES ASSUME TypeOK, Owes, phase # "quit", hurries = 0, {2, 3} \subseteq Behind,
                      NEW n \in Renamings
               PROVE  Agrees(cfg) /\ Follows(cfg, n)
    <3>1. TypeOK /\ Owes => \E n : n \in Renamings
      <4> DEFINE id == [d \in DiskSet |-> d]
      <4>1. id \in [DiskSet -> DiskSet] /\ \A d, e \in DiskSet : id[d] = id[e] => d = e
        OBVIOUS
      <4> QED
        BY <4>1 DEF Renamings
    <3> QED
      BY <3>1 DEF LayoutHolds
  <2>1. IsConfig(cfg)
    BY ChosenLayout
  <2>2. n \in [DiskSet -> DiskSet]
    BY DEF Renamings
  <2>3. StaysSome(cfg, n)
    BY <2>2, RenamedStays
  <2>4. Agrees(cfg)
    BY <2>1, LayoutAgrees
  <2>5. Follows(cfg, n)
    BY <2>1, <2>3, LayoutFollows
  <2> QED
    BY <2>4, <2>5
<1>2. Init => TypeOK /\ Fits /\ Owes
  BY TypeInit, FitsInit, OwesInit
<1>3. TypeOK /\ Fits /\ Owes /\ [Next]_vars => (TypeOK /\ Fits /\ Owes)'
  BY TypeNext, FitsNext, OwesNext
<1> QED
  BY <1>1, <1>2, <1>3, PTL DEF Spec

-----------------------------------------------------------------------------
(* KeepsWhatItShows.  What leaving a page as it is shown may change in c,  *)
(* so that it is d: of a mapping, the partitions that are gone.            *)
Excepted(c, d, gone, k) ==
    \/ d[k] = c[k]
    \/ k = "disk" /\ c.disk = None
    \/ k = "mode" /\ c.mode = ""
    \/ k = "swapSize" /\ c.swapSize <= 0
    \/ k = "mounts" /\ \A m \in DOMAIN c.mounts \ gone : d.mounts[m] = c.mounts[m]

Gone(p, f, c) ==
    { m \in DOMAIN c.mounts : p = "partitions" /\ c.mounts[m] \notin f.listed }

(* The disk page. *)
LEMMA DiskKept ==
    ASSUME NEW c, ConfigOK(c), Sound(c), TidyConfig(c), DiskForm(c) \in Forms("disk"),
           NEW k \in DiskKeys, NEW gone
    PROVE  Excepted(c, DiskSave(DiskForm(c), c), gone, k)
<1> DEFINE f == DiskForm(c)
           d == DiskSave(f, c)
<1>1. /\ f.disk = IF c.disk \in DiskSet THEN c.disk ELSE Disks[1]
      /\ f.scheme = c.scheme /\ f.encrypt = c.encrypt /\ f.pass = c.encPass
      /\ f.swap = c.swap /\ f.size = IF c.swapSize > 0 THEN "good" ELSE ""
  BY DEF DiskForm
<1>2. /\ d.disk = f.disk /\ d.scheme = f.scheme /\ d.swap = f.swap
      /\ d.encrypt = (f.encrypt /\ f.scheme # "manual")
      /\ d.encPass = IF d.encrypt THEN f.pass ELSE ""
      /\ d.swapSize = IF SwapSizeVisible(f) THEN SizeOf(f.size) ELSE c.swapSize
  BY DiskSaveIs
<1> HIDE DEF d, f
<1>3. c.encrypt \in BOOLEAN /\ c.disk \in DiskSet \cup {None}
  BY DEF ConfigOK
<1>4. d.encrypt = c.encrypt
  BY <1>1, <1>2, <1>3 DEF Sound
<1>5. d.encPass = c.encPass
  BY <1>1, <1>2, <1>4 DEF TidyConfig
<1>6. d.disk = c.disk \/ c.disk = None
  BY <1>1, <1>2, <1>3
<1>7. d.swapSize = c.swapSize \/ c.swapSize <= 0
  <2>1. c.swapSize \in {-1, 0, 4096}
    BY DEF ConfigOK, SwapSizes
  <2>2. c.swapSize = 4096 => SizeOf(f.size) = 4096
    BY <1>1 DEF SizeOf
  <2>3. d.swapSize = c.swapSize \/ d.swapSize = SizeOf(f.size)
    BY <1>2
  <2> QED
    BY <2>1, <2>2, <2>3
<1>8. d.scheme = c.scheme /\ d.swap = c.swap
  BY <1>1, <1>2
<1> HIDE DEF Excepted
<1>9. Excepted(c, d, gone, k)
  BY <1>4, <1>5, <1>6, <1>7, <1>8 DEF DiskKeys, Excepted
<1> QED
  BY <1>9 DEF d, f

(* The page of partitions, with the list it was made from. *)
LEMMA MappingsKept ==
    ASSUME NEW c, ConfigOK(c), NEW ps, PartitionsForm(c, ps) \in Forms("partitions")
    PROVE  LET f == PartitionsForm(c, ps)
           IN  Excepted(c, Saved("partitions", f, c), Gone("partitions", f, c), "mounts")
<1> DEFINE f == PartitionsForm(c, ps)
           d == Saved("partitions", f, c)
           listed == IF c.disk \in DiskSet THEN ps[c.disk] ELSE {}
<1>1. /\ f.listed = listed
      /\ c.mounts.root \in listed => f.root = c.mounts.root
      /\ c.mounts.boot \in listed => f.boot = c.mounts.boot
      /\ c.mounts.swap \in listed => f.swap = c.mounts.swap
  BY DEF PartitionsForm
<1>2. d.mounts = [root |-> f.root, boot |-> f.boot, swap |-> f.swap]
  BY PartitionsSaveIs
<1>3. DOMAIN c.mounts = {"root", "boot", "swap"}
  BY DEF ConfigOK, Mounts
<1> HIDE DEF f, d, listed
<1>4. \A m \in DOMAIN c.mounts : c.mounts[m] \in f.listed => d.mounts[m] = c.mounts[m]
  BY <1>1, <1>2, <1>3
<1>5. Excepted(c, d, Gone("partitions", f, c), "mounts")
  BY <1>4 DEF Excepted, Gone
<1> QED
  BY <1>5 DEF f, d

LEMMA PackagesKept ==
    ASSUME NEW c, ConfigOK(c), PackagesForm(c) \in Forms("packages")
    PROVE  Saved("packages", PackagesForm(c), c).packages = c.packages
<1> DEFINE f == PackagesForm(c)
<1>1. Saved("packages", f, c).packages = { e[2] : e \in f.checked }
  BY PackagesSaveIs
<1>2. f.checked = { e \in Entries : e[2] \in c.packages }
  BY DEF PackagesForm
<1>3. c.packages \subseteq { e[2] : e \in Entries }
  BY DEF ConfigOK, PackageNames
<1>4. { e[2] : e \in { e \in Entries : e[2] \in c.packages } } = c.packages
  BY <1>3
<1> QED
  BY <1>1, <1>2, <1>4

(* The pages of texts. *)
LEMMA TextsKept ==
    ASSUME NEW c, ConfigOK(c), TidyConfig(c), NEW ps, ListsOK(ps),
           NEW p \in {"network", "locale", "hostname", "users"}, NEW k \in Own(p), NEW gone
    PROVE  Excepted(c, Entered(p, Load(p, c, ps), c), gone, k)
<1>1. CASE p = "network"
  <2> DEFINE f == NetworkForm(c)
             d == NetworkSave(f, c)
  <2>1. Load(p, c, ps) = f /\ Entered(p, f, c) = d /\ f \in Forms("network")
    BY <1>1, LoadIs, EnteredIs, LoadTyped DEF PageNames
  <2>2. f.mode = (IF c.mode \in ModeChoices THEN c.mode ELSE "ethernet") /\ f.ssid = c.ssid
    BY DEF NetworkForm
  <2>3. d.mode = f.mode /\ d.ssid = IF f.mode = "wifi" THEN f.ssid ELSE c.ssid
    BY <2>1, NetworkSaveIs
  <2> HIDE DEF f, d
  <2>4. c.mode \in ModeChoices \/ c.mode = ""
    BY DEF ConfigOK, ModesOrNone
  <2>5. d.ssid = c.ssid /\ (d.mode = c.mode \/ c.mode = "")
    BY <2>2, <2>3, <2>4
  <2>6. k \in {"mode", "ssid"}
    BY <1>1, OwnIs
  <2>7. Excepted(c, d, gone, k)
    BY <2>5, <2>6 DEF Excepted
  <2> QED
    BY <2>1, <2>7
<1>2. CASE p = "locale"
  <2> DEFINE f == LocaleForm(c)
             d == Saved("locale", f, c)
  <2>1. Load(p, c, ps) = f /\ Entered(p, f, c) = d /\ f \in Forms("locale")
    BY <1>2, LoadIs, EnteredIs, LoadTyped DEF PageNames
  <2>2. f.zone = c.zone /\ f.locale = c.locale /\ f.keymap = c.keymap
    BY DEF LocaleForm
  <2>3. d.zone = f.zone /\ d.locale = f.locale /\ d.keymap = f.keymap
    BY <2>1, LocaleSaveIs
  <2> HIDE DEF f, d
  <2>4. k \in {"zone", "locale", "keymap"}
    BY <1>2, OwnIs
  <2>5. Excepted(c, d, gone, k)
    BY <2>2, <2>3, <2>4 DEF Excepted
  <2> QED
    BY <2>1, <2>5
<1>3. CASE p = "hostname"
  <2> DEFINE f == HostnameForm(c)
             d == HostnameSave(f, c)
  <2>1. Load(p, c, ps) = f /\ Entered(p, f, c) = d /\ f \in Forms("hostname")
    BY <1>3, LoadIs, EnteredIs, LoadTyped DEF PageNames
  <2>2. f.hostname = c.hostname
    BY DEF HostnameForm
  <2>3. d.hostname = IF f.hostname = "" THEN "good" ELSE f.hostname
    BY <2>1, HostnameSaveIs
  <2> HIDE DEF f, d
  <2>4. k = "hostname"
    BY <1>3, OwnIs
  <2>5. d.hostname = c.hostname
    BY <2>2, <2>3 DEF TidyConfig
  <2>6. Excepted(c, d, gone, k)
    BY <2>4, <2>5 DEF Excepted
  <2> QED
    BY <2>1, <2>6
<1>4. CASE p = "users"
  <2> DEFINE f == UsersForm(c)
             d == UserSave(f, c)
  <2>1. Load(p, c, ps) = f /\ Entered(p, f, c) = d /\ f \in Forms("users")
    BY <1>4, LoadIs, EnteredIs, LoadTyped DEF PageNames
  <2>2. f.name = c.userName /\ f.pass = c.userPass
    BY DEF UsersForm
  <2>3. /\ Changed(c, d, {"userName", "userPass"})
        /\ d.userName = f.name /\ d.userPass = f.pass
    BY <2>1, UserSaveIs
  <2> HIDE DEF f, d
  <2>4. k \in {"root", "userName", "userPass"}
    BY <1>4, OwnIs
  <2>5. d.root = c.root
    BY <2>3, KeysAre DEF Changed
  <2>6. Excepted(c, d, gone, k)
    BY <2>2, <2>3, <2>4, <2>5 DEF Excepted
  <2> QED
    BY <2>1, <2>6
<1> QED
  BY <1>1, <1>2, <1>3, <1>4

(* The pages of a single choice. *)
LEMMA ChoicesKept ==
    ASSUME NEW c, ConfigOK(c), Sound(c), NEW ps, ListsOK(ps),
           NEW p \in {"desktop", "bootloader"}, NEW k \in Own(p), NEW gone
    PROVE  Excepted(c, Entered(p, Load(p, c, ps), c), gone, k)
<1>1. CASE p = "desktop"
  <2> DEFINE d == [ c EXCEPT !.desktop = DesktopForm(c).desktop ]
  <2>1. Load(p, c, ps) = DesktopForm(c) /\ Entered(p, DesktopForm(c), c) = d
    BY <1>1, LoadIs, EnteredIs
  <2>2. k = "desktop"
    BY <1>1, OwnIs
  <2>3. d.desktop = c.desktop
    BY KeysAre DEF ConfigOK, DesktopForm
  <2> HIDE DEF d
  <2> QED
    BY <2>1, <2>2, <2>3 DEF Excepted
<1>2. CASE p = "bootloader"
  <2> DEFINE d == [ c EXCEPT !.bootloader = BootloaderForm(c).bootloader ]
  <2>1. Load(p, c, ps) = BootloaderForm(c) /\ Entered(p, BootloaderForm(c), c) = d
    BY <1>2, LoadIs, EnteredIs
  <2>2. k = "bootloader"
    BY <1>2, OwnIs
  <2>3. BootloaderForm(c).bootloader = c.bootloader
    BY DEF Sound, BootloaderForm
  <2>4. d.bootloader = c.bootloader
    BY <2>3, KeysAre DEF ConfigOK
  <2> HIDE DEF d
  <2> QED
    BY <2>1, <2>2, <2>4 DEF Excepted
<1> QED
  BY <1>1, <1>2

(* A page left as it is found. *)
LEMMA PageKept ==
    ASSUME NEW c, ConfigOK(c), Sound(c), TidyConfig(c), NEW ps, ListsOK(ps),
           NEW p \in PageNames \ {"kernel"}, NEW k \in Keys
    PROVE  LET f == Load(p, c, ps)
           IN  Excepted(c, Entered(p, f, c), Gone(p, f, c), k)
<1> DEFINE f == Load(p, c, ps)
           d == Entered(p, f, c)
           gone == Gone(p, f, c)
<1>1. f \in Forms(p)
  BY LoadTyped
<1>2. CASE k \notin Own(p)
  <2>1. Changed(c, d, Own(p))
    BY <1>1, EnteredOwn
  <2>2. d[k] = c[k]
    BY <1>2, <2>1 DEF Changed
  <2> QED
    BY <2>2 DEF Excepted
<1>3. CASE p = "disk" /\ k \in Own(p)
  <2>1. k \in DiskKeys
    BY <1>3, OwnIs
  <2>2. f = DiskForm(c) /\ d = DiskSave(DiskForm(c), c)
    BY <1>3, LoadIs, EnteredIs
  <2> HIDE DEF gone, d
  <2>3. Excepted(c, d, gone, k)
    BY <1>1, <1>3, <2>1, <2>2, DiskKept
  <2> QED
    BY <2>3 DEF gone, d
<1>4. CASE p = "partitions" /\ k \in Own(p)
  <2>1. k = "mounts"
    BY <1>4, OwnIs
  <2>2. f = PartitionsForm(c, ps) /\ d = Saved("partitions", PartitionsForm(c, ps), c)
    BY <1>4, LoadIs, EnteredIs
  <2>3. PartitionsForm(c, ps) \in Forms("partitions")
    BY <1>1, <1>4, <2>2
  <2>4. Excepted(c, Saved("partitions", PartitionsForm(c, ps), c),
                 Gone("partitions", PartitionsForm(c, ps), c), "mounts")
    BY <2>3, MappingsKept
  <2> QED
    BY <1>4, <2>1, <2>2, <2>4
<1>5. CASE p = "packages" /\ k \in Own(p)
  <2>1. k = "packages"
    BY <1>5, OwnIs
  <2>2. f = PackagesForm(c) /\ d = Saved("packages", PackagesForm(c), c)
    BY <1>5, LoadIs, EnteredIs
  <2>3. d.packages = c.packages
    BY <1>1, <1>5, <2>2, PackagesKept
  <2> QED
    BY <2>1, <2>3 DEF Excepted
<1>6. CASE p \in {"network", "locale", "hostname", "users"} /\ k \in Own(p)
  BY <1>6, TextsKept
<1>7. CASE p \in {"desktop", "bootloader"} /\ k \in Own(p)
  BY <1>7, ChoicesKept
<1>8. CASE p \in {"welcome", "confirm"} /\ k \in Own(p)
  BY <1>8, OwnIs
<1> QED
  BY <1>2, <1>3, <1>4, <1>5, <1>6, <1>7, <1>8 DEF PageNames

(* The locale page when Enter is pressed on every field. *)
LEMMA LocaleWalked ==
    ASSUME NEW c, ConfigOK(c), NEW ps, ListsOK(ps), NEW k \in Keys
    PROVE  LET shown == Load("locale", c, ps)
               left == Walked("locale", shown)
               written == Entered("locale", left, c)
           IN  \/ written[k] = c[k]
               \/ k \in {"zone", "locale"} /\ left # shown
                    /\ written[k] = FirstSuggestion(c[k])
<1> DEFINE shown == Load("locale", c, ps)
           left == Walked("locale", shown)
           written == Entered("locale", left, c)
<1>1. shown = [ zone |-> c.zone, locale |-> c.locale, keymap |-> c.keymap ]
  BY LoadIs DEF LocaleForm
<1>2. left = [ shown EXCEPT !.zone = FirstSuggestion(@), !.locale = FirstSuggestion(@) ]
  BY DEF Walked
<1>3. written = Saved("locale", left, c)
  BY EnteredIs
<1> HIDE DEF shown, left, written
<1>4. left = [ zone |-> FirstSuggestion(c.zone), locale |-> FirstSuggestion(c.locale),
               keymap |-> c.keymap ]
  BY <1>1, <1>2
<1>5. left \in Forms("locale")
  <2>1. \A t : FirstSuggestion(t) \in NameTexts
    BY DEF FirstSuggestion, NameTexts, Names
  <2>2. c.keymap \in Text
    BY DEF ConfigOK
  <2> QED
    BY <1>4, <2>1, <2>2, FormsAre
<1>6. /\ Changed(c, written, {"zone", "locale", "keymap"})
      /\ written.zone = left.zone /\ written.locale = left.locale
      /\ written.keymap = left.keymap
  BY <1>3, <1>5, LocaleSaveIs
<1>7. k \notin {"zone", "locale", "keymap"} => written[k] = c[k]
  BY <1>6 DEF Changed
<1>8. k = "keymap" => written[k] = c[k]
  BY <1>4, <1>6
<1>9. k \in {"zone", "locale"} => written[k] = FirstSuggestion(c[k])
  BY <1>4, <1>6
<1>10. k \in {"zone", "locale"} /\ left = shown => written[k] = c[k]
  BY <1>1, <1>6
<1>11. \/ written[k] = c[k]
       \/ k \in {"zone", "locale"} /\ left # shown
            /\ written[k] = FirstSuggestion(c[k])
  BY <1>7, <1>8, <1>9, <1>10
<1> QED
  BY <1>11 DEF written, left, shown

(* Going through the pages again, back and forth, changes no choice but    *)
(* that of the kernel, and with Enter pressed on them a zone or locale     *)
(* that another name contains: what New... of a page reads, its Save       *)
(* writes back.                                                            *)
THEOREM WhatIsShownIsKept == Spec => []KeepsWhatItShows
<1>1. TypeOK /\ Fits /\ Tidy => KeepsWhatItShows
  <2> SUFFICES ASSUME TypeOK, Fits, Tidy, page # "kernel", NEW k \in DOMAIN cfg,
                      NEW left \in {Load(page, cfg, parts),
                                    Walked(page, Load(page, cfg, parts))}
               PROVE  LET fresh == Load(page, cfg, parts)
                          d == Entered(page, left, cfg)
                      IN  \/ Excepted(cfg, d, Gone(page, fresh, cfg), k)
                          \/ k \in {"zone", "locale"} /\ left # fresh
                               /\ d[k] = FirstSuggestion(cfg[k])
    <3> DEFINE fresh == Load(page, cfg, parts)
    <3>1. ASSUME form = fresh PROVE Gone(page, form, cfg) = Gone(page, fresh, cfg)
      BY <3>1
    <3> QED
      BY <3>1 DEF KeepsWhatItShows, Excepted, Gone
  <2>1. k \in Keys /\ ConfigOK(cfg) /\ page \in PageNames /\ ListsOK(parts)
    BY PageTyped, ListsTyped DEF TypeOK, ConfigOK
  <2>2. Sound(cfg) /\ TidyConfig(cfg)
    BY FitsMeans, TidyIs
  <2>3. CASE left = Load(page, cfg, parts)
    BY <2>1, <2>2, <2>3, PageKept
  <2>4. CASE page = "locale" /\ left = Walked(page, Load(page, cfg, parts))
    BY <2>1, <2>4, LocaleWalked DEF Excepted
  <2>5. page # "locale" => Walked(page, Load(page, cfg, parts)) = Load(page, cfg, parts)
    BY DEF Walked
  <2> QED
    BY <2>3, <2>4, <2>5
<1>2. Init => TypeOK /\ Fits /\ Tidy
  BY TypeInit, FitsInit, TidyInit
<1>3. TypeOK /\ Fits /\ Tidy /\ [Next]_vars => (TypeOK /\ Fits /\ Tidy)'
  BY TypeNext, FitsNext, TidyNext
<1> QED
  BY <1>1, <1>2, <1>3, PTL DEF Spec

-----------------------------------------------------------------------------
(* CursorVisitsWhatIsShown.  The fields reached are computed one key at a  *)
(* time; that the hops are the values of a function needs showing.         *)
IsHops(f, h) ==
    h = [n \in 0..7 |-> IF n = 0 THEN 1 ELSE NextField(f, h[n - 1])]

LEMMA HopsExist ==
    ASSUME NEW f
    PROVE  \E h : IsHops(f, h)
<1> DEFINE N(i) == NextField(f, i)
           h == [n \in 0..7 |->
                   CASE n = 0 -> 1
                     [] n = 1 -> N(1)
                     [] n = 2 -> N(N(1))
                     [] n = 3 -> N(N(N(1)))
                     [] n = 4 -> N(N(N(N(1))))
                     [] n = 5 -> N(N(N(N(N(1)))))
                     [] n = 6 -> N(N(N(N(N(N(1))))))
                     [] n = 7 -> N(N(N(N(N(N(N(1)))))))]
           g == [n \in 0..7 |-> IF n = 0 THEN 1 ELSE N(h[n - 1])]
<1> HIDE DEF N
<1>1. \A n \in 0..7 : n \in {0, 1, 2, 3, 4, 5, 6, 7}
  OBVIOUS
<1>2. /\ h[0] = 1 /\ h[1] = N(1) /\ h[2] = N(N(1)) /\ h[3] = N(N(N(1)))
      /\ h[4] = N(N(N(N(1)))) /\ h[5] = N(N(N(N(N(1)))))
      /\ h[6] = N(N(N(N(N(N(1)))))) /\ h[7] = N(N(N(N(N(N(N(1)))))))
  OBVIOUS
<1>3. h = [n \in 0..7 |-> h[n]]
  OBVIOUS
<1> HIDE DEF h
<1>4. /\ g[0] = 1 /\ g[1] = N(h[0]) /\ g[2] = N(h[1]) /\ g[3] = N(h[2])
      /\ g[4] = N(h[3]) /\ g[5] = N(h[4]) /\ g[6] = N(h[5]) /\ g[7] = N(h[6])
  OBVIOUS
<1>5. g = [n \in 0..7 |-> g[n]]
  OBVIOUS
<1>6. \A n \in 0..7 : h[n] = g[n]
  <2> HIDE DEF g
  <2> QED
    BY <1>1, <1>2, <1>4
<1>7. h = g
  <2> HIDE DEF g
  <2> QED
    BY <1>3, <1>5, <1>6
<1>8. IsHops(f, h)
  BY <1>7 DEF IsHops, N
<1> QED
  BY <1>8

LEMMA ReachedByHops ==
    ASSUME NEW f
    PROVE  \E h : IsHops(f, h) /\ DiskReached(f) = { h[n] : n \in 0..7 }
<1> DEFINE h == CHOOSE g : IsHops(f, g)
<1>1. IsHops(f, h)
  BY HopsExist
<1>2. DiskReached(f) = { h[n] : n \in 0..7 }
  BY DEF DiskReached, IsHops
<1> QED
  BY <1>1, <1>2

LEMMA HopsAre ==
    ASSUME NEW f, NEW h, IsHops(f, h)
    PROVE  /\ h[0] = 1 /\ h[1] = NextField(f, h[0]) /\ h[2] = NextField(f, h[1])
           /\ h[3] = NextField(f, h[2]) /\ h[4] = NextField(f, h[3])
           /\ h[5] = NextField(f, h[4]) /\ h[6] = NextField(f, h[5])
           /\ h[7] = NextField(f, h[6])
           /\ { h[n] : n \in 0..7 } = { h[0], h[1], h[2], h[3], h[4], h[5], h[6], h[7] }
<1>1. \A n \in 0..7 : h[n] = IF n = 0 THEN 1 ELSE NextField(f, h[n - 1])
  BY DEF IsHops
<1>2. \A n \in Nat : n \in 0..7 <=> n \in {0, 1, 2, 3, 4, 5, 6, 7}
  OBVIOUS
<1>3. \A n : n \in 0..7 <=> n \in {0, 1, 2, 3, 4, 5, 6, 7}
  BY <1>2
<1>4. { h[n] : n \in 0..7 } = { h[0], h[1], h[2], h[3], h[4], h[5], h[6], h[7] }
  BY <1>3
<1> QED
  BY <1>1, <1>4

(* Tab and shift-tab on the fields shown. *)
LEMMA TabIs ==
    ASSUME NEW f
    PROVE  /\ LastField(f) = IF SwapSizeVisible(f) THEN 7 ELSE 6
           /\ NextField(f, 1) = 2 /\ NextField(f, 2) = 3
           /\ NextField(f, 3) = IF f.encrypt THEN 4 ELSE 6
           /\ f.encrypt => NextField(f, 4) = 5
           /\ NextField(f, 5) = 6
           /\ NextField(f, 6) = IF SwapSizeVisible(f) THEN 7 ELSE 1
           /\ NextField(f, 7) = 1
<1>1. LastField(f) = IF SwapSizeVisible(f) THEN 7 ELSE 6
  BY DEF LastField
<1> QED
  BY <1>1 DEF NextField

LEMMA BackTabIs ==
    ASSUME NEW f
    PROVE  /\ PrevField(f, 1) = LastField(f)
           /\ PrevField(f, 2) = 1 /\ PrevField(f, 3) = 2
           /\ f.encrypt => PrevField(f, 4) = 3 /\ PrevField(f, 5) = 4
           /\ PrevField(f, 6) = IF f.encrypt THEN 5 ELSE 3
           /\ PrevField(f, 7) = 6
BY DEF PrevField

(* The fields that are shown. *)
Shown(f) ==
    {1, 2, 3, 6} \cup (IF f.encrypt THEN {4, 5} ELSE {})
                 \cup (IF SwapSizeVisible(f) THEN {7} ELSE {})

LEMMA ReachedAreShown ==
    ASSUME NEW f
    PROVE  DiskReached(f) = Shown(f)
<1>1. PICK h : IsHops(f, h) /\ DiskReached(f) = { h[n] : n \in 0..7 }
  BY ReachedByHops
<1>2. /\ h[0] = 1 /\ h[1] = NextField(f, h[0]) /\ h[2] = NextField(f, h[1])
      /\ h[3] = NextField(f, h[2]) /\ h[4] = NextField(f, h[3])
      /\ h[5] = NextField(f, h[4]) /\ h[6] = NextField(f, h[5])
      /\ h[7] = NextField(f, h[6])
      /\ DiskReached(f) = { h[0], h[1], h[2], h[3], h[4], h[5], h[6], h[7] }
  BY <1>1, HopsAre
<1>3. h[0] = 1 /\ h[1] = 2 /\ h[2] = 3
  BY <1>2, TabIs
<1>4. CASE f.encrypt
  <2>1. h[3] = 4 /\ h[4] = 5 /\ h[5] = 6
    BY <1>2, <1>3, <1>4, TabIs
  <2>2. CASE SwapSizeVisible(f)
    <3>1. h[6] = 7 /\ h[7] = 1
      BY <1>2, <2>1, <2>2, TabIs
    <3> QED
      BY <1>2, <1>3, <1>4, <2>1, <2>2, <3>1 DEF Shown
  <2>3. CASE ~ SwapSizeVisible(f)
    <3>1. h[6] = 1 /\ h[7] = 2
      BY <1>2, <2>1, <2>3, TabIs
    <3> QED
      BY <1>2, <1>3, <1>4, <2>1, <2>3, <3>1 DEF Shown
  <2> QED
    BY <2>2, <2>3
<1>5. CASE ~ f.encrypt
  <2>1. h[3] = 6
    BY <1>2, <1>3, <1>5, TabIs
  <2>2. CASE SwapSizeVisible(f)
    <3>1. h[4] = 7 /\ h[5] = 1 /\ h[6] = 2 /\ h[7] = 3
      BY <1>2, <2>1, <2>2, TabIs
    <3> QED
      BY <1>2, <1>3, <1>5, <2>1, <2>2, <3>1 DEF Shown
  <2>3. CASE ~ SwapSizeVisible(f)
    <3>1. h[4] = 1 /\ h[5] = 2 /\ h[6] = 3 /\ h[7] = 6
      BY <1>2, <1>5, <2>1, <2>3, TabIs
    <3> QED
      BY <1>2, <1>3, <1>5, <2>1, <2>3, <3>1 DEF Shown
  <2> QED
    BY <2>2, <2>3
<1> QED
  BY <1>4, <1>5

LEMMA TabUndone ==
    ASSUME NEW f, NEW i \in Shown(f)
    PROVE  PrevField(f, NextField(f, i)) = i /\ NextField(f, PrevField(f, i)) = i
<1>1. \/ i \in {1, 2, 3, 6}
      \/ f.encrypt /\ i \in {4, 5}
      \/ SwapSizeVisible(f) /\ i = 7
  BY DEF Shown
<1>2. CASE i \in {1, 2, 3}
  BY <1>2, TabIs, BackTabIs
<1>3. CASE i = 6
  BY <1>3, TabIs, BackTabIs
<1>4. CASE f.encrypt /\ i \in {4, 5}
  BY <1>4, TabIs, BackTabIs
<1>5. CASE SwapSizeVisible(f) /\ i = 7
  BY <1>5, TabIs, BackTabIs
<1> QED
  BY <1>1, <1>2, <1>3, <1>4, <1>5

(* The cursor visits what is shown, whatever the form holds: nextField and *)
(* prevField skip the same fields, and those only.                         *)
THEOREM CursorKeepsToTheForm == Spec => []CursorVisitsWhatIsShown
<1>1. CursorVisitsWhatIsShown
  <2> DEFINE reached == DiskReached(form)
  <2>1. reached = Shown(form)
    BY ReachedAreShown
  <2> HIDE DEF reached
  <2>2. \A i \in reached : /\ PrevField(form, NextField(form, i)) = i
                           /\ NextField(form, PrevField(form, i)) = i
    BY <2>1, TabUndone
  <2>3. {1, 2, 3, 6, LastField(form)} \subseteq reached
    BY <2>1, TabIs DEF Shown
  <2>4. {4, 5} \cap reached = (IF form.encrypt THEN {4, 5} ELSE {})
    BY <2>1 DEF Shown
  <2>5. 7 \in reached <=> SwapSizeVisible(form)
    BY <2>1 DEF Shown
  <2> QED
    BY <2>2, <2>3, <2>4, <2>5 DEF CursorVisitsWhatIsShown, reached
<1> QED
  BY <1>1, PTL DEF Spec
=============================================================================
