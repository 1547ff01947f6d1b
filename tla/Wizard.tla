------------------------------- MODULE Wizard -------------------------------
(***************************************************************************)
(* Phase 1 of the installer: the root model of tui/app.go and the pages of *)
(* tui/steps.  A key is handled at once, but what it asks for (next page,  *)
(* previous page, cfdisk, start of the install) is a command that bubbletea*)
(* runs in a goroutine of its own, so the message it ends in arrives after *)
(* any number of further keys, and two of them arrive in either order.     *)
(*                                                                         *)
(* A page is a record of its inputs.  The cursor is left out: an input can *)
(* be edited when the cursor can reach it, see Reached.                    *)
(***************************************************************************)
EXTENDS Flow, Layout, FiniteSetsExt, Bags

CONSTANTS
    Disks,          \* the disks lsblk lists, in its order
    Tables,         \* Tables[d]: the partition tables cfdisk may leave on d
    UsualMounts,    \* the <<mount, partition>> choices not counted as odd
    MaxOdd,         \* bound: edits to anything but Usual
    MaxHurries      \* bound: keys pressed while a message is under way

DiskSet == { Disks[i] : i \in 1..Len(Disks) }

Partitions == UNION UNION { Tables[d] : d \in DiskSet }

(* A partition is a pair of its disk and its number, and None is no such   *)
(* pair.                                                                   *)
ASSUME WizardAssumption ==
    /\ Len(Disks) \in Nat \ {0}
    /\ \A d \in DiskSet :
         /\ Tables[d] # {}
         /\ \A t \in Tables[d] : \A p \in t : p = << d, p[2] >>
         /\ \A p \in Partitions : None # << d, p[2] >>
    /\ MaxOdd \in Nat /\ MaxHurries \in Nat

VARIABLES
    phase,          \* "wizard", "install" or "quit"
    step,           \* the page shown: its place in Pages
    form,           \* the inputs of that page
    cfg,            \* config.InstallConfig, shared by all pages
    advanced,       \* advanced mode, toggled by ctrl+a
    parts,          \* the partitions on each disk
    pending,        \* the messages under way, a bag
    started,        \* installers started
    odd, hurries    \* edits and hasty keys so far

vars == << phase, step, form, cfg, advanced, parts, pending, started, odd,
           hurries >>

Pages == << "welcome", "disk", "partitions", "network", "locale", "hostname",
            "users", "kernel", "desktop", "packages", "bootloader", "confirm" >>
page == Pages[step]

-----------------------------------------------------------------------------
(* The values of the inputs.  Of a text matters whether it is empty and    *)
(* whether the page's check accepts it; of a password, which one it is; of *)
(* a size that is refused, whether it is a number; of the name of a zone   *)
(* or locale, whether another one contains it, as Etc/UTC does UTC.        *)

Text == {"", "bad", "good"}
Sizes == Text \cup {"negative"}
Names == {"good", "other"}                  \* "good" contains "other"
NameTexts == {"", "bad"} \cup Names
Password == {"", "p", "q"}
ModeChoices == {"ethernet", "wifi", "skip"}
Kernels == {"linux", "linux-lts"}           \* the first option, another one
Desktops == {"none", "xfce"}

(* One package is listed in two categories. *)
Entries == { <<"recon", "nmap">>, <<"net", "nmap">>, <<"net", "tor">> }

NoMounts == [root |-> None, boot |-> None, swap |-> None]

Defaults(fw) ==
    [ firmware |-> fw, disk |-> None, scheme |-> "guided", encrypt |-> FALSE,
      encPass |-> "", swap |-> "partition", swapSize |-> 4096,
      mounts |-> NoMounts, mode |-> "", ssid |-> "", zone |-> "",
      locale |-> "good", keymap |-> "good", hostname |-> "good", root |-> "",
      userName |-> "", userPass |-> "", kernel |-> "linux",
      desktop |-> "none", packages |-> {}, bootloader |-> "grub" ]

-----------------------------------------------------------------------------
(* A page when it is shown: New...(cfg). *)

DiskForm(c) ==
    [ disk |-> IF c.disk \in DiskSet THEN c.disk ELSE Disks[1],
      scheme |-> c.scheme, encrypt |-> c.encrypt, pass |-> c.encPass,
      conf |-> c.encPass, swap |-> c.swap,
      size |-> IF c.swapSize > 0 THEN "good" ELSE "" ]

(* The list of partitions is read once, when the page is shown. *)
PartitionsForm(c, ps) ==
    LET listed == IF c.disk \in DiskSet THEN ps[c.disk] ELSE {}
        Find(p) == IF p \in listed THEN p ELSE None
    IN  [ listed |-> listed, root |-> Find(c.mounts.root),
          boot |-> Find(c.mounts.boot), swap |-> Find(c.mounts.swap) ]

(* Wrong: the mode chosen before is not looked for. *)
NetworkFormAnew(c) == [ mode |-> "ethernet", ssid |-> c.ssid ]

NetworkForm(c) ==
    [ mode |-> IF c.mode \in ModeChoices THEN c.mode ELSE "ethernet",
      ssid |-> c.ssid ]

LocaleForm(c) == [ zone |-> c.zone, locale |-> c.locale, keymap |-> c.keymap ]

HostnameForm(c) == [ hostname |-> c.hostname ]

UsersForm(c) ==
    [ rootDone |-> c.root # "", root |-> c.root, rootConf |-> c.root,
      name |-> c.userName, pass |-> c.userPass, conf |-> c.userPass ]

(* The kernel page does not look for the kernel chosen before. *)
KernelForm(c) == [ kernel |-> "linux" ]

DesktopForm(c) == [ desktop |-> c.desktop ]

PackagesForm(c) == [ checked |-> { e \in Entries : e[2] \in c.packages } ]

BootloaderForm(c) ==
    [ bootloader |-> IF c.bootloader = "systemd-boot" /\ c.firmware # "uefi"
                     THEN "grub" ELSE c.bootloader ]

ConfirmForm == [ button |-> "install" ]

Load(p, c, ps) ==
    CASE p = "disk"       -> DiskForm(c)
      [] p = "partitions" -> PartitionsForm(c, ps)
      [] p = "network"    -> NetworkForm(c)
      [] p = "locale"     -> LocaleForm(c)
      [] p = "hostname"   -> HostnameForm(c)
      [] p = "users"      -> UsersForm(c)
      [] p = "kernel"     -> KernelForm(c)
      [] p = "desktop"    -> DesktopForm(c)
      [] p = "packages"   -> PackagesForm(c)
      [] p = "bootloader" -> BootloaderForm(c)
      [] p = "confirm"    -> ConfirmForm
      [] OTHER            -> [ welcome |-> TRUE ]

-----------------------------------------------------------------------------
(* The cursor.  The disk page numbers its fields and hides three of them,  *)
(* the network page shows its text fields for WiFi only.                   *)

DiskFields == << "disk", "scheme", "encrypt", "pass", "conf", "swap", "size" >>

SwapSizeVisible(f) == advanced /\ f.swap \in {"partition", "file"}

LastField(f) == IF SwapSizeVisible(f) THEN 7 ELSE 6

NextField(f, i) ==
    IF i >= LastField(f) THEN 1
    ELSE IF ~ f.encrypt /\ i + 1 \in {4, 5} THEN 6
    ELSE i + 1

(* Wrong: the hidden passphrase fields are skipped downwards only. *)
PrevFieldUnskipped(f, i) == IF i = 1 THEN LastField(f) ELSE i - 1

PrevField(f, i) ==
    IF i = 1 THEN LastField(f)
    ELSE IF ~ f.encrypt /\ i - 1 \in {4, 5} THEN 3
    ELSE i - 1

(* The fields of the disk page the cursor reaches from the first one. *)
DiskReached(f) ==
    LET hop[n \in 0..7] == IF n = 0 THEN 1 ELSE NextField(f, hop[n - 1])
    IN  { hop[n] : n \in 0..7 }

(* The inputs of the page that can be edited now. *)
Reached ==
    CASE page = "disk"       -> { DiskFields[i] : i \in DiskReached(form) }
      [] page = "partitions" -> {"root", "boot", "swap"}
      [] page = "network"    -> IF form.mode = "wifi" THEN {"mode", "ssid"}
                                ELSE {"mode"}
      [] page = "users"      -> IF form.rootDone THEN {"name", "pass", "conf"}
                                ELSE {"root", "rootConf"}
      [] page = "welcome"    -> {}
      [] OTHER               -> DOMAIN form

(* What an edit of input i can put there; packages are toggled one by one. *)
Values(i) ==
    CASE i = "disk"    -> DiskSet
      [] i = "scheme"  -> Schemes
      [] i = "encrypt" -> BOOLEAN
      [] i = "swap" /\ page = "disk" -> SwapModes
      [] i \in {"pass", "conf", "rootConf"} -> Password
      [] i = "root" /\ page = "users" -> Password
      [] i \in {"root", "boot", "swap"} /\ page = "partitions" ->
           form.listed \cup {None}
      [] i = "mode"    -> ModeChoices
      [] i = "kernel"  -> Kernels
      [] i = "desktop" -> Desktops
      [] i = "checked" -> { SymDiff(form.checked, {e}) : e \in Entries }
      [] i = "bootloader" -> IF cfg.firmware = "uefi" THEN Bootloaders
                             ELSE {"grub"}
      [] i = "button"  -> {"install", "back"}
      [] i = "size"    -> Sizes
      [] i \in {"zone", "locale"} -> NameTexts
      [] OTHER         -> Text

(* The edits every walk through the pages needs; they are not counted. *)
Usual(i, v) ==
    \/ i \in {"zone", "name"} /\ v = "good"
    \/ i \in {"root", "rootConf", "pass", "conf"} /\ v = "p"
    \/ page = "partitions" /\ <<i, v>> \in UsualMounts
    \/ i = "button"

-----------------------------------------------------------------------------
(* The suggestions of the locale page: the names that contain the text, of *)
(* which Enter takes the first unless the cursor is moved.                 *)
Suggestions(text) ==
    CASE text = ""     -> {}
      [] text = "good" -> {"good"}
      [] OTHER         -> Names

FirstSuggestion(text) == IF text = "" THEN "" ELSE "good"

-----------------------------------------------------------------------------
(* Leaving a page: the check of Enter (validate), what Enter writes to the *)
(* configuration, and what ctrl+a writes, which checks nothing.            *)

(* ctrl+a saves what Atoi makes of the text, a negative number too; eight  *)
(* characters at most never leave the range of an int.                     *)
SizeOf(text) ==
    CASE text \in {"", "good"} -> 4096
      [] text = "negative"     -> -1
      [] OTHER                 -> 0

(* Wrong: encryption is saved as ticked, with manual partitioning too. *)
DiskSaveTicked(f, c) ==
    [ c EXCEPT !.disk = f.disk, !.scheme = f.scheme, !.encrypt = f.encrypt,
               !.encPass = IF f.encrypt THEN f.pass ELSE "",
               !.swap = f.swap,
               !.swapSize = IF SwapSizeVisible(f) THEN SizeOf(f.size) ELSE @ ]

(* Encryption is refused with manual partitioning, whatever was ticked. *)
DiskSave(f, c) ==
    LET crypt == f.encrypt /\ f.scheme # "manual"
    IN  [ c EXCEPT !.disk = f.disk, !.scheme = f.scheme, !.encrypt = crypt,
                   !.encPass = IF crypt THEN f.pass ELSE "",
                   !.swap = f.swap,
                   !.swapSize = IF SwapSizeVisible(f) THEN SizeOf(f.size)
                                ELSE @ ]

(* Wrong: Enter on the disk page accepts an empty passphrase. *)
DiskAcceptsEmpty(f) ==
    /\ f.encrypt => f.pass = f.conf
    /\ SwapSizeVisible(f) => f.size \notin {"bad", "negative"}

DiskAccepts(f) ==
    /\ f.encrypt => f.pass # "" /\ f.pass = f.conf
    /\ SwapSizeVisible(f) => f.size \notin {"bad", "negative"}

NetworkSave(f, c) ==
    [ c EXCEPT !.mode = f.mode,
               !.ssid = IF f.mode = "wifi" THEN f.ssid ELSE @ ]

HostnameSave(f, c) ==
    [ c EXCEPT !.hostname = IF f.hostname = "" THEN "good" ELSE f.hostname ]

UserSave(f, c) == [ c EXCEPT !.userName = f.name, !.userPass = f.pass ]

UsersSave(f, c) ==
    LET rooted == IF f.root # "" /\ f.root = f.rootConf
                  THEN [ c EXCEPT !.root = f.root ] ELSE c
    IN  IF f.name # "" THEN UserSave(f, rooted) ELSE rooted

(* The pages ctrl+a saves, Saveable in messages.go. *)
Saveable == {"disk", "partitions", "network", "locale", "hostname", "users",
             "packages"}

Saved(p, f, c) ==
    CASE p = "disk"       -> DiskSave(f, c)
      [] p = "partitions" -> [ c EXCEPT !.mounts =
                                 [root |-> f.root, boot |-> f.boot,
                                  swap |-> f.swap] ]
      [] p = "network"    -> NetworkSave(f, c)
      [] p = "locale"     -> [ c EXCEPT !.zone = f.zone, !.locale = f.locale,
                                        !.keymap = f.keymap ]
      [] p = "hostname"   -> HostnameSave(f, c)
      [] p = "users"      -> UsersSave(f, c)
      [] p = "packages"   -> [ c EXCEPT !.packages =
                                 { e[2] : e \in f.checked } ]

Accepts(p, f, c) ==
    CASE p = "disk"       -> DiskAccepts(f)
      [] p = "partitions" -> /\ f.root # None
                             /\ c.firmware = "uefi" => f.boot # None
      [] p = "network"    -> f.mode = "wifi" => f.ssid # ""
      [] p = "locale"     -> {f.zone, f.locale} \subseteq Names
                             /\ f.keymap # ""
      [] p = "hostname"   -> f.hostname # "bad"
      [] p = "users"      -> /\ f.name = "good"
                             /\ f.pass # "" /\ f.pass = f.conf
      [] OTHER            -> TRUE

(* What Enter on the last field writes. *)
Entered(p, f, c) ==
    CASE p = "users"          -> UserSave(f, c)
      [] p \in Saveable \ {"users"} -> Saved(p, f, c)
      [] p = "kernel"         -> [ c EXCEPT !.kernel = f.kernel ]
      [] p = "desktop"        -> [ c EXCEPT !.desktop = f.desktop ]
      [] p = "bootloader"     -> [ c EXCEPT !.bootloader = f.bootloader ]
      [] OTHER                -> c

(* The message that follows. *)
Asks(p, f) ==
    CASE p = "disk" /\ f.scheme = "manual"         -> <<"cfdisk", f.disk>>
      [] p = "confirm" /\ f.button = "install"     -> <<"start">>
      [] p = "confirm" /\ f.button = "back"        -> <<"back">>
      [] OTHER                                     -> <<"done">>

-----------------------------------------------------------------------------
(* Which tables the disks come with does not matter: the partitions page   *)
(* comes after cfdisk.                                                     *)
Init ==
    /\ \E fw \in Firmwares : cfg = Defaults(fw)
    /\ parts = [ d \in DiskSet |-> CHOOSE t \in Tables[d] : TRUE ]
    /\ phase = "wizard" /\ step = 1 /\ form = Load("welcome", cfg, parts)
    /\ advanced = FALSE
    /\ pending = EmptyBag /\ started = 0 /\ odd = 0 /\ hurries = 0

Typing == phase = "wizard"

(* A key pressed while a message is under way. *)
Hasty ==
    /\ pending # EmptyBag => hurries < MaxHurries
    /\ hurries' = IF pending = EmptyBag THEN hurries ELSE hurries + 1

Post(m) == pending' = pending (+) SetToBag({m})

Edit ==
    /\ Typing /\ Hasty
    /\ \E i \in Reached : \E v \in Values(i) \ {form[i]} :
         /\ odd' = IF Usual(i, v) THEN odd ELSE odd + 1
         /\ odd' <= MaxOdd
         /\ form' = [ form EXCEPT ![i] = v ]
    /\ UNCHANGED << phase, step, cfg, advanced, parts, pending, started >>

(* Enter on the time zone or the locale puts a suggestion there. *)
Pick ==
    /\ Typing /\ Hasty /\ page = "locale"
    /\ \E i \in {"zone", "locale"} :
         \E v \in Suggestions(form[i]) \ {form[i]} :
           form' = [ form EXCEPT ![i] = v ]
    /\ UNCHANGED << phase, step, cfg, advanced, parts, pending, started, odd >>

(* Enter on the password of root: the page goes on to the user. *)
EnterRoot ==
    /\ Typing /\ Hasty
    /\ page = "users" /\ ~ form.rootDone /\ form.root # ""
    /\ IF form.root = form.rootConf
       THEN /\ cfg' = [ cfg EXCEPT !.root = form.root ]
            /\ form' = [ form EXCEPT !.rootDone = TRUE ]
       ELSE /\ form' = [ form EXCEPT !.rootConf = "" ]
            /\ cfg' = cfg
    /\ UNCHANGED << phase, step, advanced, parts, pending, started, odd >>

(* Enter on the last field of a page whose check passes. *)
Enter ==
    /\ Typing /\ Hasty
    /\ page = "users" => form.rootDone
    /\ Accepts(page, form, cfg)
    /\ cfg' = Entered(page, form, cfg)
    /\ Post(Asks(page, form))
    /\ UNCHANGED << phase, step, form, advanced, parts, started, odd >>

(* Esc leads back, on the users page first to the password of root. *)
Esc ==
    /\ Typing /\ Hasty /\ page # "welcome"
    /\ IF page = "users" /\ form.rootDone
       THEN form' = [ form EXCEPT !.rootDone = FALSE ] /\ pending' = pending
       ELSE Post(<<"back">>) /\ form' = form
    /\ UNCHANGED << phase, step, cfg, advanced, parts, started, odd >>

(* ctrl+a: the page is saved as it is and shown anew. *)
ToggleAdvanced ==
    /\ Typing /\ Hasty
    /\ advanced' = ~ advanced
    /\ cfg' = IF page \in Saveable THEN Saved(page, form, cfg) ELSE cfg
    /\ form' = Load(page, cfg', parts)
    /\ UNCHANGED << phase, step, parts, pending, started, odd >>

(* ctrl+c, or q outside a text, and yes to the question.  The dialog takes *)
(* the keys but no message, which is handled under it as without it, so    *)
(* opening it and answering no is no step.  The process ends and with it   *)
(* everything it held.                                                     *)
Quit ==
    /\ phase # "quit" /\ phase' = "quit"
    /\ pending' = EmptyBag
    /\ step' = 1 /\ cfg' = Defaults(cfg.firmware) /\ advanced' = FALSE
    /\ form' = Load("welcome", cfg', parts)
    /\ UNCHANGED << parts, started, odd, hurries >>

-----------------------------------------------------------------------------
(* Messages.  They are handled whatever the page.                          *)

Show(s) == step' = s /\ form' = Load(Pages[s], cfg, parts)

Take(m) == phase # "quit" /\ BagIn(m, pending)
Drop(m) == pending' = pending (-) SetToBag({m})

Guided(s) == Pages[s] = "partitions" /\ cfg.scheme = "guided"

Done ==
    /\ Take(<<"done">>) /\ Drop(<<"done">>)
    /\ LET next == IF step < Len(Pages) /\ Guided(step + 1) THEN step + 2
                   ELSE step + 1
       IN  IF next <= Len(Pages) THEN Show(next) ELSE UNCHANGED <<step, form>>
    /\ UNCHANGED << phase, cfg, advanced, parts, started, odd, hurries >>

(* Wrong: a page is asked for before the first. *)
BackPastStart ==
    /\ Take(<<"back">>) /\ Drop(<<"back">>)
    /\ LET prev == IF step > 1 /\ Guided(step - 1) THEN step - 2 ELSE step - 1
       IN  IF prev \in DOMAIN Pages THEN Show(prev)
           ELSE step' = prev /\ form' = form
    /\ UNCHANGED << phase, cfg, advanced, parts, started, odd, hurries >>

Back ==
    /\ Take(<<"back">>) /\ Drop(<<"back">>)
    /\ LET prev == IF step > 1 /\ Guided(step - 1) THEN step - 2 ELSE step - 1
       IN  IF prev >= 1 THEN Show(prev) ELSE UNCHANGED <<step, form>>
    /\ UNCHANGED << phase, cfg, advanced, parts, started, odd, hurries >>

(* cfdisk takes the terminal, so no key is read until it ends; it leaves   *)
(* the table the user wants, and ends in a DoneMsg even when it fails.     *)
Cfdisk ==
    \E d \in DiskSet :
      /\ Take(<<"cfdisk", d>>)
      /\ \E t \in Tables[d] : parts' = [ parts EXCEPT ![d] = t ]
      /\ pending' = (pending (-) SetToBag({<<"cfdisk", d>>}))
                      (+) SetToBag({<<"done">>})
      /\ UNCHANGED << phase, step, form, cfg, advanced, started, odd,
                      hurries >>

(* Each StartInstallMsg starts an installer of its own (NewProgress, Init). *)
StartInstall ==
    /\ Take(<<"start">>) /\ Drop(<<"start">>)
    /\ phase' = "install" /\ started' = started + 1
    /\ UNCHANGED << step, form, cfg, advanced, parts, odd, hurries >>

Deliver == Done \/ Back \/ Cfdisk \/ StartInstall

Next ==
    \/ Edit \/ Pick \/ EnterRoot \/ Enter \/ Esc \/ ToggleAdvanced
    \/ Quit \/ Deliver

Spec == Init /\ [][Next]_vars

-----------------------------------------------------------------------------
(* The values of the configuration, of the inputs of page p, and of the    *)
(* messages the pages send.                                                *)
Mappings == Partitions \cup {None}

SwapSizes == {-1, 0, 4096}
ModesOrNone == ModeChoices \cup {""}
Mounts == [root : Mappings, boot : Mappings, swap : Mappings]
PackageNames == { e[2] : e \in Entries }
Keys == DOMAIN Defaults("uefi")

ConfigOK(c) ==
    /\ DOMAIN c = Keys
    /\ c.firmware \in Firmwares /\ c.disk \in DiskSet \cup {None}
    /\ c.scheme \in Schemes /\ c.encrypt \in BOOLEAN /\ c.swap \in SwapModes
    /\ c.encPass \in Password /\ c.root \in Password /\ c.userPass \in Password
    /\ c.swapSize \in SwapSizes /\ c.mode \in ModesOrNone
    /\ c.mounts \in Mounts
    /\ c.ssid \in Text /\ c.zone \in NameTexts /\ c.locale \in NameTexts
    /\ c.keymap \in Text /\ c.hostname \in Text /\ c.userName \in Text
    /\ c.kernel \in Kernels /\ c.desktop \in Desktops
    /\ c.packages \subseteq PackageNames
    /\ c.bootloader \in Bootloaders

Forms(p) ==
    CASE p = "disk"       -> [ disk : DiskSet, scheme : Schemes,
                               encrypt : BOOLEAN, pass : Password,
                               conf : Password, swap : SwapModes, size : Sizes ]
      [] p = "partitions" -> [ listed : SUBSET Partitions, root : Mappings,
                               boot : Mappings, swap : Mappings ]
      [] p = "network"    -> [ mode : ModeChoices, ssid : Text ]
      [] p = "locale"     -> [ zone : NameTexts, locale : NameTexts,
                               keymap : Text ]
      [] p = "hostname"   -> [ hostname : Text ]
      [] p = "users"      -> [ rootDone : BOOLEAN, root : Password,
                               rootConf : Password, name : Text,
                               pass : Password, conf : Password ]
      [] p = "kernel"     -> [ kernel : Kernels ]
      [] p = "desktop"    -> [ desktop : Desktops ]
      [] p = "packages"   -> [ checked : SUBSET Entries ]
      [] p = "bootloader" -> [ bootloader : Bootloaders ]
      [] p = "confirm"    -> [ button : {"install", "back"} ]
      [] OTHER            -> [ welcome : {TRUE} ]

(* The messages that lead on, and all of them. *)
Forward == {<<"done">>} \cup { <<"cfdisk", d>> : d \in DiskSet }
Messages == Forward \cup {<<"back">>, <<"start">>}

(* Every variable is of its type: the page has the inputs of its step, and *)
(* only messages the pages send are under way.                             *)
TypeOK ==
    /\ phase \in {"wizard", "install", "quit"} /\ step \in 1..Len(Pages)
    /\ form \in Forms(page) /\ ConfigOK(cfg) /\ advanced \in BOOLEAN
    /\ DOMAIN parts = DiskSet /\ \A d \in DiskSet : parts[d] \in Tables[d]
    /\ IsABag(pending) /\ BagToSet(pending) \subseteq Messages
    /\ started \in Nat /\ odd \in 0..MaxOdd /\ hurries \in 0..MaxHurries

(* What passing page p promises of the configuration. *)
Promised(p, c) ==
    CASE p = "disk"       -> /\ c.disk \in DiskSet
                             /\ c.encrypt => c.encPass # ""
      [] p = "partitions" -> c.scheme = "manual" =>
                               /\ c.mounts.root # None
                               /\ c.firmware = "uefi" => c.mounts.boot # None
                               /\ \A m \in DOMAIN c.mounts :
                                    c.mounts[m] \in parts[c.disk] \cup {None}
      [] p = "network"    -> /\ c.mode \in ModeChoices
                             /\ c.mode = "wifi" => c.ssid # ""
      [] p = "locale"     -> /\ {c.zone, c.locale} \subseteq Names
                             /\ c.keymap # ""
      [] p = "hostname"   -> c.hostname = "good"
      [] p = "users"      -> /\ c.root # "" /\ c.userName = "good"
                             /\ c.userPass # ""
      [] OTHER            -> TRUE

(* The pages behind the user: those before the current one, the current    *)
(* one when the message that it is done is under way, and all of them once *)
(* the install is asked for.                                               *)
Behind ==
    IF phase = "install" \/ BagIn(<<"start">>, pending) THEN 1..Len(Pages)
    ELSE LET leaving == BagToSet(pending) \ {<<"back">>} # {}
         IN  { i \in 1..Len(Pages) : i < step \/ (i = step /\ leaving) }

Broken == { i \in Behind : ~ Promised(Pages[i], cfg) }

(* A user who waits for each page gets past a page, and into the install,  *)
(* only with what it asks for, however the pages are revisited, saved by   *)
(* ctrl+a or changed by cfdisk; each hasty key can break the promise of    *)
(* one page at most.                                                       *)
PromisesHold == phase # "quit" => Cardinality(Broken) <= hurries

(* The part of the configuration the pipeline branches on. *)
Projected ==
    [ scheme |-> cfg.scheme, firmware |-> cfg.firmware, encrypt |-> cfg.encrypt,
      swap |-> cfg.swap, bootloader |-> cfg.bootloader, rankMirrors |-> TRUE,
      desktop |-> cfg.desktop # "none", drivers |-> FALSE ]

(* Whatever is pressed when, the install starts from a configuration the   *)
(* pipeline is made for: it never encrypts a manual layout, which the disk *)
(* code would not do, and never has systemd-boot on BIOS, which it refuses.*)
Installable == ReachableConfig(Projected)

(* The page when Enter is pressed on every field and nothing else. *)
Walked(p, f) ==
    IF p = "locale"
    THEN [ f EXCEPT !.zone = FirstSuggestion(@), !.locale = FirstSuggestion(@) ]
    ELSE f

(* A page that is left as it is found, by tab or by Enter on each field,   *)
(* changes nothing: what it shows is what it saves.  It may fill in what   *)
(* was never set or is no size, it forgets a partition cfdisk has removed, *)
(* and Enter on the zone or locale takes the first name that contains it.  *)
(* The kernel page shows the first kernel instead of the chosen one, and   *)
(* is excepted.                                                            *)
KeepsWhatItShows ==
    LET fresh == Load(page, cfg, parts)
        gone == { m \in DOMAIN cfg.mounts :
                    page = "partitions" /\ cfg.mounts[m] \notin form.listed }
    IN  phase = "wizard" /\ page # "kernel" /\ form = fresh =>
        \A left \in {fresh, Walked(page, fresh)} :
          Accepts(page, left, cfg) =>
            LET written == Entered(page, left, cfg)
            IN  \A k \in DOMAIN cfg :
                  \/ written[k] = cfg[k]
                  \/ k = "disk" /\ cfg.disk = None
                  \/ k = "mode" /\ cfg.mode = ""
                  \/ k = "swapSize" /\ cfg.swapSize <= 0
                  \/ k \in {"zone", "locale"} /\ left # fresh
                       /\ written[k] = FirstSuggestion(cfg[k])
                  \/ k = "mounts" /\ \A m \in DOMAIN cfg.mounts \ gone :
                                       written.mounts[m] = cfg.mounts[m]

(* On the disk page the cursor visits every field that is shown and no     *)
(* other, downwards and upwards, and Enter ends on the last one, whichever *)
(* of encryption, swap mode and advanced mode is changed on the way.       *)
CursorVisitsWhatIsShown ==
    page = "disk" =>
      LET reached == DiskReached(form)
      IN  /\ \A i \in reached : /\ PrevField(form, NextField(form, i)) = i
                                /\ NextField(form, PrevField(form, i)) = i
          /\ {1, 2, 3, 6, LastField(form)} \subseteq reached
          /\ {4, 5} \cap reached = (IF form.encrypt THEN {4, 5} ELSE {})
          /\ 7 \in reached <=> SwapSizeVisible(form)

(* The names the disks may come up with after a reboot. *)
Renamings ==
    { n \in [DiskSet -> DiskSet] : \A d, e \in DiskSet : n[d] = n[e] => d = e }

(* The partitions the install formats, mounts, boots from and records are  *)
(* the ones it creates, and a saved install finds them again whatever the  *)
(* names of the disks are then; so much is settled once the disk and the   *)
(* partitions page are behind.                                             *)
LayoutHolds ==
    phase # "quit" /\ hurries = 0 /\ {2, 3} \subseteq Behind =>
      Agrees(cfg) /\ \A n \in Renamings : Follows(cfg, n)

-----------------------------------------------------------------------------
(* Why these are kept.  What the wizard knows of the configuration   *)
(* and of the inputs shown:                                                *)
Consistent ==
    /\ cfg.bootloader = "systemd-boot" => cfg.firmware = "uefi"
    /\ cfg.scheme = "manual" => ~ cfg.encrypt /\ cfg.disk \in DiskSet

(* What a page would change although nothing is touched (KeepsWhatItShows) *)
(* is never there: a passphrase without encryption, an empty host name.    *)
Tidy ==
    /\ ~ cfg.encrypt => cfg.encPass = ""
    /\ cfg.hostname # ""

(* The messages that lead on, one by one: copy n of each. *)
Leading ==
    UNION { { <<m, n>> : n \in 1..pending[m] } : m \in DOMAIN pending \cap Forward }

(* The list of partitions is older than the partitions. *)
Stale == page = "partitions" /\ form.listed # parts[cfg.disk]

FormFits ==
    /\ page = "bootloader" =>
         (form.bootloader = "systemd-boot" => cfg.firmware = "uefi")
    /\ page = "users" => (form.rootDone => cfg.root # "")
    /\ page = "partitions" =>
         /\ cfg.scheme = "manual"
         /\ {form.root, form.boot, form.swap} \subseteq form.listed \cup {None}
         /\ Stale => Leading # {}

(* The pages whose promise is broken, or may be by cfdisk. *)
Cfdisks == { d \in DiskSet : BagIn(<<"cfdisk", d>>, pending) }

AtRisk(p) ==
    \/ ~ Promised(p, cfg)
    \/ p = "partitions" /\ cfg.scheme = "manual" /\ Cfdisks # {}

Risky == { i \in 1..Len(Pages) : AtRisk(Pages[i]) }

Confirmed == phase = "install" \/ BagIn(<<"start">>, pending)

(* The disk page would change what the partitions page promised. *)
Unsaved ==
    /\ page = "disk"
    /\ form.scheme = cfg.scheme => form.scheme = "manual" /\ form.disk # cfg.disk

(* Each hasty key pays for one page: a page behind that is at risk, a      *)
(* message that leads on past the one that was waited for, the page these  *)
(* messages leave first, or an edit of the disk page that is not saved.    *)
Charge ==
    IF Confirmed THEN Cardinality(Risky) + (IF Unsaved THEN 1 ELSE 0)
    ELSE Cardinality({ i \in Risky : i < step })
           + IF Leading = {} THEN 0
             ELSE Cardinality(Leading) - 1
                    + (IF step \in Risky \/ Stale THEN 1 ELSE 0)

Charged == phase # "quit" => Charge <= hurries

(* The inductive invariant of the wizard: whatever comes late, the keys    *)
(* that were not waited with pay for all a page behind does not keep.      *)
IInv == TypeOK /\ Consistent /\ Tidy /\ FormFits /\ Charged

(* The confirmation leads to one installation: StartInstallMsg signals     *)
(* that the user confirmed and Phase 2 should begin (messages.go).         *)
OneInstaller == started <= 1
=============================================================================
