-------------------------- MODULE Refinement_proofs --------------------------
(***************************************************************************)
(* Guided installs implement InstallPromise, for any configurations,       *)
(* plans, fault sets and bounds ResumableInstall's assumptions allow.      *)
(***************************************************************************)
EXTENDS ResumableInstall_proofs

(* The claim of a run, and nothing when there is none. *)
Claimed == IF pc = "off" THEN None ELSE [cfg |-> mem.cfg, done |-> mem.done]

(* A run claims something, and all of it is in place. *)
LEMMA ClaimFacts ==
    ASSUME TypeOK, Backed
    PROVE  /\ pc = "off" <=> Claimed = None
           /\ pc # "off" => /\ mem \in State
                            /\ Claimed \in P!Claim
                            /\ Claimed.cfg = mem.cfg /\ Claimed.done = mem.done
                            /\ P!Backed(Claimed, has)
<1>1. CASE pc = "off"
  BY <1>1 DEF Claimed
<1>2. CASE pc # "off"
  <2>1. mem \in State
    BY <1>2 DEF TypeOK
  <2>2. Claimed \in [cfg : Configs, done : SUBSET Keys]
    BY <1>2, <2>1 DEF Claimed, State
  <2>3. P!Claim = [cfg : Configs, done : SUBSET Keys]
    BY DEF P!Claim, P!Keys, Keys
  <2>4. Covered(mem, has)
    BY <1>2 DEF Backed, InPlace, Active
  <2>5. P!Backed(Claimed, has)
    BY <1>2, <2>4 DEF P!Backed, Claimed, Covered
  <2> QED
    BY <1>2, <2>1, <2>2, <2>3, <2>5, NobodyAssumption DEF Claimed
<1> QED
  BY <1>1, <1>2

(* And so it does after a step. *)
LEMMA ClaimFactsNext ==
    ASSUME TypeOK', Backed', pc' # "off"
    PROVE  /\ mem' \in State
           /\ Claimed' \in P!Claim
           /\ Claimed' = [cfg |-> mem'.cfg, done |-> mem'.done]
           /\ P!Backed(Claimed', has')
<1>1. mem' \in State
  BY DEF TypeOK
<1>2. Claimed' = [cfg |-> mem'.cfg, done |-> mem'.done]
  BY DEF Claimed
<1>3. Claimed' \in [cfg : Configs, done : SUBSET Keys]
  BY <1>1, <1>2 DEF State
<1>4. P!Claim = [cfg : Configs, done : SUBSET Keys]
  BY DEF P!Claim, P!Keys, Keys
<1>5. Covered(mem, has)'
  BY DEF Backed, InPlace, Active
<1>6. P!Backed(Claimed', has')
  BY <1>2, <1>5 DEF P!Backed, Covered
<1> QED
  BY <1>1, <1>2, <1>3, <1>4, <1>6

(* The loop is done only once it has gone through the plan. *)
LEMMA DoneFacts ==
    ASSUME TypeOK, [Next]_vars
    PROVE  \/ InstallDone
           \/ pc' = "done" /\ pc = "done" /\ mem' = mem
           \/ pc' # "done" /\ (pc = "done" => pc' = "off")
<1>1. CASE InstallDone
  BY <1>1
<1>2. CASE Saves \/ Mounts \/ Releases
  BY <1>2 DEF Saves, Capture, WriteTmp, RenameLocal, RenameDisk, RenameStub, SaveFails,
     SaveEnds, Mounts, OpenLuks, MountRoot, MountEsp, Swapon, SwaponFile, Mounting,
     Mounted, RestoreFails, RestoreEnds, Releases, Swapoff, Umount, CloseLuks,
     Releasing, Released, ReleaseFails, ReleaseEnds, Exit, TypeOK
<1>3. CASE DiskSteps
  BY <1>3 DEF DiskSteps, Partition, FormatEsp, FormatSwap, FormatLuks, FormatRoot,
     RemoveStub, RemoveLocal, RemoveDisk
<1>4. CASE SkipDone \/ BeginStep \/ StepSucceeds \/ SoftStepFails \/ HardStepFails
  BY <1>4 DEF SkipDone, BeginStep, StepSucceeds, SoftStepFails, MarkDone, HardStepFails
<1>5. CASE Resume \/ Confirm \/ Decline \/ Quit \/ Kill \/ \E c \in Configs : Launch(c)
  BY <1>5 DEF Resume, Confirm, Decline, Quit, Kill, Exit, Launch, Starting
<1>6. CASE EditPartitions \/ ResumeRefused \/ OrphanEnds \/ Reboot \/ UNCHANGED vars
  BY <1>6 DEF EditPartitions, ResumeRefused, OrphanEnds, Reboot, Starting, vars, run
<1> QED
  BY <1>1, <1>2, <1>3, <1>4, <1>5, <1>6 DEF Next, Loop, Idle

(* A disk that loses something shows nothing new. *)
LEMMA LossFacts ==
    ASSUME TypeOK, NewTable \/ RootLost \/ EspLost \/ UNCHANGED has
    PROVE  P!NoneAppears
BY DEF NewTable, RootLost, EspLost, TypeOK, P!NoneAppears

(* A step that leaves the claim alone, or ends it, is a loss at most. *)
LEMMA KeepsOrLoses ==
    ASSUME TypeOK, TypeOK', Backed, Backed', Follows, pc' # "done", pc = "done" => pc' = "off",
           NewTable \/ RootLost \/ EspLost \/ UNCHANGED has
    PROVE  P!Next
<1>1. P!NoneAppears
  BY LossFacts
<1>2. CASE pc' # "off"
  <2>1. Claimed' = Claimed /\ Claimed # None /\ P!Backed(Claimed, has')
    BY <1>2, ClaimFacts, ClaimFactsNext DEF Follows, Claimed
  <2> QED
    BY <1>1, <1>2, <2>1 DEF P!Next, P!Lose, Claimed
<1>3. CASE pc' = "off" /\ pc # "off"
  <2>1. Claimed # None /\ Claimed' = None
    BY <1>3, ClaimFacts DEF Claimed
  <2> QED
    BY <1>1, <1>3, <2>1 DEF P!Next, P!Stop, Claimed
<1>4. CASE pc' = "off" /\ pc = "off"
  BY <1>1, <1>4 DEF P!Next, P!Lose
<1> QED
  BY <1>2, <1>3, <1>4

(* A run begins from a record of what is in place. *)
LEMMA Begins ==
    ASSUME TypeOK, TypeOK', Backed, Backed', pc = "off", pc' \notin {"off", "done"},
           UNCHANGED has
    PROVE  P!Begin
<1>1. Claimed = None
  BY ClaimFacts
<1>2. Claimed' \in P!Claim /\ P!Backed(Claimed', has)
  BY ClaimFactsNext
<1> QED
  BY <1>1, <1>2 DEF P!Begin, Claimed

(* A step that is marked done is the first one that was not. *)
LEMMA Works ==
    ASSUME IInv, IInv', StepSucceeds \/ SoftStepFails
    PROVE  P!Work
<1>1. /\ TypeOK /\ Backed /\ LoopOrdered /\ TypeOK' /\ Backed'
  BY DEF IInv, Control
<1>2. pc = "step" /\ MarkDone /\ has' \in {has, Landed(Key)}
  BY DEF StepSucceeds, SoftStepFails, target
<1>3. /\ mem.cfg \in Configs /\ at \in 1..Len(Plan[mem.cfg])
      /\ Key = Plan[mem.cfg][at] /\ Key \notin mem.done
      /\ \A j \in 1..(at - 1) : Plan[mem.cfg][j] \in mem.done
  BY <1>1, <1>2, KeyType DEF LoopOrdered, Active, Key
<1>4. /\ mem'.cfg = mem.cfg /\ mem'.done = mem.done \cup {Key}
      /\ pc' \in {"save", "run"}
  BY <1>1, <1>2, MarkDoneFacts
<1>5. Claimed # None /\ Claimed = [cfg |-> mem.cfg, done |-> mem.done]
  BY <1>1, <1>2, ClaimFacts DEF Claimed
<1>6. Claimed' = [Claimed EXCEPT !.done = @ \cup {Key}] /\ P!Backed(Claimed', has')
  BY <1>1, <1>4, <1>5, ClaimFactsNext
<1>7. \A m \in Media : has'[m] \subseteq has[m] \cup {Key}
  BY <1>1, <1>2 DEF Landed, TypeOK
<1>8. P!IsNext(at, Claimed)
  BY <1>3, <1>5 DEF P!IsNext
<1>9. at \in 1..Len(Plan[Claimed.cfg]) /\ Plan[Claimed.cfg][at] = Key
  BY <1>3, <1>5
<1>10. \E i \in 1..Len(Plan[Claimed.cfg]) :
          /\ P!IsNext(i, Claimed)
          /\ Claimed' = [Claimed EXCEPT !.done = @ \cup {Plan[Claimed.cfg][i]}]
          /\ \A m \in Media : has'[m] \subseteq has[m] \cup {Plan[Claimed.cfg][i]}
  BY <1>6, <1>7, <1>8, <1>9
<1>11. (pc = "done")' = (pc = "done")
  BY <1>2, <1>4
<1> QED
  BY <1>5, <1>6, <1>10, <1>11 DEF P!Work, Claimed

(* The install is done when the whole plan is. *)
LEMMA Finishes ==
    ASSUME IInv, InstallDone
    PROVE  P!Finish
<1>1. TypeOK /\ Backed /\ LoopOrdered
  BY DEF IInv, Control
<1>2. /\ pc = "run" /\ at > Len(Plan[mem.cfg]) /\ pc' = "done" /\ mem' = mem /\ has' = has
  BY DEF InstallDone, target
<1>3. mem \in State /\ Claimed # None /\ Claimed.cfg = mem.cfg /\ Claimed.done = mem.done
  BY <1>1, <1>2, ClaimFacts
<1>4. Len(Plan[mem.cfg]) \in Nat
  BY <1>3, PlanAssumption DEF State
<1>5. \A i \in 1..Len(Plan[mem.cfg]) : i \in 1..(at - 1)
  BY <1>1, <1>2, <1>4 DEF TypeOK
<1>6. P!Complete(Claimed)
  BY <1>1, <1>2, <1>3, <1>5 DEF LoopOrdered, Active, P!Complete
<1>7. Claimed' = Claimed
  BY <1>2 DEF Claimed
<1> QED
  BY <1>2, <1>3, <1>6, <1>7 DEF P!Finish, Claimed

-----------------------------------------------------------------------------
(***************************************************************************)
(* The installer keeps the promise: guided installs implement              *)
(* InstallPromise, the claim being the state in memory.  The copies it is  *)
(* loaded from, the order of saves, mounts and releases, and every fault   *)
(* are steps the promise does not see.                                     *)
(***************************************************************************)
THEOREM ImplementsThePromise ==
    ASSUME Guided
    PROVE  Spec => KeepsThePromise
<1>1. Init => P!Init
  BY DEF Init, P!Init
<1>2. IInv /\ IInv' /\ [Next]_vars => [P!Next]_(P!vars)
  <2> SUFFICES ASSUME IInv, IInv', [Next]_vars PROVE P!Next \/ UNCHANGED P!vars
    OBVIOUS
  <2>1. TypeOK /\ TypeOK' /\ Backed /\ Backed' /\ GuidedStep
    BY NextKinds DEF IInv, Control
  <2>2. CASE InstallDone
    BY <2>2, Finishes DEF P!Next
  <2>3. CASE pc' = "done" /\ pc = "done" /\ mem' = mem
    <3>1. NewTable \/ RootLost \/ EspLost \/ UNCHANGED has
      BY <2>1, <2>3 DEF GuidedStep, Launch, Starting, Resume, Capture, RenameLocal, RenameDisk,
         StepSucceeds, SoftStepFails, TableMade, FormatLost, OrphanLoses, Orphaned, Quiet
    <3>2. P!NoneAppears
      BY <2>1, <3>1, LossFacts
    <3>3. Claimed' = Claimed /\ P!Backed(Claimed, has')
      BY <2>1, <2>3, ClaimFactsNext DEF Claimed
    <3> QED
      BY <2>3, <3>2, <3>3 DEF P!Next, P!Lose, Claimed
  <2>4. CASE pc' # "done" /\ (pc = "done" => pc' = "off")
    <3>1. CASE (\E c \in Configs : Launch(c)) \/ Resume
      <4>1. pc = "off" /\ pc' = "save" /\ UNCHANGED has
        BY <3>1 DEF Launch, Resume, Starting, target
      <4> QED
        BY <2>1, <4>1, Begins DEF P!Next
    <3>2. CASE StepSucceeds \/ SoftStepFails
      BY <3>2, Works DEF P!Next
    <3>3. CASE Capture
      <4>1. /\ pc = "save" /\ pc' = pc /\ mem' = [mem EXCEPT !.uuid = table] /\ has' = has
        BY <3>3 DEF Capture, target
      <4>2. mem'.cfg = mem.cfg /\ mem'.done = mem.done
        BY <2>1, <4>1, ClaimFacts DEF State
      <4> QED
        BY <4>1, <4>2 DEF P!vars
    <3>4. CASE RenameLocal \/ RenameDisk
      BY <3>4 DEF RenameLocal, RenameDisk, target, P!vars
    <3>5. CASE TableMade \/ FormatLost \/ OrphanLoses \/ Orphaned \/ Quiet
      <4>1. Follows /\ (NewTable \/ RootLost \/ EspLost \/ UNCHANGED has)
        BY <3>5 DEF TableMade, FormatLost, OrphanLoses, Orphaned, Quiet, Follows
      <4> QED
        BY <2>1, <2>4, <4>1, KeepsOrLoses
    <3> QED
      BY <2>1, <3>1, <3>2, <3>3, <3>4, <3>5 DEF GuidedStep
  <2> QED
    BY <2>1, <2>2, <2>3, <2>4, DoneFacts
<1> QED
  BY <1>1, <1>2, Invariant, PTL DEF Spec, KeepsThePromise, P!Spec

(***************************************************************************)
(* What a finished guided install claims on the target is on the target,   *)
(* in whichever run it was put there; a manual one can finish without it   *)
(* (ResumableInstallManualStale).                                          *)
(***************************************************************************)
THEOREM FinishedIsInstalled ==
    ASSUME Guided
    PROVE  Spec => []InstalledWhenDone
<1>1. IInv => InstalledWhenDone
  BY DEF IInv, Control, Backed, InPlace, Covered, InstalledWhenDone, Active
<1> QED
  BY <1>1, Invariant, PTL
=============================================================================
