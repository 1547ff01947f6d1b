---------------------------- MODULE InstallPromise ----------------------------
(***************************************************************************)
(* What falconia promises of one disk, without saying how: README.md, "It  *)
(* skips the steps that already finished, remounts the target and          *)
(* continues".  There are no copies, no mounts, no commands and no faults  *)
(* here; only what a run claims to have done and what is really in place.  *)
(* ResumableInstall implements this specification.                         *)
(***************************************************************************)
EXTENDS Integers, Sequences

CONSTANTS
    Configs,       \* the configurations that may be installed
    Plan,          \* Plan[c]: the steps that apply to c, in order
    Media,         \* the places a step's effect can be
    Home(_, _),    \* Home(k, c): the media step k leaves its effect on
    None           \* nobody is installing; not a member of Claim

Keys == UNION { {Plan[c][i] : i \in 1..Len(Plan[c])} : c \in Configs }

Claim == [cfg : Configs, done : SUBSET Keys]

VARIABLES
    claim,      \* the steps the current run takes as done, and for what
    effects,    \* effects[m]: the steps whose effect is on medium m
    finished    \* the current run says that the system is installed

vars == <<claim, effects, finished>>

(* Everything the steps in s.done left behind is there. *)
Backed(s, e) == \A k \in s.done : \A m \in Home(k, s.cfg) : k \in e[m]

(* Wherever effects differ, some are gone. *)
NoneAppears == \A m \in Media : effects'[m] \subseteq effects[m]

(* Of s's plan, the i-th step is the first one that is not done. *)
IsNext(i, s) ==
    /\ Plan[s.cfg][i] \notin s.done
    /\ \A j \in 1..(i - 1) : Plan[s.cfg][j] \in s.done

Complete(s) == \A i \in 1..Len(Plan[s.cfg]) : Plan[s.cfg][i] \in s.done

Init == claim = None /\ effects = [m \in Media |-> {}] /\ ~ finished

(* A run starts from a record, the empty one included, only if what the    *)
(* record says is in place.                                                *)
Begin ==
    /\ claim = None
    /\ claim' \in Claim /\ Backed(claim', effects)
    /\ UNCHANGED <<effects, finished>>

(* The next step that is not done is done, and leaves its effect.          *)
Work ==
    /\ claim # None
    /\ \E i \in 1..Len(Plan[claim.cfg]) :
          /\ IsNext(i, claim)
          /\ claim' = [claim EXCEPT !.done = @ \cup {Plan[claim.cfg][i]}]
          /\ \A m \in Media :
                effects'[m] \subseteq effects[m] \cup {Plan[claim.cfg][i]}
    /\ Backed(claim', effects')
    /\ UNCHANGED finished

(* A disk that is partitioned or formatted anew loses what was on it, but  *)
(* never what the current run counts on.                                   *)
Lose ==
    /\ NoneAppears
    /\ claim # None => Backed(claim, effects')
    /\ UNCHANGED <<claim, finished>>

(* A run ends, by its own decision or not. *)
Stop == claim # None /\ claim' = None /\ ~ finished' /\ NoneAppears

Finish ==
    /\ claim # None /\ Complete(claim)
    /\ finished' = TRUE
    /\ UNCHANGED <<claim, effects>>

Next == Lose \/ Stop \/ Begin \/ Work \/ Finish

Spec == Init /\ [][Next]_vars

(***************************************************************************)
(* An install that says it is finished has done every step of its plan,    *)
(* and everything those steps left, in whichever run, is on the disk.      *)
(***************************************************************************)
Promise ==
    finished => claim # None /\ Complete(claim) /\ Backed(claim, effects)
=============================================================================
