------------------------ MODULE InstallPromise_proofs ------------------------
(***************************************************************************)
(* What follows from InstallPromise alone, whatever implements it.         *)
(***************************************************************************)
EXTENDS InstallPromise, TLAPS

(* A run claims only what is there; a finished one claims the whole plan. *)
Honest ==
    /\ claim # None => Backed(claim, effects)
    /\ finished => claim # None /\ Complete(claim)

(* Every step keeps the claim honest. *)
LEMMA HonestNext == Honest /\ [Next]_vars => Honest'
<1> SUFFICES ASSUME Honest, [Next]_vars PROVE Honest'
  OBVIOUS
<1>1. CASE Begin
  BY <1>1 DEF Begin, Honest
<1>2. CASE Work
  <2>1. ~ finished
    BY <1>2 DEF Work, IsNext, Honest, Complete
  <2> QED
    BY <1>2, <2>1 DEF Work, Honest
<1>3. CASE Lose
  BY <1>3 DEF Lose, Honest
<1>4. CASE Stop
  BY <1>4 DEF Stop, Honest
<1>5. CASE Finish
  BY <1>5 DEF Finish, Honest
<1>6. CASE UNCHANGED vars
  BY <1>6 DEF vars, Honest
<1> QED
  BY <1>1, <1>2, <1>3, <1>4, <1>5, <1>6 DEF Next

(***************************************************************************)
(* An install that says it is finished has done its whole plan, and all of *)
(* it is there.                                                            *)
(***************************************************************************)
THEOREM PromiseKept == Spec => []Promise
<1>1. Init => Honest
  BY DEF Init, Honest
<1>2. Honest => Promise
  BY DEF Honest, Promise
<1> QED
  BY <1>1, <1>2, HonestNext, PTL DEF Spec
=============================================================================
