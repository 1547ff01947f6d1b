------------------------ MODULE ProgressChannel_proofs ------------------------
(***************************************************************************)
(* The safety properties of ProgressChannel for any number of steps, any   *)
(* capacity of the channel and any number of lines and dialogs.            *)
(***************************************************************************)
EXTENDS ProgressChannel, TLAPS

-----------------------------------------------------------------------------
(* Sequences of the same length and elements are the same. *)
LEMMA SequenceEquality ==
    ASSUME NEW S, NEW s \in Seq(S), NEW t \in Seq(S), Len(s) = Len(t),
           \A i \in 1..Len(s) : s[i] = t[i]
    PROVE  s = t
OBVIOUS

-----------------------------------------------------------------------------
(* The messages, and who sends and moves them.                             *)

(* NoMsg is not a message; a completed step is one of the plan's, and only *)
(* the done message comes after them.                                      *)
LEMMA MsgFacts ==
    /\ NoMsg \notin Msg
    /\ \A m \in Msg : /\ m.kind \in {"line", "step", "error", "done"}
                      /\ m.step \in 1..(Steps + 1)
                      /\ m.kind = "done" <=> m.step = Steps + 1
BY Parameters DEF NoMsg, Msg

(* What Produce sends, and how it moves the goroutine. *)
Produced(m) ==
    /\ m \in Msg /\ Send(m) /\ m.step = step
    /\ step' = IF m.kind = "step" THEN step + 1 ELSE step
    /\ ended' \in BOOLEAN
    /\ ended' <=> m.kind \in {"error", "done"}
    /\ lines' \in 0..MaxLines

LEMMA Sends ==
    ASSUME TypeOK, Produce
    PROVE  \E m \in Msg : Produced(m)
<1> USE Parameters
<1>1. CASE LogLine
  <2> DEFINE m == [kind |-> "line", step |-> step]
  <2>1. m \in Msg
    BY <1>1 DEF TypeOK, Msg, LogLine
  <2>2. Send(m) /\ ended' = FALSE /\ step' = step /\ lines' \in 0..MaxLines
    BY <1>1 DEF LogLine, Send, TypeOK
  <2>3. Produced(m)
    BY <2>1, <2>2 DEF Produced
  <2> QED
    BY <2>1, <2>3
<1>2. CASE CompleteStep
  <2> DEFINE m == [kind |-> "step", step |-> step]
  <2>1. m \in Msg
    BY <1>2 DEF TypeOK, Msg, CompleteStep
  <2>2. Send(m) /\ ended' = FALSE /\ step' = step + 1 /\ lines' \in 0..MaxLines
    BY <1>2 DEF CompleteStep, Send, TypeOK
  <2>3. Produced(m)
    BY <2>1, <2>2 DEF Produced
  <2> QED
    BY <2>1, <2>3
<1>3. CASE FailStep
  <2> DEFINE m == [kind |-> "error", step |-> step]
  <2>1. m \in Msg
    BY <1>3 DEF TypeOK, Msg, FailStep
  <2>2. Send(m) /\ ended' = TRUE /\ step' = step /\ lines' \in 0..MaxLines
    BY <1>3 DEF FailStep, TypeOK
  <2>3. Produced(m)
    BY <2>1, <2>2 DEF Produced
  <2> QED
    BY <2>1, <2>3
<1>4. CASE Finish
  <2> DEFINE m == [kind |-> "done", step |-> step]
  <2>1. m \in Msg
    BY <1>4 DEF TypeOK, Msg, Finish
  <2>2. Send(m) /\ ended' = TRUE /\ step' = step /\ lines' \in 0..MaxLines
    BY <1>4 DEF Finish, TypeOK
  <2>3. Produced(m)
    BY <2>1, <2>2 DEF Produced
  <2> QED
    BY <2>1, <2>3
<1> QED
  BY <1>1, <1>2, <1>3, <1>4 DEF Produce

(* What the user does leaves the messages alone. *)
User == OpenDialog \/ Stay \/ QuitAnyway \/ Leave \/ Gone \/ UNCHANGED vars

LEMMA UserFacts ==
    ASSUME TypeOK, quitting => dialogs > 0, User
    PROVE  /\ UNCHANGED <<goroutine, ch, reader, screen>>
           /\ quitting' \in BOOLEAN /\ up' \in BOOLEAN /\ dialogs' \in 0..MaxDialogs
           /\ dialogs' >= dialogs /\ (quitting' => dialogs' > 0)
<1> USE Parameters
<1>1. dialogs \in 0..MaxDialogs /\ quitting \in BOOLEAN /\ up \in BOOLEAN
  BY DEF TypeOK
<1>2. CASE OpenDialog
  BY <1>1, <1>2 DEF OpenDialog
<1>3. CASE Stay \/ QuitAnyway \/ Leave
  <2>1. /\ UNCHANGED <<goroutine, ch, reader, screen, dialogs>>
        /\ quitting' \in {quitting, FALSE} /\ up' \in {up, FALSE}
    BY <1>3 DEF Stay, QuitAnyway, Leave
  <2>2. quitting' => quitting
    BY <1>1, <2>1
  <2>3. quitting' \in BOOLEAN /\ up' \in BOOLEAN
    BY <1>1, <2>1, Zenon
  <2>4. dialogs' \in 0..MaxDialogs /\ dialogs' >= dialogs
    BY <1>1, <2>1
  <2>5. quitting' => dialogs' > 0
    BY <2>1, <2>2
  <2> QED
    BY <2>1, <2>3, <2>4, <2>5, Zenon
<1>4. CASE Gone \/ UNCHANGED vars
  BY <1>1, <1>4 DEF Gone, vars, dialog
<1> QED
  BY <1>2, <1>3, <1>4 DEF User

(* Every step is a message sent, received, handled or dropped, or the user. *)
LEMMA NextIsOneOf ==
    ASSUME [Next]_vars
    PROVE  Produce \/ Receive \/ Handle \/ Discard \/ User
BY DEF Next, User

-----------------------------------------------------------------------------
(* Type correctness. *)
LEMMA TypeNext ==
    ASSUME TypeOK, quitting => dialogs > 0, [Next]_vars
    PROVE  TypeOK'
<1> USE Parameters, MsgFacts
<1>1. CASE Produce
  <2>1. PICK m \in Msg : Produced(m)
    BY <1>1, Sends
  <2>2. /\ sent' \in Seq(Msg) /\ ch' \in Seq(Msg) /\ Len(ch') <= Capacity
        /\ UNCHANGED <<reader, screen, dialog>>
    BY <2>1 DEF Produced, Send, TypeOK
  <2>3. step' \in 1..(Steps + 1) /\ ended' \in BOOLEAN /\ lines' \in 0..MaxLines
    BY <2>1 DEF Produced, TypeOK
  <2> QED
    BY <2>2, <2>3 DEF TypeOK, reader, screen, dialog
<1>2. CASE Receive
  <2>1. Head(ch) \in Msg /\ Tail(ch) \in Seq(Msg) /\ Len(Tail(ch)) <= Capacity
    BY <1>2 DEF Receive, TypeOK
  <2> QED
    BY <1>2, <2>1 DEF Receive, TypeOK, goroutine, screen, dialog
<1>3. CASE Handle
  <2>1. inbox \in Msg /\ shown' \in Seq(Msg)
    BY <1>3 DEF Handle, TypeOK
  <2>2. inbox.kind = "step" => inbox.step \in 0..Steps
    BY <2>1
  <2>3. state' \in {"running", "done", "error"} /\ waiting' \in BOOLEAN
    BY <1>3 DEF Handle, TypeOK
  <2> QED
    BY <1>3, <2>1, <2>2, <2>3 DEF Handle, TypeOK, goroutine, dialog
<1>4. CASE Discard
  BY <1>4 DEF Discard, TypeOK, goroutine, screen, dialog
<1>5. CASE User
  BY <1>5, UserFacts DEF TypeOK, goroutine, reader, screen
<1> QED
  BY <1>1, <1>2, <1>3, <1>4, <1>5, NextIsOneOf

-----------------------------------------------------------------------------
(* The order of the messages.                                              *)

(* What a message sent does to the history. *)
LEMMA SentGrows ==
    ASSUME TypeOK, NEW m \in Msg, Send(m)
    PROVE  /\ Len(sent') = Len(sent) + 1 /\ Len(ch') = Len(ch) + 1
           /\ \A i \in 1..Len(sent) : sent'[i] = sent[i]
           /\ sent'[Len(sent) + 1] = m
           /\ \A i \in 1..Len(ch) : ch'[i] = ch[i]
           /\ ch'[Len(ch) + 1] = m
           /\ ~ ended
           /\ UNCHANGED <<waiting, inbox, shown, current, state, quitting, dialogs, up>>
           /\ Len(sent) \in Nat /\ Len(ch) \in Nat /\ Len(shown) \in Nat
BY DEF Send, TypeOK, reader, screen, dialog

LEMMA ProduceKeeps ==
    ASSUME IInv, Produce
    PROVE  /\ (waiting => inbox = NoMsg)' /\ (InSync \/ ChainBroken)'
           /\ ShownWasSent' /\ StepsCounted' /\ VerdictIsLast'
<1>0. TypeOK
  BY DEF IInv
<1>1. PICK m \in Msg : Produced(m)
  BY <1>0, Sends
<1>2. Send(m)
  BY <1>1 DEF Produced
<1> DEFINE n == Len(sent)
<1>3. /\ Len(sent') = n + 1 /\ Len(ch') = Len(ch) + 1
      /\ \A i \in 1..n : sent'[i] = sent[i]
      /\ sent'[n + 1] = m
      /\ \A i \in 1..Len(ch) : ch'[i] = ch[i]
      /\ ch'[Len(ch) + 1] = m
      /\ UNCHANGED <<waiting, inbox, shown, current, state, dialogs>>
      /\ n \in Nat /\ Len(ch) \in Nat /\ Len(shown) \in Nat
  BY <1>0, <1>2, SentGrows
<1>4. (waiting => inbox = NoMsg)'
  BY <1>3 DEF IInv
<1>5. (InSync \/ ChainBroken)'
  <2>1. CASE InSync
    <3>1. Delivered' = Delivered /\ Delivered \in Nat
      BY <1>3 DEF Delivered
    <3>2. Len(sent') = Delivered + Len(ch')
      BY <1>3, <2>1, <3>1 DEF InSync
    <3>3. inbox' # NoMsg => inbox' = sent'[Delivered]
      BY <1>3, <2>1, <3>1 DEF InSync, Delivered
    <3>4. ASSUME NEW i \in 1..Len(ch') PROVE ch'[i] = sent'[Delivered + i]
      BY <1>3, <2>1, <3>1 DEF InSync
    <3> QED
      BY <3>1, <3>2, <3>3, <3>4 DEF InSync
  <2>2. CASE ChainBroken
    BY <1>3, <2>2 DEF ChainBroken
  <2> QED
    BY <2>1, <2>2 DEF IInv
<1>6. ShownWasSent'
  BY <1>3 DEF IInv, ShownWasSent
<1>7. StepsCounted'
  <2>1. \A i \in 0..n : Reached(sent', i) = Reached(sent, i)
    BY <1>3 DEF Reached
  <2>2. m.step = Reached(sent, n)
    BY <1>1 DEF Produced, IInv, StepsCounted
  <2>3. ASSUME NEW i \in 1..(n + 1)
        PROVE  sent'[i].step = Reached(sent', i - 1)
    <3>1. CASE i \in 1..n
      <4>1. sent[i].step = Reached(sent, i - 1)
        BY <3>1 DEF IInv, StepsCounted
      <4>2. i - 1 \in 0..n
        BY <1>3, <3>1
      <4> QED
        BY <1>3, <2>1, <3>1, <4>1, <4>2
    <3>2. CASE i = n + 1
      <4>1. i - 1 = n /\ n \in 0..n
        BY <1>3, <3>2
      <4> QED
        BY <1>3, <2>1, <2>2, <3>2, <4>1
    <3> QED
      BY <1>3, <3>1, <3>2
  <2>4. step' = Reached(sent', n + 1)
    BY <1>1, <1>3 DEF Produced, Reached
  <2>5. current' = Reached(shown', Len(shown')) - 1
    BY <1>3 DEF IInv, StepsCounted
  <2> QED
    BY <1>3, <2>3, <2>4, <2>5 DEF StepsCounted
<1>8. VerdictIsLast'
  <2>1. ~ ended /\ \A i \in 1..n : sent[i].kind \notin {"error", "done"}
    BY <1>2 DEF Send, IInv, VerdictIsLast
  <2>2. m.kind \in {"error", "done"} => ended'
    BY <1>1 DEF Produced
  <2> QED
    BY <1>3, <2>1, <2>2 DEF IInv, VerdictIsLast
<1> QED
  BY <1>4, <1>5, <1>6, <1>7, <1>8

(* waitForMsg takes the oldest message, which becomes the one on its way. *)
LEMMA ReceiveKeeps ==
    ASSUME IInv, Receive
    PROVE  /\ (waiting => inbox = NoMsg)' /\ (InSync \/ ChainBroken)'
           /\ ShownWasSent' /\ StepsCounted' /\ VerdictIsLast'
<1>1. /\ UNCHANGED <<step, ended, sent, shown, current, state>>
      /\ waiting /\ waiting' = FALSE /\ inbox = NoMsg
      /\ inbox' = Head(ch) /\ ch' = Tail(ch) /\ ch # <<>>
  BY DEF Receive, IInv, goroutine, screen
<1>2. ch \in Seq(Msg) /\ Len(ch) \in Nat \ {0} /\ Len(shown) \in Nat
  BY <1>1 DEF IInv, TypeOK
<1>3. InSync
  BY <1>1 DEF IInv, ChainBroken
<1>4. /\ inbox' = ch[1] /\ inbox' # NoMsg
      /\ Len(ch') = Len(ch) - 1
      /\ \A i \in 1..Len(ch') : ch'[i] = ch[i + 1]
  BY <1>1, <1>2, MsgFacts
<1>5. Delivered = Len(shown) /\ Delivered' = Delivered + 1
  BY <1>1, <1>2, <1>4 DEF Delivered
<1>6. inbox' = sent'[Delivered'] /\ Len(sent') = Delivered' + Len(ch')
  BY <1>1, <1>2, <1>3, <1>4, <1>5 DEF InSync
<1>7. ASSUME NEW i \in 1..Len(ch') PROVE ch'[i] = sent'[Delivered' + i]
  <2>1. i + 1 \in 1..Len(ch) /\ Delivered + (i + 1) = Delivered' + i
    BY <1>2, <1>4, <1>5
  <2> QED
    BY <1>1, <1>3, <1>4, <2>1 DEF InSync
<1>8. InSync'
  BY <1>6, <1>7 DEF InSync
<1> QED
  BY <1>1, <1>8 DEF IInv, ShownWasSent, StepsCounted, VerdictIsLast

(* The handled message is the next one of the history. *)
LEMMA HandleKeeps ==
    ASSUME IInv, Handle
    PROVE  /\ (waiting => inbox = NoMsg)' /\ (InSync \/ ChainBroken)'
           /\ ShownWasSent' /\ StepsCounted' /\ VerdictIsLast'
<1> DEFINE n == Len(shown)
<1>1. /\ UNCHANGED <<step, ended, sent, ch>>
      /\ inbox # NoMsg /\ inbox' = NoMsg /\ shown' = Append(shown, inbox)
      /\ current' = IF inbox.kind = "step" THEN inbox.step ELSE current
      /\ state' = IF inbox.kind \in {"done", "error"} THEN inbox.kind ELSE state
  BY DEF Handle, goroutine
<1>2. /\ inbox \in Msg /\ shown \in Seq(Msg) /\ n \in Nat /\ Len(ch) \in Nat
      /\ Len(sent) \in Nat
      /\ state \in {"running", "done", "error"}
  BY <1>1 DEF IInv, TypeOK
<1>3. InSync
  BY <1>1 DEF IInv, ChainBroken
<1>4. Delivered = n + 1 /\ inbox = sent[n + 1] /\ n + 1 \in 1..Len(sent)
  BY <1>1, <1>2, <1>3 DEF InSync, Delivered
<1>5. /\ Len(shown') = n + 1 /\ shown'[n + 1] = inbox
      /\ \A i \in 1..n : shown'[i] = shown[i]
  BY <1>1, <1>2
<1>6. InSync'
  <2>1. Delivered' = Delivered
    BY <1>1, <1>4, <1>5 DEF Delivered
  <2> QED
    BY <1>1, <1>3, <2>1 DEF InSync
<1>7. ShownWasSent'
  <2>1. ASSUME NEW i \in 1..(n + 1) PROVE shown'[i] = sent[i]
    <3>1. CASE i \in 1..n
      BY <1>5, <3>1 DEF IInv, ShownWasSent
    <3>2. CASE i = n + 1
      BY <1>4, <1>5, <3>2
    <3> QED
      BY <1>2, <3>1, <3>2
  <2> QED
    BY <1>1, <1>4, <1>5, <2>1 DEF ShownWasSent
<1>8. StepsCounted'
  <2>1. Reached(shown, n) = Reached(sent, n)
    <3>1. n # 0 => n \in 1..n /\ shown[n] = sent[n]
      BY <1>2 DEF IInv, ShownWasSent
    <3> QED
      BY <3>1 DEF Reached
  <2>2. inbox.step = Reached(sent, n)
    BY <1>2, <1>4 DEF IInv, StepsCounted
  <2>3. current = inbox.step - 1
    BY <2>1, <2>2 DEF IInv, StepsCounted
  <2>4. Reached(shown', n + 1) =
          IF inbox.kind = "step" THEN inbox.step + 1 ELSE inbox.step
    BY <1>2, <1>5 DEF Reached
  <2>5. inbox.step \in Int
    BY <1>2, MsgFacts, Parameters
  <2>6. current' = Reached(shown', n + 1) - 1
    BY <1>1, <2>3, <2>4, <2>5
  <2>7. \A i \in 1..Len(sent') : sent'[i].step = Reached(sent', i - 1)
    BY <1>1 DEF IInv, StepsCounted
  <2>8. step' = Reached(sent', Len(sent'))
    BY <1>1 DEF IInv, StepsCounted
  <2> QED
    BY <1>5, <2>6, <2>7, <2>8 DEF StepsCounted
<1>9. VerdictIsLast'
  <2>1. state = "running"
    <3>1. SUFFICES ASSUME state # "running" PROVE FALSE
      OBVIOUS
    <3>2. n # 0 /\ shown[n].kind = state
      BY <1>2, <3>1 DEF IInv, VerdictIsLast
    <3>3. shown[n] = sent[n] /\ n \in 1..Len(sent)
      BY <1>2, <1>4, <3>2 DEF IInv, ShownWasSent
    <3> QED
      BY <1>2, <1>4, <3>1, <3>2, <3>3 DEF IInv, VerdictIsLast
  <2>2. shown' # <<>>
    BY <1>2, <1>5
  <2>3. state' # "running" => shown'[Len(shown')].kind = state'
    BY <1>1, <1>5, <2>1
  <2> QED
    BY <1>1, <2>2, <2>3 DEF IInv, VerdictIsLast
<1> QED
  BY <1>1, <1>6, <1>7, <1>8, <1>9

(* A message dropped under the dialog ends the chain for good. *)
LEMMA DiscardKeeps ==
    ASSUME IInv, Discard
    PROVE  /\ (waiting => inbox = NoMsg)' /\ (InSync \/ ChainBroken)'
           /\ ShownWasSent' /\ StepsCounted' /\ VerdictIsLast'
<1>1. /\ UNCHANGED <<step, ended, sent, shown, current, state, dialogs, waiting>>
      /\ inbox # NoMsg /\ inbox' = NoMsg /\ quitting
  BY DEF Discard, goroutine, screen, dialog
<1>2. ~ waiting /\ dialogs > 0
  BY <1>1 DEF IInv
<1>3. ChainBroken'
  BY <1>1, <1>2 DEF ChainBroken
<1> QED
  BY <1>1, <1>3 DEF IInv, ShownWasSent, StepsCounted, VerdictIsLast

LEMMA UserKeeps ==
    ASSUME IInv, User
    PROVE  /\ (waiting => inbox = NoMsg)' /\ (InSync \/ ChainBroken)'
           /\ ShownWasSent' /\ StepsCounted' /\ VerdictIsLast'
<1>1. /\ UNCHANGED <<step, ended, sent, ch, waiting, inbox, shown, current, state>>
      /\ dialogs' >= dialogs /\ dialogs \in Nat /\ dialogs' \in Nat
  BY UserFacts, Parameters DEF IInv, TypeOK, goroutine, reader, screen
<1>2. (InSync => InSync') /\ (ChainBroken => ChainBroken')
  BY <1>1 DEF InSync, Delivered, ChainBroken
<1> QED
  BY <1>1, <1>2 DEF IInv, ShownWasSent, StepsCounted, VerdictIsLast

(* The dialog is only open once it has been opened. *)
LEMMA DialogCounted ==
    ASSUME IInv, [Next]_vars
    PROVE  (quitting => dialogs > 0)'
<1>1. CASE User
  BY <1>1, UserFacts DEF IInv
<1>2. CASE Produce \/ Receive \/ Handle \/ Discard
  <2>1. UNCHANGED dialog
    BY <1>2 DEF Produce, LogLine, CompleteStep, FailStep, Finish, Send,
       Receive, Handle, Discard
  <2> QED
    BY <2>1 DEF dialog, IInv
<1> QED
  BY <1>1, <1>2, NextIsOneOf

-----------------------------------------------------------------------------
(* Before the first message everything agrees. *)
LEMMA InvariantInit == Init => IInv
<1> SUFFICES ASSUME Init PROVE IInv
  OBVIOUS
<1>1. TypeOK
  <2>1. <<>> \in Seq(Msg) /\ Len(<<>>) = 0
    OBVIOUS
  <2>2. 1 \in 1..(Steps + 1) /\ 0 \in 0..Steps /\ 0 \in 0..MaxLines /\ 0 \in 0..MaxDialogs
        /\ 0 <= Capacity
    BY Parameters
  <2> QED
    BY <2>1, <2>2 DEF Init, TypeOK
<1>2. InSync /\ ShownWasSent /\ StepsCounted /\ VerdictIsLast
  BY DEF Init, InSync, Delivered, ShownWasSent, StepsCounted, Reached, VerdictIsLast
<1> QED
  BY <1>1, <1>2 DEF IInv, Init

(***************************************************************************)
(* The inductive invariant: what is shown, the message on its way and the  *)
(* channel together are the history, or the chain of waitForMsg commands   *)
(* has ended; every message names the step the ones before it lead to; a   *)
(* verdict is the last message.                                            *)
(***************************************************************************)
THEOREM ChannelInvariant == Spec => []IInv
<1>1. Init => IInv
  BY InvariantInit
<1>2. IInv /\ [Next]_vars => IInv'
  <2> SUFFICES ASSUME IInv, [Next]_vars PROVE IInv'
    OBVIOUS
  <2>1. TypeOK'
    BY TypeNext DEF IInv
  <2>2. /\ (waiting => inbox = NoMsg)' /\ (InSync \/ ChainBroken)'
        /\ ShownWasSent' /\ StepsCounted' /\ VerdictIsLast'
    BY NextIsOneOf, ProduceKeeps, ReceiveKeeps, HandleKeeps, DiscardKeeps, UserKeeps
  <2> QED
    BY <2>1, <2>2, DialogCounted DEF IInv
<1> QED
  BY <1>1, <1>2, PTL DEF Spec

(***************************************************************************)
(* Every variable has its type; the channel never holds more than its      *)
(* capacity and the indicator never leaves the plan.                       *)
(***************************************************************************)
THEOREM ChannelTypeCorrect == Spec => []TypeOK
<1>1. IInv => TypeOK
  BY DEF IInv
<1> QED
  BY <1>1, ChannelInvariant, PTL

(***************************************************************************)
(* Until the quit dialog is opened, no message is lost, doubled or         *)
(* overtaken between the goroutine and the screen.                         *)
(***************************************************************************)
THEOREM MessagesAreKept == Spec => []NothingLost
<1>1. IInv => NothingLost
  <2> SUFFICES ASSUME IInv, dialogs = 0
               PROVE  shown \o (IF inbox = NoMsg THEN <<>> ELSE <<inbox>>) \o ch = sent
    BY DEF NothingLost
  <2> DEFINE flight == IF inbox = NoMsg THEN <<>> ELSE <<inbox>>
  <2>1. InSync /\ ShownWasSent /\ TypeOK
    BY DEF IInv, ChainBroken
  <2>2. flight \in Seq(Msg) /\ Len(shown) + Len(flight) = Delivered
    BY <2>1 DEF TypeOK, Delivered
  <2>3. /\ shown \o flight \in Seq(Msg)
        /\ Len(shown \o flight) = Delivered
    BY <2>1, <2>2 DEF TypeOK
  <2>4. ASSUME NEW i \in 1..Delivered PROVE (shown \o flight)[i] = sent[i]
    BY <2>1, <2>2, <2>3 DEF TypeOK, InSync, ShownWasSent, Delivered
  <2> HIDE DEF flight
  <2>5. /\ shown \o flight \o ch \in Seq(Msg)
        /\ Len(shown \o flight \o ch) = Len(sent)
    BY <2>1, <2>3 DEF TypeOK, InSync
  <2>6. ASSUME NEW i \in 1..Len(sent) PROVE (shown \o flight \o ch)[i] = sent[i]
    <3> DEFINE front == shown \o flight
    <3>0. /\ front \in Seq(Msg) /\ Len(front) = Delivered /\ ch \in Seq(Msg)
          /\ \A j \in 1..Delivered : front[j] = sent[j]
      BY <2>1, <2>3, <2>4 DEF TypeOK
    <3> HIDE DEF front
    <3>1. CASE i <= Delivered
      <4>1. (front \o ch)[i] = front[i]
        BY <3>0, <3>1
      <4> QED
        BY <3>0, <3>1, <4>1 DEF front
    <3>2. CASE i > Delivered
      <4>1. i - Delivered \in 1..Len(ch) /\ Delivered + (i - Delivered) = i
        BY <2>1, <3>0, <3>2 DEF InSync, TypeOK
      <4>2. (front \o ch)[i] = ch[i - Delivered]
        BY <3>0, <3>2, <4>1
      <4>3. ch[i - Delivered] = sent[Delivered + (i - Delivered)]
        BY <2>1, <4>1 DEF InSync
      <4> QED
        BY <4>1, <4>2, <4>3 DEF front
    <3>3. i <= Delivered \/ i > Delivered
      BY <3>0
    <3> QED
      BY <3>1, <3>2, <3>3, Zenon
  <2>7. shown \o flight \o ch = sent
    BY <2>1, <2>5, <2>6, SequenceEquality DEF TypeOK
  <2> QED
    BY <2>7 DEF flight
<1> QED
  BY <1>1, ChannelInvariant, PTL

(***************************************************************************)
(* The screen always shows how the run really began, whatever the dialog   *)
(* swallows.                                                               *)
(***************************************************************************)
THEOREM ScreenHasNoGap == Spec => []NoGapOnScreen
<1>1. IInv => NoGapOnScreen
  <2> SUFFICES ASSUME IInv PROVE IsPrefix(shown, sent)
    BY DEF NoGapOnScreen
  <2>1. /\ shown \in Seq(Msg) /\ sent \in Seq(Msg) /\ Len(shown) <= Len(sent)
        /\ \A i \in 1..Len(shown) : shown[i] = sent[i]
    BY DEF IInv, TypeOK, ShownWasSent
  <2>2. SubSeq(shown, 1, Len(shown)) = SubSeq(sent, 1, Len(shown))
    BY <2>1
  <2> QED
    BY <2>1, <2>2 DEF IsPrefix
<1> QED
  BY <1>1, ChannelInvariant, PTL

(***************************************************************************)
(* What the screen says of the run is true: "done" only after every step,  *)
(* an error only at the step that failed, with every line before it shown. *)
(***************************************************************************)
THEOREM ScreenTellsTheTruth == Spec => []VerdictIsTrue
<1>1. IInv => VerdictIsTrue
  <2> SUFFICES ASSUME IInv, state # "running"
               PROVE  VerdictIsTrue
    BY DEF VerdictIsTrue
  <2> DEFINE n == Len(shown)
  <2>1. /\ shown \in Seq(Msg) /\ sent \in Seq(Msg) /\ step \in 1..(Steps + 1)
        /\ state \in {"running", "done", "error"} /\ current \in 0..Steps
    BY DEF IInv, TypeOK
  <2>2. n \in Nat \ {0} /\ shown[n].kind = state
    BY <2>1 DEF IInv, VerdictIsLast
  <2>3. n <= Len(sent) /\ shown[n] = sent[n] /\ n \in 1..Len(sent)
    BY <2>1, <2>2 DEF IInv, ShownWasSent
  <2>4. ended /\ n = Len(sent)
    BY <2>1, <2>2, <2>3 DEF IInv, VerdictIsLast
  <2>5. shown = sent
    BY <2>1, <2>4, SequenceEquality DEF IInv, ShownWasSent
  <2>6. /\ step = shown[n].step /\ current = step - 1
    BY <2>1, <2>2, <2>4, <2>5 DEF IInv, StepsCounted, Reached
  <2>7. state = "done" => step = Steps + 1
    BY <2>1, <2>2, <2>6, MsgFacts
  <2> QED
    BY <2>1, <2>4, <2>5, <2>6, <2>7, Parameters DEF VerdictIsTrue
<1> QED
  BY <1>1, ChannelInvariant, PTL
=============================================================================
