--------------------------- MODULE ProgressChannel ---------------------------
(***************************************************************************)
(* How the installer goroutine's progress reaches the screen               *)
(* (tui/steps/progress.go, tui/app.go).  The goroutine sends log lines,    *)
(* step completions and a final error or done message into a buffered      *)
(* channel; sending blocks while the buffer is full.  At most one          *)
(* waitForMsg command is outstanding: it takes one message off the channel *)
(* and hands it to App.Update, and handling the message issues the next    *)
(* waitForMsg.  Meanwhile the user may open the quit dialog.               *)
(*                                                                         *)
(* Definitions whose comment starts with "Wrong" are not part of the       *)
(* specification: each is a mistake the code could contain in place of the *)
(* definition after it, and some property fails with it.                   *)
(***************************************************************************)
EXTENDS Integers, Sequences, SequencesExt

CONSTANTS
    Steps,       \* the number of steps of this install
    Capacity,    \* the channel's buffer, 256 in the code
    MaxLines,    \* bound: log lines per step
    MaxDialogs   \* bound: how often the user opens the quit dialog

ASSUME Parameters ==
    /\ Steps \in Nat \ {0} /\ Capacity \in Nat \ {0}
    /\ MaxLines \in Nat /\ MaxDialogs \in Nat

NoMsg == [kind |-> "none", step |-> 0]

Msg == [kind : {"line", "step", "error"}, step : 1..Steps]
         \cup [kind : {"done"}, step : {Steps + 1}]

VARIABLES
    step,      \* the step the goroutine is at
    lines,     \* log lines it has written in this step
    ended,     \* the goroutine has sent its last message
    sent,      \* history: every message it has sent
    ch,        \* ProgressModel.ch
    waiting,   \* a waitForMsg command is outstanding
    inbox,     \* the message on its way to App.Update
    shown,     \* history: every message the progress model has handled
    current,   \* ProgressModel.current
    state,     \* ProgressModel.state
    quitting,  \* App.quitting: the quit dialog is open
    dialogs,   \* how often it was opened
    up         \* the program has not quit

goroutine == <<step, lines, ended, sent>>
reader == <<waiting, inbox>>
screen == <<shown, current, state>>
dialog == <<quitting, dialogs, up>>
vars == <<goroutine, ch, reader, screen, dialog>>

TypeOK ==
    /\ step \in 1..(Steps + 1) /\ lines \in 0..MaxLines /\ ended \in BOOLEAN
    /\ sent \in Seq(Msg) /\ ch \in Seq(Msg) /\ Len(ch) <= Capacity
    /\ waiting \in BOOLEAN /\ inbox \in Msg \cup {NoMsg}
    /\ shown \in Seq(Msg) /\ current \in 0..Steps
    /\ state \in {"running", "done", "error"}
    /\ quitting \in BOOLEAN /\ dialogs \in 0..MaxDialogs /\ up \in BOOLEAN

(* Init of ProgressModel: the goroutine is started, the first waitForMsg   *)
(* is issued.                                                              *)
Init ==
    /\ step = 1 /\ lines = 0 /\ ended = FALSE
    /\ sent = <<>> /\ ch = <<>>
    /\ waiting = TRUE /\ inbox = NoMsg
    /\ shown = <<>> /\ current = 0 /\ state = "running"
    /\ quitting = FALSE /\ dialogs = 0 /\ up = TRUE

-----------------------------------------------------------------------------
(* The goroutine.  It dies with the program.                               *)

(* Wrong: a full channel swallows the message. *)
SendOrDrop(m) ==
    /\ up /\ ~ ended
    /\ ch' = IF Len(ch) < Capacity THEN Append(ch, m) ELSE ch
    /\ sent' = Append(sent, m)
    /\ UNCHANGED <<reader, screen, dialog>>

Send(m) ==
    /\ up /\ ~ ended /\ Len(ch) < Capacity
    /\ ch' = Append(ch, m) /\ sent' = Append(sent, m)
    /\ UNCHANGED <<reader, screen, dialog>>

LogLine ==
    /\ step <= Steps /\ lines < MaxLines
    /\ Send([kind |-> "line", step |-> step])
    /\ lines' = lines + 1 /\ UNCHANGED <<step, ended>>

CompleteStep ==
    /\ step <= Steps
    /\ Send([kind |-> "step", step |-> step])
    /\ step' = step + 1 /\ lines' = 0 /\ UNCHANGED ended

(* Wrong: no return after the error. *)
FailStepGoesOn ==
    /\ step <= Steps
    /\ Send([kind |-> "error", step |-> step])
    /\ step' = step + 1 /\ lines' = 0 /\ UNCHANGED ended

FailStep ==
    /\ step <= Steps
    /\ Send([kind |-> "error", step |-> step])
    /\ ended' = TRUE /\ UNCHANGED <<step, lines>>

Finish ==
    /\ step > Steps
    /\ Send([kind |-> "done", step |-> step])
    /\ ended' = TRUE /\ UNCHANGED <<step, lines>>

-----------------------------------------------------------------------------
(* The update loop.                                                        *)

(* waitForMsg returns with the oldest message. *)
Receive ==
    /\ up /\ waiting /\ ch # <<>>
    /\ inbox' = Head(ch) /\ ch' = Tail(ch) /\ waiting' = FALSE
    /\ UNCHANGED <<goroutine, screen, dialog>>

(* Wrong: only a log line is followed by another waitForMsg. *)
HandleLinesOnly ==
    /\ up /\ ~ quitting /\ inbox # NoMsg
    /\ inbox' = NoMsg
    /\ waiting' = (inbox.kind = "line")
    /\ shown' = Append(shown, inbox)
    /\ current' = IF inbox.kind = "step" THEN inbox.step ELSE current
    /\ state' = IF inbox.kind \in {"done", "error"} THEN inbox.kind ELSE state
    /\ UNCHANGED <<goroutine, ch, dialog>>

(* Wrong: every message moves the step indicator. *)
HandleCountsAll ==
    /\ up /\ ~ quitting /\ inbox # NoMsg
    /\ inbox' = NoMsg
    /\ waiting' = (inbox.kind \in {"line", "step"})
    /\ shown' = Append(shown, inbox)
    /\ current' = inbox.step
    /\ state' = IF inbox.kind \in {"done", "error"} THEN inbox.kind ELSE state
    /\ UNCHANGED <<goroutine, ch, dialog>>

(* ProgressModel.Update: an error or done message ends the chain of        *)
(* waitForMsg commands, any other message prolongs it.                     *)
Handle ==
    /\ up /\ ~ quitting /\ inbox # NoMsg
    /\ inbox' = NoMsg
    /\ waiting' = (inbox.kind \in {"line", "step"})
    /\ shown' = Append(shown, inbox)
    /\ current' = IF inbox.kind = "step" THEN inbox.step ELSE current
    /\ state' = IF inbox.kind \in {"done", "error"} THEN inbox.kind ELSE state
    /\ UNCHANGED <<goroutine, ch, dialog>>

(* Wrong: the dropped message is still followed by another waitForMsg. *)
DiscardAndWait ==
    /\ up /\ quitting /\ inbox # NoMsg
    /\ inbox' = NoMsg /\ waiting' = TRUE
    /\ UNCHANGED <<goroutine, ch, screen, dialog>>

(* App.Update, "Block input if quitting": the message is neither shown nor *)
(* followed by a new waitForMsg.                                           *)
Discard ==
    /\ up /\ quitting /\ inbox # NoMsg
    /\ inbox' = NoMsg /\ UNCHANGED waiting
    /\ UNCHANGED <<goroutine, ch, screen, dialog>>

-----------------------------------------------------------------------------
(* The user: ctrl+c opens the dialog, n closes it, y quits; q quits once   *)
(* the install has ended.                                                  *)

OpenDialog ==
    /\ up /\ ~ quitting /\ dialogs < MaxDialogs
    /\ quitting' = TRUE /\ dialogs' = dialogs + 1 /\ UNCHANGED up
    /\ UNCHANGED <<goroutine, ch, reader, screen>>

Stay ==
    /\ up /\ quitting /\ quitting' = FALSE
    /\ UNCHANGED <<goroutine, ch, reader, screen, dialogs, up>>

QuitAnyway ==
    /\ up /\ quitting /\ up' = FALSE
    /\ UNCHANGED <<goroutine, ch, reader, screen, quitting, dialogs>>

Leave ==
    /\ up /\ ~ quitting /\ state # "running" /\ up' = FALSE
    /\ UNCHANGED <<goroutine, ch, reader, screen, quitting, dialogs>>

Gone == ~ up /\ UNCHANGED vars

Produce == LogLine \/ CompleteStep \/ FailStep \/ Finish

Next ==
    \/ Produce \/ Receive \/ Handle \/ Discard
    \/ OpenDialog \/ Stay \/ QuitAnyway \/ Leave \/ Gone

Spec == Init /\ [][Next]_vars

(* The goroutine and the commands it runs make progress unless they block, *)
(* the bubbletea runtime delivers, and a user who opened the dialog        *)
(* answers it.                                                             *)
FairSpec ==
    /\ Spec
    /\ WF_vars(Produce) /\ WF_vars(Receive) /\ WF_vars(Handle \/ Discard)
    /\ WF_vars(Stay \/ QuitAnyway)

-----------------------------------------------------------------------------
(* Properties.                                                             *)

(* What was sent is on the screen, on its way there or in the channel, in  *)
(* that order: "waitForMsg drains it one message at a time back into the   *)
(* bubbletea update loop".  Until the user opens the quit dialog nothing   *)
(* is lost, doubled or overtaken.                                          *)
NothingLost ==
    dialogs = 0 =>
        shown \o (IF inbox = NoMsg THEN <<>> ELSE <<inbox>>) \o ch = sent

(* The screen never shows a message after one it missed, whatever the      *)
(* dialog does: what it shows is how the run really began.                 *)
NoGapOnScreen == IsPrefix(shown, sent)

(* "Done" is shown only when every step has completed and been shown as    *)
(* completed; an error leaves the indicator at the step that failed.       *)
VerdictIsTrue ==
    /\ state = "done" => ended /\ step > Steps /\ current = Steps
    /\ state = "error" => ended /\ current = step - 1 /\ shown = sent

(* Every install ends on the screen, done or failed, unless the user quits *)
(* or opens the quit dialog.                                               *)
EventuallyReported == <>(state # "running" \/ ~ up \/ dialogs > 0)

(* "n - no, stay": the dialog does not stop the install itself.  Unless    *)
(* the user quits, the goroutine reaches its last message.                 *)
EventuallyEnds == <>(ended \/ ~ up)

-----------------------------------------------------------------------------
(***************************************************************************)
(* The inductive invariant behind NothingLost, NoGapOnScreen and           *)
(* VerdictIsTrue.                                                          *)
(***************************************************************************)

(* The step the goroutine is at after the i-th message of s. *)
Reached(s, i) ==
    IF i = 0 THEN 1 ELSE IF s[i].kind = "step" THEN s[i].step + 1 ELSE s[i].step

Delivered == Len(shown) + IF inbox = NoMsg THEN 0 ELSE 1

(* The message on its way and the channel continue what is shown. *)
InSync ==
    /\ Len(sent) = Delivered + Len(ch)
    /\ inbox # NoMsg => inbox = sent[Delivered]
    /\ \A i \in 1..Len(ch) : ch[i] = sent[Delivered + i]

(* A message was dropped under the dialog: nothing will ever be shown.     *)
ChainBroken == ~ waiting /\ inbox = NoMsg /\ dialogs > 0

ShownWasSent ==
    /\ Len(shown) <= Len(sent)
    /\ \A i \in 1..Len(shown) : shown[i] = sent[i]

StepsCounted ==
    /\ \A i \in 1..Len(sent) : sent[i].step = Reached(sent, i - 1)
    /\ step = Reached(sent, Len(sent))
    /\ current = Reached(shown, Len(shown)) - 1

VerdictIsLast ==
    /\ \A i \in 1..Len(sent) : sent[i].kind \in {"error", "done"} =>
          ended /\ i = Len(sent)
    /\ state # "running" => shown # <<>> /\ shown[Len(shown)].kind = state

IInv ==
    /\ TypeOK
    /\ waiting => inbox = NoMsg
    /\ quitting => dialogs > 0
    /\ InSync \/ ChainBroken
    /\ ShownWasSent /\ StepsCounted /\ VerdictIsLast
=============================================================================
