------------------------------- MODULE PinPad -------------------------------
(***************************************************************************)
(* XfsPinpadDevicePort with PinpadInputControl: one input at a time, ended  *)
(* by the customer at the device, by complete() (the confirm button of the  *)
(* screen, which cancels the device command on purpose) or by cancel() (an  *)
(* abandoned attempt).  Key events reach the control before the answer of   *)
(* the command they belong to.                                              *)
(***************************************************************************)
EXTENDS Naturals

CONSTANTS
  Inputs,      \* input calls
  NoInput,
  MinLength, MaxLength,
  Secure,      \* the inputs that fetch a PIN block (getPin)
  MaxKFaults   \* bound: rejected calls and cancelled attempts

ASSUME PinAssumption ==
  /\ NoInput \notin Inputs /\ Secure \subseteq Inputs
  /\ MaxLength \in Nat /\ MinLength \in 1..MaxLength

VARIABLES
  input,       \* [Inputs -> [pc, ret]], the calls
  activeInput, \* the input whose control is active
  control,     \* [phase, digits, confirmed]
  pad,         \* the device: [busy, keys, answer]
  confirming,  \* the input complete() is waiting for the cancel of
  cancelling,  \* cancel() of the port: "none", "cancel", "reset"
  subscribed,  \* the event subscription
  proof,       \* history: [Inputs -> why its command may succeed]
  kfaults

pinVars == <<input, activeInput, control, pad, confirming, cancelling, subscribed, proof, kfaults>>

NoControl == [phase |-> "entry", digits |-> 0, confirmed |-> FALSE]
FreePad == [busy |-> FALSE, keys |-> 0, answer |-> "none"]
InputPcs == {"new", "queued", "device", "block", "recover", "ended"}

PinInit ==
  /\ input = [i \in Inputs |-> [pc |-> "new", ret |-> "none"]]
  /\ activeInput = NoInput /\ control = NoControl /\ pad = FreePad
  /\ confirming = NoInput /\ cancelling = "none" /\ subscribed = TRUE
  /\ proof = [i \in Inputs |-> "none"] /\ kfaults = 0

KFault == kfaults < MaxKFaults /\ kfaults' = kfaults + 1
InputAt(i, l) == input[i].pc = l
InputTo(i, l) == input' = [input EXCEPT ![i].pc = l]
\* endInput(): the control is dropped if it is still this input's.
InputEnds(i, r) ==
  /\ input' = [input EXCEPT ![i] = [pc |-> "ended", ret |-> r]]
  /\ activeInput' = IF activeInput = i THEN NoInput ELSE activeInput
\* cancelAsyncRequest: the command at the device ends as cancelled.
Cancelled == IF pad.busy THEN [pad EXCEPT !.busy = FALSE, !.answer = "canceled"] ELSE pad

\* beginInput(): a second input is refused.
BeginInput(i) ==
  /\ InputAt(i, "new")
  /\ IF activeInput # NoInput
     THEN input' = [input EXCEPT ![i] = [pc |-> "ended", ret |-> "busy"]]
          /\ UNCHANGED <<activeInput, control>>
     ELSE InputTo(i, "queued") /\ activeInput' = i /\ control' = NoControl
  /\ UNCHANGED <<pad, confirming, cancelling, subscribed, proof, kfaults>>

\* The command queue of the service: no other input has a command there.
Turn(i) == \A j \in Inputs \ {i} : input[j].pc \notin {"device", "block"}

\* The leased command reaches the device, or its lease is refused.
CommandBegins(i) ==
  /\ InputAt(i, "queued") /\ Turn(i)
  /\ \/ InputTo(i, "device") /\ pad' = [FreePad EXCEPT !.busy = TRUE] /\ UNCHANGED kfaults
     \/ KFault /\ InputTo(i, "recover") /\ UNCHANGED pad
  /\ UNCHANGED <<activeInput, control, confirming, cancelling, subscribed, proof>>

\* handle(): the digit count follows the keys, within its limits.
Handled(n) == IF n < MaxLength THEN n ELSE MaxLength

\* The customer presses a digit, backspace or clear; the event is handled.
KeyPressed ==
  /\ pad.busy
  /\ \E n \in {pad.keys + 1, IF pad.keys > 0 THEN pad.keys - 1 ELSE 0, 0} :
       /\ n <= MaxLength /\ n # pad.keys /\ pad' = [pad EXCEPT !.keys = n]
       /\ control' = IF subscribed /\ activeInput # NoInput
                     THEN [control EXCEPT !.digits = Handled(n)] ELSE control
  /\ UNCHANGED <<input, activeInput, confirming, cancelling, subscribed, proof, kfaults>>

\* Enter, the last digit, the device's timeout or an error end the command.
DeviceEnds(i) ==
  /\ InputAt(i, "device") /\ pad.busy
  /\ \E a \in {"ok", "failed"} :
       /\ pad' = [pad EXCEPT !.busy = FALSE, !.answer = a]
       /\ proof' = [proof EXCEPT ![i] = IF a = "ok" THEN "device" ELSE @]
  /\ UNCHANGED <<input, activeInput, control, confirming, cancelling, subscribed, kfaults>>

\* complete(): the control must be in its entry phase and long enough.
Complete ==
  /\ activeInput # NoInput /\ confirming = NoInput
  /\ control.phase = "entry" /\ control.digits >= MinLength
  /\ control' = [control EXCEPT !.confirmed = TRUE] /\ confirming' = activeInput
  /\ proof' = [proof EXCEPT ![activeInput] = "confirmed"]
  /\ UNCHANGED <<input, activeInput, pad, cancelling, subscribed, kfaults>>

\* cancelSession(): a rejection takes the completion back, on the control of
\* that input, although the device may have been cancelled.
CompleteAnswered ==
  /\ confirming # NoInput /\ confirming' = NoInput
  /\ \/ pad' = Cancelled /\ UNCHANGED <<control, kfaults>>
     \/ /\ KFault /\ pad' \in {pad, Cancelled}
        /\ control' = IF activeInput = confirming THEN [control EXCEPT !.confirmed = FALSE] ELSE control
  /\ UNCHANGED <<input, activeInput, cancelling, subscribed, proof>>

\* cancel() of an abandoned attempt: the session, then a reset.
CancelInput ==
  /\ \/ cancelling = "none" /\ KFault /\ cancelling' = "cancel" /\ UNCHANGED pad
     \/ cancelling = "cancel" /\ cancelling' = "reset" /\ pad' = Cancelled /\ UNCHANGED kfaults
     \/ cancelling = "reset" /\ cancelling' = "none" /\ pad' = Cancelled /\ UNCHANGED kfaults
  /\ UNCHANGED <<input, activeInput, control, confirming, subscribed, proof>>

\* assertCommandResult()
Accepted(a) == a = "ok" \/ (a = "canceled" /\ control.confirmed)

\* The answer reaches the call; a call may also give up while the device waits.
CommandAnswered(i) ==
  /\ InputAt(i, "device")
  /\ \/ /\ pad.answer # "none" /\ pad' = FreePad
        /\ IF Accepted(pad.answer)
           THEN /\ control' = [control EXCEPT !.phase = "result"]
                /\ IF i \in Secure THEN InputTo(i, "block") /\ UNCHANGED activeInput
                   ELSE InputEnds(i, "ok")
           ELSE InputTo(i, "recover") /\ UNCHANGED <<activeInput, control>>
        /\ UNCHANGED kfaults
     \/ /\ KFault /\ InputTo(i, "recover") /\ UNCHANGED <<activeInput, control, pad>>
  /\ UNCHANGED <<confirming, cancelling, subscribed, proof>>

\* getPinblock()
PinBlock(i) ==
  /\ InputAt(i, "block")
  /\ \/ InputEnds(i, "ok") /\ UNCHANGED kfaults
     \/ KFault /\ InputTo(i, "recover") /\ UNCHANGED activeInput
  /\ UNCHANGED <<control, pad, confirming, cancelling, subscribed, proof>>

\* Mutant: a failed input ends without recovery.
RecoverInputNot(i) ==
  /\ InputAt(i, "recover") /\ InputEnds(i, "error")
  /\ UNCHANGED <<control, pad, confirming, cancelling, subscribed, proof, kfaults>>

\* recoverFailedInput(): cancel, whose rejection is ignored, and reset; if the
\* recovery rejects, the caller gets both errors.
RecoverInput(i) ==
  /\ InputAt(i, "recover") /\ Turn(i)
  /\ \/ pad' = FreePad /\ InputEnds(i, "error") /\ UNCHANGED kfaults
     \/ KFault /\ pad' \in {pad, FreePad} /\ InputEnds(i, "unrecovered")
  /\ UNCHANGED <<control, confirming, cancelling, subscribed, proof>>

\* dispose(): the control and the subscription are dropped.
DisposePort ==
  /\ subscribed /\ KFault /\ subscribed' = FALSE /\ activeInput' = NoInput
  /\ UNCHANGED <<input, control, pad, confirming, cancelling, proof>>

InputStep(i) ==
  CommandBegins(i) \/ DeviceEnds(i) \/ CommandAnswered(i) \/ PinBlock(i) \/ RecoverInput(i)

PinNext ==
  \/ CompleteAnswered \/ KeyPressed \/ Complete \/ CancelInput \/ DisposePort
  \/ \E i \in Inputs : BeginInput(i) \/ InputStep(i)

PinSpec == PinInit /\ [][PinNext]_pinVars

\* Device commands have a timeout; whatever the customer presses meanwhile.
PinFairness == \A i \in Inputs : WF_pinVars(InputStep(i))

-----------------------------------------------------------------------------
(* Properties *)

Recovered == \A i \in Inputs : input[i].ret # "unrecovered"

\* Inputs and control have their types; while its port is subscribed and no
\* recovery has failed, a running input's digit count is the number of keys the
\* device holds.
PinTypeOK ==
  /\ \A i \in Inputs : input[i].pc \in InputPcs
  /\ activeInput \in Inputs \cup {NoInput} /\ control.digits \in 0..MaxLength
  /\ \A i \in Inputs :
       (InputAt(i, "device") /\ pad.busy /\ activeInput = i /\ subscribed /\ Recovered)
         => control.digits = pad.keys

\* assertCommandResult: an input succeeds only if the customer ended it at the
\* device or confirmed it with enough digits; an abandoned attempt never does.
SuccessIsConfirmed == \A i \in Inputs : input[i].ret = "ok" => proof[i] # "none"

\* runInputCommand: when an input is over, the device waits for no keys, unless
\* the caller was told that the recovery failed.
NoOrphanedEntry ==
  pad.busy => \/ \E i \in Inputs : input[i].pc \in {"device", "recover"}
              \/ ~Recovered

\* Every input ends and the port is free again.
InputsEnd == []<>(\A i \in Inputs : input[i].pc \in {"new", "ended"})

\* XfsPinPadPort: the digits counted, the success reported and the entry left open
\* at the device belong to the input that is running.
PinEntryIsOwn == PinTypeOK /\ SuccessIsConfirmed /\ NoOrphanedEntry
=============================================================================
