-------------------------- MODULE PromptPresenter --------------------------
(***************************************************************************)
(* PromptPresenter: sessions queue for one current prompt.  A session that *)
(* finds another one current waits for that one's completion and then      *)
(* takes its place; a prompt of higher priority cancels the current one    *)
(* first.  Playing is a chain of awaits (is the port supported, load the   *)
(* asset, play, or speak instead), and a cancellation may fall into each.  *)
(***************************************************************************)
EXTENDS Naturals, FiniteSets

CONSTANTS
  MaxSessions,  \* bound: prompts presented
  Priorities    \* the priorities their prompts may have, in order

ASSUME PresenterAssumption == MaxSessions \in Nat

\* `prompt-${sequence}`; 0 stands for no session.
Sessions == 1..MaxSessions
None == 0

VARIABLES
  priority,   \* of each prompt: instruction 1, warning 2, safety 3
  phase,      \* where present() and run() of each session are
  waitsFor,   \* the session it waits for
  cancelled,  \* sessions with cancelled = true
  stopping,   \* sessions whose cancel() is under way
  completed,       \* sessions whose completed promise has resolved
  current,
  audible,    \* sessions whose recording or speech sounds
  unstarted,  \* history: sessions cancelled before run() made them current
  closing     \* dispose(): its state, and the sessions whose cancel() it awaits

presenterVars == <<priority, phase, waitsFor, cancelled, stopping, completed, current, audible,
                   unstarted, closing>>

Queueing == {"preempting", "queued"}
\* Its present() was rejected before run(): it stays in the maps and never plays.
Abandoned == "abandoned"
RunPhases == {"checking", "loading", "playing", "checkingTts", "speaking"}

\* run() after its wait: a cancelled session ends here, another becomes current.
TakesPlace(s) ==
  IF s \in cancelled THEN phase' = [phase EXCEPT ![s] = "over"] /\ UNCHANGED current
  ELSE current' = s /\ phase' = [phase EXCEPT ![s] = "checking"]

\* run() up to its wait for the current session.
Run(s) ==
  IF current = None \/ s \in cancelled
    THEN TakesPlace(s) /\ waitsFor' = [waitsFor EXCEPT ![s] = None]
    ELSE /\ phase' = [phase EXCEPT ![s] = "queued"]
         /\ waitsFor' = [waitsFor EXCEPT ![s] = current]
         /\ UNCHANGED current

\* session.cancel(): marked at once; a recording that plays is stopped.
Cancelled(S) ==
  /\ cancelled' = cancelled \cup S
  /\ stopping' = stopping \cup (S \ cancelled)
  /\ audible' = audible \ {s \in S \ cancelled : phase[s] = "playing"}
  /\ unstarted' = unstarted \cup {s \in S : phase[s] \in Queueing \cup {Abandoned}}

(* present() of a new view prompt; one that is known already gets the      *)
(* session it has.  A current prompt of lower priority is cancelled, and   *)
(* the new one goes on when that call returns.                             *)
Present(s) ==
  /\ phase[s] = "new" /\ \A t \in 1..(s - 1) : phase[t] # "new"
  /\ IF current # None /\ priority[s] > priority[current] /\ current \notin cancelled
       THEN /\ Cancelled({current})
            /\ phase' = [phase EXCEPT ![s] = "preempting"]
            /\ waitsFor' = [waitsFor EXCEPT ![s] = current]
            /\ UNCHANGED current
       ELSE Run(s) /\ UNCHANGED <<cancelled, stopping, audible, unstarted>>
  /\ UNCHANGED <<priority, completed, closing>>

Preempted(s) ==
  /\ phase[s] = "preempting" /\ waitsFor[s] \notin stopping
  /\ Run(s)
  /\ UNCHANGED <<priority, cancelled, stopping, completed, audible, unstarted, closing>>

Wake(s) ==
  /\ phase[s] = "queued" /\ waitsFor[s] \in completed
  /\ TakesPlace(s) /\ waitsFor' = [waitsFor EXCEPT ![s] = None]
  /\ UNCHANGED <<priority, cancelled, stopping, completed, audible, unstarted, closing>>

\* The sessions map.
active == {s \in Sessions : phase[s] \in Queueing \cup RunPhases \cup {Abandoned}}

\* The holder of a session cancels it.
CancelSession(s) ==
  /\ s \in active \ cancelled
  /\ Cancelled({s})
  /\ UNCHANGED <<priority, phase, waitsFor, completed, current, closing>>

\* cancelOperation() of the operation all prompts belong to.
CancelOperation ==
  /\ active \ cancelled # {}
  /\ Cancelled(active)
  /\ UNCHANGED <<priority, phase, waitsFor, completed, current, closing>>

\* dispose() cancels every session and, in the end, stops the speech.
Dispose ==
  /\ closing.state = "no" /\ active # {}
  /\ Cancelled(active) /\ closing' = [state |-> "cancelling", awaits |-> active \ cancelled]
  /\ UNCHANGED <<priority, phase, waitsFor, completed, current>>

DisposeEnds ==
  /\ closing.state = "cancelling" /\ stopping \cap closing.awaits = {}
  /\ closing' = [state |-> "done", awaits |-> {}]
  /\ audible' = {s \in audible : phase[s] # "speaking"}
  /\ UNCHANGED <<priority, phase, waitsFor, cancelled, stopping, completed, current, unstarted>>

\* cancel(session) ends: speech stops if the session is current.
CancelEnds(s) ==
  /\ s \in stopping
  /\ stopping' = stopping \ {s} /\ completed' = completed \cup {s}
  /\ audible' = IF current = s THEN {t \in audible : phase[t] # "speaking"} ELSE audible
  /\ UNCHANGED <<priority, phase, waitsFor, cancelled, current, unstarted, closing>>

(* cancel(session) rejects: the recording or the speech of a session that   *)
(* has been current refuses to stop.  The session itself is not completed  *)
(* by this call, a prompt that wanted its place is never run, and dispose() *)
(* rejects without stopping the speech.                                    *)
CancelFails(s) ==
  /\ s \in stopping \ unstarted
  /\ stopping' = stopping \ {s}
  /\ phase' = [t \in Sessions |->
       IF phase[t] = "preempting" /\ waitsFor[t] = s THEN Abandoned ELSE phase[t]]
  /\ \E sounding \in SUBSET ({s} \cap {t \in Sessions : phase[t] = "playing"}) :
       audible' = audible \cup sounding
  /\ closing' = IF s \in closing.awaits THEN [state |-> "failed", awaits |-> {}] ELSE closing
  /\ UNCHANGED <<priority, waitsFor, cancelled, completed, current, unstarted>>

Step(s, from, to, sounds) ==
  /\ phase[s] = from /\ phase' = [phase EXCEPT ![s] = to]
  /\ audible' = sounds
  /\ UNCHANGED <<priority, waitsFor, cancelled, stopping, completed, current, unstarted, closing>>

\* The recorded port is supported and loads the asset.
Load(s) == Step(s, "checking", "loading", audible)
\* play() returned a session: the recording sounds.
PlaybackStarts(s) == Step(s, "loading", "playing", audible \cup {s})
\* Speech instead: by policy, or as the fallback the prompt permits when the
\* recording is unavailable, cannot be started or breaks off.
FallBack(s) ==
  \E from \in {"checking", "loading", "playing"} : Step(s, from, "checkingTts", audible \ {s})
\* speak() in interrupt mode silences the speech before it.
Speak(s) == Step(s, "checkingTts", "speaking", {t \in audible : phase[t] # "speaking"} \cup {s})

\* The prompt has ended, failed or was visual only: completed resolves, and
\* the finally block gives up the place.
RunEnds(s) ==
  /\ phase[s] \in RunPhases
  /\ phase' = [phase EXCEPT ![s] = "over"]
  /\ completed' = completed \cup {s} /\ audible' = audible \ {s}
  /\ current' = IF current = s THEN None ELSE current
  /\ UNCHANGED <<priority, waitsFor, cancelled, stopping, unstarted, closing>>

PresenterInit ==
  /\ priority \in Priorities
  /\ phase = [s \in Sessions |-> "new"] /\ waitsFor = [s \in Sessions |-> None]
  /\ cancelled = {} /\ stopping = {} /\ completed = {} /\ current = None /\ audible = {}
  /\ unstarted = {} /\ closing = [state |-> "no", awaits |-> {}]

PresenterNext ==
  \/ \E s \in Sessions :
       \/ Present(s) \/ Preempted(s) \/ Wake(s) \/ CancelSession(s)
       \/ CancelEnds(s) \/ CancelFails(s)
       \/ Load(s) \/ PlaybackStarts(s) \/ FallBack(s) \/ Speak(s) \/ RunEnds(s)
  \/ CancelOperation \/ Dispose \/ DisposeEnds

\* Continuations run, and the ports end what they play and answer a stop.
PresenterFairness ==
  /\ \A s \in Sessions :
       WF_presenterVars(Preempted(s)) /\ WF_presenterVars(Wake(s))
       /\ WF_presenterVars(CancelEnds(s) \/ CancelFails(s)) /\ WF_presenterVars(RunEnds(s))
  /\ WF_presenterVars(DisposeEnds)
-----------------------------------------------------------------------------
\* Every part of the presenter has its type.
PresenterTypeOK ==
  /\ phase \in [Sessions -> {"new", "over", Abandoned} \cup Queueing \cup RunPhases]
  /\ waitsFor \in [Sessions -> Sessions \cup {None}] /\ current \in Sessions \cup {None}
  /\ stopping \subseteq cancelled /\ cancelled \cup completed \cup audible \subseteq Sessions

(* A queued prompt that is cancelled while it waits stays silent: when the *)
(* prompt before it ends, it does not start after all.  One cancelled after *)
(* it became current may still sound, when its asset is loaded.             *)
CancelledInQueueIsSilent == audible \cap unstarted = {}

(* The place of the current prompt is held only by a session whose run     *)
(* will give it up, also when sessions that waited for the same one took   *)
(* the place from each other.                                              *)
CurrentIsRunning == current # None => phase[current] \in RunPhases

(* Every presented prompt completes: played, failed or cancelled, whoever  *)
(* it waited for and although cancelling that one fails.  Only the prompt  *)
(* whose own present() that failure rejected does not: it waits until it   *)
(* is cancelled itself, with its operation or by dispose().                *)
PromptsComplete ==
  \A s \in Sessions :
    []<>(phase[s] # "new" /\ (phase[s] = Abandoned => s \in cancelled) => s \in completed)
=============================================================================
