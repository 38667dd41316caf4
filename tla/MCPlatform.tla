----------------------------- MODULE MCPlatform -----------------------------
(* The framework's services: the event bus, its requests, prompts and       *)
(* storage.  They share no state, so a behaviour is about one of them.      *)
EXTENDS EventBus, PromptPresenter, SqliteStorage

\* Nobody preempts, the last one does, the second one does.
ThePriorities == {<<1, 1, 1>>, <<1, 1, 3>>, <<1, 3, 1>>}

VARIABLE part

platformVars == <<part, busVars, requestVars, presenterVars, storageVars>>

\* What a behaviour is not about starts in one way.
PlatformInit ==
  /\ part \in {"bus", "request", "prompt", "storage"}
  /\ BusInit /\ RequestInit /\ PresenterInit
  /\ part # "prompt" => priority = <<1, 1, 1>>
  /\ IF part = "storage" THEN StorageInit ELSE StorageAtRest

PlatformNext ==
  /\ UNCHANGED part
  /\ \/ part = "bus" /\ BusNext /\ UNCHANGED <<requestVars, presenterVars, storageVars>>
     \/ part = "request" /\ RequestNext /\ UNCHANGED <<busVars, presenterVars, storageVars>>
     \/ part = "prompt" /\ PresenterNext /\ UNCHANGED <<busVars, requestVars, storageVars>>
     \/ part = "storage" /\ StorageNext /\ UNCHANGED <<busVars, requestVars, presenterVars>>

\* The steps of a part that a behaviour is not about are never enabled.
PlatformFairness == BusFairness /\ RequestFairness /\ PresenterFairness /\ StorageFairness

PlatformSpec == PlatformInit /\ [][PlatformNext]_platformVars /\ PlatformFairness

\* What the framework announces: the events of a publisher reach the handlers in
\* order; a handler's failure is reported before its publish settles, unless a
\* filter threw; a request ends with noResponder only when everybody who stayed
\* was asked; and a prompt cancelled in the queue is not heard
\* (local-event-bus.ts, presenter.ts).
AnnouncementsAreHonest ==
  /\ BusTypeOK /\ PublishOrder /\ FailuresAreReported /\ FailsOnlyWhenAllFailed
  /\ PresenterTypeOK /\ CancelledInQueueIsSilent /\ CurrentIsRunning

\* Every publish, request, once() and storage call ends, so does every prompt but
\* one whose present() rejected and that nobody cancels, and the storage becomes
\* ready after every crash.
PlatformSettles == EveryPublishSettles /\ WaitsEnd /\ PromptsComplete /\ StorageRecovers
=============================================================================
