------------------------ MODULE NotificationsProofs ------------------------
(***************************************************************************)
(* Theorems about the stack of examples/notifications, with and without    *)
(* its admin server, for every set of requests, every capacity of the      *)
(* queue and everything the provider may answer.                           *)
(***************************************************************************)
EXTENDS Notifications, LifecycleProofs, SequenceTheorems, FiniteSetTheorems

-----------------------------------------------------------------------------
(* The stack runs Lifecycle: what is proved of every program that uses     *)
(* package lifecycle is so of this one.                                    *)

(* buildStack makes no construction error, and every component it adds has *)
(* been added when Run begins.                                             *)
Declared ==
    /\ addErrs = {}
    /\ \A i \in Comps : after[i] = Deps(i)
    /\ pc # "build" => n = N

LEMMA DepsAre ==
    /\ Deps(1) = {} /\ Deps(2) = {1} /\ Deps(3) = {2} /\ Deps(4) = {2}
  BY DEF Deps, Client, Worker, Api, Admin

LEMMA DepsComeFirst == \A i \in Comp : Deps(i) \subseteq 1..i-1
<1>1. \A i \in Comp : i \in {1, 2, 3, 4}
  BY NotificationsAssumption DEF Comp
<1> QED
  BY <1>1, DepsAre

LEMMA OneStep ==
    ASSUME TypeOK, OrderInv, [StackNext]_all
    PROVE  [Next]_vars
<1> USE NotificationsAssumption DEF Comp
<1>1. ASSUME NEW i \in Comp, st[i] # "idle" PROVE i \in Comps
  BY <1>1 DEF OrderInv, Stage
<1>2. Client \in Comp /\ Worker \in Comp /\ Api \in Comp /\ (N = Admin => Admin \in Comp)
  BY DEF Client, Worker, Api, Admin
<1>3. CASE Declare
  <2>1. n + 1 \in Comp
    BY <1>3 DEF Declare, TypeOK
  <2>2. Deps(n + 1) \in SUBSET (Comp \cup {Foreign})
    BY <2>1, DepsComeFirst
  <2> QED
    BY <1>3, <2>2 DEF Declare, Next
<1>4. CASE RunAlone \/ RunUp \/ RunDrain
  BY <1>4 DEF RunAlone, RunUp, RunDrain, Next, RunStep
<1>5. ASSUME NEW i \in Comp,
             StartReturns(i) \/ StopReturns(i) \/ FatalStore(i) \/ StopExpires(i)
      PROVE  Next
  <2>1. st[i] # "idle"
    BY <1>5 DEF StartReturns, StopReturns, StartOK, StartFails, StopOK, StopFails,
                FatalStore, StopExpires
  <2> QED
    BY <1>1, <1>5, <2>1 DEF Next
<1>6. CASE ClientReturns \/ AdminReturns \/ AdminDies
  BY <1>2, <1>5, <1>6 DEF ClientReturns, AdminReturns, AdminDies, StartReturns, StopReturns
<1>7. CASE WorkerStarts \/ WorkerStops \/ WorkerMoves \/ ProviderAnswers
  BY <1>2, <1>5, <1>7
  DEF WorkerStarts, WorkerStops, WorkerMoves, ProviderAnswers, StartReturns, StopReturns
<1>8. CASE ApiStarts \/ ApiStops \/ ApiServes \/ ListenerDies
  BY <1>2, <1>5, <1>8
  DEF ApiStarts, ApiStops, ApiServes, ListenerDies, StartReturns, StopReturns
<1>9. CASE \E q \in Requests : RequestArrives(q) \/ HandlerSubmits(q) \/ HandlerAnswers(q)
  BY <1>9 DEF RequestArrives, HandlerSubmits, HandlerAnswers
<1>10. CASE Elsewhere
  <2>1. Comps \subseteq Comp
    BY DEF Comps, TypeOK
  <2> QED
    BY <1>5, <1>10, <2>1 DEF Elsewhere, Next
<1>11. CASE UNCHANGED all
  BY <1>11 DEF all
<1> QED
  BY <1>3, <1>4, <1>6, <1>7, <1>8, <1>9, <1>10, <1>11 DEF StackNext, StackStep, Exited

RunInv == TypeOK /\ Counting /\ OrderInv /\ Collected /\ Declared

LEMMA DeclaredStep ==
    ASSUME TypeOK, OrderInv, Declared, [StackNext]_all
    PROVE  Declared'
<1> USE NotificationsAssumption DEF Comp, Comps, Declared, build
<1>1. CASE Declare
  <2>1. n + 1 \in Comp /\ Deps(n + 1) \subseteq 1..n /\ pc = "build" /\ pc' = pc
    BY <1>1, DepsComeFirst DEF Declare, Add, TypeOK
  <2>2. n' = n + 1 /\ addErrs' = {} /\ after' = [after EXCEPT ![n + 1] = Deps(n + 1)]
    BY <1>1, <2>1 DEF Declare, Add
  <2>3. after'[n + 1] = Deps(n + 1) /\ \A i \in 1..n : after'[i] = after[i]
    BY <2>1, <2>2 DEF TypeOK
  <2> QED
    BY <2>1, <2>2, <2>3 DEF TypeOK
<1>2. CASE RunBegins /\ n = N
  BY <1>2 DEF RunBegins
<1>3. CASE UNCHANGED build /\ (pc = "build" => pc' = "build")
  BY <1>3
<1>4. [Next]_vars
  BY OneStep
<1>5. \/ Declare \/ (RunBegins /\ n = N)
      \/ UNCHANGED build /\ (pc = "build" => pc' = "build")
  <2>1. CASE RunAlone
    BY <2>1 DEF RunAlone, RunBegins, LevelStep, LevelsDone, StartLevel, LevelStarted,
                LevelFailed, AllStarted, Wait, SelectDone, DrainHooksRan, DrainDelayOver,
                StopLevel, LevelStopped, ReturnUnwound, ReturnStopped
  <2>2. CASE RunUp \/ RunDrain
    BY <2>2 DEF RunUp, RunDrain, RunStartedHook, RunDrainHook, vars
  <2>3. CASE ClientReturns \/ AdminReturns \/ AdminDies
    BY <2>3 DEF ClientReturns, AdminReturns, AdminDies, StartReturns, StopReturns,
                StartOK, StartFails, StopOK, StopFails, FatalStore
  <2>4. CASE WorkerStarts \/ WorkerStops \/ WorkerMoves \/ ProviderAnswers
    BY <2>4 DEF WorkerStarts, WorkerStops, WorkerMoves, ProviderAnswers, StartOK, StopOK,
                StopFails, vars
  <2>5. CASE ApiStarts \/ ApiStops \/ ApiServes \/ ListenerDies
    BY <2>5 DEF ApiStarts, ApiStops, ApiServes, ListenerDies, StartOK, StartFails, StopOK,
                StopFails, FatalStore, vars
  <2>6. CASE \E q \in Requests : RequestArrives(q) \/ HandlerSubmits(q) \/ HandlerAnswers(q)
    BY <2>6 DEF RequestArrives, HandlerSubmits, HandlerAnswers, vars
  <2>7. CASE Elsewhere
    BY <2>7 DEF Elsewhere, Cancel, FatalClose, StopExpires
  <2>8. CASE UNCHANGED all
    BY <2>8 DEF all, vars
  <2> QED
    BY <2>1, <2>2, <2>3, <2>4, <2>5, <2>6, <2>7, <2>8 DEF StackNext, StackStep, Exited
<1> QED
  BY <1>1, <1>2, <1>3, <1>5

LEMMA RunInvInit == StackInit => RunInv
<1> SUFFICES ASSUME StackInit PROVE RunInv
  OBVIOUS
<1> USE LifecycleAssumption DEF StackInit, Init
<1>1. TypeOK /\ Counting
  <2>1. after \in [Comp -> SUBSET Comp] /\ lvl \in [Comp -> 0..N]
    OBVIOUS
  <2>2. st \in [Comp -> Statuses] /\ expired \in [Comp -> BOOLEAN]
    BY DEF Statuses
  <2>3. cancelled \in BOOLEAN /\ ctxDone \in BOOLEAN /\ fatalClosed \in BOOLEAN
    BY Zenon
  <2> QED
    BY <2>1, <2>2, <2>3 DEF TypeOK, Counting, PCs, NoErr
<1>2. OrderInv
  BY DEF OrderInv, Graph, Levels, Stage, DependenciesUp, Comps, Comp, Up, Active
<1>3. Collected /\ Declared
  BY DEF Collected, Declared, Comps
<1> QED
  BY <1>1, <1>2, <1>3 DEF RunInv

LEMMA RunInvStep ==
    ASSUME RunInv, [StackNext]_all
    PROVE  RunInv' /\ [Next]_vars
BY OneStep, TypingStep, OrderStep, CollectedStep, DeclaredStep DEF RunInv

(* Every behaviour of the stack is one of Lifecycle.                       *)
THEOREM StackRunsLifecycle == StackSpec => Spec
<1>1. StackInit => Init
  BY DEF StackInit
<1> QED
  BY <1>1, RunInvInit, RunInvStep, PTL DEF StackSpec, Spec

-----------------------------------------------------------------------------
(* Who moves what.  A step of startLevel or stopStarted is all that moves  *)
(* a component other than its own Start or Stop.                           *)
Levelled(i) ==
    \/ st'[i] = st[i]
    \/ st[i] = "idle" /\ st'[i] = "starting"
    \/ st[i] = "started" /\ st'[i] = "stopping"

LEMMA OwnMoves ==
    ASSUME TypeOK, NEW i \in Comp, StartReturns(i) \/ StopReturns(i)
    PROVE  \A j \in Comp : j # i => st'[j] = st[j]
  BY DEF StartReturns, StopReturns, StartOK, StartFails, StopOK, StopFails, TypeOK

LEMMA Names ==
    /\ Client \in Comp /\ Worker \in Comp /\ Api \in Comp /\ (N = Admin => Admin \in Comp)
    /\ Api # Client /\ Api # Worker /\ Api # Admin /\ Worker # Client /\ Worker # Admin
  BY NotificationsAssumption DEF Client, Worker, Api, Admin, Comp

LEMMA RunAloneMoves ==
    ASSUME TypeOK, Counting, OrderInv, RunAlone, NEW i \in Comp
    PROVE  Levelled(i)
<1>1. CASE StartLevel
  BY <1>1 DEF StartLevel, OrderInv, Stage, At, TypeOK, Levelled, Comps
<1>2. CASE StopLevel
  BY <1>2 DEF StopLevel, TypeOK, Levelled
<1>3. CASE UNCHANGED st
  BY <1>3 DEF Levelled
<1> QED
  BY <1>1, <1>2, <1>3
  DEF RunAlone, RunBegins, LevelStep, LevelsDone, LevelStarted,
      LevelFailed, AllStarted, Wait, SelectDone, DrainHooksRan, DrainDelayOver,
      LevelStopped, ReturnUnwound, ReturnStopped

(* What the API server, its handlers and Run see of a step.                *)
LEMMA ServerCases ==
    ASSUME RunInv, [StackNext]_all
    PROVE  \/ Levelled(Api) /\ UNCHANGED server
           \/ ApiStarts \/ ApiStops
           \/ st'[Api] = st[Api] /\ ApiServes
           \/ UNCHANGED st /\ ListenerDies
           \/ UNCHANGED st /\ \E q \in Requests :
                 RequestArrives(q) \/ HandlerSubmits(q) \/ HandlerAnswers(q)
<1> USE Names DEF RunInv, Levelled
<1>1. CASE Declare \/ RunUp \/ RunDrain \/ Elsewhere \/ AdminDies \/ UNCHANGED all
  BY <1>1 DEF Declare, Add, RunUp, RunStartedHook, RunDrain, RunDrainHook, Elsewhere, Cancel,
              FatalClose, StopExpires, AdminDies, FatalStore, all, vars
<1>2. CASE RunAlone
  BY <1>2, RunAloneMoves DEF RunAlone
<1>3. CASE ClientReturns \/ AdminReturns \/ WorkerStarts \/ WorkerStops
  BY <1>3, OwnMoves DEF ClientReturns, AdminReturns, WorkerStarts, WorkerStops, StartReturns,
                        StopReturns, vars
<1>4. CASE WorkerMoves \/ ProviderAnswers
  BY <1>4 DEF WorkerMoves, ProviderAnswers, vars, D!Receive, D!WorkerDone, D!Delivered, server
<1>5. CASE ApiServes
  BY <1>5 DEF ApiServes, FatalStore, vars
<1>6. CASE ListenerDies \/ \E q \in Requests :
             RequestArrives(q) \/ HandlerSubmits(q) \/ HandlerAnswers(q)
  BY <1>6 DEF ListenerDies, RequestArrives, HandlerSubmits, HandlerAnswers, vars
<1> QED
  BY <1>1, <1>2, <1>3, <1>4, <1>5, <1>6 DEF StackNext, StackStep, Exited

(* What the worker and those that use its queue see of it.                 *)
LEMMA DeliveryCases ==
    ASSUME RunInv, [StackNext]_all
    PROVE  \/ Levelled(Worker) /\ UNCHANGED delivery
           \/ WorkerStarts \/ WorkerStops
           \/ UNCHANGED st /\ (WorkerMoves \/ ProviderAnswers)
           \/ UNCHANGED st /\ \E q \in Requests : HandlerSubmits(q)
<1> USE Names DEF RunInv, Levelled
<1>1. CASE Declare \/ RunUp \/ RunDrain \/ Elsewhere \/ AdminDies \/ UNCHANGED all
  BY <1>1 DEF Declare, Add, RunUp, RunStartedHook, RunDrain, RunDrainHook, Elsewhere, Cancel,
              FatalClose, StopExpires, AdminDies, FatalStore, all, vars
<1>2. CASE RunAlone
  BY <1>2, RunAloneMoves DEF RunAlone
<1>3. CASE ClientReturns \/ AdminReturns \/ ApiStarts \/ ApiStops
  BY <1>3, OwnMoves DEF ClientReturns, AdminReturns, ApiStarts, ApiStops, StartReturns,
                        StopReturns, vars
<1>4. CASE WorkerStarts \/ WorkerStops \/ WorkerMoves \/ ProviderAnswers
  BY <1>4 DEF WorkerMoves, ProviderAnswers, vars
<1>5. CASE ApiServes \/ ListenerDies
  BY <1>5 DEF ApiServes, FatalStore, ListenerDies, vars
<1>6. CASE \E q \in Requests : RequestArrives(q) \/ HandlerSubmits(q) \/ HandlerAnswers(q)
  BY <1>6 DEF RequestArrives, HandlerSubmits, HandlerAnswers, vars
<1> QED
  BY <1>1, <1>2, <1>3, <1>4, <1>5, <1>6 DEF StackNext, StackStep, Exited

-----------------------------------------------------------------------------
(* The API server.                                                         *)

Past == {"started", "stopping", "stopped", "stopFailed"}

(* Its goroutine and its requests exist only once its Start has returned,  *)
(* and a Shutdown that has returned nil leaves none of them at work.       *)
ApiInv ==
    /\ start[Api] = "ok" <=> st[Api] \in Past
    /\ serve[Api] # "none" => start[Api] = "ok"
    /\ \A q \in Requests : req[q] # "none" => serve[Api] # "none"
    /\ stop[Api] \in {"draining", "ok"} => inShutdown
    /\ stop[Api] = "ok" =>
         /\ serve[Api] # "accepting"
         /\ \A q \in Requests : req[q] \notin {"accepted", "running"}
    /\ st[Api] = "stopped" => stop[Api] = "ok"

ServerInv == S!TypeOK /\ ApiInv

LEMMA ServerInit == StackInit => ServerInv
<1> SUFFICES ASSUME StackInit PROVE ServerInv
  OBVIOUS
<1>1. S!TypeOK
  <2>1. shutDown \in BOOLEAN /\ inShutdown \in BOOLEAN
    BY Zenon DEF StackInit, S!Init
  <2> QED
    BY <2>1 DEF StackInit, S!Init, S!TypeOK
<1>2. ApiInv
  BY Names DEF StackInit, S!Init, Init, ApiInv, Past
<1> QED
  BY <1>1, <1>2 DEF ServerInv

LEMMA ServerStep ==
    ASSUME RunInv, ServerInv, [StackNext]_all
    PROVE  ServerInv'
<1> USE Names DEF ServerInv, S!TypeOK, ApiInv, Past, S!calls, S!fields
<1>0. TypeOK
  BY DEF RunInv
<1>1. CASE Levelled(Api) /\ UNCHANGED server
  BY <1>1 DEF Levelled, server
<1>2. CASE ApiStarts
  <2>1. CASE S!StartChecked(Api) /\ UNCHANGED vars
    BY <2>1 DEF S!StartChecked, vars
  <2>2. CASE S!Listen(Api) /\ UNCHANGED vars
    BY <2>2 DEF S!Listen, vars
  <2>3. CASE S!StartReturns(Api) /\ StartOK(Api)
    BY <1>0, <2>3 DEF S!StartReturns, StartOK, TypeOK
  <2>4. CASE S!StartRefused(Api, cancelled \/ ctxDone) /\ StartFails(Api)
    BY <1>0, <2>4 DEF S!StartRefused, StartFails, TypeOK
  <2>5. CASE S!ListenFails(Api) /\ StartFails(Api)
    BY <1>0, <2>5 DEF S!ListenFails, StartFails, TypeOK
  <2> QED
    BY <1>2, <2>1, <2>2, <2>3, <2>4, <2>5 DEF ApiStarts
<1>3. CASE ApiStops
  <2>1. CASE S!ShutdownSeals(Api) /\ UNCHANGED vars
    BY <2>1 DEF S!ShutdownSeals, vars
  <2>2. CASE S!ShutdownCloses(Api) /\ UNCHANGED vars
    BY <2>2 DEF S!ShutdownCloses, vars
  <2>3. CASE S!ShutdownDone(Api) /\ StopOK(Api)
    BY <1>0, <2>3 DEF S!ShutdownDone, StopOK, TypeOK
  <2>4. CASE S!ShutdownExpires(Api) /\ StopFails(Api)
    BY <1>0, <2>4 DEF S!ShutdownExpires, StopFails, TypeOK
  <2> QED
    BY <1>3, <2>1, <2>2, <2>3, <2>4 DEF ApiStops
<1>4. CASE st'[Api] = st[Api] /\ ApiServes
  <2>1. CASE S!ServeBegins(Api)
    BY <1>4, <2>1 DEF S!ServeBegins
  <2>2. CASE S!ServeClosed(Api)
    BY <1>4, <2>2 DEF S!ServeClosed
  <2>3. CASE S!ServeFails(Api)
    BY <1>4, <2>3 DEF S!ServeFails
  <2> QED
    BY <1>4, <2>1, <2>2, <2>3 DEF ApiServes
<1>5. CASE UNCHANGED st /\ ListenerDies
  BY <1>5 DEF ListenerDies, S!CloseListener
<1>6. ASSUME NEW q \in Requests, UNCHANGED st,
             RequestArrives(q) \/ HandlerSubmits(q) \/ HandlerAnswers(q)
      PROVE  ServerInv'
  <2>1. CASE S!Accept(q)
    BY <1>6, <2>1 DEF S!Accept
  <2>2. CASE S!Handle(q) \/ S!Answer(q) \/ S!Hangup(q)
    BY <1>6, <2>2 DEF S!Handle, S!Answer, S!Hangup
  <2>3. CASE UNCHANGED server
    BY <1>6, <2>3 DEF server
  <2> QED
    BY <1>6, <2>1, <2>2, <2>3 DEF RequestArrives, HandlerSubmits, HandlerAnswers
<1> QED
  BY <1>1, <1>2, <1>3, <1>4, <1>5, <1>6, ServerCases

(* A handler runs only while the worker is up, or past the Shutdown of the *)
(* API that gave up on it.                                                 *)
LEMMA WhileHandled ==
    ASSUME RunInv, ServerInv, NEW q \in Requests, req[q] = "running"
    PROVE  st[Worker] = "started" \/ st[Api] = "stopFailed"
<1>1. st[Api] \in {"started", "stopping", "stopFailed"}
  BY DEF ServerInv, ApiInv, Past
<1>2. CASE st[Api] # "stopFailed"
  <2>1. Api \in Comps /\ Active(Api)
    BY <1>1, <1>2, Names DEF RunInv, OrderInv, Stage, Active
  <2>2. Worker \in after[Api]
    BY <2>1, DepsAre DEF RunInv, Declared, Api, Worker
  <2> QED
    BY <2>1, <2>2 DEF RunInv, OrderInv, DependenciesUp
<1> QED
  BY <1>2

THEOREM HandlersHaveTheWorker == StackSpec => []HandlerHasWorker
<1>1. RunInv /\ ServerInv => HandlerHasWorker
  BY WhileHandled, Names DEF HandlerHasWorker, RunInv, Collected
<1> QED
  BY <1>1, RunInvInit, RunInvStep, ServerInit, ServerStep, PTL DEF StackSpec

-----------------------------------------------------------------------------
(* The worker and its queue.                                               *)

(* Every notification that is queued is in one place, and the worker       *)
(* leaves only once nothing is.                                            *)
Kept ==
    /\ \A j, m \in 1..Len(queue) : queue[j] = queue[m] => j = m
    /\ \A j \in 1..Len(queue) :
         submit[queue[j]] = "accepted" /\ item[queue[j]] = "queued" /\ queue[j] # current
    /\ current = Nobody <=> worker # "delivering"
    /\ current # Nobody => submit[current] = "accepted" /\ item[current] = "queued"
    /\ \A q \in Requests :
         /\ submit[q] = "none" <=> item[q] = "none"
         /\ submit[q] \in {"sending", "panicked"} => item[q] = "queued"
         /\ submit[q] = "accepted" /\ item[q] = "queued" =>
              q = current \/ \E j \in 1..Len(queue) : queue[j] = q
    /\ worker = "done" => closed /\ queue = <<>>

(* How far the worker is when handlers submit, and when its Stop is over.  *)
Reached ==
    /\ start[Api] = "ok" => st[Worker] \in Past
    /\ \A q \in Requests : submit[q] # "none" => req[q] # "none"
    /\ st[Worker] = "stopped" => worker = "done"

DeliveryInv == D!TypeOK /\ Kept

LEMMA DeliveryInit == StackInit => DeliveryInv /\ Reached
<1> SUFFICES ASSUME StackInit PROVE DeliveryInv /\ Reached
  OBVIOUS
<1>1. D!TypeOK
  <2>1. queue \in Seq(Requests) /\ Len(queue) = 0
    BY DEF StackInit, D!Init
  <2>2. closed \in BOOLEAN
    BY Zenon DEF StackInit, D!Init
  <2> QED
    BY <2>1, <2>2, NotificationsAssumption DEF StackInit, D!Init, D!TypeOK
<1>2. Kept
  BY DEF StackInit, D!Init, Kept
<1>3. Reached
  BY Names DEF StackInit, D!Init, S!Init, Init, Reached
<1> QED
  BY <1>1, <1>2, <1>3 DEF DeliveryInv

(* The steps of the queue, whoever takes them.                             *)
LEMMA QueueStep ==
    ASSUME DeliveryInv,
           \/ \E q \in Requests : D!Record(q) \/ D!Send(q) \/ D!SendPanics(q)
           \/ D!WorkerStart \/ D!Receive \/ D!WorkerDone \/ D!CloseQueue
           \/ \E outcome \in Outcomes : D!Delivered(outcome)
           \/ UNCHANGED delivery
    PROVE  DeliveryInv'
<1> USE NotificationsAssumption DEF DeliveryInv
<1>1. ASSUME NEW q \in Requests, D!Record(q) PROVE DeliveryInv'
  <2>1. D!TypeOK'
    BY <1>1 DEF D!Record, D!TypeOK
  <2>2. Kept'
    BY <1>1 DEF D!Record, D!TypeOK, Kept
  <2> QED
    BY <2>1, <2>2
<1>2. ASSUME NEW q \in Requests, D!Send(q) PROVE DeliveryInv'
  <2>1. /\ queue' = Append(queue, q) /\ queue' \in Seq(Requests)
        /\ Len(queue') = Len(queue) + 1 /\ queue'[Len(queue) + 1] = q
        /\ \A j \in 1..Len(queue) : queue'[j] = queue[j]
        /\ Len(queue) < Capacity /\ Len(queue) \in Nat
    BY <1>2 DEF D!Send, D!TypeOK
  <2>2. D!TypeOK'
    BY <1>2, <2>1 DEF D!Send, D!TypeOK
  <2>3. /\ submit[q] = "sending" /\ item[q] = "queued" /\ q # current /\ ~closed
        /\ \A j \in 1..Len(queue) : queue[j] # q
        /\ submit' = [submit EXCEPT ![q] = "accepted"]
        /\ UNCHANGED <<item, closed, worker, current>>
    BY <1>2 DEF D!Send, Kept
  <2>4. Kept'
    BY <2>1, <2>3 DEF D!TypeOK, Kept
  <2> QED
    BY <2>2, <2>4
<1>3. ASSUME NEW q \in Requests, D!SendPanics(q) PROVE DeliveryInv'
  <2>1. D!TypeOK'
    BY <1>3 DEF D!SendPanics, D!TypeOK
  <2>2. Kept'
    BY <1>3 DEF D!SendPanics, D!TypeOK, Kept
  <2> QED
    BY <2>1, <2>2
<1>4. CASE D!WorkerStart
  BY <1>4 DEF D!WorkerStart, D!TypeOK, Kept
<1>5. CASE D!Receive
  <2>1. /\ queue' \in Seq(Requests) /\ Len(queue) \in Nat /\ Len(queue) >= 1
        /\ Len(queue') = Len(queue) - 1 /\ current' = queue[1] /\ queue[1] \in Requests
        /\ \A j \in 1..Len(queue') : queue'[j] = queue[j + 1]
    BY <1>5 DEF D!Receive, D!TypeOK
  <2>2. D!TypeOK'
    BY <1>5, <2>1 DEF D!Receive, D!TypeOK
  <2>3. /\ worker = "receiving" /\ worker' = "delivering" /\ current = Nobody
        /\ UNCHANGED <<submit, item, closed>>
    BY <1>5 DEF D!Receive, Kept
  <2>4. \A j \in 1..Len(queue') : j + 1 \in 1..Len(queue) /\ queue'[j] # queue[1]
    BY <2>1 DEF Kept
  <2>5. \A j \in 1..Len(queue) : j = 1 \/ (j - 1 \in 1..Len(queue') /\ queue'[j - 1] = queue[j])
    BY <2>1
  <2>6. Kept'
    <3>1. \A j, m \in 1..Len(queue') : queue'[j] = queue'[m] => j = m
      BY <2>1, <2>4 DEF Kept
    <3>2. \A j \in 1..Len(queue') : submit'[queue'[j]] = "accepted"
             /\ item'[queue'[j]] = "queued" /\ queue'[j] # current'
      <4> SUFFICES ASSUME NEW j \in 1..Len(queue')
                   PROVE  /\ submit[queue[j + 1]] = "accepted"
                          /\ item[queue[j + 1]] = "queued" /\ queue[j + 1] # queue[1]
        BY <2>1, <2>3
      <4>1. j + 1 \in 1..Len(queue) /\ queue[j + 1] # queue[1]
        BY <2>1, <2>4
      <4> QED
        BY <4>1 DEF Kept
    <3>3. current' # Nobody /\ submit'[current'] = "accepted" /\ item'[current'] = "queued"
      BY <2>1, <2>3 DEF Kept
    <3>4. ASSUME NEW q \in Requests, submit'[q] = "accepted", item'[q] = "queued"
          PROVE  q = current' \/ \E j \in 1..Len(queue') : queue'[j] = q
      <4>1. PICK j \in 1..Len(queue) : queue[j] = q
        BY <2>3, <3>4 DEF Kept
      <4> QED
        BY <2>1, <2>5, <4>1
    <3> QED
      BY <2>3, <3>1, <3>2, <3>3, <3>4 DEF Kept
  <2> QED
    BY <2>2, <2>6
<1>6. CASE D!WorkerDone
  BY <1>6 DEF D!WorkerDone, D!TypeOK, Kept
<1>7. CASE D!CloseQueue
  BY <1>7 DEF D!CloseQueue, D!TypeOK, Kept
<1>8. ASSUME NEW outcome \in Outcomes, D!Delivered(outcome) PROVE DeliveryInv'
  <2>1. current \in Requests
    BY <1>8 DEF D!Delivered, D!TypeOK, Kept
  <2>2. D!TypeOK'
    BY <1>8, <2>1 DEF D!Delivered, D!TypeOK
  <2>3. Kept'
    BY <1>8, <2>1 DEF D!Delivered, D!TypeOK, Kept
  <2> QED
    BY <2>2, <2>3
<1>9. CASE UNCHANGED delivery
  BY <1>9 DEF delivery, D!TypeOK, Kept
<1> QED
  BY <1>1, <1>2, <1>3, <1>4, <1>5, <1>6, <1>7, <1>8, <1>9

LEMMA DeliveryStep ==
    ASSUME RunInv, DeliveryInv, [StackNext]_all
    PROVE  DeliveryInv'
<1>1. CASE \E q \in Requests : HandlerSubmits(q)
  BY <1>1, QueueStep DEF HandlerSubmits
<1>2. CASE WorkerStarts \/ WorkerStops \/ WorkerMoves \/ ProviderAnswers
  BY <1>2, QueueStep DEF WorkerStarts, WorkerStops, WorkerMoves, ProviderAnswers
<1> QED
  BY <1>1, <1>2, DeliveryCases, QueueStep

(* A send panics only once the worker has been told to stop, and with it   *)
(* running then only if a Shutdown of the API gave up on its handler.      *)
GivenUp ==
    /\ closed => st[Worker] \in {"stopping", "stopped", "stopFailed"}
    /\ \A q \in Requests : submit[q] = "sending" => req[q] = "running"
    /\ \A q \in Requests : submit[q] = "panicked" => st[Api] = "stopFailed"

LEMMA GivenUpInit == StackInit => GivenUp
  BY Zenon DEF StackInit, D!Init, GivenUp

(* No handler that is sending leaves the server meanwhile.                 *)
LEMMA SendersStay ==
    ASSUME ServerInv, DeliveryInv, GivenUp, RunInv, [StackNext]_all,
           NEW q \in Requests, req[q] = "running", req'[q] # "running"
    PROVE  submit[q] \in {"accepted", "panicked"} /\ submit'[q] = submit[q]
<1> USE DEF ServerInv, S!TypeOK
<1>1. CASE UNCHANGED req
  BY <1>1
<1>2. CASE \E r \in Requests : HandlerAnswers(r)
  BY <1>2 DEF HandlerAnswers, S!Answer, delivery
<1>3. CASE \E r \in Requests : RequestArrives(r) \/ HandlerSubmits(r)
  BY <1>3 DEF RequestArrives, HandlerSubmits, S!Accept, S!Hangup, S!Handle, server
<1>4. CASE ApiStarts \/ ApiStops \/ ApiServes \/ ListenerDies
  BY <1>1, <1>4
  DEF ApiStarts, ApiStops, ApiServes, ListenerDies, S!StartChecked, S!Listen,
      S!StartReturns, S!StartRefused, S!ListenFails, S!ShutdownSeals, S!ShutdownCloses,
      S!ShutdownDone, S!ShutdownExpires, S!ServeBegins, S!ServeClosed, S!ServeFails,
      S!CloseListener
<1> QED
  BY <1>1, <1>2, <1>3, <1>4, ServerCases DEF server

LEMMA GivenUpStep ==
    ASSUME RunInv, ServerInv, DeliveryInv, GivenUp, [StackNext]_all
    PROVE  GivenUp'
<1> USE Names
<1>0. TypeOK
  BY DEF RunInv
<1>1. closed' => st'[Worker] \in {"stopping", "stopped", "stopFailed"}
  <2>1. CASE Levelled(Worker) /\ UNCHANGED delivery
    BY <2>1 DEF Levelled, GivenUp, delivery
  <2>2. CASE WorkerStarts
    BY <1>0, <2>2 DEF WorkerStarts, StartOK, TypeOK, GivenUp, D!WorkerStart
  <2>3. CASE WorkerStops
    BY <1>0, <2>3 DEF WorkerStops, StopOK, StopFails, vars, TypeOK, GivenUp, delivery
  <2>4. CASE UNCHANGED st /\ (WorkerMoves \/ ProviderAnswers)
    BY <2>4 DEF WorkerMoves, ProviderAnswers, D!Receive, D!WorkerDone, D!Delivered, GivenUp
  <2>5. CASE UNCHANGED st /\ \E q \in Requests : HandlerSubmits(q)
    BY <2>5 DEF HandlerSubmits, D!Record, D!Send, D!SendPanics, GivenUp
  <2> QED
    BY <2>1, <2>2, <2>3, <2>4, <2>5, DeliveryCases
<1>2. \A q \in Requests :
        \/ submit'[q] = submit[q]
        \/ submit'[q] = "sending" /\ req'[q] = "running"
        \/ submit'[q] = "accepted"
        \/ submit'[q] = "panicked" /\ submit[q] = "sending" /\ closed
  <2> USE DEF ServerInv, S!TypeOK, DeliveryInv, D!TypeOK
  <2>1. CASE UNCHANGED submit
    BY <2>1
  <2>2. CASE WorkerStarts \/ WorkerStops \/ WorkerMoves \/ ProviderAnswers
    BY <2>1, <2>2
    DEF WorkerStarts, WorkerStops, WorkerMoves, ProviderAnswers, D!WorkerStart, D!CloseQueue,
        D!Receive, D!WorkerDone, D!Delivered, delivery
  <2>3. ASSUME NEW q \in Requests, S!Handle(q), D!Record(q)
        PROVE  \A r \in Requests :
                 submit'[r] = submit[r] \/ (submit'[r] = "sending" /\ req'[r] = "running")
    BY <2>3 DEF S!Handle, D!Record
  <2>4. ASSUME NEW q \in Requests, D!Send(q) \/ D!SendPanics(q)
        PROVE  \A r \in Requests :
                 \/ submit'[r] = submit[r] \/ submit'[r] = "accepted"
                 \/ submit'[r] = "panicked" /\ submit[r] = "sending" /\ closed
    BY <2>4 DEF D!Send, D!SendPanics
  <2> QED
    BY <2>1, <2>2, <2>3, <2>4, DeliveryCases DEF HandlerSubmits, delivery
<1>3. \A q \in Requests : submit'[q] = "sending" => req'[q] = "running"
  BY <1>2, SendersStay DEF GivenUp
<1>4. closed /\ (\E q \in Requests : submit[q] = "sending") => st[Api] = "stopFailed"
  BY WhileHandled DEF GivenUp
<1>5. st[Api] = "stopFailed" => st'[Api] = "stopFailed"
  <2>1. CASE Levelled(Api) \/ st'[Api] = st[Api] \/ UNCHANGED st
    BY <2>1 DEF Levelled
  <2>2. CASE ApiStarts \/ ApiStops
    BY <2>2 DEF ApiStarts, ApiStops
  <2> QED
    BY <2>1, <2>2, ServerCases
<1> QED
  BY <1>1, <1>2, <1>3, <1>4, <1>5 DEF GivenUp

(* No notification that was accepted is lost, and none is delivered twice; *)
(* one that was recorded and not accepted was given up on.                 *)
THEOREM NotificationsAreKept == StackSpec => []NothingLostOrTwice
<1>1. RunInv /\ DeliveryInv /\ GivenUp => NothingLostOrTwice
  <2> SUFFICES ASSUME RunInv, DeliveryInv, GivenUp, NEW q \in Requests
               PROVE  /\ (IF submit[q] \in {"sending", "panicked"} THEN 1 ELSE 0)
                           + Cardinality({j \in 1..Len(queue) : queue[j] = q})
                           + (IF current = q THEN 1 ELSE 0)
                         = IF item[q] = "queued" THEN 1 ELSE 0
                      /\ submit[q] = "panicked" => <<"stop", Api>> \in errs
    BY DEF NothingLostOrTwice
  <2>0. submit[q] = "panicked" => <<"stop", Api>> \in errs
    BY Names DEF GivenUp, RunInv, Collected
  <2> DEFINE at == {j \in 1..Len(queue) : queue[j] = q}
  <2>1. \/ at = {}
        \/ /\ \E j \in 1..Len(queue) : at = {j}
           /\ submit[q] = "accepted" /\ item[q] = "queued" /\ current # q
    BY DEF DeliveryInv, Kept
  <2>2. Cardinality(at) = IF at = {} THEN 0 ELSE 1
    BY <2>1, FS_EmptySet, FS_Singleton
  <2>3. q # Nobody /\ submit[q] \in {"none", "sending", "accepted", "panicked"}
    BY NotificationsAssumption DEF DeliveryInv, D!TypeOK
  <2>4. at = {} =>
          /\ current = q => submit[q] = "accepted" /\ item[q] = "queued"
          /\ submit[q] = "accepted" /\ item[q] = "queued" => current = q
          /\ submit[q] = "none" => item[q] # "queued"
          /\ submit[q] \in {"sending", "panicked"} => item[q] = "queued"
    BY <2>3 DEF DeliveryInv, Kept
  <2> HIDE DEF at
  <2>5. (IF submit[q] \in {"sending", "panicked"} THEN 1 ELSE 0)
          + (IF at = {} THEN 0 ELSE 1) + (IF current = q THEN 1 ELSE 0)
        = IF item[q] = "queued" THEN 1 ELSE 0
    BY <2>1, <2>3, <2>4
  <2> QED
    BY <2>0, <2>2, <2>5 DEF at
<1> QED
  BY <1>1, RunInvInit, RunInvStep, ServerInit, ServerStep, DeliveryInit, DeliveryStep,
     GivenUpInit, GivenUpStep, PTL DEF StackSpec

LEMMA ReachedStep ==
    ASSUME RunInv, ServerInv, DeliveryInv, Reached, [StackNext]_all
    PROVE  Reached'
<1> USE Names
<1>0. TypeOK
  BY DEF RunInv
<1>1. start[Api] # "ok" /\ start'[Api] = "ok" => st[Worker] = "started"
  <2> SUFFICES ASSUME start[Api] # "ok", start'[Api] = "ok" PROVE st[Worker] = "started"
    OBVIOUS
  <2>1. st[Api] = "starting"
    <3>1. ServerInv'
      BY ServerStep
    <3>2. st[Api] \notin Past /\ st'[Api] \in Past
      BY <3>1 DEF ServerInv, ApiInv
    <3>3. CASE ApiStarts
      BY <3>3 DEF ApiStarts
    <3>4. CASE Levelled(Api) \/ st'[Api] = st[Api] \/ UNCHANGED st
      BY <3>2, <3>4 DEF Levelled, Past
    <3>5. CASE ApiStops
      BY <3>2, <3>5 DEF ApiStops, Past
    <3> QED
      BY <3>3, <3>4, <3>5, ServerCases
  <2>2. Api \in Comps /\ Active(Api)
    BY <2>1 DEF RunInv, OrderInv, Stage, Active
  <2>3. Worker \in after[Api]
    BY <2>2, DepsAre DEF RunInv, Declared, Api, Worker
  <2> QED
    BY <2>2, <2>3 DEF RunInv, OrderInv, DependenciesUp
<1>2. /\ st[Worker] \in Past => st'[Worker] \in Past
      /\ st'[Worker] = "stopped" /\ st[Worker] # "stopped" => worker' = "done"
  <2>1. CASE Levelled(Worker) \/ UNCHANGED st
    BY <2>1 DEF Levelled, Past
  <2>2. CASE WorkerStarts
    BY <1>0, <2>2 DEF WorkerStarts, StartOK, TypeOK, Past
  <2>3. CASE WorkerStops
    BY <1>0, <2>3 DEF WorkerStops, StopOK, StopFails, vars, TypeOK, Past, delivery
  <2> QED
    BY <2>1, <2>2, <2>3, DeliveryCases
<1>3. worker = "done" => worker' = "done"
  <2>1. CASE UNCHANGED delivery
    BY <2>1 DEF delivery
  <2>2. CASE WorkerStarts \/ WorkerStops
    BY <2>2 DEF WorkerStarts, WorkerStops, D!WorkerStart, D!CloseQueue, delivery
  <2>3. CASE WorkerMoves \/ ProviderAnswers
    BY <2>3 DEF WorkerMoves, ProviderAnswers, D!Receive, D!WorkerDone, D!Delivered
  <2>4. CASE \E q \in Requests : HandlerSubmits(q)
    BY <2>4 DEF HandlerSubmits, D!Record, D!Send, D!SendPanics
  <2> QED
    BY <2>1, <2>2, <2>3, <2>4, DeliveryCases
<1>4. \A q \in Requests : submit'[q] # "none" => req'[q] # "none"
  <2> USE DEF Reached, ServerInv, DeliveryInv, S!TypeOK, D!TypeOK
  <2>1. \A q \in Requests : req[q] # "none" => req'[q] # "none"
    <3>1. CASE UNCHANGED req
      BY <3>1
    <3>2. ASSUME NEW q \in Requests, S!Accept(q) \/ S!Hangup(q) \/ S!Handle(q) \/ S!Answer(q)
          PROVE  \A r \in Requests : req[r] # "none" => req'[r] # "none"
      BY <3>2 DEF S!Accept, S!Hangup, S!Handle, S!Answer
    <3>3. CASE ApiStarts \/ ApiStops \/ ApiServes \/ ListenerDies
      BY <3>1, <3>3
      DEF ApiStarts, ApiStops, ApiServes, ListenerDies, S!StartChecked, S!Listen,
          S!StartReturns, S!StartRefused, S!ListenFails, S!ShutdownSeals, S!ShutdownCloses,
          S!ShutdownDone, S!ShutdownExpires, S!ServeBegins, S!ServeClosed, S!ServeFails,
          S!CloseListener
    <3>4. CASE UNCHANGED server
      BY <3>1, <3>4 DEF server
    <3> QED
      BY <3>2, <3>3, <3>4, ServerCases DEF RequestArrives, HandlerSubmits, HandlerAnswers
  <2>2. ASSUME NEW q \in Requests, HandlerSubmits(q)
        PROVE  \A r \in Requests : submit'[r] # "none" => submit[r] # "none" \/ req'[r] # "none"
    <3>1. CASE S!Handle(q) /\ D!Record(q)
      BY <3>1 DEF S!Handle, D!Record
    <3>2. CASE D!Send(q) \/ D!SendPanics(q)
      BY <3>2 DEF D!Send, D!SendPanics
    <3> QED
      BY <2>2, <3>1, <3>2 DEF HandlerSubmits
  <2>3. CASE UNCHANGED submit
    BY <2>1, <2>3
  <2>4. CASE WorkerStarts \/ WorkerStops \/ WorkerMoves \/ ProviderAnswers
    BY <2>3, <2>4
    DEF WorkerStarts, WorkerStops, WorkerMoves, ProviderAnswers, D!WorkerStart, D!CloseQueue,
        D!Receive, D!WorkerDone, D!Delivered, delivery
  <2>5. CASE UNCHANGED delivery
    BY <2>3, <2>5 DEF delivery
  <2> QED
    BY <2>1, <2>2, <2>4, <2>5, DeliveryCases
<1> QED
  BY <1>1, <1>2, <1>3, <1>4 DEF Reached, Past

(* What was answered 202 is delivered or has failed by the time the        *)
(* process ends, or Run reports a Stop of the worker that did not finish.  *)
THEOREM AcceptedWorkIsSettled == StackSpec => []AcceptedIsSettled
<1>1. RunInv /\ ServerInv /\ DeliveryInv /\ Reached => AcceptedIsSettled
  <2> SUFFICES ASSUME RunInv, ServerInv, DeliveryInv, Reached, pc = "returned",
                      <<"stop", Worker>> \notin result,
                      NEW q \in Requests, submit[q] = "accepted"
               PROVE  item[q] \in {"delivered", "failed"}
    BY DEF AcceptedIsSettled
  <2>1. start[Api] = "ok" /\ st[Worker] \in Past
    BY DEF Reached, ServerInv, ApiInv
  <2>2. Worker \in Comps
    BY Names DEF RunInv, Declared, Comps, Comp
  <2>3. st[Worker] \in {"stopped", "stopFailed"}
    BY <2>1, <2>2 DEF RunInv, OrderInv, Stage, Active, Past
  <2>4. st[Worker] # "stopFailed"
    BY Names DEF RunInv, Collected, Declared
  <2>5. worker = "done" /\ queue = <<>> /\ current = Nobody
    BY <2>3, <2>4 DEF Reached, DeliveryInv, Kept
  <2>6. Len(queue) = 0 /\ q # Nobody
    BY <2>5, NotificationsAssumption
  <2> QED
    BY <2>5, <2>6 DEF DeliveryInv, Kept, D!TypeOK
<1> QED
  BY <1>1, RunInvInit, RunInvStep, ServerInit, ServerStep, DeliveryInit, DeliveryStep,
     ReachedStep, PTL DEF StackSpec

-----------------------------------------------------------------------------
(* The gates.                                                              *)

(* Which hooks have run says what /readyz answers, and where Run can be.   *)
GateInv ==
    /\ open \in [H!Gates -> BOOLEAN]
    /\ open["ready"] => hook = "up"
    /\ hook \in {"boot", "opening"} => upRun = 0 /\ drainRun = 0
    /\ hook = "opening" => pc = "startedHooks"
    /\ hook = "up" =>
         upRun = 1 /\ drainRun = 0 /\ pc \in {"startedHooks", "select", "drain"}

LEMMA GateCases ==
    ASSUME [StackNext]_all
    PROVE  \/ UNCHANGED <<health, hooks>> /\ (pc' = pc \/ RunAlone)
           \/ RunUp \/ RunDrain
<1>1. CASE Declare \/ Elsewhere \/ AdminDies \/ UNCHANGED all
  BY <1>1 DEF Declare, Add, Elsewhere, Cancel, FatalClose, StopExpires, AdminDies, FatalStore,
              all, vars
<1>2. CASE RunAlone
  BY <1>2 DEF RunAlone, RunBegins, LevelStep, LevelsDone, StartLevel, LevelStarted,
              LevelFailed, AllStarted, Wait, SelectDone, DrainHooksRan, DrainDelayOver,
              StopLevel, LevelStopped, ReturnUnwound, ReturnStopped
<1>3. CASE ClientReturns \/ AdminReturns
  BY <1>3 DEF ClientReturns, AdminReturns, StartReturns, StopReturns, StartOK, StartFails,
              StopOK, StopFails
<1>4. CASE WorkerStarts \/ WorkerStops \/ WorkerMoves \/ ProviderAnswers
  BY <1>4 DEF WorkerStarts, WorkerStops, WorkerMoves, ProviderAnswers, StartOK, StopOK,
              StopFails, vars
<1>5. CASE ApiStarts \/ ApiStops \/ ApiServes \/ ListenerDies
  BY <1>5 DEF ApiStarts, ApiStops, ApiServes, ListenerDies, StartOK, StartFails, StopOK,
              StopFails, FatalStore, vars
<1>6. CASE \E q \in Requests : RequestArrives(q) \/ HandlerSubmits(q) \/ HandlerAnswers(q)
  BY <1>6 DEF RequestArrives, HandlerSubmits, HandlerAnswers, vars
<1> QED
  BY <1>1, <1>2, <1>3, <1>4, <1>5, <1>6 DEF StackNext, StackStep, Exited

LEMMA GateStep ==
    ASSUME RunInv, GateInv, [StackNext]_all
    PROVE  GateInv'
<1> USE NotificationsAssumption DEF GateInv, health
<1>1. CASE UNCHANGED <<health, hooks>> /\ pc' = pc
  BY <1>1 DEF hooks
<1>2. CASE UNCHANGED <<health, hooks>> /\ RunAlone
  <2>1. CASE hook = "opening"
    BY <1>2, <2>1
    DEF RunAlone, RunBegins, LevelStep, LevelsDone, StartLevel, LevelStarted, LevelFailed,
        AllStarted, Wait, SelectDone, DrainHooksRan, DrainDelayOver, StopLevel, LevelStopped,
        ReturnUnwound, ReturnStopped, hooks
  <2>2. CASE hook = "up"
    BY <1>2, <2>2
    DEF RunAlone, RunBegins, LevelStep, LevelsDone, StartLevel, LevelStarted, LevelFailed,
        AllStarted, Wait, SelectDone, DrainHooksRan, DrainDelayOver, StopLevel, LevelStopped,
        ReturnUnwound, ReturnStopped, hooks
  <2>3. CASE hook \notin {"opening", "up"}
    BY <1>2, <2>3 DEF hooks
  <2> QED
    BY <2>1, <2>2, <2>3
<1>3. CASE pc = "startedHooks" /\ H!UpStarted /\ UNCHANGED vars
  BY <1>3 DEF H!UpStarted, H!Gates, vars, hooks
<1>4. CASE RunStartedHook /\ H!UpReady
  BY <1>4 DEF H!UpReady, H!Gates, RunStartedHook
<1>5. CASE RunDrain
  BY <1>5 DEF RunDrain, H!Drain, H!Gates, RunDrainHook
<1> QED
  BY <1>1, <1>2, <1>3, <1>4, <1>5, GateCases DEF RunUp

(* Nobody is told that the service is ready unless all of it is up.        *)
THEOREM ReadyIsServing == StackSpec => []ReadyMeansServing
<1>1. StackInit => GateInv
  BY DEF StackInit, Init, H!Gates, GateInv
<1>2. RunInv /\ GateInv => ReadyMeansServing
  <2> SUFFICES ASSUME RunInv, GateInv, open["ready"], NEW i \in Comp PROVE st[i] = "started"
    BY DEF ReadyMeansServing
  <2>1. pc \in {"startedHooks", "select", "drain"}
    BY DEF GateInv
  <2>2. i \in Comps
    BY <2>1 DEF RunInv, Declared, Comps, Comp
  <2> QED
    BY <2>1, <2>2 DEF RunInv, OrderInv, Stage, Up
<1> QED
  BY <1>1, <1>2, RunInvInit, RunInvStep, GateStep, PTL DEF StackSpec
=============================================================================
