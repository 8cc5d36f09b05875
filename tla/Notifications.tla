--------------------------- MODULE Notifications ---------------------------
(***************************************************************************)
(* examples/notifications as buildStack wires it: a Lifecycle of four      *)
(* components, of which the API is an HTTPServer whose handlers submit to  *)
(* the Delivery worker, with the gates of Health moved by the hooks.  Each *)
(* action is an action of one of those modules, or one of Lifecycle's      *)
(* joined with what its Start, Stop or hook does.  The admin server shares *)
(* nothing with the others; its Start and its Stop end as Lifecycle lets,  *)
(* and with N = 3 it is left out.                                          *)
(*                                                                         *)
(* main returns once Run has, and takes every goroutine with it.           *)
(***************************************************************************)
EXTENDS Lifecycle, FiniteSets, Sequences

CONSTANTS
    Requests, Capacity, Nobody, NoStart,
    Outcomes     \* what the provider may make of a delivery

VARIABLES
    start, ln, shutDown, sock, serve, reported, inShutdown, stop, req,
    submit, item, queue, closed, worker, current,
    open, hook

server   == <<start, ln, shutDown, sock, serve, reported, inShutdown, stop, req>>
delivery == <<submit, item, queue, closed, worker, current>>
health   == <<open, hook>>
all      == <<vars, server, delivery, health>>

(* The components, in the order buildStack adds them.                      *)
Client == 1
Worker == 2
Api    == 3
Admin  == 4

ASSUME NotificationsAssumption ==
    /\ N \in {3, 4} /\ StartedHooks = 1 /\ DrainHooks = 1
    /\ Outcomes \subseteq {"delivered", "failed"}
    /\ Capacity \in Nat \ {0} /\ Nobody \notin Requests

S == INSTANCE HTTPServer WITH Starts <- {Api}, Stops <- {Api}
D == INSTANCE Delivery
H == INSTANCE Health WITH Probes <- {}, Checks <- {}, checks <- <<>>, sick <- {},
                          gate <- <<>>, pc <- <<>>, todo <- <<>>, failed <- <<>>,
                          late <- <<>>, doomed <- <<>>

(* Mutant of Deps: the API does not come After the worker.                 *)
LooseDeps(i) ==
    CASE i = Client -> {}
      [] i = Worker -> {Client}
      [] i = Api -> {}
      [] i = Admin -> {Worker}

Deps(i) ==
    CASE i = Client -> {}
      [] i = Worker -> {Client}
      [] i = Api -> {Worker}
      [] i = Admin -> {Worker}

StackInit ==
    /\ Init /\ S!Init /\ D!Init
    /\ open = [g \in H!Gates |-> g = "live"] /\ hook = "boot"

-----------------------------------------------------------------------------
(* Run, between the calls it makes.                                        *)
Declare == n < N /\ Add(Deps(n + 1), FALSE) /\ UNCHANGED <<server, delivery, health>>

RunAlone ==
    /\ \/ n = N /\ RunBegins
       \/ LevelStep \/ LevelsDone
       \/ StartLevel \/ LevelStarted \/ LevelFailed \/ AllStarted
       \/ Wait \/ SelectDone \/ DrainHooksRan \/ DrainDelayOver
       \/ StopLevel \/ LevelStopped \/ ReturnUnwound \/ ReturnStopped
    /\ UNCHANGED <<server, delivery, health>>

(* health.Up and health.Drain.                                             *)
RunUp ==
    /\ \/ pc = "startedHooks" /\ H!UpStarted /\ UNCHANGED vars
       \/ RunStartedHook /\ H!UpReady
    /\ UNCHANGED <<server, delivery>>

RunDrain == RunDrainHook /\ H!Drain /\ UNCHANGED <<server, delivery>>

-----------------------------------------------------------------------------
(* The provider client and the admin server.                               *)
ClientReturns ==
    /\ StartOK(Client) \/ StopOK(Client)
    /\ UNCHANGED <<server, delivery, health>>

AdminReturns ==
    /\ N = Admin
    /\ \/ StartReturns(Admin)
       \/ StopOK(Admin)
       \/ expired[Admin] /\ StopFails(Admin)
    /\ UNCHANGED <<server, delivery, health>>

AdminDies == N = Admin /\ FatalStore(Admin) /\ UNCHANGED <<server, delivery, health>>

-----------------------------------------------------------------------------
(* The worker.                                                             *)
WorkerStarts == StartOK(Worker) /\ D!WorkerStart /\ UNCHANGED <<server, health>>

(* Mutant of WorkerStops: it waits for done and not for its context.       *)
WorkerStopsDeaf ==
    \/ st[Worker] = "stopping" /\ D!CloseQueue /\ UNCHANGED <<vars, server, health>>
    \/ /\ closed /\ worker = "done" /\ StopOK(Worker)
       /\ UNCHANGED <<server, delivery, health>>

WorkerStops ==
    \/ st[Worker] = "stopping" /\ D!CloseQueue /\ UNCHANGED <<vars, server, health>>
    \/ /\ closed
       /\ \/ worker = "done" /\ StopOK(Worker)
          \/ expired[Worker] /\ StopFails(Worker)
       /\ UNCHANGED <<server, delivery, health>>

WorkerMoves == (D!Receive \/ D!WorkerDone) /\ UNCHANGED <<vars, server, health>>

ProviderAnswers ==
    /\ \E outcome \in Outcomes : D!Delivered(outcome)
    /\ UNCHANGED <<vars, server, health>>

-----------------------------------------------------------------------------
(* The API server, and the goroutine that serves it.                       *)
ApiStarts ==
    /\ st[Api] = "starting"
    /\ \/ (S!StartChecked(Api) \/ S!Listen(Api)) /\ UNCHANGED vars
       \/ S!StartReturns(Api) /\ StartOK(Api)
       \/ (S!StartRefused(Api, cancelled \/ ctxDone) \/ S!ListenFails(Api))
            /\ StartFails(Api)
    /\ UNCHANGED <<delivery, health>>

ApiStops ==
    /\ st[Api] = "stopping"
    /\ \/ (S!ShutdownSeals(Api) \/ S!ShutdownCloses(Api)) /\ UNCHANGED vars
       \/ S!ShutdownDone(Api) /\ StopOK(Api)
       \/ expired[Api] /\ S!ShutdownExpires(Api) /\ StopFails(Api)
    /\ UNCHANGED <<delivery, health>>

(* OnServeError is lc.Fatal.                                               *)
ApiServes ==
    /\ \/ (S!ServeBegins(Api) \/ S!ServeClosed(Api)) /\ UNCHANGED vars
       \/ /\ S!ServeFails(Api)
          /\ FatalStore(Api) \/ (fatalErr # NoErr /\ UNCHANGED vars)
    /\ UNCHANGED <<delivery, health>>

ListenerDies == S!CloseListener /\ UNCHANGED <<vars, delivery, health>>

-----------------------------------------------------------------------------
(* The handler of POST /notifications.                                     *)
RequestArrives(q) ==
    (S!Accept(q) \/ S!Hangup(q)) /\ UNCHANGED <<vars, delivery, health>>

HandlerSubmits(q) ==
    /\ \/ S!Handle(q) /\ D!Record(q)
       \/ (D!Send(q) \/ D!SendPanics(q)) /\ UNCHANGED server
    /\ UNCHANGED <<vars, health>>

HandlerAnswers(q) ==
    /\ submit[q] \in {"accepted", "panicked"} /\ S!Answer(q)
    /\ UNCHANGED <<vars, delivery, health>>

-----------------------------------------------------------------------------
(* Signals, timers, and the rest of Fatal.  The client's Stop is over       *)
(* before its timer could be.                                              *)
Elsewhere ==
    /\ Cancel \/ FatalClose \/ \E i \in Comps \ {Client} : StopExpires(i)
    /\ UNCHANGED <<server, delivery, health>>

StackStep ==
    \/ Declare \/ RunAlone \/ RunUp \/ RunDrain
    \/ ClientReturns \/ AdminReturns \/ AdminDies
    \/ WorkerStarts \/ WorkerStops \/ WorkerMoves \/ ProviderAnswers
    \/ ApiStarts \/ ApiStops \/ ApiServes \/ ListenerDies
    \/ \E q \in Requests : RequestArrives(q) \/ HandlerSubmits(q) \/ HandlerAnswers(q)
    \/ Elsewhere

Exited == pc = "returned" /\ UNCHANGED all

StackNext == (pc # "returned" /\ StackStep) \/ Exited

StackSpec == StackInit /\ [][StackNext]_all

(* Each goroutine of the process proceeds, and timers fire.  A Stop        *)
(* returns once its context is done.  Requests, signals, failures and the  *)
(* provider owe nothing.                                                   *)
StackFairness ==
    /\ WF_all(Declare \/ RunAlone \/ RunUp \/ RunDrain)
    /\ WF_all(ClientReturns) /\ WF_all(AdminReturns)
    /\ WF_all(WorkerStarts \/ WorkerStops) /\ WF_all(WorkerMoves)
    /\ WF_all(ApiStarts \/ ApiStops) /\ WF_all(ApiServes)
    /\ \A q \in Requests : WF_all(HandlerSubmits(q) \/ HandlerAnswers(q))
    /\ \A i \in Comp \ {Client} :
         WF_all(StopExpires(i) /\ UNCHANGED <<server, delivery, health>>)
    /\ WF_all(FatalClose /\ UNCHANGED <<server, delivery, health>>)

FairStackSpec == StackSpec /\ StackFairness

-----------------------------------------------------------------------------
StackTypeOK == TypeOK /\ S!TypeOK /\ D!TypeOK

(* A handler runs only while the worker is up, unless the Shutdown of the  *)
(* API gave up on it: the edge After(workerRef) reaches the goroutines of  *)
(* the server and not only its Start and Stop (orders/store.go:13-19).     *)
HandlerHasWorker ==
    \A q \in Requests : req[q] = "running" =>
        st[Worker] = "started" \/ <<"stop", Api>> \in errs

(* Each notification on record is in one place: with its handler, in the   *)
(* queue, with the worker, or settled.  One whose send panicked stays with *)
(* its handler, which has answered 500: it is queued on record and nobody  *)
(* will deliver it (worker.go:42).  That takes a Shutdown of the API that  *)
(* gave up on the handler, which is among what Run reports.                *)
NothingLostOrTwice ==
    \A q \in Requests :
        LET places == (IF submit[q] \in {"sending", "panicked"} THEN 1 ELSE 0)
                    + Cardinality({j \in 1..Len(queue) : queue[j] = q})
                    + (IF current = q THEN 1 ELSE 0)
        IN  /\ places = IF item[q] = "queued" THEN 1 ELSE 0
            /\ submit[q] = "panicked" => <<"stop", Api>> \in errs

(* What was answered 202 has been delivered or has failed by the time the  *)
(* process ends, unless Run reports that the worker's Stop did not finish: *)
(* runtime-guide.md:430-432, graceful draining of accepted work.           *)
AcceptedIsSettled ==
    pc = "returned" /\ <<"stop", Worker>> \notin result =>
        \A q \in Requests :
            submit[q] = "accepted" => item[q] \in {"delivered", "failed"}

(* /readyz is open only while every component is started.                  *)
ReadyMeansServing == open["ready"] => \A i \in Comp : st[i] = "started"

(* The process ends after a signal, whatever the provider does and however *)
(* many handlers are blocked on a full queue; and once the listener of the *)
(* API is dead, through the same shutdown.                                 *)
ProcessEnds ==
    ((pc # "build" /\ ctxDone) \/ sock[Api] = "dead") ~> (pc = "returned")

(* If the provider answers, no handler blocks for ever on the queue: each  *)
(* submits once, so that none is left blocked in the end.                  *)
SubmitIsAnswered ==
    WF_all(ProviderAnswers) =>
        (\E q \in Requests : submit[q] = "sending")
            ~> (pc = "returned" \/ \A q \in Requests : submit[q] # "sending")

(* What Lifecycle assumes of the callbacks it is given, these keep: a Stop *)
(* ends once its context is done, and a Start once it is cancelled         *)
(* (component.go:17-27).                                                   *)
KeepsContract == Contract
=============================================================================
