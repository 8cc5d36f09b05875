------------------------------- MODULE Worker -------------------------------
(***************************************************************************)
(* examples/worker as buildWorkerStack wires it: Run starts the Consumer,  *)
(* opens the gates of Health, and stops the Consumer once it has drained,  *)
(* or at once if the boot fails.  Who holds the Consumer may start it      *)
(* again, and stop it again.  The admin server that answers the probes is  *)
(* an HTTPServer and left out.                                             *)
(***************************************************************************)
EXTENDS Health

CONSTANTS Starts, Stops, NoLoop

ASSUME WorkerAssumption == NoLoop \notin Starts

VARIABLES start, stop, taken, running, loops, loop, closes, cancelled, closed,
          panicked, replaced

C == INSTANCE Consumer

consumer == <<start, stop, taken, running, loops, loop, closes, cancelled, closed,
              panicked, replaced>>

WorkerInit == Init /\ C!Init

WorkerTypeOK == TypeOK /\ C!TypeOK

(* OnStarted(health.Up): once the queue is started.                        *)
RunUp ==
    /\ UpStarted
    /\ \E s \in Starts : start[s] # "idle"
    /\ \A c \in Stops : stop[c] = "idle"
    /\ UNCHANGED consumer

Gateway ==
    /\ \/ UpReady \/ Drain
       \/ \E c \in Checks : AddReadyCheck(c) \/ Change(c)
       \/ \E p \in Probes : ServeHTTP(p)
    /\ UNCHANGED consumer

ConsumerStarts == (\E s \in Starts : C!StartNoop(s) \/ C!StartLoop(s)) /\ UNCHANGED vars

(* Its Stop begins in a boot that failed, or after the drain.              *)
ConsumerStops ==
    /\ \E c \in Stops :
         \/ hook \in {"boot", "drained"} /\ (C!StopNoop(c) \/ C!StopClaims(c))
         \/ C!StopCancels(c) \/ C!StopDone(c) \/ C!StopExpires(c)
    /\ UNCHANGED vars

ConsumerLoops == (\E s \in Starts : C!LoopBegins(s) \/ C!LoopEnds(s)) /\ UNCHANGED vars

Crashed == panicked /\ UNCHANGED <<vars, consumer>>

WorkerNext ==
    \/ ~panicked /\ (RunUp \/ Gateway \/ ConsumerStarts \/ ConsumerStops \/ ConsumerLoops)
    \/ Crashed

WorkerSpec == WorkerInit /\ [][WorkerNext]_<<vars, consumer>>

-----------------------------------------------------------------------------
(* A Stop that returned nil for a loop has ended it, and no done channel   *)
(* is closed twice: unless the goroutine of a loop began after the next    *)
(* Start, and then took its channel for its own (consumer.go:33, 48).      *)
StopEndsItsLoop ==
    LET Strays == {s \in replaced : closes[s] \notin {s, NoLoop}} IN
    /\ \A c \in Stops : stop[c] = "ok" /\ C!Alive(taken[c]) =>
         \E s \in Strays : closes[s] = taken[c]
    /\ panicked => Strays # {}

(* A loop that nobody has cancelled is the one that Stop would find, or a  *)
(* Stop is about to cancel it: Start never orphans one                     *)
(* (worker_test.go:263-266).                                               *)
NoLoopIsOrphaned ==
    \A s \in Starts : C!Alive(s) /\ s \notin cancelled =>
        \/ running /\ s = Last(loops)
        \/ \E c \in Stops : stop[c] = "claimed" /\ taken[c] = s
=============================================================================
