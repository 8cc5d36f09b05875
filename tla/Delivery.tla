------------------------------ MODULE Delivery ------------------------------
(***************************************************************************)
(* The notification store and the delivery worker of examples/             *)
(* notifications: request goroutines record a notification and send it on  *)
(* a bounded channel, one worker receives, calls the provider and records  *)
(* the outcome, and the worker's stop closes the channel.                  *)
(***************************************************************************)
EXTENDS Integers, Sequences

CONSTANTS
    Requests,    \* the requests, one notification each
    Capacity,    \* cap(queue)
    Nobody       \* the worker is delivering nothing

VARIABLES
    submit,      \* submit[q]: where the handler of q is, and how it ended
    item,        \* item[q]: the status that the store has for q
    queue,       \* the channel
    closed,      \* it is closed
    worker,      \* where the worker goroutine is
    current      \* what it is delivering

vars == <<submit, item, queue, closed, worker, current>>

TypeOK ==
    /\ submit \in [Requests -> {"none", "sending", "accepted", "panicked"}]
    /\ item \in [Requests -> {"none", "queued", "delivered", "failed"}]
    /\ queue \in Seq(Requests) /\ Len(queue) <= Capacity
    /\ closed \in BOOLEAN
    /\ worker \in {"off", "receiving", "delivering", "done"}
    /\ current \in Requests \cup {Nobody}

Init ==
    /\ submit = [q \in Requests |-> "none"]
    /\ item = [q \in Requests |-> "none"]
    /\ queue = <<>> /\ closed = FALSE
    /\ worker = "off" /\ current = Nobody

-----------------------------------------------------------------------------
(* store.submit, on a request goroutine.                                   *)

(* Mutant of Record: the status is written by Send instead.                *)
RecordLater(q) ==
    /\ submit[q] = "none"
    /\ submit' = [submit EXCEPT ![q] = "sending"]
    /\ UNCHANGED <<item, queue, closed, worker, current>>

(* The notification is in the store before it is in the queue.             *)
Record(q) ==
    /\ submit[q] = "none"
    /\ submit' = [submit EXCEPT ![q] = "sending"]
    /\ item' = [item EXCEPT ![q] = "queued"]
    /\ UNCHANGED <<queue, closed, worker, current>>

(* The send blocks while the channel is full; 202 follows it.              *)
Send(q) ==
    /\ submit[q] = "sending" /\ ~closed
    /\ Len(queue) < Capacity
    /\ queue' = Append(queue, q)
    /\ submit' = [submit EXCEPT ![q] = "accepted"]
    /\ UNCHANGED <<item, closed, worker, current>>

(* A send on a closed channel panics, one that was blocked on it too; the  *)
(* Recover middleware answers 500.                                         *)
SendPanics(q) ==
    /\ submit[q] = "sending" /\ closed
    /\ submit' = [submit EXCEPT ![q] = "panicked"]
    /\ UNCHANGED <<item, queue, closed, worker, current>>

-----------------------------------------------------------------------------
(* The worker.                                                             *)

WorkerStart ==
    /\ worker = "off"
    /\ worker' = "receiving"
    /\ UNCHANGED <<submit, item, queue, closed, current>>

Receive ==
    /\ worker = "receiving" /\ queue # <<>>
    /\ worker' = "delivering" /\ current' = Head(queue)
    /\ queue' = Tail(queue)
    /\ UNCHANGED <<submit, item, closed>>

(* Mutant of Delivered: the loop returns on a failure.                     *)
DeliveredReturns(outcome) ==
    /\ worker = "delivering"
    /\ item' = [item EXCEPT ![current] = outcome]
    /\ worker' = IF outcome = "failed" THEN "done" ELSE "receiving"
    /\ current' = Nobody
    /\ UNCHANGED <<submit, queue, closed>>

(* deliver returned, and setStatus records what it returned.               *)
Delivered(outcome) ==
    /\ worker = "delivering"
    /\ item' = [item EXCEPT ![current] = outcome]
    /\ worker' = "receiving" /\ current' = Nobody
    /\ UNCHANGED <<submit, queue, closed>>

(* Mutant of WorkerDone: the loop ends on close, whatever is queued.       *)
WorkerLeaves ==
    /\ worker = "receiving" /\ closed
    /\ worker' = "done"
    /\ UNCHANGED <<submit, item, queue, closed, current>>

(* The range over a closed channel ends once it is empty.                  *)
WorkerDone ==
    /\ worker = "receiving" /\ queue = <<>> /\ closed
    /\ worker' = "done"
    /\ UNCHANGED <<submit, item, queue, closed, current>>

(* worker.stop closes the queue, once, and then waits for the worker.      *)
CloseQueue ==
    /\ ~closed
    /\ closed' = TRUE
    /\ UNCHANGED <<submit, item, queue, worker, current>>
=============================================================================
