------------------------------- MODULE Orders -------------------------------
(***************************************************************************)
(* examples/orders: the Server of the API in front of a Store, as          *)
(* buildStack wires them.  The lifecycle opens the Store before it starts  *)
(* the API, and closes it after the Shutdown of the API has returned, in   *)
(* time or not: a handler that outlived it calls Get while Close runs.     *)
(* The API is the one of HTTPServer, with all its overlapping calls.  The  *)
(* admin server and the pricing client share nothing with the two.         *)
(***************************************************************************)
EXTENDS HTTPServer

VARIABLES
    store,       \* what has been called of the Store; its flag open
    id,          \* id[q]: what the path of q asks for
    reply        \* reply[q]: the status of q's answer, or Pending

orders == <<store, id, reply>>

(* Of a path with an empty id there is no route, so RejectEmptyID never    *)
(* finds one.                                                              *)
Ids == {"stored", "unknown", "long"}
Pending == 0

(* statusFor.  Every error of a handler has one of these codes.            *)
statusFor == [order_not_found |-> 404, id_too_long |-> 400]

OrdersTypeOK ==
    /\ TypeOK
    /\ store \in {"new", "open", "closed"}
    /\ id \in [Requests -> Ids \cup {"none"}]
    /\ reply \in [Requests -> {Pending, 200, 400, 404}]

OrdersInit ==
    /\ Init
    /\ store = "new"
    /\ id = [q \in Requests |-> "none"] /\ reply = [q \in Requests |-> Pending]

-----------------------------------------------------------------------------
(* The stack.                                                              *)

Open ==
    /\ store = "new"
    /\ store' = "open"
    /\ UNCHANGED <<vars, id, reply>>

(* Mutant of Close: the API does not come After the Store.                 *)
CloseBeside ==
    /\ store = "open"
    /\ \E c \in Stops : stop[c] \in {"sealed", "draining", "ok", "expired"}
    /\ store' = "closed"
    /\ UNCHANGED <<vars, id, reply>>

(* The API has been stopped, or has failed to start.                       *)
Close ==
    /\ store = "open"
    /\ \/ \E c \in Stops : stop[c] \in {"ok", "expired"}
       \/ /\ \E s \in Starts : start[s] = "error"
          /\ \A s \in Starts : start[s] \in {"idle", "error"}
    /\ store' = "closed"
    /\ UNCHANGED <<vars, id, reply>>

(* The API starts After the Store, and not again once it is closed.        *)
ApiStarts(s) ==
    /\ start[s] = "idle" => store = "open"
    /\ StartStep(s) \/ StartRefused(s, TRUE)
    /\ UNCHANGED orders

ApiServes ==
    /\ \/ \E s \in Starts : ServeStep(s)
       \/ \E c \in Stops : StopStep(c) \/ ShutdownExpires(c)
       \/ \E q \in Requests : Accept(q) \/ Hangup(q)
       \/ CloseListener
    /\ UNCHANGED orders

-----------------------------------------------------------------------------
(* The handler.                                                            *)

Decode(q) ==
    /\ Handle(q)
    /\ \E i \in Ids : id' = [id EXCEPT ![q] = i]
    /\ UNCHANGED <<store, reply>>

RejectLongID(q) ==
    /\ req[q] = "running" /\ reply[q] = Pending /\ id[q] = "long"
    /\ reply' = [reply EXCEPT ![q] = statusFor.id_too_long]
    /\ UNCHANGED <<vars, store, id>>

GetOrder(q) ==
    /\ req[q] = "running" /\ reply[q] = Pending /\ id[q] # "long"
    /\ reply' = [reply EXCEPT ![q] = IF store = "open" /\ id[q] = "stored"
                                       THEN 200 ELSE statusFor.order_not_found]
    /\ UNCHANGED <<vars, store, id>>

Respond(q) ==
    /\ reply[q] # Pending
    /\ Answer(q)
    /\ UNCHANGED orders

OrdersNext ==
    \/ Open \/ Close \/ ApiServes
    \/ \E s \in Starts : ApiStarts(s)
    \/ \E q \in Requests : Decode(q) \/ RejectLongID(q) \/ GetOrder(q) \/ Respond(q)

OrdersSpec == OrdersInit /\ [][OrdersNext]_<<vars, orders>> /\ Proceeds

-----------------------------------------------------------------------------
(* A stored order is reported missing only by a handler that a Shutdown    *)
(* has given up on: not before the Store is open, and not while the API    *)
(* drains (store.go:15-20, stack.go:98-104).                               *)
StoredIsFound ==
    \A q \in Requests : id[q] = "stored" /\ reply[q] = 404 =>
        \E c \in Stops : stop[c] = "expired"
=============================================================================
