---------------------------- MODULE OrdersProofs ----------------------------
(***************************************************************************)
(* Theorems about Orders, and with it about the HTTPServer it serves from, *)
(* for any number of Starts, Shutdowns and requests, overlapping in every  *)
(* order.                                                                  *)
(***************************************************************************)
EXTENDS Orders, TLAPS

(* OrdersNext, one disjunct per action.                                    *)
LEMMA OrdersCases ==
    ASSUME [OrdersNext]_<<vars, orders>>
    PROVE  \/ Open \/ Close
           \/ /\ UNCHANGED orders
              /\ \/ \E s \in Starts :
                      \/ /\ start[s] = "idle" => store = "open"
                         /\ \E done \in BOOLEAN : StartRefused(s, done)
                      \/ /\ start[s] = "idle" => store = "open"
                         /\ \/ StartChecked(s) \/ Listen(s) \/ ListenFails(s)
                            \/ StartReturns(s)
                      \/ ServeBegins(s) \/ ServeClosed(s) \/ ServeFails(s)
                 \/ \E c \in Stops :
                      \/ ShutdownNoop(c) \/ ShutdownSeals(c) \/ ShutdownCloses(c)
                      \/ ShutdownDone(c) \/ ShutdownExpires(c)
                 \/ \E q \in Requests : Accept(q) \/ Hangup(q)
                 \/ CloseListener
           \/ \E q \in Requests : Decode(q) \/ RejectLongID(q) \/ GetOrder(q) \/ Respond(q)
           \/ UNCHANGED <<vars, orders>>
  BY DEF OrdersNext, ApiServes, ApiStarts, StartStep, ServeStep, StopStep

-----------------------------------------------------------------------------
(* The types are not inductive alone: a goroutine that has ended is among  *)
(* the reported for ever, so that none may be spawned twice.               *)
Launched == \A s \in Starts : serve[s] # "none" => start[s] = "ok"

Typed == OrdersTypeOK /\ Launched

LEMMA LaunchedStep ==
    ASSUME OrdersTypeOK, Launched, [OrdersNext]_<<vars, orders>>
    PROVE  Launched'
<1> USE DEF OrdersTypeOK, TypeOK, Launched, calls, fields, orders
<1>1. ASSUME NEW s \in Starts,
             \/ \E done \in BOOLEAN : StartRefused(s, done)
             \/ StartChecked(s) \/ Listen(s) \/ ListenFails(s) \/ StartReturns(s)
      PROVE  Launched'
  BY <1>1 DEF StartRefused, StartChecked, Listen, ListenFails, StartReturns
<1>2. ASSUME NEW s \in Starts, ServeBegins(s) \/ ServeClosed(s) \/ ServeFails(s)
      PROVE  Launched'
  BY <1>2 DEF ServeBegins, ServeClosed, ServeFails
<1>3. ASSUME UNCHANGED <<start, serve>> PROVE Launched'
  BY <1>3
<1>4. ASSUME NEW c \in Stops,
             \/ ShutdownNoop(c) \/ ShutdownSeals(c) \/ ShutdownCloses(c)
             \/ ShutdownDone(c) \/ ShutdownExpires(c)
      PROVE  Launched'
  BY <1>3, <1>4 DEF ShutdownNoop, ShutdownSeals, ShutdownCloses, ShutdownDone, ShutdownExpires
<1>5. ASSUME NEW q \in Requests,
             Accept(q) \/ Hangup(q) \/ Decode(q) \/ RejectLongID(q) \/ GetOrder(q) \/ Respond(q)
      PROVE  Launched'
  BY <1>3, <1>5 DEF Accept, Hangup, Decode, Handle, RejectLongID, GetOrder, Respond, Answer, vars
<1>6. ASSUME Open \/ Close \/ CloseListener \/ UNCHANGED <<vars, orders>> PROVE Launched'
  BY <1>3, <1>6 DEF Open, Close, CloseListener, vars
<1> QED
  BY <1>1, <1>2, <1>4, <1>5, <1>6, OrdersCases

LEMMA OrdersTypingStep ==
    ASSUME Typed, [OrdersNext]_<<vars, orders>>
    PROVE  OrdersTypeOK'
<1> USE ServerAssumption DEF Typed, Launched, OrdersTypeOK, TypeOK, calls, fields, orders
<1>1. ASSUME Open \/ Close PROVE OrdersTypeOK'
  BY <1>1 DEF Open, Close, vars
<1>2. ASSUME NEW s \in Starts, UNCHANGED orders,
             \/ \E done \in BOOLEAN : StartRefused(s, done)
             \/ StartChecked(s) \/ Listen(s) \/ ListenFails(s)
      PROVE  OrdersTypeOK'
  BY <1>2 DEF StartRefused, StartChecked, Listen, ListenFails
<1>3. ASSUME NEW s \in Starts, UNCHANGED orders, StartReturns(s)
      PROVE  OrdersTypeOK'
  <2>1. serve[s] = "none"
    BY <1>3 DEF StartReturns
  <2>2. /\ reported' = reported
        /\ \A t \in Starts : serve[t] = "ended" => serve'[t] = "ended"
    BY <1>3, <2>1 DEF StartReturns
  <2>3. reported' \subseteq {t \in Starts : serve'[t] = "ended"}
    BY <2>2
  <2> QED
    BY <1>3, <2>3 DEF StartReturns
<1>4. ASSUME NEW s \in Starts, UNCHANGED orders,
             ServeBegins(s) \/ ServeClosed(s) \/ ServeFails(s)
      PROVE  OrdersTypeOK'
  BY <1>4 DEF ServeBegins, ServeClosed, ServeFails
<1>5. ASSUME NEW c \in Stops, UNCHANGED orders,
             \/ ShutdownNoop(c) \/ ShutdownSeals(c)
             \/ ShutdownDone(c) \/ ShutdownExpires(c)
      PROVE  OrdersTypeOK'
  <2>1. shutDown' \in BOOLEAN
    BY <1>5 DEF ShutdownNoop, ShutdownSeals, ShutdownDone, ShutdownExpires
  <2>2. stop' \in [Stops -> {"idle", "sealed", "draining", "noop", "ok", "expired"}]
    BY <1>5 DEF ShutdownNoop, ShutdownSeals, ShutdownDone, ShutdownExpires
  <2>3. UNCHANGED <<start, ln, sock, serve, reported, inShutdown, req, store, id, reply>>
    BY <1>5 DEF ShutdownNoop, ShutdownSeals, ShutdownDone, ShutdownExpires
  <2> QED
    BY <2>1, <2>2, <2>3
<1>6. ASSUME NEW c \in Stops, UNCHANGED orders, ShutdownCloses(c)
      PROVE  OrdersTypeOK'
  <2>1. sock' \in [Starts -> {"none", "bound", "dead", "closed"}]
    BY <1>6 DEF ShutdownCloses
  <2>2. stop' \in [Stops -> {"idle", "sealed", "draining", "noop", "ok", "expired"}]
    BY <1>6 DEF ShutdownCloses
  <2>3. inShutdown' \in BOOLEAN
    BY <1>6 DEF ShutdownCloses
  <2> QED
    BY <1>6, <2>1, <2>2, <2>3 DEF ShutdownCloses
<1>7. ASSUME NEW q \in Requests, UNCHANGED orders, Accept(q) \/ Hangup(q)
      PROVE  OrdersTypeOK'
  BY <1>7 DEF Accept, Hangup
<1>8. ASSUME UNCHANGED orders, CloseListener PROVE OrdersTypeOK'
  BY <1>8 DEF CloseListener
<1>9. ASSUME NEW q \in Requests, Decode(q) PROVE OrdersTypeOK'
  BY <1>9 DEF Decode, Handle
<1>10. ASSUME NEW q \in Requests, RejectLongID(q) \/ GetOrder(q) PROVE OrdersTypeOK'
  BY <1>10 DEF RejectLongID, GetOrder, statusFor, vars
<1>11. ASSUME NEW q \in Requests, Respond(q) PROVE OrdersTypeOK'
  BY <1>11 DEF Respond, Answer
<1>12. ASSUME UNCHANGED <<vars, orders>> PROVE OrdersTypeOK'
  BY <1>12 DEF vars
<1> QED
  BY <1>1, <1>2, <1>3, <1>4, <1>5, <1>6, <1>7, <1>8, <1>9, <1>10, <1>11, <1>12, OrdersCases

LEMMA AlwaysTyped == OrdersSpec => []Typed
<1>1. OrdersInit => Typed
  <2> SUFFICES ASSUME OrdersInit PROVE Typed
    OBVIOUS
  <2>1. shutDown \in BOOLEAN /\ inShutdown \in BOOLEAN
    BY DEF OrdersInit, Init
  <2> QED
    BY <2>1 DEF OrdersInit, Init, Typed, Launched, OrdersTypeOK, TypeOK, Pending
<1>2. Typed /\ [OrdersNext]_<<vars, orders>> => Typed'
  BY LaunchedStep, OrdersTypingStep DEF Typed
<1> QED
  BY <1>1, <1>2, PTL DEF OrdersSpec

(* Every variable has its type in every reachable state.                   *)
THEOREM OrdersTyping == OrdersSpec => []OrdersTypeOK
<1>1. Typed => OrdersTypeOK
  BY DEF Typed
<1> QED
  BY <1>1, AlwaysTyped, PTL

-----------------------------------------------------------------------------
(* What a Shutdown leaves behind is not in ShutdownDrains: its flag is     *)
(* raised, so that a goroutine which has yet to call Serve will not accept.*)
Closing == \A c \in Stops : stop[c] \in {"draining", "ok", "expired"} => inShutdown
Quiet   == \A c \in Stops : stop[c] = "ok" => \A s \in Starts : serve[s] # "accepting"

DrainInv == Closing /\ Quiet /\ ShutdownDrains

LEMMA DrainStep ==
    ASSUME OrdersTypeOK, DrainInv, [OrdersNext]_<<vars, orders>>
    PROVE  DrainInv'
<1> USE DEF OrdersTypeOK, TypeOK, DrainInv, Closing, Quiet, ShutdownDrains, calls, fields, orders
<1>1. ASSUME NEW s \in Starts,
             \/ \E done \in BOOLEAN : StartRefused(s, done)
             \/ StartChecked(s) \/ Listen(s) \/ ListenFails(s) \/ StartReturns(s)
      PROVE  DrainInv'
  BY <1>1 DEF StartRefused, StartChecked, Listen, ListenFails, StartReturns
<1>2. ASSUME NEW s \in Starts, ServeBegins(s) \/ ServeClosed(s) \/ ServeFails(s)
      PROVE  DrainInv'
  BY <1>2 DEF ServeBegins, ServeClosed, ServeFails
<1>3. ASSUME NEW c \in Stops,
             \/ ShutdownNoop(c) \/ ShutdownSeals(c) \/ ShutdownCloses(c)
             \/ ShutdownDone(c) \/ ShutdownExpires(c)
      PROVE  DrainInv'
  BY <1>3 DEF ShutdownNoop, ShutdownSeals, ShutdownCloses, ShutdownDone, ShutdownExpires
<1>4. ASSUME NEW q \in Requests, Accept(q) \/ Hangup(q) \/ Decode(q) \/ Respond(q)
      PROVE  DrainInv'
  BY <1>4 DEF Accept, Hangup, Decode, Handle, Respond, Answer
<1>5. ASSUME CloseListener PROVE DrainInv'
  BY <1>5 DEF CloseListener
<1>6. ASSUME UNCHANGED vars PROVE DrainInv'
  BY <1>6 DEF vars
<1>7. ASSUME NEW q \in Requests, RejectLongID(q) \/ GetOrder(q)
      PROVE  DrainInv'
  BY <1>6, <1>7 DEF RejectLongID, GetOrder
<1>8. ASSUME Open \/ Close PROVE DrainInv'
  BY <1>6, <1>8 DEF Open, Close
<1> QED
  BY <1>1, <1>2, <1>3, <1>4, <1>5, <1>6, <1>7, <1>8, OrdersCases

LEMMA DrainInvariant == OrdersSpec => []DrainInv
<1>1. OrdersInit => DrainInv
  BY DEF OrdersInit, Init, DrainInv, Closing, Quiet, ShutdownDrains
<1>2. OrdersTypeOK /\ DrainInv /\ [OrdersNext]_<<vars, orders>> => DrainInv'
  BY DrainStep
<1> QED
  BY <1>1, <1>2, OrdersTyping, PTL DEF OrdersSpec

(* A Shutdown that returned nil has left no handler, and none will come.   *)
THEOREM ShutdownHasDrained == OrdersSpec => []ShutdownDrains
<1>1. DrainInv => ShutdownDrains
  BY DEF DrainInv
<1> QED
  BY <1>1, DrainInvariant, PTL

-----------------------------------------------------------------------------
(* A socket with a goroutine that has not ended, or on the way to one, is  *)
(* closed by nobody but a Shutdown, which raises the flag with it; under   *)
(* the flag nothing accepts; and what has ended has closed its socket.     *)
Socketed ==
    \A s \in Starts : start[s] = "bound" \/ serve[s] \in {"spawned", "accepting"} =>
        sock[s] # "none" /\ (sock[s] = "closed" => inShutdown)
Sealed == inShutdown => \A s \in Starts : serve[s] = "accepting" => sock[s] # "bound"
Gone   == \A s \in Starts : serve[s] = "ended" => sock[s] = "closed"
Served ==
    \A s \in Starts : /\ start[s] = "ok" => serve[s] # "none"
                      /\ sock[s] # "none" => start[s] \in {"bound", "ok"}

SocketInv == Socketed /\ Sealed /\ Gone /\ Served

LEMMA SocketStep ==
    ASSUME Typed, SocketInv, [OrdersNext]_<<vars, orders>>
    PROVE  SocketInv'
<1> USE ServerAssumption
    DEF Typed, Launched, OrdersTypeOK, TypeOK, SocketInv, Socketed, Sealed, Gone, Served,
        calls, fields, orders
<1>1. ASSUME NEW s \in Starts,
             \/ \E done \in BOOLEAN : StartRefused(s, done)
             \/ StartChecked(s) \/ Listen(s) \/ ListenFails(s) \/ StartReturns(s)
      PROVE  SocketInv'
  <2>1. CASE \E done \in BOOLEAN : StartRefused(s, done)
    BY <2>1 DEF StartRefused
  <2>2. CASE StartChecked(s) \/ ListenFails(s)
    BY <2>2 DEF StartChecked, ListenFails
  <2>3. CASE Listen(s)
    BY <2>3 DEF Listen
  <2>4. CASE StartReturns(s)
    BY <2>4 DEF StartReturns
  <2> QED
    BY <1>1, <2>1, <2>2, <2>3, <2>4
<1>2. ASSUME NEW s \in Starts, ServeBegins(s) \/ ServeClosed(s) \/ ServeFails(s)
      PROVE  SocketInv'
  BY <1>2 DEF ServeBegins, ServeClosed, ServeFails
<1>3. ASSUME UNCHANGED <<start, sock, serve, inShutdown>> PROVE SocketInv'
  BY <1>3
<1>4. ASSUME NEW c \in Stops, ShutdownCloses(c) PROVE SocketInv'
  BY <1>4 DEF ShutdownCloses
<1>5. ASSUME NEW c \in Stops,
             \/ ShutdownNoop(c) \/ ShutdownSeals(c) \/ ShutdownDone(c) \/ ShutdownExpires(c)
      PROVE  SocketInv'
  BY <1>3, <1>5 DEF ShutdownNoop, ShutdownSeals, ShutdownDone, ShutdownExpires
<1>6. ASSUME NEW q \in Requests,
             Accept(q) \/ Hangup(q) \/ Decode(q) \/ RejectLongID(q) \/ GetOrder(q) \/ Respond(q)
      PROVE  SocketInv'
  BY <1>3, <1>6 DEF Accept, Hangup, Decode, Handle, RejectLongID, GetOrder, Respond, Answer, vars
<1>7. ASSUME CloseListener PROVE SocketInv'
  BY <1>7 DEF CloseListener
<1>8. ASSUME Open \/ Close \/ UNCHANGED <<vars, orders>> PROVE SocketInv'
  BY <1>3, <1>8 DEF Open, Close, vars
<1> QED
  BY <1>1, <1>2, <1>4, <1>5, <1>6, <1>7, <1>8, OrdersCases

LEMMA SocketInvariant == OrdersSpec => [](Typed /\ SocketInv)
<1>1. OrdersInit => SocketInv
  BY DEF OrdersInit, Init, SocketInv, Socketed, Sealed, Gone, Served
<1>2. Typed /\ SocketInv /\ [OrdersNext]_<<vars, orders>> => SocketInv'
  BY SocketStep
<1> QED
  BY <1>1, <1>2, AlwaysTyped, PTL DEF OrdersSpec

(* OnServeError is called of a dead listener, and never of a stopped one:  *)
(* the goroutine that finds its socket closed by another finds the flag.   *)
THEOREM OnlyTheDeadAreReported == OrdersSpec => OnlyDeathsReported
<1>1. Typed /\ SocketInv /\ [OrdersNext]_<<vars, orders>> =>
        [\A s \in Starts : s \in reported' \ reported => sock[s] = "dead"]_vars
  <2> SUFFICES ASSUME Typed, SocketInv, [OrdersNext]_<<vars, orders>>,
                      NEW s \in Starts, s \in reported' \ reported
               PROVE  sock[s] = "dead"
    BY DEF vars
  <2>1. reported' # reported
    OBVIOUS
  <2>2. PICK t \in Starts : ServeFails(t)
    BY <2>1, OrdersCases
       DEF StartRefused, StartChecked, Listen, ListenFails, StartReturns, ServeBegins, ServeClosed,
           ShutdownNoop, ShutdownSeals, ShutdownCloses, ShutdownDone, ShutdownExpires,
           Accept, Hangup, Decode, Handle, RejectLongID, GetOrder, Respond, Answer,
           CloseListener, Open, Close, vars
  <2>3. t = s /\ serve[s] = "accepting" /\ sock[s] # "bound" /\ ~inShutdown
    BY <2>2 DEF ServeFails
  <2> QED
    BY <2>3 DEF Typed, OrdersTypeOK, TypeOK, SocketInv, Socketed
<1> QED
  BY <1>1, SocketInvariant, PTL DEF OrdersSpec, OnlyDeathsReported

(* Of a socket that is still bound when a Shutdown has returned.           *)
Straggling ==
    \A c \in Stops, s \in Starts :
        stop[c] \in {"ok", "expired"} /\ sock[s] = "bound" =>
            inShutdown /\ (start[s] = "bound" \/ serve[s] = "spawned")

(* What still listens after a Shutdown has returned, in time or not, is a  *)
(* Start that has yet to return, or one whose goroutine has yet to call    *)
(* Serve, which closes the socket at once (server.go:93-96).               *)
THEOREM OnlyStragglersListen == OrdersSpec => []Straggling
<1>1. Typed /\ SocketInv /\ DrainInv => Straggling
  BY DEF Typed, OrdersTypeOK, TypeOK, SocketInv, Sealed, Gone, Served, DrainInv, Closing,
         Straggling
<1> QED
  BY <1>1, SocketInvariant, DrainInvariant, PTL

-----------------------------------------------------------------------------
(* A handler runs only if a Start has returned nil; then the Store is      *)
(* open, or a Shutdown that left the handler running has returned.  What   *)
(* the path asks for is known before it is answered.                       *)
Serving == \A q \in Requests :
             req[q] \in {"accepted", "running"} => \E s \in Starts : serve[s] # "none"
Asked == \A q \in Requests : req[q] \in {"none", "accepted"} => reply[q] = Pending
StoreFirst == store = "new" => \A s \in Starts : start[s] = "idle"
StoreLast ==
    store = "closed" =>
        \/ \E c \in Stops : stop[c] \in {"ok", "expired"}
        \/ \A s \in Starts : start[s] \in {"idle", "error"}

StoreInv == Serving /\ Asked /\ StoreFirst /\ StoreLast /\ StoredIsFound

LEMMA StoreStep ==
    ASSUME Typed, DrainInv, StoreInv, [OrdersNext]_<<vars, orders>>
    PROVE  StoreInv'
<1> USE DEF Typed, Launched, OrdersTypeOK, TypeOK, StoreInv, Serving, Asked, StoreFirst,
            StoreLast, StoredIsFound, calls, fields, orders
<1>1. ASSUME Open \/ Close PROVE StoreInv'
  BY <1>1 DEF Open, Close, vars
<1>2. ASSUME NEW s \in Starts, UNCHANGED orders, start[s] = "idle" => store = "open",
             \/ \E done \in BOOLEAN : StartRefused(s, done)
             \/ StartChecked(s) \/ Listen(s) \/ ListenFails(s) \/ StartReturns(s)
      PROVE  StoreInv'
  BY <1>2 DEF StartRefused, StartChecked, Listen, ListenFails, StartReturns
<1>3. ASSUME NEW s \in Starts, UNCHANGED orders,
             ServeBegins(s) \/ ServeClosed(s) \/ ServeFails(s)
      PROVE  StoreInv'
  BY <1>3 DEF ServeBegins, ServeClosed, ServeFails
<1>4. ASSUME NEW c \in Stops, UNCHANGED orders,
             \/ ShutdownNoop(c) \/ ShutdownSeals(c) \/ ShutdownCloses(c)
             \/ ShutdownDone(c) \/ ShutdownExpires(c)
      PROVE  StoreInv'
  BY <1>4 DEF ShutdownNoop, ShutdownSeals, ShutdownCloses, ShutdownDone, ShutdownExpires
<1>5. ASSUME NEW q \in Requests, UNCHANGED orders, Accept(q) \/ Hangup(q)
      PROVE  StoreInv'
  BY <1>5 DEF Accept, Hangup
<1>6. ASSUME UNCHANGED orders, CloseListener PROVE StoreInv'
  BY <1>6 DEF CloseListener
<1>7. ASSUME NEW q \in Requests, Decode(q) PROVE StoreInv'
  <2>1. /\ req[q] = "accepted" /\ req' = [req EXCEPT ![q] = "running"]
        /\ UNCHANGED <<start, serve, stop, store, reply>>
        /\ \A p \in Requests : p # q => id'[p] = id[p]
    BY <1>7 DEF Decode, Handle
  <2>2. reply[q] # 404
    BY <2>1 DEF Pending
  <2>3. StoredIsFound'
    BY <2>1, <2>2
  <2> QED
    BY <2>1, <2>3
<1>8. ASSUME NEW q \in Requests, RejectLongID(q) PROVE StoreInv'
  BY <1>8 DEF RejectLongID, vars, statusFor, Pending
<1>9. ASSUME NEW q \in Requests, GetOrder(q) PROVE StoreInv'
  BY <1>9 DEF GetOrder, vars, statusFor, Pending, DrainInv, ShutdownDrains
<1>10. ASSUME NEW q \in Requests, Respond(q) PROVE StoreInv'
  BY <1>10 DEF Respond, Answer
<1>11. ASSUME UNCHANGED <<vars, orders>> PROVE StoreInv'
  BY <1>11 DEF vars
<1> QED
  BY <1>1, <1>2, <1>3, <1>4, <1>5, <1>6, <1>7, <1>8, <1>9, <1>10, <1>11, OrdersCases

(* A stored order is found by every handler that no Shutdown gave up on.   *)
THEOREM StoredIsAlwaysFound == OrdersSpec => []StoredIsFound
<1>1. OrdersInit => DrainInv /\ StoreInv
  BY ServerAssumption DEF OrdersInit, Init, DrainInv, Closing, Quiet, ShutdownDrains, StoreInv, Serving,
         Asked, Pending, StoreFirst, StoreLast, StoredIsFound
<1>2. Typed /\ DrainInv /\ StoreInv /\ [OrdersNext]_<<vars, orders>>
        => DrainInv' /\ StoreInv'
  BY DrainStep, StoreStep DEF Typed
<1>3. StoreInv => StoredIsFound
  BY DEF StoreInv
<1> QED
  BY <1>1, <1>2, <1>3, AlwaysTyped, PTL DEF OrdersSpec
=============================================================================
