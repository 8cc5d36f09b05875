----------------------------- MODULE Response ------------------------------
(***************************************************************************)
(* One request through a stack of telemetry.Server, AccessLog and Recover, *)
(* in an order the service chose: what the client receives, and what the   *)
(* layers record of it.  Each layer hands the next a statusWriter of its   *)
(* own and does its work in a deferred call, so a panic runs them from the *)
(* innermost out.  The access log writes through a handler of LogHandler,  *)
(* from which other goroutines derive meanwhile.                           *)
(*                                                                         *)
(* The mux and the server of net/http are external.                        *)
(***************************************************************************)
EXTENDS Naturals, Sequences, SequencesExt

CONSTANTS Attrs, Groups, MaxHandlers, Spare

Layers == {"span", "log", "recover"}
OK == 200
EarlyHints == 103
InternalServerError == 500
Nothing == 0             \* no status: none written, recorded or received

VARIABLES
    extracts, handlers, arrays, calls,    \* LogHandler
    args,        \* the arguments of Chain
    logger,      \* the handler of the logger that AccessLog was given
    stage,       \* where the request is
    depth,       \* how many layers are on the goroutine's stack
    sw,          \* sw[k]: the statusWriter of the k-th of them
    pattern,     \* the instance of the request the mux set Pattern on
    panic,       \* what the goroutine is unwinding with
    first,       \* what the handler first did to its writer
    head,        \* the status net/http takes for the response's
    sent,        \* some of the response has left for the client
    received,    \* the status the client gets
    record       \* record[l]: what the layer l left of the request

logging  == <<extracts, handlers, arrays, calls>>
choices  == <<args, logger>>
response == <<sw, first, head, sent>>
vars     == <<logging, choices, response, stage, depth, pattern, panic, received, record>>

L == INSTANCE LogHandler

ASSUME ResponseAssumption == L!LogHandlerAssumption

Blank == [made |-> 0, route |-> FALSE, status |-> Nothing, line |-> <<>>]

(* Mutant of Stack: the last argument of Chain ends up outermost.          *)
StackReversed == Reverse(args)

(* Chain(a, b, c)(next) is a(b(c(next))): the layers, the outermost first. *)
Stack == args

Top == Stack[depth]

(* telemetry.Server rebinds the request, AccessLog and Recover do not: the *)
(* instance that the k-th layer holds.                                     *)
Instance(k) ==
    IF \E j \in 1..k : Stack[j] = "span" THEN "rebound" ELSE "original"

Statuses == {Nothing, OK, EarlyHints, InternalServerError}

TypeOK ==
    /\ args \in Seq(Layers) /\ IsInjective(args)
    /\ logger \in 1..Len(handlers)
    /\ stage \in {"entering", "handler", "leaving", "ended"}
    /\ depth \in 0..Len(args) /\ Len(sw) = depth
    /\ sw \in Seq([status : Statuses \ {Nothing}, written : BOOLEAN])
    /\ pattern \in {"none", "original", "rebound"}
    /\ panic \in {"none", "panic", "abort"}
    /\ first \in {"none", "final", "info", "flush"}
    /\ head \in Statuses \ {EarlyHints} /\ sent \in BOOLEAN
    /\ received \in Statuses \ {EarlyHints}
    /\ record \in [Layers -> [made : Nat, route : BOOLEAN, status : Statuses,
                             line : Seq(L!Ops \cup {"ids", "record", "blank"})]]
    /\ L!TypeOK

Init ==
    /\ L!Init
    /\ args \in {s \in UNION {[1..n -> Layers] : n \in 0..3} : IsInjective(s)}
    /\ logger = 1
    /\ stage = "entering" /\ depth = 0 /\ sw = <<>> /\ pattern = "none"
    /\ panic = "none" /\ first = "none" /\ head = Nothing /\ sent = FALSE
    /\ received = Nothing /\ record = [l \in Layers |-> Blank]

(* Any goroutine, at any time, derives a logger; the service may have made *)
(* its own before it built the stack.                                      *)
DeriveLogger ==
    /\ L!Next
    /\ \/ UNCHANGED logger
       \/ stage = "entering" /\ depth = 0 /\ logger' = Len(handlers')
    /\ UNCHANGED <<args, response, stage, depth, pattern, panic, received, record>>

-----------------------------------------------------------------------------
(* The way in.                                                             *)

Enter ==
    /\ stage = "entering" /\ depth < Len(Stack)
    /\ depth' = depth + 1
    /\ sw' = Append(sw, [status |-> OK, written |-> FALSE])
    /\ UNCHANGED <<logging, choices, first, head, sent, stage, pattern, panic, received, record>>

(* ServeMux sets Pattern on the instance it is handed; an unmounted        *)
(* handler, or its own 404, leaves it empty.                               *)
Dispatch(matches) ==
    /\ stage = "entering" /\ depth = Len(Stack)
    /\ stage' = "handler"
    /\ pattern' = IF matches THEN Instance(depth) ELSE "none"
    /\ UNCHANGED <<logging, choices, response, depth, panic, received, record>>

-----------------------------------------------------------------------------
(* The response writers.                                                   *)

(* Mutant of Recorded: the last status wins.                               *)
RecordedLast(status) ==
    [k \in 1..depth |-> [status |-> status, written |-> TRUE]]

(* What each statusWriter records of a WriteHeader or of a Write, on its   *)
(* way from the top one to the server's.                                   *)
Recorded(status) ==
    [k \in 1..depth |->
        IF sw[k].written THEN sw[k] ELSE [status |-> status, written |-> TRUE]]

(* The server's own writer: the first final status is the response's.  An  *)
(* informational one leaves at once and decides nothing.                   *)
ServerHeader(status) ==
    IF status = EarlyHints THEN UNCHANGED head
    ELSE head' = IF head = Nothing THEN status ELSE head

First(what) == first' = IF first = "none" THEN what ELSE first

-----------------------------------------------------------------------------
(* The handler.                                                            *)
Inside == UNCHANGED <<logging, choices, depth, pattern, received, record>>

WriteHeader(status) ==
    /\ stage = "handler"
    /\ sw' = Recorded(status) /\ ServerHeader(status)
    /\ First(IF status = EarlyHints THEN "info" ELSE "final")
    /\ UNCHANGED <<sent, stage, panic>> /\ Inside

(* A body larger than the server's buffer starts to leave.                 *)
Write(large) ==
    /\ stage = "handler"
    /\ sw' = Recorded(OK) /\ ServerHeader(OK) /\ First("final")
    /\ sent' = (sent \/ large)
    /\ UNCHANGED <<stage, panic>> /\ Inside

(* ResponseController.Flush goes down the Unwrap chain to the server's     *)
(* writer, which answers 200 if nothing has; no statusWriter hears of it.  *)
Flush ==
    /\ stage = "handler"
    /\ ServerHeader(OK) /\ First("flush") /\ sent' = TRUE
    /\ UNCHANGED <<sw, stage, panic>> /\ Inside

Return ==
    /\ stage = "handler" /\ stage' = "leaving"
    /\ UNCHANGED <<response, panic>> /\ Inside

(* abort stands for http.ErrAbortHandler.                                  *)
Panic(value) ==
    /\ stage = "handler" /\ stage' = "leaving"
    /\ panic' = value
    /\ UNCHANGED response /\ Inside

Handler ==
    \/ \E status \in Statuses \ {Nothing} : WriteHeader(status)
    \/ \E large \in BOOLEAN : Write(large)
    \/ Flush \/ Return
    \/ \E value \in {"panic", "abort"} : Panic(value)

-----------------------------------------------------------------------------
(* The way out: the deferred call of each layer, with a panic or without.  *)
Leave ==
    /\ stage = "leaving" /\ depth > 0
    /\ depth' = depth - 1
    /\ UNCHANGED <<logging, choices, stage, pattern, first, sent, received>>

(* What telemetry.Server and AccessLog see: the Pattern of the instance    *)
(* they hold, and a status only if one was written.                        *)
Seen ==
    [made   |-> record[Top].made + 1,
     route  |-> pattern = Instance(depth),
     status |-> IF sw[depth].written THEN sw[depth].status ELSE Nothing,
     line   |-> <<>>]

LeaveServer ==
    /\ Leave /\ Top = "span"
    /\ record' = [record EXCEPT !["span"] = Seen]
    /\ sw' = Front(sw) /\ UNCHANGED <<head, panic>>

(* LogExtractor finds ids in the context of an instance if a span is in    *)
(* it; a tracer is taken to be configured, and baggage is left out.        *)
Correlated(instance) == instance = "rebound"

(* The line is logged with the context of the instance it holds.           *)
LeaveAccessLog ==
    /\ Leave /\ Top = "log"
    /\ record' = [record EXCEPT !["log"] =
                    [Seen EXCEPT !.line = L!Handle(logger, Correlated(Instance(depth)))]]
    /\ sw' = Front(sw) /\ UNCHANGED <<head, panic>>

(* Mutant of Recovers: it always leaves the status to the server.          *)
RecoversSilently ==
    /\ Leave /\ Top = "recover" /\ panic = "panic"
    /\ record' = [record EXCEPT !["recover"].made = @ + 1, !["recover"].status = head]
    /\ panic' = "none"
    /\ sw' = Front(sw) /\ UNCHANGED head

(* It logs the panic, and answers 500 unless its statusWriter has seen     *)
(* something written.  Its record is the status net/http had by then.      *)
Recovers ==
    /\ Leave /\ Top = "recover" /\ panic = "panic"
    /\ record' = [record EXCEPT !["recover"].made = @ + 1, !["recover"].status = head]
    /\ panic' = "none"
    /\ IF sw[depth].written
       THEN sw' = Front(sw) /\ UNCHANGED head
       ELSE sw' = Front(Recorded(InternalServerError)) /\ ServerHeader(InternalServerError)

(* ErrAbortHandler is panicked with again.                                 *)
PassesThrough ==
    /\ Leave /\ Top = "recover" /\ panic # "panic"
    /\ sw' = Front(sw) /\ UNCHANGED <<head, panic, record>>

(* net/http answers 200 for a handler that wrote nothing.  On a panic it   *)
(* closes the connection: what has not left by then does not.              *)
ServerEnds ==
    /\ stage = "leaving" /\ depth = 0
    /\ stage' = "ended"
    /\ received' = IF panic = "none" THEN (IF head = Nothing THEN OK ELSE head)
                   ELSE IF sent THEN head ELSE Nothing
    /\ UNCHANGED <<logging, choices, response, depth, pattern, panic, record>>

Over == stage = "ended" /\ UNCHANGED vars

Next ==
    \/ DeriveLogger
    \/ Enter \/ \E matches \in BOOLEAN : Dispatch(matches)
    \/ Handler
    \/ LeaveServer \/ LeaveAccessLog \/ Recovers \/ PassesThrough
    \/ ServerEnds \/ Over

Spec == Init /\ [][Next]_vars

-----------------------------------------------------------------------------
Observers == {"span", "log"} \cap ToSet(args)

(* Chain was given a before b, which puts a outside of b.                  *)
Outside(a, b) ==
    \E i, j \in DOMAIN args : i < j /\ args[i] = a /\ args[j] = b

(* Every request leaves one span and one line, the one that panicked too   *)
(* (accesslog.go:71-78, server.go:122-129).  The status they state is the  *)
(* one the client received; they state none when the handler wrote none    *)
(* and net/http answered 200 for it, or a Recover outside of them 500.  On *)
(* a panic that reaches net/http, no status means that none was received.  *)
(* Left out are requests whose handler began with an informational status  *)
(* or a Flush, which the statusWriters take for what they are not.         *)
RecordedIsReceived ==
    stage = "ended" => \A l \in Observers :
        /\ record[l].made = 1
        /\ panic = "none" /\ first \in {"none", "final"} =>
             \/ record[l].status = received
             \/ /\ record[l].status = Nothing /\ first = "none"
                /\ received = OK \/ Outside("recover", l)
        /\ panic # "none" /\ first # "flush" /\ record[l].status = Nothing =>
             received = Nothing

(* A panic before anything was written is a 500 to the client and to every *)
(* layer outside of Recover (recover.go:31-37).                            *)
PanicIsAnswered ==
    stage = "ended" /\ record["recover"].made = 1 /\ first = "none" =>
        /\ received = InternalServerError
        /\ \A l \in Observers :
             Outside(l, "recover") => record[l].status = InternalServerError

(* In the order the documents give, the line has the route the mux matched *)
(* and, at the top level, the ids of the span, whatever groups its logger  *)
(* has; the span has the same route (server.go:86-96, handler.go:47-49).   *)
LineIsCorrelated ==
    stage = "ended" /\ Outside("span", "log") =>
        /\ record["log"].route = (pattern # "none")
        /\ record["span"].route = record["log"].route
        /\ extracts => L!TopLevel(record["log"].line, "ids")

(* What a logger was derived with stays its own.                           *)
DerivedKeepsCalls == L!DerivedKeepsCalls
=============================================================================
