------------------------------- MODULE Retry -------------------------------
(***************************************************************************)
(* One call through resilience.Retry, with resilience.Timeout beneath it   *)
(* bounding each attempt.  The upstream may answer anything, the transport *)
(* may panic, the caller may cancel at any moment, and the deadline of the *)
(* call comes nearer while an attempt is in flight, a response is drained  *)
(* or Retry waits.                                                         *)
(*                                                                         *)
(* Time is counted in ticks, and a time.Duration has a width: it is in     *)
(* -Half..Half-1.  A timer that is due fires before the next tick.         *)
(***************************************************************************)
EXTENDS Integers, Sequences

CONSTANTS
    MaxAttempts,     \* Policy.MaxAttempts
    Base,            \* Policy.Backoff is Jitter(Exponential(Base, MaxBackoff))
    MaxBackoff,
    MaxRetryAfter,   \* maxRetryAfter
    Second,          \* time.Second
    Half,            \* 2^63
    Headers,         \* the Retry-After headers that the upstream may send
    Deadlines        \* how far off the deadline of a call may be

NoDeadline == -1
NoHeader   == [kind |-> "none", v |-> 0]

ASSUME RetryAssumption ==
    /\ MaxAttempts \in Int /\ Deadlines \subseteq Nat \cup {NoDeadline}
    /\ Half \in Nat \ {0} /\ {Base, MaxBackoff, MaxRetryAfter, Second} \subseteq 1..Half-1
    /\ NoHeader \in Headers
    /\ Headers \subseteq [kind : {"none", "seconds", "date"}, v : 0..Half-1]

(* withDefaults.                                                           *)
Attempts == IF MaxAttempts <= 0 THEN 3 ELSE MaxAttempts

VARIABLES
    call,       \* the request: is its method retried, what body has it
    pc,         \* where Retry is
    attempt,    \* the loop variable
    wire,       \* wire[a]: the body that attempt a put on the wire
    status,     \* the result in hand: a class of status, or a transport error
    header,     \* its Retry-After
    body,       \* body[a]: the body of the response to attempt a
    lease,      \* lease[a]: the context that Timeout made for attempt a
    delay,      \* what is left of the wait
    left,       \* how far off the deadline is
    cancelled,  \* the caller has cancelled the call
    lag,        \* how long the last drain took
    result      \* what the call returned

reply == <<status, header>>
held  == <<body, lease>>
clock == <<left, cancelled, lag>>
vars  == <<call, pc, attempt, wire, reply, held, delay, clock, result>>

CtxDone == cancelled \/ left = 0

TypeOK ==
    /\ call \in [listed : BOOLEAN, body : {"none", "replayable", "opaque"}]
    /\ pc \in {"idle", "sending", "inFlight", "deciding", "draining", "waiting",
               "returned", "panicked"}
    /\ attempt \in 1..Attempts
    /\ wire \in Seq({"none", "full", "empty"}) /\ Len(wire) <= Attempts
    /\ status \in {"error", "answer", "gateway", "unavailable"}
    /\ header \in Headers
    /\ body \in [1..Attempts -> {"none", "open", "closed"}]
    /\ lease \in [1..Attempts -> {"none", "live", "cancelled"}]
    /\ delay \in -Half..Half-1
    /\ left \in Nat \cup {NoDeadline} /\ cancelled \in BOOLEAN /\ lag \in Nat
    /\ result \in {"none", "reply", "buildErr", "ctxErr",
                  "transport", "retryIf", "backoff"}

Init ==
    /\ call \in [listed : BOOLEAN, body : {"none", "replayable", "opaque"}]
    /\ pc = "idle" /\ attempt = 1 /\ wire = <<>>
    /\ status = "error" /\ header = NoHeader
    /\ body = [a \in 1..Attempts |-> "none"]
    /\ lease = [a \in 1..Attempts |-> "none"]
    /\ delay = 0 /\ left \in Deadlines /\ cancelled = FALSE /\ lag = 0
    /\ result = "none"

-----------------------------------------------------------------------------
(* The policy.                                                             *)

Wrap(d) == ((d + Half) % (2 * Half)) - Half

(* Mutant of eligible: the body is not looked at.                          *)
EligibleAnyBody == call.listed

(* A retry needs a listed method, and GetBody if there is a body.          *)
eligible == call.listed /\ call.body # "opaque"

IsLast  == attempt >= Attempts
RetryIf == status \in {"error", "gateway", "unavailable"}

(* Base, doubled for each attempt after the first.                         *)
Uncapped[n \in Nat] == IF n <= 1 THEN Base ELSE 2 * Uncapped[n - 1]

(* Mutant of Exponential: the cap is not applied.                          *)
ExponentialUncapped(n) == Uncapped[n]

Doubling(d) == IF d >= MaxBackoff \div 2 THEN MaxBackoff ELSE 2 * d
Doubled[n \in Nat] ==
    IF n <= 1 THEN IF Base > MaxBackoff THEN MaxBackoff ELSE Base
              ELSE Doubling(Doubled[n - 1])
Exponential(n) == Doubled[n]

Jitter(d) == IF d <= 0 THEN {0} ELSE 0..d

(* The delays a usable header asks for: one, or none.  A date in the past  *)
(* asks for 0; a product of seconds wraps.                                 *)
RetryAfter ==
    CASE status # "unavailable" \/ header.kind = "none" -> {}
      [] status = "unavailable" /\ header.kind = "date" -> {header.v}
      [] status = "unavailable" /\ header.kind = "seconds" ->
            {Wrap(header.v * Second)}

(* The delays that do() may choose.                                        *)
Delays ==
    LET asked == {d \in RetryAfter : d <= MaxRetryAfter}
    IN  IF asked # {} THEN asked ELSE Jitter(Exponential(attempt))

canWait(d) == left = NoDeadline \/ left > d

-----------------------------------------------------------------------------
(* The loop.                                                               *)

Return(res) ==
    /\ pc' = "returned" /\ result' = res
    /\ UNCHANGED <<attempt, wire>>

Close(a) ==
    /\ body' = [body EXCEPT ![a] = IF @ = "open" THEN "closed" ELSE @]
    /\ lease' = [lease EXCEPT ![a] = "cancelled"]

Begin ==
    /\ pc = "idle" /\ pc' = "sending"
    /\ UNCHANGED <<call, attempt, wire, reply, held, delay, clock, result>>

(* attemptRequest and the start of Timeout: the first attempt sends the    *)
(* body of the request, a later one what GetBody returns, and without      *)
(* GetBody what the first attempt has left of it.                          *)
Send ==
    /\ pc = "sending" /\ pc' = "inFlight"
    /\ wire' = Append(wire, CASE call.body = "none" -> "none"
                              [] call.body = "opaque" /\ attempt > 1 -> "empty"
                              [] OTHER -> "full")
    /\ lease' = [lease EXCEPT ![attempt] = "live"]
    /\ UNCHANGED <<call, attempt, reply, body, delay, clock, result>>

GetBodyFails ==
    /\ pc = "sending" /\ attempt > 1 /\ call.body = "replayable"
    /\ Return("buildErr")
    /\ UNCHANGED <<call, reply, held, delay, clock>>

(* Mutant of Answer: Timeout leaves the context of a failed attempt to its *)
(* timer.                                                                  *)
AnswerLeavesContext(st, h) ==
    /\ pc = "inFlight" /\ pc' = "deciding"
    /\ status' = st /\ header' = h
    /\ body' = [body EXCEPT ![attempt] = IF st = "error" THEN "none" ELSE "open"]
    /\ UNCHANGED <<call, attempt, wire, lease, delay, clock, result>>

(* The round trip ends: an error, of Timeout's deadline too, cancels the   *)
(* context; a response takes it along, to be cancelled with its body.      *)
Answer(st, h) ==
    /\ pc = "inFlight" /\ pc' = "deciding"
    /\ status' = st /\ header' = h
    /\ IF st = "error" THEN Close(attempt)
                       ELSE /\ body' = [body EXCEPT ![attempt] = "open"]
                            /\ UNCHANGED lease
    /\ UNCHANGED <<call, attempt, wire, delay, clock, result>>

(* The transport panics: cancel() is not deferred, and the context is left *)
(* to its timer.                                                           *)
TransportPanics ==
    /\ pc = "inFlight"
    /\ pc' = "panicked" /\ result' = "transport"
    /\ UNCHANGED <<call, attempt, wire, reply, held, delay, clock>>

(* Not eligible, the last attempt, or nothing to retry for.                *)
Settle ==
    /\ pc = "deciding"
    /\ ~eligible \/ IsLast \/ ~RetryIf
    /\ Return("reply")
    /\ UNCHANGED <<call, reply, held, delay, clock>>

(* Retry would have to wait until after the deadline.                      *)
GiveUp ==
    /\ pc = "deciding" /\ eligible /\ ~IsLast /\ RetryIf
    /\ \E d \in Delays : ~canWait(d)
    /\ Return("reply")
    /\ UNCHANGED <<call, reply, held, delay, clock>>

(* Mutant of TryAgain: the deadline is not looked at.                      *)
TryAgainBlind ==
    /\ pc = "deciding" /\ eligible /\ ~IsLast /\ RetryIf
    /\ delay' \in Delays
    /\ pc' = "draining" /\ lag' = 0
    /\ UNCHANGED <<call, attempt, wire, reply, held, left, cancelled, result>>

TryAgain ==
    /\ pc = "deciding" /\ eligible /\ ~IsLast /\ RetryIf
    /\ \E d \in Delays : canWait(d) /\ delay' = d
    /\ pc' = "draining" /\ lag' = 0
    /\ UNCHANGED <<call, attempt, wire, reply, held, left, cancelled, result>>

(* RetryIf is the caller's; its panic takes the response with it.          *)
RetryIfPanics ==
    /\ pc = "deciding" /\ eligible /\ ~IsLast
    /\ pc' = "panicked" /\ result' = "retryIf" /\ Close(attempt)
    /\ UNCHANGED <<call, attempt, wire, reply, delay, clock>>

(* So is Backoff, but nothing drains the response when that panics.        *)
BackoffPanics ==
    /\ pc = "deciding" /\ eligible /\ ~IsLast /\ RetryIf
    /\ pc' = "panicked" /\ result' = "backoff"
    /\ UNCHANGED <<call, attempt, wire, reply, held, delay, clock>>

drain ==
    /\ pc = "draining" /\ pc' = "waiting"
    /\ Close(attempt)
    /\ UNCHANGED <<call, attempt, wire, reply, delay, clock, result>>

(* Mutant of Waited: the loop variable stays as it is.                     *)
WaitedInPlace ==
    /\ pc = "waiting" /\ delay <= 0 /\ pc' = "sending"
    /\ wire' = SubSeq(wire, 1, attempt - 1)
    /\ UNCHANGED <<call, attempt, reply, held, delay, clock, result>>

(* The timer fires; a wait of 0 or less has none, and looks at ctx.Err().  *)
Waited ==
    /\ pc = "waiting" /\ delay <= 0
    /\ pc' = "sending" /\ attempt' = attempt + 1
    /\ UNCHANGED <<call, wire, reply, held, delay, clock, result>>

WaitCut ==
    /\ pc = "waiting" /\ CtxDone
    /\ Return("ctxErr")
    /\ UNCHANGED <<call, reply, held, delay, clock>>

-----------------------------------------------------------------------------
(* The caller and the clock.                                               *)

CallerCloses ==
    /\ pc = "returned" /\ result = "reply" /\ body[attempt] = "open"
    /\ Close(attempt)
    /\ UNCHANGED <<call, pc, attempt, wire, reply, delay, clock, result>>

(* The context of an attempt is done: its timer fires, or the call's own   *)
(* context is done.                                                        *)
Expires(a) ==
    /\ lease[a] = "live" /\ lease' = [lease EXCEPT ![a] = "cancelled"]
    /\ UNCHANGED <<call, pc, attempt, wire, reply, body, delay, clock, result>>

Cancel ==
    /\ pc \notin {"returned", "panicked"} /\ cancelled' = TRUE
    /\ UNCHANGED <<call, pc, attempt, wire, reply, held, delay, left, lag, result>>

Tick ==
    /\ \/ pc \in {"inFlight", "draining"} /\ left > 0
       \/ pc = "waiting" /\ delay > 0 /\ ~CtxDone
    /\ left' = IF left > 0 THEN left - 1 ELSE left
    /\ delay' = IF pc = "waiting" THEN delay - 1 ELSE delay
    /\ lag' = IF pc = "draining" THEN lag + 1 ELSE lag
    /\ UNCHANGED <<call, pc, attempt, wire, reply, held, cancelled, result>>

RoundTrip ==
    \E st \in {"error", "answer", "gateway", "unavailable"}, h \in Headers : Answer(st, h)

Loop ==
    \/ Begin \/ Send \/ GetBodyFails \/ RoundTrip \/ TransportPanics
    \/ Settle \/ GiveUp \/ TryAgain \/ RetryIfPanics \/ BackoffPanics
    \/ drain \/ Waited \/ WaitCut

Next ==
    \/ Loop \/ Tick \/ Cancel \/ CallerCloses
    \/ \E a \in 1..Attempts : Expires(a)

Spec == Init /\ [][Next]_vars

(* The goroutine of the call proceeds, a round trip ends because Timeout   *)
(* ends it, and time passes.                                               *)
FairSpec == Spec /\ WF_vars(Loop) /\ WF_vars(pc = "waiting" /\ Tick)

-----------------------------------------------------------------------------
(* What is sent more than once has a listed method and the same body each  *)
(* time (retry.go:150-161): no attempt puts an empty body on the wire.     *)
SafeToRepeat ==
    Len(wire) > 1 =>
        /\ call.listed
        /\ \A a \in 1..Len(wire) : wire[a] = wire[1]

(* What a call leaves behind, whichever way it ends, and what it holds     *)
(* while it waits: of the attempts before the last nothing.  Of the last,  *)
(* the response that it returns, for the caller to close, with the context *)
(* of it (timeout.go:44-58).  Two panics leave more than they should: that *)
(* of a Backoff the response in hand, unlike that of a RetryIf             *)
(* (retry.go:199-206); that of the transport the context of its attempt,   *)
(* until the timer fires (timeout.go:27-33).                               *)
NothingElseIsLeft ==
    pc \in {"waiting", "returned", "panicked"} =>
        \A a \in 1..Attempts :
            /\ body[a] = "open" => a = attempt /\ result \in {"reply", "backoff"}
            /\ lease[a] = "live" =>
                   a = attempt /\ (body[a] = "open" \/ result = "transport")

(* A call gives up the response it has for the error of its context only   *)
(* if the caller cancelled, or if draining that response took up the time  *)
(* that was left; a deadline known beforehand costs nobody the response    *)
(* (retry.go:235-240).  A negative wait, from a Retry-After that wraps, is *)
(* the other exception.                                                    *)
AnswerKept == result = "ctxErr" => cancelled \/ lag > 0 \/ delay < 0

(* No wait is longer than the doubled and capped backoff or, for an        *)
(* upstream that asks, maxRetryAfter; the doubling never wraps.  An odd    *)
(* MaxBackoff is reached one tick early.                                   *)
WaitIsBounded ==
    pc = "waiting" =>
        \/ delay <= MaxRetryAfter /\ status = "unavailable"
        \/ delay <= MaxBackoff /\ delay <= Uncapped[attempt] + 1

(* A call whose attempts are bounded by Timeout ends.                      *)
CallEnds == (pc = "sending") ~> (pc \in {"returned", "panicked"})
=============================================================================
