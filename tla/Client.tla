------------------------------- MODULE Client ------------------------------
(***************************************************************************)
(* kit.NewClient: the circuit of Breaker around a retry loop, a span and   *)
(* the service's own middleware around the transport.  The layers are      *)
(* those of Chain, in its order; a call goes down through them and its     *)
(* result up, except that Retry may turn it round.  A goroutine stops      *)
(* where the others can meet it: at the mutex of the breaker, at the       *)
(* transport, and at Retry, which may wait.                                *)
(*                                                                         *)
(* A call is of Retry's loop what Retry.tla leaves of it: which attempts   *)
(* there are, and what comes of them.                                      *)
(***************************************************************************)
EXTENDS Breaker, Sequences, FiniteSetsExt

CONSTANT MaxAttempts     \* Policy.MaxAttempts

ASSUME ClientAssumption == MaxAttempts \in Nat \ {0}

Layers == {"breaker", "retry", "telemetry", "middleware", "transport"}

(* Mutants of Chain: each layer of kit in a place it warns of.             *)
ChainRetryOutside == <<"retry", "breaker", "telemetry", "middleware", "transport">>
ChainSpanOutside  == <<"breaker", "telemetry", "retry", "middleware", "transport">>

(* NewClient, and the transport it ends in.  The first is the outermost.   *)
Chain == <<"breaker", "retry", "telemetry", "middleware", "transport">>

Pos(l) == CHOOSE k \in 1..Len(Chain) : Chain[k] = l

VARIABLES
    at,         \* at[r]: the layer where r is, by its place; 0 is the caller
    res,        \* res[r]: what r carries up, "none" on the way down
    eligible,   \* eligible[r]: Retry may repeat this call
    attempt,    \* attempt[r]: Retry's loop variable
    entered,    \* entered[r][l]: how often this call has entered the layer l
    failed      \* failed[r][l]: how often l handed up an error or a 4xx, 5xx

call       == <<eligible, attempt, entered, failed>>
clientVars == <<vars, at, res, call>>

Carried == Results \cup {"open", "panic"}
Bad(result) == result \in Carried \ {"ok", "panic"}

(* defaultRetryIf; ErrOpen is an error like any other.                     *)
RetryIf(result) == result \in {"throttled", "unavailable", "error", "open"}

ClientTypeOK ==
    /\ TypeOK
    /\ at \in [Requests -> 0..Len(Chain)]
    /\ res \in [Requests -> Carried \cup {"none"}]
    /\ eligible \in [Requests -> BOOLEAN]
    /\ attempt \in [Requests -> 0..MaxAttempts]
    /\ entered \in [Requests -> [Layers -> 0..MaxAttempts]]
    /\ failed \in [Requests -> [Layers -> 0..MaxAttempts]]

Fresh == [l \in Layers |-> 0]

ClientInit ==
    /\ Init
    /\ at = [r \in Requests |-> 0] /\ res = [r \in Requests |-> "none"]
    /\ eligible \in [Requests -> BOOLEAN] /\ attempt = [r \in Requests |-> 0]
    /\ entered = [r \in Requests |-> Fresh] /\ failed = [r \in Requests |-> Fresh]

-----------------------------------------------------------------------------
(* The way down, from the k-th layer to the next where r stops.  It enters *)
(* the layers between; Retry begins its loop.                              *)
Below(k) == Min({j \in k+1..Len(Chain) : Chain[j] \in {"breaker", "transport"}})

Down(r, k) ==
    /\ at' = [at EXCEPT ![r] = Below(k)] /\ res' = [res EXCEPT ![r] = "none"]
    /\ entered' = [entered EXCEPT ![r] = [l \in Layers |->
                      IF Pos(l) \in k+1..Below(k) THEN @[l] + 1 ELSE @[l]]]
    /\ UNCHANGED failed

(* The way up, with a result, from the k-th layer to the next that has to  *)
(* decide what to do with it.                                              *)
Above(k) == Max({0} \cup {j \in 1..k-1 : Chain[j] \in {"breaker", "retry"}})

Up(r, k, result) ==
    /\ at' = [at EXCEPT ![r] = Above(k)] /\ res' = [res EXCEPT ![r] = result]
    /\ failed' = [failed EXCEPT ![r] = [l \in Layers |->
                     IF Bad(result) /\ Pos(l) \in Above(k)+1..k THEN @[l] + 1 ELSE @[l]]]
    /\ UNCHANGED <<eligible, attempt, entered>>

LoopBegins(r, k) ==
    attempt' = [attempt EXCEPT ![r] = IF Pos("retry") \in k+1..Below(k) THEN 1 ELSE @]

Asking(r)   == at[r] = Pos("breaker") /\ res[r] = "none" /\ pc[r] = "idle"
Deciding(r) == at[r] = Pos("retry") /\ res[r] # "none"

-----------------------------------------------------------------------------
Call(r) ==
    /\ at[r] = 0 /\ res[r] = "none"
    /\ Down(r, 0) /\ LoopBegins(r, 0)
    /\ eligible' \in {[eligible EXCEPT ![r] = e] : e \in BOOLEAN}
    /\ UNCHANGED vars

Admitted(r) ==
    /\ Asking(r) /\ Allow(r)
    /\ Down(r, Pos("breaker")) /\ LoopBegins(r, Pos("breaker"))
    /\ UNCHANGED eligible

Rejected(r) == Asking(r) /\ Refuse(r) /\ Up(r, Pos("breaker"), "open")

(* The transport answers, or fails, through telemetry.Client's span.       *)
Answered(r) ==
    /\ at[r] = Pos("transport")
    /\ \E result \in Results :
         (healthy => ~TripIf(result)) /\ Up(r, Pos("transport"), result)
    /\ UNCHANGED vars

(* Retry has waited and sends the next attempt.                            *)
Again(r) ==
    /\ Deciding(r) /\ eligible[r] /\ RetryIf(res[r]) /\ attempt[r] < MaxAttempts
    /\ attempt' = [attempt EXCEPT ![r] = @ + 1]
    /\ Down(r, Pos("retry"))
    /\ UNCHANGED <<vars, eligible>>

(* It returns what it has: there is nothing to retry for, no attempt left, *)
(* or no time to wait.                                                     *)
Settled(r) == Deciding(r) /\ Up(r, Pos("retry"), res[r]) /\ UNCHANGED vars

(* The caller cancels the wait.                                            *)
WaitCut(r) ==
    /\ Deciding(r) /\ eligible[r] /\ RetryIf(res[r]) /\ attempt[r] < MaxAttempts
    /\ ~healthy
    /\ Up(r, Pos("retry"), "error") /\ UNCHANGED vars

(* The breaker records the result; a probe runs its deferred call too.     *)
Recorded(r) ==
    /\ at[r] = Pos("breaker") /\ res[r] \in Results /\ pc[r] = "calling"
    /\ Return(r, res[r])
    /\ IF probe[r] THEN UNCHANGED <<at, res, call>> ELSE Up(r, Pos("breaker"), res[r])

Released(r) == ReleaseProbe(r) /\ Up(r, Pos("breaker"), res[r])

(* The transport or RetryIf panics, up to the caller.                      *)
Panicked(r) ==
    /\ at[r] = Pos("transport") \/ Deciding(r)
    /\ Panic(r)
    /\ at' = [at EXCEPT ![r] = IF probe[r] THEN Pos("breaker") ELSE 0]
    /\ res' = [res EXCEPT ![r] = "panic"]
    /\ UNCHANGED call

Returned(r) ==
    /\ at[r] = 0 /\ res[r] # "none"
    /\ res' = [res EXCEPT ![r] = "none"] /\ attempt' = [attempt EXCEPT ![r] = 0]
    /\ entered' = [entered EXCEPT ![r] = Fresh] /\ failed' = [failed EXCEPT ![r] = Fresh]
    /\ UNCHANGED <<vars, at, eligible>>

-----------------------------------------------------------------------------
(* The clock; and the upstream, from when on no result in hand is a        *)
(* failure and no wait is cancelled.                                       *)
ClockTicks == Tick /\ UNCHANGED <<at, res, call>>

UpstreamRecovers ==
    /\ \A r \in Requests : ~TripIf(res[r])
    /\ Recover /\ UNCHANGED <<at, res, call>>

Moves(r) ==
    \/ Call(r) \/ Admitted(r) \/ Rejected(r) \/ Answered(r)
    \/ Again(r) \/ Settled(r) \/ WaitCut(r)
    \/ Recorded(r) \/ Released(r) \/ Returned(r)

ClientNext ==
    \/ \E r \in Requests : Moves(r) \/ Panicked(r)
    \/ ClockTicks \/ UpstreamRecovers

ClientSpec == ClientInit /\ [][ClientNext]_clientVars

(* Each goroutine goes on calling, and what it calls returns.              *)
FairClientSpec ==
    /\ ClientSpec /\ WF_clientVars(ClockTicks)
    /\ \A r \in Requests : WF_clientVars(Moves(r))

-----------------------------------------------------------------------------
(* A call asks the breaker once, however many attempts it takes; one that  *)
(* is refused reaches no layer beneath (kit/client.go:55-61).              *)
CallIsAskedOnce ==
    \A r \in Requests :
        /\ entered[r]["breaker"] <= 1
        /\ res[r] = "open" => entered[r]["transport"] = 0 /\ entered[r]["retry"] = 0

(* Each attempt has a span of its own, and a run of the service's own      *)
(* middleware, which end as the attempt did (kit/client.go:63-71).         *)
OneSpanPerAttempt ==
    \A r \in Requests : \A l \in {"telemetry", "middleware"} :
        /\ entered[r][l] = entered[r]["transport"]
        /\ failed[r][l] = failed[r]["transport"]
=============================================================================
