------------------------------ MODULE Breaker ------------------------------
(***************************************************************************)
(* resilience.Breaker: one circuit shared by the requests of one client.   *)
(* allow, record and releaseProbe each hold the mutex; the round trip      *)
(* between them does not, and neither does the gap between record and the  *)
(* deferred releaseProbe, so the requests interleave there.                *)
(*                                                                         *)
(* Time advances in ticks.  age is how long ago openedAt is, counted up to *)
(* Cooldown.  A round trip may take any number of ticks: the breaker sets   *)
(* no bound on it.                                                         *)
(***************************************************************************)
EXTENDS Integers

CONSTANTS
    Requests,            \* the goroutines that send requests, one at a time each
    FailureThreshold,    \* BreakerPolicy.FailureThreshold
    CooldownTicks        \* BreakerPolicy.Cooldown

ASSUME BreakerAssumption ==
    FailureThreshold \in Int /\ CooldownTicks \in Int

(* withDefaults.                                                           *)
Threshold == IF FailureThreshold <= 0 THEN 5 ELSE FailureThreshold
Cooldown  == IF CooldownTicks <= 0 THEN 30 ELSE CooldownTicks

(* What a round trip can give: a response below 500, a 429, a 5xx that is  *)
(* among those Retry retries or is not, or a transport error; and          *)
(* defaultTripIf.                                                          *)
Results     == {"ok", "throttled", "fault", "unavailable", "error"}
TripIf(res) == res \in {"fault", "unavailable", "error"}

VARIABLES
    state,      \* breaker.state
    fails,      \* breaker.fails, counted up to Threshold + 1
    age,        \* now() - breaker.openedAt, counted up to Cooldown
    probing,    \* breaker.probing
    pc,         \* pc[r]: where request r is
    probe,      \* probe[r]: allow told r that it is the probe
    healthy     \* the upstream has recovered for good

circuit == <<state, fails, age, probing>>
vars    == <<circuit, pc, probe, healthy>>

InFlight(r) == pc[r] # "idle"

TypeOK ==
    /\ state \in {"closed", "open", "halfOpen"}
    /\ fails \in 0..Threshold+1 /\ age \in 0..Cooldown /\ probing \in BOOLEAN
    /\ pc \in [Requests -> {"idle", "calling", "releasing"}]
    /\ probe \in [Requests -> BOOLEAN]
    /\ healthy \in BOOLEAN

Init ==
    /\ state = "closed" /\ fails = 0 /\ age = 0 /\ probing = FALSE
    /\ pc = [r \in Requests |-> "idle"]
    /\ probe = [r \in Requests |-> FALSE]
    /\ healthy = FALSE

-----------------------------------------------------------------------------
(* allow.                                                                  *)

Enter(r, isProbe) ==
    /\ pc[r] = "idle"
    /\ pc' = [pc EXCEPT ![r] = "calling"]
    /\ probe' = [probe EXCEPT ![r] = isProbe]
    /\ UNCHANGED <<fails, age, healthy>>

AllowClosed(r) == state = "closed" /\ Enter(r, FALSE) /\ UNCHANGED <<state, probing>>

AllowCooledDown(r) ==
    /\ state = "open" /\ age = Cooldown
    /\ Enter(r, TRUE)
    /\ state' = "halfOpen" /\ probing' = TRUE

AllowHalfOpen(r) ==
    /\ state = "halfOpen" /\ ~probing
    /\ Enter(r, TRUE)
    /\ probing' = TRUE /\ UNCHANGED state

Allow(r) == AllowClosed(r) \/ AllowCooledDown(r) \/ AllowHalfOpen(r)

(* ErrOpen: the request goes no further and the circuit is as it was.      *)
Refuse(r) ==
    /\ pc[r] = "idle"
    /\ (state = "open" /\ age < Cooldown) \/ (state = "halfOpen" /\ probing)
    /\ UNCHANGED vars

-----------------------------------------------------------------------------
(* The end of the round trip.  A probe still has to run its deferred       *)
(* releaseProbe; any other request leaves.                                 *)
Leave(r) ==
    /\ pc' = [pc EXCEPT ![r] = IF probe[r] THEN "releasing" ELSE "idle"]
    /\ UNCHANGED probe

CountFailure == fails' = IF fails <= Threshold THEN fails + 1 ELSE fails

(* Mutant of Record: opening the circuit forgets the failures that opened *)
(* it.                                                                     *)
RecordForgets(tripped) ==
    \/ /\ ~tripped
       /\ state' = "closed" /\ fails' = 0 /\ UNCHANGED <<age, probing>>
    \/ /\ tripped
       /\ IF state = "halfOpen" \/ fails + 1 >= Threshold
            THEN state' = "open" /\ age' = 0 /\ fails' = 0
            ELSE CountFailure /\ UNCHANGED <<state, age>>
       /\ UNCHANGED probing

(* record, whatever the state is by the time the answer arrives.           *)
Record(tripped) ==
    \/ /\ ~tripped
       /\ state' = "closed" /\ fails' = 0 /\ UNCHANGED <<age, probing>>
    \/ /\ tripped /\ CountFailure
       /\ IF state = "halfOpen" \/ fails' >= Threshold
            THEN state' = "open" /\ age' = 0 ELSE UNCHANGED <<state, age>>
       /\ UNCHANGED probing

Return(r, res) ==
    /\ pc[r] = "calling"
    /\ healthy => ~TripIf(res)
    /\ Record(TripIf(res)) /\ Leave(r)
    /\ UNCHANGED healthy

(* Mutant of Panic: releaseProbe is part of record, and not deferred.      *)
PanicStrands(r) ==
    /\ pc[r] = "calling" /\ ~healthy
    /\ pc' = [pc EXCEPT ![r] = "idle"]
    /\ UNCHANGED <<circuit, probe, healthy>>

(* The transport panics: record does not run, the deferred call does.      *)
Panic(r) ==
    /\ pc[r] = "calling" /\ ~healthy
    /\ Leave(r)
    /\ UNCHANGED <<circuit, healthy>>

ReleaseProbe(r) ==
    /\ pc[r] = "releasing"
    /\ probing' = FALSE
    /\ pc' = [pc EXCEPT ![r] = "idle"]
    /\ probe' = [probe EXCEPT ![r] = FALSE]
    /\ UNCHANGED <<state, fails, age, healthy>>

-----------------------------------------------------------------------------
(* The clock, and the upstream.                                            *)

Tick ==
    /\ age' = IF age < Cooldown THEN age + 1 ELSE age
    /\ UNCHANGED <<state, fails, probing, pc, probe, healthy>>

Recover == healthy' = TRUE /\ UNCHANGED <<circuit, pc, probe>>

Next ==
    \/ \E r \in Requests :
         \/ Allow(r) \/ Refuse(r) \/ Panic(r) \/ ReleaseProbe(r)
         \/ \E res \in Results : Return(r, res)
    \/ Tick \/ Recover

Spec == Init /\ [][Next]_vars

(* Requests keep coming and each round trip ends.                          *)
FairSpec ==
    /\ Spec /\ WF_vars(Tick)
    /\ \A r \in Requests : /\ WF_vars(Allow(r)) /\ WF_vars(ReleaseProbe(r))
                           /\ WF_vars(\E res \in Results : Return(r, res))

-----------------------------------------------------------------------------
(* A circuit that is not closed holds a full count of failures: the clause *)
(* of record that re-opens a half-open circuit is never the deciding one   *)
(* (breaker_internal_test.go:432-437), whatever the requests in flight do. *)
NotClosedMeansFullCount == state # "closed" => fails >= Threshold

(* The probe slot is never taken by nobody: a panic cannot leave it taken, *)
(* and the circuit refusing every request for good (breaker.go:159-162).   *)
ProbeSlotIsHeld == probing => \E r \in Requests : InFlight(r) /\ probe[r]

(* The comment of Breaker (breaker.go:172-174) says that an open circuit   *)
(* admits exactly one probe: no two are with the upstream at once.  The    *)
(* failure of a request from before the trip, which nothing keeps from     *)
(* outlasting the cooldown, re-opens the circuit under a probe.            *)
AtMostOneProbe ==
    \A r, s \in Requests :
        pc[r] = "calling" /\ probe[r] /\ pc[s] = "calling" /\ probe[s] => r = s

(* Once the upstream has recovered and requests keep coming, the circuit   *)
(* closes and stays closed, whatever panicked or failed before.            *)
CircuitRecovers == healthy ~> [](state = "closed")
=============================================================================
