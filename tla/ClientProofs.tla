---------------------------- MODULE ClientProofs ---------------------------
(***************************************************************************)
(* Theorems about Breaker, for every set of requests, every threshold and  *)
(* cooldown and every interleaving of the requests; and about Client.  The *)
(* breaker of a client steps as Breaker says, whatever the layers beneath  *)
(* it do, so that what is proved of Breaker holds of it; and the order of  *)
(* the layers gives what kit promises of it, for any number of requests    *)
(* and attempts.                                                           *)
(***************************************************************************)
EXTENDS Client, TLAPS

-----------------------------------------------------------------------------
(* The circuit.                                                            *)

LEMMA Defaults == Threshold \in Nat \ {0} /\ Cooldown \in Nat \ {0}
  BY BreakerAssumption DEF Threshold, Cooldown

(* Next, one disjunct per action.                                          *)
LEMMA NextCases ==
    ASSUME [Next]_vars
    PROVE  \/ \E r \in Requests :
                \/ AllowClosed(r) \/ AllowCooledDown(r) \/ AllowHalfOpen(r)
                \/ Panic(r) \/ ReleaseProbe(r)
                \/ \E ans \in Results : Return(r, ans)
           \/ Tick \/ Recover \/ UNCHANGED vars
  BY DEF Next, Allow, Refuse

(* What Record and Leave do, by cases.                                     *)
LEMMA RecordCases ==
    ASSUME TypeOK, NEW tripped \in BOOLEAN, Record(tripped)
    PROVE  /\ probing' = probing
           /\ \/ /\ state' = "closed" /\ fails' = 0 /\ age' = age
              \/ /\ state' = "open" /\ age' = 0
                 /\ fails' \in 0..Threshold+1 /\ fails' >= fails
                 /\ state = "halfOpen" \/ fails' >= Threshold
              \/ /\ state' = state /\ age' = age /\ state # "halfOpen"
                 /\ fails' \in 0..Threshold+1 /\ fails' >= fails
  BY Defaults DEF Record, CountFailure, TypeOK

LEMMA LeaveCases ==
    ASSUME TypeOK, NEW r \in Requests, Leave(r)
    PROVE  /\ UNCHANGED probe
           /\ \/ probe[r] /\ pc' = [pc EXCEPT ![r] = "releasing"]
              \/ ~probe[r] /\ pc' = [pc EXCEPT ![r] = "idle"]
  BY DEF Leave, TypeOK

-----------------------------------------------------------------------------
(* Every variable has its type in every reachable state.                   *)
LEMMA TypingStep == ASSUME TypeOK, [Next]_vars PROVE TypeOK'
<1> USE BreakerAssumption, Defaults DEF TypeOK, circuit
<1>1. ASSUME NEW r \in Requests, NEW b \in BOOLEAN, Enter(r, b)
      PROVE  /\ pc' \in [Requests -> {"idle", "calling", "releasing"}]
             /\ probe' \in [Requests -> BOOLEAN]
             /\ UNCHANGED <<fails, age, healthy>>
  BY <1>1 DEF Enter
<1>2. ASSUME NEW r \in Requests,
             AllowClosed(r) \/ AllowCooledDown(r) \/ AllowHalfOpen(r)
      PROVE  TypeOK'
  BY <1>1, <1>2 DEF AllowClosed, AllowCooledDown, AllowHalfOpen
<1>3. ASSUME NEW r \in Requests, NEW ans \in Results, Return(r, ans)
      PROVE  TypeOK'
  <2>1. TripIf(ans) \in BOOLEAN
    BY DEF TripIf
  <2>2. Record(TripIf(ans)) /\ Leave(r) /\ UNCHANGED healthy
    BY <1>3 DEF Return
  <2> QED
    BY <2>1, <2>2, RecordCases, LeaveCases
<1>4. ASSUME NEW r \in Requests, Panic(r)
      PROVE  TypeOK'
  BY <1>4, LeaveCases DEF Panic
<1>5. ASSUME NEW r \in Requests, ReleaseProbe(r)
      PROVE  TypeOK'
  <2>1. probing' \in BOOLEAN
    BY <1>5, Zenon DEF ReleaseProbe
  <2>2. probe' \in [Requests -> BOOLEAN]
    BY <1>5 DEF ReleaseProbe
  <2> QED
    BY <1>5, <2>1, <2>2 DEF ReleaseProbe
<1>6. CASE Tick
  BY <1>6 DEF Tick
<1>7. CASE Recover
  BY <1>7 DEF Recover
<1>8. CASE UNCHANGED vars
  BY <1>8 DEF vars
<1> QED
  BY <1>2, <1>3, <1>4, <1>5, <1>6, <1>7, <1>8, NextCases

THEOREM BreakerTyping == Spec => []TypeOK
<1>1. ASSUME Init PROVE TypeOK
  <2>1. probing \in BOOLEAN /\ healthy \in BOOLEAN
    BY <1>1, Zenon DEF Init
  <2>2. probe \in [Requests -> BOOLEAN]
    BY <1>1 DEF Init
  <2> QED
    BY <1>1, <2>1, <2>2, Defaults DEF Init, TypeOK
<1> QED
  BY <1>1, TypingStep, PTL DEF Spec

-----------------------------------------------------------------------------
(* A circuit that is not closed holds a full count of failures.            *)
THEOREM FullCount == Spec => []NotClosedMeansFullCount
<1>1. Init => NotClosedMeansFullCount
  BY DEF Init, NotClosedMeansFullCount
<1>2. ASSUME TypeOK, NotClosedMeansFullCount, [Next]_vars
      PROVE  NotClosedMeansFullCount'
  <2> USE <1>2, Defaults DEF NotClosedMeansFullCount, TypeOK
  <2>1. ASSUME NEW r \in Requests, NEW ans \in Results, Return(r, ans)
        PROVE  NotClosedMeansFullCount'
    <3>1. Record(TripIf(ans)) /\ TripIf(ans) \in BOOLEAN
      BY <2>1 DEF Return, TripIf
    <3> QED
      BY <3>1, RecordCases
  <2>2. ASSUME NEW r \in Requests,
               \/ AllowClosed(r) \/ AllowCooledDown(r) \/ AllowHalfOpen(r)
               \/ Panic(r) \/ ReleaseProbe(r)
        PROVE  NotClosedMeansFullCount'
    BY <2>2 DEF AllowClosed, AllowCooledDown, AllowHalfOpen, Enter, Panic,
                ReleaseProbe, circuit
  <2>3. CASE Tick \/ Recover \/ UNCHANGED vars
    BY <2>3 DEF Tick, Recover, vars, circuit
  <2> QED
    BY <2>1, <2>2, <2>3, NextCases
<1> QED
  BY <1>1, <1>2, BreakerTyping, PTL DEF Spec

(* The probe slot is never taken by nobody.                                *)
THEOREM SlotIsHeld == Spec => []ProbeSlotIsHeld
<1>1. Init => ProbeSlotIsHeld
  BY DEF Init, ProbeSlotIsHeld
<1>2. ASSUME TypeOK, ProbeSlotIsHeld, [Next]_vars
      PROVE  ProbeSlotIsHeld'
  <2> USE <1>2 DEF ProbeSlotIsHeld, InFlight, TypeOK
  <2>1. ASSUME NEW r \in Requests, Leave(r), UNCHANGED probing, pc[r] = "calling"
        PROVE  ProbeSlotIsHeld'
    BY <2>1, LeaveCases
  <2>2. ASSUME NEW r \in Requests, NEW ans \in Results, Return(r, ans)
        PROVE  ProbeSlotIsHeld'
    <3>1. Record(TripIf(ans)) /\ TripIf(ans) \in BOOLEAN
      BY <2>2 DEF Return, TripIf
    <3>2. UNCHANGED probing
      BY <3>1, RecordCases
    <3> QED
      BY <2>1, <2>2, <3>2 DEF Return
  <2>3. ASSUME NEW r \in Requests, Panic(r)
        PROVE  ProbeSlotIsHeld'
    BY <2>1, <2>3 DEF Panic, circuit
  <2>4. ASSUME NEW r \in Requests,
               AllowClosed(r) \/ AllowCooledDown(r) \/ AllowHalfOpen(r)
        PROVE  ProbeSlotIsHeld'
    BY <2>4 DEF AllowClosed, AllowCooledDown, AllowHalfOpen, Enter
  <2>5. ASSUME NEW r \in Requests, ReleaseProbe(r)
        PROVE  ProbeSlotIsHeld'
    BY <2>5 DEF ReleaseProbe
  <2>6. CASE Tick \/ Recover \/ UNCHANGED vars
    BY <2>6 DEF Tick, Recover, vars, circuit
  <2> QED
    BY <2>2, <2>3, <2>4, <2>5, <2>6, NextCases
<1> QED
  BY <1>1, <1>2, BreakerTyping, PTL DEF Spec

-----------------------------------------------------------------------------
(* The chain.                                                              *)

(* ClientNext, one disjunct per action.                                    *)
LEMMA ClientCases ==
    ASSUME [ClientNext]_clientVars
    PROVE  \/ \E r \in Requests :
                \/ Call(r) \/ Admitted(r) \/ Rejected(r) \/ Answered(r)
                \/ Again(r) \/ Settled(r) \/ WaitCut(r)
                \/ Recorded(r) \/ Released(r) \/ Returned(r) \/ Panicked(r)
           \/ ClockTicks \/ UpstreamRecovers \/ UNCHANGED clientVars
  BY DEF ClientNext, Moves

(* A client implements Breaker: each step of it is a step of the breaker,  *)
(* or leaves the breaker alone.                                            *)
LEMMA ClientStep == ASSUME [ClientNext]_clientVars PROVE [Next]_vars
<1>1. ASSUME NEW r \in Requests,
             \/ Call(r) \/ Answered(r) \/ Again(r) \/ Settled(r) \/ WaitCut(r) \/ Returned(r)
      PROVE  UNCHANGED vars
  BY <1>1 DEF Call, Answered, Again, Settled, WaitCut, Returned
<1>2. ASSUME NEW r \in Requests,
             Admitted(r) \/ Rejected(r) \/ Released(r) \/ Panicked(r)
      PROVE  Next
  BY <1>2 DEF Admitted, Rejected, Released, Panicked, Next
<1>3. ASSUME NEW r \in Requests, Recorded(r)
      PROVE  Next
  <2>1. res[r] \in Results /\ Return(r, res[r])
    BY <1>3 DEF Recorded
  <2> QED
    BY <2>1 DEF Next
<1>4. CASE ClockTicks \/ UpstreamRecovers \/ UNCHANGED clientVars
  BY <1>4 DEF ClockTicks, UpstreamRecovers, clientVars, Next
<1> QED
  BY <1>1, <1>2, <1>3, <1>4, ClientCases

THEOREM ClientImplementsBreaker == ClientSpec => Spec
<1>1. ClientInit => Init
  BY DEF ClientInit
<1>2. [ClientNext]_clientVars => [Next]_vars
  BY ClientStep
<1> QED
  BY <1>1, <1>2, PTL DEF ClientSpec, Spec

(* What the breaker of a client keeps, by refinement: the full count and   *)
(* the slot.                                                               *)
THEOREM ClientKeepsBreaker ==
    ClientSpec => []TypeOK /\ []NotClosedMeansFullCount /\ []ProbeSlotIsHeld
BY ClientImplementsBreaker, BreakerTyping, FullCount, SlotIsHeld

-----------------------------------------------------------------------------
(* The places of the layers, and where a call stops on its way.            *)
LEMMA Places ==
    /\ Len(Chain) = 5
    /\ Pos("breaker") = 1 /\ Pos("retry") = 2 /\ Pos("telemetry") = 3
    /\ Pos("middleware") = 4 /\ Pos("transport") = 5
<1> USE DEF Chain
<1>1. /\ Len(Chain) = 5 /\ Chain[1] = "breaker" /\ Chain[2] = "retry"
      /\ Chain[3] = "telemetry" /\ Chain[4] = "middleware" /\ Chain[5] = "transport"
  OBVIOUS
<1>2. \A k \in 1..5 : k = 1 \/ k = 2 \/ k = 3 \/ k = 4 \/ k = 5
  OBVIOUS
<1> HIDE DEF Chain
<1>3. Pos("breaker") = 1
  BY <1>1, <1>2 DEF Pos
<1>4. Pos("retry") = 2
  BY <1>1, <1>2 DEF Pos
<1>5. Pos("telemetry") = 3
  BY <1>1, <1>2 DEF Pos
<1>6. Pos("middleware") = 4
  BY <1>1, <1>2 DEF Pos
<1>7. Pos("transport") = 5
  BY <1>1, <1>2 DEF Pos
<1> QED
  BY <1>1, <1>3, <1>4, <1>5, <1>6, <1>7

LEMMA Stops ==
    /\ Below(0) = 1 /\ Below(1) = 5 /\ Below(2) = 5
    /\ Above(1) = 0 /\ Above(2) = 1 /\ Above(5) = 2
<1>1. /\ Len(Chain) = 5 /\ Chain[1] = "breaker" /\ Chain[2] = "retry"
      /\ Chain[3] = "telemetry" /\ Chain[4] = "middleware" /\ Chain[5] = "transport"
  BY DEF Chain
<1>2. \A k \in 1..5 : k = 1 \/ k = 2 \/ k = 3 \/ k = 4 \/ k = 5
  OBVIOUS
<1>3. {j \in 0+1..5 : Chain[j] \in {"breaker", "transport"}} = {1, 5}
  BY <1>1, <1>2
<1>4. /\ {j \in 1+1..5 : Chain[j] \in {"breaker", "transport"}} = {5}
      /\ {j \in 2+1..5 : Chain[j] \in {"breaker", "transport"}} = {5}
  BY <1>1, <1>2
<1>5. /\ {0} \cup {j \in 1..1-1 : Chain[j] \in {"breaker", "retry"}} = {0}
      /\ {0} \cup {j \in 1..2-1 : Chain[j] \in {"breaker", "retry"}} = {0, 1}
      /\ {0} \cup {j \in 1..5-1 : Chain[j] \in {"breaker", "retry"}} = {0, 1, 2}
  BY <1>1, <1>2
<1>6. /\ Below(0) = Min({1, 5}) /\ Below(1) = Min({5}) /\ Below(2) = Min({5})
      /\ Above(1) = Max({0}) /\ Above(2) = Max({0, 1}) /\ Above(5) = Max({0, 1, 2})
  BY <1>1, <1>3, <1>4, <1>5 DEF Below, Above
<1>7. /\ Min({1, 5}) = 1 /\ Min({5}) = 5
      /\ Max({0}) = 0 /\ Max({0, 1}) = 1 /\ Max({0, 1, 2}) = 2
  BY DEF Min, Max
<1> QED
  BY <1>6, <1>7

(* The way of one call.  Where it is says how often it has entered the     *)
(* breaker, and that one on its way to an answer of the breaker has gone   *)
(* no further; the layers beneath Retry are entered together.              *)
Counted(r) ==
    /\ entered[r] \in [Layers -> Nat] /\ failed[r] \in [Layers -> Nat]
    /\ at[r] \in {0, 1, 2, 5}
    /\ at[r] = 2 => res[r] # "none"
    /\ at[r] = 5 => res[r] = "none"
    /\ at[r] = 0 /\ res[r] = "none" => entered[r] = Fresh /\ failed[r] = Fresh
    /\ entered[r]["breaker"] <= 1
    /\ (at[r] = 1 /\ res[r] = "none") \/ res[r] = "open" =>
         entered[r]["retry"] = 0 /\ entered[r]["transport"] = 0
    /\ res[r] = "open" => at[r] = 0
    /\ \A l \in {"telemetry", "middleware"} :
         /\ entered[r][l] = entered[r]["transport"]
         /\ failed[r][l] = failed[r]["transport"]

CallTypes ==
    /\ at \in [Requests -> Nat] /\ res \in [Requests -> Carried \cup {"none"}]
    /\ entered \in [Requests -> [Layers -> Nat]]
    /\ failed \in [Requests -> [Layers -> Nat]]

CallInv == CallTypes /\ \A r \in Requests : Counted(r)

(* A step of one call leaves the others as they were.                      *)
LEMMA OneCallMoves ==
    ASSUME CallInv, NEW r \in Requests,
           NEW a \in Nat, NEW x \in Carried \cup {"none"},
           NEW e \in [Layers -> Nat], NEW f \in [Layers -> Nat],
           at' = [at EXCEPT ![r] = a], res' = [res EXCEPT ![r] = x],
           entered' = [entered EXCEPT ![r] = e], failed' = [failed EXCEPT ![r] = f],
           Counted(r)'
    PROVE  CallInv'
<1>1. CallTypes'
  BY DEF CallInv, CallTypes
<1>2. ASSUME NEW s \in Requests, s # r PROVE Counted(s)'
  <2>1. at'[s] = at[s] /\ res'[s] = res[s] /\ entered'[s] = entered[s] /\ failed'[s] = failed[s]
    BY <1>2 DEF CallInv, CallTypes
  <2> QED
    BY <2>1 DEF CallInv, Counted
<1> QED
  BY <1>1, <1>2 DEF CallInv

(* What Down and Up do to the call that takes them.                        *)
LEMMA DownMoves ==
    ASSUME CallInv, NEW r \in Requests, NEW k \in {0, 1, 2}, Down(r, k)
    PROVE  LET e == [l \in Layers |-> IF Pos(l) \in k+1..Below(k)
                                      THEN entered[r][l] + 1 ELSE entered[r][l]]
           IN  /\ e \in [Layers -> Nat]
               /\ at' = [at EXCEPT ![r] = Below(k)] /\ res' = [res EXCEPT ![r] = "none"]
               /\ entered' = [entered EXCEPT ![r] = e]
               /\ failed' = [failed EXCEPT ![r] = failed[r]]
               /\ at'[r] = Below(k) /\ res'[r] = "none" /\ entered'[r] = e
               /\ failed'[r] = failed[r]
  BY DEF Down, CallInv, CallTypes

LEMMA UpMoves ==
    ASSUME CallInv, NEW r \in Requests, NEW k \in {1, 2, 5}, NEW x \in Carried, Up(r, k, x)
    PROVE  LET f == [l \in Layers |-> IF Bad(x) /\ Pos(l) \in Above(k)+1..k
                                      THEN failed[r][l] + 1 ELSE failed[r][l]]
           IN  /\ f \in [Layers -> Nat]
               /\ at' = [at EXCEPT ![r] = Above(k)] /\ res' = [res EXCEPT ![r] = x]
               /\ entered' = [entered EXCEPT ![r] = entered[r]]
               /\ failed' = [failed EXCEPT ![r] = f]
               /\ at'[r] = Above(k) /\ res'[r] = x /\ entered'[r] = entered[r]
               /\ failed'[r] = f
  BY DEF Up, CallInv, CallTypes

LEMMA DownKeeps ==
    ASSUME CallInv, NEW r \in Requests, NEW k \in {0, 1, 2}, at[r] = k,
           k \in {0, 1} => res[r] = "none", Down(r, k)
    PROVE  CallInv'
<1> DEFINE e == [l \in Layers |-> IF Pos(l) \in k+1..Below(k)
                                  THEN entered[r][l] + 1 ELSE entered[r][l]]
<1>1. /\ e \in [Layers -> Nat]
      /\ at' = [at EXCEPT ![r] = Below(k)] /\ res' = [res EXCEPT ![r] = "none"]
      /\ entered' = [entered EXCEPT ![r] = e]
      /\ failed' = [failed EXCEPT ![r] = failed[r]]
      /\ at'[r] = Below(k) /\ res'[r] = "none" /\ entered'[r] = e
      /\ failed'[r] = failed[r]
  BY DownMoves
<1>2. Counted(r) /\ failed[r] \in [Layers -> Nat] /\ Below(k) \in Nat
  BY Stops DEF CallInv, CallTypes
<1>3. /\ e["breaker"] = IF k = 0 THEN entered[r]["breaker"] + 1 ELSE entered[r]["breaker"]
      /\ e["retry"] = IF k = 1 THEN entered[r]["retry"] + 1 ELSE entered[r]["retry"]
      /\ \A l \in {"telemetry", "middleware", "transport"} :
           e[l] = IF k = 0 THEN entered[r][l] ELSE entered[r][l] + 1
  BY Places, Stops DEF Layers
<1>4. k = 0 => entered[r] = Fresh /\ failed[r] = Fresh
  BY <1>2 DEF Counted
<1>5. Counted(r)'
  BY <1>1, <1>2, <1>3, <1>4, Stops DEF Counted, Fresh, Layers
<1>6. "none" \in Carried \cup {"none"}
  OBVIOUS
<1> HIDE DEF e
<1> QED
  BY <1>1, <1>2, <1>5, <1>6, OneCallMoves

LEMMA UpKeeps ==
    ASSUME CallInv, NEW r \in Requests, NEW k \in {1, 2, 5}, at[r] = k,
           NEW x \in Carried, Up(r, k, x),
           x = "open" => k = 1 /\ res[r] = "none"
    PROVE  CallInv'
<1> DEFINE f == [l \in Layers |-> IF Bad(x) /\ Pos(l) \in Above(k)+1..k
                                  THEN failed[r][l] + 1 ELSE failed[r][l]]
<1>1. /\ f \in [Layers -> Nat]
      /\ at' = [at EXCEPT ![r] = Above(k)] /\ res' = [res EXCEPT ![r] = x]
      /\ entered' = [entered EXCEPT ![r] = entered[r]]
      /\ failed' = [failed EXCEPT ![r] = f]
      /\ at'[r] = Above(k) /\ res'[r] = x /\ entered'[r] = entered[r]
      /\ failed'[r] = f
  BY UpMoves
<1>2. Counted(r) /\ entered[r] \in [Layers -> Nat] /\ Above(k) \in Nat
  BY Stops DEF CallInv, CallTypes
<1>3. \A l \in {"telemetry", "middleware", "transport"} :
        f[l] = IF Bad(x) /\ k = 5 THEN failed[r][l] + 1 ELSE failed[r][l]
  BY Places, Stops DEF Layers
<1>4. x # "none"
  BY DEF Carried, Results
<1>5. Counted(r)'
  BY <1>1, <1>2, <1>3, <1>4, Stops DEF Counted
<1> HIDE DEF f
<1> QED
  BY <1>1, <1>2, <1>5, OneCallMoves

(* A request that is yet to give its probe slot back has its result.       *)
Releasing ==
    \A r \in Requests : pc[r] = "releasing" => at[r] = 1 /\ res[r] \in Carried \ {"open"}

LEMMA OneReleases ==
    ASSUME CallTypes, Releasing, NEW r \in Requests, NEW a, NEW x,
           at' = [at EXCEPT ![r] = a], res' = [res EXCEPT ![r] = x],
           \A s \in Requests : s # r => pc'[s] = pc[s],
           pc'[r] = "releasing" => a = 1 /\ x \in Carried \ {"open"}
    PROVE  Releasing'
<1>1. at'[r] = a /\ res'[r] = x
  BY DEF CallTypes
<1>2. \A s \in Requests : s # r => at'[s] = at[s] /\ res'[s] = res[s]
  BY DEF CallTypes
<1> QED
  BY <1>1, <1>2 DEF Releasing

LEMMA ReleasingStep ==
    ASSUME TypeOK, CallInv, Releasing, [ClientNext]_clientVars
    PROVE  Releasing'
<1> USE Places
<1>1. CallTypes /\ pc \in [Requests -> {"idle", "calling", "releasing"}]
  BY DEF CallInv, TypeOK
<1>2. ASSUME NEW r \in Requests,
             Call(r) \/ Answered(r) \/ Again(r) \/ Settled(r) \/ WaitCut(r) \/ Returned(r)
      PROVE  Releasing'
  <2>1. pc[r] # "releasing"
    BY <1>2 DEF Call, Answered, Again, Settled, WaitCut, Returned, Deciding, Releasing
  <2>2. UNCHANGED pc
    BY <1>2 DEF Call, Answered, Again, Settled, WaitCut, Returned, vars
  <2>3. PICK a, x : at' = [at EXCEPT ![r] = a] /\ res' = [res EXCEPT ![r] = x]
    <3>1. CASE Returned(r)
      <4>1. at' = [at EXCEPT ![r] = at[r]]
        BY <1>1, <3>1 DEF Returned, CallTypes
      <4> QED
        BY <3>1, <4>1 DEF Returned
    <3>2. CASE Call(r) \/ Answered(r) \/ Again(r) \/ Settled(r) \/ WaitCut(r)
      BY <3>2 DEF Call, Answered, Again, Settled, WaitCut, Down, Up
    <3> QED
      BY <1>2, <3>1, <3>2
  <2> QED
    BY <1>1, <2>1, <2>2, <2>3, OneReleases
<1>3. ASSUME NEW r \in Requests, Admitted(r)
      PROVE  Releasing'
  <2>1. pc' = [pc EXCEPT ![r] = "calling"]
    BY <1>3 DEF Admitted, Allow, AllowClosed, AllowCooledDown, AllowHalfOpen, Enter
  <2>2. at' = [at EXCEPT ![r] = Below(1)] /\ res' = [res EXCEPT ![r] = "none"]
    BY <1>3 DEF Admitted, Down
  <2> QED
    BY <1>1, <2>1, <2>2, OneReleases
<1>4. ASSUME NEW r \in Requests, Rejected(r)
      PROVE  Releasing'
  <2>1. pc[r] = "idle" /\ UNCHANGED pc
    BY <1>4 DEF Rejected, Refuse, vars
  <2>2. at' = [at EXCEPT ![r] = Above(1)] /\ res' = [res EXCEPT ![r] = "open"]
    BY <1>4 DEF Rejected, Up
  <2> QED
    BY <1>1, <2>1, <2>2, OneReleases
<1>5. ASSUME NEW r \in Requests, Recorded(r)
      PROVE  Releasing'
  <2>1. Leave(r) /\ at[r] = 1 /\ res[r] \in Carried \ {"open"}
    BY <1>5 DEF Recorded, Return, Carried, Results
  <2>2. CASE probe[r]
    <3>1. UNCHANGED <<at, res>> /\ pc' = [pc EXCEPT ![r] = "releasing"]
      BY <1>5, <2>1, <2>2 DEF Recorded, Leave
    <3> QED
      BY <1>1, <2>1, <3>1 DEF Releasing
  <2>3. CASE ~probe[r]
    <3>1. pc' = [pc EXCEPT ![r] = "idle"]
      BY <2>1, <2>3 DEF Leave
    <3>2. at' = [at EXCEPT ![r] = Above(1)] /\ res' = [res EXCEPT ![r] = res[r]]
      BY <1>5, <2>3 DEF Recorded, Up
    <3> QED
      BY <1>1, <3>1, <3>2, OneReleases
  <2> QED
    BY <2>2, <2>3
<1>6. ASSUME NEW r \in Requests, Released(r)
      PROVE  Releasing'
  <2>1. pc' = [pc EXCEPT ![r] = "idle"]
    BY <1>6 DEF Released, ReleaseProbe
  <2>2. at' = [at EXCEPT ![r] = Above(1)] /\ res' = [res EXCEPT ![r] = res[r]]
    BY <1>6 DEF Released, Up
  <2> QED
    BY <1>1, <2>1, <2>2, OneReleases
<1>7. ASSUME NEW r \in Requests, Panicked(r)
      PROVE  Releasing'
  <2>1. "panic" \in Carried \ {"open"}
    BY DEF Carried
  <2>2. /\ at' = [at EXCEPT ![r] = IF probe[r] THEN 1 ELSE 0]
        /\ res' = [res EXCEPT ![r] = "panic"]
    BY <1>7 DEF Panicked
  <2>3. pc' = [pc EXCEPT ![r] = IF probe[r] THEN "releasing" ELSE "idle"]
    BY <1>7 DEF Panicked, Panic, Leave
  <2> QED
    BY <1>1, <2>1, <2>2, <2>3, OneReleases
<1>8. CASE ClockTicks \/ UpstreamRecovers \/ UNCHANGED clientVars
  BY <1>8 DEF ClockTicks, UpstreamRecovers, clientVars, vars, Tick, Recover, Releasing
<1> QED
  BY <1>2, <1>3, <1>4, <1>5, <1>6, <1>7, <1>8, ClientCases

LEMMA CallStep == ASSUME CallInv, Releasing, [ClientNext]_clientVars PROVE CallInv'
<1> USE Places
<1>1. ASSUME NEW r \in Requests, Call(r) \/ Admitted(r) \/ Again(r)
      PROVE  CallInv'
  BY <1>1, DownKeeps DEF Call, Admitted, Again, Asking, Deciding
<1>2. ASSUME NEW r \in Requests, Rejected(r) \/ Answered(r)
      PROVE  CallInv'
  BY <1>2, UpKeeps DEF Rejected, Answered, Asking, Carried, Results
<1>3. ASSUME NEW r \in Requests, Settled(r) \/ WaitCut(r)
      PROVE  CallInv'
  <2>1. at[r] = 2 /\ res[r] \in Carried \ {"open"} /\ "error" \in Carried \ {"open"}
    BY <1>3 DEF Settled, WaitCut, Deciding, CallInv, CallTypes, Counted, Carried, Results
  <2> QED
    BY <1>3, <2>1, UpKeeps DEF Settled, WaitCut
<1>4. ASSUME NEW r \in Requests, Recorded(r)
      PROVE  CallInv'
  <2>1. at[r] = 1 /\ res[r] \in Carried \ {"open"}
    BY <1>4 DEF Recorded, Carried, Results
  <2>2. CASE UNCHANGED <<at, res, call>>
    BY <2>2 DEF CallInv, CallTypes, Counted, call
  <2>3. CASE Up(r, 1, res[r])
    BY <2>1, <2>3, UpKeeps
  <2> QED
    BY <1>4, <2>2, <2>3 DEF Recorded
<1>5. ASSUME NEW r \in Requests, Released(r)
      PROVE  CallInv'
  <2>1. Up(r, 1, res[r]) /\ at[r] = 1 /\ res[r] \in Carried \ {"open"}
    BY <1>5 DEF Released, ReleaseProbe, Releasing
  <2> QED
    BY <2>1, UpKeeps
<1>6. ASSUME NEW r \in Requests, Returned(r)
      PROVE  CallInv'
  <2>1. /\ at' = [at EXCEPT ![r] = 0] /\ res' = [res EXCEPT ![r] = "none"]
        /\ entered' = [entered EXCEPT ![r] = Fresh] /\ failed' = [failed EXCEPT ![r] = Fresh]
    BY <1>6 DEF Returned, CallInv, CallTypes
  <2>2. /\ at'[r] = 0 /\ res'[r] = "none" /\ entered'[r] = Fresh /\ failed'[r] = Fresh
        /\ Fresh \in [Layers -> Nat] /\ "none" \in Carried \cup {"none"}
    BY <2>1 DEF CallInv, CallTypes, Fresh
  <2>3. Counted(r)'
    BY <2>2 DEF Counted, Fresh, Layers
  <2> QED
    BY <2>1, <2>2, <2>3, OneCallMoves
<1>7. ASSUME NEW r \in Requests, Panicked(r)
      PROVE  CallInv'
  <2>1. PICK a \in {0, 1} : at' = [at EXCEPT ![r] = a]
    BY <1>7 DEF Panicked
  <2>2. res' = [res EXCEPT ![r] = "panic"] /\ UNCHANGED <<entered, failed>>
    BY <1>7 DEF Panicked, call
  <2>3. /\ entered' = [entered EXCEPT ![r] = entered[r]]
        /\ failed' = [failed EXCEPT ![r] = failed[r]]
        /\ entered[r] \in [Layers -> Nat] /\ failed[r] \in [Layers -> Nat]
        /\ "panic" \in Carried \cup {"none"} /\ a \in Nat
    BY <2>2 DEF CallInv, CallTypes, Carried
  <2>4. at'[r] = a /\ res'[r] = "panic" /\ entered'[r] = entered[r] /\ failed'[r] = failed[r]
    BY <2>1, <2>2 DEF CallInv, CallTypes
  <2>5. Counted(r)'
    BY <2>4 DEF Counted, CallInv
  <2> QED
    BY <2>1, <2>2, <2>3, <2>5, OneCallMoves
<1>8. CASE ClockTicks \/ UpstreamRecovers \/ UNCHANGED clientVars
  BY <1>8 DEF ClockTicks, UpstreamRecovers, clientVars, call, CallInv, CallTypes, Counted
<1> QED
  BY <1>1, <1>2, <1>3, <1>4, <1>5, <1>6, <1>7, <1>8, ClientCases

-----------------------------------------------------------------------------
LEMMA CallInvariant == ClientSpec => [](CallInv /\ Releasing)
<1>1. ClientInit => CallInv /\ Releasing
  BY DEF ClientInit, Init, CallInv, CallTypes, Counted, Releasing, Fresh, Layers
<1>2. TypeOK /\ CallInv /\ Releasing /\ [ClientNext]_clientVars => CallInv' /\ Releasing'
  BY CallStep, ReleasingStep
<1>3. ClientSpec => []TypeOK
  BY ClientKeepsBreaker, PTL
<1> QED
  BY <1>1, <1>2, <1>3, PTL DEF ClientSpec

(* A call asks the breaker once, and one that is refused goes no further.  *)
THEOREM AskedOnce == ClientSpec => []CallIsAskedOnce
<1>1. CallInv => CallIsAskedOnce
  BY DEF CallInv, Counted, CallIsAskedOnce
<1> QED
  BY <1>1, CallInvariant, PTL

(* Each attempt has a span and a run of the service's middleware.          *)
THEOREM SpanPerAttempt == ClientSpec => []OneSpanPerAttempt
<1>1. CallInv => OneSpanPerAttempt
  BY DEF CallInv, Counted, OneSpanPerAttempt
<1> QED
  BY <1>1, CallInvariant, PTL
=============================================================================
