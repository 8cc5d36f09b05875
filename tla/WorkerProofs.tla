---------------------------- MODULE WorkerProofs ----------------------------
(***************************************************************************)
(* Theorems about Worker, and with it about Health and Consumer, for any   *)
(* number of probes, checks, Starts and Stops, overlapping in every order. *)
(***************************************************************************)
EXTENDS Worker, TLAPS, SequenceTheorems

(* WorkerNext, one disjunct per action.                                    *)
HealthStep ==
    \/ UpStarted \/ UpReady \/ Drain
    \/ \E c \in Checks : AddReadyCheck(c) \/ Change(c)
    \/ \E p \in Probes : Load(p) \/ Copy(p) \/ RunCheck(p) \/ Reply(p)

ConsumerStep ==
    \/ \E s \in Starts : \/ C!StartNoop(s) \/ C!StartLoop(s)
                         \/ C!LoopBegins(s) \/ C!LoopEnds(s)
    \/ \E c \in Stops : \/ C!StopNoop(c) \/ C!StopClaims(c) \/ C!StopCancels(c)
                        \/ C!StopDone(c) \/ C!StopExpires(c)

LEMMA WorkerCases ==
    ASSUME [WorkerNext]_<<vars, consumer>>
    PROVE  \/ HealthStep /\ UNCHANGED consumer
           \/ ConsumerStep /\ ~panicked /\ UNCHANGED vars
           \/ UNCHANGED <<vars, consumer>>
  BY DEF WorkerNext, RunUp, Gateway, ConsumerStarts, ConsumerStops, ConsumerLoops,
         Crashed, ServeHTTP, HealthStep, ConsumerStep

-----------------------------------------------------------------------------
(* The sequences of checks.                                                *)
LEMMA AppendedChecks ==
    ASSUME NEW S, NEW s \in Seq(S), NEW e \in S
    PROVE  ToSet(Append(s, e)) = ToSet(s) \cup {e}
  BY AppendProperties, LenProperties DEF ToSet

LEMMA InjectiveAppend ==
    ASSUME NEW S, NEW s \in Seq(S), NEW e \in S, IsInjective(s),
           \A n \in 1..Len(s) : s[n] # e
    PROVE  IsInjective(Append(s, e))
<1> DEFINE t == Append(s, e)
<1>1. /\ Len(s) \in Nat /\ DOMAIN s = 1..Len(s) /\ DOMAIN t = 1..Len(s) + 1
      /\ \A n \in 1..Len(s) : t[n] = s[n]
      /\ t[Len(s) + 1] = e
  BY AppendProperties, LenProperties
<1> HIDE DEF t
<1>2. ASSUME NEW m \in DOMAIN t, NEW n \in DOMAIN t, t[m] = t[n] PROVE m = n
  BY <1>1, <1>2 DEF IsInjective
<1> QED
  BY <1>2 DEF IsInjective, t

LEMMA NextCheck ==
    ASSUME NEW S, NEW s \in Seq(S), s # <<>>
    PROVE  /\ Tail(s) \in Seq(S) /\ Head(s) \in S
           /\ ToSet(s) = {Head(s)} \cup ToSet(Tail(s))
<1> DEFINE r == Tail(s)
<1>1. /\ Head(s) = s[1] /\ Head(s) \in S /\ r \in Seq(S) /\ Len(r) = Len(s) - 1
      /\ \A i \in 1..Len(r) : r[i] = s[i + 1]
  BY HeadTailProperties
<1>2. /\ Len(s) \in Nat \ {0} /\ DOMAIN s = 1..Len(s) /\ DOMAIN r = 1..Len(r)
  BY <1>1, LenProperties, EmptySeq
<1> HIDE DEF r
<1>3. ASSUME NEW i \in 1..Len(s), i # 1 PROVE s[i] = r[i - 1] /\ i - 1 \in 1..Len(r)
  BY <1>1, <1>2, <1>3
<1>4. ToSet(s) \subseteq {Head(s)} \cup ToSet(r)
  BY <1>1, <1>2, <1>3 DEF ToSet
<1>5. ASSUME NEW i \in 1..Len(r) PROVE r[i] = s[i + 1] /\ i + 1 \in 1..Len(s)
  BY <1>1, <1>2
<1>6. {Head(s)} \cup ToSet(r) \subseteq ToSet(s)
  BY <1>1, <1>2, <1>5 DEF ToSet
<1> QED
  BY <1>1, <1>4, <1>6 DEF r

-----------------------------------------------------------------------------
(* Health.                                                                 *)

(* The gate of Ready is open between Up and Drain, and what was closed     *)
(* when a late probe came stays closed for it.                             *)
Gated ==
    /\ open["ready"] <=> hook = "up"
    /\ \A p \in Probes : late[p] => hook = "drained"
    /\ \A p \in Probes : late[p] /\ gate[p] = "ready" => pc[p] = "unavailable"

(* What dooms a probe of Ready is yet to be run by it, unless the probe    *)
(* has failed already.                                                     *)
Doomed ==
    \A p \in Probes :
        /\ doomed[p] \subseteq sick
        /\ gate[p] # "ready" => doomed[p] = {}
        /\ pc[p] \in {"none", "loaded"} => doomed[p] \subseteq ToSet(checks)
        /\ pc[p] = "checking" => failed[p] \/ doomed[p] \subseteq ToSet(todo[p])
        /\ pc[p] = "ok" => doomed[p] = {}

HealthInv == TypeOK /\ Gated /\ Doomed

LEMMA HealthTypingStep ==
    ASSUME TypeOK, HealthStep
    PROVE  TypeOK'
<1> USE DEF TypeOK, Gates, gates, history
<1>1. ASSUME UpStarted \/ UpReady \/ Drain PROVE TypeOK'
  <2>1. open' \in [Gates -> BOOLEAN]
    BY <1>1 DEF UpStarted, UpReady, Drain
  <2>2. hook' \in {"boot", "opening", "up", "drained"}
    BY <1>1 DEF UpStarted, UpReady, Drain
  <2> QED
    BY <1>1, <2>1, <2>2 DEF UpStarted, UpReady, Drain
<1>2. ASSUME NEW c \in Checks, AddReadyCheck(c) PROVE TypeOK'
  <2>1. checks' \in Seq(Checks)
    BY <1>2 DEF AddReadyCheck
  <2>2. IsInjective(checks')
    BY <1>2, InjectiveAppend, LenProperties DEF AddReadyCheck, ToSet
  <2> QED
    BY <1>2, <2>1, <2>2 DEF AddReadyCheck
<1>3. ASSUME NEW c \in Checks, Change(c) PROVE TypeOK'
  BY <1>3 DEF Change
<1>4. ASSUME NEW p \in Probes, Load(p) PROVE TypeOK'
  <2>1. late' \in [Probes -> BOOLEAN]
    BY <1>4 DEF Load
  <2>2. doomed' \in [Probes -> SUBSET Checks]
    BY <1>4 DEF Load
  <2>3. pc' \in [Probes -> {"none", "loaded", "checking", "ok", "unavailable"}]
    BY <1>4 DEF Load
  <2> QED
    BY <1>4, <2>1, <2>2, <2>3 DEF Load
<1>5. ASSUME NEW p \in Probes, Copy(p) PROVE TypeOK'
  BY <1>5 DEF Copy
<1>6. ASSUME NEW p \in Probes, RunCheck(p) PROVE TypeOK'
  <2>1. todo' \in [Probes -> Seq(Checks)]
    BY <1>6, NextCheck DEF RunCheck
  <2>2. failed' \in [Probes -> BOOLEAN]
    BY <1>6 DEF RunCheck
  <2> QED
    BY <1>6, <2>1, <2>2 DEF RunCheck
<1>7. ASSUME NEW p \in Probes, Reply(p) PROVE TypeOK'
  BY <1>7 DEF Reply
<1> QED
  BY <1>1, <1>2, <1>3, <1>4, <1>5, <1>6, <1>7 DEF HealthStep

LEMMA GatedStep ==
    ASSUME TypeOK, Gated, HealthStep
    PROVE  Gated'
<1> USE DEF TypeOK, Gates, Gated, gates, history
<1>1. ASSUME UpStarted \/ UpReady \/ Drain PROVE Gated'
  BY <1>1 DEF UpStarted, UpReady, Drain
<1>2. ASSUME NEW c \in Checks, AddReadyCheck(c) \/ Change(c) PROVE Gated'
  BY <1>2 DEF AddReadyCheck, Change
<1>3. ASSUME NEW p \in Probes, Load(p) PROVE Gated'
  BY <1>3 DEF Load
<1>4. ASSUME NEW p \in Probes, Copy(p) \/ RunCheck(p) \/ Reply(p) PROVE Gated'
  BY <1>4 DEF Copy, RunCheck, Reply
<1> QED
  BY <1>1, <1>2, <1>3, <1>4 DEF HealthStep

LEMMA DoomedStep ==
    ASSUME TypeOK, Doomed, HealthStep
    PROVE  Doomed'
<1> USE DEF TypeOK, Gates, Doomed, gates, history
<1>1. ASSUME UpStarted \/ UpReady \/ Drain PROVE Doomed'
  BY <1>1 DEF UpStarted, UpReady, Drain
<1>2. ASSUME NEW c \in Checks, AddReadyCheck(c) PROVE Doomed'
  BY <1>2, AppendedChecks DEF AddReadyCheck
<1>3. ASSUME NEW c \in Checks, Change(c) PROVE Doomed'
  BY <1>3 DEF Change
<1>4. ASSUME NEW p \in Probes, Load(p) PROVE Doomed'
  BY <1>4 DEF Load
<1>5. ASSUME NEW p \in Probes, Copy(p) PROVE Doomed'
  BY <1>5 DEF Copy
<1>6. ASSUME NEW p \in Probes, RunCheck(p) PROVE Doomed'
  <2>1. ToSet(todo[p]) = {Head(todo[p])} \cup ToSet(Tail(todo[p]))
    BY <1>6, NextCheck DEF RunCheck
  <2>2. failed'[p] \/ doomed[p] \subseteq ToSet(todo'[p])
    BY <1>6, <2>1 DEF RunCheck
  <2> QED
    BY <1>6, <2>2 DEF RunCheck
<1>7. ASSUME NEW p \in Probes, Reply(p) PROVE Doomed'
  BY <1>7 DEF Reply, ToSet
<1> QED
  BY <1>1, <1>2, <1>3, <1>4, <1>5, <1>6, <1>7 DEF HealthStep

LEMMA HealthInvariant == WorkerSpec => []HealthInv
<1>1. WorkerInit => HealthInv
  <2> SUFFICES ASSUME Init PROVE HealthInv
    BY DEF WorkerInit
  <2>1. /\ open \in [Gates -> BOOLEAN]
        /\ failed \in [Probes -> BOOLEAN] /\ late \in [Probes -> BOOLEAN]
    BY DEF Init
  <2>2. IsInjective(checks) /\ checks \in Seq(Checks)
    BY DEF Init, IsInjective
  <2>3. TypeOK
    BY <2>1, <2>2 DEF Init, TypeOK
  <2>4. Gated /\ Doomed
    BY DEF Init, Gates, Gated, Doomed
  <2> QED
    BY <2>3, <2>4 DEF HealthInv
<1>2. HealthInv /\ [WorkerNext]_<<vars, consumer>> => HealthInv'
  <2> SUFFICES ASSUME HealthInv, HealthStep \/ UNCHANGED vars PROVE HealthInv'
    BY WorkerCases
  <2>1. CASE HealthStep
    BY <2>1, HealthTypingStep, GatedStep, DoomedStep DEF HealthInv
  <2>2. CASE UNCHANGED vars
    BY <2>2 DEF vars, HealthInv, TypeOK, Gated, Doomed
  <2> QED
    BY <2>1, <2>2
<1> QED
  BY <1>1, <1>2, PTL DEF WorkerSpec

(* A probe of Ready that arrives after Drain is not answered 200, however  *)
(* many probes, checks and hooks interleave.                               *)
THEOREM DrainIsSeen == WorkerSpec => []NotReadyAfterDrain
<1>1. HealthInv => NotReadyAfterDrain
  BY DEF HealthInv, Gated, NotReadyAfterDrain
<1> QED
  BY <1>1, HealthInvariant, PTL

(* A dependency that is down throughout a probe of Ready fails it.         *)
THEOREM ReadyIsChecked == WorkerSpec => []ReadyMeansChecked
<1>1. HealthInv => ReadyMeansChecked
  BY DEF HealthInv, Doomed, ReadyMeansChecked
<1> QED
  BY <1>1, HealthInvariant, PTL

-----------------------------------------------------------------------------
(* Consumer.                                                               *)

(* The Starts that made a loop, the loops made and the goroutines agree.   *)
Made ==
    /\ \A s \in Starts : loop[s] # "none" <=> start[s] = "ok"
    /\ \A s \in Starts : start[s] = "ok" <=> \E n \in 1..Len(loops) : loops[n] = s
    /\ running => loops # <<>>

(* A goroutine that has begun holds the channel of a loop, and a closed    *)
(* channel was closed by one that has ended.                               *)
Channels ==
    /\ \A s \in Starts : closes[s] = NoLoop <=> loop[s] \in {"none", "spawned"}
    /\ \A t \in closed : \E s \in Starts : loop[s] = "ended" /\ closes[s] = t

(* A loop that lives and is not the last was alive when another was made,  *)
(* and so was one that holds the channel of another.                       *)
Replaced ==
    /\ \A s \in Starts : C!Alive(s) /\ s # Last(loops) => s \in replaced
    /\ \A s \in Starts : closes[s] \notin {s, NoLoop} => s \in replaced

(* A Stop that found the Consumer running has the name of a loop.          *)
Claims ==
    \A c \in Stops : stop[c] \notin {"idle", "noop"} =>
        taken[c] \in Starts /\ start[taken[c]] = "ok"

Channelled == Made /\ Channels /\ Replaced /\ Claims

ConsumerInv == C!TypeOK /\ Channelled /\ NoLoopIsOrphaned /\ StopEndsItsLoop

LEMMA AppendedLoop ==
    ASSUME NEW S, NEW s \in Seq(S), NEW e \in S
    PROVE  /\ Append(s, e) \in Seq(S) /\ Append(s, e) # <<>>
           /\ Len(Append(s, e)) = Len(s) + 1
           /\ \A n \in 1..Len(s) : Append(s, e)[n] = s[n]
           /\ Append(s, e)[Len(s) + 1] = e
           /\ Last(Append(s, e)) = e
  BY AppendProperties, LenProperties DEF Last

LEMMA LastLoop ==
    ASSUME NEW S, NEW s \in Seq(S), s # <<>>
    PROVE  Len(s) \in 1..Len(s) /\ Last(s) = s[Len(s)] /\ Last(s) \in S
  BY LenProperties, EmptySeq DEF Last

LEMMA ConsumerTypingStep ==
    ASSUME C!TypeOK, Channelled, ConsumerStep
    PROVE  C!TypeOK'
<1> USE DEF C!TypeOK, C!calls, Channelled
<1>1. ASSUME NEW s \in Starts, C!StartNoop(s) PROVE C!TypeOK'
  BY <1>1 DEF C!StartNoop
<1>2. ASSUME NEW s \in Starts, C!StartLoop(s) PROVE C!TypeOK'
  <2>1. loops' \in Seq(Starts)
    BY <1>2 DEF C!StartLoop
  <2>2. \A n \in 1..Len(loops) : loops[n] # s
    BY <1>2 DEF C!StartLoop, Made
  <2>3. C!IsInjective(loops')
    BY <1>2, <2>2, InjectiveAppend DEF C!StartLoop, C!IsInjective, IsInjective
  <2>4. running' \in BOOLEAN /\ replaced' \subseteq Starts
    BY <1>2 DEF C!StartLoop
  <2>5. /\ start' \in [Starts -> {"idle", "ok", "noop"}]
        /\ loop' \in [Starts -> {"none", "spawned", "active", "ended"}]
    BY <1>2 DEF C!StartLoop
  <2> QED
    BY <1>2, <2>1, <2>3, <2>4, <2>5 DEF C!StartLoop
<1>3. ASSUME NEW s \in Starts, C!LoopBegins(s) PROVE C!TypeOK'
  <2>1. closes' \in [Starts -> Starts \cup {NoLoop}]
    BY <1>3, LenProperties DEF C!LoopBegins
  <2>2. loop' \in [Starts -> {"none", "spawned", "active", "ended"}]
    BY <1>3 DEF C!LoopBegins
  <2> QED
    BY <1>3, <2>1, <2>2 DEF C!LoopBegins
<1>4. ASSUME NEW s \in Starts, C!LoopEnds(s) PROVE C!TypeOK'
  <2>1. closes[s] \in Starts
    BY <1>4 DEF C!LoopEnds, Channels
  <2>2. panicked' = (closes[s] \in closed)
    BY <1>4 DEF C!LoopEnds
  <2>3. panicked' \in BOOLEAN
    <3>1. CASE closes[s] \in closed
      BY <2>2, <3>1
    <3>2. CASE closes[s] \notin closed
      BY <2>2, <3>2
    <3> QED
      BY <3>1, <3>2
  <2> QED
    BY <1>4, <2>1, <2>3 DEF C!LoopEnds
<1>5. ASSUME NEW c \in Stops, C!StopNoop(c) \/ C!StopDone(c) \/ C!StopExpires(c)
      PROVE  C!TypeOK'
  BY <1>5 DEF C!StopNoop, C!StopDone, C!StopExpires
<1>6. ASSUME NEW c \in Stops, C!StopClaims(c) PROVE C!TypeOK'
  <2>1. Last(loops) \in Starts
    BY <1>6, LastLoop DEF C!StopClaims, Made
  <2>2. running' \in BOOLEAN
    BY <1>6 DEF C!StopClaims
  <2>3. /\ stop' \in [Stops -> {"idle", "claimed", "waiting", "noop", "ok", "expired"}]
        /\ taken' \in [Stops -> Starts \cup {NoLoop}]
    BY <1>6, <2>1 DEF C!StopClaims, C!Last, Last
  <2> QED
    BY <1>6, <2>2, <2>3 DEF C!StopClaims
<1>7. ASSUME NEW c \in Stops, C!StopCancels(c) PROVE C!TypeOK'
  BY <1>7 DEF C!StopCancels, Claims
<1> QED
  BY <1>1, <1>2, <1>3, <1>4, <1>5, <1>6, <1>7 DEF ConsumerStep

(* The channel that a goroutine sees when it begins.                       *)
LEMMA SeenChannel ==
    ASSUME C!TypeOK, NEW s \in Starts, C!LoopBegins(s)
    PROVE  \E n \in 1..Len(loops) :
             /\ \A m \in n + 1..Len(loops) : loops[m] # s
             /\ loops[n] \in Starts
             /\ closes' = [closes EXCEPT ![s] = loops[n]]
<1>1. \E n \in {n \in DOMAIN loops : \A m \in n + 1..Len(loops) : loops[m] # s} :
         closes' = [closes EXCEPT ![s] = loops[n]]
  BY Zenon DEF C!LoopBegins
<1>2. DOMAIN loops = 1..Len(loops) /\ \A n \in 1..Len(loops) : loops[n] \in Starts
  BY LenProperties, ElementOfSeq DEF C!TypeOK
<1> QED
  BY <1>1, <1>2

LEMMA MadeStep ==
    ASSUME C!TypeOK, Channelled, ConsumerStep
    PROVE  Made'
<1> USE DEF C!TypeOK, Channelled, C!calls, Made
<1>1. ASSUME NEW s \in Starts, C!StartLoop(s) PROVE Made'
  <2>1. /\ loops' = Append(loops, s) /\ start' = [start EXCEPT ![s] = "ok"]
        /\ loop' = [loop EXCEPT ![s] = "spawned"]
    BY <1>1 DEF C!StartLoop
  <2>2. /\ Len(loops) \in Nat /\ Len(loops') = Len(loops) + 1 /\ loops' # <<>>
        /\ \A n \in 1..Len(loops) : loops'[n] = loops[n]
        /\ loops'[Len(loops) + 1] = s
    BY <2>1, AppendedLoop, LenProperties
  <2>3. ASSUME NEW r \in Starts, \E n \in 1..Len(loops) : loops[n] = r
        PROVE  \E n \in 1..Len(loops') : loops'[n] = r
    BY <2>2, <2>3
  <2>4. \E n \in 1..Len(loops') : loops'[n] = s
    BY <2>2
  <2>5. ASSUME NEW r \in Starts, r # s, \E n \in 1..Len(loops') : loops'[n] = r
        PROVE  \E n \in 1..Len(loops) : loops[n] = r
    BY <2>2, <2>5
  <2> QED
    BY <2>1, <2>2, <2>3, <2>4, <2>5
<1>2. ASSUME NEW s \in Starts, C!StartNoop(s) \/ C!LoopBegins(s) \/ C!LoopEnds(s)
      PROVE  Made'
  <2>1. loops' = loops /\ running' = running
    BY <1>2 DEF C!StartNoop, C!LoopBegins, C!LoopEnds
  <2>2. \A r \in Starts : /\ loop'[r] = "none" <=> loop[r] = "none"
                          /\ start'[r] = "ok" <=> start[r] = "ok"
    BY <1>2 DEF C!StartNoop, C!LoopBegins, C!LoopEnds
  <2> QED
    BY <2>1, <2>2
<1>3. ASSUME NEW c \in Stops,
             \/ C!StopNoop(c) \/ C!StopClaims(c) \/ C!StopCancels(c)
             \/ C!StopDone(c) \/ C!StopExpires(c)
      PROVE  Made'
  BY <1>3 DEF C!StopNoop, C!StopClaims, C!StopCancels, C!StopDone, C!StopExpires
<1> QED
  BY <1>1, <1>2, <1>3 DEF ConsumerStep

LEMMA ChannelsStep ==
    ASSUME C!TypeOK, Channelled, ConsumerStep
    PROVE  Channels'
<1> USE WorkerAssumption DEF C!TypeOK, Channelled, C!calls, Channels
<1>1. ASSUME NEW s \in Starts, C!StartNoop(s) \/ C!StartLoop(s) PROVE Channels'
  BY <1>1 DEF C!StartNoop, C!StartLoop, Made
<1>2. ASSUME NEW s \in Starts, C!LoopBegins(s) PROVE Channels'
  <2>1. PICK t \in Starts : closes' = [closes EXCEPT ![s] = t]
    BY <1>2, SeenChannel
  <2> QED
    BY <1>2, <2>1 DEF C!LoopBegins
<1>3. ASSUME NEW s \in Starts, C!LoopEnds(s) PROVE Channels'
  BY <1>3 DEF C!LoopEnds
<1>4. ASSUME NEW c \in Stops,
             \/ C!StopNoop(c) \/ C!StopClaims(c) \/ C!StopCancels(c)
             \/ C!StopDone(c) \/ C!StopExpires(c)
      PROVE  Channels'
  BY <1>4 DEF C!StopNoop, C!StopClaims, C!StopCancels, C!StopDone, C!StopExpires
<1> QED
  BY <1>1, <1>2, <1>3, <1>4 DEF ConsumerStep

LEMMA ReplacedStep ==
    ASSUME C!TypeOK, Channelled, ConsumerStep
    PROVE  Replaced'
<1> USE WorkerAssumption DEF C!TypeOK, Channelled, C!calls, Replaced, C!Alive
<1>1. ASSUME NEW s \in Starts, C!StartLoop(s) PROVE Replaced'
  <2>1. Last(loops') = s
    BY <1>1, AppendedLoop DEF C!StartLoop
  <2> QED
    BY <1>1, <2>1 DEF C!StartLoop
<1>2. ASSUME NEW s \in Starts, C!LoopBegins(s) PROVE Replaced'
  <2>1. PICK n \in 1..Len(loops) :
          /\ \A m \in n + 1..Len(loops) : loops[m] # s
          /\ closes' = [closes EXCEPT ![s] = loops[n]]
    BY <1>2, SeenChannel
  <2>2. loops[n] # s => s # Last(loops)
    BY <2>1, LastLoop, LenProperties DEF Last
  <2>3. loops[n] # s => s \in replaced
    BY <1>2, <2>2 DEF C!LoopBegins
  <2> QED
    BY <1>2, <2>1, <2>3 DEF C!LoopBegins
<1>3. ASSUME NEW s \in Starts, C!StartNoop(s) \/ C!LoopEnds(s) PROVE Replaced'
  BY <1>3 DEF C!StartNoop, C!LoopEnds
<1>4. ASSUME NEW c \in Stops,
             \/ C!StopNoop(c) \/ C!StopClaims(c) \/ C!StopCancels(c)
             \/ C!StopDone(c) \/ C!StopExpires(c)
      PROVE  Replaced'
  BY <1>4 DEF C!StopNoop, C!StopClaims, C!StopCancels, C!StopDone, C!StopExpires
<1> QED
  BY <1>1, <1>2, <1>3, <1>4 DEF ConsumerStep

LEMMA ClaimsStep ==
    ASSUME C!TypeOK, Channelled, ConsumerStep
    PROVE  Claims'
<1> USE DEF C!TypeOK, Channelled, C!calls, Claims
<1>1. ASSUME NEW s \in Starts,
             C!StartNoop(s) \/ C!StartLoop(s) \/ C!LoopBegins(s) \/ C!LoopEnds(s)
      PROVE  Claims'
  BY <1>1 DEF C!StartNoop, C!StartLoop, C!LoopBegins, C!LoopEnds
<1>2. ASSUME NEW c \in Stops, C!StopClaims(c) PROVE Claims'
  <2>1. Last(loops) \in Starts /\ start[Last(loops)] = "ok"
    BY <1>2, LastLoop DEF C!StopClaims, Made
  <2> QED
    BY <1>2, <2>1 DEF C!StopClaims, C!Last, Last
<1>3. ASSUME NEW c \in Stops,
             C!StopNoop(c) \/ C!StopCancels(c) \/ C!StopDone(c) \/ C!StopExpires(c)
      PROVE  Claims'
  BY <1>3 DEF C!StopNoop, C!StopCancels, C!StopDone, C!StopExpires
<1> QED
  BY <1>1, <1>2, <1>3 DEF ConsumerStep

-----------------------------------------------------------------------------
(* Where a loop goes that nobody has cancelled.                            *)
LEMMA OrphanStep ==
    ASSUME C!TypeOK, Channelled, NoLoopIsOrphaned, ConsumerStep
    PROVE  NoLoopIsOrphaned'
<1> USE DEF C!TypeOK, C!calls, C!Alive, NoLoopIsOrphaned
<1>1. ASSUME NEW s \in Starts, C!StartLoop(s) PROVE NoLoopIsOrphaned'
  <2>1. Last(loops') = s
    BY <1>1, AppendedLoop DEF C!StartLoop
  <2> QED
    BY <1>1, <2>1 DEF C!StartLoop
<1>2. ASSUME NEW s \in Starts, C!StartNoop(s) \/ C!LoopBegins(s) \/ C!LoopEnds(s)
      PROVE  NoLoopIsOrphaned'
  BY <1>2 DEF C!StartNoop, C!LoopBegins, C!LoopEnds
<1>3. ASSUME NEW c \in Stops, C!StopClaims(c) PROVE NoLoopIsOrphaned'
  <2>1. stop'[c] = "claimed" /\ taken'[c] = Last(loops)
    BY <1>3 DEF C!StopClaims, C!Last, Last
  <2>2. \A d \in Stops : stop[d] = "claimed" =>
          stop'[d] = "claimed" /\ taken'[d] = taken[d]
    BY <1>3 DEF C!StopClaims
  <2> QED
    BY <1>3, <2>1, <2>2 DEF C!StopClaims
<1>4. ASSUME NEW c \in Stops, C!StopCancels(c) PROVE NoLoopIsOrphaned'
  <2>1. \A d \in Stops : stop[d] = "claimed" /\ taken[d] \notin cancelled' =>
          stop'[d] = "claimed"
    BY <1>4 DEF C!StopCancels
  <2> QED
    BY <1>4, <2>1 DEF C!StopCancels
<1>5. ASSUME NEW c \in Stops, C!StopNoop(c) \/ C!StopDone(c) \/ C!StopExpires(c)
      PROVE  NoLoopIsOrphaned'
  <2>1. \A d \in Stops : stop[d] = "claimed" => stop'[d] = "claimed"
    BY <1>5 DEF C!StopNoop, C!StopDone, C!StopExpires
  <2> QED
    BY <1>5, <2>1 DEF C!StopNoop, C!StopDone, C!StopExpires
<1> QED
  BY <1>1, <1>2, <1>3, <1>4, <1>5 DEF ConsumerStep

-----------------------------------------------------------------------------
(* The goroutines that hold the channel of another.                        *)
Strays == {s \in replaced : closes[s] \notin {s, NoLoop}}

(* A closed channel whose own loop lives was closed by a stray.            *)
LEMMA StrayCloses ==
    ASSUME C!TypeOK, Channelled, NEW t \in closed, C!Alive(t)
    PROVE  \E s \in Strays : closes[s] = t
<1>1. PICK s \in Starts : loop[s] = "ended" /\ closes[s] = t
  BY DEF Channelled, Channels
<1>2. t \in Starts /\ s # t
  BY <1>1 DEF C!TypeOK, C!Alive
<1>3. closes[s] # NoLoop /\ closes[s] # s
  BY <1>1, <1>2, WorkerAssumption
<1> QED
  BY <1>1, <1>3 DEF Strays, Channelled, Replaced

(* A channel is closed twice only if a stray closed it, or closes it now.  *)
LEMMA StrayClosesTwice ==
    ASSUME C!TypeOK, Channelled,
           NEW s \in Starts, loop[s] = "active", closes[s] \in closed
    PROVE  Strays # {}
<1>1. PICK r \in Starts : loop[r] = "ended" /\ closes[r] = closes[s]
  BY DEF Channelled, Channels
<1>2. r # s /\ closes[s] # NoLoop
  BY <1>1 DEF Channelled, Channels
<1>3. closes[s] # s \/ closes[r] # r
  BY <1>1, <1>2
<1> QED
  BY <1>1, <1>2, <1>3 DEF Strays, Channelled, Replaced

(* A stray stays one.                                                      *)
LEMMA StraysStay ==
    ASSUME C!TypeOK, Channelled, ConsumerStep
    PROVE  \A s \in Strays : s \in Strays' /\ closes'[s] = closes[s]
<1> USE DEF C!TypeOK, Channelled, C!calls, Strays
<1>1. ASSUME NEW s \in Starts, C!LoopBegins(s)
      PROVE  \A r \in Strays : r \in Strays' /\ closes'[r] = closes[r]
  <2>1. /\ closes[s] = NoLoop /\ replaced' = replaced
        /\ \A r \in Starts : r # s => closes'[r] = closes[r]
    BY <1>1 DEF C!LoopBegins, Channels
  <2> QED
    BY <2>1
<1>2. ASSUME closes' = closes, replaced \subseteq replaced'
      PROVE  \A r \in Strays : r \in Strays' /\ closes'[r] = closes[r]
  BY <1>2
<1>3. ASSUME NEW s \in Starts, C!StartNoop(s) \/ C!StartLoop(s) \/ C!LoopEnds(s)
      PROVE  closes' = closes /\ replaced \subseteq replaced'
  BY <1>3 DEF C!StartNoop, C!StartLoop, C!LoopEnds
<1>4. ASSUME NEW c \in Stops,
             \/ C!StopNoop(c) \/ C!StopClaims(c) \/ C!StopCancels(c)
             \/ C!StopDone(c) \/ C!StopExpires(c)
      PROVE  closes' = closes /\ replaced \subseteq replaced'
  BY <1>4 DEF C!StopNoop, C!StopClaims, C!StopCancels, C!StopDone, C!StopExpires
<1> QED
  BY <1>1, <1>2, <1>3, <1>4 DEF ConsumerStep

(* A Stop that has returned nil, or does now, has found its channel        *)
(* closed, and the loop it took, if it lives now, lived before.            *)
LEMMA EndedStops ==
    ASSUME C!TypeOK, Channelled, ConsumerStep, NEW c \in Stops, stop'[c] = "ok"
    PROVE  /\ taken'[c] = taken[c] /\ taken[c] \in Starts
           /\ taken[c] \in closed \/ stop[c] = "ok"
           /\ C!Alive(taken[c])' => C!Alive(taken[c])
<1> USE DEF C!TypeOK, C!calls, C!Alive
<1>1. ASSUME NEW s \in Starts,
             C!StartNoop(s) \/ C!StartLoop(s) \/ C!LoopBegins(s) \/ C!LoopEnds(s)
      PROVE  /\ taken'[c] = taken[c] /\ stop[c] = "ok"
             /\ \A r \in Starts : start[r] = "ok" /\ loop'[r] \in {"spawned", "active"} =>
                  loop[r] \in {"spawned", "active"}
  BY <1>1 DEF C!StartNoop, C!StartLoop, C!LoopBegins, C!LoopEnds
<1>2. ASSUME NEW d \in Stops,
             \/ C!StopNoop(d) \/ C!StopClaims(d) \/ C!StopCancels(d)
             \/ C!StopDone(d) \/ C!StopExpires(d)
      PROVE  /\ taken'[c] = taken[c] /\ (taken[c] \in closed \/ stop[c] = "ok")
             /\ stop[c] \in {"waiting", "ok"} /\ loop' = loop
  <2>1. CASE C!StopClaims(d)
    <3>1. d # c
      BY <1>2, <2>1 DEF C!StopClaims
    <3> QED
      BY <1>2, <2>1, <3>1 DEF C!StopClaims
  <2>2. CASE C!StopDone(d)
    BY <1>2, <2>2 DEF C!StopDone
  <2>3. CASE C!StopNoop(d) \/ C!StopCancels(d) \/ C!StopExpires(d)
    BY <1>2, <2>3 DEF C!StopNoop, C!StopCancels, C!StopExpires
  <2> QED
    BY <1>2, <2>1, <2>2, <2>3
<1>3. taken'[c] = taken[c] /\ stop[c] \in {"waiting", "ok"}
  BY <1>1, <1>2 DEF ConsumerStep
<1>4. taken[c] \in Starts /\ start[taken[c]] = "ok"
  BY <1>3 DEF Channelled, Claims
<1> QED
  BY <1>1, <1>2, <1>3, <1>4 DEF ConsumerStep

LEMMA EndsStep ==
    ASSUME C!TypeOK, Channelled, StopEndsItsLoop, ~panicked, ConsumerStep
    PROVE  StopEndsItsLoop'
<1>1. ASSUME NEW c \in Stops, stop'[c] = "ok", C!Alive(taken[c])'
      PROVE  \E s \in Strays' : closes'[s] = taken'[c]
  <2>1. /\ taken'[c] = taken[c] /\ C!Alive(taken[c])
        /\ taken[c] \in closed \/ stop[c] = "ok"
    BY <1>1, EndedStops
  <2>2. \E s \in Strays : closes[s] = taken[c]
    BY <2>1, StrayCloses DEF StopEndsItsLoop, Strays
  <2> QED
    BY <2>1, <2>2, StraysStay
<1>2. ASSUME panicked' PROVE Strays' # {}
  <2>1. PICK s \in Starts : C!LoopEnds(s)
    BY <1>2 DEF ConsumerStep, C!StartNoop, C!StartLoop, C!LoopBegins, C!StopNoop,
                C!StopClaims, C!StopCancels, C!StopDone, C!StopExpires
  <2>2. Strays # {}
    BY <1>2, <2>1, StrayClosesTwice DEF C!LoopEnds
  <2> QED
    BY <2>2, StraysStay
<1> QED
  BY <1>1, <1>2 DEF StopEndsItsLoop, Strays

LEMMA ConsumerInvariant == WorkerSpec => []ConsumerInv
<1>1. WorkerInit => ConsumerInv
  <2> SUFFICES ASSUME C!Init PROVE ConsumerInv
    BY DEF WorkerInit
  <2>1. running \in BOOLEAN /\ panicked \in BOOLEAN
    BY DEF C!Init
  <2>2. C!TypeOK
    BY <2>1 DEF C!Init, C!TypeOK, C!IsInjective
  <2>3. Channelled
    BY WorkerAssumption DEF C!Init, Channelled, Made, Channels, Replaced, Claims, C!Alive
  <2>4. NoLoopIsOrphaned /\ StopEndsItsLoop
    BY DEF C!Init, NoLoopIsOrphaned, StopEndsItsLoop, C!Alive
  <2> QED
    BY <2>2, <2>3, <2>4 DEF ConsumerInv
<1>2. ConsumerInv /\ [WorkerNext]_<<vars, consumer>> => ConsumerInv'
  <2> SUFFICES ASSUME ConsumerInv, (ConsumerStep /\ ~panicked) \/ UNCHANGED consumer
               PROVE  ConsumerInv'
    BY WorkerCases
  <2>1. CASE ConsumerStep /\ ~panicked
    BY <2>1, ConsumerTypingStep, MadeStep, ChannelsStep, ReplacedStep, ClaimsStep,
       OrphanStep, EndsStep DEF ConsumerInv, Channelled
  <2>2. CASE UNCHANGED consumer
    BY <2>2 DEF consumer, ConsumerInv, C!TypeOK, Channelled, Made, Channels, Replaced,
                Claims, NoLoopIsOrphaned, StopEndsItsLoop, C!Alive
  <2> QED
    BY <2>1, <2>2
<1> QED
  BY <1>1, <1>2, PTL DEF WorkerSpec

(* No Start ever orphans a loop, however Starts and Stops overlap.         *)
THEOREM LoopIsFound == WorkerSpec => []NoLoopIsOrphaned
<1>1. ConsumerInv => NoLoopIsOrphaned
  BY DEF ConsumerInv
<1> QED
  BY <1>1, ConsumerInvariant, PTL

(* Only the race for the field done keeps a Stop from ending its loop, or  *)
(* closes a channel twice.                                                 *)
THEOREM OnlyStraysMislead == WorkerSpec => []StopEndsItsLoop
<1>1. ConsumerInv => StopEndsItsLoop
  BY DEF ConsumerInv
<1> QED
  BY <1>1, ConsumerInvariant, PTL

(* Every variable of the worker has its type.                              *)
THEOREM WorkerTyping == WorkerSpec => []WorkerTypeOK
<1>1. HealthInv /\ ConsumerInv => WorkerTypeOK
  BY DEF HealthInv, ConsumerInv, WorkerTypeOK
<1> QED
  BY <1>1, HealthInvariant, ConsumerInvariant, PTL
=============================================================================
