---------------------------- MODULE RetryProofs -----------------------------
(***************************************************************************)
(* Theorems about one call through Retry, for every policy, every width of *)
(* a Duration, every set of Retry-After headers and every deadline.        *)
(***************************************************************************)
EXTENDS Retry, TLAPS, SequenceTheorems, WellFoundedInduction

-----------------------------------------------------------------------------
(* Induction on the naturals, for a set in place of a predicate.           *)
LEMMA LeastNatural ==
    ASSUME NEW T, T \subseteq Nat, T # {}
    PROVE  \E x \in T : \A y \in T : ~(y < x)
<1>1. IsWellFoundedOn(OpToRel(<, Nat), Nat)
  BY NatLessThanWellFounded
<1> DEFINE R == OpToRel(<, Nat)
<1>2. \A x, y \in Nat : y < x => <<y, x>> \in R
  BY DEF OpToRel
<1> HIDE DEF R
<1>3. IsWellFoundedOn(R, Nat)
  BY <1>1 DEF R
<1>4. \E x \in T : \A y \in T : <<y, x>> \notin R
  BY <1>3, WFMin
<1> QED
  BY <1>2, <1>4

(* A set with 0 and every successor of its members has every natural.      *)
LEMMA SetInduction ==
    ASSUME NEW T, 0 \in T, \A n \in Nat : n \in T => n + 1 \in T
    PROVE  Nat \subseteq T
<1> SUFFICES ASSUME Nat \ T # {} PROVE FALSE
  OBVIOUS
<1>1. PICK x \in Nat \ T : \A y \in Nat \ T : ~(y < x)
  BY LeastNatural
<1>2. x # 0 /\ x - 1 \in Nat /\ x - 1 < x
  BY <1>1
<1>3. x - 1 \in T
  BY <1>1, <1>2
<1>4. x - 1 + 1 \in T
  BY <1>2, <1>3
<1> QED
  BY <1>1, <1>2, <1>4

-----------------------------------------------------------------------------
(* A function that is defined from its value one step earlier exists, so   *)
(* that the functions of Retry that are defined so have the values that    *)
(* their definitions say.  h solves the equations as far as k.             *)
Step(c, g, h, n) == IF n <= 1 THEN c ELSE g[h[n - 1]]
Solves(S, c, g, h, k) == h \in [0..k -> S] /\ \A n \in 0..k : h[n] = Step(c, g, h, n)
Recursive(S, c, g, h) == h \in [Nat -> S] /\ \A n \in Nat : h[n] = Step(c, g, h, n)

LEMMA Recursion ==
    ASSUME NEW S, NEW c \in S, NEW g \in [S -> S]
    PROVE  \E h : Recursive(S, c, g, h)
<1> DEFINE Good == {k \in Nat : \E h : Solves(S, c, g, h, k)}
<1>1. Nat \subseteq Good
  <2>1. 0 \in Good
    <3>1. Solves(S, c, g, [n \in 0..0 |-> c], 0)
      BY DEF Solves, Step
    <3> QED
      BY <3>1
  <2>2. ASSUME NEW k \in Nat, k \in Good PROVE k + 1 \in Good
    <3>1. PICK h : Solves(S, c, g, h, k)
      BY <2>2
    <3> DEFINE next == IF k + 1 <= 1 THEN c ELSE g[h[k]]
               longer == [n \in 0..k + 1 |-> IF n = k + 1 THEN next ELSE h[n]]
    <3>2. next \in S
      BY <3>1 DEF Solves
    <3>3. Solves(S, c, g, longer, k + 1)
      BY <3>1, <3>2 DEF Solves, Step
    <3> QED
      BY <3>3
  <2> HIDE DEF Good
  <2> QED
    BY <2>1, <2>2, SetInduction
<1>2. ASSUME NEW h, NEW j, NEW k \in Nat, NEW i \in Nat,
             Solves(S, c, g, h, k), Solves(S, c, g, j, i)
      PROVE  \A n \in Nat : n <= k /\ n <= i => h[n] = j[n]
  <2> DEFINE Same == {n \in Nat : n <= k /\ n <= i => h[n] = j[n]}
  <2>1. 0 \in Same
    BY <1>2 DEF Solves, Step
  <2>2. ASSUME NEW n \in Nat, n \in Same PROVE n + 1 \in Same
    BY <1>2, <2>2 DEF Solves, Step
  <2>3. Nat \subseteq Same
    <3> HIDE DEF Same
    <3> QED
      BY <2>1, <2>2, SetInduction
  <2> QED
    BY <2>3
<1> DEFINE H(n) == CHOOSE h : Solves(S, c, g, h, n)
           f == [n \in Nat |-> H(n)[n]]
<1>3. ASSUME NEW n \in Nat PROVE Solves(S, c, g, H(n), n)
  <2>1. \E h : Solves(S, c, g, h, n)
    BY <1>1
  <2> QED
    BY <2>1, Zenon
<1> HIDE DEF H
<1>4. f \in [Nat -> S]
  BY <1>3 DEF Solves
<1>5. ASSUME NEW n \in Nat PROVE f[n] = IF n <= 1 THEN c ELSE g[f[n - 1]]
  <2>1. CASE n <= 1
    BY <1>3, <2>1 DEF Solves, Step
  <2>2. CASE n > 1
    <3>1. n - 1 \in Nat /\ n - 1 <= n
      BY <2>2
    <3>2. H(n)[n - 1] = H(n - 1)[n - 1]
      BY <1>2, <1>3, <3>1
    <3>3. H(n)[n] = g[H(n)[n - 1]]
      BY <1>3, <2>2 DEF Solves, Step
    <3> QED
      BY <2>2, <3>1, <3>2, <3>3
  <2> QED
    BY <2>1, <2>2
<1>6. Recursive(S, c, g, f)
  BY <1>4, <1>5 DEF Recursive, Step
<1> QED
  BY <1>6

LEMMA DoubledSteps ==
    /\ Doubled[1] = IF Base > MaxBackoff THEN MaxBackoff ELSE Base
    /\ \A n \in Nat \ {0} : Doubled[n + 1] = Doubling(Doubled[n])
<1> DEFINE c == IF Base > MaxBackoff THEN MaxBackoff ELSE Base
           g == [d \in Int |-> Doubling(d)]
           Body(f) == [n \in Nat |-> IF n <= 1 THEN c ELSE Doubling(f[n - 1])]
<1>1. c \in Int /\ g \in [Int -> Int]
  BY RetryAssumption DEF Doubling
<1>2. PICK f : Recursive(Int, c, g, f)
  <2> HIDE DEF c, g
  <2> QED
    BY <1>1, Recursion, Zenon
<1>3. f = Body(f)
  <2>1. ASSUME NEW n \in Nat PROVE f[n] = IF n <= 1 THEN c ELSE Doubling(f[n - 1])
    <3>1. n > 1 => n - 1 \in Nat /\ f[n - 1] \in Int
      BY <1>2 DEF Recursive
    <3>2. \A d \in Int : g[d] = Doubling(d)
      OBVIOUS
    <3>3. f[n] = Step(c, g, f, n)
      BY <1>2 DEF Recursive
    <3> HIDE DEF g, c
    <3> QED
      BY <3>1, <3>2, <3>3 DEF Step
  <2> QED
    BY <1>2, <2>1 DEF Recursive
<1>4. Doubled = Body(Doubled)
  <2>1. \E h : h = Body(h)
    BY <1>3
  <2> QED
    BY <2>1, Zenon DEF Doubled
<1> QED
  BY <1>4

LEMMA UncappedSteps ==
    /\ Uncapped[1] = Base
    /\ \A n \in Nat \ {0} : Uncapped[n + 1] = 2 * Uncapped[n]
<1> DEFINE g == [d \in Int |-> 2 * d]
           Body(f) == [n \in Nat |-> IF n <= 1 THEN Base ELSE 2 * f[n - 1]]
<1>1. Base \in Int /\ g \in [Int -> Int]
  BY RetryAssumption
<1>2. PICK f : Recursive(Int, Base, g, f)
  <2> HIDE DEF g
  <2> QED
    BY <1>1, Recursion, Zenon
<1>3. f = Body(f)
  <2>1. ASSUME NEW n \in Nat PROVE f[n] = IF n <= 1 THEN Base ELSE 2 * f[n - 1]
    <3>1. n > 1 => n - 1 \in Nat /\ f[n - 1] \in Int
      BY <1>2 DEF Recursive
    <3>2. \A d \in Int : g[d] = 2 * d
      OBVIOUS
    <3>3. f[n] = Step(Base, g, f, n)
      BY <1>2 DEF Recursive
    <3> HIDE DEF g
    <3> QED
      BY <3>1, <3>2, <3>3 DEF Step
  <2> QED
    BY <1>2, <2>1 DEF Recursive
<1>4. Uncapped = Body(Uncapped)
  <2>1. \E h : h = Body(h)
    BY <1>3
  <2> QED
    BY <2>1, Zenon DEF Uncapped
<1> QED
  BY <1>4

-----------------------------------------------------------------------------
(* The backoff of the attempts so far: within the cap, and within what was *)
(* doubled without it, except that an odd cap is reached one tick early.   *)
Bounded(n) ==
    /\ Doubled[n] \in 1..MaxBackoff /\ Uncapped[n] \in Nat
    /\ \/ Doubled[n] <= Uncapped[n]
       \/ Doubled[n] = MaxBackoff /\ MaxBackoff <= Uncapped[n] + 1

LEMMA BoundedStep ==
    /\ Bounded(1)
    /\ \A n \in Nat \ {0} : Bounded(n) => Bounded(n + 1)
<1> USE RetryAssumption
<1>1. Bounded(1)
  BY DoubledSteps, UncappedSteps DEF Bounded
<1>2. ASSUME NEW n \in Nat \ {0}, Bounded(n) PROVE Bounded(n + 1)
  <2> DEFINE d == Doubled[n]  u == Uncapped[n]  half == MaxBackoff \div 2
  <2>1. /\ Doubled[n + 1] = IF d >= half THEN MaxBackoff ELSE 2 * d
        /\ Uncapped[n + 1] = 2 * u
    BY DoubledSteps, UncappedSteps DEF Doubling
  <2>2. /\ d \in 1..MaxBackoff /\ u \in Nat
        /\ d <= u \/ (d = MaxBackoff /\ MaxBackoff <= u + 1)
    BY <1>2 DEF Bounded
  <2>3. half \in Nat /\ MaxBackoff \in {2 * half, 2 * half + 1}
    OBVIOUS
  <2> HIDE DEF d, u, half
  <2>4. CASE d >= half
    BY <2>1, <2>2, <2>3, <2>4 DEF Bounded
  <2>5. CASE d < half
    BY <2>1, <2>2, <2>3, <2>5 DEF Bounded
  <2> QED
    BY <2>2, <2>3, <2>4, <2>5
<1> QED
  BY <1>1, <1>2

-----------------------------------------------------------------------------
(* How far the loop is, and what has been on the wire by then.             *)
Progress ==
    /\ pc = "idle" => attempt = 1
    /\ pc \in {"idle", "sending"} => Len(wire) = attempt - 1
    /\ pc \in {"inFlight", "deciding", "draining", "waiting"} => Len(wire) = attempt
    /\ Len(wire) <= attempt
    /\ pc \in {"draining", "waiting"} => eligible /\ attempt < Attempts
    /\ attempt > 1 => eligible
    /\ Bounded(attempt)

(* What every attempt of a call that may be repeated sends.                *)
Wired ==
    \A a \in 1..Len(wire) :
        wire[a] = IF call.body = "none" THEN "none"
                  ELSE IF a > 1 /\ call.body = "opaque" THEN "empty" ELSE "full"

(* A call has a result once it has ended.                                  *)
Resulting ==
    /\ pc \notin {"returned", "panicked"} => result = "none"
    /\ pc = "returned" => result \in {"reply", "buildErr", "ctxErr"}
    /\ pc = "panicked" => result \in {"transport", "retryIf", "backoff"}

(* Only the attempt at hand holds a body or a context: no body while it is *)
(* in flight, no context without its body once it is answered, and neither *)
(* when it has been drained.                                               *)
Free(a)   == body[a] # "open" /\ lease[a] # "live"
Paired(a) == lease[a] = "live" => body[a] = "open"

Holding ==
    /\ \A a \in 1..Attempts : a # attempt => Free(a)
    /\ pc \in {"idle", "sending", "waiting"} => Free(attempt)
    /\ pc = "inFlight" => body[attempt] # "open"
    /\ pc \in {"deciding", "draining"} => Paired(attempt)
    /\ pc = "returned" =>
         IF result = "reply" THEN Paired(attempt) ELSE Free(attempt)
    /\ pc = "panicked" =>
         CASE result = "transport" -> body[attempt] # "open"
           [] result = "retryIf"   -> Free(attempt)
           [] result = "backoff"   -> Paired(attempt)

(* While a call waits there is time for what is left of the delay, unless  *)
(* the drain took it.                                                      *)
Budget ==
    /\ pc \in {"draining", "waiting"} /\ left # NoDeadline => left + lag > delay
    /\ AnswerKept

(* The delay is one that do() chose, or what is left of it.                *)
Delayed ==
    pc \in {"draining", "waiting"} =>
        \/ delay <= MaxRetryAfter /\ status = "unavailable"
        \/ delay <= Doubled[attempt]

RetryInv == Progress /\ Wired /\ Resulting /\ Holding /\ Budget /\ Delayed

LEMMA AttemptsIsPositive == Attempts \in Nat \ {0}
  BY RetryAssumption DEF Attempts

-----------------------------------------------------------------------------
(* Typing.  A delay is a Duration: a backoff is within the cap, and so is  *)
(* what a header asks for, which may have wrapped below 0.                 *)
LEMMA WrapIsDuration == \A d \in Int : Wrap(d) \in -Half..Half-1
  BY RetryAssumption DEF Wrap

LEMMA DelaysAreDurations ==
    ASSUME TypeOK, Bounded(attempt), NEW d \in Delays
    PROVE  /\ d \in -Half..Half-1
           /\ \/ d <= MaxRetryAfter /\ status = "unavailable"
              \/ d <= Doubled[attempt]
<1> USE RetryAssumption
<1> DEFINE asked == {e \in RetryAfter : e <= MaxRetryAfter}
<1>1. CASE asked = {}
  <2>1. d \in Jitter(Doubled[attempt])
    BY <1>1 DEF Delays, Exponential
  <2>2. d \in 0..Doubled[attempt] /\ Doubled[attempt] \in 1..MaxBackoff
    BY <2>1 DEF Jitter, Bounded
  <2> QED
    BY <2>2
<1>2. CASE asked # {}
  <2>1. d \in RetryAfter /\ d <= MaxRetryAfter
    BY <1>2 DEF Delays
  <2>2. header \in Headers /\ header.v \in 0..Half-1
        /\ header.kind \in {"none", "seconds", "date"}
    BY DEF TypeOK
  <2>3. status = "unavailable" /\ header.kind # "none"
    BY <2>1 DEF RetryAfter
  <2>4. d = header.v \/ d = Wrap(header.v * Second)
    BY <2>1, <2>2, <2>3 DEF RetryAfter
  <2>5. header.v * Second \in Int
    BY <2>2
  <2> QED
    BY <2>1, <2>2, <2>3, <2>4, <2>5, WrapIsDuration
<1> QED
  BY <1>1, <1>2

LEMMA CloseIsTyped ==
    ASSUME TypeOK, NEW a \in 1..Attempts, Close(a)
    PROVE  /\ body' \in [1..Attempts -> {"none", "open", "closed"}]
           /\ lease' \in [1..Attempts -> {"none", "live", "cancelled"}]
           /\ body'[a] # "open" /\ lease'[a] # "live"
           /\ \A b \in 1..Attempts : b # a => body'[b] = body[b] /\ lease'[b] = lease[b]
  BY DEF TypeOK, Close

LEMMA InitHolds == Init => TypeOK /\ RetryInv
<1> SUFFICES ASSUME Init PROVE TypeOK /\ RetryInv
  OBVIOUS
<1> USE RetryAssumption, AttemptsIsPositive DEF Init
<1>1. TypeOK
  <2>1. /\ left \in Nat \cup {NoDeadline} /\ delay \in -Half..Half-1
        /\ attempt \in 1..Attempts /\ Len(wire) <= Attempts /\ lag \in Nat
    OBVIOUS
  <2>2. wire \in Seq({"none", "full", "empty"})
    OBVIOUS
  <2>3. /\ body \in [1..Attempts -> {"none", "open", "closed"}]
        /\ lease \in [1..Attempts -> {"none", "live", "cancelled"}]
    OBVIOUS
  <2> QED
    BY <2>1, <2>2, <2>3 DEF TypeOK
<1>2. Progress
  BY BoundedStep DEF Progress
<1>3. Wired /\ Resulting /\ Budget /\ Delayed
  BY DEF Wired, Resulting, Budget, AnswerKept, Delayed
<1>4. Holding
  BY DEF Holding, Free, Paired
<1> QED
  BY <1>1, <1>2, <1>3, <1>4 DEF RetryInv

LEMMA SendKeeps == TypeOK /\ RetryInv /\ Send => TypeOK' /\ RetryInv'
<1> SUFFICES ASSUME TypeOK, RetryInv, Send PROVE TypeOK' /\ RetryInv'
  OBVIOUS
<1> USE AttemptsIsPositive DEF Send, RetryInv, reply, held, clock
<1> DEFINE sent == IF call.body = "none" THEN "none"
                   ELSE IF attempt > 1 /\ call.body = "opaque" THEN "empty" ELSE "full"
<1>1. wire' = Append(wire, sent) /\ sent \in {"none", "full", "empty"}
  BY DEF TypeOK
<1>2. Len(wire) = attempt - 1 /\ wire \in Seq({"none", "full", "empty"})
  BY DEF Progress, TypeOK
<1> HIDE DEF sent
<1>3. /\ wire' \in Seq({"none", "full", "empty"}) /\ Len(wire') = attempt
      /\ wire'[attempt] = sent
      /\ \A a \in 1..Len(wire) : wire'[a] = wire[a]
  BY <1>1, <1>2 DEF TypeOK
<1>4. lease' \in [1..Attempts -> {"none", "live", "cancelled"}]
  BY DEF TypeOK
<1>5. TypeOK'
  BY <1>3, <1>4 DEF TypeOK
<1>6. Progress'
  BY <1>3 DEF Progress, eligible, Bounded, TypeOK
<1>7. Wired'
  BY <1>2, <1>3 DEF Wired, sent, TypeOK
<1>8. Resulting' /\ Budget' /\ Delayed'
  BY DEF Resulting, Budget, AnswerKept, Delayed
<1>9. Holding'
  BY DEF Holding, Free, Paired, TypeOK
<1> QED
  BY <1>5, <1>6, <1>7, <1>8, <1>9

(* The answer to an attempt, or the error of one.                          *)
LEMMA AnswerKeeps ==
    ASSUME NEW st \in {"error", "answer", "gateway", "unavailable"}, NEW h \in Headers
    PROVE  TypeOK /\ RetryInv /\ Answer(st, h) => TypeOK' /\ RetryInv'
<1> SUFFICES ASSUME TypeOK, RetryInv, Answer(st, h) PROVE TypeOK' /\ RetryInv'
  OBVIOUS
<1> USE AttemptsIsPositive DEF Answer, RetryInv, reply, held, clock
<1>1. attempt \in 1..Attempts
  BY DEF TypeOK
<1>2. /\ body' \in [1..Attempts -> {"none", "open", "closed"}]
      /\ lease' \in [1..Attempts -> {"none", "live", "cancelled"}]
      /\ lease'[attempt] = "live" => body'[attempt] = "open"
      /\ \A a \in 1..Attempts :
            a # attempt => body'[a] = body[a] /\ lease'[a] = lease[a]
  <2>1. CASE st = "error"
    BY <1>1, <2>1, CloseIsTyped
  <2>2. CASE st # "error"
    BY <1>1, <2>2 DEF TypeOK, Holding
  <2> QED
    BY <2>1, <2>2
<1>3. TypeOK'
  BY <1>2 DEF TypeOK
<1>4. Progress' /\ Wired' /\ Resulting' /\ Budget' /\ Delayed'
  BY DEF Progress, eligible, Bounded, Wired, Resulting, Budget, AnswerKept, Delayed
<1>5. Holding'
  BY <1>1, <1>2 DEF Holding, Free, Paired
<1> QED
  BY <1>3, <1>4, <1>5

(* The steps that end the call.                                            *)
LEMMA EndKeeps ==
    TypeOK /\ RetryInv /\ (GetBodyFails \/ Settle \/ GiveUp \/ WaitCut
                             \/ TransportPanics \/ RetryIfPanics \/ BackoffPanics)
        => TypeOK' /\ RetryInv'
<1> USE AttemptsIsPositive DEF RetryInv, reply, held, clock, Return
<1>1. ASSUME TypeOK, RetryInv, GetBodyFails PROVE TypeOK' /\ RetryInv'
  <2> USE <1>1 DEF GetBodyFails
  <2>1. TypeOK' /\ Progress' /\ Wired' /\ Resulting' /\ Delayed'
    BY DEF TypeOK, Progress, Bounded, eligible, Wired, Resulting, Delayed
  <2>2. Holding' /\ Budget'
    BY DEF Holding, Free, Paired, Budget, AnswerKept
  <2> QED
    BY <2>1, <2>2
<1>2. ASSUME TypeOK, RetryInv, Settle \/ GiveUp PROVE TypeOK' /\ RetryInv'
  <2>1. /\ pc = "deciding" /\ pc' = "returned" /\ result' = "reply"
        /\ UNCHANGED <<call, attempt, wire, status, header, body, lease, delay,
                       left, cancelled, lag>>
    BY <1>2, Zenon DEF Settle, GiveUp
  <2>2. TypeOK' /\ Progress' /\ Wired' /\ Resulting' /\ Delayed'
    BY <1>2, <2>1 DEF TypeOK, Progress, Bounded, eligible, Wired, Resulting, Delayed
  <2>3. Holding' /\ Budget'
    BY <1>2, <2>1 DEF Holding, Free, Paired, Budget, AnswerKept
  <2> QED
    BY <2>2, <2>3
<1>3. ASSUME TypeOK, RetryInv, WaitCut PROVE TypeOK' /\ RetryInv'
  <2> USE <1>3 DEF WaitCut
  <2>1. TypeOK' /\ Progress' /\ Wired' /\ Resulting' /\ Delayed'
    BY DEF TypeOK, Progress, Bounded, eligible, Wired, Resulting, Delayed
  <2>2. Holding'
    BY DEF Holding, Free, Paired
  <2>3. cancelled \/ lag > 0 \/ delay < 0
    BY DEF CtxDone, Budget, TypeOK, NoDeadline
  <2>4. Budget'
    BY <2>3 DEF Budget, AnswerKept
  <2> QED
    BY <2>1, <2>2, <2>4
<1>4. ASSUME TypeOK, RetryInv, RetryIfPanics PROVE TypeOK' /\ RetryInv'
  <2> USE <1>4 DEF RetryIfPanics
  <2>1. /\ body' \in [1..Attempts -> {"none", "open", "closed"}]
        /\ lease' \in [1..Attempts -> {"none", "live", "cancelled"}]
        /\ body'[attempt] # "open" /\ lease'[attempt] # "live"
        /\ \A b \in 1..Attempts :
              b # attempt => body'[b] = body[b] /\ lease'[b] = lease[b]
    <3>1. attempt \in 1..Attempts
      BY DEF TypeOK
    <3> QED
      BY <3>1, CloseIsTyped
  <2>2. TypeOK' /\ Progress' /\ Wired' /\ Resulting' /\ Delayed'
    BY <2>1 DEF TypeOK, Progress, Bounded, eligible, Wired, Resulting, Delayed
  <2>3. Holding' /\ Budget'
    BY <2>1 DEF Holding, Free, Paired, Budget, AnswerKept, TypeOK
  <2> QED
    BY <2>2, <2>3
<1>5. ASSUME TypeOK, RetryInv, TransportPanics \/ BackoffPanics
      PROVE  TypeOK' /\ RetryInv'
  <2> USE <1>5 DEF TransportPanics, BackoffPanics
  <2>1. TypeOK' /\ Progress' /\ Wired' /\ Resulting' /\ Delayed'
    BY DEF TypeOK, Progress, Bounded, eligible, Wired, Resulting, Delayed
  <2>2. Holding' /\ Budget'
    BY DEF Holding, Free, Paired, Budget, AnswerKept
  <2> QED
    BY <2>1, <2>2
<1> QED
  BY <1>1, <1>2, <1>3, <1>4, <1>5

(* The steps from one attempt to the next.                                 *)
LEMMA RepeatKeeps ==
    TypeOK /\ RetryInv /\ (TryAgain \/ drain \/ Waited) => TypeOK' /\ RetryInv'
<1> USE AttemptsIsPositive DEF RetryInv, reply, held, clock
<1>1. ASSUME TypeOK, RetryInv, TryAgain PROVE TypeOK' /\ RetryInv'
  <2> USE <1>1 DEF TryAgain
  <2>1. delay' \in Delays /\ canWait(delay')
    OBVIOUS
  <2>2. /\ delay' \in -Half..Half-1
        /\ \/ delay' <= MaxRetryAfter /\ status = "unavailable"
           \/ delay' <= Doubled[attempt]
    BY <2>1, DelaysAreDurations DEF Progress
  <2>3. TypeOK' /\ Wired' /\ Resulting' /\ Delayed'
    BY <2>2 DEF TypeOK, Wired, Resulting, Delayed
  <2>4. Progress'
    BY DEF Progress, Bounded, eligible, IsLast, TypeOK
  <2>5. Holding'
    BY DEF Holding, Free, Paired
  <2>6. Budget'
    BY <2>1 DEF Budget, AnswerKept, Resulting, canWait, TypeOK
  <2> QED
    BY <2>3, <2>4, <2>5, <2>6
<1>2. ASSUME TypeOK, RetryInv, drain PROVE TypeOK' /\ RetryInv'
  <2> USE <1>2 DEF drain
  <2>1. /\ body' \in [1..Attempts -> {"none", "open", "closed"}]
        /\ lease' \in [1..Attempts -> {"none", "live", "cancelled"}]
        /\ body'[attempt] # "open" /\ lease'[attempt] # "live"
        /\ \A b \in 1..Attempts :
              b # attempt => body'[b] = body[b] /\ lease'[b] = lease[b]
    <3>1. attempt \in 1..Attempts
      BY DEF TypeOK
    <3> QED
      BY <3>1, CloseIsTyped
  <2>2. TypeOK' /\ Progress' /\ Wired' /\ Resulting' /\ Delayed'
    BY <2>1 DEF TypeOK, Progress, Bounded, eligible, Wired, Resulting, Delayed
  <2>3. Holding' /\ Budget'
    BY <2>1 DEF Holding, Free, Paired, Budget, AnswerKept, TypeOK
  <2> QED
    BY <2>2, <2>3
<1>3. ASSUME TypeOK, RetryInv, Waited PROVE TypeOK' /\ RetryInv'
  <2> USE <1>3 DEF Waited
  <2>1. attempt \in Nat \ {0} /\ attempt < Attempts /\ eligible /\ Len(wire) = attempt
    BY DEF TypeOK, Progress
  <2>2. Bounded(attempt + 1)
    BY <2>1, BoundedStep DEF Progress
  <2>3. TypeOK' /\ Wired' /\ Resulting' /\ Delayed'
    BY <2>1 DEF TypeOK, Wired, Resulting, Delayed
  <2>4. Progress'
    BY <2>1, <2>2 DEF Progress, Bounded, eligible
  <2>5. Holding'
    BY <2>1 DEF Holding, Free, Paired, TypeOK
  <2>6. Budget'
    BY DEF Budget, AnswerKept
  <2> QED
    BY <2>3, <2>4, <2>5, <2>6
<1> QED
  BY <1>1, <1>2, <1>3

(* The steps of the clock and the caller.                                  *)
LEMMA AroundKeeps ==
    TypeOK /\ RetryInv /\ (\/ Begin \/ Tick \/ Cancel \/ CallerCloses \/ UNCHANGED vars
                            \/ \E a \in 1..Attempts : Expires(a))
        => TypeOK' /\ RetryInv'
<1> USE AttemptsIsPositive, RetryAssumption DEF RetryInv, reply, held, clock
<1>1. ASSUME TypeOK, RetryInv, Begin PROVE TypeOK' /\ RetryInv'
  <2> USE <1>1 DEF Begin
  <2>1. TypeOK' /\ Progress' /\ Wired' /\ Resulting' /\ Delayed'
    BY DEF TypeOK, Progress, Bounded, eligible, Wired, Resulting, Delayed
  <2>2. Holding' /\ Budget'
    BY DEF Holding, Free, Paired, Budget, AnswerKept
  <2> QED
    BY <2>1, <2>2
<1>2. ASSUME TypeOK, RetryInv, Tick PROVE TypeOK' /\ RetryInv'
  <2> USE <1>2 DEF Tick
  <2>1. /\ delay' \in -Half..Half-1 /\ delay' <= delay
        /\ left' \in Nat \cup {NoDeadline} /\ lag' \in Nat
    <3>1. pc = "waiting" => delay > 0
      OBVIOUS
    <3> QED
      BY <3>1 DEF TypeOK, NoDeadline
  <2>2. TypeOK'
    BY <2>1 DEF TypeOK
  <2>3. Progress' /\ Wired' /\ Resulting'
    BY DEF Progress, Bounded, eligible, Wired, Resulting
  <2>4. Holding'
    BY DEF Holding, Free, Paired
  <2>5. Delayed'
    <3>1. pc' = pc /\ attempt' = attempt /\ status' = status /\ attempt \in Nat \ {0}
      BY DEF TypeOK
    <3>2. Doubled[attempt] \in Int /\ delay \in Int
      BY DEF Progress, Bounded, TypeOK
    <3> QED
      BY <2>1, <3>1, <3>2 DEF Delayed
  <2>6. Budget'
    <3>1. left # NoDeadline /\ pc = "waiting" => left > 0
      BY DEF CtxDone, TypeOK, NoDeadline
    <3>2. AnswerKept'
      BY DEF Resulting, AnswerKept
    <3>3. /\ pc' = pc /\ delay \in Int /\ lag \in Nat /\ left \in Nat \cup {NoDeadline}
          /\ pc \in {"draining", "waiting"} /\ left # NoDeadline => left + lag > delay
      BY DEF Budget, TypeOK
    <3>4. pc = "waiting" =>
            /\ delay' = delay - 1 /\ lag' = lag
            /\ left' = IF left > 0 THEN left - 1 ELSE left
      OBVIOUS
    <3>5. pc = "draining" =>
            /\ delay' = delay /\ lag' = lag + 1
            /\ left' = IF left > 0 THEN left - 1 ELSE left
      OBVIOUS
    <3>6. pc \in {"draining", "waiting"} /\ left' # NoDeadline => left' + lag' > delay'
      <4> HIDE <1>2
      <4> QED
        BY <3>1, <3>3, <3>4, <3>5 DEF NoDeadline
    <3> QED
      BY <3>2, <3>3, <3>6 DEF Budget
  <2> QED
    BY <2>2, <2>3, <2>4, <2>5, <2>6
<1>3. ASSUME TypeOK, RetryInv, Cancel PROVE TypeOK' /\ RetryInv'
  <2> USE <1>3 DEF Cancel
  <2>1. TypeOK' /\ Progress' /\ Wired' /\ Resulting' /\ Delayed'
    BY SMTT(30) DEF TypeOK, Progress, Bounded, eligible, Wired, Resulting, Delayed
  <2>2. Holding' /\ Budget'
    BY DEF Holding, Free, Paired, Budget, AnswerKept
  <2> QED
    BY <2>1, <2>2
<1>4. ASSUME TypeOK, RetryInv, CallerCloses PROVE TypeOK' /\ RetryInv'
  <2> USE <1>4 DEF CallerCloses
  <2>1. /\ body' \in [1..Attempts -> {"none", "open", "closed"}]
        /\ lease' \in [1..Attempts -> {"none", "live", "cancelled"}]
        /\ body'[attempt] # "open" /\ lease'[attempt] # "live"
        /\ \A b \in 1..Attempts :
              b # attempt => body'[b] = body[b] /\ lease'[b] = lease[b]
    <3>1. attempt \in 1..Attempts
      BY DEF TypeOK
    <3> QED
      BY <3>1, CloseIsTyped
  <2>2. TypeOK' /\ Progress' /\ Wired' /\ Resulting' /\ Delayed'
    BY <2>1 DEF TypeOK, Progress, Bounded, eligible, Wired, Resulting, Delayed
  <2>3. Holding' /\ Budget'
    BY <2>1 DEF Holding, Free, Paired, Budget, AnswerKept, TypeOK
  <2> QED
    BY <2>2, <2>3
<1>5. ASSUME TypeOK, RetryInv, NEW a \in 1..Attempts, Expires(a)
      PROVE  TypeOK' /\ RetryInv'
  <2> USE <1>5 DEF Expires
  <2>1. /\ lease' \in [1..Attempts -> {"none", "live", "cancelled"}]
        /\ \A b \in 1..Attempts : lease'[b] = "live" => lease[b] = "live"
    BY DEF TypeOK
  <2>2. TypeOK'
    BY <2>1 DEF TypeOK
  <2>3. Progress' /\ Wired' /\ Resulting' /\ Delayed'
    <3>1. UNCHANGED <<call, pc, attempt, wire, status, delay, result>>
      OBVIOUS
    <3>2. Progress'
      BY <3>1 DEF Progress, Bounded, eligible
    <3>3. Wired' /\ Resulting' /\ Delayed'
      BY <3>1 DEF Wired, Resulting, Delayed
    <3> QED
      BY <3>2, <3>3
  <2>4. Budget'
    BY DEF Budget, AnswerKept
  <2>5. Holding'
    <3>1. UNCHANGED <<body, pc, attempt, result>>
      OBVIOUS
    <3>2. attempt \in 1..Attempts
      BY DEF TypeOK
    <3>3. \A b \in 1..Attempts : (Free(b) => Free(b)') /\ (Paired(b) => Paired(b)')
      BY <2>1, <3>1 DEF Free, Paired
    <3>4. Holding
      OBVIOUS
    <3>5. /\ \A b \in 1..Attempts : b # attempt' => Free(b)'
          /\ pc' \in {"idle", "sending", "waiting"} => Free(attempt)'
          /\ pc' = "inFlight" => body'[attempt'] # "open"
          /\ pc' \in {"deciding", "draining"} => Paired(attempt)'
          /\ pc' = "returned" => IF result' = "reply" THEN Paired(attempt)' ELSE Free(attempt)'
      BY <3>1, <3>2, <3>3, <3>4 DEF Holding, Free, Paired
    <3>6. pc' = "panicked" => CASE result' = "transport" -> body'[attempt'] # "open"
                                [] result' = "retryIf"   -> Free(attempt)'
                                [] result' = "backoff"   -> Paired(attempt)'
      BY <3>1, <3>2, <3>3, <3>4 DEF Holding, Free, Paired, TypeOK, Resulting
    <3> QED
      BY <3>5, <3>6 DEF Holding
  <2> QED
    BY <2>2, <2>3, <2>4, <2>5
<1>6. ASSUME TypeOK, RetryInv, UNCHANGED vars PROVE TypeOK' /\ RetryInv'
  <2> USE <1>6 DEF vars
  <2>1. TypeOK' /\ Progress' /\ Wired' /\ Resulting' /\ Delayed'
    BY SMTT(30) DEF TypeOK, Progress, Bounded, eligible, Wired, Resulting, Delayed
  <2>2. Holding' /\ Budget'
    BY DEF Holding, Free, Paired, Budget, AnswerKept
  <2> QED
    BY <2>1, <2>2
<1> QED
  BY <1>1, <1>2, <1>3, <1>4, <1>5, <1>6

LEMMA RetryInvariant == Spec => [](TypeOK /\ RetryInv)
<1>1. TypeOK /\ RetryInv /\ [Next]_vars => TypeOK' /\ RetryInv'
  <2> SUFFICES ASSUME TypeOK, RetryInv, [Next]_vars PROVE TypeOK' /\ RetryInv'
    OBVIOUS
  <2>1. CASE Send
    BY <2>1, SendKeeps
  <2>2. CASE RoundTrip
    BY <2>2, AnswerKeeps DEF RoundTrip
  <2>3. CASE \/ GetBodyFails \/ Settle \/ GiveUp \/ WaitCut
             \/ TransportPanics \/ RetryIfPanics \/ BackoffPanics
    BY <2>3, EndKeeps
  <2>4. CASE TryAgain \/ drain \/ Waited
    BY <2>4, RepeatKeeps
  <2>5. CASE \/ Begin \/ Tick \/ Cancel \/ CallerCloses \/ UNCHANGED vars
             \/ \E a \in 1..Attempts : Expires(a)
    BY <2>5, AroundKeeps
  <2> QED
    BY <2>1, <2>2, <2>3, <2>4, <2>5 DEF Next, Loop
<1> QED
  BY <1>1, InitHolds, PTL DEF Spec

-----------------------------------------------------------------------------
(* Every delay that the loop chooses is a time.Duration, whatever the      *)
(* upstream puts in Retry-After, and it never counts an attempt that       *)
(* MaxAttempts does not allow (retry.go:163).                              *)
THEOREM RetryTyping == Spec => []TypeOK
  BY RetryInvariant, PTL

(* A request that is sent again is one that may be, with the body it had.  *)
THEOREM RepeatsAreSafe == Spec => []SafeToRepeat
<1>1. TypeOK /\ RetryInv => SafeToRepeat
  <2> SUFFICES ASSUME TypeOK, RetryInv, Len(wire) > 1 PROVE SafeToRepeat
    BY DEF SafeToRepeat
  <2>1. attempt > 1
    BY DEF RetryInv, Progress, TypeOK
  <2>2. call.listed /\ call.body # "opaque"
    BY <2>1 DEF RetryInv, Progress, eligible
  <2> QED
    BY <2>2 DEF RetryInv, Wired, SafeToRepeat, TypeOK
<1> QED
  BY <1>1, RetryInvariant, PTL

(* What a call leaves behind is the last attempt's, and of that only what  *)
(* it returned, or what a panic of a Backoff or of the transport left.     *)
THEOREM OnlyTheLastIsLeft == Spec => []NothingElseIsLeft
<1>1. TypeOK /\ RetryInv => NothingElseIsLeft
  BY DEF RetryInv, Holding, Resulting, Free, Paired, NothingElseIsLeft, TypeOK
<1> QED
  BY <1>1, RetryInvariant, PTL

(* A deadline that is known beforehand costs no caller a response.         *)
THEOREM DeadlineKeepsAnswer == Spec => []AnswerKept
<1>1. RetryInv => AnswerKept
  BY DEF RetryInv, Budget
<1> QED
  BY <1>1, RetryInvariant, PTL

(* No wait is longer than the policy or maxRetryAfter allow: the doubling  *)
(* does not wrap, however many attempts there are.                         *)
THEOREM WaitsAreBounded == Spec => []WaitIsBounded
<1>1. TypeOK /\ RetryInv => WaitIsBounded
  <2> SUFFICES ASSUME TypeOK, RetryInv, pc = "waiting" PROVE WaitIsBounded
    BY DEF WaitIsBounded
  <2>1. Bounded(attempt) /\ delay \in Int /\ MaxBackoff \in Int
    BY RetryAssumption DEF RetryInv, Progress, TypeOK
  <2>2. CASE delay <= MaxRetryAfter /\ status = "unavailable"
    BY <2>2 DEF WaitIsBounded
  <2>3. CASE delay <= Doubled[attempt]
    BY <2>1, <2>3 DEF WaitIsBounded, Bounded
  <2> QED
    BY <2>2, <2>3 DEF RetryInv, Delayed
<1> QED
  BY <1>1, RetryInvariant, PTL
=============================================================================
