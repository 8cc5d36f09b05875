------------------------------ MODULE Consumer ------------------------------
(***************************************************************************)
(* The Consumer of examples/worker: Start leaves a loop in a goroutine,    *)
(* Stop cancels it and waits for its done channel, or for a context.  The  *)
(* mutex covers the fields and not the gap between what Stop reads and     *)
(* what it does; and the goroutine reads the field done without it.        *)
(*                                                                         *)
(* A loop, its context and its done channel have the name of the Start     *)
(* that made them.                                                         *)
(***************************************************************************)
EXTENDS Integers, Sequences, SequencesExt

CONSTANTS
    Starts,      \* the calls of Start
    Stops,       \* the calls of Stop
    NoLoop       \* nil

VARIABLES
    start,       \* start[s]: what call s of Start has returned
    stop,        \* stop[c]: where call c of Stop is
    taken,       \* taken[c]: the loop whose cancel and done c has read
    running,     \* c.running
    loops,       \* the loops made so far; c.cancel and c.done are the last
    loop,        \* loop[s]: where the goroutine of s is
    closes,      \* closes[s]: the done channel that it will close
    cancelled,   \* the contexts that are cancelled
    closed,      \* the done channels that are closed
    panicked,    \* a closed channel was closed again
    replaced     \* the loops that had not ended when another was made

calls == <<start, stop, taken>>
vars  == <<start, stop, taken, running, loops, loop, closes, cancelled, closed,
           panicked, replaced>>

TypeOK ==
    /\ start \in [Starts -> {"idle", "ok", "noop"}]
    /\ stop \in [Stops -> {"idle", "claimed", "waiting", "noop", "ok", "expired"}]
    /\ taken \in [Stops -> Starts \cup {NoLoop}]
    /\ running \in BOOLEAN /\ panicked \in BOOLEAN
    /\ loops \in Seq(Starts) /\ IsInjective(loops)
    /\ loop \in [Starts -> {"none", "spawned", "active", "ended"}]
    /\ closes \in [Starts -> Starts \cup {NoLoop}]
    /\ cancelled \subseteq Starts /\ closed \subseteq Starts /\ replaced \subseteq Starts

Init ==
    /\ start = [s \in Starts |-> "idle"] /\ stop = [c \in Stops |-> "idle"]
    /\ taken = [c \in Stops |-> NoLoop]
    /\ running = FALSE /\ loops = <<>>
    /\ loop = [s \in Starts |-> "none"] /\ closes = [s \in Starts |-> NoLoop]
    /\ cancelled = {} /\ closed = {} /\ panicked = FALSE /\ replaced = {}

Alive(s) == loop[s] \in {"spawned", "active"}

-----------------------------------------------------------------------------
StartNoop(s) ==
    /\ start[s] = "idle" /\ running
    /\ start' = [start EXCEPT ![s] = "noop"]
    /\ UNCHANGED <<stop, taken, running, loops, loop, closes, cancelled, closed,
                   panicked, replaced>>

(* Mutant of StartLoop: running is not asked.                              *)
StartAnyway(s) ==
    /\ start[s] = "idle"
    /\ start' = [start EXCEPT ![s] = "ok"]
    /\ running' = TRUE
    /\ loops' = Append(loops, s)
    /\ loop' = [loop EXCEPT ![s] = "spawned"]
    /\ replaced' = replaced \cup {g \in Starts : Alive(g)}
    /\ UNCHANGED <<stop, taken, closes, cancelled, closed, panicked>>

StartLoop(s) ==
    /\ start[s] = "idle" /\ ~running
    /\ start' = [start EXCEPT ![s] = "ok"]
    /\ running' = TRUE
    /\ loops' = Append(loops, s)
    /\ loop' = [loop EXCEPT ![s] = "spawned"]
    /\ replaced' = replaced \cup {g \in Starts : Alive(g)}
    /\ UNCHANGED <<stop, taken, closes, cancelled, closed, panicked>>

(* The defer evaluates c.done, in a race with the Starts that came after:  *)
(* it may see the channel of any of them.                                  *)
LoopBegins(s) ==
    /\ loop[s] = "spawned"
    /\ loop' = [loop EXCEPT ![s] = "active"]
    /\ \E seen \in {n \in DOMAIN loops : \A m \in n + 1..Len(loops) : loops[m] # s} :
         closes' = [closes EXCEPT ![s] = loops[seen]]
    /\ UNCHANGED <<calls, running, loops, cancelled, closed, panicked, replaced>>

(* The panic of a goroutine ends the process.                              *)
LoopEnds(s) ==
    /\ loop[s] = "active" /\ s \in cancelled
    /\ loop' = [loop EXCEPT ![s] = "ended"]
    /\ closed' = closed \cup {closes[s]}
    /\ panicked' = (closes[s] \in closed)
    /\ UNCHANGED <<calls, running, loops, closes, cancelled, replaced>>

-----------------------------------------------------------------------------
StopNoop(c) ==
    /\ stop[c] = "idle" /\ ~running
    /\ stop' = [stop EXCEPT ![c] = "noop"]
    /\ UNCHANGED <<start, taken, running, loops, loop, closes, cancelled, closed,
                   panicked, replaced>>

StopClaims(c) ==
    /\ stop[c] = "idle" /\ running
    /\ stop' = [stop EXCEPT ![c] = "claimed"]
    /\ running' = FALSE
    /\ taken' = [taken EXCEPT ![c] = Last(loops)]
    /\ UNCHANGED <<start, loops, loop, closes, cancelled, closed, panicked, replaced>>

StopCancels(c) ==
    /\ stop[c] = "claimed"
    /\ stop' = [stop EXCEPT ![c] = "waiting"]
    /\ cancelled' = cancelled \cup {taken[c]}
    /\ UNCHANGED <<start, taken, running, loops, loop, closes, closed, panicked, replaced>>

(* Mutant of StopDone: it does not wait for done.                          *)
StopHasty(c) ==
    /\ stop[c] = "waiting"
    /\ stop' = [stop EXCEPT ![c] = "ok"]
    /\ UNCHANGED <<start, taken, running, loops, loop, closes, cancelled, closed,
                   panicked, replaced>>

StopDone(c) ==
    /\ stop[c] = "waiting" /\ taken[c] \in closed
    /\ stop' = [stop EXCEPT ![c] = "ok"]
    /\ UNCHANGED <<start, taken, running, loops, loop, closes, cancelled, closed,
                   panicked, replaced>>

StopExpires(c) ==
    /\ stop[c] = "waiting"
    /\ stop' = [stop EXCEPT ![c] = "expired"]
    /\ UNCHANGED <<start, taken, running, loops, loop, closes, cancelled, closed,
                   panicked, replaced>>
=============================================================================
