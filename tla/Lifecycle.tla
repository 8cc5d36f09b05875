----------------------------- MODULE Lifecycle -----------------------------
(***************************************************************************)
(* Package lifecycle: Add builds a dependency graph, Run groups it into    *)
(* levels, starts each level concurrently, waits for its context or for    *)
(* Fatal, drains, and stops the levels in reverse.  The goroutine of Run,  *)
(* the goroutines of startLevel and stopStarted, the signal that cancels   *)
(* the context and the goroutines that call Fatal interleave.              *)
(*                                                                         *)
(* A component's Start and Stop are the caller's: they may return nil or   *)
(* an error, at any moment.  Times are not modelled; a deadline is a step  *)
(* that may happen at any moment while its Stop runs.                      *)
(***************************************************************************)
EXTENDS Integers

CONSTANTS
    N,               \* how many components the program may add
    StartedHooks,    \* how many OnStarted hooks it registers
    DrainHooks       \* how many OnDrain hooks

ASSUME LifecycleAssumption ==
    N \in Nat /\ StartedHooks \in Nat /\ DrainHooks \in Nat

Comp    == 1..N
Foreign == 0     \* a Ref of another Lifecycle, or with an index out of range
NoErr   == 0     \* fatalErr.Load() is nil

VARIABLES
    \* built by Add
    n,           \* len(l.comps)
    after,       \* after[i]: the resolved dependencies of component i
    addErrs,     \* components whose Add appended to l.errs
    \* Run and the goroutines it starts
    pc,          \* where Run is
    lvl,         \* lvl[i], the start level of component i
    nlevels,     \* len(lv)
    k,           \* the loop variable of levels, of Run and of stopStarted
    st,          \* what each component is doing
    cancelled,   \* lctx: a sibling's Start failed
    expired,     \* expired[i]: the StopTimeout of i's Stop has passed
    upRun,       \* startedHooks that have run
    drainRun,    \* drainHooks that have run
    errs,        \* the errors startLevel and stopStarted have collected
    result,      \* what Run returned
    \* shared with other goroutines
    ctxDone,     \* Run's ctx is cancelled
    fatalErr,    \* the component whose error Fatal stored
    fatalClosed  \* fatalCh is closed

build == <<n, after, addErrs>>
plan  == <<lvl, nlevels>>
hooks == <<upRun, drainRun>>
fatal == <<fatalErr, fatalClosed>>
vars  == <<build, pc, plan, k, st, cancelled, expired, hooks, errs, result,
           ctxDone, fatal>>

PCs == {"build", "levels", "starting", "startWait", "startedHooks", "select",
        "drain", "sleep", "stopping", "stopWait", "returned"}
Statuses == {"idle", "starting", "started", "failed",
             "stopping", "stopped", "stopFailed"}
Errors == {"add", "start", "stop", "fatal"} \X Comp

Comps   == 1..n
At(l)   == {i \in Comps : lvl[i] = l}
\* A component that may hold resources.
Active(i)  == st[i] \in {"starting", "started", "stopping"}
BootFailed == \E i \in Comps : st[i] = "failed"

TypeOK ==
    /\ n \in 0..N /\ after \in [Comp -> SUBSET Comp] /\ addErrs \subseteq Comp
    /\ pc \in PCs /\ lvl \in [Comp -> 0..N] /\ nlevels \in 0..N+1
    /\ k \in -1..N+1
    /\ st \in [Comp -> Statuses]
    /\ cancelled \in BOOLEAN /\ ctxDone \in BOOLEAN
    /\ expired \in [Comp -> BOOLEAN]
    /\ upRun \in 0..StartedHooks /\ drainRun \in 0..DrainHooks
    /\ errs \subseteq Errors /\ result \subseteq Errors
    /\ fatalErr \in Comp \cup {NoErr} /\ fatalClosed \in BOOLEAN

Init ==
    /\ n = 0 /\ after = [i \in Comp |-> {}] /\ addErrs = {}
    /\ pc = "build"
    /\ lvl = [i \in Comp |-> 0] /\ nlevels = 0 /\ k = 0
    /\ st = [i \in Comp |-> "idle"]
    /\ cancelled = FALSE /\ expired = [i \in Comp |-> FALSE]
    /\ upRun = 0 /\ drainRun = 0
    /\ errs = {} /\ result = {}
    /\ ctxDone = FALSE /\ fatalErr = NoErr /\ fatalClosed = FALSE

-----------------------------------------------------------------------------
(* Construction.                                                           *)

(* Add: a nil start or stop, and each Ref that is not of a component added *)
(* before, is a construction error; the component is appended all the same. *)
Add(refs, nils) ==
    /\ pc = "build" /\ n < N
    /\ n' = n + 1
    /\ after' = [after EXCEPT ![n + 1] = refs \cap Comps]
    /\ addErrs' = IF nils \/ ~(refs \subseteq Comps)
                    THEN addErrs \cup {n + 1} ELSE addErrs
    /\ UNCHANGED <<pc, plan, k, st, cancelled, expired, hooks, errs, result,
                   ctxDone, fatal>>

(* Run reports the construction errors and starts nothing.                 *)
RunRefuses ==
    /\ pc = "build" /\ addErrs # {}
    /\ pc' = "returned"
    /\ result' = {"add"} \X addErrs
    /\ UNCHANGED <<build, plan, k, st, cancelled, expired, hooks, errs, ctxDone,
                   fatal>>

RunBegins ==
    /\ pc = "build" /\ addErrs = {}
    /\ pc' = "levels" /\ k' = 1
    /\ UNCHANGED <<build, plan, st, cancelled, expired, hooks, errs, result,
                   ctxDone, fatal>>

(* Mutant of LevelStep: a component shares the level of its dependencies.  *)
LevelStepShares ==
    /\ pc = "levels" /\ k <= n
    /\ \E l \in 0..N :
         /\ \A d \in after[k] : lvl[d] <= l
         /\ l = 0 \/ \E d \in after[k] : l = lvl[d]
         /\ lvl' = [lvl EXCEPT ![k] = l]
         /\ nlevels' = IF nlevels > l THEN nlevels ELSE l + 1
    /\ k' = k + 1
    /\ UNCHANGED <<build, pc, st, cancelled, expired, hooks, errs, result,
                   ctxDone, fatal>>

(* One iteration of levels: the least level above those of i's dependencies. *)
LevelStep ==
    /\ pc = "levels" /\ k <= n
    /\ \E l \in 0..N :
         /\ \A d \in after[k] : lvl[d] < l
         /\ l = 0 \/ \E d \in after[k] : l = lvl[d] + 1
         /\ lvl' = [lvl EXCEPT ![k] = l]
         /\ nlevels' = IF nlevels > l THEN nlevels ELSE l + 1
    /\ k' = k + 1
    /\ UNCHANGED <<build, pc, st, cancelled, expired, hooks, errs, result,
                   ctxDone, fatal>>

LevelsDone ==
    /\ pc = "levels" /\ k > n
    /\ pc' = "starting" /\ k' = 0
    /\ UNCHANGED <<build, plan, st, cancelled, expired, hooks, errs, result,
                   ctxDone, fatal>>

-----------------------------------------------------------------------------
(* Startup.                                                                *)

(* startLevel calls every Start of the level, with a context of its own.   *)
StartLevel ==
    /\ pc = "starting" /\ k < nlevels
    /\ pc' = "startWait"
    /\ st' = [i \in Comp |-> IF i \in At(k) THEN "starting" ELSE st[i]]
    /\ cancelled' = FALSE
    /\ UNCHANGED <<build, plan, k, expired, hooks, errs, result, ctxDone, fatal>>

StartOK(i) ==
    /\ st[i] = "starting"
    /\ st' = [st EXCEPT ![i] = "started"]
    /\ UNCHANGED <<build, pc, plan, k, cancelled, expired, hooks, errs, result,
                   ctxDone, fatal>>

(* A failed Start tells its siblings to give up.                           *)
StartFails(i) ==
    /\ st[i] = "starting"
    /\ st' = [st EXCEPT ![i] = "failed"]
    /\ errs' = errs \cup {<<"start", i>>}
    /\ cancelled' = TRUE
    /\ UNCHANGED <<build, pc, plan, k, expired, hooks, result, ctxDone, fatal>>

(* Mutant of LevelStarted: the errors of the level are not looked at.      *)
LevelReturned ==
    /\ pc = "startWait"
    /\ \A i \in At(k) : st[i] # "starting"
    /\ pc' = "starting" /\ k' = k + 1
    /\ UNCHANGED <<build, plan, st, cancelled, expired, hooks, errs, result,
                   ctxDone, fatal>>

(* Mutant of LevelFailed: it returns on the first failure.                 *)
LevelAbandoned ==
    /\ pc = "startWait"
    /\ \E i \in At(k) : st[i] = "failed"
    /\ pc' = "stopping" /\ k' = nlevels - 1
    /\ UNCHANGED <<build, plan, st, cancelled, expired, hooks, errs, result,
                   ctxDone, fatal>>

(* wg.Wait returned: on to the next level, or unwind what has started.     *)
LevelStarted ==
    /\ pc = "startWait"
    /\ \A i \in At(k) : st[i] = "started"
    /\ pc' = "starting" /\ k' = k + 1
    /\ UNCHANGED <<build, plan, st, cancelled, expired, hooks, errs, result,
                   ctxDone, fatal>>

LevelFailed ==
    /\ pc = "startWait"
    /\ \A i \in At(k) : st[i] # "starting"
    /\ \E i \in At(k) : st[i] = "failed"
    /\ pc' = "stopping" /\ k' = nlevels - 1
    /\ UNCHANGED <<build, plan, st, cancelled, expired, hooks, errs, result,
                   ctxDone, fatal>>

AllStarted ==
    /\ pc = "starting" /\ k = nlevels
    /\ pc' = "startedHooks"
    /\ UNCHANGED <<build, plan, k, st, cancelled, expired, hooks, errs, result,
                   ctxDone, fatal>>

RunStartedHook ==
    /\ pc = "startedHooks" /\ upRun < StartedHooks
    /\ upRun' = upRun + 1
    /\ UNCHANGED <<build, pc, plan, k, st, cancelled, expired, drainRun, errs,
                   result, ctxDone, fatal>>

Wait ==
    /\ pc = "startedHooks" /\ upRun = StartedHooks
    /\ pc' = "select"
    /\ UNCHANGED <<build, plan, k, st, cancelled, expired, hooks, errs, result,
                   ctxDone, fatal>>

-----------------------------------------------------------------------------
(* Shutdown.                                                               *)

(* Mutants of SelectDone: a fatal error skips the OnDrain hooks; nothing   *)
(* receives from fatalCh.                                                  *)
SelectSkipsDrain ==
    /\ pc = "select" /\ (ctxDone \/ fatalClosed)
    /\ pc' = IF ctxDone THEN "drain" ELSE "sleep"
    /\ UNCHANGED <<build, plan, k, st, cancelled, expired, hooks, errs, result,
                   ctxDone, fatal>>

SelectIgnoresFatal ==
    /\ pc = "select" /\ ctxDone
    /\ pc' = "drain"
    /\ UNCHANGED <<build, plan, k, st, cancelled, expired, hooks, errs, result,
                   ctxDone, fatal>>

(* The two arms of Run's select; when both are ready either may be taken.  *)
SelectDone ==
    /\ pc = "select" /\ (ctxDone \/ fatalClosed)
    /\ pc' = "drain"
    /\ UNCHANGED <<build, plan, k, st, cancelled, expired, hooks, errs, result,
                   ctxDone, fatal>>

RunDrainHook ==
    /\ pc = "drain" /\ drainRun < DrainHooks
    /\ drainRun' = drainRun + 1
    /\ UNCHANGED <<build, pc, plan, k, st, cancelled, expired, upRun, errs,
                   result, ctxDone, fatal>>

DrainHooksRan ==
    /\ pc = "drain" /\ drainRun = DrainHooks
    /\ pc' = "sleep"
    /\ UNCHANGED <<build, plan, k, st, cancelled, expired, hooks, errs, result,
                   ctxDone, fatal>>

(* DrainDelay has passed.                                                  *)
DrainDelayOver ==
    /\ pc = "sleep"
    /\ pc' = "stopping" /\ k' = nlevels - 1
    /\ UNCHANGED <<build, plan, st, cancelled, expired, hooks, errs, result,
                   ctxDone, fatal>>

(* Mutant of StopLevel: every started component is stopped at once.        *)
StopAll ==
    /\ pc = "stopping" /\ k >= 0
    /\ pc' = "stopWait"
    /\ st' = [i \in Comp |-> IF st[i] = "started" THEN "stopping" ELSE st[i]]
    /\ UNCHANGED <<build, plan, k, cancelled, expired, hooks, errs, result,
                   ctxDone, fatal>>

(* stopStarted stops the started components of a level together; stopOne   *)
(* gives each a context of its own, which Run's cancellation cannot reach. *)
StopLevel ==
    /\ pc = "stopping" /\ k >= 0
    /\ pc' = "stopWait"
    /\ st' = [i \in Comp |->
                IF i \in At(k) /\ st[i] = "started" THEN "stopping" ELSE st[i]]
    /\ UNCHANGED <<build, plan, k, cancelled, expired, hooks, errs, result,
                   ctxDone, fatal>>

(* Mutant of StopExpires: the context given to Stop has no deadline.       *)
StopNeverExpires(i) == FALSE

StopExpires(i) ==
    /\ st[i] = "stopping" /\ ~expired[i]
    /\ expired' = [expired EXCEPT ![i] = TRUE]
    /\ UNCHANGED <<build, pc, plan, k, st, cancelled, hooks, errs, result,
                   ctxDone, fatal>>

StopOK(i) ==
    /\ st[i] = "stopping"
    /\ st' = [st EXCEPT ![i] = "stopped"]
    /\ UNCHANGED <<build, pc, plan, k, cancelled, expired, hooks, errs, result,
                   ctxDone, fatal>>

StopFails(i) ==
    /\ st[i] = "stopping"
    /\ st' = [st EXCEPT ![i] = "stopFailed"]
    /\ errs' = errs \cup {<<"stop", i>>}
    /\ UNCHANGED <<build, pc, plan, k, cancelled, expired, hooks, result,
                   ctxDone, fatal>>

(* Every Stop of the level has returned, in time or not.                   *)
LevelStopped ==
    /\ pc = "stopWait"
    /\ \A i \in At(k) : st[i] # "stopping"
    /\ pc' = "stopping" /\ k' = k - 1
    /\ UNCHANGED <<build, plan, st, cancelled, expired, hooks, errs, result,
                   ctxDone, fatal>>

(* Mutant of ReturnUnwound: the errors of the unwind are dropped.          *)
ReturnStartErrors ==
    /\ pc = "stopping" /\ k < 0 /\ BootFailed
    /\ pc' = "returned"
    /\ result' = errs \cap ({"start"} \X Comp)
    /\ UNCHANGED <<build, plan, k, st, cancelled, expired, hooks, errs, ctxDone,
                   fatal>>

(* The return inside the start loop does not look at fatalErr.             *)
ReturnUnwound ==
    /\ pc = "stopping" /\ k < 0 /\ BootFailed
    /\ pc' = "returned"
    /\ result' = errs
    /\ UNCHANGED <<build, plan, k, st, cancelled, expired, hooks, errs, ctxDone,
                   fatal>>

ReturnStopped ==
    /\ pc = "stopping" /\ k < 0 /\ ~BootFailed
    /\ pc' = "returned"
    /\ result' = errs \cup ({"fatal"} \X ({fatalErr} \ {NoErr}))
    /\ UNCHANGED <<build, plan, k, st, cancelled, expired, hooks, errs, ctxDone,
                   fatal>>

-----------------------------------------------------------------------------
(* The rest of the process.                                                *)

(* A signal, or the caller, cancels the context given to Run.              *)
Cancel ==
    /\ ~ctxDone
    /\ ctxDone' = TRUE
    /\ UNCHANGED <<build, pc, plan, k, st, cancelled, expired, hooks, errs,
                   result, fatal>>

(* Fatal, called by a goroutine of component i, which exists from its Start *)
(* on and not after a failed one (component.go:19-21): the first call      *)
(* stores its error and then closes the channel; later calls do nothing.   *)
FatalStore(i) ==
    /\ st[i] \notin {"idle", "failed"} /\ fatalErr = NoErr
    /\ fatalErr' = i
    /\ UNCHANGED <<build, pc, plan, k, st, cancelled, expired, hooks, errs,
                   result, ctxDone, fatalClosed>>

FatalClose ==
    /\ fatalErr # NoErr /\ ~fatalClosed
    /\ fatalClosed' = TRUE
    /\ UNCHANGED <<build, pc, plan, k, st, cancelled, expired, hooks, errs,
                   result, ctxDone, fatalErr>>

-----------------------------------------------------------------------------
RunStep ==
    \/ RunRefuses \/ RunBegins \/ LevelStep \/ LevelsDone
    \/ StartLevel \/ LevelStarted \/ LevelFailed \/ AllStarted
    \/ RunStartedHook \/ Wait
    \/ SelectDone \/ RunDrainHook \/ DrainHooksRan \/ DrainDelayOver
    \/ StopLevel \/ LevelStopped \/ ReturnUnwound \/ ReturnStopped

StartReturns(i) == StartOK(i) \/ StartFails(i)
StopReturns(i)  == StopOK(i) \/ StopFails(i)

(* Nothing is left to do once Run has returned; not a deadlock.            *)
Finished == pc = "returned" /\ UNCHANGED vars

Next ==
    \/ \E refs \in SUBSET (Comp \cup {Foreign}), nils \in BOOLEAN :
          Add(refs, nils)
    \/ RunStep
    \/ \E i \in Comps : StartReturns(i) \/ StopReturns(i) \/ StopExpires(i)
    \/ Cancel
    \/ \E i \in Comps : FatalStore(i)
    \/ FatalClose
    \/ Finished

Spec == Init /\ [][Next]_vars

(* The contract of StartFunc and StopFunc: each returns once its context   *)
(* is done.  Nothing makes a Start return whose context is not done.       *)
Contract ==
    \A i \in Comp :
        /\ WF_vars(StartReturns(i) /\ (cancelled \/ ctxDone))
        /\ WF_vars(StopReturns(i) /\ expired[i])

(* Run's goroutine and Fatal's proceed, and timers fire.                   *)
Fairness ==
    /\ WF_vars(RunStep)
    /\ WF_vars(FatalClose)
    /\ \A i \in Comp : WF_vars(StopExpires(i))
    /\ Contract

FairSpec == Spec /\ Fairness

-----------------------------------------------------------------------------
(* Properties.                                                             *)

(* A component that starts, serves or drains has every component it comes  *)
(* After up: started, and not asked to stop (lifecycle.go:29, After).      *)
DependenciesUp ==
    \A i \in Comps : Active(i) => \A d \in after[i] : st[d] = "started"

(* No component is starting, serving or draining once Run has returned,    *)
(* whether the boot failed or not: startLevel and stopStarted wait for     *)
(* every goroutine, and the unwind covers the level that failed.           *)
NothingLeftRunning == pc = "returned" => \A i \in Comps : ~Active(i)

(* When Run stops components that all came up, every OnStarted hook ran,   *)
(* and every OnDrain hook ran before the first Stop; a boot that failed    *)
(* ran no hook of either kind.                                             *)
HooksBracketService ==
    /\ (\E i \in Comps : st[i] \in {"stopping", "stopped", "stopFailed"})
         => BootFailed \/ (upRun = StartedHooks /\ drainRun = DrainHooks)
    /\ upRun > 0 => \A i \in Comps : st[i] \notin {"idle", "starting", "failed"}
    /\ drainRun > 0 => upRun = StartedHooks

(* After a Start has failed, no component of a later level is ever started. *)
DoomedBootStartsNoMore ==
    \A i, j \in Comps : st[i] = "failed" /\ lvl[j] > lvl[i] => st[j] = "idle"

(* Run's return value has the error of every Start and every Stop that     *)
(* failed, whichever of Run's returns is taken, and no other.              *)
FailuresJoined ==
    pc = "returned" /\ addErrs = {} =>
        \A i \in Comps :
            /\ <<"start", i>> \in result <=> st[i] = "failed"
            /\ <<"stop", i>> \in result <=> st[i] = "stopFailed"

(* A Fatal that landed before Run returned from an ordered shutdown, during *)
(* the drain and the stops included, is in what Run returns; and the error  *)
(* it reports is there before the channel that announces it is closed.      *)
FatalJoined ==
    pc = "stopping" /\ pc' = "returned" /\ ~BootFailed
      /\ (fatalErr # NoErr \/ fatalClosed)
        => \E i \in Comps : <<"fatal", i>> \in result'

(* Both: the failures of Starts and Stops whichever return Run takes, and   *)
(* that of a Fatal on the return of an ordered shutdown.                    *)
EveryFailureReported == [][FailuresJoined' /\ FatalJoined]_vars

(* Run returns once its context is cancelled, at any moment of startup or  *)
(* service, however long a Stop would like to take; after a failed Start,  *)
(* though a sibling's Start that waits for something else would never have *)
(* returned; and after a Fatal while it waits.                             *)
RunEnds ==
    /\ (pc # "build" /\ ctxDone) ~> (pc = "returned")
    /\ BootFailed ~> (pc = "returned")
    /\ (pc = "select" /\ fatalErr # NoErr) ~> (pc = "returned")

(* lifecycle.go:200-202 and docs/runtime-guide.md:198 say of Fatal that it  *)
(* reports the failure of a component that has started, and triggers the    *)
(* shutdown a signal would.  While a Start is in flight, of its own level   *)
(* or a later one, it triggers nothing: nobody looks at fatalCh, and the    *)
(* context is not cancelled.  And the return of a failed boot does not look *)
(* at it either, so that Run does not report it.                            *)
FatalIsHeard ==
    \A i \in Comp : (fatalErr = i /\ st[i] = "started")
                      ~> (pc = "returned" /\ <<"fatal", i>> \in result)

(* The abstract specification this one implements.                         *)
mode ==
    CASE pc = "build" -> "declare"
      [] pc \in {"levels", "starting", "startWait"} -> "boot"
      [] pc \in {"startedHooks", "select", "drain", "sleep"} -> "serve"
      [] pc \in {"stopping", "stopWait"} -> "shutdown"
      [] pc = "returned" -> "over"
state ==
    [i \in Comp |->
        CASE st[i] = "idle" -> "off"
          [] st[i] = "started" -> "up"
          [] st[i] \in {"stopped", "stopFailed"} -> "down"
          [] OTHER -> st[i]]

Promise == INSTANCE Supervision WITH
              Comp <- Comp, mode <- mode, deps <- after, state <- state

(* Levels, hooks and waits implement the promise of Supervision, step by   *)
(* step.                                                                   *)
ImplementsPromise == Promise!Spec
=============================================================================
