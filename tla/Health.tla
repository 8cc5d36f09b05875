------------------------------- MODULE Health -------------------------------
(***************************************************************************)
(* httpserver.Health: the Started, Live and Ready gates, set by the hooks  *)
(* of a lifecycle while probes read them.  A probe loads open once, copies *)
(* the checks of its gate, and then runs them one after the other with     *)
(* nothing held, so that Up, Drain, AddReadyCheck and the dependencies     *)
(* move under it.                                                          *)
(***************************************************************************)
EXTENDS Sequences, SequencesExt

CONSTANTS
    Probes,      \* the requests of probes
    Checks       \* the readiness checks that may be registered

Gates == {"started", "live", "ready"}

VARIABLES
    open,        \* open[g]: g.open
    checks,      \* Ready.checks; the other gates have none
    hook,        \* what Run has called: Up, by halves, and Drain
    sick,        \* the checks whose dependency is down
    gate,        \* gate[p]: the gate that p asks
    pc,          \* pc[p]: where p is, and in the end what it answers
    todo,        \* todo[p]: the checks of p's copy that are still to run
    failed,      \* failed[p]: a check of p has failed
    late,        \* late[p]: p arrived after Drain had returned
    doomed       \* doomed[p]: checks registered before p arrived, whose
                 \* dependency has been down ever since

gates   == <<open, checks, hook>>
history == <<late, doomed>>
vars    == <<open, checks, hook, sick, gate, pc, todo, failed, late, doomed>>

TypeOK ==
    /\ open \in [Gates -> BOOLEAN]
    /\ checks \in Seq(Checks) /\ IsInjective(checks)
    /\ hook \in {"boot", "opening", "up", "drained"}
    /\ sick \subseteq Checks
    /\ gate \in [Probes -> Gates]
    /\ pc \in [Probes -> {"none", "loaded", "checking", "ok", "unavailable"}]
    /\ todo \in [Probes -> Seq(Checks)]
    /\ \A p \in Probes : pc[p] # "checking" => todo[p] = <<>>
    /\ failed \in [Probes -> BOOLEAN] /\ late \in [Probes -> BOOLEAN]
    /\ doomed \in [Probes -> SUBSET Checks]

(* NewHealth: Live is open from the start.                                 *)
Init ==
    /\ open = [g \in Gates |-> g = "live"]
    /\ checks = <<>> /\ hook = "boot"
    /\ sick \in SUBSET Checks
    /\ gate \in [Probes -> Gates]
    /\ pc = [p \in Probes |-> "none"] /\ todo = [p \in Probes |-> <<>>]
    /\ failed = [p \in Probes |-> FALSE] /\ late = [p \in Probes |-> FALSE]
    /\ doomed = [p \in Probes |-> {}]

-----------------------------------------------------------------------------
(* The service.                                                            *)

(* Each check is registered once; the code would run a second one twice.   *)
AddReadyCheck(c) ==
    /\ c \notin ToSet(checks)
    /\ checks' = Append(checks, c)
    /\ UNCHANGED <<open, hook, sick, gate, pc, todo, failed, history>>

(* Up, the OnStarted hook, sets one gate and then the other.               *)
UpStarted ==
    /\ hook = "boot"
    /\ hook' = "opening" /\ open' = [open EXCEPT !["started"] = TRUE]
    /\ UNCHANGED <<checks, sick, gate, pc, todo, failed, history>>

UpReady ==
    /\ hook = "opening"
    /\ hook' = "up" /\ open' = [open EXCEPT !["ready"] = TRUE]
    /\ UNCHANGED <<checks, sick, gate, pc, todo, failed, history>>

(* Mutant of Drain: it closes the wrong gate.                              *)
DrainLive ==
    /\ hook = "up"
    /\ hook' = "drained" /\ open' = [open EXCEPT !["live"] = FALSE]
    /\ UNCHANGED <<checks, sick, gate, pc, todo, failed, history>>

(* Drain, the OnDrain hook.                                                *)
Drain ==
    /\ hook = "up"
    /\ hook' = "drained" /\ open' = [open EXCEPT !["ready"] = FALSE]
    /\ UNCHANGED <<checks, sick, gate, pc, todo, failed, history>>

(* A dependency goes down, or comes back.                                  *)
Change(c) ==
    /\ sick' = IF c \in sick THEN sick \ {c} ELSE sick \cup {c}
    /\ doomed' = [p \in Probes |-> doomed[p] \cap sick']
    /\ UNCHANGED <<gates, gate, pc, todo, failed, late>>

-----------------------------------------------------------------------------
(* Gate.ServeHTTP.                                                         *)

(* It answers 503 at once when the gate is closed.                         *)
Load(p) ==
    /\ pc[p] = "none"
    /\ pc' = [pc EXCEPT ![p] = IF open[gate[p]] THEN "loaded" ELSE "unavailable"]
    /\ late' = [late EXCEPT ![p] = hook = "drained"]
    /\ doomed' = [doomed EXCEPT
                    ![p] = IF gate[p] = "ready" THEN sick \cap ToSet(checks) ELSE {}]
    /\ UNCHANGED <<gates, sick, gate, todo, failed>>

Copy(p) ==
    /\ pc[p] = "loaded"
    /\ pc' = [pc EXCEPT ![p] = "checking"]
    /\ todo' = [todo EXCEPT ![p] = IF gate[p] = "ready" THEN checks ELSE <<>>]
    /\ UNCHANGED <<gates, sick, gate, failed, history>>

(* Mutant of RunCheck: the outcome of the last check replaces the others.  *)
RunCheckForgets(p) ==
    /\ pc[p] = "checking" /\ todo[p] # <<>>
    /\ \E fails \in BOOLEAN :
         /\ fails \/ Head(todo[p]) \notin sick
         /\ failed' = [failed EXCEPT ![p] = fails]
    /\ todo' = [todo EXCEPT ![p] = Tail(todo[p])]
    /\ UNCHANGED <<gates, sick, gate, pc, history>>

(* A check passes only while its dependency is up; it fails when that is   *)
(* down, and, on its own deadline, at any time.                            *)
RunCheck(p) ==
    /\ pc[p] = "checking" /\ todo[p] # <<>>
    /\ \E fails \in BOOLEAN :
         /\ fails \/ Head(todo[p]) \notin sick
         /\ failed' = [failed EXCEPT ![p] = @ \/ fails]
    /\ todo' = [todo EXCEPT ![p] = Tail(todo[p])]
    /\ UNCHANGED <<gates, sick, gate, pc, history>>

(* Every check has run, those after a failed one too.                      *)
Reply(p) ==
    /\ pc[p] = "checking" /\ todo[p] = <<>>
    /\ pc' = [pc EXCEPT ![p] = IF failed[p] THEN "unavailable" ELSE "ok"]
    /\ UNCHANGED <<gates, sick, gate, todo, failed, history>>

ServeHTTP(p) == Load(p) \/ Copy(p) \/ RunCheck(p) \/ Reply(p)

Next ==
    \/ UpStarted \/ UpReady \/ Drain
    \/ \E c \in Checks : AddReadyCheck(c) \/ Change(c)
    \/ \E p \in Probes : ServeHTTP(p)

Spec == Init /\ [][Next]_vars

-----------------------------------------------------------------------------
(* A probe of Ready that arrives once Drain has returned is answered 503;  *)
(* one that had already loaded the gate may still be answered 200.         *)
NotReadyAfterDrain ==
    \A p \in Probes : late[p] /\ gate[p] = "ready" => pc[p] # "ok"

(* A probe of Ready is not answered 200 when a dependency whose check was  *)
(* registered before it arrived has been down all the while, however the   *)
(* other checks end, and whatever is registered meanwhile.                 *)
ReadyMeansChecked == \A p \in Probes : pc[p] = "ok" => doomed[p] = {}
=============================================================================
