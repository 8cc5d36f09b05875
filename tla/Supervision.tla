---------------------------- MODULE Supervision ----------------------------
(***************************************************************************)
(* What package lifecycle promises to the author of a component, without   *)
(* levels, goroutines or loops: a component is started while everything it *)
(* depends on is up, and is stopped once nothing that depends on it is     *)
(* running.  Lifecycle.tla, the translation of the code, implements this.  *)
(***************************************************************************)
EXTENDS Naturals

CONSTANT Comp    \* the components, numbered in the order they are added

VARIABLES
    mode,        \* what the supervisor as a whole is doing
    deps,        \* deps[i]: the components i was declared to come After
    state        \* what each component is doing

vars == <<mode, deps, state>>

Modes  == {"declare", "boot", "serve", "shutdown", "over"}
States == {"off", "starting", "up", "failed", "stopping", "down"}

\* A component that may hold resources: its Start was called and did not fail,
\* and its Stop has not returned.
Running(i) == state[i] \in {"starting", "up", "stopping"}

TypeOK ==
    /\ mode \in Modes
    /\ deps \in [Comp -> SUBSET Comp]
    /\ state \in [Comp -> States]

Init ==
    /\ mode = "declare"
    /\ deps = [i \in Comp |-> {}]
    /\ state = [i \in Comp |-> "off"]

(* A dependency names a component that was added earlier.                  *)
Declare(i, d) ==
    /\ mode = "declare"
    /\ \A j \in d : j < i
    /\ deps' = [deps EXCEPT ![i] = d]
    /\ UNCHANGED <<mode, state>>

(* Boot, or refuse to boot because a declaration was invalid.              *)
Begin ==
    /\ mode = "declare"
    /\ mode' \in {"boot", "over"}
    /\ UNCHANGED <<deps, state>>

(* Start any set of components whose dependencies are all up.              *)
Launch(S) ==
    /\ mode = "boot"
    /\ \A i \in Comp : state[i] # "failed"
    /\ \A i \in S : state[i] = "off" /\ \A d \in deps[i] : state[d] = "up"
    /\ state' = [i \in Comp |-> IF i \in S THEN "starting" ELSE state[i]]
    /\ UNCHANGED <<mode, deps>>

Launched(i) ==
    /\ mode = "boot"
    /\ state[i] = "starting"
    /\ \E s \in {"up", "failed"} : state' = [state EXCEPT ![i] = s]
    /\ UNCHANGED <<mode, deps>>

(* The service is up only if no start was left in flight and none failed.  *)
Serve ==
    /\ mode = "boot"
    /\ \A i \in Comp : state[i] \notin {"starting", "failed"}
    /\ mode' = "serve"
    /\ UNCHANGED <<deps, state>>

(* A failed boot is closed down like a service, once no start is in flight. *)
Close ==
    /\ mode \in {"boot", "serve"}
    /\ \A i \in Comp : state[i] # "starting"
    /\ mode = "boot" => \E i \in Comp : state[i] = "failed"
    /\ mode' = "shutdown"
    /\ UNCHANGED <<deps, state>>

(* Stop any set of components that nothing running depends on.             *)
Halt(S) ==
    /\ mode = "shutdown"
    /\ \A i \in S : /\ state[i] = "up"
                    /\ \A j \in Comp : Running(j) => i \notin deps[j]
    /\ state' = [i \in Comp |-> IF i \in S THEN "stopping" ELSE state[i]]
    /\ UNCHANGED <<mode, deps>>

Halted(i) ==
    /\ mode = "shutdown"
    /\ state[i] = "stopping"
    /\ state' = [state EXCEPT ![i] = "down"]
    /\ UNCHANGED <<mode, deps>>

(* Nothing is left running when the supervisor returns.                    *)
End ==
    /\ mode = "shutdown"
    /\ \A i \in Comp : ~Running(i)
    /\ mode' = "over"
    /\ UNCHANGED <<deps, state>>

Next ==
    \/ \E i \in Comp, d \in SUBSET Comp : Declare(i, d)
    \/ Begin \/ Serve \/ Close \/ End
    \/ \E S \in SUBSET Comp : Launch(S) \/ Halt(S)
    \/ \E i \in Comp : Launched(i) \/ Halted(i)

Spec == Init /\ [][Next]_vars

(***************************************************************************)
(* The promise: whatever may hold resources can rely on its dependencies,  *)
(* while it starts, while it serves, and while it drains.                  *)
(***************************************************************************)
DependenciesUp ==
    \A i \in Comp : Running(i) => \A d \in deps[i] : state[d] = "up"
=============================================================================
