-------------------------- MODULE LifecycleProofs --------------------------
(***************************************************************************)
(* Theorems about Lifecycle, for every number of components, every graph   *)
(* Add accepts and every number of hooks.                                  *)
(***************************************************************************)
EXTENDS Lifecycle, TLAPS

-----------------------------------------------------------------------------
(* Next, one disjunct per action.                                          *)
LEMMA NextCases ==
    ASSUME Next
    PROVE  \/ \E refs \in SUBSET (Comp \cup {Foreign}), nils \in BOOLEAN :
                 Add(refs, nils)
           \/ RunRefuses \/ RunBegins \/ LevelStep \/ LevelsDone
           \/ StartLevel \/ LevelStarted \/ LevelFailed \/ AllStarted
           \/ RunStartedHook \/ Wait
           \/ SelectDone \/ RunDrainHook \/ DrainHooksRan \/ DrainDelayOver
           \/ StopLevel \/ LevelStopped \/ ReturnUnwound \/ ReturnStopped
           \/ \E i \in Comps : \/ StartOK(i) \/ StartFails(i)
                               \/ StopOK(i) \/ StopFails(i) \/ StopExpires(i)
                               \/ FatalStore(i)
           \/ Cancel \/ FatalClose
           \/ UNCHANGED vars
  BY DEF Next, RunStep, StartReturns, StopReturns, Finished

-----------------------------------------------------------------------------
(* Type correctness.                                                       *)

(* The bounds on n and k that TypeOK's steps need.                         *)
Counting ==
    /\ pc = "levels" => k \in 1..n+1
    /\ pc = "starting" => k \in 0..nlevels
    /\ pc = "startWait" => k \in 0..nlevels-1
    /\ pc = "stopping" => k \in -1..nlevels-1
    /\ pc = "stopWait" => k \in 0..nlevels-1

(* Every variable has its type, in every reachable state of Run.           *)
LEMMA TypingStep == TypeOK /\ Counting /\ [Next]_vars => TypeOK' /\ Counting'
<1> SUFFICES ASSUME TypeOK, Counting, [Next]_vars
             PROVE  TypeOK' /\ Counting'
  OBVIOUS
<1> USE LifecycleAssumption DEF TypeOK, Counting, Comp, PCs, build, plan, hooks, fatal
<1>1. ASSUME NEW refs \in SUBSET (Comp \cup {Foreign}), NEW nils \in BOOLEAN,
             Add(refs, nils)
      PROVE  TypeOK' /\ Counting'
  BY <1>1 DEF Add, Comps
<1>2. CASE RunRefuses     BY <1>2 DEF RunRefuses, Errors
<1>3. CASE RunBegins      BY <1>3 DEF RunBegins
<1>4. CASE LevelStep      BY <1>4, SMTT(30) DEF LevelStep
<1>5. CASE LevelsDone     BY <1>5 DEF LevelsDone
<1>6. CASE StartLevel
  <2>1. st' \in [Comp -> Statuses]
    BY <1>6 DEF StartLevel, Statuses
  <2>2. cancelled' \in BOOLEAN
    BY <1>6, Zenon DEF StartLevel
  <2> QED
    BY <1>6, <2>1, <2>2 DEF StartLevel
<1>7. CASE LevelStarted   BY <1>7 DEF LevelStarted
<1>8. CASE LevelFailed    BY <1>8 DEF LevelFailed
<1>9. CASE AllStarted     BY <1>9 DEF AllStarted
<1>10. CASE RunStartedHook BY <1>10 DEF RunStartedHook
<1>11. CASE Wait          BY <1>11 DEF Wait
<1>12. CASE SelectDone    BY <1>12 DEF SelectDone
<1>13. CASE RunDrainHook  BY <1>13 DEF RunDrainHook
<1>14. CASE DrainHooksRan BY <1>14 DEF DrainHooksRan
<1>15. CASE DrainDelayOver BY <1>15 DEF DrainDelayOver
<1>16. CASE StopLevel     BY <1>16 DEF StopLevel, Statuses
<1>17. CASE LevelStopped  BY <1>17 DEF LevelStopped
<1>18. CASE ReturnUnwound BY <1>18 DEF ReturnUnwound
<1>19. CASE ReturnStopped BY <1>19 DEF ReturnStopped, Errors
<1>20. ASSUME NEW i \in Comps,
              \/ StartOK(i) \/ StartFails(i) \/ StopOK(i) \/ StopFails(i)
              \/ StopExpires(i) \/ FatalStore(i)
       PROVE  TypeOK' /\ Counting'
  <2> i \in Comp
    BY DEF Comps
  <2>1. CASE StartOK(i)     BY <2>1 DEF StartOK, Statuses
  <2>2. CASE StartFails(i)  BY <2>2 DEF StartFails, Statuses, Errors
  <2>3. CASE StopOK(i)      BY <2>3 DEF StopOK, Statuses
  <2>4. CASE StopFails(i)   BY <2>4 DEF StopFails, Statuses, Errors
  <2>5. CASE StopExpires(i) BY <2>5 DEF StopExpires
  <2>6. CASE FatalStore(i)  BY <2>6 DEF FatalStore
  <2> QED BY <1>20, <2>1, <2>2, <2>3, <2>4, <2>5, <2>6
<1>21. CASE Cancel        BY <1>21 DEF Cancel
<1>22. CASE FatalClose    BY <1>22 DEF FatalClose
<1>23. CASE UNCHANGED vars BY <1>23 DEF vars
<1> QED
  BY <1>1, <1>2, <1>3, <1>4, <1>5, <1>6, <1>7, <1>8, <1>9, <1>10, <1>11,
     <1>12, <1>13, <1>14, <1>15, <1>16, <1>17, <1>18, <1>19, <1>20, <1>21,
     <1>22, <1>23, NextCases

(* Every variable has its type in every reachable state.                   *)
THEOREM TypeCorrect == Spec => [](TypeOK /\ Counting)
<1>1. ASSUME Init PROVE TypeOK /\ Counting
  <2>1. after \in [Comp -> SUBSET Comp] /\ lvl \in [Comp -> 0..N]
    BY <1>1, LifecycleAssumption DEF Init
  <2>2. st \in [Comp -> Statuses] /\ expired \in [Comp -> BOOLEAN]
    BY <1>1 DEF Init, Statuses
  <2>3. cancelled \in BOOLEAN /\ ctxDone \in BOOLEAN /\ fatalClosed \in BOOLEAN
    BY <1>1, Zenon DEF Init
  <2> QED
    BY <1>1, <2>1, <2>2, <2>3, LifecycleAssumption
    DEF Init, TypeOK, Counting, PCs, NoErr
<1> QED
  BY <1>1, TypingStep, PTL DEF Spec

-----------------------------------------------------------------------------
(* The inductive invariant.  Dependencies have smaller indexes, hence      *)
(* smaller levels once levels has computed them; and what Run is doing at  *)
(* level k fixes what the components below, at and above k are doing.      *)

Graph == \A i \in Comp : \A d \in after[i] : i \in Comps /\ d \in Comps /\ d < i

Leveled(i) == lvl[i] < nlevels /\ \A d \in after[i] : lvl[d] < lvl[i]

Levels ==
    /\ pc = "levels" => \A i \in Comps : i < k => Leveled(i)
    /\ pc \notin {"build", "levels", "returned"} => \A i \in Comps : Leveled(i)

Up == {"startedHooks", "select", "drain", "sleep"}

Stage ==
    /\ \A i \in Comp : i \notin Comps => st[i] = "idle"
    /\ pc \in {"build", "levels"} => \A i \in Comps : st[i] = "idle"
    /\ pc = "starting" =>
         \A i \in Comps : /\ lvl[i] < k => st[i] = "started"
                          /\ lvl[i] >= k => st[i] = "idle"
    /\ pc = "startWait" =>
         \A i \in Comps : /\ lvl[i] < k => st[i] = "started"
                          /\ lvl[i] = k => st[i] \in {"starting", "started", "failed"}
                          /\ lvl[i] > k => st[i] = "idle"
    /\ pc \in Up => \A i \in Comps : st[i] = "started"
    /\ pc = "stopping" =>
         \A i \in Comps : /\ lvl[i] <= k => st[i] \in {"idle", "started", "failed"}
                          /\ lvl[i] > k => ~Active(i)
    /\ pc = "stopWait" =>
         \A i \in Comps : /\ lvl[i] < k => st[i] \in {"idle", "started", "failed"}
                          /\ lvl[i] = k => st[i] \notin {"starting", "started"}
                          /\ lvl[i] > k => ~Active(i)
    /\ pc = "returned" => \A i \in Comps : ~Active(i)

OrderInv == Graph /\ Levels /\ Stage /\ DependenciesUp

(* A step of Run that moves only pc and k, from one stage to the next.     *)
LEMMA MoveStep ==
    ASSUME TypeOK, Counting, OrderInv,
           RunRefuses \/ RunBegins \/ LevelsDone \/ LevelStarted \/ LevelFailed
             \/ AllStarted \/ RunStartedHook \/ Wait \/ SelectDone \/ RunDrainHook
             \/ DrainHooksRan \/ DrainDelayOver \/ LevelStopped \/ ReturnUnwound
             \/ ReturnStopped
    PROVE  OrderInv'
<1> USE LifecycleAssumption DEF TypeOK, Comp, Comps, Active, build, plan, Levels, Leveled, Stage, Up, At
<1>1. UNCHANGED <<n, after, lvl, nlevels, st>>
  BY DEF RunRefuses, RunBegins, LevelsDone, LevelStarted, LevelFailed, AllStarted,
         RunStartedHook, Wait, SelectDone, RunDrainHook, DrainHooksRan,
         DrainDelayOver, LevelStopped, ReturnUnwound, ReturnStopped
<1>2. Graph' /\ DependenciesUp'
  BY <1>1 DEF OrderInv, Graph, DependenciesUp
<1>3. Levels' /\ Stage'
  <2> USE <1>1 DEF OrderInv, Counting
  <2>1. CASE RunRefuses      BY <2>1 DEF RunRefuses
  <2>2. CASE RunBegins       BY <2>2 DEF RunBegins
  <2>3. CASE LevelsDone      BY <2>3 DEF LevelsDone
  <2>4. CASE LevelStarted    BY <2>4 DEF LevelStarted
  <2>5. CASE LevelFailed     BY <2>5 DEF LevelFailed
  <2>6. CASE AllStarted      BY <2>6 DEF AllStarted
  <2>7. CASE RunStartedHook  BY <2>7 DEF RunStartedHook
  <2>8. CASE Wait            BY <2>8 DEF Wait
  <2>9. CASE SelectDone      BY <2>9 DEF SelectDone
  <2>10. CASE RunDrainHook   BY <2>10 DEF RunDrainHook
  <2>11. CASE DrainHooksRan  BY <2>11 DEF DrainHooksRan
  <2>12. CASE DrainDelayOver BY <2>12 DEF DrainDelayOver
  <2>13. CASE LevelStopped   BY <2>13 DEF LevelStopped
  <2>14. CASE ReturnUnwound  BY <2>14 DEF ReturnUnwound
  <2>15. CASE ReturnStopped  BY <2>15 DEF ReturnStopped
  <2> QED BY <2>1, <2>2, <2>3, <2>4, <2>5, <2>6, <2>7, <2>8, <2>9, <2>10,
             <2>11, <2>12, <2>13, <2>14, <2>15
<1> QED
  BY <1>2, <1>3 DEF OrderInv

(* A Start or a Stop is in flight only while Run waits for its level.      *)
LEMMA InFlight ==
    ASSUME TypeOK, OrderInv, NEW i \in Comps
    PROVE  /\ st[i] = "starting" => pc = "startWait" /\ lvl[i] = k
           /\ st[i] = "stopping" => pc = "stopWait" /\ lvl[i] = k
<1>1. pc \in PCs /\ (lvl[i] < k \/ lvl[i] = k \/ lvl[i] > k) /\ (lvl[i] <= k \/ lvl[i] > k)
  BY LifecycleAssumption DEF TypeOK, Comp, Comps
<1>2. pc \notin {"build", "levels"} \cup Up \/ st[i] \notin {"starting", "stopping"}
  BY DEF OrderInv, Stage
<1>3. pc = "starting" => st[i] \notin {"starting", "stopping"}
  <2>1. pc = "starting" => lvl[i] < k \/ lvl[i] >= k
    BY LifecycleAssumption DEF TypeOK, Comp, Comps
  <2> QED
    BY <2>1 DEF OrderInv, Stage
<1>4. pc = "startWait" => st[i] # "stopping" /\ (st[i] = "starting" => lvl[i] = k)
  BY <1>1 DEF OrderInv, Stage
<1>5. pc = "stopping" => st[i] \notin {"starting", "stopping"}
  BY <1>1 DEF OrderInv, Stage, Active
<1>6. pc = "stopWait" => st[i] # "starting" /\ (st[i] = "stopping" => lvl[i] = k)
  BY <1>1 DEF OrderInv, Stage, Active
<1>7. pc = "returned" => st[i] \notin {"starting", "stopping"}
  BY DEF OrderInv, Stage, Active
<1> QED
  BY <1>1, <1>2, <1>3, <1>4, <1>5, <1>6, <1>7 DEF PCs, Up

(* A step of one goroutine that startLevel or stopStarted runs.            *)
LEMMA ComponentStep ==
    ASSUME TypeOK, Counting, OrderInv, NEW i \in Comps,
           StartOK(i) \/ StartFails(i) \/ StopOK(i) \/ StopFails(i)
    PROVE  OrderInv'
<1> USE LifecycleAssumption DEF TypeOK, Comp, Comps, Active, build, plan
<1>1. UNCHANGED <<n, after, pc, lvl, nlevels, k>>
  BY DEF StartOK, StartFails, StopOK, StopFails
<1>2. Graph' /\ Levels'
  BY <1>1 DEF OrderInv, Graph, Levels, Leveled
<1>3. /\ i \in Comp
      /\ \/ st[i] = "starting" /\ st'[i] \in {"started", "failed"}
         \/ st[i] = "stopping" /\ st'[i] \in {"stopped", "stopFailed"}
      /\ \A j \in Comp : j # i => st'[j] = st[j]
  BY DEF StartOK, StartFails, StopOK, StopFails
<1>4. Stage'
  <2>1. CASE st[i] = "starting"
    BY <1>1, <1>3, <2>1, InFlight DEF OrderInv, Stage, Up
  <2>2. CASE st[i] = "stopping"
    <3>1. pc = "stopWait" /\ lvl[i] = k
      BY <2>2, InFlight
    <3>2. \A j \in Comp : j \notin Comps => st'[j] = "idle"
      BY <1>3, <2>2 DEF OrderInv, Stage
    <3>3. \A j \in Comps : st'[j] = st[j] \/ (j = i /\ st'[j] \in {"stopped", "stopFailed"})
      BY <1>3, <2>2
    <3> QED
      BY <1>1, <1>3, <3>1, <3>2, <3>3 DEF OrderInv, Stage, Up
  <2> QED
    BY <1>3, <2>1, <2>2
<1>5. \A j \in Comps : i \in after[j] => ~Active(j)
  BY <1>3 DEF OrderInv, DependenciesUp
<1>6. DependenciesUp'
  <2> SUFFICES ASSUME NEW j \in Comps, Active(j)', NEW d \in after[j]
               PROVE  st'[d] = "started"
    BY <1>1 DEF DependenciesUp
  <2>1. Active(j)
    BY <1>3
  <2> QED
    BY <1>3, <1>5, <2>1 DEF OrderInv, DependenciesUp
<1> QED
  BY <1>2, <1>4, <1>6 DEF OrderInv

(* Every step keeps the order of the levels, and with it the promise.      *)
LEMMA OrderStep ==
    ASSUME TypeOK, Counting, OrderInv, [Next]_vars
    PROVE  OrderInv'
<1> USE LifecycleAssumption DEF TypeOK, Comp, Comps, Active, build, plan
<1>1. ASSUME NEW refs \in SUBSET (Comp \cup {Foreign}), NEW nils \in BOOLEAN,
             Add(refs, nils)
      PROVE  OrderInv'
  <2>1. Graph'
    BY <1>1 DEF Add, OrderInv, Graph
  <2>2. Levels' /\ Stage' /\ DependenciesUp'
    BY <1>1 DEF Add, OrderInv, Levels, Leveled, Stage, DependenciesUp, Up
  <2> QED
    BY <2>1, <2>2 DEF OrderInv
<1>2. CASE LevelStep
  <2>1. PICK l \in 0..N :
            /\ \A d \in after[k] : lvl[d] < l
            /\ lvl' = [lvl EXCEPT ![k] = l]
            /\ nlevels' = IF nlevels > l THEN nlevels ELSE l + 1
    BY <1>2 DEF LevelStep
  <2>2. pc = "levels" /\ k \in Comps /\ k' = k + 1 /\ UNCHANGED <<n, after, pc, st>>
    BY <1>2 DEF LevelStep, Counting
  <2>3. Levels'
    BY <2>1, <2>2 DEF OrderInv, Levels, Leveled, Graph
  <2>4. Graph' /\ Stage' /\ DependenciesUp'
    BY <2>2 DEF OrderInv, Graph, Stage, DependenciesUp, Up
  <2> QED
    BY <2>3, <2>4 DEF OrderInv
<1>3. CASE StartLevel
  <2>1. Graph' /\ Levels'
    BY <1>3 DEF StartLevel, OrderInv, Graph, Levels, Leveled
  <2>2. Stage'
    BY <1>3 DEF StartLevel, OrderInv, Stage, At, Up
  <2>3. DependenciesUp'
    BY <1>3 DEF StartLevel, OrderInv, Stage, DependenciesUp, Levels, Leveled, Graph, At
  <2> QED
    BY <2>1, <2>2, <2>3 DEF OrderInv
<1>4. CASE StopLevel
  <2>1. Graph' /\ Levels'
    BY <1>4 DEF StopLevel, OrderInv, Graph, Levels, Leveled
  <2>2. /\ pc = "stopping" /\ pc' = "stopWait" /\ k \in Int
        /\ UNCHANGED <<n, after, lvl, k>>
        /\ \A i \in Comp : st'[i] = IF i \in Comps /\ lvl[i] = k /\ st[i] = "started"
                                    THEN "stopping" ELSE st[i]
    BY <1>4 DEF StopLevel, At
  <2>3. \A i \in Comps : i \in Comp /\ lvl[i] \in Int
    OBVIOUS
  <2>4. Stage'
    <3>1. \A i \in Comp : i \notin Comps' => st'[i] = "idle"
      BY <2>2 DEF OrderInv, Stage
    <3>2. ASSUME NEW i \in Comps
          PROVE  /\ lvl[i] < k => st'[i] \in {"idle", "started", "failed"}
                 /\ lvl[i] = k => st'[i] \notin {"starting", "started"}
                 /\ lvl[i] > k => st'[i] \notin {"starting", "started", "stopping"}
      BY <2>2, <2>3 DEF OrderInv, Stage
    <3> QED
      BY <2>2, <3>1, <3>2 DEF Stage, Up
  <2>5. DependenciesUp'
    <3> SUFFICES ASSUME NEW i \in Comps, Active(i)', NEW d \in after[i]
                 PROVE  st'[d] = "started"
      BY <2>2 DEF DependenciesUp
    <3>1. Active(i) /\ lvl[i] <= k
      BY <2>2, <2>3 DEF OrderInv, Stage
    <3>2. d \in Comps /\ lvl[d] < lvl[i] /\ st[d] = "started"
      BY <2>2, <3>1 DEF OrderInv, Graph, Levels, Leveled, DependenciesUp
    <3> QED
      BY <2>2, <2>3, <3>1, <3>2
  <2> QED
    BY <2>1, <2>4, <2>5 DEF OrderInv
<1>5. ASSUME UNCHANGED <<n, after, pc, lvl, nlevels, k, st>>
      PROVE  OrderInv'
  <2>1. Graph' /\ Levels' /\ DependenciesUp'
    BY <1>5 DEF OrderInv, Graph, Levels, Leveled, DependenciesUp
  <2>2. Stage'
    BY <1>5 DEF OrderInv, Stage, Up
  <2> QED
    BY <2>1, <2>2 DEF OrderInv
<1>6. ASSUME NEW i \in Comps, StopExpires(i) \/ FatalStore(i)
      PROVE  OrderInv'
  BY <1>5, <1>6 DEF StopExpires, FatalStore
<1>7. CASE Cancel \/ FatalClose \/ UNCHANGED vars
  BY <1>5, <1>7 DEF Cancel, FatalClose, vars
<1> QED
  BY <1>1, <1>2, <1>3, <1>4, <1>5, <1>6, <1>7, NextCases, MoveStep, ComponentStep

LEMMA OrderInvariant == Spec => [](TypeOK /\ Counting /\ OrderInv)
<1>1. Init => OrderInv
  BY DEF Init, OrderInv, Graph, Levels, Stage, DependenciesUp, Comps, Comp, Up, Active
<1>2. TypeOK /\ Counting /\ OrderInv /\ [Next]_vars => OrderInv'
  BY OrderStep
<1> QED
  BY <1>1, <1>2, TypeCorrect, PTL DEF Spec

(* A component that starts, serves or drains always has every component it *)
(* comes After started and not asked to stop, in every graph.              *)
THEOREM DependenciesStayUp == Spec => []DependenciesUp
  BY OrderInvariant, PTL DEF OrderInv

(* When Run has returned, by whichever return, no component is left        *)
(* starting, started or stopping.                                          *)
THEOREM NothingIsLeftRunning == Spec => []NothingLeftRunning
<1>1. OrderInv => NothingLeftRunning
  BY DEF OrderInv, Stage, NothingLeftRunning
<1> QED
  BY <1>1, OrderInvariant, PTL

-----------------------------------------------------------------------------
(* A failed boot.                                                          *)

(* The steps that change what a component does, and the others.            *)
LEMMA StatusCases ==
    ASSUME TypeOK, [Next]_vars
    PROVE  \/ UNCHANGED st
           \/ StartLevel \/ StopLevel
           \/ \E i \in Comps : StartOK(i) \/ StartFails(i) \/ StopOK(i) \/ StopFails(i)
<1> QED
  BY NextCases
  DEF Add, RunRefuses, RunBegins, LevelStep, LevelsDone, LevelStarted, LevelFailed,
      AllStarted, RunStartedHook, Wait, SelectDone, RunDrainHook, DrainHooksRan,
      DrainDelayOver, LevelStopped, ReturnUnwound, ReturnStopped, StopExpires,
      FatalStore, Cancel, FatalClose, vars

(* The graph and its levels are fixed once the first Start is called.      *)
LEMMA PlanCases ==
    ASSUME [Next]_vars
    PROVE  \/ UNCHANGED <<n, after, lvl>>
           \/ pc \in {"build", "levels"} /\ UNCHANGED st
<1> QED
  BY NextCases
  DEF Add, RunRefuses, RunBegins, LevelStep, LevelsDone, LevelStarted, LevelFailed,
      AllStarted, RunStartedHook, Wait, SelectDone, RunDrainHook, DrainHooksRan,
      DrainDelayOver, LevelStopped, ReturnUnwound, ReturnStopped, StopExpires,
      FatalStore, Cancel, FatalClose, vars, build, plan, StartLevel, StopLevel,
      StartOK, StartFails, StopOK, StopFails

LEMMA DoomedStep ==
    ASSUME TypeOK, Counting, OrderInv, DoomedBootStartsNoMore, [Next]_vars
    PROVE  DoomedBootStartsNoMore'
<1> USE LifecycleAssumption DEF Comp, Comps, DoomedBootStartsNoMore
<1>1. CASE pc \in {"build", "levels"} /\ UNCHANGED st
  BY <1>1, TypingStep DEF OrderInv, Stage, TypeOK
<1>2. CASE UNCHANGED <<n, after, lvl>> /\ UNCHANGED st
  BY <1>2
<1>3. CASE UNCHANGED <<n, after, lvl>> /\ (StartLevel \/ StopLevel)
  <2>1. CASE StartLevel
    <3>1. \A i \in Comps : st[i] # "failed" /\ (i \in Comp /\ lvl[i] \in Int)
      BY <2>1 DEF StartLevel, OrderInv, Stage, TypeOK
    <3> QED
      BY <1>3, <2>1, <3>1 DEF StartLevel, TypeOK
  <2>2. CASE StopLevel
    BY <1>3, <2>2 DEF StopLevel, TypeOK
  <2> QED
    BY <1>3, <2>1, <2>2
<1>4. ASSUME UNCHANGED <<n, after, lvl>>, NEW i \in Comps,
             StartOK(i) \/ StartFails(i) \/ StopOK(i) \/ StopFails(i)
      PROVE  DoomedBootStartsNoMore'
  <2>1. i \in Comp /\ \A j \in Comps : j \in Comp /\ lvl[j] \in Int
    BY DEF TypeOK
  <2>2. CASE StartOK(i) \/ StartFails(i)
    <3>1. pc = "startWait" /\ lvl[i] = k
      BY <2>2, InFlight DEF StartOK, StartFails
    <3>2. /\ \A j \in Comps : lvl[j] < k => st[j] = "started"
          /\ \A j \in Comps : lvl[j] > k => st[j] = "idle"
      BY <3>1 DEF OrderInv, Stage
    <3> QED
      BY <1>4, <2>1, <2>2, <3>1, <3>2 DEF StartOK, StartFails, TypeOK
  <2>3. CASE StopOK(i) \/ StopFails(i)
    BY <1>4, <2>1, <2>3 DEF StopOK, StopFails, TypeOK
  <2> QED
    BY <1>4, <2>2, <2>3
<1> QED
  BY <1>1, <1>2, <1>3, <1>4, StatusCases, PlanCases

(* No component of a later level is ever started once a Start has failed.  *)
THEOREM DoomedBoots == Spec => []DoomedBootStartsNoMore
<1>1. Init => DoomedBootStartsNoMore
  BY DEF Init, DoomedBootStartsNoMore, Comps
<1>2. TypeOK /\ Counting /\ OrderInv /\ DoomedBootStartsNoMore /\ [Next]_vars
        => DoomedBootStartsNoMore'
  BY DoomedStep
<1> QED
  BY <1>1, <1>2, OrderInvariant, PTL DEF Spec

-----------------------------------------------------------------------------
(* Errors.                                                                 *)

(* The errors collected so far are those of the calls that failed so far.  *)
Collected ==
    /\ \A i \in Comp : <<"start", i>> \in errs <=> st[i] = "failed"
    /\ \A i \in Comp : <<"stop", i>> \in errs <=> st[i] = "stopFailed"
    /\ pc = "returned" /\ addErrs = {} =>
         \A i \in Comp : /\ <<"start", i>> \in result <=> <<"start", i>> \in errs
                         /\ <<"stop", i>> \in result <=> <<"stop", i>> \in errs

LEMMA CollectedStep ==
    ASSUME TypeOK, Counting, OrderInv, Collected, [Next]_vars
    PROVE  Collected'
<1> USE LifecycleAssumption DEF Comp, Comps, Collected
<1>1. CASE RunRefuses \/ ReturnUnwound \/ ReturnStopped
  BY <1>1 DEF RunRefuses, ReturnUnwound, ReturnStopped, build
<1>2. CASE StartLevel
  <2>1. ASSUME NEW i \in Comp
        PROVE  /\ st'[i] = "failed" <=> st[i] = "failed"
               /\ st'[i] = "stopFailed" <=> st[i] = "stopFailed"
    <3>1. CASE i \in At(k)
      <4>1. i \in Comps /\ lvl[i] = k
        BY <3>1 DEF At
      <4>2. pc = "starting" /\ st'[i] = "starting"
        BY <1>2, <3>1 DEF StartLevel
      <4>3. st[i] = "idle"
        BY <4>1, <4>2 DEF OrderInv, Stage, TypeOK
      <4> QED
        BY <4>2, <4>3
    <3>2. CASE i \notin At(k)
      BY <1>2, <3>2 DEF StartLevel
    <3> QED
      BY <3>1, <3>2
  <2>2. errs' = errs /\ pc' = "startWait"
    BY <1>2 DEF StartLevel
  <2> QED
    BY <2>1, <2>2
<1>3. CASE StopLevel
  BY <1>3 DEF StopLevel, TypeOK
<1>4. ASSUME NEW i \in Comps,
             StartOK(i) \/ StartFails(i) \/ StopOK(i) \/ StopFails(i)
      PROVE  Collected'
  <2>1. i \in Comp /\ pc # "returned" /\ pc' = pc
    BY <1>4, InFlight DEF StartOK, StartFails, StopOK, StopFails, TypeOK
  <2>2. CASE StartOK(i)
    BY <2>1, <2>2 DEF StartOK, TypeOK
  <2>3. CASE StartFails(i)
    BY <2>1, <2>3 DEF StartFails, TypeOK
  <2>4. CASE StopOK(i)
    BY <2>1, <2>4 DEF StopOK, TypeOK
  <2>5. CASE StopFails(i)
    BY <2>1, <2>5 DEF StopFails, TypeOK
  <2> QED
    BY <1>4, <2>2, <2>3, <2>4, <2>5
<1>5. CASE pc' # "returned" /\ UNCHANGED <<st, errs>>
  BY <1>5
<1>6. CASE UNCHANGED <<pc, addErrs, st, errs, result>>
  BY <1>6
<1> QED
  BY <1>1, <1>2, <1>3, <1>4, <1>5, <1>6, NextCases
  DEF Add, RunBegins, LevelStep, LevelsDone, LevelStarted, LevelFailed, AllStarted,
      RunStartedHook, Wait, SelectDone, RunDrainHook, DrainHooksRan, DrainDelayOver,
      LevelStopped, StopExpires, FatalStore, Cancel, FatalClose, vars, build

(* Run's return value has the error of every Start and Stop that failed,   *)
(* from the unwind of a failed boot as from an ordered shutdown.           *)
THEOREM FailuresAreJoined == Spec => []FailuresJoined
<1>1. Init => Collected
  BY DEF Init, Collected
<1>2. TypeOK /\ Counting /\ OrderInv /\ Collected /\ [Next]_vars => Collected'
  BY CollectedStep
<1>3. TypeOK /\ Collected => FailuresJoined
  <2> SUFFICES ASSUME TypeOK, Collected, pc = "returned", addErrs = {},
                      NEW i \in Comps
               PROVE  /\ <<"start", i>> \in result <=> st[i] = "failed"
                      /\ <<"stop", i>> \in result <=> st[i] = "stopFailed"
    BY DEF FailuresJoined
  <2>1. i \in Comp
    BY LifecycleAssumption DEF Comps, Comp, TypeOK
  <2> QED
    BY <2>1 DEF Collected
<1> QED
  BY <1>1, <1>2, <1>3, OrderInvariant, PTL DEF Spec

(* Fatal stores its error before it closes the channel.                    *)
FatalStored ==
    /\ fatalErr \in Comps \cup {NoErr}
    /\ fatalClosed => fatalErr # NoErr

LEMMA FatalStep == ASSUME TypeOK, FatalStored, [Next]_vars PROVE FatalStored'
<1> USE LifecycleAssumption DEF FatalStored, Comps
<1>1. ASSUME NEW i \in Comps, FatalStore(i)
      PROVE  FatalStored'
  BY <1>1 DEF FatalStore, build, NoErr
<1>2. CASE FatalClose
  BY <1>2 DEF FatalClose, build
<1>3. CASE UNCHANGED fatal /\ n' \in {n, n + 1}
  BY <1>3 DEF fatal, TypeOK
<1> QED
  BY <1>1, <1>2, <1>3, NextCases
  DEF Add, RunRefuses, RunBegins, LevelStep, LevelsDone, StartLevel, LevelStarted,
      LevelFailed, AllStarted, RunStartedHook, Wait, SelectDone, RunDrainHook,
      DrainHooksRan, DrainDelayOver, StopLevel, LevelStopped, ReturnUnwound,
      ReturnStopped, StartOK, StartFails, StopOK, StopFails, StopExpires, Cancel,
      vars, build, fatal

(* A Fatal that landed before an ordered shutdown returned is in what Run  *)
(* returns, wherever in the drain or the stops it landed.                  *)
THEOREM FatalIsJoined == Spec => [][FatalJoined]_vars
<1>1. Init => FatalStored
  BY DEF Init, FatalStored, NoErr
<1>2. TypeOK /\ FatalStored /\ [Next]_vars => FatalStored'
  BY FatalStep
<1>3. ASSUME FatalStored, FatalStored', [Next]_vars,
             pc = "stopping", pc' = "returned", ~BootFailed,
             fatalErr # NoErr \/ fatalClosed
      PROVE  \E i \in Comps : <<"fatal", i>> \in result'
  <2>1. ReturnStopped
    BY <1>3, NextCases
    DEF Add, RunRefuses, RunBegins, LevelStep, LevelsDone, StartLevel, LevelStarted,
        LevelFailed, AllStarted, RunStartedHook, Wait, SelectDone, RunDrainHook,
        DrainHooksRan, DrainDelayOver, StopLevel, LevelStopped, ReturnUnwound,
        StartOK, StartFails, StopOK, StopFails, StopExpires, Cancel, FatalStore,
        FatalClose, vars
  <2>2. fatalErr \in Comps
    BY <1>3 DEF FatalStored
  <2>3. result' = errs \cup ({"fatal"} \X ({fatalErr} \ {NoErr})) /\ n' = n
    BY <2>1 DEF ReturnStopped, build
  <2>4. fatalErr # NoErr
    BY <1>3 DEF FatalStored
  <2>5. <<"fatal", fatalErr>> \in result'
    BY <2>3, <2>4
  <2> QED
    BY <2>2, <2>5
<1>4. FatalStored /\ FatalStored' /\ [Next]_vars => [FatalJoined]_vars
  BY <1>3 DEF FatalJoined
<1> QED
  BY <1>1, <1>2, <1>4, TypeCorrect, PTL DEF Spec

(* No failure that Run can know of is lost in what it returns.             *)
THEOREM FailuresAreReported == Spec => EveryFailureReported
BY FailuresAreJoined, FatalIsJoined, PTL DEF EveryFailureReported

-----------------------------------------------------------------------------
(* The hooks.                                                              *)

Whole == upRun = StartedHooks /\ drainRun = DrainHooks

(* How far the hooks are at each place of Run, and what they have seen.    *)
HookInv ==
    /\ pc \in {"build", "levels", "starting", "startWait"} => upRun = 0 /\ drainRun = 0
    /\ pc = "startedHooks" => drainRun = 0
    /\ pc \in {"select", "drain", "sleep"} => upRun = StartedHooks
    /\ pc = "sleep" => drainRun = DrainHooks
    /\ pc \in {"stopping", "stopWait"} => BootFailed \/ Whole
    /\ pc = "returned" => BootFailed \/ Whole \/ \A i \in Comps : st[i] = "idle"
    /\ drainRun > 0 => upRun = StartedHooks
    /\ upRun > 0 => \A i \in Comps : st[i] \notin {"idle", "starting", "failed"}

(* A failed Start stays failed.                                            *)
LEMMA FailureStays ==
    ASSUME TypeOK, OrderInv, [Next]_vars, BootFailed PROVE BootFailed'
<1>1. PICK i \in Comps : st[i] = "failed"
  BY DEF BootFailed
<1>2. i \in Comps'
  <2>1. n' \in {n, n + 1}
    BY NextCases
    DEF Add, RunRefuses, RunBegins, LevelStep, LevelsDone, LevelStarted, LevelFailed,
        AllStarted, RunStartedHook, Wait, SelectDone, RunDrainHook, DrainHooksRan,
        DrainDelayOver, LevelStopped, ReturnUnwound, ReturnStopped, StopExpires,
        FatalStore, Cancel, FatalClose, vars, build, StartLevel, StopLevel,
        StartOK, StartFails, StopOK, StopFails
  <2> QED
    BY <1>1, <2>1, LifecycleAssumption DEF Comps, TypeOK
<1>3. st'[i] = "failed"
  <2> i \in Comp
    BY <1>1, LifecycleAssumption DEF Comps, Comp, TypeOK
  <2>1. CASE UNCHANGED st
    BY <1>1, <2>1
  <2>2. CASE StartLevel
    <3>1. lvl[i] < k \/ lvl[i] >= k
      BY LifecycleAssumption DEF TypeOK, Comp
    <3> QED
      BY <1>1, <2>2, <3>1 DEF StartLevel, OrderInv, Stage
  <2>3. CASE StopLevel
    BY <1>1, <2>3 DEF StopLevel
  <2>4. ASSUME NEW j \in Comps, StartOK(j) \/ StartFails(j) \/ StopOK(j) \/ StopFails(j)
        PROVE  st'[i] = "failed"
    <3>1. st[j] # "failed" /\ \E s \in Statuses : st' = [st EXCEPT ![j] = s]
      BY <2>4, Zenon DEF StartOK, StartFails, StopOK, StopFails, Statuses
    <3> QED
      BY <1>1, <3>1 DEF TypeOK
  <2> QED
    BY <2>1, <2>2, <2>3, <2>4, StatusCases
<1> QED
  BY <1>2, <1>3 DEF BootFailed

LEMMA HookStep ==
    ASSUME TypeOK, Counting, OrderInv, HookInv, [Next]_vars PROVE HookInv'
<1> USE LifecycleAssumption DEF HookInv, Whole, hooks, build
<1>1. BootFailed => BootFailed'
  BY FailureStays
<1>2. ASSUME UNCHANGED <<n, st, pc, upRun, drainRun>>
      PROVE  HookInv'
  BY <1>1, <1>2 DEF Comps
<1>3. ASSUME NEW refs \in SUBSET (Comp \cup {Foreign}), NEW nils \in BOOLEAN,
             Add(refs, nils)
      PROVE  HookInv'
  BY <1>3 DEF Add
<1>4. ASSUME NEW i \in Comps, StartOK(i) \/ StartFails(i) \/ StopOK(i) \/ StopFails(i)
      PROVE  HookInv'
  <2>1. i \in Comp /\ Comps' = Comps /\ UNCHANGED <<pc, upRun, drainRun>>
    BY <1>4 DEF StartOK, StartFails, StopOK, StopFails, Comps, Comp, TypeOK
  <2>2. /\ \/ st[i] = "starting" /\ pc = "startWait"
           \/ st[i] = "stopping" /\ st'[i] \in {"stopped", "stopFailed"}
                /\ pc = "stopWait"
        /\ \A j \in Comps : j # i => st'[j] = st[j]
    BY <1>4, <2>1, InFlight DEF StartOK, StartFails, StopOK, StopFails, TypeOK, Comps, Comp
  <2> QED
    BY <1>1, <2>1, <2>2 DEF TypeOK
<1>5. CASE StartLevel
  BY <1>5 DEF StartLevel, TypeOK
<1>6. CASE StopLevel
  <2>1. pc = "stopping" /\ pc' = "stopWait" /\ Comps' = Comps /\ UNCHANGED <<upRun, drainRun>>
    BY <1>6 DEF StopLevel, Comps
  <2>2. \A i \in Comps : st'[i] \in {"stopping", st[i]}
    BY <1>6 DEF StopLevel, Comps, Comp, TypeOK
  <2> QED
    BY <1>1, <2>1, <2>2
<1>7. CASE RunRefuses
  BY <1>7 DEF RunRefuses, OrderInv, Stage, Comps
<1>8. CASE RunBegins \/ LevelStep \/ LevelsDone \/ LevelStarted \/ AllStarted
  BY <1>8 DEF RunBegins, LevelStep, LevelsDone, LevelStarted, AllStarted, Comps
<1>9. CASE LevelFailed
  <2>1. BootFailed
    BY <1>9 DEF LevelFailed, At, BootFailed
  <2> QED
    BY <1>1, <1>9, <2>1 DEF LevelFailed, Comps
<1>10. CASE RunStartedHook
  <2>1. \A i \in Comps : st[i] = "started"
    BY <1>10 DEF RunStartedHook, OrderInv, Stage, Up
  <2> QED
    BY <1>10, <2>1 DEF RunStartedHook, Comps
<1>11. CASE Wait \/ SelectDone \/ RunDrainHook \/ DrainHooksRan \/ DrainDelayOver
  BY <1>11 DEF Wait, SelectDone, RunDrainHook, DrainHooksRan, DrainDelayOver, Comps
<1>12. CASE LevelStopped \/ ReturnUnwound \/ ReturnStopped
  BY <1>1, <1>12 DEF LevelStopped, ReturnUnwound, ReturnStopped, Comps
<1>13. ASSUME NEW i \in Comps, StopExpires(i) \/ FatalStore(i)
       PROVE  HookInv'
  BY <1>2, <1>13 DEF StopExpires, FatalStore
<1>14. CASE Cancel \/ FatalClose \/ UNCHANGED vars
  BY <1>2, <1>14 DEF Cancel, FatalClose, vars
<1> QED
  BY <1>3, <1>4, <1>5, <1>6, <1>7, <1>8, <1>9, <1>10, <1>11, <1>12, <1>13, <1>14,
     NextCases

(* The hooks bracket the service: for every number of hooks of either      *)
(* kind, all of them run between the last Start and the first Stop, or the *)
(* boot failed and none did.                                               *)
THEOREM HooksAreBracketed == Spec => []HooksBracketService
<1>1. Init => HookInv
  BY DEF Init, HookInv
<1>2. TypeOK /\ Counting /\ OrderInv /\ HookInv /\ [Next]_vars => HookInv'
  BY HookStep
<1>3. TypeOK /\ OrderInv /\ HookInv => HooksBracketService
  <2> SUFFICES ASSUME TypeOK, OrderInv, HookInv, NEW i \in Comps,
                      st[i] \in {"stopping", "stopped", "stopFailed"}
               PROVE  BootFailed \/ Whole
    BY DEF HookInv, Whole, HooksBracketService
  <2>1. pc \notin {"build", "levels"} \cup Up
    BY DEF OrderInv, Stage
  <2>2. lvl[i] < k \/ lvl[i] = k \/ lvl[i] > k
    BY LifecycleAssumption DEF TypeOK, Comp, Comps
  <2>3. pc # "starting"
    <3>1. lvl[i] < k \/ lvl[i] >= k
      BY LifecycleAssumption DEF TypeOK, Comp, Comps
    <3> QED
      BY <3>1 DEF OrderInv, Stage
  <2>4. pc # "startWait"
    BY <2>2 DEF OrderInv, Stage
  <2> QED
    BY <2>1, <2>3, <2>4 DEF HookInv, Up, TypeOK, PCs
<1> QED
  BY <1>1, <1>2, <1>3, OrderInvariant, PTL DEF Spec

-----------------------------------------------------------------------------
(* Refinement.                                                             *)

(* What the mapping of Lifecycle says of each place Run can be at, and of  *)
(* each component.                                                         *)
LEMMA ModeOf ==
    /\ pc = "build" => mode = "declare"
    /\ pc \in {"levels", "starting", "startWait"} => mode = "boot"
    /\ pc \in Up => mode = "serve"
    /\ pc \in {"stopping", "stopWait"} => mode = "shutdown"
    /\ pc = "returned" => mode = "over"
  BY DEF mode, Up

LEMMA StateOf ==
    ASSUME TypeOK
    PROVE  /\ state = [i \in Comp |-> state[i]]
           /\ \A i \in Comp :
                /\ state[i] = "off" <=> st[i] = "idle"
                /\ state[i] = "starting" <=> st[i] = "starting"
                /\ state[i] = "up" <=> st[i] = "started"
                /\ state[i] = "failed" <=> st[i] = "failed"
                /\ state[i] = "stopping" <=> st[i] = "stopping"
                /\ state[i] = "down" <=> st[i] \in {"stopped", "stopFailed"}
                /\ Promise!Running(i) <=> Active(i)
  BY DEF TypeOK, Statuses, state, Promise!Running, Active

LEMMA StateSame == UNCHANGED st => UNCHANGED state
  BY DEF state

LEMMA ModeSame == UNCHANGED pc => UNCHANGED mode
  BY DEF mode

(* Each step of Run, of its goroutines, of a signal and of Fatal is a step *)
(* of Supervision, or changes nothing that Supervision sees.               *)
LEMMA RefinementStep ==
    ASSUME TypeOK, TypeOK', Counting, OrderInv, OrderInv', [Next]_vars
    PROVE  [Promise!Next]_(Promise!vars)
<1> USE LifecycleAssumption, ModeOf DEF Comp, Comps
<1>1. ASSUME NEW refs \in SUBSET (Comp \cup {Foreign}), NEW nils \in BOOLEAN,
             Add(refs, nils)
      PROVE  Promise!Next
  <2>1. UNCHANGED <<mode, state>> /\ mode = "declare" /\ n + 1 \in Comp
    BY <1>1, ModeSame, StateSame DEF Add, TypeOK
  <2>2. \A d \in refs \cap Comps : d < n + 1
    BY DEF TypeOK
  <2>3. Promise!Declare(n + 1, refs \cap Comps)
    BY <1>1, <2>1, <2>2 DEF Add, Promise!Declare
  <2>4. refs \cap Comps \in SUBSET Comp
    BY DEF TypeOK
  <2> QED
    BY <2>1, <2>3, <2>4 DEF Promise!Next
<1>2. CASE RunRefuses \/ RunBegins
  <2>1. UNCHANGED <<after, state>> /\ mode = "declare" /\ mode' \in {"boot", "over"}
    BY <1>2, StateSame DEF RunRefuses, RunBegins, build, mode
  <2> QED
    BY <2>1 DEF Promise!Begin, Promise!Next
<1>3. CASE \/ LevelStep \/ LevelsDone \/ LevelStarted \/ RunStartedHook \/ Wait
           \/ SelectDone \/ RunDrainHook \/ DrainHooksRan \/ LevelStopped
           \/ Cancel \/ FatalClose \/ UNCHANGED vars
           \/ \E i \in Comps : StopExpires(i) \/ FatalStore(i)
  <2>1. UNCHANGED <<after, st>>
    BY <1>3 DEF LevelStep, LevelsDone, LevelStarted, RunStartedHook, Wait, SelectDone,
       RunDrainHook, DrainHooksRan, LevelStopped, Cancel, FatalClose, vars, StopExpires,
       FatalStore, build
  <2>2. UNCHANGED mode
    BY <1>3, ModeSame DEF LevelStep, LevelsDone, LevelStarted, RunStartedHook, Wait,
       SelectDone, RunDrainHook, DrainHooksRan, LevelStopped, Cancel, FatalClose, vars,
       StopExpires, FatalStore, mode
  <2> QED
    BY <2>1, <2>2, StateSame DEF Promise!vars
<1>4. CASE StartLevel
  <2>1. pc = "starting" /\ k \in Int /\ UNCHANGED <<after>> /\ mode = "boot" /\ mode' = "boot"
    BY <1>4 DEF StartLevel, build, TypeOK, mode
  <2>2. \A i \in Comp : st[i] \in {"idle", "started"}
    BY <2>1 DEF OrderInv, Stage, TypeOK
  <2>3. \A i \in At(k) : st[i] = "idle" /\ \A d \in after[i] : d \in Comp /\ st[d] = "started"
    BY <2>1, SMTT(30) DEF OrderInv, Stage, Levels, Leveled, Graph, At, TypeOK
  <2>4. state' = [i \in Comp |-> IF i \in At(k) THEN "starting" ELSE state[i]]
    BY <1>4 DEF StartLevel, state, TypeOK
  <2>5. At(k) \in SUBSET Comp
    BY DEF At, TypeOK
  <2>6. \A i \in Comp : state[i] # "failed"
    BY <2>2, StateOf
  <2>7. \A i \in At(k) : state[i] = "off" /\ \A d \in after[i] : state[d] = "up"
    BY <2>3, <2>5, StateOf
  <2>8. Promise!Launch(At(k))
    BY <2>1, <2>4, <2>6, <2>7 DEF Promise!Launch
  <2> QED
    BY <2>5, <2>8 DEF Promise!Next
<1>5. CASE AllStarted
  <2>1. UNCHANGED <<after, state>> /\ mode = "boot" /\ mode' = "serve" /\ pc' \in Up
    BY <1>5, StateSame DEF AllStarted, build, mode, Up
  <2>2. \A i \in Comp : st'[i] \in {"idle", "started"} /\ st' = st
    BY <1>5, <2>1 DEF AllStarted, OrderInv, Stage
  <2> QED
    BY <2>1, <2>2, StateOf DEF Promise!Serve, Promise!Next
<1>6. CASE LevelFailed
  <2>1. /\ UNCHANGED <<after, st, state>> /\ mode = "boot" /\ mode' = "shutdown"
        /\ pc = "startWait" /\ \A i \in At(k) : st[i] # "starting"
    BY <1>6, StateSame DEF LevelFailed, build, mode
  <2>2. \E i \in Comp : st[i] = "failed"
    BY <1>6 DEF LevelFailed, At, TypeOK
  <2>3. \A i \in Comp : st[i] # "starting"
    BY <2>1, InFlight DEF OrderInv, Stage, At
  <2> QED
    BY <2>1, <2>2, <2>3, StateOf DEF Promise!Close, Promise!Next
<1>7. CASE DrainDelayOver
  <2>1. UNCHANGED <<after, st, state>> /\ mode = "serve" /\ mode' = "shutdown" /\ pc \in Up
    BY <1>7, StateSame DEF DrainDelayOver, build, mode, Up
  <2>2. \A i \in Comp : st[i] # "starting"
    BY <2>1 DEF OrderInv, Stage
  <2> QED
    BY <2>1, <2>2, StateOf DEF Promise!Close, Promise!Next
<1>8. CASE StopLevel
  <2> DEFINE S == {i \in Comps : lvl[i] = k /\ st[i] = "started"}
  <2>1. /\ pc = "stopping" /\ k \in Int /\ UNCHANGED after
        /\ mode = "shutdown" /\ mode' = "shutdown"
    BY <1>8 DEF StopLevel, build, TypeOK, mode
  <2>2. S \in SUBSET Comp
    BY DEF TypeOK
  <2>3. \A j \in Comp : Active(j) => j \in Comps /\ lvl[j] <= k
    BY <2>1, SMTT(30) DEF OrderInv, Stage, TypeOK, Active
  <2>4. \A j \in Comp, i \in S : Active(j) => i \notin after[j]
    BY <2>1, <2>3 DEF OrderInv, Levels, Leveled, TypeOK
  <2>5. state' = [i \in Comp |-> IF i \in S THEN "stopping" ELSE state[i]]
    BY <1>8 DEF StopLevel, state, At, TypeOK
  <2>6. Promise!Halt(S)
    BY <2>1, <2>2, <2>4, <2>5, StateOf DEF Promise!Halt
  <2> QED
    BY <2>2, <2>6 DEF Promise!Next
<1>9. ASSUME NEW i \in Comps, StartOK(i) \/ StartFails(i)
      PROVE  Promise!Next
  <2>1. /\ UNCHANGED <<after, pc, mode>> /\ st[i] = "starting" /\ i \in Comp
        /\ \E s \in {"started", "failed"} : st' = [st EXCEPT ![i] = s]
    BY <1>9, ModeSame, SMTT(30) DEF StartOK, StartFails, build, TypeOK
  <2>2. pc = "startWait"
    BY <2>1, InFlight
  <2>3. \E s \in {"up", "failed"} : state' = [state EXCEPT ![i] = s]
    <3>1. CASE st' = [st EXCEPT ![i] = "started"]
      <4>1. state' = [state EXCEPT ![i] = "up"]
        BY <2>1, <3>1 DEF state, TypeOK
      <4> QED
        BY <4>1
    <3>2. CASE st' = [st EXCEPT ![i] = "failed"]
      <4>1. state' = [state EXCEPT ![i] = "failed"]
        BY <2>1, <3>2 DEF state, TypeOK
      <4> QED
        BY <4>1
    <3> QED
      BY <2>1, <3>1, <3>2
  <2> QED
    BY <2>1, <2>2, <2>3, StateOf DEF Promise!Launched, Promise!Next
<1>10. ASSUME NEW i \in Comps, StopOK(i) \/ StopFails(i)
       PROVE  Promise!Next
  <2>1. /\ UNCHANGED <<after, pc, mode>> /\ st[i] = "stopping" /\ i \in Comp
        /\ \E s \in {"stopped", "stopFailed"} : st' = [st EXCEPT ![i] = s]
    BY <1>10, ModeSame, SMTT(30) DEF StopOK, StopFails, build, TypeOK
  <2>2. pc = "stopWait"
    BY <2>1, InFlight
  <2>3. state' = [state EXCEPT ![i] = "down"]
    BY <2>1 DEF state, TypeOK
  <2> QED
    BY <2>1, <2>2, <2>3, StateOf DEF Promise!Halted, Promise!Next
<1>11. CASE ReturnUnwound \/ ReturnStopped
  <2>1. /\ UNCHANGED <<after, st, state>> /\ mode = "shutdown" /\ mode' = "over"
        /\ pc' = "returned"
    BY <1>11, StateSame DEF ReturnUnwound, ReturnStopped, build, mode
  <2>2. \A i \in Comp : st[i] \notin {"starting", "started", "stopping"}
    BY <2>1 DEF OrderInv, Stage, Active
  <2> QED
    BY <2>1, <2>2, StateOf DEF Promise!End, Promise!Next, Active
<1> QED
  BY <1>1, <1>2, <1>3, <1>4, <1>5, <1>6, <1>7, <1>8, <1>9, <1>10, <1>11, NextCases

(* Package lifecycle implements Supervision: a component starts while what *)
(* it depends on is up, stops when nothing running depends on it, a boot   *)
(* with a failure never serves, and nothing is left when Run returns.      *)
THEOREM LifecycleKeepsPromise == Spec => ImplementsPromise
<1>1. Init => Promise!Init
  BY DEF Init, Promise!Init, mode, state
<1>2. TypeOK /\ Counting /\ OrderInv /\ TypeOK' /\ OrderInv' /\ [Next]_vars
        => [Promise!Next]_(Promise!vars)
  BY RefinementStep
<1> QED
  BY <1>1, <1>2, OrderInvariant, PTL DEF Spec, ImplementsPromise, Promise!Spec

-----------------------------------------------------------------------------
(* What the promise is worth.  A component is never without what it comes  *)
(* after while it runs, in anything that does what Supervision says; that  *)
(* nothing runs before the declarations are complete is part of why.       *)
Undeclared == mode = "declare" => \A i \in Comp : state[i] = "off"

PromiseInv == Promise!TypeOK /\ Undeclared /\ Promise!DependenciesUp

LEMMA PromiseStep ==
    ASSUME PromiseInv, [Promise!Next]_(Promise!vars)
    PROVE  PromiseInv'
<1> USE DEF Promise!TypeOK, Promise!Modes, Promise!States, PromiseInv, Undeclared,
            Promise!DependenciesUp, Promise!Running
<1>1. ASSUME NEW i \in Comp, NEW d \in SUBSET Comp, Promise!Declare(i, d) PROVE PromiseInv'
  BY <1>1 DEF Promise!Declare
<1>2. CASE Promise!Begin
  BY <1>2 DEF Promise!Begin
<1>3. CASE Promise!Serve \/ Promise!Close \/ Promise!End
  BY <1>3 DEF Promise!Serve, Promise!Close, Promise!End
<1>4. ASSUME NEW S \in SUBSET Comp, Promise!Launch(S) PROVE PromiseInv'
  BY <1>4 DEF Promise!Launch
<1>5. ASSUME NEW S \in SUBSET Comp, Promise!Halt(S) PROVE PromiseInv'
  BY <1>5 DEF Promise!Halt
<1>6. ASSUME NEW i \in Comp, Promise!Launched(i) PROVE PromiseInv'
  BY <1>6 DEF Promise!Launched
<1>7. ASSUME NEW i \in Comp, Promise!Halted(i) PROVE PromiseInv'
  BY <1>7 DEF Promise!Halted
<1>8. CASE UNCHANGED Promise!vars
  BY <1>8 DEF Promise!vars
<1> QED
  BY <1>1, <1>2, <1>3, <1>4, <1>5, <1>6, <1>7, <1>8 DEF Promise!Next

(* Supervision keeps the dependencies of whatever runs up.                 *)
THEOREM PromiseKeepsDependenciesUp == Promise!Spec => []Promise!DependenciesUp
<1>1. Promise!Init => PromiseInv
  BY DEF Promise!Init, PromiseInv, Promise!TypeOK, Promise!Modes, Promise!States, Undeclared,
         Promise!DependenciesUp, Promise!Running
<1>2. PromiseInv /\ [Promise!Next]_(Promise!vars) => PromiseInv'
  BY PromiseStep
<1>3. PromiseInv => Promise!DependenciesUp
  BY DEF PromiseInv
<1> QED
  BY <1>1, <1>2, <1>3, PTL DEF Promise!Spec
=============================================================================
