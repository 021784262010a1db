-------------------------- MODULE SandboxPool_proofs --------------------------
(***************************************************************************)
(* Proofs about SandboxPool, for any number of workers and any size of the *)
(* pool.  First the types and the books that tie each client to its        *)
(* sandbox, the list and the phase of the run; then the step simulation of *)
(* ResourcePool, from which exclusive use and the permit arithmetic follow *)
(* by its six actions; then the properties of worktrees and containers.    *)
(***************************************************************************)
EXTENDS SandboxPool, FiniteSetTheorems, TLAPS

Books ==
    /\ \A c \in Client : held[c] # NoBox <=> pc[c] \in InPool
    /\ \A c \in Client : held[c] < made
    /\ \A s \in idle \cup known \cup up \cup ghost \cup dirty \cup stray : s < made
    /\ \A c \in Client : pc[c] \in InPool => phase = ActiveIn(c)

TypedBooks == TypeOK /\ Books

USE DEF TypeOK, Books, InPool, Ended, NoBox, runVars, boxVars, treeVars

LEMMA ActivePhase == \A c \in Client : ActiveIn(c) \in {"setup", "taskgen", "tasks"}
  BY DEF ActiveIn

LEMMA InitTypedBooks == Init => TypedBooks
<1> SUFFICES ASSUME Init PROVE TypedBooks
  OBVIOUS
<1>1. TypeOK
  BY PoolAssumption DEF PoolAssumption, Init, Phases
<1>2. Books
  BY PoolAssumption DEF PoolAssumption, Init
<1> QED
  BY <1>1, <1>2 DEF TypedBooks

(* Giving a sandbox back keeps the types and the books. *)
LEMMA ReleaseTypedBooks ==
  ASSUME TypedBooks, NEW c \in Client, pc[c] \in {"using", "cleaning"}, Release(c),
         dirty' \subseteq dirty \cup {held[c]}, stray' \subseteq stray \cup {held[c]},
         missed' \subseteq missed \cup {held[c]}, UNCHANGED <<runVars, made, boxVars>>,
         hit' \subseteq Client
  PROVE  TypedBooks'
<1> USE DEF TypedBooks
<1>1. held[c] \in Nat /\ held[c] < made
  OBVIOUS
<1>2. /\ pc' = [pc EXCEPT ![c] = "done"] /\ held' = [held EXCEPT ![c] = NoBox]
      /\ idle' = idle \cup {held[c]} /\ permits' = permits + 1
  BY DEF Release
<1>3. TypeOK'
  <2>1. /\ idle' \subseteq Nat /\ dirty' \subseteq Nat
        /\ missed' \subseteq Nat /\ stray' \subseteq Nat
    BY <1>1, <1>2
  <2>2. pc' \in [Client -> {"waiting"} \cup InPool \cup Ended]
    BY <1>2
  <2>3. held' \in [Client -> Nat \cup {NoBox}]
    BY <1>2
  <2> QED
    BY <1>2, <2>1, <2>2, <2>3
<1>4. Books'
  BY <1>1, <1>2
<1> QED
  BY <1>3, <1>4

(* Using a sandbox up to the call that gives it back keeps them too. *)
LEMMA EndUseTypedBooks ==
  ASSUME TypedBooks, NEW c \in Client, pc[c] = "using", EndUse(c),
         dirty' \subseteq dirty \cup {held[c]}, stray' \subseteq stray \cup {held[c]},
         missed' \subseteq missed \cup {held[c]}, UNCHANGED <<runVars, made, boxVars>>,
         hit' \subseteq Client
  PROVE  TypedBooks'
<1>1. CASE c \in Workers
  <2>1. held[c] \in Nat /\ held[c] < made
    BY DEF TypedBooks
  <2> QED
    BY <1>1, <2>1 DEF TypedBooks, EndUse
<1>2. CASE c \notin Workers
  BY <1>2, ReleaseTypedBooks DEF EndUse
<1> QED
  BY <1>1, <1>2

(* A step of one client keeps the types and the books. *)
LEMMA ClientTypedBooks ==
  ASSUME TypedBooks, NEW c \in Client, Progress(c) \/ Cancelled(c)
  PROVE  TypedBooks'
<1> USE DEF TypedBooks
<1>1. CASE AcquireIdle(c)
  BY <1>1 DEF AcquireIdle
<1>2. CASE AcquireCreate(c)
  BY <1>2 DEF AcquireCreate
<1>3. CASE ResetDone(c)
  BY <1>3 DEF ResetDone, CheckedOut
<1>4. CASE ResetRaises(c)
  BY <1>4 DEF ResetRaises, Leak
<1>5. CASE StartDone(c)
  BY <1>5, ZenonT(60) DEF StartDone
<1>6. CASE StartRaises(c)
  BY <1>6 DEF StartRaises, CreateFails
<1>7. CASE InitDone(c)
  BY <1>7 DEF InitDone
<1>8. CASE InitRaises(c)
  BY <1>8 DEF InitRaises, CreateFails
<1>9. CASE FinishUse(c)
  BY <1>9, EndUseTypedBooks DEF FinishUse, Worked
<1>10. CASE CleanupDone(c)
  BY <1>10, ReleaseTypedBooks DEF CleanupDone, CheckedOut
<1>11. CASE CleanupRaises(c)
  BY <1>11 DEF CleanupRaises, Leak
<1>12. CASE CancelWaiting(c)
  BY <1>12 DEF CancelWaiting
<1>13. CASE CancelCreating(c)
  <2>1. held[c] \in Nat /\ held[c] < made /\ pc[c] \in {"starting", "initializing"}
    BY <1>13 DEF CancelCreating
  <2>2. ghost' = ghost \/ ghost' = ghost \cup {held[c]}
    BY <1>13 DEF CancelCreating
  <2>3. /\ permits' = permits + 1 /\ hit' = hit \cup {c}
        /\ pc' = [pc EXCEPT ![c] = "failed"] /\ held' = [held EXCEPT ![c] = NoBox]
        /\ UNCHANGED <<runVars, idle, made, known, treeVars, up>>
    BY <1>13 DEF CancelCreating, CreateFails
  <2>4. TypeOK'
    <3>1. ghost' \subseteq Nat
      BY <2>1, <2>2
    <3>2. pc' \in [Client -> {"waiting"} \cup InPool \cup Ended]
      BY <2>3
    <3>3. held' \in [Client -> Nat \cup {NoBox}]
      BY <2>3
    <3> QED
      BY <2>3, <3>1, <3>2, <3>3
  <2>5. Books'
    BY <2>1, <2>2, <2>3
  <2> QED
    BY <2>4, <2>5
<1>14. CASE CancelUsing(c)
  BY <1>14, EndUseTypedBooks DEF CancelUsing, Worked
<1>15. CASE CancelCheckout(c)
  BY <1>15 DEF CancelCheckout, Leak
<1> QED
  BY <1>1, <1>2, <1>3, <1>4, <1>5, <1>6, <1>7, <1>8, <1>9, <1>10, <1>11, <1>12,
     <1>13, <1>14, <1>15 DEF Progress, Cancelled

(* The steps of the run itself and of abandoned threads keep them as well. *)
LEMMA RunTypedBooks ==
  ASSUME TypedBooks, CancelRun \/ RunStep \/ Background
  PROVE  TypedBooks'
<1> USE ActivePhase DEF TypedBooks, Phases
<1>1. CASE CancelRun
  <2>1. TypeOK'
    BY <1>1 DEF CancelRun
  <2>2. \A c \in Client : pc[c] \in InPool => phase # "teardown"
    OBVIOUS
  <2>3. UNCHANGED <<pc, held, made, idle, boxVars, treeVars>>
    BY <1>1 DEF CancelRun
  <2>4. phase # "teardown" => phase' = phase
    BY <1>1 DEF CancelRun
  <2>5. \A c \in Client : ActiveIn(c)' = ActiveIn(c)
    BY DEF ActiveIn
  <2>6. \A c \in Client : pc'[c] \in InPool => phase' = ActiveIn(c)
    BY <2>2, <2>3, <2>4
  <2> QED
    BY <2>1, <2>3, <2>5, <2>6
<1>2. CASE PhaseEnds
  BY <1>2 DEF PhaseEnds, NextPhase
<1>3. CASE DestroyNext
  <2>1. known' \subseteq known /\ up' \subseteq up /\ gone' = gone + 1
    BY <1>3 DEF DestroyNext
  <2>2. UNCHANGED <<faults, phase, cancelled, hit, permits, idle, made, pc, held, ghost, treeVars>>
    BY <1>3 DEF DestroyNext
  <2>3. \A c \in Client : ActiveIn(c)' = ActiveIn(c)
    BY DEF ActiveIn
  <2> QED
    BY <2>1, <2>2, <2>3
<1>4. CASE DestroyEnds
  BY <1>4 DEF DestroyEnds
<1>5. CASE Background
  BY <1>5 DEF Background, GhostEnds, StrayEdits
<1> QED
  BY <1>1, <1>2, <1>3, <1>4, <1>5 DEF RunStep

LEMMA TypedBooksInvariant == Spec => []TypedBooks
<1>1. Init => TypedBooks
  BY InitTypedBooks
<1>2. TypedBooks /\ [Next]_vars => TypedBooks'
  <2>1. TypedBooks /\ UNCHANGED vars => TypedBooks'
    BY DEF TypedBooks, vars
  <2> QED
    BY <2>1, ClientTypedBooks, RunTypedBooks DEF Next
<1> QED
  BY <1>1, <1>2, PTL DEF Spec

(* The state of the pool stays well typed; in particular the semaphore     *)
(* never goes below zero and the idle queue never holds anything but a     *)
(* sandbox of the list (pool.py:17-47).                                     *)
THEOREM TypeCorrect == Spec => []TypeOK
<1>1. TypedBooks => TypeOK
  BY DEF TypedBooks
<1> QED
  BY <1>1, TypedBooksInvariant, PTL
-------------------------------------------------------------------------------
(* The simulation of ResourcePool. *)
stageMap == [x \in Client |-> Stage(pc[x])]

LEMMA StageStep ==
  ASSUME TypeOK, NEW c \in Client, NEW at, pc' = [pc EXCEPT ![c] = at]
  PROVE  stageMap' = [stageMap EXCEPT ![c] = Stage(at)]
BY DEF stageMap

LEMMA Stages ==
  /\ Stage("waiting") = "out" /\ Stage("done") = "back"
  /\ Stage("failed") = "failed" /\ Stage("leaked") = "lost"
  /\ \A at \in InPool : Stage(at) = "in"
BY DEF Stage

LEMMA ClientSimulates ==
  ASSUME TypedBooks, NEW c \in Client, Progress(c) \/ Cancelled(c)
  PROVE  RP!RPNext \/ UNCHANGED RP!rpVars
<1> USE DEF TypedBooks
<1>0. /\ stageMap[c] = Stage(pc[c])
      /\ \A at : pc' = [pc EXCEPT ![c] = at] => stageMap' = [stageMap EXCEPT ![c] = Stage(at)]
  BY StageStep DEF stageMap
<1>1. CASE AcquireIdle(c)
  <2>1. RP!Take(c)
    BY <1>0, <1>1, Stages DEF AcquireIdle, RP!Take, RP!Enter, stageMap
  <2> QED
    BY <2>1 DEF RP!RPNext
<1>2. CASE AcquireCreate(c)
  <2>1. RP!Make(c)
    BY <1>0, <1>2, Stages DEF AcquireCreate, RP!Make, RP!Enter, stageMap
  <2> QED
    BY <2>1 DEF RP!RPNext
<1>3. CASE ResetRaises(c) \/ CleanupRaises(c) \/ CancelCheckout(c)
  <2>1. RP!Lose(c)
    BY <1>0, <1>3, Stages
       DEF ResetRaises, CleanupRaises, CancelCheckout, Leak, RP!Lose, RP!Leave, stageMap
  <2> QED
    BY <2>1 DEF RP!RPNext
<1>4. CASE StartRaises(c) \/ InitRaises(c) \/ CancelCreating(c)
  <2>1. RP!Abandon(c)
    BY <1>0, <1>4, Stages
       DEF StartRaises, InitRaises, CancelCreating, CreateFails, RP!Abandon, RP!Leave, stageMap
  <2> QED
    BY <2>1 DEF RP!RPNext
<1>5. CASE CancelWaiting(c)
  <2>1. RP!Quit(c)
    BY <1>0, <1>5, Stages DEF CancelWaiting, RP!Quit, stageMap
  <2> QED
    BY <2>1 DEF RP!RPNext
<1>6. CASE ResetDone(c) \/ StartDone(c) \/ InitDone(c)
  <2>1. stageMap' = stageMap
    BY <1>0, <1>6, Stages DEF ResetDone, StartDone, InitDone, stageMap
  <2> QED
    BY <1>6, <2>1 DEF ResetDone, StartDone, InitDone, RP!rpVars, stageMap
<1>7. ASSUME Release(c), pc[c] \in {"using", "cleaning"}, made' = made
      PROVE  RP!RPNext
  <2>1. RP!Return(c)
    BY <1>0, <1>7, Stages DEF Release, RP!Return, RP!Leave, stageMap
  <2> QED
    BY <2>1 DEF RP!RPNext
<1>8. CASE CleanupDone(c)
  BY <1>7, <1>8 DEF CleanupDone
<1>9. CASE FinishUse(c) \/ CancelUsing(c)
  <2>1. pc[c] = "using" /\ EndUse(c) /\ made' = made
    BY <1>9 DEF FinishUse, CancelUsing
  <2>2. CASE c \in Workers
    <3>1. stageMap' = stageMap
      BY <1>0, <2>1, <2>2, Stages DEF EndUse, stageMap
    <3> QED
      BY <2>1, <2>2, <3>1 DEF EndUse, RP!rpVars, stageMap
  <2>3. CASE c \notin Workers
    BY <1>7, <2>1, <2>3 DEF EndUse
  <2> QED
    BY <2>2, <2>3
<1> QED
  BY <1>1, <1>2, <1>3, <1>4, <1>5, <1>6, <1>8, <1>9 DEF Progress, Cancelled

LEMMA StepSimulates == TypedBooks /\ [Next]_vars => [RP!RPNext]_(RP!rpVars)
<1> SUFFICES ASSUME TypedBooks, [Next]_vars PROVE RP!RPNext \/ UNCHANGED RP!rpVars
  OBVIOUS
<1>1. CASE \E c \in Client : Progress(c) \/ Cancelled(c)
  BY <1>1, ClientSimulates
<1>2. CASE CancelRun \/ RunStep \/ Background
  BY <1>2 DEF CancelRun, RunStep, PhaseEnds, DestroyNext, DestroyEnds, Background, GhostEnds, StrayEdits, RP!rpVars
<1>3. CASE UNCHANGED vars
  BY <1>3 DEF vars, RP!rpVars
<1> QED
  BY <1>1, <1>2, <1>3 DEF Next

(* The pool implements ResourcePool (pool.py:32-47, isolation.py:56-58): no *)
(* interleaving of its clients, failure or cancellation takes it outside   *)
(* the six steps of the abstract pool.                                      *)
THEOREM Implementation == Spec => ImplementsResourcePool
<1>1. Init => RP!RPInit
  BY Stages DEF Init, RP!RPInit
<1>2. TypedBooks /\ [Next]_vars => [RP!RPNext]_(RP!rpVars)
  BY StepSimulates
<1> QED
  BY <1>1, <1>2, TypedBooksInvariant, PTL DEF Spec, ImplementsResourcePool, RP!RPSpec
-------------------------------------------------------------------------------
(* Exclusive use and the permit arithmetic, by the six actions of ResourcePool. *)
AbstractStep(c) == RP!Take(c) \/ RP!Make(c) \/ RP!Return(c)
                   \/ RP!Abandon(c) \/ RP!Lose(c) \/ RP!Quit(c)

LEMMA AbstractSteps ==
  ASSUME TypedBooks, [Next]_vars
  PROVE  \/ \E c \in Client : AbstractStep(c)
         \/ UNCHANGED <<stageMap, held, permits, idle, made>>
BY StepSimulates DEF RP!RPNext, RP!rpVars, AbstractStep, stageMap

(* No sandbox is ever with two clients, or with a client and idle *)
(* (pool.py:32-47).                                                *)
THEOREM Exclusive == Spec => []ExclusiveUse
<1>1. Init => ExclusiveUse
  BY DEF Init, ExclusiveUse
<1>2. TypedBooks /\ TypedBooks' /\ ExclusiveUse /\ [Next]_vars => ExclusiveUse'
  <2> SUFFICES ASSUME TypedBooks, ExclusiveUse, [Next]_vars PROVE ExclusiveUse'
    OBVIOUS
  <2> USE DEF ExclusiveUse, TypedBooks
  <2>1. CASE UNCHANGED <<stageMap, held, permits, idle, made>>
    BY <2>1
  <2>2. ASSUME NEW c \in Client, AbstractStep(c) PROVE ExclusiveUse'
    <3>1. CASE RP!Take(c)
      BY <3>1 DEF RP!Take, RP!Enter
    <3>2. CASE RP!Make(c)
      BY <3>2 DEF RP!Make, RP!Enter
    <3>3. CASE RP!Return(c) \/ RP!Abandon(c) \/ RP!Lose(c)
      BY <3>3 DEF RP!Return, RP!Abandon, RP!Lose, RP!Leave
    <3>4. CASE RP!Quit(c)
      BY <3>4 DEF RP!Quit
    <3> QED
      BY <2>2, <3>1, <3>2, <3>3, <3>4 DEF AbstractStep
  <2> QED
    BY <2>1, <2>2, AbstractSteps
<1> QED
  BY <1>1, <1>2, TypedBooksInvariant, PTL DEF Spec

Inside == {c \in Client : stageMap[c] \in {"in", "lost"}}
Quitted == {c \in Client : stageMap[c] = "failed"}

LEMMA InsideIsOccupying ==
  TypeOK => Inside = Occupying /\ Quitted = Failing
BY DEF Inside, Quitted, Occupying, Failing, stageMap, Stage

LEMMA FiniteClients == IsFiniteSet(Client)
<1>1. IsFiniteSet({Setup}) /\ IsFiniteSet({TaskGen})
  BY FS_Singleton
<1>2. IsFiniteSet({Setup} \cup {TaskGen} \cup Workers)
  BY <1>1, FS_Union, PoolAssumption DEF PoolAssumption
<1> QED
  BY <1>2 DEF Client

(* The arithmetic invariant: every permit is in the counter or with an     *)
(* occupying client, sandboxes idle or with such clients fit in the pool,  *)
(* and the list is longer than that only by the failed creations.          *)
Arithmetic ==
    /\ permits + Cardinality(Inside) = MaxSize
    /\ Cardinality(idle) + Cardinality(Inside) <= MaxSize
    /\ made <= Cardinality(idle) + Cardinality(Inside) + Cardinality(Quitted)

LEMMA Finite ==
  ASSUME TypedBooks
  PROVE  /\ IsFiniteSet(Inside) /\ IsFiniteSet(Quitted) /\ IsFiniteSet(idle)
         /\ Cardinality(Inside) \in Nat /\ Cardinality(Quitted) \in Nat
         /\ Cardinality(idle) \in Nat
<1>1. Inside \subseteq Client /\ Quitted \subseteq Client
  BY DEF Inside, Quitted
<1>2. idle \subseteq 0..(made - 1)
  BY DEF TypedBooks
<1>3. IsFiniteSet(0..(made - 1))
  BY FS_Interval DEF TypedBooks
<1>4. IsFiniteSet(Inside) /\ IsFiniteSet(Quitted) /\ IsFiniteSet(idle)
  BY <1>1, <1>2, <1>3, FiniteClients, FS_Subset
<1> QED
  BY <1>4, FS_CardinalityType

LEMMA ArithmeticStep ==
  ASSUME TypedBooks, ExclusiveUse, Arithmetic, NEW c \in Client, AbstractStep(c)
  PROVE  Arithmetic'
<1> USE Finite DEF TypedBooks
<1>0. stageMap \in [Client -> {"out", "in", "back", "failed", "lost"}]
  BY DEF stageMap, Stage
<1>1. CASE RP!Take(c)
  <2>1. PICK s \in idle : idle' = idle \ {s}
    BY <1>1 DEF RP!Take
  <2>2. Inside' = Inside \cup {c} /\ c \notin Inside /\ Quitted' = Quitted
    BY <1>0, <1>1 DEF RP!Take, RP!Enter, Inside, Quitted, stageMap
  <2>3. Cardinality(Inside') = Cardinality(Inside) + 1
    BY <2>2, FS_AddElement
  <2>4. Cardinality(idle') = Cardinality(idle) - 1
    BY <2>1, FS_RemoveElement
  <2>5. permits' = permits - 1 /\ made' = made
    BY <1>1 DEF RP!Take, RP!Enter
  <2> QED
    BY <2>2, <2>3, <2>4, <2>5, PoolAssumption DEF Arithmetic, PoolAssumption
<1>2. CASE RP!Make(c)
  <2>1. permits > 0 /\ permits' = permits - 1 /\ made' = made + 1 /\ idle = {} /\ idle' = idle
    BY <1>2 DEF RP!Make, RP!Enter
  <2>2. Inside' = Inside \cup {c} /\ c \notin Inside /\ Quitted' = Quitted
    BY <1>0, <1>2 DEF RP!Make, RP!Enter, Inside, Quitted, stageMap
  <2>3. Cardinality(Inside') = Cardinality(Inside) + 1 /\ Cardinality(idle) = 0
    BY <2>1, <2>2, FS_AddElement, FS_EmptySet
  <2> QED
    BY <2>1, <2>2, <2>3, PoolAssumption DEF Arithmetic, PoolAssumption
<1>3. CASE RP!Return(c)
  <2>1. held[c] \notin idle
    BY <1>0, <1>3 DEF RP!Return, RP!Leave, ExclusiveUse, stageMap, Stage
  <2>2. Inside' = Inside \ {c} /\ c \in Inside /\ Quitted' = Quitted
    BY <1>0, <1>3 DEF RP!Return, RP!Leave, Inside, Quitted, stageMap
  <2>3. Cardinality(Inside') = Cardinality(Inside) - 1
    BY <2>2, FS_RemoveElement
  <2>4. idle' = idle \cup {held[c]} /\ permits' = permits + 1 /\ made' = made
    BY <1>3 DEF RP!Return, RP!Leave
  <2>5. Cardinality(idle') = Cardinality(idle) + 1
    BY <2>1, <2>4, FS_AddElement
  <2> QED
    BY <2>2, <2>3, <2>4, <2>5, PoolAssumption DEF Arithmetic, PoolAssumption
<1>4. CASE RP!Abandon(c)
  <2>1. idle' = idle /\ permits' = permits + 1 /\ made' = made
    BY <1>4 DEF RP!Abandon, RP!Leave
  <2>2. /\ Inside' = Inside \ {c} /\ c \in Inside
        /\ Quitted' = Quitted \cup {c} /\ c \notin Quitted
    BY <1>0, <1>4 DEF RP!Abandon, RP!Leave, Inside, Quitted, stageMap
  <2>3. Cardinality(Inside') = Cardinality(Inside) - 1
    BY <2>2, FS_RemoveElement
  <2>4. Cardinality(Quitted') = Cardinality(Quitted) + 1
    BY <2>2, FS_AddElement
  <2> QED
    BY <2>1, <2>3, <2>4, PoolAssumption DEF Arithmetic, PoolAssumption
<1>5. CASE RP!Lose(c)
  <2>1. Inside' = Inside /\ Quitted' = Quitted
    BY <1>0, <1>5 DEF RP!Lose, RP!Leave, Inside, Quitted, stageMap
  <2> QED
    BY <1>5, <2>1 DEF RP!Lose, RP!Leave, Arithmetic
<1>6. CASE RP!Quit(c)
  <2>1. Inside' = Inside /\ Quitted' = Quitted \cup {c} /\ c \notin Quitted
    BY <1>0, <1>6 DEF RP!Quit, Inside, Quitted, stageMap
  <2>2. Cardinality(Quitted') = Cardinality(Quitted) + 1
    BY <2>1, FS_AddElement
  <2> QED
    BY <1>6, <2>1, <2>2, PoolAssumption DEF RP!Quit, Arithmetic, PoolAssumption
<1> QED
  BY <1>1, <1>2, <1>3, <1>4, <1>5, <1>6 DEF AbstractStep

LEMMA ArithmeticInvariant == Spec => []Arithmetic
<1>1. Init => Arithmetic
  <2> SUFFICES ASSUME Init PROVE Arithmetic
    OBVIOUS
  <2>1. Inside = {} /\ Quitted = {} /\ idle = {} /\ made = 0 /\ permits = MaxSize
    BY Stages DEF Init, Inside, Quitted, stageMap
  <2> QED
    BY <2>1, FS_EmptySet, PoolAssumption DEF Arithmetic, PoolAssumption
<1>2. TypedBooks /\ ExclusiveUse /\ Arithmetic /\ [Next]_vars => Arithmetic'
  <2> SUFFICES ASSUME TypedBooks, ExclusiveUse, Arithmetic, [Next]_vars PROVE Arithmetic'
    OBVIOUS
  <2>1. CASE UNCHANGED <<stageMap, held, permits, idle, made>>
    BY <2>1 DEF Arithmetic, Inside, Quitted
  <2> QED
    BY <2>1, AbstractSteps, ArithmeticStep
<1> QED
  BY <1>1, <1>2, TypedBooksInvariant, Exclusive, PTL DEF Spec

(* The semaphore is exact (pool.py:38-47): permits in the counter, with the *)
(* clients inside and lost with a raising reset or cleanup add up to        *)
(* max_size.                                                                *)
THEOREM PermitsAddUp == Spec => []PermitAccounting
<1>1. TypedBooks /\ Arithmetic => PermitAccounting
  BY InsideIsOccupying DEF TypedBooks, Arithmetic, PermitAccounting
<1> QED
  BY <1>1, TypedBooksInvariant, ArithmeticInvariant, PTL

(* The engine never holds more than max_size containers and one for every  *)
(* failed creation (pool.py:38-43, 61).                                     *)
THEOREM ContainersBounded == Spec => []ContainerBound
<1>1. TypedBooks /\ Arithmetic => ContainerBound
  <2> SUFFICES ASSUME TypedBooks, Arithmetic PROVE ContainerBound
    OBVIOUS
  <2> DEFINE listed == 0..(made - 1)
  <2>1. up \in SUBSET listed
    BY DEF TypedBooks
  <2>2. IsFiniteSet(listed) /\ Cardinality(listed) = made
    BY FS_Interval DEF TypedBooks
  <2> HIDE DEF listed
  <2>3. Cardinality(up) <= made /\ IsFiniteSet(up)
    BY <2>1, <2>2, FS_Subset
  <2>4. Cardinality(up) \in Nat
    BY <2>3, FS_CardinalityType
  <2>5. Cardinality(Failing) = Cardinality(Quitted)
    BY InsideIsOccupying DEF TypedBooks
  <2>6. made <= MaxSize + Cardinality(Quitted)
    BY Finite, PoolAssumption DEF Arithmetic, PoolAssumption, TypedBooks
  <2>7. Cardinality(Quitted) \in Nat /\ made \in Nat /\ MaxSize \in Nat
    BY Finite, PoolAssumption DEF PoolAssumption, TypedBooks
  <2> QED
    BY <2>3, <2>4, <2>5, <2>6, <2>7 DEF ContainerBound
<1> QED
  BY <1>1, TypedBooksInvariant, ArithmeticInvariant, PTL
-------------------------------------------------------------------------------
(* Worktrees: what CleanStart says of a sandbox in use holds from its creation. *)
CleanHeld ==
    \A c \in Client :
        pc[c] \in {"starting", "initializing", "using"} /\ held[c] \in dirty
            => held[c] \in missed \cup stray

LEMMA CleanHeldStep ==
  ASSUME TypedBooks, ExclusiveUse, CleanHeld, NEW c \in Client, Progress(c) \/ Cancelled(c)
  PROVE  CleanHeld'
<1> USE DEF TypedBooks, ExclusiveUse, CleanHeld
<1>1. CASE AcquireIdle(c)
  BY <1>1 DEF AcquireIdle
<1>2. CASE AcquireCreate(c)
  BY <1>2 DEF AcquireCreate
<1>3. CASE ResetDone(c)
  BY <1>3 DEF ResetDone, CheckedOut
<1>4. CASE ResetRaises(c)
  BY <1>4 DEF ResetRaises, Leak
<1>5. CASE StartDone(c)
  BY <1>5 DEF StartDone
<1>6. CASE StartRaises(c)
  BY <1>6 DEF StartRaises, CreateFails
<1>7. CASE InitDone(c)
  BY <1>7 DEF InitDone
<1>8. CASE InitRaises(c)
  BY <1>8 DEF InitRaises, CreateFails
<1>9. CASE FinishUse(c)
  BY <1>9 DEF FinishUse, Worked, EndUse, Release
<1>10. CASE CleanupDone(c)
  BY <1>10 DEF CleanupDone, CheckedOut, Release
<1>11. CASE CleanupRaises(c)
  BY <1>11 DEF CleanupRaises, Leak
<1>12. CASE CancelWaiting(c)
  BY <1>12 DEF CancelWaiting
<1>13. CASE CancelCreating(c)
  BY <1>13 DEF CancelCreating, CreateFails
<1>14. CASE CancelUsing(c)
  BY <1>14 DEF CancelUsing, Worked, EndUse, Release
<1>15. CASE CancelCheckout(c)
  BY <1>15 DEF CancelCheckout, Leak
<1> QED
  BY <1>1, <1>2, <1>3, <1>4, <1>5, <1>6, <1>7, <1>8, <1>9, <1>10, <1>11, <1>12, <1>13, <1>14, <1>15
     DEF Progress, Cancelled

(* Unstaged changes of an earlier user are found only where the last git   *)
(* checkout of that sandbox failed or a command was left running there      *)
(* (pool.py:34-37, isolation.py:56-58).                                      *)
THEOREM ChangesOfOthers == Spec => []CleanStart
<1>1. Init => CleanHeld
  BY DEF Init, CleanHeld
<1>2. TypedBooks /\ ExclusiveUse /\ CleanHeld /\ [Next]_vars => CleanHeld'
  <2> SUFFICES ASSUME TypedBooks, ExclusiveUse, CleanHeld, [Next]_vars PROVE CleanHeld'
    OBVIOUS
  <2>1. CASE CancelRun \/ RunStep \/ UNCHANGED vars
    <3>1. UNCHANGED <<pc, held, treeVars>>
      BY <2>1 DEF CancelRun, RunStep, PhaseEnds, DestroyNext, DestroyEnds, vars
    <3> QED
      BY <3>1 DEF CleanHeld
  <2>2. CASE Background
    BY <2>2 DEF CleanHeld, Background, GhostEnds, StrayEdits
  <2> QED
    BY <2>1, <2>2, CleanHeldStep DEF Next
<1>3. CleanHeld => CleanStart
  BY DEF CleanHeld, CleanStart
<1> QED
  BY <1>1, <1>2, <1>3, TypedBooksInvariant, Exclusive, PTL DEF Spec

-------------------------------------------------------------------------------
(* Containers: what a client holds past its start, and what is idle before *)
(* the teardown, is up and known.                                          *)
Torn == {"teardown", "destroyed"}

Standing == InUseIsUp /\ (phase \notin Torn => idle \subseteq up \cap known)

LEMMA StandingClient ==
  ASSUME TypedBooks, Standing, NEW c \in Client, Progress(c) \/ Cancelled(c)
  PROVE  Standing'
<1> USE ActivePhase DEF TypedBooks, Standing, InUseIsUp, Torn
<1>1. CASE AcquireIdle(c)
  BY <1>1 DEF AcquireIdle
<1>2. CASE AcquireCreate(c)
  BY <1>2 DEF AcquireCreate
<1>3. CASE ResetDone(c)
  BY <1>3 DEF ResetDone, CheckedOut
<1>4. CASE ResetRaises(c)
  BY <1>4 DEF ResetRaises, Leak
<1>5. CASE StartDone(c)
  BY <1>5 DEF StartDone
<1>6. CASE StartRaises(c)
  BY <1>6 DEF StartRaises, CreateFails
<1>7. CASE InitDone(c)
  BY <1>7 DEF InitDone
<1>8. CASE InitRaises(c)
  BY <1>8 DEF InitRaises, CreateFails
<1>9. CASE FinishUse(c)
  <2>1. pc[c] = "using" /\ EndUse(c) /\ UNCHANGED <<phase, known, up>>
    BY <1>9 DEF FinishUse
  <2>2. CASE c \in Workers
    BY <2>1, <2>2 DEF EndUse
  <2>3. CASE c \notin Workers
    <3>1. /\ idle' = idle \cup {held[c]} /\ pc' = [pc EXCEPT ![c] = "done"]
          /\ held' = [held EXCEPT ![c] = NoBox]
      BY <2>1, <2>3 DEF EndUse, Release
    <3>2. held[c] \in up \cap known
      BY <2>1
    <3>3. InUseIsUp'
      BY <2>1, <3>1
    <3> QED
      BY <2>1, <3>1, <3>2, <3>3
  <2> QED
    BY <2>2, <2>3
<1>10. CASE CleanupDone(c)
  BY <1>10 DEF CleanupDone, CheckedOut, Release
<1>11. CASE CleanupRaises(c)
  BY <1>11 DEF CleanupRaises, Leak
<1>12. CASE CancelWaiting(c)
  BY <1>12 DEF CancelWaiting
<1>13. CASE CancelCreating(c)
  BY <1>13 DEF CancelCreating, CreateFails
<1>14. CASE CancelUsing(c)
  <2>1. pc[c] = "using" /\ EndUse(c) /\ UNCHANGED <<phase, known, up>>
    BY <1>14 DEF CancelUsing
  <2>2. CASE c \in Workers
    BY <2>1, <2>2 DEF EndUse
  <2>3. CASE c \notin Workers
    <3>1. /\ idle' = idle \cup {held[c]} /\ pc' = [pc EXCEPT ![c] = "done"]
          /\ held' = [held EXCEPT ![c] = NoBox]
      BY <2>1, <2>3 DEF EndUse, Release
    <3>2. held[c] \in up \cap known
      BY <2>1
    <3>3. InUseIsUp'
      BY <2>1, <3>1
    <3> QED
      BY <2>1, <3>1, <3>2, <3>3
  <2> QED
    BY <2>2, <2>3
<1>15. CASE CancelCheckout(c)
  BY <1>15 DEF CancelCheckout, Leak
<1> QED
  BY <1>1, <1>2, <1>3, <1>4, <1>5, <1>6, <1>7, <1>8, <1>9, <1>10, <1>11, <1>12, <1>13, <1>14, <1>15
     DEF Progress, Cancelled

LEMMA StandingRun ==
  ASSUME TypedBooks, Standing, CancelRun \/ RunStep \/ Background
  PROVE  Standing'
<1> USE ActivePhase DEF TypedBooks, Standing, InUseIsUp, Torn
<1>1. CASE CancelRun
  BY <1>1 DEF CancelRun
<1>2. CASE PhaseEnds
  BY <1>2 DEF PhaseEnds
<1>3. CASE DestroyNext
  <2>1. \A d \in Client : pc[d] \notin InPool
    BY <1>3 DEF DestroyNext
  <2> QED
    BY <1>3, <2>1 DEF DestroyNext
<1>4. CASE DestroyEnds
  BY <1>4 DEF DestroyEnds
<1>5. CASE Background
  BY <1>5 DEF Background, GhostEnds, StrayEdits
<1> QED
  BY <1>1, <1>2, <1>3, <1>4, <1>5 DEF RunStep

LEMMA StandingInvariant == Spec => []Standing
<1>1. Init => Standing
  BY DEF Init, Standing, InUseIsUp
<1>2. TypedBooks /\ Standing /\ [Next]_vars => Standing'
  <2>1. Standing /\ UNCHANGED vars => Standing'
    BY DEF Standing, InUseIsUp, vars
  <2> QED
    BY <2>1, StandingClient, StandingRun DEF Next
<1> QED
  BY <1>1, <1>2, TypedBooksInvariant, PTL DEF Spec

(* The container of a sandbox somebody works in is never destroyed under   *)
(* its user (orchestrator.py:359-360, pool.py:67-73).                       *)
THEOREM UsersHaveContainers == Spec => []InUseIsUp
<1>1. Standing => InUseIsUp
  BY DEF Standing
<1> QED
  BY <1>1, StandingInvariant, PTL

(* What destroy_all has passed is gone, if nothing it cannot see was made. *)
Passed ==
    /\ gone <= made /\ (phase \notin Torn => gone = 0)
    /\ "cancel" \notin faults => ~cancelled /\ ghost = {}
    /\ faults \cap {"start", "destroy", "cancel"} = {} =>
           /\ up \subseteq known /\ \A s \in up : gone <= s
           /\ phase = "destroyed" => gone = made

LEMMA PassedClient ==
  ASSUME TypedBooks, Passed, NEW c \in Client, Progress(c) \/ Cancelled(c)
  PROVE  Passed'
<1> USE ActivePhase DEF TypedBooks, Passed, Torn
<1>1. CASE AcquireIdle(c)
  BY <1>1 DEF AcquireIdle
<1>2. CASE AcquireCreate(c)
  BY <1>2 DEF AcquireCreate
<1>3. CASE ResetDone(c)
  BY <1>3 DEF ResetDone, CheckedOut
<1>4. CASE ResetRaises(c)
  BY <1>4 DEF ResetRaises, Leak
<1>5. CASE StartDone(c)
  <2>1. gone = 0 /\ held[c] \in Nat
    BY <1>5 DEF StartDone
  <2>2. up' = up \cup {held[c]} /\ known' = known \cup {held[c]} /\ ghost' = ghost
    BY <1>5 DEF StartDone
  <2>3. UNCHANGED <<faults, phase, cancelled, gone, made>>
    BY <1>5 DEF StartDone
  <2>4. \A s \in up' : gone' <= s
    BY <2>1, <2>2, <2>3
  <2> QED
    BY <2>2, <2>3, <2>4
<1>6. CASE StartRaises(c)
  BY <1>6 DEF StartRaises, CreateFails
<1>7. CASE InitDone(c)
  BY <1>7 DEF InitDone
<1>8. CASE InitRaises(c)
  BY <1>8 DEF InitRaises, CreateFails
<1>9. CASE FinishUse(c)
  BY <1>9 DEF FinishUse, EndUse, Release
<1>10. CASE CleanupDone(c)
  BY <1>10 DEF CleanupDone, CheckedOut, Release
<1>11. CASE CleanupRaises(c)
  BY <1>11 DEF CleanupRaises, Leak
<1>12. CASE CancelWaiting(c)
  BY <1>12 DEF CancelWaiting
<1>13. CASE CancelCreating(c)
  <2>1. "cancel" \in faults
    BY <1>13 DEF CancelCreating, Deliverable
  <2>2. UNCHANGED <<faults, phase, gone, made>>
    BY <1>13 DEF CancelCreating, CreateFails
  <2> QED
    BY <2>1, <2>2
<1>14. CASE CancelUsing(c)
  BY <1>14 DEF CancelUsing, EndUse, Release
<1>15. CASE CancelCheckout(c)
  BY <1>15 DEF CancelCheckout, Leak
<1> QED
  BY <1>1, <1>2, <1>3, <1>4, <1>5, <1>6, <1>7, <1>8, <1>9, <1>10, <1>11, <1>12, <1>13, <1>14, <1>15
     DEF Progress, Cancelled

LEMMA PassedRun ==
  ASSUME TypedBooks, Passed, CancelRun \/ RunStep \/ Background
  PROVE  Passed'
<1> USE DEF TypedBooks, Passed, Torn
<1>1. CASE CancelRun
  <2>1. "cancel" \in faults
    BY <1>1 DEF CancelRun
  <2>2. UNCHANGED <<faults, gone, made>> /\ (phase' \notin Torn => phase \notin Torn)
    BY <1>1 DEF CancelRun
  <2> QED
    BY <2>1, <2>2
<1>2. CASE PhaseEnds
  <2>1. UNCHANGED <<faults, cancelled, gone, made, known, up, ghost>>
    BY <1>2 DEF PhaseEnds
  <2>2. phase \notin Torn /\ phase' # "destroyed"
    BY <1>2 DEF PhaseEnds, NextPhase
  <2> QED
    BY <2>1, <2>2
<1>3. CASE DestroyNext
  <2>1. gone < made /\ gone' = gone + 1 /\ known' \subseteq known /\ up' \subseteq up
    BY <1>3 DEF DestroyNext
  <2>2. UNCHANGED <<faults, phase, cancelled, made, ghost>> /\ phase = "teardown"
    BY <1>3 DEF DestroyNext
  <2>3. ASSUME faults \cap {"start", "destroy", "cancel"} = {}
        PROVE  up' \subseteq known' /\ \A s \in up' : gone' <= s
    <3>1. gone \notin up'
      BY <1>3, <2>3 DEF DestroyNext
    <3>2. \A s \in up' : s \in Nat /\ gone <= s /\ s # gone
      BY <2>1, <2>3, <3>1
    <3>3. up' \subseteq known'
      BY <1>3, <2>3 DEF DestroyNext
    <3> QED
      BY <2>1, <3>2, <3>3
  <2> QED
    BY <2>1, <2>2, <2>3
<1>4. CASE DestroyEnds
  BY <1>4 DEF DestroyEnds
<1>5. CASE Background
  <2>1. CASE \E s \in ghost : GhostEnds(s)
    BY <2>1 DEF GhostEnds
  <2>2. CASE \E s \in stray : StrayEdits(s)
    <3>1. UNCHANGED <<faults, phase, cancelled, gone, made, known, up, ghost>>
      BY <2>2 DEF StrayEdits
    <3> QED
      BY <3>1
  <2> QED
    BY <1>5, <2>1, <2>2 DEF Background
<1> QED
  BY <1>1, <1>2, <1>3, <1>4, <1>5 DEF RunStep

(* A run without failed starts, failed removals and cancellation leaves no *)
(* container behind, whatever else failed in it (pool.py:56-73).            *)
THEOREM NothingLeft == Spec => []NoContainerLeft
<1>1. Init => Passed
  BY PoolAssumption DEF Init, Passed
<1>2. TypedBooks /\ Passed /\ [Next]_vars => Passed'
  <2>1. Passed /\ UNCHANGED vars => Passed'
    BY DEF Passed, vars
  <2> QED
    BY <2>1, PassedClient, PassedRun DEF Next
<1>3. TypedBooks /\ Passed => NoContainerLeft
  BY DEF TypedBooks, Passed, NoContainerLeft
<1> QED
  BY <1>1, <1>2, <1>3, TypedBooksInvariant, PTL DEF Spec
===============================================================================
