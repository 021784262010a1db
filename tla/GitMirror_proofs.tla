-------------------------- MODULE GitMirror_proofs --------------------------
(***************************************************************************)
(* Proofs about GitMirror, for any processes, commits, calls and faults.   *)
(* That a clone is current rests on how the ref of the mirror moves: each  *)
(* fetch leaves it where its process saw the origin, or another one has    *)
(* moved it further meanwhile (Ahead), so that a process that looked after *)
(* it was called finds nothing older (Current).                            *)
(***************************************************************************)
EXTENDS GitMirror, TLAPS

Steady == "recreate" \notin faults

(* git in the steps of others: one clone at most, and only before the       *)
(* mirror is whole; fetches after.                                         *)
Alone ==
    /\ \A p \in Procs : pc[p] = "cloning" => mirror = "partial"
    /\ \A p, q \in Procs : pc[p] = "cloning" /\ pc[q] = "cloning" => p = q
    /\ \A p \in Procs : pc[p] = "updating" => mirror = "whole"
    /\ \A p \in Procs : found[p] = "whole" =>
           mirror = "whole" /\ pc[p] \notin {"beginClone", "cloning"}

Known ==
    /\ origin \in {NoCommit, commits}
    /\ \A p \in Procs : seen[p] <= commits /\ base[p] <= commits /\ copy[p] <= commits
    /\ \A p \in Procs : pc[p] = "returned" => copy[p] # NoCommit

(* The ref of a mirror never falls behind what a fetch of it began with.    *)
Ahead(p) ==
    /\ pc[p] \in {"cloning", "updating"} /\ seen[p] = NoCommit => origin = NoCommit
    /\ pc[p] = "updating" =>
        /\ base[p] = NoCommit => seen[p] = NoCommit
        /\ seen[p] = NoCommit \/ seen[p] >= base[p]
        /\ ref = NoCommit \/ (base[p] # NoCommit /\ ref >= base[p])

Current(p) ==
    /\ pc[p] \in {"beginClone", "beginUpdate"} => origin = NoCommit \/ origin >= asked[p]
    /\ pc[p] \in {"cloning", "updating"} => seen[p] = NoCommit \/ seen[p] >= asked[p]
    /\ synced[p] => pc[p] \notin {"beginClone", "cloning", "beginUpdate", "updating"}
    /\ synced[p] /\ pc[p] = "clone" => mirror = "whole" /\ (ref = NoCommit \/ ref >= asked[p])
    /\ synced[p] /\ pc[p] \in {"checkout", "returned"} => copy[p] = NoCommit \/ copy[p] >= asked[p]

Serving(p) ==
    found[p] = "whole" =>
        /\ pc[p] = "checkout" /\ copy[p] = NoCommit => origin = NoCommit
        /\ pc[p] = "raised" => origin = NoCommit

SteadyInv ==
    /\ mirror = "whole" /\ ref = NoCommit => origin = NoCommit
    /\ \A p \in Procs : Ahead(p) /\ Current(p) /\ Serving(p)

MirrorInv == TypeOK /\ Alone /\ Known /\ (Steady => SteadyInv)

USE DEF NoCommit

LEMMA InitMirrorInv == Init => MirrorInv
BY MirrorAssumption DEF MirrorAssumption, Init, MirrorInv, TypeOK, Alone, Known, SteadyInv,
   Ahead, Current, Serving

LEMMA TypeStep ==
  ASSUME TypeOK, Known, [Next]_vars
  PROVE  TypeOK'
<1>1. CASE Push
  BY <1>1 DEF Push, TypeOK, Known, world, disk, history, Goto, Look, Forget
<1>2. CASE Delete
  BY <1>2 DEF Delete, TypeOK, Known, world, disk, history, Goto, Look, Forget
<1>3. ASSUME NEW p \in Procs, Step(p) PROVE TypeOK'
  <2>1. CASE Call(p)
    BY <2>1 DEF Call, TypeOK, Known, world, disk, history, Goto, Look, Forget
  <2>2. CASE BeginClone(p)
    BY <2>2 DEF BeginClone, TypeOK, Known, world, disk, history, Goto, Look, Forget
  <2>3. CASE FinishClone(p)
    BY <2>3 DEF FinishClone, TypeOK, Known, world, disk, history, Goto, Look, Forget
  <2>4. CASE CloneFails(p)
    BY <2>4 DEF CloneFails, TypeOK, Known, world, disk, history, Goto, Look, Forget
  <2>5. CASE BeginUpdate(p)
    BY <2>5 DEF BeginUpdate, TypeOK, Known, world, disk, history, Goto, Look, Forget
  <2>6. CASE FinishUpdate(p)
    BY <2>6 DEF FinishUpdate, Clashes, Creates, Deletes, UpToDate, TypeOK, Known, world,
       disk, history, Goto, Look, Forget
  <2>7. CASE UpdateFails(p)
    BY <2>7 DEF UpdateFails, TypeOK, Known, world, disk, history, Goto, Look, Forget
  <2>8. CASE Clone(p)
    BY <2>8 DEF Clone, TypeOK, Known, world, disk, history, Goto, Look, Forget
  <2>9. CASE Checkout(p)
    BY <2>9 DEF Checkout, TypeOK, Known, world, disk, history, Goto, Look, Forget
  <2>10. CASE Killed(p)
    BY <2>10 DEF Killed, TypeOK, Known, world, disk, history, Goto, Look, Forget
  <2> QED
    BY <1>3, <2>1, <2>2, <2>3, <2>4, <2>5, <2>6, <2>7, <2>8, <2>9, <2>10 DEF Step
<1>4. CASE UNCHANGED vars
  BY <1>4 DEF vars, TypeOK
<1> QED
  BY <1>1, <1>2, <1>3, <1>4 DEF Next

LEMMA AloneStep ==
  ASSUME TypeOK, Alone, [Next]_vars
  PROVE  Alone'
<1>1. CASE Push
  BY <1>1 DEF Push, TypeOK, Alone, world, disk, history, Goto, Look, Forget
<1>2. CASE Delete
  BY <1>2 DEF Delete, TypeOK, Alone, world, disk, history, Goto, Look, Forget
<1>3. ASSUME NEW p \in Procs, Step(p) PROVE Alone'
  <2>1. CASE Call(p)
    BY <2>1 DEF Call, TypeOK, Alone, world, disk, history, Goto, Look, Forget
  <2>2. CASE BeginClone(p)
    BY <2>2 DEF BeginClone, TypeOK, Alone, world, disk, history, Goto, Look, Forget
  <2>3. CASE FinishClone(p)
    BY <2>3 DEF FinishClone, TypeOK, Alone, world, disk, history, Goto, Look, Forget
  <2>4. CASE CloneFails(p)
    BY <2>4 DEF CloneFails, TypeOK, Alone, world, disk, history, Goto, Look, Forget
  <2>5. CASE BeginUpdate(p)
    BY <2>5 DEF BeginUpdate, TypeOK, Alone, world, disk, history, Goto, Look, Forget
  <2>6. CASE FinishUpdate(p)
    BY <2>6 DEF FinishUpdate, Clashes, Creates, Deletes, UpToDate, TypeOK, Alone, world,
       disk, history, Goto, Look, Forget
  <2>7. CASE UpdateFails(p)
    BY <2>7 DEF UpdateFails, TypeOK, Alone, world, disk, history, Goto, Look, Forget
  <2>8. CASE Clone(p)
    BY <2>8 DEF Clone, TypeOK, Alone, world, disk, history, Goto, Look, Forget
  <2>9. CASE Checkout(p)
    BY <2>9 DEF Checkout, TypeOK, Alone, world, disk, history, Goto, Look, Forget
  <2>10. CASE Killed(p)
    BY <2>10 DEF Killed, TypeOK, Alone, world, disk, history, Goto, Look, Forget
  <2> QED
    BY <1>3, <2>1, <2>2, <2>3, <2>4, <2>5, <2>6, <2>7, <2>8, <2>9, <2>10 DEF Step
<1>4. CASE UNCHANGED vars
  BY <1>4 DEF vars, Alone
<1> QED
  BY <1>1, <1>2, <1>3, <1>4 DEF Next

LEMMA KnownStep ==
  ASSUME TypeOK, Alone, Known, [Next]_vars
  PROVE  Known'
<1>1. CASE Push
  BY <1>1 DEF Push, TypeOK, Alone, Known, world, disk, history, Goto, Look, Forget
<1>2. CASE Delete
  BY <1>2 DEF Delete, TypeOK, Alone, Known, world, disk, history, Goto, Look, Forget
<1>3. ASSUME NEW p \in Procs, Step(p) PROVE Known'
  <2>1. CASE Call(p)
    BY <2>1 DEF Call, TypeOK, Alone, Known, world, disk, history, Goto, Look, Forget
  <2>2. CASE BeginClone(p)
    BY <2>2 DEF BeginClone, TypeOK, Alone, Known, world, disk, history, Goto, Look, Forget
  <2>3. CASE FinishClone(p)
    BY <2>3 DEF FinishClone, TypeOK, Alone, Known, world, disk, history, Goto, Look, Forget
  <2>4. CASE CloneFails(p)
    BY <2>4 DEF CloneFails, TypeOK, Alone, Known, world, disk, history, Goto, Look, Forget
  <2>5. CASE BeginUpdate(p)
    BY <2>5 DEF BeginUpdate, TypeOK, Alone, Known, world, disk, history, Goto, Look, Forget
  <2>6. CASE FinishUpdate(p)
    BY <2>6 DEF FinishUpdate, Clashes, Creates, Deletes, UpToDate, TypeOK, Alone, Known,
       world, disk, history, Goto, Look, Forget
  <2>7. CASE UpdateFails(p)
    BY <2>7 DEF UpdateFails, TypeOK, Alone, Known, world, disk, history, Goto, Look, Forget
  <2>8. CASE Clone(p)
    BY <2>8 DEF Clone, TypeOK, Alone, Known, world, disk, history, Goto, Look, Forget
  <2>9. CASE Checkout(p)
    BY <2>9 DEF Checkout, TypeOK, Alone, Known, world, disk, history, Goto, Look, Forget
  <2>10. CASE Killed(p)
    BY <2>10 DEF Killed, TypeOK, Alone, Known, world, disk, history, Goto, Look, Forget
  <2> QED
    BY <1>3, <2>1, <2>2, <2>3, <2>4, <2>5, <2>6, <2>7, <2>8, <2>9, <2>10 DEF Step
<1>4. CASE UNCHANGED vars
  BY <1>4 DEF vars, Known
<1> QED
  BY <1>1, <1>2, <1>3, <1>4 DEF Next

LEMMA SteadyStep ==
  ASSUME MirrorInv, Steady, [Next]_vars
  PROVE  SteadyInv'
<1>1. CASE Push
  BY <1>1 DEF Push, MirrorInv, TypeOK, Alone, Known, Steady, SteadyInv, Ahead,
      Current, Serving, world, disk, history, Goto, Look, Forget
<1>2. CASE Delete
  BY <1>2 DEF Delete, MirrorInv, TypeOK, Alone, Known, Steady, SteadyInv, Ahead,
      Current, Serving, world, disk, history, Goto, Look, Forget
<1>3. ASSUME NEW p \in Procs, Step(p) PROVE SteadyInv'
  <2>1. CASE Call(p)
    BY <2>1 DEF Call, MirrorInv, TypeOK, Alone, Known, Steady, SteadyInv, Ahead,
      Current, Serving, world, disk, history, Goto, Look, Forget
  <2>2. CASE BeginClone(p)
    BY <2>2 DEF BeginClone, MirrorInv, TypeOK, Alone, Known, Steady, SteadyInv, Ahead,
      Current, Serving, world, disk, history, Goto, Look, Forget
  <2>3. CASE FinishClone(p)
    BY <2>3 DEF FinishClone, MirrorInv, TypeOK, Alone, Known, Steady, SteadyInv, Ahead,
      Current, Serving, world, disk, history, Goto, Look, Forget
  <2>4. CASE CloneFails(p)
    BY <2>4 DEF CloneFails, MirrorInv, TypeOK, Alone, Known, Steady, SteadyInv, Ahead,
      Current, Serving, world, disk, history, Goto, Look, Forget
  <2>5. CASE BeginUpdate(p)
    BY <2>5 DEF BeginUpdate, MirrorInv, TypeOK, Alone, Known, Steady, SteadyInv, Ahead,
      Current, Serving, world, disk, history, Goto, Look, Forget
  <2>6. CASE FinishUpdate(p)
    BY <2>6 DEF FinishUpdate, Clashes, Creates, Deletes, UpToDate, MirrorInv, TypeOK, Alone,
       Known, Steady, SteadyInv, Ahead,
      Current, Serving, world, disk, history, Goto, Look, Forget
  <2>7. CASE UpdateFails(p)
    BY <2>7 DEF UpdateFails, MirrorInv, TypeOK, Alone, Known, Steady, SteadyInv, Ahead,
      Current, Serving, world, disk, history, Goto, Look, Forget
  <2>8. CASE Clone(p)
    BY <2>8 DEF Clone, MirrorInv, TypeOK, Alone, Known, Steady, SteadyInv, Ahead,
      Current, Serving, world, disk, history, Goto, Look, Forget
  <2>9. CASE Checkout(p)
    BY <2>9 DEF Checkout, MirrorInv, TypeOK, Alone, Known, Steady, SteadyInv, Ahead,
      Current, Serving, world, disk, history, Goto, Look, Forget
  <2>10. CASE Killed(p)
    BY <2>10 DEF Killed, MirrorInv, TypeOK, Alone, Known, Steady, SteadyInv, Ahead,
      Current, Serving, world, disk, history, Goto, Look, Forget
  <2> QED
    BY <1>3, <2>1, <2>2, <2>3, <2>4, <2>5, <2>6, <2>7, <2>8, <2>9, <2>10 DEF Step
<1>4. CASE UNCHANGED vars
  BY <1>4 DEF vars, MirrorInv, Steady, SteadyInv, Ahead, Current, Serving
<1> QED
  BY <1>1, <1>2, <1>3, <1>4 DEF Next

LEMMA NextMirrorInv == MirrorInv /\ [Next]_vars => MirrorInv'
<1> SUFFICES ASSUME MirrorInv, [Next]_vars PROVE MirrorInv'
  OBVIOUS
<1>1. TypeOK' /\ Alone' /\ Known'
  BY TypeStep, AloneStep, KnownStep DEF MirrorInv
<1>2. faults' = faults
  BY DEF vars, Next, Step, Push, Delete, Call, BeginClone, FinishClone, CloneFails,
     BeginUpdate, FinishUpdate, UpdateFails, Clone, Checkout, Killed, world
<1>3. Steady' => SteadyInv'
  BY <1>2, SteadyStep DEF Steady
<1> QED
  BY <1>1, <1>3 DEF MirrorInv

LEMMA MirrorInvariant == Spec => []MirrorInv
BY InitMirrorInv, NextMirrorInv, PTL DEF Spec

(* The type invariant of the mirror and the calls (git_cache.py:19-48). *)
THEOREM TypeCorrect == Spec => []TypeOK
<1>1. MirrorInv => TypeOK
  BY DEF MirrorInv
<1> QED
  BY <1>1, MirrorInvariant, PTL

(* A call that returns has a commit the origin had; if its fetch worked, one *)
(* that was current when it was called or later (git_cache.py:19-48).        *)
THEOREM ClonesCurrent == Spec => []CloneIsCurrent
<1>1. MirrorInv => CloneIsCurrent
  BY DEF MirrorInv, TypeOK, Known, Steady, SteadyInv, Current, CloneIsCurrent
<1> QED
  BY <1>1, MirrorInvariant, PTL

(* A mirror that was once whole serves all later calls (git_cache.py:21-48). *)
THEOREM WholeMirrorsServe == Spec => []WholeMirrorServes
<1>1. MirrorInv => WholeMirrorServes
  BY DEF MirrorInv, Steady, SteadyInv, Serving, WholeMirrorServes
<1> QED
  BY <1>1, MirrorInvariant, PTL
=============================================================================
