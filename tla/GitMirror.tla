------------------------------ MODULE GitMirror ------------------------------
(***************************************************************************)
(* The git mirror of one repository (cache/git_cache.py) and the processes *)
(* that clone from it: runs whose sandboxes have a cached git_clone step,  *)
(* and task generation.  Within a process the calls block the event loop;  *)
(* other processes (a run of the command line beside the web interface)    *)
(* come between any two git commands.                                      *)
(*                                                                         *)
(* A commit is a number, counted up by the origin; NoCommit is a ref that  *)
(* does not exist.  git itself is external: a clone creates its directory  *)
(* first and its refs last, and removes the directory if it fails, but not *)
(* if it is killed; a fetch moves a ref only from the commit it found, but *)
(* creates and deletes one whatever is there.                              *)
(***************************************************************************)
EXTENDS Naturals

CONSTANTS Procs,
          MaxCommits, \* bound: how often the origin moves its ref
          MaxCalls,   \* bound: the calls of clone_from_mirror
          FaultSets   \* the sets of faults that may happen in one behavior

NoCommit == 0

(* network: the origin cannot be reached; kill: git is killed when its     *)
(* timeout is over, or with its process; delete: the origin deletes the    *)
(* ref; recreate: it makes it again.                                       *)
FaultKinds == {"network", "kill", "delete", "recreate"}

ASSUME MirrorAssumption ==
    /\ MaxCommits \in Nat /\ MaxCalls \in Nat
    /\ FaultSets \subseteq SUBSET FaultKinds

VARIABLES faults, \* fixed in a behavior
          commits,\* the commits of the origin so far
          origin, \* the commit its ref is at
          mirror, \* the directory of the mirror: none, partial (no refs yet) or whole
          ref,    \* the commit the ref of the mirror is at
          pc,     \* where the call of a process is
          calls,  \* how many calls there were
          base,   \* the ref of the mirror when its fetch began
          seen,   \* the ref of the origin when its fetch or clone began
          copy,   \* the ref in its target directory
          asked, found, synced \* the oldest commit that was current since its call
                  \* began, the mirror it found, and whether it brought it up to date

vars == <<faults, commits, origin, mirror, ref, pc, calls, base, seen, copy,
          asked, found, synced>>
world   == <<faults, commits, origin>>
disk    == <<mirror, ref>>
history == <<calls, asked, found>>

Init == /\ faults \in FaultSets
        /\ commits = 1 /\ origin = 1 /\ mirror = "none" /\ ref = NoCommit
        /\ pc = [p \in Procs |-> "idle"] /\ calls = 0
        /\ base = [p \in Procs |-> NoCommit] /\ seen = [p \in Procs |-> NoCommit]
        /\ copy = [p \in Procs |-> NoCommit] /\ asked = [p \in Procs |-> NoCommit]
        /\ found = [p \in Procs |-> "none"] /\ synced = [p \in Procs |-> FALSE]

Goto(p, at)   == pc' = [pc EXCEPT ![p] = at]
Look(p, b, s) == base' = [base EXCEPT ![p] = b] /\ seen' = [seen EXCEPT ![p] = s]
Forget(p)     == Look(p, NoCommit, NoCommit)

-----------------------------------------------------------------------------
(* The origin. *)
Push == /\ commits < MaxCommits /\ (origin # NoCommit \/ "recreate" \in faults)
        /\ commits' = commits + 1 /\ origin' = commits + 1
        /\ UNCHANGED <<faults, disk, pc, base, seen, copy, history, synced>>

Delete == /\ "delete" \in faults /\ origin' = NoCommit
          /\ UNCHANGED <<faults, commits, disk, pc, base, seen, copy, history, synced>>

-----------------------------------------------------------------------------
(* clone_from_mirror, ensure_mirror: mirror_path.exists() *)
Call(p) ==
    /\ pc[p] \in {"idle", "returned", "raised", "timedOut"} /\ calls < MaxCalls
    /\ calls' = calls + 1
    /\ asked' = [asked EXCEPT ![p] = IF origin = NoCommit THEN commits + 1 ELSE origin]
    /\ found' = [found EXCEPT ![p] = mirror]
    /\ synced' = [synced EXCEPT ![p] = FALSE]
    /\ Goto(p, IF mirror = "none" THEN "beginClone" ELSE "beginUpdate")
    /\ UNCHANGED <<world, disk, base, seen, copy>>

(* git clone --mirror, which refuses a directory that is there by now. *)
BeginClone(p) ==
    /\ pc[p] = "beginClone"
    /\ IF mirror = "none"
       THEN mirror' = "partial" /\ Look(p, NoCommit, origin) /\ Goto(p, "cloning")
       ELSE Goto(p, "raised") /\ UNCHANGED <<mirror, base, seen>>
    /\ UNCHANGED <<world, ref, copy, history, synced>>

FinishClone(p) ==
    /\ pc[p] = "cloning"
    /\ mirror' = "whole" /\ ref' = seen[p]
    /\ synced' = [synced EXCEPT ![p] = TRUE] /\ Forget(p) /\ Goto(p, "clone")
    /\ UNCHANGED <<world, copy, history>>

CloneFails(p) ==
    /\ "network" \in faults /\ pc[p] = "cloning"
    /\ mirror' = "none" /\ Forget(p) /\ Goto(p, "raised")
    /\ UNCHANGED <<world, ref, copy, history, synced>>

(* git remote update --prune.  A mirror that is not whole yet does not say *)
(* which refs it wants, and gets none.                                     *)
BeginUpdate(p) ==
    /\ pc[p] = "beginUpdate"
    /\ IF mirror = "whole"
       THEN Look(p, ref, origin) /\ Goto(p, "updating")
       ELSE Goto(p, "clone") /\ UNCHANGED <<base, seen>>
    /\ UNCHANGED <<world, disk, copy, history, synced>>

Creates(p)  == base[p] = NoCommit /\ seen[p] # NoCommit
Deletes(p)  == base[p] # NoCommit /\ seen[p] = NoCommit
UpToDate(p) == base[p] = seen[p]
Clashes(p)  == ref # base[p] /\ ~Creates(p) /\ ~Deletes(p) /\ ~UpToDate(p)

Bug_UpdateKeepsDeletedRefs(p) ==
    /\ pc[p] = "updating" /\ ~Clashes(p)
    /\ ref' = IF UpToDate(p) \/ Deletes(p) THEN ref ELSE seen[p]
    /\ synced' = [synced EXCEPT ![p] = TRUE] /\ Forget(p) /\ Goto(p, "clone")
    /\ UNCHANGED <<world, mirror, copy, history>>

FinishUpdate(p) ==
    /\ pc[p] = "updating" /\ ~Clashes(p)
    /\ ref' = IF UpToDate(p) THEN ref ELSE seen[p]
    /\ synced' = [synced EXCEPT ![p] = TRUE] /\ Forget(p) /\ Goto(p, "clone")
    /\ UNCHANGED <<world, mirror, copy, history>>

Bug_FailedUpdateRaises(p) ==
    /\ pc[p] = "updating" /\ (Clashes(p) \/ "network" \in faults)
    /\ Forget(p) /\ Goto(p, "raised")
    /\ UNCHANGED <<world, disk, copy, history, synced>>

(* The exit code of the update is not looked at: whatever it could not do, *)
(* the mirror is used as it is.                                            *)
UpdateFails(p) ==
    /\ pc[p] = "updating" /\ (Clashes(p) \/ "network" \in faults)
    /\ Forget(p) /\ Goto(p, "clone")
    /\ UNCHANGED <<world, disk, copy, history, synced>>

(* git clone of the mirror: one without refs gives a copy without them, or *)
(* is no repository at all; the checkout that follows does not find its ref. *)
Clone(p) ==
    /\ pc[p] = "clone"
    /\ IF mirror = "whole" THEN copy' = [copy EXCEPT ![p] = ref] /\ Goto(p, "checkout")
       ELSE copy' = [copy EXCEPT ![p] = NoCommit] /\ \/ Goto(p, "checkout")
                                                     \/ Goto(p, "raised")
    /\ UNCHANGED <<world, disk, base, seen, history, synced>>

Checkout(p) ==
    /\ pc[p] = "checkout"
    /\ Goto(p, IF copy[p] = NoCommit THEN "raised" ELSE "returned")
    /\ UNCHANGED <<world, disk, base, seen, copy, history, synced>>

(* TimeoutExpired, after git was killed: what it did so far stays. *)
Killed(p) ==
    /\ "kill" \in faults /\ pc[p] \notin {"idle", "returned", "raised", "timedOut"}
    /\ Forget(p) /\ Goto(p, "timedOut")
    /\ UNCHANGED <<world, disk, copy, history, synced>>

Step(p) == \/ Call(p) \/ BeginClone(p) \/ FinishClone(p) \/ CloneFails(p)
           \/ BeginUpdate(p) \/ FinishUpdate(p) \/ UpdateFails(p)
           \/ Clone(p) \/ Checkout(p) \/ Killed(p)

Next == Push \/ Delete \/ \E p \in Procs : Step(p)

Spec == Init /\ [][Next]_vars

-----------------------------------------------------------------------------
(* Type invariant of the mirror and the calls (git_cache.py:19-48).          *)
TypeOK ==
    /\ faults \in SUBSET FaultKinds
    /\ commits \in Nat \ {0} /\ origin \in 0..commits /\ ref \in 0..commits
    /\ mirror \in {"none", "partial", "whole"}
    /\ pc \in [Procs -> {"idle", "beginClone", "cloning", "beginUpdate", "updating",
                         "clone", "checkout", "returned", "raised", "timedOut"}]
    /\ calls \in Nat /\ synced \in [Procs -> BOOLEAN]
    /\ base \in [Procs -> Nat] /\ seen \in [Procs -> Nat] /\ copy \in [Procs -> Nat]
    /\ asked \in [Procs -> Nat] /\ found \in [Procs -> {"none", "partial", "whole"}]

(* However the calls of several processes interleave, one that returns has  *)
(* a copy of a commit that the origin had; if its fetch succeeded, of one    *)
(* that was current when it was called or later, never of one the origin had *)
(* left or deleted before.  (A ref that is made again is created by each     *)
(* fetch without looking at what another made of it.)  git_cache.py:19-48.    *)
CloneIsCurrent ==
    \A p \in Procs : pc[p] = "returned" =>
        /\ copy[p] \in 1..commits
        /\ synced[p] /\ "recreate" \notin faults => copy[p] >= asked[p]

(* A mirror that was once whole serves every later call: without the       *)
(* network, and whatever fails in the fetches and clones of others.  Only a *)
(* timeout of its own raises, and a ref that the origin has not             *)
(* (git_cache.py:21-26, 37-48).                                             *)
WholeMirrorServes ==
    \A p \in Procs : pc[p] = "raised" /\ found[p] = "whole" =>
        origin = NoCommit \/ "recreate" \in faults
=============================================================================
