---------------------------- MODULE SystemBuild ----------------------------
(***************************************************************************)
(* What composing components promises, whatever the nesting: the builders  *)
(* of a system are run one at a time, each after every builder it depends  *)
(* on directly or through what encloses it; a build either completes with  *)
(* all of them built or fails with some of them built; nothing is undone.  *)
(***************************************************************************)
CONSTANT Builders

VARIABLES
  before,   \* <<a, b>> when a must be built before b
  state,    \* "idle", "running", "complete" or "failed"
  done      \* the builders that have returned in this build

vars == <<before, state, done>>

Init ==
  /\ before \subseteq Builders \X Builders
  /\ state = "idle"
  /\ done = {}

Begin ==
  /\ state \in {"idle", "complete", "failed"}
  /\ state' = "running"
  /\ done' = {}
  /\ before' = before

Run(b) ==
  /\ state = "running"
  /\ b \notin done
  /\ \A a \in Builders : <<a, b>> \in before => a \in done
  /\ done' = done \cup {b}
  /\ UNCHANGED <<before, state>>

Complete ==
  /\ state = "running"
  /\ done = Builders
  /\ state' = "complete"
  /\ UNCHANGED <<before, done>>

Fail ==
  /\ state = "running"
  /\ state' = "failed"
  /\ UNCHANGED <<before, done>>

Next == Begin \/ Complete \/ Fail \/ \E b \in Builders : Run(b)

Spec == Init /\ [][Next]_vars
=============================================================================
