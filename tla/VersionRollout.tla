--------------------------- MODULE VersionRollout ---------------------------
(***************************************************************************)
(* What publishVersion() and addAlias() of the state machine builder do    *)
(* when the stack is deployed: each deployment that changes the workflow   *)
(* publishes a version, the aliases move to it, at once or gradually, and  *)
(* when all have moved the stack's version pruner deletes the versions     *)
(* beyond the retention limit.  A deployment may fail at any point and is  *)
(* then rolled back by CloudFormation, which moves the aliases back and    *)
(* runs the pruner again when it had run.                                  *)
(*                                                                         *)
(* A pruner that CloudFormation no longer waits for goes on deleting.      *)
(* Step Functions refuses to delete a version an alias routes to.          *)
(***************************************************************************)
EXTENDS Naturals, FiniteSets, FiniteSetsExt

CONSTANTS
  Aliases,        \* the aliases of the state machine
  Gradual,        \* those that shift traffic gradually, with rollback alarms
  Retains,        \* the retention limits deployed
  MaxVersion      \* bound: deployments that publish

ASSUME RolloutAssumption ==
  /\ Aliases # {} /\ Gradual \subseteq Aliases
  /\ \A r \in Retains : r \in Nat \ {0}      \* #validateVersioning()
  /\ MaxVersion \in Nat \ {0}

VARIABLES
  stage,          \* what CloudFormation does: see RolloutTypeOK
  published,      \* the versions Step Functions has
  newest,         \* the highest number given so far
  current, goal,  \* the version before the deployment, and the one it moves to
  routes,         \* the versions each alias routes to
  retain,         \* the limit before the deployment, and its own: <<old, new>>
  pruner,         \* the run CloudFormation waits for: "none", "run", "done"
  doomed,         \* what that run has still to delete
  orphan,         \* what a run nobody waits for has still to delete
  refused         \* the run CloudFormation waits for was refused a deletion

rolloutVars ==
  <<stage, published, newest, current, goal, routes, retain, pruner, doomed, orphan, refused>>

NoRollout ==
  /\ stage = "off" /\ published = {} /\ newest = 0 /\ current = 0 /\ goal = 0
  /\ routes = [a \in Aliases |-> {}] /\ retain = <<1, 1>>
  /\ pruner = "none" /\ doomed = {} /\ orphan = {} /\ refused = FALSE

-----------------------------------------------------------------------------
\* versionsToPrune(): sorted by number, newest first; the first `limit` stay,
\* and so does what an alias routes to.
Aliased == UNION {routes[a] : a \in Aliases}

\* Mutants of VersionsToPrune: sorted the other way; the aliases are not looked at.
OldestFirst(limit) ==
  {v \in published : Cardinality({w \in published : w < v}) >= limit /\ v \notin Aliased}
NewestOnly(limit) == {v \in published : Cardinality({w \in published : w > v}) >= limit}
VersionsToPrune(limit) ==
  {v \in published : Cardinality({w \in published : w > v}) >= limit /\ v \notin Aliased}

Limit == IF stage = "undoing" THEN retain[1] ELSE retain[2]

-----------------------------------------------------------------------------
\* The stack is created: one version, every alias on it, nothing to prune.
FirstDeployment ==
  /\ stage = "off" /\ stage' = "steady"
  /\ published' = {1} /\ newest' = 1 /\ current' = 1 /\ goal' = 1
  /\ routes' = [a \in Aliases |-> {1}]
  /\ \E r \in Retains : retain' = <<r, r>>
  /\ UNCHANGED <<pruner, doomed, orphan, refused>>

\* Mutant of PublishVersion: a number that was given before is given again.
NumberedByCount ==
  /\ stage = "steady" /\ newest < MaxVersion
  /\ stage' = "moving" /\ newest' = Cardinality(published) + 1 /\ goal' = newest'
  /\ published' = published \cup {newest'}
  /\ \E r \in Retains : retain' = <<retain[2], r>>
  /\ pruner' = "none"
  /\ UNCHANGED <<current, routes, doomed, orphan, refused>>

\* A changed revision replaces the version resource; the replaced version is
\* kept (RemovalPolicy.RETAIN).
PublishVersion ==
  /\ stage = "steady" /\ newest < MaxVersion
  /\ stage' = "moving" /\ newest' = newest + 1 /\ goal' = newest + 1
  /\ published' = published \cup {newest + 1}
  /\ \E r \in Retains : retain' = <<retain[2], r>>
  /\ pruner' = "none"
  /\ UNCHANGED <<current, routes, doomed, orphan, refused>>

\* An alias moves all at once, or starts to share its traffic, or is done.
MoveAlias ==
  /\ stage = "moving"
  /\ \E a \in Aliases :
       \/ a \notin Gradual /\ routes' = [routes EXCEPT ![a] = {goal}] /\ routes[a] # {goal}
       \/ /\ a \in Gradual /\ routes[a] = {current} /\ goal # current
          /\ routes' = [routes EXCEPT ![a] = {current, goal}]
       \/ a \in Gradual /\ Cardinality(routes[a]) = 2 /\ routes' = [routes EXCEPT ![a] = {goal}]
  /\ UNCHANGED <<stage, published, newest, current, goal, retain, pruner, doomed, orphan, refused>>

\* The limit alone is changed: no version, no alias, but the pruner's property.
ChangeRetain ==
  /\ stage = "steady" /\ stage' = "moving" /\ pruner' = "none"
  /\ \E r \in Retains \ {retain[2]} : retain' = <<retain[2], r>>
  /\ UNCHANGED <<published, newest, current, goal, routes, doomed, orphan, refused>>

AliasesMoved ==
  \/ stage = "moving" /\ \A a \in Aliases : routes[a] = {goal}
  \/ stage = "undoing" /\ \A a \in Aliases : routes[a] = {current}

\* Mutant of PrunerMayStart: it depends on the version only.
WithTheVersion == stage = "moving" \/ AliasesMoved
\* The pruner depends on every alias, and in a rollback runs after they are back.
PrunerMayStart == AliasesMoved

\* runVersionPruning(): lists the versions, then the aliases, when there are
\* more versions than the limit.
StartPruning ==
  /\ PrunerMayStart
  /\ pruner = (IF stage = "undoing" THEN "again" ELSE "none")
  /\ pruner' = "run"
  /\ doomed' = IF Cardinality(published) <= Limit THEN {} ELSE VersionsToPrune(Limit)
  /\ UNCHANGED <<stage, published, newest, current, goal, routes, retain, orphan, refused>>

\* Deleted one by one, newest first.
DeleteVersion ==
  /\ pruner = "run" /\ doomed # {}
  /\ Max(doomed) \notin Aliased
  /\ published' = published \ {Max(doomed)} /\ doomed' = doomed \ {Max(doomed)}
  /\ UNCHANGED <<stage, newest, current, goal, routes, retain, pruner, orphan, refused>>

PrunerDone ==
  /\ pruner = "run" /\ doomed = {} /\ pruner' = "done"
  /\ UNCHANGED <<stage, published, newest, current, goal, routes, retain, doomed, orphan, refused>>

\* The rollback starts from the limit and the version deployed before.
RollBack ==
  /\ stage' = "undoing"
  /\ pruner' = IF pruner = "none" THEN "none" ELSE "again"
  /\ doomed' = {}

\* A deletion is refused or fails: the custom resource has failed, and with it
\* the deployment or its rollback.
DeleteFails ==
  /\ pruner = "run" /\ doomed # {}
  /\ refused' = (refused \/ Max(doomed) \in Aliased)
  /\ IF stage = "undoing"
       THEN stage' = "stuck" /\ doomed' = {} /\ UNCHANGED pruner
       ELSE RollBack
  /\ UNCHANGED <<published, newest, current, goal, routes, retain, orphan>>

\* Another resource of the stack fails, or an alarm of a gradual shift goes off.
DeploymentFails ==
  /\ stage = "moving" /\ RollBack
  /\ orphan' = orphan \cup doomed
  /\ UNCHANGED <<published, newest, current, goal, routes, retain, refused>>

OrphanDeletes ==
  /\ orphan # {}
  /\ IF Max(orphan) \in Aliased
       THEN orphan' = {} /\ UNCHANGED published
       ELSE published' = published \ {Max(orphan)} /\ orphan' = orphan \ {Max(orphan)}
  /\ UNCHANGED <<stage, newest, current, goal, routes, retain, pruner, doomed, refused>>

Deployed ==
  /\ stage = "moving" /\ AliasesMoved /\ pruner = "done"
  /\ stage' = "steady" /\ current' = goal
  /\ UNCHANGED <<published, newest, goal, routes, retain, pruner, doomed, orphan, refused>>

\* An alias cannot be moved back to a version that is gone.
MoveAliasBack ==
  /\ stage = "undoing"
  /\ \E a \in Aliases :
       /\ routes[a] # {current}
       /\ IF current \in published
            THEN routes' = [routes EXCEPT ![a] = {current}] /\ UNCHANGED stage
            ELSE stage' = "stuck" /\ UNCHANGED routes
  /\ UNCHANGED <<published, newest, current, goal, retain, pruner, doomed, orphan, refused>>

RolledBack ==
  /\ stage = "undoing" /\ AliasesMoved /\ pruner \in {"none", "done"}
  /\ stage' = "steady" /\ goal' = current /\ retain' = <<retain[1], retain[1]>>
  /\ UNCHANGED <<published, newest, current, routes, pruner, doomed, orphan, refused>>

RolloutNext ==
  \/ FirstDeployment \/ PublishVersion \/ ChangeRetain \/ MoveAlias
  \/ StartPruning \/ DeleteVersion \/ PrunerDone \/ Deployed
  \/ DeleteFails \/ DeploymentFails \/ OrphanDeletes \/ MoveAliasBack \/ RolledBack

RolloutSpec == NoRollout /\ [][RolloutNext]_rolloutVars

-----------------------------------------------------------------------------
RolloutTypeOK ==
  /\ stage \in {"off", "steady", "moving", "undoing", "stuck"}
  /\ published \subseteq 1..newest /\ newest \in 0..MaxVersion
  /\ routes \in [Aliases -> SUBSET (1..newest)]
  /\ pruner \in {"none", "run", "done", "again"}
  /\ doomed \subseteq 1..newest /\ orphan \subseteq 1..newest

(***************************************************************************)
(* The pruner is never refused: between its look at the aliases and its    *)
(* last deletion no alias comes to route to what it deletes, in a          *)
(* deployment as in its rollback (version-pruner-handler.ts:62,            *)
(* state-machine-builder.ts:479).                                          *)
(***************************************************************************)
PrunerNeverRefused == ~refused

(***************************************************************************)
(* A deployment that succeeded leaves at most `retain` versions behind,    *)
(* whatever failed and canceled deployments had left before: the aliases   *)
(* hold none back, for all have moved (state-machine-builder.ts:479).      *)
(***************************************************************************)
RetentionBound ==
  stage = "steady" /\ pruner = "done" /\ goal = newest => Cardinality(published) <= retain[2]

(***************************************************************************)
(* state-machine-builder.ts:453: "Keep the replaced version: an alias      *)
(* rolling back needs it, and the pruner deletes it once it falls outside  *)
(* the retention limit".  The version a deployment would be rolled back to *)
(* is gone only when as many newer ones as a limit that was deployed have  *)
(* been published, those of failed deployments counting too: with a limit  *)
(* of 2, one failed deployment and a second that fails late are enough.    *)
(***************************************************************************)
LostOnlyPastLimit ==
  stage \in {"moving", "undoing", "stuck"} /\ current \notin published
    => newest - current >= Min(Retains)
=============================================================================
