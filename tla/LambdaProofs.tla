---------------------------- MODULE LambdaProofs ----------------------------
(***************************************************************************)
(* Proofs about LambdaFunction: one build() of the function builder, for   *)
(* any configuration, context and queues, and the synths after it.         *)
(***************************************************************************)
EXTENDS LambdaFunction, TLAPS

(***************************************************************************)
(* The inductive invariant.                                                *)
(***************************************************************************)
\* The role exists once the step that makes it is over, with what it then wrote.
RoleAsWritten ==
  /\ step \in {"before", "seams", "logs", "role"} => <<"ExecutionRole">> \notin made
  /\ <<"ExecutionRole">> \in made
       => policies = Written(Calls) /\ \A i \in DOMAIN Calls : ~Refuses(Calls[i])

\* The trigger is made by the step that ends the build, after all it was to follow.
Ordered(after) ==
  {<<"role">>} \cup {<<"ref", k>> : k \in cfg.onDeploy[1].after} \subseteq after
TriggerEndsBuild ==
  /\ step \notin {"returned", "threw"} => trigger = {}
  /\ step = "returned" => \A t \in trigger : Ordered(t.after)

\* Before the first synth nobody has compared a queue with the function.
NobodyCompared == pass \in Nat /\ (pass = 0 => \A w \in warned : w[1] # "visibility")

LambdaInv ==
  cfg \in Configs /\ RoleAsWritten /\ TriggerEndsBuild /\ WaitOutlivesHandler /\ NobodyCompared

(***************************************************************************)
(* The steps.                                                              *)
(***************************************************************************)
(* An alarm is never the role, and a warning about a token is not about    *)
(* the visibility timeout of a queue.                                      *)
LEMMA AlarmIsNoRole == \A k : AlarmId(k) # <<"ExecutionRole">>
BY DEF AlarmId

(* A custom resource whose wait was not refused leaves the provider its    *)
(* margin, and outlives the handler unless its warning is given.           *)
LEMMA WaitIsSafe ==
  ASSUME cfg \in Configs, cfg.onDeploy # <<>>,
         ~TooLong(cfg.onDeploy[1]), NEW w, w = ResolveWait(cfg.onDeploy[1]), Concrete(w)
  PROVE  w + Margin <= Provider /\ (Concrete(cfg.timeout) => w > cfg.timeout \/ ShortWait(w))
<1>0. /\ Provider \in Nat /\ Margin \in Nat \ {0} /\ Fallback \in Nat /\ Fallback + Margin <= Provider
      /\ \A n \in Nat : Concrete(n)
  BY SecondsAssumption DEF Concrete
<1>1. /\ Concrete(cfg.timeout) => cfg.timeout \in Nat
      /\ Concrete(cfg.onDeploy[1].wait) => cfg.onDeploy[1].wait \in Nat
  BY ConfigAssumption DEF Concrete
<1>2. w \in Int /\ w + Margin <= Provider
  <2>1. CASE cfg.onDeploy[1].wait # Unset
    BY <1>0, <1>1, <2>1 DEF ResolveWait, TooLong, MaxWait
  <2>2. CASE cfg.onDeploy[1].wait = Unset /\ Concrete(cfg.timeout)
    BY <1>0, <1>1, <2>2 DEF ResolveWait, MaxWait, Shorter
  <2>3. CASE cfg.onDeploy[1].wait = Unset /\ ~Concrete(cfg.timeout)
    BY <1>0, <2>3 DEF ResolveWait
  <2> QED
    BY <2>1, <2>2, <2>3
<1> QED
  BY <1>1, <1>2 DEF ShortWait

(* The calls around a build: its start, a queue reconfigured, a synth.     *)
LEMMA CallerKeeps ==
  ASSUME LambdaInv, \/ \E ctx \in Contexts : Build(ctx)
                    \/ \E q \in Queues, v \in Visibilities : EditQueue(q, v)
                    \/ Synth
  PROVE  LambdaInv'
<1>1. /\ UNCHANGED <<cfg, made, policies, trigger>>
      /\ step' = step \/ (step = "before" /\ step' = "seams")
      /\ warned \subseteq warned'
  BY DEF Build, EditQueue, Synth, Goto, buildVars
<1>2. RoleAsWritten' /\ TriggerEndsBuild' /\ WaitOutlivesHandler'
  <2>1. Calls' = Calls
    BY <1>1 DEF Calls
  <2>2. RoleAsWritten'
    BY <1>1, <2>1 DEF LambdaInv, RoleAsWritten, Written, Refuses
  <2>3. TriggerEndsBuild'
    BY <1>1 DEF LambdaInv, TriggerEndsBuild, Ordered
  <2>4. WaitOutlivesHandler'
    BY <1>1 DEF LambdaInv, WaitOutlivesHandler, Concrete
  <2> QED
    BY <2>2, <2>3, <2>4
<1>3. NobodyCompared'
  <2>1. CASE Synth
    <3>1. pass \in Nat /\ pass' = pass + 1
      BY <2>1 DEF Synth, LambdaInv, NobodyCompared
    <3> QED
      BY <3>1 DEF NobodyCompared
  <2>2. CASE UNCHANGED <<warned, pass>>
    BY <2>2 DEF LambdaInv, NobodyCompared
  <2> QED
    BY <2>1, <2>2 DEF Build, EditQueue
<1> QED
  BY <1>1, <1>2, <1>3 DEF LambdaInv

(* The steps of build() up to the alarms make no trigger.                  *)
LEMMA BuildKeeps ==
  ASSUME LambdaInv, \/ CheckSeams \/ BuildLogGroup \/ BuildRole \/ BuildFunction
                    \/ ApplyGrants \/ AttachSource \/ AttachSourceThrows
  PROVE  LambdaInv'
<1>1. /\ UNCHANGED <<cfg, pass, trigger, warned>>
      /\ step \in {"seams", "logs", "role", "function", "grants", "sources"}
      /\ step' \in {"logs", "role", "function", "grants", "sources", "threw"}
  BY DEF CheckSeams, BuildLogGroup, BuildRole, BuildFunction, ApplyGrants, AttachSource,
         AttachSourceThrows, MoreSources, Goto, Throw, Still, buildVars
<1>2. TriggerEndsBuild' /\ WaitOutlivesHandler' /\ NobodyCompared'
  BY <1>1 DEF LambdaInv, TriggerEndsBuild, WaitOutlivesHandler, NobodyCompared, Concrete
<1>3. RoleAsWritten'
  <2>1. Calls' = Calls
    BY <1>1 DEF Calls
  <2>2. CASE BuildRole /\ made' # made
    <3>1. policies' = Written(Calls) /\ \A i \in DOMAIN Calls : ~Refuses(Calls[i])
      BY <2>2 DEF BuildRole
    <3>2. step' = "function"
      BY <2>2 DEF BuildRole, Goto
    <3> QED
      BY <2>1, <3>1, <3>2 DEF RoleAsWritten, Written, Refuses
  <2>3. CASE <<"ExecutionRole">> \in made' => (<<"ExecutionRole">> \in made /\ policies' = policies)
    <3>1. step \in {"function", "grants", "sources"} \/ <<"ExecutionRole">> \notin made
      BY <1>1 DEF LambdaInv, RoleAsWritten
    <3>2. step' \in {"function", "grants", "sources", "threw"} \/ <<"ExecutionRole">> \notin made
      BY <1>1, <3>1 DEF CheckSeams, BuildLogGroup, BuildRole, BuildFunction, ApplyGrants,
         AttachSource, AttachSourceThrows, MoreSources, Goto, Throw
    <3> QED
      BY <2>1, <2>3, <3>2 DEF LambdaInv, RoleAsWritten, Written, Refuses
  <2>4. CASE BuildLogGroup
    BY <2>3, <2>4 DEF BuildLogGroup
  <2>5. CASE BuildFunction
    BY <2>3, <2>5 DEF BuildFunction
  <2>6. CASE BuildRole /\ made' = made
    BY <2>6, <2>1, <1>1 DEF BuildRole, LambdaInv, RoleAsWritten, Written, Refuses, Goto, Throw
  <2> QED
    BY <2>2, <2>3, <2>4, <2>5, <2>6
       DEF CheckSeams, ApplyGrants, AttachSource, AttachSourceThrows, buildVars
<1> QED
  BY <1>1, <1>2, <1>3 DEF LambdaInv

(* The alarms are no role, and their warnings not about queues.            *)
LEMMA AlarmsKeep == ASSUME LambdaInv, CreateAlarms PROVE LambdaInv'
<1>1. /\ UNCHANGED <<cfg, pass, trigger, policies>> /\ step = "sources"
      /\ step' \in {"trigger", "threw"}
      /\ warned' = warned \cup TokenWarnings
      /\ \A m \in made' \ made : \E k : m = AlarmId(k)
  BY DEF CreateAlarms, Still, Goto, Throw
<1>2. TriggerEndsBuild' /\ WaitOutlivesHandler'
  BY <1>1 DEF LambdaInv, TriggerEndsBuild, WaitOutlivesHandler, Concrete
<1>3. NobodyCompared'
  BY <1>1 DEF LambdaInv, NobodyCompared, TokenWarnings
<1>4. RoleAsWritten'
  <2>1. Calls' = Calls
    BY <1>1 DEF Calls
  <2>2. <<"ExecutionRole">> \in made' => <<"ExecutionRole">> \in made
    BY <1>1, AlarmIsNoRole
  <2> QED
    BY <1>1, <2>1, <2>2 DEF LambdaInv, RoleAsWritten, Written, Refuses
<1> QED
  BY <1>1, <1>2, <1>3, <1>4 DEF LambdaInv

(* The trigger comes when the build ends, with a wait that was checked.    *)
LEMMA EndKeeps == ASSUME LambdaInv, CreateTrigger \/ Return PROVE LambdaInv'
<1>1. /\ UNCHANGED <<cfg, pass, policies>> /\ step = "trigger" /\ step' \in {"returned", "threw"}
      /\ trigger = {} /\ made' \subseteq made \cup {<<"DeploymentTrigger">>} /\ made \subseteq made'
      /\ warned' \subseteq warned \cup {<<"shortWait">>} /\ cfg \in Configs
  BY DEF CreateTrigger, Return, Still, Goto, Throw, LambdaInv, TriggerEndsBuild, buildVars
<1>2. RoleAsWritten'
  <2>1. Calls' = Calls
    BY <1>1 DEF Calls
  <2>2. <<"ExecutionRole">> \in made' => <<"ExecutionRole">> \in made
    BY <1>1
  <2>3. policies' = policies /\ step' \notin {"before", "seams", "logs", "role"}
    BY <1>1
  <2> QED
    BY <2>1, <2>2, <2>3 DEF LambdaInv, RoleAsWritten, Written, Refuses
<1>3. NobodyCompared'
  BY <1>1 DEF LambdaInv, NobodyCompared
<1>4. TriggerEndsBuild'
  <2> SUFFICES ASSUME NEW t \in trigger', step' = "returned" PROVE Ordered(t.after)
    BY <1>1 DEF TriggerEndsBuild, Ordered
  <2>1. t.after = {<<"role">>} \cup {<<"ref", k>> : k \in cfg.onDeploy[1].after}
    BY <1>1 DEF CreateTrigger, Return, Throw, buildVars
  <2> QED
    BY <2>1 DEF Ordered
<1>5. WaitOutlivesHandler'
  <2> SUFFICES ASSUME NEW t \in trigger', Concrete(t.wait)
               PROVE  /\ t.wait + Margin <= Provider
                      /\ Concrete(cfg.timeout) => t.wait > cfg.timeout \/ <<"shortWait">> \in warned'
    BY <1>1 DEF WaitOutlivesHandler, Concrete
  <2>1. /\ cfg.onDeploy # <<>> /\ ~TooLong(cfg.onDeploy[1])
        /\ t.wait = ResolveWait(cfg.onDeploy[1])
        /\ ShortWait(t.wait) => <<"shortWait">> \in warned'
    BY <1>1 DEF CreateTrigger, Return, buildVars
  <2> QED
    BY <1>1, <2>1, WaitIsSafe
<1> QED
  BY <1>1, <1>2, <1>3, <1>4, <1>5 DEF LambdaInv

(***************************************************************************)
(* The theorems.                                                           *)
(***************************************************************************)
(* Before build() nothing is made, triggered or warned of.                 *)
LEMMA LambdaInvInit == Init => LambdaInv
BY DEF Init, LambdaInv, RoleAsWritten, TriggerEndsBuild, WaitOutlivesHandler, NobodyCompared

(* Every step of build(), of the caller and of synth keeps the invariant.  *)
LEMMA LambdaInvStep == LambdaInv /\ [Next]_vars => LambdaInv'
<1> SUFFICES ASSUME LambdaInv, [Next]_vars PROVE LambdaInv'
  OBVIOUS
<1>1. CASE Next
  BY <1>1, CallerKeeps, BuildKeeps, AlarmsKeep, EndKeeps DEF Next
<1>2. CASE UNCHANGED vars
  BY <1>2 DEF vars, buildVars, LambdaInv, RoleAsWritten, TriggerEndsBuild, Ordered,
              WaitOutlivesHandler, NobodyCompared, Concrete, Calls, Written, Refuses
<1> QED
  BY <1>1, <1>2

(* What holds of the role, the trigger and the warnings during a build and *)
(* after it, whatever the configuration.                                   *)
THEOREM LambdaInvariant == Spec => []LambdaInv
BY LambdaInvInit, LambdaInvStep, PTL DEF Spec

(* Whatever a configurator that does not chain its calls adds to the       *)
(* default role, the policy LogsWriter is the one the builder wrote        *)
(* (function-builder.ts:592).                                              *)
THEOREM LogsWriterSurvives == Spec => []RoleKeepsLogsWriter
<1>1. LambdaInv => RoleKeepsLogsWriter
  <2> SUFFICES ASSUME LambdaInv, <<"ExecutionRole">> \in made, ~Chained
               PROVE  policies["LogsWriter"] = "builder"
    BY DEF RoleKeepsLogsWriter
  <2>1. policies = Written(Calls) /\ \A i \in DOMAIN Calls : ~Refuses(Calls[i]) /\ ~Calls[i].chained
    BY DEF LambdaInv, RoleAsWritten, Chained
  <2> QED
    BY <2>1 DEF Written, Refuses
<1> QED
  BY <1>1, LambdaInvariant, PTL

(* The provider waits longer than the trigger by the margin, and the       *)
(* trigger longer than the handler or with a warning (invoke-on-deploy.ts).*)
THEOREM WaitsAreSafe == Spec => []WaitOutlivesHandler
BY LambdaInvariant, PTL DEF LambdaInv

(* Nothing is made, granted or attached once the trigger exists, and it    *)
(* follows the role and everything the caller named.                       *)
THEOREM TriggerIsLast == Spec => TriggerComesLast
<1> DEFINE Body == /\ trigger # {} => UNCHANGED buildVars
                   /\ step' = "returned" => \A t \in trigger' :
                        {<<"role">>} \cup {<<"ref", k>> : k \in cfg.onDeploy[1].after} \subseteq t.after
<1>1. LambdaInv /\ LambdaInv' /\ [Next]_vars => Body
  <2> SUFFICES ASSUME LambdaInv, LambdaInv', [Next]_vars PROVE Body
    OBVIOUS
  <2>1. trigger # {} => step \in {"returned", "threw"}
    BY DEF LambdaInv, TriggerEndsBuild
  <2>2. step \in {"returned", "threw"} => UNCHANGED buildVars
    BY DEF Next, vars, buildVars, Build, CheckSeams, BuildLogGroup, BuildRole, BuildFunction, ApplyGrants,
           AttachSource, AttachSourceThrows, MoreSources, CreateAlarms, CreateTrigger, Return,
           EditQueue, Synth
  <2>3. cfg' = cfg
    BY DEF Next, vars, Build, CheckSeams, BuildLogGroup, BuildRole, BuildFunction, ApplyGrants,
           AttachSource, AttachSourceThrows, CreateAlarms, CreateTrigger, Return, EditQueue, Synth,
           Still
  <2>4. step' = "returned" => \A t \in trigger' : Ordered(t.after)'
    BY DEF LambdaInv, TriggerEndsBuild
  <2> QED
    BY <2>1, <2>2, <2>3, <2>4 DEF Ordered
<1> HIDE DEF Body
<1>2. Spec => [][Body]_vars
  BY <1>1, LambdaInvariant, PTL DEF Spec
<1> QED
  BY <1>2 DEF Body, TriggerComesLast

(* The warnings about visibility timeouts are those of the template that   *)
(* is synthesised: every queue that is too short then is warned of, and by *)
(* the first synth no other (ADR-0011).                                    *)
THEOREM WarnsAtSynth == Spec => WarnsOfFinalValue
<1>1. LambdaInv /\ [Next]_vars => (pass' > pass => FinalValueWarned)
  <2> SUFFICES ASSUME LambdaInv, [Next]_vars, pass' > pass PROVE FinalValueWarned
    OBVIOUS
  <2>1. pass \in Nat /\ (pass = 0 => \A w \in warned : w[1] # "visibility")
    BY DEF LambdaInv, NobodyCompared
  <2>2. pass' # pass
    BY <2>1
  <2>3. Synth
    BY <2>2 DEF Next, vars, Build, CheckSeams, BuildLogGroup, BuildRole, BuildFunction, ApplyGrants,
           AttachSource, AttachSourceThrows, CreateAlarms, CreateTrigger, Return, EditQueue, Still
  <2>4. \A s : /\ Target = IF cfg.timeout = Unset THEN 18 ELSE 6 * cfg.timeout
               /\ Actual(s.of) = IF visibility[s.of] = Unset THEN 30 ELSE visibility[s.of]
               /\ Comparable(s.of) <=> cfg.timeout # Token /\ visibility[s.of] \notin {Token, Imported}
    <3>1. 30 \notin {Unset, Token, Imported} /\ Unset \notin {Token, Imported}
      BY SecondsAssumption
    <3>2. Target = IF cfg.timeout = Unset THEN 18 ELSE 6 * cfg.timeout
      BY DEF Target
    <3> QED
      BY <3>1, <3>2 DEF Actual, Comparable, Concrete
  <2> DEFINE short == {s \in SqsSources : Comparable(s.of) /\ Actual(s.of) < Target}
  <2>5. short = {s \in SqsSources :
                   /\ cfg.timeout # Token /\ visibility[s.of] \notin {Token, Imported}
                   /\ (IF visibility[s.of] = Unset THEN 30 ELSE visibility[s.of])
                        < (IF cfg.timeout = Unset THEN 18 ELSE 6 * cfg.timeout)}
    BY <2>4
  <2>6. warned' = warned \cup {<<"visibility", s.key, Actual(s.of)>> : s \in short}
    BY <2>3 DEF Synth, VisibilityWarnings
  <2> HIDE DEF short
  <2>7. ASSUME NEW s \in short
        PROVE  \E w \in warned' : w[1] = "visibility" /\ w[2] = s.key /\ w[3] = Actual(s.of)
    <3>1. <<"visibility", s.key, Actual(s.of)>> \in warned'
      BY <2>6
    <3> QED
      BY <3>1
  <2>8. pass = 0 => \A w \in warned' : w[1] = "visibility" =>
                      \E s \in short : w[2] = s.key /\ w[3] = Actual(s.of)
    BY <2>1, <2>6
  <2> QED
    BY <2>5, <2>7, <2>8 DEF FinalValueWarned
<1>2. Spec => [][pass' > pass => FinalValueWarned]_vars
  BY <1>1, LambdaInvariant, PTL DEF Spec
<1> QED
  BY <1>2 DEF WarnsOfFinalValue
=============================================================================
