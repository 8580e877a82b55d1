----------------------------- MODULE MCConfigure -----------------------------
(* What a program sets up around a build, four parts that share nothing and  *)
(* are checked side by side: stack strategies, builders with copies, the     *)
(* hooks tags() and outputs(), and alarms with the policies over them.       *)
(* Two strategies, three components in two groups, two apps: "A" with the    *)
(* group "x-y" and "A-x" with the group "y" make the same stack id.  Three   *)
(* builder objects, two grants of which a context may lack the second.  A    *)
(* system of two components and a nested system, any of them in one of two   *)
(* stacks or outside, with hooks of both systems.  The alarms are those of   *)
(* MCAlarms.                                                                 *)
EXTENDS StackStrategies, Builders, AfterBuildHooks, MCAlarms

MCStrategies == {"one", "many"}
MCStrategyKind == [st \in MCStrategies |-> IF st = "one" THEN "single" ELSE "grouped"]
MCKeys == <<"api", "job", "table">>
MCClassify == [k \in {"api", "job", "table"} |->
                 IF k = "table" THEN <<"x", "y">> ELSE <<"y">>]
MCSystemIds == {<<"A">>, <<"A", "x">>}
MCContexts == {{"bucket"}, {"bucket", "queue"}}

MCMembers == ("system" :> {"api", "nested"}) @@ ("nested" :> {"job"})
TextAt(component, tag) == [at |-> component, text |-> tag]
TagsHook(of, system, entries) == [kind |-> "tags", of |-> of, system |-> system, entries |-> entries]
OutputsHook(of, entries) == [kind |-> "outputs", of |-> of, system |-> NoText, entries |-> entries]
InnerTags ==
  { TagsHook("nested", "inner", <<>>), TagsHook("nested", NoText, <<TextAt("job", "job")>>),
    TagsHook("nested", "inner", <<TextAt("job", "job")>>) }
OuterTags ==
  { TagsHook("system", "outer", <<>>), TagsHook("system", "outer", <<TextAt("api", "api")>>),
    TagsHook("system", NoText, <<TextAt("nested", "nested"), TextAt("api", "api")>>),
    TagsHook("system", "outer", <<TextAt("api", "api"), TextAt("job", "nested")>>),
    TagsHook("system", "outer", <<TextAt("api", "bad")>>) }
Url(at, target) == [name |-> "Url", at |-> at, ref |-> target]
InnerOutputs == {OutputsHook("nested", <<Url("job", "job")>>), OutputsHook("nested", <<Url(NoText, "api")>>)}
OuterOutputs ==
  { OutputsHook("system", <<Url(NoText, NoText), [Url("api", "api") EXCEPT !.name = "Arn"]>>),
    OutputsHook("system", <<Url("nested", "nested"), Url("job", NoText)>>),
    OutputsHook("system", <<Url("stack1", "api"), Url("api", NoText)>>) }
MCHookLists ==
  {<<>>} \cup {<<h, k>> : h \in InnerTags \cup InnerOutputs, k \in OuterTags \cup OuterOutputs}
    \cup {<<h, k, l>> : h \in InnerTags \cup InnerOutputs, k \in OuterTags, l \in OuterOutputs}

VARIABLE part
Init ==
  /\ StrategyInit /\ BuilderInit /\ NoHooks /\ AlarmInit
  /\ part \in {"strategies", "builders", "hooks", "alarms"}
  /\ part # "strategies" => build.st = "one" /\ build.app = "app1" /\ build.id = <<"A">>
  /\ part # "hooks" => hooks = <<>> /\ owned = {} /\ layout = [c \in Component |-> Top]
  /\ part # "alarms" => Len(call.defs) = 1
Next ==
  /\ UNCHANGED part
  /\ \/ part = "strategies" /\ StrategyNext /\ UNCHANGED <<builderVars, hookVars, alarmVars>>
     \/ part = "builders" /\ BuilderNext /\ UNCHANGED <<strategyVars, hookVars, alarmVars>>
     \/ part = "hooks" /\ HooksNext /\ UNCHANGED <<strategyVars, builderVars, alarmVars>>
     \/ part = "alarms" /\ AlarmNext /\ UNCHANGED <<strategyVars, builderVars, hookVars>>
Spec == Init /\ [][Next]_<<strategyVars, builderVars, hookVars, alarmVars, part>>
=============================================================================
