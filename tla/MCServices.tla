----------------------------- MODULE MCServices -----------------------------
(* Five parts that share nothing and are checked side by side: the build of  *)
(* every service builder with every set of at most MaxOptions options; zones *)
(* of one to three records; the deployments of a versioned state machine     *)
(* with one gradual alias and one that moves at once; the receipt rule sets  *)
(* of two stacks; four topic policies in two stacks.                         *)
EXTENDS ServiceBuild, ZoneRecords, VersionRollout, RuleSetActivation, TopicPolicies

CONSTANT MaxOptions       \* how many options of a builder are given together
UpTo(S) ==
  LET upTo[n \in 0..MaxOptions] ==
        IF n = 0 THEN {{}}
        ELSE LET smaller == upTo[n - 1] IN smaller \cup {o \cup {x} : o \in smaller, x \in S}
  IN upTo[MaxOptions]
MCConfigurations == UNION {{s} \X UpTo(OptionsOf[s]) : s \in Service}

Rec(type, name, values, ttl, id) ==
  [type |-> type, name |-> name, values |-> values, ttl |-> ttl, id |-> id]
MCRecords ==
  { Rec("A", "www", <<"1">>, "none", "none"), Rec("A", "www", <<"1", "2">>, "short", "none"),
    Rec("A", "www", <<"3">>, "long", "apex"), Rec("A", "@", <<"1">>, "none", "none"),
    Rec("A", "Apex", <<"2">>, "none", "none"), Rec("AAAA", "www", <<"6">>, "none", "none"),
    Rec("AliasA", "www", <<"cdn">>, "none", "none"),
    Rec("AliasAAAA", "www", <<"cdn">>, "none", "none"),
    Rec("CNAME", "www", <<"cdn">>, "none", "none"), Rec("CNAME", "@", <<"cdn">>, "none", "none"),
    Rec("CNAME", "token", <<"dkim">>, "none", "none"),
    Rec("CNAME", "token", <<"dkim">>, "none", "dkim1"),
    Rec("MX", "@", <<"10 mail">>, "none", "none"), Rec("MX", "@", <<"10 mail">>, "long", "none"),
    Rec("TXT", "@", <<>>, "none", "none"), Rec("NS", "@", <<"ns1">>, "none", "none"),
    Rec("NS", "0/25", <<"ns1">>, "none", "none"), Rec("NS", "0-25", <<"ns1">>, "none", "none") }
MCZoneLists == UNION {[1..n -> MCRecords] : n \in 1..3}
MCTokenNames == {"token"}

MCWalk == <<"own", "extra", "wide", "far">>
MCTopicsOf ==
  ("own" :> {<<"stack1", "alerts">>}) @@
  ("extra" :> {<<"stack1", "alerts">>, <<"any", "arn">>}) @@
  ("wide" :> {<<"any", "arn">>, <<"stack1", "jobs">>}) @@
  ("far" :> {<<"stack2", "alerts">>, <<"any", "arn">>})

VARIABLE part
Init ==
  /\ NoService /\ NoZone /\ NoRollout /\ NoMail /\ NoTopicPolicies
  /\ part \in {"service", "zone", "rollout", "mail", "topic"}
  /\ part # "topic" => onViolation = "throw"
Next ==
  /\ UNCHANGED part
  /\ \/ /\ part = "service" /\ ServiceNext
        /\ UNCHANGED <<zoneVars, rolloutVars, activationVars, topicPolicyVars>>
     \/ /\ part = "zone" /\ ZoneNext
        /\ UNCHANGED <<serviceVars, rolloutVars, activationVars, topicPolicyVars>>
     \/ /\ part = "rollout" /\ RolloutNext
        /\ UNCHANGED <<serviceVars, zoneVars, activationVars, topicPolicyVars>>
     \/ /\ part = "mail" /\ ActivationNext
        /\ UNCHANGED <<serviceVars, zoneVars, rolloutVars, topicPolicyVars>>
     \/ /\ part = "topic" /\ TopicPolicyNext
        /\ UNCHANGED <<serviceVars, zoneVars, rolloutVars, activationVars>>
Spec ==
  Init /\ [][Next]_<<serviceVars, zoneVars, rolloutVars, activationVars, topicPolicyVars, part>>

-----------------------------------------------------------------------------
(***************************************************************************)
(* Every variable of the five parts keeps its type: a build ends with a    *)
(* result or a throw, and is repeated once at most; record sets, versions, *)
(* aliases and the active rule set are ones that were declared or          *)
(* published; what claims a topic, or is annotated for it, is in the tree. *)
(***************************************************************************)
ServicesTypeOK ==
  ServiceTypeOK /\ ZoneTypeOK /\ RolloutTypeOK /\ ActivationTypeOK /\ TopicPolicyTypeOK
=============================================================================
