-------------------------- MODULE AccountServices --------------------------
(***************************************************************************)
(* The builders of an account's own resources: iam, budgets, ses and       *)
(* custom-resources.                                                       *)
(***************************************************************************)
EXTENDS Plans

(***************************************************************************)
(* iam.  A statement that allows an action on every resource is refused    *)
(* when the role or the policy builds it; a denial never is.               *)
(***************************************************************************)
Statement(o) ==
  When({"statement", "wildcard"} \subseteq o /\ o \cap {"deny", "allowWildcard"} = {},
       Refuse("wildcard resource"))

RoleOptions == {"assumedBy", "boundary", "statement", "wildcard", "deny", "allowWildcard", "grant"}
Role(o) ==
  Needs(o, "assumedBy") \o Ref("assumedBy")
    \o Given(o, "boundary")
    \o Statement(o)
    \o Make("") \o Grants(o)

ManagedPolicyOptions == {"statement", "wildcard", "deny", "allowWildcard"}
ManagedPolicy(o) == Statement(o) \o Make("")

OpenIdConnectProviderOptions == {"url", "http"}
OpenIdConnectProvider(o) ==
  Needs(o, "url") \o When("http" \in o, Refuse("url is not https")) \o Make("")

(***************************************************************************)
(* budgets.  Every topic a notification goes to is opened to the service:  *)
(* one of this app in its own policy, an imported one in a new policy that *)
(* replaces what it has.  Topics are told apart by their path.             *)
(***************************************************************************)
BudgetOptions ==
  {"limit", "badCurrency", "topic", "emails", "imported", "again", "policyOff", "charges",
   "badCharges"} \cup AlarmOptions

ResolveBudgetAlarms(o) ==
  When("quiet" \notin o /\ {"charges", "badCharges"} \subseteq o, Refuse("alarm currency"))
BudgetAlarms(o) ==
  ResolveBudgetAlarms(o) \o Unmeasured(o)
    \o When("charges" \in o, Recommended(o, <<"EstimatedCharges">>))
    \o Custom(o)

\* "again" names the topic in a second notification, "emails" are more than ten
\* addresses in it.
BuildNotifications(o) ==
  Given(o, "topic") \o When("again" \in o,
    When("emails" \in o, Refuse("too many emails")) \o Given(o, "topic"))

\* Mutant of BudgetsTopicPolicies: a topic named twice is not recognised.
PolicyPerNotification(o) ==
  LET open == IF "imported" \in o THEN Make("TopicPolicy") ELSE Touch("topic") IN
  When("topic" \in o /\ "policyOff" \notin o, open \o When("again" \in o, open))
BudgetsTopicPolicies(o) ==
  When("topic" \in o /\ "policyOff" \notin o,
       IF "imported" \in o THEN Make("TopicPolicy")
       ELSE Touch("topic") \o When("again" \in o, Touch("topic")))

Budget(o) ==
  Needs(o, "limit") \o When("badCurrency" \in o, Refuse("limit currency"))
    \o BuildNotifications(o)
    \o Make("") \o BudgetsTopicPolicies(o) \o BudgetAlarms(o)

BudgetAlarmOptions == {"budget", "charges", "badCharges"} \cup AlarmOptions
BudgetAlarm(o) ==
  Given(o, "budget") \o ResolveBudgetAlarms(o)
    \o When(o \cap AddAlarm # {}, Needs(o, "budget")) \o BudgetAlarms(o)

(***************************************************************************)
(* ses.  The records an identity publishes are a zone of their own under   *)
(* the scope; the zone is resolved when they are built.                    *)
(***************************************************************************)
EmailIdentityOptions == {"domain", "email", "zone", "byo", "publicKey", "publish", "inboundMx"}

DkimSpec(o) ==
  When("zone" \in o, Refuse("DKIM of a zone"))
    \o When("email" \in o, Refuse("DKIM of an address"))
    \o When("byo" \in o /\ "publicKey" \notin o, Refuse("no public key"))
PublishDkim(o) == When("publish" \in o, Ref("dkimZone") \o Make("DkimRecords"))
PublishInboundMx(o) == When("inboundMx" \in o, Ref("mxZone") \o Make("InboundMx"))

\* domain(), email() and publicHostedZone() replace each other: one is in o.
EmailIdentity(o) ==
  When(Cardinality(o \cap {"domain", "email", "zone"}) # 1, Refuse("no identity"))
    \o Given(o, "zone")
    \o When("publish" \in o, DkimSpec(o))
    \o When({"inboundMx", "email"} \subseteq o, Refuse("MX of an address"))
    \o Make("") \o PublishDkim(o) \o PublishInboundMx(o)

\* The action of a rule is resolved when the rule is added, and opens its key to
\* the service while it is resolved.
ReceiptRuleSetOptions == {"rule", "s3", "key", "rule2", "noActivate"}
S3Action(o) == Ref("bucket") \o When("key" \in o, Ref("key") \o Touch("key"))
ReceiptRule(o, name) == When("s3" \in o, S3Action(o)) \o Make("/" \o name)
Activate(o) ==
  When("noActivate" \notin o,
       Make("ActivationLogs") \o MakeInside("ActivationFn")
         \o MakeInside("ActivationProvider") \o Make("Activation"))
ReceiptRuleSet(o) ==
  Make("") \o When("rule" \in o, ReceiptRule(o, "Rule"))
    \o When("rule2" \in o, ReceiptRule(o, "Rule2")) \o Activate(o)

ReceiptFilterOptions == {"ip"}
ReceiptFilter(o) == Make("")
AllowListReceiptFilter(o) == Needs(o, "ip") \o Make("")

(***************************************************************************)
(* custom-resources.  What the resource depends on is resolved once it     *)
(* exists.                                                                 *)
(***************************************************************************)
AwsCustomResourceOptions == {"call", "parameter", "policy", "allow", "role", "dependsOn"}
ResolvePolicy(o) ==
  When({"policy", "allow"} \subseteq o, Refuse("allow and policy"))
    \o When(o \cap {"policy", "allow", "role"} = {}, Refuse("no policy"))
AwsCustomResource(o) ==
  Needs(o, "call") \o ResolvePolicy(o) \o Given(o, "parameter")
    \o Make("") \o Given(o, "dependsOn")
=============================================================================
