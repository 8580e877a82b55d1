----------------------------- MODULE MCLambda -----------------------------
(* Functions that consume a queue and a table, with each way to get a role,  *)
(* to lose a ref and to wait.  TLC compares the ids of the other builders    *)
(* here (PlanIdsApart), apart from the run of MCServices, which is to come   *)
(* upon ids that are alike in its own way.                                   *)
EXTENDS LambdaFunction, Catalogue, TLC

Plain == [seams |-> {}, configurator |-> <<>>, role |-> "role", ownLogs |-> FALSE,
          environment |-> {}, grants |-> <<>>, sources |-> <<>>, disabled |-> {},
          custom |-> <<>>, timeout |-> Unset, reserved |-> Unset, onDeploy |-> <<>>]
Call(how, chained, name) == [how |-> how, chained |-> chained, name |-> name]
From(key, of, kind) == [key |-> key, of |-> of, kind |-> kind]
OnDeploy(wait, after) == <<[wait |-> wait, after |-> after]>>
Orders == From("orders", "queue", "sqs")
Changes == From("changes", "table", "dynamodb")
Worker == [Plain EXCEPT !.grants = <<"bucket", "table">>, !.sources = <<Orders, Changes>>,
                        !.timeout = 10, !.environment = {"bucket"}]

\* How the role comes about.
RoleSeams ==
  {[Worker EXCEPT !.seams = s] : s \in SUBSET Seams}
\* What a configurator does, without chaining.
Configured ==
  {[Plain EXCEPT !.seams = {"configureRole"}, !.configurator = calls] :
     calls \in {<<Call("add", FALSE, "Extra"), Call("prop", FALSE, "LogsWriter")>>,
                <<Call("add", FALSE, "LogsWriter")>>}}
Chains == {[Plain EXCEPT !.seams = {"configureRole"},
              !.configurator = <<Call("add", FALSE, "Extra"), Call("add", TRUE, "LogsWriter")>>]}
\* The deployment waits, or refuses to.
Waits ==
  {[Worker EXCEPT !.timeout = t, !.onDeploy = OnDeploy(w, {"bucket"})] :
     t \in {Unset, Token, 10, 840, 841, 869, 870, 900}, w \in {Unset, Token, 10, 870, 871}}
\* Sources and alarms that clash, or are not there.
Watched ==
  {[Worker EXCEPT !.sources = s] :
     s \in {<<From("raw", "queue", "unknown")>>, <<Orders, From("raw", "queue", "unknown")>>,
            <<Orders, From("Orders", "table", "dynamodb")>>}}
  \cup {[Worker EXCEPT !.custom = <<c>>, !.disabled = d, !.reserved = r] :
          c \in {<<"mine">>, <<"orders", "DroppedEvents">>},
          d \in {{}, {"all"}, {"DroppedEvents", "iteratorAge"}}, r \in {Token, 5}}
MCConfigs == RoleSeams \cup Configured \cup Chains \cup Waits \cup Watched
ChainedConfigs == Chains
MCContexts == {{"role", "bucket", "queue", "table"}, {"role", "bucket", "queue"}, {"role", "queue", "table"}}
MCVisibilities == {Unset, Token, Imported, 59, 60}
MCCapital == [w \in {"errors", "throttles", "duration", "concurrentExecutions", "iteratorAge",
                     "orders", "Orders", "changes", "raw", "mine"} |->
                IF w = "orders" THEN "Orders" ELSE w]
=============================================================================
