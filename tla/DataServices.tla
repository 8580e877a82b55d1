---------------------------- MODULE DataServices ----------------------------
(***************************************************************************)
(* The builders that keep data: s3, sqs, dynamodb, kinesis, kms, logs and  *)
(* xray.  Each service has its options, the keys of its recommended alarms *)
(* and its plan.                                                           *)
(***************************************************************************)
EXTENDS Plans

(***************************************************************************)
(* s3.  The access-log bucket is a bucket of the same builder without logs *)
(* of its own; of its result only the bucket is handed on.                 *)
(***************************************************************************)
BucketOptions ==
  {"logsOff", "logsTo", "logsConfigure", "key", "metrics"} \cup AlarmOptions
BucketAlarmKeys == <<"ServerErrors:all", "ClientErrors:all">>
BucketAlarms(o) ==
  Unmeasured(o) \o When("metrics" \in o, Recommended(o, BucketAlarmKeys)) \o Custom(o)

\* "logsConfigure" is a callback that asks the sub-builder for request metrics:
\* they come with alarms of that bucket.
AccessLogsBucket(o) ==
  Make("AccessLogs")
    \o When("logsConfigure" \in o,
            Each(BucketAlarmKeys, LAMBDA k : AlarmInside("AccessLogs" \o k)))

AccessLogs(o) ==
  IF "logsOff" \in o THEN <<>>
  ELSE IF "logsTo" \in o THEN When("logsConfigure" \in o, Refuse("configure with destination"))
  ELSE AccessLogsBucket(o)

Bucket(o) ==
  AccessLogs(o) \o Given(o, "key") \o Make("") \o BucketAlarms(o)

BucketDeploymentOptions == {"bucket", "sources", "distribution", "logGroup"}
BucketDeployment(o) ==
  Given(o, "bucket")
    \o Needs(o, "bucket") \o Needs(o, "sources")
    \o Given(o, "distribution")
    \o When("logGroup" \notin o, Make("LogGroup"))
    \o Make("")

(***************************************************************************)
(* sqs.  The role of the queue is fixed when the builder is created: fifo  *)
(* or not, dead-letter queue or not.  "ask..." is an alarm configured by   *)
(* name without a threshold.                                               *)
(***************************************************************************)
QueueOptions ==
  {"fifo", "dlq", "fifoProp", "badFifo", "redrive", "otherType", "key",
   "askAge", "askVisible", "tokenRetention"} \cup AlarmOptions
Age == "ApproximateAgeOfOldestMessage"
InFlight == "ApproximateNumberOfMessagesNotVisible"
Visible == "ApproximateNumberOfMessagesVisible"

QueueRefusals(o) ==
  When("fifo" \notin o /\ "fifoProp" \in o, Refuse("fifo property on a standard queue"))
    \o When({"fifo", "badFifo"} \subseteq o, Refuse("fifo name or throughput"))
    \o When({"dlq", "redrive"} \subseteq o, Refuse("redrive on a dead-letter queue"))
    \o When("dlq" \notin o /\ {"redrive", "otherType"} \subseteq o,
            Refuse("redrive to a queue of the other type"))

\* What a profile switches on, and what it has a threshold for: a dead-letter
\* queue's age threshold is derived from a retention period that is no token.
TokenDlq(o) == {"dlq", "tokenRetention"} \subseteq o
QueueProfile(o) ==
  IF "dlq" \in o
  THEN [on |-> {Visible} \cup (IF TokenDlq(o) THEN {} ELSE {Age}),
        known |-> {InFlight, Visible} \cup (IF TokenDlq(o) THEN {} ELSE {Age})]
  ELSE [on |-> {Age, InFlight}, known |-> {Age, InFlight}]
QueueAlarms(o) ==
  LET asked == {k \in {Age} : "askAge" \in o} \cup {k \in {Visible} : "askVisible" \in o}
      on == Each(<<Age, InFlight, Visible>>,
                 LAMBDA k : When(k \in QueueProfile(o).on \cup asked, <<k>>))
  IN When("quiet" \notin o /\ ~(asked \subseteq QueueProfile(o).known),
          Refuse("no threshold for an alarm asked for"))
       \o Alarms(o, on)

Queue(o) ==
  Given(o, "key") \o QueueRefusals(o) \o Make("") \o QueueAlarms(o)

(***************************************************************************)
(* dynamodb, kinesis, kms, logs.  A table of either generation has the     *)
(* same alarms; an alias is a child of its key.                            *)
(***************************************************************************)
TableOptions == {"key"} \cup AlarmOptions
TableAlarmKeys == <<"SystemErrors", "ReadThrottleEvents", "WriteThrottleEvents">>
TableAlarms(o) == Alarms(o, TableAlarmKeys)
Table(o) == Given(o, "key") \o Make("") \o TableAlarms(o)
TableV2(o) == Given(o, "key") \o Make("") \o TableAlarms(o)

StreamOptions == {"badName", "key"} \cup AddAlarm
Stream(o) ==
  When("badName" \in o, Refuse("stream name"))
    \o Given(o, "key")
    \o Make("") \o Unmeasured(o) \o Custom(o)
    \o When("key" \in o, Hold("key"))

KeyOptions == {"expiry"} \cup AlarmOptions
KeyAlarms(o) ==
  Unmeasured(o) \o When("expiry" \in o, Recommended(o, <<"KeyMaterialExpiration">>))
    \o Custom(o)
Key(o) == Make("") \o KeyAlarms(o)

LogGroupOptions == {"key"}
LogGroup(o) == Given(o, "key") \o Make("")

\* xray: the policy first, the setting that needs it after; both are returned.
TransactionSearch(o) == Make("LogsPolicy") \o Make("")
=============================================================================
