---------------------------- MODULE CreateAlarms ----------------------------
(***************************************************************************)
(* createAlarms of @composurecdk/cloudwatch: the loop every builder ends   *)
(* with, which turns alarm definitions (the recommended ones it derived    *)
(* and the custom ones of the user) into constructs, one by one.           *)
(***************************************************************************)
EXTENDS Positions

CONSTANTS
  AlarmCalls,   \* calls to explore: scope, base id and list of definitions
  Derived,      \* construct suffix of a key: `${capitalize(key)}Alarm`
  Slug,         \* kebab-case of ids and keys, as path segments
  NoId, NoName, \* a definition without constructId, without alarmName
  MaxName       \* longest alarm name, in segments (255 characters)

\* A name is a list of segments.
IsName(name) == name \in Seq(ToSet(name))

ASSUME AlarmCallAssumption ==
  /\ \A c \in AlarmCalls :
       /\ c.defs \in Seq(ToSet(c.defs))
       /\ \A i \in DOMAIN c.defs :
            /\ c.defs[i].key \in DOMAIN Derived \cap DOMAIN Slug
            /\ c.id \in DOMAIN Slug
            /\ c.defs[i].name = NoName \/ IsName(c.defs[i].name)
  /\ \A key \in DOMAIN Slug : IsName(Slug[key])

VARIABLES
  tree,      \* the alarm constructs: path -> alarm name
  call,      \* the arguments of the running or last call
  next,      \* position in its definitions
  alarms,    \* the record it returns: key -> path
  status,    \* "idle", "creating", "returned" or "threw"
  reason     \* why it threw

createVars == <<tree, call, next, alarms, status, reason>>

Def == call.defs[next]
Bind(f, k, v) == [x \in DOMAIN f \cup {k} |-> IF x = k THEN v ELSE f[x]]

PathOf(d) == <<call.scope, IF d.constructId = NoId THEN <<call.id, Derived[d.key]>>
                                                 ELSE d.constructId>>

\* An explicit name is used verbatim; defaultAlarmName builds the other.
NameOf(d) == IF d.name # NoName THEN d.name
             ELSE <<call.scope>> \o Slug[call.id] \o Slug[d.key]

ValidName(name) == Len(name) \in 1..MaxName

CallCreateAlarms(c) ==
  /\ status # "creating"
  /\ call' = c
  /\ next' = 1
  /\ alarms' = <<>>
  /\ status' = "creating"
  /\ reason' = "none"
  /\ UNCHANGED tree

KeyFree(d) == d.key \notin DOMAIN alarms

CreateAlarm ==
  /\ status = "creating" /\ next <= Len(call.defs)
  /\ KeyFree(Def)
  /\ Def.constructId # <<>>
  /\ ValidName(NameOf(Def))
  /\ PathOf(Def) \notin DOMAIN tree
  /\ tree' = Bind(tree, PathOf(Def), NameOf(Def))
  /\ alarms' = Bind(alarms, Def.key, PathOf(Def))
  /\ next' = next + 1
  /\ UNCHANGED <<call, status, reason>>

\* The checks in the order of the loop body; what the loop created stays.
CreateAlarmThrows ==
  /\ status = "creating" /\ next <= Len(call.defs)
  /\ \/ ~KeyFree(Def) /\ reason' = "DuplicateKey"
     \/ KeyFree(Def) /\ Def.constructId = <<>> /\ reason' = "EmptyConstructId"
     \/ KeyFree(Def) /\ Def.constructId # <<>> /\ ~ValidName(NameOf(Def)) /\ reason' = "InvalidName"
     \/ /\ KeyFree(Def) /\ Def.constructId # <<>> /\ ValidName(NameOf(Def))
        /\ PathOf(Def) \in DOMAIN tree
        /\ reason' = "ConstructExists"
  /\ status' = "threw"
  /\ UNCHANGED <<tree, call, next, alarms>>

CreateAlarmsReturns ==
  /\ status = "creating" /\ next > Len(call.defs)
  /\ status' = "returned"
  /\ UNCHANGED <<tree, call, next, alarms, reason>>

CreateInit ==
  /\ tree = <<>> /\ alarms = <<>> /\ next = 1
  /\ call \in AlarmCalls
  /\ status = "idle" /\ reason = "none"

CreateNext ==
  \/ \E c \in AlarmCalls : CallCreateAlarms(c)
  \/ CreateAlarm \/ CreateAlarmThrows \/ CreateAlarmsReturns
-----------------------------------------------------------------------------
(* What create-alarms.ts:13 says: "Validates that all definition keys are   *)
(* unique before creating alarms".                                          *)
DuplicateKeyCreatesNothing ==
  status = "threw" /\ reason = "DuplicateKey" => DOMAIN alarms = {}
=============================================================================
