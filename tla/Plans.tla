------------------------------- MODULE Plans -------------------------------
(***************************************************************************)
(* The words in which the build() of a service builder is written down.    *)
(* Every builder of the library runs the same few kinds of step: resolve a *)
(* ref, refuse its own configuration, make a construct, change a resource  *)
(* that belongs to another component.  A plan is the sequence of them for  *)
(* one configuration: o is the set of options switched on, and the key of  *)
(* a recommended alarm is in o when the program switched that alarm off.   *)
(* A construct is named by what the code appends to the builder's id.      *)
(***************************************************************************)
EXTENDS Naturals, Sequences, FiniteSets, SequencesExt

Step(do, what, kept) == <<[do |-> do, what |-> what, kept |-> kept]>>

Ref(key) == Step("ref", key, FALSE)
Refuse(why) == Step("refuse", why, FALSE)
Touch(what) == Step("touch", what, FALSE)
When(cond, steps) == IF cond THEN steps ELSE <<>>

\* A ref of the props that is resolved if it is given; one that must be given.
Given(o, key) == When(key \in o, Ref(key))
Needs(o, key) == When(key \notin o, Refuse("no " \o key))

Make(suffix) == Step("make", suffix, TRUE)

\* A construct the result does not hold and that is not under one it holds.
MakeInside(suffix) == Step("make", suffix, FALSE)

\* The result holds a construct that another component made.
Hold(key) == Step("hold", key, TRUE)

\* A construct of the stack that every builder in the stack shares.
Share(name, kept) == Step("share", name, kept)

Each(keys, Op(_)) == FlattenSeq([i \in DOMAIN keys |-> Op(keys[i])])

(***************************************************************************)
(* createAlarms(): one alarm per definition, the recommended ones first.   *)
(* "quiet" is recommendedAlarms(false).  addAlarm() is called with the key *)
(* "custom", or "Custom": a key is compared as it is, and its first letter *)
(* is made a capital in the id.  "noMetric" is a definition without a      *)
(* metric, noticed when the definitions are resolved, before any alarm;    *)
(* "badAlarm" one whose key is taken or whose construct id is empty,       *)
(* noticed when its turn comes.                                            *)
(***************************************************************************)
AddAlarm == {"custom", "Custom", "noMetric", "badAlarm"}
AlarmOptions == AddAlarm \cup {"quiet"}
Alarm(suffix) == Step("alarm", suffix \o "Alarm", TRUE)
AlarmInside(suffix) == Step("alarm", suffix \o "Alarm", FALSE)
Recommended(o, keys) ==
  When("quiet" \notin o, Each(keys, LAMBDA k : When(k \notin o, Alarm(k))))
Unmeasured(o) == When("noMetric" \in o, Refuse("alarm without metric"))
Custom(o) ==
  When("custom" \in o, Alarm("Custom")) \o When("Custom" \in o, Alarm("Custom"))
    \o When("badAlarm" \in o, Refuse("alarm key"))
Alarms(o, keys) == Unmeasured(o) \o Recommended(o, keys) \o Custom(o)

\* Alarms whose ids start with something else than the builder's id.
AlarmsOf(o, owner, keys) ==
  When("quiet" \notin o, Each(keys, LAMBDA k : Alarm(owner \o k)))

\* GrantQueue.applyTo(): each grant resolves its resource and writes to it.
Grants(o) == When("grant" \in o, Ref("granted") \o Touch("granted"))
=============================================================================
