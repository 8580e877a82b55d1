---------------------------- MODULE TopicPolicies ----------------------------
(***************************************************************************)
(* topicPolicyConflictPolicy() of sns: an aspect that walks the tree and   *)
(* remembers which policy resource was the first to target a topic.  A     *)
(* later one that targets the same topic is reported: synth throws, or the *)
(* resource is annotated and the walk goes on.  The memory outlives a      *)
(* synth, and policies may be added before the next one.                   *)
(***************************************************************************)
EXTENDS Naturals, Sequences

CONSTANTS
  Walk,           \* the policy resources, in the order in which the tree is walked
  TopicsOf        \* the topics each one lists, as the resource addresses them:
                  \* <<"any", arn>> for a literal ARN, <<stack, name>> for a reference

ASSUME TopicPolicyAssumption ==
  /\ Walk \in Seq({Walk[i] : i \in DOMAIN Walk}) /\ Walk # <<>>
  /\ \A i, j \in DOMAIN Walk : Walk[i] = Walk[j] => i = j

VARIABLES
  onViolation,    \* "throw" or "warn"
  present,        \* the policy resources in the tree
  claims,         \* the resource that claimed a topic first
  annotated,      \* the resources with a warning
  walked,         \* where the walk is; 0 between synths
  synths,         \* number of synths so far
  synth           \* the tree as it is: "unsynthesised", "ended", "threw"

topicPolicyVars == <<onViolation, present, claims, annotated, walked, synths, synth>>

NoTopicPolicies ==
  /\ onViolation \in {"throw", "warn"} /\ present = {} /\ claims = <<>> /\ annotated = {}
  /\ walked = 0 /\ synths = 0 /\ synth = "unsynthesised"

-----------------------------------------------------------------------------
AddTopicPolicy ==
  /\ walked = 0 /\ synths < 2 /\ synth' = "unsynthesised"
  /\ \E i \in DOMAIN Walk : Walk[i] \notin present /\ present' = present \cup {Walk[i]}
  /\ UNCHANGED <<onViolation, claims, annotated, walked, synths>>

SynthTopics ==
  /\ walked = 0 /\ synths < 2
  /\ walked' = 1 /\ synths' = synths + 1 /\ synth' = "unsynthesised"
  /\ UNCHANGED <<onViolation, present, claims, annotated>>

\* Mutant of Conflict: a resource that meets its own claim is reported too.
AnyClaim(node) == DOMAIN claims \cap TopicsOf[node] # {}
Conflict(node) == \E key \in DOMAIN claims \cap TopicsOf[node] : claims[key] # node

Claim(node, keys) ==
  claims' = [key \in DOMAIN claims \cup keys |-> IF key \in DOMAIN claims THEN claims[key] ELSE node]

Resource == Walk[walked]
GoOn ==
  /\ walked' = (IF walked = Len(Walk) THEN 0 ELSE walked + 1)
  /\ synth' = (IF walked = Len(Walk) THEN "ended" ELSE synth)

VisitPolicy ==
  /\ walked # 0 /\ ~(Resource \in present /\ Conflict(Resource))
  /\ Claim(Resource, IF Resource \in present THEN TopicsOf[Resource] ELSE {}) /\ GoOn
  /\ UNCHANGED <<onViolation, present, annotated, synths>>

WarnOfConflict ==
  /\ walked # 0 /\ Resource \in present /\ Conflict(Resource) /\ onViolation = "warn"
  /\ Claim(Resource, TopicsOf[Resource]) /\ annotated' = annotated \cup {Resource} /\ GoOn
  /\ UNCHANGED <<onViolation, present, synths>>

\* What stands before the conflict in its list has been claimed.
ThrowConflict ==
  /\ walked # 0 /\ Resource \in present /\ Conflict(Resource) /\ onViolation = "throw"
  /\ \E some \in SUBSET TopicsOf[Resource] : Claim(Resource, some)
  /\ walked' = 0 /\ synth' = "threw"
  /\ UNCHANGED <<onViolation, present, annotated, synths>>

TopicPolicyNext ==
  AddTopicPolicy \/ SynthTopics \/ VisitPolicy \/ WarnOfConflict \/ ThrowConflict

TopicPolicySpec == NoTopicPolicies /\ [][TopicPolicyNext]_topicPolicyVars

-----------------------------------------------------------------------------
TopicPolicyTypeOK ==
  /\ onViolation \in {"throw", "warn"}
  /\ annotated \subseteq present /\ present \subseteq {Walk[i] : i \in DOMAIN Walk}
  /\ \A key \in DOMAIN claims : claims[key] \in present
  /\ walked \in 0..Len(Walk)
  /\ synth \in {"unsynthesised", "ended", "threw"}

Replace(m, n) == m # n /\ TopicsOf[m] \cap TopicsOf[n] # {}

(***************************************************************************)
(* When a synth has ended, of two resources in the tree that address one   *)
(* topic alike at least one is annotated, whichever was added first and    *)
(* visited first; a synth throws, and a resource is annotated, only for a  *)
(* conflict with another one, however often the tree was walked.           *)
(***************************************************************************)
ConflictsReported ==
  /\ synth = "ended" =>
       \A m, n \in present : Replace(m, n) => onViolation = "warn" /\ {m, n} \cap annotated # {}
  /\ synth = "threw" => \E m, n \in present : Replace(m, n)
  /\ \A n \in annotated : \E m \in present : Replace(m, n)
=============================================================================
