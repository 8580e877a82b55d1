---------------------------- MODULE ServiceProofs ----------------------------
(***************************************************************************)
(* Proofs about the service packages.  First what services remember beyond *)
(* the code that fills it: the active receipt rule set of an account       *)
(* (RuleSetActivation), the claims of the topic policy aspect              *)
(* (TopicPolicies), and the versions of a state machine that aliases and   *)
(* the pruner share (VersionRollout); for any number of stacks, of         *)
(* policies and topics, and of aliases, retention limits and deployments,  *)
(* whichever of them fail and are rolled back.  Then the builds of the     *)
(* services (ServiceBuild): the discipline of a plan, that each of the 61  *)
(* plans keeps it with any options, and what it means for a caller.  Last  *)
(* the five parts side by side (MCServices).                               *)
(***************************************************************************)
EXTENDS MCServices, Catalogue, ZoneProofs


(***************************************************************************)
(* Receipt rule sets.                                                      *)
(***************************************************************************)
Looked == {"cleaningLooked", "deletingLooked"}
MailTypes ==
  /\ ActivationTypeOK
  /\ named \in [MailStacks -> {0, 1}]
  /\ saw \in [MailStacks -> MailStacks \X {0, 1} \cup {Unset}]
  /\ settled \in [MailStacks -> BOOLEAN]

\* As long as nobody else activates, what a deletion saw active is active, or
\* another deletion has cleared the slot.
SawHolds ==
  \A s \in MailStacks : mail[s] \in Looked /\ settled[s] => active \in {saw[s], Unset}

MailInv == MailTypes /\ SawHolds

(* Every handler keeps it: an activation unsettles the deletions of all    *)
(* other stacks, and its own stack has none that has looked.               *)
LEMMA MailInvStep == MailInv /\ [ActivationNext]_activationVars => MailInv'
<1> SUFFICES ASSUME MailInv, [ActivationNext]_activationVars PROVE MailInv'
  OBVIOUS
<1> USE DEF MailInv, MailTypes, ActivationTypeOK, SawHolds, Looked, To
<1>1. ASSUME NEW s \in MailStacks, DeployMail(s) PROVE MailInv'
  BY <1>1 DEF DeployMail, SetActive, RuleSet
<1>2. ASSUME NEW s \in MailStacks, DeployEnds(s) PROVE MailInv'
  BY <1>2 DEF DeployEnds
<1>3. ASSUME NEW s \in MailStacks, RenameSet(s) PROVE MailInv'
  <2>1. /\ mail' = [mail EXCEPT ![s] = "cleaning"] /\ saw' = saw
        /\ named' = [named EXCEPT ![s] = 1 - named[s]] /\ active' = <<s, 1 - named[s]>>
        /\ settled' = [t \in MailStacks |-> IF t = s THEN settled[t] ELSE FALSE]
    BY <1>3 DEF RenameSet, SetActive, Former
  <2>2. 1 - named[s] \in {0, 1}
    OBVIOUS
  <2>3. MailTypes'
    BY <2>1, <2>2
  <2>4. \A t \in MailStacks : mail'[t] \in Looked => ~settled'[t]
    BY <2>1
  <2> QED
    BY <2>3, <2>4
<1>4. ASSUME NEW s \in MailStacks, DeleteMail(s) PROVE MailInv'
  BY <1>4 DEF DeleteMail
<1>5. ASSUME NEW s \in MailStacks, Looks(s) PROVE MailInv'
  BY <1>5 DEF Looks
<1>6. ASSUME NEW s \in MailStacks, Clears(s) PROVE MailInv'
  BY <1>6 DEF Clears
<1>7. CASE UNCHANGED activationVars
  BY <1>7 DEF activationVars
<1> QED
  BY <1>1, <1>2, <1>3, <1>4, <1>5, <1>6, <1>7 DEF ActivationNext

(* The active slot holds the set of a stack, under one of its two names,   *)
(* or nothing, and every stack is in one of the phases of its resource.    *)
THEOREM ActivationTypes == ActivationSpec => []ActivationTypeOK
<1>1. NoMail => MailInv
  BY DEF NoMail, MailInv, MailTypes, ActivationTypeOK, SawHolds, Looked
<1>2. MailInv => ActivationTypeOK
  BY DEF MailInv, MailTypes
<1> QED
  BY <1>1, <1>2, MailInvStep, PTL DEF ActivationSpec

(* When no other stack activates between the two calls of a deletion, what *)
(* it clears is the rule set the deletion is about (activation-handler.ts  *)
(* compares the name it described with its own before it clears).          *)
THEOREM ClearsItsOwn == ActivationSpec => ClearsOnlyItsOwn
<1> DEFINE Own ==
      \A s \in MailStacks :
        mail[s] \in {"cleaningLooked", "deletingLooked"} /\ mail'[s] # mail[s] /\ settled[s]
          => active' \in {active, Unset} /\ (active' # active => active = Deleted(s))
<1>1. NoMail => MailInv
  BY DEF NoMail, MailInv, MailTypes, ActivationTypeOK, SawHolds, Looked
<1>2. MailInv /\ [ActivationNext]_activationVars => Own
  <2> SUFFICES ASSUME MailInv, [ActivationNext]_activationVars, NEW s \in MailStacks,
                      mail[s] \in Looked, mail'[s] # mail[s], settled[s]
               PROVE  active' \in {active, Unset} /\ (active' # active => active = Deleted(s))
    BY DEF Looked
  <2>1. PICK t \in MailStacks :
          DeployMail(t) \/ DeployEnds(t) \/ RenameSet(t) \/ DeleteMail(t) \/ Looks(t) \/ Clears(t)
    BY DEF ActivationNext, activationVars
  <2>2. t = s
    BY <2>1 DEF DeployMail, DeployEnds, RenameSet, DeleteMail, Looks, Clears, To, MailInv,
                MailTypes, ActivationTypeOK
  <2>3. Clears(s)
    BY <2>1, <2>2 DEF DeployMail, DeployEnds, RenameSet, DeleteMail, Looks, Looked
  <2> QED
    BY <2>3 DEF Clears, MailInv, SawHolds, Looked
<1> HIDE DEF Own
<1>3. ActivationSpec => [][Own]_activationVars
  BY <1>1, <1>2, MailInvStep, PTL DEF ActivationSpec
<1> QED
  BY <1>3 DEF Own, ClearsOnlyItsOwn

(***************************************************************************)
(* Topic policies.                                                         *)
(***************************************************************************)
\* A claim is held by a resource of the tree that lists the topic.
ClaimsHeld ==
  \A key \in DOMAIN claims : claims[key] \in present /\ key \in TopicsOf[claims[key]]

\* The walk has done its work on a resource: its topics are claimed, all by the
\* resource itself unless it is annotated.
ClaimsMade(n) ==
  n \in present =>
    /\ TopicsOf[n] \subseteq DOMAIN claims
    /\ n \notin annotated => \A key \in TopicsOf[n] : claims[key] = n

Resources == {Walk[i] : i \in 1..Len(Walk)}
WalkedSoFar ==
  /\ present \subseteq Resources
  /\ walked \in 0..Len(Walk)
  /\ walked # 0 => synth = "unsynthesised" /\ \A i \in 1..walked-1 : ClaimsMade(Walk[i])
  /\ synth = "ended" => \A n \in Resources : ClaimsMade(n)

Reports ==
  /\ annotated # {} => onViolation = "warn"
  /\ \A n \in annotated : \E m \in present : Replace(m, n)
  /\ synth = "threw" => \E m, n \in present : Replace(m, n)

TopicInv == ClaimsHeld /\ WalkedSoFar /\ Reports

(* Claims are never taken over, so what was processed stays processed.     *)
LEMMA ClaimKeeps ==
  ASSUME NEW node, NEW keys, Claim(node, keys), present' = present,
         annotated \subseteq annotated'
  PROVE  \A n : ClaimsMade(n) => ClaimsMade(n)'
BY DEF Claim, ClaimsMade

(* A resource that meets the claim of another one is in conflict with it.  *)
LEMMA ConflictMeans ==
  ASSUME ClaimsHeld, NEW n, Conflict(n)
  PROVE  \E m \in present : Replace(m, n)
BY DEF ClaimsHeld, Conflict, Replace

(* The walk is a sequence of resources.                                    *)
LEMMA WalkIsSequence == Len(Walk) \in Nat \ {0} /\ DOMAIN Walk = 1..Len(Walk)
<1> DEFINE S == {Walk[i] : i \in DOMAIN Walk}
<1>1. Walk \in Seq(S) /\ Walk # <<>>
  BY TopicPolicyAssumption
<1> HIDE DEF S
<1> QED
  BY <1>1

(* Visiting the next resource of the walk keeps the invariant, whether it  *)
(* is in the tree, claimed for, or annotated.                              *)
LEMMA VisitKeeps ==
  ASSUME TopicInv, walked # 0, GoOn, NEW n, n = Walk[walked], NEW keys, Claim(n, keys),
         present' = present, annotated \subseteq annotated',
         keys = IF n \in present THEN TopicsOf[n] ELSE {},
         n \in present /\ Conflict(n) => n \in annotated'
  PROVE  ClaimsHeld' /\ WalkedSoFar'
<1>0. walked \in 1..Len(Walk) /\ synth = "unsynthesised"
  BY WalkIsSequence DEF TopicInv, WalkedSoFar
<1>1. ClaimsHeld'
  BY DEF TopicInv, ClaimsHeld, Claim
<1>2. ClaimsMade(n)'
  <2> SUFFICES ASSUME n \in present
               PROVE  /\ TopicsOf[n] \subseteq DOMAIN claims'
                      /\ n \notin annotated' => \A key \in TopicsOf[n] : claims'[key] = n
    BY DEF ClaimsMade
  <2> QED
    BY DEF Claim, Conflict
<1>3. \A i \in 1..walked : ClaimsMade(Walk[i])'
  <2>1. ASSUME NEW i \in 1..walked-1 PROVE ClaimsMade(Walk[i])'
    <3>1. ClaimsMade(Walk[i])
      BY <2>1 DEF TopicInv, WalkedSoFar
    <3> QED
      BY <3>1, ClaimKeeps
  <2> QED
    BY <1>0, <1>2, <2>1
<1>4. CASE walked = Len(Walk)
  <2>1. walked' = 0 /\ synth' = "ended" /\ 0 \in 0..Len(Walk)
    BY <1>4, WalkIsSequence DEF GoOn
  <2>2. \A m \in Resources : ClaimsMade(m)'
    BY <1>3, <1>4 DEF Resources
  <2> QED
    BY <1>1, <2>1, <2>2 DEF TopicInv, WalkedSoFar
<1>5. CASE walked # Len(Walk)
  <2>1. walked' = walked + 1 /\ synth' = "unsynthesised"
    BY <1>0, <1>5 DEF GoOn
  <2>2. walked' \in 0..Len(Walk) /\ walked' - 1 = walked
    <3>1. walked \in Nat /\ walked <= Len(Walk) /\ Len(Walk) \in Nat
      BY <1>0, WalkIsSequence
    <3>2. walked < Len(Walk)
      BY <1>5, <3>1
    <3> QED
      BY <2>1, <3>1, <3>2
  <2> QED
    BY <1>1, <1>3, <2>1, <2>2 DEF TopicInv, WalkedSoFar
<1> QED
  BY <1>1, <1>4, <1>5

(* Every step keeps the invariant.                                         *)
LEMMA TopicInvStep == TopicInv /\ [TopicPolicyNext]_topicPolicyVars => TopicInv'
<1> SUFFICES ASSUME TopicInv, [TopicPolicyNext]_topicPolicyVars PROVE TopicInv'
  OBVIOUS
<1>1. CASE AddTopicPolicy
  <2>1. /\ walked = 0 /\ synth' = "unsynthesised" /\ present \subseteq present'
        /\ present' \subseteq Resources
        /\ UNCHANGED <<onViolation, claims, annotated, walked, synths>>
    BY <1>1, WalkIsSequence DEF AddTopicPolicy, TopicInv, WalkedSoFar, Resources
  <2> QED
    BY <2>1 DEF TopicInv, ClaimsHeld, WalkedSoFar, Reports, Replace
<1>2. CASE SynthTopics
  <2>1. /\ walked' = 1 /\ synth' = "unsynthesised" /\ 1 \in 0..Len(Walk) /\ 1..walked'-1 = {}
        /\ UNCHANGED <<onViolation, present, claims, annotated>>
    BY <1>2, WalkIsSequence DEF SynthTopics
  <2> QED
    BY <2>1 DEF TopicInv, ClaimsHeld, WalkedSoFar, Reports, Replace
<1>3. CASE VisitPolicy
  <2> DEFINE n == Walk[walked]
             keys == IF n \in present THEN TopicsOf[n] ELSE {}
  <2>1. /\ walked # 0 /\ ~(n \in present /\ Conflict(n)) /\ Claim(n, keys) /\ GoOn
        /\ UNCHANGED <<onViolation, present, annotated, synths>>
    BY <1>3 DEF VisitPolicy, Resource
  <2>2. ClaimsHeld' /\ WalkedSoFar'
    BY <2>1, VisitKeeps
  <2> QED
    BY <2>1, <2>2 DEF TopicInv, Reports, Replace, GoOn
<1>4. CASE WarnOfConflict
  <2> DEFINE n == Walk[walked]
  <2>1. /\ walked # 0 /\ n \in present /\ Conflict(n) /\ onViolation = "warn"
        /\ Claim(n, TopicsOf[n]) /\ annotated' = annotated \cup {n} /\ GoOn
        /\ UNCHANGED <<onViolation, present, synths>>
    BY <1>4 DEF WarnOfConflict, Resource
  <2> HIDE DEF n
  <2>2. \E m \in present : Replace(m, n)
    BY <2>1, ConflictMeans DEF TopicInv
  <2>3. ClaimsHeld' /\ WalkedSoFar'
    BY <2>1, VisitKeeps DEF n
  <2>4. Reports'
    BY <2>1, <2>2 DEF TopicInv, Reports, Replace, GoOn
  <2> QED
    BY <2>3, <2>4 DEF TopicInv
<1>5. CASE ThrowConflict
  <2> DEFINE n == Walk[walked]
  <2>1. PICK some \in SUBSET TopicsOf[n] : Claim(n, some)
    BY <1>5 DEF ThrowConflict, Resource
  <2>2. /\ n \in present /\ Conflict(n) /\ walked' = 0 /\ synth' = "threw"
        /\ UNCHANGED <<onViolation, present, annotated, synths>>
    BY <1>5 DEF ThrowConflict, Resource
  <2> HIDE DEF n
  <2>3. \E m \in present : Replace(m, n)
    BY <2>2, ConflictMeans DEF TopicInv
  <2>4. ClaimsHeld'
    BY <2>1, <2>2 DEF TopicInv, ClaimsHeld, Claim
  <2>5. 0 \in 0..Len(Walk)
    BY WalkIsSequence
  <2> QED
    BY <2>2, <2>3, <2>4, <2>5 DEF TopicInv, WalkedSoFar, Reports, Replace
<1>6. CASE UNCHANGED topicPolicyVars
  BY <1>6 DEF topicPolicyVars, TopicInv, ClaimsHeld, WalkedSoFar, ClaimsMade, Reports, Replace
<1> QED
  BY <1>1, <1>2, <1>3, <1>4, <1>5, <1>6 DEF TopicPolicyNext

(* At every moment of every synth the invariant holds.                     *)
LEMMA TopicInvariant == TopicPolicySpec => []TopicInv
<1>1. NoTopicPolicies => TopicInv
  <2>1. 0 \in 0..Len(Walk)
    BY WalkIsSequence
  <2> QED
    BY <2>1 DEF NoTopicPolicies, TopicInv, ClaimsHeld, WalkedSoFar, Reports
<1> QED
  BY <1>1, TopicInvStep, PTL DEF TopicPolicySpec

(* Of two policies of the tree that target one topic at least one is       *)
(* annotated when a synth has ended; and nothing is reported, thrown or    *)
(* annotated, without two policies that do, in any synth of the same app   *)
(* (the aspect keeps its map of claims for as long as it lives).           *)
THEOREM TopicConflicts == TopicPolicySpec => []ConflictsReported
<1>1. TopicInv => ConflictsReported
  <2> SUFFICES ASSUME TopicInv PROVE ConflictsReported
    OBVIOUS
  <2>1. ASSUME synth = "ended", NEW m \in present, NEW n \in present, Replace(m, n)
        PROVE  onViolation = "warn" /\ {m, n} \cap annotated # {}
    <3>1. ClaimsMade(m) /\ ClaimsMade(n)
      BY <2>1 DEF TopicInv, WalkedSoFar
    <3>2. m \in annotated \/ n \in annotated
      BY <2>1, <3>1 DEF ClaimsMade, Replace
    <3> QED
      BY <3>2 DEF TopicInv, Reports
  <2> QED
    BY <2>1 DEF TopicInv, Reports, ConflictsReported
<1> QED
  BY <1>1, TopicInvariant, PTL

(* What a claim is held by, and what is annotated, is in the tree, however *)
(* often it is walked.                                                     *)
LEMMA TopicTypes == TopicPolicySpec => []TopicPolicyTypeOK
<1> DEFINE Ann == /\ annotated \subseteq present /\ onViolation \in {"throw", "warn"}
                  /\ synth \in {"unsynthesised", "ended", "threw"}
<1>1. NoTopicPolicies => Ann
  BY DEF NoTopicPolicies
<1>2. Ann /\ [TopicPolicyNext]_topicPolicyVars => Ann'
  <2> SUFFICES ASSUME Ann, [TopicPolicyNext]_topicPolicyVars PROVE Ann'
    OBVIOUS
  <2>1. CASE AddTopicPolicy \/ SynthTopics
    BY <2>1 DEF AddTopicPolicy, SynthTopics
  <2>2. CASE VisitPolicy
    BY <2>2 DEF VisitPolicy, GoOn
  <2>3. CASE WarnOfConflict
    BY <2>3 DEF WarnOfConflict, GoOn
  <2>4. CASE ThrowConflict
    BY <2>4 DEF ThrowConflict
  <2>5. CASE UNCHANGED topicPolicyVars
    BY <2>5 DEF topicPolicyVars
  <2> QED
    BY <2>1, <2>2, <2>3, <2>4, <2>5 DEF TopicPolicyNext
<1>3. TopicInv /\ Ann => TopicPolicyTypeOK
  BY WalkIsSequence DEF TopicInv, ClaimsHeld, WalkedSoFar, Resources, TopicPolicyTypeOK
<1> HIDE DEF Ann
<1> QED
  BY <1>1, <1>2, <1>3, TopicInvariant, PTL DEF TopicPolicySpec

-----------------------------------------------------------------------------
(***************************************************************************)
(* Versions: the inductive invariant.                                      *)
(***************************************************************************)
\* Every variable holds a value of its type, and before the stack exists nothing
\* has been published or pruned.
RolloutTypes ==
  /\ RolloutTypeOK
  /\ current \in 0..newest /\ goal \in 0..newest /\ retain \in Nat \X Nat
  /\ stage = "off" => newest = 0 /\ pruner = "none"
  /\ stage # "off" => current # 0 /\ goal # 0 /\ retain \in Retains \X Retains

\* While the pruner that is waited for runs the aliases stand still, and it deletes
\* nothing they route to; it has nothing left to delete when it does not run.
PrunerApart ==
  /\ pruner = "run" => doomed \cap Aliased = {} /\ (stage # "stuck" => AliasesMoved)
  /\ pruner # "run" => doomed = {}

\* What is gone, or about to go, has at least a deployed limit of newer versions.
GoneIsOld ==
  \A v \in ((1..newest) \ published) \cup doomed \cup orphan : newest - v >= Min(Retains)

\* What the pruner leaves when the aliases are on the newest version.
Target == IF stage = "undoing" THEN current ELSE goal
LeavesLimit ==
  stage \in {"moving", "undoing"} /\ pruner \in {"run", "done"} /\ Target = newest
    => Cardinality(published \ doomed) <= Limit

RolloutInv ==
  RolloutTypes /\ PrunerApart /\ GoneIsOld /\ LeavesLimit /\ PrunerNeverRefused /\ RetentionBound

(***************************************************************************)
(* Numbers and sets of them.                                               *)
(***************************************************************************)
(* A set of version numbers is finite; so are its parts, which are smaller.*)
LEMMA VersionsFinite ==
  ASSUME NEW n \in Nat, NEW P \in SUBSET (1..n), NEW Q \in SUBSET P
  PROVE  /\ IsFiniteSet(P) /\ IsFiniteSet(Q)
         /\ Cardinality(P) \in Nat /\ Cardinality(Q) \in Nat
         /\ Cardinality(Q) <= Cardinality(P)
<1>1. IsFiniteSet(1..n)
  BY FS_Interval
<1>2. IsFiniteSet(P)
  BY <1>1, FS_Subset
<1>3. IsFiniteSet(Q) /\ Cardinality(Q) <= Cardinality(P)
  BY <1>2, FS_Subset
<1> QED
  BY <1>2, <1>3, FS_CardinalityType

Newer(P, v) == {w \in P : w > v}

(* There are at most n - v versions newer than v.                          *)
LEMMA NewerBound ==
  ASSUME NEW n \in Nat, NEW P \in SUBSET (1..n), NEW v \in 1..n
  PROVE  Cardinality(Newer(P, v)) \in Nat /\ Cardinality(Newer(P, v)) <= n - v
<1>1. IsFiniteSet(v+1..n) /\ Cardinality(v+1..n) = n - v
  BY FS_Interval
<1>2. Newer(P, v) \in SUBSET (v+1..n)
  <2> SUFFICES ASSUME NEW w \in P, w > v PROVE w \in v+1..n
    BY DEF Newer
  <2>1. w \in 1..n
    OBVIOUS
  <2> QED
    BY <2>1
<1> QED
  BY <1>1, <1>2, FS_Subset, FS_CardinalityType

(* At most k versions have fewer than k newer ones.                        *)
LEMMA NewestBound ==
  ASSUME NEW n \in Nat, NEW P \in SUBSET (1..n), NEW k \in Nat \ {0},
         NEW K, K = {v \in P : Cardinality(Newer(P, v)) < k}
  PROVE  Cardinality(K) <= k
<1>1. CASE K = {}
  <2>1. Cardinality(K) = 0
    BY <1>1, FS_EmptySet
  <2> QED
    BY <2>1
<1>2. CASE K # {}
  <2>0. K \in SUBSET P /\ \A v \in K : Cardinality(Newer(P, v)) < k
    OBVIOUS
  <2>1. K \in SUBSET Nat /\ \A v \in P : v \in Nat
    <3>1. \A v \in P : v \in Nat
      OBVIOUS
    <3> QED
      BY <2>0, <3>1
  <2> DEFINE m == Min(K)
  <2>2. m \in K /\ \A v \in K : m <= v
    BY <1>2, <2>1, MinIsLeast
  <2> HIDE DEF m
  <2>3. K \ {m} \in SUBSET Newer(P, m)
    BY <2>0, <2>1, <2>2 DEF Newer
  <2>4. IsFiniteSet(Newer(P, m)) /\ IsFiniteSet(K) /\ Cardinality(K) \in Nat
    BY <2>0, VersionsFinite DEF Newer
  <2>5. Cardinality(K \ {m}) <= Cardinality(Newer(P, m))
    BY <2>3, <2>4, FS_Subset
  <2>6. Cardinality(K \ {m}) = Cardinality(K) - 1
    BY <2>2, <2>4, FS_RemoveElement
  <2>7. Cardinality(Newer(P, m)) < k /\ Cardinality(Newer(P, m)) \in Nat
    BY <2>0, <2>2, <2>4, FS_CardinalityType
  <2> QED
    BY <2>4, <2>5, <2>6, <2>7
<1> QED
  BY <1>1, <1>2

(* The least of the limits that were deployed is at most each of them.     *)
LEMMA LeastRetain == \A r \in Retains : Min(Retains) \in Nat /\ Min(Retains) <= r /\ r \in Nat \ {0}
<1> SUFFICES ASSUME NEW r \in Retains
             PROVE  Min(Retains) \in Nat /\ Min(Retains) <= r /\ r \in Nat \ {0}
  OBVIOUS
<1>1. Retains \in SUBSET Nat /\ r \in Nat \ {0}
  BY RolloutAssumption
<1> QED
  BY <1>1, MinIsLeast

(***************************************************************************)
(* The steps.                                                              *)
(***************************************************************************)
(* Deleting versions keeps what holds of the numbers of those left, if     *)
(* what is deleted was doomed or orphaned, and no more is left of the rest.*)
LEMMA DeletingKeeps ==
  ASSUME RolloutInv, NEW v \in doomed \cup orphan, published' = published \ {v},
         doomed' \in {doomed, doomed \ {v}}, orphan' \in {orphan, orphan \ {v}},
         UNCHANGED <<stage, newest, current, goal, routes, retain, pruner, refused>>
  PROVE  RolloutInv'
<1>0. RolloutTypes /\ published \in SUBSET (1..newest) /\ newest \in Nat
  BY RolloutAssumption DEF RolloutInv, RolloutTypes, RolloutTypeOK
<1>1. RolloutTypes'
  BY <1>0 DEF RolloutTypes, RolloutTypeOK
<1>2. PrunerApart'
  BY DEF RolloutInv, PrunerApart, Aliased, AliasesMoved
<1>3. GoneIsOld'
  BY DEF RolloutInv, GoneIsOld
<1>4. LeavesLimit'
  <2>1. \/ published' \ doomed' = published \ doomed
        \/ published' \ doomed' = (published \ doomed) \ {v}
    OBVIOUS
  <2>2. /\ Cardinality(published \ doomed) \in Nat
        /\ Cardinality(published' \ doomed') \in Nat
        /\ Cardinality(published' \ doomed') <= Cardinality(published \ doomed)
    <3>1. /\ (published \ doomed) \in SUBSET (1..newest)
          /\ (published' \ doomed') \in SUBSET (published \ doomed)
      BY <1>0, <2>1
    <3> QED
      BY <1>0, <3>1, VersionsFinite
  <2>3. Limit \in Nat /\ Limit' = Limit /\ Target' = Target
    BY <1>0, LeastRetain DEF RolloutTypes, Limit, Target
  <2> QED
    BY <2>2, <2>3 DEF RolloutInv, LeavesLimit
<1>5. RetentionBound'
  <2>1. /\ Cardinality(published) \in Nat /\ Cardinality(published') \in Nat
        /\ Cardinality(published') <= Cardinality(published)
    BY <1>0, VersionsFinite
  <2>2. retain[2] \in Nat
    BY <1>0 DEF RolloutTypes
  <2> QED
    BY <2>1, <2>2 DEF RolloutInv, RetentionBound
<1> QED
  BY <1>1, <1>2, <1>3, <1>4, <1>5 DEF RolloutInv, PrunerNeverRefused

(* Starting to prune dooms old versions only, none that an alias routes    *)
(* to, and spares at most as many as the limit when they are on the newest.*)
LEMMA StartPruningKeeps == RolloutInv /\ StartPruning => RolloutInv'
<1> SUFFICES ASSUME RolloutInv, StartPruning PROVE RolloutInv'
  OBVIOUS
<1>0. /\ RolloutTypes /\ published \in SUBSET (1..newest) /\ newest \in Nat
      /\ \A a \in Aliases : routes[a] \in SUBSET (1..newest)
  BY RolloutAssumption DEF RolloutInv, RolloutTypes, RolloutTypeOK
<1>1. /\ AliasesMoved /\ stage \in {"moving", "undoing"} /\ pruner' = "run"
      /\ doomed' = IF Cardinality(published) <= Limit THEN {} ELSE VersionsToPrune(Limit)
      /\ UNCHANGED <<stage, published, newest, current, goal, routes, retain, orphan, refused>>
  BY DEF StartPruning, PrunerMayStart, AliasesMoved
<1>2. Limit \in Retains /\ Limit \in Nat \ {0} /\ Min(Retains) \in Nat /\ Min(Retains) <= Limit
  BY <1>0, <1>1, LeastRetain DEF RolloutTypes, Limit
<1>3. VersionsToPrune(Limit) = {v \in published : Cardinality(Newer(published, v)) >= Limit /\ v \notin Aliased}
  BY DEF VersionsToPrune, Newer
<1>4. doomed' \subseteq published /\ doomed' \cap Aliased = {}
  BY <1>1, <1>3
<1>5. RolloutTypes' /\ PrunerApart'
  <2>1. Aliased' = Aliased /\ AliasesMoved'
    BY <1>1 DEF Aliased, AliasesMoved
  <2>2. doomed' \subseteq 1..newest
    BY <1>0, <1>4
  <2> QED
    BY <1>0, <1>1, <1>4, <2>1, <2>2 DEF RolloutTypes, RolloutTypeOK, PrunerApart
<1>6. GoneIsOld'
  <2>1. ASSUME NEW v \in doomed' PROVE newest - v >= Min(Retains)
    <3>1. v \in 1..newest /\ Cardinality(Newer(published, v)) >= Limit
      BY <1>0, <1>1, <1>3, <2>1
    <3>2. Cardinality(Newer(published, v)) \in Nat /\ Cardinality(Newer(published, v)) <= newest - v
      BY <1>0, <3>1, NewerBound
    <3> QED
      BY <1>0, <1>2, <3>1, <3>2
  <2> QED
    BY <1>1, <2>1 DEF RolloutInv, GoneIsOld
<1>7. LeavesLimit'
  <2> SUFFICES ASSUME Target = newest PROVE Cardinality(published \ doomed') <= Limit
    BY <1>1 DEF LeavesLimit, Target, Limit
  <2>1. CASE Cardinality(published) <= Limit
    <3>1. doomed' = {} /\ published \ doomed' = published
      BY <1>1, <2>1
    <3> QED
      BY <2>1, <3>1
  <2>2. CASE ~(Cardinality(published) <= Limit)
    <3>1. Aliased = {newest}
      <4>1. \A a \in Aliases : routes[a] = {newest}
        BY <1>1 DEF AliasesMoved, Target
      <4> QED
        BY <4>1, RolloutAssumption DEF Aliased
    <3>2. \A v \in published : v = newest => Cardinality(Newer(published, v)) = 0
      <4>1. Newer(published, newest) = {}
        <5> SUFFICES ASSUME NEW w \in published, w > newest PROVE FALSE
          BY DEF Newer
        <5>1. w \in 1..newest
          BY <1>0
        <5> QED
          BY <1>0, <5>1
      <4> QED
        BY <4>1, FS_EmptySet
    <3>3. \A v \in published : Cardinality(Newer(published, v)) \in Nat
      BY <1>0, NewerBound
    <3>4. published \ doomed' = {v \in published : Cardinality(Newer(published, v)) < Limit}
      BY <1>1, <1>2, <1>3, <2>2, <3>1, <3>2, <3>3
    <3> QED
      BY <1>0, <1>2, <3>4, NewestBound
  <2> QED
    BY <2>1, <2>2
<1>8. RetentionBound'
  BY <1>1 DEF RetentionBound
<1> QED
  BY <1>1, <1>5, <1>6, <1>7, <1>8 DEF RolloutInv, PrunerNeverRefused

(* Every alias routes to versions that were published some time.           *)
LEMMA AliasedNumbers ==
  ASSUME RolloutInv
  PROVE  /\ newest \in Nat /\ MaxVersion \in Nat \ {0} /\ published \in SUBSET (1..newest)
         /\ \A a \in Aliases : routes[a] \in SUBSET (1..newest)
         /\ DOMAIN routes = Aliases
BY RolloutAssumption DEF RolloutInv, RolloutTypes, RolloutTypeOK

(* The stack's creation and a new deployment find no pruner at work.       *)
LEMMA DeploymentKeeps ==
  RolloutInv /\ (FirstDeployment \/ PublishVersion \/ ChangeRetain) => RolloutInv'
<1> SUFFICES ASSUME RolloutInv, FirstDeployment \/ PublishVersion \/ ChangeRetain
             PROVE  RolloutInv'
  OBVIOUS
<1>0. /\ newest \in Nat /\ MaxVersion \in Nat \ {0} /\ published \in SUBSET (1..newest)
      /\ \A a \in Aliases : routes[a] \in SUBSET (1..newest)
      /\ DOMAIN routes = Aliases
  BY AliasedNumbers
<1>1. CASE FirstDeployment
  <2>1. newest = 0 /\ pruner = "none" /\ doomed = {} /\ orphan = {} /\ published = {}
    <3>1. newest = 0 /\ pruner = "none" /\ doomed = {}
      BY <1>1 DEF RolloutInv, RolloutTypes, PrunerApart, FirstDeployment
    <3>2. orphan \in SUBSET (1..0) /\ published \in SUBSET (1..0) /\ 1..0 = {}
      BY <1>0, <3>1 DEF RolloutInv, RolloutTypes, RolloutTypeOK
    <3> QED
      BY <3>1, <3>2
  <2>2. RolloutTypes'
    <3>1. 1 \in 1..1 /\ 1 \in 0..1 /\ 1 \in 0..MaxVersion
      BY <1>0
    <3>2. RolloutTypeOK'
      BY <1>1, <2>1, <3>1 DEF FirstDeployment, RolloutTypeOK
    <3>3. retain' \in Retains \X Retains /\ retain' \in Nat \X Nat
      BY <1>1, RolloutAssumption DEF FirstDeployment
    <3> QED
      BY <1>1, <3>1, <3>2, <3>3 DEF FirstDeployment, RolloutTypes
  <2>3. PrunerApart' /\ LeavesLimit' /\ RetentionBound' /\ PrunerNeverRefused'
    BY <1>1, <2>1 DEF FirstDeployment, PrunerApart, LeavesLimit, RetentionBound,
                      PrunerNeverRefused, RolloutInv
  <2>4. GoneIsOld'
    <3>1. (1..1) \ {1} = {}
      OBVIOUS
    <3> QED
      BY <1>1, <2>1, <3>1 DEF FirstDeployment, GoneIsOld
  <2> QED
    BY <2>2, <2>3, <2>4 DEF RolloutInv
<1>2. CASE PublishVersion
  <2>1. newest + 1 \in 0..MaxVersion /\ newest' = newest + 1
    BY <1>0, <1>2 DEF PublishVersion
  <2>2. 1..newest \subseteq 1..newest' /\ 0..newest \subseteq 0..newest' /\ newest' \in 1..newest'
        /\ newest' \in 0..newest' /\ newest' # 0
    BY <1>0, <2>1
  <2>3. doomed' = {}
    BY <1>2 DEF PublishVersion, RolloutInv, PrunerApart, AliasesMoved
  <2>4. RolloutTypes'
    <3>1. RolloutTypeOK'
      <4>1. routes' \in [Aliases -> SUBSET (1..newest')]
        BY <1>2, <2>2 DEF PublishVersion, RolloutInv, RolloutTypes, RolloutTypeOK
      <4>2. /\ published' \subseteq 1..newest' /\ newest' \in 0..MaxVersion
            /\ doomed' \subseteq 1..newest' /\ orphan' \subseteq 1..newest'
        <5>1. published' = published \cup {newest'} /\ orphan' = orphan
          BY <1>2, <2>1 DEF PublishVersion
        <5> QED
          BY <1>0, <2>1, <2>2, <2>3, <5>1 DEF RolloutInv, RolloutTypes, RolloutTypeOK
      <4> QED
        BY <1>2, <4>1, <4>2 DEF PublishVersion, RolloutTypeOK
    <3>2. retain' \in Retains \X Retains /\ retain' \in Nat \X Nat
      BY <1>2, RolloutAssumption DEF PublishVersion, RolloutInv, RolloutTypes
    <3> QED
      BY <1>2, <2>1, <2>2, <3>1, <3>2 DEF PublishVersion, RolloutInv, RolloutTypes
  <2>5. PrunerApart' /\ LeavesLimit' /\ RetentionBound' /\ PrunerNeverRefused'
    BY <1>2, <2>3 DEF PublishVersion, PrunerApart, LeavesLimit, RetentionBound,
                      PrunerNeverRefused, RolloutInv
  <2>6. GoneIsOld'
    <3> SUFFICES ASSUME NEW v \in ((1..newest') \ published') \cup orphan'
                 PROVE  newest' - v >= Min(Retains)
      BY <2>3 DEF GoneIsOld
    <3>1. v \in ((1..newest) \ published) \cup orphan
      BY <1>0, <1>2, <2>1 DEF PublishVersion
    <3>2. v \in 1..newest
      BY <3>1 DEF RolloutInv, RolloutTypes, RolloutTypeOK
    <3>3. newest - v >= Min(Retains)
      BY <3>1 DEF RolloutInv, GoneIsOld
    <3>4. \E r \in Retains : TRUE
      BY <1>2 DEF PublishVersion
    <3>5. Min(Retains) \in Nat
      BY <3>4, LeastRetain
    <3> QED
      BY <1>0, <2>1, <3>2, <3>3, <3>5
  <2> QED
    BY <2>4, <2>5, <2>6 DEF RolloutInv
<1>3. CASE ChangeRetain
  <2>1. doomed' = {} /\ doomed = {}
    BY <1>3 DEF ChangeRetain, RolloutInv, PrunerApart, AliasesMoved
  <2>2. retain' \in Retains \X Retains /\ retain' \in Nat \X Nat
    BY <1>3, RolloutAssumption DEF ChangeRetain, RolloutInv, RolloutTypes
  <2>3. RolloutTypes'
    BY <1>3, <2>2 DEF ChangeRetain, RolloutInv, RolloutTypes, RolloutTypeOK
  <2>4. PrunerApart' /\ LeavesLimit' /\ RetentionBound' /\ PrunerNeverRefused' /\ GoneIsOld'
    BY <1>3, <2>1 DEF ChangeRetain, PrunerApart, LeavesLimit, RetentionBound,
                      PrunerNeverRefused, RolloutInv, GoneIsOld
  <2> QED
    BY <2>3, <2>4 DEF RolloutInv
<1> QED
  BY <1>1, <1>2, <1>3

(* An alias that can move is not where the pruner has to find it: aliases  *)
(* move only while the pruner does not run.                                *)
LEMMA AliasesMoveFirst == RolloutInv /\ (MoveAlias \/ MoveAliasBack) => pruner # "run" /\ doomed = {}
<1> SUFFICES ASSUME RolloutInv, MoveAlias \/ MoveAliasBack PROVE pruner # "run"
  BY DEF RolloutInv, PrunerApart
<1>0. Cardinality({goal}) = 1
  BY FS_Singleton
<1>1. CASE MoveAlias
  <2> SUFFICES ASSUME pruner = "run" PROVE FALSE
    OBVIOUS
  <2>1. \A a \in Aliases : routes[a] = {goal}
    BY <1>1 DEF RolloutInv, PrunerApart, AliasesMoved, MoveAlias
  <2>2. PICK a \in Aliases :
          routes[a] # {goal} \/ (routes[a] = {current} /\ goal # current) \/ Cardinality(routes[a]) = 2
    BY <1>1 DEF MoveAlias
  <2>3. routes[a] = {goal}
    BY <2>1
  <2> QED
    BY <1>0, <2>2, <2>3
<1>2. CASE MoveAliasBack
  BY <1>2 DEF RolloutInv, PrunerApart, AliasesMoved, MoveAliasBack
<1> QED
  BY <1>1, <1>2

(* Moving an alias, in a deployment or its rollback, disturbs no pruner.   *)
LEMMA MovingKeeps == RolloutInv /\ (MoveAlias \/ MoveAliasBack) => RolloutInv'
<1> SUFFICES ASSUME RolloutInv, MoveAlias \/ MoveAliasBack PROVE RolloutInv'
  OBVIOUS
<1>0. pruner # "run" /\ doomed = {} /\ newest \in Nat
  BY AliasesMoveFirst, AliasedNumbers
<1>1. /\ UNCHANGED <<published, newest, current, goal, retain, pruner, doomed, orphan, refused>>
      /\ stage' = stage \/ stage' = "stuck"
      /\ stage \in {"moving", "undoing"}
  BY DEF MoveAlias, MoveAliasBack
<1>2. routes' \in [Aliases -> SUBSET (1..newest)]
  <2>1. routes \in [Aliases -> SUBSET (1..newest)]
    BY DEF RolloutInv, RolloutTypes, RolloutTypeOK
  <2>2. current \in 1..newest /\ goal \in 1..newest
    BY <1>0, <1>1 DEF RolloutInv, RolloutTypes
  <2>3. PICK a \in Aliases : \/ routes' = routes
                             \/ routes' = [routes EXCEPT ![a] = {goal}]
                             \/ routes' = [routes EXCEPT ![a] = {current, goal}]
                             \/ routes' = [routes EXCEPT ![a] = {current}]
    BY DEF MoveAlias, MoveAliasBack
  <2> QED
    BY <2>1, <2>2, <2>3
<1>3. RolloutTypes'
  BY <1>1, <1>2 DEF RolloutInv, RolloutTypes, RolloutTypeOK
<1>4. PrunerApart' /\ GoneIsOld' /\ PrunerNeverRefused'
  BY <1>0, <1>1 DEF RolloutInv, PrunerApart, GoneIsOld, PrunerNeverRefused
<1>5. LeavesLimit' /\ RetentionBound'
  BY <1>1 DEF RolloutInv, LeavesLimit, RetentionBound, Target, Limit
<1> QED
  BY <1>3, <1>4, <1>5 DEF RolloutInv

(* Each deletion, of the pruner waited for or of another.                  *)
LEMMA DeletionKeeps == RolloutInv /\ (DeleteVersion \/ OrphanDeletes) => RolloutInv'
<1> SUFFICES ASSUME RolloutInv, DeleteVersion \/ OrphanDeletes PROVE RolloutInv'
  OBVIOUS
<1>0. newest \in Nat /\ doomed \in SUBSET (1..newest) /\ orphan \in SUBSET (1..newest)
  BY AliasedNumbers DEF RolloutInv, RolloutTypes, RolloutTypeOK
<1>1. CASE DeleteVersion
  <2>1. Max(doomed) \in doomed
    BY <1>0, <1>1, MaxIsGreatest DEF DeleteVersion
  <2>2. /\ published' = published \ {Max(doomed)} /\ doomed' = doomed \ {Max(doomed)}
        /\ UNCHANGED <<stage, newest, current, goal, routes, retain, pruner, orphan, refused>>
    BY <1>1 DEF DeleteVersion
  <2> QED
    BY <2>1, <2>2, DeletingKeeps
<1>2. CASE OrphanDeletes /\ Max(orphan) \notin Aliased
  <2>1. Max(orphan) \in orphan
    BY <1>0, <1>2, MaxIsGreatest DEF OrphanDeletes
  <2>2. /\ published' = published \ {Max(orphan)} /\ orphan' = orphan \ {Max(orphan)}
        /\ UNCHANGED <<stage, newest, current, goal, routes, retain, pruner, doomed, refused>>
    BY <1>2 DEF OrphanDeletes
  <2> QED
    BY <2>1, <2>2, DeletingKeeps
<1>3. CASE OrphanDeletes /\ Max(orphan) \in Aliased
  <2>1. /\ orphan' = {}
        /\ UNCHANGED <<stage, published, newest, current, goal, routes, retain, pruner, doomed, refused>>
    BY <1>3 DEF OrphanDeletes
  <2>2. RolloutTypes' /\ PrunerApart' /\ GoneIsOld'
    BY <2>1 DEF RolloutInv, RolloutTypes, RolloutTypeOK, PrunerApart, GoneIsOld, Aliased, AliasesMoved
  <2>3. LeavesLimit' /\ RetentionBound' /\ PrunerNeverRefused'
    BY <2>1 DEF RolloutInv, LeavesLimit, RetentionBound, PrunerNeverRefused, Target, Limit
  <2> QED
    BY <2>2, <2>3 DEF RolloutInv
<1> QED
  BY <1>1, <1>2, <1>3

(* The pruner that is waited for ends: with all deleted, or because a      *)
(* deletion failed, which no alias is ever the reason of.                  *)
LEMMA PrunerEndKeeps == RolloutInv /\ (PrunerDone \/ DeleteFails) => RolloutInv'
<1> SUFFICES ASSUME RolloutInv, PrunerDone \/ DeleteFails PROVE RolloutInv'
  OBVIOUS
<1>0. newest \in Nat /\ doomed \in SUBSET (1..newest)
  BY AliasedNumbers DEF RolloutInv, RolloutTypes, RolloutTypeOK
<1>1. CASE PrunerDone
  <2>1. /\ pruner = "run" /\ doomed = {} /\ pruner' = "done"
        /\ UNCHANGED <<stage, published, newest, current, goal, routes, retain, doomed, orphan, refused>>
    BY <1>1 DEF PrunerDone
  <2>2. RolloutTypes' /\ PrunerApart' /\ GoneIsOld' /\ PrunerNeverRefused'
    BY <2>1 DEF RolloutInv, RolloutTypes, RolloutTypeOK, PrunerApart, GoneIsOld, PrunerNeverRefused
  <2>3. LeavesLimit'
    BY <2>1 DEF RolloutInv, LeavesLimit, Target, Limit
  <2>4. RetentionBound'
    BY <2>1 DEF RolloutInv, RetentionBound, PrunerApart, AliasesMoved
  <2> QED
    BY <2>2, <2>3, <2>4 DEF RolloutInv
<1>2. CASE DeleteFails
  <2>1. Max(doomed) \in doomed
    BY <1>0, <1>2, MaxIsGreatest DEF DeleteFails
  <2>2. /\ stage' \in {"stuck", "undoing"} /\ doomed' = {}
        /\ stage' = "undoing" => pruner' = "again"
        /\ stage' = "stuck" => pruner' = pruner
        /\ pruner = "run" /\ doomed # {}
        /\ UNCHANGED <<published, newest, current, goal, routes, retain, orphan>>
    BY <1>2 DEF DeleteFails, RollBack
  <2>3. PrunerNeverRefused'
    BY <1>2, <2>1 DEF DeleteFails, RolloutInv, PrunerApart, PrunerNeverRefused
  <2>4. RolloutTypes'
    <3>1. stage # "off"
      BY <2>2 DEF RolloutInv, RolloutTypes
    <3> QED
      BY <2>2, <3>1 DEF RolloutInv, RolloutTypes, RolloutTypeOK
  <2>5. PrunerApart' /\ GoneIsOld' /\ LeavesLimit' /\ RetentionBound'
    BY <2>2 DEF RolloutInv, PrunerApart, GoneIsOld, LeavesLimit, RetentionBound
  <2> QED
    BY <2>3, <2>4, <2>5 DEF RolloutInv
<1> QED
  BY <1>1, <1>2

(* A deployment that fails leaves the pruner's work to a run nobody waits  *)
(* for.                                                                    *)
LEMMA FailingKeeps == RolloutInv /\ DeploymentFails => RolloutInv'
<1> SUFFICES ASSUME RolloutInv, DeploymentFails PROVE RolloutInv'
  OBVIOUS
<1>1. /\ stage = "moving" /\ stage' = "undoing" /\ pruner' \in {"none", "again"} /\ doomed' = {}
      /\ orphan' = orphan \cup doomed
      /\ UNCHANGED <<published, newest, current, goal, routes, retain, refused>>
  BY DEF DeploymentFails, RollBack
<1>2. RolloutTypes'
  BY <1>1 DEF RolloutInv, RolloutTypes, RolloutTypeOK
<1>3. PrunerApart' /\ GoneIsOld' /\ LeavesLimit' /\ RetentionBound' /\ PrunerNeverRefused'
  BY <1>1 DEF RolloutInv, PrunerApart, GoneIsOld, LeavesLimit, RetentionBound, PrunerNeverRefused
<1> QED
  BY <1>2, <1>3 DEF RolloutInv

(* A deployment or a rollback that ends leaves no pruner at work, and no   *)
(* more versions than the limit when it was the newest that was deployed.  *)
LEMMA EndKeeps == RolloutInv /\ (Deployed \/ RolledBack) => RolloutInv'
<1> SUFFICES ASSUME RolloutInv, Deployed \/ RolledBack PROVE RolloutInv'
  OBVIOUS
<1>0. /\ stage \in {"moving", "undoing"} /\ stage' = "steady" /\ pruner # "run"
      /\ UNCHANGED <<published, newest, routes, pruner, doomed, orphan, refused>>
  BY DEF Deployed, RolledBack
<1>1. doomed = {}
  BY <1>0 DEF RolloutInv, PrunerApart
<1>2. RolloutTypes'
  <2>1. /\ current' \in 0..newest /\ current' # 0 /\ goal' \in 0..newest /\ goal' # 0
        /\ retain' \in Retains \X Retains /\ retain' \in Nat \X Nat
    BY <1>0, RolloutAssumption DEF Deployed, RolledBack, RolloutInv, RolloutTypes
  <2> QED
    BY <1>0, <2>1 DEF RolloutInv, RolloutTypes, RolloutTypeOK
<1>3. PrunerApart' /\ GoneIsOld' /\ LeavesLimit' /\ PrunerNeverRefused'
  BY <1>0, <1>1 DEF RolloutInv, PrunerApart, GoneIsOld, LeavesLimit, PrunerNeverRefused
<1>4. RetentionBound'
  <2> SUFFICES ASSUME pruner = "done", goal' = newest PROVE Cardinality(published) <= retain'[2]
    BY <1>0 DEF RetentionBound
  <2>1. goal' = Target /\ retain'[2] = Limit
    BY DEF Deployed, RolledBack, Target, Limit
  <2>2. Cardinality(published \ doomed) <= Limit
    BY <1>0, <2>1 DEF RolloutInv, LeavesLimit
  <2>3. published \ doomed = published
    BY <1>1
  <2> QED
    BY <2>1, <2>2, <2>3
<1> QED
  BY <1>2, <1>3, <1>4 DEF RolloutInv

(***************************************************************************)
(* The theorems.                                                           *)
(***************************************************************************)
(* Nothing is published, pruned or refused before the stack is created.    *)
LEMMA RolloutInvInit == NoRollout => RolloutInv
<1> SUFFICES ASSUME NoRollout PROVE RolloutInv
  OBVIOUS
<1>1. RolloutTypes
  <2>1. 0 \in 0..0 /\ 0 \in 0..MaxVersion
    BY RolloutAssumption
  <2> QED
    BY <2>1 DEF NoRollout, RolloutTypes, RolloutTypeOK
<1>2. 1..0 = {}
  OBVIOUS
<1>3. PrunerApart /\ GoneIsOld /\ LeavesLimit /\ PrunerNeverRefused /\ RetentionBound
  BY <1>2 DEF NoRollout, PrunerApart, GoneIsOld, LeavesLimit, PrunerNeverRefused, RetentionBound
<1> QED
  BY <1>1, <1>3 DEF RolloutInv

(* Every step keeps the invariant.                                         *)
LEMMA RolloutInvStep == RolloutInv /\ [RolloutNext]_rolloutVars => RolloutInv'
<1> SUFFICES ASSUME RolloutInv, [RolloutNext]_rolloutVars PROVE RolloutInv'
  OBVIOUS
<1>1. CASE RolloutNext
  BY <1>1, DeploymentKeeps, MovingKeeps, StartPruningKeeps, DeletionKeeps, PrunerEndKeeps,
     FailingKeeps, EndKeeps DEF RolloutNext
<1>2. CASE UNCHANGED rolloutVars
  <2>1. RolloutTypes' /\ PrunerApart' /\ GoneIsOld'
    BY <1>2 DEF rolloutVars, RolloutInv, RolloutTypes, RolloutTypeOK, PrunerApart, GoneIsOld,
                Aliased, AliasesMoved
  <2>2. LeavesLimit' /\ RetentionBound' /\ PrunerNeverRefused'
    BY <1>2 DEF rolloutVars, RolloutInv, LeavesLimit, RetentionBound, PrunerNeverRefused,
                Target, Limit
  <2> QED
    BY <2>1, <2>2 DEF RolloutInv
<1> QED
  BY <1>1, <1>2

(* The deployments, their rollbacks and the pruners that go on alone keep  *)
(* the invariant in every interleaving.                                    *)
THEOREM RolloutInvariant == RolloutSpec => []RolloutInv
BY RolloutInvInit, RolloutInvStep, PTL DEF RolloutSpec

(* The version pruner that CloudFormation waits for is never refused a     *)
(* deletion because an alias routes to the version: it starts when all the *)
(* aliases have moved, and none moves before it has ended                  *)
(* (state-machine-builder.ts:479, version-pruner-handler.ts:62).           *)
THEOREM NeverRefused == RolloutSpec => []PrunerNeverRefused
BY RolloutInvariant, PTL DEF RolloutInv

(* A deployment of the newest version that succeeds leaves at most         *)
(* `retain` versions, whatever failed deployments, canceled pruners and    *)
(* rollbacks left before it (state-machine-builder.ts:479).                *)
THEOREM RetentionHolds == RolloutSpec => []RetentionBound
BY RolloutInvariant, PTL DEF RolloutInv

(* The version a rollback needs is lost only when a deployed limit of      *)
(* newer versions has been published (state-machine-builder.ts:453).       *)
THEOREM LossNeedsNewer == RolloutSpec => []LostOnlyPastLimit
<1>1. RolloutInv => LostOnlyPastLimit
  <2> SUFFICES ASSUME RolloutInv, stage \in {"moving", "undoing", "stuck"}, current \notin published
               PROVE  newest - current >= Min(Retains)
    BY DEF LostOnlyPastLimit
  <2>1. current \in 1..newest
    BY AliasedNumbers DEF RolloutInv, RolloutTypes
  <2> QED
    BY <2>1 DEF RolloutInv, GoneIsOld
<1> QED
  BY <1>1, RolloutInvariant, PTL

(***************************************************************************)
(* The builds of services.  A plan is graded by what its steps may do; the *)
(* grade of a plan follows from those of its parts, so that no plan has to *)
(* be unfolded into its steps.                                             *)
(***************************************************************************)
\* The steps that change the scope or another component, and those that may throw.
Acts == {"make", "alarm", "share", "touch"}
Throws == {"ref", "refuse"}

\* Nothing is changed; nothing is thrown but what is in L; nothing of others is
\* handed on but what is in F; nothing is thrown after a change but what is in L.
Listed(p) == p \in Seq(ToSet(p))
Early(p) == Listed(p) /\ \A x \in ToSet(p) : x.do \notin Acts
Firm(p, L) == Listed(p) /\ \A x \in ToSet(p) : x.do \in Throws => x.what \in L
Homely(p, F) ==
  Listed(p) /\ \A x \in ToSet(p) : x.do = "hold" \/ (x.do = "share" /\ x.kept) => x.what \in F
InTime(p, L) ==
  /\ Listed(p)
  /\ \A i, j \in DOMAIN p :
       i < j /\ p[i].do \in Acts /\ p[j].do \in Throws => p[j].what \in L

\* A part that checks, a part that makes, and a part that first checks and then
\* makes.
Checks(p, F) == Early(p) /\ Homely(p, F)
Makes(p, L, F) == Firm(p, L) /\ Homely(p, F)
Orderly(p, L, F) == InTime(p, L) /\ Homely(p, F)

(* A sequence is one of its own elements.                                  *)
LEMMA ListedIn ==
  ASSUME NEW T, NEW p \in Seq(T)
  PROVE  Listed(p)
<1>1. DOMAIN p = 1..Len(p) /\ Len(p) \in Nat /\ \A i \in 1..Len(p) : p[i] \in ToSet(p)
  BY DEF ToSet
<1> QED
  BY <1>1 DEF Listed

(* Two sequences one behind the other, element by element.                 *)
LEMMA ListedJoins ==
  ASSUME NEW p, NEW q, Listed(p), Listed(q)
  PROVE  /\ Listed(p \o q) /\ ToSet(p \o q) = ToSet(p) \cup ToSet(q)
         /\ DOMAIN p = 1..Len(p) /\ Len(p) \in Nat /\ DOMAIN q = 1..Len(q) /\ Len(q) \in Nat
         /\ DOMAIN (p \o q) = 1..(Len(p) + Len(q))
         /\ \A i \in 1..(Len(p) + Len(q)) :
              (p \o q)[i] = IF i <= Len(p) THEN p[i] ELSE q[i - Len(p)]
<1> DEFINE T == ToSet(p) \cup ToSet(q)
<1>1. p \in Seq(T) /\ q \in Seq(T)
  <2>1. ToSet(p) \subseteq T /\ ToSet(q) \subseteq T
    OBVIOUS
  <2> HIDE DEF T
  <2> QED
    BY <2>1, SequenceIn DEF Listed
<1> HIDE DEF T
<1>2. p \o q \in Seq(T) /\ ToSet(p \o q) = ToSet(p) \cup ToSet(q)
  BY <1>1, JoinedElements
<1>3. Listed(p \o q)
  BY <1>2, ListedIn
<1>4. /\ DOMAIN p = 1..Len(p) /\ Len(p) \in Nat /\ DOMAIN q = 1..Len(q) /\ Len(q) \in Nat
      /\ DOMAIN (p \o q) = 1..(Len(p) + Len(q))
      /\ \A i \in 1..(Len(p) + Len(q)) :
           (p \o q)[i] = IF i <= Len(p) THEN p[i] ELSE q[i - Len(p)]
  BY <1>1
<1> QED
  BY <1>2, <1>3, <1>4

(* A check after checks is a check; what throws nothing new may come after *)
(* anything, and anything after checks.                                    *)
LEMMA Joins ==
  ASSUME NEW p, NEW q, NEW L, NEW F
  PROVE  /\ Checks(p, F) /\ Checks(q, F) => Checks(p \o q, F)
         /\ Makes(p, L, F) /\ Makes(q, L, F) => Makes(p \o q, L, F)
         /\ Checks(p, F) /\ Orderly(q, L, F) => Orderly(p \o q, L, F)
         /\ Orderly(p, L, F) /\ Makes(q, L, F) => Orderly(p \o q, L, F)
<1> DEFINE pq == p \o q
<1>1. CASE Listed(p) /\ Listed(q)
  <2>1. /\ Listed(pq) /\ ToSet(pq) = ToSet(p) \cup ToSet(q)
        /\ DOMAIN p = 1..Len(p) /\ Len(p) \in Nat /\ DOMAIN q = 1..Len(q) /\ Len(q) \in Nat
        /\ DOMAIN pq = 1..(Len(p) + Len(q))
        /\ \A i \in 1..(Len(p) + Len(q)) :
             pq[i] = IF i <= Len(p) THEN p[i] ELSE q[i - Len(p)]
    BY <1>1, ListedJoins
  <2> HIDE DEF pq
  <2>2. Homely(p, F) /\ Homely(q, F) => Homely(pq, F)
    BY <2>1 DEF Homely
  <2>3. Early(p) /\ Early(q) => Early(pq)
    BY <2>1 DEF Early
  <2>4. Firm(p, L) /\ Firm(q, L) => Firm(pq, L)
    BY <2>1 DEF Firm
  <2>5. ASSUME InTime(p, L), Firm(q, L) PROVE InTime(pq, L)
    <3> SUFFICES ASSUME NEW i \in DOMAIN pq, NEW j \in DOMAIN pq, i < j, pq[i].do \in Acts,
                        pq[j].do \in Throws
                 PROVE  pq[j].what \in L
      BY <2>1 DEF InTime
    <3>1. CASE j <= Len(p)
      BY <2>1, <2>5, <3>1 DEF InTime
    <3>2. CASE ~(j <= Len(p))
      <4>1. j - Len(p) \in DOMAIN q /\ pq[j] = q[j - Len(p)]
        BY <2>1, <3>2
      <4> QED
        BY <2>5, <4>1 DEF Firm, ToSet
    <3> QED
      BY <3>1, <3>2
  <2>6. ASSUME Early(p), InTime(q, L) PROVE InTime(pq, L)
    <3> SUFFICES ASSUME NEW i \in DOMAIN pq, NEW j \in DOMAIN pq, i < j, pq[i].do \in Acts,
                        pq[j].do \in Throws
                 PROVE  pq[j].what \in L
      BY <2>1 DEF InTime
    <3>1. ~(i <= Len(p))
      <4>1. i <= Len(p) => i \in DOMAIN p /\ pq[i] = p[i]
        BY <2>1
      <4> QED
        BY <2>6, <4>1 DEF Early, ToSet
    <3>2. /\ i - Len(p) \in DOMAIN q /\ j - Len(p) \in DOMAIN q /\ i - Len(p) < j - Len(p)
          /\ pq[i] = q[i - Len(p)] /\ pq[j] = q[j - Len(p)]
      BY <2>1, <3>1
    <3> QED
      BY <2>6, <3>2 DEF InTime
  <2> QED
    BY <2>2, <2>3, <2>4, <2>5, <2>6 DEF Checks, Makes, Orderly, pq
<1>2. CASE ~(Listed(p) /\ Listed(q))
  BY <1>2 DEF Checks, Makes, Orderly, Homely, Early
<1> QED
  BY <1>1, <1>2

(* Checks alone, and a part that makes alone, are in order.                *)
LEMMA Grades ==
  ASSUME NEW p, NEW L, NEW F
  PROVE  /\ Checks(p, F) => Orderly(p, L, F)
         /\ Makes(p, L, F) => Orderly(p, L, F)
<1>1. CASE Listed(p)
  <2>1. DOMAIN p = 1..Len(p) /\ \A i \in DOMAIN p : p[i] \in ToSet(p)
    BY <1>1 DEF ToSet, Listed
  <2>2. Early(p) => InTime(p, L)
    BY <2>1 DEF Early, InTime
  <2>3. Firm(p, L) => InTime(p, L)
    BY <2>1 DEF Firm, InTime
  <2> QED
    BY <2>2, <2>3 DEF Checks, Makes, Orderly
<1>2. CASE ~Listed(p)
  BY <1>2 DEF Checks, Makes, Early, Firm
<1> QED
  BY <1>1, <1>2

(* A step is a sequence of itself.                                         *)
LEMMA OneStep ==
  ASSUME NEW do, NEW what, NEW kept
  PROVE  LET p == Step(do, what, kept) IN
         Listed(p) /\ ToSet(p) = {[do |-> do, what |-> what, kept |-> kept]}
<1> DEFINE x == [do |-> do, what |-> what, kept |-> kept]
<1>1. <<x>> \in Seq({x}) /\ ToSet(<<x>>) = {x}
  <2> HIDE DEF x
  <2> QED
    BY DEF ToSet
<1> QED
  BY <1>1 DEF Listed, Step

(* No step at all is of every grade.                                       *)
LEMMA NoStep == \A L, F : Checks(<<>>, F) /\ Makes(<<>>, L, F)
<1>1. <<>> \in Seq({}) /\ ToSet(<<>>) = {}
  BY DEF ToSet
<1> QED
  BY <1>1 DEF Checks, Makes, Early, Firm, Homely, Listed

(* A part that is there on a condition keeps its grade.                    *)
LEMMA Whenever ==
  ASSUME NEW c, NEW p, NEW L, NEW F
  PROVE  /\ Checks(p, F) => Checks(When(c, p), F)
         /\ Makes(p, L, F) => Makes(When(c, p), L, F)
         /\ Orderly(p, L, F) => Orderly(When(c, p), L, F)
BY NoStep, Grades DEF When

(* The grades of a step, by its kind.                                      *)
LEMMA StepGrades ==
  ASSUME NEW do, NEW what, NEW kept, NEW L, NEW F
  PROVE  /\ do \notin Acts \cup {"hold"} => Checks(Step(do, what, kept), F)
         /\ do = "hold" /\ what \in F =>
              Checks(Step(do, what, kept), F) /\ Makes(Step(do, what, kept), L, F)
         /\ do \notin Throws \cup {"hold", "share"} => Makes(Step(do, what, kept), L, F)
         /\ do = "share" /\ (kept => what \in F) => Makes(Step(do, what, kept), L, F)
         /\ do \in Throws /\ what \in L => Makes(Step(do, what, kept), L, F)
<1> DEFINE p == Step(do, what, kept)
           x == [do |-> do, what |-> what, kept |-> kept]
<1>1. Listed(p) /\ ToSet(p) = {x}
  BY OneStep
<1>2. x.do = do /\ x.what = what /\ x.kept = kept
  OBVIOUS
<1> HIDE DEF p, x
<1>3. (do = "hold" \/ (do = "share" /\ kept) => what \in F) => Homely(p, F)
  BY <1>1, <1>2 DEF Homely
<1>4. do \notin Acts => Early(p)
  BY <1>1, <1>2 DEF Early
<1>5. (do \in Throws => what \in L) => Firm(p, L)
  BY <1>1, <1>2 DEF Firm
<1> QED
  BY <1>3, <1>4, <1>5 DEF Checks, Makes, Acts, Throws, p

(* The grades of the words plans are written in.                           *)
LEMMA Words ==
  ASSUME NEW w, NEW L, NEW F
  PROVE  /\ Checks(Ref(w), F) /\ Checks(Refuse(w), F)
         /\ w \in L => Makes(Ref(w), L, F) /\ Makes(Refuse(w), L, F)
         /\ w \in F => Checks(Hold(w), F) /\ Makes(Hold(w), L, F)
         /\ Makes(Make(w), L, F) /\ Makes(MakeInside(w), L, F) /\ Makes(Touch(w), L, F)
         /\ Makes(Alarm(w), L, F) /\ Makes(AlarmInside(w), L, F)
         /\ Makes(Share(w, FALSE), L, F)
         /\ w \in F => Makes(Share(w, TRUE), L, F)
<1>1. Checks(Ref(w), F) /\ Checks(Refuse(w), F)
  <2>1. \A v, kept : Checks(Step("ref", v, kept), F)
    BY StepGrades DEF Acts
  <2>2. \A v, kept : Checks(Step("refuse", v, kept), F)
    BY StepGrades DEF Acts
  <2> QED
    BY <2>1, <2>2 DEF Ref, Refuse
<1>2. w \in L => Makes(Ref(w), L, F) /\ Makes(Refuse(w), L, F)
  BY StepGrades DEF Ref, Refuse, Throws
<1>3. w \in F => Checks(Hold(w), F) /\ Makes(Hold(w), L, F)
  BY StepGrades DEF Hold
<1>4. Makes(Make(w), L, F) /\ Makes(MakeInside(w), L, F) /\ Makes(Touch(w), L, F)
  <2>1. \A v, kept : Makes(Step("make", v, kept), L, F)
    BY StepGrades DEF Throws
  <2>2. \A v, kept : Makes(Step("touch", v, kept), L, F)
    BY StepGrades DEF Throws
  <2> QED
    BY <2>1, <2>2 DEF Make, MakeInside, Touch
<1>5. Makes(Alarm(w), L, F) /\ Makes(AlarmInside(w), L, F)
  <2>1. \A v, kept : Makes(Step("alarm", v, kept), L, F)
    BY StepGrades DEF Throws
  <2> QED
    BY <2>1 DEF Alarm, AlarmInside
<1>6. Makes(Share(w, FALSE), L, F) /\ (w \in F => Makes(Share(w, TRUE), L, F))
  BY StepGrades DEF Share
<1> QED
  BY <1>1, <1>2, <1>3, <1>4, <1>5, <1>6

(* Resolving what was given and refusing what is missing are checks.       *)
LEMMA Asked ==
  ASSUME NEW o, NEW w, NEW F
  PROVE  Checks(Given(o, w), F) /\ Checks(Needs(o, w), F)
<1>1. Checks(Given(o, w), F)
  BY NoStep, Words DEF Given, When
<1>2. \A v : Checks(Refuse(v), F)
  BY Words
<1>3. Checks(Needs(o, w), F)
  BY <1>2, NoStep DEF Needs, When
<1> QED
  BY <1>1, <1>3

(* Parts of one grade one behind the other are of that grade.              *)
LEMMA FlattenGrades ==
  ASSUME NEW ss, NEW n \in Nat, ss = [i \in 1..n |-> ss[i]], NEW L, NEW F
  PROVE  /\ (\A i \in 1..n : Listed(ss[i])) => Listed(FlattenSeq(ss))
         /\ (\A i \in 1..n : Checks(ss[i], F)) => Checks(FlattenSeq(ss), F)
         /\ (\A i \in 1..n : Makes(ss[i], L, F)) => Makes(FlattenSeq(ss), L, F)
<1> DEFINE T == UNION {ToSet(ss[i]) : i \in 1..n}
           f == FlattenSeq(ss)
<1>1. ASSUME \A i \in 1..n : Listed(ss[i])
      PROVE  Listed(f) /\ \A x \in ToSet(f) : \E i \in 1..n : x \in ToSet(ss[i])
  <2>1. \A i \in 1..n : ToSet(ss[i]) \subseteq T /\ ss[i] \in Seq(ToSet(ss[i]))
    BY <1>1 DEF Listed
  <2> HIDE DEF T
  <2>2. \A i \in 1..n : ss[i] \in Seq(T)
    BY <2>1, SequenceIn
  <2>3. ss \in Seq(Seq(T)) /\ DOMAIN ss = 1..n
    BY <2>2
  <2>4. /\ f \in Seq(T)
        /\ \A i \in DOMAIN f : \E j \in DOMAIN ss : \E k \in DOMAIN ss[j] : ss[j][k] = f[i]
    BY <2>3, FlattenElements
  <2> HIDE DEF f
  <2>5. Listed(f)
    BY <2>4, ListedIn
  <2> QED
    BY <2>3, <2>4, <2>5 DEF ToSet
<1> HIDE DEF T, f
<1>2. (\A i \in 1..n : Checks(ss[i], F)) => Checks(f, F)
  BY <1>1 DEF Checks, Early, Homely
<1>3. (\A i \in 1..n : Makes(ss[i], L, F)) => Makes(f, L, F)
  BY <1>1 DEF Makes, Firm, Homely
<1> QED
  BY <1>1, <1>2, <1>3 DEF f

(* The positions of a list.                                                *)
LEMMA ListedKeys ==
  ASSUME NEW keys, Listed(keys)
  PROVE  Len(keys) \in Nat /\ DOMAIN keys = 1..Len(keys)
BY DEF Listed

(* Short lists are lists.                                                  *)
LEMMA SomeKeys ==
  ASSUME NEW a, NEW b, NEW c, NEW d
  PROVE  /\ Listed(<<>>) /\ Listed(<<a>>) /\ Listed(<<a, b>>) /\ Listed(<<a, b, c>>)
         /\ Listed(<<a, b, c, d>>) /\ ToSet(<<>>) = {} /\ ToSet(<<a>>) = {a}
<1> DEFINE T == {a, b, c, d}
<1>1. a \in T /\ b \in T /\ c \in T /\ d \in T
  OBVIOUS
<1> HIDE DEF T
<1>2. /\ <<>> \in Seq(T) /\ <<a>> \in Seq(T) /\ <<a, b>> \in Seq(T) /\ <<a, b, c>> \in Seq(T)
      /\ <<a, b, c, d>> \in Seq(T)
  BY <1>1
<1>3. ToSet(<<>>) = {} /\ ToSet(<<a>>) = {a}
  BY DEF ToSet
<1> QED
  BY <1>2, <1>3, ListedIn

\* What addAlarm() may have been given that createAlarms() refuses.
AddAlarmRefusals == {"alarm key", "alarm without metric"}

(* Alarms are made, whatever their keys, and the recommended ones throw    *)
(* nothing; of those of addAlarm() a missing metric is found first, and a  *)
(* key that cannot be used in its turn.                                    *)
LEMMA RecommendedMakes ==
  ASSUME NEW o, NEW keys, Listed(keys), NEW L, NEW F
  PROVE  /\ Makes(Recommended(o, keys), L, F)
         /\ \A owner : Makes(AlarmsOf(o, owner, keys), L, F)
         /\ Checks(Unmeasured(o), F)
         /\ "alarm without metric" \in L => Makes(Unmeasured(o), L, F)
         /\ "alarm key" \in L => Makes(Custom(o), L, F) /\ Orderly(Alarms(o, keys), L, F)
         /\ AddAlarmRefusals \subseteq L => Makes(Alarms(o, keys), L, F)
<1>1. \A w : Makes(Alarm(w), L, F)
  BY Words
<1>2. Makes(Recommended(o, keys), L, F)
  <2> DEFINE ss == [i \in DOMAIN keys |-> When(keys[i] \notin o, Alarm(keys[i]))]
  <2>1. \A i \in 1..Len(keys) : Makes(ss[i], L, F)
    BY <1>1, Whenever, ListedKeys
  <2>2. ss = [i \in 1..Len(keys) |-> ss[i]] /\ Len(keys) \in Nat
    BY ListedKeys
  <2>3. Makes(FlattenSeq(ss), L, F)
    <3> HIDE DEF ss
    <3> QED
      BY <2>1, <2>2, FlattenGrades
  <2> QED
    BY <2>3, Whenever DEF Recommended, Each
<1>3. ASSUME NEW owner PROVE Makes(AlarmsOf(o, owner, keys), L, F)
  <2> DEFINE ss == [i \in DOMAIN keys |-> Alarm(owner \o keys[i])]
  <2>1. \A i \in 1..Len(keys) : Makes(ss[i], L, F)
    BY <1>1, ListedKeys
  <2>2. ss = [i \in 1..Len(keys) |-> ss[i]] /\ Len(keys) \in Nat
    BY ListedKeys
  <2>3. Makes(FlattenSeq(ss), L, F)
    <3> HIDE DEF ss
    <3> QED
      BY <2>1, <2>2, FlattenGrades
  <2> QED
    BY <2>3, Whenever DEF AlarmsOf, Each
<1>4. Checks(Unmeasured(o), F) /\ ("alarm without metric" \in L => Makes(Unmeasured(o), L, F))
  BY Words, Whenever DEF Unmeasured
<1>5. ASSUME "alarm key" \in L PROVE Makes(Custom(o), L, F)
  <2>1. /\ Makes(When("custom" \in o, Alarm("Custom")), L, F)
        /\ Makes(When("Custom" \in o, Alarm("Custom")), L, F)
        /\ Makes(When("badAlarm" \in o, Refuse("alarm key")), L, F)
    BY <1>1, <1>5, Words, Whenever
  <2> QED
    BY <2>1, Joins DEF Custom
<1>6. "alarm key" \in L => Orderly(Alarms(o, keys), L, F)
  BY <1>2, <1>4, <1>5, Joins, Grades DEF Alarms
<1>7. AddAlarmRefusals \subseteq L => Makes(Alarms(o, keys), L, F)
  BY <1>2, <1>4, <1>5, Joins DEF Alarms, AddAlarmRefusals
<1> QED
  BY <1>2, <1>3, <1>4, <1>5, <1>6, <1>7

(* A builder that may refuse alarms late makes those of addAlarm().        *)
LEMMA CustomMakes ==
  ASSUME NEW o, NEW L, AddAlarmRefusals \subseteq L, NEW F
  PROVE  Makes(Unmeasured(o), L, F) /\ Makes(Custom(o), L, F)
<1>1. Listed(<<>>)
  BY SomeKeys
<1> QED
  BY <1>1, RecommendedMakes DEF AddAlarmRefusals

(* Grants resolve and write: they throw on a ref that is found late.       *)
LEMMA GrantsMakes ==
  ASSUME NEW o, NEW L, "granted" \in L, NEW F
  PROVE  Makes(Grants(o), L, F)
<1>1. Makes(Ref("granted") \o Touch("granted"), L, F)
  BY Words, Joins
<1> QED
  BY <1>1, Whenever DEF Grants

(* A bucket that makes a bucket for its access logs resolves its own key   *)
(* after that one: the key is found late (bucket-builder.ts).              *)
LEMMA BucketPlan ==
  ASSUME NEW o, NEW L, "key" \in L, AddAlarmRefusals \subseteq L, NEW F
  PROVE  Orderly(Bucket(o), L, F)
<1>1. Makes(BucketAlarms(o), L, F)
  <2>1. Makes(When("metrics" \in o, Recommended(o, BucketAlarmKeys)), L, F)
    BY SomeKeys, RecommendedMakes, Whenever DEF BucketAlarmKeys
  <2> QED
    BY <2>1, CustomMakes, Joins DEF BucketAlarms
<1>2. Makes(AccessLogsBucket(o), L, F)
  <2> DEFINE ss == [i \in DOMAIN BucketAlarmKeys |-> AlarmInside("AccessLogs" \o BucketAlarmKeys[i])]
  <2>1. DOMAIN BucketAlarmKeys = 1..Len(BucketAlarmKeys) /\ Len(BucketAlarmKeys) \in Nat
    BY SomeKeys, ListedKeys DEF BucketAlarmKeys
  <2>2. /\ ss = [i \in 1..Len(BucketAlarmKeys) |-> ss[i]]
        /\ \A i \in 1..Len(BucketAlarmKeys) : Makes(ss[i], L, F)
    BY <2>1, Words
  <2> HIDE DEF ss
  <2>3. Makes(FlattenSeq(ss), L, F)
    BY <2>1, <2>2, FlattenGrades
  <2> QED
    BY <2>3, Words, Whenever, Joins DEF AccessLogsBucket, Each, ss
<1>3. Orderly(AccessLogs(o), L, F)
  <2>1. Orderly(When("logsConfigure" \in o, Refuse("configure with destination")), L, F)
    BY Whenever, Words, Grades
  <2> QED
    BY <1>2, <2>1, NoStep, Grades DEF AccessLogs
<1>4. Makes(Given(o, "key"), L, F) /\ Makes(Make(""), L, F)
  BY Whenever, Words DEF Given
<1> QED
  BY <1>1, <1>3, <1>4, Joins DEF Bucket

(* A bucket deployment.                                                    *)
LEMMA BucketDeploymentPlan ==
  ASSUME NEW o, NEW L, NEW F
  PROVE  Orderly(BucketDeployment(o), L, F)
<1>1. /\ Checks(Given(o, "bucket"), F) /\ Checks(Needs(o, "bucket"), F)
      /\ Checks(Needs(o, "sources"), F) /\ Checks(Given(o, "distribution"), F)
  BY Asked
<1>2. Makes(When("logGroup" \notin o, Make("LogGroup")), L, F) /\ Makes(Make(""), L, F)
  BY Words, Whenever
<1> QED
  BY <1>1, <1>2, Joins, Grades DEF BucketDeployment

(* A queue finds out about a missing alarm threshold once it is made.      *)
LEMMA QueuePlan ==
  ASSUME NEW o, NEW L, "no threshold for an alarm asked for" \in L,
         AddAlarmRefusals \subseteq L, NEW F
  PROVE  Orderly(Queue(o), L, F)
<1>1. Checks(QueueRefusals(o), F)
  <2>1. \A w : Checks(Refuse(w), F)
    BY Words
  <2> QED
    BY <2>1, Whenever, Joins DEF QueueRefusals
<1>2. Makes(QueueAlarms(o), L, F)
  <2> DEFINE asked == {k \in {Age} : "askAge" \in o} \cup {k \in {Visible} : "askVisible" \in o}
             watch(k) == When(k \in QueueProfile(o).on \cup asked, <<k>>)
             keys == <<Age, InFlight, Visible>>
             on == FlattenSeq([i \in DOMAIN keys |-> watch(keys[i])])
             refusal == When("quiet" \notin o /\ ~(asked \subseteq QueueProfile(o).known),
                             Refuse("no threshold for an alarm asked for"))
  <2>1. QueueAlarms(o) = refusal \o Alarms(o, on)
    BY DEF QueueAlarms, Each
  <2>2. \A k : Listed(watch(k))
    BY SomeKeys DEF When
  <2> HIDE DEF watch
  <2>3. Listed(on)
    <3> DEFINE ss == [i \in DOMAIN keys |-> watch(keys[i])]
    <3>1. DOMAIN keys = 1..Len(keys) /\ Len(keys) \in Nat
      BY SomeKeys, ListedKeys
    <3> HIDE DEF keys
    <3>2. ss = [i \in 1..Len(keys) |-> ss[i]] /\ \A i \in 1..Len(keys) : Listed(ss[i])
      BY <2>2, <3>1
    <3> HIDE DEF ss
    <3> QED
      BY <3>1, <3>2, FlattenGrades DEF ss
  <2>4. Makes(refusal, L, F)
    BY Whenever, Words
  <2> HIDE DEF on, refusal
  <2>5. Makes(Alarms(o, on), L, F)
    BY <2>3, RecommendedMakes
  <2> QED
    BY <2>1, <2>4, <2>5, Joins
<1>3. Checks(Given(o, "key"), F) /\ Makes(Make(""), L, F)
  BY Asked, Words
<1> QED
  BY <1>1, <1>2, <1>3, Joins, Grades DEF Queue

(* Tables of both generations.                                             *)
LEMMA TablePlan ==
  ASSUME NEW o, NEW L, AddAlarmRefusals \subseteq L, NEW F
  PROVE  Orderly(Table(o), L, F) /\ Orderly(TableV2(o), L, F)
<1>1. Makes(TableAlarms(o), L, F)
  BY SomeKeys, RecommendedMakes DEF TableAlarms, TableAlarmKeys
<1>2. Checks(Given(o, "key"), F) /\ Makes(Make(""), L, F)
  BY Asked, Words
<1> QED
  BY <1>1, <1>2, Joins, Grades DEF Table, TableV2

(* A stream hands on the key it was given.                                 *)
LEMMA StreamPlan ==
  ASSUME NEW o, NEW L, AddAlarmRefusals \subseteq L, NEW F, "key" \in F
  PROVE  Orderly(Stream(o), L, F)
<1>1. Checks(When("badName" \in o, Refuse("stream name")), F) /\ Checks(Given(o, "key"), F)
  BY Whenever, Words, Asked
<1>2. /\ Makes(Make(""), L, F) /\ Makes(Unmeasured(o), L, F) /\ Makes(Custom(o), L, F)
      /\ Makes(When("key" \in o, Hold("key")), L, F)
  BY Whenever, Words, CustomMakes
<1> QED
  BY <1>1, <1>2, Joins, Grades DEF Stream

(* Keys.                                                                   *)
LEMMA KeyPlan ==
  ASSUME NEW o, NEW L, AddAlarmRefusals \subseteq L, NEW F
  PROVE  Orderly(Key(o), L, F)
<1>1. Makes(KeyAlarms(o), L, F)
  <2>1. Makes(When("expiry" \in o, Recommended(o, <<"KeyMaterialExpiration">>)), L, F)
    BY SomeKeys, RecommendedMakes, Whenever
  <2> QED
    BY <2>1, CustomMakes, Joins DEF KeyAlarms
<1>2. Makes(Make(""), L, F)
  BY Words
<1> QED
  BY <1>1, <1>2, Joins, Grades DEF Key

(* Log groups and the transaction search of xray.                          *)
LEMMA LogGroupPlan ==
  ASSUME NEW o, NEW L, NEW F
  PROVE  Orderly(LogGroup(o), L, F) /\ Orderly(TransactionSearch(o), L, F)
<1>1. Checks(Given(o, "key"), F) /\ Makes(Make(""), L, F) /\ Makes(Make("LogsPolicy"), L, F)
  BY Asked, Words
<1> QED
  BY <1>1, Joins, Grades DEF LogGroup, TransactionSearch

(* Binding a subscription.                                                 *)
LEMMA BindMakes ==
  ASSUME NEW o, NEW suffix, NEW L, NEW F
  PROVE  Makes(BindSubscription(o, suffix), L, F)
BY Words, Whenever, Joins DEF BindSubscription

(* A topic resolves its subscriptions once it is made.                     *)
LEMMA TopicPlan ==
  ASSUME NEW o, NEW L, "subscription" \in L, AddAlarmRefusals \subseteq L, NEW F
  PROVE  Orderly(Topic(o), L, F)
<1>1. Makes(TopicAlarms(o), L, F)
  BY SomeKeys, RecommendedMakes DEF TopicAlarms, TopicAlarmKeys
<1>2. \A key : Makes(AddedSubscription(o, key), L, F)
  <2>1. Makes(Ref("subscription") \o BindSubscription(o, "SubSubscription"), L, F)
    BY BindMakes, Words, Joins
  <2> QED
    BY <2>1, Whenever DEF AddedSubscription
<1>3. Checks(Given(o, "key"), F) /\ Makes(Make(""), L, F)
  BY Asked, Words
<1> QED
  BY <1>1, <1>2, <1>3, Joins, Grades DEF Topic

(* A subscription of its own.                                              *)
LEMMA SubscriptionPlan ==
  ASSUME NEW o, NEW L, NEW F
  PROVE  Orderly(Subscription(o), L, F)
<1>1. /\ Checks(Needs(o, "topic"), F) /\ Checks(Needs(o, "sub"), F)
      /\ Checks(Ref("topic"), F) /\ Checks(Ref("subscription"), F)
  BY Asked, Words
<1> QED
  BY <1>1, BindMakes, Joins, Grades DEF Subscription

(* A rule resolves its targets once it is made.                            *)
LEMMA RulePlan ==
  ASSUME NEW o, NEW L, "target" \in L, AddAlarmRefusals \subseteq L, NEW F
  PROVE  Orderly(Rule(o), L, F)
<1>1. Makes(RuleAlarms(o), L, F)
  <2>1. RuleAlarmKeys \in Seq(ToSet(RuleAlarmKeys)) /\ Len(RuleAlarmKeys) = 4
    <3>1. Listed(RuleAlarmKeys)
      BY SomeKeys DEF RuleAlarmKeys
    <3>2. Len(RuleAlarmKeys) = 4
      BY DEF RuleAlarmKeys
    <3> QED
      BY <3>1, <3>2 DEF Listed
  <2>2. \A n \in {2, 4} : SubSeq(RuleAlarmKeys, 1, n) \in Seq(ToSet(RuleAlarmKeys))
    BY <2>1
  <2>3. \A n \in {2, 4} : Makes(Alarms(o, SubSeq(RuleAlarmKeys, 1, n)), L, F)
    BY <2>2, ListedIn, RecommendedMakes
  <2> QED
    BY <2>3 DEF RuleAlarms
<1>2. /\ Checks(When(o \cap {"schedule", "pattern"} = {},
                     Refuse("neither schedule nor pattern")), F)
      /\ Checks(Given(o, "bus"), F) /\ Checks(Given(o, "pattern"), F)
  BY Asked, Words, Whenever
<1>3. Makes(When("target" \in o, Ref("target") \o Touch("target")), L, F) /\ Makes(Make(""), L, F)
  BY Words, Joins, Whenever
<1> QED
  BY <1>1, <1>2, <1>3, Joins, Grades DEF Rule

(* A state machine resolves what its definition and its encryption refer   *)
(* to, its role and its grants late, and hands on that role and the log    *)
(* group all state machines of a stack share.                              *)
LEMMA StateMachinePlan ==
  ASSUME NEW o, NEW L, AddAlarmRefusals \subseteq L,
         {"definitionSubstitutions", "role", "encryptionConfiguration", "granted"} \subseteq L,
         NEW F, {"role", "Stack/VersionPrunerLogs"} \subseteq F
  PROVE  Orderly(StateMachine(o), L, F)
<1>1. Checks(ResolveWorkflow(o), F)
  BY Words DEF ResolveWorkflow
<1>2. Checks(ValidateVersioning(o), F)
  <2>1. /\ Checks(When("alias" \in o /\ "publish" \notin o, Refuse("alias without publishVersion")), F)
        /\ Checks(When({"publish", "badRetain"} \subseteq o, Refuse("retain")), F)
        /\ Checks(When({"alias", "badAlias"} \subseteq o, Refuse("alias name or deployment")), F)
    BY Words, Whenever
  <2> QED
    BY <2>1, Joins DEF ValidateVersioning
<1>3. Checks(When("definition" \in o /\ o \cap {"timeout", "express"} = {}, Refuse("no timeout")), F)
  BY Words, Whenever
<1>4. /\ Makes(When("logsOff" \notin o, Make("Logs")), L, F)
      /\ Makes(When("definition" \in o, MakeInside("Definition")), L, F)
      /\ Makes(Make(""), L, F) /\ Makes(When("role" \in o, Hold("role")), L, F)
  BY Words, Whenever
<1>5. /\ Makes(Given(o, "definitionSubstitutions"), L, F) /\ Makes(Given(o, "role"), L, F)
      /\ Makes(Given(o, "encryptionConfiguration"), L, F) /\ Makes(Grants(o), L, F)
  BY Words, Whenever, GrantsMakes DEF Given
<1>6. Makes(Alarms(o, StateMachineAlarmKeys(o)), L, F)
  <2>1. Listed(When("express" \notin o, <<"ExecutionThrottled">>))
    BY SomeKeys DEF When
  <2>2. Listed(StateMachineAlarmKeys(o))
    BY <2>1, SomeKeys, ListedJoins DEF StateMachineAlarmKeys
  <2> QED
    BY <2>2, RecommendedMakes
<1>7. Makes(BuildVersioning(o), L, F)
  <2>1. Makes(Alias(o), L, F)
    BY Words, Whenever, Joins DEF Alias
  <2>2. /\ Makes(Make("Version"), L, F) /\ Makes(When("alias" \in o, Alias(o)), L, F)
        /\ Makes(Share("Stack/VersionPrunerLogs", TRUE), L, F)
        /\ Makes(Share("Stack/VersionPruner", FALSE), L, F) /\ Makes(Make("VersionPruner"), L, F)
    BY <2>1, Words, Whenever
  <2> QED
    BY <2>2, Joins, Whenever DEF BuildVersioning
<1> DEFINE checks == ResolveWorkflow(o) \o When("definition" \in o /\ o \cap {"timeout", "express"} = {},
                                                 Refuse("no timeout")) \o ValidateVersioning(o)
           core == checks \o When("logsOff" \notin o, Make("Logs"))
                     \o When("definition" \in o, MakeInside("Definition"))
                     \o Given(o, "definitionSubstitutions") \o Given(o, "role")
                     \o Given(o, "encryptionConfiguration")
                     \o Make("") \o When("role" \in o, Hold("role"))
<1>8. StateMachine(o) = core \o Grants(o) \o Alarms(o, StateMachineAlarmKeys(o))
                          \o BuildVersioning(o)
  BY DEF StateMachine
<1>9. Orderly(checks, L, F)
  <2>1. Checks(checks, F)
    BY <1>1, <1>2, <1>3, Joins
  <2> QED
    BY <2>1, Grades
<1> HIDE DEF checks
<1>10. Orderly(core, L, F)
  BY <1>4, <1>5, <1>9, Joins
<1> HIDE DEF core
<1> QED
  BY <1>5, <1>6, <1>7, <1>8, <1>10, Joins

(* An activity.                                                            *)
LEMMA ActivityPlan ==
  ASSUME NEW o, NEW L, AddAlarmRefusals \subseteq L, NEW F
  PROVE  Orderly(Activity(o), L, F)
<1>1. Makes(Alarms(o, ActivityAlarmKeys), L, F) /\ Makes(Make(""), L, F)
  BY SomeKeys, RecommendedMakes, Words DEF ActivityAlarmKeys
<1> QED
  BY <1>1, Asked, Joins, Grades DEF Activity

(* A function on an interval is a sequence.                                *)
LEMMA SequenceOf ==
  ASSUME NEW n \in Nat, NEW T, NEW s \in [1..n -> T]
  PROVE  s \in Seq(T)
OBVIOUS

(* The alarms of a distribution and of its functions.                      *)
LEMMA CloudFrontAlarmsMakes ==
  ASSUME NEW o, NEW L, "alarm key" \in L, NEW F
  PROVE  /\ Orderly(CloudFrontAlarms(o), L, F)
         /\ "alarm without metric" \in L => Makes(CloudFrontAlarms(o), L, F)
<1> DEFINE fns == BehaviorFunctions(o)
           ss == [i \in DOMAIN fns |-> [j \in 1..3 |-> fns[i] \o BehaviorFunctionAlarmKeys[j]]]
<1>1. Listed(fns)
  <2>1. /\ Listed(When("fn" \in o, <<"DefaultBehaviorViewerRequest">>))
        /\ Listed(When({"fn", "fn2"} \subseteq o, <<"DefaultBehaviorViewerResponse">>))
        /\ Listed(When("behavior" \in o, <<"BehaviorApiSlashStarViewerRequest">>))
    BY SomeKeys DEF When
  <2> QED
    BY <2>1, ListedJoins DEF BehaviorFunctions
<1>2. \A f : Listed([j \in 1..3 |-> f \o BehaviorFunctionAlarmKeys[j]])
  <2> SUFFICES ASSUME NEW f PROVE Listed([j \in 1..3 |-> f \o BehaviorFunctionAlarmKeys[j]])
    OBVIOUS
  <2> DEFINE ids == [j \in 1..3 |-> f \o BehaviorFunctionAlarmKeys[j]]
             T == {ids[j] : j \in 1..3}
  <2>1. ids \in [1..3 -> T]
    OBVIOUS
  <2> HIDE DEF ids, T, fns, ss
  <2>2. ids \in Seq(T)
    BY <2>1, SequenceOf
  <2> QED
    BY <2>2, ListedIn DEF ids
<1>3. Listed(FlattenSeq(ss))
  <2>1. DOMAIN fns = 1..Len(fns) /\ Len(fns) \in Nat
    BY <1>1, ListedKeys
  <2> HIDE DEF fns
  <2>2. ss = [i \in 1..Len(fns) |-> ss[i]] /\ \A i \in 1..Len(fns) : Listed(ss[i])
    BY <1>2, <2>1
  <2> HIDE DEF ss
  <2> QED
    BY <2>1, <2>2, FlattenGrades
<1>4. /\ Makes(AlarmsOf(o, "", FlattenSeq(ss)), L, F) /\ Makes(Custom(o), L, F)
      /\ Checks(Unmeasured(o), F)
      /\ "alarm without metric" \in L => Makes(Unmeasured(o), L, F)
  <2> HIDE DEF ss
  <2> QED
    BY <1>3, RecommendedMakes
<1>5. Makes(Recommended(o, DistributionAlarmKeys), L, F)
  BY SomeKeys, RecommendedMakes DEF DistributionAlarmKeys
<1>6. CloudFrontAlarms(o)
        = Unmeasured(o) \o Recommended(o, DistributionAlarmKeys)
            \o AlarmsOf(o, "", FlattenSeq(ss)) \o Custom(o)
  BY DEF CloudFrontAlarms
<1> HIDE DEF ss
<1> QED
  BY <1>4, <1>5, <1>6, Joins, Grades

(* A distribution resolves its behaviors between making its parts.         *)
LEMMA DistributionPlan ==
  ASSUME NEW o, NEW L, NEW F, AddAlarmRefusals \subseteq L,
         {"behaviorOrigin", "two functions for one event",
          "key-value store without its runtime"} \subseteq L
  PROVE  Orderly(Distribution(o), L, F)
<1>1. Orderly(DistributionLogs(o), L, F)
  <2>1. Orderly(When("logsConfigure" \in o, Refuse("configure with destination")), L, F)
    BY Words, Whenever, Grades
  <2>2. Makes(Make("AccessLogs") \o When("logsConfigure" \in o, AlarmInside("AccessLogsCustom")), L, F)
    BY Words, Whenever, Joins
  <2> QED
    BY <2>1, <2>2, NoStep, Grades DEF DistributionLogs
<1>2. Makes(ResolveBehaviors(o), L, F)
  <2> DEFINE Fn(f) == Make(f \o "Fn")
             refusal == When("oldRuntime" \in o, Refuse("key-value store without its runtime"))
  <2>1. \A f : Makes(Fn(f), L, F)
    BY Words
  <2> HIDE DEF Fn
  <2>2. /\ Makes(When({"fn", "fn2", "twice"} \subseteq o, Refuse("two functions for one event")), L, F)
        /\ Makes(When("fn" \in o, Fn("DefaultBehaviorViewerRequest")), L, F)
        /\ Makes(refusal, L, F)
    BY <2>1, Words, Whenever
  <2> HIDE DEF refusal
  <2>3. Makes(When({"fn", "fn2"} \subseteq o, refusal \o Fn("DefaultBehaviorViewerResponse")), L, F)
    BY <2>1, <2>2, Joins, Whenever
  <2>4. Makes(When("behavior" \in o, Ref("behaviorOrigin") \o Fn("BehaviorApiSlashStarViewerRequest")),
              L, F)
    BY <2>1, Words, Joins, Whenever
  <2>5. ResolveBehaviors(o)
          = When({"fn", "fn2", "twice"} \subseteq o, Refuse("two functions for one event"))
              \o When("fn" \in o, Fn("DefaultBehaviorViewerRequest"))
              \o When({"fn", "fn2"} \subseteq o, refusal \o Fn("DefaultBehaviorViewerResponse"))
              \o When("behavior" \in o,
                      Ref("behaviorOrigin") \o Fn("BehaviorApiSlashStarViewerRequest"))
    BY DEF ResolveBehaviors, Fn, refusal
  <2> QED
    BY <2>2, <2>3, <2>4, <2>5, Joins
<1>3. /\ Checks(Needs(o, "origin"), F) /\ Checks(Ref("origin"), F)
      /\ Checks(Given(o, "certificate"), F) /\ Makes(Make(""), L, F)
  BY Asked, Words
<1> QED
  BY <1>1, <1>2, <1>3, CloudFrontAlarmsMakes, Joins, Grades DEF Distribution, AddAlarmRefusals

(* The alarms of a distribution of another stack.                          *)
LEMMA CloudFrontAlarmPlan ==
  ASSUME NEW o, NEW L, "alarm key" \in L, NEW F
  PROVE  Orderly(CloudFrontAlarm(o), L, F)
<1>1. Checks(Needs(o, "distribution"), F) /\ Checks(Ref("distribution"), F)
  BY Asked, Words
<1> QED
  BY <1>1, CloudFrontAlarmsMakes, Joins, Grades DEF CloudFrontAlarm

(* A certificate.                                                          *)
LEMMA CertificatePlan ==
  ASSUME NEW o, NEW L, AddAlarmRefusals \subseteq L, NEW F
  PROVE  Orderly(Certificate(o), L, F)
<1>1. Makes(CertificateAlarms(o), L, F) /\ Makes(Make(""), L, F)
  BY SomeKeys, RecommendedMakes, Words DEF CertificateAlarms, CertificateAlarmKeys
<1> DEFINE ways == o \cap {"validation", "zone", "zones"}
           checks == Needs(o, "domainName") \o When(Cardinality(ways) > 1, Refuse("two ways to validate"))
                       \o When(ways = {}, Refuse("no validation"))
                       \o When(ways \cap {"zone", "zones"} # {}, Ref("zone"))
<1>2. Orderly(checks, L, F)
  <2>1. /\ Checks(Needs(o, "domainName"), F)
        /\ Checks(When(Cardinality(ways) > 1, Refuse("two ways to validate")), F)
        /\ Checks(When(ways = {}, Refuse("no validation")), F)
        /\ Checks(When(ways \cap {"zone", "zones"} # {}, Ref("zone")), F)
    BY Asked, Words, Whenever
  <2>2. Checks(checks, F)
    BY <2>1, Joins
  <2> QED
    BY <2>2, Grades
<1>3. Certificate(o) = checks \o Make("") \o CertificateAlarms(o)
  BY DEF Certificate
<1> HIDE DEF checks
<1> QED
  BY <1>1, <1>2, <1>3, Joins

(* A REST API resolves the integrations of its methods once it is made.    *)
LEMMA RestApiPlan ==
  ASSUME NEW o, NEW L, {"integration", "itemIntegration"} \subseteq L,
         AddAlarmRefusals \subseteq L, NEW F
  PROVE  Orderly(RestApi(o), L, F)
<1>1. Makes(RestApiAlarms(o), L, F)
  BY SomeKeys, RecommendedMakes DEF RestApiAlarms, RestApiAlarmKeys
<1>2. Makes(ResolveDeployOptions(o), L, F) /\ Makes(Make(""), L, F)
  BY Words, Whenever DEF ResolveDeployOptions
<1>3. Makes(When("method" \in o, Ref("integration") \o Make("/GET")), L, F)
  BY Words, Joins, Whenever
<1>4. Makes(When("resource" \in o,
                 Make("/Default/item") \o Ref("itemIntegration") \o Make("/Default/item/GET")), L, F)
  BY Words, Joins, Whenever
<1> QED
  BY <1>1, <1>2, <1>3, <1>4, Joins, Grades DEF RestApi, ApplyResources

(* A REST API from a specification resolves all it needs beforehand.       *)
LEMMA SpecRestApiPlan ==
  ASSUME NEW o, NEW L, AddAlarmRefusals \subseteq L, NEW F
  PROVE  Orderly(SpecRestApi(o), L, F)
<1>1. Makes(RestApiAlarms(o), L, F)
  BY SomeKeys, RecommendedMakes DEF RestApiAlarms, RestApiAlarmKeys
<1>2. Makes(ResolveDeployOptions(o), L, F) /\ Makes(Make(""), L, F)
  BY Words, Whenever DEF ResolveDeployOptions
<1>3. Checks(Needs(o, "definition"), F) /\ Checks(Ref("definition"), F) /\ Checks(SubstituteSpec(o), F)
  BY Asked, Words, Whenever DEF SubstituteSpec
<1> QED
  BY <1>1, <1>2, <1>3, Joins, Grades DEF SpecRestApi

(* A hosted zone, with its query log.                                      *)
LEMMA HostedZonePlan ==
  ASSUME NEW o, NEW L, NEW F
  PROVE  Orderly(HostedZone(o), L, F)
<1>1. Checks(When("logsConfigure" \in o, Refuse("configure with logGroupArn")), F)
  BY Words, Whenever
<1>2. Orderly(When("elsewhere" \in o, Refuse("not in us-east-1"))
             \o Make("QueryLogs") \o Share("Stack/QueryLoggingPolicy", FALSE), L, F)
  <2>1. Checks(When("elsewhere" \in o, Refuse("not in us-east-1")), F)
    BY Words, Whenever
  <2>2. Makes(Make("QueryLogs"), L, F) /\ Makes(Share("Stack/QueryLoggingPolicy", FALSE), L, F)
    BY Words
  <2> QED
    BY <2>1, <2>2, Joins, Grades
<1>3. Orderly(ResolveQueryLogging(o), L, F)
  BY <1>1, <1>2, NoStep, Grades DEF ResolveQueryLogging
<1>4. Checks(Needs(o, "zoneName"), F) /\ Makes(Make(""), L, F)
  BY Asked, Words
<1> QED
  BY <1>3, <1>4, Joins, Grades DEF HostedZone

(* A health check, and the alarms of one of another stack.                 *)
LEMMA HealthCheckPlan ==
  ASSUME NEW o, NEW L, "alarm key" \in L, NEW F
  PROVE  /\ "alarm without metric" \in L => Orderly(HealthCheck(o), L, F)
         /\ Orderly(HealthCheckAlarm(o), L, F)
<1>1. /\ "alarm without metric" \in L => Makes(HealthCheckAlarms(o), L, F)
      /\ Orderly(HealthCheckAlarms(o), L, F) /\ Makes(Make(""), L, F)
  BY SomeKeys, RecommendedMakes, Words
     DEF HealthCheckAlarms, HealthCheckAlarmKeys, AddAlarmRefusals
<1>2. /\ Checks(Needs(o, "type"), F) /\ Checks(Needs(o, "healthCheck"), F)
      /\ Checks(Ref("healthCheck"), F)
  BY Asked, Words
<1> QED
  BY <1>1, <1>2, Joins, Grades DEF HealthCheck, HealthCheckAlarm

(* A delegation record hands on the role it was given and the logs of the  *)
(* provider that the stack shares.                                         *)
LEMMA DelegationPlan ==
  ASSUME NEW o, NEW L, NEW F, {"role", "Stack/DelegationProviderLogs"} \subseteq F
  PROVE  Orderly(CrossAccountZoneDelegation(o), L, F)
<1> DEFINE parents == o \cap {"parentName", "parentId"}
           role == IF "roleArn" \in o THEN Make("DelegationRole") ELSE Ref("role") \o Hold("role")
<1>1. /\ Checks(Needs(o, "zone"), F) /\ Checks(Ref("zone"), F)
      /\ Checks(When(o \cap {"role", "roleArn"} = {}, Refuse("no role")), F)
      /\ Checks(When(Cardinality(parents) = 2, Refuse("two parents")), F)
      /\ Checks(When(parents = {}, Refuse("no parent")), F)
      /\ Checks(When("noNameServers" \in o, Refuse("zone without name servers")), F)
  BY Asked, Words, Whenever
<1>2. Checks(Ref("role") \o Hold("role"), F)
  BY Words, Joins
<1>3. Orderly(role, L, F)
  BY <1>2, Words, Grades
<1>4. /\ Makes(Make(""), L, F) /\ Makes(Share("Stack/DelegationProvider", FALSE), L, F)
      /\ Makes(When("logsOff" \notin o, Share("Stack/DelegationProviderLogs", TRUE)), L, F)
  BY Words, Whenever
<1> DEFINE checks ==
      Needs(o, "zone")
        \o When(o \cap {"role", "roleArn"} = {}, Refuse("no role"))
        \o When(Cardinality(parents) = 2, Refuse("two parents"))
        \o When(parents = {}, Refuse("no parent"))
        \o Ref("zone")
        \o When("noNameServers" \in o, Refuse("zone without name servers"))
           logs == When("logsOff" \notin o, Share("Stack/DelegationProviderLogs", TRUE))
<1>5. Checks(checks, F)
  BY <1>1, Joins
<1>6. CrossAccountZoneDelegation(o)
        = checks \o role \o Make("") \o Share("Stack/DelegationProvider", FALSE) \o logs
  BY DEF CrossAccountZoneDelegation
<1> HIDE DEF role, parents, checks, logs
<1>7. Orderly(checks \o role, L, F)
  BY <1>3, <1>5, Joins
<1> QED
  BY <1>4, <1>6, <1>7, Joins DEF logs

(* A record refuses, resolves, and makes.                                  *)
LEMMA RecordPlan ==
  ASSUME NEW o, NEW needed, NEW refs, Listed(needed), Listed(refs), NEW L, NEW F
  PROVE  Orderly(Record(o, needed, refs), L, F)
<1> DEFINE checks == [i \in DOMAIN needed |-> Needs(o, needed[i])]
           resolves == [i \in DOMAIN refs |-> Ref(refs[i])]
<1>1. /\ DOMAIN needed = 1..Len(needed) /\ Len(needed) \in Nat
      /\ DOMAIN refs = 1..Len(refs) /\ Len(refs) \in Nat
  BY ListedKeys
<1>2. /\ checks = [i \in 1..Len(needed) |-> checks[i]]
      /\ \A i \in 1..Len(needed) : Checks(checks[i], F)
  BY <1>1, Asked
<1>3. /\ resolves = [i \in 1..Len(refs) |-> resolves[i]]
      /\ \A i \in 1..Len(refs) : Checks(resolves[i], F)
  BY <1>1, Words
<1>4. Record(o, needed, refs) = FlattenSeq(checks) \o FlattenSeq(resolves) \o Make("")
  BY DEF Record, Each
<1> HIDE DEF checks, resolves
<1>5. Checks(FlattenSeq(checks), F) /\ Checks(FlattenSeq(resolves), F) /\ Makes(Make(""), L, F)
  BY <1>1, <1>2, <1>3, FlattenGrades, Words
<1> QED
  BY <1>4, <1>5, Joins, Grades

(* The record builders that are written with Record.                       *)
LEMMA AddressRecordPlans ==
  ASSUME NEW o, NEW L, NEW F
  PROVE  Orderly(ARecord(o), L, F) /\ Orderly(AaaaRecord(o), L, F) /\ Orderly(CnameRecord(o), L, F)
BY RecordPlan, SomeKeys DEF ARecord, AaaaRecord, CnameRecord

(* The record builders of literal lists.                                   *)
LEMMA ListRecordPlans ==
  ASSUME NEW o, NEW L, NEW F
  PROVE  /\ Orderly(TxtRecord(o), L, F) /\ Orderly(MxRecord(o), L, F) /\ Orderly(SrvRecord(o), L, F)
         /\ Orderly(CaaRecord(o), L, F) /\ Orderly(SvcbRecord(o), L, F) /\ Orderly(DsRecord(o), L, F)
<1>1. /\ Checks(Needs(o, "zone"), F) /\ Checks(Ref("zone"), F) /\ Makes(Make(""), L, F)
      /\ Checks(When("values" \notin o \/ "empty" \in o, Refuse("no values")), F)
  BY Asked, Words, Whenever
<1>2. Orderly(ListRecord(o), L, F)
  BY <1>1, Joins, Grades DEF ListRecord
<1> QED
  BY <1>2 DEF TxtRecord, MxRecord, SrvRecord, CaaRecord, SvcbRecord, DsRecord

(* The NS and HTTPS record builders.                                       *)
LEMMA OtherRecordPlans ==
  ASSUME NEW o, NEW L, NEW F
  PROVE  Orderly(NsRecord(o), L, F) /\ Orderly(HttpsRecord(o), L, F)
<1>1. /\ Checks(Needs(o, "zone"), F) /\ Checks(Needs(o, "recordName"), F)
      /\ Checks(Needs(o, "values"), F) /\ Checks(Ref("values"), F) /\ Checks(Ref("zone"), F)
      /\ Checks(When("empty" \in o, Refuse("no values")), F) /\ Makes(Make(""), L, F)
  BY Asked, Words, Whenever
<1>2. Orderly(NsRecord(o), L, F)
  BY <1>1, Joins, Grades DEF NsRecord
<1>3. /\ Checks(When({"values", "empty"} \subseteq o, Refuse("no values")), F)
      /\ Checks(When(("values" \in o) = ("target" \in o), Refuse("values and target")), F)
      /\ Checks(Given(o, "target"), F)
  BY Asked, Words, Whenever
<1>4. Orderly(HttpsRecord(o), L, F)
  BY <1>1, <1>3, Joins, Grades DEF HttpsRecord
<1> QED
  BY <1>2, <1>4

(* A vpc refuses zones and their number once its log group is made.        *)
LEMMA VpcPlan ==
  ASSUME NEW o, NEW L, "zones and their number" \in L, NEW F
  PROVE  Orderly(Vpc(o), L, F)
<1>1. Checks(When("logsConfigure" \in o, Refuse("configure with destination")), F)
  BY Words, Whenever
<1>2. Orderly(ResolveFlowLogs(o), L, F)
  BY <1>1, NoStep, Words, Grades DEF ResolveFlowLogs
<1>3. /\ Makes(When({"zones", "maxAzs"} \subseteq o, Refuse("zones and their number")), L, F)
      /\ Makes(Make(""), L, F)
  BY Words, Whenever
<1> QED
  BY <1>2, <1>3, Joins DEF Vpc

(* A security group resolves its peers once it is made.                    *)
LEMMA SecurityGroupPlan ==
  ASSUME NEW o, NEW L, "peer" \in L, NEW F
  PROVE  Orderly(SecurityGroup(o), L, F)
<1>1. /\ Checks(Needs(o, "vpc"), F) /\ Checks(Ref("vpc"), F) /\ Checks(Needs(o, "description"), F)
      /\ Checks(When("badDescription" \in o, Refuse("description")), F)
      /\ Checks(When("badName" \in o, Refuse("name")), F)
  BY Asked, Words, Whenever
<1>2. Makes(Make(""), L, F) /\ Makes(Given(o, "peer"), L, F)
  BY Words, Whenever DEF Given
<1> QED
  BY <1>1, <1>2, Joins, Grades DEF SecurityGroup

(* An interface endpoint resolves who has access once it is made.          *)
LEMMA InterfaceEndpointPlan ==
  ASSUME NEW o, NEW L, "access" \in L, AddAlarmRefusals \subseteq L, NEW F
  PROVE  Orderly(InterfaceEndpoint(o), L, F)
<1> DEFINE sgs == IF "groups" \in o THEN Ref("groups") ELSE Make("Sg")
           checks == Needs(o, "vpc") \o Ref("vpc") \o Needs(o, "service")
                       \o When({"groups", "access"} \subseteq o, Refuse("access to groups of others"))
<1>1. Orderly(sgs, L, F)
  BY Words, Grades
<1>2. Checks(checks, F)
  <2>1. /\ Checks(Needs(o, "vpc"), F) /\ Checks(Ref("vpc"), F) /\ Checks(Needs(o, "service"), F)
        /\ Checks(When({"groups", "access"} \subseteq o, Refuse("access to groups of others")), F)
    BY Asked, Words, Whenever
  <2> QED
    BY <2>1, Joins
<1>3. Makes(InterfaceEndpointAlarms(o), L, F)
  BY SomeKeys, RecommendedMakes DEF InterfaceEndpointAlarms, InterfaceEndpointAlarmKeys
<1>4. Makes(Make(""), L, F) /\ Makes(Given(o, "access"), L, F)
  BY Words, Whenever DEF Given
<1>5. InterfaceEndpoint(o)
        = checks \o sgs \o Make("") \o Given(o, "access") \o InterfaceEndpointAlarms(o)
  BY DEF InterfaceEndpoint
<1> HIDE DEF sgs, checks
<1> QED
  BY <1>1, <1>2, <1>3, <1>4, <1>5, Joins

(* A volume.                                                               *)
LEMMA VolumePlan ==
  ASSUME NEW o, NEW L, AddAlarmRefusals \subseteq L, NEW F
  PROVE  Orderly(Volume(o), L, F)
<1>1. Makes(VolumeAlarms(o), L, F)
  <2>1. Makes(When("burstable" \in o, Recommended(o, VolumeAlarmKeys)), L, F)
    BY SomeKeys, RecommendedMakes, Whenever DEF VolumeAlarmKeys
  <2> QED
    BY <2>1, CustomMakes, Joins DEF VolumeAlarms
<1>2. /\ Checks(Needs(o, "zone"), F) /\ Checks(Ref("zone"), F) /\ Checks(Given(o, "key"), F)
      /\ Makes(Make(""), L, F)
  BY Asked, Words
<1> QED
  BY <1>1, <1>2, Joins, Grades DEF Volume

(* An instance resolves its volumes one by one, each after the one before  *)
(* was attached.                                                           *)
LEMMA InstancePlan ==
  ASSUME NEW o, NEW L, {"granted", "data", "Data", "logs", "volume in another zone"} \subseteq L,
         AddAlarmRefusals \subseteq L, NEW F
  PROVE  Orderly(Instance(o), L, F)
<1>1. Makes(InstanceAlarms(o), L, F)
  <2>1. Listed(When("burstable" \in o, <<"CpuCreditBalance">>))
    BY SomeKeys DEF When
  <2>2. Listed(InstanceAlarmKeys(o))
    BY <2>1, SomeKeys, ListedJoins DEF InstanceAlarmKeys
  <2> QED
    BY <2>2, RecommendedMakes DEF InstanceAlarms
<1>2. Makes(CreateVolumeAttachments(o), L, F)
  <2>1. ASSUME NEW v \in {"data", "Data", "logs"}, NEW elsewhere
        PROVE  Makes(AttachVolume(v, elsewhere), L, F)
    <3>1. /\ Makes(Ref(v), L, F) /\ \A w : Makes(Make(w), L, F)
          /\ Makes(When(elsewhere, Refuse("volume in another zone")), L, F)
      BY Words, Whenever
    <3> QED
      BY <3>1, Joins DEF AttachVolume
  <2>2. /\ Makes(When("data" \in o, AttachVolume("data", FALSE)), L, F)
        /\ Makes(When("Data" \in o, AttachVolume("Data", FALSE)), L, F)
        /\ Makes(When("logs" \in o, AttachVolume("logs", "otherZone" \in o)), L, F)
    BY <2>1, Whenever
  <2>3. /\ Makes(When("data" \in o, Alarm("Data.volumeStalledIo")), L, F)
        /\ Makes(When("Data" \in o, Alarm("Data.volumeStalledIo")), L, F)
        /\ Makes(When("logs" \in o, Alarm("Logs.volumeStalledIo")), L, F)
    BY Words, Whenever
  <2> QED
    BY <2>2, <2>3, Joins DEF CreateVolumeAttachments
<1>3. /\ Checks(Needs(o, "vpc"), F) /\ Checks(Ref("vpc"), F) /\ Checks(Given(o, "group"), F)
      /\ Makes(Make(""), L, F) /\ Makes(Grants(o), L, F)
  BY Asked, Words, GrantsMakes
<1> QED
  BY <1>1, <1>2, <1>3, Joins, Grades DEF Instance

(* A cluster resolves its groups, its key and its peers after its          *)
(* parameter group is made, and hands on one that it was given.            *)
LEMMA ClusterPlan ==
  ASSUME NEW o, NEW L, {"groups", "key", "access"} \subseteq L, AddAlarmRefusals \subseteq L,
         NEW F, "parameterGroup" \in F
  PROVE  Orderly(Cluster(o), L, F)
<1>1. Makes(ClusterAlarms(o), L, F)
  <2>1. Listed(When("serverless" \in o, <<"ServerlessDatabaseCapacity">>))
    BY SomeKeys DEF When
  <2>2. Listed(ClusterAlarmKeys(o))
    BY <2>1, SomeKeys, ListedJoins DEF ClusterAlarmKeys
  <2> QED
    BY <2>2, RecommendedMakes DEF ClusterAlarms
<1>2. /\ Checks(Needs(o, "vpc"), F) /\ Checks(Ref("vpc"), F) /\ Checks(Needs(o, "instanceType"), F)
      /\ Checks(When({"group", "parameters"} \subseteq o, Refuse("parameters of a given group")), F)
  BY Asked, Words, Whenever
<1>3. /\ Makes(When("group" \notin o, Make("ParameterGroup")), L, F) /\ Makes(Make(""), L, F)
      /\ Makes(When("group" \in o, Hold("parameterGroup")), L, F)
  BY Words, Whenever
<1>4. Makes(Given(o, "groups"), L, F) /\ Makes(Given(o, "key"), L, F) /\ Makes(Given(o, "access"), L, F)
  BY Words, Whenever DEF Given
<1> DEFINE checks == Needs(o, "vpc") \o Ref("vpc") \o Needs(o, "instanceType")
                       \o When({"group", "parameters"} \subseteq o, Refuse("parameters of a given group"))
<1>5. Orderly(checks, L, F)
  <2>1. Checks(checks, F)
    BY <1>2, Joins
  <2> QED
    BY <2>1, Grades
<1>6. Cluster(o) = checks \o When("group" \notin o, Make("ParameterGroup"))
                     \o Given(o, "groups") \o Given(o, "key")
                     \o Make("") \o When("group" \in o, Hold("parameterGroup"))
                     \o Given(o, "access") \o ClusterAlarms(o)
  BY DEF Cluster
<1> HIDE DEF checks
<1> QED
  BY <1>1, <1>3, <1>4, <1>5, <1>6, Joins

(* Alarms that need a threshold refuse before they make the first.         *)
LEMMA ThresholdAlarmsMakes ==
  ASSUME NEW o, NEW owner, NEW keys, Listed(keys), NEW optIn, NEW added,
         NEW L, "alarm key" \in L, NEW F
  PROVE  /\ Orderly(ThresholdAlarms(o, owner, keys, optIn, added), L, F)
         /\ {"no threshold", "alarm without metric"} \subseteq L =>
              Makes(ThresholdAlarms(o, owner, keys, optIn, added), L, F)
<1> DEFINE pick(k) == When(k \notin o, <<k>>)
           picked == [i \in DOMAIN keys |-> pick(keys[i])]
           on == FlattenSeq(picked) \o When("ask" \in o, <<optIn>>)
           refusal == When("quiet" \notin o /\ "askBare" \in o, Refuse("no threshold"))
<1>1. DOMAIN keys = 1..Len(keys) /\ Len(keys) \in Nat /\ \A k : Listed(pick(k))
  BY ListedKeys, SomeKeys DEF When
<1> HIDE DEF pick
<1>2. picked = [i \in 1..Len(keys) |-> picked[i]] /\ \A i \in 1..Len(keys) : Listed(picked[i])
  BY <1>1
<1> HIDE DEF picked
<1>3. Listed(FlattenSeq(picked))
  BY <1>1, <1>2, FlattenGrades
<1>4. Listed(When("ask" \in o, <<optIn>>))
  BY SomeKeys DEF When
<1>5. Listed(on)
  BY <1>3, <1>4, ListedJoins
<1>6. ThresholdAlarms(o, owner, keys, optIn, added)
        = refusal \o Unmeasured(added) \o AlarmsOf(o, owner, on) \o Custom(added)
  BY DEF ThresholdAlarms, Each, picked, pick
<1>7. Checks(refusal, F) /\ ("no threshold" \in L => Makes(refusal, L, F))
  BY Words, Whenever
<1> HIDE DEF on, refusal
<1>8. /\ Makes(AlarmsOf(o, owner, on), L, F) /\ Makes(Custom(added), L, F)
      /\ Checks(Unmeasured(added), F)
      /\ "alarm without metric" \in L => Makes(Unmeasured(added), L, F)
  BY <1>5, RecommendedMakes
<1> QED
  BY <1>6, <1>7, <1>8, Joins, Grades

(* A guardrail.                                                            *)
LEMMA GuardrailPlan ==
  ASSUME NEW o, NEW L, "no threshold" \in L, AddAlarmRefusals \subseteq L, NEW F
  PROVE  Orderly(Guardrail(o), L, F)
<1>1. Makes(GuardrailAlarms(o), L, F)
  BY SomeKeys, ThresholdAlarmsMakes DEF GuardrailAlarms, AddAlarmRefusals
<1>2. /\ Checks(Needs(o, "name"), F) /\ Checks(Given(o, "key"), F)
      /\ Makes(Make(""), L, F) /\ Makes(Make("Version"), L, F)
  BY Asked, Words
<1> QED
  BY <1>1, <1>2, Joins, Grades DEF Guardrail

(* An inference profile.                                                   *)
LEMMA InferenceProfilePlan ==
  ASSUME NEW o, NEW L, NEW F
  PROVE  Orderly(ApplicationInferenceProfile(o), L, F)
<1>1. /\ Checks(Needs(o, "name"), F) /\ Checks(Needs(o, "source"), F) /\ Checks(Ref("source"), F)
      /\ Makes(Make(""), L, F)
  BY Asked, Words
<1> QED
  BY <1>1, Joins, Grades DEF ApplicationInferenceProfile

(* The logging of model invocations resolves its bucket late.              *)
LEMMA InvocationLoggingPlan ==
  ASSUME NEW o, NEW L, "bucket" \in L, NEW F
  PROVE  Orderly(ModelInvocationLogging(o), L, F)
<1>1. Makes(ModelInvocationLoggingAlarms(o), L, F)
  <2>1. Listed(When("bucket" \in o, <<"LargeDataS3DeliveryFailure">>))
    BY SomeKeys DEF When
  <2>2. Listed(ModelInvocationLoggingAlarmKeys(o))
    BY <2>1, SomeKeys, ListedJoins DEF ModelInvocationLoggingAlarmKeys
  <2> QED
    BY <2>2, RecommendedMakes DEF ModelInvocationLoggingAlarms
<1>2. Checks(When("logsConfigure" \in o, Ref("logsKey")), F)
  BY Words, Whenever
<1>3. /\ Makes(Make("LogGroup"), L, F) /\ Makes(Make("Role"), L, F) /\ Makes(Make("Configuration"), L, F)
      /\ Makes(When("bucket" \in o, Ref("bucket") \o Touch("bucket")), L, F)
  BY Words, Joins, Whenever
<1> QED
  BY <1>1, <1>2, <1>3, Joins, Grades DEF ModelInvocationLogging

(* The alarms of a model.                                                  *)
LEMMA ModelAlarmPlan ==
  ASSUME NEW o, NEW L, "alarm key" \in L, NEW F
  PROVE  Orderly(ModelAlarm(o), L, F)
<1> DEFINE keys == ModelAlarmKeys \o When("quota" \in o, <<"EstimatedTpmQuotaUsage">>)
           refusal == When("quiet" \notin o /\ {"quota", "badQuota"} \subseteq o, Refuse("quota"))
           alarms == ThresholdAlarms(o, "", keys, "TimeToFirstToken", o)
<1>1. Listed(keys)
  <2>1. Listed(When("quota" \in o, <<"EstimatedTpmQuotaUsage">>)) /\ Listed(ModelAlarmKeys)
    BY SomeKeys DEF When, ModelAlarmKeys
  <2> QED
    BY <2>1, ListedJoins
<1> HIDE DEF keys
<1>2. Orderly(alarms, L, F) /\ Checks(refusal, F)
  BY <1>1, ThresholdAlarmsMakes, Words, Whenever
<1>3. ModelAlarms(o) = refusal \o alarms
  BY DEF ModelAlarms, keys
<1> HIDE DEF refusal, alarms
<1>4. Orderly(ModelAlarms(o), L, F)
  BY <1>2, <1>3, Joins
<1>5. Checks(Needs(o, "model"), F) /\ Checks(Ref("model"), F)
  BY Asked, Words
<1> QED
  BY <1>4, <1>5, Joins DEF ModelAlarm

(* The log retention, the log group and the alarms of an endpoint.         *)
LEMMA EndpointMakes ==
  ASSUME NEW o, NEW name, NEW added, NEW L, "no threshold" \in L,
         AddAlarmRefusals \subseteq L, NEW F
  PROVE  Makes(EndpointObservability(o, name, added), L, F)
<1>1. Makes(ThresholdAlarms(o, name, RuntimeAlarmKeys, "Latency", added), L, F)
  BY SomeKeys, ThresholdAlarmsMakes DEF RuntimeAlarmKeys, AddAlarmRefusals
<1>2. \A w : Makes(Make(w), L, F)
  BY Words
<1> QED
  BY <1>1, <1>2, Joins DEF EndpointObservability

(* A runtime resolves its role, its environment, its grants and its        *)
(* endpoints late.                                                         *)
LEMMA RuntimePlan ==
  ASSUME NEW o, NEW L, {"role", "environmentVariables", "granted", "no threshold"} \subseteq L,
         AddAlarmRefusals \subseteq L, NEW F
  PROVE  Orderly(Runtime(o), L, F)
<1>1. Orderly(RuntimeNetwork(o), L, F)
  <2>1. /\ Checks(When({"vpc", "network"} \subseteq o, Refuse("vpc and network")), F)
        /\ Checks(When(o \cap {"vpc", "network"} = {}, Refuse("no network")), F)
        /\ Checks(Given(o, "vpc"), F) /\ Checks(Given(o, "groups"), F)
        /\ Makes(When("vpc" \in o /\ "groups" \notin o, Make("Sg")), L, F)
    BY Asked, Words, Whenever
  <2> QED
    BY <2>1, Joins, Grades DEF RuntimeNetwork
<1>2. \A name, added : Makes(EndpointObservability(o, name, added), L, F)
  BY EndpointMakes
<1>3. Makes(When("endpoint" \in o, Make("/live") \o EndpointObservability(o, "live", {})), L, F)
  BY <1>2, Words, Joins, Whenever
<1>4. /\ Checks(Needs(o, "artifact"), F) /\ Makes(Given(o, "role"), L, F)
      /\ Makes(Given(o, "environmentVariables"), L, F) /\ Makes(Make(""), L, F)
      /\ Makes(Grants(o), L, F)
  BY Asked, Words, Whenever, GrantsMakes DEF Given
<1> QED
  BY <1>1, <1>2, <1>3, <1>4, Joins DEF Runtime

(* An endpoint of a runtime.                                               *)
LEMMA RuntimeEndpointPlan ==
  ASSUME NEW o, NEW L, "no threshold" \in L, AddAlarmRefusals \subseteq L, NEW F
  PROVE  Orderly(RuntimeEndpoint(o), L, F)
<1>1. /\ Checks(Needs(o, "runtime"), F) /\ Checks(Needs(o, "name"), F) /\ Checks(Ref("runtime"), F)
      /\ Makes(Make(""), L, F) /\ Makes(EndpointObservability(o, "", o), L, F)
  BY Asked, Words, EndpointMakes
<1> QED
  BY <1>1, Joins, Grades DEF RuntimeEndpoint

(* A gateway resolves the functions of its targets once it is made.        *)
LEMMA GatewayPlan ==
  ASSUME NEW o, NEW L, {"targetFunction", "no threshold"} \subseteq L,
         AddAlarmRefusals \subseteq L, NEW F
  PROVE  Orderly(Gateway(o), L, F)
<1> DEFINE role == IF "role" \in o THEN Ref("role") ELSE MakeInside("ServiceRole")
           target == When("target" \in o, Ref("targetFunction") \o Make("/target"))
<1>1. Makes(GatewayAlarms(o), L, F)
  BY SomeKeys, ThresholdAlarmsMakes DEF GatewayAlarms, GatewayAlarmKeys, AddAlarmRefusals
<1>2. Orderly(role, L, F)
  BY Words, Grades
<1>3. Makes(target, L, F)
  BY Words, Joins, Whenever
<1>4. /\ Checks(Given(o, "key"), F) /\ Makes(When("key" \in o, Touch("key")), L, F)
      /\ Makes(Make(""), L, F)
  BY Asked, Words, Whenever
<1>5. Gateway(o)
        = Given(o, "key") \o role \o When("key" \in o, Touch("key")) \o Make("") \o target
            \o GatewayAlarms(o)
  BY DEF Gateway
<1> HIDE DEF role, target
<1> QED
  BY <1>1, <1>2, <1>3, <1>4, <1>5, Joins

(* A memory.                                                               *)
LEMMA MemoryPlan ==
  ASSUME NEW o, NEW L, AddAlarmRefusals \subseteq L, NEW F
  PROVE  Orderly(Memory(o), L, F)
<1>1. /\ Checks(Given(o, "key"), F) /\ Checks(Given(o, "role"), F) /\ Makes(Make(""), L, F)
      /\ Makes(Unmeasured(o), L, F) /\ Makes(Custom(o), L, F)
  BY Asked, Words, CustomMakes
<1> QED
  BY <1>1, Joins, Grades DEF Memory

(* An evaluator.                                                           *)
LEMMA EvaluatorPlan ==
  ASSUME NEW o, NEW L, NEW F
  PROVE  Orderly(Evaluator(o), L, F)
<1>1. Checks(When("code" \in o /\ "judge" \notin o, Ref("function")), F)
  BY Words, Whenever
<1>2. \A c : Checks(When(c, Refuse("name and level and one kind")), F)
  BY Words, Whenever
<1>3. Makes(Make(""), L, F)
  BY Words
<1> QED
  BY <1>1, <1>2, <1>3, Joins, Grades DEF Evaluator

(* An online evaluation hands on the role it was given.                    *)
LEMMA OnlineEvaluationPlan ==
  ASSUME NEW o, NEW L, {"granted", "score of no evaluator"} \subseteq L,
         AddAlarmRefusals \subseteq L, NEW F, "role" \in F
  PROVE  Orderly(OnlineEvaluation(o), L, F)
<1> DEFINE role == IF "role" \in o THEN Ref("role") ELSE Make("ExecutionRole")
           refusal == When(~({"name", "evaluators", "source"} \subseteq o),
                           Refuse("name and evaluators and source"))
<1>1. Makes(OnlineEvaluationAlarms(o), L, F)
  <2>1. /\ Makes(When({"score", "strayScore"} \subseteq o, Refuse("score of no evaluator")), L, F)
        /\ Makes(When("score" \in o, Alarm("Helpfulness")), L, F)
        /\ Makes(Unmeasured(o), L, F) /\ Makes(Custom(o), L, F)
    BY Words, Whenever, CustomMakes
  <2> QED
    BY <2>1, Joins DEF OnlineEvaluationAlarms
<1>2. Orderly(role, L, F)
  BY Words, Grades
<1>3. /\ Checks(refusal, F) /\ Checks(Ref("source"), F) /\ Checks(Ref("evaluators"), F)
      /\ Makes(Make(""), L, F) /\ Makes(When("role" \in o, Hold("role")), L, F)
      /\ Makes(Grants(o), L, F)
  BY Words, Whenever, GrantsMakes
<1>4. OnlineEvaluation(o)
        = refusal \o Ref("source") \o Ref("evaluators") \o role \o Make("")
            \o When("role" \in o, Hold("role")) \o Grants(o) \o OnlineEvaluationAlarms(o)
  BY DEF OnlineEvaluation
<1> HIDE DEF role, refusal
<1>5. Orderly(refusal \o Ref("source") \o Ref("evaluators") \o role, L, F)
  BY <1>2, <1>3, Joins
<1> QED
  BY <1>1, <1>3, <1>4, <1>5, Joins

(* The alarms of session quotas.                                           *)
LEMMA SessionQuotaAlarmPlan ==
  ASSUME NEW o, NEW L, NEW F
  PROVE  Orderly(SessionQuotaAlarm(o), L, F)
<1> DEFINE keys == <<"runtime", "browser", "codeInterpreter">>
           alarms == [i \in DOMAIN keys |-> When(keys[i] \in o, Alarm(keys[i]))]
<1>1. DOMAIN keys = 1..Len(keys) /\ Len(keys) \in Nat
  BY SomeKeys, ListedKeys
<1> HIDE DEF keys
<1>2. alarms = [i \in 1..Len(keys) |-> alarms[i]] /\ \A i \in 1..Len(keys) : Makes(alarms[i], L, F)
  BY <1>1, Words, Whenever
<1>3. SessionQuotaAlarm(o)
        = When("badQuota" \in o /\ o # {"badQuota"}, Refuse("quota")) \o FlattenSeq(alarms)
  BY DEF SessionQuotaAlarm, Each, keys
<1> HIDE DEF alarms
<1>4. Makes(FlattenSeq(alarms), L, F)
  BY <1>1, <1>2, FlattenGrades
<1>5. Checks(When("badQuota" \in o /\ o # {"badQuota"}, Refuse("quota")), F)
  BY Words, Whenever
<1> QED
  BY <1>3, <1>4, <1>5, Joins, Grades

(* A role grants once it is made.                                          *)
LEMMA RolePlan ==
  ASSUME NEW o, NEW L, "granted" \in L, NEW F
  PROVE  Orderly(Role(o), L, F)
<1>1. Checks(Statement(o), F)
  BY Words, Whenever DEF Statement
<1>2. /\ Checks(Needs(o, "assumedBy"), F) /\ Checks(Ref("assumedBy"), F)
      /\ Checks(Given(o, "boundary"), F) /\ Makes(Make(""), L, F) /\ Makes(Grants(o), L, F)
  BY Asked, Words, GrantsMakes
<1> QED
  BY <1>1, <1>2, Joins, Grades DEF Role

(* A managed policy.                                                       *)
LEMMA ManagedPolicyPlan ==
  ASSUME NEW o, NEW L, NEW F
  PROVE  Orderly(ManagedPolicy(o), L, F)
<1>1. Checks(Statement(o), F) /\ Makes(Make(""), L, F)
  BY Words, Whenever DEF Statement
<1> QED
  BY <1>1, Joins, Grades DEF ManagedPolicy

(* An OpenID Connect provider.                                             *)
LEMMA OidcProviderPlan ==
  ASSUME NEW o, NEW L, NEW F
  PROVE  Orderly(OpenIdConnectProvider(o), L, F)
<1>1. /\ Checks(Needs(o, "url"), F) /\ Checks(When("http" \in o, Refuse("url is not https")), F)
      /\ Makes(Make(""), L, F)
  BY Asked, Words, Whenever
<1> QED
  BY <1>1, Joins, Grades DEF OpenIdConnectProvider

(* A budget finds out about the currency of its alarms once it is made.    *)
LEMMA BudgetPlan ==
  ASSUME NEW o, NEW L, "alarm currency" \in L, AddAlarmRefusals \subseteq L, NEW F
  PROVE  Orderly(Budget(o), L, F)
<1>1. Makes(BudgetAlarms(o), L, F)
  <2>1. /\ Makes(ResolveBudgetAlarms(o), L, F)
        /\ Makes(Unmeasured(o), L, F) /\ Makes(Custom(o), L, F)
        /\ Makes(When("charges" \in o, Recommended(o, <<"EstimatedCharges">>)), L, F)
    BY Words, Whenever, SomeKeys, RecommendedMakes, CustomMakes DEF ResolveBudgetAlarms
  <2> QED
    BY <2>1, Joins DEF BudgetAlarms
<1>2. Checks(BuildNotifications(o), F)
  <2>1. Checks(When("emails" \in o, Refuse("too many emails")), F) /\ Checks(Given(o, "topic"), F)
    BY Asked, Words, Whenever
  <2> QED
    BY <2>1, Joins, Whenever DEF BuildNotifications
<1>3. Makes(BudgetsTopicPolicies(o), L, F)
  <2>1. Makes(Touch("topic") \o When("again" \in o, Touch("topic")), L, F)
    BY Words, Whenever, Joins
  <2> QED
    BY <2>1, Words, Whenever DEF BudgetsTopicPolicies
<1>4. /\ Checks(Needs(o, "limit"), F) /\ Checks(When("badCurrency" \in o, Refuse("limit currency")), F)
      /\ Makes(Make(""), L, F)
  BY Asked, Words, Whenever
<1> QED
  BY <1>1, <1>2, <1>3, <1>4, Joins, Grades DEF Budget

(* The alarms of a budget of another stack.                                *)
LEMMA BudgetAlarmPlan ==
  ASSUME NEW o, NEW L, "alarm key" \in L, NEW F
  PROVE  Orderly(BudgetAlarm(o), L, F)
<1>1. Checks(ResolveBudgetAlarms(o), F) /\ Checks(Unmeasured(o), F)
  BY Words, Whenever DEF ResolveBudgetAlarms, Unmeasured
<1>2. /\ Makes(Custom(o), L, F)
      /\ Makes(When("charges" \in o, Recommended(o, <<"EstimatedCharges">>)), L, F)
  BY Whenever, SomeKeys, RecommendedMakes
<1>3. Orderly(BudgetAlarms(o), L, F)
  BY <1>1, <1>2, Joins, Grades DEF BudgetAlarms
<1>4. Checks(Given(o, "budget"), F) /\ Checks(When(o \cap AddAlarm # {}, Needs(o, "budget")), F)
  BY Asked, Whenever
<1> QED
  BY <1>1, <1>3, <1>4, Joins DEF BudgetAlarm

(* An email identity resolves the zones it publishes in once it is made.   *)
LEMMA EmailIdentityPlan ==
  ASSUME NEW o, NEW L, {"dkimZone", "mxZone"} \subseteq L, NEW F
  PROVE  Orderly(EmailIdentity(o), L, F)
<1>1. Checks(When("publish" \in o, DkimSpec(o)), F)
  <2>1. /\ Checks(When("zone" \in o, Refuse("DKIM of a zone")), F)
        /\ Checks(When("email" \in o, Refuse("DKIM of an address")), F)
        /\ Checks(When("byo" \in o /\ "publicKey" \notin o, Refuse("no public key")), F)
    BY Words, Whenever
  <2> QED
    BY <2>1, Joins, Whenever DEF DkimSpec
<1>2. Makes(PublishDkim(o), L, F) /\ Makes(PublishInboundMx(o), L, F)
  BY Words, Joins, Whenever DEF PublishDkim, PublishInboundMx
<1>3. /\ Checks(When(Cardinality(o \cap {"domain", "email", "zone"}) # 1, Refuse("no identity")), F)
      /\ Checks(Given(o, "zone"), F)
      /\ Checks(When({"inboundMx", "email"} \subseteq o, Refuse("MX of an address")), F)
      /\ Makes(Make(""), L, F)
  BY Asked, Words, Whenever
<1> QED
  BY <1>1, <1>2, <1>3, Joins, Grades DEF EmailIdentity

(* A receipt rule set resolves the bucket and the key of an action when it *)
(* adds the rule.                                                          *)
LEMMA ReceiptRuleSetPlan ==
  ASSUME NEW o, NEW L, {"bucket", "key"} \subseteq L, NEW F
  PROVE  Orderly(ReceiptRuleSet(o), L, F)
<1>1. Makes(When("s3" \in o, S3Action(o)), L, F)
  <2>1. Makes(When("key" \in o, Ref("key") \o Touch("key")), L, F) /\ Makes(Ref("bucket"), L, F)
    BY Words, Joins, Whenever
  <2> QED
    BY <2>1, Joins, Whenever DEF S3Action
<1>2. \A name : Makes(ReceiptRule(o, name), L, F)
  <2>1. \A w : Makes(Make(w), L, F)
    BY Words
  <2> QED
    BY <1>1, <2>1, Joins DEF ReceiptRule
<1>3. /\ Makes(When("rule" \in o, ReceiptRule(o, "Rule")), L, F)
      /\ Makes(When("rule2" \in o, ReceiptRule(o, "Rule2")), L, F)
  BY <1>2, Whenever
<1>4. Makes(Activate(o), L, F) /\ Makes(Make(""), L, F)
  <2>1. /\ Makes(Make("ActivationLogs"), L, F) /\ Makes(MakeInside("ActivationFn"), L, F)
        /\ Makes(MakeInside("ActivationProvider"), L, F) /\ Makes(Make("Activation"), L, F)
        /\ Makes(Make(""), L, F)
    BY Words
  <2> QED
    BY <2>1, Joins, Whenever DEF Activate
<1> QED
  BY <1>3, <1>4, Joins, Grades DEF ReceiptRuleSet

(* Receipt filters.                                                        *)
LEMMA ReceiptFilterPlan ==
  ASSUME NEW o, NEW L, NEW F
  PROVE  Orderly(ReceiptFilter(o), L, F) /\ Orderly(AllowListReceiptFilter(o), L, F)
<1>1. Checks(Needs(o, "ip"), F) /\ Makes(Make(""), L, F)
  BY Asked, Words
<1> QED
  BY <1>1, Joins, Grades DEF ReceiptFilter, AllowListReceiptFilter

(* A custom resource resolves what it depends on once it is made.          *)
LEMMA AwsCustomResourcePlan ==
  ASSUME NEW o, NEW L, "dependsOn" \in L, NEW F
  PROVE  Orderly(AwsCustomResource(o), L, F)
<1>1. Checks(ResolvePolicy(o), F)
  BY Words, Whenever, Joins DEF ResolvePolicy
<1>2. /\ Checks(Needs(o, "call"), F) /\ Checks(Given(o, "parameter"), F)
      /\ Makes(Make(""), L, F) /\ Makes(Given(o, "dependsOn"), L, F)
  BY Asked, Words, Whenever DEF Given
<1> QED
  BY <1>1, <1>2, Joins, Grades DEF AwsCustomResource

(* The plan of each service by its name.                                   *)
LEMMA PlanKnown ==
  ASSUME NEW o
  PROVE  /\ PlanOf("bucket", o) = Bucket(o)
         /\ PlanOf("bucketDeployment", o) = BucketDeployment(o)
         /\ PlanOf("queue", o) = Queue(o)
         /\ PlanOf("table", o) = Table(o)
         /\ PlanOf("tableV2", o) = TableV2(o)
         /\ PlanOf("stream", o) = Stream(o)
         /\ PlanOf("key", o) = Key(o)
         /\ PlanOf("logGroup", o) = LogGroup(o)
         /\ PlanOf("transactionSearch", o) = TransactionSearch(o)
         /\ PlanOf("topic", o) = Topic(o)
         /\ PlanOf("subscription", o) = Subscription(o)
         /\ PlanOf("rule", o) = Rule(o)
         /\ PlanOf("stateMachine", o) = StateMachine(o)
         /\ PlanOf("activity", o) = Activity(o)
         /\ PlanOf("distribution", o) = Distribution(o)
         /\ PlanOf("cloudFrontAlarm", o) = CloudFrontAlarm(o)
         /\ PlanOf("certificate", o) = Certificate(o)
         /\ PlanOf("restApi", o) = RestApi(o)
         /\ PlanOf("specRestApi", o) = SpecRestApi(o)
         /\ PlanOf("hostedZone", o) = HostedZone(o)
         /\ PlanOf("healthCheck", o) = HealthCheck(o)
         /\ PlanOf("healthCheckAlarm", o) = HealthCheckAlarm(o)
         /\ PlanOf("delegation", o) = CrossAccountZoneDelegation(o)
         /\ PlanOf("aRecord", o) = ARecord(o)
         /\ PlanOf("aaaaRecord", o) = AaaaRecord(o)
         /\ PlanOf("cnameRecord", o) = CnameRecord(o)
         /\ PlanOf("txtRecord", o) = TxtRecord(o)
         /\ PlanOf("mxRecord", o) = MxRecord(o)
         /\ PlanOf("srvRecord", o) = SrvRecord(o)
         /\ PlanOf("caaRecord", o) = CaaRecord(o)
         /\ PlanOf("svcbRecord", o) = SvcbRecord(o)
         /\ PlanOf("dsRecord", o) = DsRecord(o)
         /\ PlanOf("nsRecord", o) = NsRecord(o)
         /\ PlanOf("httpsRecord", o) = HttpsRecord(o)
         /\ PlanOf("vpc", o) = Vpc(o)
         /\ PlanOf("securityGroup", o) = SecurityGroup(o)
         /\ PlanOf("interfaceEndpoint", o) = InterfaceEndpoint(o)
         /\ PlanOf("volume", o) = Volume(o)
         /\ PlanOf("instance", o) = Instance(o)
         /\ PlanOf("cluster", o) = Cluster(o)
         /\ PlanOf("guardrail", o) = Guardrail(o)
         /\ PlanOf("inferenceProfile", o) = ApplicationInferenceProfile(o)
         /\ PlanOf("invocationLogging", o) = ModelInvocationLogging(o)
         /\ PlanOf("modelAlarm", o) = ModelAlarm(o)
         /\ PlanOf("runtime", o) = Runtime(o)
         /\ PlanOf("runtimeEndpoint", o) = RuntimeEndpoint(o)
         /\ PlanOf("gateway", o) = Gateway(o)
         /\ PlanOf("memory", o) = Memory(o)
         /\ PlanOf("evaluator", o) = Evaluator(o)
         /\ PlanOf("onlineEvaluation", o) = OnlineEvaluation(o)
         /\ PlanOf("sessionQuotaAlarm", o) = SessionQuotaAlarm(o)
         /\ PlanOf("role", o) = Role(o)
         /\ PlanOf("managedPolicy", o) = ManagedPolicy(o)
         /\ PlanOf("oidcProvider", o) = OpenIdConnectProvider(o)
         /\ PlanOf("budget", o) = Budget(o)
         /\ PlanOf("budgetAlarm", o) = BudgetAlarm(o)
         /\ PlanOf("emailIdentity", o) = EmailIdentity(o)
         /\ PlanOf("receiptRuleSet", o) = ReceiptRuleSet(o)
         /\ PlanOf("receiptFilter", o) = ReceiptFilter(o)
         /\ PlanOf("allowListFilter", o) = AllowListReceiptFilter(o)
         /\ PlanOf("awsCustomResource", o) = AwsCustomResource(o)
<1>1. PlanOf("bucket", o) = Bucket(o)
  BY Zenon DEF PlanOf
<1>2. PlanOf("bucketDeployment", o) = BucketDeployment(o)
  BY Zenon DEF PlanOf
<1>3. PlanOf("queue", o) = Queue(o)
  BY Zenon DEF PlanOf
<1>4. PlanOf("table", o) = Table(o)
  BY Zenon DEF PlanOf
<1>5. PlanOf("tableV2", o) = TableV2(o)
  BY Zenon DEF PlanOf
<1>6. PlanOf("stream", o) = Stream(o)
  BY Zenon DEF PlanOf
<1>7. PlanOf("key", o) = Key(o)
  BY Zenon DEF PlanOf
<1>8. PlanOf("logGroup", o) = LogGroup(o)
  BY Zenon DEF PlanOf
<1>9. PlanOf("transactionSearch", o) = TransactionSearch(o)
  BY Zenon DEF PlanOf
<1>10. PlanOf("topic", o) = Topic(o)
  BY Zenon DEF PlanOf
<1>11. PlanOf("subscription", o) = Subscription(o)
  BY Zenon DEF PlanOf
<1>12. PlanOf("rule", o) = Rule(o)
  BY Zenon DEF PlanOf
<1>13. PlanOf("stateMachine", o) = StateMachine(o)
  BY Zenon DEF PlanOf
<1>14. PlanOf("activity", o) = Activity(o)
  BY Zenon DEF PlanOf
<1>15. PlanOf("distribution", o) = Distribution(o)
  BY Zenon DEF PlanOf
<1>16. PlanOf("cloudFrontAlarm", o) = CloudFrontAlarm(o)
  BY Zenon DEF PlanOf
<1>17. PlanOf("certificate", o) = Certificate(o)
  BY Zenon DEF PlanOf
<1>18. PlanOf("restApi", o) = RestApi(o)
  BY Zenon DEF PlanOf
<1>19. PlanOf("specRestApi", o) = SpecRestApi(o)
  BY Zenon DEF PlanOf
<1>20. PlanOf("hostedZone", o) = HostedZone(o)
  BY Zenon DEF PlanOf
<1>21. PlanOf("healthCheck", o) = HealthCheck(o)
  BY Zenon DEF PlanOf
<1>22. PlanOf("healthCheckAlarm", o) = HealthCheckAlarm(o)
  BY Zenon DEF PlanOf
<1>23. PlanOf("delegation", o) = CrossAccountZoneDelegation(o)
  BY Zenon DEF PlanOf
<1>24. PlanOf("aRecord", o) = ARecord(o)
  BY Zenon DEF PlanOf
<1>25. PlanOf("aaaaRecord", o) = AaaaRecord(o)
  BY Zenon DEF PlanOf
<1>26. PlanOf("cnameRecord", o) = CnameRecord(o)
  BY Zenon DEF PlanOf
<1>27. PlanOf("txtRecord", o) = TxtRecord(o)
  BY Zenon DEF PlanOf
<1>28. PlanOf("mxRecord", o) = MxRecord(o)
  BY Zenon DEF PlanOf
<1>29. PlanOf("srvRecord", o) = SrvRecord(o)
  BY Zenon DEF PlanOf
<1>30. PlanOf("caaRecord", o) = CaaRecord(o)
  BY Zenon DEF PlanOf
<1>31. PlanOf("svcbRecord", o) = SvcbRecord(o)
  BY Zenon DEF PlanOf
<1>32. PlanOf("dsRecord", o) = DsRecord(o)
  BY Zenon DEF PlanOf
<1>33. PlanOf("nsRecord", o) = NsRecord(o)
  BY Zenon DEF PlanOf
<1>34. PlanOf("httpsRecord", o) = HttpsRecord(o)
  BY Zenon DEF PlanOf
<1>35. PlanOf("vpc", o) = Vpc(o)
  BY Zenon DEF PlanOf
<1>36. PlanOf("securityGroup", o) = SecurityGroup(o)
  BY Zenon DEF PlanOf
<1>37. PlanOf("interfaceEndpoint", o) = InterfaceEndpoint(o)
  BY Zenon DEF PlanOf
<1>38. PlanOf("volume", o) = Volume(o)
  BY Zenon DEF PlanOf
<1>39. PlanOf("instance", o) = Instance(o)
  BY Zenon DEF PlanOf
<1>40. PlanOf("cluster", o) = Cluster(o)
  BY Zenon DEF PlanOf
<1>41. PlanOf("guardrail", o) = Guardrail(o)
  BY Zenon DEF PlanOf
<1>42. PlanOf("inferenceProfile", o) = ApplicationInferenceProfile(o)
  BY Zenon DEF PlanOf
<1>43. PlanOf("invocationLogging", o) = ModelInvocationLogging(o)
  BY Zenon DEF PlanOf
<1>44. PlanOf("modelAlarm", o) = ModelAlarm(o)
  BY Zenon DEF PlanOf
<1>45. PlanOf("runtime", o) = Runtime(o)
  BY Zenon DEF PlanOf
<1>46. PlanOf("runtimeEndpoint", o) = RuntimeEndpoint(o)
  BY Zenon DEF PlanOf
<1>47. PlanOf("gateway", o) = Gateway(o)
  BY Zenon DEF PlanOf
<1>48. PlanOf("memory", o) = Memory(o)
  BY Zenon DEF PlanOf
<1>49. PlanOf("evaluator", o) = Evaluator(o)
  BY Zenon DEF PlanOf
<1>50. PlanOf("onlineEvaluation", o) = OnlineEvaluation(o)
  BY Zenon DEF PlanOf
<1>51. PlanOf("sessionQuotaAlarm", o) = SessionQuotaAlarm(o)
  BY Zenon DEF PlanOf
<1>52. PlanOf("role", o) = Role(o)
  BY Zenon DEF PlanOf
<1>53. PlanOf("managedPolicy", o) = ManagedPolicy(o)
  BY Zenon DEF PlanOf
<1>54. PlanOf("oidcProvider", o) = OpenIdConnectProvider(o)
  BY Zenon DEF PlanOf
<1>55. PlanOf("budget", o) = Budget(o)
  BY Zenon DEF PlanOf
<1>56. PlanOf("budgetAlarm", o) = BudgetAlarm(o)
  BY Zenon DEF PlanOf
<1>57. PlanOf("emailIdentity", o) = EmailIdentity(o)
  BY Zenon DEF PlanOf
<1>58. PlanOf("receiptRuleSet", o) = ReceiptRuleSet(o)
  BY Zenon DEF PlanOf
<1>59. PlanOf("receiptFilter", o) = ReceiptFilter(o)
  BY Zenon DEF PlanOf
<1>60. PlanOf("allowListFilter", o) = AllowListReceiptFilter(o)
  BY Zenon DEF PlanOf
<1>61. PlanOf("awsCustomResource", o) = AwsCustomResource(o)
  BY Zenon DEF PlanOf
<1> QED
  BY <1>1, <1>2, <1>3, <1>4, <1>5, <1>6, <1>7, <1>8, <1>9, <1>10, <1>11, <1>12, <1>13, <1>14, <1>15, <1>16, <1>17, <1>18, <1>19, <1>20, <1>21, <1>22, <1>23, <1>24, <1>25, <1>26, <1>27, <1>28, <1>29, <1>30, <1>31, <1>32, <1>33, <1>34, <1>35, <1>36, <1>37, <1>38, <1>39, <1>40, <1>41, <1>42, <1>43, <1>44, <1>45, <1>46, <1>47, <1>48, <1>49, <1>50, <1>51, <1>52, <1>53, <1>54, <1>55, <1>56, <1>57, <1>58, <1>59, <1>60, <1>61

(* The builders with addAlarm(), and what the capital of a key may clash   *)
(* with: of an alarm, of a subscription, of a volume.                      *)
LEMMA AlarmedKnown ==
  /\ {"bucket", "queue", "table", "tableV2", "stream", "key", "topic", "rule",
      "stateMachine", "activity", "distribution", "cloudFrontAlarm", "certificate",
      "restApi", "specRestApi", "healthCheck", "healthCheckAlarm", "interfaceEndpoint",
      "volume", "instance", "cluster", "guardrail", "modelAlarm", "runtime",
      "runtimeEndpoint", "gateway", "memory", "onlineEvaluation", "budget", "budgetAlarm"} \subseteq Alarmed
  /\ \A s \in Service :
       /\ "Custom" \in OptionsOf[s] => s \in Alarmed
       /\ "Sub" \in OptionsOf[s] => s = "topic"
       /\ "Data" \in OptionsOf[s] => s = "instance"
<1>1. \A s \in {"bucket", "queue", "table", "tableV2", "stream", "key", "topic", "rule",
             "stateMachine", "activity", "distribution", "cloudFrontAlarm", "certificate",
             "restApi", "specRestApi"} :
        s \in Service /\ AddAlarm \subseteq OptionsOf[s]
  BY SMTT(40) DEF Service, OptionsOf, AlarmOptions, ActivityOptions, BucketOptions,
         CertificateOptions, CloudFrontAlarmOptions, DistributionOptions, KeyOptions,
         QueueOptions, RestApiOptions, RuleOptions, SpecRestApiOptions, StateMachineOptions,
         StreamOptions, TableOptions, TopicOptions
<1>2. \A s \in {"healthCheck", "healthCheckAlarm", "interfaceEndpoint", "volume", "instance",
             "cluster", "guardrail", "modelAlarm", "runtime", "runtimeEndpoint", "gateway",
             "memory", "onlineEvaluation", "budget", "budgetAlarm"} :
        s \in Service /\ AddAlarm \subseteq OptionsOf[s]
  BY SMTT(40) DEF Service, OptionsOf, AlarmOptions, BudgetAlarmOptions, BudgetOptions,
         ClusterOptions, GatewayOptions, GuardrailOptions, HealthCheckAlarmOptions,
         HealthCheckOptions, InstanceOptions, InterfaceEndpointOptions, MemoryOptions,
         ModelAlarmOptions, OnlineEvaluationOptions, RuntimeEndpointOptions, RuntimeOptions,
         VolumeOptions
<1> DEFINE Has == {"bucket", "queue", "table", "tableV2", "stream", "key", "topic", "rule",
             "stateMachine", "activity", "distribution", "cloudFrontAlarm", "certificate",
             "restApi", "specRestApi"}
             \cup {"healthCheck", "healthCheckAlarm", "interfaceEndpoint", "volume", "instance",
             "cluster", "guardrail", "modelAlarm", "runtime", "runtimeEndpoint", "gateway",
             "memory", "onlineEvaluation", "budget", "budgetAlarm"}
<1>3. \A s \in Service : "Custom" \in OptionsOf[s] => s \in Has
  BY SMTT(40) DEF Service, OptionsOf, AlarmOptions, AddAlarm, ActivityOptions,
         ApplicationInferenceProfileOptions, AwsCustomResourceOptions, BucketDeploymentOptions,
         BucketOptions, BudgetAlarmOptions, BudgetOptions, CertificateOptions,
         CloudFrontAlarmOptions, ClusterOptions, DelegationOptions, DistributionOptions,
         EmailIdentityOptions, EvaluatorOptions, GatewayOptions, GuardrailOptions,
         HealthCheckAlarmOptions, HealthCheckOptions, HostedZoneOptions, InstanceOptions,
         InterfaceEndpointOptions, KeyOptions, LogGroupOptions, ManagedPolicyOptions,
         MemoryOptions, ModelAlarmOptions, ModelInvocationLoggingOptions,
         OnlineEvaluationOptions, OpenIdConnectProviderOptions, QueueOptions,
         ReceiptFilterOptions, ReceiptRuleSetOptions, RecordOptions, RestApiOptions,
         RoleOptions, RuleOptions, RuntimeEndpointOptions, RuntimeOptions,
         SecurityGroupOptions, SessionQuotaAlarmOptions, SpecRestApiOptions,
         StateMachineOptions, StreamOptions, SubscriptionOptions, TableOptions, TopicOptions,
         VolumeOptions, VpcOptions
<1>4. \A s \in Service : "Sub" \in OptionsOf[s] => s = "topic"
  BY SMTT(40) DEF Service, OptionsOf, AlarmOptions, AddAlarm, ActivityOptions,
         ApplicationInferenceProfileOptions, AwsCustomResourceOptions, BucketDeploymentOptions,
         BucketOptions, BudgetAlarmOptions, BudgetOptions, CertificateOptions,
         CloudFrontAlarmOptions, ClusterOptions, DelegationOptions, DistributionOptions,
         EmailIdentityOptions, EvaluatorOptions, GatewayOptions, GuardrailOptions,
         HealthCheckAlarmOptions, HealthCheckOptions, HostedZoneOptions, InstanceOptions,
         InterfaceEndpointOptions, KeyOptions, LogGroupOptions, ManagedPolicyOptions,
         MemoryOptions, ModelAlarmOptions, ModelInvocationLoggingOptions,
         OnlineEvaluationOptions, OpenIdConnectProviderOptions, QueueOptions,
         ReceiptFilterOptions, ReceiptRuleSetOptions, RecordOptions, RestApiOptions,
         RoleOptions, RuleOptions, RuntimeEndpointOptions, RuntimeOptions,
         SecurityGroupOptions, SessionQuotaAlarmOptions, SpecRestApiOptions,
         StateMachineOptions, StreamOptions, SubscriptionOptions, TableOptions, TopicOptions,
         VolumeOptions, VpcOptions
<1>5. \A s \in Service : "Data" \in OptionsOf[s] => s = "instance"
  BY SMTT(40) DEF Service, OptionsOf, AlarmOptions, AddAlarm, ActivityOptions,
         ApplicationInferenceProfileOptions, AwsCustomResourceOptions, BucketDeploymentOptions,
         BucketOptions, BudgetAlarmOptions, BudgetOptions, CertificateOptions,
         CloudFrontAlarmOptions, ClusterOptions, DelegationOptions, DistributionOptions,
         EmailIdentityOptions, EvaluatorOptions, GatewayOptions, GuardrailOptions,
         HealthCheckAlarmOptions, HealthCheckOptions, HostedZoneOptions, InstanceOptions,
         InterfaceEndpointOptions, KeyOptions, LogGroupOptions, ManagedPolicyOptions,
         MemoryOptions, ModelAlarmOptions, ModelInvocationLoggingOptions,
         OnlineEvaluationOptions, OpenIdConnectProviderOptions, QueueOptions,
         ReceiptFilterOptions, ReceiptRuleSetOptions, RecordOptions, RestApiOptions,
         RoleOptions, RuleOptions, RuntimeEndpointOptions, RuntimeOptions,
         SecurityGroupOptions, SessionQuotaAlarmOptions, SpecRestApiOptions,
         StateMachineOptions, StreamOptions, SubscriptionOptions, TableOptions, TopicOptions,
         VolumeOptions, VpcOptions
<1>6. Has \subseteq Alarmed
  BY <1>1, <1>2 DEF Alarmed
<1> QED
  BY <1>3, <1>4, <1>5, <1>6

(* What each service finds late, besides what is wrong with an alarm.      *)
LEMMA LateKnown ==
 /\ {"key"} \subseteq Late("bucket")
 /\ {"no threshold for an alarm asked for"} \subseteq Late("queue")
 /\ {"subscription", "SubSubscription"} \subseteq Late("topic")
 /\ {"target"} \subseteq Late("rule")
 /\ {"definitionSubstitutions", "role", "encryptionConfiguration", "granted"}
        \subseteq Late("stateMachine")
 /\ {"behaviorOrigin", "two functions for one event", "key-value store without its runtime"}
        \subseteq Late("distribution")
 /\ {"integration", "itemIntegration"} \subseteq Late("restApi")
 /\ {"zones and their number"} \subseteq Late("vpc")
 /\ {"peer"} \subseteq Late("securityGroup")
 /\ {"access"} \subseteq Late("interfaceEndpoint")
 /\ {"granted", "data", "Data", "logs", "volume in another zone",
     "Data.volumeStalledIo" \o "Alarm"} \subseteq Late("instance")
 /\ {"groups", "key", "access"} \subseteq Late("cluster")
 /\ {"no threshold"} \subseteq Late("guardrail")
 /\ {"bucket"} \subseteq Late("invocationLogging")
 /\ {"role", "environmentVariables", "granted", "no threshold"} \subseteq Late("runtime")
 /\ {"no threshold"} \subseteq Late("runtimeEndpoint")
 /\ {"targetFunction", "no threshold"} \subseteq Late("gateway")
 /\ {"granted", "score of no evaluator"} \subseteq Late("onlineEvaluation")
 /\ {"granted"} \subseteq Late("role")
 /\ {"alarm currency"} \subseteq Late("budget")
 /\ {"dkimZone", "mxZone"} \subseteq Late("emailIdentity")
 /\ {"bucket", "key"} \subseteq Late("receiptRuleSet")
 /\ {"dependsOn"} \subseteq Late("awsCustomResource")
BY DEF Late, FoundLate

(* What is wrong with an alarm is found late, a missing metric only where  *)
(* something else than alarms is made.                                     *)
LEMMA AlarmsKnown ==
  /\ \A s \in Alarmed : "alarm key" \in Late(s) /\ "Custom" \o "Alarm" \in Late(s)
  /\ \A s \in {"bucket", "queue", "table", "tableV2", "stream", "key", "topic", "rule",
               "stateMachine", "activity", "distribution", "certificate", "restApi",
               "specRestApi", "healthCheck", "interfaceEndpoint", "volume", "instance",
               "cluster", "guardrail", "runtime", "runtimeEndpoint", "gateway", "memory",
               "onlineEvaluation", "budget"} :
       AddAlarmRefusals \subseteq Late(s)
  /\ \A s \in {"modelAlarm", "cloudFrontAlarm", "healthCheckAlarm", "budgetAlarm"} :
       "alarm key" \in Late(s)
<1>1. \A s \in Alarmed : "alarm key" \in Late(s) /\ "Custom" \o "Alarm" \in Late(s)
  BY DEF Late, LateAlarms
<1>2. \A s \in Alarmed \ AlarmsOnly : "alarm without metric" \in Late(s)
  BY DEF Late, LateAlarms
<1>3. {"bucket", "queue", "table", "tableV2", "stream", "key", "topic", "rule",
       "stateMachine", "activity", "distribution", "certificate", "restApi", "specRestApi",
       "healthCheck", "interfaceEndpoint", "volume", "instance", "cluster", "guardrail",
       "runtime", "runtimeEndpoint", "gateway", "memory", "onlineEvaluation", "budget"}
        \subseteq Alarmed \ AlarmsOnly
  BY AlarmedKnown DEF AlarmsOnly
<1>4. \A s \in Alarmed \ AlarmsOnly : AddAlarmRefusals \subseteq Late(s)
  BY <1>1, <1>2 DEF AddAlarmRefusals
<1>5. {"modelAlarm", "cloudFrontAlarm", "healthCheckAlarm", "budgetAlarm"} \subseteq Alarmed
  BY AlarmedKnown
<1> QED
  BY <1>1, <1>3, <1>4, <1>5

(* An id that two keys of a builder may spell is among what it finds late. *)
LEMMA AlikeIsLate ==
  ASSUME NEW s \in Service, NEW o \in SUBSET OptionsOf[s]
  PROVE  AlikeIds(o) \subseteq Late(s)
<1>1. "Custom" \in o => "Custom" \o "Alarm" \in Late(s)
  BY AlarmedKnown, AlarmsKnown
<1>2. "Sub" \in o => "SubSubscription" \in Late(s)
  BY AlarmedKnown, LateKnown
<1>3. "Data" \in o => "Data.volumeStalledIo" \o "Alarm" \in Late(s)
  BY AlarmedKnown, LateKnown
<1> QED
  BY <1>1, <1>2, <1>3 DEF AlikeIds

(* What the result of a tagged service holds of others.                    *)
LEMMA ForeignKnown ==
  /\ {"role", "Stack/VersionPrunerLogs"} \subseteq Foreign("stateMachine")
  /\ "role" \in Foreign("onlineEvaluation")
  /\ "key" \in Foreign("stream")
  /\ "parameterGroup" \in Foreign("cluster")
<1>1. Foreign("stateMachine") = {"role", "Stack/VersionPrunerLogs"}
  BY Zenon DEF Foreign
<1>2. Foreign("onlineEvaluation") = {"role"}
  BY Zenon DEF Foreign
<1>3. Foreign("stream") = {"key"}
  BY Zenon DEF Foreign
<1>4. Foreign("cluster") = {"parameterGroup"}
  BY Zenon DEF Foreign
<1> QED
  BY <1>1, <1>2, <1>3, <1>4

\* What a plan keeps to, for the service it is of.
Disciplined(s, p) ==
  InTime(p, Late(s)) /\ (s \in Tagged => Homely(p, Foreign(s)))

(* The plan of every service, whatever its options, checks before it acts, *)
(* except for what is found late; and what it hands on of others is known. *)
THEOREM PlansAreDisciplined == \A s \in Service : \A o : Disciplined(s, PlanOf(s, o))
<1> SUFFICES ASSUME NEW o PROVE \A s \in Service : Disciplined(s, PlanOf(s, o))
  OBVIOUS
<1>1. \A s, p : Orderly(p, Late(s), Foreign(s)) => Disciplined(s, p)
  BY DEF Orderly, Disciplined
<1>2. Disciplined("bucket", PlanOf("bucket", o))
  BY <1>1, PlanKnown, AlarmsKnown, LateKnown, BucketPlan
<1>3. Disciplined("bucketDeployment", PlanOf("bucketDeployment", o))
  BY <1>1, PlanKnown, BucketDeploymentPlan
<1>4. Disciplined("queue", PlanOf("queue", o))
  BY <1>1, PlanKnown, AlarmsKnown, LateKnown, QueuePlan
<1>5. Disciplined("table", PlanOf("table", o))
  BY <1>1, PlanKnown, AlarmsKnown, TablePlan
<1>6. Disciplined("tableV2", PlanOf("tableV2", o))
  BY <1>1, PlanKnown, AlarmsKnown, TablePlan
<1>7. Disciplined("stream", PlanOf("stream", o))
  BY <1>1, PlanKnown, AlarmsKnown, ForeignKnown, StreamPlan
<1>8. Disciplined("key", PlanOf("key", o))
  BY <1>1, PlanKnown, AlarmsKnown, KeyPlan
<1>9. Disciplined("logGroup", PlanOf("logGroup", o))
  BY <1>1, PlanKnown, LogGroupPlan
<1>10. Disciplined("transactionSearch", PlanOf("transactionSearch", o))
  BY <1>1, PlanKnown, LogGroupPlan
<1>11. Disciplined("topic", PlanOf("topic", o))
  BY <1>1, PlanKnown, AlarmsKnown, LateKnown, TopicPlan
<1>12. Disciplined("rule", PlanOf("rule", o))
  BY <1>1, PlanKnown, AlarmsKnown, LateKnown, RulePlan
<1>13. Disciplined("stateMachine", PlanOf("stateMachine", o))
  BY <1>1, PlanKnown, AlarmsKnown, LateKnown, ForeignKnown, StateMachinePlan
<1>14. Disciplined("activity", PlanOf("activity", o))
  BY <1>1, PlanKnown, AlarmsKnown, ActivityPlan
<1>15. Disciplined("subscription", PlanOf("subscription", o))
  BY <1>1, PlanKnown, SubscriptionPlan
<1>16. Disciplined("distribution", PlanOf("distribution", o))
  BY <1>1, PlanKnown, AlarmsKnown, LateKnown, DistributionPlan
<1>17. Disciplined("cloudFrontAlarm", PlanOf("cloudFrontAlarm", o))
  BY <1>1, PlanKnown, AlarmsKnown, CloudFrontAlarmPlan
<1>18. Disciplined("certificate", PlanOf("certificate", o))
  BY <1>1, PlanKnown, AlarmsKnown, CertificatePlan
<1>19. Disciplined("restApi", PlanOf("restApi", o))
  BY <1>1, PlanKnown, AlarmsKnown, LateKnown, RestApiPlan
<1>20. Disciplined("specRestApi", PlanOf("specRestApi", o))
  BY <1>1, PlanKnown, AlarmsKnown, SpecRestApiPlan
<1>21. Disciplined("hostedZone", PlanOf("hostedZone", o))
  BY <1>1, PlanKnown, HostedZonePlan
<1>22. Disciplined("healthCheck", PlanOf("healthCheck", o))
  BY <1>1, PlanKnown, AlarmsKnown, HealthCheckPlan DEF AddAlarmRefusals
<1>23. Disciplined("healthCheckAlarm", PlanOf("healthCheckAlarm", o))
  BY <1>1, PlanKnown, AlarmsKnown, HealthCheckPlan
<1>24. Disciplined("aRecord", PlanOf("aRecord", o))
  BY <1>1, PlanKnown, AddressRecordPlans
<1>25. Disciplined("aaaaRecord", PlanOf("aaaaRecord", o))
  BY <1>1, PlanKnown, AddressRecordPlans
<1>26. Disciplined("cnameRecord", PlanOf("cnameRecord", o))
  BY <1>1, PlanKnown, AddressRecordPlans
<1>27. Disciplined("txtRecord", PlanOf("txtRecord", o))
  BY <1>1, PlanKnown, ListRecordPlans
<1>28. Disciplined("mxRecord", PlanOf("mxRecord", o))
  BY <1>1, PlanKnown, ListRecordPlans
<1>29. Disciplined("srvRecord", PlanOf("srvRecord", o))
  BY <1>1, PlanKnown, ListRecordPlans
<1>30. Disciplined("caaRecord", PlanOf("caaRecord", o))
  BY <1>1, PlanKnown, ListRecordPlans
<1>31. Disciplined("svcbRecord", PlanOf("svcbRecord", o))
  BY <1>1, PlanKnown, ListRecordPlans
<1>32. Disciplined("dsRecord", PlanOf("dsRecord", o))
  BY <1>1, PlanKnown, ListRecordPlans
<1>33. Disciplined("nsRecord", PlanOf("nsRecord", o))
  BY <1>1, PlanKnown, OtherRecordPlans
<1>34. Disciplined("httpsRecord", PlanOf("httpsRecord", o))
  BY <1>1, PlanKnown, OtherRecordPlans
<1>35. Disciplined("vpc", PlanOf("vpc", o))
  BY <1>1, PlanKnown, LateKnown, VpcPlan
<1>36. Disciplined("securityGroup", PlanOf("securityGroup", o))
  BY <1>1, PlanKnown, LateKnown, SecurityGroupPlan
<1>37. Disciplined("interfaceEndpoint", PlanOf("interfaceEndpoint", o))
  BY <1>1, PlanKnown, AlarmsKnown, LateKnown, InterfaceEndpointPlan
<1>38. Disciplined("volume", PlanOf("volume", o))
  BY <1>1, PlanKnown, AlarmsKnown, VolumePlan
<1>39. Disciplined("instance", PlanOf("instance", o))
  BY <1>1, PlanKnown, AlarmsKnown, LateKnown, InstancePlan
<1>40. Disciplined("cluster", PlanOf("cluster", o))
  BY <1>1, PlanKnown, AlarmsKnown, LateKnown, ForeignKnown, ClusterPlan
<1>41. Disciplined("guardrail", PlanOf("guardrail", o))
  BY <1>1, PlanKnown, AlarmsKnown, LateKnown, GuardrailPlan
<1>42. Disciplined("inferenceProfile", PlanOf("inferenceProfile", o))
  BY <1>1, PlanKnown, InferenceProfilePlan
<1>43. Disciplined("invocationLogging", PlanOf("invocationLogging", o))
  BY <1>1, PlanKnown, LateKnown, InvocationLoggingPlan
<1>44. Disciplined("modelAlarm", PlanOf("modelAlarm", o))
  BY <1>1, PlanKnown, AlarmsKnown, ModelAlarmPlan
<1>45. Disciplined("runtime", PlanOf("runtime", o))
  BY <1>1, PlanKnown, AlarmsKnown, LateKnown, RuntimePlan
<1>46. Disciplined("runtimeEndpoint", PlanOf("runtimeEndpoint", o))
  BY <1>1, PlanKnown, AlarmsKnown, LateKnown, RuntimeEndpointPlan
<1>47. Disciplined("gateway", PlanOf("gateway", o))
  BY <1>1, PlanKnown, AlarmsKnown, LateKnown, GatewayPlan
<1>48. Disciplined("memory", PlanOf("memory", o))
  BY <1>1, PlanKnown, AlarmsKnown, MemoryPlan
<1>49. Disciplined("evaluator", PlanOf("evaluator", o))
  BY <1>1, PlanKnown, EvaluatorPlan
<1>50. Disciplined("onlineEvaluation", PlanOf("onlineEvaluation", o))
  BY <1>1, PlanKnown, AlarmsKnown, LateKnown, ForeignKnown, OnlineEvaluationPlan
<1>51. Disciplined("sessionQuotaAlarm", PlanOf("sessionQuotaAlarm", o))
  BY <1>1, PlanKnown, SessionQuotaAlarmPlan
<1>52. Disciplined("role", PlanOf("role", o))
  BY <1>1, PlanKnown, LateKnown, RolePlan
<1>53. Disciplined("managedPolicy", PlanOf("managedPolicy", o))
  BY <1>1, PlanKnown, ManagedPolicyPlan
<1>54. Disciplined("oidcProvider", PlanOf("oidcProvider", o))
  BY <1>1, PlanKnown, OidcProviderPlan
<1>55. Disciplined("budget", PlanOf("budget", o))
  BY <1>1, PlanKnown, AlarmsKnown, LateKnown, BudgetPlan
<1>56. Disciplined("budgetAlarm", PlanOf("budgetAlarm", o))
  BY <1>1, PlanKnown, AlarmsKnown, BudgetAlarmPlan
<1>57. Disciplined("emailIdentity", PlanOf("emailIdentity", o))
  BY <1>1, PlanKnown, LateKnown, EmailIdentityPlan
<1>58. Disciplined("receiptRuleSet", PlanOf("receiptRuleSet", o))
  BY <1>1, PlanKnown, LateKnown, ReceiptRuleSetPlan
<1>59. Disciplined("receiptFilter", PlanOf("receiptFilter", o))
  BY <1>1, PlanKnown, ReceiptFilterPlan
<1>60. Disciplined("allowListFilter", PlanOf("allowListFilter", o))
  BY <1>1, PlanKnown, ReceiptFilterPlan
<1>61. Disciplined("awsCustomResource", PlanOf("awsCustomResource", o))
  BY <1>1, PlanKnown, LateKnown, AwsCustomResourcePlan
<1>62. Disciplined("delegation", PlanOf("delegation", o))
  <2>1. "delegation" \notin Tagged
    BY DEF Tagged, Untagged
  <2>2. Orderly(PlanOf("delegation", o), Late("delegation"), {"role", "Stack/DelegationProviderLogs"})
    BY PlanKnown, DelegationPlan
  <2> QED
    BY <2>1, <2>2 DEF Orderly, Disciplined
<1> QED
  BY <1>2, <1>3, <1>4, <1>5, <1>6, <1>7, <1>8, <1>9, <1>10, <1>11, <1>12, <1>13, <1>14, <1>15, <1>16, <1>17, <1>18, <1>19, <1>20, <1>21, <1>22, <1>23, <1>24, <1>25, <1>26, <1>27, <1>28, <1>29, <1>30, <1>31, <1>32, <1>33, <1>34, <1>35, <1>36, <1>37, <1>38, <1>39, <1>40, <1>41, <1>42, <1>43, <1>44, <1>45, <1>46, <1>47, <1>48, <1>49, <1>50, <1>51, <1>52, <1>53, <1>54, <1>55, <1>56, <1>57, <1>58, <1>59, <1>60, <1>61, <1>62 DEF Service, OptionsOf

\* A plan makes nothing under an id that is in the scope, unless it is one of those
\* that are alike.
Clear(p, ids, alike) ==
  /\ Apart(p, alike)
  /\ \A x \in ToSet(p) : x.do \in Makers /\ x.what \notin alike => x.what \notin ids

(* What remains of a plan after a step keeps its grade, and is better once *)
(* the step has acted.                                                     *)
LEMMA TailGrades ==
  ASSUME NEW p, Listed(p), p # <<>>, NEW L, NEW F
  PROVE  /\ Listed(Tail(p))
         /\ InTime(p, L) =>
              /\ InTime(Tail(p), L)
              /\ Head(p).do \in Acts => Firm(Tail(p), L)
         /\ Firm(p, L) => /\ Firm(Tail(p), L)
                          /\ Head(p).do \in Throws => Head(p).what \in L
         /\ Homely(p, F) =>
              /\ Homely(Tail(p), F)
              /\ Head(p).do = "hold" \/ (Head(p).do = "share" /\ Head(p).kept) => Head(p).what \in F
         /\ \A ids, alike : Clear(p, ids, alike) =>
              /\ Head(p).do \in Makers /\ Head(p).what \in ids => Head(p).what \in alike
              /\ Clear(Tail(p), ids, alike)
              /\ Head(p).do \in Namers => Clear(Tail(p), ids \cup {Head(p).what}, alike)
<1> DEFINE q == Tail(p)
           h == Head(p)
           n == Len(p)
<1>1. /\ n \in Nat \ {0} /\ DOMAIN p = 1..n /\ h = p[1] /\ h \in ToSet(p)
      /\ q \in Seq(ToSet(p)) /\ DOMAIN q = 1..(n - 1) /\ \A i \in 1..(n - 1) : q[i] = p[i + 1]
  BY DEF Listed, ToSet
<1>2. Listed(q)
  BY <1>1, ListedIn
<1> HIDE DEF q, h, n
<1>3. \A i \in DOMAIN q : i \in Nat \ {0} /\ i + 1 \in DOMAIN p /\ 1 < i + 1 /\ q[i] = p[i + 1]
  BY <1>1
<1>4. \A x \in ToSet(q) : x \in ToSet(p) /\ \E j \in DOMAIN p : 1 < j /\ x = p[j]
  BY <1>3 DEF ToSet
<1>5. 1 \in DOMAIN p
  BY <1>1
<1>6. ASSUME InTime(p, L) PROVE InTime(q, L) /\ (h.do \in Acts => Firm(q, L))
  <2>1. InTime(q, L)
    <3>1. \A i, j \in DOMAIN q : i < j => i + 1 < j + 1
      BY <1>3
    <3> QED
      BY <1>2, <1>3, <1>6, <3>1 DEF InTime
  <2>2. h.do \in Acts => Firm(q, L)
    BY <1>1, <1>2, <1>4, <1>5, <1>6 DEF InTime, Firm
  <2> QED
    BY <2>1, <2>2
<1>7. Firm(p, L) => Firm(q, L) /\ (h.do \in Throws => h.what \in L)
  BY <1>1, <1>2, <1>4 DEF Firm
<1>8. Homely(p, F) =>
        Homely(q, F) /\ (h.do = "hold" \/ (h.do = "share" /\ h.kept) => h.what \in F)
  BY <1>1, <1>2, <1>4 DEF Homely
<1>9. ASSUME NEW ids, NEW alike, Clear(p, ids, alike)
      PROVE  /\ h.do \in Makers /\ h.what \in ids => h.what \in alike
             /\ Clear(q, ids, alike)
             /\ h.do \in Namers => Clear(q, ids \cup {h.what}, alike)
  <2>1. Apart(q, alike)
    <3>1. \A j \in DOMAIN q : \A i \in 1..(j - 1) :
            i \in DOMAIN q /\ i + 1 \in 1..((j + 1) - 1)
      BY <1>1
    <3> QED
      BY <1>3, <1>9, <3>1 DEF Clear, Apart
  <2>2. h.do \in Namers =>
          \A x \in ToSet(q) : x.do \in Makers /\ x.what \notin alike => x.what # h.what
    <3>1. \A j \in DOMAIN p : 1 < j => 1 \in 1..(j - 1)
      BY <1>1
    <3> QED
      BY <1>1, <1>4, <1>5, <1>9, <3>1 DEF Clear, Apart
  <2> QED
    BY <1>1, <1>4, <1>9, <2>1, <2>2 DEF Clear
<1> QED
  BY <1>2, <1>6, <1>7, <1>8, <1>9 DEF q, h

\* The types, and what goes with each phase of the attempts.
ServiceTypes ==
  /\ ServiceTypeOK
  /\ Listed(why)
  /\ outcome = "idle" => why = <<>> /\ made = {} /\ touched = {}
  /\ outcome = "building" => Len(why) <= 1
  /\ outcome = "thrown" => Len(why) \in {1, 2}
  /\ why = <<>> \/ (outcome = "thrown" /\ Len(why) = 1) => left = {}
  /\ outcome # "built" => tagged = {}

(* Why an attempt threw is put down after what was there.                  *)
LEMMA Thrown ==
  ASSUME NEW s, Listed(s), NEW x
  PROVE  /\ Listed(Append(s, x)) /\ Append(s, x) # <<>> /\ Len(s) \in Nat
         /\ Len(Append(s, x)) = Len(s) + 1
         /\ Len(s) = 0 <=> s = <<>>
         /\ DOMAIN Append(s, x) = 1..(Len(s) + 1) /\ DOMAIN s = 1..Len(s)
         /\ Append(s, x)[Len(s) + 1] = x
         /\ \A i \in DOMAIN s : Append(s, x)[i] = s[i]
         /\ s = <<>> => Append(s, x)[1] = x
<1> DEFINE T == ToSet(s) \cup {x}
<1>1. s \in Seq(T) /\ x \in T
  <2>1. ToSet(s) \subseteq T
    OBVIOUS
  <2> HIDE DEF T
  <2> QED
    BY <2>1, SequenceIn DEF Listed, T
<1> HIDE DEF T
<1>2. Append(s, x) \in Seq(T)
  BY <1>1
<1>3. Listed(Append(s, x))
  BY <1>2, ListedIn
<1>4. /\ Len(s) \in Nat /\ Len(Append(s, x)) = Len(s) + 1
      /\ Len(s) = 0 <=> s = <<>>
      /\ DOMAIN Append(s, x) = 1..(Len(s) + 1) /\ DOMAIN s = 1..Len(s)
      /\ Append(s, x)[Len(s) + 1] = x /\ \A i \in DOMAIN s : Append(s, x)[i] = s[i]
  BY <1>1
<1> QED
  BY <1>3, <1>4

(* What a caller repairs are options of the builder.                       *)
LEMMA RepairedOptions ==
  ASSUME ServiceTypes, outcome = "thrown", NEW o \in Repair
  PROVE  o \subseteq OptionsOf[service]
<1>1. options \subseteq OptionsOf[service]
  BY DEF ServiceTypes, ServiceTypeOK
<1>2. o = options \/ \E x \in OptionsOf[service] : o \in {options \ {x}, options \cup {x}}
  BY DEF Repair
<1> QED
  BY <1>1, <1>2

(* Every step keeps the types.                                             *)
LEMMA ServiceTypesStep == ServiceTypes /\ [ServiceNext]_serviceVars => ServiceTypes'
<1> SUFFICES ASSUME ServiceTypes, [ServiceNext]_serviceVars PROVE ServiceTypes'
  OBVIOUS
<1> USE DEF ServiceTypes, ServiceTypeOK
<1>1. CASE FirstBuild
  <2>1. PICK c \in Configurations : CallServiceBuild(c[1], c[2])
    BY <1>1 DEF FirstBuild
  <2>2. c[1] \in Service /\ c[2] \subseteq OptionsOf[c[1]]
    BY ConfigurationsAssumption
  <2> QED
    BY <1>1, <2>1, <2>2 DEF FirstBuild, CallServiceBuild
<1>2. ASSUME Advance, outcome = "building", made \subseteq made' PROVE ServiceTypes'
  BY <1>2 DEF Advance
<1>3. ASSUME NEW reason, Throw(reason), outcome = "building" PROVE ServiceTypes'
  <2>1. Len(why) \in Nat /\ Len(why') = Len(why) + 1 /\ Listed(why') /\ why' # <<>>
    BY <1>3, Thrown DEF Throw
  <2>2. Len(why') \in {1, 2} /\ (Len(why') = 1 => why = <<>>)
    BY <1>3, <2>1, Thrown
  <2> QED
    BY <1>3, <2>1, <2>2 DEF Throw
<1>4. CASE ResolveRef \/ MakeStep \/ ShareStep \/ HoldStep \/ TouchStep
  <2>1. Advance /\ outcome = "building" /\ made \subseteq made'
    BY <1>4 DEF ResolveRef, MakeStep, ShareStep, HoldStep, TouchStep, Doing
  <2> QED
    BY <1>2, <2>1
<1>5. CASE RefThrows \/ RefuseStep \/ IdTaken
  BY <1>3, <1>5 DEF RefThrows, RefuseStep, IdTaken, Doing
<1>6. CASE ReturnResult
  BY <1>6 DEF ReturnResult
<1>7. CASE SecondBuild
  <2>1. PICK o \in Repair : CallServiceBuild(service, o)
    BY <1>7 DEF SecondBuild
  <2>2. o \subseteq OptionsOf[service]
    BY <1>7, <2>1, RepairedOptions DEF SecondBuild
  <2>3. why # <<>> /\ Len(why) = 1 /\ outcome = "thrown"
    BY <1>7, Thrown DEF SecondBuild
  <2>4. /\ service' = service /\ options' = o /\ outcome' = "building" /\ result' = {}
        /\ left' = made /\ UNCHANGED <<made, touched, tagged, why>>
    BY <1>7, <2>1 DEF SecondBuild, CallServiceBuild
  <2> QED
    BY <2>2, <2>3, <2>4
<1>8. CASE UNCHANGED serviceVars
  BY <1>8 DEF serviceVars
<1> QED
  BY <1>1, <1>4, <1>5, <1>6, <1>7, <1>8 DEF ServiceNext

\* What an attempt has done when it throws, and what is left of its plan.
InOrderSoFar ==
  /\ outcome = "building" => Disciplined(service, todo)
  /\ outcome = "building" /\ why = <<>> /\ (made # {} \/ touched # {}) =>
       Firm(todo, Late(service))
  /\ outcome = "thrown" /\ Len(why) = 1 /\ (made # {} \/ touched # {}) =>
       why[1][1] = "taken" \/ why[1][2] \in Late(service)
  /\ why # <<>> /\ why[1][1] # "taken" /\ why[1][2] \notin Late(service) => left = {}

\* What the result of a tagged builder holds.
ResultAtHome ==
  /\ outcome # "idle" /\ service \in Tagged => result \subseteq made \cup Foreign(service)
  /\ outcome = "built" /\ service \notin Tagged => tagged = {}

(* The next step of a build.                                               *)
LEMMA StepOfPlan ==
  ASSUME ServiceTypes, InOrderSoFar, outcome = "building", todo # <<>>
  PROVE  /\ Disciplined(service, Tail(todo))
         /\ Head(todo).do \in Acts => Firm(Tail(todo), Late(service))
         /\ Firm(todo, Late(service)) =>
              /\ Firm(Tail(todo), Late(service))
              /\ Head(todo).do \in Throws => Head(todo).what \in Late(service)
         /\ service \in Tagged /\ (Head(todo).do = "hold" \/ (Head(todo).do = "share" /\ Head(todo).kept))
              => Head(todo).what \in Foreign(service)
<1>1. Disciplined(service, todo) /\ Listed(todo)
  BY DEF InOrderSoFar, Disciplined, InTime
<1> QED
  BY <1>1, TailGrades DEF Disciplined

(* Every step keeps the order of a build: a construct made leaves nothing  *)
(* to throw but what is found late.                                        *)
LEMMA InOrderStep ==
  ServiceTypes /\ InOrderSoFar /\ [ServiceNext]_serviceVars => InOrderSoFar'
<1> SUFFICES ASSUME ServiceTypes, InOrderSoFar, [ServiceNext]_serviceVars PROVE InOrderSoFar'
  OBVIOUS
<1> USE DEF InOrderSoFar
<1>1. CASE FirstBuild
  <2>1. PICK c \in Configurations : CallServiceBuild(c[1], c[2])
    BY <1>1 DEF FirstBuild
  <2>2. c[1] \in Service
    BY ConfigurationsAssumption
  <2>3. Disciplined(service', todo')
    BY <2>1, <2>2, PlansAreDisciplined DEF CallServiceBuild
  <2> QED
    BY <1>1, <2>1, <2>3 DEF FirstBuild, CallServiceBuild, ServiceTypes
<1>2. ASSUME Advance, outcome = "building", todo # <<>>,
             Head(todo).do \in Acts \/ (made' = made /\ touched' = touched)
      PROVE  InOrderSoFar'
  <2>1. /\ Disciplined(service, Tail(todo))
        /\ Head(todo).do \in Acts => Firm(Tail(todo), Late(service))
        /\ Firm(todo, Late(service)) => Firm(Tail(todo), Late(service))
    BY <1>2, StepOfPlan
  <2> QED
    BY <1>2, <2>1 DEF Advance
<1>3. ASSUME NEW reason, Throw(reason), outcome = "building", todo # <<>>,
             reason = "taken" \/ Head(todo).do \in Throws
      PROVE  InOrderSoFar'
  <2>1. Listed(why) /\ Len(why) <= 1
    BY <1>3 DEF ServiceTypes
  <2>2. /\ why' # <<>> /\ Len(why) \in Nat /\ Len(why') = Len(why) + 1
        /\ (Len(why) = 0) = (why = <<>>)
        /\ why = <<>> => why'[1] = <<reason, Head(todo).what>>
        /\ why # <<>> => why'[1] = why[1]
    <3>1. why # <<>> => 1 \in DOMAIN why
      BY <2>1, Thrown
    <3> QED
      BY <1>3, <2>1, <3>1, Thrown DEF Throw, Here
  <2>3. CASE why = <<>>
    <3>1. why'[1][1] = reason /\ why'[1][2] = Head(todo).what /\ left' = {}
      BY <1>3, <2>2, <2>3 DEF Throw, ServiceTypes
    <3>2. reason # "taken" /\ (made # {} \/ touched # {}) => Head(todo).what \in Late(service)
      BY <1>3, <2>3, StepOfPlan
    <3> QED
      BY <1>3, <3>1, <3>2 DEF Throw
  <2>4. CASE why # <<>>
    BY <1>3, <2>2, <2>4 DEF Throw
  <2> QED
    BY <2>3, <2>4
<1>4. CASE ResolveRef \/ MakeStep \/ ShareStep \/ HoldStep \/ TouchStep
  <2>1. /\ Advance /\ outcome = "building" /\ todo # <<>>
        /\ Head(todo).do \in Acts \/ (made' = made /\ touched' = touched)
    BY <1>4 DEF ResolveRef, MakeStep, ShareStep, HoldStep, TouchStep, Doing, Acts
  <2> QED
    BY <1>2, <2>1
<1>5. CASE RefThrows \/ RefuseStep \/ IdTaken
  BY <1>3, <1>5 DEF RefThrows, RefuseStep, IdTaken, Doing, Throws
<1>6. CASE ReturnResult
  BY <1>6 DEF ReturnResult
<1>7. CASE SecondBuild
  <2>1. PICK o \in Repair : CallServiceBuild(service, o)
    BY <1>7 DEF SecondBuild
  <2>2. Disciplined(service', todo') /\ why # <<>> /\ left' = made
    BY <1>7, <2>1, Thrown, PlansAreDisciplined DEF SecondBuild, CallServiceBuild, ServiceTypes,
       ServiceTypeOK
  <2> QED
    BY <1>7, <2>1, <2>2 DEF SecondBuild, CallServiceBuild
<1>8. CASE UNCHANGED serviceVars
  BY <1>8 DEF serviceVars
<1> QED
  BY <1>1, <1>4, <1>5, <1>6, <1>7, <1>8 DEF ServiceNext

(* Every step keeps the result to what was made and what is known to be of *)
(* others.                                                                 *)
LEMMA AtHomeStep ==
  ServiceTypes /\ InOrderSoFar /\ ResultAtHome /\ [ServiceNext]_serviceVars => ResultAtHome'
<1> SUFFICES ASSUME ServiceTypes, InOrderSoFar, ResultAtHome, [ServiceNext]_serviceVars
             PROVE  ResultAtHome'
  OBVIOUS
<1> USE DEF ResultAtHome
<1>1. CASE FirstBuild
  BY <1>1 DEF FirstBuild, CallServiceBuild
<1>2. CASE ResolveRef \/ TouchStep
  BY <1>2 DEF ResolveRef, TouchStep, Doing, Advance
<1>3. CASE MakeStep
  BY <1>3 DEF MakeStep, Doing, Advance, KeptHere
<1>4. CASE ShareStep \/ HoldStep
  <2>1. /\ outcome = "building" /\ todo # <<>> /\ Advance /\ made \subseteq made'
        /\ result' \subseteq result \cup {Head(todo).what}
        /\ result' = result \/ Head(todo).do = "hold" \/ (Head(todo).do = "share" /\ Head(todo).kept)
    BY <1>4 DEF ShareStep, HoldStep, Doing, KeptHere, Here
  <2>2. service \in Tagged /\ result' # result => Head(todo).what \in Foreign(service)
    BY <2>1, StepOfPlan
  <2> QED
    BY <2>1, <2>2 DEF Advance
<1>5. CASE RefThrows \/ RefuseStep \/ IdTaken
  BY <1>5 DEF RefThrows, RefuseStep, IdTaken, Doing, Throw
<1>6. CASE ReturnResult
  BY <1>6 DEF ReturnResult
<1>7. CASE SecondBuild
  BY <1>7 DEF SecondBuild, CallServiceBuild
<1>8. CASE UNCHANGED serviceVars
  BY <1>8 DEF serviceVars
<1> QED
  BY <1>1, <1>2, <1>3, <1>4, <1>5, <1>6, <1>7, <1>8 DEF ServiceNext

\* Which ids are free, as long as no attempt left a construct behind; and that an
\* attempt throws on none but an id that two of its keys spell.
IdsInv ==
  /\ outcome = "building" /\ left = {} => Clear(todo, made, AlikeIds(options))
  /\ outcome = "thrown" /\ Len(why) = 1 /\ why[1][1] = "taken" => why[1][2] \in AlikeIds(options)
  /\ why # <<>> /\ why[1][1] = "taken" => why[1][2] \in Late(service)
  /\ left = {} /\ 2 \in DOMAIN why /\ why[2][1] = "taken" => why[2][2] \in AlikeIds(options)

(* A build that starts in a scope without constructs of its own meets no   *)
(* id that is taken, but those its own keys spell twice.                   *)
LEMMA IdsStep ==
  ServiceTypes /\ InOrderSoFar /\ IdsInv /\ [ServiceNext]_serviceVars => IdsInv'
<1> SUFFICES ASSUME ServiceTypes, InOrderSoFar, IdsInv, [ServiceNext]_serviceVars PROVE IdsInv'
  OBVIOUS
<1> USE DEF IdsInv
<1>0. \A s \in Service : \A o \in SUBSET OptionsOf[s] : Clear(PlanOf(s, o), {}, AlikeIds(o))
  BY PlanIdsApart DEF Clear
<1>1. CASE FirstBuild
  <2>1. PICK c \in Configurations : CallServiceBuild(c[1], c[2])
    BY <1>1 DEF FirstBuild
  <2>2. Clear(todo', {}, AlikeIds(options')) /\ made' = {} /\ why' = <<>> /\ outcome' = "building"
    BY <1>0, <1>1, <2>1, ConfigurationsAssumption DEF FirstBuild, CallServiceBuild, ServiceTypes
  <2>3. DOMAIN why' = {}
    BY <2>2
  <2> QED
    BY <2>2, <2>3
<1>2. ASSUME Advance, outcome = "building", todo # <<>>,
             made' = made \/ (Head(todo).do \in Namers /\ made' = made \cup {Head(todo).what})
      PROVE  IdsInv'
  <2>1. Listed(todo)
    BY <1>2 DEF InOrderSoFar, Disciplined, InTime
  <2>2. left = {} => Clear(todo', made', AlikeIds(options))
    BY <1>2, <2>1, TailGrades DEF Advance
  <2> QED
    BY <1>2, <2>2 DEF Advance
<1>3. ASSUME NEW reason, Throw(reason), outcome = "building",
             left = {} /\ reason = "taken" => Here \in AlikeIds(options)
      PROVE  IdsInv'
  <2>1. Listed(why) /\ Len(why) <= 1 /\ (why = <<>> => left = {})
    BY <1>3 DEF ServiceTypes
  <2>2. AlikeIds(options) \subseteq Late(service)
    BY <1>3, AlikeIsLate DEF ServiceTypes, ServiceTypeOK
  <2> DEFINE x == <<reason, Here>>
  <2>3. x[1] = reason /\ x[2] = Here
    OBVIOUS
  <2>4. why' = Append(why, x) /\ UNCHANGED <<service, options, left>> /\ outcome' = "thrown"
    BY <1>3 DEF Throw
  <2> HIDE DEF x
  <2>5. CASE why = <<>>
    <3>1. why'[1] = x /\ DOMAIN why' = {1}
      BY <2>1, <2>4, <2>5, Thrown
    <3>2. reason = "taken" => Here \in AlikeIds(options)
      BY <1>3, <2>1, <2>5
    <3> QED
      BY <2>2, <2>3, <2>4, <3>1, <3>2
  <2>6. CASE why # <<>>
    <3>1. why'[1] = why[1] /\ why'[2] = x /\ Len(why') = 2
      <4>1. /\ Len(why) \in Nat /\ Len(why) # 0 /\ DOMAIN why = 1..Len(why)
            /\ Append(why, x)[Len(why) + 1] = x /\ Len(Append(why, x)) = Len(why) + 1
            /\ \A i \in DOMAIN why : Append(why, x)[i] = why[i]
        BY <2>1, <2>6, Thrown
      <4>2. Len(why) = 1 /\ 1 \in DOMAIN why
        BY <2>1, <4>1
      <4> QED
        BY <2>4, <4>1, <4>2
    <3>2. left = {} /\ why'[2][1] = "taken" => why'[2][2] \in AlikeIds(options)
      BY <1>3, <2>3, <3>1
    <3> QED
      BY <2>4, <2>6, <3>1, <3>2
  <2> QED
    BY <2>5, <2>6
<1>4. CASE ResolveRef \/ MakeStep \/ ShareStep \/ HoldStep \/ TouchStep
  <2>1. /\ Advance /\ outcome = "building" /\ todo # <<>>
        /\ made' = made \/ (Head(todo).do \in Namers /\ made' = made \cup {Head(todo).what})
    BY <1>4 DEF ResolveRef, MakeStep, ShareStep, HoldStep, TouchStep, Doing, Here, Namers, Makers
  <2> QED
    BY <1>2, <2>1
<1>5. CASE RefThrows \/ RefuseStep
  BY <1>3, <1>5 DEF RefThrows, RefuseStep, Doing
<1>6. CASE IdTaken
  <2>1. /\ Throw("taken") /\ outcome = "building" /\ todo # <<>> /\ Head(todo).do \in Makers
        /\ Head(todo).what \in made
    BY <1>6 DEF IdTaken, Doing, Here, Makers
  <2>2. Listed(todo)
    BY <2>1 DEF InOrderSoFar, Disciplined, InTime
  <2>3. left = {} => Here \in AlikeIds(options)
    BY <2>1, <2>2, TailGrades DEF Here
  <2> QED
    BY <1>3, <2>1, <2>3
<1>7. CASE ReturnResult
  BY <1>7 DEF ReturnResult
<1>8. CASE SecondBuild
  <2>1. PICK o \in Repair : CallServiceBuild(service, o)
    BY <1>8 DEF SecondBuild
  <2>2. service \in Service /\ o \subseteq OptionsOf[service]
    BY <1>8, <2>1, RepairedOptions DEF SecondBuild, ServiceTypes, ServiceTypeOK
  <2>3. /\ Clear(todo', {}, AlikeIds(options')) /\ left' = made' /\ why' = why
        /\ outcome' = "building" /\ service' = service
    BY <1>0, <1>8, <2>1, <2>2 DEF SecondBuild, CallServiceBuild
  <2>4. Len(why) = 1 /\ DOMAIN why = 1..Len(why)
    BY <1>8, Thrown DEF SecondBuild, ServiceTypes
  <2>5. 2 \notin DOMAIN why'
    BY <2>3, <2>4
  <2>6. left' = {} => Clear(todo', made', AlikeIds(options'))
    BY <2>3
  <2> QED
    BY <2>3, <2>5, <2>6
<1>9. CASE UNCHANGED serviceVars
  BY <1>9 DEF serviceVars
<1> QED
  BY <1>1, <1>4, <1>5, <1>6, <1>7, <1>8, <1>9 DEF ServiceNext

(* Nothing is built at first.                                              *)
LEMMA ServiceInit == NoService => ServiceTypes /\ InOrderSoFar /\ ResultAtHome /\ IdsInv
<1>1. Listed(<<>>)
  BY SomeKeys
<1> QED
  BY <1>1 DEF NoService, ServiceTypes, ServiceTypeOK, InOrderSoFar, ResultAtHome, IdsInv

(* The invariants of a build.                                              *)
THEOREM ServiceInvariant == ServiceSpec => [](ServiceTypes /\ InOrderSoFar /\ ResultAtHome /\ IdsInv)
BY ServiceInit, ServiceTypesStep, InOrderStep, AtHomeStep, IdsStep, PTL DEF ServiceSpec

(* In every build the service and its options are of the catalogue, only   *)
(* constructs of the first attempt are left behind, and there are two      *)
(* attempts at most.                                                       *)
THEOREM ServiceTyped == ServiceSpec => []ServiceTypeOK
<1>1. ServiceTypes => ServiceTypeOK
  BY DEF ServiceTypes
<1> QED
  BY <1>1, ServiceInvariant, PTL

(* The tags of a builder land on what it made, or on a construct of others *)
(* that the catalogue names (tagged-builder.ts), for any set of            *)
(* configurations.                                                         *)
THEOREM TaggedAtHome == ServiceSpec => []TagsStayHome
<1>1. ServiceTypes /\ ResultAtHome => TagsStayHome
  BY DEF ServiceTypes, ServiceTypeOK, ResultAtHome, TagsStayHome
<1> QED
  BY <1>1, ServiceInvariant, PTL

(* A first build of any service throws on an id of its own only where the  *)
(* program gave two keys that differ in the case of their first letter, of *)
(* an alarm (create-alarms.ts:45), a subscription (topic-builder.ts:243)   *)
(* or an instance's volume: what two methods of a builder derive never     *)
(* clashes.  That the suffixes differ as strings is PlanIdsApart.          *)
THEOREM FirstBuildOwnIds == ServiceSpec => []OwnIdsDistinct
<1>1. IdsInv => OwnIdsDistinct
  BY DEF IdsInv, OwnIdsDistinct
<1> QED
  BY <1>1, ServiceInvariant, PTL

(* A first build that threw has changed no resource of another component,  *)
(* except when it threw on what is found late.                             *)
THEOREM FailureLeavesOthers == ServiceSpec => []OthersUntouchedByFailure
<1>1. ServiceTypes /\ InOrderSoFar /\ IdsInv => OthersUntouchedByFailure
  <2> SUFFICES ASSUME ServiceTypes, InOrderSoFar, IdsInv, outcome = "thrown", Len(why) = 1,
                      touched # {}
               PROVE  why[1][2] \in Late(service)
    BY DEF OthersUntouchedByFailure
  <2>1. why # <<>>
    BY Thrown DEF ServiceTypes
  <2> QED
    BY <2>1 DEF InOrderSoFar, IdsInv
<1> QED
  BY <1>1, ServiceInvariant, PTL

(* A build that threw on what is not found late left nothing behind, and   *)
(* can be repeated in its scope with the ref supplied or an option changed *)
(* (spec-rest-api-builder.ts:114); what is found late is the list Late.    *)
THEOREM ThrownBuildRepeats == ServiceSpec => []ThrownBuildCanBeRepeated
<1>1. ServiceTypes /\ InOrderSoFar /\ IdsInv => ThrownBuildCanBeRepeated
  <2> SUFFICES ASSUME ServiceTypes, InOrderSoFar, IdsInv, why # <<>>,
                      why[1][2] \notin Late(service)
               PROVE  /\ left = {}
                      /\ \A i \in DOMAIN why :
                           why[i][1] = "taken" => why[i][2] \in AlikeIds(options)
    BY DEF ThrownBuildCanBeRepeated
  <2>1. why[1][1] # "taken" /\ left = {}
    BY DEF InOrderSoFar, IdsInv
  <2>2. DOMAIN why \subseteq {1, 2}
    <3>1. Len(why) <= 2 /\ Len(why) \in Nat /\ DOMAIN why = 1..Len(why)
      BY Thrown DEF ServiceTypes, ServiceTypeOK
    <3> QED
      BY <3>1
  <2> QED
    BY <2>1, <2>2 DEF IdsInv
<1> QED
  BY <1>1, ServiceInvariant, PTL

(***************************************************************************)
(* The parts side by side.                                                 *)
(***************************************************************************)
(* Every behaviour of the composition is one of each part, the others      *)
(* stuttering; so each of their variables keeps its type: a build ends     *)
(* with a result or a throw and is repeated once at most, record sets,     *)
(* versions, aliases and the active rule set are ones that were declared   *)
(* or published, and the claims on topics those of the tree.               *)
THEOREM PartsTyped == Spec => []ServicesTypeOK
<1>1. /\ Init => NoService /\ NoZone /\ NoRollout /\ NoMail /\ NoTopicPolicies
  BY DEF Init
<1> DEFINE vars == <<serviceVars, zoneVars, rolloutVars, activationVars, topicPolicyVars, part>>
<1>2. [Next]_vars => /\ [ServiceNext]_serviceVars /\ [ZoneNext]_zoneVars
                     /\ [RolloutNext]_rolloutVars /\ [ActivationNext]_activationVars
                     /\ [TopicPolicyNext]_topicPolicyVars
  BY DEF Next
<1>3. Spec => ServiceSpec /\ ZoneSpec /\ RolloutSpec /\ ActivationSpec /\ TopicPolicySpec
  BY <1>1, <1>2, PTL DEF Spec, ServiceSpec, ZoneSpec, RolloutSpec, ActivationSpec,
                         TopicPolicySpec
<1>4. ZoneInv => ZoneTypeOK
  BY DEF ZoneInv
<1>5. RolloutInv => RolloutTypeOK
  BY DEF RolloutInv, RolloutTypes
<1>6. ServiceTypeOK /\ ZoneTypeOK /\ RolloutTypeOK /\ ActivationTypeOK /\ TopicPolicyTypeOK
        => ServicesTypeOK
  BY DEF ServicesTypeOK
<1> QED
  BY <1>3, <1>4, <1>5, <1>6, ServiceTyped, ZoneInvariant, RolloutInvariant, ActivationTypes,
     TopicTypes, PTL
=============================================================================
