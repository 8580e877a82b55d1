----------------------------- MODULE AlarmProofs -----------------------------
(***************************************************************************)
(* Proofs about AlarmPolicies: for any number of alarms, however they were *)
(* made, of policies with any rules, installed in any order, and of synths *)
(* that walk the tree in any order.                                        *)
(***************************************************************************)
EXTENDS AlarmPolicies, CommonLemmas

(***************************************************************************)
(* What a visit adds.                                                      *)
(***************************************************************************)
LayersOf(p) == ToSet(Rules[p]) \cup {Defaults[p]}
Anything ==
  UserActions \cup UNION {UNION {ToSet(layer.adds) : layer \in LayersOf(p)} : p \in Policies}

(* The layers of a visit are the rules that matched, and the defaults      *)
(* unless one of those replaces them.                                      *)
LEMMA LayersHold ==
  ASSUME NEW p \in Policies, NEW hits \in SUBSET (DOMAIN Rules[p])
  PROVE  /\ Layers(p, hits) \in Seq(LayersOf(p))
         /\ ToSet(Layers(p, hits)) = {Rules[p][i] : i \in hits}
                                       \cup (IF Replaced(p, hits) THEN {} ELSE {Defaults[p]})
<1> DEFINE base == IF Replaced(p, hits) THEN <<>> ELSE <<Defaults[p]>>
           ms == Matched(p, hits)
<1>1. Rules[p] \in Seq(LayersOf(p))
  <2>1. Rules[p] \in Seq(ToSet(Rules[p])) /\ ToSet(Rules[p]) \subseteq LayersOf(p)
    BY PolicyAssumption DEF LayersOf
  <2> QED
    BY <2>1, SequenceIn
<1>2. ms \in Seq(LayersOf(p)) /\ ToSet(ms) = {Rules[p][i] : i \in hits}
  <2> DEFINE c == Chosen(Rules[p], hits)
  <2>1. /\ c \in Seq(LayersOf(p))
        /\ \A k \in DOMAIN c : \E i \in hits : c[k] = Rules[p][i]
        /\ \A i \in hits : \E k \in DOMAIN c : c[k] = Rules[p][i]
    BY <1>1, ChosenElements
  <2>2. ms = c
    BY DEF Matched
  <2> HIDE DEF c, ms
  <2> QED
    BY <2>1, <2>2 DEF ToSet
<1>3. base \in Seq(LayersOf(p)) /\ ToSet(base) = IF Replaced(p, hits) THEN {} ELSE {Defaults[p]}
  <2>1. Defaults[p] \in LayersOf(p)
    BY DEF LayersOf
  <2>2. \A d \in LayersOf(p) : <<d>> \in Seq(LayersOf(p)) /\ ToSet(<<d>>) = {d}
    BY DEF ToSet
  <2>3. <<>> \in Seq(LayersOf(p)) /\ ToSet(<<>>) = {}
    BY DEF ToSet
  <2> QED
    BY <2>1, <2>2, <2>3
<1>4. Layers(p, hits) = base \o ms
  BY DEF Layers
<1> HIDE DEF base, ms
<1>5. base \o ms \in Seq(LayersOf(p)) /\ ToSet(base \o ms) = ToSet(base) \cup ToSet(ms)
  BY <1>2, <1>3, JoinedElements
<1> QED
  BY <1>2, <1>3, <1>4, <1>5

(* A visit adds the actions of its layers, each once.                      *)
LEMMA AddedElements ==
  ASSUME NEW p \in Policies, NEW hits \in SUBSET (DOMAIN Rules[p])
  PROVE  LET new == Added(p, hits) IN
         /\ new \in Seq(Anything)
         /\ ToSet(new) = (UNION {ToSet(Rules[p][i].adds) : i \in hits})
                           \cup (IF Replaced(p, hits) THEN {} ELSE ToSet(Defaults[p].adds))
         /\ \A j, k \in DOMAIN new : new[j] = new[k] => j = k
<1> DEFINE ls == Layers(p, hits)
           ss == [i \in DOMAIN ls |-> ls[i].adds]
           all == FlattenSeq(ss)
<1>1. /\ ls \in Seq(LayersOf(p)) /\ DOMAIN ls = 1..Len(ls) /\ Len(ls) \in Nat
      /\ \A i \in DOMAIN ls : ls[i] \in LayersOf(p)
      /\ ToSet(ls) = {Rules[p][i] : i \in hits}
                       \cup (IF Replaced(p, hits) THEN {} ELSE {Defaults[p]})
  <2> HIDE DEF ls
  <2>1. ls \in Seq(LayersOf(p))
    BY LayersHold DEF ls
  <2> QED
    BY <2>1, LayersHold, SequenceElements DEF ls
<1> HIDE DEF ls
<1>2. \A layer \in LayersOf(p) : layer.adds \in Seq(Anything)
  <2> TAKE layer \in LayersOf(p)
  <2>1. layer.adds \in Seq(ToSet(layer.adds))
    BY PolicyAssumption DEF LayersOf
  <2>2. ToSet(layer.adds) \subseteq Anything
    BY DEF Anything
  <2> QED
    BY <2>1, <2>2, SequenceIn
<1>3. ss \in Seq(Seq(Anything)) /\ DOMAIN ss = DOMAIN ls /\ \A i \in DOMAIN ls : ss[i] = ls[i].adds
  <2>1. \A i \in 1..Len(ls) : ls[i].adds \in Seq(Anything)
    BY <1>1, <1>2
  <2> QED
    BY <1>1, <2>1
<1> HIDE DEF ss
<1>4. /\ all \in Seq(Anything)
      /\ \A i \in DOMAIN all : \E j \in DOMAIN ss : \E k \in DOMAIN ss[j] : ss[j][k] = all[i]
      /\ \A j \in DOMAIN ss : \A k \in DOMAIN ss[j] : \E i \in DOMAIN all : all[i] = ss[j][k]
  BY <1>3, FlattenElements
<1> HIDE DEF all
<1>5. ToSet(all) = UNION {ToSet(layer.adds) : layer \in ToSet(ls)}
  <2>1. ASSUME NEW i \in DOMAIN all PROVE \E layer \in ToSet(ls) : all[i] \in ToSet(layer.adds)
    <3>1. PICK j \in DOMAIN ls : \E k \in DOMAIN ls[j].adds : ls[j].adds[k] = all[i]
      <4>1. PICK j \in DOMAIN ss : \E k \in DOMAIN ss[j] : ss[j][k] = all[i]
        BY <1>4
      <4>2. j \in DOMAIN ls /\ ss[j] = ls[j].adds
        BY <1>3
      <4> QED
        BY <4>1, <4>2
    <3>2. ls[j] \in ToSet(ls) /\ all[i] \in ToSet(ls[j].adds)
      BY <3>1 DEF ToSet
    <3> QED
      BY <3>2
  <2>2. ASSUME NEW layer \in ToSet(ls), NEW x \in ToSet(layer.adds) PROVE x \in ToSet(all)
    <3>1. PICK j \in DOMAIN ls : layer = ls[j]
      BY DEF ToSet
    <3>2. PICK k \in DOMAIN ls[j].adds : x = ls[j].adds[k]
      BY <3>1 DEF ToSet
    <3>3. ss[j] = ls[j].adds /\ j \in DOMAIN ss
      BY <1>3
    <3>4. PICK i \in DOMAIN all : all[i] = ss[j][k]
      BY <1>4, <3>2, <3>3
    <3> QED
      BY <3>2, <3>3, <3>4 DEF ToSet
  <2>3. \A x \in ToSet(all) : \E layer \in ToSet(ls) : x \in ToSet(layer.adds)
    BY <2>1 DEF ToSet
  <2> QED
    BY <2>2, <2>3
<1>6. /\ Dedupe(all) \in Seq(Anything) /\ ToSet(Dedupe(all)) = ToSet(all)
      /\ \A j, k \in DOMAIN Dedupe(all) : Dedupe(all)[j] = Dedupe(all)[k] => j = k
  BY <1>4, DedupeElements
<1>7. Added(p, hits) = Dedupe(all)
  BY DEF Added, all, ss, ls
<1>8. UNION {ToSet(layer.adds) : layer \in ToSet(ls)}
        = (UNION {ToSet(Rules[p][i].adds) : i \in hits})
            \cup (IF Replaced(p, hits) THEN {} ELSE ToSet(Defaults[p].adds))
  BY <1>1
<1> QED
  BY <1>5, <1>6, <1>7, <1>8

\* No rule has a RegExp with the global flag: what matches is a matter of the path.
NoGlobalRules == \A p \in Policies : \A i \in DOMAIN Rules[p] : ~Rules[p][i].global

(* Then a visit adds what the policy has for the alarm.                    *)
LEMMA AddsContribution ==
  ASSUME NoGlobalRules, NEW p \in Policies, NEW a
  PROVE  LET new == Added(p, Hits(p, a)) IN
         /\ new \in Seq(Anything) /\ ToSet(new) = Contribution(p, a)
         /\ \A j, k \in DOMAIN new : new[j] = new[k] => j = k
<1>1. Hits(p, a) = ByPath(p, a) /\ ByPath(p, a) \in SUBSET (DOMAIN Rules[p])
  BY DEF NoGlobalRules, Hits, ByPath, Finds
<1>2. Replaced(p, ByPath(p, a)) <=> ~DefaultsApply(p, a)
  BY DEF Replaced, DefaultsApply
<1> QED
  BY <1>1, <1>2, AddedElements DEF Contribution

-----------------------------------------------------------------------------
(***************************************************************************)
(* Counting.                                                               *)
(***************************************************************************)
(* How often an element is in two sequences one behind the other.          *)
LEMMA CountJoined ==
  ASSUME NEW X, NEW s \in Seq(X), NEW t \in Seq(X), NEW x
  PROVE  Count(s, x) \in Nat /\ Count(t, x) \in Nat /\ Count(s \o t, x) = Count(s, x) + Count(t, x)
<1> DEFINE j == s \o t
           m == Len(s)
           n == Len(t)
           S == {i \in DOMAIN s : s[i] = x}
           T == {i \in DOMAIN t : t[i] = x}
           U == {i \in DOMAIN j : j[i] = x}
           V == {m + i : i \in T}
<1>1. /\ DOMAIN s = 1..m /\ DOMAIN t = 1..n /\ m \in Nat /\ n \in Nat
      /\ DOMAIN j = 1..(m + n)
      /\ \A i \in 1..(m + n) : j[i] = IF i <= m THEN s[i] ELSE t[i - m]
  OBVIOUS
<1> HIDE DEF j, m, n
<1>2. IsFiniteSet(S) /\ IsFiniteSet(T)
  <2>1. IsFiniteSet(1..m) /\ IsFiniteSet(1..n)
    BY <1>1, FS_Interval
  <2>2. S \subseteq 1..m /\ T \subseteq 1..n
    BY <1>1
  <2> QED
    BY <2>1, <2>2, FS_Subset
<1>3. S \in SUBSET (1..m) /\ T \in SUBSET (1..n)
  BY <1>1
<1>4. U = S \cup V
  <2>1. ASSUME NEW i \in U PROVE i \in S \cup V
    <3>1. i \in 1..(m + n) /\ j[i] = x
      BY <1>1
    <3>2. CASE i <= m
      BY <1>1, <3>1, <3>2
    <3>3. CASE ~(i <= m)
      <4>1. i - m \in 1..n /\ m + (i - m) = i /\ t[i - m] = x
        BY <1>1, <3>1, <3>3
      <4>2. i - m \in T
        BY <1>1, <4>1
      <4> QED
        BY <4>1, <4>2
    <3> QED
      BY <3>2, <3>3
  <2>2. ASSUME NEW i \in S PROVE i \in U
    BY <1>1
  <2>3. ASSUME NEW i \in T PROVE m + i \in U
    <3>1. i \in 1..n /\ t[i] = x
      BY <1>1
    <3>2. m + i \in 1..(m + n) /\ ~(m + i <= m) /\ (m + i) - m = i
      BY <1>1, <3>1
    <3> QED
      BY <1>1, <3>1, <3>2
  <2> QED
    BY <2>1, <2>2, <2>3
<1> HIDE DEF S, T, U
<1>5. S \cap V = {}
  <2>1. \A i \in 1..n : ~(m + i \in 1..m)
    BY <1>1
  <2> QED
    BY <1>3, <2>1
<1>6. IsFiniteSet(V) /\ Cardinality(V) = Cardinality(T)
  <2> DEFINE f == [i \in T |-> m + i]
  <2>1. f \in Surjection(T, V)
    BY DEF Surjection
  <2>2. \A i, k \in T : f[i] = f[k] => i = k
    BY <1>1, <1>3
  <2>3. f \in Bijection(T, V)
    <3> HIDE DEF f, V
    <3> QED
      BY <2>1, <2>2 DEF Bijection, Injection, Surjection, IsInjective
  <2>4. ExistsBijection(T, V)
    BY <2>3 DEF ExistsBijection
  <2> QED
    BY <1>2, <2>4, FS_Bijection
<1> HIDE DEF V
<1>7. Cardinality(S) \in Nat /\ Cardinality(T) \in Nat
  BY <1>2, FS_CardinalityType
<1>8. Cardinality(S \cap V) = 0
  BY <1>5, FS_EmptySet
<1>9. Cardinality(U) = Cardinality(S) + Cardinality(V) - Cardinality(S \cap V)
  BY <1>2, <1>4, <1>6, FS_Union
<1>10. Cardinality(U) = Cardinality(S) + Cardinality(T)
  BY <1>6, <1>7, <1>8, <1>9
<1> QED
  BY <1>7, <1>10 DEF Count, S, T, U, j

(* An element of a sequence without repetitions is there once.             *)
LEMMA CountOnce ==
  ASSUME NEW s, \A j, k \in DOMAIN s : s[j] = s[k] => j = k, NEW x
  PROVE  Count(s, x) = IF x \in ToSet(s) THEN 1 ELSE 0
<1>1. CASE x \in ToSet(s)
  <2>1. PICK i \in DOMAIN s : s[i] = x
    BY <1>1 DEF ToSet
  <2>2. {k \in DOMAIN s : s[k] = x} = {i}
    BY <2>1
  <2> QED
    BY <1>1, <2>2, FS_Singleton DEF Count
<1>2. CASE x \notin ToSet(s)
  <2>1. {k \in DOMAIN s : s[k] = x} = {}
    BY <1>2 DEF ToSet
  <2> QED
    BY <1>2, <2>1, FS_EmptySet DEF Count
<1> QED
  BY <1>1, <1>2

-----------------------------------------------------------------------------
(***************************************************************************)
(* The visits of a synth.                                                  *)
(***************************************************************************)
VisitsOf(paths) == [alarm : paths, policy : Policies]
Visit(a, p) == [alarm |-> a, policy |-> p]

(* The policies that see an alarm are those installed that reach it.       *)
LEMMA PoliciesReach ==
  ASSUME installed \in Seq(Policies), NEW a
  PROVE  /\ PoliciesAt(a) \in Seq(Policies)
         /\ \A p \in ToSet(installed) : Reaches(p, a) => p \in ToSet(PoliciesAt(a))
         /\ \A p \in ToSet(PoliciesAt(a)) : p \in ToSet(installed) /\ Reaches(p, a)
<1> DEFINE ofApp == {i \in DOMAIN installed : At[installed[i]] = "app"}
           ofStack == {i \in DOMAIN installed : At[installed[i]] # "app" /\ Reaches(installed[i], a)}
           c == Chosen(installed, ofApp)
           d == Chosen(installed, ofStack)
<1>1. /\ c \in Seq(Policies) /\ \A i \in ofApp : \E k \in DOMAIN c : c[k] = installed[i]
      /\ \A k \in DOMAIN c : \E i \in ofApp : c[k] = installed[i]
  <2>1. ofApp \in SUBSET (DOMAIN installed)
    OBVIOUS
  <2> HIDE DEF ofApp
  <2> QED
    BY <2>1, ChosenElements
<1>2. /\ d \in Seq(Policies) /\ \A i \in ofStack : \E k \in DOMAIN d : d[k] = installed[i]
      /\ \A k \in DOMAIN d : \E i \in ofStack : d[k] = installed[i]
  <2>1. ofStack \in SUBSET (DOMAIN installed)
    OBVIOUS
  <2> HIDE DEF ofStack
  <2> QED
    BY <2>1, ChosenElements
<1>3. PoliciesAt(a) = c \o d
  BY DEF PoliciesAt
<1>4. \A p \in ToSet(installed) : Reaches(p, a) => \E i \in ofApp \cup ofStack : installed[i] = p
  BY DEF ToSet
<1>7. \A i \in ofApp \cup ofStack : installed[i] \in ToSet(installed) /\ Reaches(installed[i], a)
  BY DEF ToSet, Reaches
<1> HIDE DEF ofApp, ofStack, c, d
<1>5. c \o d \in Seq(Policies) /\ ToSet(c \o d) = ToSet(c) \cup ToSet(d)
  BY <1>1, <1>2, JoinedElements
<1>6. \A i \in ofApp \cup ofStack : installed[i] \in ToSet(c) \cup ToSet(d)
  BY <1>1, <1>2 DEF ToSet
<1>8. \A p \in ToSet(c) \cup ToSet(d) : p \in ToSet(installed) /\ Reaches(p, a)
  <2>1. \A p \in ToSet(c) : \E k \in DOMAIN c : c[k] = p
    BY DEF ToSet
  <2>2. \A p \in ToSet(d) : \E k \in DOMAIN d : d[k] = p
    BY DEF ToSet
  <2>3. ASSUME NEW p \in ToSet(c) PROVE p \in ToSet(installed) /\ Reaches(p, a)
    <3>1. PICK k \in DOMAIN c : c[k] = p
      BY <2>1
    <3>2. PICK i \in ofApp : c[k] = installed[i]
      BY <1>1
    <3> QED
      BY <1>7, <3>1, <3>2
  <2>4. ASSUME NEW p \in ToSet(d) PROVE p \in ToSet(installed) /\ Reaches(p, a)
    <3>1. PICK k \in DOMAIN d : d[k] = p
      BY <2>2
    <3>2. PICK i \in ofStack : d[k] = installed[i]
      BY <1>2
    <3> QED
      BY <1>7, <3>1, <3>2
  <2> QED
    BY <2>3, <2>4
<1> QED
  BY <1>3, <1>4, <1>5, <1>6, <1>8

(* A walk over the alarms visits each for every policy that reaches it.    *)
LEMMA WalkVisits ==
  ASSUME installed \in Seq(Policies), NEW order \in TreeOrders, DOMAIN tree \subseteq ToSet(order)
  PROVE  LET todo == Visits(Chosen(order, {i \in DOMAIN order : order[i] \in DOMAIN tree})) IN
         /\ todo \in Seq(VisitsOf(DOMAIN tree))
         /\ \A a \in DOMAIN tree, p \in ToSet(installed) :
              Reaches(p, a) => Visit(a, p) \in ToSet(todo)
<1> DEFINE met == {i \in DOMAIN order : order[i] \in DOMAIN tree}
           walk == Chosen(order, met)
           At1(a) == [j \in DOMAIN PoliciesAt(a) |-> [alarm |-> a, policy |-> PoliciesAt(a)[j]]]
           ss == [i \in DOMAIN walk |-> At1(walk[i])]
           todo == Visits(walk)
<1>1. /\ DOMAIN walk = 1..Len(walk) /\ Len(walk) \in Nat
      /\ \A k \in DOMAIN walk : \E i \in met : walk[k] = order[i]
      /\ \A i \in met : \E k \in DOMAIN walk : walk[k] = order[i]
  <2>1. met \in SUBSET (DOMAIN order) /\ order \in Seq(ToSet(order))
    BY PolicyAssumption
  <2> HIDE DEF met
  <2> QED
    BY <2>1, ChosenElements
<1>2. \A k \in DOMAIN walk : walk[k] \in DOMAIN tree
  <2> HIDE DEF walk
  <2> QED
    BY <1>1
<1>3. \A a \in DOMAIN tree : \E k \in DOMAIN walk : walk[k] = a
  <2>1. \A a \in DOMAIN tree : \E i \in met : order[i] = a
    BY DEF ToSet
  <2> HIDE DEF met, walk
  <2> QED
    BY <1>1, <2>1
<1> HIDE DEF met, walk
<1>4. \A a \in DOMAIN tree : /\ At1(a) \in Seq(VisitsOf(DOMAIN tree))
                             /\ \A p \in ToSet(installed) : Reaches(p, a) =>
                                  \E j \in DOMAIN At1(a) : At1(a)[j] = Visit(a, p)
  <2> TAKE a \in DOMAIN tree
  <2>1. /\ PoliciesAt(a) \in Seq(Policies)
        /\ \A p \in ToSet(installed) : Reaches(p, a) => p \in ToSet(PoliciesAt(a))
    BY PoliciesReach
  <2> DEFINE ps == PoliciesAt(a)
             vs == [j \in DOMAIN ps |-> [alarm |-> a, policy |-> ps[j]]]
  <2> HIDE DEF ps
  <2>2. DOMAIN ps = 1..Len(ps) /\ Len(ps) \in Nat /\ \A j \in 1..Len(ps) : ps[j] \in Policies
    BY <2>1, SequenceElements DEF ps
  <2>3. vs \in Seq(VisitsOf(DOMAIN tree))
    BY <2>2 DEF VisitsOf
  <2>4. \A p \in ToSet(ps) : \E j \in DOMAIN vs : vs[j] = Visit(a, p)
    BY DEF ToSet, Visit
  <2>5. At1(a) = vs
    BY DEF ps
  <2> HIDE DEF vs, At1
  <2> QED
    BY <2>1, <2>3, <2>4, <2>5 DEF ps
<1>5. todo = FlattenSeq(ss)
  BY DEF Visits
<1> HIDE DEF At1
<1>6. /\ ss \in Seq(Seq(VisitsOf(DOMAIN tree)))
      /\ DOMAIN ss = DOMAIN walk /\ \A k \in DOMAIN walk : ss[k] = At1(walk[k])
  <2>1. \A k \in 1..Len(walk) : At1(walk[k]) \in Seq(VisitsOf(DOMAIN tree))
    BY <1>1, <1>2, <1>4
  <2> QED
    BY <1>1, <2>1
<1> HIDE DEF ss, todo
<1>7. /\ todo \in Seq(VisitsOf(DOMAIN tree))
      /\ \A j \in DOMAIN ss : \A k \in DOMAIN ss[j] : \E i \in DOMAIN todo : todo[i] = ss[j][k]
  BY <1>5, <1>6, FlattenElements
<1>8. \A a \in DOMAIN tree, p \in ToSet(installed) : Reaches(p, a) => Visit(a, p) \in ToSet(todo)
  <2> TAKE a \in DOMAIN tree, p \in ToSet(installed)
  <2> HAVE Reaches(p, a)
  <2>1. PICK k \in DOMAIN walk : walk[k] = a
    BY <1>3
  <2>2. PICK j \in DOMAIN At1(a) : At1(a)[j] = Visit(a, p)
    BY <1>4
  <2>3. k \in DOMAIN ss /\ ss[k] = At1(a)
    BY <1>6, <2>1
  <2>4. PICK i \in DOMAIN todo : todo[i] = ss[k][j]
    BY <1>7, <2>2, <2>3
  <2>5. todo[i] = Visit(a, p)
    BY <2>2, <2>3, <2>4
  <2> QED
    BY <2>5 DEF ToSet
<1> QED
  BY <1>7, <1>8 DEF todo, walk, met

-----------------------------------------------------------------------------
(***************************************************************************)
(* The state.                                                              *)
(***************************************************************************)
\* Every alarm has actions and a text; a policy has processed nothing before
\* the first synth, and visits are left only while one runs.
AlarmTypes ==
  /\ DOMAIN actions = DOMAIN tree /\ DOMAIN text = DOMAIN tree
  /\ \A a \in DOMAIN tree : actions[a] \in Seq(Anything)
  /\ installed \in Seq(Policies)
  /\ processed \in [Policies -> SUBSET DOMAIN tree]
  /\ agenda \in Seq(VisitsOf(DOMAIN tree))
  /\ phase \in {"open", "synth", "done", "failed"}
  /\ phase = "open" => \A p \in Policies : processed[p] = {}
  /\ phase # "synth" => agenda = <<>>

\* What createAlarms() and the user's own alarms do to the policies' state.
Grows ==
  /\ phase = "open"
  /\ DOMAIN tree \subseteq DOMAIN tree'
  /\ DOMAIN actions' = DOMAIN tree' /\ DOMAIN text' = DOMAIN tree'
  /\ \A a \in DOMAIN tree' : actions'[a] = IF a \in DOMAIN tree THEN actions[a] ELSE <<>>
  /\ UNCHANGED <<installed, processed, agenda, phase>>

(* They only add alarms, and a new one has no actions.                     *)
LEMMA AlarmsAppear ==
  ASSUME AlarmTypes, BuilderStep \/ \E a \in DOMAIN UserAlarms : AddAlarm(a)
  PROVE  Grows
<1>1. ASSUME NEW new, DOMAIN tree' = DOMAIN tree \cup new, Appears(new), Open,
             UNCHANGED <<installed, processed, agenda, phase>>
      PROVE  Grows
  <2>1. /\ actions' = [a \in DOMAIN actions \cup new |->
                         IF a \in DOMAIN actions THEN actions[a] ELSE [b \in new |-> <<>>][a]]
        /\ text' = [a \in DOMAIN text \cup new |-> IF a \in DOMAIN text THEN text[a] ELSE TextOf[a]]
    BY <1>1 DEF Appears
  <2> QED
    BY <1>1, <2>1 DEF AlarmTypes, Grows, Open
<1>2. CASE BuilderStep
  <2>1. DOMAIN tree \subseteq DOMAIN tree'
    <3>1. \A k, v : DOMAIN Bind(tree, k, v) = DOMAIN tree \cup {k}
      BY DEF Bind
    <3>2. CASE CreateAlarm
      <4>1. PICK k, v : tree' = Bind(tree, k, v)
        BY <3>2 DEF CreateAlarm
      <4> QED
        BY <3>1, <4>1
    <3>3. CASE (\E c \in AlarmCalls : CallCreateAlarms(c)) \/ CreateAlarmThrows \/ CreateAlarmsReturns
      <4>1. tree' = tree
        BY <3>3 DEF CallCreateAlarms, CreateAlarmThrows, CreateAlarmsReturns
      <4> QED
        BY <4>1
    <3> QED
      BY <1>2, <3>2, <3>3 DEF BuilderStep, CreateNext
  <2>2. DOMAIN tree' = DOMAIN tree \cup (DOMAIN tree' \ DOMAIN tree)
    BY <2>1
  <2> QED
    BY <1>1, <1>2, <2>2 DEF BuilderStep
<1>3. CASE \E a \in DOMAIN UserAlarms : AddAlarm(a)
  <2>1. PICK a \in DOMAIN UserAlarms : AddAlarm(a)
    BY <1>3
  <2>2. DOMAIN tree' = DOMAIN tree \cup {a}
    BY <2>1 DEF AddAlarm, Bind
  <2> QED
    BY <1>1, <2>1, <2>2 DEF AddAlarm
<1> QED
  BY <1>2, <1>3

(* The visit at the head is of an alarm of the tree by a policy, and the   *)
(* others are left when it is over.                                        *)
LEMMA VisitFrame ==
  ASSUME AlarmTypes, agenda # <<>>
  PROVE  /\ Alarm \in DOMAIN tree /\ Policy \in Policies
         /\ Tail(agenda) \in Seq(VisitsOf(DOMAIN tree))
         /\ \A a, p : Visit(a, p) \in ToSet(agenda) =>
              (a = Alarm /\ p = Policy) \/ Visit(a, p) \in ToSet(Tail(agenda))
<1>1. /\ Head(agenda) \in VisitsOf(DOMAIN tree) /\ Tail(agenda) \in Seq(VisitsOf(DOMAIN tree))
      /\ \A v \in ToSet(agenda) : v = Head(agenda) \/ v \in ToSet(Tail(agenda))
  BY HeadAndTail DEF AlarmTypes
<1> HIDE DEF AlarmTypes
<1>2. Alarm \in DOMAIN tree /\ Policy \in Policies
  BY <1>1 DEF VisitsOf, Alarm, Policy
<1>3. \A a, p : Visit(a, p) = Head(agenda) => a = Alarm /\ p = Policy
  BY DEF Visit, Alarm, Policy
<1> QED
  BY <1>1, <1>2, <1>3

\* A visit that leaves the actions alone and lets the pass go on.
QuietVisit ==
  /\ phase = "synth" /\ agenda # <<>>
  /\ DOMAIN tree' = DOMAIN tree /\ actions' = actions /\ installed' = installed
  /\ DOMAIN text' = DOMAIN text
  /\ agenda' = Tail(agenda) /\ phase' = phase
  /\ \/ processed' = processed
     \/ Kind[Policy] = "names" /\ processed' = [processed EXCEPT ![Policy] = @ \cup {Alarm}]

\* A visit that ends the pass.
FailedVisit ==
  /\ agenda' = <<>> /\ phase' = "failed" /\ phase = "synth"
  /\ UNCHANGED <<tree, actions, text, installed, processed>>

(* The visits that add no actions are of these two kinds.                  *)
LEMMA OtherVisits ==
  /\ VisitPassesOver \/ VisitKeepsName \/ VisitRenames \/ VisitSanitizes => QuietVisit
  /\ VisitRefusesName \/ VisitRefusesText => FailedVisit
<1>1. VisitRenames => QuietVisit
  <2> SUFFICES ASSUME VisitRenames PROVE QuietVisit
    OBVIOUS
  <2>1. tree' = [tree EXCEPT ![Alarm] = NewName]
    BY DEF VisitRenames
  <2>2. DOMAIN tree' = DOMAIN tree
    <3> HIDE DEF Alarm, NewName
    <3> QED
      BY <2>1
  <2> QED
    BY <2>2 DEF VisitRenames, QuietVisit, Visiting, NextVisit, Policy
<1>2. VisitSanitizes => QuietVisit
  <2> SUFFICES ASSUME VisitSanitizes PROVE QuietVisit
    OBVIOUS
  <2>1. PICK ascii \in BOOLEAN : text' = [text EXCEPT ![Alarm] = Written(@, ascii)]
    BY DEF VisitSanitizes
  <2>2. DOMAIN text' = DOMAIN text
    BY <2>1
  <2> QED
    BY <2>2 DEF VisitSanitizes, QuietVisit, Visiting, NextVisit, createVars
<1>3. VisitPassesOver \/ VisitKeepsName => QuietVisit
  BY DEF VisitPassesOver, VisitKeepsName, QuietVisit, Visiting, NextVisit, createVars
<1>4. VisitRefusesName \/ VisitRefusesText => FailedVisit
  BY DEF VisitRefusesName, VisitRefusesText, FailedVisit, Visiting, SynthThrows, createVars
<1> QED
  BY <1>1, <1>2, <1>3, <1>4

(* AlarmTypes holds at first, and every step keeps it.                     *)
LEMMA TypesAtFirst == AlarmInit => AlarmTypes
<1> SUFFICES ASSUME AlarmInit PROVE AlarmTypes
  OBVIOUS
<1>1. DOMAIN tree = {} /\ DOMAIN actions = {} /\ DOMAIN text = {}
  BY DEF AlarmInit, CreateInit
<1>2. <<>> \in Seq(Policies) /\ <<>> \in Seq(VisitsOf(DOMAIN tree))
  OBVIOUS
<1>3. processed = [p \in Policies |-> {}] /\ installed = <<>> /\ agenda = <<>> /\ phase = "open"
  BY DEF AlarmInit
<1> QED
  BY <1>1, <1>2, <1>3 DEF AlarmTypes

LEMMA TypesStay ==
  ASSUME AlarmTypes, [AlarmNext]_alarmVars
  PROVE  AlarmTypes'
<1>1. CASE BuilderStep \/ \E a \in DOMAIN UserAlarms : AddAlarm(a)
  <2>1. Grows
    BY <1>1, AlarmsAppear
  <2>2. \A a \in DOMAIN tree' : actions'[a] \in Seq(Anything)
    <3>1. <<>> \in Seq(Anything)
      OBVIOUS
    <3> QED
      BY <2>1, <3>1 DEF Grows, AlarmTypes
  <2>3. agenda = <<>> /\ <<>> \in Seq(VisitsOf(DOMAIN tree'))
    BY <2>1 DEF Grows, AlarmTypes
  <2> QED
    BY <2>1, <2>2, <2>3 DEF Grows, AlarmTypes
<1>2. CASE \E a \in DOMAIN tree, x \in UserActions : AddAction(a, x)
  <2>1. PICK a \in DOMAIN tree, x \in UserActions : AddAction(a, x)
    BY <1>2
  <2>2. actions' = [actions EXCEPT ![a] = Append(@, x)] /\ x \in Anything
    BY <2>1 DEF AddAction, Anything
  <2>3. \A s \in Seq(Anything) : Append(s, x) \in Seq(Anything)
    BY <2>2
  <2>4. UNCHANGED <<tree, text, installed, processed, agenda, phase>>
    BY <2>1 DEF AddAction, createVars
  <2>5. DOMAIN actions' = DOMAIN tree /\ \A b \in DOMAIN tree : actions'[b] \in Seq(Anything)
    BY <2>2, <2>3 DEF AlarmTypes
  <2> QED
    BY <2>4, <2>5 DEF AlarmTypes
<1>3. CASE \E p \in Policies : Install(p)
  <2>1. PICK p \in Policies : Install(p)
    BY <1>3
  <2>2. installed' = Append(installed, p)
        /\ UNCHANGED <<tree, actions, text, processed, agenda, phase>>
    BY <2>1 DEF Install, createVars
  <2>3. installed' \in Seq(Policies)
    BY <2>2 DEF AlarmTypes
  <2> QED
    BY <2>2, <2>3 DEF AlarmTypes
<1>4. CASE \E order \in TreeOrders : Synth(order)
  <2>1. PICK order \in TreeOrders : Synth(order)
    BY <1>4
  <2>2. phase' = "synth" /\ UNCHANGED <<tree, actions, text, installed, processed>>
    BY <2>1 DEF Synth, createVars
  <2>3. agenda' \in Seq(VisitsOf(DOMAIN tree))
    BY <2>1, WalkVisits DEF Synth, AlarmTypes
  <2> QED
    BY <2>2, <2>3 DEF AlarmTypes
<1>5. CASE VisitActions
  <2>1. agenda # <<>> /\ phase = "synth"
    BY <1>5 DEF VisitActions, Visiting
  <2>2. /\ actions' = [actions EXCEPT ![Alarm] = @ \o Added(Policy, Hits(Policy, Alarm))]
        /\ processed' = [processed EXCEPT ![Policy] = @ \cup {Alarm}]
        /\ UNCHANGED <<tree, text, installed, phase>> /\ agenda' = Tail(agenda)
    BY <1>5 DEF VisitActions, NextVisit, createVars
  <2>3. Alarm \in DOMAIN tree /\ Policy \in Policies /\ Tail(agenda) \in Seq(VisitsOf(DOMAIN tree))
    BY <2>1, VisitFrame
  <2>4. Added(Policy, Hits(Policy, Alarm)) \in Seq(Anything)
    <3>1. Hits(Policy, Alarm) \in SUBSET (DOMAIN Rules[Policy])
      BY DEF Hits
    <3> QED
      BY <2>3, <3>1, AddedElements
  <2> DEFINE a == Alarm
             p == Policy
             new == Added(Policy, Hits(Policy, Alarm))
  <2> HIDE DEF a, p, new
  <2>5. DOMAIN actions' = DOMAIN tree /\ \A b \in DOMAIN tree : actions'[b] \in Seq(Anything)
    <3>1. actions' = [actions EXCEPT ![a] = @ \o new]
      BY <2>2 DEF a, new
    <3>2. \A s \in Seq(Anything) : s \o new \in Seq(Anything)
      BY <2>4 DEF new
    <3> QED
      BY <3>1, <3>2 DEF AlarmTypes
  <2>6. processed' \in [Policies -> SUBSET DOMAIN tree]
    <3>1. processed' = [processed EXCEPT ![p] = @ \cup {a}] /\ a \in DOMAIN tree
      BY <2>2, <2>3 DEF a, p
    <3> QED
      BY <3>1 DEF AlarmTypes
  <2> QED
    BY <2>1, <2>2, <2>3, <2>5, <2>6 DEF AlarmTypes
<1>6. CASE VisitPassesOver \/ VisitKeepsName \/ VisitRenames \/ VisitSanitizes
  <2>1. QuietVisit
    BY <1>6, OtherVisits
  <2>2. Alarm \in DOMAIN tree /\ Policy \in Policies /\ Tail(agenda) \in Seq(VisitsOf(DOMAIN tree))
    BY <2>1, VisitFrame DEF QuietVisit
  <2> DEFINE a == Alarm
             p == Policy
  <2>3. processed' = processed \/ processed' = [processed EXCEPT ![p] = @ \cup {a}]
    BY <2>1 DEF QuietVisit
  <2>4. a \in DOMAIN tree
    BY <2>2
  <2> HIDE DEF a, p
  <2>5. processed' \in [Policies -> SUBSET DOMAIN tree]
    BY <2>3, <2>4 DEF AlarmTypes
  <2> QED
    BY <2>1, <2>2, <2>5 DEF AlarmTypes, QuietVisit
<1>7. CASE VisitRefusesName \/ VisitRefusesText
  <2>1. FailedVisit
    BY <1>7, OtherVisits
  <2>2. <<>> \in Seq(VisitsOf(DOMAIN tree))
    OBVIOUS
  <2> QED
    BY <2>1, <2>2 DEF AlarmTypes, FailedVisit
<1>8. CASE SynthDone
  BY <1>8 DEF SynthDone, AlarmTypes, createVars
<1>9. CASE UNCHANGED alarmVars
  BY <1>9 DEF alarmVars, createVars, policyVars, AlarmTypes
<1> QED
  BY <1>1, <1>2, <1>3, <1>4, <1>5, <1>6, <1>7, <1>8, <1>9 DEF AlarmNext

(* Type correctness: what AlarmTypes says of alarms, policies and visits.  *)
THEOREM AlarmTypesHold == AlarmSpec => []AlarmTypes
<1>1. AlarmTypes /\ [AlarmNext]_alarmVars => AlarmTypes'
  BY TypesStay
<1> QED
  BY TypesAtFirst, <1>1, PTL DEF AlarmSpec

-----------------------------------------------------------------------------
(***************************************************************************)
(* Texts.                                                                  *)
(***************************************************************************)
Running == phase \in {"synth", "done"}
Pending(a, p) == Visit(a, p) \in ToSet(agenda)
Fine(t) == t.form = "intrinsic" \/ t.ascii

\* In a synth, a text is fine, or the policy that would see to it has yet to.
TextInvariant ==
  /\ AlarmTypes
  /\ Running =>
       \A a \in DOMAIN tree : \A p \in Covering("text", a) :
         TextMode[p] \in {"throw", "sanitize"} => Fine(text[a]) \/ Pending(a, p)

(* Whoever a synth covers has a visit pending when it starts, and nobody   *)
(* when it is over.                                                        *)
LEMMA AllPending ==
  ASSUME AlarmTypes, NEW order \in TreeOrders, Synth(order)
  PROVE  \A kind, a : a \in DOMAIN tree => \A p \in Covering(kind, a) : Pending(a, p)'
<1>1. \A a \in DOMAIN tree, p \in ToSet(installed) :
        Reaches(p, a) => Visit(a, p) \in ToSet(agenda')
  BY WalkVisits DEF Synth, AlarmTypes
<1> QED
  BY <1>1 DEF Covering, Pending, Visit

LEMMA NonePending ==
  ASSUME agenda = <<>>
  PROVE  \A a, p : ~Pending(a, p)
BY DEF Pending, ToSet

(* A step of the program before the first synth leaves it for later.       *)
LEMMA NotRunning ==
  ASSUME \/ BuilderStep \/ (\E a \in DOMAIN UserAlarms : AddAlarm(a))
         \/ (\E a \in DOMAIN tree, x \in UserActions : AddAction(a, x))
         \/ (\E p \in Policies : Install(p))
  PROVE  phase = "open" /\ ~Running'
<1>1. phase = "open" /\ phase' = phase
  BY DEF BuilderStep, AddAlarm, AddAction, Install, Open
<1> QED
  BY <1>1 DEF Running

LEMMA TextStays ==
  ASSUME TextInvariant, [AlarmNext]_alarmVars
  PROVE  TextInvariant'
<1> SUFFICES ASSUME Running', NEW a \in DOMAIN tree', NEW p \in Covering("text", a)',
                    TextMode[p] \in {"throw", "sanitize"}
             PROVE  (Fine(text[a]) \/ Pending(a, p))'
  BY TypesStay DEF TextInvariant
<1>1. AlarmTypes
  BY DEF TextInvariant
<1>2. CASE BuilderStep \/ \E b \in DOMAIN UserAlarms : AddAlarm(b)
  BY <1>2, NotRunning
<1>3. CASE (\E b \in DOMAIN tree, x \in UserActions : AddAction(b, x)) \/ \E q \in Policies : Install(q)
  BY <1>3, NotRunning
<1>4. CASE \E order \in TreeOrders : Synth(order)
  <2>1. PICK order \in TreeOrders : Synth(order)
    BY <1>4
  <2>2. a \in DOMAIN tree /\ p \in Covering("text", a)
    BY <2>1 DEF Synth, createVars, Covering
  <2> QED
    BY <1>1, <2>1, <2>2, AllPending
<1>5. ASSUME phase = "synth", agenda # <<>>, agenda' = Tail(agenda), DOMAIN tree' = DOMAIN tree,
             installed' = installed, Fine(text[a]) => Fine(text'[a]),
             Alarm = a /\ Policy = p => Fine(text'[a])
      PROVE  (Fine(text[a]) \/ Pending(a, p))'
  <2>1. a \in DOMAIN tree /\ p \in Covering("text", a)
    BY <1>5 DEF Covering
  <2>2. Fine(text[a]) \/ Pending(a, p)
    BY <1>5, <2>1 DEF TextInvariant, Running
  <2>3. Pending(a, p) => (a = Alarm /\ p = Policy) \/ Pending(a, p)'
    BY <1>1, <1>5, VisitFrame DEF Pending, Visit
  <2>4. Fine(text[a])' <=> Fine(text'[a])
    BY DEF Fine
  <2> QED
    BY <1>5, <2>2, <2>3, <2>4
<1>6. Kind[p] = "text"
  BY DEF Covering
<1>7. CASE VisitActions \/ VisitKeepsName \/ VisitRenames
  <2>1. Kind[Policy] # "text" /\ text' = text
    BY <1>7 DEF VisitActions, VisitKeepsName, VisitRenames, Visiting, Policy
  <2>2. /\ phase = "synth" /\ agenda # <<>> /\ agenda' = Tail(agenda)
        /\ DOMAIN tree' = DOMAIN tree /\ installed' = installed
    <3>1. VisitKeepsName \/ VisitRenames => QuietVisit
      BY OtherVisits
    <3> QED
      BY <1>7, <3>1 DEF VisitActions, QuietVisit, Visiting, NextVisit, createVars
  <2> QED
    BY <1>5, <1>6, <2>1, <2>2
<1>8. CASE VisitPassesOver
  <2>1. QuietVisit /\ text' = text
    BY <1>8, OtherVisits DEF VisitPassesOver
  <2>2. Alarm = a /\ Policy = p => Fine(text[a])
    BY <1>6, <1>8 DEF VisitPassesOver, Visiting, Policy, Readable, Fine
  <2> QED
    BY <1>5, <2>1, <2>2 DEF QuietVisit
<1>9. CASE VisitSanitizes
  <2>1. PICK ascii \in BOOLEAN :
          /\ QuietVisit /\ text' = [text EXCEPT ![Alarm] = Written(@, ascii)]
          /\ TextMode[Policy] = "sanitize" => ascii
    BY <1>9, OtherVisits DEF VisitSanitizes
  <2>5. Readable(text[Alarm]) /\ TextMode[Policy] \in {"sanitize", "replace"}
    BY <1>9 DEF VisitSanitizes
  <2>2. a \in DOMAIN text
    BY <1>1, <2>1 DEF QuietVisit, AlarmTypes
  <2> DEFINE b == Alarm
  <2>3. text'[a] = IF a = b THEN Written(text[a], ascii) ELSE text[a]
    <3>1. text' = [text EXCEPT ![b] = Written(@, ascii)]
      BY <2>1
    <3> HIDE DEF b
    <3> QED
      BY <2>2, <3>1
  <2>4. \A t : /\ Readable(t) /\ Fine(t) => Fine(Written(t, ascii))
               /\ Fine(Written(t, TRUE))
    BY DEF Fine, Written, Readable
  <2>6. Fine(text[a]) => Fine(text'[a])
    BY <2>3, <2>4, <2>5
  <2>7. Alarm = a /\ Policy = p => Fine(text'[a])
    <3> SUFFICES ASSUME Alarm = a, Policy = p PROVE Fine(text'[a])
      OBVIOUS
    <3>1. ascii = TRUE
      BY <2>1, <2>5
    <3> QED
      BY <2>3, <2>4, <3>1
  <2> QED
    BY <1>5, <2>1, <2>6, <2>7 DEF QuietVisit
<1>10. CASE VisitRefusesName \/ VisitRefusesText
  <2>1. phase' = "failed"
    BY <1>10, OtherVisits DEF FailedVisit
  <2> QED
    BY <2>1 DEF Running
<1>11. CASE SynthDone
  <2>1. /\ Running /\ agenda = <<>> /\ text' = text
        /\ a \in DOMAIN tree /\ p \in Covering("text", a)
    BY <1>11 DEF SynthDone, createVars, Running, Covering
  <2>2. Fine(text[a])
    BY <2>1, NonePending DEF TextInvariant
  <2> QED
    BY <2>1, <2>2
<1>12. CASE UNCHANGED alarmVars
  <2>1. UNCHANGED <<phase, agenda, tree, installed, text>>
    BY <1>12 DEF alarmVars, createVars, policyVars
  <2> QED
    BY <2>1 DEF TextInvariant, Running, Pending, Covering
<1> QED
  BY <1>2, <1>3, <1>4, <1>7, <1>8, <1>9, <1>10, <1>11, <1>12 DEF AlarmNext

(* A synth that completes leaves no text CloudFormation would alter under  *)
(* a policy that throws or sanitizes: no visit of templateTextPolicy is    *)
(* lost or undone, in whatever order the tree is walked, how often the app *)
(* is synthesised, and whichever passes failed on the way.                 *)
THEOREM TextsAreSettled == AlarmSpec => []TextSettled
<1>1. AlarmInit => TextInvariant
  BY TypesAtFirst DEF AlarmInit, TextInvariant, Running
<1>2. TextInvariant /\ [AlarmNext]_alarmVars => TextInvariant'
  BY TextStays
<1>3. TextInvariant => TextSettled
  <2> SUFFICES ASSUME TextInvariant, phase = "done" PROVE TextSettled
    BY DEF TextSettled
  <2>1. agenda = <<>> /\ Running
    BY DEF TextInvariant, AlarmTypes, Running
  <2> QED
    BY <2>1, NonePending DEF TextInvariant, TextSettled, Fine
<1> QED
  BY <1>1, <1>2, <1>3, PTL DEF AlarmSpec

-----------------------------------------------------------------------------
(***************************************************************************)
(* Actions.                                                                *)
(***************************************************************************)
Speaks(p, a) == \E x \in Contribution(p, a) : x[1] = "alarm"
Givers(a, x) == {p \in Policies : a \in processed[p] /\ x \in Contribution(p, a)}
Owns(x) == IF x \in UserActions THEN {0, 1} ELSE {0}

\* What a policy has processed has the policy's actions.
AllGiven ==
  \A p \in Policies : \A a \in processed[p] : Contribution(p, a) \subseteq ToSet(actions[a])

\* In a synth, an alarm that a policy has an alarm action for has one, or has
\* yet to be visited.
NobodyForgotten ==
  Running =>
    \A a \in DOMAIN tree \ Bare : \A p \in Covering("actions", a) :
      Speaks(p, a) => Configured(a) \/ Pending(a, p)

\* Each action is there once for every policy that has given it.
AllCounted ==
  \A a \in DOMAIN tree : \A x : \E own \in Owns(x) :
    Count(actions[a], x) = own + Cardinality(Givers(a, x))

ActionInvariant == AlarmTypes /\ AllGiven /\ NobodyForgotten /\ AllCounted

(* Only alarmActionsPolicy contributes actions.                            *)
LEMMA OnlyActionsContribute ==
  ASSUME NEW p \in Policies, Kind[p] # "actions", NEW a
  PROVE  Contribution(p, a) = {}
<1>1. \A layer \in ToSet(Rules[p]) \cup {Defaults[p]} : layer.adds = <<>>
  BY PolicyAssumption
<1>2. ToSet(<<>>) = {}
  BY DEF ToSet
<1>3. \A i \in ByPath(p, a) : ToSet(Rules[p][i].adds) = {}
  <2>1. \A i \in DOMAIN Rules[p] : Rules[p][i] \in ToSet(Rules[p])
    BY DEF ToSet
  <2> QED
    BY <1>1, <1>2, <2>1 DEF ByPath
<1>4. ToSet(Defaults[p].adds) = {}
  BY <1>1, <1>2
<1> QED
  BY <1>3, <1>4 DEF Contribution

(* An alarm that has all a speaking policy contributes is configured.      *)
LEMMA SpokenFor ==
  ASSUME NEW p, NEW a, Speaks(p, a), Contribution(p, a) \subseteq ToSet(actions[a])
  PROVE  Configured(a)
BY DEF Speaks, Configured, ToSet

(* What a visit of alarmActionsPolicy does to the alarm it adds to, and to *)
(* no other.                                                               *)
LEMMA ActionsAdded ==
  ASSUME NoGlobalRules, AlarmTypes, VisitActions
  PROVE  /\ phase = "synth" /\ phase' = phase /\ agenda # <<>> /\ agenda' = Tail(agenda)
         /\ Alarm \in DOMAIN tree /\ Policy \in Policies /\ Alarm \notin processed[Policy]
         /\ UNCHANGED <<tree, installed>>
         /\ \A p \in Policies : processed'[p] = IF p = Policy THEN processed[p] \cup {Alarm}
                                                              ELSE processed[p]
         /\ \A a \in DOMAIN tree \ {Alarm} : actions'[a] = actions[a]
         /\ ToSet(actions'[Alarm]) = ToSet(actions[Alarm]) \cup Contribution(Policy, Alarm)
         /\ \A x : /\ Count(actions[Alarm], x) \in Nat
                   /\ Count(actions'[Alarm], x) = Count(actions[Alarm], x)
                                  + IF x \in Contribution(Policy, Alarm) THEN 1 ELSE 0
<1> DEFINE new == Added(Policy, Hits(Policy, Alarm))
           old == actions[Alarm]
           a == Alarm
           p == Policy
<1>1. /\ phase = "synth" /\ phase' = phase /\ agenda # <<>> /\ agenda' = Tail(agenda)
      /\ UNCHANGED <<tree, installed>> /\ a \notin processed[p]
      /\ actions' = [actions EXCEPT ![a] = @ \o new]
      /\ processed' = [processed EXCEPT ![p] = @ \cup {a}]
  BY DEF VisitActions, Visiting, NextVisit, createVars, PassedOver, Seen
<1>2. a \in DOMAIN tree /\ p \in Policies
  BY <1>1, VisitFrame
<1>3. /\ new \in Seq(Anything) /\ ToSet(new) = Contribution(p, a)
      /\ \A j, k \in DOMAIN new : new[j] = new[k] => j = k
  BY <1>2, AddsContribution
<1>4. old \in Seq(Anything)
  BY <1>2 DEF AlarmTypes
<1> HIDE DEF new, a, p
<1>5. /\ actions'[a] = actions[a] \o new
      /\ \A b \in DOMAIN tree \ {a} : actions'[b] = actions[b]
  BY <1>1, <1>2 DEF AlarmTypes
<1>6. \A q \in Policies : processed'[q] = IF q = p THEN processed[q] \cup {a} ELSE processed[q]
  BY <1>1 DEF AlarmTypes
<1>7. old = actions[a] /\ actions'[a] = old \o new
  BY <1>5 DEF a
<1> HIDE DEF old
<1>8. ToSet(actions'[a]) = ToSet(old) \cup Contribution(p, a)
  BY <1>3, <1>4, <1>7, JoinedElements
<1>9. ASSUME NEW x
      PROVE  /\ Count(old, x) \in Nat
             /\ Count(actions'[a], x) = Count(old, x) + IF x \in Contribution(p, a) THEN 1 ELSE 0
  <2>1. Count(old, x) \in Nat /\ Count(old \o new, x) = Count(old, x) + Count(new, x)
    BY <1>3, <1>4, CountJoined
  <2>2. Count(new, x) = IF x \in Contribution(p, a) THEN 1 ELSE 0
    BY <1>3, CountOnce
  <2> QED
    BY <1>7, <2>1, <2>2
<1> QED
  BY <1>1, <1>2, <1>5, <1>6, <1>7, <1>8, <1>9 DEF a, p

\* A step that makes no alarm and adds no action, and that marks an alarm as
\* processed only for a policy without actions.
Leaves ==
  /\ DOMAIN tree' = DOMAIN tree /\ actions' = actions
  /\ \A p \in Policies : processed'[p] = processed[p]
                           \/ \A a : Contribution(p, a) = {}

(* Every step makes alarms, adds actions, or leaves both alone.            *)
LEMMA StepKinds ==
  ASSUME AlarmTypes, [AlarmNext]_alarmVars
  PROVE  \/ Grows
         \/ \E a \in DOMAIN tree, x \in UserActions : AddAction(a, x)
         \/ VisitActions
         \/ Leaves
<1>1. CASE BuilderStep \/ \E a \in DOMAIN UserAlarms : AddAlarm(a)
  BY <1>1, AlarmsAppear
<1>2. CASE (\E p \in Policies : Install(p)) \/ (\E order \in TreeOrders : Synth(order)) \/ SynthDone
  BY <1>2 DEF Install, Synth, SynthDone, Leaves, createVars
<1>3. CASE VisitPassesOver \/ VisitKeepsName \/ VisitRenames \/ VisitSanitizes
  <2>1. QuietVisit
    BY <1>3, OtherVisits
  <2>2. Policy \in Policies
    BY <2>1, VisitFrame DEF QuietVisit
  <2> DEFINE q == Policy
             a == Alarm
  <2>3. /\ DOMAIN tree' = DOMAIN tree /\ actions' = actions
        /\ \/ processed' = processed
           \/ Kind[q] = "names" /\ processed' = [processed EXCEPT ![q] = @ \cup {a}]
    BY <2>1 DEF QuietVisit
  <2>4. q \in Policies
    BY <2>2
  <2> HIDE DEF q, a
  <2>5. Kind[q] = "names" => \A b : Contribution(q, b) = {}
    BY <2>4, OnlyActionsContribute
  <2> QED
    BY <2>3, <2>5 DEF Leaves, AlarmTypes
<1>4. CASE VisitRefusesName \/ VisitRefusesText
  BY <1>4, OtherVisits DEF FailedVisit, Leaves
<1>5. CASE UNCHANGED alarmVars
  BY <1>5 DEF alarmVars, createVars, policyVars, Leaves
<1> QED
  BY <1>1, <1>2, <1>3, <1>4, <1>5 DEF AlarmNext

(* No step takes an action away, or marks an alarm it did not give all to. *)
LEMMA GivenStays ==
  ASSUME NoGlobalRules, AlarmTypes, AllGiven, [AlarmNext]_alarmVars
  PROVE  AllGiven'
<1> SUFFICES ASSUME NEW p \in Policies, NEW a \in processed'[p]
             PROVE  Contribution(p, a) \subseteq ToSet(actions'[a])
  BY DEF AllGiven, Contribution, ByPath, InScope, DefaultsApply
<1>1. CASE Grows
  BY <1>1 DEF Grows, AlarmTypes
<1>2. CASE \E b \in DOMAIN tree, x \in UserActions : AddAction(b, x)
  BY <1>2 DEF AddAction, Open, AlarmTypes
<1>3. CASE VisitActions
  <2>1. a \in DOMAIN tree
    BY <1>3, ActionsAdded DEF AlarmTypes
  <2>2. a = Alarm => ToSet(actions[a]) \cup Contribution(Policy, a) \subseteq ToSet(actions'[a])
    BY <1>3, ActionsAdded
  <2>3. a # Alarm => actions'[a] = actions[a]
    BY <1>3, <2>1, ActionsAdded
  <2>4. a \in processed[p] \/ (a = Alarm /\ p = Policy)
    BY <1>3, ActionsAdded
  <2> QED
    BY <2>2, <2>3, <2>4 DEF AllGiven
<1>4. CASE Leaves
  BY <1>4 DEF Leaves, AllGiven
<1> QED
  BY <1>1, <1>2, <1>3, <1>4, StepKinds

(* An alarm is passed over for good only when it has an alarm action.      *)
LEMMA NobodyIsForgotten ==
  ASSUME NoGlobalRules, AlarmTypes, AllGiven, NobodyForgotten, [AlarmNext]_alarmVars
  PROVE  NobodyForgotten'
<1> SUFFICES ASSUME Running', NEW a \in DOMAIN tree' \ Bare, NEW p \in Covering("actions", a)',
                    Speaks(p, a)
             PROVE  (Configured(a) \/ Pending(a, p))'
  BY DEF NobodyForgotten, Speaks, Contribution, ByPath, InScope, DefaultsApply
<1>1. CASE BuilderStep \/ \E b \in DOMAIN UserAlarms : AddAlarm(b)
  BY <1>1, NotRunning
<1>2. CASE (\E b \in DOMAIN tree, x \in UserActions : AddAction(b, x)) \/ \E q \in Policies : Install(q)
  BY <1>2, NotRunning
<1>3. CASE \E order \in TreeOrders : Synth(order)
  <2>1. PICK order \in TreeOrders : Synth(order)
    BY <1>3
  <2>2. a \in DOMAIN tree /\ p \in Covering("actions", a)
    BY <2>1 DEF Synth, createVars, Covering
  <2> QED
    BY <2>1, <2>2, AllPending
<1>4. p \in Policies /\ Kind[p] = "actions"
  <2>1. installed' \in Seq(Policies)
    BY TypesStay DEF AlarmTypes
  <2>2. \A s \in Seq(Policies) : ToSet(s) \subseteq Policies
    BY DEF ToSet
  <2> QED
    BY <2>1, <2>2 DEF Covering
<1>5. ASSUME phase = "synth", agenda # <<>>, agenda' = Tail(agenda), DOMAIN tree' = DOMAIN tree,
             installed' = installed, Configured(a) => Configured(a)',
             Alarm = a /\ Policy = p => Configured(a)'
      PROVE  (Configured(a) \/ Pending(a, p))'
  <2>1. a \in DOMAIN tree \ Bare /\ p \in Covering("actions", a)
    BY <1>5 DEF Covering
  <2>2. Configured(a) \/ Pending(a, p)
    BY <1>5, <2>1 DEF NobodyForgotten, Running
  <2>3. Pending(a, p) => (a = Alarm /\ p = Policy) \/ Pending(a, p)'
    BY <1>5, VisitFrame DEF Pending, Visit
  <2> QED
    BY <1>5, <2>2, <2>3
<1>6. CASE VisitActions
  <2>1. a \in DOMAIN tree
    BY <1>6, ActionsAdded
  <2>2. a = Alarm => ToSet(actions[a]) \cup Contribution(Policy, a) \subseteq ToSet(actions'[a])
    BY <1>6, ActionsAdded
  <2>3. a # Alarm => actions'[a] = actions[a]
    BY <1>6, <2>1, ActionsAdded
  <2>4. Configured(a) => \E x \in ToSet(actions[a]) : x[1] = "alarm"
    BY DEF Configured, ToSet
  <2>5. (\E x \in ToSet(actions'[a]) : x[1] = "alarm") => Configured(a)'
    BY DEF Configured, ToSet
  <2>6. Configured(a) => Configured(a)'
    BY <2>2, <2>3, <2>4, <2>5
  <2>7. Alarm = a /\ Policy = p => Configured(a)'
    BY <2>2, <2>5 DEF Speaks
  <2> QED
    BY <1>5, <1>6, <2>6, <2>7, ActionsAdded
<1>7. CASE VisitKeepsName \/ VisitRenames \/ VisitSanitizes
  <2>1. Kind[Policy] # "actions"
    BY <1>7 DEF VisitKeepsName, VisitRenames, VisitSanitizes, Visiting, Policy
  <2>2. QuietVisit
    BY <1>7, OtherVisits
  <2>3. Configured(a) => Configured(a)'
    BY <2>2 DEF QuietVisit, Configured
  <2> QED
    BY <1>4, <1>5, <2>1, <2>2, <2>3 DEF QuietVisit
<1>8. CASE VisitPassesOver
  <2>1. QuietVisit
    BY <1>8, OtherVisits
  <2>2. Configured(a) => Configured(a)'
    BY <2>1 DEF QuietVisit, Configured
  <2>3. Alarm = a /\ Policy = p => PassedOver(p, a)
    BY <1>4, <1>8 DEF VisitPassesOver, Visiting, Policy
  <2>4. Seen(p, a) => Configured(a)
    BY <1>4, SpokenFor DEF Seen, AllGiven
  <2>5. Alarm = a /\ Policy = p => Configured(a)
    BY <2>3, <2>4 DEF PassedOver
  <2> QED
    BY <1>5, <2>1, <2>2, <2>5 DEF QuietVisit
<1>9. CASE VisitRefusesName \/ VisitRefusesText
  <2>1. phase' = "failed"
    BY <1>9, OtherVisits DEF FailedVisit
  <2> QED
    BY <2>1 DEF Running
<1>10. CASE SynthDone
  <2>1. /\ Running /\ agenda = <<>> /\ actions' = actions
        /\ a \in DOMAIN tree \ Bare /\ p \in Covering("actions", a)
    BY <1>10 DEF SynthDone, createVars, Running, Covering
  <2>2. Configured(a)
    BY <2>1, NonePending DEF NobodyForgotten
  <2> QED
    BY <2>1, <2>2 DEF Configured
<1>11. CASE UNCHANGED alarmVars
  <2>1. UNCHANGED <<phase, agenda, tree, installed, actions>>
    BY <1>11 DEF alarmVars, createVars, policyVars
  <2> QED
    BY <2>1 DEF NobodyForgotten, Running, Pending, Covering, Configured
<1> QED
  BY <1>1, <1>2, <1>3, <1>6, <1>7, <1>8, <1>9, <1>10, <1>11 DEF AlarmNext

(* Every visit that adds an action counts once, for the policy it is of.   *)
LEMMA CountsStay ==
  ASSUME NoGlobalRules, AlarmTypes, AllCounted, [AlarmNext]_alarmVars
  PROVE  AllCounted'
<1> SUFFICES ASSUME NEW a \in DOMAIN tree', NEW x
             PROVE  \E own \in Owns(x) : Count(actions'[a], x) = own + Cardinality(Givers(a, x)')
  BY DEF AllCounted, Count, Givers
<1>1. Cardinality({}) = 0 /\ 0 \in Owns(x)
  BY FS_EmptySet DEF Owns
<1>2. Count(<<>>, x) = 0
  BY <1>1 DEF Count
<1>3. phase = "open" /\ processed' = processed => Givers(a, x) = {} /\ Givers(a, x)' = {}
  BY DEF AlarmTypes, Givers
<1>4. CASE Grows
  <2>1. Givers(a, x) = {} /\ Givers(a, x)' = {}
    BY <1>3, <1>4 DEF Grows
  <2>2. CASE a \in DOMAIN tree
    BY <1>4, <2>1, <2>2 DEF Grows, AllCounted
  <2>3. CASE a \notin DOMAIN tree
    BY <1>1, <1>2, <1>4, <2>1, <2>3 DEF Grows
  <2> QED
    BY <2>2, <2>3
<1>5. CASE \E b \in DOMAIN tree, y \in UserActions : AddAction(b, y)
  <2>1. PICK b \in DOMAIN tree, y \in UserActions : AddAction(b, y)
    BY <1>5
  <2>2. /\ phase = "open" /\ processed' = processed /\ tree' = tree
        /\ \A c \in DOMAIN tree : actions[c] = <<>>
        /\ actions' = [actions EXCEPT ![b] = Append(@, y)]
    BY <2>1 DEF AddAction, Open, createVars
  <2>3. Givers(a, x)' = {}
    BY <1>3, <2>2
  <2>4. actions'[a] = IF a = b THEN <<y>> ELSE <<>>
    <3>1. a \in DOMAIN actions /\ actions[a] = <<>>
      BY <2>2 DEF AlarmTypes
    <3>2. Append(<<>>, y) = <<y>>
      OBVIOUS
    <3>3. actions'[a] = IF a = b THEN Append(actions[a], y) ELSE actions[a]
      BY <2>2, <3>1
    <3> QED
      BY <3>1, <3>2, <3>3
  <2>5. Count(<<y>>, x) = IF x = y THEN 1 ELSE 0
    <3>1. (\A j, k \in DOMAIN <<y>> : <<y>>[j] = <<y>>[k] => j = k) /\ ToSet(<<y>>) = {y}
      BY DEF ToSet
    <3> QED
      BY <3>1, CountOnce
  <2>6. x = y => 1 \in Owns(x)
    BY DEF Owns
  <2> QED
    BY <1>1, <1>2, <2>3, <2>4, <2>5, <2>6
<1>6. CASE VisitActions
  <2>1. a \in DOMAIN tree
    BY <1>6, ActionsAdded
  <2>2. PICK own \in Owns(x) : Count(actions[a], x) = own + Cardinality(Givers(a, x))
    BY <2>1 DEF AllCounted
  <2>3. own \in Nat
    BY DEF Owns
  <2>4. IsFiniteSet(Givers(a, x)) /\ Cardinality(Givers(a, x)) \in Nat
    <3>1. Givers(a, x) \subseteq Policies /\ IsFiniteSet(Policies)
      BY PolicyAssumption DEF Givers
    <3> QED
      BY <3>1, FS_Subset, FS_CardinalityType
  <2>5. CASE a = Alarm /\ x \in Contribution(Policy, a)
    <3>1. Count(actions'[a], x) = Count(actions[a], x) + 1
      BY <1>6, <2>5, ActionsAdded
    <3>2. Givers(a, x)' = Givers(a, x) \cup {Policy} /\ Policy \notin Givers(a, x)
      <4>1. /\ Policy \in Policies /\ a \notin processed[Policy]
            /\ \A p \in Policies : a \in processed'[p] <=> (p = Policy \/ a \in processed[p])
        BY <1>6, <2>5, ActionsAdded
      <4>2. \A p : p \in Givers(a, x)' <=> p \in Policies /\ a \in processed'[p] /\ x \in Contribution(p, a)
        BY DEF Givers, Contribution, ByPath, InScope, DefaultsApply
      <4>3. \A p : p \in Givers(a, x) <=> p \in Policies /\ a \in processed[p] /\ x \in Contribution(p, a)
        BY DEF Givers
      <4> QED
        BY <2>5, <4>1, <4>2, <4>3
    <3>3. Cardinality(Givers(a, x)') = Cardinality(Givers(a, x)) + 1
      BY <2>4, <3>2, FS_AddElement
    <3> QED
      BY <2>2, <2>3, <2>4, <3>1, <3>3
  <2>6. CASE ~(a = Alarm /\ x \in Contribution(Policy, a))
    <3>1. Count(actions'[a], x) = Count(actions[a], x)
      <4>1. a = Alarm => Count(actions[a], x) \in Nat /\ Count(actions'[a], x) = Count(actions[a], x) + 0
        BY <1>6, <2>6, ActionsAdded
      <4>2. a # Alarm => actions'[a] = actions[a]
        BY <1>6, <2>1, ActionsAdded
      <4> QED
        BY <4>1, <4>2
    <3>2. Givers(a, x)' = Givers(a, x)
      <4>1. \A p \in Policies : x \in Contribution(p, a) => (a \in processed'[p] <=> a \in processed[p])
        BY <1>6, <2>6, ActionsAdded
      <4>2. \A p : p \in Givers(a, x)' <=> p \in Policies /\ a \in processed'[p] /\ x \in Contribution(p, a)
        BY DEF Givers, Contribution, ByPath, InScope, DefaultsApply
      <4>3. \A p : p \in Givers(a, x) <=> p \in Policies /\ a \in processed[p] /\ x \in Contribution(p, a)
        BY DEF Givers
      <4> QED
        BY <4>1, <4>2, <4>3
    <3> QED
      BY <2>2, <3>1, <3>2
  <2> QED
    BY <2>5, <2>6
<1>7. CASE Leaves
  <2>1. Givers(a, x)' = Givers(a, x)
    <3>1. \A p \in Policies : x \in Contribution(p, a) => (a \in processed'[p] <=> a \in processed[p])
      BY <1>7 DEF Leaves
    <3>2. \A p : p \in Givers(a, x)' <=> p \in Policies /\ a \in processed'[p] /\ x \in Contribution(p, a)
      BY DEF Givers, Contribution, ByPath, InScope, DefaultsApply
    <3>3. \A p : p \in Givers(a, x) <=> p \in Policies /\ a \in processed[p] /\ x \in Contribution(p, a)
      BY DEF Givers
    <3> QED
      BY <3>1, <3>2, <3>3
  <2> QED
    BY <1>7, <2>1 DEF Leaves, AllCounted
<1> QED
  BY <1>4, <1>5, <1>6, <1>7, StepKinds

(* ActionInvariant holds at first, and every step keeps it.                *)
LEMMA ActionsAtFirst == AlarmInit => ActionInvariant
<1> SUFFICES ASSUME AlarmInit PROVE ActionInvariant
  OBVIOUS
<1>1. processed = [p \in Policies |-> {}] /\ phase = "open" /\ DOMAIN tree = {}
  BY DEF AlarmInit, CreateInit
<1> QED
  BY <1>1, TypesAtFirst DEF ActionInvariant, AllGiven, NobodyForgotten, AllCounted, Running

LEMMA ActionsStay ==
  ASSUME NoGlobalRules, ActionInvariant, [AlarmNext]_alarmVars
  PROVE  ActionInvariant'
BY TypesStay, GivenStays, NobodyIsForgotten, CountsStay DEF ActionInvariant

(* However often the app is synthesised, an alarm gets each action a       *)
(* policy has for it once from that policy, on top of what the user        *)
(* attached.  Of a RegExp with the global flag the hypothesis is needed:   *)
(* what it matches depends on what it matched before.                      *)
THEOREM ActionsComeOnce ==
  ASSUME NoGlobalRules
  PROVE  AlarmSpec => []ActionsOncePerPolicy
<1>1. ActionInvariant /\ [AlarmNext]_alarmVars => ActionInvariant'
  BY ActionsStay
<1>2. ActionInvariant => ActionsOncePerPolicy
  BY DEF ActionInvariant, AllCounted, ActionsOncePerPolicy, Givers, Owns
<1> QED
  BY ActionsAtFirst, <1>1, <1>2, PTL DEF AlarmSpec

(* skipIfAlreadyConfigured, whatever the order policies come in and        *)
(* whoever attached what, never leaves an alarm silent that a policy has   *)
(* an alarm action for; global RegExps, again, excepted.                   *)
THEOREM NobodyIsSilent ==
  ASSUME NoGlobalRules
  PROVE  AlarmSpec => []NobodyLeftSilent
<1>1. ActionInvariant /\ [AlarmNext]_alarmVars => ActionInvariant'
  BY ActionsStay
<1>2. ActionInvariant => NobodyLeftSilent
  <2> SUFFICES ASSUME ActionInvariant, phase = "done" PROVE NobodyLeftSilent
    BY DEF NobodyLeftSilent
  <2>1. agenda = <<>> /\ Running
    BY DEF ActionInvariant, AlarmTypes, Running
  <2> QED
    BY <2>1, NonePending DEF ActionInvariant, NobodyForgotten, NobodyLeftSilent, Speaks, Configured
<1> QED
  BY ActionsAtFirst, <1>1, <1>2, PTL DEF AlarmSpec

-----------------------------------------------------------------------------
(***************************************************************************)
(* The order of the visits.                                                *)
(***************************************************************************)
(* No policy sees an alarm twice in a pass.                                *)
LEMMA PoliciesOnce ==
  ASSUME installed \in Seq(Policies), IsInjective(installed), NEW a
  PROVE  IsInjective(PoliciesAt(a))
<1> DEFINE ofApp == {i \in DOMAIN installed : At[installed[i]] = "app"}
           ofStack == {i \in DOMAIN installed : At[installed[i]] # "app" /\ Reaches(installed[i], a)}
           c == Chosen(installed, ofApp)
           d == Chosen(installed, ofStack)
<1>1. /\ c \in Seq(Policies) /\ IsInjective(c)
      /\ \A k \in DOMAIN c : \E i \in ofApp : c[k] = installed[i]
  <2>1. ofApp \in SUBSET (DOMAIN installed)
    OBVIOUS
  <2> HIDE DEF ofApp
  <2> QED
    BY <2>1, ChosenElements, ChosenOnce
<1>2. /\ d \in Seq(Policies) /\ IsInjective(d)
      /\ \A k \in DOMAIN d : \E i \in ofStack : d[k] = installed[i]
  <2>1. ofStack \in SUBSET (DOMAIN installed)
    OBVIOUS
  <2> HIDE DEF ofStack
  <2> QED
    BY <2>1, ChosenElements, ChosenOnce
<1>3. PoliciesAt(a) = c \o d
  BY DEF PoliciesAt
<1>4. /\ \A i \in ofApp : At[installed[i]] = "app"
      /\ \A i \in ofStack : At[installed[i]] # "app"
  OBVIOUS
<1> HIDE DEF ofApp, ofStack, c, d
<1>5. \A k \in DOMAIN c, l \in DOMAIN d : c[k] # d[l]
  <2> TAKE k \in DOMAIN c, l \in DOMAIN d
  <2>1. At[c[k]] = "app"
    BY <1>1, <1>4
  <2>2. At[d[l]] # "app"
    BY <1>2, <1>4
  <2> QED
    BY <2>1, <2>2
<1>6. \A s, r \in Seq(Policies) :
        IsInjective(s) /\ IsInjective(r) /\ (\A k \in DOMAIN s, l \in DOMAIN r : s[k] # r[l])
          => IsInjective(s \o r)
  <2> TAKE s, r \in Seq(Policies)
  <2> HAVE IsInjective(s) /\ IsInjective(r) /\ (\A k \in DOMAIN s, l \in DOMAIN r : s[k] # r[l])
  <2> DEFINE j == s \o r
  <2>1. \A i \in DOMAIN j : \/ i \in DOMAIN s /\ j[i] = s[i]
                            \/ i - Len(s) \in DOMAIN r /\ j[i] = r[i - Len(s)]
    OBVIOUS
  <2>2. \A i, k \in DOMAIN j : i - Len(s) = k - Len(s) => i = k
    OBVIOUS
  <2> HIDE DEF j
  <2>3. ASSUME NEW i \in DOMAIN j, NEW k \in DOMAIN j, j[i] = j[k] PROVE i = k
    <3>1. CASE i \in DOMAIN s /\ j[i] = s[i]
      BY <2>1, <2>3, <3>1 DEF IsInjective
    <3>2. CASE i - Len(s) \in DOMAIN r /\ j[i] = r[i - Len(s)]
      <4>1. k - Len(s) \in DOMAIN r /\ j[k] = r[k - Len(s)]
        BY <2>1, <2>3, <3>2
      <4>2. i - Len(s) = k - Len(s)
        BY <2>3, <3>2, <4>1 DEF IsInjective
      <4> QED
        BY <2>2, <4>2
    <3> QED
      BY <2>1, <3>1, <3>2
  <2> QED
    BY <2>3 DEF IsInjective, j
<1> QED
  BY <1>1, <1>2, <1>3, <1>5, <1>6

\* The visits of an alarm come in the order of its policies.
Precede(v, w) ==
  v.alarm = w.alarm =>
    \A j, l \in DOMAIN PoliciesAt(v.alarm) :
      PoliciesAt(v.alarm)[j] = v.policy /\ PoliciesAt(v.alarm)[l] = w.policy => j < l
Left(a) == {j \in DOMAIN PoliciesAt(a) : Pending(a, PoliciesAt(a)[j])}

LEMMA WalkOrder ==
  ASSUME installed \in Seq(Policies), IsInjective(installed), NEW order \in TreeOrders
  PROVE  LET todo == Visits(Chosen(order, {i \in DOMAIN order : order[i] \in DOMAIN tree})) IN
         /\ \A i, k \in DOMAIN todo : i < k => Precede(todo[i], todo[k])
         /\ \A i \in DOMAIN todo : todo[i].policy \in ToSet(PoliciesAt(todo[i].alarm))
<1> DEFINE met == {i \in DOMAIN order : order[i] \in DOMAIN tree}
           walk == Chosen(order, met)
           At1(a) == [j \in DOMAIN PoliciesAt(a) |-> [alarm |-> a, policy |-> PoliciesAt(a)[j]]]
           ss == [i \in DOMAIN walk |-> At1(walk[i])]
           todo == Visits(walk)
           V == VisitsOf(ToSet(walk))
           R == {vw \in V \X V : Precede(vw[1], vw[2])}
<1>1. IsInjective(walk) /\ DOMAIN walk = 1..Len(walk) /\ Len(walk) \in Nat
  <2>1. met \in SUBSET (DOMAIN order) /\ order \in Seq(ToSet(order)) /\ IsInjective(order)
    BY PolicyAssumption
  <2> HIDE DEF met
  <2> QED
    BY <2>1, ChosenElements, ChosenOnce
<1> HIDE DEF met, walk
<1>2. \A a : PoliciesAt(a) \in Seq(Policies) /\ IsInjective(PoliciesAt(a))
  BY PoliciesReach, PoliciesOnce
<1>3. \A a \in ToSet(walk) :
        /\ At1(a) \in Seq(V) /\ DOMAIN At1(a) = DOMAIN PoliciesAt(a)
        /\ \A j \in DOMAIN At1(a) : /\ At1(a)[j] \in V
                                    /\ At1(a)[j].alarm = a /\ At1(a)[j].policy = PoliciesAt(a)[j]
  <2> TAKE a \in ToSet(walk)
  <2> DEFINE ps == PoliciesAt(a)
             vs == [j \in DOMAIN ps |-> [alarm |-> a, policy |-> ps[j]]]
  <2>1. ps \in Seq(Policies)
    BY <1>2
  <2> HIDE DEF ps
  <2>2. DOMAIN ps = 1..Len(ps) /\ Len(ps) \in Nat /\ \A j \in 1..Len(ps) : ps[j] \in Policies
    BY <2>1, SequenceElements
  <2>3. /\ vs \in Seq(V) /\ DOMAIN vs = DOMAIN ps
        /\ \A j \in DOMAIN vs : vs[j] \in V /\ vs[j].alarm = a /\ vs[j].policy = ps[j]
    BY <2>2 DEF VisitsOf
  <2>4. At1(a) = vs
    BY DEF ps
  <2> HIDE DEF vs, At1, V
  <2> QED
    BY <2>3, <2>4 DEF ps
<1>4. todo = FlattenSeq(ss)
  BY DEF Visits
<1> HIDE DEF At1
<1>5. \A i \in DOMAIN walk : walk[i] \in ToSet(walk)
  BY DEF ToSet
<1>6. ss \in Seq(Seq(V)) /\ DOMAIN ss = DOMAIN walk /\ \A k \in DOMAIN walk : ss[k] = At1(walk[k])
  <2> HIDE DEF V
  <2>1. \A k \in 1..Len(walk) : At1(walk[k]) \in Seq(V)
    BY <1>1, <1>3, <1>5
  <2> QED
    BY <1>1, <2>1
<1> HIDE DEF ss, todo, V
<1>7. /\ todo \in Seq(V)
      /\ \A i \in DOMAIN todo : \E j \in DOMAIN ss : \E k \in DOMAIN ss[j] : ss[j][k] = todo[i]
  BY <1>4, <1>6, FlattenElements
<1>8. ASSUME NEW j \in DOMAIN ss, NEW k \in DOMAIN ss[j], NEW l \in DOMAIN ss[j], k < l
      PROVE  <<ss[j][k], ss[j][l]>> \in R
  <2> DEFINE a == walk[j]
  <2>1. ss[j] = At1(a) /\ a \in ToSet(walk)
    BY <1>5, <1>6
  <2> HIDE DEF a
  <2>2. /\ ss[j][k] \in V /\ ss[j][k].alarm = a /\ ss[j][k].policy = PoliciesAt(a)[k]
        /\ ss[j][l] \in V /\ ss[j][l].alarm = a /\ ss[j][l].policy = PoliciesAt(a)[l]
        /\ k \in DOMAIN PoliciesAt(a) /\ l \in DOMAIN PoliciesAt(a)
    BY <1>3, <2>1
  <2>3. \A x, y \in DOMAIN PoliciesAt(a) :
          PoliciesAt(a)[x] = PoliciesAt(a)[k] /\ PoliciesAt(a)[y] = PoliciesAt(a)[l] => x < y
    BY <1>2, <1>8, <2>2 DEF IsInjective
  <2>4. Precede(ss[j][k], ss[j][l])
    BY <2>2, <2>3 DEF Precede
  <2> QED
    BY <2>2, <2>4
<1>9. ASSUME NEW i \in DOMAIN ss, NEW j \in DOMAIN ss, i < j,
             NEW k \in DOMAIN ss[i], NEW l \in DOMAIN ss[j]
      PROVE  <<ss[i][k], ss[j][l]>> \in R
  <2>1. walk[i] # walk[j]
    BY <1>1, <1>6, <1>9 DEF IsInjective
  <2>2. ss[i][k] \in V /\ ss[i][k].alarm = walk[i] /\ ss[j][l] \in V /\ ss[j][l].alarm = walk[j]
    BY <1>3, <1>5, <1>6
  <2>3. Precede(ss[i][k], ss[j][l])
    BY <2>1, <2>2 DEF Precede
  <2> QED
    BY <2>2, <2>3
<1>10. \A i, k \in DOMAIN todo : i < k => <<todo[i], todo[k]>> \in R
  <2> HIDE DEF R
  <2> QED
    BY <1>4, <1>6, <1>8, <1>9, FlattenRelated
<1>11. \A i \in DOMAIN todo : todo[i].policy \in ToSet(PoliciesAt(todo[i].alarm))
  <2> TAKE i \in DOMAIN todo
  <2>1. PICK j \in DOMAIN ss : \E k \in DOMAIN ss[j] : ss[j][k] = todo[i]
    BY <1>7
  <2>2. PICK k \in DOMAIN ss[j] : ss[j][k] = todo[i]
    BY <2>1
  <2> DEFINE a == walk[j]
  <2>3. ss[j] = At1(a) /\ a \in ToSet(walk)
    BY <1>5, <1>6
  <2> HIDE DEF a
  <2>4. todo[i].alarm = a /\ todo[i].policy = PoliciesAt(a)[k] /\ k \in DOMAIN PoliciesAt(a)
    BY <1>3, <2>2, <2>3
  <2> QED
    BY <2>4 DEF ToSet
<1> QED
  BY <1>10, <1>11 DEF todo, walk, met

-----------------------------------------------------------------------------
(***************************************************************************)
(* Names.                                                                  *)
(***************************************************************************)
NameLayers == UNION {LayersOf(p) : p \in Policies}
Definitions == UNION {ToSet(c.defs) : c \in AlarmCalls}
Segment ==
  {c.scope : c \in AlarmCalls}
    \cup (UNION {ToSet(Slug[key]) : key \in DOMAIN Slug})
    \cup (UNION {ToSet(d.name) : d \in Definitions})
    \cup (UNION {ToSet(UserAlarms[a]) : a \in DOMAIN UserAlarms})
    \cup (UNION {ToSet(r.prefix) \cup ToSet(r.suffix) \cup ToSet(r.scratch) : r \in NameLayers})
Names == Seq(Segment)
Decorates(r) == r.prefix \in Names /\ r.suffix \in Names /\ (r.scratch = NoName \/ r.scratch \in Names)

(* What decorates a name is a name.                                        *)
LEMMA LayersDecorate ==
  ASSUME NEW p \in Policies, NEW r \in LayersOf(p)
  PROVE  Decorates(r)
<1>1. /\ IsName(r.prefix) /\ IsName(r.suffix) /\ (r.scratch = NoName \/ IsName(r.scratch))
  BY PolicyAssumption DEF LayersOf
<1>2. ToSet(r.prefix) \subseteq Segment /\ ToSet(r.suffix) \subseteq Segment /\ ToSet(r.scratch) \subseteq Segment
  BY DEF Segment, NameLayers
<1>3. \A n : IsName(n) /\ ToSet(n) \subseteq Segment => n \in Names
  BY SequenceIn DEF IsName, Names
<1> QED
  BY <1>1, <1>2, <1>3 DEF Decorates

(* The names layer by layer exist, so that Decorated is the last of them.  *)
Stages(f, name, ls) ==
  /\ f[0] = name /\ \A i \in 1..Len(ls) : f[i] = Decorate(f[i - 1], ls[i])
  /\ Decorated(name, ls) = f[Len(ls)]

LEMMA DecoratedDefined ==
  ASSUME NEW name, NEW X, NEW ls \in Seq(X)
  PROVE  \E f : Stages(f, name, ls)
<1> DEFINE n == Len(ls)
           After(f, m) == f = [i \in 0..m |-> IF i = 0 THEN name ELSE Decorate(f[i - 1], ls[i])]
           Bad == {m \in 0..n : ~\E f : After(f, m)}
<1>0. n \in Nat
  OBVIOUS
<1> HIDE DEF n
<1>1. Bad = {}
  <2> SUFFICES ASSUME Bad # {} PROVE FALSE
    OBVIOUS
  <2> DEFINE m == Min(Bad)
  <2>1. Bad \in SUBSET Nat
    BY <1>0
  <2> HIDE DEF Bad
  <2>2. m \in Bad /\ \A k \in Bad : m <= k
    BY <2>1, MinIsLeast
  <2> HIDE DEF m
  <2>3. m \in 0..n /\ ~\E f : After(f, m)
    BY <2>2 DEF Bad
  <2>4. CASE m = 0
    <3> DEFINE f == [i \in 0..m |-> name]
    <3>1. f = [i \in 0..m |-> IF i = 0 THEN name ELSE Decorate(f[i - 1], ls[i])]
      BY <2>4
    <3> HIDE DEF f
    <3> QED
      BY <2>3, <3>1
  <2>5. CASE m # 0
    <3>1. m - 1 \in 0..n /\ m - 1 \in Nat /\ ~(m <= m - 1)
      BY <1>0, <2>3, <2>5
    <3>2. PICK f : After(f, m - 1)
      BY <2>2, <3>1 DEF Bad
    <3> DEFINE g == [i \in 0..m |-> IF i = m THEN Decorate(f[m - 1], ls[m]) ELSE f[i]]
    <3>3. g[m] = Decorate(f[m - 1], ls[m]) /\ \A i \in 0..m : i # m => i \in 0..(m - 1) /\ g[i] = f[i]
      BY <1>0, <2>3
    <3>4. \A i \in 0..(m - 1) : f[i] = IF i = 0 THEN name ELSE Decorate(f[i - 1], ls[i])
      BY <3>2
    <3>5. \A i \in 0..m : i # 0 => i - 1 \in 0..m /\ i - 1 # m
      BY <2>3
    <3>6. g = [i \in 0..m |-> g[i]]
      OBVIOUS
    <3> HIDE DEF g
    <3>7. \A i \in 0..m : g[i] = IF i = 0 THEN name ELSE Decorate(g[i - 1], ls[i])
      <4> TAKE i \in 0..m
      <4>1. CASE i = m
        <5>1. g[m - 1] = f[m - 1]
          BY <2>5, <3>3, <3>5, <4>1
        <5> QED
          BY <2>5, <3>3, <4>1, <5>1
      <4>2. CASE i # m
        <5>1. i # 0 => g[i - 1] = f[i - 1]
          BY <3>3, <3>5
        <5> QED
          BY <3>3, <3>4, <4>2, <5>1
      <4> QED
        BY <4>1, <4>2
    <3>8. g = [i \in 0..m |-> IF i = 0 THEN name ELSE Decorate(g[i - 1], ls[i])]
      BY <3>6, <3>7
    <3> QED
      BY <2>3, <3>8
  <2> QED
    BY <2>4, <2>5
<1>2. n \in 0..n /\ n \notin Bad
  <2> HIDE DEF Bad
  <2> QED
    BY <1>0, <1>1
<1>3. \E f : f = [i \in 0..n |-> IF i = 0 THEN name ELSE Decorate(f[i - 1], ls[i])]
  BY <1>2
<1>4. \E f : /\ f = [i \in 0..n |-> IF i = 0 THEN name ELSE Decorate(f[i - 1], ls[i])]
             /\ Decorated(name, ls) = f[n]
  BY <1>3 DEF Decorated, n
<1>5. PICK f : /\ f = [i \in 0..n |-> IF i = 0 THEN name ELSE Decorate(f[i - 1], ls[i])]
               /\ Decorated(name, ls) = f[n]
  BY <1>4
<1>6. f[0] = name /\ \A i \in 1..n : f[i] = Decorate(f[i - 1], ls[i])
  <2>1. 0 \in 0..n /\ \A i \in 1..n : i \in 0..n /\ i # 0
    BY <1>0
  <2> QED
    BY <1>5, <2>1
<1> QED
  BY <1>5, <1>6 DEF n, Stages

(* Decorating keeps names names; and layers without a transform that leave *)
(* one name as it was leave every name as it is: their affixes are empty.  *)
LEMMA DecoratedNames ==
  ASSUME NEW name \in Names, NEW X, NEW ls \in Seq(X), \A i \in DOMAIN ls : Decorates(ls[i])
  PROVE  /\ Decorated(name, ls) \in Names
         /\ (\A i \in DOMAIN ls : ls[i].scratch = NoName) /\ Decorated(name, ls) = name
              => \A m \in Names : Decorated(m, ls) = m
<1>a. ASSUME NEW m PROVE \E f : Stages(f, m, ls)
  BY DecoratedDefined
<1> DEFINE n == Len(ls)
<1>0. n \in Nat /\ DOMAIN ls = 1..n
  OBVIOUS
<1>1. \A m : \E f : /\ Decorated(m, ls) = f[n]
                    /\ f[0] = m /\ \A i \in 1..n : f[i] = Decorate(f[i - 1], ls[i])
  <2> TAKE m
  <2>1. PICK f : Stages(f, m, ls)
    BY <1>a
  <2> QED
    BY <2>1 DEF Stages
<1> HIDE DEF n
<1>2. PICK f : /\ Decorated(name, ls) = f[n]
               /\ f[0] = name /\ \A i \in 1..n : f[i] = Decorate(f[i - 1], ls[i])
  BY <1>1
<1>3. \A w \in Names : Len(w) \in Nat
  BY DEF Names
<1>4. ASSUME NEW w \in Names, NEW u \in Names, NEW v \in Names
      PROVE  /\ u \o w \o v \in Names /\ Len(u \o w \o v) = Len(u) + Len(w) + Len(v)
             /\ Len(u) = 0 => u = <<>>
             /\ Len(v) = 0 => v = <<>>
             /\ <<>> \o w \o <<>> = w
  BY DEF Names
<1> DEFINE Bare1(i) == ls[i].prefix = <<>> /\ ls[i].suffix = <<>>
           Plain1 == \A i \in 1..n : ls[i].scratch = NoName
           Good(k) == /\ f[k] \in Names
                      /\ Plain1 => /\ Len(f[k]) >= Len(name)
                                   /\ \A i \in 1..k : ~Bare1(i) => Len(f[k]) > Len(name)
           Bad == {k \in 0..n : ~Good(k)}
<1>5. Bad = {}
  <2> SUFFICES ASSUME Bad # {} PROVE FALSE
    OBVIOUS
  <2> DEFINE k == Min(Bad)
  <2>1. Bad \in SUBSET Nat
    BY <1>0
  <2> HIDE DEF Bad
  <2>2. k \in Bad /\ \A j \in Bad : k <= j
    BY <2>1, MinIsLeast
  <2> HIDE DEF k
  <2>3. k \in 0..n /\ ~Good(k)
    BY <2>2 DEF Bad
  <2>4. CASE k = 0
    <3>1. f[k] = name /\ Len(name) \in Nat /\ 1..k = {}
      BY <1>2, <1>3, <2>4
    <3> QED
      BY <2>3, <3>1
  <2>5. CASE k # 0
    <3>1. k \in 1..n /\ k - 1 \in 0..n /\ k - 1 \in Nat /\ ~(k <= k - 1) /\ 1..k = 1..(k - 1) \cup {k}
      BY <1>0, <2>3, <2>5
    <3>2. Good(k - 1)
      BY <2>2, <3>1 DEF Bad
    <3> DEFINE w == f[k - 1]
               r == ls[k]
    <3>3. f[k] = Decorate(w, r) /\ Decorates(r) /\ w \in Names
      BY <1>0, <1>2, <3>1, <3>2
    <3>4. Plain1 => r.scratch = NoName
      BY <3>1
    <3>5. /\ Plain1 => Len(w) >= Len(name) /\ \A i \in 1..(k - 1) : ~Bare1(i) => Len(w) > Len(name)
          /\ Bare1(k) <=> r.prefix = <<>> /\ r.suffix = <<>>
      BY <3>2
    <3> HIDE DEF w, r, Plain1, Bare1
    <3>6. f[k] \in Names
      <4>1. CASE r.scratch = NoName
        BY <1>4, <3>3, <4>1 DEF Decorate, Decorates
      <4>2. CASE r.scratch # NoName
        BY <3>3, <4>2 DEF Decorate, Decorates
      <4> QED
        BY <4>1, <4>2
    <3>7. ASSUME Plain1
          PROVE  Len(f[k]) >= Len(name) /\ \A i \in 1..k : ~Bare1(i) => Len(f[k]) > Len(name)
      <4>1. /\ Len(f[k]) = Len(r.prefix) + Len(w) + Len(r.suffix)
            /\ Len(r.prefix) = 0 => r.prefix = <<>>
            /\ Len(r.suffix) = 0 => r.suffix = <<>>
        <5>1. f[k] = r.prefix \o w \o r.suffix /\ r.prefix \in Names /\ r.suffix \in Names
          BY <3>3, <3>4, <3>7 DEF Decorate, Decorates
        <5> QED
          BY <1>4, <3>3, <5>1
      <4>2. /\ Len(r.prefix) \in Nat /\ Len(w) \in Nat /\ Len(r.suffix) \in Nat /\ Len(name) \in Nat
        BY <1>3, <3>3 DEF Decorates
      <4>4. Len(f[k]) \in Nat
        BY <1>3, <3>6
      <4>5. /\ Len(f[k]) >= Len(name) /\ (Len(w) > Len(name) => Len(f[k]) > Len(name))
            /\ Len(r.prefix) # 0 \/ Len(r.suffix) # 0 => Len(f[k]) > Len(name)
        <5> DEFINE x == Len(r.prefix)
                   y == Len(w)
                   v == Len(r.suffix)
                   z == Len(f[k])
                   l == Len(name)
        <5>1. x \in Nat /\ y \in Nat /\ v \in Nat /\ z \in Nat /\ l \in Nat
          BY <4>2, <4>4
        <5>2. z = x + y + v /\ y >= l
          BY <3>5, <3>7, <4>1
        <5> HIDE DEF x, y, v, z, l
        <5>3. z >= l /\ (y > l => z > l) /\ (x # 0 \/ v # 0 => z > l)
          BY <5>1, <5>2
        <5> QED
          BY <5>3 DEF x, y, v, z, l
      <4>6. ~Bare1(k) => Len(r.prefix) # 0 \/ Len(r.suffix) # 0
        BY <3>5, <4>1
      <4> QED
        BY <3>1, <3>5, <3>7, <4>5, <4>6
    <3> QED
      BY <2>3, <3>6, <3>7
  <2> QED
    BY <2>4, <2>5
<1>6. Good(n)
  <2>1. n \in 0..n /\ n \notin Bad
    <3> HIDE DEF Bad
    <3> QED
      BY <1>0, <1>5
  <2> HIDE DEF Good
  <2> QED
    BY <2>1
<1>7. ASSUME Plain1, Decorated(name, ls) = name, NEW m \in Names
      PROVE  Decorated(m, ls) = m
  <2>1. \A i \in 1..n : Bare1(i)
    <3>1. Len(name) \in Nat /\ ~(Len(name) > Len(name))
      BY <1>3
    <3>2. \A i \in 1..n : ~Bare1(i) => Len(f[n]) > Len(name)
      BY <1>6, <1>7
    <3> HIDE DEF Bare1, Good, Bad
    <3> QED
      BY <1>2, <1>7, <3>1, <3>2
  <2>2. PICK h : /\ Decorated(m, ls) = h[n]
                 /\ h[0] = m /\ \A i \in 1..n : h[i] = Decorate(h[i - 1], ls[i])
    BY <1>1
  <2> DEFINE Odd == {k \in 0..n : h[k] # m}
  <2>3. Odd = {}
    <3> SUFFICES ASSUME Odd # {} PROVE FALSE
      OBVIOUS
    <3> DEFINE k == Min(Odd)
    <3>1. Odd \in SUBSET Nat
      BY <1>0
    <3> HIDE DEF Odd
    <3>2. k \in Odd /\ \A j \in Odd : k <= j
      BY <3>1, MinIsLeast
    <3> HIDE DEF k
    <3>3. k \in 0..n /\ h[k] # m /\ k # 0
      BY <2>2, <3>2 DEF Odd
    <3>4. k \in 1..n /\ k - 1 \in 0..n /\ ~(k <= k - 1)
      BY <1>0, <3>3
    <3>5. h[k - 1] = m
      BY <3>2, <3>4 DEF Odd
    <3>6. Decorate(m, ls[k]) = <<>> \o m \o <<>>
      BY <1>7, <2>1, <3>4 DEF Decorate
    <3> QED
      BY <1>4, <2>2, <3>3, <3>4, <3>5, <3>6
  <2>4. n \in 0..n /\ n \notin Odd
    <3> HIDE DEF Odd
    <3> QED
      BY <1>0, <2>3
  <2> QED
    BY <2>2, <2>4
<1>8. f[n] \in Names
  BY <1>6
<1> HIDE DEF Good, Bad
<1> QED
  BY <1>0, <1>2, <1>7, <1>8

(* What the name policies of a list make of a name, policy by policy.      *)
LEMMA NamesDefined ==
  ASSUME NEW name, NEW X, NEW ps \in Seq(X), NEW a
  PROVE  LET f == NamesAfter(name, ps, a) IN
         /\ f[0] = name
         /\ \A i \in 1..Len(ps) :
              f[i] = IF Kind[ps[i]] = "names" THEN Decorated(f[i - 1], LayersFor(ps[i], a))
                                              ELSE f[i - 1]
<1> DEFINE n == Len(ps)
           Next1(w, i) == IF Kind[ps[i]] = "names" THEN Decorated(w, LayersFor(ps[i], a)) ELSE w
           After(f, m) == f = [i \in 0..m |-> IF i = 0 THEN name ELSE Next1(f[i - 1], i)]
           Bad == {m \in 0..n : ~\E f : After(f, m)}
<1>0. n \in Nat
  OBVIOUS
<1> HIDE DEF n
<1>1. Bad = {}
  <2> SUFFICES ASSUME Bad # {} PROVE FALSE
    OBVIOUS
  <2> DEFINE m == Min(Bad)
  <2>1. Bad \in SUBSET Nat
    BY <1>0
  <2> HIDE DEF Bad
  <2>2. m \in Bad /\ \A k \in Bad : m <= k
    BY <2>1, MinIsLeast
  <2> HIDE DEF m
  <2>3. m \in 0..n /\ ~\E f : After(f, m)
    BY <2>2 DEF Bad
  <2>4. CASE m = 0
    <3> DEFINE f == [i \in 0..m |-> name]
    <3>1. f = [i \in 0..m |-> IF i = 0 THEN name ELSE Next1(f[i - 1], i)]
      BY <2>4
    <3> HIDE DEF f
    <3> QED
      BY <2>3, <3>1
  <2>5. CASE m # 0
    <3>1. m - 1 \in 0..n /\ m - 1 \in Nat /\ ~(m <= m - 1)
      BY <1>0, <2>3, <2>5
    <3>2. PICK f : After(f, m - 1)
      BY <2>2, <3>1 DEF Bad
    <3> DEFINE g == [i \in 0..m |-> IF i = m THEN Next1(f[m - 1], m) ELSE f[i]]
    <3>3. g[m] = Next1(f[m - 1], m) /\ \A i \in 0..m : i # m => i \in 0..(m - 1) /\ g[i] = f[i]
      BY <1>0, <2>3
    <3>4. \A i \in 0..(m - 1) : f[i] = IF i = 0 THEN name ELSE Next1(f[i - 1], i)
      BY <3>2
    <3>5. \A i \in 0..m : i # 0 => i - 1 \in 0..m /\ i - 1 # m
      BY <2>3
    <3>6. g = [i \in 0..m |-> g[i]]
      OBVIOUS
    <3> HIDE DEF g
    <3>7. \A i \in 0..m : g[i] = IF i = 0 THEN name ELSE Next1(g[i - 1], i)
      <4> TAKE i \in 0..m
      <4>1. CASE i = m
        <5>1. g[m - 1] = f[m - 1]
          BY <2>5, <3>3, <3>5, <4>1
        <5> QED
          BY <2>5, <3>3, <4>1, <5>1
      <4>2. CASE i # m
        <5>1. i # 0 => g[i - 1] = f[i - 1]
          BY <3>3, <3>5
        <5> QED
          BY <3>3, <3>4, <4>2, <5>1
      <4> QED
        BY <4>1, <4>2
    <3>8. g = [i \in 0..m |-> IF i = 0 THEN name ELSE Next1(g[i - 1], i)]
      BY <3>6, <3>7
    <3> QED
      BY <2>3, <3>8
  <2> QED
    BY <2>4, <2>5
<1>2. n \in 0..n /\ n \notin Bad
  <2> HIDE DEF Bad
  <2> QED
    BY <1>0, <1>1
<1>3. \E f : f = [i \in 0..n |-> IF i = 0 THEN name ELSE Next1(f[i - 1], i)]
  BY <1>2
<1> DEFINE F == NamesAfter(name, ps, a)
<1>4. F = [i \in 0..n |-> IF i = 0 THEN name ELSE Next1(F[i - 1], i)]
  BY <1>3 DEF NamesAfter, n
<1> HIDE DEF F
<1>5. F[0] = name /\ \A i \in 1..n : F[i] = Next1(F[i - 1], i)
  <2>1. 0 \in 0..n /\ \A i \in 1..n : i \in 0..n /\ i # 0
    BY <1>0
  <2> QED
    BY <1>4, <2>1
<1> QED
  BY <1>5 DEF n, F

(* Without global RegExps the layers of a visit depend on the path alone.  *)
LEMMA LayersByPath ==
  ASSUME NEW p \in Policies, NEW a
  PROVE  /\ LayersFor(p, a) \in Seq(LayersOf(p))
         /\ \A i \in DOMAIN LayersFor(p, a) : Decorates(LayersFor(p, a)[i])
         /\ NoGlobalRules => \A name : Renamed(name, p, Hits(p, a)) = Decorated(name, LayersFor(p, a))
<1>1. Replaced(p, ByPath(p, a)) <=> ~DefaultsApply(p, a)
  BY DEF Replaced, DefaultsApply
<1>2. LayersFor(p, a) = Layers(p, ByPath(p, a))
  BY <1>1 DEF LayersFor, Layers, Matched
<1>3. LayersFor(p, a) \in Seq(LayersOf(p))
  <2>1. ByPath(p, a) \in SUBSET (DOMAIN Rules[p])
    BY DEF ByPath
  <2> QED
    BY <1>2, <2>1, LayersHold
<1>4. \A i \in DOMAIN LayersFor(p, a) : LayersFor(p, a)[i] \in LayersOf(p)
  BY <1>3, SequenceElements
<1>5. NoGlobalRules => Hits(p, a) = ByPath(p, a)
  BY DEF NoGlobalRules, Hits, ByPath, Finds
<1> QED
  BY <1>2, <1>3, <1>4, <1>5, LayersDecorate DEF Renamed

-----------------------------------------------------------------------------
(***************************************************************************)
(* The names of the tree.                                                  *)
(***************************************************************************)
\* An alarm has a name or none, and until the first synth the one it was
\* given; no policy is installed twice.
NameTypes ==
  /\ call \in AlarmCalls /\ next \in Nat \ {0}
  /\ \A a \in DOMAIN tree : tree[a] \in Names \cup {NoName}
  /\ IsInjective(installed)
  /\ pass \in Nat
  /\ phase = "open" =>
       pass = 0 /\ DOMAIN given = DOMAIN tree /\ \A a \in DOMAIN tree : given[a] = tree[a]
  /\ phase # "open" => pass > 0

(* createAlarms() gives an alarm a name, verbatim or by defaultAlarmName.  *)
LEMMA NamesOfCalls ==
  ASSUME call \in AlarmCalls, next \in Nat \ {0}, next <= Len(call.defs)
  PROVE  NameOf(Def) \in Names
<1>1. call.defs \in Seq(ToSet(call.defs))
  BY AlarmCallAssumption
<1>2. next \in DOMAIN call.defs
  <2> DEFINE defs == call.defs
  <2>1. DOMAIN defs = 1..Len(defs) /\ Len(defs) \in Nat
    BY <1>1, SequenceElements
  <2> QED
    BY <2>1
<1>3. /\ Def.name = NoName \/ IsName(Def.name)
      /\ call.id \in DOMAIN Slug /\ Def.key \in DOMAIN Slug
  BY <1>2, AlarmCallAssumption DEF Def
<1>4. Def \in Definitions
  BY <1>2 DEF Definitions, Def, ToSet
<1>5. \A n : IsName(n) /\ ToSet(n) \subseteq Segment => n \in Names
  BY SequenceIn DEF IsName, Names
<1>6. CASE Def.name # NoName
  <2>1. ToSet(Def.name) \subseteq Segment
    BY <1>4 DEF Segment
  <2> QED
    BY <1>3, <1>5, <1>6, <2>1 DEF NameOf
<1>7. CASE Def.name = NoName
  <2>1. \A key \in DOMAIN Slug : Slug[key] \in Names
    <3>1. \A key \in DOMAIN Slug : ToSet(Slug[key]) \subseteq Segment
      BY DEF Segment
    <3> QED
      BY <1>5, <3>1, AlarmCallAssumption
  <2>2. <<call.scope>> \in Names
    <3>1. call.scope \in Segment
      BY DEF Segment
    <3> QED
      BY <3>1, OneElement DEF Names
  <2>3. \A u, v, w \in Names : u \o v \o w \in Names
    BY DEF Names
  <2> QED
    BY <1>3, <1>7, <2>1, <2>2, <2>3 DEF NameOf
<1> QED
  BY <1>6, <1>7

(* A program installs a policy once.                                       *)
LEMMA InstalledOnce ==
  ASSUME NEW p \in Policies, Install(p), installed \in Seq(Policies)
  PROVE  IsInjective(installed')
<1> DEFINE s == Append(installed, p)
<1>1. PICK program \in Programs : IsPrefix(s, program)
  BY DEF Install
<1>2. program \in Seq(ToSet(program)) /\ IsInjective(program)
  BY PolicyAssumption
<1>3. DOMAIN s = 1..Len(s) /\ Len(s) \in Nat
  OBVIOUS
<1> HIDE DEF s
<1>4. Len(s) <= Len(program) /\ SubSeq(s, 1, Len(s)) = SubSeq(program, 1, Len(s))
  BY <1>1 DEF IsPrefix
<1>5. \A i \in 1..Len(s) : s[i] = program[i] /\ i \in DOMAIN program
  <2> TAKE i \in 1..Len(s)
  <2>1. SubSeq(s, 1, Len(s))[i] = s[i]
    BY <1>3
  <2>2. SubSeq(program, 1, Len(s))[i] = program[i] /\ i \in DOMAIN program
    BY <1>2, <1>3, <1>4
  <2> QED
    BY <1>4, <2>1, <2>2
<1>6. IsInjective(s)
  BY <1>2, <1>3, <1>5 DEF IsInjective
<1> QED
  BY <1>6 DEF Install, s

\* A visit that lets the pass go on, and what it means for names: only
\* alarmNamePolicy changes one, or marks an alarm for a policy of its kind.
NamedVisit ==
  /\ phase = "synth" /\ phase' = phase
  /\ agenda # <<>> /\ agenda' = Tail(agenda)
  /\ UNCHANGED <<call, next, installed, given, pass>>
  /\ DOMAIN tree' = DOMAIN tree
  /\ \A a \in DOMAIN tree \ {Alarm} : tree'[a] = tree[a]
  /\ \A p \in Policies : \A a :
       Kind[p] = "names" /\ (p # Policy \/ a # Alarm) => (a \in processed'[p] <=> a \in processed[p])
  /\ IF Kind[Policy] # "names" THEN tree'[Alarm] = tree[Alarm]
     ELSE \/ /\ Nameless(Policy, Alarm) /\ tree'[Alarm] = tree[Alarm]
             /\ Alarm \in processed'[Policy] <=> Alarm \in processed[Policy]
          \/ /\ ~Nameless(Policy, Alarm) /\ tree'[Alarm] = NewName
             /\ Alarm \in processed'[Policy] \/ (NewName = tree[Alarm] /\ Alarm \notin processed'[Policy])

LEMMA VisitsAndNames ==
  ASSUME AlarmTypes, VisitActions \/ VisitPassesOver \/ VisitKeepsName \/ VisitRenames \/ VisitSanitizes
  PROVE  NamedVisit
<1>1. /\ phase = "synth" /\ phase' = phase
      /\ agenda # <<>> /\ agenda' = Tail(agenda)
      /\ UNCHANGED <<call, next, installed, given, pass>>
  BY DEF VisitActions, VisitPassesOver, VisitKeepsName, VisitRenames, VisitSanitizes,
         Visiting, NextVisit, createVars
<1> DEFINE a == Alarm
           p == Policy
           new == NewName
<1>2. a \in DOMAIN tree /\ p \in Policies
  BY <1>1, VisitFrame
<1>3. CASE VisitPassesOver \/ VisitSanitizes \/ VisitKeepsName
  <2>1. tree' = tree /\ processed' = processed
    BY <1>3 DEF VisitPassesOver, VisitSanitizes, VisitKeepsName, createVars
  <2>2. \/ Kind[p] # "names"
        \/ Nameless(p, a)
        \/ ~Nameless(p, a) /\ tree[a] = new
    BY <1>3 DEF VisitPassesOver, VisitSanitizes, VisitKeepsName, Visiting, Policy
  <2>3. ~Nameless(p, a) => a \notin processed[p]
    BY DEF Nameless, Seen
  <2>4. \A q, b : b \in processed'[q] <=> b \in processed[q]
    BY <2>1
  <2> QED
    BY <1>1, <2>1, <2>2, <2>3, <2>4 DEF NamedVisit
<1>4. CASE VisitActions
  <2>1. tree' = tree /\ Kind[p] = "actions" /\ processed' = [processed EXCEPT ![p] = @ \cup {a}]
    BY <1>4 DEF VisitActions, Visiting, Policy, createVars
  <2>2. Kind[p] # "names"
    BY <2>1
  <2>3. \A q \in Policies : q # p => processed'[q] = processed[q]
    <3> HIDE DEF p, a
    <3> QED
      BY <2>1 DEF AlarmTypes
  <2>4. \A q \in Policies : \A b : Kind[q] = "names" => (b \in processed'[q] <=> b \in processed[q])
    BY <2>2, <2>3
  <2> QED
    BY <1>1, <2>1, <2>2, <2>4 DEF NamedVisit
<1>5. CASE VisitRenames
  <2>1. /\ tree' = [tree EXCEPT ![a] = new] /\ Kind[p] = "names" /\ ~Nameless(p, a)
        /\ processed' = [processed EXCEPT ![p] = @ \cup {a}]
    BY <1>5 DEF VisitRenames, Visiting, Policy
  <2>2. /\ DOMAIN tree' = DOMAIN tree /\ tree'[a] = new
        /\ \A b \in DOMAIN tree \ {a} : tree'[b] = tree[b]
    <3> HIDE DEF a, new
    <3> QED
      BY <1>2, <2>1
  <2>3. \A q \in Policies : processed'[q] = IF q = p THEN processed[q] \cup {a} ELSE processed[q]
    <3> HIDE DEF p, a
    <3> QED
      BY <2>1 DEF AlarmTypes
  <2>4. \A q \in Policies : \A b : q # p \/ b # a => (b \in processed'[q] <=> b \in processed[q])
    BY <2>3
  <2>5. a \in processed'[p]
    BY <1>2, <2>3
  <2> QED
    BY <1>1, <2>1, <2>2, <2>4, <2>5 DEF NamedVisit
<1> QED
  BY <1>3, <1>4, <1>5

(* A visit renames to a name.                                              *)
LEMMA NewNames ==
  ASSUME NEW p \in Policies, NEW a, NEW name \in Names
  PROVE  Renamed(name, p, Hits(p, a)) \in Names
<1> DEFINE ls == Layers(p, Hits(p, a))
<1>1. Hits(p, a) \in SUBSET (DOMAIN Rules[p])
  BY DEF Hits
<1>2. ls \in Seq(LayersOf(p))
  BY <1>1, LayersHold
<1>3. Renamed(name, p, Hits(p, a)) = Decorated(name, ls)
  BY DEF Renamed
<1> HIDE DEF ls
<1>4. \A i \in DOMAIN ls : Decorates(ls[i])
  <2>1. \A i \in DOMAIN ls : ls[i] \in LayersOf(p)
    BY <1>2, SequenceElements
  <2> QED
    BY <2>1, LayersDecorate
<1> QED
  BY <1>2, <1>3, <1>4, DecoratedNames

LEMMA NameTypesStay ==
  ASSUME AlarmTypes, NameTypes, [AlarmNext]_alarmVars
  PROVE  NameTypes'
<1>1. ASSUME phase = "open", phase' = phase, pass' = pass, installed' = installed,
             call' \in AlarmCalls, next' \in Nat \ {0},
             NEW new, Appears(new), DOMAIN tree' = DOMAIN tree \cup new,
             \A a \in DOMAIN tree : tree'[a] = tree[a],
             \A a \in new : tree'[a] \in Names \cup {NoName}
      PROVE  NameTypes'
  <2>1. given' = [a \in DOMAIN given \cup new |-> IF a \in DOMAIN given THEN given[a] ELSE tree'[a]]
    BY <1>1 DEF Appears
  <2>2. DOMAIN given' = DOMAIN tree' /\ \A a \in DOMAIN tree' : given'[a] = tree'[a]
    BY <1>1, <2>1 DEF NameTypes
  <2>3. \A a \in DOMAIN tree' : tree'[a] \in Names \cup {NoName}
    BY <1>1 DEF NameTypes
  <2> QED
    BY <1>1, <2>2, <2>3 DEF NameTypes
<1>2. \A k, v : /\ DOMAIN Bind(tree, k, v) = DOMAIN tree \cup {k} /\ Bind(tree, k, v)[k] = v
                /\ \A a \in DOMAIN tree : a # k => Bind(tree, k, v)[a] = tree[a]
  BY DEF Bind
<1>3. CASE BuilderStep
  <2> DEFINE new == DOMAIN tree' \ DOMAIN tree
  <2>1. Open /\ Appears(new) /\ UNCHANGED <<installed, pass, phase>>
    BY <1>3 DEF BuilderStep
  <2>2. CASE CreateAlarm
    <3>1. /\ tree' = Bind(tree, PathOf(Def), NameOf(Def)) /\ PathOf(Def) \notin DOMAIN tree
          /\ call' = call /\ next' = next + 1 /\ next <= Len(call.defs)
      BY <2>2 DEF CreateAlarm
    <3>2. NameOf(Def) \in Names
      BY <3>1, NamesOfCalls DEF NameTypes
    <3>3. next + 1 \in Nat \ {0}
      BY DEF NameTypes
    <3>4. new = {PathOf(Def)} /\ DOMAIN tree' = DOMAIN tree \cup new
      BY <1>2, <3>1
    <3>5. tree'[PathOf(Def)] = NameOf(Def) /\ \A a \in DOMAIN tree : tree'[a] = tree[a]
      BY <1>2, <3>1
    <3> HIDE DEF new
    <3> QED
      BY <1>1, <2>1, <3>1, <3>2, <3>3, <3>4, <3>5 DEF Open, NameTypes
  <2>3. CASE (\E c \in AlarmCalls : CallCreateAlarms(c)) \/ CreateAlarmThrows \/ CreateAlarmsReturns
    <3>1. tree' = tree /\ call' \in AlarmCalls /\ next' \in Nat \ {0}
      BY <2>3 DEF CallCreateAlarms, CreateAlarmThrows, CreateAlarmsReturns, NameTypes
    <3>2. new = {} /\ DOMAIN tree' = DOMAIN tree \cup new
      BY <3>1
    <3> HIDE DEF new
    <3> QED
      BY <1>1, <2>1, <3>1, <3>2 DEF Open
  <2> QED
    BY <1>3, <2>2, <2>3 DEF BuilderStep, CreateNext
<1>4. CASE \E b \in DOMAIN UserAlarms : AddAlarm(b)
  <2>1. PICK b \in DOMAIN UserAlarms : AddAlarm(b)
    BY <1>4
  <2>2. /\ tree' = Bind(tree, b, UserAlarms[b]) /\ b \notin DOMAIN tree /\ Open /\ Appears({b})
        /\ UNCHANGED <<call, next, installed, pass, phase>>
    BY <2>1 DEF AddAlarm
  <2>3. UserAlarms[b] \in Names \cup {NoName}
    <3>1. ToSet(UserAlarms[b]) \subseteq Segment
      BY DEF Segment
    <3> QED
      BY <3>1, PolicyAssumption, SequenceIn DEF IsName, Names
  <2>4. /\ DOMAIN tree' = DOMAIN tree \cup {b} /\ tree'[b] = UserAlarms[b]
        /\ \A a \in DOMAIN tree : tree'[a] = tree[a]
    <3> DEFINE v == UserAlarms[b]
    <3> HIDE DEF v
    <3>1. tree' = Bind(tree, b, v) /\ b \notin DOMAIN tree
      BY <2>2 DEF v
    <3>2. DOMAIN tree' = DOMAIN tree \cup {b} /\ tree'[b] = v
      BY <1>2, <3>1
    <3>3. \A a \in DOMAIN tree : tree'[a] = tree[a]
      BY <1>2, <3>1
    <3> QED
      BY <3>2, <3>3 DEF v
  <2>5. phase = "open" /\ call' \in AlarmCalls /\ next' \in Nat \ {0}
    BY <2>2 DEF Open, NameTypes
  <2> QED
    BY <1>1, <2>2, <2>3, <2>4, <2>5
<1>5. CASE \E a \in DOMAIN tree, x \in UserActions : AddAction(a, x)
  BY <1>5 DEF AddAction, createVars, NameTypes
<1>6. CASE \E p \in Policies : Install(p)
  <2>1. PICK p \in Policies : Install(p)
    BY <1>6
  <2>2. IsInjective(installed')
    BY <2>1, InstalledOnce DEF AlarmTypes
  <2> QED
    BY <2>1, <2>2 DEF Install, createVars, NameTypes
<1>7. CASE \E order \in TreeOrders : Synth(order)
  <2>1. /\ pass' = pass + 1 /\ phase' = "synth"
        /\ UNCHANGED <<tree, call, next, installed>>
    BY <1>7 DEF Synth, createVars
  <2>2. pass' \in Nat /\ pass' > 0
    BY <2>1 DEF NameTypes
  <2> QED
    BY <2>1, <2>2 DEF NameTypes
<1>8. CASE VisitActions \/ VisitPassesOver \/ VisitKeepsName \/ VisitRenames \/ VisitSanitizes
  <2>1. NamedVisit
    BY <1>8, VisitsAndNames
  <2>2. Alarm \in DOMAIN tree /\ Policy \in Policies
    BY <2>1, VisitFrame DEF NamedVisit
  <2>3. tree'[Alarm] \in Names \cup {NoName}
    <3>1. CASE tree'[Alarm] = tree[Alarm]
      BY <2>2, <3>1 DEF NameTypes
    <3>2. CASE ~Nameless(Policy, Alarm) /\ tree'[Alarm] = NewName
      <4>1. tree[Alarm] \in Names
        BY <2>2, <3>2 DEF Nameless, NameTypes
      <4> QED
        BY <2>2, <3>2, <4>1, NewNames DEF NewName
    <3> QED
      BY <2>1, <3>1, <3>2 DEF NamedVisit
  <2>4. \A a \in DOMAIN tree' : tree'[a] \in Names \cup {NoName}
    BY <2>1, <2>3 DEF NamedVisit, NameTypes
  <2> QED
    BY <2>1, <2>4 DEF NamedVisit, NameTypes
<1>9. CASE VisitRefusesName \/ VisitRefusesText \/ SynthDone
  <2>1. /\ phase = "synth" /\ phase' # "open"
        /\ UNCHANGED <<tree, call, next, installed, pass>>
    BY <1>9 DEF VisitRefusesName, VisitRefusesText, SynthDone, SynthThrows, Visiting, createVars
  <2> QED
    BY <2>1 DEF NameTypes
<1>10. CASE UNCHANGED alarmVars
  BY <1>10 DEF alarmVars, createVars, policyVars, NameTypes
<1> QED
  BY <1>3, <1>4, <1>5, <1>6, <1>7, <1>8, <1>9, <1>10 DEF AlarmNext

-----------------------------------------------------------------------------
(***************************************************************************)
(* Names, layer by layer.                                                  *)
(***************************************************************************)
\* The visits left of an alarm are those of its last policies, in order.
Ordered ==
  /\ \A i, k \in DOMAIN agenda : i < k => Precede(agenda[i], agenda[k])
  /\ \A i \in DOMAIN agenda : agenda[i].policy \in ToSet(PoliciesAt(agenda[i].alarm))
  /\ Running =>
       \A a \in DOMAIN tree : \A j \in Left(a), l \in DOMAIN PoliciesAt(a) : j < l => l \in Left(a)

(* The next visit is by the first of the policies that are left.           *)
LEMMA FirstOfTheLeft ==
  ASSUME AlarmTypes, NameTypes, Ordered, phase = "synth", agenda # <<>>, agenda' = Tail(agenda),
         installed' = installed
  PROVE  /\ \A a : PoliciesAt(a)' = PoliciesAt(a)
         /\ \A a : a # Alarm => Left(a)' = Left(a)
         /\ \E j \in Left(Alarm) :
              /\ PoliciesAt(Alarm)[j] = Policy
              /\ \A l \in Left(Alarm) : j <= l
              /\ \A a : a = Alarm => Left(a)' = Left(a) \ {j}
<1> DEFINE a == Alarm
           p == Policy
           ps == PoliciesAt(a)
<1>1. /\ \A b, q : Pending(b, q) => (b = a /\ q = p) \/ Visit(b, q) \in ToSet(Tail(agenda))
      /\ a \in DOMAIN tree /\ p \in Policies
  BY VisitFrame DEF Pending
<1>2. \A b : PoliciesAt(b)' = PoliciesAt(b)
  BY DEF PoliciesAt, Reaches
<1>3. /\ agenda \in Seq(VisitsOf(DOMAIN tree)) /\ DOMAIN agenda = 1..Len(agenda) /\ Len(agenda) \in Nat \ {0}
      /\ Head(agenda) = agenda[1] /\ DOMAIN Tail(agenda) = 1..(Len(agenda) - 1)
      /\ \A i \in 1..(Len(agenda) - 1) : Tail(agenda)[i] = agenda[i + 1] /\ i + 1 \in DOMAIN agenda /\ 1 < i + 1
  <2>1. agenda \in Seq(VisitsOf(DOMAIN tree))
    BY DEF AlarmTypes
  <2> QED
    BY <2>1
<1>4. \A b, q : Visit(b, q) \in ToSet(Tail(agenda)) => Pending(b, q) /\ Precede(Head(agenda), Visit(b, q))
  <2> SUFFICES ASSUME NEW b, NEW q, Visit(b, q) \in ToSet(Tail(agenda))
               PROVE  Pending(b, q) /\ Precede(Head(agenda), Visit(b, q))
    OBVIOUS
  <2>1. PICK i \in 1..(Len(agenda) - 1) : Visit(b, q) = agenda[i + 1]
    BY <1>3 DEF ToSet
  <2>2. i + 1 \in DOMAIN agenda /\ 1 \in DOMAIN agenda /\ 1 < i + 1
    BY <1>3
  <2> QED
    BY <1>3, <2>1, <2>2 DEF Ordered, Pending, ToSet
<1>5. \A b, q : Pending(b, q)' <=> Visit(b, q) \in ToSet(Tail(agenda))
  BY DEF Pending, Visit
<1>6. ps \in Seq(Policies) /\ IsInjective(ps) /\ DOMAIN ps = 1..Len(ps)
  <2>1. ps \in Seq(Policies) /\ IsInjective(ps)
    BY PoliciesReach, PoliciesOnce DEF AlarmTypes, NameTypes
  <2> HIDE DEF ps
  <2> QED
    BY <2>1
<1>7. PICK j \in DOMAIN ps : ps[j] = p
  <2>1. 1 \in DOMAIN agenda /\ agenda[1].alarm = a /\ agenda[1].policy = p
    BY <1>3 DEF Alarm, Policy
  <2> QED
    BY <2>1 DEF Ordered, ToSet
<1>8. Visit(a, p) = Head(agenda) /\ Pending(a, p)
  <2>1. Head(agenda) \in VisitsOf(DOMAIN tree)
    BY <1>3
  <2>2. Visit(a, p) = Head(agenda)
    BY <2>1 DEF VisitsOf, Visit, Alarm, Policy
  <2> QED
    BY <1>3, <2>2 DEF Pending, ToSet
<1>9. Head(agenda).alarm = a /\ Head(agenda).policy = p
  BY DEF Alarm, Policy
<1> HIDE DEF a, p, ps
<1>10. \A l \in DOMAIN ps : Visit(a, ps[l]) \in ToSet(Tail(agenda)) => j < l
  <2> SUFFICES ASSUME NEW l \in DOMAIN ps, Visit(a, ps[l]) \in ToSet(Tail(agenda)) PROVE j < l
    OBVIOUS
  <2>1. Precede(Head(agenda), Visit(a, ps[l]))
    BY <1>4
  <2>2. Visit(a, ps[l]).alarm = a /\ Visit(a, ps[l]).policy = ps[l]
    BY DEF Visit
  <2> QED
    BY <1>7, <1>9, <2>1, <2>2 DEF Precede, ps
<1>11. Left(a) = {l \in DOMAIN ps : Pending(a, ps[l])}
  BY DEF Left, ps
<1>12. \A b : Left(b)' = {l \in DOMAIN PoliciesAt(b) : Visit(b, PoliciesAt(b)[l]) \in ToSet(Tail(agenda))}
  <2> TAKE b
  <2>1. Left(b)' = {l \in DOMAIN PoliciesAt(b)' : Visit(b, PoliciesAt(b)'[l]) \in ToSet(agenda')}
    BY DEF Left, Pending, Visit
  <2> QED
    BY <1>2, <2>1
<1>13. \A l \in Left(a) : j <= l
  <2> TAKE l \in Left(a)
  <2>1. ps[l] = p \/ Visit(a, ps[l]) \in ToSet(Tail(agenda))
    BY <1>1, <1>11
  <2>2. ps[l] = p => l = j
    BY <1>6, <1>7, <1>11 DEF IsInjective
  <2>3. l \in DOMAIN ps /\ j \in Nat /\ l \in Nat
    BY <1>6, <1>11
  <2> QED
    BY <1>10, <2>1, <2>2, <2>3
<1>14. j \in Left(a)
  BY <1>7, <1>8, <1>11
<1>15. \A l \in DOMAIN ps : Visit(a, ps[l]) \in ToSet(Tail(agenda)) <=> l \in Left(a) \ {j}
  <2> TAKE l \in DOMAIN ps
  <2>1. ps[l] = p => l = j
    BY <1>6, <1>7 DEF IsInjective
  <2>2. l \in Nat /\ j \in Nat
    BY <1>6
  <2>3. ~(j < j)
    BY <2>2
  <2> QED
    BY <1>1, <1>4, <1>7, <1>10, <1>11, <2>1, <2>3
<1>16. \A b : b = a => Left(b)' = Left(b) \ {j}
  BY <1>11, <1>12, <1>15 DEF ps
<1>17. \A b : b # a => Left(b)' = Left(b)
  BY <1>1, <1>4, <1>12 DEF Left
<1> QED
  BY <1>2, <1>7, <1>13, <1>14, <1>16, <1>17 DEF a, p, ps

(* When a synth starts, all visits are left.                               *)
LEMMA AllLeft ==
  ASSUME AlarmTypes, NEW order \in TreeOrders, Synth(order), NEW a \in DOMAIN tree
  PROVE  Left(a)' = DOMAIN PoliciesAt(a)
<1>1. \A p \in ToSet(PoliciesAt(a)) : p \in ToSet(installed) /\ Reaches(p, a)
  BY PoliciesReach DEF AlarmTypes
<1>2. \A p \in ToSet(installed) : Reaches(p, a) => Visit(a, p) \in ToSet(agenda')
  BY WalkVisits DEF Synth, AlarmTypes
<1>3. \A j \in DOMAIN PoliciesAt(a) : PoliciesAt(a)[j] \in ToSet(PoliciesAt(a))
  BY DEF ToSet
<1>4. Left(a)' = {j \in DOMAIN PoliciesAt(a)' : Visit(a, PoliciesAt(a)'[j]) \in ToSet(agenda')}
  BY DEF Left, Pending, Visit
<1>5. PoliciesAt(a)' = PoliciesAt(a)
  BY DEF Synth, PoliciesAt, Reaches
<1> QED
  BY <1>1, <1>2, <1>3, <1>4, <1>5

(* Every step leaves the visits in order.                                  *)
LEMMA OrderedStays ==
  ASSUME AlarmTypes, NameTypes, Ordered, [AlarmNext]_alarmVars
  PROVE  Ordered'
<1>1. ASSUME phase' \in {"open", "failed"}, agenda' = <<>> PROVE Ordered'
  <2>1. DOMAIN agenda' = {} /\ ~Running'
    BY <1>1 DEF Running
  <2> QED
    BY <2>1 DEF Ordered
<1>2. CASE BuilderStep \/ (\E a \in DOMAIN UserAlarms : AddAlarm(a)) \/ (\E p \in Policies : Install(p))
           \/ (\E a \in DOMAIN tree, x \in UserActions : AddAction(a, x))
  <2>1. phase = "open" /\ phase' = phase /\ agenda' = agenda
    BY <1>2 DEF BuilderStep, AddAlarm, AddAction, Install, Open
  <2> QED
    BY <1>1, <2>1 DEF AlarmTypes
<1>3. CASE \E order \in TreeOrders : Synth(order)
  <2>1. PICK order \in TreeOrders : Synth(order)
    BY <1>3
  <2>2. agenda' = Visits(Chosen(order, {i \in DOMAIN order : order[i] \in DOMAIN tree}))
        /\ installed' = installed /\ tree' = tree
    BY <2>1 DEF Synth, createVars
  <2>3. \A a : PoliciesAt(a)' = PoliciesAt(a)
    BY <2>2 DEF PoliciesAt, Reaches
  <2>4. /\ \A i, k \in DOMAIN agenda' : i < k => Precede(agenda'[i], agenda'[k])
        /\ \A i \in DOMAIN agenda' : agenda'[i].policy \in ToSet(PoliciesAt(agenda'[i].alarm))
    BY <2>2, WalkOrder DEF AlarmTypes, NameTypes
  <2>5. \A v, w : Precede(v, w)' <=> Precede(v, w)
    BY <2>3 DEF Precede
  <2>6. \A a \in DOMAIN tree : Left(a)' = DOMAIN PoliciesAt(a)
    BY <2>1, AllLeft
  <2>7. \A a \in DOMAIN tree : \A j \in Left(a)', l \in DOMAIN PoliciesAt(a)' : j < l => l \in Left(a)'
    BY <2>3, <2>6
  <2> QED
    BY <2>2, <2>3, <2>4, <2>5, <2>7 DEF Ordered
<1>4. CASE VisitActions \/ VisitPassesOver \/ VisitKeepsName \/ VisitRenames \/ VisitSanitizes
  <2>1. NamedVisit
    BY <1>4, VisitsAndNames
  <2>2. /\ phase = "synth" /\ agenda # <<>> /\ agenda' = Tail(agenda) /\ installed' = installed
        /\ DOMAIN tree' = DOMAIN tree
    BY <2>1 DEF NamedVisit
  <2>3. PICK j \in Left(Alarm) :
          /\ \A l \in Left(Alarm) : j <= l
          /\ \A a : a = Alarm => Left(a)' = Left(a) \ {j}
    BY <2>2, FirstOfTheLeft
  <2>4. /\ \A a : PoliciesAt(a)' = PoliciesAt(a)
        /\ \A a : a # Alarm => Left(a)' = Left(a)
    BY <2>2, FirstOfTheLeft
  <2>5. \A v, w : Precede(v, w)' <=> Precede(v, w)
    BY <2>4 DEF Precede
  <2>6. \A i \in DOMAIN agenda' : i + 1 \in DOMAIN agenda /\ agenda'[i] = agenda[i + 1] /\ i \in Nat
    <3>1. agenda \in Seq(VisitsOf(DOMAIN tree))
      BY DEF AlarmTypes
    <3> QED
      BY <2>2, <3>1
  <2>7. \A i, k \in DOMAIN agenda' : i < k => Precede(agenda'[i], agenda'[k])
    <3>1. \A i, k \in DOMAIN agenda' : i < k => i + 1 < k + 1
      BY <2>6
    <3> QED
      BY <2>6, <3>1 DEF Ordered
  <2>8. \A i \in DOMAIN agenda' : agenda'[i].policy \in ToSet(PoliciesAt(agenda'[i].alarm))
    BY <2>6 DEF Ordered
  <2>9. ASSUME NEW a \in DOMAIN tree, NEW i \in Left(a)', NEW l \in DOMAIN PoliciesAt(a), i < l
        PROVE  l \in Left(a)'
    <3>1. i \in Left(a) => l \in Left(a)
      BY <2>2, <2>9 DEF Ordered, Running
    <3>2. CASE a # Alarm
      BY <2>4, <3>1, <3>2
    <3>3. CASE a = Alarm
      <4>1. Left(a)' = Left(a) \ {j} /\ j <= i
        BY <2>3, <3>3
      <4>2. i \in DOMAIN PoliciesAt(a) /\ j \in DOMAIN PoliciesAt(a)
        BY <3>3, <4>1 DEF Left
      <4>3. DOMAIN PoliciesAt(a) \subseteq Nat
        <5> DEFINE ps == PoliciesAt(a)
        <5>1. ps \in Seq(Policies)
          BY PoliciesReach DEF AlarmTypes
        <5> HIDE DEF ps
        <5>2. DOMAIN ps \subseteq Nat
          BY <5>1
        <5> QED
          BY <5>2 DEF ps
      <4>4. l # j
        BY <2>9, <4>1, <4>2, <4>3
      <4> QED
        BY <3>1, <4>1, <4>4
    <3> QED
      BY <3>2, <3>3
  <2> QED
    BY <2>2, <2>4, <2>5, <2>7, <2>8, <2>9 DEF Ordered
<1>5. CASE VisitRefusesName \/ VisitRefusesText
  <2>1. phase' = "failed" /\ agenda' = <<>>
    BY <1>5, OtherVisits DEF FailedVisit
  <2> QED
    BY <1>1, <2>1
<1>6. CASE SynthDone \/ UNCHANGED alarmVars
  <2>1. /\ UNCHANGED <<tree, agenda, installed>>
        /\ Running' <=> Running
    BY <1>6 DEF SynthDone, alarmVars, createVars, policyVars, Running
  <2>2. \A a : PoliciesAt(a)' = PoliciesAt(a)
    BY <2>1 DEF PoliciesAt, Reaches
  <2>3. \A v, w : Precede(v, w)' <=> Precede(v, w)
    BY <2>2 DEF Precede
  <2>4. \A a : Left(a)' = Left(a)
    BY <2>1, <2>2 DEF Left, Pending, Visit
  <2> QED
    BY <2>1, <2>2, <2>3, <2>4 DEF Ordered
<1> QED
  BY <1>2, <1>3, <1>4, <1>5, <1>6 DEF AlarmNext

\* A policy that makes of a name what it was, so that it marks nothing.
Neutral(p, a) == \A m \in Names : Decorated(m, LayersFor(p, a)) = m

\* An alarm has the name the first k of its policies made; the others have
\* yet to see it, and none of them has marked it.
SoFar(a, k) ==
  /\ tree[a] = NamesAfter(given[a], PoliciesAt(a), a)[k]
  /\ \A j \in DOMAIN PoliciesAt(a) : j > k =>
       /\ Running => j \in Left(a)
       /\ Kind[PoliciesAt(a)[j]] = "names" => a \notin processed[PoliciesAt(a)[j]]
  /\ Plain(a) =>
       \A j \in DOMAIN PoliciesAt(a) : j <= k /\ Kind[PoliciesAt(a)[j]] = "names" =>
         a \in processed[PoliciesAt(a)[j]] \/ Neutral(PoliciesAt(a)[j], a)
  /\ pass = 1 => \A j \in Left(a) : j > k

Layered ==
  phase # "open" =>
    \A a \in DOMAIN tree : tree[a] # NoName /\ (pass = 1 \/ Plain(a)) =>
      \E k \in 0..Len(PoliciesAt(a)) : SoFar(a, k)

NameInvariant == AlarmTypes /\ NameTypes /\ Ordered /\ Layered

(* Of an alarm no policy rewrites from scratch, a policy that leaves its   *)
(* name alone once leaves any name alone.                                  *)
LEMMA NeutralOnce ==
  ASSUME installed \in Seq(Policies), NEW a, Plain(a), NEW p \in ToSet(PoliciesAt(a)), p \in Policies,
         Kind[p] = "names", NEW name \in Names, Decorated(name, LayersFor(p, a)) = name
  PROVE  Neutral(p, a)
<1>1. p \in Covering("names", a)
  BY PoliciesReach DEF Covering
<1> DEFINE ls == LayersFor(p, a)
<1>2. \A i \in DOMAIN ls : ls[i].scratch = NoName
  BY <1>1 DEF Plain
<1>3. ls \in Seq(LayersOf(p)) /\ \A i \in DOMAIN ls : Decorates(ls[i])
  BY LayersByPath
<1>4. Decorated(name, ls) = name
  OBVIOUS
<1> HIDE DEF ls
<1>5. \A m \in Names : Decorated(m, ls) = m
  BY <1>2, <1>3, <1>4, DecoratedNames
<1> QED
  BY <1>5 DEF Neutral, ls

(* A visit is that of the next policy, or of one that has had its say.     *)
LEMMA LayersGrow ==
  ASSUME NoGlobalRules, AlarmTypes, NameTypes, Ordered, Layered, NamedVisit
  PROVE  Layered'
<1> SUFFICES ASSUME NEW a \in DOMAIN tree', tree'[a] # NoName, pass = 1 \/ Plain(a)
             PROVE  \E k \in 0..Len(PoliciesAt(a)) : SoFar(a, k)'
  <2>1. installed' = installed /\ pass' = pass
    BY DEF NamedVisit
  <2>2. \A a : PoliciesAt(a)' = PoliciesAt(a) /\ (Plain(a)' <=> Plain(a))
    BY <2>1 DEF PoliciesAt, Reaches, Plain, Covering
  <2> QED
    BY <2>1, <2>2 DEF Layered
<1> DEFINE ps == PoliciesAt(a)
           n == Len(ps)
           F == NamesAfter(given[a], ps, a)
<1>1. /\ phase = "synth" /\ phase' = phase /\ agenda # <<>> /\ agenda' = Tail(agenda)
      /\ installed' = installed /\ given' = given /\ pass' = pass /\ DOMAIN tree' = DOMAIN tree
  BY DEF NamedVisit
<1>2. /\ \A b : PoliciesAt(b)' = PoliciesAt(b)
      /\ \A b : b # Alarm => Left(b)' = Left(b)
  BY <1>1, FirstOfTheLeft
<1>3. ps \in Seq(Policies) /\ IsInjective(ps)
  BY PoliciesReach, PoliciesOnce DEF AlarmTypes, NameTypes
<1>4. /\ F[0] = given[a]
      /\ \A i \in 1..n : F[i] = IF Kind[ps[i]] = "names" THEN Decorated(F[i - 1], LayersFor(ps[i], a))
                                                         ELSE F[i - 1]
  <2> DEFINE name == given[a]
  <2> HIDE DEF ps, n, F, name
  <2>1. F = NamesAfter(name, ps, a) /\ n = Len(ps)
    BY DEF F, n, name
  <2>2. LET f == NamesAfter(name, ps, a) IN
        /\ f[0] = name
        /\ \A i \in 1..Len(ps) :
             f[i] = IF Kind[ps[i]] = "names" THEN Decorated(f[i - 1], LayersFor(ps[i], a))
                                             ELSE f[i - 1]
    BY <1>3, NamesDefined
  <2> QED
    BY <2>1, <2>2 DEF name
<1>5. a \in DOMAIN tree /\ Running /\ Running' /\ (Plain(a)' <=> Plain(a))
  BY <1>1 DEF Running, Plain, Covering, Reaches
<1>6. \A k : SoFar(a, k) <=>
        /\ tree[a] = F[k]
        /\ \A j \in DOMAIN ps : j > k => j \in Left(a) /\ (Kind[ps[j]] = "names" => a \notin processed[ps[j]])
        /\ Plain(a) => \A j \in DOMAIN ps : j <= k /\ Kind[ps[j]] = "names" =>
                         a \in processed[ps[j]] \/ Neutral(ps[j], a)
        /\ pass = 1 => \A j \in Left(a) : j > k
  BY <1>5 DEF SoFar
<1>7. \A k : SoFar(a, k)' <=>
        /\ tree'[a] = F[k]
        /\ \A j \in DOMAIN ps : j > k => j \in Left(a)' /\ (Kind[ps[j]] = "names" => a \notin processed'[ps[j]])
        /\ Plain(a) => \A j \in DOMAIN ps : j <= k /\ Kind[ps[j]] = "names" =>
                         a \in processed'[ps[j]] \/ Neutral(ps[j], a)
        /\ pass = 1 => \A j \in Left(a)' : j > k
  BY <1>1, <1>2, <1>5 DEF SoFar, Neutral
<1>8. n \in Nat /\ DOMAIN ps = 1..n /\ \A i \in 1..n : ps[i] \in Policies /\ ps[i] \in ToSet(ps)
  <2> HIDE DEF ps
  <2> QED
    BY <1>3, SequenceElements DEF ToSet
<1>9. Left(a) \subseteq DOMAIN ps
  BY DEF Left
<1>10. tree[a] # NoName /\ tree[a] \in Names
  <2>1. tree'[a] = tree[a] \/ ~Nameless(Policy, a)
    BY <1>5 DEF NamedVisit
  <2>2. tree[a] # NoName
    BY <2>1 DEF Nameless
  <2> QED
    BY <1>5, <2>2 DEF NameTypes
<1>11. PICK k \in 0..n : SoFar(a, k)
  BY <1>1, <1>5, <1>10 DEF Layered
<1>12. CASE a # Alarm
  <2>1. tree'[a] = tree[a] /\ Left(a)' = Left(a)
    BY <1>2, <1>5, <1>12 DEF NamedVisit
  <2>2. \A q \in Policies : Kind[q] = "names" => (a \in processed'[q] <=> a \in processed[q])
    BY <1>12 DEF NamedVisit
  <2> HIDE DEF F
  <2>3. SoFar(a, k)'
    BY <1>6, <1>7, <1>8, <1>11, <2>1, <2>2
  <2> QED
    BY <1>11, <2>3
<1>13. CASE a = Alarm
  <2>1. PICK j \in Left(a) : /\ ps[j] = Policy
                             /\ \A l \in Left(a) : j <= l
                             /\ Left(a)' = Left(a) \ {j}
    BY <1>1, <1>13, FirstOfTheLeft
  <2> DEFINE p == Policy
  <2>2. /\ p \in Policies /\ p = ps[j] /\ j \in 1..n
        /\ \A i \in 1..n : i # j => ps[i] # p
    BY <1>3, <1>8, <1>9, <2>1 DEF IsInjective
  <2>3. IF Kind[p] # "names" THEN tree'[a] = tree[a]
        ELSE \/ /\ Nameless(p, a) /\ tree'[a] = tree[a]
                /\ a \in processed'[p] <=> a \in processed[p]
             \/ /\ ~Nameless(p, a) /\ tree'[a] = NewName
                /\ a \in processed'[p] \/ (NewName = tree[a] /\ a \notin processed'[p])
    BY <1>13 DEF NamedVisit
  <2>4. \A q \in Policies : Kind[q] = "names" /\ q # p => (a \in processed'[q] <=> a \in processed[q])
    BY DEF NamedVisit
  <2>5. Nameless(p, a) <=> a \in processed[p]
    BY <1>10 DEF Nameless, Seen
  <2>6. NewName = Decorated(tree[a], LayersFor(p, a))
    BY <1>13, <2>2, LayersByPath DEF NewName
  <2> DEFINE new == NewName
  <2> HIDE DEF p, new, F, n, ps
  <2>7. CASE j > k
    <3>1. j = k + 1 /\ j - 1 = k
      <4>1. k + 1 \in 1..n /\ k + 1 > k
        BY <1>8, <1>11, <2>2, <2>7
      <4>2. k + 1 \in Left(a)
        BY <1>6, <1>8, <1>11, <4>1
      <4> QED
        BY <1>8, <1>11, <2>1, <2>2, <2>7, <4>2
    <3>2. tree[a] = F[k] /\ (Kind[p] = "names" => a \notin processed[p])
      BY <1>6, <1>8, <1>11, <2>2, <2>7
    <3>3. tree'[a] = F[j]
      <4>1. F[j] = IF Kind[p] = "names" THEN Decorated(F[k], LayersFor(p, a)) ELSE F[k]
        BY <1>4, <2>2, <3>1
      <4> QED
        BY <2>3, <2>5, <2>6, <3>2, <4>1
    <3>4. ASSUME NEW i \in DOMAIN ps, i > j
          PROVE  i \in Left(a)' /\ (Kind[ps[i]] = "names" => a \notin processed'[ps[i]])
      <4>1. i > k /\ i # j
        BY <1>8, <1>11, <2>2, <2>7, <3>4
      <4>2. i \in Left(a) /\ (Kind[ps[i]] = "names" => a \notin processed[ps[i]])
        BY <1>6, <1>11, <4>1
      <4> QED
        BY <1>8, <2>1, <2>2, <2>4, <4>1, <4>2
    <3>5. ASSUME Plain(a), NEW i \in DOMAIN ps, i <= j, Kind[ps[i]] = "names"
          PROVE  a \in processed'[ps[i]] \/ Neutral(ps[i], a)
      <4>1. CASE i = j
        <5>1. a \in processed'[p] \/ NewName = tree[a]
          BY <2>2, <2>3, <2>5, <3>2, <3>5, <4>1
        <5>2. NewName = tree[a] => Neutral(p, a)
          <6>1. p \in ToSet(PoliciesAt(a)) /\ Kind[p] = "names"
            BY <1>8, <2>2, <3>5, <4>1 DEF ps
          <6> QED
            BY <1>10, <2>2, <2>6, <3>5, <6>1, NeutralOnce DEF AlarmTypes
        <5> QED
          BY <2>2, <4>1, <5>1, <5>2
      <4>2. CASE i # j
        <5>1. i <= k
          BY <1>8, <1>11, <2>2, <3>1, <3>5, <4>2
        <5>2. a \in processed[ps[i]] \/ Neutral(ps[i], a)
          BY <1>6, <1>11, <3>5, <5>1
        <5> QED
          BY <1>8, <2>2, <2>4, <3>5, <4>2, <5>2
      <4> QED
        BY <4>1, <4>2
    <3>6. \A i \in Left(a)' : i > j
      <4>1. \A i \in Left(a)' : i \in 1..n /\ j <= i /\ i # j
        BY <1>8, <1>9, <2>1 DEF ps, n
      <4> QED
        BY <2>2, <4>1
    <3>7. SoFar(a, j)'
      BY <1>7, <3>3, <3>4, <3>5, <3>6
    <3> QED
      BY <1>8, <2>2, <3>7 DEF n, ps
  <2>8. CASE ~(j > k)
    <3>1. j <= k /\ pass # 1 /\ Plain(a)
      BY <1>6, <1>8, <1>11, <2>1, <2>2, <2>8
    <3>2. Kind[p] = "names" => a \in processed[p] \/ Neutral(p, a)
      BY <1>6, <1>8, <1>11, <2>2, <3>1
    <3>3. tree'[a] = tree[a]
      <4>1. Neutral(p, a) => NewName = tree[a]
        BY <1>10, <2>6 DEF Neutral
      <4> QED
        BY <2>3, <2>5, <3>2, <4>1
    <3>4. Kind[p] = "names" => a \in processed'[p] \/ Neutral(p, a)
      BY <2>3, <2>5, <3>2
    <3>5. ASSUME NEW i \in DOMAIN ps, i > k
          PROVE  i \in Left(a)' /\ (Kind[ps[i]] = "names" => a \notin processed'[ps[i]])
      <4>1. i # j
        BY <1>8, <1>11, <2>2, <2>8, <3>5
      <4>2. i \in Left(a) /\ (Kind[ps[i]] = "names" => a \notin processed[ps[i]])
        BY <1>6, <1>11, <3>5
      <4> QED
        BY <1>8, <2>1, <2>2, <2>4, <4>1, <4>2
    <3>6. ASSUME NEW i \in DOMAIN ps, i <= k, Kind[ps[i]] = "names"
          PROVE  a \in processed'[ps[i]] \/ Neutral(ps[i], a)
      <4>1. CASE i = j
        BY <2>2, <3>4, <3>6, <4>1
      <4>2. CASE i # j
        <5>1. a \in processed[ps[i]] \/ Neutral(ps[i], a)
          BY <1>6, <1>11, <3>1, <3>6
        <5> QED
          BY <1>8, <2>2, <2>4, <3>6, <4>2, <5>1
      <4> QED
        BY <4>1, <4>2
    <3>7. SoFar(a, k)'
      <4>1. tree'[a] = F[k]
        BY <1>6, <1>11, <3>3
      <4> QED
        BY <1>7, <3>1, <3>5, <3>6, <4>1
    <3> QED
      BY <1>11, <3>7 DEF n, ps
  <2> QED
    BY <2>7, <2>8
<1> QED
  BY <1>12, <1>13

(* Every step leaves the names layer by layer.                             *)
LEMMA LayeredStays ==
  ASSUME NoGlobalRules, AlarmTypes, NameTypes, Ordered, Layered, [AlarmNext]_alarmVars
  PROVE  Layered'
<1>1. CASE BuilderStep \/ (\E a \in DOMAIN UserAlarms : AddAlarm(a)) \/ (\E p \in Policies : Install(p))
           \/ (\E a \in DOMAIN tree, x \in UserActions : AddAction(a, x))
  <2>1. phase' = "open"
    BY <1>1 DEF BuilderStep, AddAlarm, AddAction, Install, Open
  <2> QED
    BY <2>1 DEF Layered
<1>2. CASE \E order \in TreeOrders : Synth(order)
  <2>1. PICK order \in TreeOrders : Synth(order)
    BY <1>2
  <2>2. pass' = pass + 1 /\ UNCHANGED <<tree, given, installed, processed>>
    BY <2>1 DEF Synth, createVars
  <2>3. \A a : PoliciesAt(a)' = PoliciesAt(a) /\ (Plain(a)' <=> Plain(a))
    BY <2>2 DEF PoliciesAt, Reaches, Plain, Covering
  <2> SUFFICES ASSUME NEW a \in DOMAIN tree, tree[a] # NoName, pass + 1 = 1 \/ Plain(a)
               PROVE  \E k \in 0..Len(PoliciesAt(a)) : SoFar(a, k)'
    BY <2>2, <2>3 DEF Layered
  <2> DEFINE ps == PoliciesAt(a)
             n == Len(ps)
             F == NamesAfter(given[a], ps, a)
  <2>4. ps \in Seq(Policies)
    BY PoliciesReach DEF AlarmTypes
  <2>5. n \in Nat /\ DOMAIN ps = 1..n /\ \A i \in 1..n : ps[i] \in Policies
    <3> HIDE DEF ps
    <3> QED
      BY <2>4, SequenceElements
  <2>6. \A k : /\ tree[a] = F[k]
               /\ \A j \in DOMAIN ps : j > k /\ Kind[ps[j]] = "names" => a \notin processed[ps[j]]
               /\ Plain(a) => \A j \in DOMAIN ps : j <= k /\ Kind[ps[j]] = "names" =>
                                a \in processed[ps[j]] \/ Neutral(ps[j], a)
               /\ pass + 1 = 1 => \A j \in DOMAIN ps : j > k
               => SoFar(a, k)'
    <3>1. Left(a)' = DOMAIN ps
      BY <2>1, AllLeft
    <3> QED
      BY <2>2, <2>3, <3>1 DEF SoFar, Neutral
  <2>7. CASE phase = "open"
    <3>1. tree[a] = given[a] /\ \A p \in Policies : processed[p] = {}
      BY <2>7 DEF AlarmTypes, NameTypes
    <3>2. F[0] = given[a]
      <4> DEFINE name == given[a]
      <4> HIDE DEF name, F, n, ps
      <4>1. LET f == NamesAfter(name, ps, a) IN
            /\ f[0] = name
            /\ \A i \in 1..Len(ps) :
                 f[i] = IF Kind[ps[i]] = "names" THEN Decorated(f[i - 1], LayersFor(ps[i], a))
                                                 ELSE f[i - 1]
        BY <2>4, NamesDefined
      <4> QED
        BY <4>1 DEF name, F
    <3> HIDE DEF F, n, ps
    <3>3. SoFar(a, 0)'
      BY <2>5, <2>6, <3>1, <3>2
    <3> QED
      BY <2>5, <3>3 DEF n, ps
  <2>8. CASE phase # "open"
    <3>1. pass + 1 # 1 /\ Plain(a)
      BY <2>8 DEF NameTypes
    <3>2. PICK k \in 0..n : SoFar(a, k)
      BY <2>8, <3>1 DEF Layered
    <3>3. SoFar(a, k)'
      <4>1. /\ tree[a] = F[k]
            /\ \A j \in DOMAIN ps : j > k /\ Kind[ps[j]] = "names" => a \notin processed[ps[j]]
            /\ \A j \in DOMAIN ps : j <= k /\ Kind[ps[j]] = "names" =>
                                a \in processed[ps[j]] \/ Neutral(ps[j], a)
        BY <3>1, <3>2 DEF SoFar
      <4> HIDE DEF F, n, ps
      <4> QED
        BY <2>6, <3>1, <4>1
    <3> QED
      BY <3>2, <3>3
  <2> QED
    BY <2>7, <2>8
<1>3. CASE VisitActions \/ VisitPassesOver \/ VisitKeepsName \/ VisitRenames \/ VisitSanitizes
  BY <1>3, VisitsAndNames, LayersGrow
<1>4. ASSUME UNCHANGED <<tree, given, installed, processed, pass>>,
             phase' = "open" <=> phase = "open", Running' => Running,
             agenda' = agenda \/ (agenda' = <<>> /\ ~Running')
      PROVE  Layered'
  <2>1. \A a : PoliciesAt(a)' = PoliciesAt(a) /\ (Plain(a)' <=> Plain(a))
    BY <1>4 DEF PoliciesAt, Reaches, Plain, Covering
  <2>2. \A a : Left(a)' = Left(a) \/ (Left(a)' = {} /\ ~Running')
    <3>1. CASE agenda' = agenda
      BY <2>1, <3>1 DEF Left, Pending, Visit
    <3>2. CASE agenda' = <<>> /\ ~Running'
      <4>1. \A v : v \notin ToSet(agenda')
        BY <3>2 DEF ToSet
      <4> QED
        BY <3>2, <4>1 DEF Left, Pending
    <3> QED
      BY <1>4, <3>1, <3>2
  <2>3. \A a, k : SoFar(a, k) => SoFar(a, k)'
    BY <1>4, <2>1, <2>2 DEF SoFar, Neutral
  <2> QED
    BY <1>4, <2>1, <2>3 DEF Layered
<1>5. CASE VisitRefusesName \/ VisitRefusesText
  <2>1. FailedVisit /\ UNCHANGED <<given, pass>>
    BY <1>5, OtherVisits DEF VisitRefusesName, VisitRefusesText
  <2> QED
    BY <1>4, <2>1 DEF FailedVisit, Running
<1>6. CASE SynthDone
  <2>1. /\ UNCHANGED <<tree, given, installed, processed, pass>> /\ agenda' = agenda
        /\ phase = "synth" /\ phase' = "done"
    BY <1>6 DEF SynthDone, createVars
  <2>2. Running
    BY <2>1 DEF Running
  <2> QED
    BY <1>4, <2>1, <2>2
<1>7. CASE UNCHANGED alarmVars
  <2>1. /\ UNCHANGED <<tree, given, installed, processed, pass>> /\ agenda' = agenda
        /\ phase' = phase
    BY <1>7 DEF alarmVars, createVars, policyVars
  <2>2. Running' => Running
    BY <2>1 DEF Running
  <2> QED
    BY <1>4, <2>1, <2>2
<1> QED
  BY <1>1, <1>2, <1>3, <1>5, <1>6, <1>7 DEF AlarmNext

(* Name policies layer: those of the app inside those of the stack, in the *)
(* order they were installed, each with its defaults inside its rules,     *)
(* once per alarm, whatever order the tree is walked in and however many   *)
(* synths failed on the way.                                               *)
THEOREM NamesLayer ==
  ASSUME NoGlobalRules
  PROVE  AlarmSpec => []NamesLayerInOrder
<1>1. AlarmInit => NameInvariant
  <2> SUFFICES ASSUME AlarmInit PROVE NameInvariant
    OBVIOUS
  <2>1. /\ call \in AlarmCalls /\ next = 1 /\ DOMAIN tree = {} /\ DOMAIN given = {}
        /\ installed = <<>> /\ agenda = <<>> /\ pass = 0 /\ phase = "open"
    BY DEF AlarmInit, CreateInit
  <2>2. DOMAIN installed = {} /\ DOMAIN agenda = {}
    BY <2>1
  <2> QED
    BY <2>1, <2>2, TypesAtFirst DEF NameInvariant, NameTypes, Ordered, Layered, IsInjective
<1>2. NameInvariant /\ [AlarmNext]_alarmVars => NameInvariant'
  BY TypesStay, NameTypesStay, OrderedStays, LayeredStays DEF NameInvariant
<1>3. NameInvariant => NamesLayerInOrder
  <2> SUFFICES ASSUME NameInvariant, phase = "done", NEW a \in DOMAIN tree,
                      tree[a] # NoName, pass = 1 \/ Plain(a)
               PROVE  tree[a] = ExpectedName(a)
    BY DEF NamesLayerInOrder
  <2> DEFINE ps == PoliciesAt(a)
             n == Len(ps)
  <2>1. PICK k \in 0..n : SoFar(a, k)
    BY DEF NameInvariant, Layered
  <2>2. Left(a) = {}
    <3>1. agenda = <<>>
      BY DEF NameInvariant, AlarmTypes
    <3> QED
      BY <3>1, NonePending DEF Left
  <2>3. n \in Nat /\ DOMAIN ps = 1..n
    <3>1. ps \in Seq(Policies)
      BY PoliciesReach DEF NameInvariant, AlarmTypes
    <3> HIDE DEF ps
    <3> QED
      BY <3>1
  <2>4. tree[a] = NamesAfter(given[a], ps, a)[k] /\ \A j \in DOMAIN ps : ~(j > k)
    BY <2>1, <2>2 DEF SoFar, Running
  <2>5. k = n
    <3> HIDE DEF ps, n
    <3>1. n # 0 => n \in 1..n
      BY <2>3
    <3> QED
      BY <2>1, <2>3, <2>4, <3>1
  <2> QED
    BY <2>4, <2>5 DEF ExpectedName
<1> QED
  BY <1>1, <1>2, <1>3, PTL DEF AlarmSpec
=============================================================================
