----------------------------- MODULE ZoneProofs -----------------------------
(***************************************************************************)
(* Proofs about ZoneRecords: zoneRecords() for every list of records, in   *)
(* every order and with whatever ids.  First what grouping does to a list, *)
(* then what the values of a merged group are, then the loop over the      *)
(* groups, and last the second build, of the list the other way round or   *)
(* without a record.                                                       *)
(***************************************************************************)
EXTENDS ZoneRecords, CommonLemmas, FiniteSetTheorems, TLAPS

(***************************************************************************)
(* The groups of a list, by their first records.                           *)
(***************************************************************************)
IsZoneList(l) ==
  /\ l \in Seq(Range(l))
  /\ \A i \in DOMAIN l : l[i].values \in Seq(Range(l[i].values))
  /\ \A i \in DOMAIN l : l[i].type \in Unmerged => Len(l[i].values) <= 1

HeadOf(l, g) == InOrder(Len(l), Firsts(l))[g]

(* A list has as many records as it has positions.                         *)
LEMMA ListPositions ==
  ASSUME NEW l, IsZoneList(l)
  PROVE  DOMAIN l = 1..Len(l) /\ Len(l) \in Nat
BY SequenceElements DEF IsZoneList

\* Every group has the records of one type and name, all of them, and no two
\* groups have the same.
WellGrouped(l) ==
  LET gs == GroupRecords(l) IN
  /\ DOMAIN gs = 1..Len(gs) /\ Len(gs) \in Nat /\ gs \in Seq(Seq(Range(l)))
  /\ \A g \in DOMAIN gs :
       /\ HeadOf(l, g) \in DOMAIN l
       /\ gs[g] \in Seq(Range(l)) /\ gs[g] # <<>>
       /\ \A k \in DOMAIN gs[g] :
            \E j \in DOMAIN l : gs[g][k] = l[j] /\ SameGroup(l[HeadOf(l, g)], l[j])
       /\ \A j \in DOMAIN l : SameGroup(l[HeadOf(l, g)], l[j]) =>
            \E k \in DOMAIN gs[g] : gs[g][k] = l[j]
       /\ Len(gs[g]) > 1 <=>
            \E i, j \in DOMAIN l : i # j /\ SameGroup(l[HeadOf(l, g)], l[i])
                                        /\ SameGroup(l[HeadOf(l, g)], l[j])
  /\ \A g, h \in DOMAIN gs : SameGroup(l[HeadOf(l, g)], l[HeadOf(l, h)]) => g = h
  /\ \A i \in DOMAIN l : \E g \in DOMAIN gs : SameGroup(l[HeadOf(l, g)], l[i])

(* So it is in every list.                                                 *)
LEMMA GroupShape ==
  ASSUME NEW l, IsZoneList(l)
  PROVE  WellGrouped(l)
<1> DEFINE n == Len(l)
           heads == InOrder(n, Firsts(l))
           pos(g) == InOrder(n, Alike(l, heads[g]))
           gs == GroupRecords(l)
<1>1. DOMAIN l = 1..n /\ n \in Nat
  BY ListPositions
<1> HIDE DEF n
<1>2. /\ heads \in Seq(Firsts(l)) /\ DOMAIN heads = 1..Len(heads) /\ Len(heads) \in Nat
      /\ \A k \in DOMAIN heads : heads[k] \in Firsts(l)
      /\ \A i \in Firsts(l) : \E k \in DOMAIN heads : heads[k] = i
      /\ \A j, k \in DOMAIN heads : heads[j] = heads[k] => j = k
  <2>1. Firsts(l) \in SUBSET (1..n)
    BY <1>1 DEF Firsts
  <2> QED
    BY <1>1, <2>1, InOrderPicks
<1> HIDE DEF heads
<1>3. \A i \in Firsts(l) : i \in DOMAIN l /\ \A j \in Alike(l, i) : i <= j
  BY DEF Firsts
<1>4. ASSUME NEW g \in DOMAIN heads
      PROVE  /\ pos(g) \in Seq(Alike(l, heads[g])) /\ DOMAIN pos(g) = 1..Len(pos(g)) /\ Len(pos(g)) \in Nat
             /\ \A k \in DOMAIN pos(g) : pos(g)[k] \in Alike(l, heads[g])
             /\ \A i \in Alike(l, heads[g]) : \E k \in DOMAIN pos(g) : pos(g)[k] = i
             /\ \A j, k \in DOMAIN pos(g) : pos(g)[j] = pos(g)[k] => j = k
  <2>1. Alike(l, heads[g]) \in SUBSET (1..n)
    BY <1>1 DEF Alike
  <2> QED
    BY <1>1, <2>1, InOrderPicks
<1>5. gs = [g \in DOMAIN heads |-> Selected(l, pos(g))]
  BY DEF GroupRecords, Chosen, heads, n
<1>6. \A g : HeadOf(l, g) = heads[g]
  BY DEF HeadOf, heads, n
<1> HIDE DEF pos
<1>7. ASSUME NEW g \in DOMAIN heads
      PROVE  /\ gs[g] \in Seq(Range(l)) /\ DOMAIN gs[g] = DOMAIN pos(g) /\ Len(gs[g]) = Len(pos(g))
             /\ \A k \in DOMAIN pos(g) : gs[g][k] = l[pos(g)[k]]
  <2>1. gs[g] = [k \in DOMAIN pos(g) |-> l[pos(g)[k]]]
    BY <1>5 DEF Selected
  <2>2. \A k \in 1..Len(pos(g)) : l[pos(g)[k]] \in Range(l)
    BY <1>4 DEF Alike, Range
  <2> HIDE DEF gs
  <2> QED
    BY <1>4, <2>1, <2>2
<1> HIDE DEF gs
<1>8. DOMAIN gs = DOMAIN heads /\ Len(gs) = Len(heads) /\ gs \in Seq(Seq(Range(l)))
  BY <1>2, <1>5, <1>7
<1>9. ASSUME NEW g \in DOMAIN gs
      PROVE  /\ HeadOf(l, g) \in DOMAIN l
             /\ gs[g] \in Seq(Range(l)) /\ gs[g] # <<>>
             /\ \A k \in DOMAIN gs[g] :
                  \E j \in DOMAIN l : gs[g][k] = l[j] /\ SameGroup(l[HeadOf(l, g)], l[j])
             /\ \A j \in DOMAIN l : SameGroup(l[HeadOf(l, g)], l[j]) =>
                  \E k \in DOMAIN gs[g] : gs[g][k] = l[j]
             /\ Len(gs[g]) > 1 <=>
                  \E i, j \in DOMAIN l : i # j /\ SameGroup(l[HeadOf(l, g)], l[i])
                                              /\ SameGroup(l[HeadOf(l, g)], l[j])
  <2>1. g \in DOMAIN heads /\ heads[g] \in DOMAIN l /\ HeadOf(l, g) = heads[g]
    BY <1>2, <1>3, <1>6, <1>8
  <2>2. \A j : j \in Alike(l, heads[g]) <=> j \in DOMAIN l /\ SameGroup(l[heads[g]], l[j])
    BY DEF Alike
  <2>3. SameGroup(l[heads[g]], l[heads[g]])
    BY DEF SameGroup
  <2>4. \A k \in DOMAIN gs[g] : \E j \in DOMAIN l : gs[g][k] = l[j] /\ SameGroup(l[heads[g]], l[j])
    BY <1>4, <1>7, <2>1, <2>2
  <2>5. \A j \in DOMAIN l : SameGroup(l[heads[g]], l[j]) => \E k \in DOMAIN gs[g] : gs[g][k] = l[j]
    BY <1>4, <1>7, <2>1, <2>2
  <2>6. gs[g] # <<>>
    <3>1. DOMAIN gs[g] # {}
      BY <2>1, <2>3, <2>5
    <3> QED
      BY <3>1
  <2>7. Len(gs[g]) > 1 => \E i, j \in DOMAIN l : i # j /\ SameGroup(l[heads[g]], l[i])
                                                      /\ SameGroup(l[heads[g]], l[j])
    <3> SUFFICES ASSUME Len(gs[g]) > 1
                 PROVE  \E i, j \in DOMAIN l : i # j /\ SameGroup(l[heads[g]], l[i])
                                                    /\ SameGroup(l[heads[g]], l[j])
      OBVIOUS
    <3>1. 1 \in DOMAIN pos(g) /\ 2 \in DOMAIN pos(g)
      BY <1>4, <1>7, <2>1
    <3>2. pos(g)[1] # pos(g)[2]
      BY <1>4, <2>1, <3>1
    <3> QED
      BY <1>4, <2>1, <2>2, <3>1, <3>2
  <2>8. ASSUME NEW i \in DOMAIN l, NEW j \in DOMAIN l, i # j, SameGroup(l[heads[g]], l[i]),
               SameGroup(l[heads[g]], l[j])
        PROVE  Len(gs[g]) > 1
    <3>1. PICK a \in DOMAIN pos(g) : pos(g)[a] = i
      BY <1>4, <2>1, <2>2, <2>8
    <3>2. PICK b \in DOMAIN pos(g) : pos(g)[b] = j
      BY <1>4, <2>1, <2>2, <2>8
    <3>3. a # b /\ a \in 1..Len(pos(g)) /\ b \in 1..Len(pos(g)) /\ Len(pos(g)) \in Nat
      BY <1>4, <2>1, <2>8, <3>1, <3>2
    <3>4. Len(pos(g)) > 1
      BY <3>3
    <3> QED
      BY <1>7, <2>1, <3>4
  <2> QED
    BY <1>7, <2>1, <2>4, <2>5, <2>6, <2>7, <2>8
<1>10. ASSUME NEW g \in DOMAIN gs, NEW h \in DOMAIN gs, SameGroup(l[heads[g]], l[heads[h]])
       PROVE  g = h
  <2>1. heads[g] \in Firsts(l) /\ heads[h] \in Firsts(l) /\ heads[g] \in 1..n /\ heads[h] \in 1..n
    BY <1>1, <1>2, <1>3, <1>8
  <2>2. heads[h] \in Alike(l, heads[g]) /\ heads[g] \in Alike(l, heads[h])
    BY <1>1, <1>10, <2>1 DEF Alike, SameGroup
  <2>3. heads[g] <= heads[h] /\ heads[h] <= heads[g]
    BY <1>3, <2>1, <2>2
  <2>4. heads[g] = heads[h]
    BY <2>1, <2>3
  <2> QED
    BY <1>2, <1>8, <2>4
<1>11. ASSUME NEW i \in DOMAIN l PROVE \E g \in DOMAIN gs : SameGroup(l[heads[g]], l[i])
  <2>1. Alike(l, i) \in SUBSET Nat /\ Alike(l, i) # {}
    BY <1>1 DEF Alike, SameGroup
  <2> DEFINE m == Min(Alike(l, i))
  <2>2. m \in Alike(l, i) /\ \A j \in Alike(l, i) : m <= j
    BY <2>1, MinIsLeast
  <2> HIDE DEF m
  <2>3. m \in DOMAIN l /\ SameGroup(l[m], l[i]) /\ Alike(l, m) = Alike(l, i)
    BY <2>2 DEF Alike, SameGroup
  <2>4. m \in Firsts(l)
    BY <2>2, <2>3 DEF Firsts
  <2> QED
    BY <1>2, <1>8, <2>3, <2>4
<1> QED
  BY <1>2, <1>6, <1>8, <1>9, <1>10, <1>11 DEF gs, WellGrouped

(***************************************************************************)
(* What a group is built to.                                               *)
(***************************************************************************)
(* The values of a merged set are those of the records of its type and     *)
(* name; addresses and texts are there once.                               *)
LEMMA MergedElements ==
  ASSUME NEW l, IsZoneList(l), NEW g \in DOMAIN GroupRecords(l),
         NEW h \in DOMAIN l, h = HeadOf(l, g), l[h].type \in Unmerged => Len(GroupRecords(l)[g]) = 1
  PROVE  LET vs == MergedValues(GroupRecords(l)[g]) IN
         /\ ToSet(vs) = UNION {ToSet(l[j].values) : j \in {i \in DOMAIN l : SameGroup(l[h], l[i])}}
         /\ BucketOf(l[h].type) \in Deduplicated => Cardinality(ToSet(vs)) = Len(vs)
<1> DEFINE group == GroupRecords(l)[g]
           V == UNION {Range(l[i].values) : i \in DOMAIN l}
           ss == [k \in DOMAIN group |-> group[k].values]
           all == FlattenSeq(ss)
           once == Dedupe(all)
           declared == UNION {ToSet(l[j].values) : j \in {i \in DOMAIN l : SameGroup(l[h], l[i])}}
           vs == MergedValues(group)
<1>1. /\ group \in Seq(Range(l)) /\ group # <<>> /\ DOMAIN group = 1..Len(group) /\ Len(group) \in Nat
      /\ \A k \in DOMAIN group : \E j \in DOMAIN l : group[k] = l[j] /\ SameGroup(l[h], l[j])
      /\ \A j \in DOMAIN l : SameGroup(l[h], l[j]) => \E k \in DOMAIN group : group[k] = l[j]
  <2>1. /\ group \in Seq(Range(l)) /\ group # <<>>
        /\ \A k \in DOMAIN group : \E j \in DOMAIN l : group[k] = l[j] /\ SameGroup(l[h], l[j])
        /\ \A j \in DOMAIN l : SameGroup(l[h], l[j]) => \E k \in DOMAIN group : group[k] = l[j]
    <3> DEFINE gs == GroupRecords(l)
    <3> HIDE DEF V, ss, all, once, declared, vs
    <3> USE DEF group
    <3>1. WellGrouped(l) /\ g \in DOMAIN gs
      BY GroupShape
    <3>2. /\ gs[g] \in Seq(Range(l)) /\ gs[g] # <<>>
          /\ \A k \in DOMAIN gs[g] :
               \E j \in DOMAIN l : gs[g][k] = l[j] /\ SameGroup(l[HeadOf(l, g)], l[j])
          /\ \A j \in DOMAIN l : SameGroup(l[HeadOf(l, g)], l[j]) =>
               \E k \in DOMAIN gs[g] : gs[g][k] = l[j]
      BY <3>1 DEF WellGrouped
    <3> HIDE DEF gs
    <3> QED
      BY <3>2 DEF gs
  <2> HIDE DEF group
  <2> QED
    BY <2>1, SequenceElements
<1> HIDE DEF group
<1>2. /\ Head(group).type = l[h].type
      /\ \A j \in DOMAIN l : l[j].values \in Seq(V)
  <2>1. Head(group) = group[1] /\ 1 \in DOMAIN group
    BY <1>1
  <2>2. \A j \in DOMAIN l : l[j].values \in Seq(Range(l[j].values)) /\ Range(l[j].values) \subseteq V
    BY DEF IsZoneList
  <2>3. \A j \in DOMAIN l : l[j].values \in Seq(V)
    BY <2>2, SequenceIn
  <2> QED
    BY <1>1, <2>1, <2>3 DEF SameGroup
<1> HIDE DEF V
<1>3. ss \in Seq(Seq(V)) /\ DOMAIN ss = DOMAIN group /\ \A k \in DOMAIN group : ss[k] = group[k].values
  <2>1. \A k \in DOMAIN group : group[k].values \in Seq(V)
    BY <1>1, <1>2
  <2>2. \A k \in DOMAIN group : ss[k] = group[k].values
    OBVIOUS
  <2> QED
    BY <1>1, <2>1, <2>2
<1> HIDE DEF ss
<1>4. /\ all \in Seq(V)
      /\ \A i \in DOMAIN all : \E j \in DOMAIN ss : \E k \in DOMAIN ss[j] : ss[j][k] = all[i]
      /\ \A j \in DOMAIN ss : \A k \in DOMAIN ss[j] : \E i \in DOMAIN all : all[i] = ss[j][k]
  BY <1>3, FlattenElements
<1> HIDE DEF all
<1>5. DOMAIN all = 1..Len(all) /\ Len(all) \in Nat
  BY <1>4, SequenceElements
<1>6. ToSet(all) = declared
  <2>1. ASSUME NEW i \in DOMAIN all PROVE all[i] \in declared
    <3>1. PICK k \in DOMAIN group : \E m \in DOMAIN group[k].values : group[k].values[m] = all[i]
      <4>1. PICK k \in DOMAIN ss : \E m \in DOMAIN ss[k] : ss[k][m] = all[i]
        BY <1>4
      <4>2. k \in DOMAIN group /\ ss[k] = group[k].values
        BY <1>3
      <4> QED
        BY <4>1, <4>2
    <3>2. PICK j \in DOMAIN l : group[k] = l[j] /\ SameGroup(l[h], l[j])
      BY <1>1
    <3>3. all[i] \in ToSet(l[j].values)
      BY <3>1, <3>2 DEF ToSet
    <3> QED
      BY <3>2, <3>3
  <2>2. ASSUME NEW j \in DOMAIN l, SameGroup(l[h], l[j]), NEW m \in DOMAIN l[j].values
        PROVE  l[j].values[m] \in ToSet(all)
    <3>1. PICK k \in DOMAIN group : group[k] = l[j]
      BY <1>1, <2>2
    <3>2. ss[k] = l[j].values /\ k \in DOMAIN ss
      BY <1>3, <3>1
    <3> QED
      BY <1>4, <3>2 DEF ToSet
  <2> QED
    BY <2>1, <2>2 DEF ToSet
<1> HIDE DEF declared
<1>7. /\ once \in Seq(V) /\ DOMAIN once = 1..Len(once) /\ Len(once) \in Nat
      /\ ToSet(once) = ToSet(all)
      /\ \A j, k \in DOMAIN once : once[j] = once[k] => j = k
  BY <1>4, DedupeElements
<1> HIDE DEF once
<1>8. vs = IF l[h].type \in Deduplicated THEN once ELSE all
  BY <1>2 DEF MergedValues, AllValues, all, ss, once
<1>9. ToSet(vs) = declared
  BY <1>6, <1>7, <1>8
<1>10. ASSUME BucketOf(l[h].type) \in Deduplicated PROVE Cardinality(ToSet(vs)) = Len(vs)
  <2>1. CASE l[h].type \in Deduplicated
    <3>1. vs = once
      BY <1>8, <2>1
    <3>2. once = [i \in 1..Len(once) |-> once[i]]
      BY <1>7
    <3> HIDE DEF vs
    <3> QED
      BY <1>7, <3>1, <3>2, ApartCardinality
  <2>2. CASE l[h].type \notin Deduplicated
    <3>1. vs = all
      BY <1>8, <2>2
    <3>2. l[h].type \in Unmerged
      BY <1>10, <2>2 DEF BucketOf, Unmerged, AliasTypes, Deduplicated, Addresses
    <3>3. Len(group) = 1 /\ DOMAIN group = {1}
      BY <1>1, <3>2 DEF group
    <3>4. PICK j \in DOMAIN l : group[1] = l[j] /\ SameGroup(l[h], l[j])
      BY <1>1, <3>3
    <3>5. Len(l[j].values) <= 1
      BY <3>2, <3>4 DEF IsZoneList, SameGroup
    <3>6. Len(ss) = 1 /\ ss[1] = l[j].values /\ ss \in Seq(Seq(V)) /\ ss # <<>>
      <4>1. ss \in Seq(Seq(V)) /\ DOMAIN ss = {1}
        BY <1>3, <3>3
      <4>2. Len(ss) = 1
        BY <4>1
      <4>3. ss[1] = l[j].values
        BY <1>3, <3>4, <4>1
      <4>4. ss # <<>>
        <5>1. 1 \in DOMAIN ss /\ 1 \notin DOMAIN <<>>
          BY <4>1
        <5> QED
          BY <5>1
      <4> QED
        BY <4>1, <4>2, <4>3, <4>4
    <3>7. all = l[j].values
      BY <3>6, FlattenDefined DEF all
    <3>8. \A a, b \in DOMAIN all : all[a] = all[b] => a = b
      BY <1>5, <3>5, <3>7
    <3>9. all = [i \in 1..Len(all) |-> all[i]]
      BY <1>4
    <3> HIDE DEF vs
    <3> QED
      BY <1>5, <3>1, <3>8, <3>9, ApartCardinality
  <2> QED
    BY <2>1, <2>2
<1> QED
  BY <1>9, <1>10 DEF declared, group

(* The first record of a group is one of those of its type and name.       *)
LEMMA GroupHead ==
  ASSUME NEW l, IsZoneList(l), NEW g \in DOMAIN GroupRecords(l)
  PROVE  /\ HeadOf(l, g) \in DOMAIN l
         /\ \E j \in DOMAIN l : /\ Head(GroupRecords(l)[g]) = l[j]
                              /\ SameGroup(l[HeadOf(l, g)], l[j])
<1> DEFINE gs == GroupRecords(l)
<1>1. WellGrouped(l) /\ g \in DOMAIN gs
  BY GroupShape
<1>2. /\ HeadOf(l, g) \in DOMAIN l /\ gs[g] \in Seq(Range(l)) /\ gs[g] # <<>>
      /\ \A k \in DOMAIN gs[g] :
           \E j \in DOMAIN l : gs[g][k] = l[j] /\ SameGroup(l[HeadOf(l, g)], l[j])
  BY <1>1 DEF WellGrouped
<1> HIDE DEF gs
<1>3. Head(gs[g]) = gs[g][1] /\ 1 \in DOMAIN gs[g]
  BY <1>2
<1> QED
  BY <1>2, <1>3 DEF gs

(* Of one name and one type of record set, validateSpecs() lets only       *)
(* records of one type through.                                            *)
LEMMA BucketsApart ==
  ASSUME NEW l, ~Malformed(l), NEW i \in DOMAIN l, NEW j \in DOMAIN l,
         l[i].name = l[j].name, BucketOf(l[i].type) = BucketOf(l[j].type)
  PROVE  SameGroup(l[i], l[j])
<1>1. \A a, b \in DOMAIN l : l[a].type \in AliasTypes /\ l[a].name = l[b].name
                            => l[b].type # BucketOf(l[a].type)
  BY DEF Malformed
<1>2. CASE l[i].type \in AliasTypes
  BY <1>1, <1>2 DEF BucketOf, AliasTypes, SameGroup
<1>3. CASE l[j].type \in AliasTypes
  BY <1>1, <1>3 DEF BucketOf, AliasTypes, SameGroup
<1>4. CASE l[i].type \notin AliasTypes /\ l[j].type \notin AliasTypes
  BY <1>4 DEF BucketOf, AliasTypes, SameGroup
<1> QED
  BY <1>2, <1>3, <1>4

(***************************************************************************)
(* The loop over the groups.                                               *)
(***************************************************************************)
\* The groups before the k-th have been built, in scopes and ids of their own.
Processed(l, k, ss) ==
  /\ ss = {RecordSetOf(GroupRecords(l)[m]) : m \in 1..(k - 1)}
  /\ \A m \in 1..(k - 1) : GroupRefusal(GroupRecords(l)[m]) = "none"
  /\ \A m, n \in 1..(k - 1) :
       LET a == RecordSetOf(GroupRecords(l)[m])
           b == RecordSetOf(GroupRecords(l)[n])
       IN a.type = b.type /\ a.id = b.id => m = n
BuiltFrom(l, ss) == ~Malformed(l) /\ Processed(l, Len(GroupRecords(l)) + 1, ss)

OneSetEach(l, ss) ==
  /\ {TypeAndName(s) : s \in ss} = {<<BucketOf(l[i].type), l[i].name>> : i \in DOMAIN l}
  /\ \A s \in ss :
       /\ ToSet(s.values) = Declared(l, s.type, s.name)
       /\ s.type \in Deduplicated => Cardinality(ToSet(s.values)) = Len(s.values)
       /\ \A t \in ss : TypeAndName(s) = TypeAndName(t) => s = t

(* A list all groups of which were built has no contradiction: an alias    *)
(* beside an address is malformed, and of two of a kind one group refuses. *)
LEMMA BuiltMeansConsistent ==
  ASSUME NEW l, IsZoneList(l), NEW ss, BuiltFrom(l, ss)
  PROVE  ~Contradictory(l)
<1> DEFINE gs == GroupRecords(l)
<1> SUFFICES ASSUME NEW i \in DOMAIN l, NEW j \in DOMAIN l, i # j, l[i].name = l[j].name,
                    BucketOf(l[i].type) = BucketOf(l[j].type),
                    {l[i].type, l[j].type} \cap Unmerged # {}
             PROVE  FALSE
  BY DEF Contradictory
<1>1. SameGroup(l[i], l[j]) /\ l[i].type \in Unmerged
  <2>1. SameGroup(l[i], l[j])
    BY BucketsApart DEF BuiltFrom
  <2> QED
    BY <2>1 DEF SameGroup
<1>2. WellGrouped(l)
  BY GroupShape
<1>3. PICK g \in DOMAIN gs : SameGroup(l[HeadOf(l, g)], l[i])
  BY <1>2 DEF WellGrouped
<1>4. SameGroup(l[HeadOf(l, g)], l[j])
  BY <1>1, <1>3 DEF SameGroup
<1>5. Len(gs[g]) > 1 /\ DOMAIN gs = 1..Len(gs) /\ Len(gs) \in Nat
  BY <1>2, <1>3, <1>4 DEF WellGrouped
<1>6. PICK k \in DOMAIN l : Head(gs[g]) = l[k] /\ SameGroup(l[HeadOf(l, g)], l[k])
  BY GroupHead
<1>7. Head(gs[g]).type \in Unmerged
  BY <1>1, <1>3, <1>6 DEF SameGroup
<1>8. GroupRefusal(gs[g]) # "none"
  <2> HIDE DEF gs
  <2> QED
    BY <1>5, <1>7 DEF GroupRefusal
<1>9. g \in 1..(Len(gs) + 1 - 1)
  BY <1>5
<1> QED
  BY <1>8, <1>9 DEF BuiltFrom, Processed

(* A list all groups of which were built has one record set for each type  *)
(* and name.                                                               *)
LEMMA BuiltMeansOneEach ==
  ASSUME NEW l, IsZoneList(l), NEW ss, BuiltFrom(l, ss)
  PROVE  OneSetEach(l, ss)
<1> DEFINE gs == GroupRecords(l)
           h(g) == HeadOf(l, g)
           set(g) == RecordSetOf(gs[g])
<1>1. WellGrouped(l) /\ ~Malformed(l)
  BY GroupShape DEF BuiltFrom
<1>2. /\ DOMAIN gs = 1..Len(gs) /\ Len(gs) \in Nat
      /\ \A g, k \in DOMAIN gs : SameGroup(l[h(g)], l[h(k)]) => g = k
      /\ \A i \in DOMAIN l : \E g \in DOMAIN gs : SameGroup(l[h(g)], l[i])
  BY <1>1 DEF WellGrouped
<1>3. /\ ss = {set(g) : g \in DOMAIN gs}
      /\ \A g \in DOMAIN gs : GroupRefusal(gs[g]) = "none"
  <2>1. 1..(Len(gs) + 1 - 1) = DOMAIN gs
    BY <1>2
  <2> QED
    BY <2>1 DEF BuiltFrom, Processed
<1>4. ASSUME NEW g \in DOMAIN gs
      PROVE  /\ h(g) \in DOMAIN l
             /\ set(g).type = BucketOf(l[h(g)].type) /\ set(g).name = l[h(g)].name
             /\ set(g).values = MergedValues(gs[g])
             /\ l[h(g)].type \in Unmerged => Len(gs[g]) = 1
  <2>1. h(g) \in DOMAIN l
    BY GroupHead
  <2>2. PICK j \in DOMAIN l : Head(gs[g]) = l[j] /\ SameGroup(l[h(g)], l[j])
    BY GroupHead
  <2>3. gs[g] \in Seq(Range(l)) /\ gs[g] # <<>>
    BY <1>1 DEF WellGrouped
  <2>4. GroupRefusal(gs[g]) = "none"
    BY <1>3
  <2> HIDE DEF gs, h
  <2>5. set(g).type = BucketOf(l[h(g)].type) /\ set(g).name = l[h(g)].name
    BY <2>2 DEF RecordSetOf, SameGroup
  <2>6. set(g).values = MergedValues(gs[g])
    BY DEF RecordSetOf
  <2>7. ASSUME l[h(g)].type \in Unmerged PROVE Len(gs[g]) = 1
    <3>1. Head(gs[g]).type \in Unmerged
      BY <2>2, <2>7 DEF SameGroup
    <3>2. ~(Len(gs[g]) > 1)
      BY <2>4, <3>1 DEF GroupRefusal
    <3>3. \A s \in Seq(Range(l)) : s # <<>> => Len(s) \in Nat /\ Len(s) # 0
      OBVIOUS
    <3>4. Len(gs[g]) \in Nat /\ Len(gs[g]) # 0
      BY <2>3, <3>3
    <3>5. \A x \in Nat : x # 0 /\ ~(x > 1) => x = 1
      OBVIOUS
    <3> QED
      BY <3>2, <3>4, <3>5, Zenon
  <2> QED
    BY <2>1, <2>5, <2>6, <2>7
<1>5. ASSUME NEW g \in DOMAIN gs
      PROVE  /\ ToSet(set(g).values) = Declared(l, set(g).type, set(g).name)
             /\ set(g).type \in Deduplicated => Cardinality(ToSet(set(g).values)) = Len(set(g).values)
  <2>1. /\ ToSet(MergedValues(gs[g]))
             = UNION {ToSet(l[j].values) : j \in {i \in DOMAIN l : SameGroup(l[h(g)], l[i])}}
        /\ BucketOf(l[h(g)].type) \in Deduplicated
             => Cardinality(ToSet(MergedValues(gs[g]))) = Len(MergedValues(gs[g]))
    BY <1>4, MergedElements
  <2>2. {i \in DOMAIN l : SameGroup(l[h(g)], l[i])}
          = {j \in DOMAIN l : BucketOf(l[j].type) = set(g).type /\ l[j].name = set(g).name}
    <3>1. \A i \in DOMAIN l :
            BucketOf(l[i].type) = BucketOf(l[h(g)].type) /\ l[i].name = l[h(g)].name
              => SameGroup(l[h(g)], l[i])
      BY <1>1, <1>4, BucketsApart
    <3>2. \A i \in DOMAIN l : SameGroup(l[h(g)], l[i]) =>
            BucketOf(l[i].type) = BucketOf(l[h(g)].type) /\ l[i].name = l[h(g)].name
      BY DEF SameGroup
    <3> HIDE DEF gs, h, set
    <3> QED
      BY <1>4, <3>1, <3>2
  <2> HIDE DEF gs, h, set
  <2> QED
    BY <1>4, <2>1, <2>2 DEF Declared
<1>6. ASSUME NEW g \in DOMAIN gs, NEW k \in DOMAIN gs, TypeAndName(set(g)) = TypeAndName(set(k))
      PROVE  g = k
  <2>1. /\ l[h(g)].name = l[h(k)].name /\ BucketOf(l[h(g)].type) = BucketOf(l[h(k)].type)
        /\ h(g) \in DOMAIN l /\ h(k) \in DOMAIN l
    <3> HIDE DEF gs, h, set
    <3> QED
      BY <1>4, <1>6 DEF TypeAndName
  <2>2. SameGroup(l[h(g)], l[h(k)])
    BY <1>1, <2>1, BucketsApart
  <2> QED
    BY <1>2, <2>2
<1> HIDE DEF gs, h, set
<1>7. {TypeAndName(s) : s \in ss} = {<<BucketOf(l[i].type), l[i].name>> : i \in DOMAIN l}
  <2>1. \A g \in DOMAIN gs : TypeAndName(set(g)) = <<BucketOf(l[h(g)].type), l[h(g)].name>>
    BY <1>4 DEF TypeAndName
  <2>2. \A i \in DOMAIN l : \E g \in DOMAIN gs :
          <<BucketOf(l[i].type), l[i].name>> = <<BucketOf(l[h(g)].type), l[h(g)].name>>
    BY <1>2 DEF SameGroup
  <2> QED
    BY <1>3, <1>4, <2>1, <2>2
<1> QED
  BY <1>3, <1>5, <1>6, <1>7 DEF OneSetEach

(***************************************************************************)
(* The same records in another order.                                      *)
(***************************************************************************)
(* A list of records of a list is one of records.                          *)
LEMMA SubList ==
  ASSUME NEW l, IsZoneList(l), NEW m \in Seq(Range(l))
  PROVE  IsZoneList(m)
<1>1. DOMAIN m = 1..Len(m) /\ Len(m) \in Nat /\ \A i \in DOMAIN m : m[i] \in Range(l)
  BY SequenceElements
<1>2. \A i \in DOMAIN m : \E j \in DOMAIN l : m[i] = l[j]
  BY <1>1 DEF Range
<1>3. m \in Seq(Range(m))
  <2>1. m = [i \in 1..Len(m) |-> m[i]]
    OBVIOUS
  <2>2. \A i \in 1..Len(m) : m[i] \in Range(m)
    BY <1>1 DEF Range
  <2> QED
    BY <1>1, <2>1, <2>2
<1> QED
  BY <1>2, <1>3 DEF IsZoneList

(* A list that is left a record short.                                     *)
LEMMA Shortened ==
  ASSUME NEW l, IsZoneList(l), NEW i \in DOMAIN l
  PROVE  IsZoneList(RemoveAt(l, i))
<1>1. l \in Seq(Range(l)) /\ i \in 1..Len(l) /\ Len(l) \in Nat
  BY ListPositions DEF IsZoneList
<1>2. SubSeq(l, 1, i - 1) \in Seq(Range(l)) /\ SubSeq(l, i + 1, Len(l)) \in Seq(Range(l))
  BY <1>1
<1>3. RemoveAt(l, i) \in Seq(Range(l))
  BY <1>2 DEF RemoveAt
<1> QED
  BY <1>3, SubList

(* The reversed list has the same records, each at a position of its own.  *)
LEMMA Reversed ==
  ASSUME NEW l, IsZoneList(l), NEW m, m = Reverse(l)
  PROVE  /\ IsZoneList(m)
         /\ \A i \in DOMAIN l : \E j \in DOMAIN m : m[j] = l[i]
         /\ \A i \in DOMAIN m : Len(l) - i + 1 \in DOMAIN l /\ m[i] = l[Len(l) - i + 1]
         /\ \A i, j \in DOMAIN m : i # j => Len(l) - i + 1 # Len(l) - j + 1
<1> DEFINE n == Len(l)
<1>1. l \in Seq(Range(l)) /\ DOMAIN l = 1..n /\ n \in Nat
  BY ListPositions DEF IsZoneList
<1>2. m = [i \in 1..n |-> l[n - i + 1]]
  BY DEF Reverse
<1> HIDE DEF n
<1>3. \A i \in 1..n : n - i + 1 \in 1..n /\ n - (n - i + 1) + 1 = i
  BY <1>1
<1>4. DOMAIN m = 1..n /\ \A i \in 1..n : m[i] = l[n - i + 1]
  BY <1>2
<1>5. \A i \in DOMAIN l : m[n - i + 1] = l[i] /\ n - i + 1 \in DOMAIN m
  BY <1>1, <1>3, <1>4
<1>6. \A i \in 1..n : l[n - i + 1] \in Range(l)
  BY <1>1, <1>3 DEF Range
<1>7. m \in Seq(Range(l))
  BY <1>1, <1>2, <1>6
<1>8. IsZoneList(m)
  BY <1>7, SubList
<1>9. \A i, j \in 1..n : i # j => n - i + 1 # n - j + 1
  BY <1>1
<1>10. \A i \in DOMAIN l : \E j \in DOMAIN m : m[j] = l[i]
  BY <1>5
<1>11. \A i \in DOMAIN m : n - i + 1 \in DOMAIN l /\ m[i] = l[n - i + 1]
  BY <1>1, <1>3, <1>4
<1> QED
  BY <1>4, <1>8, <1>9, <1>10, <1>11 DEF n

\* Every group can be built, whichever of the others have been.
Buildable(l) ==
  /\ ~Malformed(l)
  /\ \A g \in DOMAIN GroupRecords(l) : GroupRefusal(GroupRecords(l)[g]) = "none"
  /\ \A g, k \in DOMAIN GroupRecords(l) :
       LET a == RecordSetOf(GroupRecords(l)[g])
           b == RecordSetOf(GroupRecords(l)[k])
       IN a.type = b.type /\ a.id = b.id => g = k

(* A list that was built is buildable.                                     *)
LEMMA BuiltIsBuildable ==
  ASSUME NEW l, IsZoneList(l), NEW ss, BuiltFrom(l, ss)
  PROVE  Buildable(l)
<1> DEFINE gs == GroupRecords(l)
<1>1. DOMAIN gs = 1..Len(gs) /\ Len(gs) \in Nat
  BY GroupShape DEF WellGrouped
<1>2. 1..(Len(gs) + 1 - 1) = DOMAIN gs
  BY <1>1
<1> QED
  BY <1>2 DEF BuiltFrom, Processed, Buildable

(* What is refused of a group, and the id it gets, without explicit ids.   *)
LEMMA WithoutIds ==
  ASSUME NEW l, IsZoneList(l), \A i \in DOMAIN l : l[i].id = "none",
         NEW g \in DOMAIN GroupRecords(l)
  PROVE  LET r == l[HeadOf(l, g)]
             group == GroupRecords(l)[g]
         IN /\ HeadOf(l, g) \in DOMAIN l
            /\ Head(group).type = r.type /\ Head(group).name = r.name /\ KeyOf(group) = r.name
            /\ RecordSetOf(group).type = BucketOf(r.type)
            /\ RecordSetOf(group).id = ChildId(group)
<1> DEFINE group == GroupRecords(l)[g]
<1>1. PICK j \in DOMAIN l : Head(group) = l[j] /\ SameGroup(l[HeadOf(l, g)], l[j])
  BY GroupHead
<1>2. HeadOf(l, g) \in DOMAIN l
  BY GroupHead
<1>3. l[j].id = "none"
  OBVIOUS
<1> HIDE DEF group
<1>4. KeyOf(group) = l[HeadOf(l, g)].name
  BY <1>1, <1>3 DEF KeyOf, SameGroup
<1> QED
  BY <1>1, <1>2, <1>4 DEF SameGroup, RecordSetOf, group

(* Without explicit ids, what can be built in one order can be built in    *)
(* the other: each group has a counterpart of the same type and name.      *)
LEMMA ReversedBuildable ==
  ASSUME NEW l, IsZoneList(l), Buildable(l), \A i \in DOMAIN l : l[i].id = "none",
         NEW m, m = Reverse(l)
  PROVE  Buildable(m)
<1> DEFINE gs == GroupRecords(l)
           hs == GroupRecords(m)
           back(i) == Len(l) - i + 1
           r(g) == l[HeadOf(l, g)]
           q(g) == m[HeadOf(m, g)]
<1>1. /\ IsZoneList(m) /\ WellGrouped(l) /\ WellGrouped(m)
      /\ \A i \in DOMAIN m : back(i) \in DOMAIN l /\ m[i] = l[back(i)]
      /\ \A i, j \in DOMAIN m : i # j => back(i) # back(j)
  BY Reversed, GroupShape
<1> HIDE DEF back
<1>2. \A i \in DOMAIN m : m[i].id = "none"
  BY <1>1
<1>3. ~Malformed(m)
  <2>1. \A i \in DOMAIN l : ~(l[i].type \in Addresses \cup Literal /\ l[i].values = <<>>)
    BY DEF Buildable, Malformed
  <2>2. \A i, j \in DOMAIN l : ~(/\ l[i].type \in AliasTypes /\ l[j].type = BucketOf(l[i].type)
                                 /\ l[i].name = l[j].name)
    BY DEF Buildable, Malformed
  <2> QED
    BY <1>1, <2>1, <2>2 DEF Malformed
<1>4. ASSUME NEW g \in DOMAIN gs
      PROVE  /\ Head(gs[g]).type = r(g).type /\ Head(gs[g]).name = r(g).name
             /\ KeyOf(gs[g]) = r(g).name
             /\ RecordSetOf(gs[g]).type = BucketOf(r(g).type)
             /\ RecordSetOf(gs[g]).id = ChildId(gs[g])
  BY WithoutIds
<1>5. ASSUME NEW g \in DOMAIN hs
      PROVE  /\ HeadOf(m, g) \in DOMAIN m
             /\ Head(hs[g]).type = q(g).type /\ Head(hs[g]).name = q(g).name
             /\ KeyOf(hs[g]) = q(g).name
             /\ RecordSetOf(hs[g]).type = BucketOf(q(g).type)
             /\ RecordSetOf(hs[g]).id = ChildId(hs[g])
  BY <1>1, <1>2, WithoutIds
<1>6. ASSUME NEW g \in DOMAIN hs PROVE \E k \in DOMAIN gs : SameGroup(r(k), q(g))
  <2>1. back(HeadOf(m, g)) \in DOMAIN l /\ q(g) = l[back(HeadOf(m, g))]
    BY <1>1, <1>5
  <2> QED
    BY <1>1, <2>1 DEF WellGrouped
<1>7. ASSUME NEW g \in DOMAIN hs, NEW k \in DOMAIN gs, SameGroup(r(k), q(g)), Len(hs[g]) > 1
      PROVE  Len(gs[k]) > 1
  <2>1. PICK i, j \in DOMAIN m : i # j /\ SameGroup(q(g), m[i]) /\ SameGroup(q(g), m[j])
    BY <1>1, <1>7 DEF WellGrouped
  <2>2. /\ back(i) # back(j) /\ back(i) \in DOMAIN l /\ back(j) \in DOMAIN l
        /\ m[i] = l[back(i)] /\ m[j] = l[back(j)]
    BY <1>1, <2>1
  <2>3. SameGroup(r(k), l[back(i)]) /\ SameGroup(r(k), l[back(j)])
    BY <1>7, <2>1, <2>2 DEF SameGroup
  <2> QED
    BY <1>1, <2>2, <2>3 DEF WellGrouped
<1>8. ASSUME NEW g \in DOMAIN hs PROVE GroupRefusal(hs[g]) = "none"
  <2>1. PICK k \in DOMAIN gs : SameGroup(r(k), q(g))
    BY <1>6
  <2>2. GroupRefusal(gs[k]) = "none"
    BY DEF Buildable
  <2>3. Len(hs[g]) > 1 => Len(gs[k]) > 1
    BY <1>7, <2>1
  <2>4. /\ Head(hs[g]).type = Head(gs[k]).type /\ Head(hs[g]).name = Head(gs[k]).name
        /\ KeyOf(hs[g]) = KeyOf(gs[k])
    BY <1>4, <1>5, <2>1 DEF SameGroup
  <2> HIDE DEF gs, hs
  <2> QED
    BY <2>2, <2>3, <2>4 DEF GroupRefusal
<1>9. ASSUME NEW g \in DOMAIN hs, NEW k \in DOMAIN hs,
             RecordSetOf(hs[g]).type = RecordSetOf(hs[k]).type,
             RecordSetOf(hs[g]).id = RecordSetOf(hs[k]).id
      PROVE  g = k
  <2>1. PICK a \in DOMAIN gs : SameGroup(r(a), q(g))
    BY <1>6
  <2>2. PICK b \in DOMAIN gs : SameGroup(r(b), q(k))
    BY <1>6
  <2>3. KeyOf(gs[a]) = KeyOf(hs[g]) /\ KeyOf(gs[b]) = KeyOf(hs[k])
    BY <1>4, <1>5, <2>1, <2>2 DEF SameGroup
  <2>4. ChildId(gs[a]) = ChildId(hs[g]) /\ ChildId(gs[b]) = ChildId(hs[k])
    BY <2>3 DEF ChildId
  <2>5. /\ RecordSetOf(gs[a]).type = RecordSetOf(hs[g]).type
        /\ RecordSetOf(gs[b]).type = RecordSetOf(hs[k]).type
    BY <1>4, <1>5, <2>1, <2>2 DEF SameGroup
  <2>6. a = b
    <3>1. RecordSetOf(gs[a]).id = RecordSetOf(gs[b]).id
      BY <1>4, <1>5, <1>9, <2>4
    <3> QED
      BY <1>9, <2>5, <3>1 DEF Buildable
  <2>7. SameGroup(q(g), q(k))
    BY <2>1, <2>2, <2>6 DEF SameGroup
  <2> QED
    BY <1>1, <2>7 DEF WellGrouped
<1> QED
  BY <1>3, <1>8, <1>9 DEF Buildable

(* Record sets that are those of both orders have the same contents.       *)
LEMMA ReversedContents ==
  ASSUME NEW l, IsZoneList(l), NEW m, m = Reverse(l), NEW ss, OneSetEach(l, ss),
         NEW tt, OneSetEach(m, tt)
  PROVE  Contents(tt) = Contents(ss)
<1>1. /\ \A i \in DOMAIN l : \E j \in DOMAIN m : m[j] = l[i]
      /\ \A i \in DOMAIN m : \E j \in DOMAIN l : m[i] = l[j]
  BY Reversed
<1>2. \A type, name : Declared(l, type, name) = Declared(m, type, name)
  BY <1>1 DEF Declared
<1>3. {TypeAndName(s) : s \in ss} = {TypeAndName(s) : s \in tt}
  <2>1. {<<BucketOf(l[i].type), l[i].name>> : i \in DOMAIN l}
          = {<<BucketOf(m[i].type), m[i].name>> : i \in DOMAIN m}
    BY <1>1
  <2> QED
    BY <2>1 DEF OneSetEach
<1>4. \A s \in ss : \E t \in tt : s.type = t.type /\ s.name = t.name
  <2> TAKE s \in ss
  <2>1. TypeAndName(s) \in {TypeAndName(t) : t \in tt}
    BY <1>3
  <2> QED
    BY <2>1 DEF TypeAndName
<1>5. \A t \in tt : \E s \in ss : s.type = t.type /\ s.name = t.name
  <2> TAKE t \in tt
  <2>1. TypeAndName(t) \in {TypeAndName(s) : s \in ss}
    BY <1>3
  <2> QED
    BY <2>1 DEF TypeAndName
<1>6. /\ \A s \in ss : ToSet(s.values) = Declared(l, s.type, s.name)
      /\ \A t \in tt : ToSet(t.values) = Declared(m, t.type, t.name)
  BY DEF OneSetEach
<1>7. \A s \in ss, t \in tt : s.type = t.type /\ s.name = t.name =>
        <<s.type, s.name, ToSet(s.values)>> = <<t.type, t.name, ToSet(t.values)>>
  BY <1>2, <1>6
<1> QED
  BY <1>4, <1>5, <1>7 DEF Contents

(***************************************************************************)
(* The inductive invariant.                                                *)
(***************************************************************************)
\* The groups that are left are those from the k-th on.
Remaining(l, k, todo) ==
  LET gs == GroupRecords(l) IN
  /\ todo \in Seq(Seq(Range(l))) /\ Len(todo) + k = Len(gs) + 1
  /\ \A i \in 1..Len(todo) : todo[i] = gs[k - 1 + i]

Looping ==
  /\ ~Malformed(list)
  /\ \E k \in 1..(Len(GroupRecords(list)) + 1) :
       Remaining(list, k, groups) /\ Processed(list, k, sets)

\* The first build in a scope makes the builder's construct unless it is
\* refused early.
Rooting ==
  phase = "thrown" /\ earlier = <<>> => (cause \in {"zoneless", "malformed"} <=> ~rooted)

EarlierBuild ==
  earlier # <<>> =>
    /\ phase # "idle" /\ IsZoneList(earlier[1].list)
    /\ earlier[1].how = "reordered" => list = Reverse(earlier[1].list)
    /\ earlier[1].cause = "none" => BuiltFrom(earlier[1].list, earlier[1].sets)

OrderRefusals ==
  Reordered /\ NoExplicitIds /\ phase = "thrown" => cause \in {"zoneless", "target"}

ZoneInv ==
  /\ ZoneTypeOK /\ rooted \in BOOLEAN
  /\ phase # "idle" => IsZoneList(list)
  /\ phase \in {"groups", "built"} => Looping
  /\ phase = "built" => groups = <<>>
  /\ Rooting /\ EarlierBuild /\ OrderRefusals
  /\ RetryAfterEarlyRefusalOnly

(* The loop starts with all groups.                                        *)
LEMMA AllRemain ==
  ASSUME NEW l, IsZoneList(l)
  PROVE  /\ 1 \in 1..(Len(GroupRecords(l)) + 1)
         /\ Remaining(l, 1, GroupRecords(l)) /\ Processed(l, 1, {})
<1> DEFINE gs == GroupRecords(l)
<1>1. DOMAIN gs = 1..Len(gs) /\ Len(gs) \in Nat /\ gs \in Seq(Seq(Range(l)))
  BY GroupShape DEF WellGrouped
<1> HIDE DEF gs
<1>2. Len(gs) + 1 = Len(gs) + 1 /\ \A i \in 1..Len(gs) : 1 - 1 + i = i
  BY <1>1
<1>3. 1 \in 1..(Len(gs) + 1) /\ 1..(1 - 1) = {}
  BY <1>1
<1>4. \A i \in 1..Len(gs) : gs[i] = gs[1 - 1 + i]
  BY <1>2
<1> QED
  BY <1>1, <1>3, <1>4 DEF Remaining, Processed, gs

(* The loop goes on to the next group.                                     *)
LEMMA OneBuilt ==
  ASSUME NEW l, IsZoneList(l), NEW k \in 1..(Len(GroupRecords(l)) + 1), NEW todo, NEW ss,
         Remaining(l, k, todo), Processed(l, k, ss), todo # <<>>
  PROVE  /\ k \in DOMAIN GroupRecords(l) /\ Head(todo) = GroupRecords(l)[k]
         /\ k + 1 \in 1..(Len(GroupRecords(l)) + 1)
         /\ Remaining(l, k + 1, Tail(todo))
         /\ (/\ GroupRefusal(Head(todo)) = "none"
             /\ ~ \E s \in ss : /\ s.type = RecordSetOf(Head(todo)).type
                                /\ s.id = RecordSetOf(Head(todo)).id)
              => Processed(l, k + 1, ss \cup {RecordSetOf(Head(todo))})
<1> DEFINE gs == GroupRecords(l)
<1>1. DOMAIN gs = 1..Len(gs) /\ Len(gs) \in Nat /\ k \in Nat /\ k >= 1
  BY GroupShape DEF WellGrouped
<1>2. todo \in Seq(Seq(Range(l))) /\ Len(todo) + k = Len(gs) + 1
      /\ \A i \in 1..Len(todo) : todo[i] = gs[k - 1 + i]
  BY DEF Remaining
<1>3. /\ Processed(l, k, ss)
      /\ ss = {RecordSetOf(gs[m]) : m \in 1..(k - 1)}
      /\ \A m \in 1..(k - 1) : GroupRefusal(gs[m]) = "none"
      /\ \A m, n \in 1..(k - 1) :
           RecordSetOf(gs[m]).type = RecordSetOf(gs[n]).type
             /\ RecordSetOf(gs[m]).id = RecordSetOf(gs[n]).id => m = n
  BY DEF Processed
<1> HIDE DEF gs
<1>4. Len(todo) \in Nat /\ Len(todo) # 0 /\ Head(todo) = todo[1] /\ 1 \in 1..Len(todo)
  BY <1>2
<1>5. k \in 1..Len(gs) /\ k - 1 + 1 = k
  BY <1>1, <1>2, <1>4
<1>6. Head(todo) = gs[k]
  BY <1>2, <1>4, <1>5
<1>7. /\ Tail(todo) \in Seq(Seq(Range(l))) /\ Len(Tail(todo)) = Len(todo) - 1
      /\ \A i \in 1..(Len(todo) - 1) : Tail(todo)[i] = todo[i + 1]
  BY <1>2, <1>4
<1>8. Remaining(l, k + 1, Tail(todo))
  <2>1. Len(Tail(todo)) + (k + 1) = Len(gs) + 1
    <3>1. \A a, b, c \in Nat : a + k = c + 1 /\ b = a - 1 => b + (k + 1) = c + 1
      BY <1>1
    <3>2. Len(Tail(todo)) \in Nat
      BY <1>4, <1>7
    <3> QED
      BY <1>1, <1>2, <1>4, <1>7, <3>1, <3>2, Zenon
  <2>2. ASSUME NEW i \in 1..Len(Tail(todo)) PROVE Tail(todo)[i] = gs[k + 1 - 1 + i]
    <3>1. i + 1 \in 1..Len(todo) /\ i \in 1..(Len(todo) - 1) /\ k - 1 + (i + 1) = k + 1 - 1 + i
      BY <1>1, <1>4, <1>7
    <3> QED
      BY <1>2, <1>7, <3>1
  <2> QED
    BY <1>7, <2>1, <2>2 DEF Remaining, gs
<1>9. ASSUME GroupRefusal(Head(todo)) = "none",
             ~ \E s \in ss : /\ s.type = RecordSetOf(Head(todo)).type
                             /\ s.id = RecordSetOf(Head(todo)).id
      PROVE  Processed(l, k + 1, ss \cup {RecordSetOf(Head(todo))})
  <2>1. 1..(k + 1 - 1) = (1..(k - 1)) \cup {k} /\ k \notin 1..(k - 1)
    BY <1>1
  <2>2. ss \cup {RecordSetOf(Head(todo))} = {RecordSetOf(gs[m]) : m \in 1..(k + 1 - 1)}
    BY <1>3, <1>6, <2>1
  <2>3. \A m \in 1..(k + 1 - 1) : GroupRefusal(gs[m]) = "none"
    BY <1>3, <1>6, <1>9, <2>1
  <2>4. \A m \in 1..(k - 1) : ~(/\ RecordSetOf(gs[m]).type = RecordSetOf(gs[k]).type
                                /\ RecordSetOf(gs[m]).id = RecordSetOf(gs[k]).id)
    BY <1>3, <1>6, <1>9
  <2>5. \A m, n \in 1..(k + 1 - 1) :
          RecordSetOf(gs[m]).type = RecordSetOf(gs[n]).type
            /\ RecordSetOf(gs[m]).id = RecordSetOf(gs[n]).id => m = n
    BY <1>3, <2>1, <2>4
  <2> QED
    <3> DEFINE j == k + 1
               tt == ss \cup {RecordSetOf(Head(todo))}
    <3>1. tt = {RecordSetOf(gs[m]) : m \in 1..(j - 1)}
      BY <2>2
    <3>2. \A m \in 1..(j - 1) : GroupRefusal(gs[m]) = "none"
      BY <2>3
    <3>3. \A m, n \in 1..(j - 1) :
            LET a == RecordSetOf(gs[m])
                b == RecordSetOf(gs[n])
            IN a.type = b.type /\ a.id = b.id => m = n
      BY <2>5
    <3> HIDE DEF j, tt
    <3>4. Processed(l, j, tt)
      BY <3>1, <3>2, <3>3, Zenon DEF Processed, gs
    <3> QED
      BY <3>4 DEF j, tt
<1>10. k + 1 \in 1..(Len(gs) + 1)
  BY <1>1, <1>5
<1> QED
  BY <1>1, <1>5, <1>6, <1>8, <1>9, <1>10 DEF gs

(* When no group is left the list was built.                               *)
LEMMA AllBuilt ==
  ASSUME IsZoneList(list), Looping, groups = <<>>
  PROVE  BuiltFrom(list, sets)
<1>1. PICK k \in 1..(Len(GroupRecords(list)) + 1) :
        Remaining(list, k, groups) /\ Processed(list, k, sets)
  BY DEF Looping
<1>2. Len(groups) + k = Len(GroupRecords(list)) + 1 /\ Len(groups) = 0
  BY <1>1 DEF Remaining
<1>3. k = Len(GroupRecords(list)) + 1
  BY <1>2
<1> QED
  BY <1>1, <1>3 DEF BuiltFrom, Looping

(* What a call of build() leaves, whatever ran before it.                  *)
LEMMA CallLeaves ==
  ASSUME NEW l, IsZoneList(l), NEW taken \in BOOLEAN, CallZoneBuild(l, taken)
  PROVE  /\ list' = l /\ IsZoneList(list') /\ phase' \in {"groups", "thrown"}
         /\ (phase' = "thrown") = (cause' # "none")
         /\ phase' = "groups" => rooted' /\ Looping' /\ ~taken
         /\ phase' = "thrown" => /\ rooted' = taken
                                 /\ cause' \in {"zoneless", "malformed", "taken"}
                                 /\ cause' = "malformed" => Malformed(l)
                                 /\ cause' = "taken" => taken
<1>1. list' = l /\ sets' = {} /\ groups' = GroupRecords(l)
  BY DEF CallZoneBuild
<1>2. ASSUME phase' = "groups" PROVE Looping'
  <2>1. ~Malformed(l)
    BY <1>2 DEF CallZoneBuild, ZoneThrows
  <2>2. /\ 1 \in 1..(Len(GroupRecords(l)) + 1)
        /\ Remaining(l, 1, GroupRecords(l)) /\ Processed(l, 1, {})
    BY AllRemain
  <2> QED
    BY <1>1, <2>1, <2>2 DEF Looping
<1>3. /\ phase' \in {"groups", "thrown"} /\ (phase' = "thrown") = (cause' # "none")
      /\ phase' = "groups" => rooted' /\ ~taken
      /\ phase' = "thrown" => /\ rooted' = taken
                              /\ cause' \in {"zoneless", "malformed", "taken"}
                              /\ cause' = "malformed" => Malformed(l)
                              /\ cause' = "taken" => taken
  BY DEF CallZoneBuild, ZoneThrows
<1> QED
  BY <1>1, <1>2, <1>3

(* What throws out of a record builder.                                    *)
LEMMA GroupCauses ==
  ASSUME NEW group
  PROVE  GroupRefusal(group) \in {"none", "tokenName", "declaredTwice", "atApex"}
BY Zenon DEF GroupRefusal

(* The list of a reordered build without explicit ids can be built.        *)
LEMMA ReorderedBuildable ==
  ASSUME NEW l, IsZoneList(l), NEW ss, BuiltFrom(l, ss), NEW m, m = Reverse(l),
         \A i \in DOMAIN m : m[i].id = "none"
  PROVE  Buildable(m)
<1>1. \A i \in DOMAIN l : \E j \in DOMAIN m : m[j] = l[i]
  BY Reversed
<1>2. \A i \in DOMAIN l : l[i].id = "none"
  BY <1>1
<1> QED
  BY <1>2, BuiltIsBuildable, ReversedBuildable

(* No record yet.                                                          *)
LEMMA ZoneInit == NoZone => ZoneInv
<1> SUFFICES ASSUME NoZone PROVE ZoneInv
  OBVIOUS
<1>1. /\ groups = <<>> /\ phase = "idle" /\ cause = "none" /\ rooted = FALSE
      /\ earlier = <<>> /\ Len(earlier) = 0
  BY DEF NoZone
<1>2. ZoneTypeOK /\ rooted \in BOOLEAN
  <2>1. phase \in {"idle", "groups", "built", "thrown"} /\ ~(phase = "thrown") /\ ~(cause # "none")
    BY <1>1
  <2>2. Len(earlier) <= 1 /\ (phase = "groups" => rooted)
    BY <1>1
  <2>3. rooted \in BOOLEAN
    BY <1>1
  <2> QED
    BY <2>1, <2>2, <2>3 DEF ZoneTypeOK
<1>3. Rooting /\ EarlierBuild /\ OrderRefusals /\ RetryAfterEarlyRefusalOnly
  BY <1>1 DEF Rooting, EarlierBuild, OrderRefusals, Reordered, RetryAfterEarlyRefusalOnly
<1> QED
  BY <1>1, <1>2, <1>3 DEF ZoneInv

(* The first call of build().                                              *)
LEMMA FirstKeepsInv == ASSUME ZoneInv, FirstZoneBuild PROVE ZoneInv'
<1>1. PICK l \in ZoneLists : CallZoneBuild(l, FALSE)
  BY DEF FirstZoneBuild
<1>2. IsZoneList(l)
  BY ZoneAssumption DEF IsZoneList
<1>3. /\ list' = l /\ IsZoneList(list') /\ phase' \in {"groups", "thrown"}
      /\ (phase' = "thrown") = (cause' # "none")
      /\ phase' = "groups" => rooted' /\ Looping'
      /\ phase' = "thrown" => /\ rooted' = FALSE
                              /\ cause' \in {"zoneless", "malformed", "taken"}
                              /\ cause' = "taken" => FALSE
  BY <1>1, <1>2, CallLeaves
<1>4. earlier = <<>> /\ earlier' = <<>> /\ rooted' \in BOOLEAN
  BY <1>1 DEF FirstZoneBuild, ZoneInv, EarlierBuild, CallZoneBuild
<1>5. ZoneTypeOK'
  BY <1>3, <1>4 DEF ZoneTypeOK
<1>6. Rooting' /\ EarlierBuild' /\ OrderRefusals' /\ RetryAfterEarlyRefusalOnly'
  BY <1>3, <1>4 DEF Rooting, EarlierBuild, OrderRefusals, Reordered, RetryAfterEarlyRefusalOnly
<1> QED
  BY <1>3, <1>4, <1>5, <1>6 DEF ZoneInv

(* A group is built.                                                       *)
LEMMA BuildKeepsInv == ASSUME ZoneInv, BuildGroup PROVE ZoneInv'
<1>1. /\ phase = "groups" /\ groups # <<>> /\ GroupRefusal(Head(groups)) = "none"
      /\ ~Clashes(Head(groups))
      /\ sets' = sets \cup {RecordSetOf(Head(groups))} /\ groups' = Tail(groups)
      /\ list' = list /\ phase' = phase /\ cause' = cause /\ rooted' = rooted
      /\ earlier' = earlier
  BY DEF BuildGroup
<1>2. IsZoneList(list) /\ Looping
  BY <1>1 DEF ZoneInv
<1>3. PICK k \in 1..(Len(GroupRecords(list)) + 1) :
        Remaining(list, k, groups) /\ Processed(list, k, sets)
  BY <1>2 DEF Looping
<1>4. ~ \E s \in sets : /\ s.type = RecordSetOf(Head(groups)).type
                        /\ s.id = RecordSetOf(Head(groups)).id
  BY <1>1 DEF Clashes, RecordSetOf
<1>5. /\ k + 1 \in 1..(Len(GroupRecords(list)) + 1)
      /\ Remaining(list, k + 1, Tail(groups))
      /\ Processed(list, k + 1, sets \cup {RecordSetOf(Head(groups))})
  BY <1>1, <1>2, <1>3, <1>4, OneBuilt
<1>6. Looping'
  BY <1>1, <1>2, <1>5 DEF Looping
<1>7. ZoneTypeOK'
  BY <1>1 DEF ZoneInv, ZoneTypeOK
<1>8. Rooting' /\ EarlierBuild' /\ OrderRefusals' /\ RetryAfterEarlyRefusalOnly'
  BY <1>1 DEF ZoneInv, Rooting, EarlierBuild, OrderRefusals, RetryAfterEarlyRefusalOnly
<1> QED
  BY <1>1, <1>2, <1>6, <1>7, <1>8 DEF ZoneInv

(* A group throws: in the other order of a list that was built only over   *)
(* the target of an alias.                                                 *)
LEMMA ThrowKeepsInv == ASSUME ZoneInv, GroupThrows PROVE ZoneInv'
<1>1. /\ phase = "groups" /\ groups # <<>> /\ phase' = "thrown"
      /\ \/ GroupRefusal(Head(groups)) # "none" /\ cause' = GroupRefusal(Head(groups))
         \/ Clashes(Head(groups)) /\ cause' = "idTaken"
         \/ cause' = "target"
      /\ list' = list /\ groups' = groups /\ sets' = sets /\ rooted' = rooted
      /\ earlier' = earlier
  BY DEF GroupThrows, ZoneThrows
<1>2. IsZoneList(list) /\ Looping /\ rooted
  BY <1>1 DEF ZoneInv, ZoneTypeOK
<1>3. cause' \in {"tokenName", "declaredTwice", "atApex", "idTaken", "target"}
  BY <1>1, GroupCauses
<1>4. ZoneTypeOK'
  BY <1>1, <1>3 DEF ZoneInv, ZoneTypeOK
<1>5. Rooting' /\ EarlierBuild'
  BY <1>1, <1>2, <1>3 DEF ZoneInv, Rooting, EarlierBuild
<1>6. RetryAfterEarlyRefusalOnly'
  BY <1>1, <1>3 DEF ZoneInv, RetryAfterEarlyRefusalOnly
<1>7. OrderRefusals'
  <2> SUFFICES ASSUME Reordered, NoExplicitIds PROVE cause' = "target"
    BY <1>1 DEF OrderRefusals, Reordered, NoExplicitIds
  <2>1. /\ IsZoneList(earlier[1].list) /\ list = Reverse(earlier[1].list)
        /\ BuiltFrom(earlier[1].list, earlier[1].sets)
    BY DEF ZoneInv, EarlierBuild, Reordered
  <2>2. Buildable(list)
    BY <2>1, ReorderedBuildable DEF NoExplicitIds
  <2>3. PICK k \in 1..(Len(GroupRecords(list)) + 1) :
          Remaining(list, k, groups) /\ Processed(list, k, sets)
    BY <1>2 DEF Looping
  <2>4. k \in DOMAIN GroupRecords(list) /\ Head(groups) = GroupRecords(list)[k]
    BY <1>1, <1>2, <2>3, OneBuilt
  <2>5. GroupRefusal(Head(groups)) = "none"
    BY <2>2, <2>4 DEF Buildable
  <2>6. ~Clashes(Head(groups))
    <3> DEFINE gs == GroupRecords(list)
    <3>1. DOMAIN gs = 1..Len(gs) /\ Len(gs) \in Nat
      BY <1>2, GroupShape DEF WellGrouped
    <3>2. sets = {RecordSetOf(gs[m]) : m \in 1..(k - 1)}
      BY <2>3 DEF Processed
    <3>3. \A m, n \in DOMAIN gs :
            RecordSetOf(gs[m]).type = RecordSetOf(gs[n]).type
              /\ RecordSetOf(gs[m]).id = RecordSetOf(gs[n]).id => m = n
      BY <2>2 DEF Buildable
    <3>4. Head(groups) = gs[k] /\ k \in DOMAIN gs
      BY <2>4
    <3> HIDE DEF gs
    <3>5. \A m \in 1..(k - 1) : m \in DOMAIN gs /\ m # k
      BY <3>1, <3>4
    <3>6. RecordSetOf(gs[k]).id = ChildId(gs[k])
      BY DEF RecordSetOf
    <3> QED
      BY <3>2, <3>3, <3>4, <3>5, <3>6 DEF Clashes
  <2> QED
    BY <1>1, <2>5, <2>6
<1> QED
  BY <1>1, <1>2, <1>4, <1>5, <1>6, <1>7 DEF ZoneInv

(* The last group has been built.                                          *)
LEMMA ReturnKeepsInv == ASSUME ZoneInv, ZoneBuilt PROVE ZoneInv'
<1>1. /\ phase = "groups" /\ groups = <<>> /\ phase' = "built" /\ list' = list
      /\ groups' = groups /\ sets' = sets /\ cause' = cause /\ rooted' = rooted
      /\ earlier' = earlier
  BY DEF ZoneBuilt
<1>2. IsZoneList(list) /\ Looping /\ cause = "none"
  BY <1>1 DEF ZoneInv, ZoneTypeOK
<1>3. Looping'
  BY <1>1, <1>2 DEF Looping
<1>4. ZoneTypeOK'
  BY <1>1, <1>2 DEF ZoneInv, ZoneTypeOK
<1>5. Rooting' /\ EarlierBuild' /\ OrderRefusals'
  BY <1>1 DEF ZoneInv, Rooting, EarlierBuild, OrderRefusals
<1>6. RetryAfterEarlyRefusalOnly'
  BY <1>1, <1>2 DEF ZoneInv, RetryAfterEarlyRefusalOnly
<1> QED
  BY <1>1, <1>2, <1>3, <1>4, <1>5, <1>6 DEF ZoneInv

(* The same records, in the other order.                                   *)
LEMMA ReorderKeepsInv == ASSUME ZoneInv, ReorderRecords PROVE ZoneInv'
<1> DEFINE l == Reverse(list)
<1>1. /\ phase \in {"built", "thrown"} /\ earlier = <<>> /\ CallZoneBuild(l, FALSE)
      /\ earlier' = <<[list |-> list, sets |-> sets, cause |-> cause, how |-> "reordered"]>>
  BY DEF ReorderRecords, Past
<1>2. IsZoneList(list) /\ IsZoneList(l)
  BY <1>1, Reversed DEF ZoneInv
<1>3. /\ list' = l /\ IsZoneList(list') /\ phase' \in {"groups", "thrown"}
      /\ (phase' = "thrown") = (cause' # "none")
      /\ phase' = "groups" => rooted' /\ Looping'
      /\ phase' = "thrown" => /\ rooted' = FALSE
                              /\ cause' \in {"zoneless", "malformed", "taken"}
                              /\ cause' = "malformed" => Malformed(l)
                              /\ cause' = "taken" => FALSE
  BY <1>1, <1>2, CallLeaves
<1> HIDE DEF l
<1>4. /\ Len(earlier') = 1 /\ earlier' # <<>> /\ earlier'[1].list = list
      /\ earlier'[1].sets = sets /\ earlier'[1].cause = cause /\ earlier'[1].how = "reordered"
  BY <1>1
<1>5. rooted' \in BOOLEAN
  BY <1>3
<1>6. ASSUME cause = "none" PROVE BuiltFrom(list, sets)
  <2>1. phase = "built" /\ Looping /\ groups = <<>>
    BY <1>1, <1>6 DEF ZoneInv, ZoneTypeOK
  <2> QED
    BY <1>2, <2>1, AllBuilt
<1>7. ZoneTypeOK'
  BY <1>3, <1>4 DEF ZoneTypeOK
<1>8. Rooting' /\ RetryAfterEarlyRefusalOnly'
  BY <1>4 DEF Rooting, RetryAfterEarlyRefusalOnly
<1>9. EarlierBuild'
  BY <1>2, <1>3, <1>4, <1>6 DEF EarlierBuild, l
<1>10. OrderRefusals'
  <2> SUFFICES ASSUME cause = "none", \A i \in DOMAIN l : l[i].id = "none", phase' = "thrown"
               PROVE  cause' \in {"zoneless", "target"}
    BY <1>3, <1>4 DEF OrderRefusals, Reordered, NoExplicitIds
  <2>1. Buildable(l)
    BY <1>2, <1>6, ReorderedBuildable DEF l
  <2> QED
    BY <1>3, <2>1 DEF Buildable
<1> QED
  BY <1>3, <1>5, <1>7, <1>8, <1>9, <1>10 DEF ZoneInv

(* A caller of build() tries again without a record.                       *)
LEMMA RetryKeepsInv == ASSUME ZoneInv, RetryZone PROVE ZoneInv'
<1>1. PICK i \in DOMAIN list : CallZoneBuild(RemoveAt(list, i), rooted)
  BY DEF RetryZone
<1> DEFINE l == RemoveAt(list, i)
<1>2. /\ phase = "thrown" /\ earlier = <<>> /\ rooted \in BOOLEAN /\ cause # "none"
      /\ earlier' = <<[list |-> list, sets |-> sets, cause |-> cause, how |-> "retried"]>>
  BY DEF RetryZone, Past, ZoneInv, ZoneTypeOK
<1>3. IsZoneList(list) /\ IsZoneList(l)
  BY <1>2, Shortened DEF ZoneInv
<1>4. /\ list' = l /\ IsZoneList(list') /\ phase' \in {"groups", "thrown"}
      /\ (phase' = "thrown") = (cause' # "none")
      /\ phase' = "groups" => rooted' /\ Looping' /\ ~rooted
      /\ phase' = "thrown" => /\ rooted' = rooted
                              /\ cause' \in {"zoneless", "malformed", "taken"}
                              /\ cause' = "taken" => rooted
  BY <1>1, <1>2, <1>3, CallLeaves
<1> HIDE DEF l
<1>5. /\ Len(earlier') = 1 /\ earlier' # <<>> /\ earlier'[1].list = list
      /\ earlier'[1].sets = sets /\ earlier'[1].cause = cause /\ earlier'[1].how = "retried"
  BY <1>2
<1>6. rooted' \in BOOLEAN
  BY <1>2, <1>4
<1>7. ZoneTypeOK'
  BY <1>4, <1>5 DEF ZoneTypeOK
<1>8. Rooting' /\ OrderRefusals'
  BY <1>5 DEF Rooting, OrderRefusals, Reordered
<1>9. EarlierBuild'
  BY <1>2, <1>3, <1>4, <1>5 DEF EarlierBuild
<1>10. RetryAfterEarlyRefusalOnly'
  <2>1. cause \in {"zoneless", "malformed"} <=> ~rooted
    BY <1>2 DEF ZoneInv, Rooting
  <2> QED
    BY <1>4, <1>5, <2>1 DEF RetryAfterEarlyRefusalOnly
<1> QED
  BY <1>4, <1>6, <1>7, <1>8, <1>9, <1>10 DEF ZoneInv

(* Nothing happens.                                                        *)
LEMMA ZoneStutterKeepsInv == ASSUME ZoneInv, UNCHANGED zoneVars PROVE ZoneInv'
<1>1. /\ list' = list /\ groups' = groups /\ sets' = sets /\ phase' = phase
      /\ cause' = cause /\ rooted' = rooted /\ earlier' = earlier
  BY DEF zoneVars
<1>2. /\ phase' # "idle" => IsZoneList(list')
      /\ phase' \in {"groups", "built"} => Looping'
      /\ phase' = "built" => groups' = <<>>
  BY <1>1 DEF ZoneInv, Looping
<1>3. ZoneTypeOK' /\ rooted' \in BOOLEAN
  BY <1>1 DEF ZoneInv, ZoneTypeOK
<1>4. OrderRefusals'
  BY <1>1 DEF ZoneInv, OrderRefusals, Reordered, NoExplicitIds
<1>5. Rooting' /\ EarlierBuild' /\ RetryAfterEarlyRefusalOnly'
  BY <1>1 DEF ZoneInv, Rooting, EarlierBuild, RetryAfterEarlyRefusalOnly
<1> QED
  BY <1>2, <1>3, <1>4, <1>5 DEF ZoneInv

-----------------------------------------------------------------------------
(***************************************************************************)
(* zoneRecords() keeps the invariant of its loop, whatever the lists of    *)
(* records: what is built is that of the groups that are behind it, and a  *)
(* second build knows how the first ended.                                 *)
(***************************************************************************)
THEOREM ZoneInvariant == ZoneSpec => []ZoneInv
<1>1. ZoneInv /\ [ZoneNext]_zoneVars => ZoneInv'
  BY FirstKeepsInv, BuildKeepsInv, ThrowKeepsInv, ReturnKeepsInv, ReorderKeepsInv,
     RetryKeepsInv, ZoneStutterKeepsInv DEF ZoneNext
<1> QED
  BY ZoneInit, <1>1, PTL DEF ZoneSpec

(***************************************************************************)
(* A zone that was built has one record set for each type and name of its  *)
(* list, with the values of all its records and no other.                  *)
(***************************************************************************)
THEOREM OneSetEachBuilt == ZoneSpec => []OneSetPerTypeAndName
<1>1. ZoneInv => OneSetPerTypeAndName
  <2> SUFFICES ASSUME ZoneInv, phase = "built" PROVE OneSetEach(list, sets)
    BY DEF OneSetPerTypeAndName, OneSetEach
  <2>1. IsZoneList(list) /\ Looping /\ groups = <<>>
    BY DEF ZoneInv
  <2> QED
    BY <2>1, AllBuilt, BuiltMeansOneEach
<1> QED
  BY ZoneInvariant, <1>1, PTL

(***************************************************************************)
(* No zone is built from a list that contradicts itself, in whatever order *)
(* its records stand.                                                      *)
(***************************************************************************)
THEOREM NoContradictionBuilt == ZoneSpec => []ContradictionsRefused
<1>1. ZoneInv => ContradictionsRefused
  <2> SUFFICES ASSUME ZoneInv, phase = "built" PROVE ~Contradictory(list)
    BY DEF ContradictionsRefused
  <2>1. IsZoneList(list) /\ Looping /\ groups = <<>>
    BY DEF ZoneInv
  <2> QED
    BY <2>1, AllBuilt, BuiltMeansConsistent
<1> QED
  BY ZoneInvariant, <1>1, PTL

(***************************************************************************)
(* A list without explicit ids that was built is built to the same         *)
(* contents in the other order too.                                        *)
(***************************************************************************)
THEOREM OrderDoesNotMatter == ZoneSpec => []OrderKeepsContents
<1>1. ZoneInv => OrderKeepsContents
  <2> SUFFICES ASSUME ZoneInv, Reordered, NoExplicitIds, phase \in {"built", "thrown"}
               PROVE  \/ phase = "built" /\ Contents(sets) = Contents(earlier[1].sets)
                      \/ cause \in {"zoneless", "target"}
    BY DEF OrderKeepsContents
  <2>1. /\ IsZoneList(earlier[1].list) /\ list = Reverse(earlier[1].list)
        /\ BuiltFrom(earlier[1].list, earlier[1].sets)
    BY DEF ZoneInv, EarlierBuild, Reordered
  <2>2. CASE phase = "thrown"
    BY <2>2 DEF ZoneInv, OrderRefusals
  <2>3. CASE phase = "built"
    <3>1. IsZoneList(list) /\ BuiltFrom(list, sets)
      BY <2>3, AllBuilt DEF ZoneInv
    <3>2. OneSetEach(list, sets) /\ OneSetEach(earlier[1].list, earlier[1].sets)
      BY <2>1, <3>1, BuiltMeansOneEach
    <3> QED
      BY <2>1, <2>3, <3>2, ReversedContents
  <2> QED
    BY <2>2, <2>3
<1> QED
  BY ZoneInvariant, <1>1, PTL

(***************************************************************************)
(* A build that threw can be repeated in its scope when it threw over the  *)
(* zone or a malformed record, and never when it threw later.              *)
(***************************************************************************)
THEOREM EarlyRefusalsOnly == ZoneSpec => []RetryAfterEarlyRefusalOnly
<1>1. ZoneInv => RetryAfterEarlyRefusalOnly
  BY DEF ZoneInv
<1> QED
  BY ZoneInvariant, <1>1, PTL

(***************************************************************************)
(* When the order of a list does not decide a TTL.                         *)
(***************************************************************************)
\* No two records of a type and name give different TTLs.
TtlsAgree(l) ==
  \A i, j \in DOMAIN l :
    SameGroup(l[i], l[j]) /\ l[i].ttl # "none" /\ l[j].ttl # "none" => l[i].ttl = l[j].ttl

\* A record set has a TTL one of its records gives, if any of them gives one.
Of(l, s) == {j \in DOMAIN l : BucketOf(l[j].type) = s.type /\ l[j].name = s.name}
TtlGiven(l, s) ==
  IF s.ttl = "none" THEN \A j \in Of(l, s) : l[j].ttl = "none"
                    ELSE \E j \in Of(l, s) : l[j].ttl = s.ttl

(* pickOption() finds a TTL exactly when a record of the group gives one.  *)
LEMMA PickedTtl ==
  ASSUME NEW X, NEW group \in Seq(X)
  PROVE  IF PickTtl(group) = "none" THEN \A k \in DOMAIN group : group[k].ttl = "none"
         ELSE \E k \in DOMAIN group : group[k].ttl = PickTtl(group)
<1> DEFINE S == {k \in DOMAIN group : group[k].ttl # "none"}
           given == Chosen(group, S)
<1>1. /\ given \in Seq(X)
      /\ \A k \in DOMAIN given : \E i \in S : given[k] = group[i]
      /\ \A i \in S : \E k \in DOMAIN given : given[k] = group[i]
  <2>1. S \in SUBSET (DOMAIN group)
    OBVIOUS
  <2> HIDE DEF S
  <2> QED
    BY <2>1, ChosenElements
<1>2. PickTtl(group) = IF given = <<>> THEN "none" ELSE Head(given).ttl
  BY DEF PickTtl
<1> HIDE DEF given
<1>3. CASE given = <<>>
  <2>1. S = {}
    BY <1>1, <1>3
  <2> QED
    BY <1>2, <1>3, <2>1
<1>4. CASE given # <<>>
  <2>1. Head(given) = given[1] /\ 1 \in DOMAIN given
    BY <1>1, <1>4
  <2>2. PICK i \in S : Head(given) = group[i]
    BY <1>1, <2>1
  <2> QED
    BY <1>2, <1>4, <2>2
<1> QED
  BY <1>3, <1>4

(* So each record set that was built has a TTL of its records.             *)
LEMMA BuiltTtls ==
  ASSUME NEW l, IsZoneList(l), NEW ss, BuiltFrom(l, ss), NEW s \in ss
  PROVE  TtlGiven(l, s)
<1> DEFINE gs == GroupRecords(l)
           h(g) == HeadOf(l, g)
<1>1. WellGrouped(l) /\ ~Malformed(l)
  BY GroupShape DEF BuiltFrom
<1>2. DOMAIN gs = 1..Len(gs) /\ Len(gs) \in Nat
  BY <1>1 DEF WellGrouped
<1>3. PICK g \in DOMAIN gs : s = RecordSetOf(gs[g])
  <2>1. 1..(Len(gs) + 1 - 1) = DOMAIN gs
    BY <1>2
  <2> QED
    BY <2>1 DEF BuiltFrom, Processed
<1>4. /\ gs[g] \in Seq(Range(l))
      /\ \A k \in DOMAIN gs[g] : \E j \in DOMAIN l : gs[g][k] = l[j] /\ SameGroup(l[h(g)], l[j])
      /\ \A j \in DOMAIN l : SameGroup(l[h(g)], l[j]) => \E k \in DOMAIN gs[g] : gs[g][k] = l[j]
  BY <1>1 DEF WellGrouped
<1>5. PICK i \in DOMAIN l : Head(gs[g]) = l[i] /\ SameGroup(l[h(g)], l[i])
  BY GroupHead
<1>6. h(g) \in DOMAIN l
  BY GroupHead
<1> HIDE DEF gs, h
<1>7. s.type = BucketOf(l[h(g)].type) /\ s.name = l[h(g)].name /\ s.ttl = PickTtl(gs[g])
  BY <1>3, <1>5 DEF RecordSetOf, SameGroup
<1>8. \A j \in DOMAIN l : SameGroup(l[h(g)], l[j]) <=> j \in Of(l, s)
  <2>1. \A j \in DOMAIN l : j \in Of(l, s) => SameGroup(l[h(g)], l[j])
    BY <1>1, <1>6, <1>7, BucketsApart DEF Of
  <2> QED
    BY <1>7, <2>1 DEF Of, SameGroup
<1>9. IF s.ttl = "none" THEN \A k \in DOMAIN gs[g] : gs[g][k].ttl = "none"
      ELSE \E k \in DOMAIN gs[g] : gs[g][k].ttl = s.ttl
  BY <1>4, <1>7, PickedTtl
<1>10. CASE s.ttl = "none"
  <2>1. \A j \in Of(l, s) : \E k \in DOMAIN gs[g] : gs[g][k] = l[j]
    BY <1>4, <1>8 DEF Of
  <2> QED
    BY <1>9, <1>10, <2>1 DEF TtlGiven
<1>11. CASE s.ttl # "none"
  <2>1. PICK k \in DOMAIN gs[g] : gs[g][k].ttl = s.ttl
    BY <1>9, <1>11
  <2>2. PICK j \in DOMAIN l : gs[g][k] = l[j] /\ SameGroup(l[h(g)], l[j])
    BY <1>4
  <2> QED
    BY <1>8, <1>11, <2>1, <2>2 DEF TtlGiven
<1> QED
  BY <1>10, <1>11

(* Two record sets of one type and name, built from the same records, have *)
(* the same TTL when the records agree.                                    *)
LEMMA AgreedTtl ==
  ASSUME NEW l, ~Malformed(l), TtlsAgree(l), NEW m,
         \A i \in DOMAIN l : \E j \in DOMAIN m : m[j] = l[i],
         \A i \in DOMAIN m : \E j \in DOMAIN l : m[i] = l[j],
         NEW s, TtlGiven(l, s), NEW t, TtlGiven(m, t), s.type = t.type, s.name = t.name
  PROVE  s.ttl = t.ttl
<1>1. \A i, j \in Of(l, s) : l[i].ttl # "none" /\ l[j].ttl # "none" => l[i].ttl = l[j].ttl
  <2>1. \A i, j \in Of(l, s) : SameGroup(l[i], l[j])
    BY BucketsApart DEF Of
  <2> QED
    BY <2>1 DEF Of, TtlsAgree
<1>2. /\ \A i \in Of(l, s) : \E j \in Of(m, t) : m[j] = l[i]
      /\ \A j \in Of(m, t) : \E i \in Of(l, s) : l[i] = m[j]
  BY DEF Of
<1>3. CASE s.ttl = "none"
  BY <1>2, <1>3 DEF TtlGiven
<1>4. CASE s.ttl # "none"
  <2>1. PICK i \in Of(l, s) : l[i].ttl = s.ttl
    BY <1>4 DEF TtlGiven
  <2>2. t.ttl # "none"
    BY <1>2, <1>4, <2>1 DEF TtlGiven
  <2>3. PICK j \in Of(m, t) : m[j].ttl = t.ttl
    BY <2>2 DEF TtlGiven
  <2> QED
    BY <1>1, <1>2, <1>4, <2>1, <2>2, <2>3
<1> QED
  BY <1>3, <1>4

(***************************************************************************)
(* What the README of route53 says of TTLs (line 476) holds of the lists   *)
(* whose records of a type and name do not give different ones: such a     *)
(* list has the same TTLs however it is turned.                            *)
(***************************************************************************)
THEOREM AgreedTtlsIgnoreOrder == ZoneSpec => [](TtlsAgree(list) => TtlIgnoresOrder)
<1>1. ZoneInv => (TtlsAgree(list) => TtlIgnoresOrder)
  <2> DEFINE m == earlier[1].list
             tt == earlier[1].sets
             Ttls(ss) == {<<s.type, s.name, s.ttl>> : s \in ss}
  <2> SUFFICES ASSUME ZoneInv, TtlsAgree(list), Reordered, phase = "built"
               PROVE  Ttls(sets) = Ttls(tt)
    BY DEF TtlIgnoresOrder
  <2>1. IsZoneList(m) /\ list = Reverse(m) /\ BuiltFrom(m, tt)
    BY DEF ZoneInv, EarlierBuild, Reordered
  <2>2. IsZoneList(list) /\ BuiltFrom(list, sets)
    BY AllBuilt DEF ZoneInv
  <2> HIDE DEF m, tt
  <2>3. /\ \A i \in DOMAIN list : \E j \in DOMAIN m : m[j] = list[i]
        /\ \A i \in DOMAIN m : \E j \in DOMAIN list : m[i] = list[j]
    BY <2>1, Reversed
  <2>4. \A s \in sets, t \in tt : s.type = t.type /\ s.name = t.name => s.ttl = t.ttl
    <3> SUFFICES ASSUME NEW s \in sets, NEW t \in tt, s.type = t.type, s.name = t.name
                 PROVE  s.ttl = t.ttl
      OBVIOUS
    <3>1. TtlGiven(list, s) /\ TtlGiven(m, t) /\ ~Malformed(list)
      BY <2>1, <2>2, BuiltTtls DEF BuiltFrom
    <3> QED
      BY <2>3, <3>1, AgreedTtl
  <2>5. OneSetEach(list, sets) /\ OneSetEach(m, tt)
    BY <2>1, <2>2, BuiltMeansOneEach
  <2>6. {TypeAndName(s) : s \in sets} = {TypeAndName(t) : t \in tt}
    BY <2>3, <2>5 DEF OneSetEach
  <2>7. \A s \in sets : \E t \in tt : s.type = t.type /\ s.name = t.name
    <3> TAKE s \in sets
    <3>1. TypeAndName(s) \in {TypeAndName(t) : t \in tt}
      BY <2>6
    <3> QED
      BY <3>1 DEF TypeAndName
  <2>8. \A t \in tt : \E s \in sets : s.type = t.type /\ s.name = t.name
    <3> TAKE t \in tt
    <3>1. TypeAndName(t) \in {TypeAndName(s) : s \in sets}
      BY <2>6
    <3> QED
      BY <3>1 DEF TypeAndName
  <2>9. \A s \in sets, t \in tt : s.type = t.type /\ s.name = t.name =>
          <<s.type, s.name, s.ttl>> = <<t.type, t.name, t.ttl>>
    BY <2>4
  <2> QED
    BY <2>7, <2>8, <2>9
<1> QED
  BY ZoneInvariant, <1>1, PTL
=============================================================================
