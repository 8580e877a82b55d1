----------------------------- MODULE ZoneRecords -----------------------------
(***************************************************************************)
(* zoneRecords() of route53: the records of a zone, declared as a list,    *)
(* are checked, grouped by type and name, and built group by group.  A     *)
(* build may be followed by a second one: of the same records in another   *)
(* order in a fresh scope, or in the same scope, when the first has        *)
(* thrown, without the record it threw on.                                 *)
(*                                                                         *)
(* A record is [type, name, values, ttl, id]: values is the sequence of    *)
(* its addresses, texts or tuples; "none" is an option that is not given.  *)
(* An ALIAS says which address type it stands for.                         *)
(***************************************************************************)
EXTENDS Positions, FiniteSets

CONSTANTS
  ZoneLists,      \* the lists of records tried
  TokenNames      \* the names that are unresolved tokens

Apex == "@"

Literal == {"TXT", "MX", "SRV", "CAA", "NS", "DS", "HTTPS", "SVCB"}
Addresses == {"A", "AAAA"}
AliasTypes == {"AliasA", "AliasAAAA"}
Unmerged == {"CNAME"} \cup AliasTypes

\* Lists are finite; a canonical name and an alias have one target.
ASSUME ZoneAssumption ==
  /\ Apex \notin TokenNames
  /\ \A list \in ZoneLists :
       /\ list \in Seq(Range(list))
       /\ \A i \in DOMAIN list : list[i].values \in Seq(Range(list[i].values))
       /\ \A i \in DOMAIN list : list[i].type \in Unmerged => Len(list[i].values) <= 1

\* The type of the record set that is made, which is also its scope.
BucketOf(type) == CASE type = "AliasA" -> "A" [] type = "AliasAAAA" -> "AAAA" [] OTHER -> type

-----------------------------------------------------------------------------
(***************************************************************************)
(* validateSpecs(): before anything is made.                               *)
(***************************************************************************)

\* Mutant of Malformed: a list of records without values is let through, and an
\* alias beside addresses is not noticed.
EmptyOnly(list) == \E i \in DOMAIN list : list[i].type \in Addresses /\ list[i].values = <<>>
Malformed(list) ==
  \/ \E i \in DOMAIN list : list[i].type \in Addresses \cup Literal /\ list[i].values = <<>>
  \/ \E i, j \in DOMAIN list :
       /\ list[i].type \in AliasTypes /\ list[j].type = BucketOf(list[i].type)
       /\ list[i].name = list[j].name

(***************************************************************************)
(* groupRecords(): the groups in the order of their first records.         *)
(***************************************************************************)

\* Mutant of SameGroup: one group for the two address types.
SameBuilder(r, s) == r.name = s.name /\ (r.type = s.type \/ {r.type, s.type} = Addresses)
SameGroup(r, s) == r.name = s.name /\ r.type = s.type
Alike(list, i) == {j \in DOMAIN list : SameGroup(list[i], list[j])}
Firsts(list) == {i \in DOMAIN list : \A j \in Alike(list, i) : i <= j}
GroupRecords(list) ==
  LET heads == InOrder(Len(list), Firsts(list))
  IN [g \in DOMAIN heads |-> Chosen(list, Alike(list, heads[g]))]

\* pickOption(): the first record of the group that gives the option.
PickTtl(group) ==
  LET given == Chosen(group, {k \in DOMAIN group : group[k].ttl # "none"}) IN
  IF given = <<>> THEN "none" ELSE Head(given).ttl

-----------------------------------------------------------------------------
(***************************************************************************)
(* One group.  The key of a record is its id, or its name; the record      *)
(* builder is given an id in which the apex and unsafe characters are      *)
(* replaced.                                                               *)
(***************************************************************************)
KeyOf(group) == IF Head(group).id # "none" THEN Head(group).id ELSE Head(group).name
ChildId(group) ==
  CASE KeyOf(group) = Apex -> "Apex" [] KeyOf(group) = "0/25" -> "0-25" [] OTHER -> KeyOf(group)

GroupRefusal(group) ==
  LET r == Head(group) IN
  CASE KeyOf(group) \in TokenNames -> "tokenName"
    [] r.type \in Unmerged /\ Len(group) > 1 -> "declaredTwice"
    [] r.type \in {"CNAME", "NS"} /\ r.name = Apex -> "atApex"
    [] OTHER -> "none"

\* Texts and addresses are de-duplicated, tuples are passed through.
Deduplicated == Addresses \cup {"TXT", "NS", "DS"}

\* The values as given; for every type, this is a mutant of MergedValues.
AllValues(group) == FlattenSeq([i \in DOMAIN group |-> group[i].values])
MergedValues(group) ==
  IF Head(group).type \in Deduplicated THEN Dedupe(AllValues(group)) ELSE AllValues(group)

RecordSetOf(group) ==
  [type |-> BucketOf(Head(group).type), name |-> Head(group).name, id |-> ChildId(group),
   values |-> MergedValues(group), ttl |-> PickTtl(group)]

-----------------------------------------------------------------------------
VARIABLES
  list,         \* the records of the build that runs or ran last
  groups,       \* the groups that are still to be built
  sets,         \* the record sets it has made
  phase,        \* "idle", "groups", "built", "thrown"
  cause,        \* what it threw: "none" when it did not
  rooted,       \* the scope has the builder's own construct
  earlier       \* the builds before it: [list, sets, cause, how]

zoneVars == <<list, groups, sets, phase, cause, rooted, earlier>>

NoZone ==
  /\ list = <<>> /\ groups = <<>> /\ sets = {} /\ phase = "idle" /\ cause = "none"
  /\ rooted = FALSE /\ earlier = <<>>

ZoneThrows(what) == phase' = "thrown" /\ cause' = what

\* build() up to the loop: the zone is missing, a record is malformed, the ref
\* to the zone does not resolve, the scope already has the construct.

\* Mutant of CallZoneBuild: the construct comes first.
RootFirst(records, taken) ==
  /\ list' = records /\ sets' = {} /\ groups' = GroupRecords(records)
  /\ rooted' = TRUE
  /\ \/ taken /\ ZoneThrows("taken")
     \/ ~taken /\ Malformed(records) /\ ZoneThrows("malformed")
     \/ ~taken /\ ~Malformed(records) /\ phase' = "groups" /\ cause' = "none"
CallZoneBuild(records, taken) ==
  /\ list' = records /\ sets' = {} /\ groups' = GroupRecords(records)
  /\ \/ ZoneThrows("zoneless") /\ rooted' = taken
     \/ Malformed(records) /\ ZoneThrows("malformed") /\ rooted' = taken
     \/ ~Malformed(records) /\ taken /\ ZoneThrows("taken") /\ rooted' = taken
     \/ ~Malformed(records) /\ ~taken /\ phase' = "groups" /\ cause' = "none" /\ rooted' = TRUE

FirstZoneBuild ==
  /\ phase = "idle"
  /\ \E records \in ZoneLists : CallZoneBuild(records, FALSE)
  /\ UNCHANGED earlier

Clashes(group) == \E s \in sets : s.type = RecordSetOf(group).type /\ s.id = ChildId(group)

BuildGroup ==
  /\ phase = "groups" /\ groups # <<>>
  /\ GroupRefusal(Head(groups)) = "none" /\ ~Clashes(Head(groups))
  /\ sets' = sets \cup {RecordSetOf(Head(groups))} /\ groups' = Tail(groups)
  /\ UNCHANGED <<list, phase, cause, rooted, earlier>>

\* An id that is taken, or the target of an alias that does not resolve, throws
\* out of the record builder.
GroupThrows ==
  /\ phase = "groups" /\ groups # <<>>
  /\ LET group == Head(groups) IN
       \/ GroupRefusal(group) # "none" /\ ZoneThrows(GroupRefusal(group))
       \/ GroupRefusal(group) = "none" /\ Clashes(group) /\ ZoneThrows("idTaken")
       \/ /\ GroupRefusal(group) = "none" /\ Head(group).type \in AliasTypes
          /\ ZoneThrows("target")
  /\ UNCHANGED <<list, groups, sets, rooted, earlier>>

ZoneBuilt ==
  /\ phase = "groups" /\ groups = <<>> /\ phase' = "built"
  /\ UNCHANGED <<list, groups, sets, cause, rooted, earlier>>

Past(how) == earlier' = <<[list |-> list, sets |-> sets, cause |-> cause, how |-> how]>>

\* The program is edited, the records stand in another order, and it runs again.
ReorderRecords ==
  /\ phase \in {"built", "thrown"} /\ earlier = <<>>
  /\ CallZoneBuild(Reverse(list), FALSE) /\ Past("reordered")

\* The caller of build() catches, leaves a record out and tries again.
RetryZone ==
  /\ phase = "thrown" /\ earlier = <<>>
  /\ \E i \in DOMAIN list : CallZoneBuild(RemoveAt(list, i), rooted)
  /\ Past("retried")

ZoneNext ==
  \/ FirstZoneBuild \/ BuildGroup \/ GroupThrows \/ ZoneBuilt \/ ReorderRecords \/ RetryZone

ZoneSpec == NoZone /\ [][ZoneNext]_zoneVars

-----------------------------------------------------------------------------
ZoneTypeOK ==
  /\ phase \in {"idle", "groups", "built", "thrown"}
  /\ (phase = "thrown") = (cause # "none")
  /\ Len(earlier) <= 1
  /\ phase = "groups" => rooted

Declared(records, type, name) ==
  UNION {ToSet(records[i].values) :
           i \in {j \in DOMAIN records : BucketOf(records[j].type) = type /\ records[j].name = name}}
TypeAndName(s) == <<s.type, s.name>>

(***************************************************************************)
(* "Records sharing (type, name) are merged into one CDK record set"       *)
(* (zone-records.ts:68): once build() has returned there is one record set *)
(* for each type and name of the list, and none else, and it has all the   *)
(* values declared under them and no other, addresses and texts once.      *)
(***************************************************************************)
OneSetPerTypeAndName ==
  phase = "built" =>
    /\ {TypeAndName(s) : s \in sets}
         = {<<BucketOf(list[i].type), list[i].name>> : i \in DOMAIN list}
    /\ \A s \in sets :
         /\ ToSet(s.values) = Declared(list, s.type, s.name)
         /\ s.type \in Deduplicated => Cardinality(ToSet(s.values)) = Len(s.values)
         /\ \A t \in sets : TypeAndName(s) = TypeAndName(t) => s = t

\* What a name may be declared as, whatever the order of the list.
Contradictory(records) ==
  \E i, j \in DOMAIN records :
    /\ i # j /\ records[i].name = records[j].name
    /\ BucketOf(records[i].type) = BucketOf(records[j].type)
    /\ {records[i].type, records[j].type} \cap Unmerged # {}

(***************************************************************************)
(* A list that declares an alias beside an address or beside another       *)
(* alias, or two canonical names, is refused in every order: no such zone  *)
(* is built.                                                               *)
(***************************************************************************)
ContradictionsRefused == phase = "built" => ~Contradictory(list)

(***************************************************************************)
(* The order of the list decides ids and the order of values, never which  *)
(* record sets there are: a list without explicit ids that was built is    *)
(* built in the other order too, to the same sets of values.               *)
(***************************************************************************)
Contents(ss) == {<<s.type, s.name, ToSet(s.values)>> : s \in ss}
Reordered == earlier # <<>> /\ earlier[1].how = "reordered" /\ earlier[1].cause = "none"
NoExplicitIds == \A i \in DOMAIN list : list[i].id = "none"
OrderKeepsContents ==
  Reordered /\ NoExplicitIds /\ phase \in {"built", "thrown"}
    => \/ phase = "built" /\ Contents(sets) = Contents(earlier[1].sets)
       \/ cause \in {"zoneless", "target"}

(***************************************************************************)
(* A build that threw can be repeated in its scope only when it threw      *)
(* before its construct was made; what is noticed while the groups are     *)
(* built (a token as name, a canonical name twice or at the apex, an alias *)
(* twice, an unresolved target) is noticed too late for that.              *)
(***************************************************************************)
RetryAfterEarlyRefusalOnly ==
  earlier # <<>> /\ earlier[1].how = "retried" =>
    IF earlier[1].cause \in {"zoneless", "malformed"} THEN cause # "taken" ELSE phase = "thrown"

(***************************************************************************)
(* README.md:476 of route53: the rule for the TTL of a merged group "keeps *)
(* merge output deterministic regardless of how the list is reordered".    *)
(***************************************************************************)
TtlIgnoresOrder ==
  Reordered /\ phase = "built"
    => {<<s.type, s.name, s.ttl>> : s \in sets}
         = {<<s.type, s.name, s.ttl>> : s \in earlier[1].sets}
=============================================================================
