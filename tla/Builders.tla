------------------------------ MODULE Builders ------------------------------
(***************************************************************************)
(* Fluent builders: the proxy of @composurecdk/core around a builder       *)
(* instance, the tagging proxy of @composurecdk/cloudformation around      *)
(* that one, the queue of grants a builder may hold, and copy(), which     *)
(* must leave original and copy sharing none of them.                      *)
(*                                                                         *)
(* Each of the three pieces of state is an object of the JavaScript heap:  *)
(* a builder holds a location, so that sharing one can be expressed.       *)
(***************************************************************************)
EXTENDS Naturals, Sequences, FiniteSets, FiniteSetsExt, SequencesExt

CONSTANTS
  Builders,    \* builder objects, and the heap locations they allocate
  First,       \* the one the program starts with
  Props,       \* properties a setter exists for
  Values,      \* their values; a shared construct counts as its identity
  TagKeys,     \* tag keys
  TagValues,   \* tag values
  BadKeys,     \* tag keys AWS refuses
  Grants,      \* grants: the key of the resource each one resolves
  Contexts,    \* the sets of keys build() may find in its context
  Unset,       \* no value
  MaxOps       \* bound on the calls of a program

ASSUME BuilderAssumption ==
  /\ First \in Builders
  /\ Unset \notin Values /\ Unset \notin TagValues
  /\ BadKeys \subseteq TagKeys
  /\ MaxOps \in Nat

VARIABLES
  alive,     \* the builders that exist
  propsAt,   \* location of target.props, for each builder
  tagsAt,    \* location of the tag accumulator
  queueAt,   \* location of the grant queue
  props, tags, queue,   \* what is stored there
  handle,    \* the proxy the caller holds after a chained call
  made,      \* the constructs built
  threw,     \* the last call threw
  ops,       \* number of calls so far
  log        \* the accepted calls on a builder, those on its originals before
             \* copy() included: the history the properties replay

store == <<props, tags, queue>>
where == <<propsAt, tagsAt, queueAt>>
builderVars == <<alive, where, store, handle, made, threw, ops, log>>

NoProps == [p \in Props |-> Unset]
NoTags == [k \in TagKeys |-> Unset]
Call == ops < MaxOps /\ ops' = ops + 1

Note(b, op) == log' = [log EXCEPT ![b] = Append(@, op)]

\* A chained call returns the tagging proxy, not the builder proxy inside it.
\* Mutant: the inner proxy's return value is passed through.
InnerReturned == "inner"
Returned == "outer"

(***************************************************************************)
(* Calls.                                                                  *)
(***************************************************************************)
Set(b, p, v) ==
  /\ Call
  /\ props' = [props EXCEPT ![propsAt[b]][p] = v]
  /\ Note(b, [op |-> "set", key |-> p, val |-> v])
  /\ handle' = [handle EXCEPT ![b] = Returned]
  /\ threw' = FALSE
  /\ UNCHANGED <<alive, where, tags, queue, made>>

\* A method of the class that returns this: enqueue a grant.
AddGrant(b, g) ==
  /\ Call
  /\ queue' = [queue EXCEPT ![queueAt[b]] = Append(@, g)]
  /\ Note(b, [op |-> "grant", key |-> g, val |-> g])
  /\ handle' = [handle EXCEPT ![b] = Returned]
  /\ threw' = FALSE
  /\ UNCHANGED <<alive, where, props, tags, made>>

\* tags({k: v, ...}) checks every entry before it records any; tag(k, v) is
\* the case of one entry.  Entries are recorded in order, the last one wins.
\* Through the inner proxy, tags would be the setter of a property no builder
\* reads.
Put(m, entries) == [k \in TagKeys |->
                      LET is == {i \in DOMAIN entries : entries[i][1] = k} IN
                      IF is = {} THEN m[k] ELSE entries[Max(is)][2]]

ValidUpTo(entries) ==
  LET bad == {i \in DOMAIN entries : entries[i][1] \in BadKeys} IN
  IF bad = {} THEN Len(entries) ELSE Min(bad) - 1

Recorded(entries) == IF ValidUpTo(entries) = Len(entries) THEN entries ELSE <<>>

Tags(b, entries) ==
  /\ Call
  /\ tags' = IF handle[b] = "outer"
             THEN [tags EXCEPT ![tagsAt[b]] = Put(@, Recorded(entries))] ELSE tags
  /\ threw' = (ValidUpTo(entries) < Len(entries))
  /\ IF threw' THEN UNCHANGED log ELSE Note(b, [op |-> "tags", key |-> entries, val |-> Unset])
  /\ UNCHANGED <<alive, where, props, queue, handle, made>>

\* Mutants of Fresh: COPY_STATE hands over the queue itself; the tagging proxy
\* of the copy closes over the same Map; props are not cloned.
SharedQueue(b, c) == [props |-> c, tags |-> c, queue |-> queueAt[b]]
SharedTags(b, c) == [props |-> c, tags |-> tagsAt[b], queue |-> c]
SharedProps(b, c) == [props |-> propsAt[b], tags |-> c, queue |-> c]

\* The objects the copy c of b allocates: { ...props }, new Map(accumulator),
\* and a new queue that COPY_STATE fills.
Fresh(b, c) == [props |-> c, tags |-> c, queue |-> c]

Copy(b, c) ==
  /\ Call /\ c \notin alive
  /\ alive' = alive \cup {c}
  /\ propsAt' = [propsAt EXCEPT ![c] = Fresh(b, c).props]
  /\ tagsAt' = [tagsAt EXCEPT ![c] = Fresh(b, c).tags]
  /\ queueAt' = [queueAt EXCEPT ![c] = Fresh(b, c).queue]
  /\ props' = [props EXCEPT ![propsAt'[c]] = props[propsAt[b]]]
  /\ tags' = [tags EXCEPT ![tagsAt'[c]] = tags[tagsAt[b]]]
  /\ queue' = [queue EXCEPT ![queueAt'[c]] = queue[queueAt[b]]]
  /\ log' = [log EXCEPT ![c] = log[b]]
  /\ threw' = FALSE
  /\ UNCHANGED <<handle, made>>

\* build(): the class creates the construct from its props, then applies the
\* queued grants, each resolving its resource in the context; the tags are put
\* on the result once the class's own build() has returned.
Granted(q, context) ==
  LET lost == {i \in DOMAIN q : q[i] \notin context} IN
  IF lost = {} THEN q ELSE SubSeq(q, 1, Min(lost) - 1)

\* Mutant of TagsOf: tags are applied before the grants, failed build or not.
TagsAnyway(b, ok) == tags[tagsAt[b]]
TagsOf(b, ok) == IF ok THEN tags[tagsAt[b]] ELSE NoTags

Build(b, context) ==
  /\ Call
  /\ LET q == queue[queueAt[b]]
         ok == Granted(q, context) = q IN
     /\ made' = made \cup {[by |-> b, props |-> props[propsAt[b]], grants |-> Granted(q, context),
                            ok |-> ok, tags |-> TagsOf(b, ok), given |-> context,
                            log |-> log[b]]}
     /\ threw' = ~ok
  /\ UNCHANGED <<alive, where, store, handle, log>>

BuilderInit ==
  /\ alive = {First}
  /\ propsAt = [b \in Builders |-> b]
  /\ tagsAt = [b \in Builders |-> b]
  /\ queueAt = [b \in Builders |-> b]
  /\ props = [b \in Builders |-> NoProps]
  /\ tags = [b \in Builders |-> NoTags]
  /\ queue = [b \in Builders |-> <<>>]
  /\ handle = [b \in Builders |-> "outer"]
  /\ made = {} /\ threw = FALSE /\ ops = 0
  /\ log = [b \in Builders |-> <<>>]

\* tag(k, v), and tags() of two keys.
Entries == {<<<<k, v>>>> : k \in TagKeys, v \in TagValues}
             \cup {<<<<kl[1], v>>, <<kl[2], v>>>> :
                     kl \in {p \in TagKeys \X TagKeys : p[1] # p[2]}, v \in TagValues}

BuilderNext ==
  \E b \in alive :
    \/ \E p \in Props, v \in Values : Set(b, p, v)
    \/ \E g \in Grants : AddGrant(b, g)
    \/ \E entries \in Entries : Tags(b, entries)
    \/ \E c \in Builders : Copy(b, c)
    \/ \E context \in Contexts : Build(b, context)

BuilderSpec == BuilderInit /\ [][BuilderNext]_builderVars
-----------------------------------------------------------------------------
(***************************************************************************)
(*                               Properties                                *)
(***************************************************************************)

\* What a list of calls amounts to: the last call on a key wins, and of a call
\* its last entry; grants keep their order.
ReplayProps(calls) ==
  [p \in Props |->
     LET is == {i \in DOMAIN calls : calls[i].op = "set" /\ calls[i].key = p} IN
     IF is = {} THEN Unset ELSE calls[Max(is)].val]

Names(entries, k) == \E j \in DOMAIN entries : entries[j][1] = k
ReplayTags(calls) ==
  [k \in TagKeys |->
     LET is == {i \in DOMAIN calls : calls[i].op = "tags" /\ Names(calls[i].key, k)} IN
     IF is = {} THEN Unset ELSE Put(NoTags, calls[Max(is)].key)[k]]

GrantCalls(calls) == {i \in DOMAIN calls : calls[i].op = "grant"}
Nth(S, n) == CHOOSE i \in S : Cardinality({j \in S : j <= i}) = n
ReplayGrants(calls) ==
  [n \in 1..Cardinality(GrantCalls(calls)) |-> calls[Nth(GrantCalls(calls), n)].key]

(* Original and copy are independent both ways (ADR-0005): whatever is      *)
(* called on the others, a builder holds what its own calls say, with those *)
(* on its original up to copy(), and no chaining loses a tag.               *)
CopiesAreIndependent ==
  \A b \in alive :
    /\ props[propsAt[b]] = ReplayProps(log[b])
    /\ tags[tagsAt[b]] = ReplayTags(log[b])
    /\ queue[queueAt[b]] = ReplayGrants(log[b])

(* A construct that was returned has every grant and every tag asked for    *)
(* before build(); one whose build threw has the grants before the first    *)
(* that could not resolve its resource, and no tag.                         *)
BuildReflectsCalls ==
  \A m \in made :
    LET asked == ReplayGrants(m.log) IN
    /\ m.props = ReplayProps(m.log)
    /\ IsPrefix(m.grants, asked)
    /\ \A i \in DOMAIN m.grants : m.grants[i] \in m.given
    /\ m.ok <=> \A i \in DOMAIN asked : asked[i] \in m.given
    /\ m.tags = IF m.ok THEN ReplayTags(m.log) ELSE NoTags
=============================================================================
