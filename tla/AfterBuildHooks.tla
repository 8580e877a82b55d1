--------------------------- MODULE AfterBuildHooks ---------------------------
(***************************************************************************)
(* The hooks tags() and outputs() of cloudformation, on a system and the   *)
(* systems nested in it.  A program makes the hooks, may change the        *)
(* records it made them of, and builds; the hooks then run in order, those *)
(* of a nested system before those of the one around it (see Compose).     *)
(*                                                                         *)
(* A system is named by its component key in the one around it.  One tag   *)
(* key stands for every key: keys do not interact.                         *)
(***************************************************************************)
EXTENDS Naturals, Sequences, SequencesExt

CONSTANTS
  Whole,          \* the outermost system
  Members,        \* the component keys of each system
  Top,            \* the scope the outermost system is built in
  Stacks,         \* the stacks under it that components may be routed to
  HookLists,      \* the lists of hooks tried, in the order in which they run:
                  \* [kind, of, system, entries], entries of [at, text] for
                  \* tags, at a component, and of [name, at, ref] for outputs,
                  \* at a component or at a scope the program holds
  BadTexts,       \* what validateTag() refuses
  NoText          \* no tag, or an output without a scope or a ref of its own

Component == UNION {Members[s] : s \in DOMAIN Members}
Resources == Component \ DOMAIN Members
Scopes == Stacks \cup {Top}

TagsHooks ==
  [kind : {"tags"}, of : DOMAIN Members, system : STRING,
   entries : Seq([at : STRING, text : STRING])]
OutputsHooks ==
  [kind : {"outputs"}, of : DOMAIN Members, system : STRING,
   entries : Seq([name : STRING, at : STRING, ref : STRING])]

ASSUME HooksAssumption ==
  /\ Whole \in DOMAIN Members \ Component /\ Top \notin Stacks /\ NoText \notin BadTexts
  /\ Scopes \cap Component = {}
  /\ HookLists \subseteq Seq(TagsHooks \cup OutputsHooks) 
  /\ BadTexts \cup {"edited"} \subseteq STRING

VARIABLES
  layout,         \* the scope each component is built in
  owned,          \* the components whose builder sets the tag itself
  hooks,          \* the hooks, with their records as they stand
  ready,          \* the number of hooks made so far
  turn,           \* the hook that runs, once the build has come to them
  entry,          \* the output it has come to
  marks,          \* the texts Tags.of(scope).add was given, oldest first
  exported,       \* the outputs in the tree: <<scope, name>>
  after           \* "making", "refused", "running", "done", "threw"

hookVars == <<layout, owned, hooks, ready, turn, entry, marks, exported, after>>

NoHooks ==
  /\ layout \in [Component -> Scopes] /\ owned \in SUBSET Resources
  /\ hooks \in HookLists /\ ready = 0 /\ turn = 0 /\ entry = 1
  /\ marks = [s \in Scopes |-> <<>>] /\ exported = {} /\ after = "making"

TopOf(sys) == IF sys = Whole THEN Top ELSE layout[sys]

-----------------------------------------------------------------------------
(***************************************************************************)
(* The program: tags() validates when it is called and keeps the record.   *)
(***************************************************************************)
Texts(h) == {h.system} \cup {h.entries[i].text : i \in DOMAIN h.entries}

MakeHook ==
  /\ after = "making" /\ ready < Len(hooks) /\ ready' = ready + 1
  /\ LET h == hooks[ready + 1] IN
     after' = IF h.kind = "tags" /\ Texts(h) \cap BadTexts # {} THEN "refused" ELSE after
  /\ UNCHANGED <<layout, owned, hooks, turn, entry, marks, exported>>

EditTags ==
  /\ after = "making"
  /\ \E i \in 1..ready, text \in BadTexts \cup {"edited"} :
       hooks[i].kind = "tags" /\ hooks' = [hooks EXCEPT ![i].system = text]
  /\ UNCHANGED <<layout, owned, ready, turn, entry, marks, exported, after>>

BuildReachesHooks ==
  /\ after = "making" /\ ready = Len(hooks)
  /\ turn' = 1 /\ after' = (IF hooks = <<>> THEN "done" ELSE "running")
  /\ UNCHANGED <<layout, owned, hooks, ready, entry, marks, exported>>

-----------------------------------------------------------------------------
Hook == hooks[turn]
Running(kind) == after = "running" /\ Hook.kind = kind
NextHook ==
  /\ turn' = turn + 1 /\ entry' = 1
  /\ after' = IF turn = Len(hooks) THEN "done" ELSE "running"
Given(text) == IF text = NoText THEN <<>> ELSE <<text>>

\* What the first n entries add to a scope, after the system's own text.
Entered(h, n, scope) ==
  FlattenSeq([i \in 1..n |-> IF layout[h.entries[i].at] = scope THEN <<h.entries[i].text>> ELSE <<>>])

\* Mutant of TagsAdded: the system's text comes last.
SystemLast(h, n, scope) ==
  Entered(h, n, scope) \o (IF scope = TopOf(h.of) THEN Given(h.system) ELSE <<>>)
TagsAdded(h, n, scope) ==
  (IF scope = TopOf(h.of) THEN Given(h.system) ELSE <<>>) \o Entered(h, n, scope)

Add(n) == marks' = [s \in DOMAIN marks |-> marks[s] \o TagsAdded(Hook, n, s)]
Unknown(i) == Hook.entries[i].at \notin Members[Hook.of]

RunTags ==
  /\ Running("tags") /\ \A i \in DOMAIN Hook.entries : ~Unknown(i)
  /\ Add(Len(Hook.entries)) /\ NextHook
  /\ UNCHANGED <<layout, owned, hooks, ready, exported>>

RunTagsThrows ==
  /\ Running("tags")
  /\ \E i \in DOMAIN Hook.entries :
       Unknown(i) /\ (\A j \in 1..(i - 1) : ~Unknown(j)) /\ Add(i - 1)
  /\ after' = "threw" /\ UNCHANGED <<layout, owned, hooks, ready, turn, entry, exported>>

\* One definition of outputs().
Output == Hook.entries[entry]
Target(h, e) ==
  IF e.at = NoText THEN TopOf(h.of) ELSE IF e.at \in Scopes THEN e.at ELSE layout[e.at]
Refused ==
  \/ Output.at \notin Members[Hook.of] \cup Scopes \cup {NoText}
  \/ Output.ref \notin Members[Hook.of] \cup {NoText}
  \/ <<Target(Hook, Output), Output.name>> \in exported

MakeOutput ==
  /\ Running("outputs") /\ entry <= Len(Hook.entries) /\ ~Refused
  /\ exported' = exported \cup {<<Target(Hook, Output), Output.name>>} /\ entry' = entry + 1
  /\ UNCHANGED <<layout, owned, hooks, ready, turn, marks, after>>

OutputThrows ==
  /\ Running("outputs") /\ entry <= Len(Hook.entries) /\ Refused
  /\ after' = "threw" /\ UNCHANGED <<layout, owned, hooks, ready, turn, entry, marks, exported>>

OutputsDone ==
  /\ Running("outputs") /\ entry > Len(Hook.entries) /\ NextHook
  /\ UNCHANGED <<layout, owned, hooks, ready, marks, exported>>

HooksNext ==
  \/ MakeHook \/ EditTags \/ BuildReachesHooks \/ RunTags \/ RunTagsThrows
  \/ MakeOutput \/ OutputThrows \/ OutputsDone

HooksSpec == NoHooks /\ [][HooksNext]_hookVars

-----------------------------------------------------------------------------
\* CDK: the closest scope that sets a tag decides, and its last setting.
Tag(c) ==
  IF c \in owned THEN "builder"
  ELSE LET closest == IF marks[layout[c]] = <<>> THEN marks[Top] ELSE marks[layout[c]]
       IN IF closest = <<>> THEN NoText ELSE Last(closest)

\* What a hook says of a scope: of the components in it, or else of the system.
Says(h, scope) ==
  LET named == {h.entries[i].text : i \in {j \in DOMAIN h.entries : layout[h.entries[j].at] = scope}}
  IN IF h.kind # "tags" THEN {}
     ELSE IF named # {} THEN named
     ELSE IF scope = TopOf(h.of) THEN {h.system} \ {NoText} ELSE {}

RecordsAreValid ==
  \A i \in DOMAIN hooks : hooks[i].kind = "tags" => Texts(hooks[i]) \cap BadTexts = {}

(***************************************************************************)
(* After the hooks, when no record was changed to a text that tags() would *)
(* have refused: a builder's own tag stands; else the tags() call of the   *)
(* outermost system that speaks of the component's scope decides, with     *)
(* what it says of components before what it says of the system; only when *)
(* none does, the scope above is asked (tags.ts:110 and                    *)
(* apply-builder-tags.ts:80).  It is the record as it stands when the hook *)
(* runs that counts.  Every output is where its definition says, one that  *)
(* two systems want in one scope having stopped the build                  *)
(* (outputs.ts:95).                                                        *)
(***************************************************************************)
HooksFollowTheLayout ==
  after = "done" /\ RecordsAreValid =>
    /\ \A c \in Resources :
         LET speak(scope) == {i \in DOMAIN hooks : Says(hooks[i], scope) # {}}
             scope == IF speak(layout[c]) # {} THEN layout[c] ELSE Top
             deciding == {i \in speak(scope) : \A j \in speak(scope) : j <= i}
         IN /\ c \in owned => Tag(c) = "builder"
            /\ c \notin owned /\ deciding = {} => Tag(c) = NoText
            /\ c \notin owned => \A i \in deciding : Tag(c) \in Says(hooks[i], scope)
    /\ \A i \in DOMAIN hooks :
         hooks[i].kind = "outputs" =>
           \A e \in Range(hooks[i].entries) :
             <<Target(hooks[i], e), e.name>> \in exported

(***************************************************************************)
(* What tags.ts:64 says, which the code does not keep: tags are validated  *)
(* inside the hook before any Tags.of(...).add(...) call, so that no text  *)
(* validateTag() refuses is ever put on a scope.  A record changed after   *)
(* tags() returned is applied as it is.                                    *)
(***************************************************************************)
HooksApplyValidTags == \A s \in DOMAIN marks : Range(marks[s]) \cap BadTexts = {}
=============================================================================
