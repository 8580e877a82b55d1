-------------------------- MODULE RuleSetActivation --------------------------
(***************************************************************************)
(* The account has one active receipt rule set.  Several stacks each have  *)
(* a rule set and a custom resource that activates it; CloudFormation runs *)
(* their handlers whenever it deploys, renames, rolls back or deletes      *)
(* them, in any interleaving.  A deletion looks first and clears then.     *)
(***************************************************************************)
EXTENDS Naturals

CONSTANTS
  MailStacks,     \* the stacks with an activated rule set
  Unset           \* the active slot when it is clear

ASSUME ActivationAssumption == Unset \notin MailStacks \X {0, 1}

VARIABLES
  active,         \* the name of the active rule set, or Unset
  named,          \* the name each stack's set was last deployed under: 0 or 1
  mail,           \* what happens to each stack: see ActivationTypeOK
  saw,            \* what the deletion of a custom resource found active
  settled         \* nobody else has activated since it looked

activationVars == <<active, named, mail, saw, settled>>

RuleSet(s) == <<s, named[s]>>
Former(s) == <<s, 1 - named[s]>>

NoMail ==
  /\ active = Unset
  /\ named = [s \in MailStacks |-> 0] /\ mail = [s \in MailStacks |-> "absent"]
  /\ saw = [s \in MailStacks |-> Unset] /\ settled = [s \in MailStacks |-> TRUE]

-----------------------------------------------------------------------------
To(s, p) == mail' = [mail EXCEPT ![s] = p]

\* RequestType Create or Update: activate, whatever is active.
SetActive(s, name) ==
  /\ active' = name
  /\ settled' = [t \in MailStacks |-> IF t = s THEN settled[t] ELSE FALSE]

DeployMail(s) ==
  /\ mail[s] = "absent" /\ To(s, "deploying")
  /\ SetActive(s, RuleSet(s)) /\ UNCHANGED <<named, saw>>

\* The rest of the stack is deployed, or fails and the resource is deleted.
DeployEnds(s) ==
  /\ mail[s] = "deploying" /\ (To(s, "live") \/ To(s, "deleting"))
  /\ UNCHANGED <<active, named, saw, settled>>

\* A new name is a new physical resource: when the new one is in place, the old
\* one is deleted.
RenameSet(s) ==
  /\ mail[s] = "live" /\ To(s, "cleaning")
  /\ named' = [named EXCEPT ![s] = 1 - named[s]]
  /\ SetActive(s, Former(s)) /\ UNCHANGED saw

DeleteMail(s) ==
  /\ mail[s] = "live" /\ To(s, "deleting")
  /\ UNCHANGED <<active, named, saw, settled>>

\* The rule set a deletion is about.
Deleted(s) == IF mail[s] \in {"cleaning", "cleaningLooked"} THEN Former(s) ELSE RuleSet(s)

Looks(s) ==
  /\ mail[s] \in {"cleaning", "deleting"}
  /\ To(s, IF mail[s] = "cleaning" THEN "cleaningLooked" ELSE "deletingLooked")
  /\ saw' = [saw EXCEPT ![s] = active] /\ settled' = [settled EXCEPT ![s] = TRUE]
  /\ UNCHANGED <<active, named>>

\* Mutant of Clears: without the look.
ClearsAnyway(s) ==
  /\ mail[s] \in {"cleaningLooked", "deletingLooked"}
  /\ active' = Unset
  /\ To(s, IF mail[s] = "cleaningLooked" THEN "live" ELSE "absent")
  /\ UNCHANGED <<named, saw, settled>>
Clears(s) ==
  /\ mail[s] \in {"cleaningLooked", "deletingLooked"}
  /\ active' = IF saw[s] = Deleted(s) THEN Unset ELSE active
  /\ To(s, IF mail[s] = "cleaningLooked" THEN "live" ELSE "absent")
  /\ UNCHANGED <<named, saw, settled>>

ActivationNext ==
  \E s \in MailStacks :
    DeployMail(s) \/ DeployEnds(s) \/ RenameSet(s) \/ DeleteMail(s) \/ Looks(s) \/ Clears(s)

ActivationSpec == NoMail /\ [][ActivationNext]_activationVars

-----------------------------------------------------------------------------
ActivationTypeOK ==
  /\ active \in MailStacks \X {0, 1} \cup {Unset}
  /\ mail \in [MailStacks -> {"absent", "deploying", "live", "cleaning", "cleaningLooked",
                               "deleting", "deletingLooked"}]

(***************************************************************************)
(* When no other stack activates between the two calls of a deletion, what *)
(* it clears is its own: neither another stack's set nor the set's own new *)
(* name, when a rename deletes the old one (activation-handler.ts:38).     *)
(***************************************************************************)
ClearsOnlyItsOwn ==
  [][\A s \in MailStacks :
       mail[s] \in {"cleaningLooked", "deletingLooked"} /\ mail'[s] # mail[s] /\ settled[s]
         => active' \in {active, Unset} /\ (active' # active => active = Deleted(s))]_activationVars

(***************************************************************************)
(* README.md:81 of ses: "so tearing down a stack never disables another    *)
(* stack's rule set".                                                      *)
(***************************************************************************)
TeardownSparesOthers ==
  [][\A s \in MailStacks :
       mail[s] = "deletingLooked" /\ mail'[s] = "absent" /\ active' # active
         => active[1] = s]_activationVars
=============================================================================
