----------------------------- MODULE Catalogue -----------------------------
(***************************************************************************)
(* What the ids of the catalogue are compared for.  An id is the string    *)
(* the code puts together, so that two of them are compared as strings:    *)
(* TLC does it for every builder and every set of its options, and the     *)
(* proofs about a build start from what it finds.                          *)
(***************************************************************************)
EXTENDS Services

\* The steps of a plan that need an id of their own, and those that may be there
\* before: a construct the stack shares is looked up first.
Makers == {"make", "alarm"}
Namers == Makers \cup {"share"}

Apart(p, alike) ==
  \A j \in DOMAIN p :
    p[j].do \in Makers /\ p[j].what \notin alike =>
      \A i \in 1..(j - 1) : p[i].do \in Namers => p[i].what # p[j].what

ASSUME PlanIdsApart ==
  \A s \in Service : \A o \in SUBSET OptionsOf[s] : Apart(PlanOf(s, o), AlikeIds(o))
=============================================================================
