------------------------------ MODULE Failures ------------------------------
(***************************************************************************)
(* shigoto-types' failure.rs, chain.rs and classify.rs: what an error text *)
(* says about retrying.  A text is the SET of the phrases found in it, so  *)
(* raw.contains(p) is membership, and joining texts is their union.  The   *)
(* message and the signature of a Failure are display only and left out.   *)
(***************************************************************************)
EXTENDS Sequences, FiniteSetsExt

CONSTANTS
  Phrases,               \* the phrases error texts are made of
  DECLARATIVE_PATTERNS   \* those that classify() looks for

ASSUME FailuresAssumption == DECLARATIVE_PATTERNS \subseteq Phrases

Raw == SUBSET Phrases
FailureKind == {"Transient", "Declarative"}

(* Unknown texts are Transient. *)
classify(raw) ==
  IF \E pat \in DECLARATIVE_PATTERNS : pat \in raw THEN "Declarative" ELSE "Transient"

-----------------------------------------------------------------------------
(* Chain<I, O>: rules that may answer None, and a fallback that answers.   *)

None == "None"

Chain(fallback) == [rules |-> <<>>, fallback |-> fallback]
with_rule(chain, rule) == [chain EXCEPT !.rules = Append(@, rule)]

Matching(chain, input) == {i \in DOMAIN chain.rules : chain.rules[i][input] # None}

(* The first rule that answers wins, else the fallback. *)
evaluate(chain, input) ==
  IF Matching(chain, input) = {} THEN chain.fallback[input]
  ELSE chain.rules[Min(Matching(chain, input))][input]

(* `|s| s.contains(phrase).then_some(kind)', the rules of classify.rs. *)
phrase_rule(phrase, kind) == [raw \in Raw |-> IF phrase \in raw THEN kind ELSE None]

(* Classifier for classify(), and for a chain. *)
FailureClassifier == [raw \in Raw |-> classify(raw)]
ChainedClassifier(chain) == [raw \in Raw |-> evaluate(chain, raw)]
=============================================================================
