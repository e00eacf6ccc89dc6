---------------------------- MODULE MCScheduler -----------------------------
(***************************************************************************)
(* Instances of Scheduler for TLC: `left' and `right' are two roots of     *)
(* kind "build" in one scope, `join' is a "deploy" that needs both.        *)
(***************************************************************************)
EXTENDS Views, TLC

CONSTANTS left, right, join, approval

Kind == (left :> "build") @@ (right :> "build") @@ (join :> "deploy")

Global == <<"global", "all">>
OfKind(k) == <<"kind", k>>
OfScope(s) == <<"scope", s>>

MCEnvelopesOf == [j \in Jobs |-> {Global, OfKind(Kind[j]), OfScope("ws")}]
MCEnvelopes == UNION {MCEnvelopesOf[j] : j \in Jobs}

(* One build at a time; scopes are unbounded. *)
MCCap == [e \in MCEnvelopes |-> CASE e = Global -> 2
                                  [] e = OfKind("build") -> 1
                                  [] OTHER -> Unbounded]

(* The join of three jobs, or two of them: a chain, or a pair of rivals. *)
MCPreds == [j \in Jobs |-> IF j = join THEN Jobs \ {join} ELSE {}]
JoinWaves == <<<<left, right>>, <<join>>>>
ChainWaves == <<<<left>>, <<join>>>>
PairWaves == <<<<left, right>>>>
OneWave == <<<<left>>>>

(* `left' is retried twice with a growing delay, `right' never, `join' at  *)
(* once.                                                                   *)
MCPolicy == [j \in Jobs |-> CASE j = left -> Exponential(3, 1, 2, 0)
                              [] j = right -> NoRetry
                              [] OTHER -> Fixed(2, 0)]

(* For two concurrent ticks: one immediate retry of `left'. *)
BriefPolicy == [j \in Jobs |-> IF j = left THEN Fixed(2, 0) ELSE NoRetry]

MCGatesOf == [j \in Jobs |-> IF j = join THEN Gates ELSE {}]
=============================================================================
