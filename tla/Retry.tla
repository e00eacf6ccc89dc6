------------------------------- MODULE Retry --------------------------------
(***************************************************************************)
(* shigoto-retry: RetryPolicy::decide and the deadline the scheduler       *)
(* derives from it.  Custom deciders are the consumer's code and left out. *)
(* jitter is in percent: the code's pseudo-random fraction lies in         *)
(* [-1, 1], and every delay in that band is allowed.                       *)
(***************************************************************************)
EXTENDS Integers

CONSTANTS
  U64Max,      \* the largest u64: where saturating_mul stops
  MaxShift     \* the largest exponent (30 in the code)

ASSUME RetryAssumption == U64Max \in Nat /\ MaxShift \in Nat

RetryPolicy == [kind : {"NoRetry", "Fixed", "Exponential"},
                attempts : Nat, base : Nat, max : Nat, jitter : Nat]

NoRetry == [kind |-> "NoRetry", attempts |-> 0, base |-> 0, max |-> 0, jitter |-> 0]
Fixed(n, delay) ==
  [kind |-> "Fixed", attempts |-> n, base |-> delay, max |-> delay, jitter |-> 0]
Exponential(n, base, max, jitter) ==
  [kind |-> "Exponential", attempts |-> n, base |-> base, max |-> max, jitter |-> jitter]

Smaller(a, b) == IF a <= b THEN a ELSE b

(* Exponential doubles per attempt, saturates, and is then capped. *)
Backoff(p, attempt) ==
  IF p.kind = "Exponential"
  THEN Smaller(Smaller(p.base * 2 ^ Smaller(attempt - 1, MaxShift), U64Max), p.max)
  ELSE p.base

(* The delays jitter_ms may turn a backoff into, cast back to u64. *)
Delays(p, attempt) ==
  LET b == Backoff(p, attempt)
  IN  {d \in 0 .. U64Max : /\ 100 * d >= 100 * b - p.jitter * b - 99
                           /\ 100 * d <= 100 * b + p.jitter * b}

(* FailureRecord: with_kind() for a daemon that classifies, new() for a    *)
(* caller that does not.  The error text and the time are left out.        *)
with_kind(attempt, kind) == [attempt |-> attempt, kind |-> kind]
FailureRecord(attempt) == with_kind(attempt, "Transient")

(* Mutant: the kind of the failure is not looked at. *)
Deadletters_by_budget(p, attempt, latest) == p.kind = "NoRetry" \/ attempt >= p.attempts

(* Is the job given up?  latest is the kind of the last FailureRecord. *)
Deadletters(p, attempt, latest) ==
  latest = "Declarative" \/ p.kind = "NoRetry" \/ attempt >= p.attempts

(* now + after, where the u64 delay is cast to an i64: values above the    *)
(* largest i64 wrap to negative ones.                                      *)
until_ms(now, after) == now + (IF 2 * after <= U64Max THEN after ELSE after - (U64Max + 1))
=============================================================================
