----------------------------- MODULE RetryPolicy -----------------------------
(***************************************************************************)
(* The retry policy of mbus-core: how long to wait before a retry, as      *)
(* BackoffStrategy and JitterStrategy compute it in integers of 32 bits.   *)
(***************************************************************************)
EXTENDS Integers

CONSTANTS
  U32Max,        \* u32::MAX
  MaxShift       \* the largest shift of a u32 (31)

ASSUME WidthAssumption == U32Max \in Nat \ {0} /\ MaxShift \in Nat
\* An arithmetical fact the provers do not know.
ASSUME PowersAssumption == \A k \in 0..MaxShift : 2 ^ k \in Nat

U32 == 0..U32Max

Least(a, b) == IF a <= b THEN a ELSE b
Saturated(n) == Least(n, U32Max)

(* A strategy is Immediate, Fixed, Exponential or Linear, with the fields   *)
(* of its variant.                                                          *)
BackoffStrategy ==
  [kind : {"Immediate"}]
    \cup [kind : {"Fixed"}, delay_ms : U32]
    \cup [kind : {"Exponential"}, base_delay_ms : U32, max_delay_ms : U32]
    \cup [kind : {"Linear"}, initial_delay_ms : U32, increment_ms : U32, max_delay_ms : U32]

JitterStrategy ==
  [kind : {"None"}]
    \cup [kind : {"Percentage"}, percent : 0..255]
    \cup [kind : {"BoundedMs"}, max_jitter_ms : U32]

(* delay_ms_for_retry, for the attempt with the given 1-based number.       *)
Exponential(b, attempt) ==
  Least(Saturated(b.base_delay_ms * 2 ^ Least(attempt - 1, MaxShift)), b.max_delay_ms)

Linear(b, attempt) ==
  Least(Saturated(b.initial_delay_ms + Saturated(b.increment_ms * (attempt - 1))), b.max_delay_ms)

delay_ms_for_retry(b, retry_attempt) ==
  LET attempt == IF retry_attempt = 0 THEN 1 ELSE retry_attempt
  IN  CASE b.kind = "Immediate"   -> 0
        [] b.kind = "Fixed"       -> b.delay_ms
        [] b.kind = "Exponential" -> Exponential(b, attempt)
        [] b.kind = "Linear"      -> Linear(b, attempt)

(* How far jitter may move a delay; 0 where apply returns early.            *)
delta(j, base_delay_ms) ==
  CASE j.kind = "None"       -> 0
    [] j.kind = "Percentage" -> Saturated(base_delay_ms * Least(j.percent, 100)) \div 100
    [] j.kind = "BoundedMs"  -> j.max_jitter_ms

(* The offset from the base that a random number stands for.                *)
offset(d, random) == (random % Saturated(Saturated(d * 2) + 1)) - d

(* The conversion of an i64 that is not negative to u32 keeps its low bits. *)
AsU32(n) == n % (U32Max + 1)

Jittered(base_delay_ms, d, random) ==
  LET jittered == base_delay_ms + offset(d, random)
  IN  AsU32(IF jittered < 0 THEN 0 ELSE jittered)

(* random_fn's next number, or that there is no random_fn.                  *)
NoRandom == -1
Random == U32 \cup {NoRandom}

(* A delta of 0 leaves an offset of 0, and so the base as it is, whether or *)
(* not apply returns before it draws a random number.                       *)
apply(j, base_delay_ms, random) ==
  IF random = NoRandom THEN base_delay_ms
  ELSE Jittered(base_delay_ms, delta(j, base_delay_ms), random)
=============================================================================
