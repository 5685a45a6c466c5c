----------------------------- MODULE RateLimit -----------------------------
(***************************************************************************)
(* One bucket of InMemoryRateLimiter (packages/core/src/rate-limit.ts): a  *)
(* fixed window that opens with the first request after the last one       *)
(* closed.  A bucket that does not exist is one that closed at time 0.     *)
(***************************************************************************)
EXTENDS Integers

NoBucket == [remaining |-> 0, resetAt |-> 0]

Closed(b, now) == b.resetAt <= now

\* check(...).allowed
Allowed(b, now) == Closed(b, now) \/ b.remaining > 0

\* Slip: the request that opens a window is not counted.
Checked_FirstFree(b, limit, window, now) ==
  IF Closed(b, now) THEN [remaining |-> limit, resetAt |-> now + window]
  ELSE IF b.remaining <= 0 THEN b
  ELSE [b EXCEPT !.remaining = @ - 1]

\* The bucket check leaves behind.
Checked(b, limit, window, now) ==
  IF Closed(b, now) THEN [remaining |-> limit - 1, resetAt |-> now + window]
  ELSE IF b.remaining <= 0 THEN b
  ELSE [b EXCEPT !.remaining = @ - 1]
=============================================================================
