-------------------------- MODULE CreditRateLimiter -------------------------
(***************************************************************************)
(* The bucket of weighted credits calls are paid from                      *)
(* (src/src/rpc/rate-limit.ts).  There is no timer: whoever asks first     *)
(* after a window has passed refills it and starts the next window then.   *)
(***************************************************************************)
EXTENDS Naturals

CONSTANTS
  CreditsPerWindow,   \* credits a refill leaves in the bucket
  Window,             \* clock ticks in windowMs
  Cost                \* Cost[m]: the credits method m costs

Methods == DOMAIN Cost

ASSUME LimiterAssumption ==
  /\ CreditsPerWindow \in Nat
  /\ Window \in Nat \ {0}
  /\ Cost \in [Methods -> Nat]

VARIABLES
  credits,    \* availableCredits
  elapsed     \* ticks since windowStart; beyond Window they are not counted

limiterVars == <<credits, elapsed>>

LimiterTypeOK ==
  /\ credits \in 0..CreditsPerWindow
  /\ elapsed \in 0..Window

LimiterInit ==
  /\ credits = CreditsPerWindow
  /\ elapsed = 0

\* Fault: the window must be exceeded, and the clock is not counted so far.
RefilledLate == IF elapsed > Window THEN CreditsPerWindow ELSE credits

\* What refill() leaves in the bucket.
Refilled == IF elapsed >= Window THEN CreditsPerWindow ELSE credits

\* Fault: any credit left pays for any method.
AffordableIfAny(m) == Refilled > 0

Affordable(m) == Refilled >= Cost[m]

\* Fault: a refill does not start a new window.
AcquireWithoutAnchor(m) ==
  /\ Affordable(m)
  /\ credits' = Refilled - Cost[m]
  /\ elapsed' = elapsed

Anchored == IF elapsed >= Window THEN 0 ELSE elapsed

\* tryAcquire returns true.
Acquire(m) ==
  /\ Affordable(m)
  /\ credits' = Refilled - Cost[m]
  /\ elapsed' = Anchored

\* available() is read, or tryAcquire returns false: the bucket is refilled if
\* it is time, and nothing is spent.
Refill ==
  /\ credits' = Refilled
  /\ elapsed' = Anchored

\* The clock moves.
Tick ==
  /\ elapsed' = IF elapsed < Window THEN elapsed + 1 ELSE elapsed
  /\ UNCHANGED credits

=============================================================================
