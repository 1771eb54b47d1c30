----------------------------- MODULE RateLimiter -----------------------------
(***************************************************************************)
(* The limiter of requests (src/rate-limit.js), for one bucket and one     *)
(* client: a window starts with the first request after the last window    *)
(* has ended, and now and then entries whose window has ended are swept.   *)
(***************************************************************************)
EXTENDS Nullable, Naturals, Functions

CONSTANTS
    Limit,     \* limit
    Window,    \* windowMs
    MaxInstant \* the last instant that is modelled

ASSUME LimiterAssumption ==
    Limit \in Nat \ {0} /\ Window \in Nat \ {0} /\ MaxInstant \in Nat /\ NULL \notin Nat

VARIABLES
    instant,
    entry,    \* the client's entry: NoEntryYet, or its count and end
    admitted  \* admitted[i]: how many requests passed at instant i

limiterVars == <<instant, entry, admitted>>

NoEntryYet == [count |-> 0, resetAt |-> 0]

LimiterInit ==
    /\ instant = 0
    /\ entry = NoEntryYet
    /\ admitted = [i \in 0 .. MaxInstant |-> 0]

\* Mutant: an entry is taken for ended in the middle of its window.
EndsEarly == entry.resetAt <= instant + 1
WindowEnded == entry.resetAt <= instant

\* consume; a request that is refused counts as well.
Consume ==
    LET row == IF WindowEnded THEN [count |-> 1, resetAt |-> instant + Window]
               ELSE [entry EXCEPT !.count = @ + 1]
    IN  /\ entry' = [row EXCEPT !.count = IF @ > Limit THEN Limit + 1 ELSE @]
        /\ admitted' = IF row.count > Limit THEN admitted
                       ELSE [admitted EXCEPT ![instant] = @ + 1]
        /\ UNCHANGED instant

Sweep ==
    /\ WindowEnded
    /\ entry' = NoEntryYet
    /\ UNCHANGED <<instant, admitted>>

InstantPasses ==
    /\ instant < MaxInstant
    /\ instant' = instant + 1
    /\ UNCHANGED <<entry, admitted>>

LimiterNext == Consume \/ Sweep \/ InstantPasses

LimiterSpec == LimiterInit /\ [][LimiterNext]_limiterVars

\* consume, sweep: wherever windows begin and whenever entries are swept, fewer
\* than twice the limit pass in any time as long as a window: the request that
\* began the first of two windows is already too long ago.
LessThanTwiceTheLimit ==
    \A i \in 0 .. MaxInstant :
        SumFunctionOnSet(admitted, {j \in 0 .. MaxInstant : i <= j /\ j < i + Window})
            < 2 * Limit
=============================================================================
