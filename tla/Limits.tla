------------------------------- MODULE Limits -------------------------------
(***************************************************************************)
(* The in-process limits of crates/metrune-api/src/limits.rs: RateLimiter  *)
(* counts requests in fixed windows, LoginAttemptLimiter counts failed     *)
(* sign-ins of an account.  Login (crates/metrune-api/src/app.rs) asks the *)
(* second one before it verifies the password and charges it afterwards,   *)
(* while other sign-ins of the account are at the same point.              *)
(***************************************************************************)
EXTENDS Integers, FiniteSets

CONSTANTS
    Callers,        \* callers, as scope and key
    Accounts,       \* email addresses
    SignIns,        \* sign-ins that can be under way at once
    Window,         \* length of a window
    MaxRequests,    \* requests a key has in a window
    MaxKeys,        \* windows RateLimiter keeps
    MaxFailures,    \* failures an account has in a window
    MaxLoginKeys,   \* accounts LoginAttemptLimiter keeps
    MaxTime         \* bound on time

ASSUME LimitsAssumption ==
    /\ Window \in Nat \ {0} /\ MaxRequests \in Nat \ {0} /\ MaxFailures \in Nat \ {0}
    /\ MaxKeys \in Nat \ {0} /\ MaxLoginKeys \in Nat \ {0} /\ MaxTime \in Nat
    /\ IsFiniteSet(SignIns)

VARIABLES
    now,
    windows,        \* windows of RateLimiter, by the keys that have one
    accepted,       \* requests let through, by key
    refused,        \* keys refused by the last check, and why
    tracked,        \* windows of LoginAttemptLimiter, by account
    signIns         \* the account each sign-in under way is for

limitsVars == <<now, windows, accepted, refused, tracked, signIns>>

Nobody == "nobody"

\* A function with one more entry, or with another value for it.
With(f, k, v) == [i \in DOMAIN f \cup {k} |-> IF i = k THEN v ELSE f[i]]
Keep(f, S) == [i \in DOMAIN f \cap S |-> f[i]]

\* A request let through: at what time, and as which of its window.
Acceptance == [at : 0..MaxTime, hit : 1..MaxRequests]

LimitsTypeOK ==
    /\ now \in 0..MaxTime
    /\ accepted \in [Callers -> SUBSET Acceptance]
    /\ DOMAIN windows \subseteq Callers
    /\ \A k \in DOMAIN windows :
         windows[k].expires \in 0..(MaxTime + Window) /\ windows[k].hits \in 1..MaxRequests
    /\ Cardinality(DOMAIN windows) <= MaxKeys
    /\ Cardinality(DOMAIN tracked) <= MaxLoginKeys

LimitsInit ==
    /\ now = 0
    /\ windows = <<>>
    /\ accepted = [k \in Callers |-> {}]
    /\ refused = [key |-> Nobody, why |-> "none"]
    /\ tracked = <<>>
    /\ signIns = [l \in SignIns |-> Nobody]

Tick ==
    /\ now < MaxTime
    /\ now' = now + 1
    /\ refused' = [key |-> Nobody, why |-> "none"]
    /\ UNCHANGED <<windows, accepted, tracked, signIns>>

\* Mutant of Live: a window still counts at the instant it ends.
LiveTooLong == {k \in DOMAIN windows : windows[k].expires >= now}

\* windows.retain: those that have not expired.
Live == {k \in DOMAIN windows : windows[k].expires > now}

\* RateLimiter::check.
Check(k) ==
    LET live == Keep(windows, Live)
        window == IF k \in DOMAIN live THEN live[k] ELSE [expires |-> now + Window, hits |-> 0]
    IN  IF Cardinality(DOMAIN live) >= MaxKeys /\ k \notin DOMAIN live
        THEN /\ refused' = [key |-> k, why |-> "full"]
             /\ windows' = live
             /\ UNCHANGED accepted
        ELSE IF window.hits >= MaxRequests
        THEN /\ refused' = [key |-> k, why |-> "spent"]
             /\ windows' = live
             /\ UNCHANGED accepted
        ELSE /\ windows' = With(live, k, [window EXCEPT !.hits = @ + 1])
             /\ accepted' = [accepted EXCEPT ![k] = @ \cup {[at |-> now, hit |-> window.hits + 1]}]
             /\ refused' = [key |-> Nobody, why |-> "none"]

Request ==
    /\ \E k \in Callers : Check(k)
    /\ UNCHANGED <<now, tracked, signIns>>

-----------------------------------------------------------------------------

\* Windows of accounts that have not ended.
Recent == {a \in DOMAIN tracked : now - tracked[a].started < Window}

\* The accounts kept once a full table has been cleared of ended windows.
Retained == IF Cardinality(DOMAIN tracked) >= MaxLoginKeys THEN Keep(tracked, Recent)
            ELSE tracked

\* Mutant of IsLimited: one failure more.
IsLimitedLate(a) ==
    a \in DOMAIN Retained /\ Retained[a].failures > MaxFailures

\* LoginAttemptLimiter::is_limited, on the table after clearing it.
IsLimited(a) ==
    a \in DOMAIN Retained /\ Retained[a].failures >= MaxFailures

\* login up to the account lookup.
BeginLogin(l) ==
    /\ signIns[l] = Nobody
    /\ \E a \in Accounts :
         /\ tracked' = Retained
         /\ IF IsLimited(a)
            THEN UNCHANGED signIns
            ELSE signIns' = [signIns EXCEPT ![l] = a]
    /\ refused' = [key |-> Nobody, why |-> "none"]
    /\ UNCHANGED <<now, windows, accepted>>

\* LoginAttemptLimiter::record_failure.  A table full of recent windows
\* counts no further account.
RecordFailure(a) ==
    LET fresh == [started |-> now, failures |-> 0]
        window == IF a \in DOMAIN Retained /\ a \in Recent THEN Retained[a] ELSE fresh
    IN  IF Cardinality(DOMAIN Retained) >= MaxLoginKeys /\ a \notin DOMAIN Retained
        THEN Retained
        ELSE With(Retained, a, [window EXCEPT !.failures = @ + 1])

\* The password was wrong: failed_login.
FailLogin(l) ==
    /\ signIns[l] # Nobody
    /\ tracked' = RecordFailure(signIns[l])
    /\ signIns' = [signIns EXCEPT ![l] = Nobody]
    /\ refused' = [key |-> Nobody, why |-> "none"]
    /\ UNCHANGED <<now, windows, accepted>>

\* It was right: LoginAttemptLimiter::reset.
PassLogin(l) ==
    /\ signIns[l] # Nobody
    /\ tracked' = Keep(tracked, DOMAIN tracked \ {signIns[l]})
    /\ signIns' = [signIns EXCEPT ![l] = Nobody]
    /\ refused' = [key |-> Nobody, why |-> "none"]
    /\ UNCHANGED <<now, windows, accepted>>

LimitsNext ==
    \/ Tick
    \/ Request
    \/ \E l \in SignIns : BeginLogin(l) \/ FailLogin(l) \/ PassLogin(l)

LimitsSpec == LimitsInit /\ [][LimitsNext]_limitsVars

-----------------------------------------------------------------------------

\* What key k was let through within the last window.
Recently(k) == {x \in accepted[k] : now - x.at < Window}

\* RateLimiter refuses a caller only when it was let through its whole budget
\* within the last window, or when the table is full of callers that were
\* served within it: an expired window or a full table of old ones refuses
\* nobody.
RefusalIsDue ==
    /\ refused.why = "spent" => Cardinality(Recently(refused.key)) >= MaxRequests
    /\ refused.why = "full" =>
           Cardinality({k \in Callers \ {refused.key} : Recently(k) # {}}) >= MaxKeys

\* Sign-ins that pass the check together can overrun an account's budget of
\* failures, by the number under way and no more.
OvershootIsBounded ==
    \A a \in DOMAIN tracked :
        tracked[a].failures + Cardinality({l \in SignIns : signIns[l] = a})
            <= MaxFailures + Cardinality(SignIns) - 1

=============================================================================
