---------------------------- MODULE DevicePolling ----------------------------
(***************************************************************************)
(* The device grant in time: the client's polling loop                     *)
(* (enroll_with_device_authorization and enroll in                         *)
(* crates/metrune-cli/src/app.rs) against the server's poll interval       *)
(* (pending_response and exchange_device_code in device_auth.rs).          *)
(*                                                                         *)
(* A request reaches the server and its answer the client within Latency   *)
(* units of time, unless a fault delays the request or loses the answer:   *)
(* then the client's HTTP timeout ends the wait, and a delayed request may *)
(* still be handled at any later time.                                     *)
(***************************************************************************)
EXTENDS Integers, FiniteSets

CONSTANTS
  InitialInterval,  \* INITIAL_POLL_INTERVAL_SECONDS
  MaxInterval,      \* MAX_POLL_INTERVAL_SECONDS, MAX_DEVICE_POLL_SECONDS
  Increment,        \* the 5 seconds either side adds to its interval
  Lifetime,         \* DEVICE_CODE_LIFETIME_MINUTES
  Timeout,          \* the client's HTTP timeout
  Latency,
  MaxTime,          \* bound: the time the model runs for
  MaxFaults         \* bound: delayed requests, lost answers and server errors

ASSUME PollingAssumption ==
  /\ {InitialInterval, MaxInterval, Increment, Lifetime, Timeout, Latency, MaxTime, MaxFaults} \subseteq Nat
  /\ 0 < InitialInterval /\ InitialInterval <= MaxInterval
  /\ Latency < Timeout

Never == -1

VARIABLES
  now,
  client,    \* the loop: where it is, its interval, when it wakes or sent
  requests,  \* requests on their way, by the time they were sent
  late,      \* those of them that a fault delays
  answer,    \* the answer on its way to the client
  grant,     \* the row of device_enrollment_authorizations
  stored,    \* the installation token is in the credential store
  faults

pollVars == <<now, client, requests, late, answer, grant, stored, faults>>

Least(a, b) == IF a < b THEN a ELSE b
Slower(interval) == Least(interval + Increment, MaxInterval)

PollingInit ==
  /\ now = 0
  /\ client = [pc |-> "sleep", interval |-> InitialInterval, at |-> InitialInterval]
  /\ requests = {} /\ late = {}
  /\ answer = "none"
  /\ grant = [status |-> "pending", interval |-> InitialInterval, polled |-> Never, approved |-> Never]
  /\ stored = FALSE
  /\ faults = 0

-----------------------------------------------------------------------------
(* The client                                                              *)

\* Mutant of Sleep: the loop keeps a margin of some of the longest intervals.
SleepNotPast(interval) ==
  client' = IF now + 4 * MaxInterval >= Lifetime THEN [client EXCEPT !.pc = "failed"]
            ELSE [pc |-> "sleep", interval |-> interval, at |-> now + interval]

\* The head of the loop: the deadline, then the sleep.
Sleep(interval) ==
  client' = IF now >= Lifetime THEN [client EXCEPT !.pc = "failed"]
            ELSE [pc |-> "sleep", interval |-> interval, at |-> now + interval]

Send ==
  /\ client.pc = "sleep"
  /\ client.at <= now
  /\ client' = [client EXCEPT !.pc = "wait", !.at = now]
  /\ requests' = requests \cup {now}
  /\ UNCHANGED <<now, late, answer, grant, stored, faults>>

Handle ==
  /\ client.pc = "wait" /\ answer # "none"
  /\ CASE answer = "pending" -> Sleep(client.interval)
       [] answer \in {"slow_down", "unavailable"} -> Sleep(Slower(client.interval))
       [] answer = "token" -> client' = [client EXCEPT !.pc = "token"]
       [] OTHER -> client' = [client EXCEPT !.pc = "failed"]
  /\ answer' = "none"
  /\ UNCHANGED <<now, requests, late, grant, stored, faults>>

\* Mutant of HttpTimeout: the next poll comes after the same interval.
HttpTimeoutUnslowed ==
  /\ client.pc = "wait"
  /\ answer = "none"
  /\ now >= client.at + Timeout
  /\ Sleep(client.interval)
  /\ UNCHANGED <<now, requests, late, answer, grant, stored, faults>>

HttpTimeout ==
  /\ client.pc = "wait"
  /\ answer = "none"
  /\ now >= client.at + Timeout
  /\ Sleep(Slower(client.interval))
  /\ UNCHANGED <<now, requests, late, answer, grant, stored, faults>>

StoreToken ==
  /\ client.pc = "token"
  /\ stored' = TRUE
  /\ client' = [client EXCEPT !.pc = "stored"]
  /\ UNCHANGED <<now, requests, late, answer, grant, faults>>

\* save_config may fail; the token is then deleted again.
SaveConfig ==
  /\ client.pc = "stored"
  /\ \/ client' = [client EXCEPT !.pc = "enrolled"] /\ UNCHANGED stored
     \/ client' = [client EXCEPT !.pc = "failed"] /\ stored' = FALSE
  /\ UNCHANGED <<now, requests, late, answer, grant, faults>>

-----------------------------------------------------------------------------
(* The server                                                              *)

\* What exchange_device_code finds: the expiry comes before the status.
PollStatus ==
  IF now >= Lifetime THEN "expired"
  ELSE IF grant.status # "pending" THEN grant.status
  ELSE IF grant.polled # Never /\ now < grant.polled + grant.interval THEN "slow_down"
  ELSE "pending"

\* One poll, in one transaction under the row's lock.
Poll(r) ==
  /\ r \in requests
  /\ grant' = CASE PollStatus = "slow_down" -> [grant EXCEPT !.interval = Slower(@), !.polled = now]
                [] PollStatus = "pending" -> [grant EXCEPT !.polled = now]
                [] PollStatus = "approved" -> [grant EXCEPT !.status = "consumed"]
                [] OTHER -> grant
  /\ answer' = IF client.pc = "wait" /\ client.at = r /\ r \notin late
               THEN IF PollStatus = "approved" THEN "token" ELSE PollStatus
               ELSE answer
  /\ requests' = requests \ {r}
  /\ late' = late \ {r}
  /\ UNCHANGED <<now, client, stored, faults>>

\* 5xx or too many requests; nothing is changed.
PollUnavailable(r) ==
  /\ r \in requests \ late
  /\ faults < MaxFaults
  /\ faults' = faults + 1
  /\ requests' = requests \ {r}
  /\ answer' = "unavailable"
  /\ UNCHANGED <<now, client, late, grant, stored>>

\* approve_device and its refusal, in the browser.
Decide ==
  /\ grant.status = "pending" /\ now < Lifetime
  /\ grant' \in {[grant EXCEPT !.status = "approved", !.approved = now],
                 [grant EXCEPT !.status = "denied"]}
  /\ UNCHANGED <<now, client, requests, late, answer, stored, faults>>

-----------------------------------------------------------------------------
(* The network and time                                                    *)

DelayRequest(r) ==
  /\ r \in requests \ late
  /\ faults < MaxFaults
  /\ faults' = faults + 1
  /\ late' = late \cup {r}
  /\ UNCHANGED <<now, client, requests, answer, grant, stored>>

LoseAnswer ==
  /\ answer # "none"
  /\ faults < MaxFaults
  /\ faults' = faults + 1
  /\ answer' = "none"
  /\ UNCHANGED <<now, client, requests, late, grant, stored>>

\* Time passes unless something is due: the client wakes and handles answers
\* in time, and what no fault holds up arrives within Latency.
Tick ==
  /\ now < MaxTime
  /\ client.pc = "sleep" => now < client.at
  /\ client.pc = "wait" =>
       /\ answer # "none" \/ client.at \in requests \ late => now < client.at + Latency
       /\ now < client.at + Timeout
  /\ client.pc \notin {"token", "stored"}
  /\ now' = now + 1
  /\ UNCHANGED <<client, requests, late, answer, grant, stored, faults>>

PollingNext ==
  \/ Send \/ Handle \/ HttpTimeout \/ StoreToken \/ SaveConfig
  \/ \E r \in requests : Poll(r) \/ PollUnavailable(r) \/ DelayRequest(r)
  \/ LoseAnswer \/ Decide \/ Tick

PollingSpec == PollingInit /\ [][PollingNext]_pollVars

-----------------------------------------------------------------------------
Loop == [pc : {"sleep", "wait", "token", "stored", "enrolled", "failed"},
         interval : InitialInterval..MaxInterval, at : 0..(MaxTime + MaxInterval)]
GrantRow == [status : {"pending", "approved", "denied", "consumed"}, interval : InitialInterval..MaxInterval,
             polled : Never..MaxTime, approved : Never..MaxTime]

\* The variables' types; the token is stored only while it is needed.
PollingTypeOK ==
  /\ now \in 0..MaxTime
  /\ client \in Loop
  /\ requests \subseteq 0..MaxTime /\ late \subseteq requests
  /\ answer \in {"none", "pending", "slow_down", "unavailable", "token", "denied", "consumed", "expired"}
  /\ grant \in GrantRow
  /\ stored \in BOOLEAN /\ (stored <=> client.pc \in {"stored", "enrolled"})
  /\ faults \in 0..MaxFaults

\* The client never sleeps for less than the interval the server demands,
\* whatever was lost or late: what raised the server's interval unseen has
\* raised the client's too.
ClientKeepsPace == client.pc = "sleep" => client.interval >= grant.interval

\* The loop gives up on a grant that was approved only when the approval came
\* too late for the poll after it, or when a fault stood in the way.
GivesUpOnlyLate ==
  client.pc = "failed" /\ grant.approved # Never /\ grant.status = "approved" =>
    faults > 0 \/ grant.approved >= Lifetime - InitialInterval - 2 * Latency
=============================================================================
