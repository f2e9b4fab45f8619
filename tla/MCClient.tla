----------------------------- MODULE MCClient -----------------------------
(***************************************************************************)
(* Instances, for TLC, of the parts of the client that work alone: one     *)
(* behaviour is a behaviour of one of them.                                *)
(***************************************************************************)
EXTENDS Scan, Usage, CredentialStore, DevicePolling, UpdateCheck, ClientUpdate, TLC

CONSTANTS f1, f2, f3, s1, s2, p1, p2

VARIABLE part   \* the part that runs

\* Scan: a session with two sources, as Claude's and OpenCode's have, and one
\* with a single source.
MCSessionOf == [f \in Sources |-> IF f = f3 THEN s2 ELSE s1]
MCContents == [Sources -> 0..MaxMessages]
MCNoContent == [f \in Sources |-> 0]

\* UpdateCheck: releases before and after the client's, and of the next major.
MCCurrent == <<1, 1>>
MCVersions == {<<1, 0>>, <<1, 1>>, <<1, 2>>, <<2, 0>>}

\* Processes do not differ, nor do the two sources of a session.
Perms == Permutations({p1, p2}) \cup Permutations({f1, f2})

Parts == {"scan", "usage", "store", "polling", "check", "update"}

clientVars == <<part, vars, usageVars, storeVars, pollVars, checkVars, updateVars>>

ClientInit ==
    /\ part \in Parts
    /\ Init /\ UsageInit /\ StoreInit /\ PollingInit /\ UpdateCheckInit /\ ClientUpdateInit
    \* What the parts that do not run start from makes no difference.
    /\ part # "store" => reach = "up"
    /\ part # "update" => ~windows
    /\ part # "usage" => parser.model = CHOOSE m \in Models : TRUE

ClientNext ==
    \/ /\ part = "scan" /\ Next
       /\ UNCHANGED <<part, usageVars, storeVars, pollVars, checkVars, updateVars>>
    \/ /\ part = "usage" /\ UsageNext
       /\ UNCHANGED <<part, vars, storeVars, pollVars, checkVars, updateVars>>
    \/ /\ part = "store" /\ StoreNext
       /\ UNCHANGED <<part, vars, usageVars, pollVars, checkVars, updateVars>>
    \/ /\ part = "polling" /\ PollingNext
       /\ UNCHANGED <<part, vars, usageVars, storeVars, checkVars, updateVars>>
    \/ /\ part = "check" /\ UpdateCheckNext
       /\ UNCHANGED <<part, vars, usageVars, storeVars, pollVars, updateVars>>
    \/ /\ part = "update" /\ ClientUpdateNext
       /\ UNCHANGED <<part, vars, usageVars, storeVars, pollVars, checkVars>>

ClientSpec == ClientInit /\ [][ClientNext]_clientVars
===========================================================================
