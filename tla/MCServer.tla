----------------------------- MODULE MCServer -----------------------------
(***************************************************************************)
(* Instances, for TLC, of the parts of the server that work alone: one     *)
(* behaviour is a behaviour of one of them.                                *)
(***************************************************************************)
EXTENDS Sessions, Oidc, Limits, Startup, Pricing, TLC

CONSTANTS l1, p1, r1, o1, i1, e1, e2, t1, t2, a1

VARIABLE part   \* the part that runs

\* Oidc: the first subject's email changes, and its old one is given to
\* another.  Everybody is invited under the first email.
MCIdentities == {[subject |-> t1, email |-> e1], [subject |-> t1, email |-> e2],
                 [subject |-> t2, email |-> e1]}
MCInviteOrg == [i \in Invites |-> DefaultOrg]
MCInviteEmail == [i \in Invites |-> e1]

\* Pricing: one entry names a vendor's model, so it is imported under two
\* names; two entries of the first catalogue are one model at two rates.  The
\* last catalogue is none at all.
MCNames == {"router", "vendor"}
MCAliases == [n \in MCNames |-> IF n = "router" THEN <<"vendor">> ELSE <<>>]
Listed(n, authority, rate) == [name |-> n, authority |-> authority, rate |-> rate]
MCCatalogues == <<
    <<Listed("router", "openrouter", "low"), Listed("router", "openrouter", "high")>>,
    <<Listed("router", "openrouter", "high"), Listed("vendor", "official_provider", "low")>>,
    <<Listed("vendor", "openrouter", "high")>>,
    <<>> >>
NoCatalogue == 4

\* "resets" and "modes" are Sessions, "calls" and "sign-ins" are Limits,
\* "prices" and "catalogue" are Pricing.
Parts == {"resets", "modes", "oidc", "calls", "sign-ins", "startup", "prices", "catalogue"}

\* "modes": one request of each kind.
OneOfEach ==
    /\ \A l \in Links \ {l1} : links'[l] = links[l]
    /\ \A p \in Logins \ {p1} : logins'[p] = logins[p]
    /\ \A r \in Resets \ {r1} : resets'[r] = resets[r]

\* "prices": two administrators set prices of one model; no snapshots, and
\* the server is started once.
OneModel ==
    /\ \A a \in Admins : requests'[a].phase # "idle" =>
           requests'[a].name = "router" /\ requests'[a].rate = "low"
    /\ starts' <= 1

\* "catalogue": one administrator sets prices beside the imported ones.
OneAdmin ==
    /\ \A a \in Admins \ {a1} : requests'[a] = requests[a]
    /\ requests'[a1].phase # "idle" => requests'[a1].authority # "manual" /\ requests'[a1].rate = "low"

serverVars == <<part, sessionVars, oidcVars, limitsVars, startupVars, priceVars>>

ServerInit ==
    /\ part \in Parts
    /\ SessionsInit /\ OidcInit /\ LimitsInit /\ StartupInit /\ PricingInit
    \* What the parts that do not run start from makes no difference.
    /\ part # "modes" => members = {o1}
    /\ part # "oidc" => provisioning = "none"
    /\ part # "startup" => production /\ keyFile = NoKey
    /\ (file = NoCatalogue) = (part # "catalogue")

ServerNext ==
    \/ /\ part = "resets" /\ SessionsNext /\ UNCHANGED <<mode, members>>
       /\ UNCHANGED <<part, oidcVars, limitsVars, startupVars, priceVars>>
    \/ /\ part = "modes" /\ SessionsNext /\ OneOfEach
       /\ UNCHANGED <<part, oidcVars, limitsVars, startupVars, priceVars>>
    \/ /\ part = "oidc" /\ OidcNext
       /\ UNCHANGED <<part, sessionVars, limitsVars, startupVars, priceVars>>
    \/ /\ part = "calls" /\ LimitsNext /\ UNCHANGED <<tracked, signIns>>
       /\ UNCHANGED <<part, sessionVars, oidcVars, startupVars, priceVars>>
    \/ /\ part = "sign-ins" /\ LimitsNext /\ UNCHANGED <<windows, accepted>>
       /\ UNCHANGED <<part, sessionVars, oidcVars, startupVars, priceVars>>
    \/ /\ part = "startup" /\ StartupNext
       /\ UNCHANGED <<part, sessionVars, oidcVars, limitsVars, priceVars>>
    \/ /\ part = "prices" /\ (ServerStep \/ \E a \in Admins : PriceRequest(a))
       /\ OneModel /\ file' = NoCatalogue
       /\ UNCHANGED <<part, sessionVars, oidcVars, limitsVars, startupVars>>
    \/ /\ part = "catalogue" /\ PricingNext /\ OneAdmin /\ file' # NoCatalogue
       /\ UNCHANGED <<part, sessionVars, oidcVars, limitsVars, startupVars>>

ServerSpec == ServerInit /\ [][ServerNext]_serverVars
===========================================================================
