------------------------------ MODULE Pricing -------------------------------
(***************************************************************************)
(* The server's price table model_prices                                   *)
(* (crates/metrune-api/src/app.rs): the catalogue a server imports when it *)
(* starts, the prices administrators keep for their organization, and the  *)
(* estimates apply_server_prices puts on a snapshot when it is ingested    *)
(* and, through reprice_unknown_history, at each later start.              *)
(*                                                                         *)
(* Administrators' requests are transactions at PostgreSQL's READ          *)
(* COMMITTED level: a statement sees the rows committed when it began,     *)
(* waits for a row another transaction has locked, and looks at that row   *)
(* again.  A row is closed when its effective_until is set; the catalogue  *)
(* entries modelled carry no dates of their own, so a row is in force      *)
(* exactly while it is open.  A catalogue version names one content.  One  *)
(* organization, one server process; the import is not in a transaction.   *)
(***************************************************************************)
EXTENDS Integers, Sequences, FiniteSets, SequencesExt

CONSTANTS
    Names,          \* pairs of provider and model, canonical
    Catalogues,     \* the entries of each catalogue version, in order
    Aliases,        \* the further pairs an entry of a name is imported for
    Admins,         \* administrators' requests that can be under way at once
    Authorities,    \* authorities administrators use
    Rates,          \* what a model's tokens can cost
    Sessions,       \* sessions whose snapshots are stored
    MaxRows,        \* bound on the rows ever inserted
    MaxStarts,      \* bound on the server's starts
    MaxUploads      \* bound on the uploads of each session

\* The authorities the import closes and sets again.
Imported == {"openrouter", "default_catalog"}

\* An entry of a catalogue.
Entry == [name : Names, authority : Authorities \cup Imported \cup {"official_provider"}, rate : Rates]

ASSUME PricingAssumption ==
    /\ \A v \in DOMAIN Catalogues : v \in Nat /\ Catalogues[v] \in Seq(Entry)
    /\ Aliases \in [Names -> Seq(Names)]
    /\ Names # {} /\ Rates # {}
    /\ Authorities \subseteq {"organization_override", "self_hosted", "official_provider", "manual"}
    /\ MaxRows \in Nat /\ MaxStarts \in Nat /\ MaxUploads \in Nat

VARIABLES
    rows,           \* model_prices
    inserted,       \* number of rows ever inserted, the next row's id
    server,         \* what the server process is doing
    file,           \* version of the catalogue in METRUNE_DEFAULT_PRICE_CATALOG
    starts,
    requests,       \* what each administrator's request is doing
    snapshots       \* what FINAL shows of each session

priceVars == <<rows, inserted, server, file, starts, requests, snapshots>>

\* validate_price_request, the CHECK of the table and the catalogue's own.
Row == [id : Nat, scope : {"default", "organization"}, name : Names,
        authority : Authorities \cup Imported \cup {"official_provider"},
        rate : Rates, version : Int, open : BOOLEAN, knew : SUBSET Nat]

Phases == {"idle", "closing", "waiting", "inserting", "committing"}

Idle == [phase |-> "idle", name |-> CHOOSE n \in Names : TRUE, authority |-> "manual",
         rate |-> CHOOSE rate \in Rates : TRUE, found |-> {}, closed |-> {}, knew |-> {}]

\* What the open rows of a scope are for a name, and the one of an authority.
OpenOf(scope, n) == {r \in rows : r.open /\ r.scope = scope /\ r.name = n}
Clashes(scope, n, authority) == {r \in OpenOf(scope, n) : r.authority = authority}

PricingTypeOK ==
    /\ rows \subseteq Row
    /\ \A r, s \in rows : r.id = s.id => r = s
    /\ \A r \in rows : r.open => Clashes(r.scope, r.name, r.authority) = {r}
    /\ server.phase \in {"down", "importing", "repricing", "serving"}
    /\ \A a \in Admins : requests[a].phase \in Phases

PricingInit ==
    /\ rows = {} /\ inserted = 0
    /\ server = [phase |-> "down", version |-> 1, left |-> <<>>]
    /\ file \in DOMAIN Catalogues
    /\ starts = 0
    /\ requests = [a \in Admins |-> Idle]
    /\ snapshots = [s \in Sessions |-> [uploads |-> 0, slices |-> <<>>]]

Close(closed) ==
    {r \in rows : r.id \notin closed} \cup {[r EXCEPT !.open = FALSE] : r \in {x \in rows : x.id \in closed}}

(***************************************************************************)
(* Estimates.                                                              *)
(***************************************************************************)
Rank(authority) ==
    CASE authority = "organization_override" -> 60
      [] authority = "self_hosted" -> 50
      [] authority = "official_provider" -> 40
      [] authority = "openrouter" -> 30
      [] authority = "default_catalog" -> 20
      [] OTHER -> 10

\* The row the lookup's ORDER BY puts first: an organization's before a
\* default one, then by authority.
Preferred(r, s) ==
    \/ r.scope = "organization" /\ s.scope = "default"
    \/ r.scope = s.scope /\ Rank(r.authority) >= Rank(s.authority)

InForce(n) == OpenOf("organization", n) \cup OpenOf("default", n)
Lookup(n) == CHOOSE r \in InForce(n) : \A s \in InForce(n) : Preferred(r, s)

\* The cost of a model's slice in a snapshot: its kind, who estimated it, and
\* the source, version and rate of the estimate.  Tokens times rate is its
\* amount, of which the steps of the slice get their shares.
Cost(kind, by, source, version, rate) ==
    [kind |-> kind, by |-> by, source |-> source, version |-> version, rate |-> rate]

\* What clients send: reported by the provider, not known, or estimated from a
\* price catalogue of their own.
Sent == {Cost(kind, "client", "none", 0, "none") : kind \in {"reported", "unknown", "estimated"}}

\* Mutant of PricedSlice: a slice that has a version keeps it.
PricedSliceKeeping(n, cost) ==
    IF cost.kind = "reported" \/ InForce(n) = {} THEN cost
    ELSE Cost("estimated", "server", Lookup(n).authority,
              IF cost.by = "server" THEN cost.version ELSE Lookup(n).version, Lookup(n).rate)

\* apply_server_prices, for one slice: only what the provider reported stays;
\* an estimate gives way to the price in force now, if there is one.
PricedSlice(n, cost) ==
    IF cost.kind = "reported" \/ InForce(n) = {} THEN cost
    ELSE Cost("estimated", "server", Lookup(n).authority, Lookup(n).version, Lookup(n).rate)

Priced(slices) == [n \in DOMAIN slices |-> PricedSlice(n, slices[n])]

(***************************************************************************)
(* A start of the server.                                                  *)
(***************************************************************************)
\* Mutant of CloseStale: the rows of the version before are left in force.
CloseStaleNothing(version) == rows

\* The first statement of import_default_price_catalog.
CloseStale(version) ==
    Close({r.id : r \in {x \in rows : x.open /\ x.scope = "default"
                                        /\ x.authority \in Imported /\ x.version # version}})

\* The rows an entry is imported as: itself, then its vendor's and aliases'.
RowsOf(entry) ==
    <<entry>> \o [i \in 1..Len(Aliases[entry.name]) |->
                    [name |-> Aliases[entry.name][i], authority |-> "default_catalog",
                     rate |-> entry.rate]]

StartImport ==
    /\ server.phase = "down"
    /\ starts < MaxStarts
    /\ starts' = starts + 1
    /\ rows' = CloseStale(file)
    /\ server' = [phase |-> "importing", version |-> file,
                  left |-> FlattenSeq([i \in DOMAIN Catalogues[file] |-> RowsOf(Catalogues[file][i])])]
    /\ UNCHANGED <<inserted, file, requests, snapshots>>

\* insert_catalog_price: ON CONFLICT DO NOTHING.
InsertCatalogPrice ==
    /\ server.phase = "importing"
    /\ server.left # <<>>
    /\ LET entry == Head(server.left)
       IN  IF Clashes("default", entry.name, entry.authority) # {} THEN UNCHANGED <<rows, inserted>>
           ELSE /\ inserted' = inserted + 1
                /\ rows' = rows \cup {[id |-> inserted + 1, scope |-> "default",
                      name |-> entry.name, authority |-> entry.authority,
                      rate |-> entry.rate, version |-> server.version,
                      open |-> TRUE, knew |-> {}]}
    /\ server' = [server EXCEPT !.left = Tail(@)]
    /\ UNCHANGED <<file, starts, requests, snapshots>>

FinishImport ==
    /\ server.phase = "importing" /\ server.left = <<>>
    /\ server' = [server EXCEPT !.phase = "repricing"]
    /\ UNCHANGED <<rows, inserted, file, starts, requests, snapshots>>

Unpriced(snapshot) == \E n \in DOMAIN snapshot.slices : snapshot.slices[n].kind = "unknown"

\* reprice_unknown_history: every snapshot with a slice of unknown cost is
\* priced again, the slices that have an estimate included.
RepriceUnknownHistory ==
    /\ server.phase = "repricing"
    /\ snapshots' = [s \in Sessions |->
         LET priced == Priced(snapshots[s].slices)
         IN  IF /\ Unpriced(snapshots[s])
                /\ \E n \in DOMAIN priced : priced[n].kind = "estimated"
             THEN [snapshots[s] EXCEPT !.slices = priced]
             ELSE snapshots[s]]
    /\ server' = [server EXCEPT !.phase = "serving"]
    /\ UNCHANGED <<rows, inserted, file, starts, requests>>

\* The process stops at any point; open transactions are rolled back.
Stop ==
    /\ server.phase # "down"
    /\ server' = [server EXCEPT !.phase = "down", !.left = <<>>]
    /\ requests' = [a \in Admins |-> Idle]
    /\ UNCHANGED <<rows, inserted, file, starts, snapshots>>

\* A release ships another catalogue.
ReplaceFile ==
    /\ server.phase = "down"
    /\ file' \in DOMAIN Catalogues \ {file}
    /\ UNCHANGED <<rows, inserted, server, starts, requests, snapshots>>

-----------------------------------------------------------------------------
\* A snapshot is ingested, with a slice for each model it used.
Ingest(s) ==
    /\ server.phase = "serving"
    /\ snapshots[s].uploads < MaxUploads
    /\ \E used \in SUBSET Names \ {{}} : \E slices \in [used -> Sent] :
         snapshots' = [snapshots EXCEPT ![s] = [uploads |-> @.uploads + 1, slices |-> Priced(slices)]]
    /\ UNCHANGED <<rows, inserted, server, file, starts, requests>>

(***************************************************************************)
(* Requests of administrators.                                             *)
(***************************************************************************)
Locked(a) == UNION {requests[b].closed : b \in Admins \ {a}}
Committed(n) == {r.id : r \in {x \in rows : x.scope = "organization" /\ x.name = n}}

SetRequest(a, request) == requests' = [requests EXCEPT ![a] = request]

\* create_price, up to its transaction.
CreatePrice(a) ==
    /\ server.phase = "serving"
    /\ requests[a].phase = "idle"
    /\ \E n \in Names, authority \in Authorities, rate \in Rates :
         SetRequest(a, [phase |-> "closing", name |-> n, authority |-> authority, rate |-> rate,
                        found |-> {}, closed |-> {}, knew |-> Committed(n)])
    /\ UNCHANGED <<rows, inserted, server, file, starts, snapshots>>

\* update_price: SELECT ... FOR UPDATE of the row named, and its UPDATE.  The
\* request may be for another model than the row it replaces.
UpdatePrice(a) ==
    /\ server.phase = "serving"
    /\ requests[a].phase = "idle"
    /\ \E r \in rows, n \in Names, authority \in Authorities, rate \in Rates :
         /\ r.scope = "organization" /\ r.open
         /\ r.id \notin Locked(a)
         /\ SetRequest(a, [phase |-> "closing", name |-> n, authority |-> authority, rate |-> rate,
                           found |-> {}, closed |-> {r.id}, knew |-> Committed(n)])
    /\ UNCHANGED <<rows, inserted, server, file, starts, snapshots>>

\* Mutant of FindOpen: only a price of the same authority is replaced.
FindOpenSame(a) ==
    /\ requests[a].phase = "closing"
    /\ SetRequest(a, [requests[a] EXCEPT !.phase = "waiting",
         !.found = {r.id : r \in Clashes("organization", requests[a].name, requests[a].authority)}])
    /\ UNCHANGED <<rows, inserted, server, file, starts, snapshots>>

\* insert_org_price_in_transaction: the UPDATE begins, and sees these rows.
FindOpen(a) ==
    /\ requests[a].phase = "closing"
    /\ SetRequest(a, [requests[a] EXCEPT !.phase = "waiting",
         !.found = {r.id : r \in OpenOf("organization", requests[a].name)}])
    /\ UNCHANGED <<rows, inserted, server, file, starts, snapshots>>

\* It has every row that is still open, and closes it.
CloseOpen(a) ==
    /\ requests[a].phase = "waiting"
    /\ requests[a].found \cap Locked(a) = {}
    /\ SetRequest(a, [requests[a] EXCEPT !.phase = "inserting",
         !.closed = @ \cup {r.id : r \in {x \in rows : x.open /\ x.id \in requests[a].found}}])
    /\ UNCHANGED <<rows, inserted, server, file, starts, snapshots>>

\* The INSERT: model_prices_current_unique makes it wait for one like it that
\* is not committed, and fail when such a row is open.
InsertOrgPrice(a) ==
    /\ requests[a].phase = "inserting"
    /\ \A b \in Admins \ {a} :
         ~(/\ requests[b].phase = "committing"
           /\ requests[b].name = requests[a].name /\ requests[b].authority = requests[a].authority)
    /\ \A r \in Clashes("organization", requests[a].name, requests[a].authority) :
         r.id \notin Locked(a)
    /\ IF {r.id : r \in Clashes("organization", requests[a].name, requests[a].authority)}
            \subseteq requests[a].closed
       THEN SetRequest(a, [requests[a] EXCEPT !.phase = "committing"])
       ELSE SetRequest(a, Idle)
    /\ UNCHANGED <<rows, inserted, server, file, starts, snapshots>>

\* Each request has a version of its own, org- and a UUID; no catalogue has it.
CommitPrice(a) ==
    /\ requests[a].phase = "committing"
    /\ inserted < MaxRows
    /\ inserted' = inserted + 1
    /\ rows' = Close(requests[a].closed) \cup
         {[id |-> inserted + 1, scope |-> "organization", name |-> requests[a].name,
           authority |-> requests[a].authority, rate |-> requests[a].rate, version |-> -(inserted + 1),
           open |-> TRUE, knew |-> requests[a].knew]}
    /\ SetRequest(a, Idle)
    /\ UNCHANGED <<server, file, starts, snapshots>>

\* The request is cancelled, times out, or loses a deadlock.
AbortPrice(a) ==
    /\ requests[a].phase # "idle"
    /\ SetRequest(a, Idle)
    /\ UNCHANGED <<rows, inserted, server, file, starts, snapshots>>

\* delete_price, one statement.
DeletePrice(a) ==
    /\ server.phase = "serving"
    /\ requests[a].phase = "idle"
    /\ \E r \in rows : /\ r.scope = "organization" /\ r.open
                       /\ r.id \notin Locked(a)
                       /\ rows' = Close({r.id})
    /\ UNCHANGED <<inserted, server, file, starts, requests, snapshots>>

PriceRequest(a) ==
    \/ CreatePrice(a) \/ UpdatePrice(a) \/ FindOpen(a) \/ CloseOpen(a)
    \/ InsertOrgPrice(a) \/ CommitPrice(a) \/ AbortPrice(a) \/ DeletePrice(a)

ServerStep ==
    \/ StartImport \/ InsertCatalogPrice \/ FinishImport \/ RepriceUnknownHistory
    \/ Stop \/ ReplaceFile

PricingNext ==
    \/ ServerStep
    \/ \E s \in Sessions : Ingest(s)
    \/ \E a \in Admins : PriceRequest(a)

PricingSpec == PricingInit /\ [][PricingNext]_priceVars

-----------------------------------------------------------------------------
\* Of two prices of an organization for one model that are in force at once,
\* neither was there when the request that set the other began: a price is
\* always displaced by a later request, whatever its authority, and only
\* requests that overlap can both stay (insert_org_price_in_transaction).
DisplacedStaysClosed ==
    \A r, s \in rows : r.open /\ s.open /\ r.scope = "organization" /\ s.scope = "organization"
                         /\ r.name = s.name => r.id \notin s.knew

\* A server that serves has every name its catalogue prices under openrouter
\* or default_catalog in force at that catalogue's version, however the starts
\* before it ended and whatever catalogue they had
\* (import_default_price_catalog).
CatalogueIsCurrent ==
    server.phase = "serving" =>
        \A i \in DOMAIN Catalogues[server.version] :
            LET imported == RowsOf(Catalogues[server.version][i])
            IN  \A j \in DOMAIN imported : imported[j].authority \in Imported =>
                  \E r \in Clashes("default", imported[j].name, imported[j].authority) :
                      r.version = server.version

\* An estimate of the server can be audited for as long as it is stored: the
\* price source and pricebook version recorded with it name a price of that
\* model that is still in the table, closed or not, and every price they name
\* is at the rate of the estimate, however often prices were replaced, deleted
\* and imported again since and whatever was priced again
\* (apply_server_prices, reprice_unknown_history, import_default_price_catalog).
EstimatesCanBeAudited ==
    \A s \in Sessions : \A n \in DOMAIN snapshots[s].slices :
        LET cost == snapshots[s].slices[n]
            named == {r \in rows : r.name = n /\ r.authority = cost.source /\ r.version = cost.version}
        IN  cost.kind = "estimated" /\ cost.by = "server" =>
                named # {} /\ \A r \in named : r.rate = cost.rate

=============================================================================
