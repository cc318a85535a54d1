----------------------------- MODULE Ownership ------------------------------
(***************************************************************************)
(* Who owns which namespace, from the ConfigMap that stores the teams to   *)
(* the reports that are stamped with them.                                 *)
(*                                                                         *)
(* PUT /api/teams runs in one goroutine per request: it reads the stored   *)
(* teams, restores the webhooks its client only saw redacted, replaces the *)
(* ConfigMap, re-reads it and hands the mapping to the server's options    *)
(* (under s.mu) and then to the fleet's (under m.mu).  Server.report holds *)
(* s.mu for the whole of an analysis and caches what it returns.           *)
(*                                                                         *)
(* A hub that starts reads no ConfigMap: its mapping is that of the file   *)
(* --teams-file names, which may be a mount of the ConfigMap (the Helm     *)
(* chart), another file, or none.                                          *)
(***************************************************************************)
EXTENDS FiniteSets, Functions

CONSTANTS
    Teams,      \* team names
    Namespaces, \* namespaces a team can own
    URLs,       \* webhook URLs
    None,       \* no team, or no webhook
    Redacted,   \* "***", what a client sees of a webhook and may send back
    Puts        \* BOUND: PUT requests that may be in flight at a time

ASSUME OwnershipAssumption ==
    /\ None \notin Teams \cup URLs
    /\ Redacted \notin URLs \cup {None}

Mappings == [Namespaces -> Teams \cup {None}]

\* A teams.Spec: the teams, the owner of each namespace (Validate gives it
\* one at most) and each team's webhook.
SpecsWith(hooks) ==
    {s \in [teams : SUBSET Teams, owner : Mappings, hook : [Teams -> hooks]] :
        /\ Range(s.owner) \subseteq s.teams \cup {None}
        /\ \A t \in Teams \ s.teams : s.hook[t] = None}

Specs  == SpecsWith(URLs \cup {None})
Bodies == SpecsWith(URLs \cup {None, Redacted})

NoSpec == [teams |-> {}, owner |-> [n \in Namespaces |-> None],
           hook |-> [t \in Teams |-> None]]

\* A report is told apart by the mapping it was stamped with; a pointer to
\* one is {} or a singleton.
Cached == {{}} \cup {{m} : m \in Mappings}

VARIABLES
    configMap,  \* the stored teams.Spec; a missing ConfigMap reads as NoSpec
    pc,         \* pc[q]: where PUT q stands
    body,       \* body[q]: the request's spec
    merged,     \* merged[q]: the spec q is about to store
    read,       \* read[q]: the mapping q's refreshTeams read
    serverOpts, \* s.opts.TeamOf
    fleetOpts,  \* m.opts.TeamOf
    mu,         \* s.mu: {}, or the mapping of the analysis that holds it
    cached,     \* s.cached
    webhook,    \* AUXILIARY: webhook[t], as last set by a client that named it
    overlapped, \* AUXILIARY: an edit or PUT has come while a PUT was in flight
    missed      \* AUXILIARY: the hub has not been told of the stored mapping

put     == <<pc, body, merged, read>>
serving == <<mu, cached>>
ghosts  == <<webhook, overlapped, missed>>
vars == <<configMap, put, serverOpts, fleetOpts, serving, ghosts>>

Steps == {"idle", "get", "read", "update", "conflict", "refresh", "apply", "fleet"}

TypeOK ==
    /\ configMap \in Specs
    /\ pc \in [Puts -> Steps]
    /\ body \in [Puts -> Bodies]
    /\ merged \in [Puts -> Specs]
    /\ read \in [Puts -> Mappings]
    /\ serverOpts \in Mappings
    /\ fleetOpts \in Mappings
    /\ mu \in Cached
    /\ cached \in Cached
    /\ webhook \in [Teams -> URLs \cup {None}]
    /\ overlapped \in BOOLEAN
    /\ missed \in BOOLEAN

\* A hub that starts has the mapping of its teams file (nobody's without one) in
\* the server and in the fleet, whatever the ConfigMap stores.
Init ==
    /\ configMap \in Specs
    /\ pc = [q \in Puts |-> "idle"]
    /\ body = [q \in Puts |-> NoSpec]
    /\ merged = [q \in Puts |-> NoSpec]
    /\ read = [q \in Puts |-> NoSpec.owner]
    /\ serverOpts \in Mappings
    /\ fleetOpts = serverOpts
    /\ mu = {} /\ cached = {}
    /\ webhook = configMap.hook
    /\ overlapped = FALSE
    /\ missed = (serverOpts # configMap.owner)
-----------------------------------------------------------------------------
(***************************************************************************)
(* teams.Spec and the ConfigMap.                                           *)
(***************************************************************************)
\* Wrong: what the client sent is stored as it is.
MergeNothing(s, prev) == s

\* Wrong: a webhook sent back redacted is taken for none.
KeepNoSecrets(s, prev) ==
    [s EXCEPT !.hook = [t \in Teams |-> IF s.hook[t] = Redacted THEN None ELSE s.hook[t]]]

MergeSecrets(s, prev) ==
    [s EXCEPT !.hook = [t \in Teams |->
        IF s.hook[t] = Redacted THEN prev.hook[t] ELSE s.hook[t]]]

\* The webhooks the clients asked for, once a PUT with this body is stored:
\* a redacted one asks for no change.
Asked(b) ==
    [t \in Teams |-> IF b.hook[t] = Redacted THEN webhook[t] ELSE b.hook[t]]

\* Where the PUTs stand once s is stored: if that changes what was, an Update
\* or Create based on an earlier read meets a conflict (resourceVersion,
\* AlreadyExists).
Overtaken(s) ==
    [q \in Puts |-> IF pc[q] = "update" /\ s # configMap THEN "conflict" ELSE pc[q]]

QuietPuts == \A q \in Puts : pc[q] = "idle"

\* kubectl or Helm replaces the ConfigMap, of which nobody tells the hub.
EditConfigMap(s) ==
    /\ s # configMap
    /\ configMap' = s
    /\ pc' = Overtaken(s)
    /\ webhook' = s.hook
    /\ missed' = TRUE
    /\ overlapped' = (overlapped \/ ~QuietPuts)
    /\ UNCHANGED <<body, merged, read, serverOpts, fleetOpts, serving>>
-----------------------------------------------------------------------------
(***************************************************************************)
(* handlePutTeams, one step per call to the API server or lock.            *)
(***************************************************************************)
\* What the request held is gone.
Forget(q) ==
    /\ body' = [body EXCEPT ![q] = NoSpec]
    /\ merged' = [merged EXCEPT ![q] = NoSpec]
    /\ read' = [read EXCEPT ![q] = NoSpec.owner]

PutTeams(q, b) ==
    /\ pc[q] = "idle"
    /\ pc' = [pc EXCEPT ![q] = "get"]
    /\ body' = [body EXCEPT ![q] = b]
    /\ overlapped' = (overlapped \/ ~QuietPuts)
    /\ UNCHANGED <<configMap, merged, read, serverOpts, fleetOpts, serving,
                   webhook, missed>>

\* Teams.Get, then MergeSecrets.
GetPrevious(q) ==
    /\ pc[q] = "get"
    /\ pc' = [pc EXCEPT ![q] = "read"]
    /\ merged' = [merged EXCEPT ![q] = MergeSecrets(body[q], configMap)]
    /\ UNCHANGED <<configMap, body, read, serverOpts, fleetOpts, serving, ghosts>>

\* Store.Put reads the ConfigMap it is going to update, or misses it.
ReadExisting(q) ==
    /\ pc[q] = "read"
    /\ pc' = [pc EXCEPT ![q] = "update"]
    /\ UNCHANGED <<configMap, body, merged, read, serverOpts, fleetOpts, serving, ghosts>>

\* The Update or Create of Store.Put succeeds.
Update(q) ==
    /\ pc[q] = "update"
    /\ configMap' = merged[q]
    /\ pc' = [Overtaken(merged[q]) EXCEPT ![q] = "refresh"]
    /\ Forget(q)
    /\ webhook' = Asked(body[q])
    /\ UNCHANGED <<serverOpts, fleetOpts, serving, overlapped, missed>>

\* A call fails, the spec does not validate, or the Update conflicts: the
\* request is answered with an error and nothing was stored.
PutFails(q) ==
    /\ pc[q] \in {"get", "read", "update", "conflict"}
    /\ pc' = [pc EXCEPT ![q] = "idle"]
    /\ Forget(q)
    /\ UNCHANGED <<configMap, serverOpts, fleetOpts, serving, ghosts>>

\* The Update is stored, but its answer is lost: an error for the client.
UpdateUnanswered(q) ==
    /\ pc[q] = "update"
    /\ configMap' = merged[q]
    /\ pc' = [Overtaken(merged[q]) EXCEPT ![q] = "idle"]
    /\ Forget(q)
    /\ webhook' = Asked(body[q])
    /\ missed' = TRUE
    /\ UNCHANGED <<serverOpts, fleetOpts, serving, overlapped>>

\* refreshTeams reads the mapping, holding no lock ...
ReadMapping(q) ==
    /\ pc[q] = "refresh"
    /\ pc' = [pc EXCEPT ![q] = "apply"]
    /\ read' = [read EXCEPT ![q] = configMap.owner]
    /\ missed' = FALSE
    /\ UNCHANGED <<configMap, body, merged, serverOpts, fleetOpts, serving,
                   webhook, overlapped>>

\* ... or fails to, which leaves the previous mapping in place ...
ReadMappingFails(q) ==
    /\ pc[q] = "refresh"
    /\ pc' = [pc EXCEPT ![q] = "idle"]
    /\ Forget(q)
    /\ missed' = TRUE
    /\ UNCHANGED <<configMap, serverOpts, fleetOpts, serving, webhook, overlapped>>

\* Wrong: the mapping is installed while an analysis runs with the old one.
WithoutLock == TRUE

\* s.mu is free to be taken.
Unlocked == mu = {}

\* ... and installs it in the server, under s.mu, dropping the cached report
\* ("so the next read re-analyzes rather than serving a stale mapping"), ...
ApplyToServer(q) ==
    /\ pc[q] = "apply"
    /\ Unlocked
    /\ serverOpts' = read[q]
    /\ cached' = {}
    /\ pc' = [pc EXCEPT ![q] = "fleet"]
    /\ UNCHANGED <<configMap, body, merged, read, fleetOpts, mu, ghosts>>

\* Wrong: the fleet is not told.
FleetNotTold(m) == UNCHANGED fleetOpts

SetTeamOf(m) == fleetOpts' = m

\* ... and in the fleet, under m.mu.
ApplyToFleet(q) ==
    /\ pc[q] = "fleet"
    /\ SetTeamOf(read[q])
    /\ pc' = [pc EXCEPT ![q] = "idle"]
    /\ Forget(q)
    /\ UNCHANGED <<configMap, serverOpts, serving, ghosts>>
-----------------------------------------------------------------------------
(***************************************************************************)
(* Server.report.                                                          *)
(***************************************************************************)
\* A read finds no report younger than s.ttl, or asks for a new one
\* (?refresh=true).  One served from the cache changes nothing.
StartAnalysis ==
    /\ Unlocked
    /\ mu' = {serverOpts}
    /\ UNCHANGED <<configMap, put, serverOpts, fleetOpts, cached, ghosts>>

AnalysisSucceeds ==
    /\ mu # {}
    /\ mu' = {}
    /\ cached' = mu
    /\ UNCHANGED <<configMap, put, serverOpts, fleetOpts, ghosts>>

\* The analysis fails, or its timeout expires: the cached report stays.
AnalysisFails ==
    /\ mu # {}
    /\ mu' = {}
    /\ UNCHANGED <<configMap, put, serverOpts, fleetOpts, cached, ghosts>>
-----------------------------------------------------------------------------
\* The hub is killed and starts again with mapping m in its teams file: requests
\* and analyses under way are gone, and what PUTs installed is forgotten.
Restart(m) ==
    /\ pc' = [q \in Puts |-> "idle"]
    /\ body' = [q \in Puts |-> NoSpec]
    /\ merged' = [q \in Puts |-> NoSpec]
    /\ read' = [q \in Puts |-> NoSpec.owner]
    /\ serverOpts' = m
    /\ fleetOpts' = m
    /\ mu' = {} /\ cached' = {}
    /\ missed' = (m # configMap.owner)
    /\ UNCHANGED <<configMap, webhook, overlapped>>
-----------------------------------------------------------------------------
PutStep(q) ==
    \/ GetPrevious(q)
    \/ ReadExisting(q)
    \/ Update(q)
    \/ UpdateUnanswered(q)
    \/ PutFails(q)
    \/ ReadMapping(q)
    \/ ReadMappingFails(q)
    \/ ApplyToServer(q)
    \/ ApplyToFleet(q)

Next ==
    \/ \E s \in Specs : EditConfigMap(s)
    \/ \E q \in Puts : (\E b \in Bodies : PutTeams(q, b)) \/ PutStep(q)
    \/ StartAnalysis
    \/ AnalysisSucceeds
    \/ AnalysisFails
    \/ \E m \in Mappings : Restart(m)

Spec == Init /\ [][Next]_vars
-----------------------------------------------------------------------------
\* A cached report is stamped with the mapping the server would use now:
\* "drop it so the next read re-analyzes rather than serving a stale mapping"
\* (admin.go); an analysis that was under way does not bring an old one back.
CacheIsCurrent == \A m \in cached : m = serverOpts

\* "Refresh the cached mapping now so that scan uses it" (admin.go): when no
\* PUT is in flight, the reports and the fleet's scans are stamped with the
\* stored mapping, unless the hub has not been told of it: it started with
\* another in its teams file, or someone else edited the ConfigMap, or a PUT was
\* answered with an error, and no PUT has come through since.
MappingIsCurrent ==
    QuietPuts /\ ~missed => serverOpts = configMap.owner /\ fleetOpts = configMap.owner

\* The same, as long as PUTs and edits have come one after the other.
SequentialPutsTakeEffect == ~overlapped => MappingIsCurrent

\* "an edit made through a UI that never saw them does not wipe them"
\* (admin.go): a team keeps the webhook last set by a client that sent it in
\* full; a PUT that carries it redacted neither drops nor reverts it.
WebhooksAreKept ==
    \A t \in configMap.teams : webhook[t] # None => configMap.hook[t] = webhook[t]

\* As long as PUTs and edits have come one after the other, the stored
\* webhooks are exactly those asked for: none is lost and none comes back.
SequentialPutsKeepWebhooks == ~overlapped => configMap.hook = webhook
=============================================================================
