---------------------------- MODULE Registration ----------------------------
(***************************************************************************)
(* How clusters get into the registry that the fleet scans: `cluster add`  *)
(* provisions access on the cluster and stores it on the hub, call by call *)
(* (fleet.Provision, NewClusterSecret, ApplySecret); POST and DELETE       *)
(* /api/clusters write and remove the same Secret; an operator may declare *)
(* one by hand; and Registry.Clusters lists them.                          *)
(*                                                                         *)
(* Every call can fail or be interrupted, and the command be run again,    *)
(* while another one runs and the token controller does its part.          *)
(***************************************************************************)
EXTENDS Access, FiniteSets

CONSTANTS
    Names,          \* names clusters are registered under
    Local,          \* the name of the hub's own cluster, which may be one of them
    SanitizeName(_),\* a name as a path segment: different names may share one
    Declared,       \* names of Secrets that are written by hand
    Before(_, _),   \* the order in which the API server lists Secrets
    Remotes,        \* clusters, each with a server URL of its own
    SANamespaces,   \* values of --sa-namespace
    None,           \* no Secret, no binding, no token
    Adds,           \* BOUND: `cluster add` processes at a time
    Posts,          \* BOUND: POST requests at a time
    FlagSets,       \* the flags the hub may be started with
    Callers,        \* who may call the API: [peer, user, groups]
    Bodies,         \* bodies a POST can carry
    MaxTokens,      \* BOUND: tokens issued in one cluster
    MaxEdits        \* BOUND: edits by hand of the hub or the clusters

ASSUME RegistrationAssumption ==
    /\ Adds \cap Posts = {}
    /\ None \notin Names \cup SANamespaces \cup Remotes \cup {Local}
    /\ MaxTokens \in Nat /\ MaxEdits \in Nat

VARIABLES
    flags,      \* the hub's flags: never change
    remote,     \* remote[r]: what `cluster add` made of cluster r
    issued,     \* BOUND: issued[r], tokens issued in r
    hub,        \* hub[s]: the registration in Secret s of the hub
    pc,         \* pc[p]: the next call of process p
    args,       \* args[p]: what p registers
    creds,      \* creds[p]: the token p was given or has read
    edits,      \* BOUND: edits by hand so far
    disturbed   \* AUXILIARY: processes and Secrets older than an edit by hand

work == <<pc, args, creds>>
vars == <<flags, remote, issued, hub, work, edits, disturbed>>

Procs == Adds \cup Posts

\* The Secret of a cluster registered through the command or the API.
secretOf(name) == <<"cluster", SanitizeName(name)>>

SecretNames == {secretOf(name) : name \in Names} \cup {<<"declared", d>> : d \in Declared}

Tokens == 1..MaxTokens

\* A token Secret the controller has not filled yet.
Pending == 0

\* A token is told apart by its cluster, its account's namespace and its number;
\* one supplied through the API or by hand by no more than that.  A Secret
\* written by hand may lack a name.
Registrations ==
    [name : Names, server : Remotes, by : {"add"}, account : SANamespaces, token : Tokens]
      \cup [name : Names, server : Remotes, by : {"api"}]
      \cup [name : Names \cup {Local, None}, server : Remotes, by : {"hand"}]

\* rules: "current" is Kube's readOnlyRules, "old" what an earlier version
\* granted.  subject: the namespace of the account the binding names.
Remote ==
    [namespaces : SUBSET SANamespaces, accounts : SUBSET SANamespaces,
     rules : {"none", "old", "current"}, subject : SANamespaces \cup {None},
     token : [SANamespaces -> Tokens \cup {Pending, None}]]

NoArgs == None

\* What `cluster add` and a POST register.
AddArgs == [name : Names, server : Remotes, account : SANamespaces]
PostArgs == [name : Names, server : Remotes]

Steps == {"idle", "namespace", "account", "role", "updateRole", "binding", "token",
          "poll", "create", "update"}

\* The API server lists Secrets in some order; no two things share a name.
ASSUME NamesAssumption ==
    /\ None \notin Registrations \cup AddArgs \cup PostArgs \cup Tokens \cup {Pending}
    /\ \A s, t \in SecretNames : s = t \/ Before(s, t) \/ Before(t, s)
    /\ Procs \cap SecretNames = {}

\* Every flag has a value of its type.
ASSUME FlagsAssumption ==
    \A f \in FlagSets :
        /\ f.mode \in {"none", "proxy"}
        /\ {f.anonymousRole, f.defaultRole} \subseteq RoleNone..RoleAdmin
        /\ \A g \in DOMAIN f.groupRoles : f.groupRoles[g] \in RoleNone..RoleAdmin
        /\ {f.admin, f.fleet, f.teamsConfigMap} \subseteq BOOLEAN

\* Every part of the state has its type; an account has a namespace, and a
\* process arguments while it runs.
TypeOK ==
    /\ flags \in FlagSets
    /\ remote \in [Remotes -> Remote]
    /\ issued \in [Remotes -> 0..MaxTokens]
    /\ hub \in [SecretNames -> Registrations \cup {None}]
    /\ pc \in [Procs -> Steps]
    /\ args \in [Procs -> AddArgs \cup PostArgs \cup {NoArgs}]
    /\ creds \in [Procs -> Tokens \cup {None}]
    /\ \A p \in Procs : pc[p] = "idle" <=> args[p] = NoArgs
    /\ edits \in 0..MaxEdits
    /\ \A r \in Remotes : remote[r].accounts \subseteq remote[r].namespaces
-----------------------------------------------------------------------------
Untouched ==
    [namespaces |-> {}, accounts |-> {}, rules |-> "none", subject |-> None,
     token |-> [ns \in SANamespaces |-> None]]

\* What an earlier version of the command left, with its token not read yet.
Outdated(ns) ==
    [namespaces |-> {ns}, accounts |-> {ns}, rules |-> "old", subject |-> ns,
     token |-> [Untouched.token EXCEPT ![ns] = Pending]]

Init ==
    /\ flags \in FlagSets
    /\ remote \in [Remotes -> {Untouched} \cup {Outdated(ns) : ns \in SANamespaces}]
    /\ issued = [r \in Remotes |-> 0]
    /\ hub = [s \in SecretNames |-> None]
    /\ pc = [p \in Procs |-> "idle"]
    /\ args = [p \in Procs |-> NoArgs]
    /\ creds = [p \in Procs |-> None]
    /\ disturbed = {}
    /\ edits = 0
-----------------------------------------------------------------------------
(***************************************************************************)
(* Provision, one call to the remote API server at a time.                 *)
(***************************************************************************)
\* `cluster add`: name, --remote-context and --sa-namespace.
Add(p, name, r, ns) ==
    /\ pc[p] = "idle"
    /\ pc' = [pc EXCEPT ![p] = "namespace"]
    /\ args' = [args EXCEPT ![p] = [name |-> name, server |-> r, account |-> ns]]
    /\ disturbed' = disturbed \ {p}
    /\ UNCHANGED <<flags, edits, remote, issued, hub, creds>>

target(p) == remote[args[p].server]

\* The remote cluster becomes as given, and p goes on.
goesOn(p, from, to, after) ==
    /\ pc[p] = from
    /\ pc' = [pc EXCEPT ![p] = to]
    /\ remote' = [remote EXCEPT ![args[p].server] = after]
    /\ UNCHANGED <<flags, edits, issued, hub, args, creds, disturbed>>

\* What exists already is left as it is.
CreateNamespace(p) ==
    goesOn(p, "namespace", "account",
           [target(p) EXCEPT !.namespaces = @ \cup {args[p].account}])

CreateServiceAccount(p) ==
    /\ pc[p] = "account"
    /\ args[p].account \in target(p).namespaces
    /\ goesOn(p, "account", "role",
              [target(p) EXCEPT !.accounts = @ \cup {args[p].account}])

\* A variant with a plausible bug: a role that exists keeps its rules.
CreateRoleOnce(p) ==
    goesOn(p, "role", "binding",
           [target(p) EXCEPT !.rules = IF @ = "none" THEN "current" ELSE @])

CreateClusterRole(p) ==
    \/ /\ pc[p] = "role" /\ target(p).rules = "none"
       /\ goesOn(p, "role", "binding", [target(p) EXCEPT !.rules = "current"])
    \/ /\ pc[p] = "role" /\ target(p).rules # "none"
       /\ goesOn(p, "role", "updateRole", target(p))

UpdateClusterRole(p) ==
    goesOn(p, "updateRole", "binding", [target(p) EXCEPT !.rules = "current"])

\* A binding that exists keeps its subject, whatever account it names.
CreateClusterRoleBinding(p) ==
    goesOn(p, "binding", "token",
           [target(p) EXCEPT !.subject = IF @ = None THEN args[p].account ELSE @])

CreateTokenSecret(p) ==
    /\ pc[p] = "token"
    /\ args[p].account \in target(p).namespaces
    /\ goesOn(p, "token", "poll",
              [target(p) EXCEPT !.token[args[p].account] =
                  IF @ = None THEN Pending ELSE @])

\* A variant with a plausible bug: the Secret may have no token yet.
ReadTokenAtOnce(p) ==
    /\ pc[p] = "poll"
    /\ pc' = [pc EXCEPT ![p] = "create"]
    /\ creds' = [creds EXCEPT ![p] = target(p).token[args[p].account]]
    /\ UNCHANGED <<flags, edits, remote, issued, hub, args, disturbed>>

\* PollUntilContextTimeout finds the token ...
ReadToken(p) ==
    /\ pc[p] = "poll"
    /\ target(p).token[args[p].account] \in Tokens
    /\ pc' = [pc EXCEPT ![p] = "create"]
    /\ creds' = [creds EXCEPT ![p] = target(p).token[args[p].account]]
    /\ UNCHANGED <<flags, edits, remote, issued, hub, args, disturbed>>

ended(p) ==
    /\ pc' = [pc EXCEPT ![p] = "idle"]
    /\ args' = [args EXCEPT ![p] = NoArgs]
    /\ creds' = [creds EXCEPT ![p] = None]

gaveUp(p) ==
    /\ ended(p)
    /\ UNCHANGED <<flags, edits, remote, issued, hub, disturbed>>

\* ... or TokenTimeout passes without one.
TokenTimesOut(p) ==
    /\ pc[p] = "poll"
    /\ target(p).token[args[p].account] \notin Tokens
    /\ gaveUp(p)

\* The API server refuses to create an object in a namespace that is gone.
NamespaceGone(p) ==
    /\ pc[p] \in {"account", "token"}
    /\ args[p].account \notin target(p).namespaces
    /\ gaveUp(p)
-----------------------------------------------------------------------------
(***************************************************************************)
(* ApplySecret, for the command and for POST.  The hub's namespace exists. *)
(***************************************************************************)
\* NewClusterSecret: what process p stores.
registration(p) ==
    IF p \in Adds
    THEN [name |-> args[p].name, server |-> args[p].server, by |-> "add",
          account |-> args[p].account, token |-> creds[p]]
    ELSE [name |-> args[p].name, server |-> args[p].server, by |-> "api"]

stored(p, s) ==
    /\ hub' = [hub EXCEPT ![s] = registration(p)]
    /\ disturbed' = IF p \in disturbed THEN disturbed \cup {s} ELSE disturbed \ {s}
    /\ ended(p)
    /\ UNCHANGED <<flags, edits, remote, issued>>

CreateSecret(p) ==
    /\ pc[p] = "create"
    /\ hub[secretOf(args[p].name)] = None
    /\ stored(p, secretOf(args[p].name))

SecretExists(p) ==
    /\ pc[p] = "create"
    /\ hub[secretOf(args[p].name)] # None
    /\ pc' = [pc EXCEPT ![p] = "update"]
    /\ UNCHANGED <<flags, edits, remote, issued, hub, args, creds, disturbed>>

UpdateSecret(p) ==
    /\ pc[p] = "update"
    /\ hub[secretOf(args[p].name)] # None
    /\ stored(p, secretOf(args[p].name))

\* It has been deleted since: an error, nothing is stored.
SecretGone(p) ==
    /\ pc[p] = "update"
    /\ hub[secretOf(args[p].name)] = None
    /\ gaveUp(p)

\* A call fails, its answer is lost, the command is interrupted or its two
\* minutes are over: what the calls before it did stays.
Fail(p) == pc[p] # "idle" /\ gaveUp(p)
-----------------------------------------------------------------------------
(***************************************************************************)
(* The API.                                                                *)
(***************************************************************************)
\* clusterRequest.validate.  ca is "none", "pem" or "garbled".
validate(b) ==
    /\ b.named /\ b.tokenGiven /\ b.absoluteURL
    /\ b.insecure <=> b.ca = "none"
    /\ b.ca # "garbled"

request(caller, route) ==
    [peer |-> caller.peer, user |-> caller.user, groups |-> caller.groups,
     route |-> route]

\* Does anybody get to the handler of a route?
admitted(route) == \E caller \in Callers : handled(flags, request(caller, route))

PostCluster(p, body, name, r) ==
    /\ pc[p] = "idle"
    /\ validate(body)
    /\ admitted("POST /api/clusters")
    /\ pc' = [pc EXCEPT ![p] = "create"]
    /\ args' = [args EXCEPT ![p] = [name |-> name, server |-> r]]
    /\ disturbed' = disturbed \ {p}
    /\ UNCHANGED <<flags, edits, remote, issued, hub, creds>>

\* A variant with a plausible bug: deletes by the label, not by the name.
DeleteByLabel(name) ==
    /\ hub[secretOf(name)] # None
    /\ admitted("DELETE /api/clusters")
    /\ hub' = [s \in SecretNames |-> None]
    /\ UNCHANGED <<flags, edits, remote, issued, work, disturbed>>

\* A name without a Secret is answered 404.
DeleteCluster(name) ==
    /\ hub[secretOf(name)] # None
    /\ admitted("DELETE /api/clusters")
    /\ hub' = [hub EXCEPT ![secretOf(name)] = None]
    /\ UNCHANGED <<flags, edits, remote, issued, work, disturbed>>
-----------------------------------------------------------------------------
(***************************************************************************)
(* The token controller, and edits by hand on either side.                 *)
(***************************************************************************)
IssueToken(r, ns) ==
    /\ issued[r] < MaxTokens
    /\ remote[r].token[ns] = Pending
    /\ ns \in remote[r].accounts
    /\ remote' = [remote EXCEPT ![r].token[ns] = issued[r] + 1]
    /\ issued' = [issued EXCEPT ![r] = @ + 1]
    /\ UNCHANGED <<flags, edits, hub, work, disturbed>>

\* What any Secret holds of r, and any process is about to store, may be void.
disturbs(r) ==
    /\ edits < MaxEdits
    /\ edits' = edits + 1
    /\ disturbed' = disturbed
         \cup {p \in Adds : pc[p] # "idle" /\ args[p].server = r}
         \cup {s \in SecretNames : hub[s] # None /\ hub[s].server = r}
    /\ UNCHANGED <<flags, issued, hub, work>>

\* A leaked token is revoked.
RevokeToken(r, ns) ==
    /\ remote[r].token[ns] # None
    /\ remote' = [remote EXCEPT ![r].token[ns] = None]
    /\ disturbs(r)

\* The namespace goes, and with it the account and its token.
withoutNamespace(there, ns) ==
    [there EXCEPT !.namespaces = @ \ {ns}, !.accounts = @ \ {ns},
                  !.token = [there.token EXCEPT ![ns] = None]]

DeleteNamespace(r, ns) ==
    /\ ns \in remote[r].namespaces
    /\ remote' = [remote EXCEPT ![r] = withoutNamespace(remote[r], ns)]
    /\ disturbs(r)

\* A Secret with the label is applied or deleted by hand.
EditSecret(s, r) ==
    /\ edits < MaxEdits
    /\ edits' = edits + 1
    /\ r # hub[s]
    /\ hub' = [hub EXCEPT ![s] = r]
    /\ disturbed' = disturbed \ {s}
    /\ UNCHANGED <<flags, remote, issued, work>>
-----------------------------------------------------------------------------
Call(p) ==
    \/ CreateNamespace(p)
    \/ CreateServiceAccount(p)
    \/ CreateClusterRole(p)
    \/ UpdateClusterRole(p)
    \/ CreateClusterRoleBinding(p)
    \/ CreateTokenSecret(p)
    \/ ReadToken(p)
    \/ TokenTimesOut(p)
    \/ NamespaceGone(p)

Apply(p) ==
    \/ CreateSecret(p)
    \/ SecretExists(p)
    \/ UpdateSecret(p)
    \/ SecretGone(p)

Requests ==
    \E name \in Names :
        \/ DeleteCluster(name)
        \/ \E p \in Posts, body \in Bodies, r \in Remotes :
              PostCluster(p, body, name, r)

ByHand ==
    \/ \E r \in Remotes, ns \in SANamespaces :
          IssueToken(r, ns) \/ RevokeToken(r, ns) \/ DeleteNamespace(r, ns)
    \/ \E s \in SecretNames :
          \/ EditSecret(s, None)
          \/ \E name \in Names \cup {Local, None}, r \in Remotes :
                EditSecret(s, [name |-> name, server |-> r, by |-> "hand"])

Next ==
    \/ \E p \in Adds, name \in Names, r \in Remotes, ns \in SANamespaces :
          Add(p, name, r, ns)
    \/ \E p \in Adds : Call(p)
    \/ \E p \in Procs : Apply(p) \/ Fail(p)
    \/ Requests
    \/ ByHand

Spec == Init /\ [][Next]_vars
-----------------------------------------------------------------------------
(***************************************************************************)
(* Registry.Clusters.                                                      *)
(***************************************************************************)
hubCluster == [name |-> Local, server |-> "local"]

\* ParseClusterSecret takes a Secret that has a name and a server.
parsed(s) == hub[s] # None /\ hub[s].name # None

clusterOf(s) == [name |-> hub[s].name, server |-> hub[s].server]

\* A variant with a plausible bug: the hub's own name is not marked as seen.
ClustersWithoutLocalSeen ==
    {hubCluster} \cup {clusterOf(s) : s \in {s \in SecretNames :
        /\ parsed(s)
        /\ \A t \in SecretNames : Before(t, s) /\ parsed(t) => hub[t].name # hub[s].name}}

\* The hub's cluster, and of the Secrets that carry one name the first.
Clusters ==
    {hubCluster} \cup {clusterOf(s) : s \in {s \in SecretNames :
        /\ parsed(s)
        /\ hub[s].name # Local
        /\ \A t \in SecretNames : Before(t, s) /\ parsed(t) => hub[t].name # hub[s].name}}

entry(name) == {c \in Clusters : c.name = name}
-----------------------------------------------------------------------------
\* The list that ScanAll applies names every cluster once, and the hub's own name
\* is the hub's, whatever is registered under it: module Fleet relies on it.
NamesAreListedOnce ==
    /\ \A name \in Names : Cardinality(entry(name)) <= 1
    /\ entry(Local) = {hubCluster}

\* What `cluster add` stores works, whatever runs were interrupted before or go
\* on beside it: the token is the account's, the account exists, and the rules
\* bound are the current ones.  Excepted are the account of another namespace
\* than the one that was bound first, and Secrets whose cluster was edited by
\* hand since the run that wrote them started ("Re-running is safe: it refreshes
\* the ClusterRole rules and rotates the stored credentials", cmd/cluster.go).
CredentialsWork ==
    \A s \in SecretNames \ disturbed :
        hub[s] # None /\ hub[s].by = "add" =>
            LET there == remote[hub[s].server]
            IN /\ there.token[hub[s].account] = hub[s].token
               /\ hub[s].account \in there.accounts
               /\ there.rules = "current"
               /\ there.subject # None

\* The API or the command writes or removes the Secret of a name.
writesFor(name) ==
    \/ DeleteCluster(name)
    \/ \E p \in Procs :
          /\ pc[p] # "idle"
          /\ args[p].name = name
          /\ CreateSecret(p) \/ UpdateSecret(p)

\* Adding or removing a cluster changes the entry of no other, unless their names
\* share a Secret, or the Secret was written by hand under the other one's name.
OnlyTheNamedChange ==
    [][\A named \in Names : hub' # hub /\ writesFor(named) =>
          LET written == secretOf(named)
          IN \A name \in Names :
                entry(name)' # entry(name) =>
                    \/ secretOf(name) = written
                    \/ hub[written] # None /\ hub[written].by = "hand"]_vars

\* Does the hub start, and the caller hold at least this role, by what the flags
\* say?  Without a proxy everybody is anonymous and may read at most; behind one,
\* who claims a name or a group has to come through a trusted peer.
Holds(caller, role) ==
    \/ /\ flags.mode = "none" /\ flags.anonymousRole <= RoleViewer
       /\ role <= flags.anonymousRole
    \/ /\ flags.mode = "proxy" /\ flags.proxies # {}
       /\ caller.user = "" /\ role <= flags.anonymousRole
       /\ caller.groups = {} \/ \E peers \in flags.proxies : caller.peer \in peers
    \/ /\ flags.mode = "proxy" /\ caller.user # ""
       /\ \E peers \in flags.proxies : caller.peer \in peers
       /\ \/ \E g \in caller.groups \cap DOMAIN flags.groupRoles :
                role <= flags.groupRoles[g]
          \/ caller.groups \cap DOMAIN flags.groupRoles = {} /\ role <= flags.defaultRole

\* Viewers read, operators also change the teams, administrators also the
\* registry, where the hub was started to let them; and nobody else does.
AccessFollowsTheFlags ==
    \A caller \in Callers :
        /\ handled(flags, request(caller, "GET /api/report"))
              <=> Holds(caller, RoleViewer)
        /\ handled(flags, request(caller, "PUT /api/teams"))
              <=> flags.admin /\ flags.teamsConfigMap /\ Holds(caller, RoleOperator)
        /\ \A route \in {"POST /api/clusters", "DELETE /api/clusters"} :
              handled(flags, request(caller, route))
                 <=> flags.admin /\ flags.fleet /\ Holds(caller, RoleAdmin)
=============================================================================
