--------------------------- MODULE MCRegistration ---------------------------
(* A hub, a cluster to register, and three names of which two share a Secret. *)
EXTENDS Registration, TLC

MCSanitizeName(name) == IF name = "prod/eu" THEN "prod-eu" ELSE name

\* The API server lists Secrets by their names.
Position(s) == CASE s = <<"cluster", "prod-eu">> -> 1
                 [] s = <<"cluster", "stage">> -> 2
                 [] s = <<"declared", "extra">> -> 3
MCBefore(s, t) == Position(s) < Position(t)

\* Every combination of the flags access depends on.  A proxy entry is the peers
\* it covers: none, where it is a blank or somebody else's network.
MCFlagSets ==
    [mode : {"none", "proxy"}, anonymousRole : RoleNone..RoleAdmin,
     defaultRole : RoleNone..RoleAdmin, proxies : {{}, {{}}, {{"proxy"}, {}}},
     groupRoles : {<<>>, [g \in {"platform", "sre"} |->
                            IF g = "platform" THEN RoleAdmin ELSE RoleOperator]},
     admin : BOOLEAN, fleet : BOOLEAN, teamsConfigMap : BOOLEAN]

\* BOUND: the flags only matter to who may call the API, which is checked of all
\* of them initially; one hub with all its routes and a proxy is explored.
OneHub ==
    /\ flags.mode = "proxy" /\ flags.proxies = {{"proxy"}, {}}
    /\ flags.anonymousRole = RoleViewer /\ flags.defaultRole = RoleViewer
    /\ DOMAIN flags.groupRoles = {"platform", "sre"}
    /\ flags.admin /\ flags.fleet /\ flags.teamsConfigMap

caller(peer, user, groups) == [peer |-> peer, user |-> user, groups |-> groups]

MCCallers ==
    {caller("proxy", "ann", {"platform", "sre"}), caller("proxy", "bob", {"sre"}),
     caller("proxy", "eve", {}), caller("proxy", "", {"platform"}),
     caller("pod", "", {}), caller("pod", "ann", {"platform"})}

\* BOUND: the command adds one and the same cluster, a POST the others, of which
\* one has the same Secret.
OneIsAdded ==
    \A p \in Procs : pc[p] # "idle" => (args[p].name = "prod/eu" <=> p \in Adds)

\* BOUND: two of the commands and requests are under way at a time.
TwoAtATime == Cardinality({p \in Procs : pc[p] # "idle"}) <= 2

Symmetry == Permutations(Adds)

valid == [named |-> TRUE, tokenGiven |-> TRUE, absoluteURL |-> TRUE,
          insecure |-> FALSE, ca |-> "pem"]
MCBodies == {valid, [valid EXCEPT !.insecure = TRUE], [valid EXCEPT !.ca = "none"]}
=============================================================================
