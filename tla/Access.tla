------------------------------- MODULE Access -------------------------------
(***************************************************************************)
(* Who makes a request and what it may do: the roles and the identity that *)
(* package auth resolves, the configuration `serve` accepts for it, and    *)
(* the routes a hub has (auth/auth.go, cmd/serve.go, server/server.go).    *)
(*                                                                         *)
(* A request is [peer, user, groups, route]: user is "" and groups {} when *)
(* no header carries them.  A CIDR is the set of peers it contains.        *)
(***************************************************************************)
EXTENDS Naturals, FiniteSetsExt

RoleNone == 0
RoleViewer == 1
RoleOperator == 2
RoleAdmin == 3

minRole == [permission \in {"reports:read", "teams:write", "clusters:write"} |->
    CASE permission = "reports:read"   -> RoleViewer
      [] permission = "teams:write"    -> RoleOperator
      [] permission = "clusters:write" -> RoleAdmin]

Can(role, permission) == role >= minRole[permission]

\* The highest role the groups are mapped to, or the default one.
roleFor(config, groups) ==
    LET matched == groups \cap DOMAIN config.groupRoles
    IN IF matched = {} THEN config.defaultRole
       ELSE Max({config.groupRoles[g] : g \in matched})

trusts(config, peer) == peer \in config.trusted

\* Identify: the role of the request, as {role}; {} when identity headers come
\* from a peer that is not trusted.
Identify(config, request) ==
    IF config.enabled /\ (request.user # "" \/ request.groups # {})
                      /\ ~trusts(config, request.peer) THEN {}
    ELSE IF ~config.enabled \/ request.user = "" THEN {config.anonymousRole}
    ELSE {roleFor(config, request.groups)}
-----------------------------------------------------------------------------
\* A variant with a plausible bug: without a proxy, everybody gets any role.
authConfigUnchecked(flags) ==
    IF flags.mode = "proxy" /\ flags.proxies = {} THEN {}
    ELSE {[enabled |-> flags.mode = "proxy", trusted |-> UNION flags.proxies,
           groupRoles |-> flags.groupRoles, defaultRole |-> flags.defaultRole,
           anonymousRole |-> flags.anonymousRole]}

\* authConfig: what the flags configure, as {config}; {} when `serve` refuses
\* to start.
authConfig(flags) ==
    IF flags.mode = "none" /\ flags.anonymousRole > RoleViewer THEN {}
    ELSE IF flags.mode = "proxy" /\ flags.proxies = {} THEN {}
    ELSE {[enabled |-> flags.mode = "proxy", trusted |-> UNION flags.proxies,
           groupRoles |-> flags.groupRoles, defaultRole |-> flags.defaultRole,
           anonymousRole |-> flags.anonymousRole]}

\* enableAdmin, which refuses what authConfig lets through.
enableAdmin(config) == config.enabled \/ config.anonymousRole < RoleOperator

\* The configuration a hub that did start runs with.
started(flags) ==
    {config \in authConfig(flags) : flags.admin => enableAdmin(config)}

\* Handler: the permission each route requires.  /healthz, /metrics, / and
\* /api/me require none.
required ==
    [route \in {"GET /api/report", "GET /api/history", "GET /api/clusters", "GET /api/teams",
                "PUT /api/teams", "POST /api/clusters", "DELETE /api/clusters"} |->
        CASE route \in {"POST /api/clusters", "DELETE /api/clusters"} -> "clusters:write"
          [] route = "PUT /api/teams" -> "teams:write"
          [] OTHER -> "reports:read"]

\* The routes that a hub may be started without.
serves(flags, route) ==
    /\ route = "GET /api/clusters" => flags.fleet
    /\ required[route] = "clusters:write" => flags.admin /\ flags.fleet
    /\ route \in {"GET /api/teams", "PUT /api/teams"} => flags.admin /\ flags.teamsConfigMap

\* Does the request reach the handler of its route?  Middleware resolves the
\* identity, Require asks for the permission.
handled(flags, request) ==
    /\ serves(flags, request.route)
    /\ \E config \in started(flags) :
          \E role \in Identify(config, request) : Can(role, required[request.route])
=============================================================================
