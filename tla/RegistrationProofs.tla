------------------------- MODULE RegistrationProofs -------------------------
(***************************************************************************)
(* Registration for any names, clusters, namespaces, processes, flags and  *)
(* callers, and any number of edits by hand.                               *)
(***************************************************************************)
EXTENDS Registration, FiniteSetTheorems, TLAPS

\* What a process registers and has read is of its own kind: only the command
\* provisions, and it stores a token that was issued.
Kinds ==
    /\ \A p \in Adds : /\ args[p] \in AddArgs \cup {NoArgs}
                       /\ pc[p] \in {"create", "update"} => creds[p] \in Tokens
    /\ \A p \in Posts : /\ args[p] \in PostArgs \cup {NoArgs}
                        /\ pc[p] \in {"idle", "create", "update"}

Typed == TypeOK /\ Kinds

\* A process that runs has the arguments of its kind.
LEMMA RunningHasArgs ==
    ASSUME Typed
    PROVE  /\ \A p \in Adds : pc[p] # "idle" => args[p] \in AddArgs
           /\ \A p \in Posts : pc[p] # "idle" => args[p] \in PostArgs
           /\ \A p \in Procs : pc[p] # "idle" =>
                 args[p].name \in Names /\ args[p].server \in Remotes
<1>1. \A p \in Adds : pc[p] # "idle" => args[p] \in AddArgs
  BY DEF Typed, TypeOK, Kinds, Procs
<1>2. \A p \in Posts : pc[p] # "idle" => args[p] \in PostArgs
  BY DEF Typed, TypeOK, Kinds, Procs
<1>3. QED
  BY <1>1, <1>2 DEF Procs, AddArgs, PostArgs

\* The fields of what `cluster add` made of a cluster.
LEMMA RemoteFields ==
    ASSUME NEW t \in Remote
    PROVE  /\ t.namespaces \subseteq SANamespaces
           /\ t.accounts \subseteq SANamespaces
           /\ t.rules \in {"none", "old", "current"}
           /\ t.subject \in SANamespaces \cup {None}
           /\ t.token \in [SANamespaces -> Tokens \cup {Pending, None}]
BY DEF Remote

\* The hub starts well-typed.
LEMMA InitTyped == Init => Typed
<1> SUFFICES ASSUME Init PROVE Typed
  OBVIOUS
<1>1. /\ Untouched \in Remote
      /\ Untouched.accounts \subseteq Untouched.namespaces
  BY DEF Untouched, Remote
<1>2. ASSUME NEW ns \in SANamespaces
      PROVE  /\ Outdated(ns) \in Remote
             /\ Outdated(ns).accounts \subseteq Outdated(ns).namespaces
  BY DEF Outdated, Untouched, Remote
<1>3. /\ remote \in [Remotes -> Remote]
      /\ \A r \in Remotes : remote[r].accounts \subseteq remote[r].namespaces
  BY <1>1, <1>2 DEF Init
<1>4. TypeOK
  BY <1>3, RegistrationAssumption DEF Init, TypeOK, NoArgs, Steps
<1>5. Kinds
  BY DEF Init, Kinds, Procs
<1>6. QED
  BY <1>4, <1>5 DEF Typed

\* A call that gives a cluster a well-typed state keeps the types.
LEMMA GoesOnTyped ==
    ASSUME Typed, NEW p \in Adds, NEW from \in Steps \ {"idle"},
           NEW to \in Steps \ {"idle", "create", "update"}, NEW after \in Remote,
           after.accounts \subseteq after.namespaces,
           goesOn(p, from, to, after)
    PROVE  Typed'
<1>1. p \in Procs /\ args[p].server \in Remotes /\ pc[p] # "idle"
  BY RunningHasArgs DEF goesOn, Procs
<1>2. /\ remote' \in [Remotes -> Remote]
      /\ \A r \in Remotes : remote'[r].accounts \subseteq remote'[r].namespaces
  BY <1>1 DEF goesOn, Typed, TypeOK
<1>3. /\ pc' \in [Procs -> Steps]
      /\ \A q \in Procs : pc'[q] = IF q = p THEN to ELSE pc[q]
  BY <1>1 DEF goesOn, Typed, TypeOK
<1>4. TypeOK'
  BY <1>1, <1>2, <1>3 DEF goesOn, Typed, TypeOK
<1>5. Kinds'
  BY <1>1, <1>3, RegistrationAssumption DEF goesOn, Typed, Kinds, Procs
<1>6. QED
  BY <1>4, <1>5 DEF Typed

\* Every call of Provision keeps the types.
LEMMA CallTyped ==
    ASSUME Typed, NEW p \in Adds, Call(p)
    PROVE  Typed'
<1>1. pc[p] # "idle"
  BY DEF Call, goesOn, CreateNamespace, CreateServiceAccount, CreateClusterRole,
         UpdateClusterRole, CreateClusterRoleBinding, CreateTokenSecret, ReadToken,
         TokenTimesOut, NamespaceGone
<1>2. args[p] \in AddArgs
  BY <1>1, RunningHasArgs
<1>3. /\ p \in Procs
      /\ args[p].account \in SANamespaces
      /\ target(p) \in Remote
      /\ target(p).accounts \subseteq target(p).namespaces
  BY <1>2 DEF AddArgs, target, Typed, TypeOK, Procs
<1> DEFINE t == target(p)
           ns == args[p].account
<1>4. /\ t.namespaces \subseteq SANamespaces
      /\ t.accounts \subseteq SANamespaces
      /\ t.token \in [SANamespaces -> Tokens \cup {Pending, None}]
  BY <1>3, RemoteFields
<1>5. CASE CreateNamespace(p)
  <2> DEFINE after == [t EXCEPT !.namespaces = @ \cup {ns}]
  <2>1. /\ after \in Remote
        /\ after.accounts \subseteq after.namespaces
    BY <1>3, <1>4 DEF Remote
  <2>2. goesOn(p, "namespace", "account", after)
    BY <1>5 DEF CreateNamespace
  <2>3. QED
    BY <2>1, <2>2, GoesOnTyped DEF Steps
<1>6. CASE CreateServiceAccount(p)
  <2> DEFINE after == [t EXCEPT !.accounts = @ \cup {ns}]
  <2>1. /\ after \in Remote
        /\ after.accounts \subseteq after.namespaces
    BY <1>3, <1>4, <1>6 DEF Remote, CreateServiceAccount
  <2>2. goesOn(p, "account", "role", after)
    BY <1>6 DEF CreateServiceAccount
  <2>3. QED
    BY <2>1, <2>2, GoesOnTyped DEF Steps
<1>7. CASE CreateClusterRole(p) \/ UpdateClusterRole(p)
  <2> DEFINE after == [t EXCEPT !.rules = "current"]
  <2>1. /\ after \in Remote
        /\ after.accounts \subseteq after.namespaces
    BY <1>3, <1>4 DEF Remote
  <2>2. CASE goesOn(p, "role", "binding", after)
    BY <2>1, <2>2, GoesOnTyped DEF Steps
  <2>3. CASE goesOn(p, "role", "updateRole", t)
    BY <1>3, <2>3, GoesOnTyped DEF Steps
  <2>4. CASE goesOn(p, "updateRole", "binding", after)
    BY <2>1, <2>4, GoesOnTyped DEF Steps
  <2>5. QED
    BY <1>7, <2>2, <2>3, <2>4 DEF CreateClusterRole, UpdateClusterRole
<1>8. CASE CreateClusterRoleBinding(p)
  <2> DEFINE after == [t EXCEPT !.subject = IF @ = None THEN ns ELSE @]
  <2>1. /\ after \in Remote
        /\ after.accounts \subseteq after.namespaces
    BY <1>3, <1>4 DEF Remote
  <2>2. goesOn(p, "binding", "token", after)
    BY <1>8 DEF CreateClusterRoleBinding
  <2>3. QED
    BY <2>1, <2>2, GoesOnTyped DEF Steps
<1>9. CASE CreateTokenSecret(p)
  <2> DEFINE after == [t EXCEPT !.token[ns] = IF @ = None THEN Pending ELSE @]
  <2>1. /\ after \in Remote
        /\ after.accounts \subseteq after.namespaces
    BY <1>3, <1>4 DEF Remote
  <2>2. goesOn(p, "token", "poll", after)
    BY <1>9 DEF CreateTokenSecret
  <2>3. QED
    BY <2>1, <2>2, GoesOnTyped DEF Steps
<1>10. CASE ReadToken(p)
  <2>1. /\ pc' = [pc EXCEPT ![p] = "create"]
        /\ creds' = [creds EXCEPT ![p] = t.token[ns]]
        /\ t.token[ns] \in Tokens
        /\ UNCHANGED <<flags, edits, remote, issued, hub, args, disturbed>>
    BY <1>10 DEF ReadToken
  <2>2. TypeOK'
    BY <1>1, <1>3, <2>1 DEF Typed, TypeOK, Steps
  <2>3. Kinds'
    BY <1>3, <2>1, RegistrationAssumption DEF Typed, TypeOK, Kinds, Procs
  <2>4. QED
    BY <2>2, <2>3 DEF Typed
<1>11. CASE gaveUp(p)
  BY <1>3, <1>11, RegistrationAssumption
     DEF gaveUp, ended, Typed, TypeOK, Kinds, Procs, Steps, NoArgs
<1>12. QED
  BY <1>5, <1>6, <1>7, <1>8, <1>9, <1>10, <1>11
     DEF Call, TokenTimesOut, NamespaceGone

\* What a process stores is a registration.
LEMMA StoresRegistration ==
    ASSUME Typed, NEW p \in Procs, pc[p] \in {"create", "update"}
    PROVE  /\ registration(p) \in Registrations
           /\ secretOf(args[p].name) \in SecretNames
<1>1. args[p].name \in Names
  BY RunningHasArgs
<1>2. ASSUME p \in Adds PROVE registration(p) \in Registrations
  BY <1>2, RunningHasArgs DEF registration, Registrations, AddArgs, Typed, Kinds
<1>3. ASSUME p \in Posts PROVE registration(p) \in Registrations
  BY <1>3, RunningHasArgs, RegistrationAssumption
     DEF registration, Registrations, PostArgs
<1>4. QED
  BY <1>1, <1>2, <1>3 DEF Procs, SecretNames

\* A process that ended has neither arguments nor a token.
LEMMA EndedTyped ==
    ASSUME Typed, NEW p \in Procs, ended(p)
    PROVE  /\ pc' \in [Procs -> Steps]
           /\ args' \in [Procs -> AddArgs \cup PostArgs \cup {NoArgs}]
           /\ creds' \in [Procs -> Tokens \cup {None}]
           /\ \A q \in Procs : pc'[q] = "idle" <=> args'[q] = NoArgs
           /\ Kinds'
<1>1. pc' \in [Procs -> Steps]
  BY DEF ended, Typed, TypeOK, Steps
<1>2. args' \in [Procs -> AddArgs \cup PostArgs \cup {NoArgs}]
  BY DEF ended, Typed, TypeOK
<1>3. creds' \in [Procs -> Tokens \cup {None}]
  BY DEF ended, Typed, TypeOK, NoArgs
<1>4. \A q \in Procs : pc'[q] = "idle" <=> args'[q] = NoArgs
  BY DEF ended, Typed, TypeOK
<1>5. Kinds'
  BY DEF ended, Typed, TypeOK, Kinds, Procs
<1>6. QED
  BY <1>1, <1>2, <1>3, <1>4, <1>5

\* Storing a registration, or giving up, keeps the types.
LEMMA ApplyTyped ==
    ASSUME Typed, NEW p \in Procs, Apply(p) \/ Fail(p)
    PROVE  Typed'
<1>1. CASE gaveUp(p)
  <2>1. TypeOK'
    BY <1>1, EndedTyped DEF gaveUp, Typed, TypeOK
  <2>2. QED
    BY <1>1, <2>1, EndedTyped DEF gaveUp, Typed
<1>2. CASE CreateSecret(p) \/ UpdateSecret(p)
  <2>1. /\ pc[p] \in {"create", "update"}
        /\ stored(p, secretOf(args[p].name))
    BY <1>2 DEF CreateSecret, UpdateSecret
  <2>2. hub' \in [SecretNames -> Registrations \cup {None}]
    BY <2>1, StoresRegistration DEF stored, Typed, TypeOK
  <2>3. TypeOK'
    BY <2>1, <2>2, EndedTyped DEF stored, Typed, TypeOK
  <2>4. QED
    BY <2>1, <2>3, EndedTyped DEF stored, Typed
<1>3. CASE SecretExists(p)
  <2>1. /\ pc[p] = "create"
        /\ pc' = [pc EXCEPT ![p] = "update"]
        /\ UNCHANGED <<flags, edits, remote, issued, hub, args, creds, disturbed>>
    BY <1>3 DEF SecretExists
  <2>2. TypeOK'
    BY <2>1 DEF Typed, TypeOK, Steps
  <2>3. Kinds'
    BY <2>1 DEF Typed, TypeOK, Kinds, Procs
  <2>4. QED
    BY <2>2, <2>3 DEF Typed
<1>4. QED
  BY <1>1, <1>2, <1>3 DEF Apply, SecretGone, Fail

\* Starting the command or a POST keeps the types.
LEMMA StartTyped ==
    ASSUME Typed, NEW name \in Names, NEW r \in Remotes,
           \/ \E p \in Adds, ns \in SANamespaces : Add(p, name, r, ns)
           \/ \E p \in Posts, body \in Bodies : PostCluster(p, body, name, r)
    PROVE  Typed'
<1>1. ASSUME NEW p \in Adds, NEW ns \in SANamespaces, Add(p, name, r, ns)
      PROVE  Typed'
  <2>1. [name |-> name, server |-> r, account |-> ns] \in AddArgs
    BY DEF AddArgs
  <2>2. [name |-> name, server |-> r, account |-> ns] # NoArgs
    BY <2>1, NamesAssumption DEF NoArgs
  <2>3. TypeOK'
    BY <1>1, <2>1, <2>2 DEF Add, Typed, TypeOK, Steps, Procs
  <2>4. Kinds'
    BY <1>1, <2>1, RegistrationAssumption DEF Add, Typed, TypeOK, Kinds, Procs
  <2>5. QED
    BY <2>3, <2>4 DEF Typed
<1>2. ASSUME NEW p \in Posts, NEW body \in Bodies, PostCluster(p, body, name, r)
      PROVE  Typed'
  <2>1. [name |-> name, server |-> r] \in PostArgs
    BY DEF PostArgs
  <2>2. [name |-> name, server |-> r] # NoArgs
    BY <2>1, NamesAssumption DEF NoArgs
  <2>3. TypeOK'
    BY <1>2, <2>1, <2>2 DEF PostCluster, Typed, TypeOK, Steps, Procs
  <2>4. Kinds'
    BY <1>2, <2>1, RegistrationAssumption DEF PostCluster, Typed, TypeOK, Kinds, Procs
  <2>5. QED
    BY <2>3, <2>4 DEF Typed
<1>3. QED
  BY <1>1, <1>2

\* The token controller and edits by hand keep the types.
LEMMA ByHandTyped ==
    ASSUME Typed, ByHand
    PROVE  Typed'
<1>1. ASSUME NEW r \in Remotes, NEW ns \in SANamespaces,
             NEW token \in Tokens \cup {None},
             remote' = [remote EXCEPT ![r].token[ns] = token]
      PROVE  /\ remote' \in [Remotes -> Remote]
             /\ \A q \in Remotes : remote'[q].accounts \subseteq remote'[q].namespaces
  <2> DEFINE after == [remote[r] EXCEPT !.token[ns] = token]
  <2>1. /\ after \in Remote
        /\ after.accounts \subseteq after.namespaces
    BY RemoteFields DEF Typed, TypeOK, Remote
  <2>2. remote' = [remote EXCEPT ![r] = after]
    BY <1>1
  <2>3. QED
    BY <2>1, <2>2 DEF Typed, TypeOK
<1>2. ASSUME NEW r \in Remotes, NEW ns \in SANamespaces, IssueToken(r, ns)
      PROVE  Typed'
  <2>1. /\ issued[r] + 1 \in Tokens
        /\ issued' \in [Remotes -> 0..MaxTokens]
    BY <1>2, RegistrationAssumption DEF IssueToken, Typed, TypeOK, Tokens
  <2>2. TypeOK'
    BY <1>1, <1>2, <2>1 DEF IssueToken, work, Typed, TypeOK
  <2>3. QED
    BY <1>2, <2>2 DEF IssueToken, work, Typed, Kinds
<1>3. ASSUME NEW r \in Remotes, NEW ns \in SANamespaces, RevokeToken(r, ns)
      PROVE  Typed'
  <2>1. edits' \in 0..MaxEdits
    BY <1>3, RegistrationAssumption DEF RevokeToken, disturbs, Typed, TypeOK
  <2>2. TypeOK'
    BY <1>1, <1>3, <2>1 DEF RevokeToken, disturbs, work, Typed, TypeOK
  <2>3. QED
    BY <1>3, <2>2 DEF RevokeToken, disturbs, work, Typed, Kinds
<1>4. ASSUME NEW r \in Remotes, NEW ns \in SANamespaces, DeleteNamespace(r, ns)
      PROVE  Typed'
  <2> DEFINE t == remote[r]
             after == withoutNamespace(t, ns)
  <2>1. /\ after \in Remote
        /\ after.accounts \subseteq after.namespaces
    <3>1. t \in Remote /\ t.accounts \subseteq t.namespaces
      BY DEF Typed, TypeOK
    <3>2. [t.token EXCEPT ![ns] = None] \in [SANamespaces -> Tokens \cup {Pending, None}]
      BY <3>1, RemoteFields
    <3>3. t.namespaces \ {ns} \subseteq SANamespaces /\ t.accounts \ {ns} \subseteq SANamespaces
      BY <3>1, RemoteFields
    <3>4. QED
      BY <3>1, <3>2, <3>3 DEF Remote, withoutNamespace
  <2>2. remote' = [remote EXCEPT ![r] = after]
    BY <1>4 DEF DeleteNamespace
  <2>3. edits' \in 0..MaxEdits
    BY <1>4, RegistrationAssumption DEF DeleteNamespace, disturbs, Typed, TypeOK
  <2>4. /\ remote' \in [Remotes -> Remote]
        /\ \A q \in Remotes : remote'[q].accounts \subseteq remote'[q].namespaces
    BY <2>1, <2>2 DEF Typed, TypeOK
  <2>5. TypeOK'
    BY <1>4, <2>3, <2>4 DEF DeleteNamespace, disturbs, work, Typed, TypeOK
  <2>6. QED
    BY <1>4, <2>5 DEF DeleteNamespace, disturbs, work, Typed, Kinds
<1>5. ASSUME NEW s \in SecretNames, NEW reg \in Registrations \cup {None},
             EditSecret(s, reg)
      PROVE  Typed'
  <2>1. edits' \in 0..MaxEdits
    BY <1>5, RegistrationAssumption DEF EditSecret, Typed, TypeOK
  <2>2. TypeOK'
    BY <1>5, <2>1 DEF EditSecret, work, Typed, TypeOK
  <2>3. QED
    BY <1>5, <2>2 DEF EditSecret, work, Typed, Kinds
<1>6. \A name \in Names \cup {Local, None}, r \in Remotes :
         [name |-> name, server |-> r, by |-> "hand"] \in Registrations
  BY DEF Registrations
<1>7. QED
  BY <1>2, <1>3, <1>4, <1>5, <1>6 DEF ByHand

\* Every step keeps the types.
LEMMA TypedStep == Typed /\ [Next]_vars => Typed'
<1> SUFFICES ASSUME Typed, [Next]_vars PROVE Typed'
  OBVIOUS
<1>1. CASE \E p \in Adds, name \in Names, r \in Remotes, ns \in SANamespaces :
             Add(p, name, r, ns)
  BY <1>1, StartTyped
<1>2. CASE \E p \in Adds : Call(p)
  BY <1>2, CallTyped
<1>3. CASE \E p \in Procs : Apply(p) \/ Fail(p)
  BY <1>3, ApplyTyped
<1>4. CASE Requests
  <2>1. ASSUME NEW name \in Names, DeleteCluster(name)
        PROVE  Typed'
    BY <2>1 DEF DeleteCluster, work, Typed, TypeOK, Kinds
  <2>2. QED
    BY <1>4, <2>1, StartTyped DEF Requests
<1>5. CASE ByHand
  BY <1>5, ByHandTyped
<1>6. CASE UNCHANGED vars
  BY <1>6 DEF vars, work, Typed, TypeOK, Kinds
<1>7. QED
  BY <1>1, <1>2, <1>3, <1>4, <1>5, <1>6 DEF Next

\* Every variable keeps its type (the calls of Provision and ApplySecret, the
\* API's handlers, the token controller and edits by hand).
THEOREM TypeCorrect == Spec => []TypeOK
<1>1. Spec => []Typed
  BY InitTyped, TypedStep, PTL DEF Spec
<1>2. Typed => TypeOK
  BY DEF Typed
<1>3. QED
  BY <1>1, <1>2, PTL
-----------------------------------------------------------------------------
\* One name, one entry: of two Secrets that carry it the API server lists one
\* first, and none is listed under the hub's own (Registry.Clusters' seen).
LEMMA EntriesAreUnique ==
    ASSUME NEW name, NEW c \in entry(name), NEW d \in entry(name),
           hub \in [SecretNames -> Registrations \cup {None}]
    PROVE  c = d
<1> DEFINE First(s) == /\ parsed(s)
                       /\ hub[s].name # Local
                       /\ \A t \in SecretNames :
                             Before(t, s) /\ parsed(t) => hub[t].name # hub[s].name
<1>1. \A e \in entry(name) :
         \/ e = hubCluster
         \/ \E s \in SecretNames : First(s) /\ e = clusterOf(s)
  BY DEF entry, Clusters
<1>2. ASSUME NEW s \in SecretNames, First(s), clusterOf(s).name = name
      PROVE  hub[s].name = name /\ name # Local
  BY <1>2 DEF clusterOf
<1>3. ASSUME NEW s \in SecretNames, NEW t \in SecretNames, First(s), First(t),
             clusterOf(s).name = name, clusterOf(t).name = name
      PROVE  s = t
  BY <1>3, NamesAssumption DEF clusterOf
<1>4. c.name = name /\ d.name = name
  BY DEF entry
<1>5. hubCluster.name = Local
  BY DEF hubCluster
<1>6. CASE name = Local
  BY <1>1, <1>2, <1>4, <1>6
<1>7. CASE name # Local
  <2>1. /\ \E s \in SecretNames : First(s) /\ c = clusterOf(s)
        /\ \E s \in SecretNames : First(s) /\ d = clusterOf(s)
    BY <1>1, <1>4, <1>5, <1>7
  <2>2. PICK s \in SecretNames : First(s) /\ c = clusterOf(s)
    BY <2>1
  <2>3. PICK t \in SecretNames : First(t) /\ d = clusterOf(t)
    BY <2>1
  <2>4. s = t
    BY <1>3, <1>4, <2>2, <2>3
  <2>5. QED
    BY <2>2, <2>3, <2>4
<1>8. QED
  BY <1>6, <1>7

\* The hub's own cluster is listed, under its name.
LEMMA HubIsListed == hubCluster \in entry(Local)
BY DEF entry, Clusters, hubCluster

\* Whatever is registered, by whom and in which order, the list names every
\* cluster once and the hub's own name is the hub's (Registry.Clusters).
THEOREM NamesListedOnce == Spec => []NamesAreListedOnce
<1>1. TypeOK => NamesAreListedOnce
  <2> SUFFICES ASSUME TypeOK PROVE NamesAreListedOnce
    OBVIOUS
  <2>1. hub \in [SecretNames -> Registrations \cup {None}]
    BY DEF TypeOK
  <2>2. ASSUME NEW name \in Names PROVE Cardinality(entry(name)) <= 1
    <3>1. CASE entry(name) = {}
      BY <3>1, FS_EmptySet
    <3>2. CASE entry(name) # {}
      <4>1. PICK c : c \in entry(name)
        BY <3>2
      <4>2. entry(name) = {c}
        BY <2>1, <4>1, EntriesAreUnique
      <4>3. Cardinality({c}) = 1
        BY FS_Singleton
      <4>4. QED
        BY <4>2, <4>3
    <3>3. QED
      BY <3>1, <3>2
  <2>3. entry(Local) = {hubCluster}
    BY <2>1, HubIsListed, EntriesAreUnique
  <2>4. QED
    BY <2>2, <2>3 DEF NamesAreListedOnce
<1>2. QED
  BY <1>1, TypeCorrect, PTL
-----------------------------------------------------------------------------
(***************************************************************************)
(* What `cluster add` stores works.  The invariant says of every process   *)
(* what its calls so far have achieved; nothing but an edit by hand takes  *)
(* it back.                                                                *)
(***************************************************************************)
AfterAccount == {"role", "updateRole", "binding", "token", "poll", "create", "update"}
AfterRole    == {"binding", "token", "poll", "create", "update"}
AfterBinding == {"token", "poll", "create", "update"}

\* What the calls of p have achieved.
Achieved(p) ==
    /\ pc[p] \in AfterAccount => args[p].account \in target(p).accounts
    /\ pc[p] \in AfterRole => target(p).rules = "current"
    /\ pc[p] \in AfterBinding => target(p).subject # None
    /\ pc[p] \in {"create", "update"} => target(p).token[args[p].account] = creds[p]

\* The inductive invariant.
Provisioned ==
    /\ Typed
    /\ CredentialsWork
    /\ \A p \in Adds \ disturbed : Achieved(p)

\* One state of a cluster keeps what another one grants.
Keeps(before, after) ==
    /\ before.accounts \subseteq after.accounts
    /\ before.rules = "current" => after.rules = "current"
    /\ before.subject # None => after.subject # None
    /\ \A ns \in SANamespaces :
          before.token[ns] \in Tokens => after.token[ns] = before.token[ns]

\* A token is neither missing nor pending.
LEMMA TokensAreIssued == None \notin Tokens /\ Pending \notin Tokens
BY NamesAssumption, RegistrationAssumption DEF Tokens, Pending

\* Every call keeps what the clusters grant.
LEMMA CallKeeps ==
    ASSUME Typed, NEW p \in Adds, Call(p), NEW r \in Remotes
    PROVE  Keeps(remote[r], remote'[r])
<1>1. pc[p] # "idle"
  BY DEF Call, goesOn, CreateNamespace, CreateServiceAccount, CreateClusterRole,
         UpdateClusterRole, CreateClusterRoleBinding, CreateTokenSecret, ReadToken,
         TokenTimesOut, NamespaceGone
<1>2. /\ args[p].server \in Remotes
      /\ args[p].account \in SANamespaces
      /\ target(p) \in Remote
  BY <1>1, RunningHasArgs DEF AddArgs, target, Typed, TypeOK
<1> DEFINE t == target(p)
           ns == args[p].account
<1>3. ASSUME NEW from, NEW to, NEW after, goesOn(p, from, to, after), Keeps(t, after)
      PROVE  Keeps(remote[r], remote'[r])
  BY <1>2, <1>3 DEF goesOn, target, Typed, TypeOK, Keeps
<1>4. CASE CreateNamespace(p)
  <2>1. Keeps(t, [t EXCEPT !.namespaces = @ \cup {ns}])
    BY <1>2 DEF Keeps, Remote
  <2>2. QED
    BY <1>3, <1>4, <2>1 DEF CreateNamespace
<1>5. CASE CreateServiceAccount(p)
  <2>1. Keeps(t, [t EXCEPT !.accounts = @ \cup {ns}])
    BY <1>2 DEF Keeps, Remote
  <2>2. QED
    BY <1>3, <1>5, <2>1 DEF CreateServiceAccount
<1>6. CASE CreateClusterRole(p) \/ UpdateClusterRole(p)
  <2>1. Keeps(t, [t EXCEPT !.rules = "current"]) /\ Keeps(t, t)
    BY <1>2 DEF Keeps, Remote
  <2>2. QED
    BY <1>3, <1>6, <2>1 DEF CreateClusterRole, UpdateClusterRole
<1>7. CASE CreateClusterRoleBinding(p)
  <2>1. Keeps(t, [t EXCEPT !.subject = IF @ = None THEN ns ELSE @])
    BY <1>2 DEF Keeps, Remote
  <2>2. QED
    BY <1>3, <1>7, <2>1 DEF CreateClusterRoleBinding
<1>8. CASE CreateTokenSecret(p)
  <2> DEFINE after == [t EXCEPT !.token[ns] = IF @ = None THEN Pending ELSE @]
  <2>1. t.token \in [SANamespaces -> Tokens \cup {Pending, None}]
    BY <1>2, RemoteFields
  <2>2. \A n \in SANamespaces : t.token[n] \in Tokens => after.token[n] = t.token[n]
    BY <1>2, <2>1, TokensAreIssued DEF Remote
  <2>3. after.accounts = t.accounts /\ after.rules = t.rules /\ after.subject = t.subject
    BY <1>2 DEF Remote
  <2>4. Keeps(t, after)
    BY <2>2, <2>3 DEF Keeps
  <2>5. QED
    BY <1>3, <1>8, <2>4 DEF CreateTokenSecret
<1>9. CASE UNCHANGED remote
  BY <1>9 DEF Keeps
<1>10. QED
  BY <1>4, <1>5, <1>6, <1>7, <1>8, <1>9
     DEF Call, ReadToken, TokenTimesOut, NamespaceGone, gaveUp

\* What a process has achieved lasts as long as the clusters keep it.
LEMMA AchievedLasts ==
    ASSUME Typed, NEW p \in Adds, Achieved(p),
           \A r \in Remotes : Keeps(remote[r], remote'[r]),
           pc'[p] = pc[p], args'[p] = args[p], creds'[p] = creds[p]
    PROVE  Achieved(p)'
<1>1. CASE pc[p] = "idle"
  BY <1>1 DEF Achieved, AfterAccount, AfterRole, AfterBinding
<1>2. CASE pc[p] # "idle"
  <2>1. args[p].server \in Remotes /\ args[p].account \in SANamespaces
    BY <1>2, RunningHasArgs DEF AddArgs
  <2>2. Keeps(target(p), target(p)')
    BY <2>1 DEF target
  <2>3. pc[p] \in {"create", "update"} => creds[p] \in Tokens
    BY DEF Typed, Kinds
  <2>4. QED
    BY <2>1, <2>2, <2>3 DEF Achieved, Keeps
<1>3. QED
  BY <1>1, <1>2

\* So do the registrations that are stored already.
LEMMA StoredLasts ==
    ASSUME Typed, CredentialsWork, NEW s \in SecretNames, s \notin disturbed,
           \A r \in Remotes : Keeps(remote[r], remote'[r]),
           hub[s] # None, hub[s].by = "add", hub'[s] = hub[s]
    PROVE  /\ remote'[hub[s].server].token[hub[s].account] = hub[s].token
           /\ hub[s].account \in remote'[hub[s].server].accounts
           /\ remote'[hub[s].server].rules = "current"
           /\ remote'[hub[s].server].subject # None
<1>1. hub[s] \in Registrations
  BY DEF Typed, TypeOK
<1>2. /\ hub[s].server \in Remotes
      /\ hub[s].account \in SANamespaces
      /\ hub[s].token \in Tokens
  BY <1>1 DEF Registrations
<1>3. QED
  BY <1>2 DEF CredentialsWork, Keeps

\* A step that leaves the registrations alone keeps them working.
LEMMA CredentialsKept ==
    ASSUME Typed, CredentialsWork, \A r \in Remotes : Keeps(remote[r], remote'[r]),
           hub' = hub, disturbed \cap SecretNames \subseteq disturbed'
    PROVE  CredentialsWork'
<1> SUFFICES ASSUME NEW s \in SecretNames, s \notin disturbed', hub'[s] # None,
                    hub'[s].by = "add"
             PROVE  /\ remote'[hub'[s].server].token[hub'[s].account] = hub'[s].token
                    /\ hub'[s].account \in remote'[hub'[s].server].accounts
                    /\ remote'[hub'[s].server].rules = "current"
                    /\ remote'[hub'[s].server].subject # None
  BY DEF CredentialsWork
<1>1. s \notin disturbed /\ hub'[s] = hub[s]
  OBVIOUS
<1>2. QED
  BY <1>1, StoredLasts

\* Each call of Provision achieves what the next ones rely on.
LEMMA CallAchieves ==
    ASSUME Typed, NEW p \in Adds, Achieved(p), Call(p)
    PROVE  Achieved(p)'
<1>1. pc[p] # "idle"
  BY DEF Call, goesOn, CreateNamespace, CreateServiceAccount, CreateClusterRole,
         UpdateClusterRole, CreateClusterRoleBinding, CreateTokenSecret, ReadToken,
         TokenTimesOut, NamespaceGone
<1>2. /\ p \in Procs
      /\ args[p].server \in Remotes
      /\ args[p].account \in SANamespaces
      /\ target(p) \in Remote
  BY <1>1, RunningHasArgs DEF AddArgs, target, Typed, TypeOK, Procs
<1> DEFINE t == target(p)
           ns == args[p].account
<1>3. ASSUME NEW from, NEW to, NEW after, goesOn(p, from, to, after)
      PROVE  /\ pc[p] = from /\ pc'[p] = to
             /\ target(p)' = after
             /\ args'[p] = args[p] /\ creds'[p] = creds[p]
  BY <1>2, <1>3 DEF goesOn, target, Typed, TypeOK
<1> USE DEF Achieved, AfterAccount, AfterRole, AfterBinding
<1>4. CASE CreateNamespace(p)
  BY <1>3, <1>4 DEF CreateNamespace
<1>5. CASE CreateServiceAccount(p)
  <2> DEFINE after == [t EXCEPT !.accounts = @ \cup {ns}]
  <2>1. ns \in after.accounts
    BY <1>2 DEF Remote
  <2>2. goesOn(p, "account", "role", after)
    BY <1>5 DEF CreateServiceAccount
  <2>3. /\ pc'[p] = "role"
        /\ target(p)' = after /\ args'[p] = args[p]
    BY <1>3, <2>2
  <2> HIDE DEF after
  <2>4. QED
    BY <2>1, <2>3
<1>6. CASE CreateClusterRole(p) \/ UpdateClusterRole(p)
  <2> DEFINE after == [t EXCEPT !.rules = "current"]
  <2>1. after.rules = "current" /\ after.accounts = t.accounts
    BY <1>2 DEF Remote
  <2>2. CASE goesOn(p, "role", "binding", after) \/ goesOn(p, "updateRole", "binding", after)
    <3>1. /\ pc[p] \in {"role", "updateRole"} /\ pc'[p] = "binding"
          /\ target(p)' = after /\ args'[p] = args[p]
      BY <1>3, <2>2
    <3> HIDE DEF after
    <3>2. QED
      BY <2>1, <3>1
  <2>3. CASE goesOn(p, "role", "updateRole", t)
    BY <1>3, <2>3
  <2>4. QED
    BY <1>6, <2>2, <2>3 DEF CreateClusterRole, UpdateClusterRole
<1>7. CASE CreateClusterRoleBinding(p)
  <2> DEFINE after == [t EXCEPT !.subject = IF @ = None THEN ns ELSE @]
  <2>1. /\ after.subject # None
        /\ after.accounts = t.accounts /\ after.rules = t.rules
    BY <1>2, RegistrationAssumption DEF Remote
  <2>2. goesOn(p, "binding", "token", after)
    BY <1>7 DEF CreateClusterRoleBinding
  <2>3. /\ pc[p] = "binding" /\ pc'[p] = "token"
        /\ target(p)' = after /\ args'[p] = args[p]
    BY <1>3, <2>2
  <2> HIDE DEF after
  <2>4. QED
    BY <2>1, <2>3
<1>8. CASE CreateTokenSecret(p)
  <2> DEFINE after == [t EXCEPT !.token[ns] = IF @ = None THEN Pending ELSE @]
  <2>1. /\ after.subject = t.subject
        /\ after.accounts = t.accounts /\ after.rules = t.rules
    BY <1>2 DEF Remote
  <2>2. goesOn(p, "token", "poll", after)
    BY <1>8 DEF CreateTokenSecret
  <2>3. /\ pc[p] = "token" /\ pc'[p] = "poll"
        /\ target(p)' = after /\ args'[p] = args[p]
    BY <1>3, <2>2
  <2> HIDE DEF after
  <2>4. QED
    BY <2>1, <2>3
<1>9. CASE ReadToken(p)
  <2>1. /\ pc[p] = "poll" /\ pc'[p] = "create"
        /\ target(p)' = t /\ args'[p] = args[p]
        /\ creds'[p] = t.token[ns]
    BY <1>2, <1>9 DEF ReadToken, target, Typed, TypeOK
  <2>2. QED
    BY <2>1
<1>10. CASE gaveUp(p)
  BY <1>2, <1>10 DEF gaveUp, ended, Typed, TypeOK
<1>11. QED
  BY <1>4, <1>5, <1>6, <1>7, <1>8, <1>9, <1>10 DEF Call, TokenTimesOut, NamespaceGone

\* A call of one process keeps what every other one has achieved.
LEMMA CallPreserves ==
    ASSUME Provisioned, NEW p \in Adds, Call(p)
    PROVE  Provisioned'
<1>1. /\ Typed /\ CredentialsWork
      /\ \A q \in Adds \ disturbed : Achieved(q)
  BY DEF Provisioned
<1>2. \A r \in Remotes : Keeps(remote[r], remote'[r])
  BY <1>1, CallKeeps
<1>3. hub' = hub /\ disturbed' = disturbed
  BY DEF Call, goesOn, CreateNamespace, CreateServiceAccount, CreateClusterRole,
         UpdateClusterRole, CreateClusterRoleBinding, CreateTokenSecret, ReadToken,
         TokenTimesOut, NamespaceGone, gaveUp
<1>4. ASSUME NEW q \in Adds, q # p
      PROVE  pc'[q] = pc[q] /\ args'[q] = args[q] /\ creds'[q] = creds[q]
  BY <1>1, <1>4
     DEF Call, goesOn, CreateNamespace, CreateServiceAccount, CreateClusterRole,
         UpdateClusterRole, CreateClusterRoleBinding, CreateTokenSecret, ReadToken,
         TokenTimesOut, NamespaceGone, gaveUp, ended, Typed, TypeOK, Procs
<1>5. ASSUME NEW q \in Adds \ disturbed'
      PROVE  Achieved(q)'
  <2>1. Achieved(q)
    BY <1>1, <1>3
  <2>2. CASE q = p
    BY <1>1, <2>1, <2>2, CallAchieves
  <2>3. CASE q # p
    BY <1>1, <1>2, <1>4, <2>1, <2>3, AchievedLasts
  <2>4. QED
    BY <2>2, <2>3
<1>6. Typed' /\ CredentialsWork'
  BY <1>1, <1>2, <1>3, CallTyped, CredentialsKept
<1>7. QED
  BY <1>5, <1>6 DEF Provisioned

\* Where the clusters stay as they are they keep what they grant.
LEMMA NothingIsLost ==
    ASSUME UNCHANGED remote
    PROVE  \A r \in Remotes : Keeps(remote[r], remote'[r])
BY DEF Keeps

\* A process that ends leaves the others as they are, and owes nothing.
LEMMA EndingPreserves ==
    ASSUME Typed, NEW p \in Procs, ended(p), UNCHANGED remote,
           NEW q \in Adds, p = q \/ Achieved(q)
    PROVE  Achieved(q)'
<1>1. q \in Procs
  BY DEF Procs
<1>2. CASE p = q
  <2>1. pc'[q] = "idle"
    BY <1>1, <1>2 DEF ended, Typed, TypeOK
  <2>2. QED
    BY <2>1 DEF Achieved, AfterAccount, AfterRole, AfterBinding
<1>3. CASE p # q
  <2>1. pc'[q] = pc[q] /\ args'[q] = args[q] /\ creds'[q] = creds[q]
    BY <1>1, <1>3 DEF ended, Typed, TypeOK
  <2>2. Achieved(q)
    BY <1>3
  <2>3. QED
    BY <2>1, <2>2, NothingIsLost, AchievedLasts
<1>4. QED
  BY <1>2, <1>3

\* What a process stores is what its calls have achieved.
LEMMA ApplyPreserves ==
    ASSUME Provisioned, NEW p \in Procs, Apply(p) \/ Fail(p)
    PROVE  Provisioned'
<1>1. /\ Typed /\ CredentialsWork
      /\ \A q \in Adds \ disturbed : Achieved(q)
      /\ Typed'
  BY ApplyTyped DEF Provisioned
<1>2. CASE gaveUp(p)
  <2>1. CredentialsWork'
    BY <1>1, <1>2, NothingIsLost, CredentialsKept DEF gaveUp
  <2>2. \A q \in Adds \ disturbed' : Achieved(q)'
    BY <1>1, <1>2, EndingPreserves DEF gaveUp
  <2>3. QED
    BY <1>1, <2>1, <2>2 DEF Provisioned
<1>3. CASE SecretExists(p)
  <2>1. /\ pc[p] = "create"
        /\ pc' = [pc EXCEPT ![p] = "update"]
        /\ UNCHANGED <<remote, hub, args, creds, disturbed>>
    BY <1>3 DEF SecretExists
  <2>2. CredentialsWork'
    BY <1>1, <2>1, NothingIsLost, CredentialsKept
  <2>3. ASSUME NEW q \in Adds \ disturbed'
        PROVE  Achieved(q)'
    <3>1. pc'[q] = IF q = p THEN "update" ELSE pc[q]
      BY <1>1, <2>1 DEF Typed, TypeOK, Procs
    <3>2. Achieved(q)
      BY <1>1, <2>1
    <3>3. QED
      BY <2>1, <3>1, <3>2 DEF Achieved, AfterAccount, AfterRole, AfterBinding, target
  <2>4. QED
    BY <1>1, <2>2, <2>3 DEF Provisioned
<1>4. CASE CreateSecret(p) \/ UpdateSecret(p)
  <2> DEFINE s == secretOf(args[p].name)
             reg == registration(p)
  <2>1. /\ pc[p] \in {"create", "update"}
        /\ hub' = [hub EXCEPT ![s] = reg]
        /\ disturbed' = IF p \in disturbed THEN disturbed \cup {s} ELSE disturbed \ {s}
        /\ ended(p)
        /\ UNCHANGED remote
    BY <1>4 DEF CreateSecret, UpdateSecret, stored
  <2>2. s \in SecretNames /\ s \notin Procs
    BY <1>1, <2>1, StoresRegistration, NamesAssumption
  <2>3. ASSUME NEW q \in Adds \ disturbed'
        PROVE  Achieved(q)'
    <3>1. q \notin disturbed
      BY <2>1, <2>2 DEF Procs
    <3>2. QED
      BY <1>1, <2>1, <3>1, EndingPreserves
  <2>4. ASSUME reg.by = "add", p \notin disturbed
        PROVE  /\ reg.account \in remote[reg.server].accounts
               /\ remote[reg.server].token[reg.account] = reg.token
               /\ remote[reg.server].rules = "current"
               /\ remote[reg.server].subject # None
    <3>1. p \in Adds
      BY <2>4, RegistrationAssumption DEF registration, Procs
    <3>2. /\ reg.server = args[p].server
          /\ reg.account = args[p].account
          /\ reg.token = creds[p]
      BY <3>1 DEF registration
    <3>3. Achieved(p)
      BY <1>1, <2>4, <3>1
    <3>4. QED
      BY <2>1, <3>2, <3>3 DEF Achieved, AfterAccount, AfterRole, AfterBinding, target
  <2>5. ASSUME NEW u \in SecretNames \ disturbed', hub'[u] # None, hub'[u].by = "add"
        PROVE  /\ remote'[hub'[u].server].token[hub'[u].account] = hub'[u].token
               /\ hub'[u].account \in remote'[hub'[u].server].accounts
               /\ remote'[hub'[u].server].rules = "current"
               /\ remote'[hub'[u].server].subject # None
    <3>1. CASE u = s
      <4>1. hub'[u] = reg
        BY <1>1, <2>1, <2>2, <3>1 DEF Typed, TypeOK
      <4>2. p \notin disturbed
        BY <2>1, <2>5, <3>1
      <4>3. QED
        BY <2>1, <2>4, <2>5, <4>1, <4>2
    <3>2. CASE u # s
      <4>1. hub'[u] = hub[u] /\ u \notin disturbed
        BY <1>1, <2>1, <2>5, <3>2 DEF Typed, TypeOK
      <4>2. QED
        BY <1>1, <2>1, <2>5, <4>1, NothingIsLost, StoredLasts
    <3>3. QED
      BY <3>1, <3>2
  <2>6. CredentialsWork'
    BY <2>5 DEF CredentialsWork
  <2>7. QED
    BY <1>1, <2>3, <2>6 DEF Provisioned
<1>5. QED
  BY <1>2, <1>3, <1>4 DEF Apply, SecretGone, Fail

\* A process that starts has achieved nothing, and a POST does not provision.
LEMMA StartPreserves ==
    ASSUME Provisioned, NEW name \in Names, NEW r \in Remotes,
           \/ \E p \in Adds, ns \in SANamespaces : Add(p, name, r, ns)
           \/ \E p \in Posts, body \in Bodies : PostCluster(p, body, name, r)
    PROVE  Provisioned'
<1>1. /\ Typed /\ CredentialsWork
      /\ \A q \in Adds \ disturbed : Achieved(q)
      /\ Typed'
  BY StartTyped DEF Provisioned
<1>2. PICK p \in Procs, to \in {"namespace", "create"}, given \in AddArgs \cup PostArgs :
         /\ p \in Adds => to = "namespace"
         /\ pc' = [pc EXCEPT ![p] = to]
         /\ args' = [args EXCEPT ![p] = given]
         /\ disturbed' = disturbed \ {p}
         /\ UNCHANGED <<remote, hub, creds>>
  BY RegistrationAssumption DEF Add, PostCluster, Procs, AddArgs, PostArgs
<1>3. disturbed \cap SecretNames \subseteq disturbed'
  BY <1>2, NamesAssumption
<1>4. CredentialsWork'
  BY <1>1, <1>2, <1>3, NothingIsLost, CredentialsKept
<1>5. ASSUME NEW q \in Adds \ disturbed'
      PROVE  Achieved(q)'
  <2>1. CASE q = p
    <3>1. pc'[q] = "namespace"
      BY <1>1, <1>2, <2>1 DEF Typed, TypeOK
    <3>2. QED
      BY <3>1 DEF Achieved, AfterAccount, AfterRole, AfterBinding
  <2>2. CASE q # p
    <3>1. pc'[q] = pc[q] /\ args'[q] = args[q] /\ creds'[q] = creds[q]
      BY <1>1, <1>2, <2>2 DEF Typed, TypeOK, Procs
    <3>2. Achieved(q)
      BY <1>1, <1>2, <2>2
    <3>3. QED
      BY <1>1, <1>2, <3>1, <3>2, NothingIsLost, AchievedLasts
  <2>3. QED
    BY <2>1, <2>2
<1>6. QED
  BY <1>1, <1>4, <1>5 DEF Provisioned

\* The token controller only fills what is pending; what an edit by hand may
\* have voided, it marks as disturbed.
LEMMA ByHandPreserves ==
    ASSUME Provisioned, ByHand
    PROVE  Provisioned'
<1>1. /\ Typed /\ CredentialsWork
      /\ \A q \in Adds \ disturbed : Achieved(q)
      /\ Typed'
  BY ByHandTyped DEF Provisioned
<1>2. ASSUME NEW r \in Remotes, NEW ns \in SANamespaces, IssueToken(r, ns)
      PROVE  Provisioned'
  <2>1. /\ remote' = [remote EXCEPT ![r].token[ns] = issued[r] + 1]
        /\ remote[r].token[ns] = Pending
        /\ UNCHANGED <<hub, pc, args, creds, disturbed>>
    BY <1>2 DEF IssueToken, work
  <2>2. ASSUME NEW q \in Remotes
        PROVE  Keeps(remote[q], remote'[q])
    <3>1. CASE q # r
      BY <1>1, <2>1, <3>1 DEF Typed, TypeOK, Keeps
    <3>2. CASE q = r
      <4> DEFINE t == remote[r]
                 after == [t EXCEPT !.token[ns] = issued[r] + 1]
      <4>1. t \in Remote /\ remote'[r] = after
        BY <1>1, <2>1 DEF Typed, TypeOK
      <4>2. t.token \in [SANamespaces -> Tokens \cup {Pending, None}]
        BY <4>1, RemoteFields
      <4>3. \A n \in SANamespaces : t.token[n] \in Tokens => after.token[n] = t.token[n]
        BY <2>1, <4>1, <4>2, TokensAreIssued DEF Remote
      <4>4. after.accounts = t.accounts /\ after.rules = t.rules /\ after.subject = t.subject
        BY <4>1 DEF Remote
      <4>5. QED
        BY <3>2, <4>1, <4>3, <4>4 DEF Keeps
    <3>3. QED
      BY <3>1, <3>2
  <2>3. CredentialsWork'
    BY <1>1, <2>1, <2>2, CredentialsKept
  <2>4. \A q \in Adds \ disturbed' : Achieved(q)'
    BY <1>1, <2>1, <2>2, AchievedLasts
  <2>5. QED
    BY <1>1, <2>3, <2>4 DEF Provisioned
<1>3. ASSUME NEW r \in Remotes, NEW after, remote' = [remote EXCEPT ![r] = after],
             disturbs(r)
      PROVE  Provisioned'
  <2>1. /\ disturbed' = disturbed
             \cup {p \in Adds : pc[p] # "idle" /\ args[p].server = r}
             \cup {s \in SecretNames : hub[s] # None /\ hub[s].server = r}
        /\ UNCHANGED <<hub, pc, args, creds>>
    BY <1>3 DEF disturbs, work
  <2>2. \A q \in Remotes \ {r} : remote'[q] = remote[q]
    BY <1>1, <1>3 DEF Typed, TypeOK
  <2>3. ASSUME NEW q \in Adds \ disturbed'
        PROVE  Achieved(q)'
    <3>1. Achieved(q)
      BY <1>1, <2>1
    <3>2. CASE pc[q] = "idle"
      BY <2>1, <3>2 DEF Achieved, AfterAccount, AfterRole, AfterBinding
    <3>3. CASE pc[q] # "idle"
      <4>1. args[q].server \in Remotes \ {r}
        BY <1>1, <2>1, <2>3, <3>3, RunningHasArgs DEF Procs
      <4>2. QED
        BY <2>1, <2>2, <3>1, <4>1 DEF Achieved, target
    <3>4. QED
      BY <3>2, <3>3
  <2>4. ASSUME NEW u \in SecretNames \ disturbed', hub'[u] # None, hub'[u].by = "add"
        PROVE  /\ u \notin disturbed /\ hub'[u] = hub[u]
               /\ remote'[hub[u].server] = remote[hub[u].server]
    <3>1. hub[u].server \in Remotes
      BY <1>1, <2>1, <2>4 DEF Typed, TypeOK, Registrations
    <3>2. QED
      BY <2>1, <2>2, <2>4, <3>1
  <2>5. CredentialsWork'
    BY <1>1, <2>4 DEF CredentialsWork
  <2>6. QED
    BY <1>1, <2>3, <2>5 DEF Provisioned
<1>4. ASSUME NEW r \in Remotes, NEW ns \in SANamespaces,
             RevokeToken(r, ns) \/ DeleteNamespace(r, ns)
      PROVE  Provisioned'
  <2>1. CASE RevokeToken(r, ns)
    <3>1. remote' = [remote EXCEPT ![r] = [remote[r] EXCEPT !.token[ns] = None]]
      BY <2>1 DEF RevokeToken
    <3>2. QED
      BY <1>3, <2>1, <3>1 DEF RevokeToken
  <2>2. CASE DeleteNamespace(r, ns)
    BY <1>3, <2>2 DEF DeleteNamespace
  <2>3. QED
    BY <1>4, <2>1, <2>2
<1>5. ASSUME NEW s \in SecretNames, NEW reg, reg = None \/ reg.by = "hand",
             EditSecret(s, reg)
      PROVE  Provisioned'
  <2>1. /\ hub' = [hub EXCEPT ![s] = reg]
        /\ disturbed' = disturbed \ {s}
        /\ UNCHANGED <<remote, pc, args, creds>>
    BY <1>5 DEF EditSecret, work
  <2>2. \A q \in Adds \ disturbed' : q \notin disturbed
    BY <2>1, NamesAssumption DEF Procs
  <2>3. \A q \in Adds \ disturbed' : Achieved(q)'
    BY <1>1, <2>1, <2>2, NothingIsLost, AchievedLasts
  <2>4. ASSUME NEW u \in SecretNames \ disturbed', hub'[u] # None, hub'[u].by = "add"
        PROVE  u \notin disturbed /\ hub'[u] = hub[u]
    BY <1>1, <1>5, <2>1, <2>4 DEF Typed, TypeOK
  <2>5. CredentialsWork'
    BY <1>1, <2>1, <2>4 DEF CredentialsWork
  <2>6. QED
    BY <1>1, <2>3, <2>5 DEF Provisioned
<1>6. QED
  BY <1>2, <1>4, <1>5 DEF ByHand

\* Every step keeps the invariant.
LEMMA ProvisionedStep == Provisioned /\ [Next]_vars => Provisioned'
<1> SUFFICES ASSUME Provisioned, [Next]_vars PROVE Provisioned'
  OBVIOUS
<1>1. /\ Typed /\ CredentialsWork
      /\ \A q \in Adds \ disturbed : Achieved(q)
      /\ Typed'
  BY TypedStep DEF Provisioned
<1>2. CASE \E p \in Adds, name \in Names, r \in Remotes, ns \in SANamespaces :
             Add(p, name, r, ns)
  BY <1>2, StartPreserves
<1>3. CASE \E p \in Adds : Call(p)
  BY <1>3, CallPreserves
<1>4. CASE \E p \in Procs : Apply(p) \/ Fail(p)
  BY <1>4, ApplyPreserves
<1>5. CASE Requests
  <2>1. ASSUME NEW name \in Names, DeleteCluster(name)
        PROVE  Provisioned'
    <3>1. /\ hub' = [hub EXCEPT ![secretOf(name)] = None]
          /\ UNCHANGED <<remote, pc, args, creds, disturbed>>
      BY <2>1 DEF DeleteCluster, work
    <3>2. \A q \in Adds \ disturbed' : Achieved(q)'
      BY <1>1, <3>1, NothingIsLost, AchievedLasts
    <3>3. ASSUME NEW u \in SecretNames \ disturbed', hub'[u] # None
          PROVE  hub'[u] = hub[u] /\ u \notin disturbed
      BY <1>1, <3>1, <3>3 DEF Typed, TypeOK
    <3>4. CredentialsWork'
      BY <1>1, <3>1, <3>3 DEF CredentialsWork
    <3>5. QED
      BY <1>1, <3>2, <3>4 DEF Provisioned
  <2>2. QED
    BY <1>5, <2>1, StartPreserves DEF Requests
<1>6. CASE ByHand
  BY <1>6, ByHandPreserves
<1>7. CASE UNCHANGED vars
  <2>1. UNCHANGED <<remote, hub, pc, args, creds, disturbed>>
    BY <1>7 DEF vars, work
  <2>2. QED
    BY <1>1, <2>1 DEF Provisioned, CredentialsWork, Achieved, target
<1>8. QED
  BY <1>2, <1>3, <1>4, <1>5, <1>6, <1>7 DEF Next

\* However many runs of `cluster add` are interrupted, repeated or overlap, each
\* with the token controller in between: the credentials that are stored work,
\* unless somebody edited the cluster by hand (Provision, ApplySecret).
THEOREM StoredCredentialsWork == Spec => []CredentialsWork
<1>1. Init => Provisioned
  <2> SUFFICES ASSUME Init PROVE Provisioned
    OBVIOUS
  <2>1. CredentialsWork
    BY DEF Init, CredentialsWork
  <2>2. \A p \in Adds : Achieved(p)
    BY DEF Init, Procs, Achieved, AfterAccount, AfterRole, AfterBinding
  <2>3. QED
    BY <2>1, <2>2, InitTyped DEF Provisioned
<1>2. Spec => []Provisioned
  BY <1>1, ProvisionedStep, PTL DEF Spec
<1>3. Provisioned => CredentialsWork
  BY DEF Provisioned
<1>4. QED
  BY <1>2, <1>3, PTL
-----------------------------------------------------------------------------
(***************************************************************************)
(* Changes are local: a Secret that was not written by hand carries a name *)
(* that leads to it.                                                       *)
(***************************************************************************)
Named ==
    \A s \in SecretNames :
        hub[s] # None /\ hub[s].by # "hand" => secretOf(hub[s].name) = s

\* Storing a registration keeps the name and the Secret together.
LEMMA NamedStep == Typed /\ Named /\ [Next]_vars => Named'
<1> SUFFICES ASSUME Typed, Named, [Next]_vars PROVE Named'
  OBVIOUS
<1>1. ASSUME UNCHANGED hub PROVE Named'
  BY <1>1 DEF Named
<1>2. ASSUME NEW s \in SecretNames, NEW reg, hub' = [hub EXCEPT ![s] = reg],
             \/ reg = None
             \/ reg.by = "hand"
             \/ secretOf(reg.name) = s
      PROVE  Named'
  BY <1>2 DEF Named, Typed, TypeOK
<1>3. ASSUME NEW p \in Procs, Apply(p) \/ Fail(p)
      PROVE  Named'
  <2>1. CASE CreateSecret(p) \/ UpdateSecret(p)
    <3>1. /\ pc[p] \in {"create", "update"}
          /\ hub' = [hub EXCEPT ![secretOf(args[p].name)] = registration(p)]
      BY <2>1 DEF CreateSecret, UpdateSecret, stored
    <3>2. /\ secretOf(args[p].name) \in SecretNames
          /\ registration(p).name = args[p].name
      BY <3>1, StoresRegistration DEF registration
    <3>3. QED
      BY <1>2, <3>1, <3>2
  <2>2. CASE UNCHANGED hub
    BY <1>1, <2>2
  <2>3. QED
    BY <1>3, <2>1, <2>2 DEF Apply, SecretExists, SecretGone, Fail, gaveUp
<1>4. ASSUME NEW name \in Names, DeleteCluster(name)
      PROVE  Named'
  BY <1>2, <1>4 DEF DeleteCluster, SecretNames
<1>5. CASE ByHand
  <2>1. CASE UNCHANGED hub
    BY <1>1, <2>1
  <2>2. CASE \E s \in SecretNames :
               \/ EditSecret(s, None)
               \/ \E name \in Names \cup {Local, None}, r \in Remotes :
                     EditSecret(s, [name |-> name, server |-> r, by |-> "hand"])
    BY <1>2, <2>2 DEF EditSecret
  <2>3. QED
    BY <1>5, <2>1, <2>2
       DEF ByHand, IssueToken, RevokeToken, DeleteNamespace, disturbs
<1>6. CASE Requests
  <2>1. ASSUME NEW name \in Names, NEW p \in Posts, NEW body \in Bodies,
               NEW r \in Remotes, PostCluster(p, body, name, r)
        PROVE  Named'
    BY <1>1, <2>1 DEF PostCluster
  <2>2. QED
    BY <1>4, <1>6, <2>1 DEF Requests
<1>7. CASE \/ \E p \in Adds, name \in Names, r \in Remotes, ns \in SANamespaces :
                Add(p, name, r, ns)
           \/ \E p \in Adds : Call(p)
           \/ UNCHANGED vars
  <2>1. UNCHANGED hub
    BY <1>7 DEF vars, Add, Call, goesOn, CreateNamespace, CreateServiceAccount,
         CreateClusterRole, UpdateClusterRole, CreateClusterRoleBinding,
         CreateTokenSecret, ReadToken, TokenTimesOut, NamespaceGone, gaveUp
  <2>2. QED
    BY <1>1, <2>1
<1>8. QED
  BY <1>3, <1>5, <1>6, <1>7 DEF Next

\* An entry depends on the Secrets that carry its name, and on nothing else.
LEMMA EntryDependsOnItsName ==
    ASSUME NEW name \in Names, NEW w \in SecretNames, NEW reg,
           hub \in [SecretNames -> Registrations \cup {None}],
           hub' = [hub EXCEPT ![w] = reg],
           hub[w] = None \/ hub[w].name # name,
           reg = None \/ reg.name # name
    PROVE  entry(name)' = entry(name)
<1> DEFINE Carries(s) == hub[s] # None /\ hub[s].name = name
           First(s) == /\ Carries(s) /\ name # Local
                       /\ \A t \in SecretNames : Before(t, s) => ~Carries(t)
<1>1. \A s \in SecretNames : s # w => hub'[s] = hub[s]
  OBVIOUS
<1>2. hub'[w] = reg
  OBVIOUS
<1>3. \A s \in SecretNames : Carries(s)' <=> Carries(s)
  BY <1>1, <1>2
<1>4. \A s \in SecretNames : Carries(s) => clusterOf(s)' = clusterOf(s)
  BY <1>1, <1>2 DEF clusterOf
<1>5. \A s \in SecretNames : First(s)' <=> First(s)
  BY <1>3
<1>6. name # None
  BY RegistrationAssumption
<1>7. \A c : c \in entry(name) <=>
         /\ c.name = name
         /\ \/ c = hubCluster
            \/ \E s \in SecretNames : First(s) /\ c = clusterOf(s)
  <2>1. \A s \in SecretNames : clusterOf(s).name = hub[s].name
    BY DEF clusterOf
  <2>2. QED
    BY <1>6, <2>1 DEF entry, Clusters, parsed
<1>8. \A c : c \in entry(name)' <=>
         /\ c.name = name
         /\ \/ c = hubCluster
            \/ \E s \in SecretNames : First(s)' /\ c = clusterOf(s)'
  <2>1. \A s \in SecretNames : clusterOf(s)'.name = hub'[s].name
    BY DEF clusterOf
  <2>2. QED
    BY <1>6, <2>1 DEF entry, Clusters, parsed, hubCluster
<1> HIDE DEF Carries
<1>9. \A c : c \in entry(name)' <=> c \in entry(name)
  BY <1>4, <1>5, <1>7, <1>8
<1>10. QED
  BY <1>9 DEF entry

\* Adding or removing a cluster, by the command or the API, changes the entry of
\* no other, unless their names share a Secret or the Secret was written by hand
\* (NewClusterSecret and handleDeleteCluster derive it from the name alone).
THEOREM OnlyNamedClustersChange == Spec => OnlyTheNamedChange
<1> DEFINE Local_(named) == \A name \in Names :
             entry(name)' # entry(name) =>
                 \/ secretOf(name) = secretOf(named)
                 \/ hub[secretOf(named)] # None /\ hub[secretOf(named)].by = "hand"
<1>1. Init => Named
  BY DEF Init, Named
<1>2. ASSUME Typed, Named, NEW named \in Names, writesFor(named)
      PROVE  Local_(named)
  <2> DEFINE w == secretOf(named)
  <2>1. w \in SecretNames
    BY DEF SecretNames
  <2>2. \E reg : /\ hub' = [hub EXCEPT ![w] = reg]
                 /\ reg = None \/ reg.name = named
    <3>1. CASE DeleteCluster(named)
      BY <3>1 DEF DeleteCluster
    <3>2. ASSUME NEW p \in Procs, pc[p] # "idle", args[p].name = named,
                 CreateSecret(p) \/ UpdateSecret(p)
          PROVE  \E reg : /\ hub' = [hub EXCEPT ![w] = reg]
                          /\ reg = None \/ reg.name = named
      <4>1. hub' = [hub EXCEPT ![w] = registration(p)]
        BY <3>2 DEF CreateSecret, UpdateSecret, stored
      <4>2. registration(p).name = named
        BY <3>2 DEF registration
      <4>3. QED
        BY <4>1, <4>2
    <3>3. QED
      BY <1>2, <3>1, <3>2 DEF writesFor
  <2>3. PICK reg : /\ hub' = [hub EXCEPT ![w] = reg]
                   /\ reg = None \/ reg.name = named
    BY <2>2
  <2>4. ASSUME NEW name \in Names, secretOf(name) # w,
               ~(hub[w] # None /\ hub[w].by = "hand")
        PROVE  entry(name)' = entry(name)
    <3>1. hub[w] = None \/ hub[w].name # name
      BY <1>2, <2>1, <2>4 DEF Named
    <3>2. reg = None \/ reg.name # name
      BY <2>3, <2>4
    <3>3. QED
      BY <1>2, <2>1, <2>3, <3>1, <3>2, EntryDependsOnItsName DEF Typed, TypeOK
  <2>5. QED
    BY <2>4
<1>3. ASSUME Typed, Named
      PROVE  [\A named \in Names : hub' # hub /\ writesFor(named) =>
                LET written == secretOf(named)
                IN \A name \in Names :
                      entry(name)' # entry(name) =>
                          \/ secretOf(name) = written
                          \/ hub[written] # None /\ hub[written].by = "hand"]_vars
  BY <1>2, <1>3
<1>4. Spec => [](Typed /\ Named)
  BY <1>1, InitTyped, TypedStep, NamedStep, PTL DEF Spec
<1>5. QED
  BY <1>3, <1>4, PTL DEF OnlyTheNamedChange
-----------------------------------------------------------------------------
(***************************************************************************)
(* Who may call the API, by the flags alone.                               *)
(***************************************************************************)
LEMMA HighestRole ==
    ASSUME NEW S \in SUBSET (RoleNone..RoleAdmin), S # {}
    PROVE  Max(S) \in S /\ \A y \in S : Max(S) >= y
<1>1. \E x \in S : \A y \in S : x >= y
  <2>1. S \subseteq {0, 1, 2, 3}
    BY DEF RoleNone, RoleAdmin
  <2>2. CASE 3 \in S
    BY <2>1, <2>2
  <2>3. CASE 3 \notin S /\ 2 \in S
    BY <2>1, <2>3
  <2>4. CASE 3 \notin S /\ 2 \notin S /\ 1 \in S
    BY <2>1, <2>4
  <2>5. CASE S = {0}
    BY <2>5
  <2>6. QED
    BY <2>1, <2>2, <2>3, <2>4, <2>5
<1>2. QED
  BY <1>1 DEF Max

\* Where groups are mapped, one that reaches a role is enough.
LEMMA RoleOfGroups ==
    ASSUME NEW config, NEW groups, NEW n \in RoleNone..RoleAdmin,
           \A g \in DOMAIN config.groupRoles : config.groupRoles[g] \in RoleNone..RoleAdmin
    PROVE  roleFor(config, groups) >= n <=>
              \/ /\ groups \cap DOMAIN config.groupRoles = {}
                 /\ config.defaultRole >= n
              \/ \E g \in groups \cap DOMAIN config.groupRoles :
                    config.groupRoles[g] >= n
<1> DEFINE matched == groups \cap DOMAIN config.groupRoles
           roles == {config.groupRoles[g] : g \in matched}
<1>1. CASE matched = {}
  BY <1>1 DEF roleFor
<1>2. CASE matched # {}
  <2>1. roles \in SUBSET (RoleNone..RoleAdmin) /\ roles # {}
    BY <1>2
  <2>2. Max(roles) \in roles /\ \A y \in roles : Max(roles) >= y
    BY <2>1, HighestRole
  <2>3. roleFor(config, groups) = Max(roles)
    BY <1>2 DEF roleFor
  <2> DEFINE highest == Max(roles)
  <2>4. highest \in roles /\ \A y \in roles : highest >= y
    BY <2>2
  <2> HIDE DEF highest
  <2>5. highest >= n <=> \E y \in roles : y >= n
    <3>1. roles \subseteq Int /\ n \in Int
      BY <2>1 DEF RoleNone, RoleAdmin
    <3>2. QED
      BY <2>4, <3>1
  <2>6. (\E y \in roles : y >= n) <=> \E g \in matched : config.groupRoles[g] >= n
    OBVIOUS
  <2>7. QED
    BY <1>2, <2>3, <2>5, <2>6 DEF highest
<1>3. QED
  BY <1>1, <1>2

\* The configuration the flags lead to.
configured ==
    [enabled |-> flags.mode = "proxy", trusted |-> UNION flags.proxies,
     groupRoles |-> flags.groupRoles, defaultRole |-> flags.defaultRole,
     anonymousRole |-> flags.anonymousRole]

LEMMA StartedAsConfigured ==
    ASSUME flags \in FlagSets
    PROVE  started(flags) =
              IF \/ flags.mode = "none" /\ flags.anonymousRole > RoleViewer
                 \/ flags.mode = "proxy" /\ flags.proxies = {}
              THEN {} ELSE {configured}
<1>1. flags.mode \in {"none", "proxy"} /\ flags.anonymousRole \in 0..3
  BY FlagsAssumption DEF RoleNone, RoleAdmin
<1>2. authConfig(flags) =
        IF \/ flags.mode = "none" /\ flags.anonymousRole > RoleViewer
           \/ flags.mode = "proxy" /\ flags.proxies = {}
        THEN {} ELSE {configured}
  BY DEF authConfig, configured
<1>3. flags.mode = "none" /\ ~(flags.anonymousRole > RoleViewer) => enableAdmin(configured)
  BY <1>1 DEF enableAdmin, configured, RoleViewer, RoleOperator
<1>4. flags.mode = "proxy" => enableAdmin(configured)
  BY DEF enableAdmin, configured
<1>5. QED
  BY <1>1, <1>2, <1>3, <1>4 DEF started

\* Resolving the identity finds a role that reaches n where the flags say so.
LEMMA ResolvedAsHeld ==
    ASSUME flags \in FlagSets, NEW caller, NEW route, NEW n \in RoleNone..RoleAdmin
    PROVE  (\E config \in started(flags) :
              \E role \in Identify(config, request(caller, route)) : role >= n)
           <=> Holds(caller, n)
<1> DEFINE r == request(caller, route)
           resolved == \E config \in started(flags) :
                          \E role \in Identify(config, r) : role >= n
<1>1. /\ flags.mode \in {"none", "proxy"}
      /\ flags.anonymousRole \in 0..3 /\ flags.defaultRole \in 0..3
      /\ \A g \in DOMAIN flags.groupRoles : flags.groupRoles[g] \in RoleNone..RoleAdmin
      /\ \A g \in DOMAIN flags.groupRoles : flags.groupRoles[g] \in 0..3
      /\ n \in 0..3
  BY FlagsAssumption DEF RoleNone, RoleAdmin
<1>2. r.peer = caller.peer /\ r.user = caller.user /\ r.groups = caller.groups
  BY DEF request
<1>3. /\ configured.enabled = (flags.mode = "proxy")
      /\ configured.trusted = UNION flags.proxies
      /\ configured.groupRoles = flags.groupRoles
      /\ configured.defaultRole = flags.defaultRole
      /\ configured.anonymousRole = flags.anonymousRole
  BY DEF configured
<1>4. trusts(configured, r.peer) <=> \E peers \in flags.proxies : caller.peer \in peers
  BY <1>2, <1>3 DEF trusts
<1> HIDE DEF r
<1>5. CASE flags.mode = "none"
  <2>1. Identify(configured, r) = {flags.anonymousRole}
    BY <1>3, <1>5 DEF Identify
  <2>2. CASE flags.anonymousRole > RoleViewer
    BY <1>1, <1>5, <2>2, StartedAsConfigured DEF Holds, RoleViewer
  <2>3. CASE ~(flags.anonymousRole > RoleViewer)
    <3>1. started(flags) = {configured}
      BY <1>5, <2>3, StartedAsConfigured
    <3>2. resolved <=> flags.anonymousRole >= n
      BY <2>1, <3>1
    <3>3. QED
      BY <1>1, <1>5, <2>3, <3>2 DEF Holds, RoleViewer, r
  <2>4. QED
    BY <2>2, <2>3
<1>6. CASE flags.mode = "proxy" /\ flags.proxies = {}
  BY <1>6, StartedAsConfigured DEF Holds
<1>7. CASE flags.mode = "proxy" /\ flags.proxies # {}
  <2>1. started(flags) = {configured}
    BY <1>7, StartedAsConfigured
  <2>2. resolved <=> \E role \in Identify(configured, r) : role >= n
    BY <2>1
  <2>3. CASE (caller.user # "" \/ caller.groups # {}) /\ ~trusts(configured, r.peer)
    <3>1. Identify(configured, r) = {}
      BY <1>2, <1>3, <1>7, <2>3 DEF Identify
    <3>2. ~Holds(caller, n)
      BY <1>4, <1>7, <2>3 DEF Holds
    <3>3. QED
      BY <2>2, <3>1, <3>2 DEF r
  <2>4. CASE /\ caller.groups = {} \/ trusts(configured, r.peer)
             /\ caller.user = ""
    <3>1. Identify(configured, r) = {flags.anonymousRole}
      BY <1>2, <1>3, <1>7, <2>4 DEF Identify
    <3>2. Holds(caller, n) <=> n <= flags.anonymousRole
      BY <1>4, <1>7, <2>4 DEF Holds
    <3>3. QED
      BY <1>1, <2>2, <3>1, <3>2 DEF r
  <2>5. CASE trusts(configured, r.peer) /\ caller.user # ""
    <3>1. Identify(configured, r) = {roleFor(configured, caller.groups)}
      BY <1>2, <1>3, <1>7, <2>5 DEF Identify
    <3>2. Holds(caller, n) <=>
             \/ \E g \in caller.groups \cap DOMAIN flags.groupRoles :
                   n <= flags.groupRoles[g]
             \/ /\ caller.groups \cap DOMAIN flags.groupRoles = {}
                /\ n <= flags.defaultRole
      BY <1>4, <1>7, <2>5 DEF Holds
    <3>3. roleFor(configured, caller.groups) >= n <=>
             \/ /\ caller.groups \cap DOMAIN flags.groupRoles = {}
                /\ flags.defaultRole >= n
             \/ \E g \in caller.groups \cap DOMAIN flags.groupRoles :
                   flags.groupRoles[g] >= n
      BY <1>1, <1>3, RoleOfGroups
    <3>4. QED
      BY <1>1, <2>2, <3>1, <3>2, <3>3 DEF r
  <2>6. QED
    BY <2>3, <2>4, <2>5
<1>8. QED
  BY <1>1, <1>5, <1>6, <1>7

\* For every combination of the flags, and every caller: who gets to a handler
\* is who the flags give the role to (auth.Identify, authConfig, enableAdmin and
\* the routes of Server.Handler, taken together).
THEOREM AccessIsByTheFlags == Spec => []AccessFollowsTheFlags
<1>1. ASSUME flags \in FlagSets
      PROVE  AccessFollowsTheFlags
  <2>1. ASSUME NEW caller, NEW route, NEW role \in RoleNone..RoleAdmin,
               minRole[required[route]] = role
        PROVE  handled(flags, request(caller, route)) <=>
                  serves(flags, route) /\ Holds(caller, role)
    <3>1. request(caller, route).route = route
      BY DEF request
    <3>2. QED
      BY <1>1, <2>1, <3>1, ResolvedAsHeld DEF handled, Can
  <2>2. {RoleViewer, RoleOperator, RoleAdmin} \subseteq RoleNone..RoleAdmin
    BY DEF RoleNone, RoleViewer, RoleOperator, RoleAdmin
  <2>3. /\ minRole["reports:read"] = RoleViewer
        /\ minRole["teams:write"] = RoleOperator
        /\ minRole["clusters:write"] = RoleAdmin
    BY DEF minRole
  <2>4. ASSUME NEW caller
        PROVE  handled(flags, request(caller, "GET /api/report"))
                  <=> Holds(caller, RoleViewer)
    <3>1. required["GET /api/report"] = "reports:read"
      BY DEF required
    <3>2. serves(flags, "GET /api/report")
      BY <3>1 DEF serves
    <3>3. QED
      BY <2>1, <2>2, <2>3, <3>1, <3>2
  <2>5. ASSUME NEW caller
        PROVE  handled(flags, request(caller, "PUT /api/teams"))
                  <=> flags.admin /\ flags.teamsConfigMap /\ Holds(caller, RoleOperator)
    <3>1. required["PUT /api/teams"] = "teams:write"
      BY DEF required
    <3>2. serves(flags, "PUT /api/teams") <=> flags.admin /\ flags.teamsConfigMap
      BY <3>1 DEF serves
    <3>3. handled(flags, request(caller, "PUT /api/teams")) <=>
             serves(flags, "PUT /api/teams") /\ Holds(caller, RoleOperator)
      BY <2>1, <2>2, <2>3, <3>1
    <3>4. QED
      BY <3>2, <3>3
  <2>6. ASSUME NEW caller, NEW route \in {"POST /api/clusters", "DELETE /api/clusters"}
        PROVE  handled(flags, request(caller, route))
                  <=> flags.admin /\ flags.fleet /\ Holds(caller, RoleAdmin)
    <3>1. required[route] = "clusters:write"
      BY DEF required
    <3>2. serves(flags, route) <=> flags.admin /\ flags.fleet
      BY <3>1 DEF serves
    <3>3. handled(flags, request(caller, route)) <=>
             serves(flags, route) /\ Holds(caller, RoleAdmin)
      BY <2>1, <2>2, <2>3, <3>1
    <3>4. QED
      BY <3>2, <3>3
  <2>7. QED
    BY <2>4, <2>5, <2>6 DEF AccessFollowsTheFlags
<1>2. Typed => AccessFollowsTheFlags
  BY <1>1 DEF Typed, TypeOK
<1>3. Spec => []Typed
  BY InitTyped, TypedStep, PTL DEF Spec
<1>4. QED
  BY <1>2, <1>3, PTL
=============================================================================
