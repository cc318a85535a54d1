-------------------------- MODULE OwnershipProofs ---------------------------
(***************************************************************************)
(* Ownership for any teams, namespaces, webhooks and number of PUTs.       *)
(***************************************************************************)
EXTENDS Ownership, TLAPS

\* Restoring the redacted webhooks of a body from a stored spec gives a spec
\* that can be stored.
LEMMA MergeIsSpec ==
    ASSUME NEW b \in Bodies, NEW s \in Specs
    PROVE  MergeSecrets(b, s) \in Specs
<1> DEFINE merge == MergeSecrets(b, s)
<1>1. /\ b \in [teams : SUBSET Teams, owner : Mappings,
                hook : [Teams -> URLs \cup {None, Redacted}]]
      /\ Range(b.owner) \subseteq b.teams \cup {None}
      /\ \A t \in Teams \ b.teams : b.hook[t] = None
  BY DEF Bodies, SpecsWith
<1>2. s.hook \in [Teams -> URLs \cup {None}]
  BY DEF Specs, SpecsWith
<1>3. merge.teams = b.teams /\ merge.owner = b.owner
  BY <1>1 DEF MergeSecrets
<1>4. merge.hook = [t \in Teams |-> IF b.hook[t] = Redacted THEN s.hook[t] ELSE b.hook[t]]
  BY <1>1 DEF MergeSecrets
<1>5. merge.hook \in [Teams -> URLs \cup {None}]
  BY <1>1, <1>2, <1>4
<1>6. \A t \in Teams \ merge.teams : merge.hook[t] = None
  BY <1>1, <1>3, <1>4, OwnershipAssumption
<1>7. merge \in [teams : SUBSET Teams, owner : Mappings, hook : [Teams -> URLs \cup {None}]]
  BY <1>1, <1>5 DEF MergeSecrets
<1>8. QED
  BY <1>1, <1>3, <1>6, <1>7 DEF Specs, SpecsWith

\* A missing ConfigMap reads as a spec, which is a body as well.
LEMMA NoSpecIsSpec == NoSpec \in Specs /\ NoSpec \in Bodies /\ NoSpec.owner \in Mappings
<1>1. NoSpec.owner \in Mappings
  BY DEF NoSpec, Mappings
<1>2. Range(NoSpec.owner) \subseteq NoSpec.teams \cup {None}
  BY DEF NoSpec, Range
<1>3. \A t \in Teams : NoSpec.hook[t] = None
  BY DEF NoSpec
<1>4. QED
  BY <1>1, <1>2, <1>3 DEF Specs, Bodies, SpecsWith, NoSpec

\* The fields of a spec, for the steps that store one.
LEMMA SpecFields ==
    ASSUME NEW s \in Specs
    PROVE  s.owner \in Mappings /\ s.hook \in [Teams -> URLs \cup {None}]
BY DEF Specs, SpecsWith

\* What the clients asked for is what a webhook can be.
LEMMA AskedIsHooks ==
    ASSUME TypeOK, NEW b \in Bodies
    PROVE  Asked(b) \in [Teams -> URLs \cup {None}]
<1>1. b.hook \in [Teams -> URLs \cup {None, Redacted}]
  BY DEF Bodies, SpecsWith
<1>2. QED
  BY <1>1 DEF Asked, TypeOK

\* A finished request leaves well-typed locals.
LEMMA ForgetIsTyped ==
    ASSUME TypeOK, NEW q \in Puts, Forget(q)
    PROVE  /\ body' \in [Puts -> Bodies]
           /\ merged' \in [Puts -> Specs]
           /\ read' \in [Puts -> Mappings]
BY NoSpecIsSpec DEF Forget, TypeOK

\* Being overtaken is one of the steps of a PUT.
LEMMA OvertakenIsTyped ==
    ASSUME TypeOK, NEW s
    PROVE  Overtaken(s) \in [Puts -> Steps]
BY DEF Overtaken, TypeOK, Steps

\* The hub starts well-typed.
LEMMA InitTypeOK == Init => TypeOK
BY NoSpecIsSpec, SpecFields DEF Init, TypeOK, Steps, Cached

\* Every step keeps the types.
LEMMA TypeOKStep == TypeOK /\ [Next]_vars => TypeOK'
<1> SUFFICES ASSUME TypeOK, [Next]_vars PROVE TypeOK'
  OBVIOUS
<1> USE DEF TypeOK
<1>1. ASSUME NEW s \in Specs, EditConfigMap(s)
      PROVE  TypeOK'
  BY <1>1, SpecFields, OvertakenIsTyped DEF EditConfigMap, serving
<1>2. ASSUME NEW q \in Puts, NEW b \in Bodies, PutTeams(q, b)
      PROVE  TypeOK'
  BY <1>2 DEF PutTeams, serving, Steps
<1>3. ASSUME NEW q \in Puts, PutStep(q)
      PROVE  TypeOK'
  <2>1. CASE GetPrevious(q)
    <3>1. MergeSecrets(body[q], configMap) \in Specs
      BY MergeIsSpec
    <3>2. QED
      BY <2>1, <3>1 DEF GetPrevious, serving, ghosts, Steps
  <2>2. CASE ReadExisting(q)
    BY <2>2 DEF ReadExisting, serving, ghosts, Steps
  <2>3. CASE Update(q)
    <3>1. Asked(body[q]) \in [Teams -> URLs \cup {None}]
      BY AskedIsHooks
    <3>2. Overtaken(merged[q]) \in [Puts -> Steps]
      BY OvertakenIsTyped
    <3>3. pc' \in [Puts -> Steps]
      BY <2>3, <3>2 DEF Update, Steps
    <3>4. QED
      BY <2>3, <3>1, <3>3, ForgetIsTyped DEF Update, serving
  <2>4. CASE UpdateUnanswered(q)
    <3>1. Asked(body[q]) \in [Teams -> URLs \cup {None}]
      BY AskedIsHooks
    <3>2. Overtaken(merged[q]) \in [Puts -> Steps]
      BY OvertakenIsTyped
    <3>3. pc' \in [Puts -> Steps]
      BY <2>4, <3>2 DEF UpdateUnanswered, Steps
    <3>4. QED
      BY <2>4, <3>1, <3>3, ForgetIsTyped DEF UpdateUnanswered, serving
  <2>5. CASE PutFails(q)
    BY <2>5, ForgetIsTyped DEF PutFails, serving, ghosts, Steps
  <2>6. CASE ReadMapping(q)
    BY <2>6, SpecFields DEF ReadMapping, serving, Steps
  <2>7. CASE ReadMappingFails(q)
    BY <2>7, ForgetIsTyped DEF ReadMappingFails, serving, Steps
  <2>8. CASE ApplyToServer(q)
    BY <2>8 DEF ApplyToServer, ghosts, Steps, Cached
  <2>9. CASE ApplyToFleet(q)
    BY <2>9, ForgetIsTyped DEF ApplyToFleet, SetTeamOf, serving, ghosts, Steps
  <2>10. QED
    BY <1>3, <2>1, <2>2, <2>3, <2>4, <2>5, <2>6, <2>7, <2>8, <2>9 DEF PutStep
<1>4. CASE StartAnalysis
  BY <1>4 DEF StartAnalysis, put, ghosts, Cached
<1>5. CASE AnalysisSucceeds
  BY <1>5 DEF AnalysisSucceeds, put, ghosts, Cached
<1>6. CASE AnalysisFails
  BY <1>6 DEF AnalysisFails, put, ghosts, Cached
<1>7. ASSUME NEW m \in Mappings, Restart(m)
      PROVE  TypeOK'
  BY <1>7, NoSpecIsSpec DEF Restart, Steps, Cached
<1>8. CASE UNCHANGED vars
  BY <1>8 DEF vars, put, serving, ghosts
<1>9. QED
  BY <1>1, <1>2, <1>3, <1>4, <1>5, <1>6, <1>7, <1>8 DEF Next
-----------------------------------------------------------------------------
\* The mapping a report is being stamped with is the server's as well: nobody
\* else gets s.mu.  With CacheIsCurrent, an inductive invariant.
StampsAreCurrent == \A m \in mu \cup cached : m = serverOpts

\* Every step keeps the stamps current, as only the holder of s.mu sets the
\* server's mapping.
LEMMA StampsAreCurrentStep == StampsAreCurrent /\ [Next]_vars => StampsAreCurrent'
<1> SUFFICES ASSUME StampsAreCurrent, [Next]_vars PROVE StampsAreCurrent'
  OBVIOUS
<1>1. CASE UNCHANGED <<mu, cached, serverOpts>>
  BY <1>1 DEF StampsAreCurrent
<1>2. ASSUME NEW q \in Puts, ApplyToServer(q)
      PROVE  StampsAreCurrent'
  <2>1. mu' = {} /\ cached' = {}
    BY <1>2 DEF ApplyToServer, Unlocked
  <2>2. QED
    BY <2>1 DEF StampsAreCurrent
<1>3. CASE StartAnalysis
  BY <1>3 DEF StartAnalysis, StampsAreCurrent
<1>4. CASE AnalysisSucceeds
  BY <1>4 DEF AnalysisSucceeds, StampsAreCurrent
<1>5. CASE AnalysisFails
  BY <1>5 DEF AnalysisFails, StampsAreCurrent
<1>6. ASSUME NEW s \in Specs, EditConfigMap(s)
      PROVE  UNCHANGED <<mu, cached, serverOpts>>
  BY <1>6 DEF EditConfigMap, serving
<1>7. ASSUME NEW q \in Puts, NEW b \in Bodies, PutTeams(q, b)
      PROVE  UNCHANGED <<mu, cached, serverOpts>>
  BY <1>7 DEF PutTeams, serving
<1>8. ASSUME NEW q \in Puts, PutStep(q), ~ApplyToServer(q)
      PROVE  UNCHANGED <<mu, cached, serverOpts>>
  BY <1>8 DEF PutStep, GetPrevious, ReadExisting, Update, UpdateUnanswered, PutFails,
              ReadMapping, ReadMappingFails, ApplyToFleet, serving
<1>9. ASSUME NEW m \in Mappings, Restart(m)
      PROVE  StampsAreCurrent'
  BY <1>9 DEF Restart, StampsAreCurrent
<1>10. CASE UNCHANGED vars
  BY <1>1, <1>10 DEF vars, serving
<1>11. QED
  BY <1>1, <1>2, <1>3, <1>4, <1>5, <1>6, <1>7, <1>8, <1>9, <1>10 DEF Next
-----------------------------------------------------------------------------
Busy(q) == pc[q] # "idle"

\* A PUT in flight is alone, unless requests have overlapped.
OneAtATime == ~overlapped => \A p, q \in Puts : Busy(p) /\ Busy(q) => p = q

\* Every step keeps the PUTs apart: only PutTeams makes one busy, and it
\* raises overlapped if another is.
LEMMA OneAtATimeStep == TypeOK /\ OneAtATime /\ [Next]_vars => OneAtATime'
<1> SUFFICES ASSUME TypeOK, OneAtATime, [Next]_vars, ~overlapped'
             PROVE  (\A p, q \in Puts : Busy(p) /\ Busy(q) => p = q)'
  BY DEF OneAtATime
<1>1. ASSUME ~overlapped, \A p \in Puts : Busy(p)' => Busy(p)
      PROVE  (\A p, q \in Puts : Busy(p) /\ Busy(q) => p = q)'
  BY <1>1 DEF OneAtATime
<1>2. ASSUME NEW s \in Specs, EditConfigMap(s)
      PROVE  ~overlapped /\ \A p \in Puts : Busy(p)' => Busy(p)
  BY <1>2 DEF EditConfigMap, Overtaken, Busy, TypeOK
<1>3. ASSUME NEW q \in Puts, NEW b \in Bodies, PutTeams(q, b)
      PROVE  (\A p, r \in Puts : Busy(p) /\ Busy(r) => p = r)'
  <2>1. QuietPuts
    BY <1>3 DEF PutTeams
  <2>2. \A p \in Puts \ {q} : ~Busy(p)'
    BY <1>3, <2>1 DEF PutTeams, QuietPuts, Busy, TypeOK
  <2>3. QED
    BY <2>2
<1>4. ASSUME NEW q \in Puts, PutStep(q)
      PROVE  ~overlapped /\ \A p \in Puts : Busy(p)' => Busy(p)
  BY <1>4 DEF PutStep, GetPrevious, ReadExisting, Update, UpdateUnanswered, PutFails,
              ReadMapping, ReadMappingFails, ApplyToServer, ApplyToFleet, ghosts,
              Overtaken, Busy, TypeOK
<1>5. CASE StartAnalysis \/ AnalysisSucceeds \/ AnalysisFails \/ UNCHANGED vars
  BY <1>1, <1>5 DEF StartAnalysis, AnalysisSucceeds, AnalysisFails, vars, put, ghosts, Busy
<1>6. ASSUME NEW m \in Mappings, Restart(m)
      PROVE  (\A p, q \in Puts : Busy(p) /\ Busy(q) => p = q)'
  BY <1>6 DEF Restart, Busy
<1>7. QED
  BY <1>1, <1>2, <1>3, <1>4, <1>5, <1>6 DEF Next
-----------------------------------------------------------------------------
\* How a step of a PUT that is alone looks: every other one is idle, before
\* and after.
LEMMA Alone ==
    ASSUME TypeOK, OneAtATime, ~overlapped, NEW q \in Puts, PutStep(q)
    PROVE  \A p \in Puts \ {q} : pc[p] = "idle" /\ pc'[p] = "idle"
<1>1. Busy(q)
  BY DEF PutStep, GetPrevious, ReadExisting, Update, UpdateUnanswered, PutFails,
         ReadMapping, ReadMappingFails, ApplyToServer, ApplyToFleet, Busy
<1>2. \A p \in Puts \ {q} : pc[p] = "idle"
  BY <1>1 DEF OneAtATime, Busy
<1>3. QED
  BY <1>2 DEF PutStep, GetPrevious, ReadExisting, Update, UpdateUnanswered, PutFails,
              ReadMapping, ReadMappingFails, ApplyToServer, ApplyToFleet, Overtaken,
              TypeOK

\* A request is brought to the server and the fleet in steps.
Installing(q) == pc[q] \in {"refresh", "apply", "fleet"}

Current == serverOpts = configMap.owner /\ fleetOpts = configMap.owner

\* What holds of the mapping in use while a PUT is under way.
MappingIsInstalled ==
    ~overlapped =>
        /\ (\A q \in Puts : ~Installing(q)) /\ ~missed => Current
        /\ \A q \in Puts : pc[q] \in {"apply", "fleet"} => read[q] = configMap.owner
        /\ \A q \in Puts : pc[q] = "fleet" => serverOpts = configMap.owner

\* Every step keeps what is known of the mapping.
LEMMA MappingIsInstalledStep ==
    TypeOK /\ OneAtATime /\ MappingIsInstalled /\ [Next]_vars => MappingIsInstalled'
<1> SUFFICES ASSUME TypeOK, OneAtATime, MappingIsInstalled, [Next]_vars, ~overlapped'
             PROVE  MappingIsInstalled'
  BY DEF MappingIsInstalled
<1>1. ASSUME NEW s \in Specs, EditConfigMap(s)
      PROVE  MappingIsInstalled'
  <2>1. missed' /\ \A p \in Puts : pc'[p] = "idle"
    BY <1>1 DEF EditConfigMap, QuietPuts, Overtaken
  <2>2. QED
    BY <2>1 DEF MappingIsInstalled
<1>2. ASSUME NEW q \in Puts, NEW b \in Bodies, PutTeams(q, b)
      PROVE  MappingIsInstalled'
  <2>1. /\ ~overlapped
        /\ \A p \in Puts : pc[p] = "idle" /\ pc'[p] \in {"idle", "get"}
    BY <1>2 DEF PutTeams, QuietPuts, TypeOK
  <2>2. Current' <=> Current
    BY <1>2 DEF PutTeams, Current
  <2>3. ~missed' => Current'
    BY <1>2, <2>1, <2>2 DEF PutTeams, MappingIsInstalled, Installing
  <2>4. QED
    BY <2>1, <2>3 DEF MappingIsInstalled
<1>3. ASSUME NEW q \in Puts, PutStep(q)
      PROVE  MappingIsInstalled'
  <2>1. ~overlapped
    BY <1>3 DEF PutStep, GetPrevious, ReadExisting, Update, UpdateUnanswered, PutFails,
                ReadMapping, ReadMappingFails, ApplyToServer, ApplyToFleet, ghosts
  <2>2. \A p \in Puts \ {q} : pc[p] = "idle" /\ pc'[p] = "idle"
    BY <1>3, <2>1, Alone
  <2>3. CASE GetPrevious(q) \/ ReadExisting(q) \/ PutFails(q)
    <3>1. ~Installing(q) /\ ~Installing(q)'
      BY <2>3 DEF GetPrevious, ReadExisting, PutFails, Installing, TypeOK
    <3>2. UNCHANGED <<configMap, serverOpts, fleetOpts, missed>>
      BY <2>3 DEF GetPrevious, ReadExisting, PutFails, ghosts
    <3>3. QED
      BY <2>1, <2>2, <3>1, <3>2 DEF MappingIsInstalled, Installing, Current
  <2>4. CASE Update(q)
    <3>1. pc'[q] = "refresh"
      BY <2>4, OvertakenIsTyped DEF Update
    <3>2. QED
      BY <2>2, <3>1 DEF MappingIsInstalled, Installing
  <2>5. CASE UpdateUnanswered(q) \/ ReadMappingFails(q)
    <3>1. missed' /\ pc'[q] = "idle"
      BY <2>5, OvertakenIsTyped DEF UpdateUnanswered, ReadMappingFails, TypeOK
    <3>2. QED
      BY <2>2, <3>1 DEF MappingIsInstalled
  <2>6. CASE ReadMapping(q)
    <3>1. pc'[q] = "apply" /\ read'[q] = configMap'.owner
      BY <2>6 DEF ReadMapping, TypeOK
    <3>2. QED
      BY <2>2, <3>1 DEF MappingIsInstalled, Installing
  <2>7. CASE ApplyToServer(q)
    <3>1. /\ pc'[q] = "fleet"
          /\ read'[q] = configMap'.owner /\ serverOpts' = configMap'.owner
      BY <2>1, <2>7 DEF ApplyToServer, MappingIsInstalled, TypeOK
    <3>2. QED
      BY <2>2, <3>1 DEF MappingIsInstalled, Installing
  <2>8. CASE ApplyToFleet(q)
    <3>1. pc'[q] = "idle" /\ Current'
      BY <2>1, <2>8 DEF ApplyToFleet, SetTeamOf, MappingIsInstalled, Current, TypeOK
    <3>2. QED
      BY <2>2, <3>1 DEF MappingIsInstalled
  <2>9. QED
    BY <1>3, <2>3, <2>4, <2>5, <2>6, <2>7, <2>8 DEF PutStep
<1>4. CASE StartAnalysis \/ AnalysisSucceeds \/ AnalysisFails \/ UNCHANGED vars
  BY <1>4 DEF StartAnalysis, AnalysisSucceeds, AnalysisFails, vars, put, ghosts,
              MappingIsInstalled, Installing, Current
<1>5. ASSUME NEW m \in Mappings, Restart(m)
      PROVE  MappingIsInstalled'
  <2>1. \A p \in Puts : pc'[p] = "idle"
    BY <1>5 DEF Restart
  <2>2. ~missed' => Current'
    BY <1>5 DEF Restart, Current
  <2>3. QED
    BY <2>1, <2>2 DEF MappingIsInstalled
<1>6. QED
  BY <1>1, <1>2, <1>3, <1>4, <1>5 DEF Next
-----------------------------------------------------------------------------
\* What holds of the webhooks while a PUT is under way.
WebhooksAreAsked ==
    ~overlapped =>
        /\ configMap.hook = webhook
        /\ \A q \in Puts : pc[q] \in {"read", "update"} => merged[q].hook = Asked(body[q])

\* Restoring from a spec that has the webhooks asked for gives those asked for.
LEMMA MergeIsAsked ==
    ASSUME NEW b \in Bodies, NEW s \in Specs, s.hook = webhook
    PROVE  MergeSecrets(b, s).hook = Asked(b)
BY DEF MergeSecrets, Asked, Bodies, SpecsWith

\* Every step keeps what is known of the webhooks.
LEMMA WebhooksAreAskedStep ==
    TypeOK /\ OneAtATime /\ WebhooksAreAsked /\ [Next]_vars => WebhooksAreAsked'
<1> SUFFICES ASSUME TypeOK, OneAtATime, WebhooksAreAsked, [Next]_vars, ~overlapped'
             PROVE  WebhooksAreAsked'
  BY DEF WebhooksAreAsked
<1>1. ASSUME NEW s \in Specs, EditConfigMap(s)
      PROVE  WebhooksAreAsked'
  <2>1. configMap'.hook = webhook' /\ \A p \in Puts : pc'[p] = "idle"
    BY <1>1 DEF EditConfigMap, QuietPuts, Overtaken
  <2>2. QED
    BY <2>1 DEF WebhooksAreAsked
<1>2. ASSUME NEW q \in Puts, NEW b \in Bodies, PutTeams(q, b)
      PROVE  WebhooksAreAsked'
  <2>1. \A p \in Puts : pc'[p] \in {"idle", "get"}
    BY <1>2 DEF PutTeams, QuietPuts, TypeOK
  <2>2. configMap'.hook = webhook'
    BY <1>2 DEF PutTeams, WebhooksAreAsked
  <2>3. QED
    BY <2>1, <2>2 DEF WebhooksAreAsked
<1>3. ASSUME NEW q \in Puts, PutStep(q)
      PROVE  WebhooksAreAsked'
  <2>1. ~overlapped
    BY <1>3 DEF PutStep, GetPrevious, ReadExisting, Update, UpdateUnanswered, PutFails,
                ReadMapping, ReadMappingFails, ApplyToServer, ApplyToFleet, ghosts
  <2>2. \A p \in Puts \ {q} : pc[p] = "idle" /\ pc'[p] = "idle"
    BY <1>3, <2>1, Alone
  <2>3. CASE GetPrevious(q)
    <3>1. body[q] \in Bodies /\ configMap \in Specs /\ configMap.hook = webhook
      BY <2>1 DEF TypeOK, WebhooksAreAsked
    <3>2. merged'[q].hook = Asked(body[q])
      BY <2>3, <3>1, MergeIsAsked DEF GetPrevious, TypeOK
    <3>3. Asked(body[q])' = Asked(body[q]) /\ configMap' = configMap /\ webhook' = webhook
      BY <2>3 DEF GetPrevious, ghosts, Asked
    <3>4. QED
      BY <2>2, <3>1, <3>2, <3>3 DEF WebhooksAreAsked
  <2>4. CASE ReadExisting(q)
    <3>1. merged[q].hook = Asked(body[q]) /\ configMap.hook = webhook
      BY <2>1, <2>4 DEF ReadExisting, WebhooksAreAsked
    <3>2. UNCHANGED <<configMap, body, merged, webhook>>
      BY <2>4 DEF ReadExisting, ghosts
    <3>3. QED
      BY <2>2, <3>1, <3>2 DEF WebhooksAreAsked, Asked
  <2>5. CASE Update(q) \/ UpdateUnanswered(q)
    <3>1. configMap'.hook = webhook'
      BY <2>1, <2>5 DEF Update, UpdateUnanswered, WebhooksAreAsked
    <3>2. pc'[q] \in {"refresh", "idle"}
      BY <2>5, OvertakenIsTyped DEF Update, UpdateUnanswered
    <3>3. QED
      BY <2>2, <3>1, <3>2 DEF WebhooksAreAsked
  <2>6. CASE PutFails(q) \/ ReadMapping(q) \/ ReadMappingFails(q) \/ ApplyToServer(q)
             \/ ApplyToFleet(q)
    <3>1. configMap' = configMap /\ webhook' = webhook
      BY <2>6 DEF PutFails, ReadMapping, ReadMappingFails, ApplyToServer, ApplyToFleet, ghosts
    <3>2. pc'[q] \notin {"read", "update"}
      BY <2>6 DEF PutFails, ReadMapping, ReadMappingFails, ApplyToServer, ApplyToFleet, TypeOK
    <3>3. QED
      BY <2>1, <2>2, <3>1, <3>2 DEF WebhooksAreAsked
  <2>7. QED
    BY <1>3, <2>3, <2>4, <2>5, <2>6 DEF PutStep
<1>4. CASE StartAnalysis \/ AnalysisSucceeds \/ AnalysisFails \/ UNCHANGED vars
  BY <1>4 DEF StartAnalysis, AnalysisSucceeds, AnalysisFails, vars, put, ghosts,
              WebhooksAreAsked, Asked
<1>5. ASSUME NEW m \in Mappings, Restart(m)
      PROVE  WebhooksAreAsked'
  <2>1. \A p \in Puts : pc'[p] = "idle"
    BY <1>5 DEF Restart
  <2>2. configMap'.hook = webhook'
    BY <1>5 DEF Restart, WebhooksAreAsked
  <2>3. QED
    BY <2>1, <2>2 DEF WebhooksAreAsked
<1>6. QED
  BY <1>1, <1>2, <1>3, <1>4, <1>5 DEF Next
-----------------------------------------------------------------------------
\* The inductive invariant.
IInv ==
    /\ TypeOK
    /\ StampsAreCurrent
    /\ OneAtATime
    /\ MappingIsInstalled
    /\ WebhooksAreAsked

\* The inductive invariant holds when the hub starts.
LEMMA InitIInv == Init => IInv
<1> SUFFICES ASSUME Init PROVE IInv
  OBVIOUS
<1>1. \A q \in Puts : pc[q] = "idle"
  BY DEF Init
<1>2. StampsAreCurrent
  BY DEF Init, StampsAreCurrent
<1>3. OneAtATime
  BY <1>1 DEF OneAtATime, Busy
<1>4. MappingIsInstalled
  BY <1>1 DEF Init, MappingIsInstalled, Current
<1>5. WebhooksAreAsked
  BY <1>1 DEF Init, WebhooksAreAsked
<1>6. QED
  BY <1>2, <1>3, <1>4, <1>5, InitTypeOK DEF IInv

\* Every step keeps it.
LEMMA IInvStep == IInv /\ [Next]_vars => IInv'
BY TypeOKStep, StampsAreCurrentStep, OneAtATimeStep, MappingIsInstalledStep,
   WebhooksAreAskedStep DEF IInv

\* Hence it holds throughout.
LEMMA Invariance == Spec => []IInv
BY InitIInv, IInvStep, PTL DEF Spec

\* Every variable keeps its type, in every behaviour.
THEOREM TypeCorrect == Spec => []TypeOK
<1>1. IInv => TypeOK
  BY DEF IInv
<1>2. QED
  BY <1>1, Invariance, PTL

\* No cached report carries an older mapping than the server's, however many
\* PUTs and analyses interleave.
THEOREM CachedReportsAreCurrent == Spec => []CacheIsCurrent
<1>1. IInv => CacheIsCurrent
  BY DEF IInv, StampsAreCurrent, CacheIsCurrent
<1>2. QED
  BY <1>1, Invariance, PTL

\* As long as PUTs come one after the other, the stored mapping is in use in
\* the server and the fleet whenever none is under way, unless the hub started
\* with another in its teams file, or a change went past it, and no PUT has come
\* through since.
THEOREM PutsTakeEffect == Spec => []SequentialPutsTakeEffect
<1>1. IInv => SequentialPutsTakeEffect
  BY DEF IInv, MappingIsInstalled, SequentialPutsTakeEffect, MappingIsCurrent, QuietPuts,
         Installing, Current
<1>2. QED
  BY <1>1, Invariance, PTL

\* As long as PUTs come one after the other, no stored webhook is lost or
\* reverted.
THEOREM PutsKeepWebhooks == Spec => []SequentialPutsKeepWebhooks
<1>1. IInv => SequentialPutsKeepWebhooks
  BY DEF IInv, WebhooksAreAsked, SequentialPutsKeepWebhooks
<1>2. QED
  BY <1>1, Invariance, PTL
=============================================================================
