----------------------------- MODULE Generation -----------------------------
\* The making of a lab: the API asks the AI service, which looks the CVEs up
\* and asks the model gateway, which asks the model; the answer comes back up
\* through the checks of each, is stored as a draft, and its specification is
\* handed to the builder. Every layer waits under a limit of its own.
EXTENDS LabDocument

CONSTANTS
    Requests, Catalogs, \* what may be asked, and what may be installed for it
    Plans(_, _),        \* the plans the model may answer a request with
    LookupsAtOnce,      \* CVEs looked up at a time
    GatewayLimit,       \* how long the gateway waits for the model,
    AiLimit,            \* the AI service for the gateway,
    ApiLimit,           \* and the API for the AI service
    MaxAttempts,        \* times the gateway asks for a plan it can read
    Nothing

ASSUME LimitsArePositive ==
    {LookupsAtOnce, GatewayLimit, AiLimit, ApiLimit, MaxAttempts} \subseteq Nat \ {0}

\* The gateway gives up before the AI service does, and before the API does
\* even after all the look-ups a request may need.
ASSUME WaitsNest ==
    /\ GatewayLimit < AiLimit /\ GatewayLimit < ApiLimit
    /\ \A request \in Requests :
         Cardinality(request.cves) \in 0..(LookupsAtOnce * (ApiLimit - GatewayLimit - 1))

\* Finitely many CVEs are named, and what the model answers can be read.
ASSUME RequestsAreRequests ==
    Requests \subseteq RequestForms /\ \A request \in Requests : IsFiniteSet(request.cves)
ASSUME PlansArePlans ==
    \A request \in Requests, catalog \in Catalogs : Plans(request, catalog) \subseteq PlanForms

VARIABLES
    ask,        \* the request under way
    api, ai, gw,    \* what each layer is doing
    lookups,    \* CVEs still to look up
    attempt,    \* the gateway's attempt
    clock,      \* time since the request came
    aiDue, gwDue,   \* when the AI service and the gateway stop waiting
    sent,       \* the layer whose answer is on its way up,
    reply,      \* what it says
    lab,        \* and the lab, if it says one
    refusedBy,  \* the layer that refused a lab the gateway had let through
    verdict     \* what the builder made of the stored lab

timing == <<lookups, attempt, clock, aiDue, gwDue>>
generationVars == <<ask, api, ai, gw, timing, sent, reply, lab, refusedBy, verdict>>

Modes == {"external", "dev"}
Builders == {"service", "development"}
Asks == [request: Requests, catalog: Catalogs, mode: Modes, builder: Builders]

ASSUME NothingIsNothing == Nothing \notin Asks \cup {"gateway", "ai"}

GenerationTypeOK ==
    /\ ask \in Asks \cup {Nothing}
    /\ api \in {"idle", "waiting", "checking", "stored", "refused"}
    /\ ai \in {"idle", "looking", "waiting"} /\ gw \in {"idle", "working", "hung"}
    /\ lookups \in Nat /\ attempt \in 0..MaxAttempts
    /\ clock \in Nat /\ aiDue \in Nat /\ gwDue \in Nat
    /\ sent \in {Nothing, "gateway", "ai"}
    /\ refusedBy \in {Nothing, "ai", "api", "check"}
    /\ verdict \in {Nothing, "built", "unreadable", "denied"}

GenerationInit ==
    /\ ask = Nothing /\ api = "idle" /\ ai = "idle" /\ gw = "idle"
    /\ lookups = 0 /\ attempt = 0 /\ clock = 0 /\ aiDue = 0 /\ gwDue = 0
    /\ sent = Nothing /\ reply = Nothing /\ lab = Nothing
    /\ refusedBy = Nothing /\ verdict = Nothing

HandsUp(layer, what) == sent' = layer /\ reply' = what

\* The API passes the request on and waits.
Ask(new) ==
    /\ ask = Nothing /\ SoundInput(new.request, new.catalog)
    /\ ask' = new /\ api' = "waiting" /\ ai' = "looking"
    /\ lookups' = (IF new.mode = "dev" THEN 0 ELSE Cardinality(new.request.cves))
    /\ UNCHANGED <<gw, attempt, clock, aiDue, gwDue, sent, reply, lab, refusedBy, verdict>>

(***************************************************************************)
(* The AI service.                                                         *)
(***************************************************************************)
DraftLocally(profile, texts) ==
    /\ ai = "looking" /\ ask.mode = "dev"
    /\ lab' = GeneratedDraft(ask.request, profile, texts)
    /\ HandsUp("ai", "lab") /\ ai' = "idle"
    /\ UNCHANGED <<ask, api, gw, timing, refusedBy, verdict>>

\* A CVE with nothing to install for it is refused unless it may be simulated.
NothingToInstall ==
    ask.request.cves # {} /\ ask.catalog.components = {} /\ ~ask.catalog.simulate

RefuseRequest ==
    /\ ai = "looking" /\ ask.mode = "external" /\ NothingToInstall
    /\ HandsUp("ai", "catalog_empty") /\ ai' = "idle"
    /\ UNCHANGED <<ask, api, gw, timing, lab, refusedBy, verdict>>

\* A group of look-ups takes a unit of time at most, counted from the last one.
LookUp ==
    /\ ai = "looking" /\ lookups > 0 /\ ~NothingToInstall
    /\ lookups' = (IF lookups > LookupsAtOnce THEN lookups - LookupsAtOnce ELSE 0)
    /\ aiDue' = clock + 1
    /\ UNCHANGED <<ask, api, ai, gw, attempt, clock, gwDue, sent, reply, lab, refusedBy, verdict>>

LookUpFails ==
    /\ ai = "looking" /\ lookups > 0 /\ ~NothingToInstall
    /\ HandsUp("ai", "cve_lookup") /\ ai' = "idle"
    /\ UNCHANGED <<ask, api, gw, timing, lab, refusedBy, verdict>>

CallsGateway == ai = "looking" /\ ask.mode = "external" /\ lookups = 0 /\ ~NothingToInstall

CallGateway ==
    /\ CallsGateway /\ ~NeedsRubrics(ask.request)
    /\ ai' = "waiting" /\ aiDue' = clock + AiLimit
    /\ gw' = "working" /\ gwDue' = clock + GatewayLimit /\ attempt' = 1
    /\ UNCHANGED <<ask, api, lookups, clock, sent, reply, lab, refusedBy, verdict>>

\* The gateway serves so many requests at a time, and grades free text only
\* with the operator's rubrics.
GatewayTurnsAway ==
    /\ CallsGateway
    /\ HandsUp("ai", IF NeedsRubrics(ask.request) THEN "rubric_catalog" ELSE "busy")
    /\ ai' = "idle"
    /\ UNCHANGED <<ask, api, gw, timing, lab, refusedBy, verdict>>

(***************************************************************************)
(* The gateway.  All its attempts share one limit.                         *)
(***************************************************************************)
ProviderAnswers(plan) ==
    /\ gw = "working" /\ gw' = "idle"
    /\ LET canonical == CanonicalPlan(plan, ask.request, ask.catalog) IN
       IF SoundPlan(canonical, ask.request, ask.catalog)
       THEN lab' = AssembledLab(canonical, ask.request) /\ HandsUp("gateway", "lab")
       ELSE lab' = lab /\ HandsUp("gateway", "plan")
    /\ UNCHANGED <<ask, api, ai, timing, refusedBy, verdict>>

\* Defect: every attempt has the whole limit to itself.
MalformedAnew ==
    /\ gw = "working"
    /\ IF attempt < MaxAttempts
       THEN /\ attempt' = attempt + 1 /\ gwDue' = clock + GatewayLimit
            /\ UNCHANGED <<gw, sent, reply>>
       ELSE gw' = "idle" /\ HandsUp("gateway", "malformed") /\ UNCHANGED <<attempt, gwDue>>
    /\ UNCHANGED <<ask, api, ai, lookups, clock, aiDue, lab, refusedBy, verdict>>

ProviderMalformed ==
    /\ gw = "working"
    /\ IF attempt < MaxAttempts
       THEN attempt' = attempt + 1 /\ UNCHANGED <<gw, gwDue, sent, reply>>
       ELSE gw' = "idle" /\ HandsUp("gateway", "malformed") /\ UNCHANGED <<attempt, gwDue>>
    /\ UNCHANGED <<ask, api, ai, lookups, clock, aiDue, lab, refusedBy, verdict>>

GatewayFails(what) ==
    /\ gw = "working" /\ gw' = "idle" /\ HandsUp("gateway", what)
    /\ UNCHANGED <<ask, api, ai, timing, lab, refusedBy, verdict>>
ProviderFails == GatewayFails("provider")
GatewayTimesOut == clock = gwDue /\ GatewayFails("timeout")

\* The gateway's host is lost, and with it the answer.
GatewayHangs ==
    /\ gw = "working" /\ gw' = "hung"
    /\ UNCHANGED <<ask, api, ai, timing, sent, reply, lab, refusedBy, verdict>>

(***************************************************************************)
(* The answer on its way up.                                               *)
(***************************************************************************)
AiReceives ==
    /\ sent = "gateway" /\ ai = "waiting" /\ ai' = "idle"
    /\ LET judged == IF reply = "lab" THEN ProviderVerdict(lab, ask.request, ask.catalog)
                     ELSE reply
       IN /\ HandsUp("ai", judged)
          /\ refusedBy' = (IF reply = "lab" /\ judged # "lab" THEN "ai" ELSE refusedBy)
    /\ UNCHANGED <<ask, api, gw, timing, lab, verdict>>

AiGivesUp ==
    /\ ai = "waiting" /\ clock = aiDue /\ sent = Nothing
    /\ HandsUp("ai", "timeout") /\ ai' = "idle"
    /\ UNCHANGED <<ask, api, gw, timing, lab, refusedBy, verdict>>

\* The API has given up: the answer is dropped.
Dropped ==
    /\ sent = "ai" /\ api # "waiting"
    /\ sent' = Nothing /\ reply' = Nothing
    /\ UNCHANGED <<ask, api, ai, gw, timing, lab, refusedBy, verdict>>

ApiReceives ==
    /\ sent = "ai" /\ api = "waiting" /\ sent' = Nothing
    /\ CASE reply # "lab" -> api' = "refused" /\ UNCHANGED refusedBy
         [] reply = "lab" /\ ~ApiAccepts(lab, ask.request) ->
              api' = "refused" /\ refusedBy' = "api"
         [] OTHER -> api' = "checking" /\ UNCHANGED refusedBy
    /\ UNCHANGED <<ask, ai, gw, timing, reply, lab, verdict>>

ApiGivesUp ==
    /\ api = "waiting" /\ clock = ApiLimit /\ sent # "ai" /\ api' = "refused"
    /\ UNCHANGED <<ask, ai, gw, timing, sent, reply, lab, refusedBy, verdict>>

\* The AI service is asked once more for its deterministic checks.
CheckAnswers ==
    /\ api = "checking"
    /\ IF DraftPasses(lab) THEN api' = "stored" /\ UNCHANGED refusedBy
       ELSE api' = "refused" /\ refusedBy' = "check"
    /\ UNCHANGED <<ask, ai, gw, timing, sent, reply, lab, verdict>>

CheckFails ==
    /\ api = "checking" /\ api' = "refused"
    /\ UNCHANGED <<ask, ai, gw, timing, sent, reply, lab, refusedBy, verdict>>

\* The stored specification goes to whichever builder is configured.
SubmitBuild ==
    /\ api = "stored" /\ verdict = Nothing
    /\ verdict' = BuildVerdict(lab, ask.catalog, ask.builder)
    /\ UNCHANGED <<ask, api, ai, gw, timing, sent, reply, lab, refusedBy>>

Forget ==
    /\ api = "refused" \/ verdict # Nothing
    /\ ai = "idle" /\ gw # "working" /\ sent = Nothing
    /\ ask' = Nothing /\ api' = "idle" /\ gw' = "idle" /\ ai' = "idle"
    /\ lookups' = 0 /\ attempt' = 0 /\ clock' = 0 /\ aiDue' = 0 /\ gwDue' = 0
    /\ sent' = Nothing /\ reply' = Nothing /\ lab' = Nothing
    /\ refusedBy' = Nothing /\ verdict' = Nothing

\* Time passes for those who wait: never past a limit, nor while an answer is
\* on its way. A look-up wave that began at aiDue - 1 is over at aiDue.
TimePasses ==
    /\ sent = Nothing /\ ask # Nothing
    /\ ai # "idle" \/ gw = "working"
    /\ api = "waiting" => clock < ApiLimit
    /\ ai = "looking" => lookups > 0 /\ clock < (IF aiDue = 0 THEN 1 ELSE aiDue)
    /\ ai = "waiting" => clock < aiDue
    /\ gw = "working" => clock < gwDue
    /\ clock' = clock + 1
    /\ UNCHANGED <<ask, api, ai, gw, lookups, attempt, aiDue, gwDue, sent, reply, lab,
                   refusedBy, verdict>>

GenerationNext ==
    \/ \E new \in Asks : Ask(new)
    \/ \E profile \in {"powershell", "other"}, texts \in DraftTexts : DraftLocally(profile, texts)
    \/ RefuseRequest \/ LookUp \/ LookUpFails \/ CallGateway \/ GatewayTurnsAway
    \/ gw = "working" /\ \E plan \in Plans(ask.request, ask.catalog) : ProviderAnswers(plan)
    \/ ProviderMalformed \/ ProviderFails \/ GatewayTimesOut \/ GatewayHangs
    \/ AiReceives \/ AiGivesUp \/ ApiReceives \/ ApiGivesUp \/ Dropped
    \/ CheckAnswers \/ CheckFails \/ SubmitBuild \/ Forget \/ TimePasses

GenerationSafety == GenerationInit /\ [][GenerationNext]_generationVars

(***************************************************************************)
(* Properties.                                                             *)
(***************************************************************************)
\* No layer gives up on work that is going on below it: while the gateway is
\* still within its limit, the AI service and the API are waiting for it, the
\* look-ups and the repeated attempts included (docs/claude-local-desktop.md:
\* 44; model-gateway/src/anthropic.ts:90, ai/app/generation.py, api/src/ai.ts).
WorkIsAwaited == gw = "working" => ai = "waiting" /\ api = "waiting"

\* What only the AI service asks of a lab, after the model has been paid for:
\* four questions of a red lab, options told apart, names of 80 characters at
\* most, a prompt inside the range, and texts and a size that suit it too.
OptionsCollide(question) ==
    question.options # Null /\ ~Unique(Ids(question.options))
NamesTooLong(document) ==
    LET options == {document.public[i].options : i \in DOMAIN document.public} \ {Null}
        told == UNION ({{option[j].id : j \in DOMAIN option} : option \in options}
                       \cup {{document.public[i].id, document.grading[i].answer.rubric}
                                : i \in DOMAIN document.public})
    IN (told \cup Range(document.spec.components)) \cap LongIds # {}
OnlyTheServiceRefuses(document) ==
    \/ document.team = "red" /\ Len(document.public) < 4
    \/ \E i \in DOMAIN document.public : OptionsCollide(document.public[i])
    \/ NamesTooLong(document)
    \/ document.scope = "outside"
    \/ document.texts \cap ForTheService # {}

\* A lab the gateway lets through is refused on its way to the API for those
\* reasons and no other: in what a lab lists, counts, names and refers to, neither
\* the AI service nor the API finds fault with anything else the gateway was to
\* check. Of texts and sizes the named ways are the ones there are by definition
\* (services/ai/app/content_contract.py:111, services/ai/app/generation.py:356,
\* services/api/src/ai.ts:475).
LateRefusalsAreKnown ==
    /\ refusedBy \in {Nothing, "ai", "check"}
    /\ ask # Nothing /\ lab # Nothing /\ ask.mode = "external" =>
         /\ refusedBy = "ai" => OnlyTheServiceRefuses(lab)
         /\ api \in {"checking", "stored"} => ~OnlyTheServiceRefuses(lab)

\* What only the builder asks of a specification, after the lab is stored: probes
\* and statuses told apart, a component for every CVE, UTC stamps, texts and
\* addresses that suit it too, and a target on its allow lists.
OnlyTheBuilderRefuses(spec, catalog) ==
    \/ \E probes \in {spec.functional, spec.vulnerable} :
         ~Unique(Ids(probes)) \/ \E i \in DOMAIN probes : ~Unique(probes[i].statuses)
    \/ spec.cves # {} /\ spec.components = <<>>
    \/ \E i \in DOMAIN spec.events : spec.events[i].stamp # "Z"
    \/ spec.title = "active" \/ spec.texts \cap ForTheBuilder # {}
    \/ ~catalog.listed

\* A stored lab is refused by the build service for those reasons and no other,
\* so that a lab free of them can be built: what the AI service and the API have
\* let through is, but for the named ways, what the builder reads
\* (services/builder/src/validation.ts:43, services/builder/src/catalog.ts:38).
StoredIsBuildable ==
    verdict # Nothing =>
      (verdict = "built" <=>
         ask.builder = "development" \/ ~OnlyTheBuilderRefuses(lab.spec, ask.catalog))

\* The four sets of checks, each written on its own, differ exactly so: no list,
\* count, name, reference, answer or copy that one layer lets through is refused
\* further down for another reason than the ones above; of a text, an address or
\* a size it is for one of the ways in which the layers' rules are known to
\* differ (ForTheService, ForTheBuilder).
RefusalsAreKnown == LateRefusalsAreKnown /\ StoredIsBuildable
=============================================================================
