---------------------------- MODULE LabDocument -----------------------------
\* The checks a generated lab meets on its way from the gateway to the
\* builder: the AI service's contract (services/ai/app/content_contract.py,
\* build_catalog.py, domain.py), the API's (services/api/src/ai.ts) and the
\* builder's (services/builder/src/validation.ts, catalog.ts); and the lab the
\* AI service writes itself in development (domain.py). Each layer was written
\* on its own, in its own language, and reads the same document again.
EXTENDS GenerationPlan

(***************************************************************************)
(* The AI service: the mandatory checks of a draft, its content, its build *)
(* specification, and what it may install.                                 *)
(***************************************************************************)
DraftPasses(lab) ==
    /\ IF lab.team = "blue" THEN lab.types = BlueTypes
       ELSE lab.types # {} /\ lab.types \subseteq RedTypes
    /\ lab.team = "blue" => lab.sources >= 4
    /\ lab.scope = "inside"
    /\ lab.topology.team = lab.team

Fits(id) == id \notin LongIds

ContentQuestion(question, types) ==
    /\ Fits(question.id) /\ question.type \in types
    /\ question.type \in ChoiceTypes =>
         /\ Len(question.options) \in 2..8
         /\ Unique(Ids(question.options))
         /\ Every(Ids(question.options), Fits)

\* The answer can be given: it is among the options, the techniques or the
\* events the learner is shown.
AnswerKeyHolds(grade, public, techniques, evidence) ==
    LET answer == grade.answer IN
    CASE grade.type \in ChoiceTypes ->
           LET options == Range(Ids(public.options)) IN
           /\ Len(answer.optionIds) \in 1..Cardinality(options)
           /\ Among(answer.optionIds, options)
           /\ grade.type = "single_choice" => Len(answer.optionIds) = 1
      [] grade.type = "mitre_attack" ->
           Len(answer.techniqueIds) \in 1..20 /\ Among(answer.techniqueIds, techniques)
      [] grade.type = "elk_search" ->
           Len(answer.evidenceIds) \in 1..100 /\ Among(answer.evidenceIds, evidence)
      [] OTHER -> Fits(answer.rubric)

TelemetryHolds(lab) ==
    lab.team = "blue" => Len(lab.spec.events) \in 1..100 /\ Unique(Ids(lab.spec.events))

TopologyHolds(lab) ==
    /\ lab.topology = lab.spec.topology /\ lab.topology.team = lab.team
    /\ IF lab.team = "blue" THEN lab.topology.events = lab.spec.events
       ELSE lab.topology.events = <<>>

ContentProbe(probe) == Fits(probe.id) /\ Len(probe.statuses) \in 1..8

\* The build specification repeats the lab for the builder.
BuildSpecHolds(lab, request) ==
    LET spec == lab.spec IN
    /\ spec.team = request.team /\ TopologyHolds(lab) /\ spec.prompt = request.scope
    /\ Len(spec.components) \in 0..100 /\ Every(spec.components, Fits)
    /\ Len(spec.functional) \in 1..20 /\ Len(spec.vulnerable) \in 1..20
    /\ Every(spec.functional, ContentProbe) /\ Every(spec.vulnerable, ContentProbe)
    /\ Every(spec.vulnerable, LAMBDA p : p.cve # None \/ p.finding # None)
    /\ spec.title = lab.title /\ spec.texts = lab.texts
    /\ spec.sections = lab.sections /\ spec.public = lab.public
    /\ spec.chain = lab.chain
    /\ Len(spec.refs) = Len(lab.public) /\ Range(spec.refs) = Range(Ids(lab.public))

ContentHolds(lab, request) ==
    /\ "characters" \notin lab.texts
    /\ Len(lab.sections) \in (IF request.team = "blue" THEN 6 ELSE 5)..12
    /\ Every(lab.sections, Fits)
    /\ Len(lab.public) \in (IF request.team = "blue" \/ Cardinality(request.types) < 4
                            THEN (IF request.team = "blue" THEN 6 ELSE 4)
                            ELSE Cardinality(request.types))..20
    /\ Len(lab.grading) = Len(lab.public) /\ Len(lab.chain) \in 1..50
    /\ Unique(Ids(lab.public))
    /\ Every(lab.public, LAMBDA q : ContentQuestion(q, request.types))
    /\ TypesAsked(lab.public) = request.types
    /\ request.team = "blue" =>
         \A type \in BlueTypes : Cardinality(AskedOf(lab.public, type)) >= 3
    /\ TelemetryHolds(lab)
    /\ \A i \in DOMAIN lab.grading : \E j \in DOMAIN lab.public :
         /\ lab.public[j].id = lab.grading[i].id /\ lab.public[j].type = lab.grading[i].type
         /\ AnswerKeyHolds(lab.grading[i], lab.public[j], Range(lab.chain), Range(Ids(lab.spec.events)))
    /\ Range(Ids(lab.grading)) = Range(Ids(lab.public))
    /\ BuildSpecHolds(lab, request)

ProbesTheContract(lab) ==
    /\ \E i \in DOMAIN lab.spec.functional : lab.spec.functional[i].path = "/health"
    /\ \E i \in DOMAIN lab.spec.vulnerable : lab.spec.vulnerable[i].path = "/version"

CatalogHolds(lab, request, catalog) ==
    /\ ProbesTheContract(lab)
    /\ Among(lab.spec.components, catalog.components) /\ Unique(lab.spec.components)
    /\ lab.spec.cves = request.cves
    /\ request.cves # {} /\ lab.spec.components = <<>> => catalog.simulate

\* What the AI service makes of the gateway's answer.
ProviderVerdict(lab, request, catalog) ==
    IF "size" \in lab.texts THEN "too_large"
    ELSE IF lab.team # request.team \/ lab.types # request.types THEN "changed"
    ELSE IF ~DraftPasses(lab) THEN "quarantined"
    ELSE IF ~ContentHolds(lab, request) THEN "content"
    ELSE IF ~CatalogHolds(lab, request, catalog) THEN "catalog"
    ELSE "lab"

(***************************************************************************)
(* The API.                                                                *)
(***************************************************************************)
ApiQuestions(lab, request) ==
    /\ Len(lab.public) \in Cardinality(request.types)..20 /\ Len(lab.grading) = Len(lab.public)
    /\ Unique(Ids(lab.public)) /\ Unique(Ids(lab.grading))
    /\ TypesAsked(lab.public) = request.types
    /\ Every(lab.public, LAMBDA q : q.type \in ChoiceTypes => Len(q.options) \in 2..8)
    /\ \A i \in DOMAIN lab.grading : \E j \in DOMAIN lab.public :
         lab.public[j].id = lab.grading[i].id /\ lab.public[j].type = lab.grading[i].type

ApiLearning(lab) == Len(lab.sections) \in 2..12 /\ Every(lab.sections, Fits)

ApiBuildSpec(lab, request) ==
    LET spec == lab.spec IN
    /\ spec.team = request.team
    /\ spec.title = lab.title /\ spec.texts = lab.texts
    /\ spec.sections = lab.sections /\ spec.public = lab.public
    /\ spec.chain = lab.chain
    /\ Len(spec.refs) = Len(lab.public) /\ Range(spec.refs) = Range(Ids(lab.public))
    /\ spec.functional # <<>> /\ spec.vulnerable # <<>>

ApiTopology(lab, request) ==
    /\ lab.topology.team = request.team
    /\ lab.topology.events = (IF request.team = "blue" THEN lab.spec.events ELSE <<>>)

ApiAccepts(lab, request) ==
    /\ lab.team = request.team /\ lab.types = request.types
    /\ request.team = "blue" => lab.sources >= 4
    /\ lab.chain # <<>>
    /\ ApiLearning(lab) /\ ApiQuestions(lab, request)
    /\ ApiBuildSpec(lab, request) /\ ApiTopology(lab, request)

(***************************************************************************)
(* The builder.                                                            *)
(***************************************************************************)
BuilderProbes(probes) ==
    /\ Len(probes) \in 1..20 /\ Unique(Ids(probes)) /\ Every(Ids(probes), Fits)
    /\ Every(probes, LAMBDA p : Len(p.statuses) \in 1..8 /\ Unique(p.statuses))

BuilderTarget(spec) ==
    /\ Len(spec.components) \in 0..20 /\ Unique(spec.components)
    /\ Every(spec.components, Fits)
    /\ spec.texts \cap {"token", "destination", "path", "address"} = {}
    /\ spec.cves # {} => spec.components # <<>>
    /\ BuilderProbes(spec.functional) /\ BuilderProbes(spec.vulnerable)
    /\ Every(spec.vulnerable, LAMBDA p : p.cve # None \/ p.finding # None)
    /\ \A cve \in spec.cves : \E i \in DOMAIN spec.vulnerable : spec.vulnerable[i].cve = cve

BuilderEvents(spec) ==
    IF spec.team = "blue"
    THEN /\ Len(spec.events) \in 1..100 /\ Unique(Ids(spec.events))
         /\ Every(spec.events, LAMBDA e : e.stamp = "Z")
    ELSE spec.events = <<>>

BuilderTopology(spec) == spec.topology = Topology(spec.team, spec.events)

BuilderQuestion(question, team) ==
    /\ question.type \in TypesOf(team)
    /\ question.type \in ChoiceTypes <=> question.options # Null
    /\ question.type \in ChoiceTypes =>
         Len(question.options) \in 2..12 /\ Unique(Ids(question.options))

SpecParses(spec) ==
    /\ Len(spec.chain) \in 1..30 /\ Unique(spec.chain)
    /\ BuilderTarget(spec) /\ BuilderEvents(spec) /\ BuilderTopology(spec)
    /\ spec.title = "plain" /\ spec.texts \cap {"active", "reference"} = {}
    /\ Len(spec.sections) \in 1..30 /\ Unique(spec.sections)
    /\ Len(spec.public) \in 1..20 /\ Unique(Ids(spec.public))
    /\ Every(spec.public, LAMBDA q : BuilderQuestion(q, spec.team))
    /\ spec.team = "blue" => BlueTypes \subseteq TypesAsked(spec.public)
    /\ Len(spec.refs) = Len(spec.public) /\ Unique(spec.refs)
    /\ Among(spec.refs, Range(Ids(spec.public)))

\* The builder's own allow lists: the base image and the repository the AI
\* service writes into every lab, and the components, an address of which it looks
\* up as it has written it anew (validation.ts:563-576), not as it was given.
ComponentsResolve(spec, catalog) ==
    /\ catalog.listed /\ "spelling" \notin spec.texts
    /\ spec.cves # {} => spec.components # <<>>
    /\ Among(spec.components, catalog.components)

\* The builder of a development deployment takes any specification whose
\* target is the runtime's (services/api/src/environment-builder.ts).
BuildVerdict(lab, catalog, builder) ==
    IF builder = "development" THEN "built"
    ELSE IF ~SpecParses(lab.spec) THEN "unreadable"
    ELSE IF ~ComponentsResolve(lab.spec, catalog) THEN "denied"
    ELSE "built"

(***************************************************************************)
(* The lab of a development deployment, which no model writes.             *)
(***************************************************************************)
BlueChain(profile) ==
    IF profile = "powershell" THEN <<"T1190", "T1059.001", "T1005", "T1560.001", "T1041">>
    ELSE <<"T1190", "T1059.004", "T1083", "T1071.001">>
RedChain == <<"T1595.002", "T1046", "T1190", "T1059.004">>

DraftSections(team) ==
    IF team = "blue"
    THEN <<"threat-context", "evidence-model", "investigation-workflow", "elk-kql-guidance",
           "mitre-context", "response-remediation">>
    ELSE <<"threat-context", "attack-workflow", "defender-visibility", "mitre-context",
           "remediation">>

\* Six signals, each of one step of the chain.
SignalEvents(chain, profile) ==
    LET step == IF profile = "powershell" THEN <<1, 2, 2, 3, 4, 5>> ELSE <<1, 2, 2, 3, 4, 4>>
        names == <<"entry", "start", "followup", "one", "two", "three">>
    IN [i \in 1..6 |-> [id |-> names[i], techniques |-> <<chain[step[i]]>>]]

DraftQuestion(id, type, field, value) ==
    [id |-> id, type |-> type, options |-> Null, answer |-> [NoAnswer EXCEPT ![field] = value]]

BlueQuestions(chain, events) ==
    LET ids == Ids(events) IN
    <<DraftQuestion("elk-entry", "elk_search", "evidenceIds", SubSeq(ids, 1, 2)),
      DraftQuestion("elk-execution", "elk_search", "evidenceIds", SubSeq(ids, 2, 3)),
      DraftQuestion("elk-impact", "elk_search", "evidenceIds", SubSeq(ids, 4, 6)),
      DraftQuestion("mitre-entry", "mitre_attack", "techniqueIds", <<chain[1]>>),
      DraftQuestion("mitre-execution", "mitre_attack", "techniqueIds", <<chain[2]>>),
      DraftQuestion("mitre-chain", "mitre_attack", "techniqueIds", SubSeq(chain, 1, 3))>>

\* Every type asked for in turn, four questions at least.
RedQuestions(types, chain) ==
    LET asked == SetToSeq(types)
        size == IF Len(asked) < 4 THEN 4 ELSE Len(asked)
        offered == [i \in 1..4 |-> [id |-> <<"a", "b", "c", "d">>[i]]]
        Question(i) ==
            LET type == asked[((i - 1) % Len(asked)) + 1]
                id == <<"red-q1", "red-q2", "red-q3", "red-q4">>[i]
            IN CASE type = "single_choice" ->
                      [DraftQuestion(id, type, "optionIds", <<"a">>) EXCEPT !.options = offered]
                 [] type = "multiple_choice" ->
                      [DraftQuestion(id, type, "optionIds", <<"a", "b", "c">>)
                          EXCEPT !.options = offered]
                 [] type = "mitre_attack" ->
                      DraftQuestion(id, type, "techniqueIds", <<chain[1]>>)
                 [] OTHER -> DraftQuestion(id, type, "rubric", id \o "-analysis-v2")
    IN [i \in 1..size |-> Question(i)]

DraftProbes(cves) ==
    LET listed == SetToSeq(cves)
        Probe(id, path, cve, finding, marker) ==
            [id |-> id, path |-> path, statuses |-> <<200>>, cve |-> cve, finding |-> finding,
             markers |-> {marker}]
    IN [functional |-> <<Probe("target-health", "/health", None, None, "ready")>>,
        vulnerable |-> IF cves = {}
            THEN <<Probe("fingerprint", "/version", None, "fingerprint", "vulnerable")>>
            ELSE [i \in DOMAIN listed |->
                    Probe("fingerprint-" \o listed[i], "/version", listed[i], None, listed[i])]]

\* The service names its own parts in a few words.
ASSUME OwnNamesAreShort ==
    LongIds \cap ({"target-health", "fingerprint"}
                  \cup Range(DraftSections("blue")) \cup Range(DraftSections("red"))) = {}

\* Its first section quotes the prompt as it was written, active content and all.
DraftTexts == SUBSET {"active"}

DraftPlan(request, profile, texts) ==
    LET blue == request.team = "blue"
        chain == IF blue THEN BlueChain(profile) ELSE RedChain
        signals == IF blue THEN SignalEvents(chain, profile) ELSE <<>>
        probes == DraftProbes(request.cves)
    IN [sources |-> 5, texts |-> texts, chain |-> chain, events |-> signals,
        sections |-> DraftSections(request.team), components |-> <<>>,
        questions |-> IF blue THEN BlueQuestions(chain, signals)
                      ELSE RedQuestions(request.types, chain),
        functional |-> probes.functional, vulnerable |-> probes.vulnerable]

\* Its events carry the clock of the service, with an offset for a zone.
GeneratedDraft(request, profile, texts) ==
    LET plan == DraftPlan(request, profile, texts)
        lab == AssembledLab(plan, request)
        stamped == Stamped(plan.events, "offset")
        topology == Topology(request.team, stamped)
    IN [lab EXCEPT !.topology = topology, !.spec.events = stamped, !.spec.topology = topology]
=============================================================================
