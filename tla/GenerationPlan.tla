--------------------------- MODULE GenerationPlan ---------------------------
\* What the model gateway asks of a generated plan and what it makes of it
\* (services/model-gateway/src/service.ts). A plan is what the model answered,
\* any document of that form; a lab is what the gateway sends on. Its structure is
\* kept whole: what is listed, counted, named, told apart and referred to. Of its
\* texts, addresses and sizes only that is kept which tells them apart further
\* down: in which ways they are such that the gateway lets them pass and a later
\* layer does not.
EXTENDS Naturals, Sequences, FiniteSets, Functions, SequencesExt

CONSTANTS
    Rubrics,        \* the rubrics in the operator's catalog
    LongIds         \* the names of 81 to 128 characters

\* null in the documents
Null == <<"null">>
None == "none"

ASSUME NamesAreStrings ==
    Rubrics \subseteq STRING /\ LongIds \subseteq STRING \ {None}

BlueTypes == {"elk_search", "mitre_attack"}
RedTypes == {"single_choice", "multiple_choice", "free_text", "mitre_attack"}
TypesOf(team) == IF team = "blue" THEN BlueTypes ELSE RedTypes
ChoiceTypes == {"single_choice", "multiple_choice"}
Unique(s) == IsInjective(s)
Among(s, set) == Range(s) \subseteq set
Every(s, Test(_)) == \A i \in DOMAIN s : Test(s[i])
Ids(s) == [i \in DOMAIN s |-> s[i].id]

(***************************************************************************)
(* What is asked.  A request names the team, the question types and the    *)
(* CVEs; a catalog the components that may be installed, whether the       *)
(* target is the local simulation runtime, and whether the builder has the *)
(* target's base image and repository on its own lists.                    *)
(***************************************************************************)
RequestForms ==
    [team: {"blue", "red"}, types: SUBSET (BlueTypes \cup RedTypes), cves: SUBSET STRING,
     title: {"plain", "active"}, scope: {"inside", "outside"}]

SoundInput(request, catalog) ==
    /\ request.types # {} /\ request.types \subseteq TypesOf(request.team)
    /\ request.team = "blue" => request.types = BlueTypes
    /\ catalog.simulate => catalog.local

NeedsRubrics(request) == "free_text" \in request.types /\ Rubrics = {}

\* A CVE with nothing to install for it, simulated on the local target.
Simulated(request, catalog) ==
    catalog.simulate /\ request.cves # {} /\ catalog.components = {}

(***************************************************************************)
(* Canonical form: what the gateway mends before it validates.             *)
(***************************************************************************)
\* Ways in which a value passes the gateway's rule for its field, and not the rule
\* of a later layer for the same field. The AI service refuses an answer of more
\* than a million bytes, and texts whose length it counts in another way. The
\* builder refuses active content in a text the gateway reads as a plain one, a
\* package version of more than 80 characters, a destination with ".." in it or
\* without a letter or digit in front, a path with control characters, an address
\* that looks private to it, or that it writes in another way than the catalog, and
\* the reference of a question with a name of one character. They are those of what
\* goes into the lab. (A version has none of the
\* other characters the builder refuses: the catalogs the AI service loads do not.)
ForTheService == {"size", "characters"}
ForTheBuilder == {"active", "token", "destination", "path", "address", "spelling",
                  "reference"}
Oddities == ForTheService \cup ForTheBuilder

\* What has the form of a plan at all: anything else is refused unread.
Lists == {Null} \cup Seq(STRING)
QuestionForms ==
    [id: STRING, type: STRING, options: {Null} \cup Seq([id: STRING]),
     answer: [optionIds: Lists, techniqueIds: Lists, evidenceIds: Lists, rubric: STRING]]
ProbeForms == [id: STRING, path: STRING, statuses: Seq(Nat), cve: STRING, finding: STRING,
               markers: SUBSET STRING]
PlanForms ==
    [sources: Nat, texts: SUBSET Oddities, chain: Seq(STRING), sections: Seq(STRING),
     events: Seq([id: STRING, techniques: Seq(STRING)]), questions: Seq(QuestionForms),
     components: Seq(STRING), functional: Seq(ProbeForms), vulnerable: Seq(ProbeForms)]

NoAnswer == [optionIds |-> Null, techniqueIds |-> Null, evidenceIds |-> Null, rubric |-> None]

Distinct(s) == SetToSeq(Range(s))

CanonicalQuestion(question, techniques) ==
    CASE question.type = "elk_search" /\ question.answer.evidenceIds \notin {Null, <<>>} ->
           [question EXCEPT !.options = Null,
                            !.answer = [NoAnswer EXCEPT !.evidenceIds = question.answer.evidenceIds]]
      [] question.type = "mitre_attack" /\ question.answer.techniqueIds \notin {Null, <<>>} ->
           [question EXCEPT !.options = Null,
                            !.answer = [NoAnswer EXCEPT !.techniqueIds =
               Distinct(SelectSeq(question.answer.techniqueIds, LAMBDA t : t \in techniques))]]
      [] OTHER -> question

\* The probes of a simulated CVE are the gateway's, whatever the model said.
SimulationProbes(cves) ==
    LET listed == SetToSeq(cves) IN
    [functional |-> <<[id |-> "runtime-health", path |-> "/health", statuses |-> <<200>>,
                       cve |-> None, finding |-> None, markers |-> {}]>>,
     vulnerable |-> [i \in DOMAIN listed |->
                      [id |-> "runtime-" \o listed[i], path |-> "/version", statuses |-> <<200>>,
                       cve |-> listed[i], finding |-> None, markers |-> {"http-v1"}]]]

CanonicalPlan(plan, request, catalog) ==
    LET asked == [i \in DOMAIN plan.questions |->
                    CanonicalQuestion(plan.questions[i], Range(plan.chain))]
        probes == SimulationProbes(request.cves)
    IN IF Simulated(request, catalog)
       THEN [plan EXCEPT !.questions = asked, !.functional = probes.functional,
                         !.vulnerable = probes.vulnerable]
       ELSE [plan EXCEPT !.questions = asked]

(***************************************************************************)
(* Validation.                                                             *)
(***************************************************************************)
\* Defect: two sections may have one name.
ScenarioAsListed(plan, team) ==
    /\ plan.sources \in (IF team = "blue" THEN 4 ELSE 1)..20
    /\ Len(plan.chain) \in 1..30 /\ Unique(plan.chain)
    /\ Len(plan.sections) \in (IF team = "blue" THEN 6 ELSE 5)..12
    /\ Range(plan.sections) \cap LongIds = {}

SoundScenario(plan, team) ==
    /\ plan.sources \in (IF team = "blue" THEN 4 ELSE 1)..20
    /\ Len(plan.chain) \in 1..30 /\ Unique(plan.chain)
    /\ Len(plan.sections) \in (IF team = "blue" THEN 6 ELSE 5)..12
    /\ Unique(plan.sections) /\ Range(plan.sections) \cap LongIds = {}

SoundEvents(plan, team) ==
    /\ Len(plan.events) \in (IF team = "blue" THEN 1..100 ELSE {0})
    /\ Unique(Ids(plan.events))
    /\ Every(plan.events, LAMBDA e : Unique(e.techniques) /\ Len(e.techniques) \in 1..20
                                     /\ Among(e.techniques, Range(plan.chain)))

\* A list that is given names something, each thing once, and not too much.
AtMost == [optionIds |-> 8, techniqueIds |-> 20, evidenceIds |-> 100]
SoundList(list, most) == list = Null \/ (Len(list) \in 1..most /\ Unique(list))

\* Defect: the evidence an answer names need not be among the events.
AnswerOfAnyEvidence(question, techniques, evidence) ==
    LET answer == question.answer
        \* The answer gives this and nothing else.
        Only(field) == \A other \in DOMAIN NoAnswer : answer[other] # NoAnswer[other] <=> other = field
    IN CASE question.type \in ChoiceTypes ->
              /\ Only("optionIds") /\ Among(answer.optionIds, Range(Ids(question.options)))
              /\ question.type = "single_choice" => Len(answer.optionIds) = 1
         [] question.type = "mitre_attack" ->
              Only("techniqueIds") /\ Among(answer.techniqueIds, techniques)
         [] question.type = "elk_search" -> Only("evidenceIds")
         [] OTHER -> Only("rubric") /\ answer.rubric \in Rubrics

SoundAnswer(question, techniques, evidence) ==
    LET answer == question.answer
        \* The answer gives this and nothing else.
        Only(field) == \A other \in DOMAIN NoAnswer : answer[other] # NoAnswer[other] <=> other = field
    IN CASE question.type \in ChoiceTypes ->
              /\ Only("optionIds") /\ Among(answer.optionIds, Range(Ids(question.options)))
              /\ question.type = "single_choice" => Len(answer.optionIds) = 1
         [] question.type = "mitre_attack" ->
              Only("techniqueIds") /\ Among(answer.techniqueIds, techniques)
         [] question.type = "elk_search" ->
              Only("evidenceIds") /\ Among(answer.evidenceIds, evidence)
         [] OTHER -> Only("rubric") /\ answer.rubric \in Rubrics

SoundQuestion(question, types, techniques, evidence) ==
    /\ question.type \in types
    /\ \A field \in DOMAIN AtMost : SoundList(question.answer[field], AtMost[field])
    /\ IF question.type \in ChoiceTypes THEN question.options # Null /\ Len(question.options) \in 2..8
       ELSE question.options = Null
    /\ SoundAnswer(question, techniques, evidence)

TypesAsked(questions) == {questions[i].type : i \in DOMAIN questions}
AskedOf(questions, type) == {i \in DOMAIN questions : questions[i].type = type}

SoundQuestions(plan, request) ==
    LET questions == plan.questions
        techniques == Range(plan.chain)
        evidence == Range(Ids(plan.events))
    IN /\ Len(questions) \in (IF request.team = "blue" THEN 6
                              ELSE Cardinality(request.types))..20
       /\ Every(questions, LAMBDA q : SoundQuestion(q, request.types, techniques, evidence))
       /\ Unique(Ids(questions))
       /\ TypesAsked(questions) = request.types
       /\ request.team = "blue" =>
            \A type \in BlueTypes : Cardinality(AskedOf(questions, type)) >= 3

\* A vulnerability probe names a CVE or a finding, and looks for it in the
\* answer unless the CVE is simulated.
SoundProbe(probe, vulnerable, declared) ==
    /\ probe.id \notin LongIds
    /\ Len(probe.statuses) \in 1..8
    /\ vulnerable => /\ probe.cve # None \/ probe.finding # None
                     /\ declared => {probe.cve, probe.finding} \ {None} \subseteq probe.markers

SoundTarget(plan, request, catalog) ==
    LET named == {plan.vulnerable[i].cve : i \in DOMAIN plan.vulnerable} \ {None}
        findings == {plan.vulnerable[i].finding : i \in DOMAIN plan.vulnerable} \ {None}
    IN /\ Len(plan.components) \in 0..20
       /\ Among(plan.components, catalog.components) /\ Unique(plan.components)
       /\ request.cves # {} /\ plan.components = <<>> => catalog.simulate
       /\ Len(plan.functional) \in 1..20 /\ Len(plan.vulnerable) \in 1..20
       /\ Every(plan.functional, LAMBDA p : SoundProbe(p, FALSE, FALSE))
       /\ Every(plan.vulnerable, LAMBDA p : SoundProbe(p, TRUE, ~Simulated(request, catalog)))
       /\ \E i \in DOMAIN plan.functional : plan.functional[i].path = "/health"
       /\ \E i \in DOMAIN plan.vulnerable : plan.vulnerable[i].path = "/version"
       /\ named = request.cves
       /\ request.cves = {} => findings # {}

SoundPlan(plan, request, catalog) ==
    /\ SoundScenario(plan, request.team)
    /\ SoundEvents(plan, request.team)
    /\ SoundQuestions(plan, request)
    /\ SoundTarget(plan, request, catalog)

(***************************************************************************)
(* The lab of a plan: every part of it that the learner, the grader and    *)
(* the builder are to see is written out once for each of them.            *)
(***************************************************************************)
Public(questions) ==
    [i \in DOMAIN questions |-> [id |-> questions[i].id, type |-> questions[i].type,
                                 options |-> questions[i].options]]
Hidden(questions) ==
    [i \in DOMAIN questions |-> [id |-> questions[i].id, type |-> questions[i].type,
                                 answer |-> questions[i].answer]]
Stamped(events, stamp) ==
    [i \in DOMAIN events |-> [id |-> events[i].id, techniques |-> events[i].techniques,
                              stamp |-> stamp]]
Topology(team, events) == [team |-> team, events |-> events]

AssembledLab(plan, request) ==
    LET events == Stamped(plan.events, "Z")
        public == Public(plan.questions)
    IN [team |-> request.team, types |-> request.types, scope |-> request.scope,
        title |-> request.title, texts |-> plan.texts, sources |-> plan.sources,
        chain |-> plan.chain, sections |-> plan.sections, public |-> public, grading |-> Hidden(plan.questions),
        topology |-> Topology(request.team, events),
        spec |-> [team |-> request.team, cves |-> request.cves, prompt |-> request.scope,
                  chain |-> plan.chain, title |-> request.title, texts |-> plan.texts,
                  sections |-> plan.sections,
                  public |-> public, refs |-> Ids(public), events |-> events,
                  topology |-> Topology(request.team, events), components |-> plan.components,
                  functional |-> plan.functional, vulnerable |-> plan.vulnerable]]
=============================================================================
