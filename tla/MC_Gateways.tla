----------------------------- MODULE MC_Gateways ----------------------------
\* Parts of the platform that do not meet: the sweep of overdue runs, the
\* desktop gateway, the grading of a run, the standings, and the making of labs.
EXTENDS RunLifecycle, DesktopSession, Grading, Standings, Generation
CONSTANTS r1, u1, k1, h1, s1, s2, b1, b2, ann, bea, cas, org
VARIABLE part

MC_Questions == <<[type |-> "elk", points |-> 10], [type |-> "text", points |-> 15],
                  [type |-> "choice", points |-> 5], [type |-> "text", points |-> 11]>>
MC_Learners == <<ann, bea, cas>>
MC_Orgs == <<org>>
MC_InOrg == [u \in {ann, bea, cas} |-> IF u = cas THEN Nobody ELSE org]
MC_Season == [start |-> 2, end |-> 4]
MC_Works ==
    {[points |-> 70, skill |-> "web_exploitation", level |-> "intermediate", used |-> 3, hints |-> 6],
     [points |-> 100, skill |-> SkillFor.single_choice, level |-> "beginner", used |-> 1, hints |-> 0]}

\* What may be asked of the generation: both teams, each question type, a
\* prompt or a title the platform objects to, and a lab with or without a CVE.
RedAsk == [team |-> "red", types |-> {"single_choice", "free_text"}, cves |-> {},
           title |-> "plain", scope |-> "inside"]
MC_Requests ==
    {RedAsk, [RedAsk EXCEPT !.cves = {"CVE-1", "CVE-2"}],
     [RedAsk EXCEPT !.title = "active", !.types = {"single_choice", "mitre_attack"}],
     [RedAsk EXCEPT !.scope = "outside"],
     [RedAsk EXCEPT !.team = "blue", !.types = {"elk_search", "mitre_attack"}]}
MC_Catalogs ==
    {[components |-> {"nginx", "long"}, local |-> FALSE, simulate |-> FALSE,
      listed |-> TRUE],
     [components |-> {}, local |-> FALSE, simulate |-> FALSE, listed |-> FALSE],
     [components |-> {}, local |-> TRUE, simulate |-> TRUE, listed |-> TRUE]}

\* A plan as it should be, and what may be wrong with each part of one.
Posed(id, type) ==
    CASE type = "elk_search" -> DraftQuestion(id, type, "evidenceIds", <<"e1", "e2">>)
      [] type = "mitre_attack" -> DraftQuestion(id, type, "techniqueIds", <<"T1">>)
      [] type = "free_text" -> DraftQuestion(id, type, "rubric", "rubric")
      [] OTHER -> [DraftQuestion(id, type, "optionIds", <<"a">>)
                     EXCEPT !.options = <<[id |-> "a"], [id |-> "b"]>>]
Alternate(ids, one, other) ==
    [i \in DOMAIN ids |-> Posed(ids[i], IF i % 2 = 1 THEN one ELSE other)]
GoodQuestions(request) ==
    IF request.team = "blue"
    THEN Alternate(<<"q1", "q2", "q3", "q4", "q5", "q6">>, "elk_search", "mitre_attack")
    ELSE Alternate(<<"q1", "q2", "q3", "q4">>, "single_choice",
                   CHOOSE type \in request.types : type # "single_choice")
Looks(id, path, cve) ==
    [id |-> id, path |-> path, statuses |-> <<200>>, cve |-> cve,
     finding |-> IF cve = None THEN "finding" ELSE None,
     markers |-> {IF cve = None THEN "finding" ELSE cve}]
Event(id, technique) == [id |-> id, techniques |-> <<technique>>]
GoodPlan(request, catalog) ==
    [sources |-> 4, texts |-> {}, chain |-> <<"T1", "T2">>,
     sections |-> <<"s1", "s2", "s3", "s4", "s5", "s6">>,
     events |-> IF request.team = "blue" THEN <<Event("e1", "T1"), Event("e2", "T2")>> ELSE <<>>,
     questions |-> GoodQuestions(request),
     components |-> IF request.cves = {} \/ catalog.components = {} THEN <<>> ELSE <<"nginx">>,
     functional |-> <<Looks("f1", "/health", None)>>,
     vulnerable |-> IF request.cves = {} THEN <<Looks("v1", "/version", None)>>
                    ELSE <<Looks("v1", "/version", "CVE-1"), Looks("v2", "/version", "CVE-2")>>]
Wrong(good) ==
    LET q == good.questions  f == good.functional[1]  v == good.vulnerable[1] IN
    [sources |-> {1},
     texts |-> {{"size"}, {"characters", "active"}, {"token", "reference"},
                {"destination", "path", "address"}, {"spelling"}},
     chain |-> {<<>>, <<"T1", "T1">>},
     sections |-> {<<"s1", "s2", "s3", "s4">>, <<"s1", "s1", "s2", "s3", "s4", "s5">>,
                   <<"long", "s2", "s3", "s4", "s5", "s6">>},
     events |-> {<<>>, <<Event("e1", "T1"), Event("e1", "T1")>>, <<Event("e1", "T9"), Event("e2", "T1")>>},
     questions |-> {Tail(q), SubSeq(q, 1, 2), [q EXCEPT ![1].id = q[2].id],
                    [q EXCEPT ![1].id = "long"],
                    [q EXCEPT ![1] = Posed("q1", "multiple_choice")],
                    [q EXCEPT ![1].answer.evidenceIds = <<"e9">>],
                    [q EXCEPT ![2].answer.techniqueIds = <<"T9">>],
                    [q EXCEPT ![1].options = <<[id |-> "a"], [id |-> "a"]>>],
                    [q EXCEPT ![1].answer.optionIds = <<"a", "b">>]},
     components |-> {<<"other">>, <<>>, <<"long">>, <<"nginx", "nginx">>},
     functional |-> {<<>>, <<[f EXCEPT !.path = "/"]>>, <<f, f>>,
                     <<[f EXCEPT !.statuses = <<200, 200>>]>>},
     vulnerable |-> {<<>>, <<v, v>>, <<[v EXCEPT !.cve = None, !.finding = None]>>,
                     <<[v EXCEPT !.id = "long"]>>, <<[v EXCEPT !.markers = {}]>>}]
MC_Plans(request, catalog) ==
    LET good == GoodPlan(request, catalog)
        wrong == Wrong(good)
    IN {good} \cup UNION {{[good EXCEPT ![field] = value, ![other] = also] :
                             value \in wrong[field], also \in wrong[other] \cup {good[other]}} :
                          <<field, other>> \in (DOMAIN wrong) \X (DOMAIN wrong)}

GatewaysInit == /\ part \in {"sweep", "desktop", "grading", "standings", "generation"}
                /\ Init /\ DesktopInit /\ TelemetryInit /\ GradingInit /\ StandingsInit
                /\ GenerationInit
GatewaysNext ==
    /\ UNCHANGED part
    /\ \/ /\ part = "sweep" /\ Next
          /\ UNCHANGED <<desktopVars, telemetryVars, gradingVars, standingsVars, generationVars>>
       \/ /\ part = "desktop" /\ DesktopNext
          /\ UNCHANGED <<vars, telemetryVars, gradingVars, standingsVars, generationVars>>
       \/ /\ part = "grading" /\ GradingNext
          /\ UNCHANGED <<vars, desktopVars, standingsVars, generationVars>>
       \/ /\ part = "standings" /\ StandingsNext
          /\ UNCHANGED <<vars, desktopVars, telemetryVars, gradingVars, generationVars>>
       \/ /\ part = "generation" /\ GenerationNext
          /\ UNCHANGED <<vars, desktopVars, telemetryVars, gradingVars, standingsVars>>
GatewaysSpec ==
    /\ GatewaysInit /\ [][GatewaysNext]_<<part, vars, desktopVars, telemetryVars,
                                           gradingVars, standingsVars, generationVars>>
    /\ Progress /\ DatabaseAnswers
=============================================================================
