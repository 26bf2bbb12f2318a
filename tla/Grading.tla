------------------------------- MODULE Grading ------------------------------
(* The grading of a blue-team run: a submission at the API, the grader that *)
(* collects evidence question by question (services/grader), the rules that *)
(* turn evidence into points (packages/grading), and the index of the run   *)
(* that evidence is looked up in.                                           *)
EXTENDS TelemetryStore, Integers, Sequences, SequencesExt, FiniteSetsExt

CONSTANTS
    Questions,   \* the questions of the lab in order: [type, points]
    Expected,    \* the events an ELK question asks for
    Merits,      \* what the rubric may find a text worth, in percent
    ElkWait,     \* how long the grader waits for Elasticsearch
    RubricWait,  \* how long it waits for the AI service
    GraderWait,  \* how long the API waits for the grader
    MaxTries     \* bound on submissions

ASSUME KnownQuestions == Questions \in Seq([type : {"elk", "text", "choice"}, points : 1..100])
ASSUME SomeEvents == Expected # {} /\ IsFiniteSet(Expected) /\ Expected \subseteq Events
ASSUME MeritsArePercentages == Merits \subseteq 0..100
ASSUME GradingTimes == {ElkWait, RubricWait, GraderWait, MaxTries} \subseteq Nat \ {0}

VARIABLES
    paper,    \* the submission being graded
    result,   \* the row of challenge_results, or NoResult
    tries

gradingVars == <<paper, result, tries>>

Number == DOMAIN Questions
External(q) == Questions[q].type # "choice"
NoPaper == [answers |-> <<>>, next |-> 0, waited |-> 0, evidence |-> <<>>, lost |-> {}]
NoResult == [answers |-> <<>>, awarded |-> 0, score |-> 0, passed |-> FALSE, lost |-> {}]

\* What an answer can be: event identifiers for ELK, a text of some merit in
\* percent that the rubric tells, or a choice that is right or not.
AnswersTo(q) ==
    CASE Questions[q].type = "elk" -> [events : SUBSET Events, merit : {0}]
      [] Questions[q].type = "text" -> [events : {{}}, merit : Merits]
      [] Questions[q].type = "choice" -> [events : {{}}, merit : {0, 100}]

GradingInit == paper = NoPaper /\ result = NoResult /\ tries = 0

-----------------------------------------------------------------------------
(* The rules.                                                              *)

RoundedShare(part, whole) == (200 * part + whole) \div (2 * whole)
Total(amounts) == FoldFunction(+, 0, amounts)
MaxPoints == Total([q \in Number |-> Questions[q].points])

\* Evidence counts only if it passed; its ratio is a percentage here.
Ratio(evidence) == IF evidence.passed THEN evidence.ratio ELSE 0

PointsFor(q, answer, evidence) ==
    LET ratio == IF External(q) THEN Ratio(evidence) ELSE answer.merit
    IN  (2 * Questions[q].points * ratio + 100) \div 200

GradeRun(answers, evidence) ==
    LET awarded == Total([q \in Number |-> PointsFor(q, answers[q], evidence[q])])
        score == RoundedShare(awarded, MaxPoints)
    IN  [awarded |-> awarded, score |-> score, passed |-> score >= 70]

NoEvidence == [passed |-> FALSE, ratio |-> 0]

\* Evidence identifiers: all that are expected, none that is not, all found.
ElkEvidence(submitted) ==
    LET matched == Expected \cap submitted \cap elastic.events
        exact == matched = Expected /\ submitted = Expected
    IN  IF submitted = {} THEN NoEvidence
        ELSE [passed |-> exact,
              ratio |-> (100 * Cardinality(matched)) \div Cardinality(Expected)]

TextEvidence(merit) == [passed |-> merit > 0, ratio |-> merit]

-----------------------------------------------------------------------------
(* A submission.  The route looks at neither the status of the run nor at   *)
(* its telemetry, and the grader takes the questions one after the other.   *)

Grades == paper.answers # <<>>
NextQuestion(cost, evidence, lost) ==
    paper' = [paper EXCEPT !.next = @ + 1, !.waited = @ + cost,
                           !.evidence = Append(@, evidence), !.lost = @ \cup lost]

HandIn ==
    /\ deploy = "recorded" /\ ~Grades /\ tries < MaxTries /\ tries' = tries + 1
    /\ \E answers \in {f \in [Number -> UNION {AnswersTo(q) : q \in Number}] :
                          \A q \in Number : f[q] \in AnswersTo(q)} :
         paper' = [NoPaper EXCEPT !.answers = answers, !.next = 1]
    /\ UNCHANGED result

AtQuestion(type) ==
    Grades /\ paper.next \in Number /\ Questions[paper.next].type = type

\* An index that is gone answers 404: the question fails like a wrong one.
GradeElk ==
    /\ AtQuestion("elk")
    /\ IF elastic.there
         THEN NextQuestion(0, ElkEvidence(paper.answers[paper.next].events), {})
         ELSE NextQuestion(0, NoEvidence, {paper.next})
    /\ UNCHANGED <<result, tries>>

GradeText ==
    /\ AtQuestion("text")
    /\ NextQuestion(0, TextEvidence(paper.answers[paper.next].merit), {})
    /\ UNCHANGED <<result, tries>>

\* Elasticsearch or the AI service refuses at once or does not answer in time.
Unanswered ==
    /\ \E wait \in BOOLEAN :
         \/ AtQuestion("elk") /\ NextQuestion(IF wait THEN ElkWait ELSE 0, NoEvidence, {paper.next})
         \/ AtQuestion("text") /\ NextQuestion(IF wait THEN RubricWait ELSE 0, NoEvidence, {paper.next})
    /\ UNCHANGED <<result, tries>>

\* Questions that need no evidence are not sent for any.
SkipChoice ==
    AtQuestion("choice") /\ NextQuestion(0, NoEvidence, {}) /\ UNCHANGED <<result, tries>>

\* The API gives up on the grader, whatever the grader still does: 503, and
\* the learner may submit again.
GraderGivesOut ==
    /\ Grades /\ paper' = NoPaper /\ UNCHANGED <<result, tries>>

\* A run has one result; a second one is refused.
Save ==
    /\ Grades /\ paper.next = Len(Questions) + 1 /\ paper.waited < GraderWait
    /\ LET grade == GradeRun(paper.answers, paper.evidence) IN
         result' = IF result # NoResult THEN result
                   ELSE [answers |-> paper.answers, awarded |-> grade.awarded,
                         score |-> grade.score, passed |-> grade.passed,
                         lost |-> paper.lost]
    /\ paper' = NoPaper /\ UNCHANGED tries

GradingNext ==
    \/ UNCHANGED telemetryVars
         /\ (HandIn \/ GradeElk \/ GradeText \/ Unanswered \/ SkipChoice
               \/ GraderGivesOut \/ Save)
    \/ TelemetryNext /\ UNCHANGED gradingVars

GradingSafety ==
    TelemetryInit /\ GradingInit /\ [][GradingNext]_<<telemetryVars, gradingVars>>

-----------------------------------------------------------------------------
GradingTypeOK ==
    /\ tries \in 0..MaxTries
    /\ result.awarded \in 0..MaxPoints /\ result.score \in 0..100
    /\ result.passed \in BOOLEAN /\ result.lost \subseteq Number
    /\ paper.next \in 0..(Len(Questions) + 1) /\ paper.waited \in Nat
    /\ paper.lost \subseteq Number /\ Len(paper.evidence) <= Len(Questions)

\* What an answer is worth to somebody who knows the lab.
Worth(q, answer) ==
    CASE Questions[q].type = "elk" -> IF answer.events = Expected THEN 100 ELSE 0
      [] OTHER -> answer.merit

\* A recorded result gives every answer what it is worth, except those whose
\* upstream service gave no answer while it was graded, or whose index was
\* already taken down, and these are worth nothing: neither a bulk that was
\* partly rejected, nor a provision given up or failed half-way, nor the order
\* of teardown and grading changes the points of any other answer.
RightAnswersCount ==
    result # NoResult =>
      result.awarded =
        Total([q \in Number |->
                 IF q \in result.lost THEN 0
                 ELSE (2 * Questions[q].points * Worth(q, result.answers[q]) + 100) \div 200])
=============================================================================
