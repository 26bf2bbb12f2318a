-------------------------- MODULE Generation_proofs --------------------------
(***************************************************************************)
(* Proofs about the making of a lab.  No layer gives up on work that goes  *)
(* on below it; and whatever the model answers, what one layer lets        *)
(* through is refused further down for the known reasons only.  For any    *)
(* requests, catalogs, plans, rubrics, and limits that nest.               *)
(***************************************************************************)
EXTENDS Generation, Integers, FiniteSetTheorems, SequenceTheorems, TLAPS

-----------------------------------------------------------------------------
(* The inductive invariant.                                                *)

\* The time the look-ups of a request may take at most.
Spare == ApiLimit - GatewayLimit - 1

\* When the group of look-ups under way began.
Began == IF aiDue = 0 THEN 0 ELSE aiDue - 1

Clocked == clock \in Nat /\ aiDue \in Nat /\ gwDue \in Nat /\ lookups \in Nat

\* Before a request, nothing is going on.
Quiet ==
    ask = Nothing => /\ api = "idle" /\ ai = "idle" /\ gw # "working"
                     /\ sent = Nothing /\ clock = 0 /\ aiDue = 0

\* The look-ups that are left fit into the time that is left for them.
Looking ==
    ai = "looking" =>
        /\ api = "waiting" /\ gw # "working" /\ sent = Nothing
        /\ Began <= Spare
        /\ lookups <= LookupsAtOnce * (Spare - Began)
        /\ clock <= Began + 1
        /\ lookups = 0 => clock <= Began

\* The gateway's limit is the first of the three.
Working ==
    gw = "working" =>
        /\ ai = "waiting" /\ api = "waiting" /\ sent = Nothing
        /\ clock <= gwDue /\ gwDue < aiDue /\ gwDue < ApiLimit

GenerationInv == Clocked /\ Quiet /\ Looking /\ Working

-----------------------------------------------------------------------------
(* Arithmetic.                                                             *)

LEMMA Limits ==
    /\ LookupsAtOnce \in Nat \ {0} /\ GatewayLimit \in Nat \ {0}
    /\ AiLimit \in Nat \ {0} /\ ApiLimit \in Nat \ {0}
    /\ Spare \in Nat /\ GatewayLimit < AiLimit /\ Spare + GatewayLimit < ApiLimit
BY LimitsArePositive, WaitsNest DEF Spare

\* While something is left to look up, a unit of time is.
LEMMA RoomForAGroup ==
    ASSUME NEW n \in Nat \ {0}, NEW left \in Int, NEW more \in Nat,
           more > 0, more <= n * left
    PROVE  left >= 1
<1>1. SUFFICES ASSUME left <= 0 PROVE FALSE
  BY SMT
<1>2. n * left <= 0
  BY <1>1, SMT
<1> QED BY <1>2, SMT

\* A group takes its share of what is left with it.
LEMMA GroupTakesItsShare ==
    ASSUME NEW n \in Nat \ {0}, NEW left \in Int, NEW now \in Int, NEW more \in Nat,
           more <= n * left, now >= left - 1, now >= 0
    PROVE  (IF more > n THEN more - n ELSE 0) <= n * now
<1>1. n * now >= n * (left - 1)
  BY SMT
<1>2. n * (left - 1) = n * left - n
  BY SMT
<1>3. n * now >= 0
  BY SMT
<1> QED BY <1>1, <1>2, <1>3, SMT

-----------------------------------------------------------------------------
(* One lemma per layer.                                                    *)

LEMMA InitIsQuiet == GenerationInit => GenerationInv
BY Limits DEF GenerationInit, GenerationInv, Clocked, Quiet, Looking, Working

LEMMA AskStep ==
    ASSUME GenerationInv, NEW new \in Asks, Ask(new)
    PROVE  GenerationInv'
<1>1. /\ ask' # Nothing /\ ai' = "looking" /\ api' = "waiting"
      /\ gw' # "working" /\ sent' = Nothing /\ clock' = 0 /\ aiDue' = 0
  BY NothingIsNothing DEF Ask, GenerationInv, Quiet
<1>2. lookups' \in 0..(LookupsAtOnce * Spare)
  <2>1. new.request \in Requests
    BY DEF Asks
  <2>2. Cardinality(new.request.cves) \in 0..(LookupsAtOnce * Spare)
    BY <2>1, WaitsNest DEF Spare
  <2>3. LookupsAtOnce * Spare >= 0
    BY Limits, SMT
  <2> QED BY <2>2, <2>3, Limits DEF Ask
<1>3. Began' = 0 /\ Spare - 0 = Spare
  BY <1>1, Limits DEF Began
<1>4. Looking'
  BY <1>1, <1>2, <1>3, Limits DEF Looking, Spare
<1>5. Clocked'
  BY <1>1, <1>2, Limits DEF Clocked, GenerationInv, Ask
<1> QED BY <1>1, <1>4, <1>5 DEF GenerationInv, Quiet, Working

LEMMA LookUpStep ==
    ASSUME GenerationInv, LookUp
    PROVE  GenerationInv'
<1> DEFINE left == Spare - Began
<1>1. /\ clock \in Nat /\ aiDue \in Nat /\ lookups \in Nat /\ lookups > 0
      /\ Began <= Spare /\ lookups <= LookupsAtOnce * left /\ clock <= Began + 1
      /\ api = "waiting" /\ gw # "working" /\ sent = Nothing
  BY DEF GenerationInv, Clocked, Looking, LookUp
<1>2. left \in Int /\ Began \in Nat
  BY <1>1, Limits DEF Began
<1>3. left >= 1
  <2> HIDE DEF left
  <2> QED BY <1>1, <1>2, RoomForAGroup, Limits
<1>4. Spare - clock \in Int /\ Spare - clock >= left - 1 /\ Spare - clock >= 0
  BY <1>1, <1>2, <1>3, Limits
<1>5. lookups' <= LookupsAtOnce * (Spare - clock)
  <2>1. lookups' = (IF lookups > LookupsAtOnce THEN lookups - LookupsAtOnce ELSE 0)
    BY DEF LookUp
  <2> HIDE DEF left
  <2> QED BY <1>1, <1>2, <1>4, <2>1, GroupTakesItsShare, Limits
<1>6. /\ aiDue' = clock + 1 /\ clock' = clock /\ gwDue' = gwDue /\ lookups' \in Nat
      /\ ai' = ai /\ api' = api /\ gw' = gw /\ sent' = sent /\ ask' = ask
  BY <1>1, Limits DEF LookUp
<1>7. Began' = clock
  BY <1>1, <1>6 DEF Began
<1>8. Looking'
  BY <1>1, <1>4, <1>5, <1>6, <1>7, Limits DEF Looking, Spare
<1>9. ask # Nothing
  BY DEF GenerationInv, Quiet, LookUp
<1> QED BY <1>1, <1>6, <1>8, <1>9 DEF GenerationInv, Clocked, Quiet, Working

\* The call is made with all its limits ahead.
LEMMA CallGatewayStep ==
    ASSUME GenerationInv, CallGateway
    PROVE  GenerationInv'
<1>1. /\ clock \in Nat /\ clock <= Spare
      /\ api = "waiting" /\ sent = Nothing /\ ask # Nothing
  BY Limits DEF GenerationInv, Clocked, Quiet, Looking, CallGateway, CallsGateway, Began
<1>2. /\ ai' = "waiting" /\ gw' = "working" /\ api' = api /\ sent' = sent
      /\ ask' = ask /\ clock' = clock /\ lookups' = lookups
      /\ aiDue' = clock + AiLimit /\ gwDue' = clock + GatewayLimit
  BY DEF CallGateway
<1>3. Clocked'
  BY <1>1, <1>2, Limits DEF GenerationInv, Clocked
<1>4. Working'
  BY <1>1, <1>2, Limits DEF Working
<1> QED BY <1>1, <1>2, <1>3, <1>4 DEF GenerationInv, Quiet, Looking

\* The other steps of the AI service hand an answer up and stop.
LEMMA AiStep ==
    ASSUME GenerationInv,
           \/ \E profile \in {"powershell", "other"}, texts \in DraftTexts :
                DraftLocally(profile, texts)
           \/ RefuseRequest \/ LookUpFails \/ GatewayTurnsAway
           \/ AiReceives \/ AiGivesUp
    PROVE  GenerationInv'
<1>1. /\ ai' = "idle" /\ gw' = gw /\ api' = api /\ ask' = ask
      /\ UNCHANGED timing
  BY DEF DraftLocally, RefuseRequest, LookUpFails, GatewayTurnsAway, AiReceives,
         AiGivesUp
<1>2. gw # "working"
  <2>1. CASE ai = "looking"
    BY <2>1 DEF GenerationInv, Looking
  <2>2. CASE AiReceives
    BY <2>2, NothingIsNothing DEF GenerationInv, Working, AiReceives
  <2>3. CASE AiGivesUp
    BY <2>3, Limits DEF GenerationInv, Clocked, Working, AiGivesUp
  <2> QED BY <2>1, <2>2, <2>3
          DEF DraftLocally, RefuseRequest, LookUpFails, GatewayTurnsAway, CallsGateway
<1>3. ask # Nothing
  BY DEF GenerationInv, Quiet, DraftLocally, RefuseRequest, LookUpFails, GatewayTurnsAway,
         CallsGateway, AiReceives, AiGivesUp
<1> QED BY <1>1, <1>2, <1>3 DEF GenerationInv, Clocked, Quiet, Looking, Working, timing

\* A step of the gateway repeats its attempt under the same limit, or ends.
LEMMA GatewayStep ==
    ASSUME GenerationInv,
           \/ \E plan : ProviderAnswers(plan)
           \/ ProviderMalformed \/ ProviderFails \/ GatewayTimesOut \/ GatewayHangs
    PROVE  GenerationInv'
<1>1. /\ gw = "working" /\ ai' = ai /\ api' = api /\ ask' = ask
      /\ clock' = clock /\ aiDue' = aiDue /\ gwDue' = gwDue /\ lookups' = lookups
      /\ gw' # "working" \/ (gw' = gw /\ sent' = sent)
  BY DEF ProviderAnswers, ProviderMalformed, ProviderFails, GatewayTimesOut,
         GatewayFails, GatewayHangs, timing
<1>2. ask # Nothing /\ ai = "waiting"
  BY <1>1 DEF GenerationInv, Quiet, Working
<1> QED BY <1>1, <1>2 DEF GenerationInv, Clocked, Quiet, Looking, Working

\* The API stops waiting only for an answer, or when its own limit is reached.
LEMMA ApiStep ==
    ASSUME GenerationInv,
           \/ ApiReceives \/ ApiGivesUp \/ Dropped
           \/ CheckAnswers \/ CheckFails \/ SubmitBuild
    PROVE  GenerationInv'
<1>1. /\ ai' = ai /\ gw' = gw /\ ask' = ask /\ UNCHANGED timing
  BY DEF ApiReceives, ApiGivesUp, Dropped, CheckAnswers, CheckFails, SubmitBuild
<1>2. ask # Nothing \/ UNCHANGED <<api, sent>>
  BY NothingIsNothing
     DEF GenerationInv, Quiet, ApiReceives, ApiGivesUp, Dropped, CheckAnswers, CheckFails,
         SubmitBuild
<1>3. gw # "working" \/ UNCHANGED <<api, sent>>
  BY NothingIsNothing, Limits
     DEF GenerationInv, Clocked, Working, ApiReceives, ApiGivesUp, Dropped, CheckAnswers,
         CheckFails, SubmitBuild
<1>4. ai # "looking" \/ UNCHANGED <<api, sent>>
  <2>1. ASSUME ai = "looking", ApiGivesUp PROVE FALSE
    <3>1. clock = ApiLimit /\ lookups \in Nat /\ clock <= Began + 1 /\ Began <= Spare
      BY <2>1 DEF GenerationInv, Clocked, Looking, ApiGivesUp
    <3> QED BY <3>1, Limits DEF Began, GenerationInv, Clocked
  <2> QED BY <2>1, NothingIsNothing
          DEF GenerationInv, Looking, ApiReceives, Dropped, CheckAnswers, CheckFails,
              SubmitBuild
<1> QED BY <1>1, <1>2, <1>3, <1>4
        DEF GenerationInv, Clocked, Quiet, Looking, Working, timing, Began

LEMMA ForgetStep == ASSUME GenerationInv, Forget PROVE GenerationInv'
BY DEF GenerationInv, Clocked, Quiet, Looking, Working, Forget

\* Time passes within every limit that is being waited for.
LEMMA TimeStep ==
    ASSUME GenerationInv, TimePasses
    PROVE  GenerationInv'
<1>1. /\ clock' = clock + 1 /\ clock \in Nat /\ aiDue \in Nat /\ gwDue \in Nat
      /\ UNCHANGED <<ask, api, ai, gw, lookups, aiDue, gwDue, sent>>
      /\ ask # Nothing
  BY DEF TimePasses, GenerationInv, Clocked
<1>2. Working'
  BY <1>1, Limits DEF TimePasses, GenerationInv, Working
<1>3. Looking'
  <2>1. ai = "looking" => clock < Began + 1 /\ lookups > 0
    BY <1>1 DEF TimePasses, Began
  <2>2. Began' = Began /\ Began \in Nat
    BY <1>1 DEF Began
  <2> QED BY <1>1, <2>1, <2>2, Limits DEF GenerationInv, Clocked, Looking, Spare
<1> QED BY <1>1, <1>2, <1>3 DEF GenerationInv, Clocked, Quiet

-----------------------------------------------------------------------------
LEMMA GenerationInductive == GenerationInv /\ [GenerationNext]_generationVars => GenerationInv'
<1> SUFFICES ASSUME GenerationInv, [GenerationNext]_generationVars PROVE GenerationInv'
  OBVIOUS
<1>1. CASE UNCHANGED generationVars
  BY <1>1 DEF generationVars, timing, GenerationInv, Clocked, Quiet, Looking, Working, Began
<1>2. CASE GenerationNext
  BY <1>2, AskStep, LookUpStep, CallGatewayStep, AiStep, GatewayStep, ApiStep,
     ForgetStep, TimeStep
     DEF GenerationNext
<1> QED BY <1>1, <1>2

\* WorkIsAwaited for every request, catalog and answer of the model, and for
\* all limits that nest: while the gateway works within its limit, the AI
\* service and the API are waiting for it (generation.py, ai.ts).
THEOREM LayersWaitLongEnough == GenerationSafety => []WorkIsAwaited
<1>1. GenerationInv => WorkIsAwaited
  BY DEF GenerationInv, Working, WorkIsAwaited
<1> QED BY <1>1, InitIsQuiet, GenerationInductive, PTL DEF GenerationSafety

-----------------------------------------------------------------------------
(* Lists.                                                                  *)

LEMMA LongAs ==
    ASSUME NEW n \in Nat, NEW s, DOMAIN s = 1..n, s = [i \in DOMAIN s |-> s[i]]
    PROVE  s \in Seq(Range(s)) /\ Len(s) = n
<1>1. s \in [1..n -> Range(s)]
  BY DEF Range
<1>2. s \in Seq(Range(s))
  BY <1>1, SeqDef
<1> QED BY <1>2, LenProperties, SMT

\* What is written out of a list is as long as the list.
LEMMA WrittenOut ==
    ASSUME NEW S, NEW s \in Seq(S), NEW stamp
    PROVE  /\ Len(s) \in Nat /\ DOMAIN s = 1..Len(s)
           /\ DOMAIN Ids(s) = 1..Len(s) /\ Len(Ids(s)) = Len(s)
           /\ DOMAIN Public(s) = 1..Len(s) /\ Len(Public(s)) = Len(s)
           /\ DOMAIN Hidden(s) = 1..Len(s) /\ Len(Hidden(s)) = Len(s)
           /\ DOMAIN Stamped(s, stamp) = 1..Len(s) /\ Len(Stamped(s, stamp)) = Len(s)
<1>1. Len(s) \in Nat /\ DOMAIN s = 1..Len(s)
  BY LenProperties
<1>2. /\ DOMAIN Ids(s) = 1..Len(s) /\ DOMAIN Public(s) = 1..Len(s)
      /\ DOMAIN Hidden(s) = 1..Len(s) /\ DOMAIN Stamped(s, stamp) = 1..Len(s)
  BY <1>1 DEF Ids, Public, Hidden, Stamped
<1>3. Len(Ids(s)) = Len(s)
  <2>1. Ids(s) = [i \in DOMAIN Ids(s) |-> Ids(s)[i]]
    BY DEF Ids
  <2> QED BY <1>1, <1>2, <2>1, LongAs
<1>4. Len(Public(s)) = Len(s)
  <2>1. Public(s) = [i \in DOMAIN Public(s) |-> Public(s)[i]]
    BY DEF Public
  <2> QED BY <1>1, <1>2, <2>1, LongAs
<1>5. Len(Hidden(s)) = Len(s)
  <2>1. Hidden(s) = [i \in DOMAIN Hidden(s) |-> Hidden(s)[i]]
    BY DEF Hidden
  <2> QED BY <1>1, <1>2, <2>1, LongAs
<1>6. Len(Stamped(s, stamp)) = Len(s)
  <2>1. Stamped(s, stamp) = [i \in DOMAIN Stamped(s, stamp) |-> Stamped(s, stamp)[i]]
    BY DEF Stamped
  <2> QED BY <1>1, <1>2, <2>1, LongAs
<1> QED BY <1>1, <1>2, <1>3, <1>4, <1>5, <1>6

LEMMA FinitelyMany ==
    ASSUME NEW n \in Nat, NEW s, DOMAIN s = 1..n, s = [i \in DOMAIN s |-> s[i]]
    PROVE  IsFiniteSet(Range(s))
<1>1. s \in Surjection(1..n, Range(s))
  BY DEF Surjection, Range
<1> QED BY <1>1, FS_Interval, FS_Surjection

\* Whoever names members of a finite set, each of them once, names no more than
\* there are.
LEMMA NoMoreThanThereAre ==
    ASSUME NEW S, NEW s \in Seq(S), NEW T, IsFiniteSet(T), Unique(s), Among(s, T)
    PROVE  Len(s) <= Cardinality(T)
<1>1. Len(s) \in Nat /\ DOMAIN s = 1..Len(s) /\ s \in [1..Len(s) -> S]
  BY LenProperties
<1>2. s \in Injection(1..Len(s), T)
  BY <1>1 DEF Unique, Among, Injection, IsInjective, Range
<1>3. Cardinality(1..Len(s)) = Len(s)
  BY <1>1, FS_Interval
<1>4. Cardinality(1..Len(s)) <= Cardinality(T)
  BY <1>2, FS_Injection
<1> QED BY <1>3, <1>4

-----------------------------------------------------------------------------
(* What the gateway's canonical form keeps of the form of a plan.          *)
Formed(plan) ==
    /\ \E S : plan.questions \in Seq(S)
    /\ \E S : plan.events \in Seq(S)
    /\ \A i \in DOMAIN plan.questions :
         plan.questions[i].type \in ChoiceTypes =>
           /\ plan.questions[i].options = Null \/ \E S : plan.questions[i].options \in Seq(S)
           /\ \E S : plan.questions[i].answer.optionIds \in Seq(S)

LEMMA CanonicalStillFormed ==
    ASSUME NEW plan \in PlanForms, NEW request, NEW catalog
    PROVE  Formed(CanonicalPlan(plan, request, catalog))
<1> DEFINE asked == [i \in DOMAIN plan.questions |->
                       CanonicalQuestion(plan.questions[i], Range(plan.chain))]
           canonical == CanonicalPlan(plan, request, catalog)
<1>1. /\ plan.questions \in Seq(QuestionForms)
      /\ plan.events \in Seq([id: STRING, techniques: Seq(STRING)])
      /\ DOMAIN plan = {"sources", "texts", "chain", "sections", "events", "questions",
                        "components", "functional", "vulnerable"}
  BY DEF PlanForms
<1>2. canonical.questions = asked /\ canonical.events = plan.events
  BY <1>1 DEF CanonicalPlan
<1>3. \E S : asked \in Seq(S)
  <2>1. Len(plan.questions) \in Nat /\ DOMAIN plan.questions = 1..Len(plan.questions)
    BY <1>1, LenProperties
  <2>2. asked \in Seq(Range(asked))
    BY <2>1, LongAs
  <2> QED BY <2>2
<1>4. ASSUME NEW i \in DOMAIN asked, asked[i].type \in ChoiceTypes
      PROVE  /\ asked[i].options = Null \/ \E S : asked[i].options \in Seq(S)
             /\ \E S : asked[i].answer.optionIds \in Seq(S)
  <2> DEFINE q == plan.questions[i]
  <2>1. q \in QuestionForms
    BY <1>1, ElementOfSeq, LenProperties
  <2>2. q.type \in ChoiceTypes /\ asked[i] = q
    <3>1. asked[i] = CanonicalQuestion(q, Range(plan.chain))
      OBVIOUS
    <3>2. CASE q.type \in {"elk_search", "mitre_attack"}
      <4>1. asked[i].type = q.type
        BY <2>1, <3>1, <3>2 DEF CanonicalQuestion, QuestionForms
      <4> QED BY <1>4, <3>2, <4>1 DEF ChoiceTypes
    <3>3. CASE q.type \notin {"elk_search", "mitre_attack"}
      <4>1. asked[i] = q
        BY <3>1, <3>3 DEF CanonicalQuestion
      <4> QED BY <1>4, <4>1
    <3> QED BY <3>2, <3>3
  <2>3. /\ q.options \in {Null} \cup Seq([id: STRING])
        /\ q.answer.optionIds \in Lists
    BY <2>1 DEF QuestionForms
  <2>4. Null \in Seq({"null"})
    BY DEF Null
  <2> QED BY <2>2, <2>3, <2>4 DEF Lists
<1> HIDE DEF asked, canonical
<1> QED BY <1>1, <1>2, <1>3, <1>4 DEF Formed, canonical

-----------------------------------------------------------------------------
(* A sound question, as the AI service meets it.                           *)
Graded(q) == [id |-> q.id, type |-> q.type, answer |-> q.answer]
Posed(q) == [id |-> q.id, type |-> q.type, options |-> q.options]

\* What one type of answer gives, and what it leaves out.
LEMMA OnlyOneKind ==
    ASSUME NEW q, NEW types \in SUBSET (BlueTypes \cup RedTypes), NEW techniques, NEW evidence,
           SoundQuestion(q, types, techniques, evidence)
    PROVE  /\ q.type \in types
           /\ q.type \in ChoiceTypes =>
                /\ q.options # Null /\ Len(q.options) \in 2..8
                /\ q.answer.rubric = None
                /\ Len(q.answer.optionIds) \in 1..8 /\ Unique(q.answer.optionIds)
                /\ Among(q.answer.optionIds, Range(Ids(q.options)))
                /\ q.type = "single_choice" => Len(q.answer.optionIds) = 1
           /\ q.type \notin ChoiceTypes => q.options = Null
           /\ q.type = "mitre_attack" =>
                /\ q.answer.rubric = None /\ Len(q.answer.techniqueIds) \in 1..20
                /\ Among(q.answer.techniqueIds, techniques)
           /\ q.type = "elk_search" =>
                /\ q.answer.rubric = None /\ Len(q.answer.evidenceIds) \in 1..100
                /\ Among(q.answer.evidenceIds, evidence)
           /\ q.type \in ChoiceTypes \cup {"mitre_attack", "elk_search", "free_text"}
<1>1. /\ q.type \in types
      /\ q.type \in ChoiceTypes => q.options # Null /\ Len(q.options) \in 2..8
      /\ q.type \notin ChoiceTypes => q.options = Null
      /\ SoundAnswer(q, techniques, evidence)
  BY DEF SoundQuestion
<1>2. q.type \in ChoiceTypes \cup {"mitre_attack", "elk_search", "free_text"}
  BY <1>1 DEF ChoiceTypes, BlueTypes, RedTypes
<1>3. /\ DOMAIN NoAnswer = {"optionIds", "techniqueIds", "evidenceIds", "rubric"}
      /\ NoAnswer["optionIds"] = Null /\ NoAnswer["techniqueIds"] = Null
      /\ NoAnswer["evidenceIds"] = Null /\ NoAnswer["rubric"] = None
  BY DEF NoAnswer
<1>4. /\ q.answer.optionIds = Null \/ (Len(q.answer.optionIds) \in 1..8 /\ Unique(q.answer.optionIds))
      /\ q.answer.techniqueIds = Null \/ Len(q.answer.techniqueIds) \in 1..20
      /\ q.answer.evidenceIds = Null \/ Len(q.answer.evidenceIds) \in 1..100
  BY DEF SoundQuestion, SoundList, AtMost
<1> DEFINE Only(field) == \A other \in DOMAIN NoAnswer :
                             q.answer[other] # NoAnswer[other] <=> other = field
<1>5. ASSUME q.type \in ChoiceTypes
      PROVE  /\ q.answer.rubric = None /\ q.answer.optionIds # Null
             /\ Among(q.answer.optionIds, Range(Ids(q.options)))
             /\ q.type = "single_choice" => Len(q.answer.optionIds) = 1
  <2>1. /\ Only("optionIds") /\ Among(q.answer.optionIds, Range(Ids(q.options)))
        /\ q.type = "single_choice" => Len(q.answer.optionIds) = 1
    BY <1>1, <1>5 DEF SoundAnswer, ChoiceTypes
  <2> QED BY <1>3, <2>1
<1>6. ASSUME q.type = "mitre_attack"
      PROVE  /\ q.answer.rubric = None /\ q.answer.techniqueIds # Null
             /\ Among(q.answer.techniqueIds, techniques)
  <2>1. Only("techniqueIds") /\ Among(q.answer.techniqueIds, techniques)
    BY <1>1, <1>6 DEF SoundAnswer, ChoiceTypes
  <2> QED BY <1>3, <2>1
<1>7. ASSUME q.type = "elk_search"
      PROVE  /\ q.answer.rubric = None /\ q.answer.evidenceIds # Null
             /\ Among(q.answer.evidenceIds, evidence)
  <2>1. Only("evidenceIds") /\ Among(q.answer.evidenceIds, evidence)
    BY <1>1, <1>7 DEF SoundAnswer, ChoiceTypes
  <2> QED BY <1>3, <2>1
<1> QED BY <1>1, <1>2, <1>4, <1>5, <1>6, <1>7

LEMMA AnswersCanBeGiven ==
    ASSUME NEW q, NEW types \in SUBSET (BlueTypes \cup RedTypes), NEW techniques, NEW evidence,
           SoundQuestion(q, types, techniques, evidence),
           q.type \in ChoiceTypes => /\ q.options = Null \/ \E S : q.options \in Seq(S)
                                     /\ \E S : q.answer.optionIds \in Seq(S)
    PROVE  AnswerKeyHolds(Graded(q), Posed(q), techniques, evidence)
             <=> q.answer.rubric \notin LongIds
<1>1. /\ Graded(q).type = q.type /\ Graded(q).answer = q.answer
      /\ Posed(q).options = q.options
  BY DEF Graded, Posed
<1>2. None \notin LongIds
  BY NamesAreStrings
<1>3. CASE q.type \in ChoiceTypes
  <2>1. /\ q.options # Null /\ q.answer.rubric = None
        /\ Len(q.answer.optionIds) \in 1..8 /\ Unique(q.answer.optionIds)
        /\ Among(q.answer.optionIds, Range(Ids(q.options)))
        /\ q.type = "single_choice" => Len(q.answer.optionIds) = 1
    BY <1>3, OnlyOneKind
  <2>2. IsFiniteSet(Range(Ids(q.options)))
    <3>1. PICK S : q.options \in Seq(S)
      BY <1>3, <2>1
    <3>2. /\ Len(q.options) \in Nat /\ DOMAIN Ids(q.options) = 1..Len(q.options)
      BY <3>1, WrittenOut
    <3>3. Ids(q.options) = [i \in DOMAIN Ids(q.options) |-> Ids(q.options)[i]]
      BY DEF Ids
    <3> QED BY <3>2, <3>3, FinitelyMany
  <2>3. Len(q.answer.optionIds) <= Cardinality(Range(Ids(q.options)))
    <3>1. PICK S : q.answer.optionIds \in Seq(S)
      BY <1>3
    <3> QED BY <2>1, <2>2, <3>1, NoMoreThanThereAre
  <2>4. Cardinality(Range(Ids(q.options))) \in Nat
    BY <2>2, FS_CardinalityType
  <2>5. Len(q.answer.optionIds) \in 1..Cardinality(Range(Ids(q.options)))
    BY <2>1, <2>3, <2>4
  <2> QED BY <1>1, <1>2, <1>3, <2>1, <2>5 DEF AnswerKeyHolds, ChoiceTypes
<1>4. CASE q.type = "mitre_attack"
  <2>1. /\ q.answer.rubric = None /\ Len(q.answer.techniqueIds) \in 1..20
        /\ Among(q.answer.techniqueIds, techniques)
    BY <1>4, OnlyOneKind
  <2> QED BY <1>1, <1>2, <1>4, <2>1 DEF AnswerKeyHolds, ChoiceTypes
<1>5. CASE q.type = "elk_search"
  <2>1. /\ q.answer.rubric = None /\ Len(q.answer.evidenceIds) \in 1..100
        /\ Among(q.answer.evidenceIds, evidence)
    BY <1>5, OnlyOneKind
  <2> QED BY <1>1, <1>2, <1>5, <2>1 DEF AnswerKeyHolds, ChoiceTypes
<1>6. CASE q.type = "free_text"
  BY <1>1, <1>6 DEF AnswerKeyHolds, ChoiceTypes, Fits
<1>7. q.type \in ChoiceTypes \cup {"mitre_attack", "elk_search", "free_text"}
  BY OnlyOneKind
<1> QED BY <1>3, <1>4, <1>5, <1>6, <1>7

-----------------------------------------------------------------------------
(* The lab of a sound plan.                                                *)
LEMMA TypesAreFew ==
    ASSUME NEW types \in SUBSET (BlueTypes \cup RedTypes)
    PROVE  IsFiniteSet(types) /\ Cardinality(types) \in Nat
<1>1. /\ IsFiniteSet({})
      /\ \A S, x : IsFiniteSet(S) => IsFiniteSet(S \cup {x})
  BY FS_EmptySet, FS_AddElement
<1>2. BlueTypes \cup RedTypes
        = ((((({} \cup {"elk_search"}) \cup {"mitre_attack"}) \cup {"single_choice"})
              \cup {"multiple_choice"}) \cup {"free_text"})
  BY DEF BlueTypes, RedTypes
<1>3. IsFiniteSet(BlueTypes \cup RedTypes)
  BY <1>1, <1>2
<1> QED BY <1>3, FS_Subset, FS_CardinalityType

LEMMA PartsOfALab ==
    ASSUME NEW plan, NEW request
    PROVE  LET doc == AssembledLab(plan, request)
               events == Stamped(plan.events, "Z")
           IN /\ doc.team = request.team /\ doc.types = request.types
              /\ doc.scope = request.scope /\ doc.title = request.title
              /\ doc.texts = plan.texts /\ doc.sources = plan.sources
              /\ doc.chain = plan.chain /\ doc.sections = plan.sections
              /\ doc.public = Public(plan.questions) /\ doc.grading = Hidden(plan.questions)
              /\ doc.topology = Topology(request.team, events)
              /\ doc.spec.team = request.team /\ doc.spec.cves = request.cves
              /\ doc.spec.prompt = request.scope /\ doc.spec.chain = plan.chain
              /\ doc.spec.title = request.title /\ doc.spec.texts = plan.texts
              /\ doc.spec.sections = plan.sections /\ doc.spec.public = Public(plan.questions)
              /\ doc.spec.refs = Ids(Public(plan.questions)) /\ doc.spec.events = events
              /\ doc.spec.topology = Topology(request.team, events)
              /\ doc.spec.components = plan.components
              /\ doc.spec.functional = plan.functional
              /\ doc.spec.vulnerable = plan.vulnerable
BY DEF AssembledLab

LEMMA RepeatedForEach ==
    ASSUME NEW s, NEW i \in DOMAIN s, NEW stamp
    PROVE  /\ DOMAIN Public(s) = DOMAIN s /\ DOMAIN Hidden(s) = DOMAIN s
           /\ DOMAIN Ids(s) = DOMAIN s /\ DOMAIN Stamped(s, stamp) = DOMAIN s
           /\ Public(s)[i] = Posed(s[i]) /\ Hidden(s)[i] = Graded(s[i])
           /\ Ids(s)[i] = s[i].id /\ Stamped(s, stamp)[i].id = s[i].id
           /\ Stamped(s, stamp)[i].stamp = stamp
BY DEF Public, Hidden, Ids, Stamped, Posed, Graded

LEMMA SameNames ==
    ASSUME NEW s, NEW stamp
    PROVE  /\ Ids(Public(s)) = Ids(s) /\ Ids(Hidden(s)) = Ids(s)
           /\ Ids(Stamped(s, stamp)) = Ids(s)
           /\ TypesAsked(Public(s)) = TypesAsked(s)
           /\ \A type : AskedOf(Public(s), type) = AskedOf(s, type)
BY DEF Public, Hidden, Ids, Stamped, TypesAsked, AskedOf

\* A package, and a question, of a lab, and what only the AI service may object to.
Unnameable(plan) == Range(plan.components) \cap LongIds # {}
Objectionable(q) ==
    \/ OptionsCollide(q)
    \/ q.id \in LongIds \/ q.answer.rubric \in LongIds
    \/ q.options # Null /\ \E j \in DOMAIN q.options : q.options[j].id \in LongIds

LEMMA ServiceObjects ==
    ASSUME NEW plan, NEW request
    PROVE  OnlyTheServiceRefuses(AssembledLab(plan, request)) <=>
             \/ request.team = "red" /\ Len(Public(plan.questions)) < 4
             \/ request.scope = "outside"
             \/ \E i \in DOMAIN plan.questions : Objectionable(plan.questions[i])
             \/ Unnameable(plan) \/ plan.texts \cap ForTheService # {}
<1> DEFINE doc == AssembledLab(plan, request)
           qs == plan.questions
           options == {doc.public[i].options : i \in DOMAIN doc.public} \ {Null}
           first == {{option[j].id : j \in DOMAIN option} : option \in options}
           second == {{doc.public[i].id, doc.grading[i].answer.rubric} : i \in DOMAIN doc.public}
<1>1. /\ doc.team = request.team /\ doc.scope = request.scope
      /\ doc.public = Public(qs) /\ doc.grading = Hidden(qs)
      /\ doc.texts = plan.texts /\ doc.spec.components = plan.components
  BY PartsOfALab
<1>2. /\ DOMAIN doc.public = DOMAIN qs
      /\ \A i \in DOMAIN qs : /\ doc.public[i].id = qs[i].id
                              /\ doc.public[i].options = qs[i].options
                              /\ doc.grading[i].answer = qs[i].answer
  <2>1. DOMAIN doc.public = DOMAIN qs
    BY <1>1 DEF Public
  <2>2. ASSUME NEW i \in DOMAIN qs
        PROVE  doc.public[i] = Posed(qs[i]) /\ doc.grading[i] = Graded(qs[i])
    <3>1. Public(qs)[i] = Posed(qs[i]) /\ Hidden(qs)[i] = Graded(qs[i])
      BY RepeatedForEach
    <3> HIDE DEF doc, qs
    <3> QED BY <1>1, <3>1
  <2>3. \A q : /\ Posed(q).id = q.id /\ Posed(q).options = q.options
               /\ Graded(q).answer = q.answer
    BY DEF Posed, Graded
  <2> HIDE DEF doc, qs
  <2> QED BY <2>1, <2>2, <2>3
<1>3. NamesTooLong(doc) <=>
        \/ Unnameable(plan)
        \/ \E i \in DOMAIN qs :
             \/ qs[i].id \in LongIds \/ qs[i].answer.rubric \in LongIds
             \/ qs[i].options # Null /\ \E j \in DOMAIN qs[i].options : qs[i].options[j].id \in LongIds
  <2>1. NamesTooLong(doc) <=>
          \E name : /\ name \in UNION (first \cup second) \/ name \in Range(plan.components)
                    /\ name \in LongIds
    <3> DEFINE told == UNION (first \cup second)
               packed == Range(doc.spec.components)
    <3>1. NamesTooLong(doc) <=> (told \cup packed) \cap LongIds # {}
      BY DEF NamesTooLong
    <3> HIDE DEF told, packed
    <3>2. NamesTooLong(doc)
            <=> \E name : (name \in told \/ name \in packed) /\ name \in LongIds
      <4> HIDE DEF doc, first, second
      <4> QED BY <3>1
    <3>3. packed = Range(plan.components)
      <4> HIDE DEF doc
      <4> QED BY <1>1 DEF packed
    <3> HIDE DEF doc, first, second
    <3> QED BY <3>2, <3>3 DEF told
  <2>2. \A name : name \in UNION second <=>
          \E i \in DOMAIN qs : name = qs[i].id \/ name = qs[i].answer.rubric
    <3> HIDE DEF doc
    <3> QED BY <1>2
  <2>3. \A name : name \in UNION first <=>
          \E i \in DOMAIN qs : qs[i].options # Null
                               /\ \E j \in DOMAIN qs[i].options : name = qs[i].options[j].id
    <3>1. \A option : option \in options <=>
            option # Null /\ \E i \in DOMAIN qs : option = qs[i].options
      <4> HIDE DEF doc
      <4> QED BY <1>2
    <3> HIDE DEF doc, options
    <3> QED BY <3>1
  <2>4. \A name : name \in UNION (first \cup second)
                   <=> name \in UNION first \/ name \in UNION second
    <3> HIDE DEF first, second
    <3> QED OBVIOUS
  <2>5. Unnameable(plan) <=> \E name : name \in Range(plan.components) /\ name \in LongIds
    BY DEF Unnameable
  <2> HIDE DEF doc, qs, first, second
  <2>6. ASSUME NamesTooLong(doc), ~Unnameable(plan)
        PROVE  \E i \in DOMAIN qs :
                 \/ qs[i].id \in LongIds \/ qs[i].answer.rubric \in LongIds
                 \/ qs[i].options # Null
                    /\ \E j \in DOMAIN qs[i].options : qs[i].options[j].id \in LongIds
    <3>1. PICK name : name \in UNION (first \cup second) /\ name \in LongIds
      BY <2>1, <2>5, <2>6
    <3>2. CASE name \in UNION first
      BY <3>1, <3>2, <2>3
    <3>3. CASE name \in UNION second
      BY <3>1, <3>3, <2>2
    <3> QED BY <3>1, <3>2, <3>3, <2>4
  <2>7. ASSUME NEW i \in DOMAIN qs,
               \/ qs[i].id \in LongIds \/ qs[i].answer.rubric \in LongIds
               \/ qs[i].options # Null
                  /\ \E j \in DOMAIN qs[i].options : qs[i].options[j].id \in LongIds
        PROVE  NamesTooLong(doc)
    <3>1. CASE qs[i].id \in LongIds
      BY <3>1, <2>1, <2>2, <2>4
    <3>2. CASE qs[i].answer.rubric \in LongIds
      BY <3>2, <2>1, <2>2, <2>4
    <3>3. CASE qs[i].options # Null
               /\ \E j \in DOMAIN qs[i].options : qs[i].options[j].id \in LongIds
      BY <3>3, <2>1, <2>3, <2>4
    <3> QED BY <2>7, <3>1, <3>2, <3>3
  <2>8. Unnameable(plan) => NamesTooLong(doc)
    BY <2>1, <2>5
  <2> QED BY <2>6, <2>7, <2>8
<1>4. (\E i \in DOMAIN doc.public : OptionsCollide(doc.public[i]))
        <=> \E i \in DOMAIN qs : OptionsCollide(qs[i])
  <2> HIDE DEF doc
  <2> QED BY <1>2 DEF OptionsCollide
<1> HIDE DEF doc
<1> QED BY <1>1, <1>3, <1>4 DEF OnlyTheServiceRefuses, Objectionable, doc

-----------------------------------------------------------------------------
\* A sound plan and the request it answers.
Answered(plan, request, catalog) ==
    /\ Formed(plan) /\ request \in RequestForms
    /\ SoundInput(request, catalog) /\ SoundPlan(plan, request, catalog)

LEMMA TwoTeams ==
    ASSUME NEW request \in RequestForms, NEW catalog, SoundInput(request, catalog)
    PROVE  /\ request.types \in SUBSET (BlueTypes \cup RedTypes)
           /\ request.team \in {"blue", "red"} /\ request.scope \in {"inside", "outside"}
           /\ request.title \in {"plain", "active"}
           /\ request.types # {}
           /\ request.team = "blue" => request.types = BlueTypes
           /\ request.team = "red" => request.types \subseteq RedTypes
BY DEF RequestForms, SoundInput, TypesOf

LEMMA DraftChecksPass ==
    ASSUME NEW plan, NEW request, NEW catalog, Answered(plan, request, catalog)
    PROVE  DraftPasses(AssembledLab(plan, request)) <=> request.scope = "inside"
<1> DEFINE doc == AssembledLab(plan, request)
<1>1. /\ doc.team = request.team /\ doc.types = request.types /\ doc.scope = request.scope
      /\ doc.sources = plan.sources
      /\ doc.topology = Topology(request.team, Stamped(plan.events, "Z"))
  BY PartsOfALab
<1>2. \A team, events : Topology(team, events).team = team
  BY DEF Topology
<1>3. /\ request.types # {} /\ request.team \in {"blue", "red"}
      /\ request.team = "blue" => request.types = BlueTypes
      /\ request.team = "red" => request.types \subseteq RedTypes
  BY TwoTeams DEF Answered
<1>4. request.team = "blue" => plan.sources >= 4
  BY DEF Answered, SoundPlan, SoundScenario
<1> HIDE DEF doc
<1> QED BY <1>1, <1>2, <1>3, <1>4 DEF DraftPasses, doc

\* The lists of a sound plan.
LEMMA ListsOfAPlan ==
    ASSUME NEW plan, NEW request, NEW catalog, Answered(plan, request, catalog)
    PROVE  LET qs == plan.questions
               es == plan.events
           IN /\ Len(qs) \in Nat /\ DOMAIN qs = 1..Len(qs)
              /\ DOMAIN Public(qs) = DOMAIN qs /\ Len(Public(qs)) = Len(qs)
              /\ DOMAIN Hidden(qs) = DOMAIN qs /\ Len(Hidden(qs)) = Len(qs)
              /\ DOMAIN Ids(qs) = DOMAIN qs /\ Len(Ids(qs)) = Len(qs)
              /\ DOMAIN Stamped(es, "Z") = 1..Len(es) /\ Len(Stamped(es, "Z")) = Len(es)
              /\ Len(Stamped(es, "Z")) = 0 => Stamped(es, "Z") = <<>>
<1>1. PICK S : plan.questions \in Seq(S)
  BY DEF Answered, Formed
<1>2. PICK T : plan.events \in Seq(T)
  BY DEF Answered, Formed
<1>3. /\ DOMAIN Stamped(plan.events, "Z") = 1..Len(plan.events)
      /\ Len(Stamped(plan.events, "Z")) = Len(plan.events) /\ Len(plan.events) \in Nat
  BY <1>2, WrittenOut
<1>4. Stamped(plan.events, "Z")
        = [i \in DOMAIN Stamped(plan.events, "Z") |-> Stamped(plan.events, "Z")[i]]
  BY DEF Stamped
<1>5. Stamped(plan.events, "Z") \in Seq(Range(Stamped(plan.events, "Z")))
  BY <1>3, <1>4, LongAs
<1>6. Len(Stamped(plan.events, "Z")) = 0 => Stamped(plan.events, "Z") = <<>>
  BY <1>5, EmptySeq
<1> QED BY <1>1, <1>3, <1>6, WrittenOut

\* A question of the lab is the plan's.
LEMMA QuestionsOfAPlan ==
    ASSUME NEW plan, NEW request, NEW catalog, Answered(plan, request, catalog),
           NEW i \in DOMAIN plan.questions
    PROVE  LET q == plan.questions[i]
           IN /\ SoundQuestion(q, request.types, Range(plan.chain), Range(Ids(plan.events)))
              /\ q.type \in ChoiceTypes =>
                   /\ q.options = Null \/ \E S : q.options \in Seq(S)
                   /\ \E S : q.answer.optionIds \in Seq(S)
              /\ AnswerKeyHolds(Hidden(plan.questions)[i], Public(plan.questions)[i],
                                Range(plan.chain), Range(Ids(plan.events)))
                   <=> q.answer.rubric \notin LongIds
<1> DEFINE q == plan.questions[i]
<1>1. SoundQuestion(q, request.types, Range(plan.chain), Range(Ids(plan.events)))
  BY DEF Answered, SoundPlan, SoundQuestions, Every
<1>2. q.type \in ChoiceTypes =>
        /\ q.options = Null \/ \E S : q.options \in Seq(S)
        /\ \E S : q.answer.optionIds \in Seq(S)
  BY DEF Answered, Formed
<1>3. Public(plan.questions)[i] = Posed(q) /\ Hidden(plan.questions)[i] = Graded(q)
  BY RepeatedForEach
<1>4. request.types \in SUBSET (BlueTypes \cup RedTypes)
  BY TwoTeams DEF Answered
<1> HIDE DEF q
<1>5. AnswerKeyHolds(Graded(q), Posed(q), Range(plan.chain), Range(Ids(plan.events)))
        <=> q.answer.rubric \notin LongIds
  BY <1>1, <1>2, <1>4, AnswersCanBeGiven
<1> QED BY <1>1, <1>2, <1>3, <1>5 DEF q

LEMMA QuestionIsFit ==
    ASSUME NEW q, NEW types \in SUBSET (BlueTypes \cup RedTypes), NEW techniques, NEW evidence,
           SoundQuestion(q, types, techniques, evidence)
    PROVE  ContentQuestion(Posed(q), types) /\ q.answer.rubric \notin LongIds
             <=> ~Objectionable(q)
<1> DEFINE tooLong == \E j \in DOMAIN q.options : q.options[j].id \in LongIds
<1>1. Posed(q).id = q.id /\ Posed(q).type = q.type /\ Posed(q).options = q.options
  BY DEF Posed
<1>2. /\ q.type \in types
      /\ q.type \in ChoiceTypes => q.options # Null /\ Len(q.options) \in 2..8
      /\ q.type \notin ChoiceTypes => q.options = Null
  BY OnlyOneKind
<1>3. Every(Ids(q.options), Fits) <=> ~tooLong
  BY DEF Every, Ids, Fits
<1>4. ContentQuestion(Posed(q), types)
        <=> q.id \notin LongIds /\ (q.type \in ChoiceTypes => Unique(Ids(q.options)) /\ ~tooLong)
  <2> HIDE DEF tooLong
  <2> QED BY <1>1, <1>2, <1>3 DEF ContentQuestion, Fits
<1>5. Objectionable(q)
        <=> \/ q.options # Null /\ ~Unique(Ids(q.options))
            \/ q.id \in LongIds \/ q.answer.rubric \in LongIds
            \/ q.options # Null /\ tooLong
  BY DEF Objectionable, OptionsCollide
<1> HIDE DEF tooLong
<1> QED BY <1>2, <1>4, <1>5

\* The parts of the lab that only the plan decides are in order.
LEMMA TelemetryIsInOrder ==
    ASSUME NEW plan, NEW request, NEW catalog, Answered(plan, request, catalog)
    PROVE  LET doc == AssembledLab(plan, request)
           IN TelemetryHolds(doc) /\ TopologyHolds(doc)
<1> DEFINE doc == AssembledLab(plan, request)
           events == Stamped(plan.events, "Z")
<1>1. /\ doc.team = request.team /\ doc.spec.events = events
      /\ doc.topology = Topology(request.team, events)
      /\ doc.spec.topology = Topology(request.team, events)
  BY PartsOfALab
<1>2. /\ Len(events) = Len(plan.events)
      /\ Len(events) = 0 => events = <<>>
  BY ListsOfAPlan
<1>3. Ids(events) = Ids(plan.events)
  BY SameNames
<1>4. /\ Topology(request.team, events).team = request.team
      /\ Topology(request.team, events).events = events
  BY DEF Topology
<1>5. /\ request.team = "blue" => Len(plan.events) \in 1..100
      /\ request.team # "blue" => Len(plan.events) = 0
      /\ Unique(Ids(plan.events))
  BY DEF Answered, SoundPlan, SoundEvents
<1> HIDE DEF doc, events
<1>6. TelemetryHolds(doc)
  BY <1>1, <1>2, <1>3, <1>5 DEF TelemetryHolds
<1>7. TopologyHolds(doc)
  BY <1>1, <1>2, <1>4, <1>5 DEF TopologyHolds
<1> QED BY <1>6, <1>7 DEF doc

LEMMA TargetIsInOrder ==
    ASSUME NEW plan, NEW request, NEW catalog, Answered(plan, request, catalog)
    PROVE  LET doc == AssembledLab(plan, request)
           IN /\ BuildSpecHolds(doc, request) <=> ~Unnameable(plan)
              /\ CatalogHolds(doc, request, catalog)
<1> DEFINE doc == AssembledLab(plan, request)
<1>1. /\ doc.team = request.team /\ doc.spec.team = request.team
      /\ doc.spec.prompt = request.scope
      /\ doc.spec.components = plan.components /\ doc.spec.functional = plan.functional
      /\ doc.spec.vulnerable = plan.vulnerable /\ doc.spec.title = doc.title
      /\ doc.spec.texts = doc.texts /\ doc.spec.sections = doc.sections
      /\ doc.spec.public = doc.public /\ doc.spec.chain = doc.chain
      /\ doc.spec.refs = Ids(Public(plan.questions)) /\ doc.public = Public(plan.questions)
      /\ doc.spec.cves = request.cves
  BY PartsOfALab
<1>2. TopologyHolds(doc)
  BY TelemetryIsInOrder
<1>3. /\ Len(plan.components) \in 0..20
      /\ Among(plan.components, catalog.components) /\ Unique(plan.components)
      /\ request.cves # {} /\ plan.components = <<>> => catalog.simulate
      /\ Len(plan.functional) \in 1..20 /\ Len(plan.vulnerable) \in 1..20
      /\ \E i \in DOMAIN plan.functional : plan.functional[i].path = "/health"
      /\ \E i \in DOMAIN plan.vulnerable : plan.vulnerable[i].path = "/version"
  BY DEF Answered, SoundPlan, SoundTarget
<1>4. /\ Every(plan.functional, ContentProbe) /\ Every(plan.vulnerable, ContentProbe)
      /\ Every(plan.vulnerable, LAMBDA p : p.cve # None \/ p.finding # None)
  BY DEF Answered, SoundPlan, SoundTarget, SoundProbe, ContentProbe, Every, Fits
<1>5. Len(Ids(Public(plan.questions))) = Len(Public(plan.questions))
  BY ListsOfAPlan, SameNames
<1> HIDE DEF doc
<1>6. BuildSpecHolds(doc, request) <=> ~Unnameable(plan)
  <2>1. Every(plan.components, Fits) <=> ~Unnameable(plan)
    BY DEF Every, Fits, Unnameable, Range
  <2> QED BY <1>1, <1>2, <1>3, <1>4, <1>5, <2>1 DEF BuildSpecHolds
<1>7. CatalogHolds(doc, request, catalog)
  BY <1>1, <1>3 DEF CatalogHolds, ProbesTheContract
<1> QED BY <1>6, <1>7 DEF doc

\* The contract of the AI service finds fault with a sound plan's lab only for
\* a red lab of fewer than four questions, a question of its own objections, the
\* name of a package, or the length of a text.
LEMMA ContentIsInOrder ==
    ASSUME NEW plan, NEW request, NEW catalog, Answered(plan, request, catalog)
    PROVE  ContentHolds(AssembledLab(plan, request), request) <=>
             /\ request.team = "red" => Len(plan.questions) >= 4
             /\ \A i \in DOMAIN plan.questions : ~Objectionable(plan.questions[i])
             /\ ~Unnameable(plan) /\ "characters" \notin plan.texts
<1> DEFINE doc == AssembledLab(plan, request)
           qs == plan.questions
           techniques == Range(plan.chain)
           evidence == Range(Ids(plan.events))
           types == request.types
           keyed == \A i \in DOMAIN doc.grading : \E j \in DOMAIN doc.public :
                      /\ doc.public[j].id = doc.grading[i].id
                      /\ doc.public[j].type = doc.grading[i].type
                      /\ AnswerKeyHolds(doc.grading[i], doc.public[j], Range(doc.chain),
                                        Range(Ids(doc.spec.events)))
<1>1. /\ doc.sections = plan.sections /\ doc.chain = plan.chain
      /\ doc.public = Public(qs) /\ doc.grading = Hidden(qs) /\ doc.texts = plan.texts
      /\ doc.spec.events = Stamped(plan.events, "Z")
  BY PartsOfALab
<1>2. /\ types \in SUBSET (BlueTypes \cup RedTypes) /\ Cardinality(types) \in Nat
      /\ request.team \in {"blue", "red"}
  BY TwoTeams, TypesAreFew DEF Answered
<1>3. /\ Len(doc.sections) \in (IF request.team = "blue" THEN 6 ELSE 5)..12
      /\ Every(doc.sections, Fits) /\ Len(doc.chain) \in 1..50
  <2>1. /\ Len(plan.sections) \in (IF request.team = "blue" THEN 6 ELSE 5)..12
        /\ Range(plan.sections) \cap LongIds = {} /\ Len(plan.chain) \in 1..30
    BY DEF Answered, SoundPlan, SoundScenario
  <2>2. Every(plan.sections, Fits)
    BY <2>1 DEF Every, Fits, Range
  <2> HIDE DEF doc
  <2> QED BY <1>1, <2>1, <2>2
<1>4. /\ Len(qs) \in (IF request.team = "blue" THEN 6 ELSE Cardinality(types))..20
      /\ Unique(Ids(qs)) /\ TypesAsked(qs) = types
      /\ request.team = "blue" =>
           \A type \in BlueTypes : Cardinality(AskedOf(qs, type)) >= 3
  BY DEF Answered, SoundPlan, SoundQuestions
<1>5. /\ Len(qs) \in Nat /\ Len(Public(qs)) = Len(qs) /\ Len(Hidden(qs)) = Len(qs)
      /\ DOMAIN Public(qs) = DOMAIN qs /\ DOMAIN Hidden(qs) = DOMAIN qs
  BY ListsOfAPlan
<1>6. /\ Ids(Public(qs)) = Ids(qs) /\ Ids(Hidden(qs)) = Ids(qs)
      /\ TypesAsked(Public(qs)) = TypesAsked(qs)
      /\ \A type : AskedOf(Public(qs), type) = AskedOf(qs, type)
      /\ Ids(doc.spec.events) = Ids(plan.events)
  BY <1>1, SameNames
<1>7. TelemetryHolds(doc) /\ (BuildSpecHolds(doc, request) <=> ~Unnameable(plan))
  BY TelemetryIsInOrder, TargetIsInOrder
<1>8. ASSUME NEW i \in DOMAIN qs
      PROVE  /\ Public(qs)[i].id = qs[i].id /\ Public(qs)[i].type = qs[i].type
             /\ Hidden(qs)[i].id = qs[i].id /\ Hidden(qs)[i].type = qs[i].type
             /\ Ids(qs)[i] = qs[i].id
             /\ AnswerKeyHolds(Hidden(qs)[i], Public(qs)[i], techniques, evidence)
                  <=> qs[i].answer.rubric \notin LongIds
             /\ ContentQuestion(Public(qs)[i], types) /\ qs[i].answer.rubric \notin LongIds
                  <=> ~Objectionable(qs[i])
  <2>1. /\ Public(qs)[i] = Posed(qs[i]) /\ Hidden(qs)[i] = Graded(qs[i])
        /\ Ids(qs)[i] = qs[i].id
    BY RepeatedForEach
  <2>2. \A q : /\ Posed(q).id = q.id /\ Posed(q).type = q.type
               /\ Graded(q).id = q.id /\ Graded(q).type = q.type
    BY DEF Posed, Graded
  <2>3. /\ SoundQuestion(qs[i], types, techniques, evidence)
        /\ AnswerKeyHolds(Hidden(qs)[i], Public(qs)[i], techniques, evidence)
             <=> qs[i].answer.rubric \notin LongIds
    BY QuestionsOfAPlan
  <2> HIDE DEF qs, types, techniques, evidence
  <2>4. ContentQuestion(Posed(qs[i]), types) /\ qs[i].answer.rubric \notin LongIds
          <=> ~Objectionable(qs[i])
    BY <1>2, <2>3, QuestionIsFit
  <2> QED BY <2>1, <2>2, <2>3, <2>4
<1> HIDE DEF doc, qs, techniques, evidence, types
<1>9. keyed <=> \A i \in DOMAIN qs : qs[i].answer.rubric \notin LongIds
  <2>1. keyed <=> \A i \in DOMAIN qs : \E j \in DOMAIN qs :
                    /\ Public(qs)[j].id = Hidden(qs)[i].id
                    /\ Public(qs)[j].type = Hidden(qs)[i].type
                    /\ AnswerKeyHolds(Hidden(qs)[i], Public(qs)[j], techniques, evidence)
    BY <1>1, <1>5, <1>6 DEF techniques, evidence
  <2>2. ASSUME NEW i \in DOMAIN qs, NEW j \in DOMAIN qs, Public(qs)[j].id = Hidden(qs)[i].id
        PROVE  i = j
    <3>1. Ids(qs)[i] = Ids(qs)[j] /\ DOMAIN Ids(qs) = DOMAIN qs
      BY <1>8, <2>2 DEF Ids
    <3> QED BY <3>1, <1>4 DEF Unique, IsInjective
  <2> HIDE DEF keyed
  <2>3. ASSUME keyed, NEW i \in DOMAIN qs
        PROVE  qs[i].answer.rubric \notin LongIds
    BY <2>1, <2>2, <2>3, <1>8
  <2>4. ASSUME \A i \in DOMAIN qs : qs[i].answer.rubric \notin LongIds
        PROVE  keyed
    BY <2>1, <2>4, <1>8
  <2> QED BY <2>3, <2>4
<1>10. Every(doc.public, LAMBDA q : ContentQuestion(q, types)) /\ keyed
         <=> \A i \in DOMAIN qs : ~Objectionable(qs[i])
  <2>1. Every(doc.public, LAMBDA q : ContentQuestion(q, types))
          <=> \A i \in DOMAIN qs : ContentQuestion(Public(qs)[i], types)
    BY <1>1, <1>5 DEF Every
  <2> HIDE DEF keyed
  <2> QED BY <2>1, <1>8, <1>9
<1>11. Len(doc.public) \in (IF request.team = "blue" \/ Cardinality(types) < 4
                            THEN (IF request.team = "blue" THEN 6 ELSE 4)
                            ELSE Cardinality(types))..20
         <=> (request.team = "red" => Len(qs) >= 4)
  BY <1>1, <1>2, <1>4, <1>5
<1>12. /\ Len(doc.grading) = Len(doc.public) /\ Unique(Ids(doc.public))
       /\ TypesAsked(doc.public) = types
       /\ request.team = "blue" =>
            \A type \in BlueTypes : Cardinality(AskedOf(doc.public, type)) >= 3
       /\ Range(Ids(doc.grading)) = Range(Ids(doc.public))
  BY <1>1, <1>4, <1>5, <1>6
<1>13. ContentHolds(doc, request)
         <=> /\ Len(doc.public) \in (IF request.team = "blue" \/ Cardinality(types) < 4
                                     THEN (IF request.team = "blue" THEN 6 ELSE 4)
                                     ELSE Cardinality(types))..20
             /\ Every(doc.public, LAMBDA q : ContentQuestion(q, types))
             /\ keyed /\ ~Unnameable(plan) /\ "characters" \notin plan.texts
  BY <1>1, <1>3, <1>7, <1>12 DEF ContentHolds, types
<1> HIDE DEF keyed
<1>14. ContentHolds(doc, request)
         <=> /\ request.team = "red" => Len(qs) >= 4
             /\ \A i \in DOMAIN qs : ~Objectionable(qs[i])
             /\ ~Unnameable(plan) /\ "characters" \notin plan.texts
  BY <1>10, <1>11, <1>13
<1> QED BY <1>14 DEF doc, qs

LEMMA ServiceRefusesThese ==
    ASSUME NEW plan, NEW request, NEW catalog, Answered(plan, request, catalog)
    PROVE  LET doc == AssembledLab(plan, request)
           IN ProviderVerdict(doc, request, catalog) = "lab" <=> ~OnlyTheServiceRefuses(doc)
<1> DEFINE doc == AssembledLab(plan, request)
           short == request.team = "red" /\ Len(plan.questions) < 4
           objections == \E i \in DOMAIN plan.questions : Objectionable(plan.questions[i])
<1>1. doc.team = request.team /\ doc.types = request.types /\ doc.texts = plan.texts
  BY PartsOfALab
<1>2. OnlyTheServiceRefuses(doc) <=>
        \/ short \/ request.scope = "outside" \/ objections
        \/ Unnameable(plan) \/ {"size", "characters"} \cap plan.texts # {}
  <2>1. Len(Public(plan.questions)) = Len(plan.questions)
    BY ListsOfAPlan
  <2>2. OnlyTheServiceRefuses(doc) <=>
          \/ request.team = "red" /\ Len(Public(plan.questions)) < 4
          \/ request.scope = "outside" \/ objections
          \/ Unnameable(plan) \/ {"size", "characters"} \cap plan.texts # {}
    BY ServiceObjects DEF ForTheService
  <2> HIDE DEF doc, objections
  <2> QED BY <2>1, <2>2
<1>3. DraftPasses(doc) <=> request.scope = "inside"
  BY DraftChecksPass
<1>4. ContentHolds(doc, request) <=>
        ~short /\ ~objections /\ ~Unnameable(plan) /\ "characters" \notin plan.texts
  <2>1. ContentHolds(doc, request) <=>
          /\ request.team = "red" => Len(plan.questions) >= 4
          /\ \A i \in DOMAIN plan.questions : ~Objectionable(plan.questions[i])
          /\ ~Unnameable(plan) /\ "characters" \notin plan.texts
    BY ContentIsInOrder
  <2>2. Len(plan.questions) \in Nat
    BY ListsOfAPlan
  <2>3. (\A i \in DOMAIN plan.questions : ~Objectionable(plan.questions[i])) <=> ~objections
    OBVIOUS
  <2> HIDE DEF doc, objections
  <2> QED BY <2>1, <2>2, <2>3
<1>5. CatalogHolds(doc, request, catalog)
  BY TargetIsInOrder
<1>6. request.scope \in {"inside", "outside"}
  BY TwoTeams DEF Answered
<1> HIDE DEF doc, short, objections
<1>7. ProviderVerdict(doc, request, catalog) = "lab"
        <=> "size" \notin plan.texts /\ DraftPasses(doc) /\ ContentHolds(doc, request)
  BY <1>1, <1>5 DEF ProviderVerdict
<1>8. ProviderVerdict(doc, request, catalog) = "lab" <=> ~OnlyTheServiceRefuses(doc)
  BY <1>2, <1>3, <1>4, <1>6, <1>7
<1> QED BY <1>8 DEF doc

\* The API finds no fault with the lab of a sound plan.
LEMMA ApiAcceptsThese ==
    ASSUME NEW plan, NEW request, NEW catalog, Answered(plan, request, catalog)
    PROVE  ApiAccepts(AssembledLab(plan, request), request)
<1> DEFINE doc == AssembledLab(plan, request)
           qs == plan.questions
           types == request.types
<1>1. /\ doc.team = request.team /\ doc.types = types /\ doc.sources = plan.sources
      /\ doc.chain = plan.chain /\ doc.sections = plan.sections
      /\ doc.public = Public(qs) /\ doc.grading = Hidden(qs)
      /\ doc.spec.team = request.team /\ doc.spec.title = doc.title
      /\ doc.spec.texts = doc.texts /\ doc.spec.sections = doc.sections
      /\ doc.spec.public = doc.public /\ doc.spec.chain = doc.chain
      /\ doc.spec.refs = Ids(Public(qs))
      /\ doc.spec.functional = plan.functional /\ doc.spec.vulnerable = plan.vulnerable
  BY PartsOfALab
<1>2. /\ Len(qs) \in Nat /\ Len(Public(qs)) = Len(qs) /\ Len(Hidden(qs)) = Len(qs)
      /\ DOMAIN Public(qs) = DOMAIN qs /\ DOMAIN Hidden(qs) = DOMAIN qs
      /\ Len(Ids(qs)) = Len(qs)
  BY ListsOfAPlan
<1>3. /\ Ids(Public(qs)) = Ids(qs) /\ Ids(Hidden(qs)) = Ids(qs)
      /\ TypesAsked(Public(qs)) = TypesAsked(qs)
  BY SameNames
<1>4. /\ types \in SUBSET (BlueTypes \cup RedTypes) /\ Cardinality(types) \in Nat
      /\ request.team \in {"blue", "red"} /\ request.team = "blue" => types = BlueTypes
  BY TwoTeams, TypesAreFew DEF Answered
<1>5. /\ Len(qs) \in (IF request.team = "blue" THEN 6 ELSE Cardinality(types))..20
      /\ Unique(Ids(qs)) /\ TypesAsked(qs) = types
  BY DEF Answered, SoundPlan, SoundQuestions
<1>6. /\ request.team = "blue" => plan.sources >= 4
      /\ Len(plan.chain) \in 1..30
      /\ Len(plan.sections) \in (IF request.team = "blue" THEN 6 ELSE 5)..12
      /\ Range(plan.sections) \cap LongIds = {}
  BY DEF Answered, SoundPlan, SoundScenario
<1>7. Every(plan.sections, Fits)
  BY <1>6 DEF Every, Fits, Range
<1>8. Len(plan.functional) \in 1..20 /\ Len(plan.vulnerable) \in 1..20
  BY DEF Answered, SoundPlan, SoundTarget
<1>9. ASSUME NEW i \in DOMAIN qs
      PROVE  /\ Public(qs)[i].id = Hidden(qs)[i].id /\ Public(qs)[i].type = Hidden(qs)[i].type
             /\ Public(qs)[i].type \in ChoiceTypes => Len(Public(qs)[i].options) \in 2..8
  <2>1. Public(qs)[i] = Posed(qs[i]) /\ Hidden(qs)[i] = Graded(qs[i])
    BY RepeatedForEach
  <2>2. \A q : /\ Posed(q).id = q.id /\ Posed(q).type = q.type /\ Posed(q).options = q.options
               /\ Graded(q).id = q.id /\ Graded(q).type = q.type
    BY DEF Posed, Graded
  <2>3. SoundQuestion(qs[i], types, Range(plan.chain), Range(Ids(plan.events)))
    BY QuestionsOfAPlan
  <2>4. qs[i].type \in ChoiceTypes => Len(qs[i].options) \in 2..8
    <3> HIDE DEF qs, types
    <3> QED BY <1>4, <2>3, OnlyOneKind
  <2> HIDE DEF qs
  <2> QED BY <2>1, <2>2, <2>4
<1>10. ApiTopology(doc, request)
  <2>1. TelemetryHolds(doc) /\ TopologyHolds(doc)
    BY TelemetryIsInOrder
  <2> HIDE DEF doc
  <2> QED BY <1>1, <2>1 DEF TopologyHolds, ApiTopology
<1>11. Cardinality(BlueTypes) <= 6
  <2>1. BlueTypes \subseteq {"elk_search", "mitre_attack"} /\ "elk_search" # "mitre_attack"
    BY DEF BlueTypes
  <2>2. /\ IsFiniteSet({}) /\ Cardinality({}) = 0
    BY FS_EmptySet
  <2>3. IsFiniteSet({"mitre_attack"}) /\ Cardinality({"mitre_attack"}) = 1
    BY FS_Singleton
  <2>4. IsFiniteSet(BlueTypes) /\ Cardinality({"mitre_attack"} \cup {"elk_search"}) <= 2
    BY <2>3, FS_AddElement DEF BlueTypes
  <2>5. BlueTypes = {"mitre_attack"} \cup {"elk_search"}
    BY DEF BlueTypes
  <2>6. Cardinality(BlueTypes) \in Nat
    BY <2>4, FS_CardinalityType
  <2> QED BY <2>4, <2>5, <2>6
<1> HIDE DEF doc, qs
<1>12. Len(doc.public) \in Cardinality(types)..20
  BY <1>1, <1>2, <1>4, <1>5, <1>11
<1>13. ApiQuestions(doc, request)
  BY <1>1, <1>2, <1>3, <1>5, <1>9, <1>12 DEF ApiQuestions, Every
<1>14. ApiLearning(doc)
  <2>1. /\ request.team = "blue" => Len(plan.sections) \in 6..12
        /\ request.team # "blue" => Len(plan.sections) \in 5..12
    BY <1>6
  <2>2. Len(plan.sections) \in 2..12
    BY <2>1
  <2> QED BY <1>1, <1>7, <2>2 DEF ApiLearning
<1>15. ApiBuildSpec(doc, request)
  <2>1. plan.functional # <<>> /\ plan.vulnerable # <<>>
    BY <1>8, EmptySeq
  <2> QED BY <1>1, <1>2, <1>3, <2>1 DEF ApiBuildSpec
<1>16. doc.chain # <<>>
  <2> DEFINE long == Len(plan.chain)
  <2>0. long \in 1..30
    BY <1>6
  <2> HIDE DEF long
  <2>1. long # 0
    BY <2>0
  <2> USE DEF long
  <2>2. Len(<<>>) = 0
    BY EmptySeq
  <2> QED BY <1>1, <2>1, <2>2
<1>17. ApiAccepts(doc, request)
  BY <1>1, <1>6, <1>10, <1>13, <1>14, <1>15, <1>16 DEF ApiAccepts
<1> QED BY <1>17 DEF doc

LEMMA ProbesAreRead ==
    ASSUME NEW probes, Len(probes) \in 1..20,
           \A i \in DOMAIN probes : probes[i].id \notin LongIds /\ Len(probes[i].statuses) \in 1..8
    PROVE  BuilderProbes(probes) <=>
             ~(~Unique(Ids(probes)) \/ \E i \in DOMAIN probes : ~Unique(probes[i].statuses))
<1>1. Every(Ids(probes), Fits)
  BY DEF Every, Ids, Fits
<1>2. Every(probes, LAMBDA p : Len(p.statuses) \in 1..8 /\ Unique(p.statuses))
        <=> \A i \in DOMAIN probes : Unique(probes[i].statuses)
  BY DEF Every
<1> QED BY <1>1, <1>2 DEF BuilderProbes

\* The build service finds fault with the specification of a lab the AI service
\* let through for the known reasons only.
LEMMA BuilderRefusesThese ==
    ASSUME NEW plan, NEW request, NEW catalog, Answered(plan, request, catalog),
           ~OnlyTheServiceRefuses(AssembledLab(plan, request))
    PROVE  LET spec == AssembledLab(plan, request).spec
           IN SpecParses(spec) /\ ComponentsResolve(spec, catalog)
                <=> ~OnlyTheBuilderRefuses(spec, catalog)
<1> DEFINE doc == AssembledLab(plan, request)
           spec == doc.spec
           qs == plan.questions
           events == Stamped(plan.events, "Z")
           types == request.types
           installs == spec.cves # {} => spec.components # <<>>
           plain == spec.title = "plain" /\ spec.texts \cap ForTheBuilder = {}
           readable == /\ spec.title = "plain"
                       /\ spec.texts \cap {"token", "destination", "path", "address"} = {}
                       /\ spec.texts \cap {"active", "reference"} = {}
<1>1. /\ spec.team = request.team /\ spec.cves = request.cves /\ spec.chain = plan.chain
      /\ spec.title = request.title /\ spec.texts = plan.texts /\ spec.sections = plan.sections
      /\ spec.public = Public(qs) /\ spec.refs = Ids(Public(qs)) /\ spec.events = events
      /\ spec.topology = Topology(request.team, events)
      /\ spec.components = plan.components /\ spec.functional = plan.functional
      /\ spec.vulnerable = plan.vulnerable
      /\ doc.public = Public(qs) /\ doc.team = request.team
  BY PartsOfALab
<1>2. /\ types \in SUBSET (BlueTypes \cup RedTypes) /\ request.team \in {"blue", "red"}
      /\ request.title \in {"plain", "active"}
      /\ request.team = "blue" => types = BlueTypes
      /\ request.team = "red" => types \subseteq RedTypes
  BY TwoTeams DEF Answered
<1>3. Len(spec.chain) \in 1..30 /\ Unique(spec.chain)
  <2>1. Len(plan.chain) \in 1..30 /\ Unique(plan.chain)
    BY DEF Answered, SoundPlan, SoundScenario
  <2> HIDE DEF spec
  <2> QED BY <1>1, <2>1
<1>4. Len(spec.sections) \in 1..30 /\ Unique(spec.sections)
  <2>1. /\ Len(plan.sections) \in (IF request.team = "blue" THEN 6 ELSE 5)..12
        /\ Unique(plan.sections)
    BY DEF Answered, SoundPlan, SoundScenario
  <2>2. Len(plan.sections) \in 1..30
    <3>1. \A n : n \in 6..12 \/ n \in 5..12 => n \in 1..30
      OBVIOUS
    <3> QED BY <2>1, <3>1
  <2> HIDE DEF spec
  <2> QED BY <1>1, <2>1, <2>2
<1>5. /\ Len(plan.components) \in 0..20 /\ Unique(plan.components)
      /\ Among(plan.components, catalog.components)
      /\ Len(plan.functional) \in 1..20 /\ Len(plan.vulnerable) \in 1..20
      /\ {plan.vulnerable[i].cve : i \in DOMAIN plan.vulnerable} \ {None} = request.cves
  BY DEF Answered, SoundPlan, SoundTarget
<1>6. /\ \A i \in DOMAIN plan.functional :
           plan.functional[i].id \notin LongIds /\ Len(plan.functional[i].statuses) \in 1..8
      /\ \A i \in DOMAIN plan.vulnerable :
           plan.vulnerable[i].id \notin LongIds /\ Len(plan.vulnerable[i].statuses) \in 1..8
      /\ Every(plan.vulnerable, LAMBDA p : p.cve # None \/ p.finding # None)
  BY DEF Answered, SoundPlan, SoundTarget, SoundProbe, Every
<1>7. \A cve \in request.cves : \E i \in DOMAIN plan.vulnerable : plan.vulnerable[i].cve = cve
  BY <1>5
<1>8. /\ Len(qs) \in Nat /\ DOMAIN Public(qs) = DOMAIN qs /\ Len(Public(qs)) = Len(qs)
      /\ Len(Ids(qs)) = Len(qs) /\ DOMAIN events = 1..Len(plan.events)
      /\ Len(events) = Len(plan.events) /\ Len(events) = 0 => events = <<>>
  BY ListsOfAPlan
<1>9. /\ Ids(Public(qs)) = Ids(qs) /\ TypesAsked(Public(qs)) = TypesAsked(qs)
      /\ Ids(events) = Ids(plan.events)
  BY SameNames
<1>10. /\ Len(qs) \in (IF request.team = "blue" THEN 6 ELSE Cardinality(types))..20
       /\ Unique(Ids(qs)) /\ TypesAsked(qs) = types
  BY DEF Answered, SoundPlan, SoundQuestions
<1>11. /\ request.team = "red" => Len(Public(qs)) >= 4
       /\ \A i \in DOMAIN qs : ~OptionsCollide(qs[i])
       /\ Every(plan.components, Fits)
  <2>1. ~(\/ request.team = "red" /\ Len(Public(qs)) < 4
          \/ request.scope = "outside" \/ \E i \in DOMAIN qs : Objectionable(qs[i])
          \/ Unnameable(plan))
    BY ServiceObjects
  <2>2. \A i \in DOMAIN qs : OptionsCollide(qs[i]) => Objectionable(qs[i])
    BY DEF Objectionable
  <2>3. Every(plan.components, Fits)
    BY <2>1 DEF Every, Fits, Unnameable, Range
  <2> HIDE DEF qs
  <2> QED BY <1>8, <2>1, <2>2, <2>3
<1>12. ASSUME NEW i \in DOMAIN qs
       PROVE  BuilderQuestion(Public(qs)[i], request.team)
  <2>1. Public(qs)[i] = Posed(qs[i])
    BY RepeatedForEach
  <2>2. \A q : Posed(q).type = q.type /\ Posed(q).options = q.options
    BY DEF Posed
  <2>3. SoundQuestion(qs[i], types, Range(plan.chain), Range(Ids(plan.events)))
    BY QuestionsOfAPlan
  <2> HIDE DEF qs, types
  <2>4. /\ qs[i].type \in types
        /\ qs[i].type \in ChoiceTypes => qs[i].options # Null /\ Len(qs[i].options) \in 2..8
        /\ qs[i].type \notin ChoiceTypes => qs[i].options = Null
    BY <1>2, <2>3, OnlyOneKind
  <2>5. qs[i].options # Null => Unique(Ids(qs[i].options))
    BY <1>11 DEF OptionsCollide
  <2>6. qs[i].type \in TypesOf(request.team)
    BY <1>2, <2>4 DEF TypesOf
  <2>7. qs[i].type \in ChoiceTypes => Len(qs[i].options) \in 2..12
    BY <2>4
  <2> QED BY <2>1, <2>2, <2>4, <2>5, <2>6, <2>7 DEF BuilderQuestion
<1>13. /\ request.team = "blue" => Len(plan.events) \in 1..100
       /\ request.team # "blue" => Len(plan.events) = 0
       /\ Unique(Ids(plan.events))
  BY DEF Answered, SoundPlan, SoundEvents
<1>14. \A i \in DOMAIN events : events[i].stamp = "Z"
  BY DEF Stamped
<1>15. ForTheBuilder = {"token", "destination", "path", "address"} \cup {"active", "reference"}
                        \cup {"spelling"}
  BY DEF ForTheBuilder
<1> HIDE DEF doc, spec, qs, events, types
<1>16. BuilderEvents(spec) /\ BuilderTopology(spec)
  <2>1. Every(spec.events, LAMBDA e : e.stamp = "Z")
    BY <1>1, <1>14 DEF Every
  <2>2. spec.team = "blue" => Len(spec.events) \in 1..100 /\ Unique(Ids(spec.events))
    <3>1. /\ Len(spec.events) = Len(plan.events) /\ Ids(spec.events) = Ids(plan.events)
          /\ spec.team = request.team
      BY <1>1, <1>8, <1>9
    <3>2. /\ request.team = "blue" => Len(plan.events) \in 1..100
          /\ Unique(Ids(plan.events))
      BY <1>13
    <3> QED BY ONLY <3>1, <3>2
  <2>3. spec.team # "blue" => spec.events = <<>>
    <3>1. request.team # "blue" => Len(events) = 0
      BY <1>8, <1>13
    <3> QED BY <1>1, <1>8, <3>1
  <2>4. BuilderEvents(spec)
    BY <2>1, <2>2, <2>3 DEF BuilderEvents
  <2>5. BuilderTopology(spec)
    BY <1>1 DEF BuilderTopology
  <2> QED BY <2>4, <2>5
<1>17. /\ Len(spec.public) \in 1..20 /\ Unique(Ids(spec.public))
       /\ Len(spec.refs) = Len(spec.public) /\ Unique(spec.refs)
       /\ Among(spec.refs, Range(Ids(spec.public)))
       /\ Every(spec.public, LAMBDA q : BuilderQuestion(q, spec.team))
       /\ spec.team = "blue" => BlueTypes \subseteq TypesAsked(spec.public)
  <2>1. Len(qs) \in 1..20
    <3>1. CASE request.team = "blue"
      BY <1>10, <3>1
    <3>2. CASE request.team = "red"
      <4>1. Len(qs) >= 4 /\ Len(qs) <= 20
        BY <1>8, <1>10, <1>11, <3>2
      <4>2. \A n \in Nat : n >= 4 /\ n <= 20 => n \in 1..20
        OBVIOUS
      <4> QED BY <1>8, <4>1, <4>2
    <3> QED BY <1>2, <3>1, <3>2
  <2> QED BY <1>1, <1>2, <1>8, <1>9, <1>10, <1>12, <2>1 DEF Every, Among
<1>18. BuilderTarget(spec)
         <=> /\ spec.texts \cap {"token", "destination", "path", "address"} = {}
             /\ installs /\ BuilderProbes(spec.functional) /\ BuilderProbes(spec.vulnerable)
  <2> HIDE DEF installs
  <2> QED BY <1>1, <1>5, <1>6, <1>7, <1>11 DEF BuilderTarget, installs
<1>19. ComponentsResolve(spec, catalog)
         <=> installs /\ catalog.listed /\ "spelling" \notin spec.texts
  BY <1>1, <1>5 DEF ComponentsResolve
<1>20. /\ SpecParses(spec) <=> installs /\ BuilderProbes(spec.functional)
                                /\ BuilderProbes(spec.vulnerable) /\ readable
       /\ plain <=> readable /\ "spelling" \notin spec.texts
  <2>1. spec.texts \cap ForTheBuilder = {}
          <=> /\ spec.texts \cap {"token", "destination", "path", "address"} = {}
              /\ spec.texts \cap {"active", "reference"} = {}
              /\ "spelling" \notin spec.texts
    BY <1>15
  <2> HIDE DEF installs
  <2> QED BY <1>3, <1>4, <1>16, <1>17, <1>18, <2>1 DEF SpecParses, plain, readable
<1>21. OnlyTheBuilderRefuses(spec, catalog)
         <=> \/ ~BuilderProbes(spec.functional) \/ ~BuilderProbes(spec.vulnerable)
             \/ ~installs \/ ~plain \/ ~catalog.listed
  <2> DEFINE faulty(probes) ==
               ~Unique(Ids(probes)) \/ \E i \in DOMAIN probes : ~Unique(probes[i].statuses)
  <2>1. /\ BuilderProbes(spec.functional) <=> ~faulty(spec.functional)
        /\ BuilderProbes(spec.vulnerable) <=> ~faulty(spec.vulnerable)
    BY <1>1, <1>5, <1>6, ProbesAreRead
  <2>2. (\E i \in DOMAIN spec.events : spec.events[i].stamp # "Z") <=> FALSE
    BY <1>1, <1>14
  <2>3. spec.title = "active" \/ spec.texts \cap ForTheBuilder # {} <=> ~plain
    BY <1>1, <1>2
  <2>4. OnlyTheBuilderRefuses(spec, catalog)
          <=> \/ \E probes \in {spec.functional, spec.vulnerable} : faulty(probes)
              \/ spec.cves # {} /\ spec.components = <<>>
              \/ \E i \in DOMAIN spec.events : spec.events[i].stamp # "Z"
              \/ spec.title = "active" \/ spec.texts \cap ForTheBuilder # {}
              \/ ~catalog.listed
    BY DEF OnlyTheBuilderRefuses
  <2> HIDE DEF faulty, plain
  <2> QED BY <2>1, <2>2, <2>3, <2>4
<1> HIDE DEF installs, plain, readable
<1>22. SpecParses(spec) /\ ComponentsResolve(spec, catalog)
         <=> ~OnlyTheBuilderRefuses(spec, catalog)
  BY <1>19, <1>20, <1>21
<1> QED BY <1>22 DEF spec, doc

-----------------------------------------------------------------------------
(* The lab of a development deployment.                                    *)

LEMMA AllInTurn ==
    ASSUME NEW S, IsFiniteSet(S)
    PROVE  LET s == SetToSeq(S)
           IN /\ Cardinality(S) \in Nat /\ Len(s) = Cardinality(S) /\ DOMAIN s = 1..Cardinality(S)
              /\ Range(s) = S /\ Unique(s)
<1> DEFINE s == SetToSeq(S)
           n == Cardinality(S)
<1>1. n \in Nat /\ ExistsBijection(1..n, S)
  BY FS_CardinalityType
<1>2. \E f \in [1..n -> S] : IsInjective(f)
  BY <1>1 DEF ExistsBijection, Bijection, Injection
<1>3. s \in [1..n -> S] /\ IsInjective(s)
  BY <1>2 DEF SetToSeq
<1>4. s \in Injection(1..n, S)
  BY <1>3 DEF Injection
<1>5. IsFiniteSet(1..n) /\ Cardinality(1..n) = n
  BY <1>1, FS_Interval
<1>6. s \in Surjection(1..n, S)
  BY <1>4, <1>5, FS_Injection
<1>7. Range(s) = S
  BY <1>3, <1>6 DEF Range, Surjection
<1>8. s \in Seq(S) /\ Len(s) = n
  <2> HIDE DEF s, n
  <2>1. s \in Seq(S)
    BY <1>1, <1>3, SeqDef
  <2> QED BY <1>1, <1>3, <2>1, LenProperties
<1> QED BY <1>1, <1>3, <1>7, <1>8 DEF Unique

LEMMA PartsOfAQuestion ==
    ASSUME NEW id, NEW type, NEW field, NEW value
    PROVE  LET q == DraftQuestion(id, type, field, value)
           IN /\ q.id = id /\ q.type = type /\ q.options = Null
              /\ q = [id |-> id, type |-> type, options |-> Null, answer |-> q.answer]
BY DEF DraftQuestion

LEMMA PartsOfADraft ==
    ASSUME NEW request, NEW profile, NEW texts
    PROVE  LET plan == DraftPlan(request, profile, texts)
               doc == AssembledLab(plan, request)
               draft == GeneratedDraft(request, profile, texts)
               events == Stamped(plan.events, "offset")
           IN /\ draft.team = doc.team /\ draft.types = doc.types /\ draft.scope = doc.scope
              /\ draft.title = doc.title /\ draft.texts = doc.texts
              /\ draft.sources = doc.sources /\ draft.chain = doc.chain
              /\ draft.sections = doc.sections /\ draft.public = doc.public
              /\ draft.grading = doc.grading
              /\ draft.topology = Topology(request.team, events)
              /\ draft.spec.team = doc.spec.team /\ draft.spec.cves = doc.spec.cves
              /\ draft.spec.chain = doc.spec.chain
              /\ draft.spec.title = doc.spec.title /\ draft.spec.texts = doc.spec.texts
              /\ draft.spec.sections = doc.spec.sections /\ draft.spec.public = doc.spec.public
              /\ draft.spec.refs = doc.spec.refs /\ draft.spec.events = events
              /\ draft.spec.topology = Topology(request.team, events)
              /\ draft.spec.components = doc.spec.components
              /\ draft.spec.functional = doc.spec.functional
              /\ draft.spec.vulnerable = doc.spec.vulnerable
<1> DEFINE plan == DraftPlan(request, profile, texts)
           doc == AssembledLab(plan, request)
           draft == GeneratedDraft(request, profile, texts)
           events == Stamped(plan.events, "offset")
           topology == Topology(request.team, events)
<1>1. /\ DOMAIN doc = {"team", "types", "scope", "title", "texts", "sources", "chain", "sections",
                       "public", "grading", "topology", "spec"}
      /\ DOMAIN doc.spec = {"team", "cves", "prompt", "chain", "title", "texts", "sections",
                            "public", "refs", "events", "topology", "components", "functional",
                            "vulnerable"}
  <2> HIDE DEF plan
  <2> QED BY DEF AssembledLab
<1>2. draft = [doc EXCEPT !.topology = topology, !.spec.events = events,
                          !.spec.topology = topology]
  BY DEF GeneratedDraft
<1> HIDE DEF plan, doc, draft, events, topology
<1>3. draft.topology = topology
  BY <1>1, <1>2
<1>4. draft.spec = [[doc.spec EXCEPT !.events = events] EXCEPT !.topology = topology]
  BY <1>1, <1>2
<1>5. /\ draft.team = doc.team /\ draft.types = doc.types /\ draft.scope = doc.scope
      /\ draft.title = doc.title /\ draft.texts = doc.texts
      /\ draft.sources = doc.sources /\ draft.chain = doc.chain
      /\ draft.sections = doc.sections /\ draft.public = doc.public
      /\ draft.grading = doc.grading
  BY <1>1, <1>2
<1>6. /\ draft.spec.events = events /\ draft.spec.topology = topology
      /\ draft.spec.team = doc.spec.team /\ draft.spec.cves = doc.spec.cves
      /\ draft.spec.chain = doc.spec.chain
      /\ draft.spec.title = doc.spec.title /\ draft.spec.texts = doc.spec.texts
      /\ draft.spec.sections = doc.spec.sections /\ draft.spec.public = doc.spec.public
      /\ draft.spec.refs = doc.spec.refs
      /\ draft.spec.components = doc.spec.components
      /\ draft.spec.functional = doc.spec.functional
      /\ draft.spec.vulnerable = doc.spec.vulnerable
  BY <1>1, <1>4
<1> QED BY <1>3, <1>5, <1>6 DEF plan, doc, draft, events, topology

LEMMA FourTypesAtMost ==
    ASSUME NEW types \in SUBSET RedTypes, types # {}
    PROVE  IsFiniteSet(types) /\ Cardinality(types) \in 1..4
<1>1. IsFiniteSet({"single_choice"}) /\ Cardinality({"single_choice"}) = 1
  BY FS_Singleton
<1> DEFINE two == {"single_choice"} \cup {"multiple_choice"}
           three == two \cup {"free_text"}
           four == three \cup {"mitre_attack"}
<1>2. IsFiniteSet(two) /\ Cardinality(two) <= 2 /\ Cardinality(two) \in Nat
  <2>1. IsFiniteSet(two) /\ Cardinality(two) = (IF "multiple_choice" \in {"single_choice"} THEN 1 ELSE 2)
    BY <1>1, FS_AddElement
  <2> QED BY <2>1, FS_CardinalityType
<1> HIDE DEF two
<1>3. IsFiniteSet(three) /\ Cardinality(three) <= 3 /\ Cardinality(three) \in Nat
  <2>1. /\ IsFiniteSet(three)
        /\ Cardinality(three) = (IF "free_text" \in two THEN Cardinality(two) ELSE Cardinality(two) + 1)
    BY <1>2, FS_AddElement
  <2> HIDE DEF three
  <2>2. Cardinality(three) \in Nat
    BY <2>1, FS_CardinalityType
  <2> QED BY <1>2, <2>1, <2>2
<1> HIDE DEF three
<1>4. IsFiniteSet(four) /\ Cardinality(four) <= 4 /\ Cardinality(four) \in Nat
  <2>1. /\ IsFiniteSet(four)
        /\ Cardinality(four) = (IF "mitre_attack" \in three THEN Cardinality(three) ELSE Cardinality(three) + 1)
    BY <1>3, FS_AddElement
  <2> HIDE DEF four
  <2>2. Cardinality(four) \in Nat
    BY <2>1, FS_CardinalityType
  <2> QED BY <1>3, <2>1, <2>2
<1>5. types \in SUBSET four
  BY DEF RedTypes, four, three, two
<1> HIDE DEF four
<1>6. IsFiniteSet(types) /\ Cardinality(types) <= Cardinality(four)
  BY <1>4, <1>5, FS_Subset
<1>7. Cardinality(types) \in Nat /\ Cardinality(types) # 0
  BY <1>6, FS_CardinalityType, FS_EmptySet
<1> QED BY <1>4, <1>6, <1>7

\* The options a red question of the draft offers.
Offered == [i \in 1..4 |-> [id |-> <<"a", "b", "c", "d">>[i]]]

LEMMA FourAreOffered == Len(Offered) = 4 /\ Unique(Ids(Offered)) /\ Offered # Null
<1>1. DOMAIN Offered = 1..4 /\ Offered = [i \in DOMAIN Offered |-> Offered[i]]
  BY DEF Offered
<1>2. Len(Offered) = 4
  BY <1>1, LongAs
<1>3. Unique(Ids(Offered))
  BY DEF Offered, Ids, Unique, IsInjective
<1>4. 2 \notin DOMAIN Null /\ 2 \in DOMAIN Offered
  BY <1>1 DEF Null
<1>5. Offered # Null
  BY <1>4
<1> QED BY <1>2, <1>3, <1>5

LEMMA RedQuestionsInTurn ==
    ASSUME NEW types \in SUBSET RedTypes, types # {}, NEW chain
    PROVE  LET qs == RedQuestions(types, chain)
           IN /\ DOMAIN qs = 1..4 /\ Len(qs) = 4 /\ qs \in Seq(Range(qs))
              /\ Unique(Ids(qs)) /\ TypesAsked(qs) = types
              /\ \A i \in 1..4 :
                   IF qs[i].type \in ChoiceTypes THEN qs[i].options = Offered
                   ELSE qs[i].options = Null
<1> DEFINE qs == RedQuestions(types, chain)
           asked == SetToSeq(types)
           size == IF Len(asked) < 4 THEN 4 ELSE Len(asked)
           names == <<"red-q1", "red-q2", "red-q3", "red-q4">>
           turn(i) == ((i - 1) % Len(asked)) + 1
<1>1. /\ Len(asked) \in 1..4 /\ DOMAIN asked = 1..Len(asked) /\ Range(asked) = types
  <2>1. IsFiniteSet(types) /\ Cardinality(types) \in 1..4
    BY FourTypesAtMost
  <2>2. /\ Len(asked) = Cardinality(types) /\ DOMAIN asked = 1..Cardinality(types)
        /\ Range(asked) = types
    BY <2>1, AllInTurn
  <2> HIDE DEF asked
  <2> QED BY <2>1, <2>2
<1>2. size = 4
  <2> HIDE DEF asked
  <2> QED BY <1>1
<1>3. /\ DOMAIN qs = 1..size
      /\ qs = [i \in DOMAIN qs |-> qs[i]]
  BY DEF RedQuestions
<1>4. ASSUME NEW i \in 1..4
      PROVE  /\ qs[i].id = names[i] /\ qs[i].type = asked[turn(i)]
             /\ IF qs[i].type \in ChoiceTypes THEN qs[i].options = Offered
                ELSE qs[i].options = Null
  <2> DEFINE type == asked[turn(i)]
             id == names[i]
             Written(field, value) == DraftQuestion(id, type, field, value)
  <2>1. qs[i] = CASE type = "single_choice" ->
                        [Written("optionIds", <<"a">>) EXCEPT !.options = Offered]
                  [] type = "multiple_choice" ->
                        [Written("optionIds", <<"a", "b", "c">>) EXCEPT !.options = Offered]
                  [] type = "mitre_attack" -> Written("techniqueIds", <<chain[1]>>)
                  [] OTHER -> Written("rubric", id \o "-analysis-v2")
    BY <1>2 DEF RedQuestions, Offered
  <2> HIDE DEF qs, type, id
  <2>2. \A field, value :
          /\ Written(field, value).id = id /\ Written(field, value).type = type
          /\ Written(field, value).options = Null
          /\ [Written(field, value) EXCEPT !.options = Offered].id = id
          /\ [Written(field, value) EXCEPT !.options = Offered].type = type
          /\ [Written(field, value) EXCEPT !.options = Offered].options = Offered
    <3> TAKE field, value
    <3>1. LET q == DraftQuestion(id, type, field, value)
          IN /\ q.id = id /\ q.type = type /\ q.options = Null
             /\ q = [id |-> id, type |-> type, options |-> Null, answer |-> q.answer]
      BY PartsOfAQuestion
    <3> DEFINE q == Written(field, value)
    <3>2. /\ q.id = id /\ q.type = type /\ q.options = Null
          /\ q = [id |-> id, type |-> type, options |-> Null, answer |-> q.answer]
      BY <3>1
    <3> HIDE DEF q
    <3>3. /\ [q EXCEPT !.options = Offered].id = id
          /\ [q EXCEPT !.options = Offered].type = type
          /\ [q EXCEPT !.options = Offered].options = Offered
      BY <3>2
    <3> QED BY <3>2, <3>3 DEF q
  <2> HIDE DEF Written
  <2>3. CASE type = "single_choice"
    BY <2>1, <2>2, <2>3 DEF ChoiceTypes, type, id
  <2>4. CASE type = "multiple_choice"
    BY <2>1, <2>2, <2>4 DEF ChoiceTypes, type, id
  <2>5. CASE type = "mitre_attack"
    BY <2>1, <2>2, <2>5 DEF ChoiceTypes, type, id
  <2>6. CASE type \notin {"single_choice", "multiple_choice", "mitre_attack"}
    BY <2>1, <2>2, <2>6 DEF ChoiceTypes, type, id
  <2> QED BY <2>3, <2>4, <2>5, <2>6
<1>5. DOMAIN qs = 1..4 /\ Len(qs) = 4 /\ qs \in Seq(Range(qs))
  <2> HIDE DEF qs, size
  <2>1. DOMAIN qs = 1..4 /\ qs = [i \in DOMAIN qs |-> qs[i]]
    BY <1>2, <1>3
  <2> QED BY <2>1, LongAs
<1>6. Unique(Ids(qs))
  <2>1. DOMAIN Ids(qs) = 1..4 /\ \A i \in 1..4 : Ids(qs)[i] = names[i]
    BY <1>4, <1>5 DEF Ids
  <2>2. \A i, j \in 1..4 : names[i] = names[j] => i = j
    OBVIOUS
  <2> HIDE DEF qs, names
  <2> QED BY <2>1, <2>2 DEF Unique, IsInjective
<1>7. TypesAsked(qs) = types
  <2>1. \A n \in 1..4, i \in 1..4 : ((i - 1) % n) + 1 \in 1..n
    OBVIOUS
  <2>2. \A n \in 1..4 : \A i \in 1..n : i \in 1..4 /\ ((i - 1) % n) + 1 = i
    OBVIOUS
  <2>3. TypesAsked(qs) = {qs[i].type : i \in 1..4}
    BY <1>5 DEF TypesAsked
  <2>4. Range(asked) = {asked[i] : i \in 1..Len(asked)}
    BY <1>1 DEF Range
  <2> HIDE DEF qs, asked
  <2>5. \A i \in 1..4 : qs[i].type \in types
    BY <1>1, <1>4, <2>1, <2>4
  <2>6. \A i \in 1..Len(asked) : qs[i].type = asked[i] /\ i \in 1..4
    BY <1>1, <1>4, <2>2
  <2> QED BY <1>1, <2>3, <2>4, <2>5, <2>6
<1> HIDE DEF qs
<1> QED BY <1>4, <1>5, <1>6, <1>7 DEF qs

LEMMA BlueQuestionsInTurn ==
    ASSUME NEW chain, NEW events
    PROVE  LET qs == BlueQuestions(chain, events)
           IN /\ DOMAIN qs = 1..6 /\ Len(qs) = 6 /\ qs \in Seq(Range(qs))
              /\ Unique(Ids(qs)) /\ TypesAsked(qs) = BlueTypes
              /\ \A i \in 1..6 : qs[i].options = Null
<1> DEFINE qs == BlueQuestions(chain, events)
           ids == Ids(events)
           q1 == DraftQuestion("elk-entry", "elk_search", "evidenceIds", SubSeq(ids, 1, 2))
           q2 == DraftQuestion("elk-execution", "elk_search", "evidenceIds", SubSeq(ids, 2, 3))
           q3 == DraftQuestion("elk-impact", "elk_search", "evidenceIds", SubSeq(ids, 4, 6))
           q4 == DraftQuestion("mitre-entry", "mitre_attack", "techniqueIds", <<chain[1]>>)
           q5 == DraftQuestion("mitre-execution", "mitre_attack", "techniqueIds", <<chain[2]>>)
           q6 == DraftQuestion("mitre-chain", "mitre_attack", "techniqueIds", SubSeq(chain, 1, 3))
<1>1. qs = <<q1, q2, q3, q4, q5, q6>>
  BY DEF BlueQuestions
<1>2. /\ q1.id = "elk-entry" /\ q2.id = "elk-execution" /\ q3.id = "elk-impact"
      /\ q4.id = "mitre-entry" /\ q5.id = "mitre-execution" /\ q6.id = "mitre-chain"
      /\ q1.type = "elk_search" /\ q2.type = "elk_search" /\ q3.type = "elk_search"
      /\ q4.type = "mitre_attack" /\ q5.type = "mitre_attack" /\ q6.type = "mitre_attack"
      /\ q1.options = Null /\ q2.options = Null /\ q3.options = Null
      /\ q4.options = Null /\ q5.options = Null /\ q6.options = Null
  BY PartsOfAQuestion
<1> HIDE DEF q1, q2, q3, q4, q5, q6, qs
<1>3. /\ DOMAIN qs = 1..6 /\ Len(qs) = 6 /\ qs \in Seq(Range(qs))
  <2>1. qs = [i \in 1..6 |-> qs[i]] /\ DOMAIN qs = 1..6
    BY <1>1
  <2> QED BY <2>1, LongAs
<1>4. /\ qs[1] = q1 /\ qs[2] = q2 /\ qs[3] = q3 /\ qs[4] = q4 /\ qs[5] = q5 /\ qs[6] = q6
  BY <1>1
<1>5. \A i \in 1..6 : i = 1 \/ i = 2 \/ i = 3 \/ i = 4 \/ i = 5 \/ i = 6
  OBVIOUS
<1>6. \A i \in 1..6 : qs[i].options = Null
  BY <1>2, <1>4, <1>5
<1>7. TypesAsked(qs) = BlueTypes
  BY <1>2, <1>3, <1>4, <1>5 DEF TypesAsked, BlueTypes
<1>8. Unique(Ids(qs))
  BY <1>2, <1>3, <1>4, <1>5 DEF Unique, IsInjective, Ids
<1> QED BY <1>3, <1>6, <1>7, <1>8 DEF qs

\* The questions of the draft, of either team.
LEMMA QuestionsOfADraft ==
    ASSUME NEW request \in RequestForms, NEW catalog, SoundInput(request, catalog), NEW profile,
           NEW texts
    PROVE  LET qs == DraftPlan(request, profile, texts).questions
           IN /\ qs \in Seq(Range(qs)) /\ Len(qs) \in 4..6 /\ DOMAIN qs = 1..Len(qs)
              /\ Unique(Ids(qs)) /\ TypesAsked(qs) = request.types
              /\ \A i \in DOMAIN qs :
                   IF qs[i].type \in ChoiceTypes THEN qs[i].options = Offered
                   ELSE qs[i].options = Null
<1> DEFINE qs == DraftPlan(request, profile, texts).questions
<1>1. /\ request.types # {} /\ request.team \in {"blue", "red"}
      /\ request.team = "blue" => request.types = BlueTypes
      /\ request.team = "red" => request.types \subseteq RedTypes
  BY TwoTeams
<1>2. CASE request.team = "blue"
  <2> DEFINE chain == BlueChain(profile)
             signals == SignalEvents(chain, profile)
             blue == BlueQuestions(chain, signals)
  <2>1. qs = blue
    BY <1>2 DEF DraftPlan
  <2>2. /\ DOMAIN blue = 1..6 /\ Len(blue) = 6 /\ blue \in Seq(Range(blue))
        /\ Unique(Ids(blue)) /\ TypesAsked(blue) = BlueTypes
        /\ \A i \in 1..6 : blue[i].options = Null
    BY BlueQuestionsInTurn
  <2> HIDE DEF qs, blue
  <2>3. \A i \in 1..6 : blue[i].type \notin ChoiceTypes
    <3>1. \A i \in 1..6 : blue[i].type \in TypesAsked(blue)
      BY <2>2 DEF TypesAsked
    <3> QED BY <2>2, <3>1 DEF BlueTypes, ChoiceTypes
  <2> QED BY <1>1, <1>2, <2>1, <2>2, <2>3 DEF qs
<1>3. CASE request.team = "red"
  <2> DEFINE red == RedQuestions(request.types, RedChain)
  <2>1. qs = red
    BY <1>3 DEF DraftPlan
  <2>2. /\ DOMAIN red = 1..4 /\ Len(red) = 4 /\ red \in Seq(Range(red))
        /\ Unique(Ids(red)) /\ TypesAsked(red) = request.types
        /\ \A i \in 1..4 : IF red[i].type \in ChoiceTypes THEN red[i].options = Offered
                           ELSE red[i].options = Null
    BY <1>1, <1>3, RedQuestionsInTurn
  <2> HIDE DEF qs, red
  <2> QED BY <2>1, <2>2 DEF qs
<1> QED BY <1>1, <1>2, <1>3

\* The rest of it.
LEMMA PlanOfADraft ==
    ASSUME NEW request \in RequestForms, NEW profile, NEW texts, IsFiniteSet(request.cves)
    PROVE  LET plan == DraftPlan(request, profile, texts)
               stamped == Stamped(plan.events, "offset")
           IN /\ plan.sources = 5 /\ plan.texts = texts /\ plan.components = <<>>
              /\ plan.chain # <<>>
              /\ plan.sections = DraftSections(request.team)
              /\ Len(plan.sections) \in 5..6 /\ Every(plan.sections, Fits)
              /\ plan.functional = DraftProbes(request.cves).functional
              /\ plan.vulnerable = DraftProbes(request.cves).vulnerable
              /\ plan.functional # <<>> /\ plan.vulnerable # <<>>
              /\ IF request.team = "blue" THEN 1 \in DOMAIN stamped /\ stamped[1].stamp = "offset"
                 ELSE plan.chain = RedChain /\ stamped = <<>>
<1> DEFINE plan == DraftPlan(request, profile, texts)
           stamped == Stamped(plan.events, "offset")
<1>1. /\ plan.sources = 5 /\ plan.texts = texts /\ plan.components = <<>>
      /\ plan.chain = (IF request.team = "blue" THEN BlueChain(profile) ELSE RedChain)
      /\ plan.sections = DraftSections(request.team)
      /\ plan.events = (IF request.team = "blue" THEN SignalEvents(BlueChain(profile), profile)
                        ELSE <<>>)
      /\ plan.functional = DraftProbes(request.cves).functional
      /\ plan.vulnerable = DraftProbes(request.cves).vulnerable
  BY DEF DraftPlan
<1>2. BlueChain(profile) # <<>> /\ RedChain # <<>>
  BY DEF BlueChain, RedChain
<1>3. Len(DraftSections(request.team)) \in 5..6 /\ Every(DraftSections(request.team), Fits)
  <2>1. DraftSections(request.team) \in {DraftSections("blue"), DraftSections("red")}
    BY DEF DraftSections
  <2>2. Len(DraftSections(request.team)) \in 5..6
    BY DEF DraftSections
  <2>3. LongIds \cap Range(DraftSections(request.team)) = {}
    BY <2>1, OwnNamesAreShort
  <2> QED BY <2>2, <2>3 DEF Every, Fits, Range
<1>4. DraftProbes(request.cves).functional # <<>> /\ DraftProbes(request.cves).vulnerable # <<>>
  <2>1. 1 \in DOMAIN DraftProbes(request.cves).functional
    BY DEF DraftProbes
  <2>2. 1 \in DOMAIN DraftProbes(request.cves).vulnerable
    <3>1. CASE request.cves = {}
      BY <3>1 DEF DraftProbes
    <3>2. CASE request.cves # {}
      <4> DEFINE listed == SetToSeq(request.cves)
      <4>1. /\ DOMAIN listed = 1..Cardinality(request.cves)
            /\ Cardinality(request.cves) \in Nat
        BY AllInTurn
      <4>2. Cardinality(request.cves) # 0
        BY <3>2, FS_EmptySet
      <4>3. DOMAIN DraftProbes(request.cves).vulnerable = DOMAIN listed
        BY <3>2 DEF DraftProbes
      <4> HIDE DEF listed
      <4> QED BY <4>1, <4>2, <4>3
    <3> QED BY <3>1, <3>2
  <2>3. \A s : 1 \in DOMAIN s => s # <<>>
    BY DEF Null
  <2> HIDE DEF plan
  <2> QED BY <2>1, <2>2, <2>3
<1>5. ASSUME request.team = "blue" PROVE 1 \in DOMAIN stamped /\ stamped[1].stamp = "offset"
  <2>1. 1 \in DOMAIN plan.events
    <3> HIDE DEF plan
    <3> QED BY <1>1, <1>5 DEF SignalEvents
  <2> HIDE DEF plan
  <2> QED BY <2>1 DEF Stamped
<1>6. ASSUME request.team # "blue" PROVE stamped = <<>>
  <2> HIDE DEF plan
  <2>1. DOMAIN plan.events = {}
    BY <1>1, <1>6
  <2>2. DOMAIN stamped = {} /\ stamped = [i \in {} |-> stamped[i]]
    BY <2>1 DEF Stamped
  <2> HIDE DEF stamped
  <2> QED BY <2>2
<1> HIDE DEF plan, stamped
<1> QED BY <1>1, <1>2, <1>3, <1>4, <1>5, <1>6 DEF plan, stamped

\* Nor does the API find fault with the lab of a development deployment.
LEMMA ApiAcceptsDrafts ==
    ASSUME NEW request \in RequestForms, NEW catalog, SoundInput(request, catalog), NEW profile,
           NEW texts, IsFiniteSet(request.cves)
    PROVE  ApiAccepts(GeneratedDraft(request, profile, texts), request)
<1> DEFINE draft == GeneratedDraft(request, profile, texts)
           plan == DraftPlan(request, profile, texts)
           doc == AssembledLab(plan, request)
           qs == plan.questions
           stamped == Stamped(plan.events, "offset")
           types == request.types
<1>1. /\ draft.team = doc.team /\ draft.types = doc.types /\ draft.title = doc.title
      /\ draft.texts = doc.texts /\ draft.sources = doc.sources /\ draft.chain = doc.chain
      /\ draft.sections = doc.sections /\ draft.public = doc.public
      /\ draft.grading = doc.grading
      /\ draft.topology = Topology(request.team, stamped)
      /\ draft.spec.team = doc.spec.team
      /\ draft.spec.chain = doc.spec.chain /\ draft.spec.title = doc.spec.title
      /\ draft.spec.texts = doc.spec.texts /\ draft.spec.sections = doc.spec.sections
      /\ draft.spec.public = doc.spec.public /\ draft.spec.refs = doc.spec.refs
      /\ draft.spec.events = stamped
      /\ draft.spec.functional = doc.spec.functional
      /\ draft.spec.vulnerable = doc.spec.vulnerable
  BY PartsOfADraft
<1>2. /\ doc.team = request.team /\ doc.types = types /\ doc.sources = plan.sources
      /\ doc.chain = plan.chain /\ doc.sections = plan.sections
      /\ doc.public = Public(qs) /\ doc.grading = Hidden(qs)
      /\ doc.spec.team = request.team /\ doc.spec.title = doc.title
      /\ doc.spec.texts = doc.texts /\ doc.spec.sections = doc.sections
      /\ doc.spec.public = doc.public /\ doc.spec.chain = doc.chain
      /\ doc.spec.refs = Ids(Public(qs))
      /\ doc.spec.functional = plan.functional /\ doc.spec.vulnerable = plan.vulnerable
  BY PartsOfALab
<1>3. /\ plan.sources = 5 /\ plan.chain # <<>>
      /\ Len(plan.sections) \in 5..6 /\ Every(plan.sections, Fits)
      /\ plan.functional # <<>> /\ plan.vulnerable # <<>>
      /\ IF request.team = "blue" THEN TRUE ELSE stamped = <<>>
  BY PlanOfADraft
<1>4. /\ qs \in Seq(Range(qs)) /\ Len(qs) \in 4..6 /\ DOMAIN qs = 1..Len(qs)
      /\ Unique(Ids(qs)) /\ TypesAsked(qs) = types
      /\ \A i \in DOMAIN qs : IF qs[i].type \in ChoiceTypes THEN qs[i].options = Offered
                              ELSE qs[i].options = Null
  BY QuestionsOfADraft
<1>5. /\ DOMAIN Public(qs) = 1..Len(qs) /\ Len(Public(qs)) = Len(qs)
      /\ DOMAIN Hidden(qs) = 1..Len(qs) /\ Len(Hidden(qs)) = Len(qs)
      /\ Len(Ids(qs)) = Len(qs)
  BY <1>4, WrittenOut
<1>6. /\ Ids(Public(qs)) = Ids(qs) /\ Ids(Hidden(qs)) = Ids(qs)
      /\ TypesAsked(Public(qs)) = TypesAsked(qs)
  BY SameNames
<1>7. Cardinality(types) \in Nat /\ Cardinality(types) <= 4
  <2>1. CASE request.team = "blue"
    <3>1. types = {"mitre_attack"} \cup {"elk_search"}
      BY <2>1, TwoTeams DEF BlueTypes
    <3>2. IsFiniteSet({"mitre_attack"}) /\ Cardinality({"mitre_attack"}) = 1
      BY FS_Singleton
    <3>3. /\ IsFiniteSet({"mitre_attack"} \cup {"elk_search"})
          /\ Cardinality({"mitre_attack"} \cup {"elk_search"}) <= 2
      BY <3>2, FS_AddElement
    <3>4. IsFiniteSet(types) /\ Cardinality(types) <= 2
      BY <3>1, <3>3
    <3>5. Cardinality(types) \in Nat
      BY <3>4, FS_CardinalityType
    <3> QED BY <3>4, <3>5
  <2>2. CASE request.team = "red"
    <3>1. types \in SUBSET RedTypes /\ types # {}
      BY <2>2, TwoTeams
    <3>2. Cardinality(types) \in 1..4
      BY <3>1, FourTypesAtMost
    <3> QED BY <3>2
  <2> QED BY <2>1, <2>2, TwoTeams
<1>8. ASSUME NEW i \in DOMAIN qs
      PROVE  /\ Public(qs)[i].id = Hidden(qs)[i].id /\ Public(qs)[i].type = Hidden(qs)[i].type
             /\ Public(qs)[i].type \in ChoiceTypes => Len(Public(qs)[i].options) \in 2..8
  <2>1. Public(qs)[i] = Posed(qs[i]) /\ Hidden(qs)[i] = Graded(qs[i])
    BY RepeatedForEach
  <2>2. \A q : /\ Posed(q).id = q.id /\ Posed(q).type = q.type /\ Posed(q).options = q.options
               /\ Graded(q).id = q.id /\ Graded(q).type = q.type
    BY DEF Posed, Graded
  <2>3. Len(Offered) \in 2..8
    BY FourAreOffered
  <2> HIDE DEF qs
  <2> QED BY <1>4, <2>1, <2>2, <2>3
<1>9. /\ Topology(request.team, stamped).team = request.team
      /\ Topology(request.team, stamped).events = stamped
  BY DEF Topology
<1> HIDE DEF draft, doc, plan, qs, stamped, types
<1>10. ApiTopology(draft, request)
  BY <1>1, <1>3, <1>9 DEF ApiTopology
<1>11. Len(draft.public) \in Cardinality(types)..20
  <2>1. \A m, n \in Nat : m <= 4 /\ n \in 4..6 => n \in m..20
    OBVIOUS
  <2>2. Len(draft.public) = Len(qs) /\ Len(qs) \in Nat
    BY <1>1, <1>2, <1>4, <1>5
  <2> QED BY <1>4, <1>7, <2>1, <2>2
<1>12. ApiQuestions(draft, request)
  BY <1>1, <1>2, <1>4, <1>5, <1>6, <1>8, <1>11 DEF ApiQuestions, Every, types
<1>13. ApiLearning(draft)
  <2>1. \A n : n \in 5..6 => n \in 2..12
    OBVIOUS
  <2> QED BY <1>1, <1>2, <1>3, <2>1 DEF ApiLearning
<1>14. ApiBuildSpec(draft, request)
  BY <1>1, <1>2, <1>3, <1>5, <1>6 DEF ApiBuildSpec
<1>15. /\ draft.team = request.team /\ draft.types = request.types
       /\ request.team = "blue" => draft.sources >= 4
       /\ draft.chain # <<>>
  BY <1>1, <1>2, <1>3 DEF types
<1>16. ApiAccepts(draft, request)
  BY <1>10, <1>12, <1>13, <1>14, <1>15 DEF ApiAccepts
<1> QED BY <1>16 DEF draft

\* The build service refuses such a lab for the known reasons only: a lab of
\* the blue team for its events, one with a CVE for having nothing to install,
\* and one whose prompt has active content for that.
LEMMA BuilderRefusesDrafts ==
    ASSUME NEW request \in RequestForms, NEW catalog, SoundInput(request, catalog), NEW profile,
           NEW texts, IsFiniteSet(request.cves)
    PROVE  LET spec == GeneratedDraft(request, profile, texts).spec
           IN SpecParses(spec) /\ ComponentsResolve(spec, catalog)
                <=> ~OnlyTheBuilderRefuses(spec, catalog)
<1> DEFINE draft == GeneratedDraft(request, profile, texts)
           spec == draft.spec
           plan == DraftPlan(request, profile, texts)
           doc == AssembledLab(plan, request)
           qs == plan.questions
           stamped == Stamped(plan.events, "offset")
<1>1. /\ spec.team = doc.spec.team /\ spec.cves = doc.spec.cves
      /\ spec.chain = doc.spec.chain /\ spec.title = doc.spec.title
      /\ spec.texts = doc.spec.texts /\ spec.sections = doc.spec.sections
      /\ spec.public = doc.spec.public /\ spec.refs = doc.spec.refs
      /\ spec.events = stamped /\ spec.topology = Topology(request.team, stamped)
      /\ spec.components = doc.spec.components
      /\ spec.functional = doc.spec.functional /\ spec.vulnerable = doc.spec.vulnerable
  BY PartsOfADraft
<1>2. /\ doc.spec.team = request.team /\ doc.spec.cves = request.cves
      /\ doc.spec.chain = plan.chain /\ doc.spec.title = request.title
      /\ doc.spec.texts = plan.texts /\ doc.spec.sections = plan.sections
      /\ doc.spec.public = Public(qs) /\ doc.spec.refs = Ids(Public(qs))
      /\ doc.spec.components = plan.components
      /\ doc.spec.functional = plan.functional /\ doc.spec.vulnerable = plan.vulnerable
  BY PartsOfALab
<1>3. /\ plan.texts = texts /\ plan.components = <<>>
      /\ plan.sections = DraftSections(request.team)
      /\ plan.functional = DraftProbes(request.cves).functional
      /\ plan.vulnerable = DraftProbes(request.cves).vulnerable
      /\ IF request.team = "blue" THEN 1 \in DOMAIN stamped /\ stamped[1].stamp = "offset"
         ELSE plan.chain = RedChain /\ stamped = <<>>
  BY PlanOfADraft
<1>4. /\ qs \in Seq(Range(qs)) /\ Len(qs) \in 4..6 /\ DOMAIN qs = 1..Len(qs)
      /\ Unique(Ids(qs)) /\ TypesAsked(qs) = request.types
      /\ \A i \in DOMAIN qs : IF qs[i].type \in ChoiceTypes THEN qs[i].options = Offered
                              ELSE qs[i].options = Null
  BY QuestionsOfADraft
<1>5. /\ DOMAIN Public(qs) = 1..Len(qs) /\ Len(Public(qs)) = Len(qs)
      /\ Len(Ids(qs)) = Len(qs) /\ Ids(Public(qs)) = Ids(qs)
      /\ TypesAsked(Public(qs)) = TypesAsked(qs)
  BY <1>4, WrittenOut, SameNames
<1>6. /\ request.team \in {"blue", "red"} /\ request.title \in {"plain", "active"}
      /\ request.team = "red" => request.types \subseteq RedTypes
  BY TwoTeams
<1>7. ASSUME NEW i \in DOMAIN qs, request.team = "red"
      PROVE  BuilderQuestion(Public(qs)[i], request.team)
  <2>1. Public(qs)[i] = Posed(qs[i])
    BY RepeatedForEach
  <2>2. \A q : Posed(q).type = q.type /\ Posed(q).options = q.options
    BY DEF Posed
  <2> HIDE DEF qs
  <2>3. Len(Offered) \in 2..12 /\ Unique(Ids(Offered)) /\ Offered # Null
    BY FourAreOffered
  <2>4. qs[i].type \in TypesOf(request.team)
    BY <1>4, <1>6, <1>7 DEF TypesOf, TypesAsked
  <2> QED BY <1>4, <2>1, <2>2, <2>3, <2>4 DEF BuilderQuestion
<1> HIDE DEF draft, doc, plan, spec, qs, stamped
<1>8. CASE request.team = "blue"
  <2>1. 1 \in DOMAIN spec.events /\ spec.events[1].stamp # "Z" /\ spec.team = "blue"
    BY <1>1, <1>2, <1>3, <1>8
  <2>2. OnlyTheBuilderRefuses(spec, catalog)
    BY <2>1 DEF OnlyTheBuilderRefuses
  <2>3. ~BuilderEvents(spec)
    BY <2>1 DEF BuilderEvents, Every
  <2> QED BY <2>2, <2>3 DEF SpecParses, spec, draft
<1>9. CASE request.cves # {}
  <2>1. spec.cves # {} /\ spec.components = <<>>
    BY <1>1, <1>2, <1>3, <1>9
  <2>2. OnlyTheBuilderRefuses(spec, catalog) /\ ~ComponentsResolve(spec, catalog)
    BY <2>1 DEF OnlyTheBuilderRefuses, ComponentsResolve
  <2> QED BY <2>2 DEF spec, draft
<1>10. CASE request.team = "red" /\ request.cves = {}
  <2>1. Len(spec.chain) \in 1..30 /\ Unique(spec.chain)
    <3>1. Len(RedChain) \in 1..30 /\ Unique(RedChain)
      BY DEF RedChain, Unique, IsInjective
    <3> QED BY <1>1, <1>2, <1>3, <1>10, <3>1
  <2>2. Len(spec.sections) \in 1..30 /\ Unique(spec.sections)
    <3>1. Len(DraftSections("red")) \in 1..30 /\ Unique(DraftSections("red"))
      BY DEF DraftSections, Unique, IsInjective
    <3> QED BY <1>1, <1>2, <1>3, <1>10, <3>1
  <2>3. BuilderEvents(spec) /\ BuilderTopology(spec)
    BY <1>1, <1>2, <1>3, <1>10 DEF BuilderEvents, BuilderTopology
  <2>4. /\ spec.functional = DraftProbes({}).functional
        /\ spec.vulnerable = DraftProbes({}).vulnerable
        /\ spec.components = <<>> /\ spec.cves = {}
    BY <1>1, <1>2, <1>3, <1>10
  <2>5. /\ \A i \in DOMAIN spec.functional :
             spec.functional[i].id \notin LongIds /\ Len(spec.functional[i].statuses) \in 1..8
        /\ \A i \in DOMAIN spec.vulnerable :
             spec.vulnerable[i].id \notin LongIds /\ Len(spec.vulnerable[i].statuses) \in 1..8
        /\ Every(spec.vulnerable, LAMBDA p : p.cve # None \/ p.finding # None)
        /\ Len(spec.functional) \in 1..20 /\ Len(spec.vulnerable) \in 1..20
    <3>1. /\ "target-health" \notin LongIds /\ "fingerprint" \notin LongIds
      BY OwnNamesAreShort
    <3>2. \A i : i \in DOMAIN DraftProbes({}).functional =>
            /\ DraftProbes({}).functional[i].id = "target-health"
            /\ DraftProbes({}).functional[i].statuses = <<200>>
      BY DEF DraftProbes
    <3>3. \A i : i \in DOMAIN DraftProbes({}).vulnerable =>
            /\ DraftProbes({}).vulnerable[i].id = "fingerprint"
            /\ DraftProbes({}).vulnerable[i].statuses = <<200>>
            /\ DraftProbes({}).vulnerable[i].finding # None
      BY DEF DraftProbes, None
    <3>4. Len(DraftProbes({}).functional) = 1 /\ Len(DraftProbes({}).vulnerable) = 1
      BY DEF DraftProbes
    <3>5. Len(<<200>>) \in 1..8
      OBVIOUS
    <3> DEFINE own == DraftProbes({}).functional
               found == DraftProbes({}).vulnerable
    <3> HIDE DEF own, found
    <3>6. spec.functional = own /\ spec.vulnerable = found
      BY <2>4 DEF own, found
    <3>7. \A i \in DOMAIN own : own[i].id \notin LongIds /\ Len(own[i].statuses) \in 1..8
      BY <3>1, <3>2, <3>5 DEF own
    <3>8. \A i \in DOMAIN found : /\ found[i].id \notin LongIds /\ Len(found[i].statuses) \in 1..8
                                  /\ found[i].finding # None
      BY <3>1, <3>3, <3>5 DEF found
    <3>9. Len(own) \in 1..20 /\ Len(found) \in 1..20
      BY <3>4 DEF own, found
    <3>10. Every(found, LAMBDA p : p.cve # None \/ p.finding # None)
      BY <3>8 DEF Every
    <3> QED BY <3>6, <3>7, <3>8, <3>9, <3>10
  <2>6. BuilderTarget(spec)
          <=> /\ spec.texts \cap {"token", "destination", "path", "address"} = {}
              /\ BuilderProbes(spec.functional) /\ BuilderProbes(spec.vulnerable)
    <3>1. Len(<<>>) \in 0..20 /\ Unique(<<>>) /\ Every(<<>>, Fits)
      BY DEF Unique, IsInjective, Every
    <3> QED BY <2>4, <2>5, <3>1 DEF BuilderTarget
  <2>7. ComponentsResolve(spec, catalog) <=> catalog.listed /\ "spelling" \notin spec.texts
    <3>1. Among(<<>>, catalog.components)
      BY DEF Among, Range
    <3> QED BY <2>4, <3>1 DEF ComponentsResolve
  <2>8. /\ Len(spec.public) \in 1..20 /\ Unique(Ids(spec.public))
        /\ Len(spec.refs) = Len(spec.public) /\ Unique(spec.refs)
        /\ Among(spec.refs, Range(Ids(spec.public)))
        /\ Every(spec.public, LAMBDA q : BuilderQuestion(q, spec.team))
        /\ spec.team = "red"
    <3>1. \A n : n \in 4..6 => n \in 1..20
      OBVIOUS
    <3> QED BY <1>1, <1>2, <1>4, <1>5, <1>7, <1>10, <3>1 DEF Every, Among
  <2> DEFINE plain == spec.title = "plain" /\ spec.texts \cap ForTheBuilder = {}
             readable == /\ spec.title = "plain"
                         /\ spec.texts \cap {"token", "destination", "path", "address"} = {}
                         /\ spec.texts \cap {"active", "reference"} = {}
  <2>9. /\ spec.title \in {"plain", "active"}
        /\ plain <=> readable /\ "spelling" \notin spec.texts
    BY <1>1, <1>2, <1>6 DEF ForTheBuilder
  <2>10. SpecParses(spec) <=> /\ BuilderProbes(spec.functional) /\ BuilderProbes(spec.vulnerable)
                              /\ readable
    BY <2>1, <2>2, <2>3, <2>6, <2>8, <2>9 DEF SpecParses
  <2>11. OnlyTheBuilderRefuses(spec, catalog)
           <=> \/ ~BuilderProbes(spec.functional) \/ ~BuilderProbes(spec.vulnerable)
               \/ ~plain \/ ~catalog.listed
    <3> DEFINE faulty(probes) ==
                 ~Unique(Ids(probes)) \/ \E i \in DOMAIN probes : ~Unique(probes[i].statuses)
    <3>1. /\ BuilderProbes(spec.functional) <=> ~faulty(spec.functional)
          /\ BuilderProbes(spec.vulnerable) <=> ~faulty(spec.vulnerable)
      BY <2>5, ProbesAreRead
    <3>2. DOMAIN spec.events = {}
      BY <1>1, <1>3, <1>10
    <3>3. spec.title = "active" \/ spec.texts \cap ForTheBuilder # {} <=> ~plain
      BY <2>9
    <3>4. OnlyTheBuilderRefuses(spec, catalog)
            <=> \/ \E probes \in {spec.functional, spec.vulnerable} : faulty(probes)
                \/ spec.cves # {} /\ spec.components = <<>>
                \/ \E i \in DOMAIN spec.events : spec.events[i].stamp # "Z"
                \/ spec.title = "active" \/ spec.texts \cap ForTheBuilder # {}
                \/ ~catalog.listed
      BY DEF OnlyTheBuilderRefuses
    <3> HIDE DEF faulty, plain
    <3> QED BY <2>4, <3>1, <3>2, <3>3, <3>4
  <2> HIDE DEF plain, readable
  <2> QED BY <2>7, <2>9, <2>10, <2>11 DEF spec, draft
<1> QED BY <1>6, <1>8, <1>9, <1>10

-----------------------------------------------------------------------------
(* What the layers know of the lab they pass on.                           *)

\* The lab is one the gateway made of a sound plan, or the service by itself.
Made ==
    IF ask.mode = "external"
    THEN \E plan : /\ Answered(plan, ask.request, ask.catalog)
                   /\ lab = AssembledLab(plan, ask.request)
    ELSE \E profile, texts : lab = GeneratedDraft(ask.request, profile, texts)

\* The AI service has let it through.
LetThrough == ask.mode = "external" => ProviderVerdict(lab, ask.request, ask.catalog) = "lab"

\* What is asked is sound, and before it is asked there is no lab.
Asking ==
    /\ ask \in Asks \cup {Nothing}
    /\ ask # Nothing => SoundInput(ask.request, ask.catalog)
    /\ ask = Nothing => lab = Nothing /\ refusedBy = Nothing /\ verdict = Nothing
    /\ lab # Nothing => Made

\* Only for an external lab is the gateway asked.
Calling ==
    gw = "working" \/ ai = "waiting" \/ sent = "gateway" =>
        ask # Nothing /\ ask.mode = "external"

\* A lab on its way up.
Handed ==
    /\ sent # Nothing /\ reply = "lab" => Made
    /\ sent = "ai" => ai = "idle" /\ (reply = "lab" => LetThrough)

\* A lab the API has taken.
Taken ==
    api \in {"checking", "stored"} => ask # Nothing /\ ai = "idle" /\ Made /\ LetThrough

\* A lab that has been refused.
Refused ==
    /\ refusedBy \in {Nothing, "ai", "check"}
    /\ ai \in {"looking", "waiting"} => refusedBy = Nothing
    /\ refusedBy = "ai" => /\ ask # Nothing /\ ask.mode = "external" /\ Made
                           /\ ProviderVerdict(lab, ask.request, ask.catalog) # "lab"

\* A lab the builder has seen.
Judged == verdict # Nothing => /\ api = "stored"
                               /\ verdict = BuildVerdict(lab, ask.catalog, ask.builder)

RefusalInv == GenerationInv /\ Asking /\ Calling /\ Handed /\ Taken /\ Refused /\ Judged

LEMMA AskedForm ==
    ASSUME Asking, ask # Nothing
    PROVE  /\ ask.request \in Requests /\ ask.catalog \in Catalogs
           /\ ask.mode \in Modes /\ ask.builder \in Builders
           /\ ask.request \in RequestForms /\ IsFiniteSet(ask.request.cves)
           /\ SoundInput(ask.request, ask.catalog)
<1>1. ask \in Asks /\ SoundInput(ask.request, ask.catalog)
  BY DEF Asking
<1>2. /\ ask.request \in Requests /\ ask.catalog \in Catalogs
      /\ ask.mode \in Modes /\ ask.builder \in Builders
  BY <1>1 DEF Asks
<1> QED BY <1>1, <1>2, RequestsAreRequests

\* Whatever was made, the API accepts.
LEMMA ApiAcceptsMade ==
    ASSUME Asking, ask # Nothing, Made
    PROVE  ApiAccepts(lab, ask.request)
<1>1. /\ ask.request \in RequestForms /\ IsFiniteSet(ask.request.cves)
      /\ SoundInput(ask.request, ask.catalog)
  BY AskedForm
<1>2. CASE ask.mode = "external"
  BY <1>2, ApiAcceptsThese DEF Made
<1>3. CASE ask.mode # "external"
  <2>1. PICK profile, texts : lab = GeneratedDraft(ask.request, profile, texts)
    BY <1>3 DEF Made
  <2> QED BY <1>1, <2>1, ApiAcceptsDrafts
<1> QED BY <1>2, <1>3

LEMMA AskedSoundly == ASSUME RefusalInv, NEW new \in Asks, Ask(new) PROVE RefusalInv'
<1>1. GenerationInv'
  BY AskStep DEF RefusalInv
<1>2. /\ ask = Nothing /\ SoundInput(new.request, new.catalog) /\ ask' = new
      /\ api' = "waiting" /\ ai' = "looking"
      /\ UNCHANGED <<gw, sent, reply, lab, refusedBy, verdict>>
  BY DEF Ask
<1>3. /\ lab = Nothing /\ refusedBy = Nothing /\ verdict = Nothing
      /\ gw # "working" /\ sent = Nothing
  BY <1>2 DEF RefusalInv, Asking, GenerationInv, Quiet
<1>4. new # Nothing
  BY NothingIsNothing
<1> QED BY <1>1, <1>2, <1>3, <1>4, NothingIsNothing
        DEF RefusalInv, Asking, Calling, Handed, Taken, Refused, Judged

\* The AI service goes on, or hands up a refusal of its own.
LEMMA ServiceGoesOn ==
    ASSUME RefusalInv, RefuseRequest \/ LookUp \/ LookUpFails \/ CallGateway \/ GatewayTurnsAway
    PROVE  RefusalInv'
<1>1. GenerationInv'
  BY LookUpStep, CallGatewayStep, AiStep DEF RefusalInv
<1>2. /\ ai = "looking" /\ api' = api /\ ask' = ask
      /\ UNCHANGED <<lab, refusedBy, verdict>>
      /\ ai' = "waiting" => ask.mode = "external"
      /\ ai' \in {"idle", "looking", "waiting"}
      /\ gw' = "working" => gw = "working" \/ ask.mode = "external"
      /\ UNCHANGED <<sent, reply>> \/ (sent' = "ai" /\ reply' # "lab" /\ ai' = "idle")
  BY DEF RefuseRequest, LookUp, LookUpFails, CallGateway, GatewayTurnsAway, CallsGateway, HandsUp
<1>3. ask # Nothing /\ api = "waiting" /\ sent = Nothing
  BY <1>2 DEF RefusalInv, GenerationInv, Quiet, Looking
<1>4. Made' <=> Made
  BY <1>2 DEF Made
<1>5. LetThrough' <=> LetThrough
  BY <1>2 DEF LetThrough
<1> QED BY <1>1, <1>2, <1>3, <1>4, <1>5, NothingIsNothing
        DEF RefusalInv, Asking, Calling, Handed, Taken, Refused, Judged

LEMMA DraftedByItself ==
    ASSUME RefusalInv, NEW profile \in {"powershell", "other"}, NEW texts \in DraftTexts,
           DraftLocally(profile, texts)
    PROVE  RefusalInv'
<1>1. GenerationInv'
  BY AiStep DEF RefusalInv
<1>2. /\ ai = "looking" /\ ask.mode = "dev" /\ api' = api /\ ask' = ask /\ gw' = gw
      /\ lab' = GeneratedDraft(ask.request, profile, texts)
      /\ sent' = "ai" /\ reply' = "lab" /\ ai' = "idle" /\ UNCHANGED <<refusedBy, verdict>>
  BY DEF DraftLocally, HandsUp
<1>3. ask # Nothing /\ api = "waiting" /\ gw # "working"
  BY <1>2 DEF RefusalInv, GenerationInv, Quiet, Looking
<1>4. Made' /\ LetThrough'
  BY <1>2 DEF Made, LetThrough
<1>5. refusedBy = Nothing /\ verdict = Nothing
  BY <1>2, <1>3 DEF RefusalInv, Refused, Judged
<1> QED BY <1>1, <1>2, <1>3, <1>4, <1>5, NothingIsNothing
        DEF RefusalInv, Asking, Calling, Handed, Taken, Refused, Judged

\* The gateway answers with a lab of a sound plan, or with a refusal.
LEMMA GatewayAnswers ==
    ASSUME RefusalInv,
           \/ \E plan \in Plans(ask.request, ask.catalog) : ProviderAnswers(plan)
           \/ ProviderMalformed \/ ProviderFails \/ GatewayTimesOut \/ GatewayHangs
    PROVE  RefusalInv'
<1>1. GenerationInv'
  BY GatewayStep DEF RefusalInv
<1>2. /\ gw = "working" /\ UNCHANGED <<ask, api, ai, refusedBy, verdict>>
      /\ gw' \in {"idle", "hung", "working"}
  BY DEF ProviderAnswers, ProviderMalformed, ProviderFails, GatewayTimesOut, GatewayFails,
         GatewayHangs
<1>3. /\ ask # Nothing /\ ask.mode = "external" /\ ai = "waiting" /\ api = "waiting"
      /\ sent = Nothing /\ refusedBy = Nothing /\ verdict = Nothing
  BY <1>2 DEF RefusalInv, GenerationInv, Working, Calling, Refused, Judged
<1>4. \/ /\ sent' = "gateway" /\ reply' = "lab" /\ Made'
      \/ /\ lab' = lab
         /\ UNCHANGED <<sent, reply>> \/ (sent' = "gateway" /\ reply' # "lab")
  <2>1. ASSUME NEW plan \in Plans(ask.request, ask.catalog), ProviderAnswers(plan)
        PROVE  \/ sent' = "gateway" /\ reply' = "lab" /\ Made'
               \/ lab' = lab /\ sent' = "gateway" /\ reply' # "lab"
    <3> DEFINE canonical == CanonicalPlan(plan, ask.request, ask.catalog)
    <3>1. /\ ask.request \in Requests /\ ask.catalog \in Catalogs
          /\ ask.request \in RequestForms /\ SoundInput(ask.request, ask.catalog)
      BY <1>3, AskedForm DEF RefusalInv
    <3>2. plan \in PlanForms
      BY <3>1, PlansArePlans
    <3>3. Formed(canonical)
      BY <3>2, CanonicalStillFormed
    <3>4. CASE SoundPlan(canonical, ask.request, ask.catalog)
      <4>1. lab' = AssembledLab(canonical, ask.request) /\ sent' = "gateway" /\ reply' = "lab"
        BY <2>1, <3>4 DEF ProviderAnswers, HandsUp
      <4>2. Answered(canonical, ask.request, ask.catalog)
        BY <3>1, <3>3, <3>4 DEF Answered
      <4> HIDE DEF canonical
      <4>3. Made'
        BY <1>2, <1>3, <4>1, <4>2 DEF Made
      <4> QED BY <4>1, <4>3
    <3>5. CASE ~SoundPlan(canonical, ask.request, ask.catalog)
      BY <2>1, <3>5 DEF ProviderAnswers, HandsUp
    <3> QED BY <3>4, <3>5
  <2>2. CASE ProviderMalformed \/ ProviderFails \/ GatewayTimesOut \/ GatewayHangs
    BY <2>2 DEF ProviderMalformed, ProviderFails, GatewayTimesOut, GatewayFails,
                GatewayHangs, HandsUp
  <2> QED BY <2>1, <2>2
<1>5. CASE sent' = "gateway" /\ reply' = "lab" /\ Made'
  BY <1>1, <1>2, <1>3, <1>5, NothingIsNothing
     DEF RefusalInv, Asking, Calling, Handed, Taken, Refused, Judged
<1>6. CASE lab' = lab /\ (UNCHANGED <<sent, reply>> \/ (sent' = "gateway" /\ reply' # "lab"))
  <2>1. Made' <=> Made
    BY <1>2, <1>6 DEF Made
  <2> QED BY <1>1, <1>2, <1>3, <1>6, <2>1, NothingIsNothing
          DEF RefusalInv, Asking, Calling, Handed, Taken, Refused, Judged
<1> QED BY <1>4, <1>5, <1>6

LEMMA ServiceAnswers ==
    ASSUME RefusalInv, AiReceives \/ AiGivesUp
    PROVE  RefusalInv'
<1>1. GenerationInv'
  BY AiStep DEF RefusalInv
<1>2. /\ ai = "waiting" /\ ai' = "idle" /\ sent' = "ai"
      /\ UNCHANGED <<ask, api, gw, lab, verdict>>
  BY DEF AiReceives, AiGivesUp, HandsUp
<1>3. ask # Nothing /\ ask.mode = "external" /\ refusedBy = Nothing
  BY <1>2 DEF RefusalInv, Calling, Refused
<1>4. Made' <=> Made
  BY <1>2 DEF Made
<1>5. LetThrough' <=> LetThrough
  BY <1>2 DEF LetThrough
<1>6. /\ reply' = "lab" => Made /\ LetThrough
      /\ refusedBy' = Nothing \/ /\ refusedBy' = "ai" /\ Made
                                 /\ ProviderVerdict(lab, ask.request, ask.catalog) # "lab"
  <2>1. CASE AiGivesUp
    BY <1>3, <2>1 DEF AiGivesUp, HandsUp
  <2>2. CASE AiReceives
    <3>1. sent = "gateway" /\ (reply = "lab" => Made)
      BY <2>2, NothingIsNothing DEF AiReceives, RefusalInv, Handed
    <3> QED BY <1>3, <2>2, <3>1 DEF AiReceives, HandsUp, LetThrough
  <2> QED BY <2>1, <2>2
<1> QED BY <1>1, <1>2, <1>3, <1>4, <1>5, <1>6, NothingIsNothing
        DEF RefusalInv, Asking, Calling, Handed, Taken, Refused, Judged

LEMMA ApiGoesOn ==
    ASSUME RefusalInv,
           ApiReceives \/ ApiGivesUp \/ Dropped \/ CheckAnswers \/ CheckFails \/ SubmitBuild
    PROVE  RefusalInv'
<1>1. GenerationInv'
  BY ApiStep DEF RefusalInv
<1>2. UNCHANGED <<ask, ai, gw, lab>>
  BY DEF ApiReceives, ApiGivesUp, Dropped, CheckAnswers, CheckFails, SubmitBuild
<1>3. Made' <=> Made
  BY <1>2 DEF Made
<1>4. LetThrough' <=> LetThrough
  BY <1>2 DEF LetThrough
<1>5. CASE ApiReceives
  <2>1. /\ sent = "ai" /\ api = "waiting" /\ sent' = Nothing /\ verdict' = verdict
        /\ ask # Nothing /\ ai = "idle"
    BY <1>5, NothingIsNothing DEF ApiReceives, RefusalInv, GenerationInv, Quiet, Handed
  <2>2. reply = "lab" => Made /\ LetThrough /\ ApiAccepts(lab, ask.request)
    BY <2>1, NothingIsNothing, ApiAcceptsMade DEF RefusalInv, Handed
  <2>3. /\ refusedBy' = refusedBy
        /\ api' = "refused" \/ (api' = "checking" /\ Made /\ LetThrough)
    BY <1>5, <2>2 DEF ApiReceives
  <2> QED BY <1>1, <1>2, <1>3, <1>4, <2>1, <2>3, NothingIsNothing
          DEF RefusalInv, Asking, Calling, Handed, Taken, Refused, Judged
<1>6. CASE ApiGivesUp
  <2>1. api = "waiting" /\ api' = "refused" /\ UNCHANGED <<sent, reply, refusedBy, verdict>>
    BY <1>6 DEF ApiGivesUp
  <2> QED BY <1>1, <1>2, <1>3, <1>4, <2>1
          DEF RefusalInv, Asking, Calling, Handed, Taken, Refused, Judged
<1>7. CASE Dropped
  <2>1. sent' = Nothing /\ UNCHANGED <<api, refusedBy, verdict>>
    BY <1>7 DEF Dropped
  <2> QED BY <1>1, <1>2, <1>3, <1>4, <2>1, NothingIsNothing
          DEF RefusalInv, Asking, Calling, Handed, Taken, Refused, Judged
<1>8. CASE CheckAnswers \/ CheckFails
  <2>1. /\ api = "checking" /\ api' \in {"stored", "refused"}
        /\ UNCHANGED <<sent, reply, verdict>>
        /\ refusedBy' = refusedBy \/ refusedBy' = "check"
    BY <1>8 DEF CheckAnswers, CheckFails
  <2>2. ask # Nothing /\ ai = "idle" /\ verdict = Nothing
    BY <2>1 DEF RefusalInv, Taken, Judged
  <2> QED BY <1>1, <1>2, <1>3, <1>4, <2>1, <2>2
          DEF RefusalInv, Asking, Calling, Handed, Taken, Refused, Judged
<1>9. CASE SubmitBuild
  <2>1. /\ api = "stored" /\ verdict' = BuildVerdict(lab, ask.catalog, ask.builder)
        /\ UNCHANGED <<api, sent, reply, refusedBy>>
    BY <1>9 DEF SubmitBuild
  <2>2. ask # Nothing
    BY <2>1 DEF RefusalInv, Taken
  <2>3. Judged'
    BY <1>2, <2>1 DEF Judged
  <2> QED BY <1>1, <1>2, <1>3, <1>4, <2>1, <2>2, <2>3
          DEF RefusalInv, Asking, Calling, Handed, Taken, Refused
<1> QED BY <1>5, <1>6, <1>7, <1>8, <1>9

LEMMA RefusalBegins == GenerationInit => RefusalInv
BY InitIsQuiet, NothingIsNothing
   DEF GenerationInit, RefusalInv, Asking, Calling, Handed, Taken, Refused, Judged

LEMMA ForgottenAll == ASSUME RefusalInv, Forget PROVE RefusalInv'
<1>1. GenerationInv'
  BY ForgetStep DEF RefusalInv
<1> QED BY <1>1, NothingIsNothing
        DEF Forget, RefusalInv, Asking, Calling, Handed, Taken, Refused, Judged

LEMMA TimeGoesOn == ASSUME RefusalInv, TimePasses PROVE RefusalInv'
<1>1. GenerationInv'
  BY TimeStep DEF RefusalInv
<1>2. UNCHANGED <<ask, api, ai, gw, sent, reply, lab, refusedBy, verdict>>
  BY DEF TimePasses
<1>3. Made' <=> Made
  BY <1>2 DEF Made
<1>4. LetThrough' <=> LetThrough
  BY <1>2 DEF LetThrough
<1> QED BY <1>1, <1>2, <1>3, <1>4
        DEF RefusalInv, Asking, Calling, Handed, Taken, Refused, Judged

LEMMA RefusalInductive == RefusalInv /\ [GenerationNext]_generationVars => RefusalInv'
<1> SUFFICES ASSUME RefusalInv, [GenerationNext]_generationVars PROVE RefusalInv'
  OBVIOUS
<1>1. CASE UNCHANGED generationVars
  <2>1. UNCHANGED <<ask, api, ai, gw, timing, sent, reply, lab, refusedBy, verdict>>
    BY <1>1 DEF generationVars
  <2>2. GenerationInv'
    BY <1>1, GenerationInductive DEF RefusalInv
  <2>3. Made' <=> Made
    BY <2>1 DEF Made
  <2>4. LetThrough' <=> LetThrough
    BY <2>1 DEF LetThrough
  <2> QED BY <2>1, <2>2, <2>3, <2>4
          DEF RefusalInv, Asking, Calling, Handed, Taken, Refused, Judged
<1>2. CASE \E new \in Asks : Ask(new)
  BY <1>2, AskedSoundly
<1>3. CASE \E profile \in {"powershell", "other"}, texts \in DraftTexts :
             DraftLocally(profile, texts)
  BY <1>3, DraftedByItself
<1>4. CASE RefuseRequest \/ LookUp \/ LookUpFails \/ CallGateway \/ GatewayTurnsAway
  BY <1>4, ServiceGoesOn
<1>5. CASE \/ \E plan \in Plans(ask.request, ask.catalog) : ProviderAnswers(plan)
           \/ ProviderMalformed \/ ProviderFails \/ GatewayTimesOut \/ GatewayHangs
  BY <1>5, GatewayAnswers
<1>6. CASE AiReceives \/ AiGivesUp
  BY <1>6, ServiceAnswers
<1>7. CASE ApiReceives \/ ApiGivesUp \/ Dropped \/ CheckAnswers \/ CheckFails \/ SubmitBuild
  BY <1>7, ApiGoesOn
<1>8. CASE Forget
  BY <1>8, ForgottenAll
<1>9. CASE TimePasses
  BY <1>9, TimeGoesOn
<1> QED BY <1>1, <1>2, <1>3, <1>4, <1>5, <1>6, <1>7, <1>8, <1>9 DEF GenerationNext

\* What was made and let through, the builder refuses for the known reasons.
LEMMA StoredIsJudged == ASSUME RefusalInv PROVE StoredIsBuildable
<1> SUFFICES ASSUME verdict # Nothing
             PROVE  verdict = "built"
                      <=> ask.builder = "development" \/ ~OnlyTheBuilderRefuses(lab.spec, ask.catalog)
  BY DEF StoredIsBuildable
<1>1. /\ verdict = BuildVerdict(lab, ask.catalog, ask.builder)
      /\ ask # Nothing /\ Made /\ LetThrough
  BY DEF RefusalInv, Judged, Taken
<1>2. /\ ask.request \in RequestForms /\ IsFiniteSet(ask.request.cves)
      /\ SoundInput(ask.request, ask.catalog)
  BY <1>1, AskedForm DEF RefusalInv
<1>3. SpecParses(lab.spec) /\ ComponentsResolve(lab.spec, ask.catalog)
        <=> ~OnlyTheBuilderRefuses(lab.spec, ask.catalog)
  <2>1. CASE ask.mode = "external"
    <3>1. PICK plan : /\ Answered(plan, ask.request, ask.catalog)
                      /\ lab = AssembledLab(plan, ask.request)
      BY <1>1, <2>1 DEF Made
    <3>2. ~OnlyTheServiceRefuses(AssembledLab(plan, ask.request))
      BY <1>1, <2>1, <3>1, ServiceRefusesThese DEF LetThrough
    <3> QED BY <3>1, <3>2, BuilderRefusesThese
  <2>2. CASE ask.mode # "external"
    <3>1. PICK profile, texts : lab = GeneratedDraft(ask.request, profile, texts)
      BY <1>1, <2>2 DEF Made
    <3> QED BY <1>2, <3>1, BuilderRefusesDrafts
  <2> QED BY <2>1, <2>2
<1>4. CASE ask.builder = "development"
  <2>1. BuildVerdict(lab, ask.catalog, "development") = "built"
    BY DEF BuildVerdict
  <2> QED BY <1>1, <1>4, <2>1
<1>5. CASE ask.builder # "development" /\ SpecParses(lab.spec)
           /\ ComponentsResolve(lab.spec, ask.catalog)
  <2>1. verdict = "built"
    BY <1>1, <1>5 DEF BuildVerdict
  <2> QED BY <1>3, <1>5, <2>1
<1>6. CASE ask.builder # "development"
           /\ ~(SpecParses(lab.spec) /\ ComponentsResolve(lab.spec, ask.catalog))
  <2>1. verdict \in {"unreadable", "denied"}
    BY <1>1, <1>6 DEF BuildVerdict
  <2> QED BY <1>3, <1>6, <2>1
<1> QED BY <1>4, <1>5, <1>6

LEMMA RefusedIsKnown == ASSUME RefusalInv PROVE LateRefusalsAreKnown
<1>1. refusedBy \in {Nothing, "ai", "check"}
  BY DEF RefusalInv, Refused
<1>2. ASSUME ask # Nothing, ask.mode = "external"
      PROVE  /\ refusedBy = "ai" => OnlyTheServiceRefuses(lab)
             /\ api \in {"checking", "stored"} => ~OnlyTheServiceRefuses(lab)
  <2>1. Made => (ProviderVerdict(lab, ask.request, ask.catalog) = "lab"
                   <=> ~OnlyTheServiceRefuses(lab))
    BY <1>2, ServiceRefusesThese DEF Made
  <2>2. /\ refusedBy = "ai" => Made /\ ProviderVerdict(lab, ask.request, ask.catalog) # "lab"
        /\ api \in {"checking", "stored"} => Made /\ LetThrough
    BY DEF RefusalInv, Refused, Taken
  <2> QED BY <1>2, <2>1, <2>2 DEF LetThrough
<1> QED BY <1>1, <1>2 DEF LateRefusalsAreKnown

\* RefusalsAreKnown for every request, catalog and plan: the API accepts every
\* lab it is handed; the AI service lets a lab of a sound plan through unless
\* it is one of those it alone objects to, and the build service takes a stored
\* specification unless it is one of those it alone objects to
\* (model-gateway/src/service.ts, ai/app/content_contract.py, api/src/ai.ts,
\* builder/src/validation.ts).
THEOREM RefusalsAreForKnownReasons == GenerationSafety => []RefusalsAreKnown
<1>1. RefusalInv => RefusalsAreKnown
  BY RefusedIsKnown, StoredIsJudged DEF RefusalsAreKnown
<1> QED BY <1>1, RefusalBegins, RefusalInductive, PTL DEF GenerationSafety
=============================================================================
