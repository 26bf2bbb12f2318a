------------------------ MODULE LabLifecycle_proofs ------------------------
(***************************************************************************)
(* Machine-checked facts about LabLifecycle, for any number of labs,       *)
(* builds, keys, requests and restarts, and about the page that shows a    *)
(* lab (WebClient), for any number of clicks and lost answers.             *)
(*                                                                         *)
(* The argument: what a handler has read may be out of date, but of that   *)
(* only what can not change is used afterwards.  A build belongs to one    *)
(* lab and ends once, a lab exists for good and never loses its image      *)
(* (Lasting); so the answers and the images that handlers carry stay true  *)
(* (Good), and what they write into a lab is true of it (Sound).           *)
(***************************************************************************)
EXTENDS LabLifecycle, WebClient, TLAPS

\* Image i was built for lab l.
Made(i, l, builds) ==
    i \in Builds /\ builds[i].lab = l /\ builds[i].status = "succeeded"

\* An answer about a build of lab l.
True(answer, l, builds) ==
    /\ answer.id \in Builds
    /\ builds[answer.id].lab = l
    /\ answer.status \in Ending => builds[answer.id].status = answer.status

\* What holds of lab l, given its row and the builds.
Sound(row, l, builds) ==
    /\ row.builder.id # NoBuild => True(row.builder, l, builds)
    /\ row.builder.id = NoBuild => row.builder.status \in {"none", "failed"}
    /\ row.builder.status = "succeeded" => row.image = row.builder.id
    /\ row.image # NoBuild => Made(row.image, l, builds)
    /\ row.hold => row.status = "quarantined"
    /\ row.status = "validated" => row.image # NoBuild
    /\ row.status = "none" =>
          row.builder = NoAnswer /\ row.image = NoBuild /\ ~row.hold

\* What holds of a handler's task, given the labs and the builds.
Good(t, labs, builds) ==
    /\ t.at \notin {"idle", "create"} =>
          t.lab \in Labs /\ labs[t.lab].status # "none"
    /\ t.at \in {"fetch", "patch", "cancel"} =>
          t.answer.id \in Builds /\ builds[t.answer.id].lab = t.lab
    /\ t.at = "patch" => True(t.answer, t.lab, builds)
    /\ t.at \in {"verify", "save", "run"} /\ t.image # NoBuild =>
          Made(t.image, t.lab, builds) /\ labs[t.lab].image # NoBuild
    /\ t.at \in {"save", "run"} => t.image # NoBuild

LabsSound == \A l \in Labs : Sound(lab[l], l, build)
TasksGood == \A h \in Handlers : Good(task[h], lab, build)
BuildsOwned == \A b \in Builds : build[b].status = "none" <=> build[b].lab = NoLab

IInv == /\ TypeOK /\ LabsSound /\ TasksGood /\ BuildsOwned
        /\ RunsUseBuiltImages

\* What no step takes back.
Lasting ==
    /\ \A l \in Labs : /\ lab[l].status # "none" => lab'[l].status # "none"
                       /\ lab[l].image # NoBuild => lab'[l].image # NoBuild
    /\ \A b \in Builds : /\ build[b].lab # NoLab => build'[b].lab = build[b].lab
                         /\ build[b].status \in Ending => build'[b] = build[b]

LEMMA IdleIsGood == Idle \in Tasks /\ Good(Idle, lab', build')
BY DEF Idle, Tasks, Places, Ops, NoAnswer, Images, BuildStatuses, NoBuildKey,
       BuildKeys, Outcomes, Good

\* A good task stays good, and a sound row sound, whatever others do.
LEMMA GoodLasts ==
    ASSUME TypeOK, Lasting, NEW t \in Tasks, Good(t, lab, build)
    PROVE  Good(t, lab', build')
<1>1. ASSUME NEW i, NEW l \in Labs, Made(i, l, build)
      PROVE  Made(i, l, build')
  BY <1>1, NoLabIsNotALab DEF Made, Lasting, Ending
<1>2. ASSUME NEW a, NEW l \in Labs, True(a, l, build)
      PROVE  True(a, l, build')
  BY <1>2, NoLabIsNotALab DEF True, Lasting, Ending
<1>3. \A l \in Labs : /\ lab[l].status # "none" => lab'[l].status # "none"
                      /\ lab[l].image # NoBuild => lab'[l].image # NoBuild
  BY DEF Lasting
<1>4. \A b \in Builds : build[b].lab # NoLab => build'[b].lab = build[b].lab
  BY DEF Lasting
<1> QED BY <1>1, <1>2, <1>3, <1>4, NoLabIsNotALab DEF Good

LEMMA SoundLasts ==
    ASSUME Lasting, NEW l \in Labs, NEW row, Sound(row, l, build)
    PROVE  Sound(row, l, build')
<1>1. ASSUME NEW i, Made(i, l, build) PROVE Made(i, l, build')
  BY <1>1, NoLabIsNotALab DEF Made, Lasting, Ending
<1>2. ASSUME NEW a, True(a, l, build) PROVE True(a, l, build')
  BY <1>2, NoLabIsNotALab DEF True, Lasting, Ending
<1> QED BY <1>1, <1>2 DEF Sound

\* Runs that were started from built images still were.
LEMMA RunsLast ==
    ASSUME TypeOK, Lasting, RunsUseBuiltImages, UNCHANGED deployed
    PROVE  RunsUseBuiltImages'
BY NoLabIsNotALab DEF TypeOK, Lasting, RunsUseBuiltImages, Ending

\* A handler moves to a good task, and the others stay as they were.
LEMMA Moves ==
    ASSUME TypeOK, TasksGood, Lasting, NEW h \in Handlers, NEW t \in Tasks,
           task' = [task EXCEPT ![h] = t], Good(t, lab', build')
    PROVE  task' \in [Handlers -> Tasks] /\ TasksGood'
<1>1. task' \in [Handlers -> Tasks] /\ task'[h] = t
  BY DEF TypeOK
<1>2. ASSUME NEW g \in Handlers, g # h PROVE Good(task'[g], lab', build')
  <2>1. task'[g] = task[g] /\ task[g] \in Tasks /\ Good(task[g], lab, build)
    BY <1>2 DEF TypeOK, TasksGood
  <2> QED BY <2>1, GoodLasts
<1> QED BY <1>1, <1>2 DEF TasksGood

\* Nothing but one lab's row changes.
LEMMA OneLab ==
    ASSUME TypeOK, LabsSound, Lasting, NEW l \in Labs, NEW row \in LabRows,
           lab' = [lab EXCEPT ![l] = row], Sound(row, l, build')
    PROVE  lab' \in [Labs -> LabRows] /\ LabsSound'
<1>1. lab' \in [Labs -> LabRows] /\ lab'[l] = row
  BY DEF TypeOK
<1>2. ASSUME NEW m \in Labs, m # l PROVE Sound(lab'[m], m, build')
  BY <1>2, SoundLasts DEF TypeOK, LabsSound
<1> QED BY <1>1, <1>2 DEF LabsSound

LEMMA SameLabs ==
    ASSUME TypeOK, LabsSound, Lasting, UNCHANGED lab
    PROVE  LabsSound'
BY SoundLasts DEF LabsSound

LEMMA NothingLost ==
    ASSUME UNCHANGED <<lab, build>>
    PROVE  Lasting
BY DEF Lasting

LEMMA FinishIsGood ==
    ASSUME TypeOK, TasksGood, Lasting, NEW h \in Handlers, Finish(h)
    PROVE  task' \in [Handlers -> Tasks] /\ TasksGood'
BY IdleIsGood, Moves DEF Finish

-----------------------------------------------------------------------------
(* What a step does to the labs and to the builds.                         *)

BuildAnswers == [id : Images, status : BuildStatuses]

Creates(l) ==
    /\ lab[l].status = "none"
    /\ lab' = [lab EXCEPT ![l].status = "draft"]

Shows(l) ==
    /\ lab[l].status = "draft"
    /\ \E a \in BuildAnswers :
          /\ True(a, l, build)
          /\ lab' = [lab EXCEPT ![l].builder = a, ![l].image = Target(@, a)]

GivesUp(l) ==
    /\ lab[l].status = "draft"
    /\ lab' = [lab EXCEPT ![l].builder = [id |-> NoBuild, status |-> "failed"]]

Judges(l) ==
    /\ lab[l].status # "none"
    /\ \E s \in {"validated", "quarantined"} :
          /\ s = "validated" => ~lab[l].hold /\ lab[l].image # NoBuild
          /\ lab' = [lab EXCEPT ![l].status = s]

Holds(l) ==
    /\ lab[l].status # "none"
    /\ lab' = [lab EXCEPT ![l].status = "quarantined", ![l].hold = TRUE]

Frees(l) ==
    /\ lab[l].status = "quarantined"
    /\ lab' = [lab EXCEPT ![l].status = "draft", ![l].hold = FALSE]

LabStep ==
    \E l \in Labs : Creates(l) \/ Shows(l) \/ GivesUp(l) \/ Judges(l)
                    \/ Holds(l) \/ Frees(l)

Begins(b, l) ==
    /\ build[b].status = "none"
    /\ \E k \in BuildKeys, s \in {"active", "failed"} :
          build' = [build EXCEPT ![b] = [status |-> s, lab |-> l, key |-> k]]

EndsAs(b, s) ==
    /\ build[b].status = "active"
    /\ build' = [build EXCEPT ![b].status = s]

BuildStep ==
    \E b \in Builds : \/ \E l \in Labs : Begins(b, l)
                      \/ \E s \in Ending : EndsAs(b, s)

DataStep ==
    \/ LabStep /\ UNCHANGED build
    \/ BuildStep /\ UNCHANGED lab
    \/ UNCHANGED <<lab, build>>

LEMMA LabStepFacts ==
    ASSUME TypeOK, LabsSound, LabStep, UNCHANGED build
    PROVE  lab' \in [Labs -> LabRows] /\ Lasting /\ LabsSound'
<1>1. PICK l \in Labs : Creates(l) \/ Shows(l) \/ GivesUp(l) \/ Judges(l)
                       \/ Holds(l) \/ Frees(l)
  BY DEF LabStep
<1>2. lab \in [Labs -> LabRows] /\ lab[l] \in LabRows /\ Sound(lab[l], l, build)
  BY DEF TypeOK, LabsSound
<1>3. SUFFICES ASSUME NEW new \in LabRows,
                      lab' = [lab EXCEPT ![l] = new],
                      Sound(new, l, build),
                      new.status # "none" \/ lab[l].status = "none",
                      new.image # NoBuild \/ lab[l].image = NoBuild
               PROVE  lab' \in [Labs -> LabRows] /\ Lasting /\ LabsSound'
  <2>1. ASSUME Creates(l)
        PROVE  LET new == [lab[l] EXCEPT !.status = "draft"]
               IN  /\ new \in LabRows /\ lab' = [lab EXCEPT ![l] = new]
                   /\ Sound(new, l, build) /\ new.status # "none"
                   /\ new.image # NoBuild \/ lab[l].image = NoBuild
    BY <1>2, <2>1 DEF Creates, LabRows, Sound
  <2>2. ASSUME Shows(l)
        PROVE  \E new \in LabRows :
                   /\ lab' = [lab EXCEPT ![l] = new]
                   /\ Sound(new, l, build) /\ new.status # "none"
                   /\ new.image # NoBuild \/ lab[l].image = NoBuild
    <3>1. PICK a \in BuildAnswers :
             /\ True(a, l, build)
             /\ lab' = [lab EXCEPT ![l].builder = a, ![l].image = Target(@, a)]
      BY <2>2 DEF Shows
    <3> DEFINE new == [lab[l] EXCEPT !.builder = a, !.image = Target(@, a)]
    <3>2. Target(lab[l].image, a) \in Images
      BY <1>2 DEF Target, LabRows, BuildAnswers
    <3>3. /\ new \in LabRows /\ lab' = [lab EXCEPT ![l] = new]
          /\ new.builder = a /\ new.image = Target(lab[l].image, a)
          /\ new.status = lab[l].status /\ new.hold = lab[l].hold
      BY <1>2, <3>1, <3>2 DEF LabRows, BuildAnswers
    <3> HIDE DEF new
    <3>4. lab[l].status = "draft" /\ a.id \in Builds /\ ~lab[l].hold
      BY <1>2, <2>2, <3>1 DEF Shows, True, Sound
    <3>5. Sound(new, l, build)
      BY <1>2, <3>1, <3>3, <3>4, NoBuildIsNotABuild
      DEF Sound, Target, Made, True, Ending
    <3>6. new.image # NoBuild \/ lab[l].image = NoBuild
      BY <3>3, <3>4, NoBuildIsNotABuild DEF Target
    <3> QED BY <3>3, <3>4, <3>5, <3>6
  <2>3. ASSUME GivesUp(l)
        PROVE  LET new == [lab[l] EXCEPT
                             !.builder = [id |-> NoBuild, status |-> "failed"]]
               IN  /\ new \in LabRows /\ lab' = [lab EXCEPT ![l] = new]
                   /\ Sound(new, l, build) /\ new.status # "none"
                   /\ new.image # NoBuild \/ lab[l].image = NoBuild
    BY <1>2, <2>3 DEF GivesUp, LabRows, Sound, BuildStatuses, Ending, Images
  <2>4. ASSUME Judges(l)
        PROVE  \E new \in LabRows :
                   /\ lab' = [lab EXCEPT ![l] = new]
                   /\ Sound(new, l, build) /\ new.status # "none"
                   /\ new.image # NoBuild \/ lab[l].image = NoBuild
    <3>1. PICK s \in {"validated", "quarantined"} :
             /\ s = "validated" => ~lab[l].hold /\ lab[l].image # NoBuild
             /\ lab' = [lab EXCEPT ![l].status = s]
      BY <2>4 DEF Judges
    <3> DEFINE new == [lab[l] EXCEPT !.status = s]
    <3>2. new \in LabRows /\ lab' = [lab EXCEPT ![l] = new]
      BY <1>2, <3>1 DEF LabRows
    <3>3. Sound(new, l, build) /\ new.status # "none"
          /\ new.image = lab[l].image
      BY <1>2, <2>4, <3>1 DEF Judges, Sound, LabRows
    <3> QED BY <3>2, <3>3
  <2>5. ASSUME Holds(l)
        PROVE  LET new == [lab[l] EXCEPT !.status = "quarantined",
                                         !.hold = TRUE]
               IN  /\ new \in LabRows /\ lab' = [lab EXCEPT ![l] = new]
                   /\ Sound(new, l, build) /\ new.status # "none"
                   /\ new.image # NoBuild \/ lab[l].image = NoBuild
    BY <1>2, <2>5 DEF Holds, LabRows, Sound
  <2>6. ASSUME Frees(l)
        PROVE  LET new == [lab[l] EXCEPT !.status = "draft", !.hold = FALSE]
               IN  /\ new \in LabRows /\ lab' = [lab EXCEPT ![l] = new]
                   /\ Sound(new, l, build) /\ new.status # "none"
                   /\ new.image # NoBuild \/ lab[l].image = NoBuild
    BY <1>2, <2>6 DEF Frees, LabRows, Sound
  <2> QED BY <1>1, <1>3, <2>1, <2>2, <2>3, <2>4, <2>5, <2>6
<1>4. Lasting
  BY <1>2, <1>3 DEF Lasting
<1> QED BY <1>3, <1>4, OneLab

LEMMA BuildStepFacts ==
    ASSUME TypeOK, LabsSound, BuildsOwned, BuildStep, UNCHANGED lab
    PROVE  build' \in [Builds -> BuildRows] /\ Lasting /\ BuildsOwned'
<1>1. build \in [Builds -> BuildRows]
  BY DEF TypeOK
<1>2. CASE \E b \in Builds, l \in Labs : Begins(b, l)
  BY <1>1, <1>2, NoLabIsNotALab
  DEF Begins, Lasting, BuildRows, BuildStatuses, Ending, BuildsOwned
<1>3. CASE \E b \in Builds, s \in Ending : EndsAs(b, s)
  BY <1>1, <1>3
  DEF EndsAs, Lasting, BuildRows, BuildStatuses, Ending, BuildsOwned
<1> QED BY <1>2, <1>3 DEF BuildStep

LEMMA DataStepFacts ==
    ASSUME TypeOK, LabsSound, BuildsOwned, DataStep
    PROVE  /\ lab' \in [Labs -> LabRows] /\ build' \in [Builds -> BuildRows]
           /\ Lasting /\ LabsSound' /\ BuildsOwned'
<1>1. CASE LabStep /\ UNCHANGED build
  BY <1>1, LabStepFacts DEF TypeOK, BuildsOwned
<1>2. CASE BuildStep /\ UNCHANGED lab
  BY <1>2, BuildStepFacts, SameLabs DEF TypeOK
<1>3. CASE UNCHANGED <<lab, build>>
  BY <1>3, NothingLost, SameLabs DEF TypeOK, BuildsOwned
<1> QED BY <1>1, <1>2, <1>3 DEF DataStep

\* Every step is a step of the labs, of the builds, or of neither.
LEMMA StepsAreDataSteps ==
    ASSUME IInv, Next
    PROVE  DataStep
<1>0. TypeOK /\ LabsSound
  BY DEF IInv
<1>1. ASSUME NEW h \in Handlers, HandlerStep(h)
      PROVE  DataStep
  <2>1. PICK l : l = LabOf(h)
    OBVIOUS
  <2>2. Good(task[h], lab, build) /\ task[h] \in Tasks
    BY DEF IInv, TasksGood, TypeOK
  <2>3. ~(At(h, "idle") \/ At(h, "create")) =>
            l \in Labs /\ lab[l].status # "none"
    BY <2>1, <2>2 DEF Good, At, LabOf
  <2>4. CASE CreateLab(h)
    BY <2>4 DEF CreateLab, Exists, DataStep, LabStep, Creates
  <2>5. CASE GiveUp(h)
    BY <2>1, <2>3, <2>5
    DEF GiveUp, GaveUp, At, DataStep, LabStep, GivesUp
  <2>6. CASE StartBuild(h)
    <3>1. l \in Labs /\ task[h].bkey \in BuildKeys
      BY <2>2, <2>3, <2>6 DEF StartBuild, At, Tasks
    <3>2. CASE UNCHANGED build
      BY <2>6, <3>2 DEF StartBuild, DataStep
    <3>3. CASE build' # build
      <4>1. PICK b \in Startable(h) : build' \in Started(h, b)
        BY <2>6, <3>3 DEF StartBuild
      <4>2. KeyTaken(task[h].bkey) = {}
        BY <3>3, <4>1 DEF Started
      <4>3. b \in Builds /\ build[b].status = "none"
        BY <4>1, <4>2 DEF Startable
      <4>4. PICK s \in {"active", "failed"} :
               build' = [build EXCEPT ![b] = [status |-> s, lab |-> LabOf(h),
                                              key |-> task[h].bkey]]
        BY <4>1, <4>2 DEF Started
      <4>5. Begins(b, l)
        BY <2>1, <3>1, <4>3, <4>4 DEF Begins
      <4> QED BY <2>6, <3>1, <4>3, <4>5 DEF StartBuild, DataStep, BuildStep
    <3> QED BY <3>2, <3>3
  <2>7. CASE Patch(h)
    <3>1. l \in Labs /\ True(task[h].answer, l, build)
          /\ task[h].answer \in BuildAnswers
      BY <2>1, <2>2, <2>3, <2>7 DEF Patch, At, Good, Tasks, BuildAnswers, LabOf
    <3>2. lab' \in {lab, Patched(l, task[h].answer)} /\ UNCHANGED build
      BY <2>1, <2>7 DEF Patch
    <3>3. CASE AcceptsPatch(l)
      BY <3>1, <3>2, <3>3
      DEF Patched, AcceptsPatch, DataStep, LabStep, Shows
    <3>4. CASE ~AcceptsPatch(l)
      BY <3>2, <3>4 DEF Patched, DataStep
    <3> QED BY <3>3, <3>4
  <2>8. CASE CancelBuild(h)
    <3>1. PICK b \in Builds : b = task[h].answer.id
      BY <2>2, <2>8 DEF CancelBuild, At, Good
    <3>2. build' \in {build, Stopped(b)} /\ UNCHANGED lab
      BY <2>8, <3>1 DEF CancelBuild
    <3>3. CASE build[b].status = "active"
      BY <3>2, <3>3 DEF Stopped, DataStep, BuildStep, EndsAs, Ending
    <3>4. CASE build[b].status # "active"
      <4>1. Stopped(b) = build
        BY <1>0, <3>4 DEF Stopped, TypeOK, BuildRows
      <4> QED BY <3>2, <4>1 DEF DataStep
    <3> QED BY <3>3, <3>4
  <2>9. CASE SaveVerdict(h)
    <3>1. /\ l \in Labs /\ lab[l].status # "none" /\ lab[l].image # NoBuild
      BY <2>1, <2>2, <2>3, <2>9 DEF SaveVerdict, At, Good, LabOf
    <3>2. /\ lab' = [lab EXCEPT ![l].status =
                        StatusAfter(l, task[h].outcome)]
          /\ UNCHANGED build
      BY <2>1, <2>9 DEF SaveVerdict
    <3> QED BY <3>1, <3>2 DEF StatusAfter, DataStep, LabStep, Judges
  <2>10. CASE UNCHANGED <<lab, build>>
    BY <2>10 DEF DataStep
  <2> QED
    BY <1>1, <2>4, <2>5, <2>6, <2>7, <2>8, <2>9, <2>10
    DEF HandlerStep, Fetch, Record, Reread, Verify, Run, QueryError
<1>2. ASSUME NEW h \in Handlers, Author(h)
      PROVE  DataStep
  BY <1>2
  DEF Author, Generate, RequestBuild, Get, Validate, Deploy, DataStep
<1>3. CASE Administrator
  BY <1>3
  DEF Administrator, Quarantine, Release, Exists, DataStep, LabStep, Holds,
      Frees
<1>4. CASE \E b \in Builds : BuildEnds(b)
  BY <1>4 DEF BuildEnds, DataStep, BuildStep, EndsAs, Ending
<1>5. CASE Crash
  BY <1>5 DEF Crash, DataStep
<1> QED BY <1>1, <1>2, <1>3, <1>4, <1>5 DEF Next

-----------------------------------------------------------------------------
(* The handlers.                                                           *)

LEMMA StartMoves ==
    ASSUME TypeOK, TasksGood, Lasting, NEW h \in Handlers, NEW t \in Tasks,
           Start(h, t), Good(t, lab', build')
    PROVE  task' \in [Handlers -> Tasks] /\ TasksGood'
BY Moves DEF Start

LEMMA GotoMoves ==
    ASSUME TypeOK, TasksGood, Lasting, NEW h \in Handlers,
           NEW p \in {"giveUp", "record", "cancel", "reread"}, Goto(h, p),
           task[h].at \in {"start", "fetch", "patch", "giveUp"},
           p = "cancel" => task[h].at = "patch"
    PROVE  task' \in [Handlers -> Tasks] /\ TasksGood'
<1> DEFINE t == [task[h] EXCEPT !.at = p]
<1>1. Good(task[h], lab', build') /\ task[h] \in Tasks
  BY GoodLasts DEF TypeOK, TasksGood
<1>2. t \in Tasks /\ task' = [task EXCEPT ![h] = t]
  BY <1>1 DEF Tasks, Places, Goto
<1>3. Good(t, lab', build')
  BY <1>1 DEF Good, Tasks
<1> QED BY <1>2, <1>3, Moves

LEMMA BuilderErrorMoves ==
    ASSUME TypeOK, TasksGood, Lasting, NEW h \in Handlers, BuilderError(h),
           task[h].at \in {"start", "fetch", "patch"}
    PROVE  task' \in [Handlers -> Tasks] /\ TasksGood'
BY GotoMoves, FinishIsGood DEF BuilderError

LEMMA RequestsMove ==
    ASSUME IInv, Lasting, NEW h \in Handlers, Author(h)
    PROVE  task' \in [Handlers -> Tasks] /\ TasksGood'
<1>0. TypeOK /\ TasksGood /\ UNCHANGED <<lab, build>>
  BY DEF IInv, Author, Generate, RequestBuild, Get, Validate, Deploy
<1>1. Idle \in Tasks
  BY IdleIsGood
<1>2. ASSUME NEW k \in Keys, NEW body \in Bodies, Generate(h, k, body)
      PROVE  task' \in [Handlers -> Tasks] /\ TasksGood'
  <2> DEFINE t == [Idle EXCEPT !.at = "create", !.op = "generate", !.key = k,
                               !.bkey = [lab |-> NoLab, key |-> body]]
  <2>1. t \in Tasks /\ Start(h, t) /\ t.at = "create"
    BY <1>1, <1>2 DEF Tasks, Places, Ops, BuildKeys, Generate, Idle
  <2> HIDE DEF t
  <2>2. Good(t, lab', build')
    BY <2>1 DEF Good
  <2> QED BY <1>0, <2>1, <2>2, StartMoves
<1>3. ASSUME NEW k \in Keys, NEW l \in Labs, RequestBuild(h, l, k)
      PROVE  task' \in [Handlers -> Tasks] /\ TasksGood'
  <2> DEFINE t == [Idle EXCEPT !.at = "start", !.op = "build", !.lab = l,
                               !.key = k, !.bkey = [lab |-> l, key |-> k]]
  <2>1. t \in Tasks /\ Start(h, t) /\ t.at = "start" /\ t.lab = l
    BY <1>1, <1>3 DEF Tasks, Places, Ops, BuildKeys, RequestBuild, Idle
  <2> HIDE DEF t
  <2>2. lab[l].status # "none"
    BY <1>3 DEF RequestBuild, MayBuild
  <2>3. Good(t, lab', build')
    BY <1>0, <2>1, <2>2 DEF Good
  <2> QED BY <1>0, <2>1, <2>3, StartMoves
<1>4. ASSUME NEW l \in Labs, NEW op \in {"get", "validate"}, NeedsRefresh(l),
             Start(h, [Idle EXCEPT !.at = "fetch", !.op = op, !.lab = l,
                                   !.answer.id = lab[l].builder.id])
      PROVE  task' \in [Handlers -> Tasks] /\ TasksGood'
  <2> DEFINE t == [Idle EXCEPT !.at = "fetch", !.op = op, !.lab = l,
                               !.answer.id = lab[l].builder.id]
  <2>1. Sound(lab[l], l, build) /\ lab[l] \in LabRows
    BY DEF IInv, LabsSound, TypeOK
  <2>2. True(lab[l].builder, l, build)
    BY <1>4, <2>1 DEF Sound, NeedsRefresh
  <2>3. lab[l].builder.id \in Builds /\ build[lab[l].builder.id].lab = l
    BY <2>2 DEF True
  <2>4. lab[l].status # "none"
    BY <1>4, <2>1 DEF Sound, NeedsRefresh, NoAnswer
  <2>5. /\ t \in Tasks /\ Start(h, t) /\ t.at = "fetch" /\ t.lab = l
        /\ t.answer.id = lab[l].builder.id
    BY <1>1, <1>4, <2>3
    DEF Tasks, Places, Ops, Images, Idle, NoAnswer
  <2> HIDE DEF t
  <2>6. Good(t, lab', build')
    BY <1>0, <2>3, <2>4, <2>5 DEF Good
  <2> QED BY <1>0, <2>5, <2>6, StartMoves
<1>5. ASSUME NEW l \in Labs, NEW p \in {"verify", "run"},
             NEW op \in {"validate", "deploy"}, lab[l].status # "none",
             p = "run" => lab[l].status = "validated",
             Start(h, [Idle EXCEPT !.at = p, !.op = op, !.lab = l,
                                   !.image = lab[l].image])
      PROVE  task' \in [Handlers -> Tasks] /\ TasksGood'
  <2> DEFINE t == [Idle EXCEPT !.at = p, !.op = op, !.lab = l,
                               !.image = lab[l].image]
  <2>1. Sound(lab[l], l, build) /\ lab[l] \in LabRows
    BY DEF IInv, LabsSound, TypeOK
  <2>2. /\ t \in Tasks /\ Start(h, t) /\ t.at = p /\ t.lab = l
        /\ t.image = lab[l].image
    BY <1>1, <1>5, <2>1 DEF Tasks, Places, Ops, LabRows, Idle
  <2> HIDE DEF t
  <2>3. Good(t, lab', build')
    BY <1>0, <1>5, <2>1, <2>2 DEF Good, Sound
  <2> QED BY <1>0, <2>2, <2>3, StartMoves
<1>6. ASSUME NEW l \in Labs, Validate(h, l)
      PROVE  task' \in [Handlers -> Tasks] /\ TasksGood'
  BY <1>4, <1>5, <1>6 DEF Validate, Exists
<1>7. ASSUME NEW l \in Labs, Get(h, l) \/ Deploy(h, l)
      PROVE  task' \in [Handlers -> Tasks] /\ TasksGood'
  BY <1>4, <1>5, <1>7 DEF Get, Deploy
<1> QED BY <1>2, <1>3, <1>6, <1>7 DEF Author

LEMMA HandlersMove ==
    ASSUME IInv, Lasting, NEW h \in Handlers, HandlerStep(h)
    PROVE  task' \in [Handlers -> Tasks] /\ TasksGood'
<1>0. TypeOK /\ TasksGood
  BY DEF IInv
<1>1. task[h] \in Tasks /\ Good(task[h], lab, build)
  BY DEF IInv, TypeOK, TasksGood
<1>2. Good(task[h], lab', build')
  BY <1>0, <1>1, GoodLasts
<1>3. CASE CreateLab(h)
  <2>1. CASE Finish(h)
    BY <1>0, <2>1, FinishIsGood
  <2>2. CASE ~Finish(h)
    <3>1. PICK l \in Labs :
              /\ lab' = [lab EXCEPT ![l].status = "draft"]
              /\ task' = [task EXCEPT ![h].at = "start", ![h].lab = l]
      BY <1>3, <2>2 DEF CreateLab
    <3> DEFINE t == [task[h] EXCEPT !.at = "start", !.lab = l]
    <3>2. t \in Tasks /\ task' = [task EXCEPT ![h] = t]
          /\ t.at = "start" /\ t.lab = l
      BY <1>0, <1>1, <3>1 DEF Tasks, Places, TypeOK
    <3> HIDE DEF t
    <3>3. lab'[l].status # "none"
      BY <1>0, <3>1 DEF TypeOK, LabRows
    <3>4. Good(t, lab', build')
      BY <3>2, <3>3 DEF Good
    <3> QED BY <1>0, <3>2, <3>4, Moves
  <2> QED BY <2>1, <2>2
<1>4. CASE GiveUp(h) \/ Patch(h)
  <2>1. task[h].at \in {"giveUp", "patch"}
    BY <1>4 DEF GiveUp, Patch, At
  <2>2. \/ Finish(h)
        \/ \E p \in {"record", "reread"} : Goto(h, p)
        \/ At(h, "patch") /\ (Goto(h, "cancel") \/ BuilderError(h))
    BY <1>4 DEF GiveUp, Patch, AfterPatch
  <2> QED BY <1>0, <2>1, <2>2, FinishIsGood, GotoMoves, BuilderErrorMoves DEF At
<1>5. CASE StartBuild(h)
  <2>1. task[h].at = "start" /\ task[h].lab \in Labs
    BY <1>1, <1>5 DEF StartBuild, At, Good
  <2>2. CASE BuilderError(h)
    BY <1>0, <2>1, <2>2, BuilderErrorMoves
  <2>3. CASE ~BuilderError(h)
    <3>1. PICK b \in Startable(h) :
              /\ build' \in Started(h, b)
              /\ task' = [task EXCEPT ![h].at = "fetch", ![h].answer.id = b]
      BY <1>5, <2>3 DEF StartBuild
    <3>2. b \in Builds
      BY <3>1 DEF Startable, KeyTaken
    <3>3. build'[b].lab = task[h].lab
      BY <1>0, <3>1, <3>2
      DEF Startable, Started, SameRequest, LabOf, TypeOK, KeyTaken
    <3> DEFINE t == [task[h] EXCEPT !.at = "fetch", !.answer.id = b]
    <3>4. /\ t \in Tasks /\ task' = [task EXCEPT ![h] = t]
          /\ t.at = "fetch" /\ t.lab = task[h].lab /\ t.answer.id = b
      BY <1>0, <1>1, <3>1, <3>2 DEF Tasks, Places, Images, TypeOK
    <3> HIDE DEF t
    <3>5. Good(t, lab', build')
      BY <1>2, <2>1, <3>2, <3>3, <3>4 DEF Good
    <3> QED BY <1>0, <3>4, <3>5, Moves
  <2> QED BY <2>2, <2>3
<1>6. CASE Fetch(h)
  <2>1. task[h].at = "fetch"
    BY <1>6 DEF Fetch, At
  <2>2. CASE BuilderError(h)
    BY <1>0, <2>1, <2>2, BuilderErrorMoves
  <2>3. CASE ~BuilderError(h)
    <3> DEFINE s == build[task[h].answer.id].status
               t == [task[h] EXCEPT !.at = "patch", !.answer.status = s]
    <3>1. task' = [task EXCEPT ![h].at = "patch", ![h].answer.status = s]
          /\ UNCHANGED build
      BY <1>6, <2>3 DEF Fetch
    <3>2. /\ task[h].answer.id \in Builds
          /\ build[task[h].answer.id].lab = task[h].lab
          /\ s \in BuildStatuses
      BY <1>0, <1>1, <2>1 DEF Good, TypeOK, BuildRows
    <3>3. /\ t \in Tasks /\ task' = [task EXCEPT ![h] = t]
          /\ t.at = "patch" /\ t.lab = task[h].lab
          /\ t.answer.id = task[h].answer.id /\ t.answer.status = s
      BY <1>0, <1>1, <3>1, <3>2 DEF Tasks, Places, TypeOK
    <3> HIDE DEF t
    <3>4. Good(t, lab', build')
      BY <1>2, <2>1, <3>1, <3>2, <3>3 DEF Good, True
    <3> QED BY <1>0, <3>3, <3>4, Moves
  <2> QED BY <2>2, <2>3
<1>7. CASE Reread(h) /\ ~Finish(h)
  <2> DEFINE l == task[h].lab
             t == [task[h] EXCEPT !.at = "verify", !.image = lab[l].image]
  <2>1. l \in Labs /\ lab[l].status # "none" /\ UNCHANGED <<lab, build>>
    BY <1>1, <1>7 DEF Reread, At, Good
  <2>2. Sound(lab[l], l, build) /\ lab[l] \in LabRows
    BY <1>0, <2>1 DEF IInv, LabsSound, TypeOK
  <2>3. task' = [task EXCEPT ![h].at = "verify", ![h].image = lab[l].image]
    BY <1>7 DEF Reread, LabOf
  <2>4. /\ t \in Tasks /\ task' = [task EXCEPT ![h] = t]
        /\ t.at = "verify" /\ t.lab = l /\ t.image = lab[l].image
    BY <1>0, <1>1, <2>2, <2>3 DEF Tasks, Places, LabRows, TypeOK
  <2> HIDE DEF t
  <2>5. Good(t, lab', build')
    BY <2>1, <2>2, <2>4 DEF Good, Sound
  <2> QED BY <1>0, <2>4, <2>5, Moves
<1>8. CASE Verify(h) /\ ~Finish(h)
  <2>1. /\ task[h].at = "verify" /\ task[h].image # NoBuild
        /\ \E o \in {"pass", "fail"} :
              task' = [task EXCEPT ![h].at = "save", ![h].outcome = o]
    BY <1>8 DEF Verify, At, HasTarget
  <2>2. PICK o \in {"pass", "fail"} :
            task' = [task EXCEPT ![h].at = "save", ![h].outcome = o]
    BY <2>1
  <2> DEFINE t == [task[h] EXCEPT !.at = "save", !.outcome = o]
  <2>3. /\ t \in Tasks /\ task' = [task EXCEPT ![h] = t]
        /\ t.at = "save" /\ t.lab = task[h].lab /\ t.image = task[h].image
    BY <1>0, <1>1, <2>2 DEF Tasks, Places, Outcomes, TypeOK
  <2> HIDE DEF t
  <2>4. Good(t, lab', build')
    BY <1>2, <2>1, <2>3 DEF Good
  <2> QED BY <1>0, <2>3, <2>4, Moves
<1>9. CASE Finish(h)
  BY <1>0, <1>9, FinishIsGood
<1> QED
  BY <1>3, <1>4, <1>5, <1>6, <1>7, <1>8, <1>9
  DEF HandlerStep, CancelBuild, Record, SaveVerdict, Run, QueryError

\* A release only notes that what was read is out of date.
LEMMA ReleaseMoves ==
    ASSUME IInv, Lasting, NEW l \in Labs, task' = Recall(l)
    PROVE  task' \in [Handlers -> Tasks] /\ TasksGood'
<1>1. ASSUME NEW h \in Handlers
      PROVE  task'[h] \in Tasks /\ Good(task'[h], lab', build')
  <2>1. task[h] \in Tasks /\ Good(task[h], lab', build')
    BY GoodLasts DEF IInv, TypeOK, TasksGood
  <2>2. task'[h] \in {task[h], [task[h] EXCEPT !.recalled = TRUE]}
    BY DEF Recall
  <2> QED BY <2>1, <2>2 DEF Tasks, Good
<1>2. task' = [h \in Handlers |-> task'[h]]
  BY DEF Recall
<1> QED BY <1>1, <1>2 DEF TasksGood

LEMMA TasksStayGood ==
    ASSUME IInv, Next, Lasting
    PROVE  task' \in [Handlers -> Tasks] /\ TasksGood'
<1>1. CASE \E h \in Handlers : Author(h) \/ HandlerStep(h)
  BY <1>1, RequestsMove, HandlersMove
<1>2. CASE Crash
  BY <1>2, IdleIsGood DEF Crash, TasksGood
<1>3. CASE \E l \in Labs : Release(l)
  BY <1>3, ReleaseMoves DEF Release
<1>4. CASE UNCHANGED task
  BY <1>4, GoodLasts DEF IInv, TypeOK, TasksGood
<1> QED
  BY <1>1, <1>2, <1>3, <1>4
  DEF Next, Administrator, Quarantine, BuildEnds

\* A run that is added is one of a built image.
LEMMA RunsStayBuilt ==
    ASSUME IInv, Next, Lasting
    PROVE  RunsUseBuiltImages' /\ deployed' \subseteq [lab : Labs, image : Images]
<1>0. TypeOK /\ RunsUseBuiltImages
  BY DEF IInv
<1>1. CASE \E h \in Handlers : Run(h)
  <2>1. PICK h \in Handlers : Run(h)
    BY <1>1
  <2>2. task[h].at = "run" /\ Good(task[h], lab, build)
    BY <2>1 DEF Run, At, IInv, TasksGood
  <2>3. task[h].lab \in Labs /\ Made(task[h].image, task[h].lab, build)
    BY <2>2 DEF Good
  <2>4. \A d \in deployed' \ deployed :
            d = [lab |-> task[h].lab, image |-> task[h].image]
    BY <2>1 DEF Run, LabOf
  <2>5. UNCHANGED build
    BY <2>1 DEF Run
  <2>6. \A d \in deployed' \ deployed :
            /\ d \in [lab : Labs, image : Images]
            /\ Made(d.image, d.lab, build)
    BY <2>3, <2>4 DEF Made, Images
  <2> QED
    BY <1>0, <2>5, <2>6 DEF RunsUseBuiltImages, TypeOK, Made
<1>2. CASE UNCHANGED deployed
  BY <1>0, <1>2, RunsLast DEF TypeOK
<1> QED
  BY <1>1, <1>2
  DEF Next, Author, Generate, RequestBuild, Get, Validate, Deploy,
      HandlerStep, CreateLab, GiveUp, StartBuild, Fetch, Patch, CancelBuild,
      Record, Reread, Verify, SaveVerdict, QueryError, Administrator,
      Quarantine, Release, BuildEnds, Crash

LEMMA EvidenceStaysTyped ==
    ASSUME TypeOK, Next
    PROVE  evidence' \in [Labs -> Evidence]
<1>1. ASSUME NEW h \in Handlers, SaveVerdict(h)
      PROVE  evidence' \in [Labs -> Evidence]
  <2>1. task[h] \in Tasks
    BY DEF TypeOK
  <2>2. [outcome |-> task[h].outcome, image |-> task[h].image,
         recalled |-> task[h].recalled] \in Evidence
    BY <2>1 DEF Tasks, Evidence
  <2> QED BY <1>1, <2>2 DEF SaveVerdict, TypeOK
<1>2. CASE UNCHANGED evidence
  BY <1>2 DEF TypeOK
<1> QED
  BY <1>1, <1>2
  DEF Next, Author, Generate, RequestBuild, Get, Validate, Deploy,
      HandlerStep, CreateLab, GiveUp, StartBuild, Fetch, Patch, CancelBuild,
      Record, Reread, Verify, Run, QueryError, Administrator,
      Quarantine, Release, BuildEnds, Crash

LEMMA RecordsStayTyped ==
    ASSUME TypeOK, Next
    PROVE  idem' \subseteq Claims /\ crashes' \in 0..MaxCrashes
<1>1. ASSUME NEW h \in Handlers, Record(h)
      PROVE  idem' \subseteq Claims
  <2>1. task[h] \in Tasks
    BY DEF TypeOK
  <2>2. ClaimOf(task[h]) \in Claims
    BY <2>1 DEF Tasks, ClaimOf, Claims
  <2> QED BY <1>1, <2>2 DEF Record, TypeOK
<1>2. CASE Crash
  BY <1>2, CrashBound DEF Crash, TypeOK
<1>3. UNCHANGED idem \/ \E h \in Handlers : Record(h)
  BY DEF Next, Author, Generate, RequestBuild, Get, Validate, Deploy,
      HandlerStep, CreateLab, GiveUp, StartBuild, Fetch, Patch, CancelBuild,
      Reread, Verify, SaveVerdict, Run, QueryError, Administrator,
      Quarantine, Release, BuildEnds, Crash
<1>4. UNCHANGED crashes \/ Crash
  BY DEF Next, Author, Generate, RequestBuild, Get, Validate, Deploy,
      HandlerStep, CreateLab, GiveUp, StartBuild, Fetch, Patch, CancelBuild,
      Record, Reread, Verify, SaveVerdict, Run, QueryError, Administrator,
      Quarantine, Release, BuildEnds
<1> QED BY <1>1, <1>2, <1>3, <1>4 DEF TypeOK

LEMMA Initially == Init => IInv
<1> SUFFICES ASSUME Init PROVE IInv
  OBVIOUS
<1>1. NoAnswer \in BuildAnswers /\ NoBuildKey \in BuildKeys
  BY DEF NoAnswer, BuildAnswers, Images, BuildStatuses, NoBuildKey, BuildKeys
<1>2. Idle \in Tasks /\ Good(Idle, lab, build)
  BY <1>1
  DEF Idle, Tasks, Places, Ops, Outcomes, Good, BuildAnswers, Images
<1>3. TypeOK
  BY <1>1, <1>2, CrashBound
  DEF Init, TypeOK, LabRows, Evidence, BuildRows, BuildAnswers, Images, Outcomes,
      BuildStatuses
<1>4. LabsSound
  BY DEF Init, LabsSound, Sound, NoAnswer
<1>5. TasksGood /\ BuildsOwned /\ RunsUseBuiltImages
  BY <1>2 DEF Init, TasksGood, BuildsOwned, RunsUseBuiltImages
<1> QED BY <1>3, <1>4, <1>5 DEF IInv

LEMMA Inductive == IInv /\ [Next]_vars => IInv'
<1> SUFFICES ASSUME IInv, [Next]_vars PROVE IInv'
  OBVIOUS
<1>1. CASE Next
  <2>1. /\ lab' \in [Labs -> LabRows] /\ build' \in [Builds -> BuildRows]
        /\ Lasting /\ LabsSound' /\ BuildsOwned'
    BY <1>1, StepsAreDataSteps, DataStepFacts DEF IInv
  <2>2. TypeOK'
    BY <1>1, <2>1, TasksStayGood, RunsStayBuilt, EvidenceStaysTyped,
       RecordsStayTyped
    DEF IInv, TypeOK
  <2> QED BY <1>1, <2>1, <2>2, TasksStayGood, RunsStayBuilt DEF IInv
<1>2. CASE UNCHANGED vars
  BY <1>2
  DEF vars, IInv, TypeOK, LabsSound, TasksGood, BuildsOwned,
      RunsUseBuiltImages
<1> QED BY <1>1, <1>2

-----------------------------------------------------------------------------
(* The theorems.                                                           *)

\* Requests, administrators, builds and restarts keep the shape of every
\* variable.
THEOREM TypeCorrect == Spec => []TypeOK
<1>1. IInv => TypeOK
  BY DEF IInv
<1> QED BY Initially, Inductive, <1>1, PTL DEF Spec

\* The invariant behind the others.
THEOREM Invariant == Spec => []IInv
BY Initially, Inductive, PTL DEF Spec

\* saveValidation: no verdict, however late, lifts an administrator's hold.
THEOREM HoldOutlivesVerdicts == Spec => []HoldIsQuarantine
<1>1. IInv => HoldIsQuarantine
  BY DEF IInv, LabsSound, Sound, HoldIsQuarantine
<1> QED BY Invariant, <1>1, PTL

\* refreshLabBuild, successfulBuildPatch: what a lab shows of its build is
\* true, whatever answers overtake each other.
THEOREM LabsShowTheirBuilds == Spec => []LabFollowsItsBuild
<1>1. IInv => LabFollowsItsBuild
  BY DEF IInv, LabsSound, Sound, True, LabFollowsItsBuild
<1> QED BY Invariant, <1>1, PTL

\* deploy: every run is of an image that was built for its lab.
THEOREM RunsAreOfBuiltImages == Spec => []RunsUseBuiltImages
<1>1. IInv => RunsUseBuiltImages
  BY DEF IInv
<1> QED BY Invariant, <1>1, PTL

\* The lifecycle implements what authors and administrators are promised:
\* every step of a request, an administrator or the builder is one step of
\* LabContract or none.
THEOREM LifecycleImplementsContract == Spec => ImplementsContract
<1> DEFINE phase == [l \in Labs |-> IF Exists(l) THEN lab[l].status
                                               ELSE "absent"]
           held == {l \in Labs : lab[l].hold}
           target == [l \in Labs |-> lab[l].image]
           made == [b \in Builds |-> IF build[b].lab = NoLab THEN {}
                                    ELSE {build[b].lab}]
<1>1. Init => Contract!Init
  BY DEF Init, Exists, Contract!Init
<1>2. IInv /\ IInv' /\ [Next]_vars => [Contract!Next]_(Contract!lvars)
  <2> SUFFICES ASSUME IInv, IInv', [Next]_vars
               PROVE  [Contract!Next]_(Contract!lvars)
    OBVIOUS
  <2>1. /\ lab \in [Labs -> LabRows] /\ lab' \in [Labs -> LabRows]
        /\ build \in [Builds -> BuildRows] /\ build' \in [Builds -> BuildRows]
        /\ \A l \in Labs : Sound(lab[l], l, build)
        /\ BuildsOwned
    BY DEF IInv, TypeOK, LabsSound
  <2>2. CASE UNCHANGED <<lab, build>>
    BY <2>2 DEF Contract!lvars, Exists
  <2>3. CASE LabStep /\ UNCHANGED build
    <3>0. UNCHANGED made
      BY <2>3
    <3>1. PICK l \in Labs : Creates(l) \/ Shows(l) \/ GivesUp(l)
                           \/ Judges(l) \/ Holds(l) \/ Frees(l)
      BY <2>3 DEF LabStep
    <3>2. CASE Creates(l)
      <4>1. UNCHANGED held /\ UNCHANGED target
        BY <2>1, <3>2 DEF Creates
      <4>2. phase[l] = "absent" /\ phase' = [phase EXCEPT ![l] = "draft"]
        BY <2>1, <3>2 DEF Creates, Exists, LabRows
      <4>3. Contract!Create(l)
        BY <3>0, <4>1, <4>2 DEF Contract!Create
      <4> QED BY <4>3 DEF Contract!Next
    <3>3. CASE Shows(l)
      <4>1. PICK a \in BuildAnswers :
               /\ True(a, l, build)
               /\ lab' = [lab EXCEPT ![l].builder = a, ![l].image = Target(@, a)]
        BY <3>3 DEF Shows
      <4>2. UNCHANGED held /\ UNCHANGED phase
        BY <2>1, <4>1 DEF Exists
      <4>3. CASE a.status = "succeeded"
        <5>1. a.id \in Builds /\ build[a.id].lab = l
          BY <4>1 DEF True
        <5>2. target' = [target EXCEPT ![l] = a.id]
          <6>1. lab'[l].image = a.id /\ \A m \in Labs \ {l} : lab'[m] = lab[m]
            BY <2>1, <4>1, <4>3 DEF Target, LabRows
          <6>2. target' = [m \in Labs |-> IF m = l THEN a.id ELSE target[m]]
            BY <6>1
          <6> HIDE DEF target
          <6>3. target = [m \in Labs |-> target[m]]
            BY DEF target
          <6> QED BY <6>2, <6>3
        <5>3. phase[l] = "draft" /\ l \in made[a.id]
          BY <3>3, <5>1, NoLabIsNotALab DEF Shows, Exists
        <5>4. Contract!Retarget(l, a.id)
          BY <3>0, <4>2, <5>2, <5>3 DEF Contract!Retarget
        <5> QED BY <5>1, <5>4 DEF Contract!Next
      <4>4. CASE a.status # "succeeded"
        <5>1. UNCHANGED target
          BY <2>1, <4>1, <4>4 DEF Target
        <5> QED BY <3>0, <4>2, <5>1 DEF Contract!lvars
      <4> QED BY <4>3, <4>4
    <3>4. CASE GivesUp(l)
      <4>1. UNCHANGED held /\ UNCHANGED phase /\ UNCHANGED target
        BY <2>1, <3>4 DEF GivesUp, Exists
      <4> QED BY <3>0, <4>1 DEF Contract!lvars
    <3>5. CASE Judges(l)
      <4>1. PICK s \in {"validated", "quarantined"} :
               /\ s = "validated" => ~lab[l].hold /\ lab[l].image # NoBuild
               /\ lab' = [lab EXCEPT ![l].status = s]
        BY <3>5 DEF Judges
      <4>2. UNCHANGED held /\ UNCHANGED target
        BY <2>1, <4>1
      <4>3. phase[l] # "absent" /\ phase' = [phase EXCEPT ![l] = s]
        <5>1. lab'[l].status = s /\ \A m \in Labs \ {l} : lab'[m] = lab[m]
          BY <2>1, <4>1 DEF LabRows
        <5>2. phase' = [m \in Labs |-> IF m = l THEN s ELSE phase[m]]
          BY <4>1, <5>1 DEF Exists
        <5>3. phase[l] # "absent"
          BY <2>1, <3>5 DEF Judges, Exists, LabRows
        <5> HIDE DEF phase
        <5>4. phase = [m \in Labs |-> phase[m]]
          BY DEF phase
        <5> QED BY <5>2, <5>3, <5>4
      <4>4. Contract!Pass(l) \/ Contract!Fail(l)
        BY <3>0, <4>1, <4>2, <4>3 DEF Contract!Pass, Contract!Fail
      <4> QED BY <4>4 DEF Contract!Next
    <3>6. CASE Holds(l)
      <4>1. UNCHANGED target /\ held' = held \cup {l}
        BY <2>1, <3>6 DEF Holds, LabRows
      <4>2. phase[l] # "absent"
            /\ phase' = [phase EXCEPT ![l] = "quarantined"]
        BY <2>1, <3>6 DEF Holds, Exists, LabRows
      <4>3. Contract!Hold(l)
        BY <3>0, <4>1, <4>2 DEF Contract!Hold
      <4> QED BY <4>3 DEF Contract!Next
    <3>7. CASE Frees(l)
      <4>1. UNCHANGED target /\ held' = held \ {l}
        BY <2>1, <3>7 DEF Frees, LabRows
      <4>2. phase[l] = "quarantined"
            /\ phase' = [phase EXCEPT ![l] = "draft"]
        BY <2>1, <3>7 DEF Frees, Exists, LabRows
      <4>3. Contract!Release(l)
        BY <3>0, <4>1, <4>2 DEF Contract!Release
      <4> QED BY <4>3 DEF Contract!Next
    <3> QED BY <3>1, <3>2, <3>3, <3>4, <3>5, <3>6, <3>7
  <2>4. CASE BuildStep /\ UNCHANGED lab
    <3>1. UNCHANGED phase /\ UNCHANGED held /\ UNCHANGED target
      BY <2>4 DEF Exists
    <3>2. CASE \E b \in Builds, l \in Labs : Begins(b, l)
      <4>1. PICK b \in Builds, l \in Labs : Begins(b, l)
        BY <3>2
      <4>2. made[b] = {} /\ made' = [made EXCEPT ![b] = {l}]
        <5>1. build'[b].lab = l /\ \A c \in Builds \ {b} : build'[c] = build[c]
          BY <2>1, <4>1 DEF Begins
        <5> QED BY <2>1, <4>1, <5>1, NoLabIsNotALab DEF Begins, BuildsOwned
      <4>3. Contract!Build(b, l)
        BY <3>1, <4>2 DEF Contract!Build
      <4> QED BY <4>3 DEF Contract!Next
    <3>3. CASE \E b \in Builds, s \in Ending : EndsAs(b, s)
      <4>1. PICK b \in Builds, s \in Ending : EndsAs(b, s)
        BY <3>3
      <4>2. \A c \in Builds : build'[c].lab = build[c].lab
        BY <2>1, <4>1 DEF EndsAs, BuildRows
      <4>3. UNCHANGED made
        BY <4>2
      <4> QED BY <3>1, <4>3 DEF Contract!lvars
    <3> QED BY <2>4, <3>2, <3>3 DEF BuildStep
  <2>5. DataStep
    BY StepsAreDataSteps DEF vars, DataStep
  <2> QED BY <2>2, <2>3, <2>4, <2>5 DEF DataStep
<1> QED BY Initially, Inductive, <1>1, <1>2, PTL
        DEF Spec, ImplementsContract, Contract!Spec

-----------------------------------------------------------------------------
(* The page of a lab.  What an answer is about was settled when it was asked *)
(* for, whatever the page has come to show since (Apt), and a lab that is    *)
(* validated is in flight until its flow is through (InFlight).             *)

Checking == {"check", "refetch", "relist"}
FlowFields == {"kind", "at", "lab", "listed", "goesOn", "reply", "live"}

\* An answer is about the lab it was asked for, and so is the validation the
\* list had of a lab whose details are on their way.
Apt(x) ==
    /\ DOMAIN x = FlowFields
    /\ x.reply \notin {Nil, Error} =>
         /\ x.at \in {"detail", "refetch", "retry"} => x.reply.id = x.lab[1]
         /\ x.at = "check" => x.reply.lab = x.lab[1]
    /\ x.at = "detail" /\ x.listed # Nil => x.listed.lab = x.lab[1]

\* A lab that is validated is marked so, and by one flow.
InFlight ==
    \A f, g \in DOMAIN flow :
       flow[f].at \in Checking =>
         /\ LabAsked(f) \in inFlight
         /\ flow[g].at \in Checking /\ LabAsked(f) = LabAsked(g) => f = g

Showing == validation # Nil => IsSelected(validation.lab)

PageInv ==
    /\ DOMAIN flow = Slots \cup Polls
    /\ \A f \in DOMAIN flow : Apt(flow[f])
    /\ InFlight
    /\ Showing

LEMMA FreeIsApt == Apt(Free)
BY DEF Apt, Free, FlowFields

LEMMA AskingIsApt ==
    ASSUME NEW kind, NEW at, NEW l PROVE Apt(Asking(kind, at, l))
BY DEF Apt, Asking, Free, FlowFields

LEMMA WaitIsApt ==
    ASSUME NEW f
    PROVE  Apt(Asking("poll", "wait", f)) /\ Asking("poll", "wait", f).at = "wait"
BY DEF Apt, Asking, Free, FlowFields

\* What is asked for is what is found.
LEMMA FoundIsApt ==
    ASSUME NEW next, Apt([next EXCEPT !.reply = Nil]), DOMAIN next = FlowFields
    PROVE  Apt([next EXCEPT !.reply = Found(stored, next)])
<1> DEFINE x == [next EXCEPT !.reply = Found(stored, next)]
           y == [next EXCEPT !.reply = Nil]
<1>1. /\ DOMAIN x = FlowFields /\ x.at = next.at /\ x.lab = next.lab
      /\ x.listed = next.listed /\ x.reply = Found(stored, next)
  BY DEF FlowFields
<1>2. next.at = "detail" /\ next.listed # Nil => next.listed.lab = next.lab[1]
  <2>1. y.at = next.at /\ y.lab = next.lab /\ y.listed = next.listed
    BY DEF FlowFields
  <2>2. y.at = "detail" /\ y.listed # Nil => y.listed.lab = y.lab[1]
    BY DEF Apt
  <2> HIDE DEF y
  <2> QED BY <2>1, <2>2
<1>3. next.at \in {"detail", "refetch"} => Found(stored, next).id = next.lab[1]
  BY DEF Found, Of
<1>4. next.at \in {"check", "retry"} => Found(stored, next) = Nil
  BY DEF Found
<1> HIDE DEF x
<1> QED BY <1>1, <1>2, <1>3, <1>4 DEF Apt

\* A flow goes on; a loop may be started or cancelled with it.
LEMMA GoesKeepsApt ==
    ASSUME PageInv, NEW f \in DOMAIN flow, NEW next, Goes(f, next),
           DOMAIN next = FlowFields,
           next.at = "detail" /\ next.listed # Nil => next.listed.lab = next.lab[1]
    PROVE  /\ DOMAIN flow' = DOMAIN flow
           /\ \A g \in DOMAIN flow : Apt(flow'[g])
           /\ \A g \in DOMAIN flow : flow'[g].at \in Checking =>
                IF g = f THEN flow'[g].at = next.at /\ flow'[g].lab = next.lab
                ELSE flow'[g].at = flow[g].at /\ flow'[g].lab = flow[g].lab
<1> DEFINE new == [next EXCEPT !.reply = Found(stored, next)]
           flows == [flow EXCEPT ![f] = new]
<1>1. flow' = Repolled(flows)
  BY DEF Goes
<1>2. Apt(new) /\ new.at = next.at /\ new.lab = next.lab
  <2>1. Apt([next EXCEPT !.reply = Nil])
    BY DEF Apt, FlowFields
  <2>2. new.at = next.at /\ new.lab = next.lab
    BY DEF FlowFields
  <2> QED BY <2>1, <2>2, FoundIsApt
<1> HIDE DEF new
<1>3. /\ DOMAIN flows = DOMAIN flow
      /\ flows[f] = new
      /\ \A g \in DOMAIN flow : g # f => flows[g] = flow[g]
  OBVIOUS
<1>4. \A g \in DOMAIN flow : Apt(flows[g])
  BY <1>2, <1>3 DEF PageInv
<1> HIDE DEF flows
<1>5. /\ DOMAIN flow' = DOMAIN flow
      /\ \A g \in DOMAIN flow : \/ flow'[g] = flows[g]
                                \/ flow'[g] = Free
                                \/ flow'[g] = Asking("poll", "wait", g)
                                \/ flow'[g] = [flows[g] EXCEPT !.live = FALSE]
  BY <1>1, <1>3 DEF Repolled
<1>6. ASSUME NEW g \in DOMAIN flow
      PROVE  /\ Apt(flow'[g])
             /\ flow'[g].at \in Checking => /\ flow'[g].at = flows[g].at
                                            /\ flow'[g].lab = flows[g].lab
  <2>1. CASE flow'[g] = flows[g]
    BY <1>4, <2>1
  <2>2. CASE flow'[g] = Free
    BY <2>2, FreeIsApt DEF Free, Checking
  <2>3. CASE flow'[g] = Asking("poll", "wait", g)
    BY <2>3, WaitIsApt DEF Checking
  <2>4. CASE flow'[g] = [flows[g] EXCEPT !.live = FALSE]
    <3>1. Apt(flows[g])
      BY <1>4
    <3> QED BY <2>4, <3>1 DEF Apt, FlowFields
  <2> QED BY <1>5, <2>1, <2>2, <2>3, <2>4
<1>7. ASSUME NEW g \in DOMAIN flow, flow'[g].at \in Checking
      PROVE  IF g = f THEN flow'[g].at = next.at /\ flow'[g].lab = next.lab
             ELSE flow'[g].at = flow[g].at /\ flow'[g].lab = flow[g].lab
  <2>1. flow'[g].at = flows[g].at /\ flow'[g].lab = flows[g].lab
    BY <1>6, <1>7
  <2> QED BY <1>2, <1>3, <2>1
<1> QED BY <1>5, <1>6, <1>7

\* No flow starts to validate: what was in flight stays so, but for the lab of
\* a flow that is through.
LEMMA GoesOnQuietly ==
    ASSUME PageInv, NEW f \in DOMAIN flow, NEW next, Goes(f, next),
           DOMAIN next = FlowFields,
           next.at = "detail" /\ next.listed # Nil => next.listed.lab = next.lab[1],
           \/ next.at \notin Checking /\ inFlight' = inFlight
           \/ /\ next.at \notin Checking /\ flow[f].at \in Checking
              /\ inFlight' = inFlight \ {LabAsked(f)}
           \/ next.at \in Checking /\ flow[f].at \in Checking /\ next.lab = flow[f].lab
              /\ inFlight' = inFlight,
           Showing'
    PROVE  PageInv'
<1>1. /\ DOMAIN flow' = DOMAIN flow
      /\ \A g \in DOMAIN flow : Apt(flow'[g])
      /\ \A g \in DOMAIN flow : flow'[g].at \in Checking =>
           IF g = f THEN flow'[g].at = next.at /\ flow'[g].lab = next.lab
           ELSE flow'[g].at = flow[g].at /\ flow'[g].lab = flow[g].lab
  BY GoesKeepsApt
<1>2. \A g \in DOMAIN flow : flow'[g].at \in Checking =>
         flow[g].at \in Checking /\ flow'[g].lab = flow[g].lab
  BY <1>1
<1>3. InFlight'
  <2> SUFFICES ASSUME NEW g \in DOMAIN flow, NEW h \in DOMAIN flow,
                      flow'[g].at \in Checking
               PROVE  /\ flow'[g].lab[1] \in inFlight'
                      /\ flow'[h].at \in Checking /\ flow'[g].lab[1] = flow'[h].lab[1]
                           => g = h
    BY <1>1 DEF InFlight, LabAsked
  <2>1. flow[g].at \in Checking /\ flow[g].lab[1] \in inFlight
        /\ flow'[g].lab = flow[g].lab
    BY <1>2 DEF PageInv, InFlight, LabAsked
  <2>2. flow'[h].at \in Checking /\ flow'[g].lab[1] = flow'[h].lab[1] => g = h
    BY <1>2, <2>1 DEF PageInv, InFlight, LabAsked
  <2>3. flow'[g].lab[1] \in inFlight'
    <3>1. CASE inFlight' = inFlight
      BY <2>1, <3>1
    <3>2. CASE next.at \notin Checking /\ flow[f].at \in Checking
               /\ inFlight' = inFlight \ {LabAsked(f)}
      <4>1. g # f
        BY <1>1, <3>2
      <4>2. LabAsked(g) # LabAsked(f)
        BY <2>1, <3>2, <4>1 DEF PageInv, InFlight
      <4> QED BY <2>1, <3>2, <4>2 DEF LabAsked
    <3> QED BY <3>1, <3>2
  <2> QED BY <2>2, <2>3
<1> QED BY <1>1, <1>3 DEF PageInv

\* A flow starts to validate a lab that is not in flight.
LEMMA GoesChecking ==
    ASSUME PageInv, NEW f \in DOMAIN flow, NEW next, Goes(f, next),
           DOMAIN next = FlowFields, next.at = "check",
           next.lab[1] \notin inFlight, inFlight' = inFlight \cup {next.lab[1]},
           Showing'
    PROVE  PageInv'
<1>1. /\ DOMAIN flow' = DOMAIN flow
      /\ \A g \in DOMAIN flow : Apt(flow'[g])
      /\ \A g \in DOMAIN flow : flow'[g].at \in Checking =>
           IF g = f THEN flow'[g].at = next.at /\ flow'[g].lab = next.lab
           ELSE flow'[g].at = flow[g].at /\ flow'[g].lab = flow[g].lab
  BY GoesKeepsApt
<1>2. ASSUME NEW g \in DOMAIN flow, flow'[g].at \in Checking, g # f
      PROVE  flow[g].at \in Checking /\ flow'[g].lab = flow[g].lab
             /\ flow'[g].lab[1] \in inFlight
  BY <1>1, <1>2 DEF PageInv, InFlight, LabAsked
<1>3. InFlight'
  <2> SUFFICES ASSUME NEW g \in DOMAIN flow, NEW h \in DOMAIN flow,
                      flow'[g].at \in Checking
               PROVE  /\ flow'[g].lab[1] \in inFlight'
                      /\ flow'[h].at \in Checking /\ flow'[g].lab[1] = flow'[h].lab[1]
                           => g = h
    BY <1>1 DEF InFlight, LabAsked
  <2>1. flow'[g].lab[1] \in inFlight'
    BY <1>1, <1>2
  <2>2. ASSUME flow'[h].at \in Checking, flow'[g].lab[1] = flow'[h].lab[1], g # h
        PROVE  FALSE
    <3>1. CASE g = f
      BY <1>1, <1>2, <2>2, <3>1
    <3>2. CASE h = f
      BY <1>1, <1>2, <2>2, <3>2
    <3>3. CASE g # f /\ h # f
      BY <1>2, <2>2, <3>3 DEF PageInv, InFlight, LabAsked
    <3> QED BY <3>1, <3>2, <3>3
  <2> QED BY <2>1, <2>2
<1> QED BY <1>1, <1>3 DEF PageInv

\* A flow that is through, or that sends its next request.
LEMMA GoesFree ==
    ASSUME PageInv, NEW f \in DOMAIN flow, Goes(f, Free),
           \/ inFlight' = inFlight
           \/ flow[f].at \in Checking /\ inFlight' = inFlight \ {LabAsked(f)},
           Showing'
    PROVE  PageInv'
<1>1. DOMAIN Free = FlowFields /\ Free.at = "none"
  BY DEF Free, FlowFields
<1> QED BY <1>1, GoesOnQuietly DEF Checking

LEMMA SendsOn ==
    ASSUME PageInv, NEW f \in DOMAIN flow, NEW at, Sends(f, at), inFlight' = inFlight,
           at \notin Checking \/ flow[f].at \in Checking, Showing'
    PROVE  PageInv'
<1> DEFINE next == [flow[f] EXCEPT !.at = at, !.goesOn = FALSE, !.listed = Nil]
<1>1. Goes(f, next)
  BY DEF Sends
<1>2. /\ DOMAIN next = FlowFields /\ next.at = at /\ next.lab = flow[f].lab
      /\ next.listed = Nil
  BY DEF PageInv, Apt, FlowFields
<1> HIDE DEF next
<1> QED BY <1>1, <1>2, GoesOnQuietly

LEMMA ListsNext ==
    ASSUME PageInv, NEW f \in DOMAIN flow, NEW l, NEW validates, ThenLists(f, l, validates),
           inFlight' = inFlight, Showing'
    PROVE  PageInv'
<1> DEFINE next == [flow[f] EXCEPT !.at = "list", !.lab = Key(l), !.goesOn = validates]
<1>1. Goes(f, next)
  BY DEF ThenLists
<1>2. DOMAIN next = FlowFields /\ next.at = "list"
  BY DEF PageInv, Apt, FlowFields
<1> HIDE DEF next
<1> QED BY <1>1, <1>2, GoesOnQuietly DEF Checking

LEMMA ValidationStarts ==
    ASSUME PageInv, NEW f \in DOMAIN flow, NEW key, StartsValidation(f, key),
           key[1] = LabAsked(f), Showing'
    PROVE  PageInv'
<1>1. CASE MayStart(key, TRUE)
  <2> DEFINE next == [flow[f] EXCEPT !.at = "check", !.goesOn = FALSE, !.listed = Nil]
  <2>1. Goes(f, next) /\ inFlight' = inFlight \cup {key[1]} /\ key[1] \notin inFlight
    BY <1>1 DEF StartsValidation, Sends, MayStart
  <2>2. DOMAIN next = FlowFields /\ next.at = "check" /\ next.lab = flow[f].lab
    BY DEF PageInv, Apt, FlowFields
  <2> HIDE DEF next
  <2> QED BY <2>1, <2>2, GoesChecking DEF LabAsked
<1>2. CASE ~MayStart(key, TRUE)
  <2>1. Goes(f, Free) /\ inFlight' = inFlight
    BY <1>2 DEF StartsValidation, refs
  <2> QED BY <2>1, GoesFree
<1> QED BY <1>1, <1>2

\* A lab is shown with its own validation, or with the one that was shown of
\* it.
LEMMA ShowsItsOwn ==
    ASSUME NEW l, NEW v, Show(l, v), v # Nil => l # Nil /\ v.lab = l.id
    PROVE  Showing'
BY DEF Show, Showing, IsSelected

LEMMA OwnValidation ==
    ASSUME NEW l
    PROVE  ValidationOf(l) # Nil => l # Nil /\ ValidationOf(l).lab = l.id
BY DEF ValidationOf

LEMMA KeepsShowing ==
    ASSUME PageInv, Keep PROVE Showing'
BY DEF PageInv, Keep, shownLab, Showing, IsSelected

LEMMA RefreshShows ==
    ASSUME PageInv, NEW reply, Refreshes(reply)
    PROVE  Showing'
<1>1. CASE reply = Error
  BY <1>1, KeepsShowing DEF Refreshes
<1>2. CASE reply # Error
  <2>1. CASE \E l : Show(l, ValidationOf(l))
    BY <2>1, ShowsItsOwn, OwnValidation
  <2>2. CASE validation' = ValidationOf(selected')
    BY <2>2, OwnValidation DEF Showing, IsSelected
  <2> QED BY <1>2, <2>1, <2>2 DEF Refreshes
<1> QED BY <1>1, <1>2

\* What arrives was asked for.
LEMMA AnswerIsApt ==
    ASSUME PageInv, NEW f \in DOMAIN flow, NEW reply \in Answers(f), reply # Error
    PROVE  /\ reply # Nil
           /\ flow[f].at \in {"detail", "refetch", "retry"} => reply.id = LabAsked(f)
           /\ flow[f].at = "check" => reply.lab = LabAsked(f)
<1>1. reply # Nil /\ (reply = flow[f].reply \/ reply = Found(stored, flow[f]))
  BY DEF Answers
<1>2. Apt(flow[f])
  BY DEF PageInv
<1>3. flow[f].at \in {"detail", "refetch"} => Found(stored, flow[f]).id = LabAsked(f)
  BY DEF Found, Of, LabAsked
<1>4. flow[f].at \in {"check", "retry"} => Found(stored, flow[f]) = Nil
  BY DEF Found
<1> QED BY <1>1, <1>2, <1>3, <1>4 DEF Apt, LabAsked

-----------------------------------------------------------------------------
(* The steps of the page.                                                   *)

\* The API puts an answer to a POST on its way.
LEMMA ServedStep ==
    ASSUME PageInv, NEW f \in DOMAIN flow, Served(f)
    PROVE  PageInv'
<1>1. UNCHANGED <<selected, validation, inFlight>>
  BY DEF Served, Generates, Rebuilds, Validates, Deploys, page, shownLab, refs
<1>2. PICK value :
         /\ Replies(f, value)
         /\ value \notin {Nil, Error} =>
              /\ flow[f].at \in {"detail", "refetch", "retry"} => value.id = LabAsked(f)
              /\ flow[f].at = "check" => value.lab = LabAsked(f)
  <2>1. CASE Generates(f)
    BY <2>1 DEF Generates
  <2>2. CASE Rebuilds(f)
    BY <2>2 DEF Rebuilds, Of
  <2>3. CASE Validates(f)
    <3>1. /\ flow[f].at = "check"
          /\ \/ Replies(f, Error)
             \/ \E verdict : Replies(f, [lab |-> LabAsked(f), verdict |-> verdict])
      BY <2>3 DEF Validates
    <3>2. CASE Replies(f, Error)
      BY <3>2
    <3>3. CASE \E verdict : Replies(f, [lab |-> LabAsked(f), verdict |-> verdict])
      <4>1. PICK verdict : Replies(f, [lab |-> LabAsked(f), verdict |-> verdict])
        BY <3>3
      <4>2. [lab |-> LabAsked(f), verdict |-> verdict].lab = LabAsked(f)
        OBVIOUS
      <4> QED BY <3>1, <4>1, <4>2
    <3> QED BY <3>1, <3>2, <3>3
  <2>4. CASE Deploys(f)
    BY <2>4 DEF Deploys
  <2> QED BY <2>1, <2>2, <2>3, <2>4 DEF Served
<1>3. /\ DOMAIN flow' = DOMAIN flow
      /\ \A g \in DOMAIN flow : g # f => flow'[g] = flow[g]
      /\ flow'[f] = [flow[f] EXCEPT !.reply = value]
  BY <1>2 DEF Replies
<1>4. Apt(flow[f]) /\ DOMAIN flow[f] = FlowFields
  BY DEF PageInv, Apt
<1>5. /\ DOMAIN flow'[f] = FlowFields /\ flow'[f].at = flow[f].at
      /\ flow'[f].lab = flow[f].lab /\ flow'[f].listed = flow[f].listed
      /\ flow'[f].reply = value
  BY <1>3, <1>4 DEF FlowFields
<1>6. \A g \in DOMAIN flow : flow'[g].at = flow[g].at /\ flow'[g].lab = flow[g].lab
  BY <1>3, <1>5
<1>7. Apt(flow'[f])
  BY <1>2, <1>4, <1>5 DEF Apt, LabAsked
<1>8. InFlight'
  BY <1>1, <1>3, <1>6 DEF PageInv, InFlight, LabAsked
<1> QED BY <1>1, <1>3, <1>7, <1>8 DEF PageInv, Showing, IsSelected

LEMMA AnsweredStep ==
    ASSUME PageInv, NEW f \in DOMAIN flow, NEW reply \in Answers(f),
           \/ GotDetail(f, reply) \/ GotGenerated(f, reply) \/ GotRetried(f, reply)
           \/ GotRun(f, reply) \/ GotList(f, reply) \/ GotVerdict(f, reply)
           \/ GotLab(f, reply) \/ GotListAgain(f, reply) \/ GotPoll(f, reply)
    PROVE  PageInv'
<1>1. CASE GotDetail(f, reply)
  <2>1. flow[f].at = "detail"
    BY <1>1 DEF GotDetail, Delivers
  <2>2. CASE reply = Error \/ ~IsSelected(LabAsked(f))
    <3>1. Keep /\ Goes(f, Free) /\ inFlight' = inFlight
      BY <1>1, <2>2 DEF GotDetail, refs
    <3> QED BY <3>1, KeepsShowing, GoesFree
  <2>3. CASE ~(reply = Error \/ ~IsSelected(LabAsked(f)))
    <3>1. reply # Nil /\ reply.id = LabAsked(f)
      BY <2>1, <2>3, AnswerIsApt
    <3>2. flow[f].listed # Nil => flow[f].listed.lab = LabAsked(f)
      BY <2>1 DEF PageInv, Apt, LabAsked
    <3>3. Showing'
      <4>1. Show(reply, IF reply.verdict = "draft" THEN flow[f].listed
                        ELSE ValidationOf(reply))
        BY <1>1, <2>3 DEF GotDetail
      <4> QED BY <3>1, <3>2, <4>1, ShowsItsOwn, OwnValidation
    <3>4. Key(reply)[1] = LabAsked(f)
      BY <3>1 DEF Key
    <3>5. \/ StartsValidation(f, Key(reply))
          \/ Goes(f, Free) /\ inFlight' = inFlight
      BY <1>1, <2>3 DEF GotDetail, refs
    <3> QED BY <3>3, <3>4, <3>5, ValidationStarts, GoesFree
  <2> QED BY <2>2, <2>3
<1>2. CASE GotGenerated(f, reply)
  <2>1. inFlight' = inFlight
    BY <1>2 DEF GotGenerated, refs
  <2>2. CASE reply = Error
    <3>1. Keep /\ Goes(f, Free)
      BY <1>2, <2>2 DEF GotGenerated
    <3> QED BY <2>1, <3>1, KeepsShowing, GoesFree
  <2>3. CASE reply # Error
    <3>1. /\ Show(reply, ValidationOf(reply))
          /\ ThenLists(f, reply, reply.status = "succeeded")
      BY <1>2, <2>3 DEF GotGenerated
    <3> QED BY <2>1, <3>1, ShowsItsOwn, OwnValidation, ListsNext
  <2> QED BY <2>2, <2>3
<1>3. CASE GotRetried(f, reply)
  <2>1. inFlight' = inFlight /\ flow[f].at = "retry"
    BY <1>3 DEF GotRetried, refs, Delivers
  <2>2. CASE reply = Error \/ ~IsSelected(LabAsked(f))
    <3>1. Keep /\ Goes(f, Free)
      BY <1>3, <2>2 DEF GotRetried
    <3> QED BY <2>1, <3>1, KeepsShowing, GoesFree
  <2>3. CASE ~(reply = Error \/ ~IsSelected(LabAsked(f)))
    <3>1. Show(reply, validation) /\ ThenLists(f, reply, reply.status = "succeeded")
      BY <1>3, <2>3 DEF GotRetried
    <3>2. reply # Nil /\ reply.id = LabAsked(f)
      BY <2>1, <2>3, AnswerIsApt
    <3>3. validation # Nil => validation.lab = reply.id
      BY <2>3, <3>2 DEF PageInv, Showing, IsSelected
    <3> QED BY <2>1, <3>1, <3>2, <3>3, ShowsItsOwn, ListsNext
  <2> QED BY <2>2, <2>3
<1>4. CASE GotRun(f, reply)
  <2>1. Keep /\ Goes(f, Free) /\ inFlight' = inFlight
    BY <1>4 DEF GotRun, refs
  <2> QED BY <2>1, KeepsShowing, GoesFree
<1>5. CASE GotList(f, reply)
  <2>1. Showing'
    BY <1>5, RefreshShows DEF GotList
  <2>2. \/ StartsValidation(f, flow[f].lab)
        \/ Goes(f, Free) /\ inFlight' = inFlight
    BY <1>5 DEF GotList, refs
  <2> QED BY <2>1, <2>2, ValidationStarts, GoesFree DEF LabAsked
<1>6. CASE GotVerdict(f, reply)
  <2>1. flow[f].at = "check"
    BY <1>6 DEF GotVerdict, Delivers
  <2>2. CASE reply = Error
    <3>1. Keep /\ Goes(f, Free) /\ inFlight' = inFlight \ {LabAsked(f)}
      BY <1>6, <2>2 DEF GotVerdict
    <3> QED BY <2>1, <3>1, KeepsShowing, GoesFree DEF Checking
  <2>3. CASE reply # Error
    <3>1. /\ validation' = IF IsSelected(LabAsked(f)) THEN reply ELSE validation
          /\ selected' = selected
          /\ Sends(f, "refetch") /\ inFlight' = inFlight
      BY <1>6, <2>3 DEF GotVerdict
    <3>2. reply.lab = LabAsked(f)
      BY <2>1, <2>3, AnswerIsApt
    <3>3. Showing'
      BY <3>1, <3>2 DEF PageInv, Showing, IsSelected
    <3> QED BY <2>1, <3>1, <3>3, SendsOn DEF Checking
  <2> QED BY <2>2, <2>3
<1>7. CASE GotLab(f, reply)
  <2>1. flow[f].at = "refetch" /\ Sends(f, "relist") /\ inFlight' = inFlight
    BY <1>7 DEF GotLab, Delivers, refs
  <2>2. Showing'
    <3>1. CASE reply = Error \/ ~IsSelected(LabAsked(f))
      <4>1. Keep
        BY <1>7, <3>1 DEF GotLab
      <4> QED BY <4>1, KeepsShowing
    <3>2. CASE ~(reply = Error \/ ~IsSelected(LabAsked(f)))
      <4>1. Show(reply, validation)
        BY <1>7, <3>2 DEF GotLab
      <4>2. reply # Nil /\ reply.id = LabAsked(f)
        BY <2>1, <3>2, AnswerIsApt
      <4>3. validation # Nil => validation.lab = reply.id
        BY <3>2, <4>2 DEF PageInv, Showing, IsSelected
      <4> QED BY <4>1, <4>2, <4>3, ShowsItsOwn
    <3> QED BY <3>1, <3>2
  <2> QED BY <2>1, <2>2, SendsOn DEF Checking
<1>8. CASE GotListAgain(f, reply)
  <2>1. /\ flow[f].at = "relist" /\ Goes(f, Free)
        /\ inFlight' = inFlight \ {LabAsked(f)}
    BY <1>8 DEF GotListAgain, Delivers
  <2>2. Showing'
    BY <1>8, RefreshShows DEF GotListAgain
  <2> QED BY <2>1, <2>2, GoesFree DEF Checking
<1>9. CASE GotPoll(f, reply)
  <2>1. inFlight' = inFlight
    BY <1>9 DEF GotPoll, refs
  <2>2. Showing'
    <3>1. Keep \/ Show(reply, ValidationOf(reply))
      BY <1>9 DEF GotPoll
    <3> QED BY <3>1, KeepsShowing, ShowsItsOwn, OwnValidation
  <2>3. \/ Sends(f, "wait")
        \/ ThenLists(f, reply, reply.status = "succeeded" /\ reply.verdict # "passed")
    BY <1>9 DEF GotPoll
  <2> QED BY <2>1, <2>2, <2>3, SendsOn, ListsNext DEF Checking
<1> QED BY <1>1, <1>2, <1>3, <1>4, <1>5, <1>6, <1>7, <1>8, <1>9

\* A flow of its own for what the user asks for.
LEMMA StartsOwn ==
    ASSUME PageInv, NEW f \in DOMAIN flow, NEW kind, NEW at, NEW l,
           Starts(f, kind, at, l), at \notin Checking, inFlight' = inFlight, Showing'
    PROVE  PageInv'
<1> DEFINE next == Asking(kind, at, Key(l))
<1>1. Goes(f, next)
  BY DEF Starts
<1>2. DOMAIN next = FlowFields /\ next.at = at /\ next.listed = Nil
  BY DEF Asking, Free, FlowFields
<1> HIDE DEF next
<1> QED BY <1>1, <1>2, GoesOnQuietly

LEMMA ClickStep ==
    ASSUME PageInv, NEW f \in DOMAIN flow, UserClicks(f)
    PROVE  PageInv'
<1>1. CASE ClickRefresh(f) \/ HandleGenerate(f) \/ HandleDeploy(f)
  <2>1. Keep /\ inFlight' = inFlight
    BY <1>1 DEF ClickRefresh, HandleGenerate, HandleDeploy, refs
  <2>2. \/ Starts(f, "refresh", "list", Nil) \/ Starts(f, "generate", "generate", Nil)
        \/ Starts(f, "deploy", "deploy", selected)
    BY <1>1 DEF ClickRefresh, HandleGenerate, HandleDeploy
  <2> QED BY <2>1, <2>2, KeepsShowing, StartsOwn DEF Checking
<1>2. CASE HandleValidate(f)
  <2> DEFINE next == Asking("validate", "check", Key(selected))
  <2>1. /\ Keep /\ Goes(f, next) /\ selected # Nil
        /\ Key(selected)[1] \notin inFlight /\ inFlight' = inFlight \cup {selected.id}
    BY <1>2 DEF HandleValidate, Starts, MayStart
  <2>2. Key(selected)[1] = selected.id
    BY <2>1 DEF Key
  <2>3. DOMAIN next = FlowFields /\ next.at = "check" /\ next.lab = Key(selected)
    BY DEF Asking, Free, FlowFields
  <2> HIDE DEF next
  <2> QED BY <2>1, <2>2, <2>3, KeepsShowing, GoesChecking
<1>3. CASE HandleRetryBuild(f)
  <2>1. validation' = Nil /\ Starts(f, "retry", "retry", selected) /\ inFlight' = inFlight
    BY <1>3 DEF HandleRetryBuild, refs
  <2>2. Showing'
    BY <2>1 DEF Showing
  <2> QED BY <2>1, <2>2, StartsOwn DEF Checking
<1>4. ASSUME NEW l \in PageLabs, SelectLab(f, l) PROVE PageInv'
  <2> DEFINE item == Of(items, l)
             next == [Asking("select", "detail", Key(item)) EXCEPT !.listed = ValidationOf(item)]
  <2>1. Show(item, ValidationOf(item)) /\ Goes(f, next) /\ inFlight' = inFlight
    BY <1>4 DEF SelectLab, refs
  <2>2. /\ DOMAIN next = FlowFields /\ next.at = "detail" /\ next.lab = Key(item)
        /\ next.listed = ValidationOf(item)
    BY DEF Asking, Free, FlowFields
  <2>3. next.listed # Nil => next.listed.lab = next.lab[1]
    BY <2>2, OwnValidation DEF Key
  <2> HIDE DEF item, next
  <2> QED BY <2>1, <2>2, <2>3, ShowsItsOwn, OwnValidation, GoesOnQuietly DEF Checking
<1> QED BY <1>1, <1>2, <1>3, <1>4 DEF UserClicks

LEMMA PageBegins == PageInit => PageInv
<1> SUFFICES ASSUME PageInit PROVE PageInv
  OBVIOUS
<1>1. /\ DOMAIN flow = Slots \cup Polls
      /\ \A f \in DOMAIN flow : flow[f] = Asking("poll", "wait", f) \/ flow[f] = Free
  BY DEF PageInit
<1>2. \A f \in DOMAIN flow : Apt(flow[f]) /\ flow[f].at \notin Checking
  BY <1>1, FreeIsApt, WaitIsApt DEF Free, Checking
<1>3. Showing
  <2>1. validation = ValidationOf(selected)
    BY DEF PageInit
  <2> QED BY <2>1, OwnValidation DEF Showing, IsSelected
<1> QED BY <1>1, <1>2, <1>3 DEF PageInv, InFlight

LEMMA PageInductive == PageInv /\ [PageNext]_pageVars => PageInv'
<1> SUFFICES ASSUME PageInv, [PageNext]_pageVars PROVE PageInv'
  OBVIOUS
<1>1. ASSUME UNCHANGED <<selected, validation, inFlight, flow>> PROVE PageInv'
  BY <1>1 DEF PageInv, InFlight, Showing, IsSelected, LabAsked
<1>2. CASE UNCHANGED pageVars
  BY <1>1, <1>2 DEF pageVars, moving, shownLab, refs
<1>3. ASSUME NEW f \in DOMAIN flow, GoesOn(f) PROVE PageInv'
  <2>1. CASE Served(f)
    BY <2>1, ServedStep
  <2>2. CASE Answered(f)
    BY <2>2, AnsweredStep DEF Answered
  <2>3. CASE PollTimer(f)
    <3>1. Keep /\ Sends(f, "detail") /\ inFlight' = inFlight
      BY <2>3 DEF PollTimer, refs
    <3> QED BY <3>1, KeepsShowing, SendsOn DEF Checking
  <2> QED BY <1>3, <2>1, <2>2, <2>3 DEF GoesOn
<1>4. ASSUME NEW f \in Slots, UserClicks(f) PROVE PageInv'
  BY <1>4, ClickStep DEF PageInv
<1>5. CASE \/ Watches \/ \E l \in PageLabs : LabBuildEnds(l)
           \/ \E i \in 1..MaxRuns : RunBecomesReady(i)
  BY <1>1, <1>5
     DEF Watches, WatchTimer, GotLook, LabBuildEnds, RunBecomesReady, page, shownLab, refs
<1> QED BY <1>2, <1>3, <1>4, <1>5 DEF PageNext

\* PageIsCoherent for any labs, builds, handlers and lost answers: the
\* validation that the page shows, and deploys by, is of the lab it shows, and
\* no lab is validated twice at once (page.tsx).
THEOREM PagesAreCoherent == PageSafety => []PageIsCoherent
<1>1. PageInv => PageIsCoherent
  BY DEF PageInv, Showing, InFlight, PageIsCoherent, Checking
<1> QED BY <1>1, PageBegins, PageInductive, PTL DEF PageSafety
=============================================================================
