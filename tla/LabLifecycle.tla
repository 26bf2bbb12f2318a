---------------------------- MODULE LabLifecycle ----------------------------
(***************************************************************************)
(* The life of a lab in the platform API (services/api): generation, the   *)
(* builds of its target image and their refresh, automatic validation, an  *)
(* administrator's quarantine and release, and the reads of a deploy.      *)
(*                                                                         *)
(* A handler is one HTTP request of the single API process.  A step is the *)
(* code between two awaits whose outcome others can influence; each query  *)
(* or transaction of PostgreSQL is one step.  The environment builder is   *)
(* seen from here through its operations: BuildService models its inside.  *)
(***************************************************************************)
EXTENDS Naturals, FiniteSets

CONSTANTS
    Labs,        \* lab identifiers randomUUID can produce
    Builds,      \* build identifiers; each names the image it makes
    Keys,        \* Idempotency-Key values clients use
    Bodies,      \* bodies of generate requests
    Handlers,    \* concurrent HTTP requests
    Routes,      \* the routes clients use
    NoLab, NoBuild, NoKey,
    MaxCrashes   \* bound on process restarts

ASSUME NoLabIsNotALab == NoLab \notin Labs
ASSUME NoBuildIsNotABuild == NoBuild \notin Builds
ASSUME NoKeyIsNotAKey == NoKey \notin Keys
ASSUME KnownRoutes == Routes \subseteq {"generate", "get", "build", "validate",
                                      "deploy"}
ASSUME CrashBound == MaxCrashes \in Nat

VARIABLES
    lab,       \* lab[l]: the row of labs
    evidence,  \* evidence[l]: the outcome in validation_evidence
    build,     \* build[b]: the record of the environment builder
    deployed,  \* the lab and image of every run that was started
    idem,      \* the rows of idempotency_records
    task,      \* task[h]: where handler h is, and what it has read
    crashes

vars == <<lab, evidence, build, deployed, idem, task, crashes>>

Ending == {"succeeded", "failed", "cancelled"}
BuildStatuses == {"none", "active"} \cup Ending   \* active: queued or running
Ops == {"none", "generate", "get", "build", "validate", "deploy"}
Places == {"idle", "create", "start", "fetch", "patch", "giveUp", "cancel",
           "reread", "verify", "save", "run", "record"}
Outcomes == {"none", "pass", "fail"}

Images == Builds \cup {NoBuild}
Claims == [lab : Labs \cup {NoLab}, key : Keys \cup {NoKey}]
BuildKeys == [lab : Labs \cup {NoLab}, key : Keys \cup Bodies \cup {NoKey}]
NoBuildKey == [lab |-> NoLab, key |-> NoKey]

\* hold: admin_quarantined_at is set.  builder and image: config.builder and
\* config.target, of which the builder's id and status and the image matter.
LabRows == [status : {"none", "draft", "validated", "quarantined"},
            hold : BOOLEAN, image : Images,
            builder : [id : Images, status : BuildStatuses]]
BuildRows == [status : BuildStatuses, lab : Labs \cup {NoLab},
              key : BuildKeys]

\* image: the target in the lab that the validator checks (validate), or in
\* the lab that was read (deploy).  recalled: the lab was released from a
\* quarantine after it was read (a history variable).
Evidence == [outcome : Outcomes, image : Images, recalled : BOOLEAN]
Tasks == [at : Places, op : Ops, lab : Labs \cup {NoLab},
          key : Keys \cup {NoKey}, bkey : BuildKeys,
          answer : [id : Images, status : BuildStatuses], image : Images,
          outcome : Outcomes, recalled : BOOLEAN]

NoAnswer == [id |-> NoBuild, status |-> "none"]
Idle == [at |-> "idle", op |-> "none", lab |-> NoLab, key |-> NoKey,
         bkey |-> NoBuildKey, answer |-> NoAnswer, image |-> NoBuild,
         outcome |-> "none", recalled |-> FALSE]

Init ==
    /\ lab = [l \in Labs |-> [status |-> "none", hold |-> FALSE,
                              image |-> NoBuild, builder |-> NoAnswer]]
    /\ evidence = [l \in Labs |-> [outcome |-> "none", image |-> NoBuild,
                                   recalled |-> FALSE]]
    /\ build = [b \in Builds |-> [status |-> "none", lab |-> NoLab,
                                  key |-> NoBuildKey]]
    /\ deployed = {}
    /\ idem = {}
    /\ task = [h \in Handlers |-> Idle]
    /\ crashes = 0

-----------------------------------------------------------------------------
(* Here and below, a definition whose comment starts with "Defect" is not  *)
(* part of the model: it is a variant of the definition that follows it,   *)
(* with a bug the code could have had, and shows which property sees it.   *)

At(h, place) == task[h].at = place
LabOf(h) == task[h].lab
Goto(h, place) == task' = [task EXCEPT ![h].at = place]
Finish(h) == task' = [task EXCEPT ![h] = Idle]

\* An idempotency record is found by actor, operation and key; the operation
\* of a build names the lab, that of a generation none.
ClaimOf(t) == [lab |-> IF t.op = "generate" THEN NoLab ELSE t.lab,
               key |-> t.key]

Start(h, t) ==
    /\ t.op \in Routes
    /\ At(h, "idle")
    /\ task' = [task EXCEPT ![h] = t]

Exists(l) == lab[l].status # "none"

-----------------------------------------------------------------------------
(* Generate.                                                               *)

\* POST generate that is not a replay, up to the answer of the AI service.  The
\* builder will be given a key made from the body alone.
Generate(h, k, body) ==
    /\ [lab |-> NoLab, key |-> k] \notin idem
    /\ Start(h, [Idle EXCEPT !.at = "create", !.op = "generate", !.key = k,
                             !.bkey = [lab |-> NoLab, key |-> body]])
    /\ UNCHANGED <<lab, evidence, build, deployed, idem, crashes>>

\* createLab; the commit may succeed and the read-back fail.
CreateLab(h) ==
    /\ At(h, "create")
    /\ \E l \in Labs :
          /\ ~Exists(l)
          /\ lab' = [lab EXCEPT ![l].status = "draft"]
          /\ \/ task' = [task EXCEPT ![h].at = "start", ![h].lab = l]
             \/ Finish(h)
    /\ UNCHANGED <<evidence, build, deployed, idem, crashes>>

\* The catch block of generate records a failed build without an id.
GaveUp(l) ==
    IF lab[l].status = "draft"
    THEN [lab EXCEPT ![l].builder = [id |-> NoBuild, status |-> "failed"]]
    ELSE lab

GiveUp(h) ==
    /\ At(h, "giveUp")
    /\ \/ lab' = GaveUp(LabOf(h)) /\ Goto(h, "record")
       \/ lab' \in {lab, GaveUp(LabOf(h))} /\ Finish(h)
    /\ UNCHANGED <<evidence, build, deployed, idem, crashes>>

-----------------------------------------------------------------------------
(* The build of a lab.                                                     *)

\* A draft whose build has neither started nor succeeded, as far as the row
\* says.
MayBuild(l) ==
    /\ lab[l].status = "draft"
    /\ lab[l].builder.status \notin {"active", "succeeded"}

\* POST build, up to the call of the builder.
RequestBuild(h, l, k) ==
    /\ MayBuild(l)
    /\ [lab |-> l, key |-> k] \notin idem
    /\ Start(h, [Idle EXCEPT !.at = "start", !.op = "build", !.lab = l,
                             !.key = k, !.bkey = [lab |-> l, key |-> k]])
    /\ UNCHANGED <<lab, evidence, build, deployed, idem, crashes>>

\* An error while a generation waits for the builder ends up in the lab; any
\* other request answers with it.
BuilderError(h) ==
    IF task[h].op = "generate" THEN Goto(h, "giveUp") ELSE Finish(h)

KeyTaken(bkey) ==
    {b \in Builds : build[b].status # "none" /\ build[b].key = bkey}

\* The digest that the builder compares covers the lab.
SameRequest(b, l) == build[b].lab = l

\* Builds that POST builds answers with: a new one, or that of the key.
Startable(h) ==
    IF KeyTaken(task[h].bkey) = {}
    THEN {b \in Builds : build[b].status = "none"}
    ELSE {b \in KeyTaken(task[h].bkey) : SameRequest(b, LabOf(h))}

Started(h, b) ==
    IF KeyTaken(task[h].bkey) = {}
    THEN {[build EXCEPT ![b] = [status |-> s, lab |-> LabOf(h),
                                key |-> task[h].bkey]] :
             s \in {"active", "failed"}}
    ELSE {build}

\* environmentBuilder.start.  If it fails or times out, the build may exist.
StartBuild(h) ==
    /\ At(h, "start")
    /\ \/ \E b \in Startable(h) :
             /\ build' \in Started(h, b)
             /\ \/ task' = [task EXCEPT ![h].at = "fetch", ![h].answer.id = b]
                \/ BuilderError(h)
       \/ build' = build /\ BuilderError(h)
    /\ UNCHANGED <<lab, evidence, deployed, idem, crashes>>

\* The state of the build as the builder answers it, to start or to get.
Fetch(h) ==
    /\ At(h, "fetch")
    /\ \/ task' = [task EXCEPT ![h].at = "patch",
                               ![h].answer.status =
                                   build[task[h].answer.id].status]
       \/ BuilderError(h)
    /\ UNCHANGED <<lab, evidence, build, deployed, idem, crashes>>

\* Defect: the image that the lab has is kept.
TargetKept(image, op) ==
    IF image = NoBuild /\ op.status = "succeeded" THEN op.id ELSE image

\* successfulBuildPatch: the operation's image replaces that of the target.
Target(image, op) == IF op.status = "succeeded" THEN op.id ELSE image

\* Defect: the update does not ask for a draft.
AcceptsAlways(l) == lab[l].status # "none"

\* UPDATE ... WHERE validation_status = 'draft'
AcceptsPatch(l) == lab[l].status = "draft"

Patched(l, op) ==
    IF AcceptsPatch(l)
    THEN [lab EXCEPT ![l].builder = op, ![l].image = Target(@, op)]
    ELSE lab

\* What follows an update of the config, accepted or refused.
AfterPatch(h) ==
    CASE task[h].op = "generate" -> Goto(h, "record")
      [] task[h].op = "build" ->
            Goto(h, IF AcceptsPatch(LabOf(h)) THEN "record" ELSE "cancel")
      [] task[h].op = "validate" /\ AcceptsPatch(LabOf(h)) -> Goto(h, "reread")
      [] OTHER -> Finish(h)

\* updateLabConfig, which may throw after it was carried out.
Patch(h) ==
    /\ At(h, "patch")
    /\ LET patched == Patched(LabOf(h), task[h].answer)
       IN  \/ lab' = patched /\ AfterPatch(h)
           \/ lab' \in {lab, patched} /\ BuilderError(h)
    /\ UNCHANGED <<evidence, build, deployed, idem, crashes>>

Stopped(b) ==
    [build EXCEPT ![b].status = IF @ = "active" THEN "cancelled" ELSE @]

\* environmentBuilder.cancel of a build that the lab did not accept; a failure
\* is swallowed.
CancelBuild(h) ==
    /\ At(h, "cancel")
    /\ build' \in {build, Stopped(task[h].answer.id)}
    /\ Finish(h)
    /\ UNCHANGED <<lab, evidence, deployed, idem, crashes>>

\* saveIdempotencyRecord: a plain INSERT, which fails if a concurrent request
\* with the same key was faster.
Record(h) ==
    /\ At(h, "record")
    /\ idem' = idem \cup {ClaimOf(task[h])}
    /\ Finish(h)
    /\ UNCHANGED <<lab, evidence, build, deployed, crashes>>

-----------------------------------------------------------------------------
(* Refresh, validation and deploy.                                         *)

\* refreshLabBuild asks the builder only about a build that has not ended.
NeedsRefresh(l) ==
    lab[l].builder.id # NoBuild /\ lab[l].builder.status \notin Ending

\* GET lab of a lab whose build must be refreshed.
Get(h, l) ==
    /\ NeedsRefresh(l)
    /\ Start(h, [Idle EXCEPT !.at = "fetch", !.op = "get", !.lab = l,
                             !.answer.id = lab[l].builder.id])
    /\ UNCHANGED <<lab, evidence, build, deployed, idem, crashes>>

\* No build was ever recorded, or it succeeded.
ReadyToVerify(l) == lab[l].builder.status \in {"none", "succeeded"}

\* POST validate: getLab; the status of the lab does not matter.
Validate(h, l) ==
    /\ Exists(l)
    /\ IF NeedsRefresh(l)
       THEN Start(h, [Idle EXCEPT !.at = "fetch", !.op = "validate", !.lab = l,
                                  !.answer.id = lab[l].builder.id])
       ELSE /\ ReadyToVerify(l)
            /\ Start(h, [Idle EXCEPT !.at = "verify", !.op = "validate",
                                     !.lab = l, !.image = lab[l].image])
    /\ UNCHANGED <<lab, evidence, build, deployed, idem, crashes>>

\* getLab at the end of refreshLabBuild.
Reread(h) ==
    /\ At(h, "reread")
    /\ IF ReadyToVerify(LabOf(h))
       THEN task' = [task EXCEPT ![h].at = "verify",
                                 ![h].image = lab[LabOf(h)].image]
       ELSE Finish(h)
    /\ UNCHANGED <<lab, evidence, build, deployed, idem, crashes>>

\* parseLabTarget of the validator refuses a lab without an image.
HasTarget(image) == image # NoBuild

\* labValidator.validate: up to three minutes, then a verdict or an error.
Verify(h) ==
    /\ At(h, "verify")
    /\ \/ /\ HasTarget(task[h].image)
          /\ \E o \in {"pass", "fail"} :
                task' = [task EXCEPT ![h].at = "save", ![h].outcome = o]
       \/ Finish(h)
    /\ UNCHANGED <<lab, evidence, build, deployed, idem, crashes>>

\* CASE WHEN admin_quarantined_at IS NOT NULL THEN 'quarantined' ELSE status
StatusAfter(l, outcome) ==
    IF outcome = "pass" /\ ~lab[l].hold THEN "validated" ELSE "quarantined"

\* saveValidation: evidence and status in one transaction, whatever the status
\* of the lab is now.  (If it throws, QueryError.)
SaveVerdict(h) ==
    /\ At(h, "save")
    /\ lab' = [lab EXCEPT ![LabOf(h)].status =
                  StatusAfter(LabOf(h), task[h].outcome)]
    /\ evidence' = [evidence EXCEPT
                       ![LabOf(h)] = [outcome |-> task[h].outcome,
                                      image |-> task[h].image,
                                      recalled |-> task[h].recalled]]
    /\ Finish(h)
    /\ UNCHANGED <<build, deployed, idem, crashes>>

\* POST deploy: the lab is read once, its target is in what was read.
Deploy(h, l) ==
    /\ lab[l].status = "validated"
    /\ Start(h, [Idle EXCEPT !.at = "run", !.op = "deploy", !.lab = l,
                             !.image = lab[l].image])
    /\ UNCHANGED <<lab, evidence, build, deployed, idem, crashes>>

\* runtime.createRun and what follows (RunLifecycle), or its failure.
Run(h) ==
    /\ At(h, "run")
    /\ deployed' \in {deployed, deployed \cup {[lab |-> LabOf(h),
                                               image |-> task[h].image]}}
    /\ Finish(h)
    /\ UNCHANGED <<lab, evidence, build, idem, crashes>>

\* A query threw, and the handler answers 500.
QueryError(h) ==
    /\ task[h].at \in {"create", "reread", "save", "record"}
    /\ Finish(h)
    /\ UNCHANGED <<lab, evidence, build, deployed, idem, crashes>>

-----------------------------------------------------------------------------
(* The administrator, the builder and restarts.                            *)

\* POST quarantine: quarantineLab, whatever the status.
Quarantine(l) ==
    /\ Exists(l)
    /\ lab' = [lab EXCEPT ![l].status = "quarantined", ![l].hold = TRUE]
    /\ UNCHANGED <<evidence, build, deployed, idem, task, crashes>>

\* Requests that read the lab before now and have not finished.
Recall(l) ==
    [h \in Handlers |->
        IF task[h].at \in {"verify", "save"} /\ LabOf(h) = l
        THEN [task[h] EXCEPT !.recalled = TRUE] ELSE task[h]]

\* POST release: releaseLabQuarantine.
Release(l) ==
    /\ lab[l].status = "quarantined"
    /\ lab' = [lab EXCEPT ![l].status = "draft", ![l].hold = FALSE]
    /\ task' = Recall(l)
    /\ UNCHANGED <<evidence, build, deployed, idem, crashes>>

BuildEnds(b) ==
    /\ build[b].status = "active"
    /\ \E s \in {"succeeded", "failed"} :
          build' = [build EXCEPT ![b].status = s]
    /\ UNCHANGED <<lab, evidence, deployed, idem, task, crashes>>

\* The API process restarts: its handlers are lost.
Crash ==
    /\ crashes < MaxCrashes
    /\ crashes' = crashes + 1
    /\ task' = [h \in Handlers |-> Idle]
    /\ UNCHANGED <<lab, evidence, build, deployed, idem>>

-----------------------------------------------------------------------------
HandlerStep(h) ==
    \/ CreateLab(h)
    \/ GiveUp(h)
    \/ StartBuild(h)
    \/ Fetch(h)
    \/ Patch(h)
    \/ CancelBuild(h)
    \/ Record(h)
    \/ Reread(h)
    \/ Verify(h)
    \/ SaveVerdict(h)
    \/ Run(h)
    \/ QueryError(h)

Author(h) ==
    \/ \E k \in Keys, body \in Bodies : Generate(h, k, body)
    \/ \E l \in Labs :
          \/ \E k \in Keys : RequestBuild(h, l, k)
          \/ Get(h, l)
          \/ Validate(h, l)
          \/ Deploy(h, l)

Administrator == \E l \in Labs : Quarantine(l) \/ Release(l)

Next ==
    \/ \E h \in Handlers : Author(h) \/ HandlerStep(h)
    \/ Administrator
    \/ \E b \in Builds : BuildEnds(b)
    \/ Crash

Spec == Init /\ [][Next]_vars
-----------------------------------------------------------------------------
(* Correctness.                                                            *)

\* Every variable has the shape the code gives it.
TypeOK ==
    /\ lab \in [Labs -> LabRows]
    /\ evidence \in [Labs -> Evidence]
    /\ build \in [Builds -> BuildRows]
    /\ deployed \subseteq [lab : Labs, image : Images]
    /\ idem \subseteq Claims
    /\ task \in [Handlers -> Tasks]
    /\ crashes \in 0..MaxCrashes

\* An administrator's quarantine holds until it is released: no verdict of a
\* validation that was under way lifts it (saveValidation).
HoldIsQuarantine == \A l \in Labs : lab[l].hold => lab[l].status = "quarantined"

\* What a lab shows of its build is true of that build, through stale answers,
\* shared builder keys, retries and restarts: the build was made for this lab,
\* an end that is shown has happened, and a build shown as succeeded is the
\* one whose image runs would use (refreshLabBuild, successfulBuildPatch).
LabFollowsItsBuild ==
    \A l \in Labs :
        LET shown == lab[l].builder
        IN  /\ shown.id # NoBuild =>
                  /\ build[shown.id].lab = l
                  /\ shown.status \in Ending =>
                        build[shown.id].status = shown.status
            /\ shown.status = "succeeded" => lab[l].image = shown.id

\* Every run is started from an image that the builder made and signed for
\* that very lab, whatever happened between the reads of the deploy and of the
\* validation before it.
RunsUseBuiltImages ==
    \A d \in deployed : /\ d.image \in Builds
                        /\ build[d.image].lab = d.lab
                        /\ build[d.image].status = "succeeded"

Contract == INSTANCE LabContract WITH
    Images <- Builds,
    NoImage <- NoBuild,
    phase <- [l \in Labs |-> IF Exists(l) THEN lab[l].status ELSE "absent"],
    held <- {l \in Labs : lab[l].hold},
    target <- [l \in Labs |-> lab[l].image],
    made <- [b \in Builds |-> IF build[b].lab = NoLab THEN {}
                              ELSE {build[b].lab}]

\* Requests, administrators, builds and restarts implement what authors and
\* administrators are promised about a lab.
ImplementsContract == Contract!Spec

\* ports.ts: after a release "the lab must pass validation again before it can
\* be deployed": a lab is validated on the word of a validator that was given
\* the lab as it was after its last release.
ReleasedLabIsRevalidated ==
    \A l \in Labs : lab[l].status = "validated" => ~evidence[l].recalled
=============================================================================
