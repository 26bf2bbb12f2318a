---------------------------- MODULE LabValidation ----------------------------
(***************************************************************************)
(* The automatic validation of one lab revision: the API's call, the       *)
(* validator service (scan, sandbox, review, publish policy), the sandbox  *)
(* of the runtime service with its namespace, its probe job and its        *)
(* telemetry index, and the canary service that stands for another run.    *)
(*                                                                         *)
(* What is true of the revision is fixed at the start: its team, who       *)
(* reviews it, and what is wrong with it (at most one thing).  Every       *)
(* service only learns of it what its calls show it.  A step is one remote *)
(* call or the run of one tool; a call may fail before or after it has its *)
(* effect, a caller may stop waiting, the runtime service may restart, the *)
(* canary may go down and come back at any moment, and an endpoint may not *)
(* answer the probe in time.                                               *)
(*                                                                         *)
(* A definition whose comment starts with "Defect" is not part of the      *)
(* model: it is the definition that follows it with a bug the code could   *)
(* have had.                                                               *)
(***************************************************************************)
EXTENDS Naturals, Sequences, FiniteSets, NetworkPolicy

CONSTANT MaxTroubles    \* bound on failing calls, timeouts and restarts

ASSUME TroubleBound == MaxTroubles \in Nat

VARIABLES
    lab,        \* the revision: [team, reviewer, flaw]
    api,        \* the API's POST /v1/validations: waiting, or its outcome
    chain,      \* where the validator is
    box,        \* where the sandbox validation is
    made,       \* how many base objects were applied
    vspace,     \* the validation namespace
    job,        \* the probe job and what it printed
    index,      \* the telemetry index: absent, there
    evidence,   \* what the sandbox response says is true
    canary,     \* the canary service has ready endpoints
    blinked,    \* history: the canary went down after it was found ready
    unheard,    \* history: routes whose endpoint did not answer the probe in time
    kept,       \* history: a deletion was refused or never asked for
    troubles

validationVars == <<lab, api, chain, box, made, vspace, job, index, evidence,
                    canary, blinked, unheard, kept, troubles>>

-----------------------------------------------------------------------------
(* The revision.                                                           *)

Routes == {"external", "controlPlane", "crossRun"}

\* An open route is one on which the cluster does not enforce the policies.
Flaws == {"none", "draft", "unsigned", "criticalCVE", "crashes", "broken",
          "patched", "ungraded", "unsearchable", "doubtful"}
         \cup {"openExternal", "openControlPlane", "openCrossRun"}

\* The reviewer is an external provider, or computed from the evidence.
Revisions == [team : {"red", "blue"}, reviewer : {"external", "dev"},
              flaw : Flaws]

Has(flaw) == lab.flaw = flaw

-----------------------------------------------------------------------------
(* The sandbox: objects in the order they are applied, and their rules.    *)

\* Defect: the default-deny policy is applied last.
BoxWithDenyLast == << "Namespace", "ServiceAccount", "ResourceQuota",
                      "allow-probe-target", "allow-probe-dns",
                      "allow-target-from-probe", "Deployment", "Service",
                      "default-deny" >>

BoxObjects == << "Namespace", "ServiceAccount", "ResourceQuota",
                 "default-deny", "allow-probe-target", "allow-probe-dns",
                 "allow-target-from-probe", "Deployment", "Service" >>

BoxRoles == {"probe", "target"}

BoxRules ==
    { Rule("default-deny", "ingress", BoxRoles, {}, "none"),
      Rule("default-deny", "egress", BoxRoles, {}, "none"),
      Rule("allow-probe-target", "egress", {"probe"}, {"target"}, "service"),
      Rule("allow-probe-dns", "egress", {"probe"}, {"dns"}, "dns"),
      Rule("allow-target-from-probe", "ingress", {"target"}, {"probe"},
           "service") }

BoxInForce(n) ==
    {r \in BoxRules : \E i \in 1..n : BoxObjects[i] = r.policy}

BoxConnects(src, dst, port) ==
    Connects(BoxInForce(made), src, dst, port)

BoxHas(object) ==
    vspace # "gone" /\ \E i \in 1..made : BoxObjects[i] = object

\* A forbidden endpoint the probe gets through to: the way is open, and there
\* is something at its end.
OpenRoute(r) == Has([external |-> "openExternal", crossRun |-> "openCrossRun",
                 controlPlane |-> "openControlPlane"][r])
ProbeReaches(r) == OpenRoute(r) \/ BoxConnects("probe", r, "service")
CouldHear(r) == ProbeReaches(r) /\ (r = "crossRun" => canary)

NoJob == [state |-> "none", saw |-> {}]

ValidationInit ==
    /\ lab \in Revisions
    /\ api = "waiting" /\ chain = "scan" /\ box = "idle"
    /\ made = 0 /\ vspace = "absent" /\ job = NoJob /\ index = "absent"
    /\ evidence = {} /\ canary = TRUE /\ blinked = FALSE /\ unheard = {}
    /\ kept = FALSE /\ troubles = 0

Trouble == troubles < MaxTroubles /\ troubles' = troubles + 1

boxState == <<box, made, vspace, job, index, evidence>>
world == <<canary, blinked, unheard, kept>>

-----------------------------------------------------------------------------
(* The validator.                                                          *)

\* Verify the signature and the image's contract, make the SBOM, scan.  A
\* signature that does not verify is a command that fails: the scan throws.
Scan ==
    /\ chain = "scan"
    /\ IF Has("unsigned") THEN chain' = "failed" /\ UNCHANGED box
                          ELSE chain' = "sandbox" /\ box' = "base"
    /\ UNCHANGED <<lab, api, made, vspace, job, index, evidence, world,
                   troubles>>

\* The sandbox answers, or its connection is lost with it.
SandboxAnswered ==
    /\ chain = "sandbox" /\ box \in {"answered", "threw"}
    /\ chain' = IF box = "answered" THEN "review" ELSE "failed"
    /\ UNCHANGED <<lab, api, boxState, world, troubles>>

ScannedClean == ~Has("unsigned") /\ ~Has("criticalCVE")
Isolated == {"egressBlocked", "controlPlaneBlocked", "crossRunBlocked"}

\* The reviewer computes its verdict from the evidence, or is a provider.
ReviewPassed ==
    IF lab.reviewer = "dev"
    THEN ScannedClean /\ Isolated \subseteq evidence
    ELSE ~Has("doubtful")

Review ==
    /\ chain = "review"
    /\ chain' = IF ReviewPassed THEN "publish" ELSE "publishDoubtful"
    /\ UNCHANGED <<lab, api, boxState, world, troubles>>

\* validate_publish_candidate: every mandatory check, or quarantine.  The
\* checks of a blue revision's MITRE mappings and of the image's digest are left
\* out: the model publishes what the code publishes, and more.
TeamEvidence == IF lab.team = "blue" THEN {"elkIndexReady", "searchable"}
                                     ELSE {"exploitPathLimited"}
PublishChecks ==
    /\ ~Has("draft") /\ ScannedClean /\ ~Has("ungraded")
    /\ {"provisioned", "functional", "vulnerability"} \subseteq evidence
    /\ Isolated \subseteq evidence
    /\ "cleanupConfirmed" \in evidence
    /\ TeamEvidence \subseteq evidence

Publish ==
    /\ chain \in {"publish", "publishDoubtful"}
    /\ chain' = IF chain = "publish" /\ PublishChecks THEN "pass"
                                                      ELSE "quarantine"
    /\ UNCHANGED <<lab, api, boxState, world, troubles>>

\* A tool or a service fails, or has not answered in time: an error 502.
ValidatorGivesUp ==
    /\ chain \in {"scan", "sandbox", "review", "publish", "publishDoubtful"}
    /\ Trouble
    /\ chain' = "failed"
    /\ UNCHANGED <<lab, api, boxState, world>>

Verdict == CASE chain = "pass" -> "validated"
             [] chain = "quarantine" -> "quarantined"
             [] OTHER -> "error"

ApiAnswered ==
    /\ api = "waiting" /\ chain \in {"pass", "quarantine", "failed"}
    /\ api' = Verdict
    /\ UNCHANGED <<lab, chain, boxState, world, troubles>>

\* After 180 seconds; the validator goes on.
ApiGivesUp ==
    /\ api = "waiting" /\ Trouble /\ api' = "error"
    /\ UNCHANGED <<lab, chain, boxState, world>>

-----------------------------------------------------------------------------
(* The sandbox validation of the runtime service.                          *)

validator == <<lab, api, chain>>
Go(place) == box' = place

ApplyObject ==
    /\ box = "base"
    /\ made' = made + 1 /\ vspace' = "live"
    /\ Go(IF made' = Len(BoxObjects) THEN "target" ELSE "base")
    /\ UNCHANGED <<validator, job, index, evidence, world, troubles>>

\* Before all of them were created nothing is cleaned up.
ApplyObjectFails ==
    /\ box = "base" /\ Trouble
    /\ \/ UNCHANGED <<made, vspace>>
       \/ made' = made + 1 /\ vspace' = "live"
    /\ Go("answered") /\ kept' = TRUE
    /\ UNCHANGED <<validator, job, index, evidence, canary, blinked, unheard>>

TargetReady ==
    /\ box = "target" /\ ~Has("crashes")
    /\ BoxHas("Deployment") /\ BoxHas("Service")
    /\ evidence' = evidence \cup {"provisioned"} /\ Go("canary")
    /\ UNCHANGED <<validator, made, vspace, job, index, world, troubles>>

\* Defect: a failing target ends the validation at once.
TargetFailsAtOnce ==
    /\ box = "target" /\ Has("crashes") /\ Go("answered")
    /\ UNCHANGED <<validator, made, vspace, job, index, evidence, world,
                   troubles>>

TargetFails ==
    /\ box = "target" /\ Has("crashes") /\ Go("delete")
    /\ UNCHANGED <<validator, made, vspace, job, index, evidence, world,
                   troubles>>

\* Defect: the canary is not looked at.
CanaryTakenAsUp ==
    /\ box = "canary" /\ Go("job")
    /\ UNCHANGED <<validator, made, vspace, job, index, evidence, world,
                   troubles>>

\* The address of the canary, and then whether it has ready endpoints.
CheckCanary ==
    /\ box = "canary" /\ Go(IF canary THEN "job" ELSE "delete")
    /\ UNCHANGED <<validator, made, vspace, job, index, evidence, world,
                   troubles>>

ApplyJob ==
    /\ box = "job" /\ Go("probe") /\ job' = [NoJob EXCEPT !.state = "running"]
    /\ UNCHANGED <<validator, made, vspace, index, evidence, world, troubles>>

\* The probe runner: what the target answers, and which of the forbidden
\* endpoints could not be reached.  Of the target a request that failed or was
\* not answered in time shows nothing; a forbidden endpoint that was not
\* connected to in time, or with an error, counts as blocked.
Blocked == [external |-> "egressBlocked", controlPlane |-> "controlPlaneBlocked",
            crossRun |-> "crossRunBlocked"]

ReachesTarget == BoxConnects("probe", "target", "service")
                 /\ BoxConnects("probe", "dns", "dns")

Probe ==
    /\ job.state = "running" /\ vspace = "live"
    /\ \E missed \in SUBSET (Routes \cup {"functional", "vulnerability"}) :
        /\ IF missed = {} THEN UNCHANGED troubles ELSE Trouble
        /\ job' = [state |-> "succeeded",
                   saw |-> {x \in {"functional"} \ missed :
                              ReachesTarget /\ ~Has("broken")}
                           \cup {x \in {"vulnerability"} \ missed :
                                   ReachesTarget /\ ~Has("patched")}
                           \cup {Blocked[r] : r \in {r \in Routes :
                                   ~CouldHear(r) \/ r \in missed}}]
        /\ unheard' = unheard \cup {r \in Routes \cap missed : CouldHear(r)}
    /\ UNCHANGED <<validator, box, made, vspace, index, evidence, canary,
                   blinked, kept>>

\* The container fails or exceeds its deadline; it is not tried again.
ProbeFails ==
    /\ job.state = "running" /\ Trouble
    /\ job' = [NoJob EXCEPT !.state = "failed"]
    /\ UNCHANGED <<validator, box, made, vspace, index, evidence, world>>

\* parseProbeOutput, then the evidence of the team.
ReadProbe ==
    /\ box = "probe" /\ job.state = "succeeded"
    /\ evidence' = evidence \cup job.saw
                   \cup {x \in {"exploitPathLimited"} :
                           lab.team = "red" /\ Isolated \subseteq job.saw}
    /\ Go(IF lab.team = "blue" THEN "index" ELSE "delete")
    /\ UNCHANGED <<validator, made, vspace, job, index, world, troubles>>

ProbeLost ==
    /\ box = "probe" /\ job.state = "failed" /\ Go("delete")
    /\ UNCHANGED <<validator, made, vspace, job, index, evidence, world,
                   troubles>>

\* A call of the Kubernetes API fails, or a deadline passes.
BoxFails ==
    /\ box \in {"target", "canary", "job", "probe"} /\ Trouble
    /\ \/ UNCHANGED job
       \/ box = "job" /\ job' = [NoJob EXCEPT !.state = "running"]
    /\ Go("delete")
    /\ UNCHANGED <<validator, made, vspace, index, evidence, world>>

-----------------------------------------------------------------------------
(* The telemetry of a blue revision: an index of its own, the events in    *)
(* bulk, a lookup by id, and the index dropped.                            *)

CreateIndex ==
    /\ box = "index" /\ index' = "there" /\ Go("bulk")
    /\ evidence' = evidence \cup {"elkIndexReady"}
    /\ UNCHANGED <<validator, made, vspace, job, world, troubles>>

IndexEvents ==
    /\ box = "bulk" /\ Go(IF Has("unsearchable") THEN "drop" ELSE "lookup")
    /\ UNCHANGED <<validator, made, vspace, job, index, evidence, world,
                   troubles>>

LookupEvents ==
    /\ box = "lookup" /\ Go("drop")
    /\ evidence' = evidence \cup {"searchable"}
    /\ UNCHANGED <<validator, made, vspace, job, index, world, troubles>>

DropIndex ==
    /\ box = "drop" /\ index' = "absent" /\ Go("delete")
    /\ UNCHANGED <<validator, made, vspace, job, evidence, world, troubles>>

\* An index whose creation was not answered is not dropped, and a failing
\* drop is swallowed.
TelemetryFails ==
    /\ box \in {"index", "bulk", "lookup", "drop"} /\ Trouble
    /\ \/ UNCHANGED index
       \/ box = "index" /\ index' = "there"
       \/ box = "drop" /\ index' = "absent"
    /\ Go(IF box \in {"bulk", "lookup"} THEN "drop" ELSE "delete")
    /\ UNCHANGED <<validator, made, vspace, job, evidence, world>>

-----------------------------------------------------------------------------
(* finally: delete the namespace, and watch it go for a minute.             *)

DeleteBox ==
    /\ box = "delete" /\ Go("watch")
    /\ vspace' = "terminating"
    /\ UNCHANGED <<validator, made, job, index, evidence, world, troubles>>

DeleteBoxFails ==
    /\ box = "delete" /\ Trouble /\ Go("watch")
    /\ \/ vspace' = "terminating" /\ UNCHANGED kept
       \/ UNCHANGED vspace /\ kept' = TRUE
    /\ UNCHANGED <<validator, made, job, index, evidence, canary, blinked,
                   unheard>>

WatchGone ==
    /\ box = "watch" /\ vspace = "gone" /\ Go("answered")
    /\ evidence' = evidence \cup {"cleanupConfirmed"}
    /\ UNCHANGED <<validator, made, vspace, job, index, world, troubles>>

\* The minute is over; it surely is when the deletion was refused.
WatchTimesOut ==
    /\ box = "watch" /\ Go("answered")
    /\ \/ vspace = "live" /\ UNCHANGED troubles
       \/ vspace # "live" /\ Trouble
    /\ UNCHANGED <<validator, made, vspace, job, index, evidence, world>>

\* A failing look throws out of the finally.
WatchThrows ==
    /\ box = "watch" /\ Trouble /\ Go("threw")
    /\ UNCHANGED <<validator, made, vspace, job, index, evidence, world>>

BoxRestart ==
    /\ box \notin {"idle", "answered", "threw"} /\ Trouble
    /\ Go("threw") /\ kept' = (kept \/ box # "watch")
    /\ UNCHANGED <<validator, made, vspace, job, index, evidence, canary,
                   blinked, unheard>>

-----------------------------------------------------------------------------
(* The cluster.                                                            *)

BoxGone ==
    /\ vspace = "terminating" /\ vspace' = "gone" /\ job' = NoJob
    /\ UNCHANGED <<validator, box, made, index, evidence, world, troubles>>

CanaryBlinks ==
    /\ \/ canary /\ Trouble
       \/ ~canary /\ UNCHANGED troubles
    /\ canary' = ~canary
    /\ blinked' = (blinked \/ (canary /\ box \in {"job", "probe"}))
    /\ UNCHANGED <<validator, boxState, unheard, kept>>

BoxStep == \/ ApplyObject \/ TargetReady \/ TargetFails \/ CheckCanary
           \/ ApplyJob \/ ReadProbe \/ ProbeLost
           \/ CreateIndex \/ IndexEvents \/ LookupEvents \/ DropIndex
           \/ DeleteBox \/ WatchGone \/ WatchTimesOut

ValidatorStep == Scan \/ SandboxAnswered \/ Review \/ Publish \/ ApiAnswered

ValidationNext ==
    \/ ValidatorStep \/ ValidatorGivesUp \/ ApiGivesUp
    \/ BoxStep \/ Probe \/ ProbeFails
    \/ ApplyObjectFails \/ BoxFails \/ TelemetryFails
    \/ DeleteBoxFails \/ WatchThrows \/ BoxRestart
    \/ BoxGone \/ CanaryBlinks

\* Every call of the chain has a timeout and every wait a deadline; the
\* kubelet runs the job, the namespace controller finishes a deletion.
ValidationFairness ==
    /\ WF_validationVars(BoxStep) /\ WF_validationVars(ValidatorStep)
    /\ WF_validationVars(Probe) /\ WF_validationVars(BoxGone)

ValidationSafety == ValidationInit /\ [][ValidationNext]_validationVars

-----------------------------------------------------------------------------
Places == {"idle", "base", "target", "canary", "job", "probe", "index", "bulk",
           "lookup", "drop", "delete", "watch", "answered", "threw"}
Findings == Isolated \cup {"provisioned", "functional", "vulnerability",
                           "cleanupConfirmed", "elkIndexReady", "searchable",
                           "exploitPathLimited"}

\* Every variable has its type.
ValidationTypeOK ==
    /\ lab \in Revisions
    /\ api \in {"waiting", "validated", "quarantined", "error"}
    /\ chain \in {"scan", "sandbox", "review", "publish", "publishDoubtful",
                  "pass", "quarantine", "failed"}
    /\ box \in Places /\ made \in 0..Len(BoxObjects)
    /\ vspace \in {"absent", "live", "terminating", "gone"}
    /\ job \in [state : {"none", "running", "succeeded", "failed"},
                saw : SUBSET Findings]
    /\ index \in {"absent", "there"} /\ evidence \subseteq Findings
    /\ canary \in BOOLEAN /\ blinked \in BOOLEAN /\ unheard \subseteq Routes
    /\ kept \in BOOLEAN
    /\ troubles \in 0..MaxTroubles

\* A revision the API records as validated has nothing wrong with it, whatever
\* failed on the way.  Two things slip through, since the probe takes whatever
\* it could not connect to for blocked (probe.ts): a cluster that leaves a
\* forbidden route open whose endpoint did not answer the probe in time, and
\* one that lets a validation reach another run while the canary that stands
\* for it went down after it was found ready.  The one probe of the validation
\* must have failed to hear just that endpoint.  And nothing of the sandbox is
\* left in the cluster.
PassIsEarned ==
    api = "validated" =>
        /\ lab.flaw \in {"none"}
             \cup (IF "external" \in unheard THEN {"openExternal"} ELSE {})
             \cup (IF "controlPlane" \in unheard THEN {"openControlPlane"} ELSE {})
             \cup (IF blinked \/ "crossRun" \in unheard
                   THEN {"openCrossRun"} ELSE {})
             \* an external reviewer is believed, a computed verdict is not
             \* in doubt
             \cup (IF lab.reviewer = "dev" THEN {"doubtful"} ELSE {})
             \* only a blue revision has telemetry
             \cup (IF lab.team = "red" THEN {"unsearchable"} ELSE {})
        /\ vspace = "gone" /\ job = NoJob

\* Whenever the target or the probe of a sandbox runs, the policies applied so
\* far let the target reach nothing, and the probe the target and DNS only:
\* the policies are there before the first pod.
SandboxIsConfined ==
    BoxHas("Deployment") =>
        \A dst \in BoxRoles \cup Routes \cup {"dns"},
           port \in {"service", "dns"} :
            /\ ~BoxConnects("target", dst, port)
            /\ BoxConnects("probe", dst, port) =>
                 <<dst, port>> \in {<<"target", "service">>, <<"dns", "dns">>}

\* A sandbox whose objects were all created is removed, unless its deletion
\* was refused or the runtime service died before it asked for it.
CreatedIsRemoved == box = "target" ~> (vspace = "gone" \/ kept)

\* What the proof of CreatedIsRemoved takes from TLC, since it is about ENABLED:
\* where the sandbox, its probe and its namespace can take their next step.
SandboxIsAble ==
    /\ \/ box \in {"canary", "job", "index", "bulk", "lookup", "drop", "delete"}
       \/ box = "target" /\ BoxHas("Deployment") /\ BoxHas("Service")
       \/ box = "probe" /\ job.state \in {"succeeded", "failed"}
       => ENABLED <<BoxStep>>_validationVars
    /\ job.state = "running" /\ vspace = "live" => ENABLED <<Probe>>_validationVars
    /\ vspace = "terminating" => ENABLED <<BoxGone>>_validationVars
=============================================================================
