---------------------------- MODULE BuildService ----------------------------
(***************************************************************************)
(* The environment builder (services/builder): the replicas of             *)
(* BuildService, the build records they share in PostgreSQL and the        *)
(* per-build Kubernetes namespace they create, observe and delete.         *)
(*                                                                         *)
(* A worker is one asynchronous activation inside a replica: an HTTP       *)
(* handler (create, get or cancel), or one of the per-build promises a     *)
(* round of the reconcile timer starts.  A step of a worker is the code    *)
(* between two awaits whose outcome other workers can influence, so steps  *)
(* of handlers, timers and replicas interleave as the awaits allow.        *)
(***************************************************************************)
EXTENDS Naturals, FiniteSets

CONSTANTS
    Builds,           \* build identifiers the UUID factory can produce
    Keys,             \* (requester, Idempotency-Key) pairs clients use
    NoKey,            \* a build identifier that is not in use has no key
    NoBuild,          \* an idle worker is not about any build
    Replicas,         \* processes of the builder Deployment
    Handlers,         \* concurrent HTTP requests
    Home,             \* Home[h]: the replica that serves handler h
    Routes,           \* the routes clients use: POST, GET, DELETE
    CleanupAttempts,  \* attempts of cleanupWithRetry (3 in the code)
    MaxCrashes        \* bound on process restarts

Timers == Replicas \X Builds
Workers == Handlers \cup Timers
HomeOf(w) == IF w \in Handlers THEN Home[w] ELSE w[1]

ASSUME HandlersAreNotTimers == Handlers \cap Timers = {}
ASSUME HandlersHaveAHome == Home \in [Handlers -> Replicas]
ASSUME NoKeyIsNotAKey == NoKey \notin Keys
ASSUME NoBuildIsNotABuild == NoBuild \notin Builds
ASSUME KnownRoutes == Routes \subseteq {"POST", "GET", "DELETE"}
ASSUME SomeAttempt == CleanupAttempts \in Nat \ {0}
ASSUME CrashBound == MaxCrashes \in Nat

VARIABLES
    rec,          \* rec[b]: the row of environment_builds
    ns,           \* ns[b]: the Kubernetes namespace of the build
    job,          \* job[b]: the build Job inside it
    signed,       \* builds whose output digest cosign has signed and verified
    expired,      \* builds whose deadlineAt has passed
    reconciling,  \* reconciling[r]: the in-process guard set of replica r
    task,         \* task[w]: where worker w is, and what it has read
    crashes

vars == <<rec, ns, job, signed, expired, reconciling, task, crashes>>
cluster == <<ns, job>>

Active == {"queued", "running"}
Terminal == {"succeeded", "failed", "cancelled"}
FailureCodes == {"build_start_failed", "build_timeout", "build_job_missing",
                 "build_job_failed", "build_digest_missing",
                 "build_signing_failed", "cancelled_by_request"}
NsPhases == {"absent", "present", "terminating"}
JobPhases == {"none", "pending", "running", "succeeded", "failed"}
Ops == {"none", "create", "reconcile", "getReconcile", "complete",
        "getComplete", "get", "cleanup", "cancel"}
Reconciles == {"reconcile", "getReconcile"}
Places == {"idle", "reconcile", "inspectQueued", "inspectRunning",
           "namespace", "job", "started", "observed", "sign", "complete",
           "fail", "undoDelete", "undoConfirm", "cleanDelete", "cleanConfirm",
           "cleanMark", "cancel", "reread"}

Records == [status : {"none"} \cup Active \cup Terminal,
            key : Keys \cup {NoKey},
            image : BOOLEAN,
            failure : FailureCodes \cup {"none"},
            cleaned : BOOLEAN]

\* cleaned is the cleanedAt of the BuildRecord the worker holds (the status it
\* holds is in the place: inspectQueued or inspectRunning); code is the failure
\* it is about to record.
Tasks == [at : Places, op : Ops, build : Builds \cup {NoBuild},
          cleaned : BOOLEAN, code : FailureCodes \cup {"none"},
          tries : 0..CleanupAttempts - 1]

Unused == [status |-> "none", key |-> NoKey, image |-> FALSE,
           failure |-> "none", cleaned |-> FALSE]
Idle == [at |-> "idle", op |-> "none", build |-> NoBuild,
         cleaned |-> FALSE, code |-> "none", tries |-> 0]

Init ==
    /\ rec = [b \in Builds |-> Unused]
    /\ ns = [b \in Builds |-> "absent"]
    /\ job = [b \in Builds |-> "none"]
    /\ signed = {}
    /\ expired = {}
    /\ reconciling = [r \in Replicas |-> {}]
    /\ task = [w \in Workers |-> Idle]
    /\ crashes = 0

-----------------------------------------------------------------------------
(* The repository: each operator is one PostgreSQL transaction.            *)
(*                                                                         *)
(* Here and below, a definition whose comment starts with "Defect" is not  *)
(* part of the model: it is a variant of the definition that follows it,   *)
(* with a bug the code could have had, and shows which property sees it.   *)

\* INSERT ... ON CONFLICT (requested_by, idempotency_key) DO NOTHING
KeyFree(k) == \A b \in Builds : rec[b].key # k

\* SELECT status ... FOR UPDATE, then UPDATE only if the status is in from;
\* otherwise the row is unchanged and the caller gets null.  COALESCE keeps the
\* columns a caller leaves out, and these are still null in every status that
\* a caller names in from.
Transition(b, from, to, code, hasImage) ==
    rec' = IF rec[b].status \in from
           THEN [rec EXCEPT ![b].status = to, ![b].failure = code,
                            ![b].image = hasImage]
           ELSE rec

-----------------------------------------------------------------------------
(* Moving a worker.                                                        *)

At(w, place) == task[w].at = place
Subject(w) == task[w].build
Goto(w, place) == task' = [task EXCEPT ![w].at = place]

About(b, place, op) ==
    [Idle EXCEPT !.at = place, !.op = op, !.build = b]

Begin(w, place, op, b) == task' = [task EXCEPT ![w] = About(b, place, op)]

\* Defect: reconcile without the finally block.
ReleaseNothing(w) == w \in Workers /\ UNCHANGED reconciling

\* The finally block of reconcile.
Release(w) ==
    reconciling' = IF task[w].op \in Reconciles
                   THEN [reconciling EXCEPT ![HomeOf(w)] = @ \ {Subject(w)}]
                   ELSE reconciling

\* The worker returns from what it was doing: GET re-reads the row, cancel
\* still has its transition to make, and every other activation is over.
Resume(w) ==
    CASE task[w].op \in {"getReconcile", "getComplete"} -> About(Subject(w), "reread", "get")
      [] task[w].op = "cancel" -> About(Subject(w), "cancel", "cancel")
      [] OTHER -> Idle

Return(w) ==
    /\ task' = [task EXCEPT ![w] = Resume(w)]
    /\ Release(w)

\* cleanupWithRetry does nothing when the record it was given is cleaned.
EnterCleanup(w) ==
    IF task[w].cleaned
    THEN Return(w)
    ELSE /\ task' = [task EXCEPT ![w].at = "cleanDelete",
                                 ![w].code = "none", ![w].tries = 0]
         /\ UNCHANGED reconciling

GiveUpWith(w, code) ==
    task' = [task EXCEPT ![w].at = "fail", ![w].code = code]

-----------------------------------------------------------------------------
(* HTTP requests and the reconcile timer.                                  *)

\* create, up to the insert.  A request whose key is taken gets the existing
\* row back, one whose materials are unsigned is refused: neither changes
\* state.
Create(w, k, b) ==
    /\ "POST" \in Routes
    /\ At(w, "idle")
    /\ rec[b].status = "none"
    /\ KeyFree(k)
    /\ rec' = [rec EXCEPT ![b] = [Unused EXCEPT !.status = "queued",
                                                !.key = k]]
    /\ Begin(w, "namespace", "create", b)
    /\ UNCHANGED <<cluster, signed, expired, reconciling, crashes>>

\* get reads the row: an active build is reconciled first, a terminal one
\* whose namespace is not known to be gone is cleaned up.
Get(w, b) ==
    /\ "GET" \in Routes
    /\ At(w, "idle")
    /\ \/ /\ rec[b].status \in Active
          /\ Begin(w, "reconcile", "getReconcile", b)
       \/ /\ rec[b].status \in Terminal
          /\ ~rec[b].cleaned
          /\ Begin(w, "cleanDelete", "cleanup", b)
    /\ UNCHANGED <<rec, cluster, signed, expired, reconciling, crashes>>

\* The second read of get.
Reread(w) ==
    /\ At(w, "reread")
    /\ LET b == Subject(w)
       IN  IF rec[b].status \in Terminal /\ ~rec[b].cleaned
           THEN Begin(w, "cleanDelete", "cleanup", b)
           ELSE task' = [task EXCEPT ![w] = Idle]
    /\ UNCHANGED <<rec, cluster, signed, expired, reconciling, crashes>>

\* cancel reads the row and cleans the namespace up before, not after, the
\* row becomes cancelled.
Cancel(w, b) ==
    /\ "DELETE" \in Routes
    /\ At(w, "idle")
    /\ \/ /\ rec[b].status \in Active
          /\ IF rec[b].cleaned
             THEN Begin(w, "cancel", "cancel", b)
             ELSE Begin(w, "cleanDelete", "cancel", b)
       \/ /\ rec[b].status \in Terminal
          /\ ~rec[b].cleaned
          /\ Begin(w, "cleanDelete", "cleanup", b)
    /\ UNCHANGED <<rec, cluster, signed, expired, reconciling, crashes>>

CancelRecord(w) ==
    /\ At(w, "cancel")
    /\ Transition(Subject(w), Active, "cancelled", "cancelled_by_request",
                  FALSE)
    /\ task' = [task EXCEPT ![w] = Idle]
    /\ UNCHANGED <<cluster, signed, expired, reconciling, crashes>>

\* Defect: the cleanup list leaves failed builds out.
RoundTaskSkipsFailed(b) ==
    CASE rec[b].status \in Active -> About(b, "reconcile", "reconcile")
      [] rec[b].status \in {"succeeded", "cancelled"} /\ ~rec[b].cleaned ->
             About(b, "cleanDelete", "cleanup")
      [] OTHER -> Idle

\* The builds reconcileActive lists, and what it starts for each of them.
RoundTask(b) ==
    CASE rec[b].status \in Active -> About(b, "reconcile", "reconcile")
      [] rec[b].status \in Terminal /\ ~rec[b].cleaned ->
             About(b, "cleanDelete", "cleanup")
      [] OTHER -> Idle

\* reconcileActive: a round starts when the previous one of the replica is
\* over (reconciliationRunning), and starts its tasks together.
ReconcileRound(r) ==
    /\ \A b \in Builds : At(<<r, b>>, "idle")
    /\ \E b \in Builds : RoundTask(b) # Idle
    /\ task' = [w \in Workers |-> IF w \in Timers /\ w[1] = r
                                  THEN RoundTask(w[2]) ELSE task[w]]
    /\ UNCHANGED <<rec, cluster, signed, expired, reconciling, crashes>>

-----------------------------------------------------------------------------
(* reconcile.                                                              *)

\* Defect: the deadline is never compared with the clock.
NoDeadline(b) == b \in {}

\* now >= deadlineAt
PastDeadline(b) == b \in expired

\* Where reconcile goes with the row it has just read.
AfterRead(b) ==
    CASE PastDeadline(b) -> "fail"
      [] ~PastDeadline(b) /\ rec[b].status = "queued" -> "inspectQueued"
      [] ~PastDeadline(b) /\ rec[b].status = "running" -> "inspectRunning"

\* reconcile, up to the inspection: the guard, the fresh read of the row and
\* the deadline.
ReconcileEnter(w) ==
    /\ At(w, "reconcile")
    /\ LET b == Subject(w)
           r == HomeOf(w)
       IN  \/ /\ b \in reconciling[r]
              /\ task' = [task EXCEPT ![w] = Resume(w)]
              /\ UNCHANGED reconciling
           \/ /\ b \notin reconciling[r]
              /\ rec[b].status \notin Active
              /\ task' = [task EXCEPT ![w] = Resume(w)]
              /\ UNCHANGED reconciling
           \/ /\ b \notin reconciling[r]
              /\ rec[b].status \in Active
              /\ reconciling' = [reconciling EXCEPT ![r] = @ \cup {b}]
              /\ task' = [task EXCEPT ![w].cleaned = rec[b].cleaned,
                              ![w].at = AfterRead(b),
                              ![w].code = IF PastDeadline(b)
                                          THEN "build_timeout" ELSE "none"]
    /\ UNCHANGED <<rec, cluster, signed, expired, crashes>>

Inspecting == {"inspectQueued", "inspectRunning"}

\* reconcile returns the promise of complete without awaiting it: its finally
\* block runs now, and complete goes on without the guard.
HandToComplete(w) ==
    /\ task' = [task EXCEPT ![w].at = "sign",
                            ![w].op = IF @ = "getReconcile"
                                      THEN "getComplete" ELSE "complete"]
    /\ Release(w)

\* What reconcile does next for the status it read and the phase it saw.
Inspect(w) ==
    /\ task[w].at \in Inspecting
    /\ LET phase == job[Subject(w)]
           queued == At(w, "inspectQueued")
       IN  \/ /\ phase = "none" /\ queued
              /\ Goto(w, "namespace")
              /\ UNCHANGED reconciling
           \/ /\ phase \in {"pending", "running"} /\ queued
              /\ Goto(w, "observed")
              /\ UNCHANGED reconciling
           \/ /\ phase = "none" /\ ~queued
              /\ GiveUpWith(w, "build_job_missing")
              /\ UNCHANGED reconciling
           \/ /\ phase = "failed"
              /\ GiveUpWith(w, "build_job_failed")
              /\ UNCHANGED reconciling
           \/ /\ phase = "succeeded"
              /\ HandToComplete(w)
           \/ /\ phase \in {"pending", "running"} /\ ~queued
              /\ Return(w)
    /\ UNCHANGED <<rec, cluster, signed, expired, crashes>>

\* inspect threw: the build is left alone until the next round.
InspectError(w) ==
    /\ task[w].at \in Inspecting
    /\ Return(w)
    /\ UNCHANGED <<rec, cluster, signed, expired, crashes>>

\* complete: the digest is read from the log, signed and verified.  cosign
\* may have signed the digest and then failed to verify it.
Sign(w) ==
    /\ At(w, "sign")
    /\ \/ /\ signed' = signed \cup {Subject(w)}
          /\ Goto(w, "complete")
       \/ /\ \E code \in {"build_digest_missing", "build_signing_failed"} :
                GiveUpWith(w, code)
          /\ UNCHANGED signed
    /\ UNCHANGED <<rec, cluster, expired, reconciling, crashes>>

Complete(w) ==
    /\ At(w, "complete")
    /\ Transition(Subject(w), Active, "succeeded", "none", TRUE)
    /\ EnterCleanup(w)
    /\ UNCHANGED <<cluster, signed, expired, crashes>>

\* fail, followed by cleanupWithRetry in every caller.
Fail(w) ==
    /\ At(w, "fail")
    /\ Transition(Subject(w), Active, "failed", task[w].code, FALSE)
    /\ EnterCleanup(w)
    /\ UNCHANGED <<cluster, signed, expired, crashes>>

-----------------------------------------------------------------------------
(* The Kubernetes runner: start, and the cleanup of a namespace.           *)

\* start, first apply: server-side apply creates the namespace or patches
\* the one that is there.
ApplyNamespace(w) ==
    /\ At(w, "namespace")
    /\ \/ /\ ns' = [ns EXCEPT ![Subject(w)] = IF @ = "absent"
                                              THEN "present" ELSE @]
          /\ Goto(w, "job")
       \/ /\ Goto(w, "undoDelete")
          /\ UNCHANGED ns
    /\ UNCHANGED <<rec, job, signed, expired, reconciling, crashes>>

\* start, the remaining applies, of which the Job is the last: refused in a
\* namespace that is gone or going. One whose answer is lost was carried out.
ApplyJob(w) ==
    /\ At(w, "job")
    /\ LET b == Subject(w)
       IN  \/ /\ ns[b] = "present"
              /\ job' = [job EXCEPT ![b] = IF @ = "none" THEN "pending"
                                                         ELSE @]
              /\ Goto(w, "started") \/ Goto(w, "undoDelete")
           \/ /\ Goto(w, "undoDelete")
              /\ UNCHANGED job
    /\ UNCHANGED <<rec, ns, signed, expired, reconciling, crashes>>

\* Defect: started is recorded without naming the status it starts from.
RecordRunningFromAny(w) ==
    /\ task[w].at \in {"started", "observed"}
    /\ Transition(Subject(w), Active \cup Terminal, "running", "none", FALSE)
    /\ Return(w)
    /\ UNCHANGED <<cluster, signed, expired, crashes>>

\* After start, or after seeing the Job: queued becomes running, once.
RecordRunning(w) ==
    /\ task[w].at \in {"started", "observed"}
    /\ Transition(Subject(w), {"queued"}, "running", "none", FALSE)
    /\ Return(w)
    /\ UNCHANGED <<cluster, signed, expired, crashes>>

\* A query threw.  The catch of start covers the transition after it; from
\* anywhere else the error reaches the caller, past the finally of reconcile.
QueryError(w) ==
    /\ \/ /\ At(w, "started")
          /\ GiveUpWith(w, "build_start_failed")
          /\ UNCHANGED reconciling
       \/ /\ task[w].at \in {"observed", "complete", "fail", "cancel", "reread"}
          /\ task' = [task EXCEPT ![w] = Idle]
          /\ Release(w)
       \/ /\ At(w, "reconcile")
          /\ task' = [task EXCEPT ![w] = Idle]
          /\ UNCHANGED reconciling
    /\ UNCHANGED <<rec, cluster, signed, expired, crashes>>

Deleting == {"undoDelete", "cleanDelete"}
Confirming == {"undoConfirm", "cleanConfirm"}

\* cleanup confirmed the namespace gone: the catch of start goes on to fail,
\* cleanupWithRetry to markCleaned.
Gone(w) ==
    IF task[w].at \in {"undoDelete", "undoConfirm"}
    THEN GiveUpWith(w, "build_start_failed")
    ELSE Goto(w, "cleanMark")

DeleteNamespace(w) ==
    /\ task[w].at \in Deleting
    /\ LET b == Subject(w)
       IN  IF ns[b] = "absent"
           THEN Gone(w) /\ UNCHANGED ns
           ELSE /\ ns' = [ns EXCEPT ![b] = "terminating"]
                /\ Goto(w, IF At(w, "undoDelete") THEN "undoConfirm"
                                                  ELSE "cleanConfirm")
    /\ UNCHANGED <<rec, job, signed, expired, reconciling, crashes>>

ConfirmDeleted(w) ==
    /\ task[w].at \in Confirming
    /\ ns[Subject(w)] = "absent"
    /\ Gone(w)
    /\ UNCHANGED <<rec, cluster, signed, expired, reconciling, crashes>>

\* markCleaned: sets cleaned_at whatever the status is.
MarkCleaned(w) ==
    /\ At(w, "cleanMark")
    /\ rec' = [rec EXCEPT ![Subject(w)].cleaned = TRUE]
    /\ Return(w)
    /\ UNCHANGED <<cluster, signed, expired, crashes>>

\* Defect: one attempt too many.
AttemptsLeftOffByOne(w) == task[w].tries < CleanupAttempts

AttemptsLeft(w) == task[w].tries + 1 < CleanupAttempts

\* cleanup threw: start swallows that and goes on to fail, cleanupWithRetry
\* tries again until its attempts are used up and then gives up silently.
CleanupError(w) ==
    /\ \/ /\ task[w].at \in {"undoDelete", "undoConfirm"}
          /\ GiveUpWith(w, "build_start_failed")
          /\ UNCHANGED reconciling
       \/ /\ task[w].at \in {"cleanDelete", "cleanConfirm", "cleanMark"}
          /\ IF AttemptsLeft(w)
             THEN /\ task' = [task EXCEPT ![w].at = "cleanDelete",
                                          ![w].tries = @ + 1]
                  /\ UNCHANGED reconciling
             ELSE Return(w)
    /\ UNCHANGED <<rec, cluster, signed, expired, crashes>>

-----------------------------------------------------------------------------
(* The cluster, the clock and restarts.                                    *)

DeadlinePasses(b) ==
    /\ rec[b].status \in Active
    /\ b \notin expired
    /\ expired' = expired \cup {b}
    /\ UNCHANGED <<rec, cluster, signed, reconciling, task, crashes>>

\* The Job controller, while the namespace is there; a finished Job is
\* removed after its time to live.
JobStep(b) ==
    /\ ns[b] = "present"
    /\ \/ /\ job[b] = "pending"
          /\ job' = [job EXCEPT ![b] = "running"]
       \/ /\ job[b] = "running"
          /\ \E p \in {"succeeded", "failed"} : job' = [job EXCEPT ![b] = p]
       \/ /\ job[b] \in {"succeeded", "failed"}
          /\ job' = [job EXCEPT ![b] = "none"]
    /\ UNCHANGED <<rec, ns, signed, expired, reconciling, task, crashes>>

NamespaceGone(b) ==
    /\ ns[b] = "terminating"
    /\ ns' = [ns EXCEPT ![b] = "absent"]
    /\ job' = [job EXCEPT ![b] = "none"]
    /\ UNCHANGED <<rec, signed, expired, reconciling, task, crashes>>

\* A replica restarts: its requests, its round and its guard set are lost.
Crash(r) ==
    /\ crashes < MaxCrashes
    /\ crashes' = crashes + 1
    /\ task' = [w \in Workers |-> IF HomeOf(w) = r THEN Idle ELSE task[w]]
    /\ reconciling' = [reconciling EXCEPT ![r] = {}]
    /\ UNCHANGED <<rec, cluster, signed, expired>>

-----------------------------------------------------------------------------
WorkerStep(w) ==
    \/ Reread(w)
    \/ CancelRecord(w)
    \/ ReconcileEnter(w)
    \/ Inspect(w)
    \/ InspectError(w)
    \/ Sign(w)
    \/ Complete(w)
    \/ Fail(w)
    \/ ApplyNamespace(w)
    \/ ApplyJob(w)
    \/ RecordRunning(w)
    \/ QueryError(w)
    \/ DeleteNamespace(w)
    \/ ConfirmDeleted(w)
    \/ MarkCleaned(w)
    \/ CleanupError(w)

Request(w) ==
    \E b \in Builds :
        \/ \E k \in Keys : Create(w, k, b)
        \/ Get(w, b)
        \/ Cancel(w, b)

Environment(b) == DeadlinePasses(b) \/ JobStep(b) \/ NamespaceGone(b)

Next ==
    \/ \E w \in Handlers : Request(w)
    \/ \E w \in Workers : WorkerStep(w)
    \/ \E r \in Replicas : ReconcileRound(r) \/ Crash(r)
    \/ \E b \in Builds : Environment(b)

Spec == Init /\ [][Next]_vars

\* Every await returns or times out, the reconcile timer keeps firing, time
\* passes, and a namespace Kubernetes was told to delete goes away.
Progress ==
    /\ \A w \in Workers : WF_vars(WorkerStep(w))
    /\ \A r \in Replicas : WF_vars(ReconcileRound(r))
    /\ \A b \in Builds : WF_vars(DeadlinePasses(b)) /\ WF_vars(NamespaceGone(b))

\* PostgreSQL does not refuse the read and the write of reconcile for ever.
DatabaseAnswers ==
    \A w \in Workers : SF_vars(ReconcileEnter(w)) /\ SF_vars(Fail(w))

\* Kubernetes and PostgreSQL do not refuse the calls of a timer's cleanup for
\* ever.
Cooperation ==
    \A w \in Timers : SF_vars(DeleteNamespace(w)) /\ SF_vars(MarkCleaned(w))

FairSpec == Spec /\ Progress
-----------------------------------------------------------------------------
(* Correctness.                                                            *)

\* Every variable has the shape the code gives it.
TypeOK ==
    /\ rec \in [Builds -> Records]
    /\ ns \in [Builds -> NsPhases]
    /\ job \in [Builds -> JobPhases]
    /\ signed \subseteq Builds
    /\ expired \subseteq Builds
    /\ reconciling \in [Replicas -> SUBSET Builds]
    /\ task \in [Workers -> Tasks]
    /\ crashes \in 0..MaxCrashes

\* However many replicas and handlers race on a build, it exposes an image
\* exactly when it succeeded, and it succeeded only with an output that was
\* signed and verified (complete, transition).
ResultIsSigned ==
    \A b \in Builds :
        /\ rec[b].image <=> rec[b].status = "succeeded"
        /\ rec[b].status = "succeeded" => b \in signed

\* A failure code is recorded with exactly the unsuccessful outcomes, and the
\* code a client branches on agrees with the status: a worker that loses the
\* race for the terminal status leaves no trace of its own verdict.
FailureAgreesWithStatus ==
    \A b \in Builds :
        /\ rec[b].failure # "none" <=> rec[b].status \in {"failed", "cancelled"}
        /\ rec[b].failure = "cancelled_by_request" <=> rec[b].status = "cancelled"

\* Concurrent POSTs with one idempotency key start one build (create, the
\* unique index of environment_builds).
OneBuildPerKey ==
    \A b, c \in Builds :
        rec[b].key = rec[c].key /\ rec[b].key # NoKey => b = c

\* No namespace without a row that names it: after a crash anywhere in start
\* the reconcilers of the surviving replicas still find every namespace.
NamespaceHasRecord ==
    \A b \in Builds : ns[b] # "absent" => rec[b].status # "none"

\* Between the two ends of the guarded block of reconcile.
InReconcile(w) ==
    task[w].op \in Reconciles /\ task[w].at # "reconcile"

\* The in-process guard admits one reconciliation of a build per replica, up
\* to complete, which runs after the finally block, and is never left behind
\* by a return, a failure or a cleanup that gave up: a guard nobody holds
\* would keep the build from ever being reconciled.
GuardIsExact ==
    \A r \in Replicas, b \in Builds :
        LET inside == {w \in Workers : HomeOf(w) = r /\ InReconcile(w)
                                       /\ Subject(w) = b}
        IN  /\ b \in reconciling[r] <=> inside # {}
            /\ \A v, w \in inside : v = w

\* Terminal statuses are final: a build another replica finished is never
\* finished again by a reconciler or a cancel that read it while it was
\* active, and its result stays what was first recorded.
TerminalIsFinal ==
    [][\A b \in Builds : rec[b].status \in Terminal =>
           /\ rec'[b].status = rec[b].status
           /\ rec'[b].image = rec[b].image
           /\ rec'[b].failure = rec[b].failure]_vars

\* Every accepted build reaches a terminal status: the deadline fails closed
\* through the reconcile timer, also after restarts, and though cluster calls
\* may be refused for ever.
EventuallyTerminal ==
    DatabaseAnswers =>
        \A b \in Builds : rec[b].status \in Active
                          ~> rec[b].status \in Terminal

\* A terminal build whose namespace is not known to be gone is cleaned up in
\* the end: cleanupWithRetry gives up silently, the cleanup list of the next
\* round does not.
EventuallyCleaned ==
    Cooperation =>
        \A b \in Builds : rec[b].status \in Terminal ~> rec[b].cleaned

\* Every accepted build ends, and leaves no namespace behind: nobody but the
\* reconcile timer is needed for either (services/builder/src/service.ts:130).
EveryBuildEnds == EventuallyTerminal /\ EventuallyCleaned

\* The rows, with the signatures, implement what the API is promised.
Contract == INSTANCE BuildContract WITH
    phase <- [b \in Builds |-> rec[b].status],
    key <- [b \in Builds |-> rec[b].key],
    image <- [b \in Builds |-> rec[b].image],
    sealed <- signed

ImplementsContract == Contract!Spec

\* services/builder/README.md: registry credentials are copied into the
\* ephemeral namespace "and removed with that namespace".  It would follow
\* that once nothing is working on a terminal build that is marked cleaned,
\* its namespace is gone: nothing ever looks for it again.  Builds whose
\* deadline has passed are left out, so that the run shows a race of requests
\* and timers and not one with a 60 second pause.
CleanedNamespaceIsGone ==
    \A b \in Builds :
        /\ rec[b].status \in Terminal
        /\ rec[b].cleaned
        /\ b \notin expired
        /\ \A w \in Workers : Subject(w) # b
        => ns[b] # "present"
=============================================================================
