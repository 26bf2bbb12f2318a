---------------------------- MODULE RunLifecycle ----------------------------
(***************************************************************************)
(* The life of a learner's run in the platform API (services/api): deploy, *)
(* readiness, access tickets and their exchange, submission, the ends of a *)
(* run (the expiry sweep, an administrator, a suspension), idempotent       *)
(* replies, and a restart of the process.                                  *)
(*                                                                         *)
(* A worker is one asynchronous activation in the single API process: an   *)
(* HTTP handler, or one firing of the sweep timer (setInterval starts the  *)
(* next one even if the last is still running).  A step is the code        *)
(* between two awaits whose outcome others can influence; each query or    *)
(* transaction of PostgreSQL is one step.                                  *)
(***************************************************************************)
EXTENDS Naturals, FiniteSets

CONSTANTS
    Runs,        \* run identifiers randomUUID can produce
    Users,       \* learners
    Tickets,     \* opaque tickets randomBytes can produce
    Keys,        \* Idempotency-Key values clients use
    Handlers,    \* concurrent HTTP requests
    Sweeps,      \* concurrent firings of the sweep timer
    Routes,      \* the routes clients use
    NoRun, NoUser, NoKey,
    MaxCrashes   \* bound on process restarts

Workers == Handlers \cup Sweeps

ASSUME HandlersAreNotSweeps == Handlers \cap Sweeps = {}
ASSUME NoRunIsNotARun == NoRun \notin Runs
ASSUME NoUserIsNotAUser == NoUser \notin Users
ASSUME NoKeyIsNotAKey == NoKey \notin Keys
ASSUME KnownRoutes == Routes \subseteq {"deploy", "view", "open", "submit",
                                      "terminate", "suspend"}
ASSUME CrashBound == MaxCrashes \in Nat

VARIABLES
    row,       \* row[r]: the row of runtime_runs
    env,       \* env[r]: the environment at the runtime control plane
    index,     \* runs that have an index at the telemetry gateway
    overdue,   \* runs whose expires_at has passed
    disabled,  \* suspended users
    ticket,    \* ticket[t]: the row of access_tickets
    entries,   \* entries[t]: sessions a gateway opened with ticket t
    results,   \* results[r]: rows of challenge_results for the run
    idem,      \* the rows of idempotency_records
    task,      \* task[w]: where worker w is, and what it has read
    crashes

vars == <<row, env, index, overdue, disabled, ticket, entries, results, idem,
          task, crashes>>
remote == <<env, index, overdue>>
access == <<ticket, entries>>

Active == {"provisioning", "ready"}
Ended == {"stopped", "expired"}
Statuses == {"none", "failed"} \cup Active \cup Ended
Verdicts == {"ready", "failed"}
Ops == {"none", "deploy", "view", "open", "submit", "terminate", "suspend",
        "sweep"}
Places == {"idle", "provision", "telemetry", "insert", "abandonEnv", "status",
           "update", "ticket", "grade", "result", "list", "destroyEnv",
           "destroyIndex", "mark", "record"}

Rows == [status : Statuses, owner : Users \cup {NoUser}]
TicketRows == [status : {"none", "issued", "consumed", "lapsed"},
               run : Runs \cup {NoRun}, user : Users \cup {NoUser}]
Claims == [op : Ops, user : Users \cup {NoUser}, run : Runs \cup {NoRun},
           key : Keys \cup {NoKey}]

\* user: the actor, or the user a suspension is about; todo: the runs a sweep
\* or a suspension has listed and not reached yet; verdict: the readiness that
\* the runtime reported.
Tasks == [at : Places, op : Ops, user : Users \cup {NoUser},
          run : Runs \cup {NoRun}, key : Keys \cup {NoKey},
          todo : SUBSET Runs, verdict : Verdicts \cup {"none"}]

Idle == [at |-> "idle", op |-> "none", user |-> NoUser, run |-> NoRun,
         key |-> NoKey, todo |-> {}, verdict |-> "none"]

Init ==
    /\ row = [r \in Runs |-> [status |-> "none", owner |-> NoUser]]
    /\ env = [r \in Runs |-> "absent"]
    /\ index = {}
    /\ overdue = {}
    /\ disabled = {}
    /\ ticket = [t \in Tickets |->
                    [status |-> "none", run |-> NoRun, user |-> NoUser]]
    /\ entries = [t \in Tickets |-> 0]
    /\ results = [r \in Runs |-> 0]
    /\ idem = {}
    /\ task = [w \in Workers |-> Idle]
    /\ crashes = 0

-----------------------------------------------------------------------------
(* Here and below, a definition whose comment starts with "Defect" is not  *)
(* part of the model: it is a variant of the definition that follows it,   *)
(* with a bug the code could have had, and shows which property sees it.   *)

At(w, place) == task[w].at = place
Subject(w) == task[w].run
Goto(w, place) == task' = [task EXCEPT ![w].at = place]
Finish(w) == task' = [task EXCEPT ![w] = Idle]

\* The primary key of an idempotency record: actor, operation and key.  The
\* operation names the run, except for a deploy, whose run is its result.
ClaimOf(t) == [op |-> t.op, user |-> t.user, key |-> t.key,
               run |-> IF t.op = "deploy" THEN NoRun ELSE t.run]

Recorded(claim) == \E i \in idem : i.claim = claim

Asked(place, op, u, r, k) ==
    [Idle EXCEPT !.at = place, !.op = op, !.user = u, !.run = r, !.key = k]

\* A request by u, or by an administrator about u or r, that is not a replay:
\* replayIfPresent answers those from the record.
Start(w, place, op, u, r, k) ==
    /\ op \in Routes
    /\ At(w, "idle")
    /\ ~Recorded(ClaimOf(Asked(place, op, u, r, k)))
    /\ task' = [task EXCEPT ![w] = Asked(place, op, u, r, k)]

-----------------------------------------------------------------------------
(* Deploy.                                                                 *)

\* randomUUID names no run that exists or that another request is deploying.
Fresh(r) ==
    /\ row[r].status = "none" /\ env[r] = "absent" /\ r \notin index
    /\ \A w \in Workers : Subject(w) # r

\* POST deploy of a validated lab, up to the call of the runtime.  The user is
\* looked up once, when the request arrives.
Deploy(w, u, k) ==
    /\ u \notin disabled
    /\ \E r \in Runs : Fresh(r) /\ Start(w, "provision", "deploy", u, r, k)
    /\ UNCHANGED <<row, remote, disabled, access, results, idem, crashes>>

\* createRun of the runtime adapter.  The lab is red, or blue with events, or
\* blue without: the environment is then given up.  If the call fails or times
\* out the request is over, and the runtime may or may not have made the
\* environment.
Provision(w) ==
    /\ At(w, "provision")
    /\ \/ /\ env' = [env EXCEPT ![Subject(w)] = "booting"]
          /\ \E p \in {"insert", "telemetry", "abandonEnv"} : Goto(w, p)
       \/ /\ env' \in {env, [env EXCEPT ![Subject(w)] = "booting"]}
          /\ Finish(w)
    /\ UNCHANGED <<row, index, overdue, disabled, access, results, idem,
                   crashes>>

\* telemetryGateway.provision, for a blue lab.
ProvisionTelemetry(w) ==
    /\ At(w, "telemetry")
    /\ \/ /\ index' = index \cup {Subject(w)}
          /\ Goto(w, "insert")
       \/ /\ index' \in {index, index \cup {Subject(w)}}
          /\ Goto(w, "abandonEnv")
    /\ UNCHANGED <<row, env, overdue, disabled, access, results, idem,
                   crashes>>

WithRow(w) == [row EXCEPT ![Subject(w)] = [status |-> "provisioning",
                                           owner |-> task[w].user]]

\* Defect: the request goes on although the row was not inserted.
InsertErrorIgnored(w) ==
    /\ At(w, "insert")
    /\ row' \in {row, WithRow(w)}
    /\ Goto(w, "record")
    /\ UNCHANGED <<remote, disabled, access, results, idem, crashes>>

\* repository.createRun, which inserts the row and reads it back: if it throws,
\* what was deployed is destroyed, and the row may be there or not.  The
\* runtime answers "provisioning".
Insert(w) ==
    /\ At(w, "insert")
    /\ \/ row' = WithRow(w) /\ Goto(w, "record")
       \/ row' \in {row, WithRow(w)} /\ Goto(w, "destroyEnv")
    /\ UNCHANGED <<remote, disabled, access, results, idem, crashes>>

\* saveIdempotencyRecord: a plain INSERT, which fails if a concurrent request
\* with the same key was faster.
Record(w) ==
    /\ At(w, "record")
    /\ idem' = IF Recorded(ClaimOf(task[w])) THEN idem
               ELSE idem \cup {[claim |-> ClaimOf(task[w]),
                                made |-> Subject(w)]}
    /\ Finish(w)
    /\ UNCHANGED <<row, remote, disabled, access, results, crashes>>

-----------------------------------------------------------------------------
(* Readiness and access.                                                   *)

\* GET run, an ELK search ("view"), or POST of a ticket ("open"): getRun, and
\* what refreshRuntimeRun and the route make of the status.
Visit(w, u, r, op) ==
    /\ u \notin disabled
    /\ row[r].owner = u
    /\ \/ /\ row[r].status = "provisioning"
          /\ Start(w, "status", op, u, r, NoKey)
       \/ /\ row[r].status = "ready" /\ op = "open"
          /\ Start(w, "ticket", op, u, r, NoKey)
    /\ UNCHANGED <<row, remote, disabled, access, results, idem, crashes>>

\* Defect: the word of the runtime is passed on as it is.
VerdictUnchecked(r) == env[r]

\* An environment that the runtime does not know (404) has failed.
Verdict(r) == IF env[r] = "up" THEN "ready" ELSE "failed"

\* getRunStatus: still provisioning, or no valid answer, or a verdict.
ReadStatus(w) ==
    /\ At(w, "status")
    /\ \/ Finish(w)
       \/ /\ env[Subject(w)] # "booting"
          /\ task' = [task EXCEPT ![w].at = "update",
                                  ![w].verdict = Verdict(Subject(w))]
    /\ UNCHANGED <<row, remote, disabled, access, results, idem, crashes>>

\* UPDATE ... WHERE status = 'provisioning'
Settled(w) ==
    [row EXCEPT ![Subject(w)].status =
        IF @ = "provisioning" THEN task[w].verdict ELSE @]

\* updateRunReadiness, and the row that it returns.
UpdateReadiness(w) ==
    /\ At(w, "update")
    /\ row' = Settled(w)
    /\ IF task[w].op = "open" /\ row'[Subject(w)].status = "ready"
       THEN Goto(w, "ticket")
       ELSE Finish(w)
    /\ UNCHANGED <<remote, disabled, access, results, idem, crashes>>

\* createAccessTicket: the run was ready when it was last read.
IssueTicket(w) ==
    /\ At(w, "ticket")
    /\ \E t \in Tickets :
          /\ ticket[t].status = "none"
          /\ ticket' = [ticket EXCEPT
                          ![t] = [status |-> "issued", run |-> Subject(w),
                                  user |-> task[w].user]]
    /\ Finish(w)
    /\ UNCHANGED <<row, remote, disabled, entries, results, idem, crashes>>

\* Defect: the exchange does not look at the run.
AdmitsAnyRun(t) == ticket[t].status = "issued"

\* consumed_at IS NULL AND expires_at > now AND the run is ready
Admits(t) ==
    /\ ticket[t].status = "issued"
    /\ row[ticket[t].run].status = "ready"

\* consumeAccessTicket, one statement, for the gateway that the ticket is for.
Exchange(t) ==
    /\ Admits(t)
    /\ ticket' = [ticket EXCEPT ![t].status = "consumed"]
    /\ entries' = [entries EXCEPT ![t] = @ + 1]
    /\ UNCHANGED <<row, remote, disabled, results, idem, task, crashes>>

-----------------------------------------------------------------------------
(* Submission.                                                             *)

\* POST submit, up to the call of the grader; the status of the run does not
\* matter.
Submit(w, u, r, k) ==
    /\ u \notin disabled
    /\ row[r].owner = u
    /\ Start(w, "grade", "submit", u, r, k)
    /\ UNCHANGED <<row, remote, disabled, access, results, idem, crashes>>

\* The grader answered; saveChallengeResult begins with SELECT ... FOR UPDATE
\* which locks nothing if there is no result yet.
CheckResult(w) ==
    /\ At(w, "grade")
    /\ IF results[Subject(w)] > 0 THEN Finish(w) ELSE Goto(w, "result")
    /\ UNCHANGED <<row, remote, disabled, access, results, idem, crashes>>

\* challenge_results_run_unique
MayInsertResult(r) == results[r] = 0

\* The insert of the result with its score event, and the commit.
SaveResult(w) ==
    /\ At(w, "result")
    /\ IF MayInsertResult(Subject(w))
       THEN /\ results' = [results EXCEPT ![Subject(w)] = @ + 1]
            /\ Goto(w, "record")
       ELSE /\ Finish(w)
            /\ UNCHANGED results
    /\ UNCHANGED <<row, remote, disabled, access, idem, crashes>>

-----------------------------------------------------------------------------
(* The ends of a run.                                                      *)

\* POST terminate: a run that has ended is only marked again.
Terminate(w, r, k) ==
    /\ row[r].status # "none"
    /\ IF row[r].status \in Ended
       THEN Start(w, "mark", "terminate", NoUser, r, k)
       ELSE Start(w, "destroyEnv", "terminate", NoUser, r, k)
    /\ UNCHANGED <<row, remote, disabled, access, results, idem, crashes>>

\* POST suspension: setUserDisabled.
Suspend(w, u, k) ==
    /\ Start(w, "list", "suspend", u, NoRun, k)
    /\ disabled' = disabled \cup {u}
    /\ UNCHANGED <<row, remote, access, results, idem, crashes>>

Reinstate(w, u, k) ==
    /\ Start(w, "record", "suspend", u, NoRun, k)
    /\ disabled' = disabled \ {u}
    /\ UNCHANGED <<row, remote, access, results, idem, crashes>>

\* The next iteration of the loop of a suspension or a sweep over todo, or
\* what comes after the loop.
NextTasks(w, todo) ==
    IF todo # {}
    THEN {[task[w] EXCEPT !.at = "destroyEnv", !.run = r, !.todo = todo \ {r}] :
             r \in todo}
    ELSE IF task[w].op = "suspend"
         THEN {[task[w] EXCEPT !.at = "record", !.run = NoRun, !.todo = {}]}
         ELSE {Idle}

\* terminateRunsForUser: listActiveRunIdsForUser.
ListRuns(w) ==
    /\ At(w, "list")
    /\ \E t \in NextTasks(w, {r \in Runs : /\ row[r].owner = task[w].user
                                           /\ row[r].status \in Active}) :
           task' = [task EXCEPT ![w] = t]
    /\ UNCHANGED <<row, remote, disabled, access, results, idem, crashes>>

\* sweepExpiredRuns: listExpiredRunIds.
Sweep(w) ==
    /\ At(w, "idle")
    /\ LET due == {r \in overdue : row[r].status \in Active}
       IN  \E r \in due :
              task' = [task EXCEPT
                         ![w] = [Idle EXCEPT !.at = "destroyEnv",
                                             !.op = "sweep", !.run = r,
                                             !.todo = due \ {r}]]
    /\ UNCHANGED <<row, remote, disabled, access, results, idem, crashes>>

\* Defect: a failed destroy ends the loop.
FailurePropagatesAlways(w) == w \in Workers

\* releaseRunResources logs and swallows, and so does the undo of a deploy;
\* terminate answers with the error.
FailurePropagates(w) == task[w].op = "terminate"

\* runtime.destroyRun.  A call that fails may have been carried out.
DestroyEnv(w) ==
    /\ task[w].at \in {"destroyEnv", "abandonEnv"}
    /\ LET gone == [env EXCEPT ![Subject(w)] = "absent"]
           goOn == IF At(w, "abandonEnv") THEN Finish(w)
                                          ELSE Goto(w, "destroyIndex")
       IN  \/ env' = gone /\ goOn
           \/ /\ env' \in {env, gone}
              /\ IF FailurePropagates(w) THEN Finish(w) ELSE goOn
    /\ UNCHANGED <<row, index, overdue, disabled, access, results, idem,
                   crashes>>

\* telemetryGateway.destroy
DestroyIndex(w) ==
    /\ At(w, "destroyIndex")
    /\ LET gone == index \ {Subject(w)}
           goOn == IF task[w].op = "deploy" THEN Finish(w) ELSE Goto(w, "mark")
       IN  \/ index' = gone /\ goOn
           \/ /\ index' \in {index, gone}
              /\ IF FailurePropagates(w) THEN Finish(w) ELSE goOn
    /\ UNCHANGED <<row, env, overdue, disabled, access, results, idem, crashes>>

\* UPDATE ... WHERE status NOT IN ('stopped', 'expired')
EndedBy(w) ==
    [row EXCEPT ![Subject(w)].status =
        IF @ \in Ended THEN @
        ELSE IF task[w].op = "sweep" THEN "expired" ELSE "stopped"]

\* markRunExpired, markRunStopped; the read-back, or the sweep's audit of the
\* run, may still throw.
MarkEnded(w) ==
    /\ At(w, "mark")
    /\ row' = EndedBy(w)
    /\ \/ Finish(w)
       \/ IF task[w].op = "terminate"
          THEN Goto(w, "record")
          ELSE \E t \in NextTasks(w, task[w].todo) :
                  task' = [task EXCEPT ![w] = t]
    /\ UNCHANGED <<remote, disabled, access, results, idem, crashes>>

\* A query threw: the handler answers 500, the sweep gives up until the timer
\* fires again.
QueryError(w) ==
    /\ task[w].at \in {"record", "update", "ticket", "grade", "result", "list",
                       "mark"}
    /\ Finish(w)
    /\ UNCHANGED <<row, remote, disabled, access, results, idem, crashes>>

-----------------------------------------------------------------------------
(* The runtime, the clock and restarts.                                    *)

\* A booting environment comes up, or does not, and one that is up can break.
EnvStep(r) ==
    /\ \/ /\ env[r] = "booting"
          /\ \E e \in {"up", "broken"} : env' = [env EXCEPT ![r] = e]
       \/ /\ env[r] = "up"
          /\ env' = [env EXCEPT ![r] = "broken"]
    /\ UNCHANGED <<row, index, overdue, disabled, access, results, idem, task,
                   crashes>>

RunExpires(r) ==
    /\ row[r].status \in Active
    /\ r \notin overdue
    /\ overdue' = overdue \cup {r}
    /\ UNCHANGED <<row, env, index, disabled, access, results, idem, task,
                   crashes>>

TicketLapses(t) ==
    /\ ticket[t].status = "issued"
    /\ ticket' = [ticket EXCEPT ![t].status = "lapsed"]
    /\ UNCHANGED <<row, remote, disabled, entries, results, idem, task,
                   crashes>>

\* The API process restarts: handlers and sweeps are lost.
Crash ==
    /\ crashes < MaxCrashes
    /\ crashes' = crashes + 1
    /\ task' = [w \in Workers |-> Idle]
    /\ UNCHANGED <<row, remote, disabled, access, results, idem>>

-----------------------------------------------------------------------------
WorkerStep(w) ==
    \/ Provision(w)
    \/ ProvisionTelemetry(w)
    \/ Insert(w)
    \/ Record(w)
    \/ ReadStatus(w)
    \/ UpdateReadiness(w)
    \/ IssueTicket(w)
    \/ CheckResult(w)
    \/ SaveResult(w)
    \/ ListRuns(w)
    \/ DestroyEnv(w)
    \/ DestroyIndex(w)
    \/ MarkEnded(w)
    \/ QueryError(w)

Learner(w) ==
    \E u \in Users, k \in Keys :
        \/ Deploy(w, u, k)
        \/ \E r \in Runs :
              \/ Submit(w, u, r, k)
              \/ \E op \in {"view", "open"} : Visit(w, u, r, op)

Administrator(w) ==
    \E k \in Keys :
        \/ \E u \in Users : Suspend(w, u, k) \/ Reinstate(w, u, k)
        \/ \E r \in Runs : Terminate(w, r, k)

Environment ==
    \/ \E r \in Runs : EnvStep(r) \/ RunExpires(r)
    \/ \E t \in Tickets : Exchange(t) \/ TicketLapses(t)

Next ==
    \/ \E w \in Handlers : Learner(w) \/ Administrator(w)
    \/ \E w \in Sweeps : Sweep(w)
    \/ \E w \in Workers : WorkerStep(w)
    \/ Environment
    \/ Crash

Spec == Init /\ [][Next]_vars

\* Time passes, the sweep timer keeps firing, and every await of a sweep
\* returns or times out.
Progress ==
    /\ \A r \in Runs : WF_vars(RunExpires(r))
    /\ \A w \in Sweeps : WF_vars(Sweep(w)) /\ WF_vars(WorkerStep(w))

\* PostgreSQL does not refuse the update of the sweep for ever.
DatabaseAnswers ==
    \A w \in Sweeps : SF_vars(MarkEnded(w))

FairSpec == Spec /\ Progress /\ DatabaseAnswers
-----------------------------------------------------------------------------
(* Correctness.                                                            *)

\* Every variable has the shape the code gives it.
TypeOK ==
    /\ row \in [Runs -> Rows]
    /\ env \in [Runs -> {"absent", "booting", "up", "broken"}]
    /\ index \subseteq Runs
    /\ overdue \subseteq Runs
    /\ disabled \subseteq Users
    /\ ticket \in [Tickets -> TicketRows]
    /\ entries \in [Tickets -> Nat]
    /\ results \in [Runs -> Nat]
    /\ idem \subseteq [claim : Claims, made : Runs \cup {NoRun}]
    /\ task \in [Workers -> Tasks]
    /\ crashes \in 0..MaxCrashes

\* services/api/README.md: tickets are "consumed atomically once": however
\* often a gateway presents a ticket, it opens one session.
OneEntryPerTicket == \A t \in Tickets : entries[t] <= 1

\* Concurrent submissions of a run, or a retry of one whose answer was lost,
\* produce one result and one score event (saveChallengeResult).
OneResultPerRun == \A r \in Runs : results[r] <= 1

\* A reply that a retry gets from an idempotency record never reports what
\* did not happen: the deployed run exists and is the actor's, the submission
\* has its result, the terminated run has ended.
RecordedWorkIsDone ==
    \A i \in idem :
        /\ i.claim.op = "deploy" => row[i.made].owner = i.claim.user
        /\ i.claim.op = "submit" => results[i.made] > 0
        /\ i.claim.op = "terminate" => row[i.made].status \in Ended

\* A run that a sweep, an administrator or a suspension has ended stays as it
\* was ended, whatever readiness refresh, sweep or termination was under way.
EndedIsFinal ==
    [][\A r \in Runs : row[r].status \in Ended => row'[r] = row[r]]_vars

\* services/api/README.md: a periodic sweep "expires runs past expires_at":
\* an overdue run leaves the active set, through failing destroy calls and
\* restarts (releaseRunResources).
OverdueRunsEnd ==
    \A r \in Runs : row[r].status \in Active
                    ~> row[r].status \in Ended \cup {"failed"}

Contract == INSTANCE RunContract WITH
    phase <- [r \in Runs |-> row[r].status],
    pass <- [t \in Tickets |-> ticket[t].run],
    grades <- results

\* Requests, timers and restarts implement what learners and gateways are
\* promised about a run.
ImplementsContract == Contract!Spec

AtRest == \A w \in Workers : At(w, "idle")

=============================================================================
