# Formal verification of zerotop

TLA+ modules, TLC configurations and TLAPS proofs about the services of
zerotop (CodeGate): a platform on which lab authors generate, build, validate
and deploy security training labs, and learners reach them through a browser
desktop or an OpenVPN profile and submit answers for grading.  Paths are
relative to the repository, `src/` being its root.

Contents: [the system](#the-system), [the modules](#the-modules),
[the runs](#the-runs), [fairness](#fairness), [the proofs](#the-proofs),
[where code and documents disagree](#where-code-and-documents-disagree),
[what is left out](#what-is-left-out), [the plan](#the-plan).

## The system

| Part | Where | State it keeps | Operations that change it |
|---|---|---|---|
| Platform API | `services/api/src/app.ts`, `postgres.ts`, `runtime.ts` | PostgreSQL: users, organizations, labs, validations, runtime runs, access tickets, challenge results, score events, seasons, idempotency records, audit log | every HTTP route; the run sweep timer |
| Development repository | `services/api/src/database.ts`, `demo-seed.ts`, `development-fixtures.ts` | the same tables in one SQLite file, with sample organizations, people, labs and results | the methods of the repository; the boot: schema, repair, sample data, demo seed |
| Environment builder | `services/builder/src` | `environment_builds` rows; one namespace and Job per build; an in-process guard set | POST/GET/DELETE builds; the reconcile timer |
| Runtime control plane | `services/runtime/src` | one Kubernetes namespace per run | provision, get, destroy; sandbox validate |
| Docker runtime adapter | `services/runtime/src/docker-adapter.ts` | containers, one network and one volume per run at a Docker daemon; per process a chain of locks and the clean-up in flight | provision, get, destroy; the clean-up timer |
| OpenVPN issuer | `services/openvpn-issuer/src` | certificates and their bootstrap tokens, in PostgreSQL | issue, bootstrap, revoke, download |
| Desktop gateway | `services/desktop-gateway/src` | signed session cookies | exchange a ticket, proxy a session |
| Telemetry gateway | `services/telemetry/src` | one Elasticsearch index, role and user per run | provision, search, destroy |
| Validation sandbox | `services/runtime/src/sandbox.ts` | one namespace, probe Job and telemetry index per validation | validate a lab revision |
| Grader, grading packages | `services/grader`, `packages/grading`, `packages/reporting` | none | grade a submission, build rankings and reports |
| Validator, probe runner | `services/validator`, `services/probe-runner` | none | scan, validate and review a lab revision |
| AI service, model gateway | `services/ai`, `services/model-gateway` | requests in flight | generate a lab, review one, judge a text |
| Web | `apps/web` | in the page: the labs, the lab that is shown with its validation and run, what the page is busy with | handlers of clicks, polling loops, answers of the API |

The API has one replica; builder, telemetry, validator, grader and the two AI
services have two.  The services meet in two places: the API calls each of
them over HTTP with a deadline and no transaction around the call, and the
builder and the runtime create Kubernetes objects that outlive the process that
asked for them.  What is hard is therefore

1. two requests that each read a row, await something, and write;
2. a remote call that fails, or whose answer is lost, between two writes;
3. timers that do the same work as requests, and overlap themselves;
4. replicas with in-process guards over a shared database;
5. who cleans up after a step that died; and
6. answers that come after what they answer has changed.

What makes each part correct:

* **Environment builder.**  One build per idempotency key; one verdict per
  build, whoever of two replicas, a GET and a cancel gets there first; an image
  only for a signed success; a verdict for every accepted build, and a deleted
  namespace for every verdict.
* **API, runs.**  A run ends once; a ticket opens one session, and only into a
  ready run; a run is graded once; a stored reply reports what really happened;
  an overdue run leaves the active set; a suspended user has no active run.
* **API, labs.**  An administrator's quarantine outlives every verdict; a
  released lab is validated again; what is validated is what is run; a run uses
  an image built for that very lab.
* **API, accounts.**  Somebody who signs up gets an account and can log in; one
  platform administrator is always reachable; a membership change acts on the
  roles it was checked against; the stored join code is known to somebody;
  seasons do not overlap.
* **API, development repository.**  The promises about runs and the hold on a
  lab are kept by the tables themselves, through restarts; a boot that was cut
  off is made good by the next.
* **Runtime control plane.**  The pods of a run are sealed off from the first
  one on; what is reported ready can be used; a run's credential is revoked
  before its namespace goes.
* **Validation sandbox, validator.**  A lab passes only if nothing is wrong with
  it, whatever failed on the way; the target never runs unconfined; a sandbox is
  removed whatever happens in it.
* **Docker runtime adapter.**  Two requests about one run never overlap; a
  clean-up, which takes no lock, harms no run in use and never waits for one; a
  destroy that was answered left nothing.
* **OpenVPN issuer and gateway.**  No gateway starts to serve a revoked
  certificate; the tunnel opens behind a complete packet filter, ends with the
  run and comes back after a restart.
* **Desktop gateway.**  A desktop never outlives what let its user in.
* **Telemetry gateway, grading.**  A recorded result is what the answers are
  worth, in whatever state a deploy or a teardown left the index.
* **Reporting.**  A board, the summary beside it and the reports agree; points
  that are shown belong to a domain.
* **AI service, model gateway.**  Nobody gives up on work that goes on below;
  what one layer lets through the next does not refuse, after the model has
  been paid for, without a known reason.
* **Web.**  The verdict that is shown, and deployed by, is the shown lab's; the
  page is never busy for ever, and what it shows as under way it follows to the
  end.

## The modules

A component has up to four modules: an abstract contract (`...Contract`), the
component itself, its TLC instances (`MC_...`) and its proofs (`..._proofs`).
A proof module may take in the smaller components beside its own: `RunLifecycle_proofs`
is also about `DesktopSession`, `Grading` and `Standings`, `RuntimePlane_proofs` about
`RangePlane` and `LabValidation`, `LabLifecycle_proofs` about `WebClient`,
`Administration_proofs` about `Identity`, and `Generation_proofs` about
`GenerationPlan` and `LabDocument`.

| Modules | Part |
|---|---|
| `BuildService`, `BuildContract` | the environment builder |
| `RunLifecycle`, `RunContract` | runs, tickets, submissions and the sweep of the API |
| `DevelopmentRepository` (with `RunContract`) | the SQLite repository: its tables, methods and boots |
| `LabLifecycle`, `LabContract` | labs at the API |
| `DockerRuntime` | the Docker runtime adapter |
| `Identity`, `Administration` | accounts, and what administrators do |
| `NetworkPolicy`, `RunManifests`, `RangePlane` | a run in the cluster: objects, policies, control plane, VPN issuer and gateway |
| `LabValidation` | validator, sandbox and probe |
| `DesktopSession` | the desktop gateway |
| `TelemetryStore`, `Grading` | the telemetry gateway; grader and grading |
| `Standings` | rankings and reports |
| `GenerationPlan`, `LabDocument`, `Generation` | the making of a lab: what each layer checks, and how long it waits |
| `WebClient` | the learner's page |

Parts that do not meet share a run.  `MC_Accounts`, `MC_RunLifecycle`, `MC_RuntimePlane`,
`MC_Gateways` and `MC_LabPage` extend several components and add a variable `part`, which is
chosen at the start and never changes: the component it names moves and the
others rest in a reachable state.  (`MC_Accounts` splits `Administration`
further, into the operations that touch the same rows, and `MC_RunLifecycle`
`DevelopmentRepository`.)

A definition whose comment starts with "Defect" is not part of
a model: it is a variant of the definition that follows it, with a bug the code
could have had, and shows that a property sees such a bug.

All services with requests in flight are modelled in the same way.  A **worker** or **handler**
is one asynchronous activation; `task[w].at` is the await it is suspended at,
and the other fields of `task[w]` are exactly what the code read before that
await and uses after it.  A **step** is the code between two awaits whose
outcome others can influence; a query or a transaction of PostgreSQL is one
step.  A remote call may be carried out or not, and, independently, may answer
or not.  A call that is carried out after its caller gave up is modelled as
carried out when the caller gave up.  A restart loses the workers of a process
and nothing else.  (`DockerRuntime` calls them requests and the clean-up, in
`proc[p]`, and a step there is one docker command.)

### BuildService, BuildContract: the environment builder

`BuildService` models `services/builder/src/service.ts` with the transactions of
`postgres.ts`, the cluster calls of `kubernetes.ts` and the timer of `index.ts`.

| Model | Code |
|---|---|
| `rec[b]` | the row of `environment_builds`: status, key, whether it has an image, failure code, `cleaned_at` |
| `ns[b]`, `job[b]` | the namespace of the build and the Job in it |
| `signed`, `expired` | outputs cosign signed and verified; builds past `deadlineAt` |
| `reconciling[r]` | the guard set of replica r's process |
| `Create`, `Get`, `Reread`, `Cancel`, `CancelRecord` | the three routes, each from await to await |
| `ReconcileRound`, `ReconcileEnter`, `Inspect`, `Sign`, `Complete`, `Fail` | `reconcileActive`, `reconcile`, `complete`, `fail` |
| `ApplyNamespace`, `ApplyJob`, `RecordRunning` | `start` |
| `DeleteNamespace`, `ConfirmDeleted`, `MarkCleaned`, `CleanupError` | `cleanup` and `cleanupWithRetry` |
| `QueryError`, `InspectError` | what throws, and who catches it |
| `DeadlinePasses`, `JobStep`, `NamespaceGone`, `Crash` | time, Kubernetes, restarts |

One detail matters more than it seems: `reconcile` *returns* the promise of
`complete` instead of awaiting it (service.ts:189), so its `finally` block
releases the in-process guard before the image is signed.  `HandToComplete` is
that step, and `GuardIsExact` says precisely how far the guard reaches.

`BuildContract` is what a client of the builder relies on: a key names one
build; a build is queued, runs and ends, once; an image appears with a sealed
success.  It knows nothing of replicas, guards, namespaces or cleanup.

### RunLifecycle, RunContract: the life of a run

`RunLifecycle` models the run routes of `services/api/src/app.ts` with the
transactions of `postgres.ts` and the remote calls of `runtime.ts`.

| Model | Code |
|---|---|
| `row[r]`, `overdue` | `runtime_runs`: status and owner; runs past `expires_at` |
| `env[r]`, `index` | the environment at the runtime control plane, the index at the telemetry gateway |
| `ticket[t]`, `entries[t]` | `access_tickets`; the sessions a gateway opened with t (history) |
| `results[r]`, `idem`, `disabled` | `challenge_results`, `idempotency_records`, `users.disabled_at` |
| `Deploy`, `Provision`, `ProvisionTelemetry`, `Insert`, `Record` | POST deploy, with the undo of a failing insert |
| `Visit`, `ReadStatus`, `UpdateReadiness`, `IssueTicket` | GET run, ELK search, the two ticket routes, `refreshRuntimeRun` |
| `Exchange` | `consumeAccessTicket`, called by a gateway |
| `Submit`, `CheckResult`, `SaveResult` | POST submit and `saveChallengeResult` |
| `Terminate`, `Suspend`, `Reinstate`, `ListRuns`, `Sweep` | the ends of a run |
| `DestroyEnv`, `DestroyIndex`, `MarkEnded` | `releaseRunResources`, `markRunExpired`, `markRunStopped` |
| `EnvStep`, `RunExpires`, `TicketLapses`, `Crash` | the runtime, time, restarts |

`setInterval` starts a sweep even if the previous one has not finished
(app.ts:3408), so `Sweeps` is a set of concurrent activations and not a single
process.

`RunContract` is what learners and gateways are promised: a run is launched,
settles and ends once; a ticket belongs to one run and lets somebody in only
while that run is ready; there is one grade.

### DevelopmentRepository: the SQLite repository

With `REPOSITORY_MODE=sqlite` the API runs on `services/api/src/database.ts`.
Its methods never await, and those of several statements run in a transaction,
so each is one action, under the name it has in the code, with the conditions of
its `WHERE` clauses, keys and `UNIQUE` columns as guards.

| Model | Code |
|---|---|
| `db` | the tables users, organizations, memberships, labs with their evidence, runs, results, score events, tickets, seasons; a table is a function from keys to rows |
| `at`, `up` | how far a boot has got; whether the server listens |
| `now` | the day, for seasons |
| `opened`, `aim` | history: sessions opened with each ticket; what the boot under way should leave |
| `Script`, `Executed`, `BootStatement` | `initialize` and `seedDemoData`, statement by statement: `ensureOrganizations`, `ensureUsers`, `ensureMembers`, `refreshActor`, `backfill`, `seedCapability`, `seedSeason`, `optIn` |
| `Listen`, `Stop` | `index.ts`: the server, with or without the demo seed; the end of the process, at any moment |
| `AccountCalls`, `OrganizationCalls`, `SeasonCalls`, `LabCalls`, `RunCalls` | the methods, in any order and with any arguments: what the handlers check before they call is not assumed |

A boot begins on an empty file, on that of a release without consent and scrypt
(`Legacy`), or on whatever the last boot and the calls since have left.
`BootSettles` compares what a boot leaves, however often it was cut off, with
what one that was not interrupted would have left (`Booted`).
`RunContract` is the same as that of `RunLifecycle`: the tables keep it by
themselves.

Worth knowing of this mode: the seed marks the labs of its cohorts as validated
even while an administrator holds them, and such a hold can not be released
(database.ts:860, 2348), which is why `HeldLabsStayDown` leaves the seeded labs
out; every boot gives removed sample members their memberships back
(database.ts:744), restores the role and the password of the development actor,
and opts every organization into the ranking, also those that opted out
(demo-seed.ts:44-48, whose comment speaks of seeded ones); a season that stands
in the way of the demo season is left in place even when none is active.

### LabLifecycle, LabContract: the life of a lab

`LabLifecycle` models the lab routes of `app.ts` with `postgres.ts`,
`environment-builder.ts` and `lab-validator.ts`, and sees the builder through
its operations.

| Model | Code |
|---|---|
| `lab[l]` | the row of `labs`: `validation_status`, `admin_quarantined_at`, `config.target` and `config.builder` |
| `evidence[l]` | `validation_evidence`, with the image the validator was given and whether the lab was released since it was read (history) |
| `build[b]` | the builder's record, and the lab and key it was asked with |
| `deployed`, `idem` | the (lab, image) pairs of started runs; `idempotency_records` |
| `Generate`, `CreateLab`, `GiveUp` | POST generate, with its catch block |
| `RequestBuild`, `StartBuild`, `Fetch`, `Patch`, `CancelBuild` | POST build, `refreshLabBuild`, `updateLabConfig` |
| `Get`, `Validate`, `Reread`, `Verify`, `SaveVerdict` | GET lab, POST validate, `saveValidation` |
| `Deploy`, `Run` | the two reads of a deploy; the rest of it is RunLifecycle |
| `Quarantine`, `Release` | the administrator |

The key under which a build is asked for is part of the model because it is not
the client's: a generation uses a key made from the body alone (app.ts:2558), so
two generations with one body meet in the builder.

`LabContract` is what authors and administrators are promised: the target of a
lab changes only while it is a draft, to an image built for it; a hold keeps a
lab quarantined until its release; a released lab is a draft.

### DockerRuntime: desktops on one host

`DockerRuntime` models `services/runtime/src/docker-adapter.ts`, the adapter the
runtime service uses when it is not given a Kubernetes cluster.

| Model | Code |
|---|---|
| `containers`, `up` | the containers the daemon has, each `<<run, role, request>>`, and those that run |
| `networks`, `joined`, `volumes` | the run's network, the gateway's attachment to it, the blue-team log volume |
| `overdue` | labels `expires-at` whose time has passed |
| `tail[r]` | the map `runLocks`: the last request chained for r |
| `proc[p]` | where a request or the clean-up is, and the ids it listed before |
| `told`, `asked`, `loose` | history: the last answer about a run, its provisions, the runs of which a removal failed |
| `Call`, `Enter`, `Join`, `Settle` | `withRunLock`; the shared promise of `cleanupExpired` |
| `List`, `Inspect` | `listRunContainers`, `statusFromInspection`: idempotent provision, get, the expiry of a run |
| `CreateNetwork` ... `StartContainer`, `GiveUp` | the commands of a provision, and the catch block that undoes them |
| `RemoveList` ... `RemoveVolume` | `removeRunResources`, for a request or for the clean-up |
| `Timer`, `ListAll`, `InspectAll`, `CleanRun` | `cleanupExpiredContainers` |
| `Lapse`, `Stop`, `Crash` | time, a container that dies, a restart |

Three things about this code are worth knowing before one changes it:

* Every provision awaits the clean-up *while it holds the lock of its run*.  The
  clean-up takes no lock, and it must not: if it did, a provision and the
  clean-up could wait for each other (`NoStandstill`).  A clean-up that fails
  also fails every provision that joined it.
* Since it takes no lock, a clean-up that decided to remove a run can meet a new
  provision of the same run id and take the new containers.  `GivenIsWhole`
  therefore speaks of runs none of whose labels has lapsed.  The API never uses
  a run id twice.
* The clean-up finds runs by their containers.  A network or a volume whose
  containers are gone and whose own removal failed is never tried again; `loose`
  marks these runs, and `NothingLeaks` says there are no others.

### Identity, Administration: accounts

`Identity` models registration, login, sessions, suspension and consent in
password mode (`app.ts`, `postgres.ts`, `security.ts`, `input.ts`).

| Model | Code |
|---|---|
| `account[p]` | the row of `users`: handle, hash, accepted versions, suspension; and what was typed at sign-up (history) |
| `session`, `terms` | who holds a token; the document versions of the release |
| `call[c]` | a request and what it has read |
| `Register`, `DeriveHandle`, `InsertUser`, `OpenSession` | POST register: trim, hash, a free handle, the insert, the session |
| `Login` | `verifyPassword` against the stored hash |
| `Resolve`, `Serve`, `Agree` | the session's user, the gates for suspended accounts and for consent, POST consent |
| `SetSuspended`, `NewRelease` | the administrator; a release with new documents, which restarts the API |

A handle is looked up in one query and taken in another, so two people whose
addresses yield one handle can collide, and one of them gets `ACCOUNT_EXISTS`
(`SignUpSucceeds` says that trying again helps).  The consent gate of the API
does not cover the routes under `/v1/admin` (app.ts:2257).  There is no route
that changes a password.

`Administration` models the routes under `/v1/admin` and the organization's:
`Ask` resolves the actor and checks the right and that nobody acts on himself;
`LookUpMember`, `Replay`, `Write`, `Rotate`, `Record`, `AnswerAdmin` are the
queries after that, one await each; `SeasonAsked` and `InsertSeason` the two of
a season; `Cut` a restart.  Three of its properties carry an exception, which is
what the code does: two administrators who demote each other at the same moment
can leave none (`crossed`; app.ts:1971 and README.md:184 think of one request at
a time), seasons created at the same moment can overlap (`raced`), and a
rotation whose key is raced for, or whose process restarts, stores a join code
that nobody is told (`silent`).

### NetworkPolicy, RunManifests, RangePlane: a run in the cluster

`RunManifests` lists, for a request, the objects of `manifests.ts` in the order
they are applied, and the rules of its network policies; `NetworkPolicy` says
what rules mean.  `Permitted(q, n, src, dst, port)` is the connection the first
n objects leave open.  `RangePlane` applies them one after the other and adds
everybody else who touches the run.

| Model | Code |
|---|---|
| `req`, `prov`, `applied`, `ns` | the request, `provision`, the objects applied so far, the namespace |
| `issuing`, `profile` | POST profiles at the issuer and the row it stores |
| `destroy[d]` | a `destroy` call: revoke, delete |
| `look`, `said` | `get` and its answer |
| `gw`, `fw`, `disk` | the VPN gateway container, the packet filter and the in-memory directory of its pod |
| `learner` | the download of a profile |
| `ProvisionStart` ... `Undo` | `adapter.ts` provision with its catch block |
| `DestroyStart` ... `DeleteFails` | `adapter.ts` destroy |
| `GetStart`, `ReadPod`, `Answer` | `get`, with what each part needs before it can be ready |
| `PodUp` ... `GatewayFails` | `gateway.ts`, command by command |
| `IssueStore`, `Bootstrap`, `Download` | `service.ts` and `postgres.ts` of the issuer |

Worth knowing: `buildRunResources` throws outside the try block after the
profile was issued, so a missing blue image, or a gateway image or hostname that is not as it should
be, leaves an active profile; a failing
apply leaves the namespace and what was applied; a profile whose issue answer
was lost stays active, since the API never destroys a run whose provision it saw
fail.  None of these is ended before the profile expires.  The bootstrap token,
which a comment calls one-time (openvpn.ts:12), is accepted again, and must be:
`GatewayRecovers` depends on it.

### LabValidation: the automatic validation of a lab

One revision, with at most one thing wrong with it, goes through the API's call
(`api`), the validator (`chain`: `Scan`, `SandboxAnswered`, `Review`,
`Publish`), the sandbox of the runtime service (`box`, `made`, `vspace`, `job`,
`index`), the probe (`Probe`) and the canary service that stands for another
run.  What is wrong is known to nobody; `evidence` is what the calls found.
The probe takes whatever it could not connect to within its time, five seconds
at most, for blocked (`probe.ts` lines 25 to 28 and 111 to 134), so a missed
answer is an outcome of `Probe`: of a probe of the target it shows nothing, of a
forbidden endpoint it reads "blocked".  Only the canary is looked at before
(`CheckCanary`), and it may go down between that moment and the probe.  What
`PassIsEarned` says is therefore the most the code can promise: a validated lab
is free of every flaw the chain looks for, unless an endpoint at the end of a
route the cluster left open did not answer the one probe (`unheard`), or the
canary went down after it was found ready (`blinked`).

Worth knowing: the publish policy's checks of the MITRE mappings and of the
image's digest are left out, which only lets the model publish more; isolation is measured from the probe pod only; the API's
timeout of 180 s is shorter than the sandbox's 300 s and its 60 s of clean-up;
an unsigned image makes the scan throw, and the API answers 502 instead of
quarantining the lab as README.md:22-23 has it; a failing base apply leaves the
validation namespace (`kept`).

### DesktopSession: the desktop gateway

`SendTicket`, `ConsumeTicket` and `CreateSession` exchange a ticket for a cookie
whose expiry is the sooner of the run's and the gateway's maximum;
`ByCookie`, `ByCache` and `AskApi` are the three ways a request or an upgrade is
let in, `Remember` the cache of the API's answers, `TimerFires`, `CloseTunnel`
and `DropCookie` what ends it.  A tunnel opened with a bearer token has no
timer, and `DesktopEndsWithRun` does not speak of it.  A ticket is honoured as
long as the row says ready; if the run has expired meanwhile, the ticket is
spent and no session is made.

### TelemetryStore, Grading: evidence and points

`TelemetryStore` is the index of one run: the writer at the telemetry service
(`LookForManifest`, `CreateIndex`, `WriteEvents` with partly rejected bulks,
`Undo`), the deploy that may give up while it goes on, and the teardown.
`Grading` hands in a submission, collects evidence question by question
(`GradeElk`, `GradeText`, `Unanswered`, `SkipChoice`) while the API waits, and
turns it into points (`Ratio`, `PointsFor`, `GradeRun`: rounding included).
`RightAnswersCount` compares the recorded points with what the answers are
worth.  Worth knowing: the submit route looks neither at the run's status nor
at its index, so a run graded during an outage or after its teardown keeps zero
points for the questions it could not check; two slow rubric calls exceed the
20 s the API waits; a deploy whose telemetry call times out leaves its index.

### Standings: rankings and reports

`Board`, `ViewerSummary`, `OrganizationBoard`, `PersonalReport`,
`OrganizationReport`, `PlatformReport`, streaks and windows are operators over
the graded results, translated from `packages/reporting` and the routes that
feed it; the actions grade, join, leave, opt in and let days and a season pass.
`BoardIsConsistent` compares them with each other and with a definition of rank
that does not sort.  A sorted table is written as what it is (`Ordered`): the
row in place i is the one that i - 1 others come before.

### GenerationPlan, LabDocument, Generation: the making of a lab

`GenerationPlan` is what the model gateway asks of a plan and the lab it
assembles from one; `LabDocument` what the AI service, the API and the builder
each ask of that lab again; `Generation` passes a request down and an answer up,
under the limit of each layer, with look-ups, malformed answers, a busy, hung or
lost gateway, and the hand-over to the builder.

The checks are not the same, and `RefusalsAreKnown` says where they differ.  Of
the structure of a lab (what it lists, how many, what is named, told apart and
referred to) it says so exactly, and the theorem holds for every plan.  Texts,
addresses and sizes are in the model only as the ways (`Oddities`) in which a
value can pass the gateway's rule for its field and not a later layer's; that
there is no further way was found by reading the rules side by side, not proved.

| Refused only by | Structure | Texts, addresses, sizes (`ForTheService`, `ForTheBuilder`) |
|---|---|---|
| the AI service, when the model has been paid for (`LateRefusalsAreKnown`) | a red lab with fewer than four questions; options with one id; ids, rubrics and package names of 81 to 128 characters; a prompt out of scope | an answer of more than 1,000,000 bytes (generation.py:356); a text whose length Python counts in code points and JavaScript in UTF-16 units |
| the builder, when the lab is stored (`StoredIsBuildable`) | probe ids or expected statuses that repeat; a CVE without a component; timestamps that do not end in Z, as the AI service's own drafts have them; a base image, repository or component that is not on the builder's own lists | active content in the title or a text, as an AI service's own draft has it that quotes the prompt (`DraftTexts`); a package version of more than 80 characters; a destination with ".." in it or without a letter or digit in front; control characters in a probe path; an address that looks private, or that `new URL` writes in another way than the catalog has it; a question's name of one character, which its reference can not have |

CVE numbers have four to seven digits in the gateway and the AI service and four
to ten in the builder, and bodies may have 1 MB there and 4 MB here: the builder
is the wider one, so neither is a further reason.  Catalogs name packages in
lower case and without colons (`build_catalog.py` line 23), so that the builder's
lower-casing changes nothing.

### WebClient: the learner's page

`WebClient` models what `apps/web/app/page.tsx` does with labs and runs, through
the requests of `lib/api.ts`.  JavaScript runs one thing at a time, so a step is
the code between two awaits, together with the effects of the render after it.

| Model | Code |
|---|---|
| `selected`, `validation`, `run`, `items`, `loading`, `action` | the states of the page; `selectedLabIdRef` moves with `selected` |
| `inFlight`, `automatic` | `validationInFlightRef`, `automaticValidationRef` |
| `flow[f]` | a handler, or the polling of a build (`f` is a lab and its build): what it waits for, what it holds, and the `cancelled` flag of its effect |
| `watch` | the effect that looks after a run |
| `stored`, `runs` | labs and runs at the API |
| `SelectLab`, `HandleGenerate`, `HandleValidate`, `HandleRetryBuild`, `HandleDeploy`, `ClickRefresh` | the handlers, up to their first await |
| `GotDetail`, `GotGenerated`, `GotRetried`, `GotRun`, `GotList` | what they do with the answer |
| `GotVerdict`, `GotLab`, `GotListAgain` | `validateSelectedLab`, await by await |
| `PollTimer`, `GotPoll`, `Repolled` | the polling of a build, started and cancelled with the lab and build that are shown |
| `WatchTimer`, `GotLook` | the polling of a run |

An answer carries what was so when the API looked, between the request and the
answer, and answers arrive in any order.  Three history flags say what the code
does not prevent, and the properties are stated up to them:

* `overtaken`: `refreshLabs` replaces the shown lab by the list's (page.tsx:645),
  which may have been asked for earlier than what is shown;
* `stranded`: a polling loop whose effect is cancelled while its validation is
  under way leaves the page busy (page.tsx:1148);
* `deaf`: after one failed look at a run nothing looks again (page.tsx:726).

Worth knowing, and outside the properties: a loop whose validation was already
under way sets the page idle although another handler has made it busy since.

## The runs

Instances are small and exhaustive: TLC visits every reachable state.  Bounds
are constants of the modules (the sets of identifiers, `CleanupAttempts`,
`MaxCrashes`, `MaxProvisions`, `MaxFaults`, `MaxTroubles`, `MaxCodes`,
`MaxCuts`, `MaxVersion`, `MaxTime`, `MaxTries`, `MaxResults`, `MaxAttempts`,
`MaxClicks`, `MaxLosses`, `MaxRuns`, `MaxDay`, `MaxStops`)
and nothing else is cut off.

| Run | Module | Checks | Shows |
|---|---|---|---|
| `race` | `MC_BuildService` | `TypeOK`, `GuardIsExact`, `ImplementsContract` | Two replicas' timers and one HTTP handler race on one build: the in-process guard is exact, and the rows implement BuildContract: one verdict, and an image only with a sealed success. |
| `liveness` | `MC_BuildService` | `EveryBuildEnds` | With every route of the builder, one restart and refusable queries and cluster calls: an accepted build reaches a terminal status if the database answers, and a terminal one is cleaned up if the timer's cleanup is not refused for ever. |
| `namespace_leak` (violation) | `MC_BuildService` | `CleanedNamespaceIsGone` | A start that races a failing start of the same build re-creates the namespace after it was cleaned and marked, and nothing looks for it again. |
| `races` | `MC_RunLifecycle` | `TypeOK`, `RecordedWorkIsDone`, `BootSettles`, `HeldLabsStayDown`, `ImplementsContract`, `RepositoryImplementsContract` | Two handlers on any route, a sweep and a restart race on one run and one ticket: a stored reply reports only work that was done, and the run ends once, is graded once and lets a ticket in once, as RunContract promises.  And the SQLite repository, with any calls and up to three boots that may be cut off anywhere, keeps the same promises and a held lab down, and begins again where it was. |
| `lifecycle` | `MC_LabPage` | `LabFollowsItsBuild`, `PageIsCoherent`, `ImplementsContract` | Two requests on any route, an administrator and a restart race on one lab and two builds: a hold outlives every verdict, what the lab shows of its build is true, and the lab behaves as LabContract promises.  And the page, with two clicks, two labs, three builds and one lost answer, shows and deploys by the verdict of the lab it shows. |
| `released` (violation) | `MC_LabLifecycle` | `ReleasedLabIsRevalidated` | A validation that was under way across a quarantine and its release marks the released lab as validated. |
| `desktops` | `MC_DockerRuntime` | `TypeOK`, `DestroyedIsGone`, `GivenIsWhole`, `NothingLeaks`, `NoStandstill` | Two requests and the clean-up of expired runs race on one blue-team run, with a failing command, a stopping container or a restart anywhere: the lock excludes, a destroyed run is gone, a provisioned one stays whole, failed provisions leave nothing, and nobody waits for ever. |
| `accounts` | `MC_Accounts` | `AccountsTypeOK`, `LastAdminStays`, `CodeIsTold`, `OneActiveSeason`, `SignUpSucceeds`, `OnlyOwnerDemotes` | Concurrent sign-ups under one derived handle, logins, suspensions, consents and releases; and administrators who change roles, members, suspensions, the join code and the seasons at once, with retries under one key and a restart. |
| `login` (violation) | `MC_Identity` | `RegisteredCanLogIn` | A password typed with blanks around it is trimmed at registration and not at login: who registers with it is refused. |
| `plane` | `MC_RuntimePlane` | `IsolationHolds`, `ReadyIsUsable`, `RevokedBeforeTornDown`, `FilterBeforeTunnel`, `PassIsEarned`, `SandboxIsConfined`, `ExpiredTunnelEnds`, `GatewayRecovers`, `CreatedIsRemoved`, `PageMovesOn` | A run of every team and access method is provisioned, read and destroyed while calls fail, answers are lost, the service restarts and the gateway's pod is replaced; and a revision with any one flaw is validated while calls fail, the canary comes and goes and the probe misses answers.  And the page, with one click, two labs, three builds and one lost answer, comes to rest. |
| `gateways` | `MC_Gateways` | `DesktopEndsWithRun`, `RightAnswersCount`, `BoardIsConsistent`, `OverdueRunsEnd`, `WorkIsAwaited`, `RefusalsAreKnown` | Overlapping sweeps with failing destroys, refusable queries and a restart; two browsers at the desktop gateway around the end of a run; a provision, a teardown and a grading that fail half-way; results, departures, opt-ins and a season under every ranking window; and the making of a lab, with plans wrong in up to two places, through the checks of four services and their nested waits. |
| `domains` (violation) | `MC_Standings` | `PointsHaveADomain` | The skills the API credits to graded questions belong to no ranking domain, so a learner with points is on no board that is filtered by domain. |

Why these bounds are enough: a violation of any of these properties needs two
activations that meet on one row, a timer, and at most one failure at the wrong
place, since every guard in the code compares one row, one key or one ticket.
The theorems below cover the rest: they hold for every number of labs, builds,
runs, tickets, handlers, replicas, sweeps and restarts.  In particular the
instances never have two deploys of one key with two runs, a POST of a build that
is retried under its key, or one builder key across two labs; the proofs do.  That a key names one build (`OneBuildPerKey`)
is proved only, and has no run.  The `desktops` run has two requests and the
clean-up about one blue-team run, provisioned twice, with one failure anywhere:
every pair of overlapping calls, and every call that fails in the middle of
another.

* `races` also has the SQLite repository with two sample people and their
  organization, one more of everything that a call can make and a second season,
  on five days with three stops: a boot is cut off twice and carried through, or
  carried through twice with calls before, between and after.
* `accounts` has two requests at a time about two or three people: every pair of
  overlapping requests, one restart, two keys that are retried.
* `plane` has every request (two teams, three ways of access), two overlapping
  destroys and one fault anywhere, which a second fault would only repeat, since
  every failure leads to a place the run is at anyway; and every lab that has at
  most one thing wrong, with two troubles.
* `gateways`: two overlapping sweeps of one run with a restart; two browsers with
  a run that expires at 3, a maximum session of 4 and a clock of 5, so that
  either limit is met first; four questions of each kind with one right event of
  two; three learners, one of whom is in no organization, and a season that
  begins and ends; and five requests, three catalogs, both modes and both
  builders with every plan that is wrong in at most two parts.  The clock of the
  generation is scaled: the limits of 1200, 1230 and 1260 seconds become 4, 6 and
  7, and the look-ups, four at a time and 8 seconds each at most (`intel.py` line
  39), so five waves and 40 seconds in all for the 20 CVEs a request may name,
  become at most two waves of one unit each.
  An answer travels in no time, one request is made at a time (a busy gateway is
  a choice), and the two component catalogs are the same.

* `lifecycle` and `plane` also have the page with one handler and a loop for
  each of three builds of two labs: two clicks in the former, of which one
  usually starts a build or a validation that the other overtakes, one in the
  latter, where every order of the answers of one handler and the loops is
  followed to its end.  A loop that was cancelled settles before its build is
  polled again, and a lab that failed is rebuilt once.

Renaming handlers, sweeps or tickets changes neither a specification nor an
invariant, so those runs use SYMMETRY; the runs with liveness properties do not.
Deadlock is not checked: a build or a run that has ended, with every identifier
used up, is where these systems may stop.

## Fairness

Only what the code's scheduling justifies is assumed, and no client is assumed
to do anything, except where a property is about a client who tries again.

* `BuildService!FairSpec`: every await of a worker returns or times out
  (all calls have deadlines), the reconcile timer keeps firing, time passes and
  Kubernetes finishes deleting a namespace.  Refusals may go on for ever, so
  the two halves of `EveryBuildEnds` state what they need: `EventuallyTerminal` holds
  if PostgreSQL does not refuse the read and the write of `reconcile` for ever
  (`DatabaseAnswers`), although the cluster may; `EventuallyCleaned` if neither
  Kubernetes nor PostgreSQL refuse the calls of a timer's cleanup for ever
  (`Cooperation`).
* `RunLifecycle`'s `Progress` and `DatabaseAnswers` (run `gateways`): time passes, the sweep timer keeps firing, every
  await of a sweep returns or times out, and PostgreSQL does not refuse the
  update of the sweep for ever.  Destroy calls may fail for ever.
* `IdentityFairness`: a request that was received is served; somebody who wants
  an account and chooses no handle tries again after a conflict.
* `RangeFairness`: the sweep of the API repeats a destroy until it is answered,
  the kubelet restarts a container, timers fire, and Kubernetes finishes the
  deletion of a namespace.
* `ValidationFairness`: every call of the chain has a timeout and every wait a
  deadline, the kubelet runs the Job, a deletion is finished.
* `PageFairness`: every request is answered or fails (lost answers are errors, as
  `fetch` reports them), timers fire, builds and runs get somewhere, as the other
  modules show.  Nobody clicks.
* `DockerRuntime` assumes no fairness.  What it says of progress is a safety
  property, `NoStandstill`: while a request is open, some request or the
  clean-up has a step to take.
* `LabLifecycle` states no liveness property: a build is refreshed only when a
  client asks (GET lab), and nothing in the service makes a client ask.

## The proofs

TLAPS checks every theorem below for every value of the constants, from the
named assumptions in the modules alone (identifiers and their absent values
differ; handlers are not timers; the bounds are naturals; a limit of one layer
leaves room for the next one's; handles and names differ; requests and plans
have the form in which the layer before lets them pass).

| Theorem | Module | What it establishes |
|---|---|---|
| `TypeCorrect` | `BuildService_proofs` | Every reachable state of the builder has the shape the code gives it. |
| `TerminalStatusIsFinal` | `BuildService_proofs` | No step of any number of replicas changes the verdict or the result of a finished build. |
| `SuccessIsSigned` | `BuildService_proofs` | An image is exposed exactly by a succeeded build, and only after its output was signed and verified. |
| `FailureMatchesStatus` | `BuildService_proofs` | The failure code of a row always agrees with its status, whoever lost the race for it. |
| `KeyNamesOneBuild` | `BuildService_proofs` | Two rows never answer the same idempotency key. |
| `NamespacesAreTracked` | `BuildService_proofs` | A namespace in the cluster always has a row, so that a reconciler can find it. |
| `ServiceImplementsContract` | `BuildService_proofs` | Every step of the builder's workers is a step or a stutter of the abstract contract with the API. |
| `GuardIsHeld` | `BuildService_proofs` | For any number of handlers, timers and replicas, a worker within the guarded block holds the guard of its build on its own replica, no two hold the same one, and a guard that nobody is within is free. |
| `TypeCorrect` | `RunLifecycle_proofs` | Every reachable state of the run lifecycle has the shape the code gives it. |
| `TicketAdmitsOnce` | `RunLifecycle_proofs` | No interleaving of gateways, requests and restarts lets a ticket open two sessions. |
| `RunIsGradedOnce` | `RunLifecycle_proofs` | However many submissions overlap or are retried, a run has at most one result. |
| `RepliesAreBacked` | `RunLifecycle_proofs` | Every stored idempotent reply reports a run, a result or an end that exists. |
| `EndIsFinal` | `RunLifecycle_proofs` | No late readiness answer, sweep or termination changes a run that has ended. |
| `LifecycleImplementsContract` | `RunLifecycle_proofs` | Every step of requests, sweeps, gateways and restarts is a step or a stutter of RunContract. |
| `TypeCorrect` | `LabLifecycle_proofs` | Every reachable state of the lab lifecycle has the shape the code gives it. |
| `HoldOutlivesVerdicts` | `LabLifecycle_proofs` | No validation, however late its verdict, lifts an administrator's quarantine. |
| `LabsShowTheirBuilds` | `LabLifecycle_proofs` | What a lab shows of its build is true of a build made for it, whatever answers overtake each other. |
| `RunsAreOfBuiltImages` | `LabLifecycle_proofs` | Every run is of an image that the builder made for that lab. |
| `LifecycleImplementsContract` | `LabLifecycle_proofs` | Every step of requests, administrators, builds and restarts is a step or a stutter of LabContract. |
| `TypeCorrect` | `DockerRuntime_proofs` | Every reachable state of the local runtime has the shape the adapter gives it; nothing runs that does not exist. |
| `LockExcludes` | `DockerRuntime_proofs` | For any number of requests, runs, failures and restarts, two requests are never inside the lock of one run. |
| `DestroyIsComplete` | `DockerRuntime_proofs` | After an answered destroy no network, volume or container of the run is left, except a container whose removal failed, and none comes back, though the clean-up takes no lock. |
| `GivenStaysWhole` | `DockerRuntime_proofs` | A provision that was answered keeps every container, its network, the gateway and the volume until its time is over, whatever requests, clean-ups, failures and restarts there are. |
| `NothingIsLeftOver` | `DockerRuntime_proofs` | For any number of requests and failures, a run without containers that nobody is about has neither network nor volume, unless a removal of it failed. |
| `AdministrationTyped` | `Administration_proofs` | Every variable of the account administration has its type, for any people, handlers, keys, periods and cuts. |
| `AnAdminStays` | `Administration_proofs` | As long as no two administrators changed each other's standing at once, a platform administrator is left, whatever the interleaving of their requests and of the requests about members. |
| `StoredCodeIsTold` | `Administration_proofs` | Unless a rotation's answer was lost or its idempotency key was raced for, the join code stored is one that somebody was told, or the one whose answer is under way. |
| `SeasonsAreApart` | `Administration_proofs` | Unless two administrators created seasons at once, no two seasons overlap, for any set of periods. |
| `DemotionIsTheOwners` | `Administration_proofs` | A step that takes an administrator of an organization down is one of its owner's, for any interleaving of reads and writes of memberships. |
| `DesktopsEnd` | `RunLifecycle_proofs` | A WebSocket opened with a cookie is closed when its run expires, and a bearer token is forgotten within one answer and one cache entry of the end of its run, for any browsers and any times. |
| `AccessGoesFirst` | `RuntimePlane_proofs` | The namespace of a run goes only after its VPN profile, and no late issue makes the profile active again, for any number of destroys, failing calls and restarts. |
| `FilterComesFirst` | `RuntimePlane_proofs` | OpenVPN runs behind the complete packet filter, and a pod is ready only with its tunnel up, however often containers and pods are replaced. |
| `RunsAreSealedOff` | `RuntimePlane_proofs` | Whatever part of the plan of a run has been applied, for every request, every pod there is behind the default denial, and no rule lets it reach the internet, the API or another run, or a target the workstation. |
| `LayersWaitLongEnough` | `Generation_proofs` | While the model gateway works within its limit, the AI service and the API are waiting for it, for all limits that nest and every number of look-ups. |
| `RefusalsAreForKnownReasons` | `Generation_proofs` | What only the AI service refuses after the model was paid for, and what only the builder refuses after the lab was stored, is one of the named differences, for every request, catalog and plan: of a lab's structure the differences are exactly those named; texts, addresses and sizes enter by the ways they can be odd in. |
| `AnswersAreWorthTheirPoints` | `RunLifecycle_proofs` | Every answer of a recorded result is given its rounded share of the points, nothing only where its own grading was lost, for any questions and merits, whatever a bulk, a provision or a teardown does meanwhile. |
| `ReadyRunsAreUsable` | `RuntimePlane_proofs` | A run that get has reported ready has every object of its plan, and the rules, services and quota of the plan let the learner in, for every request, any failures and restarts. |
| `VerdictsAreEarned` | `RuntimePlane_proofs` | A revision recorded as validated has no flaw the chain is there to find, for every lab and any troubles; only an open route whose endpoint did not answer the probe in time, or a canary that went down after it was found ready, lets one through; and nothing of its sandbox is left. |
| `SandboxesAreConfined` | `RuntimePlane_proofs` | Whenever the target or the probe of a sandbox runs, the policies applied so far let the target reach nothing and the probe only the target and DNS. |
| `PagesAreCoherent` | `LabLifecycle_proofs` | The validation the page shows is the selected lab's, and no lab is validated twice at once, for any labs and builds and whatever order the answers come in. |
| `RepositoryInvariant` | `DevelopmentRepository_proofs` | In the SQLite repository the run of a ticket exists, a ticket opens at most one session, a run has at most one result, with its score event, the sample people keep their names, and what is done of a boot under way is part of what it is to leave, after any calls and any boots that were cut off. |
| `RepositoryTypes` | `DevelopmentRepository_proofs` | Every table of the SQLite repository has its type, for any people, organizations, labs, runs and tickets. |
| `HoldsStay` | `DevelopmentRepository_proofs` | A lab that an administrator holds stays quarantined through every verdict and every boot, except a seeded one. |
| `BootsSettle` | `DevelopmentRepository_proofs` | A boot that is carried through leaves what one that was never cut off would have left, however often it was cut off, whatever was called between, from an empty file or that of an earlier release. |
| `RepositoryKeepsContract` | `DevelopmentRepository_proofs` | The tables keep the contract of a run by themselves, whatever is called and in which order, through boots. |
| `AccountsTyped` | `Administration_proofs` | Every variable of sessions, accounts and administration together has its type, for any people, callers and passwords typed: a request names a person, and who was let in has an account. |
| `ConsentComesFirst` | `Administration_proofs` | Except for the routes of administration, nothing is served to an account that owes its consent to the terms in force, whatever sign-ups, logins, consents and new versions of the terms come between. |
| `LockIsAQueue` | `DockerRuntime_proofs` | The requests waiting for the lock of a run form one line, first come first served, each waiting for the one before it, for any number of requests, refusals and restarts. |
| `SomebodyGoesOn` | `DockerRuntime_proofs` | As long as a request about a run is open, one about that run is inside the lock, and if it waits for the clean-up, the clean-up is under way: no circle of waiting. |
| `BoardsAreConsistent` | `RunLifecycle_proofs` | Ranks count those with more points, nobody is on a board that is not theirs, a summary says what the board says, no current streak is longer than the longest, readiness is a share, and an organization scores between its members, for any number of people, results, departures, opt-ins and days. |
| `ActivationsAreBounded` | `BuildService_proofs` | Every step of a handler or a timer of the builder leaves it fewer steps to go, at most 6 * CleanupAttempts + 14 at first: whatever is answered and refused, no activation goes round in circles. |
| `RequestsAdvance` | `RunLifecycle_proofs` | Every step of a request, a suspension or a sweep goes on to a later part of it or takes a listed run off its list, whatever is answered: none goes round in circles, and none tears a run down twice. |
| `SomebodyHasAStep` | `DockerRuntime_proofs` | As long as a request is open, the guard of one of the actions holds, of a request that has its lock and something left to do or of the clean-up, for any number of requests, failures and restarts. |
| `NobodyStandsStill` | `DockerRuntime_proofs` | Where a guard that is named lets its action be taken (GuardsSuffice, about ENABLED), some request or the clean-up can go on as long as a request is open. |
| `TunnelsEnd` | `RuntimePlane_proofs` | Under the fairness of the range, and where the guards let the gateway act (GatewayIsAble, about ENABLED), an expired run loses its tunnel and never has one again, for any destroys, faults and restarts. |
| `GatewaysRecover` | `RuntimePlane_proofs` | Under the same fairness and condition, once nothing fails any more, the gateway of a run with a whole plan and a valid profile passes every command of its script and stays up. |
| `SandboxesEnd` | `RuntimePlane_proofs` | Under the fairness of the validation, and where the guards let the sandbox act (SandboxIsAble, about ENABLED), a sandbox whose objects were created goes, unless its deletion was refused or never asked for, for any troubles. |

The argument is always the same: an inductive invariant of named parts, each
about one piece of the state, shown part by part for each action.  What follows
says which parts there are and why they are needed.

*BuildService.*  The inductive invariant adds to the type invariant that every busy worker is
about a build that has a row, is about to complete it only once its output is
signed, and is about to fail it only with a failure code (`Placed`).  This is
needed because a worker uses its build long after it read the row.  From it, a
step changes at most one row, in one of six ways (`RowStep`), and what is
claimed of rows, the contract included, follows from the six ways without
looking at workers again.  The guard is a matter of the workers alone
(`Guarded`): whoever is within the guarded block holds the guard of its build on
its own replica, every guard is held by somebody within, no two hold the same
one, and what a worker goes back to after a cleanup or a failure lies outside,
so that the `finally` block releases on every path.
`ActivationsAreBounded` is the part of `EveryBuildEnds` that belongs to one
worker: a count of the steps a worker has ahead of it (`Left`), which each of its
steps makes smaller.  A clean-up counts three for each attempt, and what may come
after a clean-up (the second read of GET, the transition of cancel) counts as
well, because a worker takes the way back only at the end of it.

*RunLifecycle.*  A worker that is deploying holds a run that has no row and
that no other worker holds (`Exclusive`); every other worker holds runs that
have one, unless it is undoing a deploy, and what it is about to record has been
done (`Placed`).  Therefore only the insert of a deploy gives a run its row, and
nothing a worker read earlier makes a row go back.  `Backed` strengthens
`RecordedWorkIsDone` by the type of what was made.
`RequestsAdvance` says that no handler and no sweep goes round in circles: a step
goes to a place nearer the end (`Height`), or takes up a listed run and takes it
off the list (`Advances`), which is well-founded for every list.

*LabLifecycle.*  What a handler has read may be out of date, but of that only
what can not change is used: a build belongs to one lab and ends once, a lab
exists for good and never loses its image (`Lasting`).  So the answers and the
images handlers carry stay true (`Good`), and what they write into a lab is true
of it (`Sound`).

*DockerRuntime.*  First, what a request holds fits the place it is at
(`Placed`).  Then the chain (`Chained`): every request that still waits waits
for one that is open and about the same run, no two wait for the same one, and
`tail` is the one nobody waits for; so at most one is inside (`LockExcludes`).
Last, of a run whose destroy was answered, only the request inside the lock
could make anything again, and it has set `told` back before it does (`Careful`);
the clean-up only ever removes.  That gives `DestroyIsComplete`.
For `GivenIsWhole` the clean-up needs no lock because of what it takes up
(`Selective`): runs of which it found a container overdue.  Of any other run the
request inside the lock is alone, so that what it listed is there, what it
created stays, its containers all bear its own label, and whatever is left of
them after a failure still stands on its network and its volume (`Able`,
`Rooted`); it therefore never takes a disagreement of labels for an expired run,
and `given` is said of a complete run only.  For `NothingLeaks` both may be at
work on a run at once, and the invariant (`Clear`) is a disjunction: a run that
is not `loose` has containers, or a request that makes or removes it, or a
clean-up that has got to a certain command, or no network and no volume.
The lock is fair: the requests about a run stand in one line, a sequence in
which the first is inside and each waits for the one before (`InLine`,
`LockIsAQueue`); a call appends to it, and leaving takes off its head.  With
`Attended` (who waits for the clean-up waits for one under way) this gives
`SomebodyGoesOn`: no circle of waiting.  With one more part, that a clean-up
about to go on to the next run has one (`HasNext`), there is always an action
whose guard holds (`SomebodyHasAStep`).  That its action can then be taken is a
matter of `ENABLED`, and `NobodyStandsStill` has it as its hypothesis
(`GuardsSuffice`); see below.

*DevelopmentRepository.*  The run of a ticket is there (`Linked`), a
ticket has opened one session if it is consumed and none otherwise (`Counted`),
a run has at most one result, with its score event (`Graded`), none before it
is there, and seeded runs are stopped (`Archived`); the sample people keep
their handles and addresses (`Named`).  The hard part is the boot, which is
interrupted anywhere and begun again over whatever was called meanwhile: `aim`,
what an uninterrupted boot would have left, is that of the present tables at
every moment, and what the statements done so far were for still holds
(`Underway`).  It follows that a boot carried through has left its aim
(`BootsSettle`).  `RepositoryTypes` is proved of every table.

*Administration.*  What a request holds was checked when it came (`Asked`,
`Allowed`), and only a rotation between its update and its answer holds a join
code (`Holds`).  Two seasons can only overlap if two inserts were under way at
once, so without `raced` there is one at most (`OneInsert`) and what it inserts
fits (`Inserting`).  `LastAdminStays` is inductive by itself: whoever changes somebody is an
administrator other than that person (`NotSelf`, part of `Asked`), and still is
one when the change is written, or `crossed` becomes true.

*Identity.*  A request under way names a person; one that is about to be served
is of somebody with an account, and beyond the consent gate of somebody who has
agreed to the terms in force (`Known`).  A release with new terms restarts the
API, so no request outlives the terms it was let in under.  So nothing but
administration is served to somebody who owes consent (`ConsentComesFirst`).

*DesktopSession.*  What was granted about a run that has ended was asked for
before it had, and is at most `AskLife` old when it arrives (`Waiting`,
`Granted`); hence what is remembered of such a run is over in time
(`Remembered`).  A tunnel opened with a cookie has a timer, and the clock does
not pass it (`Timed`).

*RangePlane.*  A profile is on its way only before the run is provisioned or
after the provision has failed, and a destroy needs a provision that was
answered: so nothing is stored behind a revocation (`Issuing`, `Destroying`,
`Going`).  The chain is complete from the moment the last rule was found there,
and the ready marker is gone from the first command of a container until its
tunnel is up (`Filtering`, `Marked`).  `IsolationHolds` is a fact about
`RunManifests` with one invariant behind it, that what is applied is a prefix of
the plan (`Applying`): every plan begins with the same twelve objects
(`PlanBegins`), the default denial is the fifth and no workload is among the
first five, so a pod that lives is denied what no rule allows (`DenialIsThere`,
`Denied`), and the rules name nothing outside the run (`WhatRulesName`).
`ReadyIsUsable` needs that what `get` waits for is applied last, and lasts as
long as the run; the rest is about the plan itself: how many objects of a kind
it holds, counted along the concatenation, stays within the quota it contains,
and the rules of the whole plan let the learner in.
`TunnelsEnd` follows the gateway of an expired run from place to place: where it
has no bundle yet it gets none any more (`Over`, which nothing leaves); from any
other place it is led on by the fairness of its steps, over the five rules of the
chain one by one (`Ruled`, for which the chain must be a prefix of the whole one
at every moment, `Growing`), to where its timer stops it.  `GatewaysRecover`
climbs the same ladder to its top for a run that is as it should be (`Fit`): it
needs that the plan leaves DNS and the issuer open to the gateway
(`GatewayHasItsWay`, a fact about `RunManifests`), so that every start finds its
bundle, and that no file of an earlier start is in the way (`Fresh`).

*LabValidation.*  The chain is past a check only if the check was passed
(`Judged`), what the calls and the probe report is so (`Sound`), a probe was
started with the canary up, unless it went down (`Probed`), a sandbox is said to
be gone only when it is, after everything was read from it (`Cleaned`), and it is
built in the order of its plan (`Building`).  `Sound` says of an endpoint that
was not reached only what `unheard` and `blinked` leave: an endpoint that was
down or slow looks like a closed network, and `PassIsEarned` names it.
`SandboxesEnd` goes through the places of a sandbox whose objects are there
(`Created`): each is left for a later one, for the deletion, or by a restart of
the service, and a probe that was started is over before it is read
(`ProbeRuns`, `ProbeOver`).

*Grading.*  Once a run is recorded its index holds every event of the lab or is
gone (`Indexed`), and each question graded so far gives its rounded share of the
points, or was marked as lost (`Graded`); the arithmetic of `PointsFor` is proved
once, for all points and percentages.

*Standings.*  The state adds nothing to the type invariant; the work is in what
sums, maxima and sorted tables are, for any number of results and people.  The
induction is over finite sets, by a least counterexample (`LeastFinite`: of sets
that are wrong there is one without a smaller one), which needs no operator to
be instantiated: a sum does not depend on the order (`SumTakesOut`) and adds over
sets with no part in common (`SumAdds`); a finite set of integers has a greatest
and a least element; in a strict total order the number of those before it
tells members apart, and every place is taken (`EveryPlaceIsTaken`).  The two
comparisons of the code are such orders because handles and names differ, so
each row has one place, and the first place of a tie is one more than the number
of rows with more points (`TiesShareARank`).  An organization lies between its members
(`TogetherIsBetween`) although every score is rounded: a rounded share is at
least `low` if and only if twice a hundredfold of the points and the whole is at
least `2 * whole * low`, and such inequalities add up over members.

*WebClient.*  An answer is about the lab it was asked for (`Apt`), a lab that is
validated is marked so, and by one flow (`InFlight`), and the validation shown
is of the selected lab (`Showing`).

*Generation.*  The clock never passes the limit of anybody who waits (`Timed`,
`Working`), the look-ups left and the time they need fit into what the API has
left (`Looking`), and without a request nobody is busy (`Quiet`).  `WaitsNest` is the assumption: the limits nest even after the
largest number of look-ups.
For `RefusalsAreKnown` the state says little (`Asking`, `Calling`, `Handed`,
`Taken`, `Refused`, `Judged`): what each layer holds has passed that layer's
checks, and a lab is assembled from a sound plan or drafted by the AI service
itself.  The work is in comparing the checks of two layers, one part of a lab at
a time: what the gateway asks of a plan makes the assembled part pass the checks
of the AI service, the API and the builder, except for what is named.  The
requests and plans range over everything of their form (`RequestsAreRequests`,
`PlansArePlans`), and the names the gateway itself puts into a lab are short
(`OwnNamesAreShort`).

What the provers can not say, and what that means:

* `ENABLED`, and with it what weak fairness gives, is out of their reach.  The
  four theorems about progress (`NobodyStandsStill`, `TunnelsEnd`,
  `GatewaysRecover`, `SandboxesEnd`) have a hypothesis that names the places at
  which the fair actions can be taken: `GuardsSuffice` in `DockerRuntime`,
  `GatewayIsAble` in `RangePlane`, `SandboxIsAble` in `LabValidation`.  They are
  plain state predicates, which TLC can evaluate.  They are not among the
  properties of the delivered runs; whoever adds them as `INVARIANTS` to
  `DockerRuntime_desktops.cfg` and `RuntimePlane_plane.cfg` finds that they hold
  of every state of those instances.  That the system is ever at such a place, that it
  leaves it for the right one and that nothing takes it back is what is proved.
* `GatewaysRecover` speaks of the time when nothing fails any more.  The model
  counts failures up to `MaxFaults`, so that this time comes; that a number which
  only grows and is bounded is constant in the end takes an induction.
* Such an induction, over a list of runs, a round of builds or a number of clicks,
  is also what `EveryBuildEnds`, `OverdueRunsEnd`, `PageMovesOn` and
  `SignUpSucceeds` need.  They are model-checked only; of the first two,
  `ActivationsAreBounded` and `RequestsAdvance` prove that no single activation
  lasts for ever.
* The violations of the next section are counterexamples.

A proof that fails for a good reason is worth as much as one that succeeds.
From those attempts the models have the gateway's limits on lists (20 techniques
and components, 30 steps of a chain, 8, 20 and 100 answers to a question), which
had been left out; a verdict that was a `CASE` with
overlapping guards, where TLC takes the first and the logic may take any
(`ProviderVerdict`, `BuildVerdict`); and the assumption `OwnNamesAreShort`.

## Where code and documents disagree

Each of these runs checks one sentence of the repository and ends in a
counterexample.  The first two are races; the last two are about requests one
after another.

| Run | Code | What happens, and the sentence |
|---|---|---|
| `namespace_leak` | `services/builder/src/service.ts:164` | reconcile starts a build it saw queued and missing while the start of create is failing, cleaning up and marking the row cleaned; the namespace it re-creates, with the registry credentials, is never deleted because the terminal row is already marked cleaned; services/builder/README.md:12 says the credentials are copied "into the ephemeral namespace, mounted read-only, and removed with that namespace". |
| `released` | `services/api/src/postgres.ts:984` | saveValidation looks only at a hold that is still set: a validation that began before a quarantine and its release marks the released lab as validated at once, although nothing was validated after the release. services/api/src/ports.ts:113-115 says "the lab must pass validation again before it can be deployed", and so does services/api/README.md:93-95. |
| `login` | `services/api/src/input.ts:99` | normalizeRegistration trims the password before it is hashed (input.ts:99), the login compares what is typed as it is (app.ts:1362 on): a password with a blank at an end can never be used again. services/api/src/app.ts:1328-1329 says "register → session → use, with an explicit login available on return". |
| `domains` | `packages/contracts/src/index.ts:277` | gradeSkills (services/api/src/app.ts:787-807) credits elk_investigation, attack_mapping, red_team_execution and analysis, and none of them is a skill of a ranking domain; packages/contracts/src/index.ts:273-275 says of the domains "Each maps to the skill keys graders emit, so the taxonomy stays in one place for both the server and the client." |

Five more disagreements are reachable in the models, and no run is kept for
them.  A user suspended while a deploy waits for the runtime keeps the run until
the sweep finds it (app.ts:1100; services/api/README.md:125-128).  An
environment whose deploy timed out or died before the insert is in no row, and
nothing looks for it (app.ts:2754; README.md:174,
docs/production-deployment.md:125).  A deploy that read a lab before it was
quarantined goes on to run it (app.ts:2711), and one whose build changed after
its validation runs an image that was not validated (app.ts:2615, 2668;
docs/architecture.md:95).  In development mode the demo seed
opts in organizations that opted out, at every boot (demo-seed.ts:44-48: "every
seeded organization").  `RecordedWorkIsDone`, `LabFollowsItsBuild` and the
contracts are what holds in their presence.

## What is left out

* *Address translation.*  The NAT commands of the gateway's script
  (`gateway.ts` lines 163 to 166) are left out of `AppendRule`: the policies and
  the packet filter decide what is reached, whatever the source address.
* *Data.*  Requests, manifests, digests, certificates, prompts and reports are
  members of small sets or absent; the checks on them are guards.
* *List limits.*  Rounds and sweeps list at most 50 rows, oldest first; the
  instances have at most two.
* *Access to a lab* (membership, ownership, publication) decides who may send a
  request, which the models leave to any handler.
* *Replays* (except a rotation's and a suspension's, which `Administration`
  models).  A replay changes no state and is the absence of a step.  The
  idempotency records of quarantine and release are not modelled: without them
  more requests are carried out, not fewer.
* *Labs without a build specification* exist in development mode only.
* *Development mode*: of the SQLite repository, the idempotency records and the
  audit log, which nothing else in it reads, and the lists and reports, which
  change nothing; a seeded lab stands for the three of its cohort, a seeded run
  for the three of its user; time stands still while the server is down; a file
  that is lost is an empty one.  The local adapters (grader, validator, builder)
  answer at once and keep nothing.
* *AUTH_MODE=oidc*: accounts are modelled in password mode; the token checks of
  `packages/auth` have no state.
* *One request at a time* in `Generation`: the slots of the model gateway, which
  generation, review and rubric share, are a choice of the environment.
* *Not modelled*: of the web client, login, reports, rankings, answers, access and the administration
  console, which show one answer each; the lab images, Ansible roles, Kubernetes manifests of the platform and
  scripts have no protocol of their own; fixtures and training content are
  data.  `PROJECT.json` lists every part with its status.

## The plan

What was planned is modelled, and every invariant and every action property a
run checks is a theorem, `NoStandstill` under the hypothesis about `ENABLED`
named above, and so are three of the seven liveness properties.  What would add
most from here:

1. a composition of `RunLifecycle` with `RangePlane`, in which the sweep, and not
   an arbitrary client, repeats a destroy;
2. a composition of `Generation` with `BuildService`: a lab that is handed over
   is one the builder accepts or refuses for a known reason;
3. the list limits of rounds and sweeps (50 rows, oldest first), which need
   instances larger than the ones here.
