------------------------ MODULE RunLifecycle_proofs ------------------------
(***************************************************************************)
(* Machine-checked facts about RunLifecycle, for any number of runs,       *)
(* users, tickets, keys, requests, sweeps and restarts.                    *)
(*                                                                         *)
(* The argument: a worker that is deploying holds a run that has no row    *)
(* and that no other worker holds (Exclusive); any other worker, unless it *)
(* undoes a deploy, holds runs that have one, and what it is about to      *)
(* record has been done (Good, for every worker: Placed).  So only the     *)
(* insert of a deploy gives a run its row, and nothing a worker read       *)
(* earlier makes a row go back.                                            *)
(*                                                                         *)
(* And about what comes of a run: its desktop ends with it, for any        *)
(* browsers and times; its result gives an answer the points it is worth,  *)
(* for any questions and events; and boards and reports agree about the    *)
(* results, for any number of people and results.                          *)
(***************************************************************************)
EXTENDS RunLifecycle, DesktopSession, Grading, Standings, FiniteSetTheorems, TLAPS

DeployOnly == {"provision", "telemetry", "insert", "abandonEnv"}

\* Before the insert of a deploy, and while it undoes one whose insert threw.
Launching(t) == t.op = "deploy" /\ t.at \in DeployOnly
Undoing(t) == t.op = "deploy" /\ t.at \in {"destroyEnv", "destroyIndex"}
NeverDeploy == {"status", "update", "ticket", "grade", "result", "list",
                "mark"}

\* What holds of a busy worker's task, given the rows and the results.
Good(t, rows, res) ==
    /\ t.at = "idle" => t.run = NoRun
    /\ t.at # "idle" =>
        /\ t.at \notin {"list", "record"} => t.run \in Runs
        /\ t.at \in DeployOnly => t.op = "deploy"
        /\ t.at \in NeverDeploy => t.op # "deploy"
        /\ t.at \in {"grade", "result"} => t.op = "submit"
        /\ t.at \in {"destroyEnv", "destroyIndex", "mark"} => t.op # "submit"
        /\ t.at = "list" => t.op = "suspend"
        /\ t.at = "update" => t.verdict \in Verdicts
        /\ t.op = "deploy" => t.run \in Runs /\ t.user \in Users
        /\ Launching(t) => rows[t.run].status = "none"
        /\ ~Launching(t) /\ ~Undoing(t) /\ t.run # NoRun =>
              rows[t.run].status # "none"
        /\ \A r \in t.todo : rows[r].status # "none"
        /\ t.at = "record" =>
             /\ t.op = "deploy" => rows[t.run].owner = t.user
             /\ t.op = "submit" => t.run \in Runs /\ res[t.run] > 0
             /\ t.op = "terminate" => t.run \in Runs
                                      /\ rows[t.run].status \in Ended

Placed == \A w \in Workers : Good(task[w], row, results)

Exclusive ==
    \A w \in Workers : Launching(task[w]) =>
        \A v \in Workers \ {w} : task[v].run # task[w].run

\* RecordedWorkIsDone, with what makes it inductive.
Backed(i, rows, res) ==
    /\ i.claim.op = "deploy" => /\ i.made \in Runs
                                /\ rows[i.made].status # "none"
                                /\ rows[i.made].owner = i.claim.user
    /\ i.claim.op = "submit" => i.made \in Runs /\ res[i.made] > 0
    /\ i.claim.op = "terminate" => i.made \in Runs
                                   /\ rows[i.made].status \in Ended

RecordsOK == \A i \in idem : Backed(i, row, results)

TicketsOK ==
    \A t \in Tickets :
        /\ entries[t] \in {0, 1}
        /\ ticket[t].status \in {"none", "issued"} => entries[t] = 0
        /\ ticket[t].status = "none" <=> ticket[t].run = NoRun
        /\ ticket[t].run # NoRun => row[ticket[t].run].status # "none"

Owned == \A r \in Runs : row[r].status = "none" => row[r].owner = NoUser

IInv == TypeOK /\ Placed /\ Exclusive /\ Owned /\ RecordsOK /\ TicketsOK
        /\ OneResultPerRun

\* How a step of worker w may change rows and results.
Keeps(w) ==
    /\ \A r \in Runs : row[r].status # "none" =>
          row'[r].status # "none" /\ row'[r].owner = row[r].owner
    /\ \A r \in Runs : row[r].status \in Ended => row'[r] = row[r]
    /\ \A r \in Runs : row[r].status = "none" =>
          row'[r] = row[r] \/ (At(w, "insert") /\ Subject(w) = r)
    /\ \A r \in Runs : results[r] > 0 => results'[r] > 0

LEMMA IdleIsATask == Idle \in Tasks
BY DEF Idle, Tasks, Places, Ops

LEMMA UnchangedKeeps ==
    ASSUME NEW w \in Workers, UNCHANGED <<row, results>>
    PROVE  Keeps(w)
BY DEF Keeps

\* A worker moves to a good task that shares no run it is deploying, and the
\* others stay as good as they were.
LEMMA Moves ==
    ASSUME TypeOK, Placed, Exclusive, NEW w \in Workers, Keeps(w),
           NEW t \in Tasks, task' = [task EXCEPT ![w] = t],
           Good(t, row', results'),
           Launching(t) => \A v \in Workers \ {w} : task[v].run # t.run,
           Undoing(t) => t.run = task[w].run
    PROVE  task' \in [Workers -> Tasks] /\ Placed' /\ Exclusive'
<1>1. task' \in [Workers -> Tasks] /\ task'[w] = t
  BY DEF TypeOK
<1>2. ASSUME NEW v \in Workers, v # w PROVE task'[v] = task[v]
  BY <1>2 DEF TypeOK
<1>3. ASSUME NEW v \in Workers, v # w
      PROVE  Good(task[v], row', results')
  <2>1. task[v] \in Tasks /\ Good(task[v], row, results)
    BY DEF TypeOK, Placed
  <2>2. CASE task[v].at = "idle"
    BY <2>1, <2>2 DEF Good
  <2>3. CASE task[v].at # "idle" /\ Launching(task[v])
    <3>1. /\ task[v].run \in Runs /\ row[task[v].run].status = "none"
          /\ task[v].todo \subseteq Runs
      BY <2>1, <2>3 DEF Good, Launching, Undoing, Tasks
    <3>2. task[v].run # Subject(w)
      BY <1>3, <2>3 DEF Exclusive, Subject
    <3>3. row'[task[v].run] = row[task[v].run]
      BY <3>1, <3>2 DEF Keeps
    <3> QED BY <2>1, <2>3, <3>1, <3>3 DEF Good, Keeps, Launching
  <2>4. CASE task[v].at # "idle" /\ ~Launching(task[v])
    <3>1. task[v].run \in Runs \cup {NoRun} /\ task[v].todo \subseteq Runs
      BY <2>1 DEF Tasks
    <3>2. \A r \in Runs : row[r].status # "none" =>
             row'[r].status # "none" /\ row'[r].owner = row[r].owner
      BY DEF Keeps
    <3>3. \A r \in Runs : row[r].status \in Ended => row'[r].status \in Ended
      BY DEF Keeps
    <3>4. \A r \in Runs : results[r] > 0 => results'[r] > 0
      BY DEF Keeps
    <3> QED BY <2>1, <2>4, <3>1, <3>2, <3>3, <3>4, NoRunIsNotARun
            DEF Good, Launching, Undoing
  <2> QED BY <2>2, <2>3, <2>4
<1>4. Placed'
  BY <1>1, <1>2, <1>3 DEF Placed
<1>5. ASSUME NEW u \in Workers, NEW v \in Workers \ {u},
             Launching(task'[u])
      PROVE  task'[v].run # task'[u].run
  <2>1. CASE u = w
    BY <1>1, <1>2, <1>5, <2>1
  <2>2. CASE u # w /\ v # w
    BY <1>2, <1>5, <2>2 DEF Exclusive
  <2>3. CASE u # w /\ v = w
    <3>1. task'[u] = task[u] /\ Launching(task[u])
      BY <1>2, <1>5, <2>3
    <3>2. CASE Launching(t)
      BY <1>1, <2>3, <3>1, <3>2
    <3>3. CASE ~Launching(t) /\ t.at = "idle"
      <4>1. task[u].run \in Runs
        BY <3>1 DEF Good, Placed, Launching, DeployOnly
      <4> QED BY <1>1, <2>3, <3>1, <3>3, <4>1, NoRunIsNotARun DEF Good
    <3>4. CASE ~Launching(t) /\ Undoing(t)
      BY <1>1, <2>3, <3>1, <3>4 DEF Exclusive
    <3>5. CASE ~Launching(t) /\ ~Undoing(t) /\ t.at # "idle"
      <4>1. task[u].run \in Runs /\ row'[task[u].run].status = "none"
        BY <1>3, <2>3, <3>1 DEF Good, Launching, DeployOnly
      <4>2. t.run # NoRun => row'[t.run].status # "none"
        BY <3>5 DEF Good
      <4> QED BY <1>1, <2>3, <3>1, <4>1, <4>2, NoRunIsNotARun
    <3> QED BY <3>2, <3>3, <3>4, <3>5
  <2> QED BY <2>1, <2>2, <2>3
<1> QED BY <1>1, <1>4, <1>5 DEF Exclusive

LEMMA AskedIsATask ==
    ASSUME NEW p \in Places, NEW op \in Ops, NEW u \in Users \cup {NoUser},
           NEW r \in Runs \cup {NoRun}, NEW k \in Keys \cup {NoKey}
    PROVE  LET t == Asked(p, op, u, r, k)
           IN  /\ t \in Tasks
               /\ t.at = p /\ t.op = op /\ t.user = u /\ t.run = r
               /\ t.key = k /\ t.todo = {}
BY IdleIsATask DEF Asked, Idle, Tasks

LEMMA FinishMoves ==
    ASSUME TypeOK, Placed, Exclusive, NEW w \in Workers, Keeps(w), Finish(w)
    PROVE  task' \in [Workers -> Tasks] /\ Placed' /\ Exclusive'
<1>1. Good(Idle, row', results') /\ ~Launching(Idle) /\ ~Undoing(Idle)
  BY DEF Good, Launching, Undoing, Idle
<1> QED BY <1>1, IdleIsATask, Moves DEF Finish

LEMMA GotoTask ==
    ASSUME TypeOK, NEW w \in Workers, NEW p \in Places
    PROVE  LET t == [task[w] EXCEPT !.at = p]
           IN  /\ t \in Tasks
               /\ t.at = p
               /\ t.op = task[w].op /\ t.user = task[w].user
               /\ t.run = task[w].run /\ t.todo = task[w].todo
               /\ t.verdict = task[w].verdict
               /\ Goto(w, p) => task' = [task EXCEPT ![w] = t]
<1>1. task[w] \in Tasks
  BY DEF TypeOK
<1> QED BY <1>1 DEF Tasks, Goto, TypeOK

\* Requests start workers on runs that have a row, except a deploy, whose run
\* is fresh.
LEMMA RequestMoves ==
    ASSUME TypeOK, Placed, Exclusive, Owned, NEW w \in Workers,
           Learner(w) \/ Administrator(w)
    PROVE  /\ task' \in [Workers -> Tasks] /\ Placed' /\ Exclusive'
           /\ UNCHANGED <<row, results>>
<1>1. CASE \E u \in Users, k \in Keys : Deploy(w, u, k)
  <2>1. PICK u \in Users, k \in Keys, r \in Runs :
             /\ Fresh(r) /\ Start(w, "provision", "deploy", u, r, k)
             /\ UNCHANGED <<row, results>>
    BY <1>1 DEF Deploy
  <2> DEFINE t == Asked("provision", "deploy", u, r, k)
  <2>2. t \in Tasks /\ t.at = "provision" /\ t.op = "deploy" /\ t.user = u
        /\ t.run = r /\ t.todo = {}
    BY AskedIsATask DEF Places, Ops
  <2>3. task' = [task EXCEPT ![w] = t]
    BY <2>1 DEF Start
  <2> HIDE DEF t
  <2>4. row[r].status = "none" /\ \A v \in Workers : task[v].run # r
    BY <2>1 DEF Fresh, Subject
  <2>5. Good(t, row', results') /\ ~Undoing(t)
    BY <2>1, <2>2, <2>4, NoRunIsNotARun
    DEF Good, Launching, Undoing, DeployOnly, NeverDeploy
  <2> QED BY <2>1, <2>2, <2>3, <2>4, <2>5, Moves, UnchangedKeeps
<1>2. ASSUME NEW p \in {"status", "ticket", "grade", "mark", "destroyEnv"},
             NEW op \in {"view", "open", "submit", "terminate"},
             NEW u \in Users \cup {NoUser}, NEW r \in Runs,
             NEW k \in Keys \cup {NoKey},
             p = "grade" <=> op = "submit",
             row[r].status # "none", UNCHANGED <<row, results>>,
             Start(w, p, op, u, r, k)
      PROVE  task' \in [Workers -> Tasks] /\ Placed' /\ Exclusive'
  <2> DEFINE t == Asked(p, op, u, r, k)
  <2>1. t \in Tasks /\ t.at = p /\ t.op = op /\ t.run = r /\ t.todo = {}
    BY <1>2, AskedIsATask DEF Places, Ops
  <2>2. task' = [task EXCEPT ![w] = t]
    BY <1>2 DEF Start
  <2> HIDE DEF t
  <2>3. Good(t, row', results') /\ ~Launching(t) /\ ~Undoing(t)
    BY <1>2, <2>1 DEF Good, Launching, Undoing, DeployOnly, NeverDeploy
  <2> QED BY <1>2, <2>1, <2>2, <2>3, Moves, UnchangedKeeps
<1>3. ASSUME NEW p \in {"list", "record"}, NEW u \in Users, NEW k \in Keys,
             UNCHANGED <<row, results>>, Start(w, p, "suspend", u, NoRun, k)
      PROVE  task' \in [Workers -> Tasks] /\ Placed' /\ Exclusive'
  <2> DEFINE t == Asked(p, "suspend", u, NoRun, k)
  <2>1. t \in Tasks /\ t.at = p /\ t.op = "suspend" /\ t.run = NoRun
        /\ t.todo = {}
    BY <1>3, AskedIsATask DEF Places, Ops
  <2>2. task' = [task EXCEPT ![w] = t]
    BY <1>3 DEF Start
  <2> HIDE DEF t
  <2>3. Good(t, row', results') /\ ~Launching(t) /\ ~Undoing(t)
    BY <1>3, <2>1 DEF Good, Launching, Undoing, DeployOnly, NeverDeploy
  <2> QED BY <1>3, <2>1, <2>2, <2>3, Moves, UnchangedKeeps
<1>4. CASE \E u \in Users, k \in Keys, r \in Runs : Submit(w, u, r, k)
  <2>1. PICK u \in Users, k \in Keys, r \in Runs : Submit(w, u, r, k)
    BY <1>4
  <2>2. row[r].status # "none" /\ UNCHANGED <<row, results>>
        /\ Start(w, "grade", "submit", u, r, k)
    BY <2>1, NoUserIsNotAUser DEF Submit, Owned
  <2> QED BY <1>2, <2>2
<1>5. CASE \E u \in Users, r \in Runs, op \in {"view", "open"} :
              Visit(w, u, r, op)
  <2>1. PICK u \in Users, r \in Runs, op \in {"view", "open"} :
             Visit(w, u, r, op)
    BY <1>5
  <2>2. row[r].status # "none" /\ UNCHANGED <<row, results>>
        /\ \E p \in {"status", "ticket"} : Start(w, p, op, u, r, NoKey)
    BY <2>1 DEF Visit
  <2> QED BY <1>2, <2>2
<1>6. CASE \E r \in Runs, k \in Keys : Terminate(w, r, k)
  <2>1. PICK r \in Runs, k \in Keys : Terminate(w, r, k)
    BY <1>6
  <2>2. row[r].status # "none" /\ UNCHANGED <<row, results>>
        /\ \E p \in {"mark", "destroyEnv"} :
              Start(w, p, "terminate", NoUser, r, k)
    BY <2>1 DEF Terminate
  <2> QED BY <1>2, <2>2
<1>7. CASE \E u \in Users, k \in Keys : Suspend(w, u, k) \/ Reinstate(w, u, k)
  BY <1>3, <1>7 DEF Suspend, Reinstate
<1>8. UNCHANGED <<row, results>>
  BY DEF Learner, Administrator, Deploy, Submit, Visit, Terminate, Suspend,
         Reinstate
<1> QED
  BY <1>1, <1>4, <1>5, <1>6, <1>7, <1>8 DEF Learner, Administrator

-----------------------------------------------------------------------------
(* The rows.                                                               *)

Inserts(w) ==
    /\ At(w, "insert") /\ Subject(w) \in Runs /\ task[w].user \in Users
    /\ row[Subject(w)].status = "none"
    /\ row' = [row EXCEPT ![Subject(w)] =
                  [status |-> "provisioning", owner |-> task[w].user]]

Settles(r) ==
    /\ row[r].status = "provisioning"
    /\ \E s \in Verdicts : row' = [row EXCEPT ![r].status = s]

Ends(r) ==
    /\ row[r].status \in Active \cup {"failed"}
    /\ \E s \in Ended : row' = [row EXCEPT ![r].status = s]

RowStep(w) ==
    \/ Inserts(w)
    \/ \E r \in Runs : Settles(r) \/ Ends(r)
    \/ UNCHANGED row

LEMMA WorkersMakeRowSteps ==
    ASSUME TypeOK, Placed, NEW w \in Workers, WorkerStep(w)
    PROVE  RowStep(w)
<1> DEFINE r == Subject(w)
<1>1. Good(task[w], row, results) /\ task[w] \in Tasks
  BY DEF Placed, TypeOK
<1>2. CASE Insert(w)
  <2>1. r \in Runs /\ task[w].user \in Users /\ row[r].status = "none"
    BY <1>1, <1>2 DEF Insert, At, Good, DeployOnly, Launching, Subject
  <2> QED BY <1>2, <2>1 DEF Insert, WithRow, RowStep, Inserts
<1>3. CASE UpdateReadiness(w)
  <2>1. r \in Runs /\ task[w].verdict \in Verdicts
    BY <1>1, <1>3 DEF UpdateReadiness, At, Good, Subject
  <2>2. row' = [row EXCEPT ![r].status =
                   IF @ = "provisioning" THEN task[w].verdict ELSE @]
    BY <1>3 DEF UpdateReadiness, Settled
  <2>3. row \in [Runs -> Rows]
    BY DEF TypeOK
  <2>4. CASE row[r].status = "provisioning"
    BY <2>1, <2>2, <2>4 DEF RowStep, Settles
  <2>5. CASE row[r].status # "provisioning"
    <3>1. row' = row
      BY <2>1, <2>2, <2>3, <2>5 DEF Rows
    <3> QED BY <3>1 DEF RowStep
  <2> QED BY <2>4, <2>5
<1>4. CASE MarkEnded(w)
  <2> DEFINE s == IF task[w].op = "sweep" THEN "expired" ELSE "stopped"
  <2>1. r \in Runs /\ row[r].status # "none"
    BY <1>1, <1>4, NoRunIsNotARun
    DEF MarkEnded, At, Good, NeverDeploy, DeployOnly, Launching, Undoing,
        Subject
  <2>2. row' = [row EXCEPT ![r].status = IF @ \in Ended THEN @ ELSE s]
    BY <1>4 DEF MarkEnded, EndedBy
  <2>3. row \in [Runs -> Rows] /\ s \in Ended
    BY DEF TypeOK, Ended
  <2> HIDE DEF s
  <2>4. CASE row[r].status \in Ended
    <3>1. row' = row
      BY <2>1, <2>2, <2>3, <2>4 DEF Rows
    <3> QED BY <3>1 DEF RowStep
  <2>5. CASE row[r].status \notin Ended
    <3>1. row[r].status \in Active \cup {"failed"}
      BY <2>1, <2>3, <2>5 DEF Rows, Statuses
    <3> QED BY <2>1, <2>2, <2>3, <2>5, <3>1 DEF RowStep, Ends
  <2> QED BY <2>4, <2>5
<1>5. CASE UNCHANGED row
  BY <1>5 DEF RowStep
<1> QED
  BY <1>2, <1>3, <1>4, <1>5
  DEF WorkerStep, Provision, ProvisionTelemetry, Record, ReadStatus,
      IssueTicket, CheckResult, SaveResult, ListRuns, DestroyEnv,
      DestroyIndex, QueryError

\* What follows from a row step alone.
LEMMA RowStepFacts ==
    ASSUME TypeOK, Owned, NEW w, RowStep(w)
    PROVE  /\ row' \in [Runs -> Rows]
           /\ Owned'
           /\ \A r \in Runs : row[r].status # "none" =>
                 row'[r].status # "none" /\ row'[r].owner = row[r].owner
           /\ \A r \in Runs : row[r].status \in Ended => row'[r] = row[r]
           /\ \A r \in Runs : row[r].status = "none" =>
                 row'[r] = row[r] \/ (At(w, "insert") /\ Subject(w) = r)
<1>1. row \in [Runs -> Rows]
  BY DEF TypeOK
<1>2. CASE Inserts(w)
  BY <1>1, <1>2
  DEF Inserts, Rows, Statuses, Active, Ended, Owned
<1>3. CASE \E r \in Runs : Settles(r) \/ Ends(r)
  <2>1. PICK r \in Runs, s \in Verdicts \cup Ended :
             /\ row' = [row EXCEPT ![r].status = s]
             /\ row[r].status \in Active \cup {"failed"}
    BY <1>3 DEF Settles, Ends, Active
  <2>2. row' \in [Runs -> Rows] /\ row'[r].status = s
        /\ row'[r].owner = row[r].owner
    BY <1>1, <2>1 DEF Rows, Statuses, Verdicts, Ended, Active
  <2>3. \A q \in Runs \ {r} : row'[q] = row[q]
    BY <1>1, <2>1
  <2>4. row[r].status \notin Ended \cup {"none"} /\ s # "none"
    BY <2>1 DEF Ended, Active, Verdicts
  <2> QED BY <2>2, <2>3, <2>4 DEF Owned
<1>4. CASE UNCHANGED row
  BY <1>1, <1>4 DEF Owned
<1> QED BY <1>2, <1>3, <1>4 DEF RowStep

LEMMA ResultFacts ==
    ASSUME TypeOK, Placed, OneResultPerRun, NEW w \in Workers, WorkerStep(w)
    PROVE  /\ results' \in [Runs -> Nat]
           /\ OneResultPerRun'
           /\ \A r \in Runs : results[r] > 0 => results'[r] > 0
<1>1. CASE SaveResult(w)
  <2>1. results \in [Runs -> Nat] /\ Subject(w) \in Runs
    BY <1>1 DEF TypeOK, SaveResult, At, Placed, Good, Subject
  <2> QED
    BY <1>1, <2>1 DEF SaveResult, MayInsertResult, OneResultPerRun
<1>2. CASE UNCHANGED results
  BY <1>2 DEF TypeOK, OneResultPerRun
<1> QED
  BY <1>1, <1>2
  DEF WorkerStep, Provision, ProvisionTelemetry, Insert, Record, ReadStatus,
      UpdateReadiness, IssueTicket, CheckResult, ListRuns, DestroyEnv,
      DestroyIndex, MarkEnded, QueryError

LEMMA WorkersKeep ==
    ASSUME TypeOK, Placed, Owned, OneResultPerRun, NEW w \in Workers,
           WorkerStep(w)
    PROVE  Keeps(w)
BY WorkersMakeRowSteps, RowStepFacts, ResultFacts DEF Keeps

-----------------------------------------------------------------------------
(* The workers.                                                            *)

\* The worker stays with its run and moves on to a place of its activation.
LEMMA GotoMoves ==
    ASSUME TypeOK, Placed, Exclusive, NEW w \in Workers, Keeps(w),
           NEW p \in Places \ {"idle"}, Goto(w, p),
           Good([task[w] EXCEPT !.at = p], row', results'),
           Launching([task[w] EXCEPT !.at = p]) => Launching(task[w])
    PROVE  task' \in [Workers -> Tasks] /\ Placed' /\ Exclusive'
<1> DEFINE t == [task[w] EXCEPT !.at = p]
<1>1. t \in Tasks /\ t.run = task[w].run /\ task' = [task EXCEPT ![w] = t]
  BY GotoTask
<1>2. Good(t, row', results') /\ (Launching(t) => Launching(task[w]))
  OBVIOUS
<1> HIDE DEF t
<1>3. Launching(t) => \A v \in Workers \ {w} : task[v].run # t.run
  BY <1>1, <1>2 DEF Exclusive
<1> QED BY <1>1, <1>2, <1>3, Moves

\* Moving on within a deploy, before its row exists.
LEMMA DeployGoesOn ==
    ASSUME TypeOK, Placed, Exclusive, NEW w \in Workers,
           UNCHANGED <<row, results>>,
           task[w].at \in DeployOnly, task[w].op = "deploy",
           NEW p \in {"telemetry", "insert", "abandonEnv"},
           Goto(w, p)
    PROVE  task' \in [Workers -> Tasks] /\ Placed' /\ Exclusive'
<1> DEFINE t == [task[w] EXCEPT !.at = p]
<1>0. p \in Places \ {"idle"}
  BY DEF Places
<1>1. t \in Tasks /\ t.at = p /\ t.op = task[w].op /\ t.user = task[w].user
      /\ t.run = task[w].run /\ t.todo = task[w].todo
      /\ t.verdict = task[w].verdict
  BY <1>0, GotoTask
<1> HIDE DEF t
<1>2. Good(task[w], row, results) /\ Launching(task[w])
  BY DEF Placed, Launching
<1>3. Good(t, row', results')
  BY <1>1, <1>2 DEF Good, Launching, Undoing, DeployOnly, NeverDeploy
<1> QED BY <1>0, <1>2, <1>3, GotoMoves, UnchangedKeeps DEF t

\* Undoing a deploy whose insert threw.
LEMMA DeployIsUndone ==
    ASSUME TypeOK, Placed, Exclusive, NEW w \in Workers, Keeps(w),
           task[w].at \in {"insert", "destroyEnv"}, task[w].op = "deploy",
           NEW p \in {"destroyEnv", "destroyIndex"},
           Goto(w, p)
    PROVE  task' \in [Workers -> Tasks] /\ Placed' /\ Exclusive'
<1> DEFINE t == [task[w] EXCEPT !.at = p]
<1>0. p \in Places \ {"idle"}
  BY DEF Places
<1>1. t \in Tasks /\ t.at = p /\ t.op = task[w].op /\ t.user = task[w].user
      /\ t.run = task[w].run /\ t.todo = task[w].todo
  BY <1>0, GotoTask
<1> HIDE DEF t
<1>2. Good(task[w], row, results) /\ task[w] \in Tasks
  BY DEF Placed, TypeOK
<1>3. \A r \in t.todo : row'[r].status # "none"
  BY <1>1, <1>2 DEF Good, Keeps, Tasks
<1>4. Good(t, row', results') /\ ~Launching(t)
  BY <1>1, <1>2, <1>3 DEF Good, Launching, Undoing, DeployOnly, NeverDeploy
<1> QED BY <1>0, <1>4, GotoMoves DEF t

\* Moving on about a run that has a row.
LEMMA OthersGoOn ==
    ASSUME TypeOK, Placed, Exclusive, NEW w \in Workers, Keeps(w),
           task[w].op # "deploy",
           task[w].at \notin {"idle", "list", "record"},
           NEW p \in {"ticket", "result", "destroyIndex", "mark"},
           Goto(w, p),
           p = "result" => task[w].op = "submit",
           p \in {"destroyIndex", "mark"} => task[w].op # "submit"
    PROVE  task' \in [Workers -> Tasks] /\ Placed' /\ Exclusive'
<1> DEFINE t == [task[w] EXCEPT !.at = p]
<1>0. p \in Places \ {"idle"}
  BY DEF Places
<1>1. t \in Tasks /\ t.at = p /\ t.op = task[w].op /\ t.user = task[w].user
      /\ t.run = task[w].run /\ t.todo = task[w].todo
      /\ t.verdict = task[w].verdict
  BY <1>0, GotoTask
<1> HIDE DEF t
<1>2. Good(task[w], row, results) /\ task[w] \in Tasks
  BY DEF Placed, TypeOK
<1>3. task[w].run \in Runs /\ row[task[w].run].status # "none"
      /\ \A r \in task[w].todo : r \in Runs /\ row[r].status # "none"
  BY <1>2, NoRunIsNotARun DEF Good, Launching, Undoing, Tasks
<1>4. row'[t.run].status # "none" /\ \A r \in t.todo : row'[r].status # "none"
  BY <1>1, <1>3 DEF Keeps
<1>5. Good(t, row', results') /\ ~Launching(t) /\ ~Undoing(t)
  BY <1>1, <1>3, <1>4 DEF Good, Launching, Undoing, DeployOnly, NeverDeploy
<1> QED BY <1>0, <1>5, GotoMoves DEF t

\* The loop of a suspension or a sweep goes on.
LEMMA LoopMoves ==
    ASSUME TypeOK, Placed, Exclusive, NEW w \in Workers, Keeps(w),
           task[w].op \notin {"deploy", "submit", "terminate"},
           NEW todo \in SUBSET Runs,
           \A r \in todo : row'[r].status # "none",
           \E t \in NextTasks(w, todo) : task' = [task EXCEPT ![w] = t]
    PROVE  task' \in [Workers -> Tasks] /\ Placed' /\ Exclusive'
<1>1. task[w] \in Tasks
  BY DEF TypeOK
<1>2. CASE todo # {}
  <2>1. PICK r \in todo : task' =
            [task EXCEPT ![w] = [task[w] EXCEPT !.at = "destroyEnv",
                                    !.run = r, !.todo = todo \ {r}]]
    BY <1>2 DEF NextTasks
  <2> DEFINE rest == todo \ {r}
             t == [task[w] EXCEPT !.at = "destroyEnv", !.run = r,
                                  !.todo = rest]
  <2>2. rest \in SUBSET Runs /\ r \in Runs /\ rest \subseteq todo
    OBVIOUS
  <2>3. task' = [task EXCEPT ![w] = t]
    BY <2>1
  <2> HIDE DEF rest
  <2>4. t \in Tasks /\ t.at = "destroyEnv" /\ t.op = task[w].op /\ t.run = r
        /\ t.todo = rest
    BY <1>1, <2>2 DEF Tasks, Places
  <2> HIDE DEF t
  <2>5. Good(t, row', results') /\ ~Launching(t) /\ ~Undoing(t)
    BY <2>2, <2>4 DEF Good, Launching, Undoing, DeployOnly, NeverDeploy
  <2> QED BY <2>3, <2>4, <2>5, Moves
<1>3. CASE todo = {} /\ task[w].op = "suspend"
  <2> DEFINE t == [task[w] EXCEPT !.at = "record", !.run = NoRun, !.todo = {}]
  <2>1. task' = [task EXCEPT ![w] = t]
    BY <1>3 DEF NextTasks
  <2>2. t \in Tasks /\ t.at = "record" /\ t.op = "suspend" /\ t.run = NoRun
        /\ t.todo = {}
    BY <1>1, <1>3 DEF Tasks, Places
  <2> HIDE DEF t
  <2>3. Good(t, row', results') /\ ~Launching(t) /\ ~Undoing(t)
    BY <2>2 DEF Good, Launching, Undoing, DeployOnly, NeverDeploy
  <2> QED BY <2>1, <2>2, <2>3, Moves
<1>4. CASE todo = {} /\ task[w].op # "suspend"
  BY <1>4, FinishMoves DEF NextTasks, Finish
<1> QED BY <1>2, <1>3, <1>4

\* Every step of a worker leaves all workers well placed.
LEMMA WorkersStayPlaced ==
    ASSUME TypeOK, Placed, Exclusive, Owned, OneResultPerRun,
           NEW w \in Workers, WorkerStep(w)
    PROVE  task' \in [Workers -> Tasks] /\ Placed' /\ Exclusive'
<1> DEFINE r == Subject(w)
<1>1. Keeps(w)
  BY WorkersKeep
<1>2. Good(task[w], row, results) /\ task[w] \in Tasks
  BY DEF Placed, TypeOK
<1>3. CASE Finish(w)
  BY <1>1, <1>3, FinishMoves
<1>4. CASE Provision(w)
  <2>1. task[w].at \in DeployOnly /\ task[w].op = "deploy"
        /\ UNCHANGED <<row, results>>
    BY <1>2, <1>4 DEF Provision, At, Good, DeployOnly
  <2>2. \/ Finish(w)
        \/ \E p \in {"insert", "telemetry", "abandonEnv"} : Goto(w, p)
    BY <1>4 DEF Provision
  <2> QED BY <1>3, <2>1, <2>2, DeployGoesOn
<1>5. CASE ProvisionTelemetry(w)
  <2>1. task[w].at \in DeployOnly /\ task[w].op = "deploy"
        /\ UNCHANGED <<row, results>>
    BY <1>2, <1>5 DEF ProvisionTelemetry, At, Good, DeployOnly
  <2>2. \E p \in {"insert", "abandonEnv"} : Goto(w, p)
    BY <1>5 DEF ProvisionTelemetry
  <2> QED BY <2>1, <2>2, DeployGoesOn
<1>6. CASE Insert(w)
  <2>1. task[w].at \in DeployOnly /\ task[w].op = "deploy" /\ UNCHANGED results
    BY <1>2, <1>6 DEF Insert, At, Good, DeployOnly
  <2>2. CASE Goto(w, "destroyEnv")
    BY <1>1, <1>6, <2>1, <2>2, DeployIsUndone DEF Insert, At
  <2>3. CASE Goto(w, "record")
             /\ row' = [row EXCEPT ![r] = [status |-> "provisioning",
                                           owner |-> task[w].user]]
    <3> DEFINE t == [task[w] EXCEPT !.at = "record"]
    <3>0. "record" \in Places \ {"idle"}
      BY DEF Places
    <3>1. t \in Tasks /\ t.at = "record" /\ t.op = task[w].op
          /\ t.user = task[w].user /\ t.run = task[w].run
          /\ t.todo = task[w].todo
      BY <3>0, GotoTask
    <3>2. t.run \in Runs /\ t.user \in Users /\ t.todo \subseteq Runs
          /\ \A q \in t.todo : row[q].status # "none"
      BY <1>2, <2>1, <3>1 DEF Good, DeployOnly, Tasks
    <3>3. row'[t.run].status = "provisioning" /\ row'[t.run].owner = t.user
      BY <2>3, <3>1, <3>2 DEF TypeOK, Subject
    <3>4. \A q \in t.todo : row'[q].status # "none"
      BY <1>1, <3>2 DEF Keeps
    <3> HIDE DEF t
    <3>5. Good(t, row', results') /\ ~Launching(t) /\ ~Undoing(t)
      BY <2>1, <3>1, <3>2, <3>3, <3>4
      DEF Good, Launching, Undoing, DeployOnly, NeverDeploy
    <3> QED BY <1>1, <2>3, <3>0, <3>5, GotoMoves DEF t
  <2> QED BY <1>6, <2>2, <2>3 DEF Insert, WithRow
<1>7. CASE Record(w) \/ IssueTicket(w) \/ QueryError(w)
  BY <1>3, <1>7 DEF Record, IssueTicket, QueryError
<1>8. CASE ReadStatus(w) /\ ~Finish(w)
  <2> DEFINE v == Verdict(r)
             t == [task[w] EXCEPT !.at = "update", !.verdict = v]
  <2>1. task' = [task EXCEPT ![w] = t] /\ UNCHANGED <<row, results>>
        /\ At(w, "status")
    BY <1>8 DEF ReadStatus, TypeOK
  <2>2. v \in Verdicts
    BY DEF Verdict, Verdicts
  <2> HIDE DEF v
  <2>3. t \in Tasks /\ t.at = "update" /\ t.op = task[w].op
        /\ t.run = task[w].run /\ t.todo = task[w].todo /\ t.verdict = v
    BY <1>2, <2>2 DEF Tasks, Places
  <2> HIDE DEF t
  <2>4. Good(t, row', results') /\ ~Launching(t) /\ ~Undoing(t)
    BY <1>2, <2>1, <2>2, <2>3
    DEF Good, Launching, Undoing, DeployOnly, NeverDeploy, At
  <2> QED BY <1>1, <2>1, <2>3, <2>4, Moves
<1>9. CASE UpdateReadiness(w)
  <2>1. task[w].op # "deploy" /\ task[w].at = "update"
    BY <1>2, <1>9 DEF UpdateReadiness, At, Good, NeverDeploy
  <2>2. Finish(w) \/ Goto(w, "ticket")
    BY <1>9 DEF UpdateReadiness
  <2> QED BY <1>1, <1>3, <2>1, <2>2, OthersGoOn
<1>10. CASE CheckResult(w)
  <2>1. task[w].op = "submit" /\ task[w].at = "grade"
    BY <1>2, <1>10 DEF CheckResult, At, Good
  <2>2. Finish(w) \/ Goto(w, "result")
    BY <1>10 DEF CheckResult
  <2> QED BY <1>1, <1>3, <2>1, <2>2, OthersGoOn
<1>11. CASE SaveResult(w) /\ ~Finish(w)
  <2> DEFINE t == [task[w] EXCEPT !.at = "record"]
  <2>1. task[w].op = "submit" /\ task[w].at = "result"
        /\ task[w].run \in Runs /\ UNCHANGED row /\ Goto(w, "record")
        /\ results' = [results EXCEPT ![r] = @ + 1]
    BY <1>2, <1>11 DEF SaveResult, At, Good
  <2>2. "record" \in Places \ {"idle"}
    BY DEF Places
  <2>3. t \in Tasks /\ t.at = "record" /\ t.op = task[w].op
        /\ t.run = task[w].run /\ t.todo = task[w].todo
    BY <2>2, GotoTask
  <2>4. results'[t.run] > 0
    BY <2>1, <2>3 DEF TypeOK, Subject
  <2> HIDE DEF t
  <2>5. Good(t, row', results') /\ ~Launching(t) /\ ~Undoing(t)
    BY <1>2, <2>1, <2>3, <2>4
    DEF Good, Launching, Undoing, DeployOnly, NeverDeploy
  <2> QED BY <1>1, <2>1, <2>2, <2>5, GotoMoves DEF t
<1>12. CASE ListRuns(w)
  <2> DEFINE todo == {q \in Runs : /\ row[q].owner = task[w].user
                                   /\ row[q].status \in Active}
  <2>1. /\ UNCHANGED <<row, results>> /\ task[w].op \notin {"deploy"}
        /\ At(w, "list")
        /\ \E t \in NextTasks(w, todo) : task' = [task EXCEPT ![w] = t]
    BY <1>2, <1>12 DEF ListRuns, At, Good, NeverDeploy
  <2>2. todo \in SUBSET Runs /\ \A q \in todo : row'[q].status # "none"
    BY <2>1 DEF Active
  <2>3. task[w].op \notin {"submit", "terminate"}
    BY <1>2, <2>1 DEF Good, At
  <2> HIDE DEF todo
  <2> QED BY <1>1, <2>1, <2>2, <2>3, LoopMoves
<1>13. CASE DestroyEnv(w)
  <2>1. UNCHANGED <<row, results>>
        /\ \/ Finish(w)
           \/ At(w, "destroyEnv") /\ Goto(w, "destroyIndex")
    BY <1>13 DEF DestroyEnv, At
  <2>2. CASE At(w, "destroyEnv") /\ Goto(w, "destroyIndex")
    <3>1. CASE task[w].op = "deploy"
      BY <1>1, <2>2, <3>1, DeployIsUndone DEF At
    <3>2. CASE task[w].op # "deploy"
      <4>1. task[w].op # "submit" /\ task[w].at = "destroyEnv"
        BY <1>2, <2>2 DEF Good, At
      <4> QED BY <1>1, <2>2, <3>2, <4>1, OthersGoOn
    <3> QED BY <3>1, <3>2
  <2> QED BY <1>3, <2>1, <2>2
<1>14. CASE DestroyIndex(w)
  <2>1. \/ Finish(w)
        \/ task[w].op # "deploy" /\ Goto(w, "mark")
    BY <1>14 DEF DestroyIndex
  <2>2. task[w].op # "submit" /\ task[w].at = "destroyIndex"
    BY <1>2, <1>14 DEF Good, At, DestroyIndex
  <2> QED BY <1>1, <1>3, <2>1, <2>2, OthersGoOn
<1>15. CASE MarkEnded(w) /\ ~Finish(w) /\ task[w].op = "terminate"
  <2> DEFINE t == [task[w] EXCEPT !.at = "record"]
  <2>1. task[w].at = "mark" /\ task[w].run \in Runs /\ Goto(w, "record")
        /\ row' = EndedBy(w)
    BY <1>2, <1>15 DEF MarkEnded, At, Good
  <2>2. "record" \in Places \ {"idle"}
    BY DEF Places
  <2>3. t \in Tasks /\ t.at = "record" /\ t.op = "terminate"
        /\ t.run = task[w].run /\ t.todo = task[w].todo
    BY <1>15, <2>2, GotoTask
  <2>4. row'[t.run].status \in Ended
    BY <1>15, <2>1, <2>3 DEF TypeOK, EndedBy, Ended, Subject
  <2>5. \A q \in t.todo : row'[q].status # "none"
    BY <1>1, <1>2, <2>1, <2>3 DEF Keeps, Good, Tasks
  <2> HIDE DEF t
  <2>6. Good(t, row', results') /\ ~Launching(t) /\ ~Undoing(t)
    BY <2>1, <2>3, <2>4, <2>5
    DEF Good, Launching, Undoing, DeployOnly, NeverDeploy, Ended
  <2> QED BY <1>1, <2>1, <2>2, <2>6, GotoMoves DEF t
<1>16. CASE MarkEnded(w) /\ ~Finish(w) /\ task[w].op # "terminate"
  <2>1. /\ task[w].op \notin {"deploy", "submit", "terminate"}
        /\ task[w].todo \in SUBSET Runs
        /\ \A q \in task[w].todo : row[q].status # "none"
        /\ \E t \in NextTasks(w, task[w].todo) : task' = [task EXCEPT ![w] = t]
    BY <1>2, <1>16 DEF MarkEnded, At, Good, NeverDeploy, Tasks
  <2>2. \A q \in task[w].todo : row'[q].status # "none"
    BY <1>1, <2>1 DEF Keeps
  <2> QED BY <1>1, <2>1, <2>2, LoopMoves
<1> QED
  BY <1>3, <1>4, <1>5, <1>6, <1>7, <1>8, <1>9, <1>10, <1>11, <1>12, <1>13,
     <1>14, <1>15, <1>16
  DEF WorkerStep
-----------------------------------------------------------------------------
(* The invariant.                                                          *)

LEMMA SweepMoves ==
    ASSUME TypeOK, Placed, Exclusive, NEW w \in Workers, Sweep(w)
    PROVE  task' \in [Workers -> Tasks] /\ Placed' /\ Exclusive'
<1> DEFINE due == {q \in overdue : row[q].status \in Active}
<1>1. PICK r \in due : task' =
          [task EXCEPT ![w] = [Idle EXCEPT !.at = "destroyEnv", !.op = "sweep",
                                           !.run = r, !.todo = due \ {r}]]
  BY DEF Sweep
<1>2. due \subseteq Runs /\ \A q \in due : row[q].status # "none"
  BY DEF TypeOK, Active
<1> HIDE DEF due
<1> DEFINE rest == due \ {r}
           t == [Idle EXCEPT !.at = "destroyEnv", !.op = "sweep", !.run = r,
                             !.todo = rest]
<1>3. rest \in SUBSET Runs /\ rest \subseteq due /\ r \in Runs
  BY <1>2
<1>4. task' = [task EXCEPT ![w] = t]
  BY <1>1
<1> HIDE DEF rest
<1>5. t \in Tasks /\ t.at = "destroyEnv" /\ t.op = "sweep" /\ t.run = r
      /\ t.todo = rest
  BY <1>3, IdleIsATask DEF Idle, Tasks, Places, Ops
<1> HIDE DEF t
<1>6. UNCHANGED <<row, results>>
  BY DEF Sweep
<1>7. Good(t, row', results') /\ ~Launching(t) /\ ~Undoing(t)
  BY <1>2, <1>3, <1>5, <1>6 DEF Good, Launching, Undoing, DeployOnly, NeverDeploy
<1> QED BY <1>4, <1>5, <1>6, <1>7, Moves, UnchangedKeeps

\* Whatever the step, rows and results go forward as one worker's step could
\* make them go, and the workers stay well placed.
LEMMA StepsMove ==
    ASSUME TypeOK, Placed, Exclusive, Owned, OneResultPerRun, Next
    PROVE  /\ \E w : RowStep(w)
           /\ results' \in [Runs -> Nat] /\ OneResultPerRun'
           /\ \A r \in Runs : results[r] > 0 => results'[r] > 0
           /\ task' \in [Workers -> Tasks] /\ Placed' /\ Exclusive'
<1>1. ASSUME NEW w \in Handlers, Learner(w) \/ Administrator(w)
      PROVE  /\ UNCHANGED <<row, results>>
             /\ task' \in [Workers -> Tasks] /\ Placed' /\ Exclusive'
  BY <1>1, RequestMoves DEF Workers
<1>2. ASSUME NEW w \in Sweeps, Sweep(w)
      PROVE  /\ UNCHANGED <<row, results>>
             /\ task' \in [Workers -> Tasks] /\ Placed' /\ Exclusive'
  BY <1>2, SweepMoves DEF Workers, Sweep
<1>3. ASSUME NEW w \in Workers, WorkerStep(w)
      PROVE  /\ RowStep(w)
             /\ results' \in [Runs -> Nat] /\ OneResultPerRun'
             /\ \A r \in Runs : results[r] > 0 => results'[r] > 0
             /\ task' \in [Workers -> Tasks] /\ Placed' /\ Exclusive'
  BY <1>3, WorkersMakeRowSteps, ResultFacts, WorkersStayPlaced
<1>4. CASE Environment
  <2>1. UNCHANGED <<row, results, task>>
    BY <1>4
    DEF Environment, EnvStep, RunExpires, Exchange, TicketLapses
  <2> QED
    BY <2>1 DEF RowStep, TypeOK, OneResultPerRun, Placed, Exclusive
<1>5. CASE Crash
  <2>1. UNCHANGED <<row, results>> /\ task' = [w \in Workers |-> Idle]
    BY <1>5 DEF Crash
  <2>2. Good(Idle, row', results') /\ ~Launching(Idle) /\ ~Undoing(Idle)
    BY DEF Good, Launching, Undoing, Idle
  <2> QED
    BY <2>1, <2>2, IdleIsATask
    DEF RowStep, TypeOK, OneResultPerRun, Placed, Exclusive
<1>6. UNCHANGED <<row, results>> =>
          /\ \E w : RowStep(w)
          /\ results' \in [Runs -> Nat] /\ OneResultPerRun'
          /\ \A r \in Runs : results[r] > 0 => results'[r] > 0
  BY DEF RowStep, TypeOK, OneResultPerRun
<1> QED BY <1>1, <1>2, <1>3, <1>4, <1>5, <1>6 DEF Next

\* What a step may do to rows and results, whoever makes it.
LEMMA RowsGoForward ==
    ASSUME TypeOK, Placed, Exclusive, Owned, OneResultPerRun, Next
    PROVE  /\ row' \in [Runs -> Rows] /\ Owned'
           /\ \A r \in Runs : row[r].status # "none" =>
                 row'[r].status # "none" /\ row'[r].owner = row[r].owner
           /\ \A r \in Runs : row[r].status \in Ended => row'[r] = row[r]
           /\ \A r \in Runs : results[r] > 0 => results'[r] > 0
BY StepsMove, RowStepFacts

LEMMA ClaimIsTyped ==
    ASSUME NEW t \in Tasks
    PROVE  ClaimOf(t) \in Claims /\ ClaimOf(t).op = t.op
           /\ ClaimOf(t).user = t.user
BY DEF Tasks, ClaimOf, Claims

\* Records are kept, and a new one is of a task whose work is done.
LEMMA RecordsStay ==
    ASSUME IInv, Next
    PROVE  RecordsOK' /\ idem' \subseteq [claim : Claims,
                                          made : Runs \cup {NoRun}]
<1>1. ASSUME NEW i, Backed(i, row, results)
      PROVE  Backed(i, row', results')
  BY <1>1, RowsGoForward DEF Backed, IInv
<1>2. CASE \E w \in Workers : Record(w)
  <2>1. PICK w \in Workers : Record(w)
    BY <1>2
  <2> DEFINE c == ClaimOf(task[w])
             i == [claim |-> c, made |-> Subject(w)]
  <2>2. task[w] \in Tasks /\ Good(task[w], row, results) /\ At(w, "record")
    BY <2>1 DEF IInv, TypeOK, Placed, Record
  <2>3. c \in Claims /\ c.op = task[w].op /\ c.user = task[w].user
    BY <2>2, ClaimIsTyped
  <2>4. idem' \subseteq idem \cup {i}
    BY <2>1 DEF Record
  <2>5. Subject(w) = task[w].run /\ task[w].run \in Runs \cup {NoRun}
    BY <2>2 DEF Subject, Tasks
  <2> HIDE DEF c
  <2>6. /\ i \in [claim : Claims, made : Runs \cup {NoRun}]
        /\ i.claim = c /\ i.made = task[w].run
    BY <2>3, <2>5
  <2> HIDE DEF i
  <2>7. Backed(i, row, results)
    <3>1. task[w].op = "deploy" => row[task[w].run].status # "none"
      BY <2>2, NoRunIsNotARun DEF Good, Launching, Undoing, DeployOnly, At
    <3> QED BY <2>2, <2>3, <2>6, <3>1 DEF Backed, Good, At
  <2> QED BY <1>1, <2>4, <2>6, <2>7 DEF IInv, RecordsOK, TypeOK
<1>3. CASE UNCHANGED idem
  BY <1>1, <1>3 DEF IInv, RecordsOK, TypeOK
<1>4. (\E w \in Workers : Record(w)) \/ UNCHANGED idem
  BY DEF Next, Learner, Administrator, Deploy, Submit, Visit, Suspend,
         Reinstate, Terminate, Sweep, WorkerStep, Provision,
         ProvisionTelemetry, Insert, ReadStatus, UpdateReadiness,
         IssueTicket, CheckResult, SaveResult, ListRuns, DestroyEnv,
         DestroyIndex, MarkEnded, QueryError, Environment, EnvStep,
         RunExpires, Exchange, TicketLapses, Crash
<1> QED BY <1>2, <1>3, <1>4

\* A ticket is issued for a run with a row, and enters once.
LEMMA TicketsStay ==
    ASSUME IInv, Next
    PROVE  /\ TicketsOK' /\ ticket' \in [Tickets -> TicketRows]
           /\ entries' \in [Tickets -> Nat]
<1>0. /\ ticket \in [Tickets -> TicketRows] /\ entries \in [Tickets -> Nat]
      /\ TicketsOK
  BY DEF IInv, TypeOK
<1>1. \A r \in Runs : row[r].status # "none" => row'[r].status # "none"
  BY RowsGoForward DEF IInv
<1>2. CASE \E w \in Workers : IssueTicket(w)
  <2>1. PICK w \in Workers : IssueTicket(w)
    BY <1>2
  <2>2. Good(task[w], row, results) /\ task[w] \in Tasks /\ At(w, "ticket")
    BY <2>1 DEF IInv, Placed, TypeOK, IssueTicket
  <2>3. Subject(w) \in Runs /\ row[Subject(w)].status # "none"
    BY <2>2, NoRunIsNotARun DEF Good, Launching, Undoing, NeverDeploy, At, Subject
  <2>4. PICK t \in Tickets :
            /\ ticket[t].status = "none"
            /\ ticket' = [ticket EXCEPT
                            ![t] = [status |-> "issued", run |-> Subject(w),
                                    user |-> task[w].user]]
            /\ UNCHANGED <<entries, row>>
    BY <2>1 DEF IssueTicket
  <2>5. task[w].user \in Users \cup {NoUser}
    BY <2>2 DEF Tasks
  <2>6. ticket' \in [Tickets -> TicketRows]
    BY <1>0, <2>3, <2>4, <2>5 DEF TicketRows
  <2> QED
    BY <1>0, <2>3, <2>4, <2>6, NoRunIsNotARun DEF TicketsOK
<1>3. CASE \E t \in Tickets : Exchange(t)
  <2>1. PICK t \in Tickets :
            /\ ticket[t].status = "issued"
            /\ ticket' = [ticket EXCEPT ![t].status = "consumed"]
            /\ entries' = [entries EXCEPT ![t] = @ + 1]
            /\ UNCHANGED row
    BY <1>3 DEF Exchange, Admits
  <2>2. ticket' \in [Tickets -> TicketRows] /\ entries' \in [Tickets -> Nat]
    BY <1>0, <2>1 DEF TicketRows
  <2> QED BY <1>0, <2>1, <2>2 DEF TicketsOK, TicketRows
<1>4. CASE \E t \in Tickets : TicketLapses(t)
  <2>1. PICK t \in Tickets :
            /\ ticket[t].status = "issued"
            /\ ticket' = [ticket EXCEPT ![t].status = "lapsed"]
            /\ UNCHANGED <<entries, row>>
    BY <1>4 DEF TicketLapses
  <2>2. ticket' \in [Tickets -> TicketRows]
    BY <1>0, <2>1 DEF TicketRows
  <2> QED BY <1>0, <2>1, <2>2 DEF TicketsOK, TicketRows
<1>5. CASE UNCHANGED <<ticket, entries>>
  <2>1. \A t \in Tickets : ticket[t].run \in Runs \cup {NoRun}
    BY <1>0 DEF TicketRows
  <2> QED BY <1>0, <1>1, <1>5, <2>1 DEF TicketsOK
<1>6. ASSUME NEW w \in Workers,
             Learner(w) \/ Administrator(w) \/ Sweep(w) \/ WorkerStep(w)
      PROVE  IssueTicket(w) \/ UNCHANGED <<ticket, entries>>
  <2>1. CASE Learner(w) \/ Administrator(w) \/ Sweep(w)
    BY <2>1
    DEF Learner, Administrator, Deploy, Submit, Visit, Suspend, Reinstate,
        Terminate, Sweep, access
  <2>2. CASE WorkerStep(w)
    BY <2>2
    DEF WorkerStep, Provision, ProvisionTelemetry, Insert, Record,
        ReadStatus, UpdateReadiness, CheckResult, SaveResult, ListRuns,
        DestroyEnv, DestroyIndex, MarkEnded, QueryError, access
  <2> QED BY <1>6, <2>1, <2>2
<1>7. ASSUME Environment \/ Crash
      PROVE  \/ \E t \in Tickets : Exchange(t) \/ TicketLapses(t)
             \/ UNCHANGED <<ticket, entries>>
  BY <1>7 DEF Environment, EnvStep, RunExpires, Crash, access
<1> QED
  BY <1>2, <1>3, <1>4, <1>5, <1>6, <1>7 DEF Next, Workers

\* The control plane, the clock and the suspensions keep their shape.
LEMMA SurroundingsStayTyped ==
    ASSUME TypeOK, Placed, Next
    PROVE  /\ env' \in [Runs -> {"absent", "booting", "up", "broken"}]
           /\ index' \subseteq Runs /\ overdue' \subseteq Runs
           /\ disabled' \subseteq Users /\ crashes' \in 0..MaxCrashes
<1>0. /\ env \in [Runs -> {"absent", "booting", "up", "broken"}]
      /\ index \subseteq Runs /\ overdue \subseteq Runs
      /\ disabled \subseteq Users /\ crashes \in 0..MaxCrashes
  BY DEF TypeOK
<1>1. ASSUME NEW w \in Handlers, Learner(w) \/ Administrator(w)
      PROVE  disabled' \subseteq Users /\ UNCHANGED <<remote, crashes>>
  BY <1>0, <1>1
  DEF Learner, Administrator, Deploy, Submit, Visit, Terminate, Suspend,
      Reinstate
<1>2. ASSUME NEW w \in Sweeps, Sweep(w)
      PROVE  UNCHANGED <<remote, disabled, crashes>>
  BY <1>2 DEF Sweep
<1>3. ASSUME NEW w \in Workers, WorkerStep(w)
      PROVE  /\ env' \in [Runs -> {"absent", "booting", "up", "broken"}]
             /\ index' \subseteq Runs /\ UNCHANGED <<overdue, disabled, crashes>>
  <2>1. CASE Provision(w) \/ DestroyEnv(w)
    BY <1>0, <2>1 DEF Provision, DestroyEnv
  <2>2. CASE ProvisionTelemetry(w)
    <3>1. Subject(w) \in Runs
      BY <2>2 DEF ProvisionTelemetry, At, Placed, Good, Subject
    <3> QED BY <1>0, <2>2, <3>1 DEF ProvisionTelemetry
  <2>3. CASE DestroyIndex(w)
    BY <1>0, <2>3 DEF DestroyIndex
  <2>4. CASE UNCHANGED <<remote, disabled, crashes>>
    BY <1>0, <2>4 DEF remote
  <2> QED
    BY <1>3, <2>1, <2>2, <2>3, <2>4
    DEF WorkerStep, Insert, Record, ReadStatus, UpdateReadiness, IssueTicket,
        CheckResult, SaveResult, ListRuns, MarkEnded, QueryError, remote
<1>4. CASE Environment
  BY <1>0, <1>4
  DEF Environment, EnvStep, RunExpires, Exchange, TicketLapses, remote
<1>5. CASE Crash
  BY <1>0, <1>5, CrashBound DEF Crash, remote
<1> QED BY <1>0, <1>1, <1>2, <1>3, <1>4, <1>5 DEF Next, remote

LEMMA Initially == Init => IInv
<1> SUFFICES ASSUME Init PROVE IInv
  OBVIOUS
<1>1. TypeOK
  BY IdleIsATask, CrashBound
  DEF Init, TypeOK, Rows, TicketRows, Statuses
<1>2. Good(Idle, row, results) /\ ~Launching(Idle) /\ ~Undoing(Idle)
  BY DEF Good, Launching, Undoing, Idle
<1>3. Placed /\ Exclusive
  BY <1>2 DEF Init, Placed, Exclusive
<1>4. Owned /\ RecordsOK /\ TicketsOK /\ OneResultPerRun
  BY DEF Init, Owned, RecordsOK, TicketsOK, OneResultPerRun
<1> QED BY <1>1, <1>3, <1>4 DEF IInv

LEMMA Inductive == IInv /\ [Next]_vars => IInv'
<1> SUFFICES ASSUME IInv, [Next]_vars PROVE IInv'
  OBVIOUS
<1>1. CASE Next
  <2>1. TypeOK'
    BY <1>1, StepsMove, RowsGoForward, RecordsStay, TicketsStay,
       SurroundingsStayTyped
    DEF IInv, TypeOK
  <2> QED
    BY <1>1, <2>1, StepsMove, RowsGoForward, RecordsStay, TicketsStay
    DEF IInv
<1>2. CASE UNCHANGED vars
  BY <1>2
  DEF vars, remote, access, IInv, TypeOK, Placed, Exclusive, Owned,
      RecordsOK, TicketsOK, OneResultPerRun, Launching, At, Subject
<1> QED BY <1>1, <1>2

-----------------------------------------------------------------------------
(* The theorems.                                                           *)

\* Requests, sweeps, gateways, the runtime and restarts keep the shape of
\* every variable.
THEOREM TypeCorrect == Spec => []TypeOK
<1>1. IInv => TypeOK
  BY DEF IInv
<1> QED BY Initially, Inductive, <1>1, PTL DEF Spec

\* The invariant behind the others.
THEOREM Invariant == Spec => []IInv
BY Initially, Inductive, PTL DEF Spec

\* consumeAccessTicket: a ticket opens at most one session, however often
\* gateways present it.
THEOREM TicketAdmitsOnce == Spec => []OneEntryPerTicket
<1>1. IInv => OneEntryPerTicket
  BY DEF IInv, TicketsOK, OneEntryPerTicket
<1> QED BY Invariant, <1>1, PTL

\* saveChallengeResult: however many submissions of a run overlap or are
\* retried, one is graded.
THEOREM RunIsGradedOnce == Spec => []OneResultPerRun
<1>1. IInv => OneResultPerRun
  BY DEF IInv
<1> QED BY Invariant, <1>1, PTL

\* saveIdempotencyRecord: a stored reply reports only what has happened and
\* has not been undone since.
THEOREM RepliesAreBacked == Spec => []RecordedWorkIsDone
<1>1. IInv => RecordedWorkIsDone
  BY DEF IInv, RecordsOK, Backed, RecordedWorkIsDone
<1> QED BY Invariant, <1>1, PTL

\* markRunExpired, markRunStopped and updateRunReadiness: no answer that
\* arrives late reopens or relabels a run that has ended.
THEOREM EndIsFinal == Spec => EndedIsFinal
<1>1. IInv /\ [Next]_vars =>
          [\A r \in Runs : row[r].status \in Ended => row'[r] = row[r]]_vars
  BY RowsGoForward DEF IInv
<1> QED BY Invariant, <1>1, PTL DEF Spec, EndedIsFinal

\* The lifecycle implements what learners and gateways are promised: every
\* step of a request, a timer, a gateway or the runtime is one step of
\* RunContract or none.
THEOREM LifecycleImplementsContract == Spec => ImplementsContract
<1> DEFINE phase == [r \in Runs |-> row[r].status]
           tied == [t \in Tickets |-> ticket[t].run]
<1>1. Init => Contract!Init
  BY DEF Init, Contract!Init
<1>2. IInv /\ IInv' /\ [Next]_vars => [Contract!Next]_(Contract!rvars)
  <2> SUFFICES ASSUME IInv, IInv', [Next]_vars
               PROVE  [Contract!Next]_(Contract!rvars)
    OBVIOUS
  <2>1. /\ row \in [Runs -> Rows] /\ row' \in [Runs -> Rows]
        /\ ticket \in [Tickets -> TicketRows]
        /\ ticket' \in [Tickets -> TicketRows]
        /\ entries \in [Tickets -> Nat] /\ results \in [Runs -> Nat]
        /\ entries' \in [Tickets -> Nat]
    BY DEF IInv, TypeOK
  <2>2. ASSUME NEW w, RowStep(w), UNCHANGED <<ticket, entries, results>>
        PROVE  [Contract!Next]_(Contract!rvars)
    <3>1. UNCHANGED tied
      BY <2>2
    <3>2. CASE Inserts(w)
      <4>1. PICK r \in Runs : /\ row[r].status = "none"
                              /\ row' = [row EXCEPT
                                           ![r] = [status |-> "provisioning",
                                                   owner |-> task[w].user]]
        BY <3>2 DEF Inserts
      <4>2. Contract!Launch(r)
        BY <2>1, <2>2, <3>1, <4>1 DEF Contract!Launch
      <4> QED BY <4>2 DEF Contract!Next
    <3>3. CASE \E r \in Runs : Settles(r)
      <4>1. PICK r \in Runs : Settles(r)
        BY <3>3
      <4>2. PICK s \in Verdicts : row' = [row EXCEPT ![r].status = s]
        BY <4>1 DEF Settles
      <4>3. phase[r] = "provisioning" /\ phase' = [phase EXCEPT ![r] = s]
        BY <2>1, <4>1, <4>2 DEF Settles, Rows
      <4>4. Contract!Settle(r)
        BY <2>2, <3>1, <4>3 DEF Verdicts, Contract!Settle
      <4> QED BY <4>4 DEF Contract!Next
    <3>4. CASE \E r \in Runs : Ends(r)
      <4>1. PICK r \in Runs : Ends(r)
        BY <3>4
      <4>2. PICK s \in Ended : row' = [row EXCEPT ![r].status = s]
        BY <4>1 DEF Ends
      <4>3. phase[r] \in Contract!Open /\ phase' = [phase EXCEPT ![r] = s]
        BY <2>1, <4>1, <4>2 DEF Ends, Active, Rows, Contract!Open
      <4>4. Contract!End(r)
        BY <2>2, <3>1, <4>3 DEF Ended, Contract!End
      <4> QED BY <4>4 DEF Contract!Next
    <3>5. CASE UNCHANGED row
      BY <2>2, <3>5 DEF Contract!rvars
    <3> QED BY <2>2, <3>2, <3>3, <3>4, <3>5 DEF RowStep
  <2>3. ASSUME NEW w \in Workers, IssueTicket(w)
        PROVE  Contract!Next
    <3>1. Good(task[w], row, results) /\ At(w, "ticket")
      BY <2>3 DEF IInv, Placed, IssueTicket
    <3>2. PICK r \in Runs : r = Subject(w) /\ row[r].status # "none"
      BY <3>1, NoRunIsNotARun DEF Good, Launching, Undoing, NeverDeploy, At, Subject
    <3>3. PICK t \in Tickets :
              /\ ticket[t].status = "none"
              /\ ticket' = [ticket EXCEPT
                              ![t] = [status |-> "issued", run |-> r,
                                      user |-> task[w].user]]
              /\ UNCHANGED <<entries, row, results>>
      BY <2>3, <3>2 DEF IssueTicket
    <3>4. tied[t] = NoRun /\ tied' = [tied EXCEPT ![t] = r]
      BY <2>1, <3>3 DEF IInv, TicketsOK
    <3>5. Contract!Issue(t, r)
      BY <3>2, <3>3, <3>4 DEF Contract!Issue
    <3> QED BY <3>2, <3>5 DEF Contract!Next
  <2>4. ASSUME NEW w \in Workers, SaveResult(w)
        PROVE  [Contract!Next]_(Contract!rvars)
    <3>1. Good(task[w], row, results) /\ At(w, "result")
      BY <2>4 DEF IInv, Placed, SaveResult
    <3>2. Subject(w) \in Runs /\ row[Subject(w)].status # "none"
      BY <3>1, NoRunIsNotARun DEF Good, Launching, Undoing, NeverDeploy, At, Subject
    <3>3. UNCHANGED <<row, ticket, entries>>
      BY <2>4 DEF SaveResult, access
    <3>4. CASE MayInsertResult(Subject(w))
      <4>1. Contract!Grade(Subject(w))
        BY <2>1, <2>4, <3>2, <3>3, <3>4
        DEF SaveResult, MayInsertResult, Contract!Grade
      <4> QED BY <3>2, <4>1 DEF Contract!Next
    <3>5. CASE ~MayInsertResult(Subject(w))
      BY <2>4, <3>3, <3>5 DEF SaveResult, Contract!rvars
    <3> QED BY <3>4, <3>5
  <2>5. ASSUME NEW t \in Tickets, Exchange(t)
        PROVE  Contract!Next
    <3>1. /\ ticket[t].status = "issued" /\ row[ticket[t].run].status = "ready"
          /\ ticket' = [ticket EXCEPT ![t].status = "consumed"]
          /\ entries' = [entries EXCEPT ![t] = @ + 1]
          /\ UNCHANGED <<row, results>>
      BY <2>5 DEF Exchange, Admits
    <3>2. entries[t] = 0 /\ ticket[t].run \in Runs
      BY <2>1, <3>1 DEF IInv, TicketsOK, TicketRows
    <3>3. UNCHANGED tied
      BY <2>1, <3>1
    <3>4. tied[t] # NoRun /\ phase[tied[t]] = "ready"
      BY <3>1, <3>2, NoRunIsNotARun
    <3>5. entries' = [entries EXCEPT ![t] = 1]
      BY <2>1, <3>1, <3>2
    <3>6. UNCHANGED phase
      BY <3>1
    <3> HIDE DEF phase, tied
    <3>7. Contract!Enter(t)
      BY <3>1, <3>2, <3>3, <3>4, <3>5, <3>6 DEF Contract!Enter, phase, tied
    <3> QED BY <3>7 DEF Contract!Next
  <2>6. ASSUME NEW t \in Tickets, TicketLapses(t)
        PROVE  UNCHANGED Contract!rvars
    <3>1. UNCHANGED tied
      BY <2>1, <2>6 DEF TicketLapses
    <3> QED BY <2>6, <3>1 DEF TicketLapses, Contract!rvars
  <2>7. ASSUME NEW w \in Workers, WorkerStep(w), ~IssueTicket(w),
               ~SaveResult(w)
        PROVE  [Contract!Next]_(Contract!rvars)
    <3>1. RowStep(w)
      BY <2>7, WorkersMakeRowSteps DEF IInv
    <3>2. UNCHANGED <<ticket, entries, results>>
      BY <2>7
      DEF WorkerStep, Provision, ProvisionTelemetry, Insert, Record,
          ReadStatus, UpdateReadiness, CheckResult, ListRuns, DestroyEnv,
          DestroyIndex, MarkEnded, QueryError, access
    <3> QED BY <2>2, <3>1, <3>2
  <2>8. ASSUME NEW w \in Workers,
               Learner(w) \/ Administrator(w) \/ Sweep(w)
        PROVE  UNCHANGED Contract!rvars
    <3>1. UNCHANGED <<row, ticket, entries, results>>
      BY <2>8
      DEF Learner, Administrator, Deploy, Submit, Visit, Suspend, Reinstate,
          Terminate, Sweep, access
    <3> QED BY <3>1 DEF Contract!rvars
  <2>9. ASSUME \/ \E r \in Runs : EnvStep(r) \/ RunExpires(r)
               \/ Crash
               \/ UNCHANGED vars
        PROVE  UNCHANGED Contract!rvars
    <3>1. UNCHANGED <<row, ticket, entries, results>>
      BY <2>9 DEF EnvStep, RunExpires, Crash, vars, access
    <3> QED BY <3>1 DEF Contract!rvars
  <2> QED
    BY <2>3, <2>4, <2>5, <2>6, <2>7, <2>8, <2>9
    DEF Next, Environment, Workers
<1> QED BY Initially, Inductive, <1>1, <1>2, PTL
        DEF Spec, ImplementsContract, Contract!Spec

-----------------------------------------------------------------------------
(***************************************************************************)
(* No request and no sweep goes round in circles.                          *)
(***************************************************************************)

\* How far a place is from the end of a request, or of a turn of a loop.
Height == [idle |-> 0, ticket |-> 1, abandonEnv |-> 1, record |-> 2, mark |-> 3,
           destroyIndex |-> 4, destroyEnv |-> 5, insert |-> 6, telemetry |-> 7,
           provision |-> 8, update |-> 7, status |-> 8, result |-> 7, grade |-> 8,
           list |-> 9]

\* The ways a worker's task t goes on to u: it ends; it has its list; the next
\* run on the list is taken up, and so no longer on it; or, with the same runs
\* still to come, it is nearer to the end of what it does about this one.
Advances(t, u) ==
    \/ u.at = "idle"
    \/ t.at = "list" /\ u.at \in {"destroyEnv", "record"}
    \/ /\ u.at = "destroyEnv" /\ u.run \in t.todo /\ u.todo = t.todo \ {u.run}
    \/ u.at # "list" /\ u.todo = t.todo /\ Height[u.at] < Height[t.at]

Advancing == \A w \in Workers : task[w].at # "idle" /\ task'[w] # task[w]
                                  => Advances(task[w], task'[w])

\* The height of every place.
LEMMA Heights ==
    /\ Height["idle"] = 0 /\ Height["ticket"] = 1 /\ Height["abandonEnv"] = 1
    /\ Height["record"] = 2 /\ Height["mark"] = 3 /\ Height["destroyIndex"] = 4
    /\ Height["destroyEnv"] = 5 /\ Height["insert"] = 6 /\ Height["telemetry"] = 7
    /\ Height["provision"] = 8 /\ Height["update"] = 7 /\ Height["status"] = 8
    /\ Height["result"] = 7 /\ Height["grade"] = 8 /\ Height["list"] = 9
BY DEF Height

LEMMA WorkersAdvance ==
    ASSUME TypeOK, Placed, NEW w \in Workers, WorkerStep(w)
    PROVE  /\ \A v \in Workers \ {w} : task'[v] = task[v]
           /\ Advances(task[w], task'[w])
<1> DEFINE t == task[w]
           Goes == /\ \A v \in Workers \ {w} : task'[v] = task[v]
                   /\ Advances(t, task'[w])
<1>1. t \in Tasks /\ task \in [Workers -> Tasks]
  BY DEF TypeOK
<1>2. ASSUME Finish(w) PROVE Goes
  BY <1>1, <1>2 DEF Finish, Advances, Idle
<1>3. ASSUME NEW p, p # "list", Goto(w, p), Height[p] < Height[t.at] PROVE Goes
  <2>1. /\ \A v \in Workers \ {w} : task'[v] = task[v]
        /\ task'[w].at = p /\ task'[w].todo = t.todo
    BY <1>1, <1>3 DEF Goto, Tasks
  <2> QED BY <1>3, <2>1 DEF Advances
<1>4. ASSUME NEW todo, \E u \in NextTasks(w, todo) : task' = [task EXCEPT ![w] = u],
             t.at = "list" \/ (t.at = "mark" /\ todo = t.todo)
      PROVE  Goes
  <2>1. CASE todo # {}
    <3>1. PICK r \in todo : task' = [task EXCEPT ![w] =
               [task[w] EXCEPT !.at = "destroyEnv", !.run = r, !.todo = todo \ {r}]]
      BY <1>4, <2>1 DEF NextTasks
    <3>2. /\ \A v \in Workers \ {w} : task'[v] = task[v]
          /\ task'[w].at = "destroyEnv" /\ task'[w].run = r
          /\ task'[w].todo = todo \ {r}
      BY <1>1, <3>1 DEF Tasks
    <3> QED BY <1>4, <3>2 DEF Advances
  <2>2. CASE todo = {} /\ t.op = "suspend"
    <3>1. task' = [task EXCEPT ![w] = [task[w] EXCEPT !.at = "record", !.run = NoRun,
                                                      !.todo = {}]]
      BY <1>4, <2>2 DEF NextTasks
    <3>2. /\ \A v \in Workers \ {w} : task'[v] = task[v]
          /\ task'[w].at = "record" /\ task'[w].todo = {}
      BY <1>1, <3>1 DEF Tasks
    <3> QED BY <1>4, <2>2, <3>2, Heights DEF Advances
  <2>3. CASE todo = {} /\ t.op # "suspend"
    BY <1>2, <1>4, <2>3 DEF NextTasks, Finish
  <2> QED BY <2>1, <2>2, <2>3
<1> SUFFICES Goes
  OBVIOUS
<1> HIDE DEF Goes
<1>5. CASE Provision(w)
  BY <1>2, <1>3, <1>5, Heights DEF Provision, At, Places
<1>6. CASE ProvisionTelemetry(w)
  BY <1>3, <1>6, Heights DEF ProvisionTelemetry, At, Places
<1>7. CASE Insert(w)
  BY <1>3, <1>7, Heights DEF Insert, At, Places
<1>8. CASE Record(w) \/ IssueTicket(w) \/ QueryError(w)
  BY <1>2, <1>8 DEF Record, IssueTicket, QueryError
<1>9. CASE ReadStatus(w)
  <2>1. CASE Finish(w)
    BY <1>2, <2>1
  <2>2. CASE task' = [task EXCEPT ![w].at = "update", ![w].verdict = Verdict(Subject(w))]
    <3>1. /\ \A v \in Workers \ {w} : task'[v] = task[v]
          /\ task'[w].at = "update" /\ task'[w].todo = t.todo
      BY <1>1, <2>2 DEF Tasks
    <3> QED BY <1>9, <3>1, Heights DEF ReadStatus, At, Advances, Goes
  <2> QED BY <1>9, <2>1, <2>2 DEF ReadStatus
<1>10. CASE UpdateReadiness(w)
  BY <1>2, <1>3, <1>10, Heights DEF UpdateReadiness, At, Places
<1>11. CASE CheckResult(w)
  BY <1>2, <1>3, <1>11, Heights DEF CheckResult, At, Places
<1>12. CASE SaveResult(w)
  BY <1>2, <1>3, <1>12, Heights DEF SaveResult, At, Places
<1>13. CASE ListRuns(w)
  BY <1>4, <1>13 DEF ListRuns, At
<1>14. CASE DestroyEnv(w)
  BY <1>2, <1>3, <1>14, Heights DEF DestroyEnv, At, Places
<1>15. CASE DestroyIndex(w)
  BY <1>2, <1>3, <1>15, Heights DEF DestroyIndex, At, Places
<1>16. CASE MarkEnded(w)
  BY <1>2, <1>3, <1>4, <1>16, Heights DEF MarkEnded, At, Places
<1> QED
  BY <1>5, <1>6, <1>7, <1>8, <1>9, <1>10, <1>11, <1>12, <1>13, <1>14, <1>15, <1>16
  DEF WorkerStep

LEMMA EveryStepAdvances == IInv /\ [Next]_vars => Advancing
<1> SUFFICES ASSUME IInv, [Next]_vars, NEW v \in Workers,
                    task[v].at # "idle", task'[v] # task[v]
             PROVE  Advances(task[v], task'[v])
  BY DEF Advancing
<1>1. TypeOK /\ Placed
  BY DEF IInv
<1>2. ASSUME NEW w \in Workers, WorkerStep(w) PROVE Advances(task[v], task'[v])
  BY <1>1, <1>2, WorkersAdvance
<1>3. ASSUME NEW w \in Workers, NEW u, At(w, "idle"), task' = [task EXCEPT ![w] = u]
      PROVE  FALSE
  BY <1>1, <1>3 DEF At, TypeOK
<1>4. ASSUME NEW w \in Handlers, Learner(w) \/ Administrator(w) PROVE FALSE
  <2>1. w \in Workers /\ At(w, "idle")
    BY <1>4 DEF Workers, Learner, Administrator, Deploy, Submit, Visit, Suspend,
                Reinstate, Terminate, Start
  <2>2. \E u : task' = [task EXCEPT ![w] = u]
    BY <1>4 DEF Learner, Administrator, Deploy, Submit, Visit, Suspend, Reinstate,
                Terminate, Start
  <2> QED BY <1>3, <2>1, <2>2
<1>5. ASSUME NEW w \in Sweeps, Sweep(w) PROVE FALSE
  <2>1. w \in Workers /\ At(w, "idle") /\ \E u : task' = [task EXCEPT ![w] = u]
    BY <1>5 DEF Sweep, Workers
  <2> QED BY <1>3, <2>1
<1>6. CASE Crash
  BY <1>6 DEF Crash, Advances, Idle
<1>7. CASE Environment \/ UNCHANGED vars
  BY <1>7 DEF Environment, EnvStep, RunExpires, Exchange, TicketLapses, vars
<1> QED BY <1>2, <1>4, <1>5, <1>6, <1>7 DEF Next

\* Requests, suspensions and sweeps come to their end whatever the runtime, the
\* telemetry gateway and the database answer: every step goes on to a later
\* part of the handler, or takes up a run that was listed and takes it off the
\* list (terminateRunsForUser, sweepExpiredRuns).  So nobody goes round in
\* circles, and no run that was listed is torn down twice by the same loop.
THEOREM RequestsAdvance == Spec => [][Advancing]_vars
BY Invariant, EveryStepAdvances, PTL DEF Spec

-----------------------------------------------------------------------------
(* The desktop of a run: the invariant, one browser at a time.             *)

\* A request waits for at most AskLife.
Waiting(b) ==
    /\ asking[b].kind = "nothing" => asking[b] = NotAsking
    /\ asking[b] # NotAsking => /\ asking[b].sent <= now
                                /\ now <= asking[b].sent + AskLife

\* A tunnel that a cookie opened has a timer that is not overdue.
Timed(b) == tunnel[b].by = "cookie" => tunnel[b].timer # Never /\ now <= tunnel[b].timer

\* What was granted about a run that has ended was asked for before it had.
Granted(b) ==
    asking[b].kind \in {"request", "upgrade"} /\ asking[b].answer = "granted"
    => RunIsActive \/ asking[b].sent <= endedAt

\* What is remembered of a run that has ended was granted so.
Remembered(b) ==
    cache[b] # Never => /\ cache[b] <= now + CacheLife
                        /\ \/ RunIsActive
                           \/ cache[b] <= endedAt + AskLife + CacheLife

DesktopInv == /\ DesktopTypeOK
        /\ \A b \in Browsers : Waiting(b) /\ Timed(b) /\ Granted(b) /\ Remembered(b)

LEMMA SessionNaturals ==
    /\ RunExpiry \in Nat /\ RunExpiry >= 1 /\ MaxLife \in Nat /\ MaxLife >= 1
    /\ CacheLife \in Nat /\ CacheLife >= 1 /\ AskLife \in Nat /\ AskLife >= 1
    /\ MaxTime \in Nat /\ MaxTime >= 1 /\ Never \notin Int
BY SessionTimes, NeverIsNoTime

\* The lesser of two moments is one of them, and above neither.
LEMMA LesserOfTwo ==
    ASSUME NEW i \in Int, NEW j \in Int
    PROVE  /\ Min({i, j}) \in {i, j}
           /\ Min({i, j}) <= i /\ Min({i, j}) <= j
<1>1. \E x \in {i, j} : \A y \in {i, j} : x <= y
  <2>1. CASE i <= j BY <2>1
  <2>2. CASE j <= i BY <2>2
  <2> QED BY <2>1, <2>2
<1> QED BY <1>1 DEF Min

\* A session never outlasts its run.
LEMMA SessionEnds ==
    ASSUME now \in Nat
    PROVE  SessionExpiry(RunExpiry) \in Int /\ SessionExpiry(RunExpiry) <= RunExpiry
<1>1. RunExpiry # Never /\ RunExpiry \in Int /\ now + MaxLife \in Int
  BY SessionNaturals
<1> DEFINE m == Min({RunExpiry, now + MaxLife})
<1>2. SessionExpiry(RunExpiry) = m
  BY <1>1, Zenon DEF SessionExpiry
<1>3. m \in {RunExpiry, now + MaxLife} /\ m <= RunExpiry
  BY <1>1, LesserOfTwo
<1> QED BY <1>1, <1>2, <1>3

LEMMA DesktopInitHolds == DesktopInit => DesktopInv
<1> SUFFICES ASSUME DesktopInit PROVE DesktopInv
  OBVIOUS
<1>1. DesktopTypeOK
  BY SessionNaturals DEF DesktopInit, DesktopTypeOK, Time, NotAsking, Shut
<1>2. \A b \in Browsers : Waiting(b) /\ Timed(b) /\ Granted(b) /\ Remembered(b)
  BY DEF DesktopInit, Waiting, Timed, Granted, Remembered, NotAsking, Shut
<1> QED BY <1>1, <1>2 DEF DesktopInv

-----------------------------------------------------------------------------
(* A request comes, by whatever lets it in.                                 *)

LEMMA SendStep ==
    ASSUME DesktopInv, NEW b \in Browsers, NEW kind \in {"exchange", "request", "upgrade"},
           Send(b, kind), UNCHANGED <<now, endedAt, pass, cookie, cache, tunnel>>
    PROVE  DesktopInv'
<1> DEFINE q == [kind |-> kind, sent |-> now, answer |-> "none"]
<1>1. q.kind = kind /\ q.sent = now /\ q.answer = "none"
      /\ (now \in Time => q \in [kind : {"nothing", "exchange", "request", "upgrade"},
                                 sent : Time, answer : {"none", "granted", "denied"}])
  OBVIOUS
<1>2. asking' = [asking EXCEPT ![b] = q]
  BY DEF Send
<1> HIDE DEF q
<1>3. DesktopTypeOK'
  BY <1>1, <1>2 DEF DesktopInv, DesktopTypeOK, Time
<1>4. asking'[b] = q /\ \A c \in Browsers \ {b} : asking'[c] = asking[c]
  BY <1>2 DEF DesktopInv, DesktopTypeOK
<1>5. now \in Nat
  BY SessionNaturals DEF DesktopInv, DesktopTypeOK, Time
<1>6. ASSUME NEW c \in Browsers
      PROVE  (Waiting(c) /\ Timed(c) /\ Granted(c) /\ Remembered(c))'
  BY <1>1, <1>4, <1>5, <1>6, SessionNaturals
     DEF DesktopInv, Waiting, Timed, Granted, Remembered, RunIsActive
<1> QED BY <1>3, <1>6 DEF DesktopInv

\* A tunnel is opened with the expiry of a cookie that is good, or with none.
LEMMA TunnelStep ==
    ASSUME DesktopInv, NEW b \in Browsers, NEW by \in {"cookie", "bearer"},
           NEW expiry \in 1..RunExpiry \cup {Never}, OpenTunnel(b, by, expiry),
           by = "cookie" => expiry # Never /\ now <= expiry
    PROVE  /\ tunnel' \in [Browsers -> [by : {"nothing", "cookie", "bearer"},
                                        timer : 1..RunExpiry \cup {Never}]]
           /\ \A c \in Browsers : tunnel'[c].by = "cookie"
                  => tunnel'[c].timer # Never /\ now <= tunnel'[c].timer
<1> DEFINE t == [by |-> by, timer |-> expiry]
<1>1. tunnel' = [tunnel EXCEPT ![b] = t]
  BY DEF OpenTunnel, TimerOf
<1>2. /\ t \in [by : {"nothing", "cookie", "bearer"}, timer : 1..RunExpiry \cup {Never}]
      /\ t.by = by /\ t.timer = expiry
  OBVIOUS
<1> HIDE DEF t
<1>3. tunnel'[b] = t /\ \A c \in Browsers \ {b} : tunnel'[c] = tunnel[c]
  BY <1>1 DEF DesktopInv, DesktopTypeOK
<1> QED BY <1>1, <1>2, <1>3 DEF DesktopInv, DesktopTypeOK, Timed

LEMMA AdmittedStep ==
    ASSUME DesktopInv, NEW b \in Browsers, NEW kind \in {"request", "upgrade"},
           ByCookie(b, kind) \/ ByCache(b, kind)
    PROVE  DesktopInv'
<1>1. UNCHANGED <<now, endedAt, pass, asking, cookie, cache>>
  BY DEF ByCookie, ByCache
<1>2. /\ tunnel' \in [Browsers -> [by : {"nothing", "cookie", "bearer"},
                                   timer : 1..RunExpiry \cup {Never}]]
      /\ \A c \in Browsers : tunnel'[c].by = "cookie"
             => tunnel'[c].timer # Never /\ now <= tunnel'[c].timer
  <2>1. CASE UNCHANGED tunnel
    BY <2>1 DEF DesktopInv, DesktopTypeOK, Timed
  <2>2. CASE OpenTunnel(b, "cookie", cookie[b]) /\ cookie[b] # Never /\ Later(cookie[b])
    <3>1. cookie[b] \in 1..RunExpiry \cup {Never} /\ now \in Nat
      BY SessionNaturals DEF DesktopInv, DesktopTypeOK, Time
    <3>2. cookie[b] # Never /\ now <= cookie[b]
      BY <2>2, <3>1, SessionNaturals DEF Later
    <3> QED BY <2>2, <3>1, <3>2, TunnelStep
  <2>3. CASE OpenTunnel(b, "bearer", Never)
    BY <2>3, TunnelStep
  <2> QED BY <2>1, <2>2, <2>3 DEF ByCookie, ByCache
<1>3. DesktopTypeOK'
  BY <1>1, <1>2 DEF DesktopInv, DesktopTypeOK
<1> QED BY <1>1, <1>2, <1>3
        DEF DesktopInv, Waiting, Timed, Granted, Remembered, RunIsActive

-----------------------------------------------------------------------------
(* The API answers, and the gateway acts on the answer.                     *)

LEMMA AnswerStep ==
    ASSUME DesktopInv, NEW b \in Browsers, ConsumeTicket(b) \/ AnswerRun(b)
    PROVE  DesktopInv'
<1>1. PICK verdict \in {"granted", "denied"} :
         /\ Answer(b, verdict) /\ asking[b].kind # "nothing"
         /\ asking[b].kind \in {"request", "upgrade"} /\ verdict = "granted" => RunIsActive
  BY DEF ConsumeTicket, AnswerRun, Waits
<1>2. /\ UNCHANGED <<now, endedAt, cookie, cache, tunnel>>
      /\ pass' \in {"issued", "consumed"}
  BY DEF ConsumeTicket, AnswerRun, DesktopInv, DesktopTypeOK
<1> DEFINE q == [asking[b] EXCEPT !.answer = verdict]
<1>3. /\ q \in [kind : {"nothing", "exchange", "request", "upgrade"}, sent : Time,
                answer : {"none", "granted", "denied"}]
      /\ q.kind = asking[b].kind /\ q.sent = asking[b].sent /\ q.answer = verdict
  BY DEF DesktopInv, DesktopTypeOK
<1>4. asking' = [asking EXCEPT ![b] = q]
  BY <1>1 DEF Answer
<1> HIDE DEF q
<1>5. asking'[b] = q /\ \A c \in Browsers \ {b} : asking'[c] = asking[c]
  BY <1>4 DEF DesktopInv, DesktopTypeOK
<1>6. DesktopTypeOK'
  BY <1>2, <1>3, <1>4 DEF DesktopInv, DesktopTypeOK
<1>7. asking[b] # NotAsking
  BY <1>1 DEF NotAsking
<1>8. ASSUME NEW c \in Browsers
      PROVE  (Waiting(c) /\ Timed(c) /\ Granted(c) /\ Remembered(c))'
  <2>1. CASE c = b
    BY <1>1, <1>2, <1>3, <1>5, <1>7, <2>1
       DEF DesktopInv, Waiting, Timed, Granted, Remembered, RunIsActive
  <2>2. CASE c # b
    BY <1>2, <1>5, <2>2
       DEF DesktopInv, Waiting, Timed, Granted, Remembered, RunIsActive
  <2> QED BY <2>1, <2>2
<1> QED BY <1>6, <1>8 DEF DesktopInv

\* Nothing that waits is nothing that is overdue.
LEMMA DoneStep ==
    ASSUME DesktopInv, NEW b \in Browsers, asking' = [asking EXCEPT ![b] = NotAsking]
    PROVE  /\ asking' \in [Browsers ->
                [kind : {"nothing", "exchange", "request", "upgrade"}, sent : Time,
                 answer : {"none", "granted", "denied"}]]
           /\ \A c \in Browsers :
                asking'[c] = IF c = b THEN NotAsking ELSE asking[c]
<1>1. NotAsking \in [kind : {"nothing", "exchange", "request", "upgrade"}, sent : Time,
                     answer : {"none", "granted", "denied"}]
  BY SessionNaturals DEF NotAsking, Time
<1> QED BY <1>1 DEF DesktopInv, DesktopTypeOK

LEMMA CreateStep ==
    ASSUME DesktopInv, NEW b \in Browsers,
           CreateSession(b) \/ Refuse(b) \/ StopWaiting(b)
    PROVE  DesktopInv'
<1>1. /\ asking' = [asking EXCEPT ![b] = NotAsking]
      /\ UNCHANGED <<now, endedAt, pass, cache, tunnel>>
  BY DEF CreateSession, Refuse, StopWaiting, Receives
<1>2. cookie' \in [Browsers -> 1..RunExpiry \cup {Never}]
  <2>1. CASE UNCHANGED cookie
    BY <2>1 DEF DesktopInv, DesktopTypeOK
  <2>2. CASE CreateSession(b)
    <3> DEFINE exp == SessionExpiry(RunExpiry)
    <3>1. now \in Nat
      BY SessionNaturals DEF DesktopInv, DesktopTypeOK, Time
    <3>2. exp \in Int /\ exp <= RunExpiry
      BY <3>1, SessionEnds
    <3>3. cookie' = IF exp > now THEN [cookie EXCEPT ![b] = exp] ELSE cookie
      BY <2>2 DEF CreateSession
    <3> HIDE DEF exp
    <3>4. exp > now => exp \in 1..RunExpiry
      BY <3>1, <3>2, SessionNaturals
    <3> QED BY <3>3, <3>4 DEF DesktopInv, DesktopTypeOK
  <2> QED BY <2>1, <2>2 DEF Refuse, StopWaiting
<1>3. DesktopTypeOK'
  BY <1>1, <1>2, DoneStep DEF DesktopInv, DesktopTypeOK
<1>4. \A c \in Browsers : asking'[c] = IF c = b THEN NotAsking ELSE asking[c]
  BY <1>1, DoneStep
<1> QED BY <1>1, <1>3, <1>4
        DEF DesktopInv, Waiting, Timed, Granted, Remembered, RunIsActive, NotAsking

LEMMA RememberStep ==
    ASSUME DesktopInv, NEW b \in Browsers, Remember(b)
    PROVE  DesktopInv'
<1>1. PICK kind \in {"request", "upgrade"} :
         /\ Receives(b, {kind}, "granted")
         /\ IF kind = "upgrade" THEN OpenTunnel(b, "bearer", Never) ELSE UNCHANGED tunnel
  BY DEF Remember
<1>2. /\ asking' = [asking EXCEPT ![b] = NotAsking]
      /\ asking[b].kind \in {"request", "upgrade"} /\ asking[b].answer = "granted"
      /\ UNCHANGED <<now, endedAt, pass, cookie>>
      /\ cache' = [cache EXCEPT ![b] = now + CacheLife]
  BY <1>1 DEF Remember, Receives
<1>3. now \in 0..MaxTime /\ now + CacheLife \in 1..(MaxTime + CacheLife)
  BY SessionNaturals DEF DesktopInv, DesktopTypeOK, Time
<1>4. /\ tunnel' \in [Browsers -> [by : {"nothing", "cookie", "bearer"},
                                   timer : 1..RunExpiry \cup {Never}]]
      /\ \A c \in Browsers : tunnel'[c].by = "cookie"
             => tunnel'[c].timer # Never /\ now <= tunnel'[c].timer
  <2>1. CASE UNCHANGED tunnel
    BY <2>1 DEF DesktopInv, DesktopTypeOK, Timed
  <2>2. CASE OpenTunnel(b, "bearer", Never)
    BY <2>2, TunnelStep
  <2> QED BY <1>1, <2>1, <2>2
<1>5. cache' \in [Browsers -> 1..(MaxTime + CacheLife) \cup {Never}]
  BY <1>2, <1>3 DEF DesktopInv, DesktopTypeOK
<1>6. DesktopTypeOK'
  BY <1>2, <1>4, <1>5, DoneStep DEF DesktopInv, DesktopTypeOK
<1>7. \A c \in Browsers : /\ asking'[c] = IF c = b THEN NotAsking ELSE asking[c]
                          /\ cache'[c] = IF c = b THEN now + CacheLife ELSE cache[c]
  BY <1>2, DoneStep DEF DesktopInv, DesktopTypeOK
<1>8. RunIsActive \/ now + CacheLife <= endedAt + AskLife + CacheLife
  <2>1. asking[b] # NotAsking
    BY <1>2 DEF NotAsking
  <2>2. asking[b].sent \in Nat /\ now <= asking[b].sent + AskLife
    BY <2>1, SessionNaturals DEF DesktopInv, DesktopTypeOK, Time, Waiting
  <2>3. RunIsActive \/ asking[b].sent <= endedAt
    BY <1>2 DEF DesktopInv, Granted
  <2>4. RunIsActive \/ endedAt \in Nat
    BY SessionNaturals DEF DesktopInv, DesktopTypeOK, Time, RunIsActive
  <2> QED BY <1>3, <2>2, <2>3, <2>4, SessionNaturals
<1>9. ASSUME NEW c \in Browsers
      PROVE  (Waiting(c) /\ Timed(c) /\ Granted(c) /\ Remembered(c))'
  <2>1. (Waiting(c) /\ Timed(c) /\ Granted(c))'
    BY <1>2, <1>4, <1>7
       DEF DesktopInv, Waiting, Timed, Granted, RunIsActive, NotAsking
  <2>2. CASE c = b
    BY <1>2, <1>3, <1>7, <1>8, <2>1, <2>2 DEF Remembered, RunIsActive
  <2>3. CASE c # b
    BY <1>2, <1>7, <2>1, <2>3 DEF DesktopInv, Remembered, RunIsActive
  <2> QED BY <2>2, <2>3
<1> QED BY <1>6, <1>9 DEF DesktopInv

-----------------------------------------------------------------------------
(* What ends a tunnel, a cookie or the run, and the clock.                  *)

LEMMA CloseStep ==
    ASSUME DesktopInv, NEW b \in Browsers, TimerFires(b) \/ CloseTunnel(b) \/ DropCookie(b)
    PROVE  DesktopInv'
<1>1. CASE TimerFires(b) \/ CloseTunnel(b)
  <2>1. /\ tunnel' = [tunnel EXCEPT ![b] = Shut]
        /\ UNCHANGED <<now, endedAt, pass, asking, cookie, cache>>
    BY <1>1 DEF TimerFires, CloseTunnel
  <2>2. DesktopTypeOK'
    BY <2>1 DEF DesktopInv, DesktopTypeOK, Shut
  <2>3. \A c \in Browsers : tunnel'[c] = IF c = b THEN Shut ELSE tunnel[c]
    BY <2>1 DEF DesktopInv, DesktopTypeOK
  <2> QED BY <2>1, <2>2, <2>3
          DEF DesktopInv, Waiting, Timed, Granted, Remembered, RunIsActive, Shut
<1>2. CASE DropCookie(b)
  BY <1>2 DEF DropCookie, DesktopInv, DesktopTypeOK, Waiting, Timed, Granted, Remembered,
              RunIsActive
<1> QED BY <1>1, <1>2

LEMMA EndStep ==
    ASSUME DesktopInv, EndRun
    PROVE  DesktopInv'
<1>1. /\ endedAt = Never /\ endedAt' = now /\ now \in Time /\ now \in Nat
      /\ UNCHANGED <<now, pass, asking, cookie, cache, tunnel>>
  BY SessionNaturals DEF EndRun, RunIsActive, DesktopInv, DesktopTypeOK, Time
<1>2. DesktopTypeOK'
  BY <1>1 DEF DesktopInv, DesktopTypeOK
<1>3. ASSUME NEW c \in Browsers
      PROVE  (Waiting(c) /\ Timed(c) /\ Granted(c) /\ Remembered(c))'
  <2>1. (Waiting(c) /\ Timed(c))'
    BY <1>1 DEF DesktopInv, Waiting, Timed
  <2>2. Granted(c)'
    <3>1. asking[c].kind \in {"request", "upgrade"} => asking[c].sent <= now
      BY DEF DesktopInv, Waiting, NotAsking
    <3> QED BY <1>1, <3>1 DEF Granted
  <2>3. Remembered(c)'
    <3>1. cache[c] # Never => cache[c] \in Nat /\ cache[c] <= now + CacheLife
      BY SessionNaturals DEF DesktopInv, DesktopTypeOK, Remembered
    <3>2. cache[c] # Never => cache[c] <= now + AskLife + CacheLife
      BY <1>1, <3>1, SessionNaturals
    <3> QED BY <1>1, <3>1, <3>2 DEF Remembered
  <2> QED BY <2>1, <2>2, <2>3
<1> QED BY <1>2, <1>3 DEF DesktopInv

LEMMA TickStep ==
    ASSUME DesktopInv, Tick
    PROVE  DesktopInv'
<1>1. /\ now \in Nat /\ now' = now + 1 /\ now' \in Time
      /\ UNCHANGED <<endedAt, pass, asking, cookie, cache, tunnel>>
  BY SessionNaturals DEF Tick, DesktopInv, DesktopTypeOK, Time
<1>2. DesktopTypeOK'
  BY <1>1 DEF DesktopInv, DesktopTypeOK
<1>3. ASSUME NEW c \in Browsers
      PROVE  (Waiting(c) /\ Timed(c) /\ Granted(c) /\ Remembered(c))'
  <2>1. Waiting(c)'
    <3>1. asking[c].sent \in Nat
      BY SessionNaturals DEF DesktopInv, DesktopTypeOK, Time
    <3>2. asking[c] # NotAsking => /\ asking[c].sent <= now
                                   /\ now < asking[c].sent + AskLife
      BY DEF DesktopInv, Waiting, Tick
    <3> QED BY <1>1, <3>1, <3>2, SessionNaturals DEF DesktopInv, Waiting
  <2>2. Timed(c)'
    <3>1. tunnel[c].timer # Never => tunnel[c].timer \in Nat /\ now < tunnel[c].timer
      BY <1>1, SessionNaturals DEF DesktopInv, DesktopTypeOK, Tick
    <3> QED BY <1>1, <3>1 DEF DesktopInv, Timed
  <2>3. Granted(c)'
    BY <1>1 DEF DesktopInv, Granted, RunIsActive
  <2>4. Remembered(c)'
    <3>1. cache[c] # Never => cache[c] \in Nat /\ cache[c] <= now + CacheLife
      BY SessionNaturals DEF DesktopInv, DesktopTypeOK, Remembered
    <3>2. cache[c] # Never => cache[c] <= now' + CacheLife
      BY <1>1, <3>1, SessionNaturals
    <3> QED BY <1>1, <3>2 DEF DesktopInv, Remembered, RunIsActive
  <2> QED BY <2>1, <2>2, <2>3, <2>4
<1> QED BY <1>2, <1>3 DEF DesktopInv

-----------------------------------------------------------------------------
LEMMA DesktopInductive == DesktopInv /\ [DesktopNext]_desktopVars => DesktopInv'
<1> SUFFICES ASSUME DesktopInv, [DesktopNext]_desktopVars PROVE DesktopInv'
  OBVIOUS
<1>1. CASE UNCHANGED desktopVars
  BY <1>1 DEF desktopVars, DesktopInv, DesktopTypeOK, Waiting, Timed, Granted, Remembered,
              RunIsActive
<1>2. ASSUME NEW b \in Browsers, SendTicket(b) PROVE DesktopInv'
  BY <1>2, SendStep DEF SendTicket
<1>3. ASSUME NEW b \in Browsers, NEW kind \in {"request", "upgrade"},
             ByCookie(b, kind) \/ ByCache(b, kind) \/ AskApi(b, kind)
      PROVE  DesktopInv'
  BY <1>3, SendStep, AdmittedStep DEF AskApi
<1> QED BY <1>1, <1>2, <1>3, AnswerStep, CreateStep, RememberStep, CloseStep,
           EndStep, TickStep
        DEF DesktopNext

LEMMA DesktopAlways == DesktopSafety => []DesktopInv
BY DesktopInitHolds, DesktopInductive, PTL DEF DesktopSafety

\* DesktopEndsWithRun for any number of browsers and any of the times: a
\* WebSocket that a cookie opened is closed when its run expires, and a bearer
\* token is forgotten within one answer and one cache entry of its run's end
\* (desktop-gateway service.ts, session.ts).
THEOREM DesktopsEnd == DesktopSafety => []DesktopEndsWithRun
<1>1. DesktopInv => DesktopEndsWithRun
  <2> SUFFICES ASSUME DesktopInv, NEW b \in Browsers
               PROVE  /\ tunnel[b].by = "cookie" => now <= RunExpiry
                      /\ ~RunIsActive /\ Later(cache[b])
                           => now < endedAt + AskLife + CacheLife
    BY DEF DesktopEndsWithRun
  <2>1. now \in Nat /\ (RunIsActive \/ endedAt \in Nat)
    BY SessionNaturals DEF DesktopInv, DesktopTypeOK, Time, RunIsActive
  <2>2. tunnel[b].by = "cookie" => now <= RunExpiry
    BY <2>1, SessionNaturals DEF DesktopInv, DesktopTypeOK, Timed
  <2>3. cache[b] # Never => cache[b] \in Nat
    BY SessionNaturals DEF DesktopInv, DesktopTypeOK
  <2>4. ~RunIsActive /\ Later(cache[b]) => now < endedAt + AskLife + CacheLife
    BY <2>1, <2>3, SessionNaturals DEF DesktopInv, Remembered, Later
  <2> QED BY <2>2, <2>4
<1> QED BY <1>1, DesktopAlways, PTL

-----------------------------------------------------------------------------
(* The grading of a run.                                                    *)

\* Nothing is in the index before the provision, and all events are once it
\* has said so, as long as the index is there; a run is recorded after that.
Indexed ==
    /\ elastic = Gone \/ elastic.there
    /\ elastic.events \subseteq Events
    /\ writer \in {"idle", "look"} => elastic = Gone
    /\ writer = "made" => elastic = Gone \/ elastic.events = Events
    /\ deploy = "recorded" => writer = "made"
    /\ teardown # "none" => writer = "made"

\* What the recorded result must give for an answer.
Due(q, answer, lost) ==
    IF q \in lost THEN 0 ELSE (2 * Questions[q].points * Worth(q, answer) + 100) \div 200

\* The questions that were answered so far have evidence for what is due.
Graded ==
    Grades =>
      /\ deploy = "recorded"
      /\ paper.next \in 1..(Len(Questions) + 1)
      /\ \A q \in Number : paper.answers[q] \in AnswersTo(q)
      /\ paper.evidence \in Seq([passed : BOOLEAN, ratio : Int])
      /\ Len(paper.evidence) = paper.next - 1
      /\ paper.lost \subseteq 1..(paper.next - 1)
      /\ \A q \in 1..(paper.next - 1) :
           PointsFor(q, paper.answers[q], paper.evidence[q])
             = Due(q, paper.answers[q], paper.lost)

PaperShape == DOMAIN paper = {"answers", "next", "waited", "evidence", "lost"}

GradingInv == PaperShape /\ Indexed /\ Graded /\ RightAnswersCount

LEMMA QuestionsKnown ==
    /\ Len(Questions) \in Nat /\ Number = 1..Len(Questions)
    /\ \A q \in Number : /\ Questions[q].type \in {"elk", "text", "choice"}
                         /\ Questions[q].points \in 1..100
<1> DEFINE Kinds == [type : {"elk", "text", "choice"}, points : 1..100]
<1>1. Questions \in Seq(Kinds)
  BY KnownQuestions
<1>2. \A k \in Kinds : k.type \in {"elk", "text", "choice"} /\ k.points \in 1..100
  OBVIOUS
<1> HIDE DEF Kinds
<1>3. Len(Questions) \in Nat /\ DOMAIN Questions = 1..Len(Questions)
      /\ \A q \in 1..Len(Questions) : Questions[q] \in Kinds
  BY <1>1
<1> QED BY <1>2, <1>3 DEF Number

LEMMA NothingIsWorthNothing ==
    ASSUME NEW q \in Number PROVE (2 * Questions[q].points * 0 + 100) \div 200 = 0
<1>1. 2 * Questions[q].points * 0 = 0
  <2>1. \A n \in 1..100 : 2 * n * 0 = 0
    OBVIOUS
  <2> QED BY <2>1, QuestionsKnown
<1>2. 100 \div 200 = 0
  OBVIOUS
<1> QED BY <1>1, <1>2

\* With the whole index there, ELK evidence is worth what the answer is.
LEMMA ElkIsFair ==
    ASSUME NEW submitted, elastic.events = Events
    PROVE  /\ ElkEvidence(submitted) \in [passed : BOOLEAN, ratio : Int]
           /\ Ratio(ElkEvidence(submitted)) = IF submitted = Expected THEN 100 ELSE 0
<1> DEFINE matched == Expected \cap submitted \cap elastic.events
           C == Cardinality(Expected)
           M == Cardinality(matched)
<1>1. C \in Nat /\ C # 0
  BY SomeEvents, FS_CardinalityType, FS_EmptySet
<1>2. M \in Nat
  <2>1. matched \subseteq Expected
    OBVIOUS
  <2> QED BY <2>1, SomeEvents, FS_Subset, FS_CardinalityType
<1>3. submitted = Expected => matched = Expected
  BY SomeEvents
<1>4. submitted = {} => submitted # Expected
  BY SomeEvents
<1>5. ElkEvidence(submitted) =
        IF submitted = {} THEN NoEvidence
        ELSE [passed |-> matched = Expected /\ submitted = Expected,
              ratio |-> (100 * M) \div C]
  BY DEF ElkEvidence
<1>6. submitted = Expected => M = C
  BY <1>3
<1> HIDE DEF M, C, matched
<1>7. (100 * M) \div C \in Int
  BY <1>1, <1>2
<1>8. (100 * C) \div C = 100
  BY <1>1
<1>9. CASE submitted = {}
  BY <1>4, <1>5, <1>9 DEF NoEvidence, Ratio
<1>10. CASE submitted = Expected
  <2>1. ElkEvidence(submitted) = [passed |-> TRUE, ratio |-> 100]
    BY <1>3, <1>4, <1>5, <1>6, <1>8, <1>10
  <2> QED BY <1>10, <2>1 DEF Ratio
<1>11. CASE submitted # {} /\ submitted # Expected
  <2>1. ElkEvidence(submitted) = [passed |-> FALSE, ratio |-> (100 * M) \div C]
    BY <1>5, <1>11
  <2> QED BY <1>7, <1>11, <2>1 DEF Ratio
<1> QED BY <1>9, <1>10, <1>11

LEMMA EvidenceIsDue ==
    ASSUME NEW q \in Number, NEW answer \in AnswersTo(q), NEW evidence, NEW lost,
           \/ q \in lost /\ External(q) /\ evidence = NoEvidence
           \/ q \notin lost /\ Questions[q].type = "elk" /\ elastic.events = Events
              /\ evidence = ElkEvidence(answer.events)
           \/ q \notin lost /\ Questions[q].type = "text"
              /\ evidence = TextEvidence(answer.merit)
           \/ q \notin lost /\ Questions[q].type = "choice"
    PROVE  PointsFor(q, answer, evidence) = Due(q, answer, lost)
<1>1. CASE q \in lost /\ External(q) /\ evidence = NoEvidence
  BY <1>1, NothingIsWorthNothing DEF PointsFor, Due, Ratio, NoEvidence
<1>2. CASE q \notin lost /\ Questions[q].type = "elk" /\ elastic.events = Events
           /\ evidence = ElkEvidence(answer.events)
  <2>1. Ratio(evidence) = Worth(q, answer)
    BY <1>2, ElkIsFair DEF Worth
  <2> QED BY <1>2, <2>1 DEF PointsFor, Due, External
<1>3. CASE q \notin lost /\ Questions[q].type = "text"
           /\ evidence = TextEvidence(answer.merit)
  <2>1. answer.merit \in 0..100
    BY <1>3, MeritsArePercentages DEF AnswersTo
  <2>2. Ratio(evidence) = answer.merit
    <3>1. CASE answer.merit > 0
      <4>1. evidence = [passed |-> TRUE, ratio |-> answer.merit]
        BY <1>3, <3>1 DEF TextEvidence
      <4> QED BY <4>1 DEF Ratio
    <3>2. CASE ~(answer.merit > 0)
      <4>1. ~evidence.passed
        BY <1>3, <3>2 DEF TextEvidence
      <4>2. answer.merit = 0
        BY <2>1, <3>2
      <4> QED BY <4>1, <4>2 DEF Ratio
    <3> QED BY <3>1, <3>2
  <2> QED BY <1>3, <2>2 DEF PointsFor, Due, External, Worth
<1>4. CASE q \notin lost /\ Questions[q].type = "choice"
  BY <1>4 DEF PointsFor, Due, External, Worth
<1> QED BY <1>1, <1>2, <1>3, <1>4

LEMMA GradingBegins == TelemetryInit /\ GradingInit => GradingInv
<1> SUFFICES ASSUME TelemetryInit, GradingInit PROVE GradingInv
  OBVIOUS
<1>1. PaperShape /\ Graded
  BY DEF GradingInit, NoPaper, PaperShape, Graded, Grades
<1>2. Indexed
  BY DEF TelemetryInit, Indexed, Gone
<1>3. RightAnswersCount
  BY DEF GradingInit, RightAnswersCount
<1> QED BY <1>1, <1>2, <1>3 DEF GradingInv

LEMMA IndexStep == Indexed /\ TelemetryNext => Indexed'
<1> SUFFICES ASSUME Indexed, TelemetryNext PROVE Indexed'
  OBVIOUS
<1> USE DEF Indexed, WriterGoes, Gone, Empty
<1>1. CASE StartProvision
  BY <1>1 DEF StartProvision
<1>2. CASE LookForManifest
  BY <1>2 DEF LookForManifest
<1>3. CASE CreateIndex
  BY <1>3 DEF CreateIndex
<1>4. CASE WriteEvents
  <2>1. PICK manifest \in BOOLEAN, events \in SUBSET Events :
             /\ elastic' = Written(manifest, events)
             /\ writer = "bulk"
             /\ writer' = IF AllTaken(manifest, events) THEN "made" ELSE "undo"
    BY <1>4 DEF WriteEvents
  <2>2. /\ elastic'.there = TRUE /\ elastic'.events = elastic.events \cup events
        /\ writer' = "made" => events = Events
        /\ writer' \in {"made", "undo"}
    BY <2>1 DEF Written, AllTaken
  <2>3. UNCHANGED <<deploy, teardown>>
    BY <1>4 DEF WriteEvents
  <2> QED BY <2>1, <2>2, <2>3
<1>5. CASE Undo
  BY <1>5 DEF Undo
<1>6. CASE CallFails
  <2>1. /\ writer \in {"look", "create", "bulk"} /\ writer' \in {"failed", "undo"}
        /\ UNCHANGED <<deploy, teardown>>
    BY <1>6 DEF CallFails
  <2>2. elastic' \in {elastic, Empty, Written(TRUE, Events)}
    BY <1>6 DEF CallFails
  <2> QED BY <2>1, <2>2 DEF Written
<1>7. CASE RecordRun
  BY <1>7 DEF RecordRun
<1>8. CASE RecordFails
  BY <1>8 DEF RecordFails
<1>9. CASE DeployFails
  BY <1>9 DEF DeployFails
<1>10. CASE TearDown
  BY <1>10 DEF TearDown
<1>11. CASE DropIndex
  BY <1>11 DEF DropIndex
<1> QED BY <1>1, <1>2, <1>3, <1>4, <1>5, <1>6, <1>7, <1>8, <1>9, <1>10, <1>11
        DEF TelemetryNext

\* One question gets its evidence, or is lost.
LEMMA QuestionStep ==
    ASSUME PaperShape, Graded, Grades, paper.next \in Number,
           NEW cost, NEW evidence \in [passed : BOOLEAN, ratio : Int], NEW lost,
           lost \in {{}, {paper.next}}, NextQuestion(cost, evidence, lost),
           PointsFor(paper.next, paper.answers[paper.next], evidence)
             = Due(paper.next, paper.answers[paper.next], lost),
           UNCHANGED <<elastic, deploy>>
    PROVE  PaperShape' /\ Graded'
<1> DEFINE E == [passed : BOOLEAN, ratio : Int]
           n == paper.next
<1>1. /\ paper'.answers = paper.answers /\ paper'.next = n + 1
      /\ paper'.evidence = Append(paper.evidence, evidence)
      /\ paper'.lost = paper.lost \cup lost
      /\ PaperShape'
  BY DEF NextQuestion, PaperShape
<1>2. n \in 1..Len(Questions) /\ Len(Questions) \in Nat
  BY QuestionsKnown
<1>3. paper.evidence \in Seq(E) /\ Len(paper.evidence) = n - 1
  BY DEF Graded
<1> HIDE DEF E
<1>4. /\ paper'.evidence \in Seq(E) /\ Len(paper'.evidence) = n
      /\ \A q \in 1..(n - 1) : paper'.evidence[q] = paper.evidence[q]
      /\ paper'.evidence[n] = evidence
  BY <1>1, <1>2, <1>3 DEF E
<1>5. /\ \A q \in 1..(n - 1) : q \in paper'.lost <=> q \in paper.lost
      /\ n \in paper'.lost <=> n \in lost
      /\ paper'.lost \subseteq 1..n
  BY <1>1, <1>2 DEF Graded
<1>6. ASSUME NEW q \in 1..n
      PROVE  PointsFor(q, paper'.answers[q], paper'.evidence[q])
               = Due(q, paper'.answers[q], paper'.lost)
  <2>1. CASE q = n
    BY <1>1, <1>4, <1>5, <2>1 DEF Due
  <2>2. CASE q \in 1..(n - 1)
    <3>1. PointsFor(q, paper.answers[q], paper.evidence[q])
            = Due(q, paper.answers[q], paper.lost)
      BY <2>2 DEF Graded
    <3> QED BY <1>1, <1>4, <1>5, <2>2, <3>1 DEF Due
  <2> QED BY <1>2, <2>1, <2>2
<1>7. paper'.next - 1 = n /\ paper'.next \in 1..(Len(Questions) + 1)
  BY <1>1, <1>2
<1>8. deploy' = "recorded" /\ \A q \in Number : paper'.answers[q] \in AnswersTo(q)
  BY <1>1 DEF Graded
<1>9. Graded'
  BY <1>4, <1>5, <1>6, <1>7, <1>8 DEF Graded, E
<1> QED BY <1>1, <1>9

LEMMA GraderStep ==
    ASSUME GradingInv, UNCHANGED telemetryVars,
           GradeElk \/ GradeText \/ Unanswered \/ SkipChoice
    PROVE  GradingInv'
<1> DEFINE n == paper.next
           E == [passed : BOOLEAN, ratio : Int]
<1>1. /\ Grades /\ n \in Number /\ result' = result /\ UNCHANGED <<elastic, deploy, writer>>
      /\ PaperShape /\ Graded
  BY DEF GradingInv, GradeElk, GradeText, Unanswered, SkipChoice, AtQuestion, telemetryVars
<1>2. Indexed' /\ RightAnswersCount'
  BY <1>1 DEF GradingInv, Indexed, RightAnswersCount, telemetryVars
<1>3. n \notin {} /\ n \in {n} /\ NoEvidence \in E /\ paper.answers[n] \in AnswersTo(n)
  BY <1>1 DEF NoEvidence, Graded
<1>4. CASE GradeElk
  <2>1. Questions[n].type = "elk" /\ External(n)
    BY <1>4 DEF GradeElk, AtQuestion, External
  <2>2. CASE elastic.there
    <3>1. NextQuestion(0, ElkEvidence(paper.answers[n].events), {})
      BY <1>4, <2>2 DEF GradeElk
    <3>2. elastic.events = Events
      BY <1>1, <2>2 DEF GradingInv, Indexed, Graded, Gone
    <3>3. ElkEvidence(paper.answers[n].events) \in E
      BY <3>2, ElkIsFair
    <3>4. PointsFor(n, paper.answers[n], ElkEvidence(paper.answers[n].events))
            = Due(n, paper.answers[n], {})
      BY <1>1, <1>3, <2>1, <3>2, EvidenceIsDue
    <3> QED BY <1>1, <1>2, <3>1, <3>3, <3>4, QuestionStep DEF GradingInv
  <2>3. CASE ~elastic.there
    <3>1. NextQuestion(0, NoEvidence, {n})
      BY <1>4, <2>3 DEF GradeElk
    <3>2. PointsFor(n, paper.answers[n], NoEvidence) = Due(n, paper.answers[n], {n})
      BY <1>1, <1>3, <2>1, EvidenceIsDue
    <3> QED BY <1>1, <1>2, <1>3, <3>1, <3>2, QuestionStep DEF GradingInv
  <2> QED BY <2>2, <2>3
<1>5. CASE GradeText
  <2>1. /\ Questions[n].type = "text"
        /\ NextQuestion(0, TextEvidence(paper.answers[n].merit), {})
    BY <1>5 DEF GradeText, AtQuestion
  <2>2. TextEvidence(paper.answers[n].merit) \in E
    <3>1. paper.answers[n].merit \in Int
      BY <1>3, <2>1, MeritsArePercentages DEF AnswersTo
    <3> QED BY <3>1 DEF TextEvidence
  <2>3. PointsFor(n, paper.answers[n], TextEvidence(paper.answers[n].merit))
          = Due(n, paper.answers[n], {})
    BY <1>1, <1>3, <2>1, EvidenceIsDue
  <2> QED BY <1>1, <1>2, <2>1, <2>2, <2>3, QuestionStep DEF GradingInv
<1>6. CASE Unanswered
  <2>1. /\ External(n)
        /\ \E cost : NextQuestion(cost, NoEvidence, {n})
    BY <1>6 DEF Unanswered, AtQuestion, External
  <2>2. PointsFor(n, paper.answers[n], NoEvidence) = Due(n, paper.answers[n], {n})
    BY <1>1, <1>3, <2>1, EvidenceIsDue
  <2> QED BY <1>1, <1>2, <1>3, <2>1, <2>2, QuestionStep DEF GradingInv
<1>7. CASE SkipChoice
  <2>1. Questions[n].type = "choice" /\ NextQuestion(0, NoEvidence, {})
    BY <1>7 DEF SkipChoice, AtQuestion
  <2>2. PointsFor(n, paper.answers[n], NoEvidence) = Due(n, paper.answers[n], {})
    BY <1>1, <1>3, <2>1, EvidenceIsDue
  <2> QED BY <1>1, <1>2, <1>3, <2>1, <2>2, QuestionStep DEF GradingInv
<1> QED BY <1>4, <1>5, <1>6, <1>7

LEMMA SubmissionStep ==
    ASSUME GradingInv, UNCHANGED telemetryVars, HandIn \/ GraderGivesOut \/ Save
    PROVE  GradingInv'
<1>1. Indexed'
  BY DEF GradingInv, Indexed, telemetryVars
<1>2. CASE HandIn
  <2>1. PICK answers \in {f \in [Number -> UNION {AnswersTo(q) : q \in Number}] :
                            \A q \in Number : f[q] \in AnswersTo(q)} :
             paper' = [NoPaper EXCEPT !.answers = answers, !.next = 1]
    BY <1>2 DEF HandIn
  <2>2. /\ paper'.answers = answers /\ paper'.next = 1 /\ paper'.evidence = <<>>
        /\ paper'.lost = {} /\ PaperShape'
    BY <2>1 DEF NoPaper, PaperShape
  <2>3. deploy' = "recorded" /\ result' = result
    BY <1>2 DEF HandIn, telemetryVars
  <2>4. Graded'
    <3>1. paper'.next \in 1..(Len(Questions) + 1) /\ 1..(paper'.next - 1) = {}
      BY <2>2, QuestionsKnown
    <3>2. /\ paper'.evidence \in Seq([passed : BOOLEAN, ratio : Int])
          /\ Len(paper'.evidence) = paper'.next - 1
      BY <2>2
    <3> QED BY <2>1, <2>2, <2>3, <3>1, <3>2 DEF Graded
  <2>5. RightAnswersCount'
    BY <2>3 DEF GradingInv, RightAnswersCount
  <2> QED BY <1>1, <2>2, <2>4, <2>5 DEF GradingInv
<1>3. ASSUME paper' = NoPaper PROVE PaperShape' /\ Graded'
  BY <1>3 DEF NoPaper, PaperShape, Graded, Grades
<1>4. CASE GraderGivesOut
  BY <1>1, <1>3, <1>4 DEF GraderGivesOut, GradingInv, RightAnswersCount
<1>5. CASE Save
  <2>1. paper' = NoPaper /\ Grades /\ paper.next = Len(Questions) + 1
    BY <1>5 DEF Save
  <2>2. CASE result # NoResult
    <3>1. result' = result
      BY <1>5, <2>2 DEF Save
    <3> QED BY <1>1, <1>3, <2>1, <3>1 DEF GradingInv, RightAnswersCount
  <2>3. CASE result = NoResult
    <3> DEFINE P == [q \in Number |-> PointsFor(q, paper.answers[q], paper.evidence[q])]
    <3>1. /\ result'.answers = paper.answers /\ result'.lost = paper.lost
          /\ result'.awarded = Total(P)
      BY <1>5, <2>3 DEF Save, GradeRun
    <3>2. paper.next - 1 = Len(Questions) /\ Number = 1..Len(Questions)
      BY <2>1, QuestionsKnown
    <3>3. \A q \in Number : PointsFor(q, paper.answers[q], paper.evidence[q])
                              = Due(q, paper.answers[q], paper.lost)
      BY <2>1, <3>2 DEF GradingInv, Graded
    <3>4. P = [q \in Number |-> Due(q, result'.answers[q], result'.lost)]
      BY <3>1, <3>3
    <3> HIDE DEF P
    <3>5. RightAnswersCount'
      BY <3>1, <3>4 DEF RightAnswersCount, Due
    <3> QED BY <1>1, <1>3, <2>1, <3>5 DEF GradingInv
  <2> QED BY <2>2, <2>3
<1> QED BY <1>2, <1>4, <1>5

LEMMA GradingInductive ==
    GradingInv /\ [GradingNext]_<<telemetryVars, gradingVars>> => GradingInv'
<1> SUFFICES ASSUME GradingInv, [GradingNext]_<<telemetryVars, gradingVars>>
             PROVE  GradingInv'
  OBVIOUS
<1>1. ASSUME UNCHANGED gradingVars, deploy = "recorded" => deploy' = "recorded"
      PROVE  PaperShape' /\ Graded' /\ RightAnswersCount'
  BY <1>1 DEF GradingInv, PaperShape, Graded, Grades, RightAnswersCount, gradingVars
<1>2. CASE UNCHANGED <<telemetryVars, gradingVars>>
  BY <1>1, <1>2 DEF GradingInv, Indexed, telemetryVars
<1>3. CASE TelemetryNext /\ UNCHANGED gradingVars
  <2>1. deploy = "recorded" => deploy' = "recorded"
    BY <1>3 DEF TelemetryNext, StartProvision, LookForManifest, CreateIndex, WriteEvents,
          Undo, CallFails, RecordRun, RecordFails, DeployFails, TearDown, DropIndex
  <2> QED BY <1>1, <1>3, <2>1, IndexStep DEF GradingInv
<1> QED BY <1>2, <1>3, GraderStep, SubmissionStep DEF GradingNext

\* RightAnswersCount for any questions, events and number of submissions: what
\* is recorded for a run gives every answer what it is worth, but for the ones
\* whose service gave no answer (grader app.ts, packages/grading, telemetry
\* service).
THEOREM AnswersAreWorthTheirPoints == GradingSafety => []RightAnswersCount
<1>1. GradingInv => RightAnswersCount
  BY DEF GradingInv
<1> QED BY <1>1, GradingBegins, GradingInductive, PTL DEF GradingSafety

\* Induction over finite sets, without an operator to instantiate: a set of
\* finite sets that has a member has one of which no smaller set is a member.
LEMMA LeastFinite ==
    ASSUME NEW S, NEW T, T \subseteq FiniteSubsetsOf(S), T # {}
    PROVE  \E A \in T : \A B \in T : B \subseteq A => B = A
<1>1. IsWellFoundedOn(StrictSubsetOrdering(S), FiniteSubsetsOf(S))
  BY FS_StrictSubsetOrderingWellFounded
<1>2. PICK A \in T : \A B \in T : ~(<<B, A>> \in StrictSubsetOrdering(S))
  BY <1>1, WFMin
<1>3. T \subseteq SUBSET S
  BY DEF FiniteSubsetsOf
<1> QED BY <1>2, <1>3 DEF StrictSubsetOrdering

\* What SumFunctionOnSet picks next, and the function it folds with.
Choice(s) == CHOOSE x \in s : TRUE
FoldsSum(g, v, A) ==
    g = [s \in SUBSET A |-> IF s = {} THEN 0 ELSE v[Choice(s)] + g[s \ {Choice(s)}]]

LEMMA SumIsFold == ASSUME NEW v, NEW A
    PROVE SumFunctionOnSet(v, A) = (CHOOSE g : FoldsSum(g, v, A))[A]
BY DEF SumFunctionOnSet, FoldFunctionOnSet, MapThenFoldSet, FoldsSum, Choice

LEMMA NextIsThere == ASSUME NEW s, s # {} PROVE Choice(s) \in s
BY DEF Choice

\* Two such functions agree where both are defined.
LEMMA FoldsAgree ==
    ASSUME NEW v, NEW g, NEW A, FoldsSum(g, v, A), NEW h, NEW B, FoldsSum(h, v, B),
           NEW s, s \subseteq A, s \subseteq B, IsFiniteSet(s)
    PROVE  g[s] = h[s]
<1> DEFINE Apart == {t \in FiniteSubsetsOf(s) : g[t] # h[t]}
<1>1. ASSUME g[s] # h[s] PROVE FALSE
  <2>1. s \in Apart
    BY <1>1 DEF FiniteSubsetsOf
  <2>2. PICK t \in Apart : \A r \in Apart : r \subseteq t => r = t
    <3>1. Apart \subseteq FiniteSubsetsOf(s) /\ Apart # {}
      BY <2>1
    <3> HIDE DEF Apart
    <3> QED BY <3>1, LeastFinite
  <2>3. t \subseteq s /\ IsFiniteSet(t) /\ g[t] # h[t]
    BY DEF FiniteSubsetsOf
  <2> DEFINE x == Choice(t)
             r == t \ {x}
  <2>4. /\ g[t] = IF t = {} THEN 0 ELSE v[x] + g[r]
        /\ h[t] = IF t = {} THEN 0 ELSE v[x] + h[r]
    BY <2>3 DEF FoldsSum
  <2>5. t # {} /\ x \in t
    BY <2>3, <2>4, NextIsThere
  <2>6. IsFiniteSet(r) /\ r \subseteq s
    BY <2>3, FS_RemoveElement
  <2>7. g[r] = h[r]
    BY <2>2, <2>5, <2>6 DEF FiniteSubsetsOf
  <2> QED BY <2>3, <2>4, <2>7
<1> QED BY <1>1

\* There is one for every finite set.
LEMMA FoldExists ==
    ASSUME NEW v, NEW A, IsFiniteSet(A)
    PROVE  \E g : FoldsSum(g, v, A)
<1> DEFINE Without == {B \in FiniteSubsetsOf(A) : ~ \E g : FoldsSum(g, v, B)}
<1>1. ASSUME ~ \E g : FoldsSum(g, v, A) PROVE FALSE
  <2>1. A \in Without
    BY <1>1 DEF FiniteSubsetsOf
  <2>2. PICK B \in Without : \A C \in Without : C \subseteq B => C = B
    <3>1. Without \subseteq FiniteSubsetsOf(A) /\ Without # {}
      BY <2>1
    <3> HIDE DEF Without
    <3> QED BY <3>1, LeastFinite
  <2>3. B \subseteq A /\ IsFiniteSet(B) /\ ~ \E g : FoldsSum(g, v, B)
    BY DEF FiniteSubsetsOf
  <2> DEFINE Of(C) == CHOOSE g : FoldsSum(g, v, C)
             x == Choice(B)
             Whole(s) == IF s = {} THEN 0 ELSE
                         IF s = B THEN v[x] + Of(B \ {x})[B \ {x}] ELSE Of(s)[s]
             g == [s \in SUBSET B |-> Whole(s)]
  <2>4. ASSUME NEW C, C \subseteq B, C # B PROVE FoldsSum(Of(C), v, C) /\ IsFiniteSet(C)
    <3>1. IsFiniteSet(C) /\ C \in FiniteSubsetsOf(A)
      BY <2>3, <2>4, FS_Subset DEF FiniteSubsetsOf
    <3>2. \E h : FoldsSum(h, v, C)
      BY <2>2, <2>4, <3>1
    <3> QED BY <3>1, <3>2
  <2> HIDE DEF Of
  <2>5. ASSUME NEW s \in SUBSET B
        PROVE  Whole(s) = IF s = {} THEN 0 ELSE v[Choice(s)] + g[s \ {Choice(s)}]
    <3>1. CASE s = {}
      BY <3>1
    <3>2. CASE s # {}
      <4> DEFINE r == s \ {Choice(s)}
      <4>1. Choice(s) \in s /\ r \in SUBSET B /\ r # B
        BY <3>2, NextIsThere
      <4>2. FoldsSum(Of(r), v, r) /\ IsFiniteSet(r)
        BY <4>1, <2>4
      <4>3. g[r] = Of(r)[r]
        <5>1. Of(r)[r] = IF r = {} THEN 0 ELSE v[Choice(r)] + Of(r)[r \ {Choice(r)}]
          BY <4>2 DEF FoldsSum
        <5> QED BY <5>1, <4>1
      <4>4. CASE s = B
        BY <4>4, <4>3, <3>2
      <4>5. CASE s # B
        <5>1. FoldsSum(Of(s), v, s)
          BY <4>5, <2>4
        <5>2. Of(s)[s] = v[Choice(s)] + Of(s)[r]
          BY <5>1, <3>2 DEF FoldsSum
        <5>3. Of(s)[r] = Of(r)[r]
          BY <5>1, <4>2, FoldsAgree
        <5> QED BY <5>2, <5>3, <4>3, <4>5, <3>2
      <4> QED BY <4>4, <4>5
    <3> QED BY <3>1, <3>2
  <2>6. FoldsSum(g, v, B)
    <3> HIDE DEF Whole
    <3>1. g = [s \in SUBSET B |-> IF s = {} THEN 0 ELSE v[Choice(s)] + g[s \ {Choice(s)}]]
      BY <2>5
    <3> HIDE DEF g
    <3> QED BY <3>1 DEF FoldsSum
  <2> QED BY <2>3, <2>6
<1> QED BY <1>1

\* So the sum is what its definition says.
LEMMA SumUnfolds ==
    ASSUME NEW v, NEW A, IsFiniteSet(A)
    PROVE  SumFunctionOnSet(v, A) =
             IF A = {} THEN 0
             ELSE v[Choice(A)] + SumFunctionOnSet(v, A \ {Choice(A)})
<1> DEFINE Of(C) == CHOOSE g : FoldsSum(g, v, C)
           r == A \ {Choice(A)}
<1>1. ASSUME NEW C, IsFiniteSet(C) PROVE FoldsSum(Of(C), v, C)
  BY <1>1, FoldExists
<1>2. \A C : SumFunctionOnSet(v, C) = Of(C)[C]
  BY SumIsFold
<1> HIDE DEF Of
<1>3. Of(A)[A] = IF A = {} THEN 0 ELSE v[Choice(A)] + Of(A)[r]
  BY <1>1 DEF FoldsSum
<1>4. IsFiniteSet(r)
  BY FS_RemoveElement
<1>5. Of(A)[r] = Of(r)[r]
  BY <1>1, <1>4, FoldsAgree
<1> QED BY <1>2, <1>3, <1>5

LEMMA EmptySum == ASSUME NEW v PROVE SumFunctionOnSet(v, {}) = 0
BY SumUnfolds, FS_EmptySet

\* A sum of integers is one, and it does not matter who is taken out first.
LEMMA SumIsInteger ==
    ASSUME NEW v, NEW A, IsFiniteSet(A), \A x \in A : v[x] \in Int
    PROVE  SumFunctionOnSet(v, A) \in Int
<1> DEFINE Odd == {B \in FiniteSubsetsOf(A) : SumFunctionOnSet(v, B) \notin Int}
<1>1. ASSUME SumFunctionOnSet(v, A) \notin Int PROVE FALSE
  <2>1. A \in Odd
    BY <1>1 DEF FiniteSubsetsOf
  <2>2. PICK B \in Odd : \A C \in Odd : C \subseteq B => C = B
    <3>1. Odd \subseteq FiniteSubsetsOf(A) /\ Odd # {}
      BY <2>1
    <3> HIDE DEF Odd
    <3> QED BY <3>1, LeastFinite
  <2>3. B \subseteq A /\ IsFiniteSet(B) /\ SumFunctionOnSet(v, B) \notin Int
    BY DEF FiniteSubsetsOf
  <2> DEFINE r == B \ {Choice(B)}
  <2>4. B # {}
    BY <2>3, EmptySum
  <2>5. Choice(B) \in B /\ SumFunctionOnSet(v, B) = v[Choice(B)] + SumFunctionOnSet(v, r)
    BY <2>3, <2>4, SumUnfolds, NextIsThere
  <2>6. r \in FiniteSubsetsOf(A) /\ r # B /\ r \subseteq B
    BY <2>3, <2>5, FS_RemoveElement DEF FiniteSubsetsOf
  <2>7. SumFunctionOnSet(v, r) \in Int
    BY <2>6, <2>2
  <2> QED BY <2>3, <2>5, <2>7
<1> QED BY <1>1

LEMMA SumTakesOut ==
    ASSUME NEW v, NEW A, IsFiniteSet(A), \A x \in A : v[x] \in Int, NEW y \in A
    PROVE  SumFunctionOnSet(v, A) = v[y] + SumFunctionOnSet(v, A \ {y})
<1> DEFINE Sum(B) == SumFunctionOnSet(v, B)
           Fits(B) == \A z \in B : Sum(B) = v[z] + Sum(B \ {z})
           Odd == {B \in FiniteSubsetsOf(A) : ~Fits(B)}
<1>1. \A B : B \subseteq A => IsFiniteSet(B) /\ Sum(B) \in Int
  BY SumIsInteger, FS_Subset
<1>2. \A B : B \subseteq A /\ B # {} => Choice(B) \in B /\ Sum(B) = v[Choice(B)] + Sum(B \ {Choice(B)})
  BY <1>1, SumUnfolds, NextIsThere
<1> HIDE DEF Sum
<1>3. ASSUME ~Fits(A) PROVE FALSE
  <2>1. A \in Odd
    BY <1>3 DEF FiniteSubsetsOf
  <2>2. PICK B \in Odd : \A C \in Odd : C \subseteq B => C = B
    <3>1. Odd \subseteq FiniteSubsetsOf(A) /\ Odd # {}
      BY <2>1
    <3> HIDE DEF Odd
    <3> QED BY <3>1, LeastFinite
  <2>3. B \subseteq A /\ ~Fits(B)
    BY DEF FiniteSubsetsOf
  <2>4. PICK z \in B : Sum(B) # v[z] + Sum(B \ {z})
    BY <2>3
  <2>5. PICK p : p = Choice(B)
    OBVIOUS
  <2>6. p \in B /\ p # z /\ Sum(B) = v[p] + Sum(B \ {p})
    BY <1>2, <2>3, <2>4, <2>5
  <2>7. Fits(B \ {p}) /\ Fits(B \ {z})
    <3>1. \A C : C \subseteq B /\ C # B => C \in FiniteSubsetsOf(A)
      BY <1>1, <2>3 DEF FiniteSubsetsOf
    <3> HIDE DEF Fits
    <3> QED BY <2>2, <2>6, <3>1
  <2>8. /\ Sum(B \ {p}) = v[z] + Sum((B \ {p}) \ {z})
        /\ Sum(B \ {z}) = v[p] + Sum((B \ {z}) \ {p})
    BY <2>6, <2>7
  <2>9. (B \ {p}) \ {z} = (B \ {z}) \ {p}
    OBVIOUS
  <2>10. PICK rest \in Int : rest = Sum((B \ {z}) \ {p})
    BY <1>1, <2>3
  <2>11. PICK here \in Int, there \in Int : here = v[p] /\ there = v[z]
    BY <2>3, <2>4, <2>6
  <2>12. Sum(B \ {p}) = there + rest /\ Sum(B \ {z}) = here + rest
    BY <2>8, <2>9, <2>10, <2>11
  <2>13. Sum(B) = here + (there + rest) /\ Sum(B) # there + (here + rest)
    BY <2>4, <2>6, <2>11, <2>12
  <2> QED BY <2>13
<1> QED BY <1>3 DEF Sum

\* The sum over what has no part in common.
LEMMA SumAdds ==
    ASSUME NEW v, NEW A, IsFiniteSet(A), NEW B, IsFiniteSet(B), A \cap B = {},
           \A x \in A \cup B : v[x] \in Int
    PROVE  SumFunctionOnSet(v, A \cup B) = SumFunctionOnSet(v, A) + SumFunctionOnSet(v, B)
<1> DEFINE Sum(C) == SumFunctionOnSet(v, C)
           Odd == {C \in FiniteSubsetsOf(B) : Sum(A \cup C) # Sum(A) + Sum(C)}
<1>1. IsFiniteSet(A \cup B)
  BY FS_Union
<1>2. \A C : C \subseteq A \cup B => IsFiniteSet(C) /\ Sum(C) \in Int
  BY <1>1, SumIsInteger, FS_Subset
<1>3. \A C, y : C \subseteq A \cup B /\ y \in C => Sum(C) = v[y] + Sum(C \ {y})
  <2> SUFFICES ASSUME NEW C, C \subseteq A \cup B, NEW y \in C
               PROVE  Sum(C) = v[y] + Sum(C \ {y})
    OBVIOUS
  <2>1. IsFiniteSet(C) /\ \A x \in C : v[x] \in Int
    BY <1>2
  <2> QED BY <2>1, SumTakesOut
<1>4. Sum({}) = 0
  BY EmptySum
<1> HIDE DEF Sum
<1>5. ASSUME Sum(A \cup B) # Sum(A) + Sum(B) PROVE FALSE
  <2>1. B \in Odd
    BY <1>5 DEF FiniteSubsetsOf
  <2>2. PICK C \in Odd : \A D \in Odd : D \subseteq C => D = C
    <3>1. Odd \subseteq FiniteSubsetsOf(B) /\ Odd # {}
      BY <2>1
    <3> HIDE DEF Odd
    <3> QED BY <3>1, LeastFinite
  <2>3. C \subseteq B /\ Sum(A \cup C) # Sum(A) + Sum(C)
    BY DEF FiniteSubsetsOf
  <2>4. C # {}
    <3>1. Sum(A) + 0 = Sum(A) /\ A \cup {} = A
      BY <1>2
    <3> QED BY <2>3, <1>4, <3>1
  <2>5. PICK y \in C : TRUE
    BY <2>4
  <2>6. Sum(A \cup (C \ {y})) = Sum(A) + Sum(C \ {y})
    BY <2>2, <2>3, <2>5, <1>2 DEF FiniteSubsetsOf
  <2>7. (A \cup C) \ {y} = A \cup (C \ {y})
    BY <2>3
  <2>8. Sum(C) = v[y] + Sum(C \ {y}) /\ Sum(A \cup C) = v[y] + Sum((A \cup C) \ {y})
    BY <1>3, <2>3
  <2>9. PICK a \in Int, rest \in Int, here \in Int :
           a = Sum(A) /\ rest = Sum(C \ {y}) /\ here = v[y]
    BY <1>2, <2>3
  <2>10. Sum(C) = here + rest /\ Sum(A \cup C) = here + (a + rest)
    BY <2>6, <2>7, <2>8, <2>9
  <2>11. Sum(A \cup C) # a + (here + rest)
    BY <2>3, <2>9, <2>10
  <2> QED BY <2>10, <2>11
<1> QED BY <1>5 DEF Sum

\* A finite set of integers has a greatest and a least member.
LEMMA MaxIsGreatest ==
    ASSUME NEW S \in SUBSET Int, IsFiniteSet(S), S # {}
    PROVE  Max(S) \in S /\ \A x \in S : x <= Max(S)
<1> DEFINE Topless == {B \in FiniteSubsetsOf(S) : B # {} /\ ~ \E t \in B : \A x \in B : x <= t}
<1>1. ASSUME ~ \E t \in S : \A x \in S : x <= t PROVE FALSE
  <2>1. S \in Topless
    BY <1>1 DEF FiniteSubsetsOf
  <2>2. PICK B \in Topless : \A C \in Topless : C \subseteq B => C = B
    <3>1. Topless \subseteq FiniteSubsetsOf(S) /\ Topless # {}
      BY <2>1
    <3> HIDE DEF Topless
    <3> QED BY <3>1, LeastFinite
  <2>3. B \subseteq S /\ IsFiniteSet(B) /\ B # {} /\ ~ \E t \in B : \A x \in B : x <= t
    BY DEF FiniteSubsetsOf
  <2>4. PICK b \in B : TRUE
    BY <2>3
  <2>5. B \ {b} \in FiniteSubsetsOf(S) /\ B \ {b} # B
    BY <2>3, <2>4, FS_RemoveElement DEF FiniteSubsetsOf
  <2>6. CASE B \ {b} = {}
    <3>1. B = {b}
      BY <2>4, <2>6
    <3> QED BY <2>3, <3>1
  <2>7. CASE B \ {b} # {}
    <3>1. PICK t \in B \ {b} : \A x \in B \ {b} : x <= t
      BY <2>2, <2>5, <2>7
    <3>2. t <= b \/ b <= t
      BY <2>3, <2>4, <3>1
    <3>3. CASE t <= b
      <4>1. \A x \in B : x <= b
        BY <2>3, <2>4, <3>1, <3>3
      <4> QED BY <4>1, <2>3, <2>4
    <3>4. CASE b <= t
      <4>1. \A x \in B : x <= t
        BY <2>3, <2>4, <3>1, <3>4
      <4> QED BY <4>1, <2>3, <3>1
    <3> QED BY <3>2, <3>3, <3>4
  <2> QED BY <2>6, <2>7
<1>2. PICK t \in S : \A x \in S : x <= t
  BY <1>1
<1>3. \E x \in S : \A y \in S : x >= y
  BY <1>2
<1>4. Max(S) \in S /\ \A y \in S : Max(S) >= y
  BY <1>3 DEF Max
<1> QED BY <1>4

LEMMA MinIsLeast ==
    ASSUME NEW S \in SUBSET Int, NEW t \in S, \A x \in S : t <= x
    PROVE  Min(S) = t
<1>1. \E x \in S : \A y \in S : x =< y
  OBVIOUS
<1>2. Min(S) \in S /\ \A y \in S : Min(S) =< y
  BY <1>1 DEF Min
<1>3. Min(S) \in Int /\ t \in Int /\ Min(S) <= t /\ t <= Min(S)
  BY <1>2
<1> QED BY <1>3

LEMMA MinIsThere ==
    ASSUME NEW S \in SUBSET Int, IsFiniteSet(S), S # {}
    PROVE  Min(S) \in S /\ \A x \in S : Min(S) <= x
<1> DEFINE Mirror == {0 - x : x \in S}
<1>1. IsFiniteSet(Mirror) /\ Mirror \in SUBSET Int /\ Mirror # {}
  <2>1. IsFiniteSet(Mirror)
    <3> DEFINE f == [x \in S |-> 0 - x]
    <3>1. f \in Surjection(S, Mirror)
      BY DEF Surjection
    <3> HIDE DEF f, Mirror
    <3> QED BY <3>1, FS_Surjection
  <2>2. Mirror \in SUBSET Int
    <3>1. \A x \in S : 0 - x \in Int
      OBVIOUS
    <3> QED BY <3>1
  <2>3. Mirror # {}
    <3>1. PICK x \in S : TRUE
      OBVIOUS
    <3>2. 0 - x \in Mirror
      OBVIOUS
    <3> QED BY <3>2
  <2> QED BY <2>1, <2>2, <2>3
<1>2. PICK t \in Mirror : \A x \in Mirror : x <= t
  <2> HIDE DEF Mirror
  <2> QED BY <1>1, MaxIsGreatest
<1>3. PICK s \in S : t = 0 - s
  BY <1>2
<1>4. \A x \in S : s <= x
  <2> SUFFICES ASSUME NEW x \in S PROVE s <= x
    OBVIOUS
  <2>1. 0 - x \in Mirror
    OBVIOUS
  <2>2. 0 - x <= t
    BY <1>2, <2>1
  <2> QED BY <1>3, <2>2
<1> QED BY <1>4, MinIsLeast

LEMMA TwoMax == ASSUME NEW a \in Int, NEW b \in Int
                PROVE  Max({a, b}) = IF a >= b THEN a ELSE b
<1>1. \E x \in {a, b} : \A y \in {a, b} : x >= y
  OBVIOUS
<1>2. Max({a, b}) \in {a, b} /\ \A y \in {a, b} : Max({a, b}) >= y
  BY <1>1 DEF Max
<1> QED BY <1>2

LEMMA TwoMin == ASSUME NEW a \in Int, NEW b \in Int
                PROVE  Min({a, b}) = IF a <= b THEN a ELSE b
<1>1. \E x \in {a, b} : \A y \in {a, b} : x <= y
  OBVIOUS
<1>2. Min({a, b}) \in {a, b} /\ \A y \in {a, b} : Min({a, b}) <= y
  BY <1>1 DEF Min
<1> QED BY <1>2

-----------------------------------------------------------------------------
(* Places in an order.                                                     *)

IsOrder(S, R) ==
    /\ \A x \in S : <<x, x>> \notin R
    /\ \A x, y, z \in S : <<x, y>> \in R /\ <<y, z>> \in R => <<x, z>> \in R
    /\ \A x, y \in S : x = y \/ <<x, y>> \in R \/ <<y, x>> \in R

ThoseBefore(S, R, x) == {y \in S : <<y, x>> \in R}

\* Each member of a finite set in order has a place of its own, and each place
\* its member.
LEMMA EveryPlaceIsTaken ==
    ASSUME NEW S, IsFiniteSet(S), NEW R, IsOrder(S, R)
    PROVE  /\ \A x, y \in S : Cardinality(ThoseBefore(S, R, x)) = Cardinality(ThoseBefore(S, R, y)) => x = y
           /\ \A k \in 1 .. Cardinality(S) :
                \E x \in S : Cardinality(ThoseBefore(S, R, x)) = k - 1
           /\ \A x \in S : Cardinality(ThoseBefore(S, R, x)) + 1 \in 1 .. Cardinality(S)
<1> DEFINE Rank(x) == Cardinality(ThoseBefore(S, R, x))
           n == Cardinality(S)
<1>1. \A x \in S : IsFiniteSet(ThoseBefore(S, R, x)) /\ Rank(x) \in Nat
  <2> SUFFICES ASSUME NEW x \in S PROVE IsFiniteSet(ThoseBefore(S, R, x)) /\ Rank(x) \in Nat
    OBVIOUS
  <2>1. ThoseBefore(S, R, x) \in SUBSET S
    BY DEF ThoseBefore
  <2> QED BY <2>1, FS_Subset, FS_CardinalityType
<1>2. ASSUME NEW x \in S, NEW y \in S, <<x, y>> \in R PROVE Rank(x) < Rank(y)
  <2>1. ThoseBefore(S, R, x) \cup {x} \in SUBSET ThoseBefore(S, R, y)
    BY <1>2 DEF ThoseBefore, IsOrder
  <2>2. x \notin ThoseBefore(S, R, x)
    BY DEF ThoseBefore, IsOrder
  <2>3. Cardinality(ThoseBefore(S, R, x) \cup {x}) = Rank(x) + 1
    BY <1>1, <2>2, FS_AddElement
  <2>4. Cardinality(ThoseBefore(S, R, x) \cup {x}) <= Rank(y)
    BY <1>1, <2>1, FS_Subset
  <2> QED BY <1>1, <2>3, <2>4
<1>3. n \in Nat
  BY FS_CardinalityType
<1>4. \A x \in S : Rank(x) < n
  <2> SUFFICES ASSUME NEW x \in S PROVE Rank(x) < n
    OBVIOUS
  <2>1. ThoseBefore(S, R, x) \in SUBSET S /\ x \notin ThoseBefore(S, R, x)
    BY DEF ThoseBefore, IsOrder
  <2>2. Rank(x) <= n /\ (n = Rank(x) => S = ThoseBefore(S, R, x))
    BY <2>1, FS_Subset
  <2> QED BY <1>1, <1>3, <2>1, <2>2
<1> HIDE DEF Rank, n
<1>5. \A x, y \in S : Rank(x) = Rank(y) => x = y
  <2> SUFFICES ASSUME NEW x \in S, NEW y \in S, Rank(x) = Rank(y), x # y PROVE FALSE
    OBVIOUS
  <2>1. <<x, y>> \in R \/ <<y, x>> \in R
    BY DEF IsOrder
  <2>2. Rank(x) < Rank(y) \/ Rank(y) < Rank(x)
    BY <1>2, <2>1
  <2> QED BY <1>1, <2>2
<1> DEFINE place == [x \in S |-> Rank(x) + 1]
<1>6. place \in Injection(S, 1 .. n)
  BY <1>1, <1>3, <1>4, <1>5 DEF Injection, IsInjective
<1>7. IsFiniteSet(1 .. n) /\ Cardinality(1 .. n) = n
  BY <1>3, FS_Interval
<1>8. place \in Surjection(S, 1 .. n)
  <2> HIDE DEF place
  <2> QED BY <1>6, <1>7, FS_Injection DEF n
<1>9. \A k \in 1 .. n : \E x \in S : Rank(x) = k - 1
  <2> SUFFICES ASSUME NEW k \in 1 .. n PROVE \E x \in S : Rank(x) = k - 1
    OBVIOUS
  <2>1. PICK x \in S : place[x] = k
    BY <1>8 DEF Surjection
  <2>2. k = Rank(x) + 1
    BY <2>1
  <2>3. Rank(x) = k - 1
    BY <1>1, <1>3, <2>2
  <2> QED BY <2>3
<1>10. \A x \in S : Rank(x) + 1 \in 1 .. n
  BY <1>1, <1>3, <1>4
<1> QED BY <1>5, <1>9, <1>10 DEF Rank, n

\* The rows are the members of S in their places.
InPlaces(S, R, rows) ==
    /\ DOMAIN rows = 1 .. Cardinality(S)
    /\ \A i \in DOMAIN rows : rows[i] \in S /\ Cardinality(ThoseBefore(S, R, rows[i])) = i - 1
    /\ \A x \in S : \E i \in DOMAIN rows : rows[i] = x

LEMMA TakenPlaces ==
    ASSUME NEW S, IsFiniteSet(S), NEW R, IsOrder(S, R), NEW rows,
           rows = [i \in 1 .. Cardinality(S) |->
                     CHOOSE x \in S : Cardinality(ThoseBefore(S, R, x)) = i - 1]
    PROVE  InPlaces(S, R, rows)
<1>1. \A i \in DOMAIN rows : rows[i] \in S /\ Cardinality(ThoseBefore(S, R, rows[i])) = i - 1
  <2> SUFFICES ASSUME NEW i \in 1 .. Cardinality(S)
               PROVE  rows[i] \in S /\ Cardinality(ThoseBefore(S, R, rows[i])) = i - 1
    OBVIOUS
  <2>1. \E x \in S : Cardinality(ThoseBefore(S, R, x)) = i - 1
    BY EveryPlaceIsTaken
  <2> QED BY <2>1
<1>2. \A x \in S : \E i \in DOMAIN rows : rows[i] = x
  <2> SUFFICES ASSUME NEW x \in S PROVE \E i \in DOMAIN rows : rows[i] = x
    OBVIOUS
  <2>1. PICK k \in Nat : k = Cardinality(ThoseBefore(S, R, x))
    <3>1. ThoseBefore(S, R, x) \in SUBSET S
      BY DEF ThoseBefore
    <3>2. IsFiniteSet(ThoseBefore(S, R, x))
      BY <3>1, FS_Subset
    <3> QED BY <3>2, FS_CardinalityType
  <2>2. k + 1 \in DOMAIN rows
    BY <2>1, EveryPlaceIsTaken
  <2>3. rows[k + 1] \in S /\ Cardinality(ThoseBefore(S, R, rows[k + 1])) = k
    BY <1>1, <2>1, <2>2
  <2>4. rows[k + 1] = x
    BY <2>1, <2>3, EveryPlaceIsTaken
  <2> QED BY <2>2, <2>4
<1> QED BY <1>1, <1>2 DEF InPlaces

LEMMA PlacesDiffer ==
    ASSUME NEW S, IsFiniteSet(S), NEW R, NEW rows, InPlaces(S, R, rows)
    PROVE  /\ Cardinality(S) \in Nat
           /\ \A i, j \in DOMAIN rows : rows[i] = rows[j] => i = j
<1>1. Cardinality(S) \in Nat
  BY FS_CardinalityType
<1>2. ASSUME NEW i \in DOMAIN rows, NEW j \in DOMAIN rows, rows[i] = rows[j] PROVE i = j
  <2>1. i - 1 = j - 1 /\ i \in Int /\ j \in Int
    BY <1>1, <1>2 DEF InPlaces
  <2> QED BY <2>1
<1> QED BY <1>1, <1>2

\* In an order that goes by points first, the first place with certain points
\* comes after those with more, and there is no other before it.
LEMMA TiesShareARank ==
    ASSUME NEW S, IsFiniteSet(S), NEW R, IsOrder(S, R), NEW rows, InPlaces(S, R, rows),
           NEW pts \in [S -> Int],
           \A x, y \in S : /\ <<x, y>> \in R => pts[x] >= pts[y]
                           /\ pts[x] > pts[y] => <<x, y>> \in R,
           NEW i \in DOMAIN rows
    PROVE  Min({j \in DOMAIN rows : pts[rows[j]] = pts[rows[i]]})
             = 1 + Cardinality({x \in S : pts[x] > pts[rows[i]]})
<1> DEFINE p == pts[rows[i]]
           More == {x \in S : pts[x] > p}
           m == Cardinality(More)
           n == Cardinality(S)
           Same == {j \in DOMAIN rows : pts[rows[j]] = p}
<1>1. DOMAIN rows = 1 .. n /\ n \in Nat
  BY FS_CardinalityType DEF InPlaces
<1>2. \A j \in DOMAIN rows : rows[j] \in S /\ Cardinality(ThoseBefore(S, R, rows[j])) = j - 1
  BY DEF InPlaces
<1>3. rows[i] \in S /\ p \in Int
  BY <1>2
<1>4. IsFiniteSet(More) /\ m \in Nat
  <2>1. More \in SUBSET S
    OBVIOUS
  <2> QED BY <2>1, FS_Subset, FS_CardinalityType
<1>5. \A x \in S : ThoseBefore(S, R, x) \in SUBSET S /\ IsFiniteSet(ThoseBefore(S, R, x))
  <2> SUFFICES ASSUME NEW x \in S
               PROVE  ThoseBefore(S, R, x) \in SUBSET S /\ IsFiniteSet(ThoseBefore(S, R, x))
    OBVIOUS
  <2>1. ThoseBefore(S, R, x) \in SUBSET S
    BY DEF ThoseBefore
  <2> QED BY <2>1, FS_Subset
<1> HIDE DEF p
<1>6. m < n
  <2>1. IsFiniteSet(More \cup {rows[i]}) /\ Cardinality(More \cup {rows[i]}) = m + 1
    <3>1. rows[i] \notin More
      BY <1>3 DEF p
    <3> QED BY <3>1, <1>4, FS_AddElement
  <2>2. More \cup {rows[i]} \in SUBSET S
    BY <1>3
  <2>3. m + 1 <= n
    BY <2>1, <2>2, FS_Subset
  <2> QED BY <1>1, <1>4, <2>3
<1> HIDE DEF m, n
<1>7. m + 1 \in DOMAIN rows
  BY <1>1, <1>4, <1>6
<1>8. PICK z \in S : z = rows[m + 1] /\ Cardinality(ThoseBefore(S, R, z)) = m
  BY <1>2, <1>4, <1>7
<1>9. ~(pts[z] > p)
  <2>1. ASSUME pts[z] > p PROVE FALSE
    <3>1. ThoseBefore(S, R, z) \in SUBSET (More \ {z})
      <4> SUFFICES ASSUME NEW y \in ThoseBefore(S, R, z) PROVE y \in More \ {z}
        OBVIOUS
      <4>1. y \in S /\ <<y, z>> \in R
        BY DEF ThoseBefore
      <4>2. y # z /\ pts[y] >= pts[z]
        BY <4>1 DEF IsOrder
      <4>3. pts[y] > p
        BY <1>3, <2>1, <4>1, <4>2
      <4> QED BY <4>1, <4>2, <4>3
    <3>2. IsFiniteSet(More \ {z}) /\ Cardinality(More \ {z}) = m - 1
      BY <1>4, <2>1, FS_RemoveElement DEF m
    <3>3. m <= m - 1
      BY <3>1, <3>2, <1>8, FS_Subset
    <3> QED BY <3>3, <1>4
  <2> QED BY <2>1
<1>10. ~(pts[z] < p)
  <2>1. ASSUME pts[z] < p PROVE FALSE
    <3>1. More \cup {rows[i]} \in SUBSET ThoseBefore(S, R, z)
      <4> SUFFICES ASSUME NEW y \in More \cup {rows[i]} PROVE y \in ThoseBefore(S, R, z)
        OBVIOUS
      <4>1. y \in S /\ pts[y] >= p
        BY <1>3 DEF p
      <4>2. pts[y] > pts[z]
        BY <1>3, <2>1, <4>1
      <4> QED BY <4>1, <4>2 DEF ThoseBefore
    <3>2. Cardinality(More \cup {rows[i]}) = m + 1
      <4>1. rows[i] \notin More
        BY <1>3 DEF p
      <4> QED BY <4>1, <1>4, FS_AddElement DEF m
    <3>3. m + 1 <= m
      BY <3>1, <3>2, <1>5, <1>8, FS_Subset
    <3> QED BY <3>3, <1>4
  <2> QED BY <2>1
<1>11. m + 1 \in Same
  BY <1>3, <1>7, <1>8, <1>9, <1>10
<1>12. \A j \in Same : m + 1 <= j
  <2> SUFFICES ASSUME NEW j \in DOMAIN rows, pts[rows[j]] = p PROVE m + 1 <= j
    OBVIOUS
  <2>1. More \in SUBSET ThoseBefore(S, R, rows[j])
    <3> SUFFICES ASSUME NEW y \in More PROVE y \in ThoseBefore(S, R, rows[j])
      OBVIOUS
    <3>1. rows[j] \in S
      BY <1>2
    <3>2. <<y, rows[j]>> \in R
      BY <3>1
    <3> QED BY <3>2 DEF ThoseBefore
  <2>2. m <= j - 1
    BY <1>2, <1>5, <2>1, FS_Subset DEF m
  <2> QED BY <1>1, <1>4, <2>2
<1>13. Same \in SUBSET Int
  BY <1>1
<1> HIDE DEF Same, More
<1>14. Min(Same) = m + 1
  BY <1>11, <1>12, <1>13, MinIsLeast
<1> QED BY <1>14, <1>4 DEF Same, More, m, p

-----------------------------------------------------------------------------
(* What is graded, and what it is worth.                                   *)

StandingsInv ==
    StandingsTypeOK /\ graded \in Seq([user : Everybody, on : Nat, work : Works])

LEMMA GradedFacts ==
    ASSUME StandingsInv
    PROVE  /\ IsFiniteSet(DOMAIN graded)
           /\ \A i \in DOMAIN graded : /\ graded[i].user \in Everybody
                                       /\ graded[i].on \in Nat /\ graded[i].work \in Works
<1>1. DOMAIN graded = 1 .. Len(graded) /\ Len(graded) \in Nat
  BY DEF StandingsInv
<1>2. IsFiniteSet(1 .. Len(graded))
  BY <1>1, FS_Interval
<1>3. ASSUME NEW i \in DOMAIN graded
      PROVE  /\ graded[i].user \in Everybody
             /\ graded[i].on \in Nat /\ graded[i].work \in Works
  <2>1. graded[i] \in [user : Everybody, on : Nat, work : Works]
    <3> DEFINE Entries == [user : Everybody, on : Nat, work : Works]
    <3>1. graded \in Seq(Entries)
      BY DEF StandingsInv
    <3> HIDE DEF Entries
    <3>2. graded[i] \in Entries
      BY <1>1, <1>3, <3>1
    <3> QED BY <3>2 DEF Entries
  <2> QED BY <2>1
<1>4. IsFiniteSet(DOMAIN graded)
  BY <1>1, <1>2
<1> QED BY <1>3, <1>4

LEMMA ListedAreFinite ==
    ASSUME NEW s, s \in Seq(Range(s))
    PROVE  IsFiniteSet(Range(s))
<1>1. DOMAIN s = 1 .. Len(s) /\ Len(s) \in Nat
  OBVIOUS
<1>2. IsFiniteSet(DOMAIN s)
  BY <1>1, FS_Interval
<1>3. s \in Surjection(DOMAIN s, Range(s))
  BY DEF Surjection, Range
<1> QED BY <1>2, <1>3, FS_Surjection

LEMMA PeopleAreFinite == IsFiniteSet(Everybody) /\ IsFiniteSet(Organizations)
BY OneHandleEach, ListedAreFinite DEF Everybody, Organizations

\* Who is earlier on a list.
LEMMA PlacesOnAList ==
    ASSUME NEW s, s \in Seq(Range(s)), IsInjective(s)
    PROVE  /\ \A x \in Range(s) : Place(s, x) \in Nat
           /\ \A x, y \in Range(s) : Place(s, x) = Place(s, y) => x = y
<1>1. \A x \in Range(s) : Place(s, x) \in DOMAIN s /\ s[Place(s, x)] = x
  BY DEF Place, Range
<1>2. DOMAIN s \subseteq Nat
  OBVIOUS
<1> QED BY <1>1, <1>2

LEMMA RoundedIsInteger ==
    ASSUME NEW part \in Int, NEW whole \in Int, whole > 0
    PROVE  Rounded(part, whole) \in Int
BY DEF Rounded

LEMMA PercentIsPercent ==
    ASSUME NEW part \in Int, NEW whole \in Int
    PROVE  Percent(part, whole) \in 0 .. 100
<1>1. CASE whole <= 0
  BY <1>1 DEF Percent
<1>2. CASE whole > 0
  <2>1. PICK r \in Int : r = Rounded(100 * part, whole)
    BY <1>2, RoundedIsInteger
  <2>2. Min({100, r}) = IF 100 <= r THEN 100 ELSE r
    BY TwoMin
  <2>3. PICK l \in Int : l = Min({100, r}) /\ l <= 100
    BY <2>2
  <2>4. Max({0, l}) \in 0 .. 100
    <3>1. Max({0, l}) = IF 0 >= l THEN 0 ELSE l
      BY TwoMax
    <3> QED BY <2>3, <3>1
  <2>5. Percent(part, whole) = Max({0, l})
    BY <1>2, <2>1, <2>3 DEF Percent
  <2> QED BY <2>4, <2>5
<1> QED BY <1>1, <1>2

LEMMA PointsAreBounded ==
    ASSUME NEW work \in Works, NEW skills
    PROVE  /\ PointsOf(work, skills) \in 0 .. 100 /\ FullOf(work, skills) \in {0, 100}
           /\ PointsOf(work, skills) <= FullOf(work, skills)
<1>1. work.points \in 0 .. 100
  BY FullMarks
<1>2. CASE Skilled(work, skills)
  BY <1>1, <1>2 DEF PointsOf, FullOf
<1>3. CASE ~Skilled(work, skills)
  BY <1>3 DEF PointsOf, FullOf
<1> QED BY <1>2, <1>3

LEMMA ScoreOfWork ==
    ASSUME NEW work \in Works, NEW skills
    PROVE  SeasonScore(work, skills) \in Int
<1>1. work.used \in Nat /\ work.hints \in 0 .. 20 /\ Ttl \in Nat \ {0}
  BY FullMarks, RunsHaveTime
<1>2. TimeFactor(work) \in Int
  <2>1. PICK a \in Int, b \in Int : a = 20 * Ttl /\ b = 40 * (Ttl - work.used)
    BY <1>1
  <2>2. PICK c \in Int : c = Min({a, b})
    BY TwoMin
  <2>3. Max({0, c}) \in Int
    BY TwoMax
  <2>4. TimeFactor(work) = 100 * Ttl + Max({0, c})
    BY <2>1, <2>2 DEF TimeFactor
  <2> QED BY <1>1, <2>3, <2>4
<1>3. HintFactor(work) \in Int
  <2>1. PICK a \in Int : a = 4 * work.hints
    BY <1>1
  <2>2. Min({20, a}) \in Int
    BY TwoMin
  <2>3. HintFactor(work) = 100 - Min({20, a})
    BY <2>1 DEF HintFactor
  <2> QED BY <2>2, <2>3
<1>4. PICK level \in Int : level = Levels[work.level]
  BY KnownLevels DEF Levels
<1>5. PICK points \in Int : points = PointsOf(work, skills)
  BY PointsAreBounded
<1>6. PICK time \in Int, hints \in Int : time = TimeFactor(work) /\ hints = HintFactor(work)
  BY <1>2, <1>3
<1>7. level * points * time * hints \in Int
  OBVIOUS
<1>8. 100 * Ttl * 100 * 100 \in Int /\ 100 * Ttl * 100 * 100 > 0
  BY <1>1
<1>9. Rounded(level * points * time * hints, 100 * Ttl * 100 * 100) \in Int
  BY <1>7, <1>8, RoundedIsInteger
<1> QED BY <1>4, <1>5, <1>6, <1>9 DEF SeasonScore

LEMMA ResultsAreGraded ==
    ASSUME StandingsInv, NEW u, NEW window
    PROVE  ResultsOf(u, window) \in SUBSET DOMAIN graded /\ IsFiniteSet(ResultsOf(u, window))
<1>1. ResultsOf(u, window) \in SUBSET DOMAIN graded
  BY DEF ResultsOf
<1> QED BY <1>1, GradedFacts, FS_Subset

\* Sums over results.
Earned(skills) == [i \in DOMAIN graded |-> PointsOf(graded[i].work, skills)]
Possible(skills) == [i \in DOMAIN graded |-> FullOf(graded[i].work, skills)]

LEMMA EarnedAndPossible ==
    ASSUME StandingsInv, NEW skills, NEW I \in SUBSET DOMAIN graded
    PROVE  /\ \A i \in I : Earned(skills)[i] \in Int /\ Possible(skills)[i] \in Int
           /\ SumFunctionOnSet(Earned(skills), I) \in Int
           /\ SumFunctionOnSet(Possible(skills), I) \in Int
           /\ AccuracyOf(I, skills) = Percent(SumFunctionOnSet(Earned(skills), I),
                                              SumFunctionOnSet(Possible(skills), I))
           /\ AccuracyOf(I, skills) \in 0 .. 100
<1>1. \A i \in I : Earned(skills)[i] \in Int /\ Possible(skills)[i] \in Int
  BY GradedFacts, PointsAreBounded DEF Earned, Possible
<1>2. IsFiniteSet(I)
  BY GradedFacts, FS_Subset
<1>3. SumFunctionOnSet(Earned(skills), I) \in Int /\ SumFunctionOnSet(Possible(skills), I) \in Int
  BY <1>1, <1>2, SumIsInteger
<1>4. AccuracyOf(I, skills) = Percent(SumFunctionOnSet(Earned(skills), I),
                                      SumFunctionOnSet(Possible(skills), I))
  BY DEF AccuracyOf, Earned, Possible
<1>5. AccuracyOf(I, skills) \in 0 .. 100
  BY <1>3, <1>4, PercentIsPercent
<1> QED BY <1>1, <1>3, <1>4, <1>5

LEMMA ScoresAreIntegers ==
    ASSUME StandingsInv, NEW u, NEW window, NEW skills
    PROVE  /\ ScoreOf(u, window, skills) \in Int
           /\ Cardinality(ResultsOf(u, window)) \in Nat
<1> DEFINE worth == [i \in DOMAIN graded |-> SeasonScore(graded[i].work, skills)]
<1>1. \A i \in ResultsOf(u, window) : worth[i] \in Int
  BY ResultsAreGraded, GradedFacts, ScoreOfWork
<1>2. SumFunctionOnSet(worth, ResultsOf(u, window)) \in Int
  <2> HIDE DEF worth
  <2> QED BY <1>1, ResultsAreGraded, SumIsInteger
<1>3. Cardinality(ResultsOf(u, window)) \in Nat
  BY ResultsAreGraded, FS_CardinalityType
<1> QED BY <1>2, <1>3 DEF ScoreOf

-----------------------------------------------------------------------------
(* A board.                                                                *)

RowsFor(users, window, skills) ==
    {r \in {RowOf(u, window, skills) : u \in users} : r.points > 0}
ByAhead(S) == {p \in S \X S : Ahead(p[1], p[2])}

LEMMA RowFacts ==
    ASSUME StandingsInv, NEW users \in SUBSET Everybody, NEW window, NEW skills
    PROVE  /\ IsFiniteSet(RowsFor(users, window, skills))
           /\ \A r \in RowsFor(users, window, skills) :
                 /\ r.user \in users /\ r = RowOf(r.user, window, skills)
                 /\ r.points \in Int /\ r.labs \in Nat
<1> DEFINE rowFor == [u \in users |-> RowOf(u, window, skills)]
           All == {RowOf(u, window, skills) : u \in users}
<1>1. IsFiniteSet(users)
  BY PeopleAreFinite, FS_Subset
<1>2. rowFor \in Surjection(users, All)
  BY DEF Surjection
<1>3. IsFiniteSet(All)
  <2> HIDE DEF rowFor, All
  <2> QED BY <1>1, <1>2, FS_Surjection
<1>4. IsFiniteSet(RowsFor(users, window, skills))
  <2>1. RowsFor(users, window, skills) \in SUBSET All
    BY DEF RowsFor
  <2> HIDE DEF All
  <2> QED BY <1>3, <2>1, FS_Subset
<1>5. ASSUME NEW r \in RowsFor(users, window, skills)
      PROVE  /\ r.user \in users /\ r = RowOf(r.user, window, skills)
             /\ r.points \in Int /\ r.labs \in Nat
  <2>1. PICK u \in users : r = RowOf(u, window, skills)
    BY <1>5 DEF RowsFor
  <2>2. /\ r.user = u /\ r.points = ScoreOf(u, window, skills)
        /\ r.labs = Cardinality(ResultsOf(u, window))
    BY <2>1 DEF RowOf
  <2> QED BY <2>1, <2>2, ScoresAreIntegers
<1> QED BY <1>4, <1>5

LEMMA RowsAreInOrder ==
    ASSUME StandingsInv, NEW users \in SUBSET Everybody, NEW window, NEW skills,
           NEW S, S = RowsFor(users, window, skills)
    PROVE  /\ IsOrder(S, ByAhead(S))
           /\ InPlaces(S, ByAhead(S), Ranked(users, window, skills))
<1> DEFINE R == ByAhead(S)
           spot(x) == Place(Learners, x.user)
<1>1. \A x, y \in S : <<x, y>> \in R <=> Ahead(x, y)
  BY DEF ByAhead
<1>2. \A x \in S : x.points \in Int /\ x.labs \in Int /\ spot(x) \in Int
  <2> SUFFICES ASSUME NEW x \in S PROVE x.points \in Int /\ x.labs \in Int /\ spot(x) \in Int
    OBVIOUS
  <2>1. x.user \in Everybody /\ x.points \in Int /\ x.labs \in Nat
    BY RowFacts
  <2> QED BY <2>1, OneHandleEach, PlacesOnAList DEF Everybody
<1>3. \A x, y \in S : spot(x) = spot(y) => x = y
  <2> SUFFICES ASSUME NEW x \in S, NEW y \in S, spot(x) = spot(y) PROVE x = y
    OBVIOUS
  <2>1. /\ x.user \in Everybody /\ x = RowOf(x.user, window, skills)
        /\ y.user \in Everybody /\ y = RowOf(y.user, window, skills)
    BY RowFacts
  <2>2. x.user = y.user
    BY <2>1, OneHandleEach, PlacesOnAList DEF Everybody
  <2> QED BY <2>1, <2>2
<1>4. \A x, y \in S : Ahead(x, y) <=>
         \/ x.points > y.points
         \/ x.points = y.points /\ x.labs > y.labs
         \/ x.points = y.points /\ x.labs = y.labs /\ spot(x) < spot(y)
  BY DEF Ahead
<1> HIDE DEF spot, R
<1>5. IsOrder(S, R)
  <2>1. \A x \in S : <<x, x>> \notin R
    BY <1>1, <1>2, <1>4
  <2>2. ASSUME NEW x \in S, NEW y \in S, NEW z \in S, <<x, y>> \in R, <<y, z>> \in R
        PROVE  <<x, z>> \in R
    <3>1. Ahead(x, y) /\ Ahead(y, z)
      BY <1>1, <2>2
    <3>2. Ahead(x, z)
      BY <1>2, <1>4, <3>1
    <3> QED BY <1>1, <3>2
  <2>3. ASSUME NEW x \in S, NEW y \in S PROVE x = y \/ <<x, y>> \in R \/ <<y, x>> \in R
    <3>1. spot(x) = spot(y) \/ Ahead(x, y) \/ Ahead(y, x)
      BY <1>2, <1>4
    <3> QED BY <1>1, <1>3, <3>1
  <2> QED BY <2>1, <2>2, <2>3 DEF IsOrder
<1>6. Ranked(users, window, skills)
        = [i \in 1 .. Cardinality(S) |->
             CHOOSE x \in S : Cardinality(ThoseBefore(S, R, x)) = i - 1]
  <2>1. Ranked(users, window, skills)
          = [i \in 1 .. Cardinality(S) |->
               CHOOSE x \in S : Cardinality({y \in S : Ahead(y, x)}) = i - 1]
    BY DEF Ranked, Ordered, RowsFor
  <2>2. \A x \in S : {y \in S : Ahead(y, x)} = ThoseBefore(S, R, x)
    BY <1>1 DEF ThoseBefore
  <2>3. \A i : (CHOOSE x \in S : Cardinality({y \in S : Ahead(y, x)}) = i - 1)
                = (CHOOSE x \in S : Cardinality(ThoseBefore(S, R, x)) = i - 1)
    BY <2>2
  <2> QED BY <2>1, <2>3
<1>7. IsFiniteSet(S)
  BY RowFacts
<1>8. InPlaces(S, R, Ranked(users, window, skills))
  BY <1>5, <1>6, <1>7, TakenPlaces
<1> QED BY <1>5, <1>8 DEF R

MorePoints(board, e) == {f \in Range(board) : f.row.points > e.row.points}

\* A rank says how many have more points, and a board lists those it is about.
LEMMA RanksCountThoseAhead ==
    ASSUME StandingsInv, NEW users \in SUBSET Everybody, NEW period, NEW skills,
           NEW board, board = Board(users, period, skills)
    PROVE  /\ \A e \in Range(board) :
                /\ e.rank = 1 + Cardinality(MorePoints(board, e))
                /\ e.row \in RowsFor(users, PeriodWindow(period), skills)
           /\ \A e, f \in Range(board) : e.row = f.row => e = f
           /\ Range(board) = {board[i] : i \in DOMAIN board}
<1>1. PICK S : S = RowsFor(users, PeriodWindow(period), skills)
  OBVIOUS
<1>2. PICK rows : rows = Ranked(users, PeriodWindow(period), skills)
  OBVIOUS
<1>3. /\ IsOrder(S, ByAhead(S)) /\ InPlaces(S, ByAhead(S), rows) /\ IsFiniteSet(S)
  BY <1>1, <1>2, RowsAreInOrder, RowFacts
<1>4. /\ DOMAIN board = DOMAIN rows
      /\ \A i \in DOMAIN rows : board[i].row = rows[i] /\ board[i].rank = RankAt(rows, i)
  BY <1>2 DEF Board
<1>5. /\ \A i \in DOMAIN rows : rows[i] \in S
      /\ \A i, j \in DOMAIN rows : rows[i] = rows[j] => i = j
      /\ \A x \in S : \E i \in DOMAIN rows : rows[i] = x
  BY <1>3, PlacesDiffer DEF InPlaces
<1>6. Range(board) = {board[i] : i \in DOMAIN board}
  BY DEF Range
<1>7. \A e, f \in Range(board) : e.row = f.row => e = f
  BY <1>4, <1>5, <1>6
<1>8. ASSUME NEW e \in Range(board)
      PROVE  /\ e.rank = 1 + Cardinality(MorePoints(board, e))
             /\ e.row \in S
  <2>1. PICK i \in DOMAIN rows : e = board[i]
    BY <1>4, <1>6, <1>8
  <2>2. e.row = rows[i] /\ e.row \in S /\ e.rank = RankAt(rows, i)
    BY <1>4, <1>5, <2>1
  <2> DEFINE pts == [x \in S |-> x.points]
             More == {x \in S : pts[x] > pts[rows[i]]}
             Better == {f \in Range(board) : f.row.points > e.row.points}
  <2>3. pts \in [S -> Int]
    <3>1. \A x \in S : x.points \in Int
      BY <1>1, RowFacts
    <3> QED BY <3>1
  <2>4. \A x, y \in S : /\ <<x, y>> \in ByAhead(S) => pts[x] >= pts[y]
                        /\ pts[x] > pts[y] => <<x, y>> \in ByAhead(S)
    <3>1. ASSUME NEW x \in S, NEW y \in S
          PROVE  /\ <<x, y>> \in ByAhead(S) => pts[x] >= pts[y]
                 /\ pts[x] > pts[y] => <<x, y>> \in ByAhead(S)
      <4>1. pts[x] = x.points /\ pts[y] = y.points /\ pts[x] \in Int /\ pts[y] \in Int
        BY <2>3
      <4>2. <<x, y>> \in ByAhead(S) <=> Ahead(x, y)
        BY DEF ByAhead
      <4> HIDE DEF pts
      <4> QED BY <4>1, <4>2 DEF Ahead
    <3> QED BY <3>1
  <2>5. {j \in DOMAIN rows : rows[j].points = rows[i].points}
          = {j \in DOMAIN rows : pts[rows[j]] = pts[rows[i]]}
    BY <1>5
  <2> HIDE DEF pts
  <2>6. RankAt(rows, i) = 1 + Cardinality(More)
    <3>1. Min({j \in DOMAIN rows : pts[rows[j]] = pts[rows[i]]}) = 1 + Cardinality(More)
      BY <1>3, <2>3, <2>4, TiesShareARank
    <3> QED BY <3>1, <2>5 DEF RankAt
  <2>7. Cardinality(Better) = Cardinality(More)
    <3> DEFINE inRow == [f \in Better |-> f.row]
    <3>1. \A f \in Better : f.row \in More
      <4> SUFFICES ASSUME NEW f \in Range(board), f.row.points > e.row.points
                   PROVE  f.row \in More
        OBVIOUS
      <4>1. f.row \in S
        BY <1>4, <1>5, <1>6
      <4> QED BY <4>1, <2>2 DEF pts
    <3>2. \A x \in More : \E f \in Better : f.row = x
      <4> SUFFICES ASSUME NEW x \in S, pts[x] > pts[rows[i]]
                   PROVE  \E f \in Better : f.row = x
        OBVIOUS
      <4>1. PICK j \in DOMAIN rows : rows[j] = x
        BY <1>5
      <4>2. board[j] \in Range(board) /\ board[j].row = x
        BY <1>4, <1>6, <4>1
      <4>3. x.points > e.row.points
        BY <2>2 DEF pts
      <4> QED BY <4>2, <4>3
    <3>3. \A f, g \in Better : f.row = g.row => f = g
      BY <1>7
    <3> HIDE DEF Better, More
    <3>4. inRow \in Bijection(Better, More)
      BY <3>1, <3>2, <3>3 DEF Bijection, Injection, Surjection, IsInjective
    <3>5. ExistsBijection(Better, More)
      BY <3>4 DEF ExistsBijection
    <3>6. IsFiniteSet(Better)
      <4>1. IsFiniteSet(More)
        <5>1. More \in SUBSET S
          BY DEF More
        <5> QED BY <1>3, <5>1, FS_Subset
      <4>2. inRow \in Injection(Better, More)
        BY <3>4 DEF Bijection
      <4> QED BY <4>1, <4>2, FS_Injection
    <3> QED BY <3>5, <3>6, FS_Bijection
  <2>8. Better = MorePoints(board, e)
    BY DEF MorePoints
  <2> HIDE DEF Better, More
  <2> QED BY <2>2, <2>6, <2>7, <2>8
<1> QED BY <1>1, <1>6, <1>7, <1>8

\* What a viewer is told beside the board is what the board says.
LEMMA ViewersAreToldTheBoard ==
    ASSUME StandingsInv, NEW users \in SUBSET Everybody, NEW period, NEW skills,
           NEW board, board = Board(users, period, skills),
           NEW e \in Range(board),
           NEW told, told = ViewerSummary(e.row.user, board, period, skills)
    PROVE  /\ told.rank = e.rank /\ told.points = e.row.points
           /\ told.labs = e.row.labs /\ told.accuracy = e.row.accuracy
<1>1. PICK window : window = PeriodWindow(period)
  OBVIOUS
<1>2. PICK u : u = e.row.user
  OBVIOUS
<1>3. \A f \in Range(board) :
        /\ f.row \in RowsFor(users, window, skills)
        /\ f.row = RowOf(f.row.user, window, skills)
  <2> SUFFICES ASSUME NEW f \in Range(board)
               PROVE  /\ f.row \in RowsFor(users, window, skills)
                      /\ f.row = RowOf(f.row.user, window, skills)
    OBVIOUS
  <2>1. f.row \in RowsFor(users, window, skills)
    BY <1>1, RanksCountThoseAhead
  <2>2. \A r \in RowsFor(users, window, skills) : r = RowOf(r.user, window, skills)
    BY RowFacts
  <2> QED BY <2>1, <2>2
<1>4. e.row = RowOf(u, window, skills)
  BY <1>2, <1>3
<1>5. \A f \in Range(board) : f.row.user = u => f = e
  <2> SUFFICES ASSUME NEW f \in Range(board), f.row.user = u PROVE f = e
    OBVIOUS
  <2>1. f.row = e.row
    BY <1>3, <1>4
  <2> QED BY <2>1, RanksCountThoseAhead
<1>6. PICK i \in DOMAIN board : board[i] = e
  BY DEF Range
<1>7. (CHOOSE f \in Range(board) : f.row.user = u) = e
  BY <1>2, <1>5
<1>8. told.rank = e.rank
  <2>1. \E j \in DOMAIN board : board[j].row.user = u
    BY <1>2, <1>6
  <2>2. told.rank = (CHOOSE f \in Range(board) : f.row.user = u).rank
    BY <1>2, <2>1 DEF ViewerSummary
  <2> QED BY <1>7, <2>2
<1>9. /\ told.points = ScoreOf(u, window, skills)
      /\ told.labs = Cardinality(ResultsOf(u, window))
      /\ told.accuracy = AccuracyOf(ResultsOf(u, window), skills)
  BY <1>1, <1>2 DEF ViewerSummary
<1>10. /\ e.row.points = ScoreOf(u, window, skills)
       /\ e.row.labs = Cardinality(ResultsOf(u, window))
       /\ e.row.accuracy = AccuracyOf(ResultsOf(u, window), skills)
  BY <1>4 DEF RowOf
<1> QED BY <1>8, <1>9, <1>10

-----------------------------------------------------------------------------
(* Streaks and organizations.                                              *)

LEMMA DaysAreFinite ==
    ASSUME StandingsInv, NEW u
    PROVE  IsFiniteSet(Days(u)) /\ Days(u) \in SUBSET Nat
<1> DEFINE mine == {i \in DOMAIN graded : graded[i].user = u}
           on == [i \in mine |-> graded[i].on]
<1>1. IsFiniteSet(mine)
  <2>1. mine \in SUBSET DOMAIN graded
    OBVIOUS
  <2> QED BY <2>1, GradedFacts, FS_Subset
<1>2. Days(u) = {graded[i].on : i \in mine}
  BY DEF Days
<1>3. on \in Surjection(mine, Days(u))
  BY <1>2 DEF Surjection
<1>4. IsFiniteSet(Days(u))
  <2> HIDE DEF mine, on
  <2> QED BY <1>1, <1>3, FS_Surjection
<1>5. \A i \in mine : graded[i].on \in Nat
  BY GradedFacts
<1> QED BY <1>2, <1>4, <1>5

LEMMA NoStreakIsLonger ==
    ASSUME StandingsInv, NEW u
    PROVE  CurrentStreak(u, day) <= LongestStreak(u)
<1> DEFINE last == IF day \in Days(u) THEN day ELSE day - 1
           All == Streaks(Days(u))
           Ending == {x \in All : x[2] = last}
           Lengths(S) == {r[2] - r[1] + 1 : r \in S} \cup {0}
           length == [r \in All |-> r[2] - r[1] + 1]
<1>1. IsFiniteSet(All) /\ \A r \in All : r[1] \in Nat /\ r[2] \in Nat
  <2>1. All \in SUBSET (Days(u) \X Days(u))
    BY DEF Streaks
  <2>2. IsFiniteSet(Days(u) \X Days(u))
    BY DaysAreFinite, FS_Product
  <2> QED BY <2>1, <2>2, DaysAreFinite, FS_Subset
<1>2. LongestStreak(u) = Max(Lengths(All)) /\ CurrentStreak(u, day) = Max(Lengths(Ending))
  BY DEF LongestStreak, CurrentStreak
<1> HIDE DEF All
<1>3. length \in Surjection(All, {r[2] - r[1] + 1 : r \in All})
  BY DEF Surjection
<1>4. IsFiniteSet({r[2] - r[1] + 1 : r \in All})
  <2> HIDE DEF length
  <2> QED BY <1>1, <1>3, FS_Surjection
<1>5. IsFiniteSet(Lengths(All))
  BY <1>4, FS_AddElement
<1>6. Lengths(Ending) \in SUBSET Lengths(All)
  OBVIOUS
<1>7. Lengths(All) \in SUBSET Int /\ 0 \in Lengths(Ending)
  <2>1. \A r \in All : r[2] - r[1] + 1 \in Int
    BY <1>1
  <2> QED BY <2>1
<1> HIDE DEF Lengths, Ending
<1>8. IsFiniteSet(Lengths(Ending))
  BY <1>5, <1>6, FS_Subset
<1>9. Max(Lengths(Ending)) \in Lengths(Ending)
  BY <1>6, <1>7, <1>8, MaxIsGreatest
<1>10. \A x \in Lengths(All) : x <= Max(Lengths(All))
  BY <1>5, <1>6, <1>7, MaxIsGreatest
<1> QED BY <1>2, <1>6, <1>9, <1>10

ByReadier(S) == {p \in S \X S : Readier(p[1], p[2])}

LEMMA MembersAreFinite ==
    ASSUME NEW o
    PROVE  Members(o) \in SUBSET Everybody /\ IsFiniteSet(Members(o))
<1>1. Members(o) \in SUBSET Everybody
  BY DEF Members
<1> QED BY <1>1, PeopleAreFinite, FS_Subset

LEMMA ReadinessFacts ==
    ASSUME StandingsInv, NEW o, NEW window, NEW skills
    PROVE  /\ Readiness(o, window, skills).org = o
           /\ Readiness(o, window, skills).participation \in 0 .. 100
           /\ Readiness(o, window, skills).readiness \in 0 .. 1000
<1> DEFINE mine == UNION {ResultsOf(u, window) : u \in Members(o)}
           people == {graded[i].user : i \in mine}
           scored == {i \in mine : graded[i].work.points > 0}
           share == Percent(Cardinality(people), Cardinality(Members(o)))
           success == Percent(Cardinality(scored), Cardinality(mine))
<1>1. mine \in SUBSET DOMAIN graded
  BY DEF ResultsOf
<1>2. IsFiniteSet(mine)
  BY <1>1, GradedFacts, FS_Subset
<1>3. Cardinality(mine) \in Nat
  BY <1>2, FS_CardinalityType
<1>4. Cardinality(scored) \in Nat
  <2>1. scored \in SUBSET mine
    OBVIOUS
  <2>2. IsFiniteSet(scored)
    BY <2>1, <1>2, FS_Subset
  <2> QED BY <2>2, FS_CardinalityType
<1>5. Cardinality(people) \in Nat
  <2>1. people \in SUBSET Everybody
    BY <1>1, GradedFacts
  <2>2. IsFiniteSet(people)
    BY <2>1, PeopleAreFinite, FS_Subset
  <2> QED BY <2>2, FS_CardinalityType
<1>6. Cardinality(Members(o)) \in Nat
  BY MembersAreFinite, FS_CardinalityType
<1>7. share \in 0 .. 100 /\ success \in 0 .. 100
  <2> HIDE DEF people, scored, mine
  <2> QED BY <1>3, <1>4, <1>5, <1>6, PercentIsPercent
<1>8. AccuracyOf(mine, skills) \in 0 .. 100
  <2> HIDE DEF mine
  <2> QED BY <1>1, EarnedAndPossible
<1>9. /\ Readiness(o, window, skills).org = o
      /\ Readiness(o, window, skills).participation = share
      /\ Readiness(o, window, skills).readiness
           = 5 * AccuracyOf(mine, skills) + 3 * share + 2 * success
  BY DEF Readiness
<1> HIDE DEF share, success, mine
<1>10. 5 * AccuracyOf(mine, skills) + 3 * share + 2 * success \in 0 .. 1000
  <2>1. PICK a \in 0 .. 100, p \in 0 .. 100, q \in 0 .. 100 :
          a = AccuracyOf(mine, skills) /\ p = share /\ q = success
    BY <1>7, <1>8
  <2>2. 5 * a + 3 * p + 2 * q \in 0 .. 1000
    OBVIOUS
  <2> QED BY <2>1, <2>2
<1> QED BY <1>7, <1>9, <1>10

LEMMA OrganizationsOnTheBoard ==
    ASSUME StandingsInv, NEW window, NEW skills,
           NEW r \in Range(OrganizationBoard(window, skills))
    PROVE  r.org \in shown /\ r.readiness \in 0 .. 1000
<1> DEFINE InSight == Organizations \cap shown
           All == {Readiness(o, window, skills) : o \in InSight}
           Tried == {q \in All : q.attempts > 0}
           spot(x) == Place(Orgs, x.org)
<1>0. PICK S : S = Tried
  OBVIOUS
<1>b. PICK R : R = ByReadier(S)
  OBVIOUS
<1>a. PICK rows : rows = OrganizationBoard(window, skills)
  OBVIOUS
<1>1. IsFiniteSet(S)
  <2> DEFINE rowFor == [o \in InSight |-> Readiness(o, window, skills)]
  <2>1. InSight \in SUBSET Organizations
    OBVIOUS
  <2>2. IsFiniteSet(InSight)
    BY <2>1, PeopleAreFinite, FS_Subset
  <2>3. rowFor \in Surjection(InSight, All)
    BY DEF Surjection
  <2>4. IsFiniteSet(All)
    <3> HIDE DEF rowFor, All, InSight
    <3> QED BY <2>2, <2>3, FS_Surjection
  <2>5. S \in SUBSET All
    BY <1>0
  <2> HIDE DEF All
  <2> QED BY <2>4, <2>5, FS_Subset
<1>2. ASSUME NEW x \in S
      PROVE  /\ x.org \in InSight /\ x = Readiness(x.org, window, skills)
             /\ x.participation \in 0 .. 100 /\ x.readiness \in 0 .. 1000
  <2>1. PICK o \in InSight : x = Readiness(o, window, skills)
    BY <1>0, <1>2
  <2> QED BY <2>1, ReadinessFacts
<1>3. rows = [i \in 1 .. Cardinality(S) |->
                CHOOSE x \in S : Cardinality({y \in S : Readier(y, x)}) = i - 1]
  BY <1>0, <1>a DEF OrganizationBoard, Ordered
<1>4. \A x, y \in S : <<x, y>> \in R <=> Readier(x, y)
  BY <1>b DEF ByReadier
<1>5. ASSUME NEW x \in S PROVE x.readiness \in Int /\ x.participation \in Int /\ spot(x) \in Int
  <2>1. x.org \in Organizations
    BY <1>2
  <2>2. spot(x) \in Nat
    BY <2>1, OneHandleEach, PlacesOnAList DEF Organizations
  <2>3. x.participation \in 0 .. 100 /\ x.readiness \in 0 .. 1000
    BY <1>2
  <2> HIDE DEF spot
  <2> QED BY <2>2, <2>3
<1>6. ASSUME NEW x \in S, NEW y \in S, spot(x) = spot(y) PROVE x = y
  <2>1. x.org \in Organizations /\ y.org \in Organizations
    BY <1>2
  <2>2. x.org = y.org
    BY <2>1, <1>6, OneHandleEach, PlacesOnAList DEF Organizations
  <2>3. x = Readiness(x.org, window, skills) /\ y = Readiness(y.org, window, skills)
    BY <1>2
  <2> QED BY <2>2, <2>3
<1>7. \A x, y \in S : Readier(x, y) <=>
         \/ x.readiness > y.readiness
         \/ x.readiness = y.readiness /\ x.participation > y.participation
         \/ x.readiness = y.readiness /\ x.participation = y.participation /\ spot(x) < spot(y)
  BY DEF Readier
<1> HIDE DEF spot, Tried, All, InSight
<1>8. IsOrder(S, R)
  <2>1. \A x \in S : <<x, x>> \notin R
    BY <1>4, <1>5, <1>7
  <2>2. ASSUME NEW x \in S, NEW y \in S, NEW z \in S, <<x, y>> \in R, <<y, z>> \in R
        PROVE  <<x, z>> \in R
    <3>1. Readier(x, y) /\ Readier(y, z)
      BY <1>4, <2>2
    <3>2. Readier(x, z)
      BY <1>5, <1>7, <3>1
    <3> QED BY <1>4, <3>2
  <2>3. ASSUME NEW x \in S, NEW y \in S PROVE x = y \/ <<x, y>> \in R \/ <<y, x>> \in R
    <3>1. spot(x) = spot(y) \/ Readier(x, y) \/ Readier(y, x)
      BY <1>5, <1>7
    <3> QED BY <1>4, <1>6, <3>1
  <2> QED BY <2>1, <2>2, <2>3 DEF IsOrder
<1>9. rows = [i \in 1 .. Cardinality(S) |->
                CHOOSE x \in S : Cardinality(ThoseBefore(S, R, x)) = i - 1]
  <2> DEFINE one(i) == CHOOSE x \in S : Cardinality({y \in S : Readier(y, x)}) = i - 1
             other(i) == CHOOSE x \in S : Cardinality(ThoseBefore(S, R, x)) = i - 1
  <2>1. \A x \in S : {y \in S : Readier(y, x)} = ThoseBefore(S, R, x)
    BY <1>4 DEF ThoseBefore
  <2>2. \A i : one(i) = other(i)
    BY <2>1
  <2>3. rows = [i \in 1 .. Cardinality(S) |-> one(i)]
    BY <1>3
  <2>4. rows = [i \in 1 .. Cardinality(S) |-> other(i)]
    <3> HIDE DEF one, other
    <3> QED BY <2>2, <2>3
  <2> QED BY <2>4
<1>10. InPlaces(S, R, rows)
  BY <1>1, <1>8, <1>9, TakenPlaces
<1>11. r \in S
  BY <1>10, <1>a DEF InPlaces, Range
<1> QED BY <1>2, <1>11 DEF InSight

-----------------------------------------------------------------------------
(* An organization between its members.                                    *)

\* A sum of parts is part of the sum.
LEMMA PartsAddUp ==
    ASSUME NEW v, NEW w, NEW A, IsFiniteSet(A),
           \A x \in A : v[x] \in Int /\ w[x] \in Int /\ 0 <= v[x] /\ v[x] <= w[x] /\ w[x] > 0
    PROVE  /\ 0 <= SumFunctionOnSet(v, A) /\ SumFunctionOnSet(v, A) <= SumFunctionOnSet(w, A)
           /\ A # {} => SumFunctionOnSet(w, A) > 0
<1> DEFINE Part(B) == SumFunctionOnSet(v, B)
           Whole(B) == SumFunctionOnSet(w, B)
           Fits(B) == 0 <= Part(B) /\ Part(B) <= Whole(B) /\ (B # {} => Whole(B) > 0)
           Odd == {B \in FiniteSubsetsOf(A) : ~Fits(B)}
<1>1. \A B : B \subseteq A => IsFiniteSet(B) /\ Part(B) \in Int /\ Whole(B) \in Int
  BY SumIsInteger, FS_Subset
<1>2. \A B, y : B \subseteq A /\ y \in B =>
         Part(B) = v[y] + Part(B \ {y}) /\ Whole(B) = w[y] + Whole(B \ {y})
  <2> SUFFICES ASSUME NEW B, B \subseteq A, NEW y \in B
               PROVE  Part(B) = v[y] + Part(B \ {y}) /\ Whole(B) = w[y] + Whole(B \ {y})
    OBVIOUS
  <2>1. IsFiniteSet(B) /\ (\A x \in B : v[x] \in Int) /\ (\A x \in B : w[x] \in Int)
    BY <1>1
  <2> QED BY <2>1, SumTakesOut
<1>3. Part({}) = 0 /\ Whole({}) = 0
  BY EmptySum
<1> HIDE DEF Part, Whole
<1>4. ASSUME ~Fits(A) PROVE FALSE
  <2>1. A \in Odd
    BY <1>4 DEF FiniteSubsetsOf
  <2>2. PICK B \in Odd : \A C \in Odd : C \subseteq B => C = B
    <3>1. Odd \subseteq FiniteSubsetsOf(A) /\ Odd # {}
      BY <2>1
    <3> HIDE DEF Odd
    <3> QED BY <3>1, LeastFinite
  <2>3. B \subseteq A /\ ~Fits(B)
    BY DEF FiniteSubsetsOf
  <2>4. B # {}
    BY <1>3, <2>3
  <2>5. PICK y \in B : TRUE
    BY <2>4
  <2>6. Fits(B \ {y})
    <3>1. B \ {y} \in FiniteSubsetsOf(A) /\ B \ {y} # B /\ B \ {y} \subseteq B
      BY <1>1, <2>3, <2>5 DEF FiniteSubsetsOf
    <3> HIDE DEF Fits
    <3> QED BY <2>2, <3>1
  <2>7. Part(B) = v[y] + Part(B \ {y}) /\ Whole(B) = w[y] + Whole(B \ {y})
    BY <1>2, <2>3
  <2>8. PICK a \in Int, b \in Int, c \in Int, d \in Int :
          a = v[y] /\ b = w[y] /\ c = Part(B \ {y}) /\ d = Whole(B \ {y})
    BY <1>1, <2>3
  <2>9. 0 <= a /\ a <= b /\ b > 0 /\ 0 <= c /\ c <= d
    BY <2>3, <2>6, <2>8
  <2>10. Part(B) = a + c /\ Whole(B) = b + d
    BY <2>7, <2>8
  <2>11. 0 <= a + c /\ a + c <= b + d /\ b + d > 0
    BY <2>9
  <2> QED BY <2>3, <2>10, <2>11
<1> QED BY <1>4 DEF Part, Whole

\* What a percentage is between.
LEMMA PercentIsBetween ==
    ASSUME NEW part \in Int, NEW whole \in Int, 0 <= part, part <= whole, whole > 0,
           NEW a, a = Percent(part, whole)
    PROVE  /\ a \in Int /\ 200 * part + whole >= 2 * (whole * a)
           /\ 200 * part + whole < 2 * (whole * (a + 1))
<1>1. PICK n \in Int, d \in Int : n = 200 * part + whole /\ d = 2 * whole /\ d > 0
  OBVIOUS
<1>2. PICK q \in Int : q = n \div d
  BY <1>1
<1>3. d * q <= n /\ n < d * (q + 1)
  BY <1>1, <1>2
<1>4. q >= 0 /\ q <= 100
  <2>1. n >= 0 /\ n < d * 101
    BY <1>1
  <2>2. q >= 0
    BY <1>1, <1>3, <2>1
  <2>3. q < 101
    BY <1>1, <1>3, <2>1
  <2> QED BY <2>2, <2>3
<1>5. Rounded(100 * part, whole) = q
  BY <1>1, <1>2 DEF Rounded
<1>6. a = q
  <2>1. Min({100, q}) = q
    BY <1>4, TwoMin
  <2>2. Max({0, q}) = q
    BY <1>4, TwoMax
  <2> QED BY <1>5, <2>1, <2>2 DEF Percent
<1>7. d * q = 2 * (whole * q) /\ d * (q + 1) = 2 * (whole * (q + 1))
  BY <1>1
<1> QED BY <1>1, <1>3, <1>6, <1>7

ResultsOfAll(U) == {i \in DOMAIN graded : graded[i].user \in U}
ResultsBy(u) == {i \in DOMAIN graded : graded[i].user = u}
Sums(I) == [earned |-> SumFunctionOnSet(Earned(Nobody), I),
            full |-> SumFunctionOnSet(Possible(Nobody), I)]

LEMMA EverythingCounts ==
    ASSUME StandingsInv, NEW I \in SUBSET DOMAIN graded
    PROVE  /\ Sums(I).earned \in Int /\ Sums(I).full \in Int
           /\ 0 <= Sums(I).earned /\ Sums(I).earned <= Sums(I).full
           /\ I # {} => Sums(I).full > 0
           /\ AccuracyOf(I, Nobody) = Percent(Sums(I).earned, Sums(I).full)
<1>1. IsFiniteSet(I)
  BY GradedFacts, FS_Subset
<1>2. \A i \in I : /\ Earned(Nobody)[i] \in Int /\ Possible(Nobody)[i] \in Int
                   /\ 0 <= Earned(Nobody)[i] /\ Earned(Nobody)[i] <= Possible(Nobody)[i]
                   /\ Possible(Nobody)[i] > 0
  <2> SUFFICES ASSUME NEW i \in I
               PROVE  /\ Earned(Nobody)[i] \in Int /\ Possible(Nobody)[i] \in Int
                      /\ 0 <= Earned(Nobody)[i] /\ Earned(Nobody)[i] <= Possible(Nobody)[i]
                      /\ Possible(Nobody)[i] > 0
    OBVIOUS
  <2>1. graded[i].work \in Works
    BY GradedFacts
  <2>2. Earned(Nobody)[i] = graded[i].work.points /\ Possible(Nobody)[i] = 100
    BY DEF Earned, Possible, PointsOf, FullOf, Skilled
  <2>3. graded[i].work.points \in 0 .. 100
    BY <2>1, FullMarks
  <2> QED BY <2>2, <2>3
<1>3. PICK v, w : v = Earned(Nobody) /\ w = Possible(Nobody)
  OBVIOUS
<1>4. /\ 0 <= SumFunctionOnSet(v, I) /\ SumFunctionOnSet(v, I) <= SumFunctionOnSet(w, I)
      /\ I # {} => SumFunctionOnSet(w, I) > 0
  BY <1>1, <1>2, <1>3, PartsAddUp
<1>5. /\ SumFunctionOnSet(v, I) \in Int /\ SumFunctionOnSet(w, I) \in Int
      /\ AccuracyOf(I, Nobody) = Percent(SumFunctionOnSet(v, I), SumFunctionOnSet(w, I))
  BY <1>3, EarnedAndPossible
<1>6. Sums(I).earned = SumFunctionOnSet(v, I) /\ Sums(I).full = SumFunctionOnSet(w, I)
  BY <1>3 DEF Sums
<1> QED BY <1>4, <1>5, <1>6

LEMMA SumsAdd ==
    ASSUME StandingsInv, NEW I \in SUBSET DOMAIN graded, NEW J \in SUBSET DOMAIN graded,
           I \cap J = {}
    PROVE  /\ Sums(I \cup J).earned = Sums(I).earned + Sums(J).earned
           /\ Sums(I \cup J).full = Sums(I).full + Sums(J).full
<1>1. IsFiniteSet(I) /\ IsFiniteSet(J)
  BY GradedFacts, FS_Subset
<1>2. I \cup J \in SUBSET DOMAIN graded
  OBVIOUS
<1>3. PICK v, w : v = Earned(Nobody) /\ w = Possible(Nobody)
  OBVIOUS
<1>4. (\A i \in I \cup J : v[i] \in Int) /\ (\A i \in I \cup J : w[i] \in Int)
  BY <1>2, <1>3, EarnedAndPossible
<1>5. /\ SumFunctionOnSet(v, I \cup J) = SumFunctionOnSet(v, I) + SumFunctionOnSet(v, J)
      /\ SumFunctionOnSet(w, I \cup J) = SumFunctionOnSet(w, I) + SumFunctionOnSet(w, J)
  BY <1>1, <1>4, SumAdds
<1> QED BY <1>3, <1>5 DEF Sums

\* The results of several people score between the lowest and the highest
\* score of one of them: each share is between the same two bounds, and sums of
\* such shares are again.
LEMMA TogetherIsBetween ==
    ASSUME StandingsInv, NEW U \in SUBSET Everybody, NEW low \in Int, NEW high \in Int,
           \A u \in U : ResultsBy(u) # {} => /\ low <= AccuracyOf(ResultsBy(u), Nobody)
                                             /\ AccuracyOf(ResultsBy(u), Nobody) <= high,
           ResultsOfAll(U) # {}
    PROVE  /\ low <= AccuracyOf(ResultsOfAll(U), Nobody)
           /\ AccuracyOf(ResultsOfAll(U), Nobody) <= high
<1> DEFINE E(I) == Sums(I).earned
           F(I) == Sums(I).full
           Above(I) == 200 * E(I) + F(I) >= 2 * (F(I) * low)
           Below(I) == /\ 200 * E(I) + F(I) <= 2 * (F(I) * (high + 1))
                       /\ I # {} => 200 * E(I) + F(I) < 2 * (F(I) * (high + 1))
           Fits(V) == Above(ResultsOfAll(V)) /\ Below(ResultsOfAll(V))
           Odd == {V \in FiniteSubsetsOf(U) : ~Fits(V)}
<1>1. \A I \in SUBSET DOMAIN graded : /\ E(I) \in Int /\ F(I) \in Int
                                      /\ 0 <= E(I) /\ E(I) <= F(I) /\ (I # {} => F(I) > 0)
  BY EverythingCounts
<1>2. \A I \in SUBSET DOMAIN graded : I # {} =>
         /\ AccuracyOf(I, Nobody) \in Int
         /\ 200 * E(I) + F(I) >= 2 * (F(I) * AccuracyOf(I, Nobody))
         /\ 200 * E(I) + F(I) < 2 * (F(I) * (AccuracyOf(I, Nobody) + 1))
  <2> SUFFICES ASSUME NEW I \in SUBSET DOMAIN graded, I # {}
               PROVE  /\ AccuracyOf(I, Nobody) \in Int
                      /\ 200 * E(I) + F(I) >= 2 * (F(I) * AccuracyOf(I, Nobody))
                      /\ 200 * E(I) + F(I) < 2 * (F(I) * (AccuracyOf(I, Nobody) + 1))
    OBVIOUS
  <2>1. AccuracyOf(I, Nobody) = Percent(E(I), F(I))
    BY EverythingCounts
  <2>2. E(I) \in Int /\ F(I) \in Int /\ 0 <= E(I) /\ E(I) <= F(I) /\ F(I) > 0
    BY <1>1
  <2> HIDE DEF E, F
  <2> QED BY <2>1, <2>2, PercentIsBetween
<1>3. \A I, J \in SUBSET DOMAIN graded : I \cap J = {} =>
         E(I \cup J) = E(I) + E(J) /\ F(I \cup J) = F(I) + F(J)
  BY SumsAdd
<1> HIDE DEF E, F
<1>0. E({}) = 0 /\ F({}) = 0
  <2>1. {} \cup {} = {} /\ {} \cap {} = {} /\ {} \in SUBSET DOMAIN graded
    OBVIOUS
  <2>2. PICK e \in Int, f \in Int : e = E({}) /\ f = F({})
    BY <2>1, <1>1
  <2>3. E({}) = E({}) + E({}) /\ F({}) = F({}) + F({})
    BY <2>1, <1>3
  <2>4. e = e + e /\ f = f + f
    BY <2>2, <2>3
  <2>5. e = 0 /\ f = 0
    BY <2>4
  <2> QED BY <2>2, <2>5
<1>4. ASSUME NEW u \in U PROVE Above(ResultsBy(u)) /\ Below(ResultsBy(u))
  <2>1. ResultsBy(u) \in SUBSET DOMAIN graded
    BY DEF ResultsBy
  <2>2. CASE ResultsBy(u) = {}
    BY <2>2, <1>0
  <2>3. CASE ResultsBy(u) # {}
    <3>1. PICK e \in Int, f \in Int, a \in Int :
            e = E(ResultsBy(u)) /\ f = F(ResultsBy(u)) /\ a = AccuracyOf(ResultsBy(u), Nobody)
      BY <1>1, <1>2, <2>1, <2>3
    <3>2. /\ f > 0 /\ low <= a /\ a <= high
          /\ 200 * e + f >= 2 * (f * a) /\ 200 * e + f < 2 * (f * (a + 1))
      BY <1>1, <1>2, <2>1, <2>3, <3>1
    <3>3. f * low <= f * a /\ f * (a + 1) <= f * (high + 1)
      BY <3>2
    <3>4. 200 * e + f >= 2 * (f * low) /\ 200 * e + f < 2 * (f * (high + 1))
      BY <3>2, <3>3
    <3> QED BY <3>1, <3>4
  <2> QED BY <2>2, <2>3
<1>5. ASSUME ~Fits(U) PROVE FALSE
  <2>1. U \in Odd
    BY <1>5, PeopleAreFinite, FS_Subset DEF FiniteSubsetsOf
  <2>2. PICK V \in Odd : \A C \in Odd : C \subseteq V => C = V
    <3>1. Odd \subseteq FiniteSubsetsOf(U) /\ Odd # {}
      BY <2>1
    <3> HIDE DEF Odd
    <3> QED BY <3>1, LeastFinite
  <2>3. V \subseteq U /\ IsFiniteSet(V) /\ ~Fits(V)
    BY DEF FiniteSubsetsOf
  <2>4. V # {}
    <3>1. ASSUME V = {} PROVE FALSE
      <4>1. ResultsOfAll({}) = {}
        BY DEF ResultsOfAll
      <4> QED BY <2>3, <3>1, <4>1, <1>0
    <3> QED BY <3>1
  <2>5. PICK u \in V : TRUE
    BY <2>4
  <2>6. Fits(V \ {u})
    <3>1. V \ {u} \in FiniteSubsetsOf(U) /\ V \ {u} # V /\ V \ {u} \subseteq V
      BY <2>3, <2>5, FS_RemoveElement DEF FiniteSubsetsOf
    <3> HIDE DEF Fits
    <3> QED BY <2>2, <3>1
  <2>7. PICK I, J \in SUBSET DOMAIN graded : I = ResultsOfAll(V \ {u}) /\ J = ResultsBy(u)
    BY DEF ResultsOfAll, ResultsBy
  <2>8. ResultsOfAll(V) = I \cup J /\ I \cap J = {}
    BY <2>5, <2>7 DEF ResultsOfAll, ResultsBy
  <2>9. PICK e1 \in Int, e2 \in Int, f1 \in Int, f2 \in Int :
          e1 = E(I) /\ e2 = E(J) /\ f1 = F(I) /\ f2 = F(J)
    BY <1>1
  <2>10. E(ResultsOfAll(V)) = e1 + e2 /\ F(ResultsOfAll(V)) = f1 + f2
    BY <1>3, <2>8, <2>9
  <2>11. /\ 200 * e1 + f1 >= 2 * (f1 * low) /\ 200 * e1 + f1 <= 2 * (f1 * (high + 1))
         /\ I # {} => 200 * e1 + f1 < 2 * (f1 * (high + 1))
    BY <2>6, <2>7, <2>9
  <2>12. /\ 200 * e2 + f2 >= 2 * (f2 * low) /\ 200 * e2 + f2 <= 2 * (f2 * (high + 1))
         /\ J # {} => 200 * e2 + f2 < 2 * (f2 * (high + 1))
    BY <1>4, <2>3, <2>5, <2>7, <2>9
  <2>13. /\ (f1 + f2) * low = f1 * low + f2 * low
         /\ (f1 + f2) * (high + 1) = f1 * (high + 1) + f2 * (high + 1)
    OBVIOUS
  <2>14. /\ 200 * (e1 + e2) + (f1 + f2) >= 2 * ((f1 + f2) * low)
         /\ 200 * (e1 + e2) + (f1 + f2) <= 2 * ((f1 + f2) * (high + 1))
         /\ I \cup J # {} => 200 * (e1 + e2) + (f1 + f2) < 2 * ((f1 + f2) * (high + 1))
    <3>1. PICK p1 \in Int, p2 \in Int, q1 \in Int, q2 \in Int :
            /\ p1 = f1 * low /\ p2 = f2 * low
            /\ q1 = f1 * (high + 1) /\ q2 = f2 * (high + 1)
      OBVIOUS
    <3>2. /\ 200 * (e1 + e2) + (f1 + f2) >= 2 * (p1 + p2)
          /\ 200 * (e1 + e2) + (f1 + f2) <= 2 * (q1 + q2)
          /\ I # {} \/ J # {} => 200 * (e1 + e2) + (f1 + f2) < 2 * (q1 + q2)
      BY <2>11, <2>12, <3>1
    <3>3. I \cup J # {} => I # {} \/ J # {}
      OBVIOUS
    <3> QED BY <2>13, <3>1, <3>2, <3>3
  <2> QED BY <2>3, <2>8, <2>10, <2>14
<1>6. ResultsOfAll(U) \in SUBSET DOMAIN graded
  BY DEF ResultsOfAll
<1>7. PICK e \in Int, f \in Int, a \in Int :
        e = E(ResultsOfAll(U)) /\ f = F(ResultsOfAll(U)) /\ a = AccuracyOf(ResultsOfAll(U), Nobody)
  BY <1>1, <1>2, <1>6
<1>8. /\ f > 0 /\ 200 * e + f >= 2 * (f * a) /\ 200 * e + f < 2 * (f * (a + 1))
  BY <1>1, <1>2, <1>6, <1>7
<1>9. /\ 200 * e + f >= 2 * (f * low) /\ 200 * e + f < 2 * (f * (high + 1))
  BY <1>5, <1>7
<1>10. f * low < f * (a + 1) /\ f * a < f * (high + 1)
  BY <1>8, <1>9
<1>11. low < a + 1 /\ a < high + 1
  BY <1>8, <1>10
<1> QED BY <1>7, <1>11

LEMMA OrganizationsAreBetween ==
    ASSUME StandingsInv, NEW o \in Organizations, NEW scores, scores # {},
           scores = {PersonalReport(u).score : u \in {v \in Members(o) : PersonalReport(v).labs > 0}}
    PROVE  PlatformReport.orgs[o] \in Min(scores) .. Max(scores)
<1> DEFINE score(u) == AccuracyOf(ResultsBy(u), Nobody)
           Busy == {v \in Members(o) : ResultsBy(v) # {}}
<1>1. \A u : PersonalReport(u).score = score(u)
             /\ (PersonalReport(u).labs > 0 <=> ResultsBy(u) # {})
  <2> SUFFICES ASSUME NEW u
               PROVE  /\ PersonalReport(u).score = score(u)
                      /\ PersonalReport(u).labs > 0 <=> ResultsBy(u) # {}
    OBVIOUS
  <2>1. ResultsBy(u) \in SUBSET DOMAIN graded
    BY DEF ResultsBy
  <2>2. IsFiniteSet(ResultsBy(u))
    BY <2>1, GradedFacts, FS_Subset
  <2>3. /\ PersonalReport(u).score = score(u)
        /\ PersonalReport(u).labs = Cardinality(ResultsBy(u))
    BY DEF PersonalReport, OverallScore, ResultsBy
  <2>4. Cardinality(ResultsBy(u)) \in Nat /\ (Cardinality(ResultsBy(u)) = 0 <=> ResultsBy(u) = {})
    BY <2>2, FS_CardinalityType, FS_EmptySet
  <2> QED BY <2>3, <2>4
<1>2. \A u : score(u) \in 0 .. 100
  <2> SUFFICES ASSUME NEW u PROVE score(u) \in 0 .. 100
    OBVIOUS
  <2>1. ResultsBy(u) \in SUBSET DOMAIN graded
    BY DEF ResultsBy
  <2> QED BY <2>1, EarnedAndPossible
<1> HIDE DEF score
<1>3. scores = {score(u) : u \in Busy}
  BY <1>1
<1>4. IsFiniteSet(scores) /\ scores \in SUBSET Int
  <2> DEFINE all == [u \in Busy |-> score(u)]
  <2>1. Busy \in SUBSET Everybody
    BY MembersAreFinite
  <2>2. IsFiniteSet(Busy)
    BY <2>1, PeopleAreFinite, FS_Subset
  <2>3. all \in Surjection(Busy, scores)
    BY <1>3 DEF Surjection
  <2>4. IsFiniteSet(scores)
    <3> HIDE DEF all, Busy
    <3> QED BY <2>2, <2>3, FS_Surjection
  <2>5. scores \in SUBSET Int
    <3> SUFFICES ASSUME NEW x \in scores PROVE x \in Int
      OBVIOUS
    <3>1. PICK u \in Busy : x = score(u)
      BY <1>3
    <3>2. x \in 0 .. 100
      BY <1>2, <3>1
    <3> QED BY <3>2
  <2> QED BY <2>4, <2>5
<1>5. PICK low \in Int, high \in Int : low = Min(scores) /\ high = Max(scores)
  BY <1>4, MinIsThere, MaxIsGreatest
<1>6. \A x \in scores : low <= x /\ x <= high
  BY <1>4, <1>5, MinIsThere, MaxIsGreatest
<1>7. \A u \in Members(o) : ResultsBy(u) # {} =>
         low <= AccuracyOf(ResultsBy(u), Nobody) /\ AccuracyOf(ResultsBy(u), Nobody) <= high
  BY <1>3, <1>6 DEF score
<1>8. ResultsOfAll(Members(o)) # {}
  <2>1. PICK u \in Members(o) : ResultsBy(u) # {}
    BY <1>3
  <2>2. ResultsBy(u) \subseteq ResultsOfAll(Members(o))
    BY <2>1 DEF ResultsBy, ResultsOfAll
  <2> QED BY <2>1, <2>2
<1>9. /\ low <= AccuracyOf(ResultsOfAll(Members(o)), Nobody)
      /\ AccuracyOf(ResultsOfAll(Members(o)), Nobody) <= high
  BY <1>7, <1>8, MembersAreFinite, TogetherIsBetween
<1>10. AccuracyOf(ResultsOfAll(Members(o)), Nobody) \in 0 .. 100
  <2>1. ResultsOfAll(Members(o)) \in SUBSET DOMAIN graded
    BY DEF ResultsOfAll
  <2> QED BY <2>1, EarnedAndPossible
<1>11. PlatformReport.orgs[o] = AccuracyOf(ResultsOfAll(Members(o)), Nobody)
  <2>1. {i \in DOMAIN graded : member[graded[i].user] = o} = ResultsOfAll(Members(o))
    BY GradedFacts DEF ResultsOfAll, Members
  <2>2. PlatformReport.orgs[o] = OrganizationReport(o).score
    BY DEF PlatformReport
  <2>3. OrganizationReport(o).score
          = AccuracyOf({i \in DOMAIN graded : member[graded[i].user] = o}, Nobody)
    BY DEF OrganizationReport, OverallScore
  <2> QED BY <2>1, <2>2, <2>3
<1> QED BY <1>5, <1>9, <1>10, <1>11

-----------------------------------------------------------------------------
(* Boards and reports, whatever was graded.                                *)

LEMMA BoardFacts ==
    ASSUME StandingsInv, NEW users \in SUBSET Everybody, NEW period, NEW skills,
           NEW board, board = Board(users, period, skills), NEW e \in Range(board),
           NEW told, told = ViewerSummary(e.row.user, board, period, skills)
    PROVE  /\ e.rank = 1 + Cardinality(MorePoints(board, e))
           /\ e.row.user \in users
           /\ told.rank = e.rank /\ told.points = e.row.points
           /\ told.labs = e.row.labs /\ told.accuracy = e.row.accuracy
<1>1. /\ e.rank = 1 + Cardinality(MorePoints(board, e))
      /\ e.row \in RowsFor(users, PeriodWindow(period), skills)
  BY RanksCountThoseAhead
<1>2. e.row.user \in users
  BY <1>1, RowFacts
<1>3. /\ told.rank = e.rank /\ told.points = e.row.points
      /\ told.labs = e.row.labs /\ told.accuracy = e.row.accuracy
  BY ViewersAreToldTheBoard
<1> QED BY <1>1, <1>2, <1>3

LEMMA BoardsFollow == StandingsInv => BoardIsConsistent
<1> SUFFICES ASSUME StandingsInv PROVE BoardIsConsistent
  OBVIOUS
<1> DEFINE On(s, period, skills) == Board(Eligible(s[1], s[2]), period, skills)
           Right(s, period, skills, board, e) ==
             /\ e.rank = 1 + Cardinality({f \in Range(board) : f.row.points > e.row.points})
             /\ e.row.user \in Eligible(s[1], s[2])
             /\ LET told == ViewerSummary(e.row.user, board, period, skills) IN
                  /\ told.rank = e.rank /\ told.points = e.row.points
                  /\ told.labs = e.row.labs /\ told.accuracy = e.row.accuracy
<1>1. ASSUME NEW s \in Scopes, NEW period \in {"weekly", "all_time"}, NEW skills \in Filters,
             NEW e \in Range(On(s, period, skills))
      PROVE  Right(s, period, skills, On(s, period, skills), e)
  <2>1. PICK users \in SUBSET Everybody : users = Eligible(s[1], s[2])
    BY DEF Eligible
  <2>2. PICK board : board = On(s, period, skills)
    OBVIOUS
  <2>3. board = Board(users, period, skills) /\ e \in Range(board)
    BY <1>1, <2>1, <2>2
  <2> HIDE DEF On
  <2>4. PICK told : told = ViewerSummary(e.row.user, board, period, skills)
    OBVIOUS
  <2>5. /\ e.rank = 1 + Cardinality(MorePoints(board, e))
        /\ e.row.user \in users
        /\ told.rank = e.rank /\ told.points = e.row.points
        /\ told.labs = e.row.labs /\ told.accuracy = e.row.accuracy
    BY <2>3, <2>4, BoardFacts
  <2>6. Right(s, period, skills, board, e)
    BY <2>1, <2>4, <2>5 DEF MorePoints
  <2> HIDE DEF Right
  <2> QED BY <2>2, <2>6
<1>2. \A u \in Everybody : CurrentStreak(u, day) <= LongestStreak(u)
  BY NoStreakIsLonger
<1>3. \A skills \in Filters :
        \A r \in Range(OrganizationBoard(PeriodWindow("weekly"), skills)) :
          r.org \in shown /\ r.readiness \in 0 .. 1000
  BY OrganizationsOnTheBoard
<1>4. ASSUME NEW o \in Organizations, NEW scores, scores # {},
             scores = {PersonalReport(u).score :
                         u \in {v \in Members(o) : PersonalReport(v).labs > 0}}
      PROVE  PlatformReport.orgs[o] \in Min(scores) .. Max(scores)
  BY <1>4, OrganizationsAreBetween
<1>5. \A o \in Organizations :
        LET scores == {PersonalReport(u).score :
                         u \in {v \in Members(o) : PersonalReport(v).labs > 0}}
        IN  scores # {} => PlatformReport.orgs[o] \in Min(scores) .. Max(scores)
  BY <1>4
<1>6. \A s \in Scopes, period \in {"weekly", "all_time"}, skills \in Filters :
        \A e \in Range(On(s, period, skills)) :
          Right(s, period, skills, On(s, period, skills), e)
  <2> HIDE DEF Right, On
  <2> QED BY <1>1
<1> QED BY <1>2, <1>3, <1>5, <1>6 DEF BoardIsConsistent

LEMMA StandingsStart == StandingsInit => StandingsInv
<1> SUFFICES ASSUME StandingsInit PROVE StandingsInv
  OBVIOUS
<1>1. graded = <<>> /\ Len(graded) = 0 /\ DOMAIN graded = {}
  BY DEF StandingsInit
<1>2. graded \in Seq([user : Everybody, on : Nat, work : Works])
  BY <1>1
<1>3. StandingsTypeOK
  BY <1>1, RunsHaveTime, EverybodyStarts
     DEF StandingsInit, StandingsTypeOK, Everybody, Organizations
<1> QED BY <1>2, <1>3 DEF StandingsInv

LEMMA StandingsStep == StandingsInv /\ [StandingsNext]_standingsVars => StandingsInv'
<1> SUFFICES ASSUME StandingsInv, [StandingsNext]_standingsVars PROVE StandingsInv'
  OBVIOUS
<1> USE DEF StandingsInv, StandingsTypeOK
<1>1. ASSUME NEW u \in Everybody, NEW work \in Works, CountResult(u, work) PROVE StandingsInv'
  <2> DEFINE Entries == [user : Everybody, on : Nat, work : Works]
             entry == [user |-> u, on |-> day, work |-> work]
  <2>1. entry \in Entries /\ day \in Nat
    BY RunsHaveTime
  <2>2. graded \in Seq(Entries) /\ graded' = Append(graded, entry)
    BY <1>1 DEF CountResult
  <2>3. /\ graded' \in Seq(Entries) /\ Len(graded') = Len(graded) + 1
        /\ \A i \in DOMAIN graded' : IF i \in DOMAIN graded THEN graded'[i] = graded[i]
                                                            ELSE graded'[i] = entry
    <3> HIDE DEF Entries, entry
    <3> QED BY <2>1, <2>2
  <2>4. Len(graded') <= MaxResults
    BY <1>1, <2>2, <2>3, RunsHaveTime DEF CountResult
  <2>5. \A i \in DOMAIN graded' : /\ graded'[i].user \in Everybody /\ graded'[i].on \in 1 .. day
                                  /\ graded'[i].work \in Works
    <3> SUFFICES ASSUME NEW i \in DOMAIN graded'
                 PROVE  /\ graded'[i].user \in Everybody /\ graded'[i].on \in 1 .. day
                        /\ graded'[i].work \in Works
      OBVIOUS
    <3>1. CASE i \in DOMAIN graded
      BY <2>3, <3>1
    <3>2. CASE i \notin DOMAIN graded
      <4>1. graded'[i] = entry
        BY <2>3, <3>2
      <4>2. entry.user = u /\ entry.on = day /\ entry.work = work /\ day \in 1 .. day
        BY RunsHaveTime
      <4> QED BY <4>1, <4>2
    <3> QED BY <3>1, <3>2
  <2> QED BY <1>1, <2>3, <2>4, <2>5 DEF CountResult
<1>2. ASSUME NEW u \in Everybody, LeaveOrganization(u) PROVE StandingsInv'
  BY <1>2 DEF LeaveOrganization
<1>3. ASSUME NEW who \in Shy, OptIn(who) PROVE StandingsInv'
  <2>1. shown' \subseteq Everybody \cup Organizations
    BY <1>3, EverybodyStarts DEF OptIn, Everybody, Organizations
  <2> QED BY <1>3, <2>1 DEF OptIn
<1>4. ASSUME NextDay PROVE StandingsInv'
  <2>1. day' \in 1 .. Today /\ \A n \in 1 .. day : n \in 1 .. day'
    BY <1>4, RunsHaveTime DEF NextDay
  <2>2. season' \in {Nobody, SeasonSpan}
    BY <1>4 DEF NextDay
  <2> QED BY <1>4, <2>1, <2>2 DEF NextDay
<1>5. ASSUME StartSeason PROVE StandingsInv'
  BY <1>5 DEF StartSeason
<1>6. ASSUME UNCHANGED standingsVars PROVE StandingsInv'
  BY <1>6 DEF standingsVars
<1> QED BY <1>1, <1>2, <1>3, <1>4, <1>5, <1>6 DEF StandingsNext

\* Whatever was graded, whoever joined, left or opted in, and whichever window
\* and domain are asked for, boards, summaries, streaks and reports agree with
\* one another (BoardIsConsistent).
THEOREM BoardsAreConsistent == StandingsSpec => []BoardIsConsistent
<1>1. StandingsInit => StandingsInv
  BY StandingsStart
<1>2. StandingsInv /\ [StandingsNext]_standingsVars => StandingsInv'
  BY StandingsStep
<1>3. StandingsInv => BoardIsConsistent
  BY BoardsFollow
<1> QED BY <1>1, <1>2, <1>3, PTL DEF StandingsSpec
=============================================================================
