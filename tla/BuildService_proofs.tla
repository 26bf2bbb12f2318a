------------------------ MODULE BuildService_proofs ------------------------
(***************************************************************************)
(* Machine-checked facts about BuildService, for any number of builds,     *)
(* keys, replicas, handlers and restarts.                                  *)
(*                                                                         *)
(* The argument: every busy worker is about a build that has a row, is     *)
(* about to complete it only once its output is signed, and is about to    *)
(* fail it only with a failure code (Good, for every worker: Placed).      *)
(* From that, a step changes at most one row, in one of six ways           *)
(* (RowStep), and what is claimed of the rows follows from those ways      *)
(* without looking at the workers again.  The guard is a matter of the     *)
(* workers alone: who is within the guarded block holds it, nobody else    *)
(* does, and no two hold one (Guarded).  That every activation ends is a   *)
(* count of the steps it has ahead of it at most (Left).                   *)
(***************************************************************************)
EXTENDS BuildService, TLAPS

Verdicts == FailureCodes \ {"cancelled_by_request"}

Good(t, rows, seals) ==
    t.at # "idle" =>
        /\ t.build \in Builds
        /\ rows[t.build].status # "none"
        /\ t.at = "complete" => t.build \in seals
        /\ t.at = "fail" => t.code \in Verdicts

Placed == \A w \in Workers : Good(task[w], rec, signed)

\* Rows are not deleted and signatures are not withdrawn.
Keeps ==
    /\ \A b \in Builds : rec[b].status # "none" => rec'[b].status # "none"
    /\ signed \subseteq signed'

LEMMA IdleIsATask == Idle \in Tasks
BY SomeAttempt DEF Idle, Tasks, Places, Ops

LEMMA AboutIsATask ==
    ASSUME NEW b \in Builds, NEW p \in Places, NEW op \in Ops
    PROVE  About(b, p, op) \in Tasks
BY IdleIsATask DEF About, Idle, Tasks

LEMMA TimersAreWorkers == Timers \subseteq Workers
BY DEF Workers

\* A worker moves to a good task, and the others stay where they were.
LEMMA Moves ==
    ASSUME TypeOK, Placed, Keeps, NEW w \in Workers, NEW t \in Tasks,
           task' = [task EXCEPT ![w] = t], Good(t, rec', signed')
    PROVE  task' \in [Workers -> Tasks] /\ Placed'
<1>1. task' \in [Workers -> Tasks]
  BY DEF TypeOK
<1>2. ASSUME NEW v \in Workers PROVE Good(task'[v], rec', signed')
  <2>1. CASE v = w
    BY <2>1 DEF TypeOK
  <2>2. CASE v # w
    <3>1. task'[v] = task[v] /\ task[v] \in Tasks /\ Good(task[v], rec, signed)
      BY <2>2 DEF TypeOK, Placed
    <3> QED BY <3>1 DEF Good, Keeps
  <2> QED BY <2>1, <2>2
<1> QED BY <1>1, <1>2 DEF Placed

\* Goto, for the places that ask nothing of the task.
LEMMA GotoMoves ==
    ASSUME TypeOK, Placed, Keeps, NEW w \in Workers,
           NEW p \in Places \ {"complete", "fail"},
           task[w].at # "idle", Goto(w, p)
    PROVE  task' \in [Workers -> Tasks] /\ Placed'
<1> DEFINE t == [task[w] EXCEPT !.at = p]
<1>1. task[w] \in Tasks /\ Good(task[w], rec, signed)
  BY DEF TypeOK, Placed
<1>2. t \in Tasks
  BY <1>1 DEF Tasks
<1>3. task' = [task EXCEPT ![w] = t]
  BY DEF Goto, TypeOK
<1>4. Good(t, rec', signed')
  BY <1>1 DEF Good, Keeps, Tasks
<1> QED BY <1>2, <1>3, <1>4, Moves

LEMMA GiveUpMoves ==
    ASSUME TypeOK, Placed, Keeps, NEW w \in Workers, NEW code \in Verdicts,
           task[w].at # "idle", GiveUpWith(w, code)
    PROVE  task' \in [Workers -> Tasks] /\ Placed'
<1> DEFINE t == [task[w] EXCEPT !.at = "fail", !.code = code]
<1>1. task[w] \in Tasks /\ Good(task[w], rec, signed)
  BY DEF TypeOK, Placed
<1>2. t \in Tasks
  BY <1>1 DEF Tasks, Places, Verdicts
<1>3. task' = [task EXCEPT ![w] = t]
  BY DEF GiveUpWith, TypeOK
<1>4. Good(t, rec', signed')
  BY <1>1 DEF Good, Keeps, Tasks
<1> QED BY <1>2, <1>3, <1>4, Moves

LEMMA ResumeIsGood ==
    ASSUME TypeOK, Placed, Keeps, NEW w \in Workers, task[w].at # "idle"
    PROVE  Resume(w) \in Tasks /\ Good(Resume(w), rec', signed')
<1> DEFINE r == About(Subject(w), "reread", "get")
           c == About(Subject(w), "cancel", "cancel")
<1>1. Subject(w) \in Builds /\ rec[Subject(w)].status # "none"
  BY DEF Placed, Good, Subject
<1>2. r \in Tasks /\ c \in Tasks
  BY <1>1, AboutIsATask DEF Places, Ops
<1>3. Good(r, rec', signed') /\ Good(c, rec', signed') /\ Good(Idle, rec', signed')
  BY <1>1 DEF Good, Keeps, Idle, About
<1>4. Resume(w) \in {r, c, Idle}
  BY Zenon DEF Resume
<1> HIDE DEF r, c
<1>5. CASE Resume(w) = r
  BY <1>2, <1>3, <1>5 DEF Resume
<1>6. CASE Resume(w) = c
  BY <1>2, <1>3, <1>6
<1>7. CASE Resume(w) = Idle
  BY <1>3, <1>7, IdleIsATask
<1> QED BY <1>4, <1>5, <1>6, <1>7

LEMMA ReturnMoves ==
    ASSUME TypeOK, Placed, Keeps, NEW w \in Workers, task[w].at # "idle",
           Return(w)
    PROVE  /\ task' \in [Workers -> Tasks] /\ Placed'
           /\ reconciling' \in [Replicas -> SUBSET Builds]
<1>1. task' = [task EXCEPT ![w] = Resume(w)]
  BY DEF Return
<1>2. reconciling' \in [Replicas -> SUBSET Builds]
  BY DEF Return, Release, TypeOK
<1> QED BY <1>1, <1>2, ResumeIsGood, Moves

LEMMA HandMoves ==
    ASSUME TypeOK, Placed, Keeps, NEW w \in Workers, task[w].at # "idle",
           HandToComplete(w)
    PROVE  /\ task' \in [Workers -> Tasks] /\ Placed'
           /\ reconciling' \in [Replicas -> SUBSET Builds]
<1> DEFINE op == IF task[w].op = "getReconcile" THEN "getComplete"
                                                ELSE "complete"
           t == [task[w] EXCEPT !.at = "sign", !.op = op]
<1>1. task[w] \in Tasks /\ Good(task[w], rec, signed)
  BY DEF TypeOK, Placed
<1>2. op \in Ops
  BY DEF Ops
<1>3. task' = [task EXCEPT ![w] = t]
  BY DEF HandToComplete, TypeOK
<1>4. reconciling' \in [Replicas -> SUBSET Builds]
  BY DEF HandToComplete, Release, TypeOK
<1> HIDE DEF op
<1>5. t \in Tasks
  BY <1>1, <1>2 DEF Tasks, Places
<1>6. Good(t, rec', signed')
  BY <1>1 DEF Good, Keeps, Tasks
<1> QED BY <1>3, <1>4, <1>5, <1>6, Moves

LEMMA CleanupMoves ==
    ASSUME TypeOK, Placed, Keeps, NEW w \in Workers, task[w].at # "idle",
           EnterCleanup(w)
    PROVE  /\ task' \in [Workers -> Tasks] /\ Placed'
           /\ reconciling' \in [Replicas -> SUBSET Builds]
<1> DEFINE t == [task[w] EXCEPT !.at = "cleanDelete", !.code = "none",
                            !.tries = 0]
<1>1. CASE task[w].cleaned
  BY <1>1, ReturnMoves DEF EnterCleanup
<1>2. CASE ~task[w].cleaned
  <2>1. task[w] \in Tasks /\ Good(task[w], rec, signed)
    BY DEF TypeOK, Placed
  <2>2. 0 \in 0..CleanupAttempts - 1
    BY SomeAttempt
  <2>3. t \in Tasks
    BY <2>1, <2>2 DEF Tasks, Places
  <2>4. Good(t, rec', signed')
    BY <2>1 DEF Tasks, Good, Keeps
  <2>5. task' = [task EXCEPT ![w] = t] /\ UNCHANGED reconciling
    BY <1>2 DEF EnterCleanup, TypeOK
  <2> QED BY <2>3, <2>4, <2>5, Moves DEF TypeOK
<1> QED BY <1>1, <1>2

-----------------------------------------------------------------------------
(* What a step does to the rows.                                           *)

RowAccepted(b) ==
    \E k \in Keys :
        /\ rec[b].status = "none"
        /\ KeyFree(k)
        /\ rec' = [rec EXCEPT ![b] = [Unused EXCEPT !.status = "queued",
                                                    !.key = k]]

RowMoved(b, to, code, hasImage) ==
    rec' = [rec EXCEPT ![b].status = to, ![b].failure = code,
                       ![b].image = hasImage]

RowBegun(b) == rec[b].status = "queued" /\ RowMoved(b, "running", "none", FALSE)

RowSucceeded(b) ==
    /\ rec[b].status \in Active
    /\ b \in signed
    /\ RowMoved(b, "succeeded", "none", TRUE)

RowFailed(b) ==
    /\ rec[b].status \in Active
    /\ \E code \in Verdicts : RowMoved(b, "failed", code, FALSE)

RowCancelled(b) ==
    /\ rec[b].status \in Active
    /\ RowMoved(b, "cancelled", "cancelled_by_request", FALSE)

RowCleaned(b) ==
    /\ rec[b].status # "none"
    /\ rec' = [rec EXCEPT ![b].cleaned = TRUE]

RowStep ==
    \/ UNCHANGED rec
    \/ \E b \in Builds : \/ RowAccepted(b)
                         \/ RowBegun(b)
                         \/ RowSucceeded(b)
                         \/ RowFailed(b)
                         \/ RowCancelled(b)
                         \/ RowCleaned(b)

\* A step of the system changes at most one row, in one of these ways; only a
\* row that is new, and only the queued or active row a transition names.
LEMMA NextIsARowStep == TypeOK /\ Placed /\ Next => RowStep
<1> SUFFICES ASSUME TypeOK, Placed, Next PROVE RowStep
  OBVIOUS
<1>1. ASSUME NEW w \in Workers, task[w].at # "idle"
      PROVE  Subject(w) \in Builds /\ rec[Subject(w)].status # "none"
  BY <1>1 DEF Placed, Good, Subject
<1>2. ASSUME NEW w \in Handlers, Request(w) PROVE RowStep
  BY <1>2 DEF Request, Create, Get, Cancel, RowStep, RowAccepted
<1>3. ASSUME NEW w \in Workers, WorkerStep(w) PROVE RowStep
  <2>1. CASE CancelRecord(w)
    BY <1>1, <2>1
    DEF CancelRecord, At, Transition, RowStep, RowCancelled, RowMoved
  <2>2. CASE Complete(w)
    <3>1. Subject(w) \in Builds /\ Subject(w) \in signed
      BY <2>2 DEF Complete, At, Placed, Good, Subject
    <3> QED
      BY <2>2, <3>1
      DEF Complete, At, Transition, RowStep, RowSucceeded, RowMoved
  <2>3. CASE Fail(w)
    <3>1. Subject(w) \in Builds /\ task[w].code \in Verdicts
      BY <2>3 DEF Fail, At, Placed, Good, Subject
    <3> QED
      BY <2>3, <3>1 DEF Fail, At, Transition, RowStep, RowFailed, RowMoved
  <2>4. CASE RecordRunning(w)
    BY <1>1, <2>4
    DEF RecordRunning, Transition, RowStep, RowBegun, RowMoved
  <2>5. CASE MarkCleaned(w)
    BY <1>1, <2>5 DEF MarkCleaned, At, RowStep, RowCleaned
  <2>6. CASE UNCHANGED rec
    BY <2>6 DEF RowStep
  <2>7. CASE Reread(w)
    BY <2>6, <2>7 DEF Reread
  <2>8. CASE ReconcileEnter(w) \/ Inspect(w) \/ InspectError(w) \/ Sign(w)
    BY <2>6, <2>8 DEF ReconcileEnter, Inspect, InspectError, Sign
  <2>9. CASE ApplyNamespace(w) \/ ApplyJob(w) \/ DeleteNamespace(w)
    BY <2>6, <2>9 DEF ApplyNamespace, ApplyJob, DeleteNamespace
  <2>10. CASE ConfirmDeleted(w) \/ CleanupError(w) \/ QueryError(w)
    BY <2>6, <2>10 DEF ConfirmDeleted, CleanupError, QueryError
  <2> QED
    BY <1>3, <2>1, <2>2, <2>3, <2>4, <2>5, <2>7, <2>8, <2>9, <2>10
    DEF WorkerStep
<1>4. ASSUME NEW r \in Replicas, ReconcileRound(r) \/ Crash(r) PROVE RowStep
  BY <1>4 DEF ReconcileRound, Crash, RowStep
<1>5. ASSUME NEW b \in Builds, Environment(b) PROVE RowStep
  BY <1>5
  DEF Environment, DeadlinePasses, JobStep, NamespaceGone, RowStep
<1> QED BY <1>2, <1>3, <1>4, <1>5 DEF Next

\* The columns a transition writes, and those it does not.
LEMMA RowMovedColumns ==
    ASSUME TypeOK, NEW b \in Builds, NEW to, NEW code, NEW i,
           RowMoved(b, to, code, i)
    PROVE  \A c \in Builds :
             /\ rec'[c].status = IF c = b THEN to ELSE rec[c].status
             /\ rec'[c].key = rec[c].key
             /\ rec'[c].image = IF c = b THEN i ELSE rec[c].image
<1> SUFFICES ASSUME NEW c \in Builds
             PROVE  /\ rec'[c].status = IF c = b THEN to ELSE rec[c].status
                    /\ rec'[c].key = rec[c].key
                    /\ rec'[c].image = IF c = b THEN i ELSE rec[c].image
  OBVIOUS
<1>1. rec[c] \in Records
  BY DEF TypeOK
<1>2. CASE c = b
  <2>1. rec'[c] = [rec[c] EXCEPT !.status = to, !.failure = code, !.image = i]
    BY <1>2 DEF RowMoved, TypeOK
  <2> QED BY <1>1, <1>2, <2>1 DEF Records
<1>3. CASE c # b
  BY <1>3 DEF RowMoved, TypeOK
<1> QED BY <1>2, <1>3

LEMMA RowCleanedColumns ==
    ASSUME TypeOK, NEW b \in Builds, RowCleaned(b)
    PROVE  \A c \in Builds : /\ rec'[c].status = rec[c].status
                             /\ rec'[c].key = rec[c].key
                             /\ rec'[c].image = rec[c].image
<1> SUFFICES ASSUME NEW c \in Builds
             PROVE  /\ rec'[c].status = rec[c].status
                    /\ rec'[c].key = rec[c].key
                    /\ rec'[c].image = rec[c].image
  OBVIOUS
<1>1. rec[c] \in Records
  BY DEF TypeOK
<1>2. CASE c = b
  <2>1. rec'[c] = [rec[c] EXCEPT !.cleaned = TRUE]
    BY <1>2 DEF RowCleaned, TypeOK
  <2> QED BY <1>1, <2>1 DEF Records
<1>3. CASE c # b
  BY <1>3 DEF RowCleaned, TypeOK
<1> QED BY <1>2, <1>3

\* Replacing a row by one that is not blank.
LEMMA RowReplaced ==
    ASSUME TypeOK, NEW b \in Builds, NEW r \in Records, r.status # "none",
           rec' = [rec EXCEPT ![b] = r]
    PROVE  /\ rec' \in [Builds -> Records]
           /\ \A c \in Builds : rec[c].status # "none" => rec'[c].status # "none"
BY DEF TypeOK

LEMMA RowStepTypes ==
    ASSUME TypeOK, RowStep
    PROVE  /\ rec' \in [Builds -> Records]
           /\ \A c \in Builds : rec[c].status # "none" => rec'[c].status # "none"
<1> DEFINE Kept == /\ rec' \in [Builds -> Records]
                   /\ \A c \in Builds : rec[c].status # "none"
                                          => rec'[c].status # "none"
<1>1. CASE UNCHANGED rec
  BY <1>1 DEF TypeOK
<1>2. ASSUME NEW b \in Builds, RowAccepted(b) PROVE Kept
  <2>1. PICK k \in Keys : rec' = [rec EXCEPT ![b] =
                              [Unused EXCEPT !.status = "queued", !.key = k]]
    BY <1>2 DEF RowAccepted
  <2> DEFINE r == [Unused EXCEPT !.status = "queued", !.key = k]
  <2>2. r \in Records /\ r.status # "none"
    BY DEF Records, Unused, Active
  <2>3. rec' = [rec EXCEPT ![b] = r]
    BY <2>1
  <2> HIDE DEF r
  <2> QED BY <2>2, <2>3, RowReplaced
<1>3. ASSUME NEW b \in Builds, NEW to \in Active \cup Terminal,
             NEW code \in FailureCodes \cup {"none"}, NEW i \in BOOLEAN,
             RowMoved(b, to, code, i)
      PROVE  Kept
  <2> DEFINE r == [rec[b] EXCEPT !.status = to, !.failure = code, !.image = i]
  <2>1. rec[b] \in Records
    BY DEF TypeOK
  <2>2. r \in Records /\ r.status # "none"
    BY <2>1 DEF Records, Active, Terminal
  <2>3. rec' = [rec EXCEPT ![b] = r]
    BY <1>3 DEF RowMoved, TypeOK
  <2> HIDE DEF r
  <2> QED BY <2>2, <2>3, RowReplaced
<1>4. ASSUME NEW b \in Builds, RowCleaned(b) PROVE Kept
  <2> DEFINE r == [rec[b] EXCEPT !.cleaned = TRUE]
  <2>1. rec[b] \in Records
    BY DEF TypeOK
  <2>2. r \in Records /\ r.status # "none"
    BY <1>4, <2>1 DEF Records, RowCleaned
  <2>3. rec' = [rec EXCEPT ![b] = r]
    BY <1>4 DEF RowCleaned, TypeOK
  <2> HIDE DEF r
  <2> QED BY <2>2, <2>3, RowReplaced
<1> QED
  BY <1>1, <1>2, <1>3, <1>4
  DEF RowStep, RowBegun, RowSucceeded, RowFailed, RowCancelled, Verdicts,
      FailureCodes, Active, Terminal

\* Signatures and rows persist, so a worker that stays where it is stays good.
LEMMA NextKeeps ==
    ASSUME TypeOK, Placed, Next
    PROVE  Keeps /\ rec' \in [Builds -> Records] /\ signed' \subseteq Builds
<1>1. RowStep
  BY NextIsARowStep
<1>2. UNCHANGED signed \/ \E w \in Workers : Sign(w)
  <2>1. ASSUME NEW w \in Handlers, Request(w) PROVE UNCHANGED signed
    BY <2>1 DEF Request, Create, Get, Cancel
  <2>2. ASSUME NEW w \in Workers, WorkerStep(w), ~Sign(w)
        PROVE  UNCHANGED signed
    BY <2>2
    DEF WorkerStep, Reread, CancelRecord, ReconcileEnter, Inspect,
        InspectError, Complete, Fail, ApplyNamespace, ApplyJob,
        RecordRunning, QueryError, DeleteNamespace, ConfirmDeleted,
        MarkCleaned, CleanupError
  <2>3. ASSUME NEW r \in Replicas, ReconcileRound(r) \/ Crash(r)
        PROVE  UNCHANGED signed
    BY <2>3 DEF ReconcileRound, Crash
  <2>4. ASSUME NEW b \in Builds, Environment(b) PROVE UNCHANGED signed
    BY <2>4 DEF Environment, DeadlinePasses, JobStep, NamespaceGone
  <2> QED BY <2>1, <2>2, <2>3, <2>4 DEF Next
<1>3. signed \subseteq signed' /\ signed' \subseteq Builds
  <2>1. ASSUME NEW w \in Workers, Sign(w)
        PROVE  signed \subseteq signed' /\ signed' \subseteq Builds
    BY <2>1 DEF Sign, At, Subject, TypeOK, Placed, Good
  <2> QED BY <1>2, <2>1 DEF TypeOK
<1> QED BY <1>1, <1>3, RowStepTypes DEF Keeps

\* A request, or the second read of GET, starts a task about a row it read.
LEMMA BeginMoves ==
    ASSUME TypeOK, Placed, Keeps, NEW w \in Workers, NEW b \in Builds,
           NEW p \in Places \ {"complete", "fail"}, NEW op \in Ops,
           rec[b].status # "none", Begin(w, p, op, b)
    PROVE  task' \in [Workers -> Tasks] /\ Placed'
<1> DEFINE t == About(b, p, op)
<1>2. t \in Tasks
  BY AboutIsATask
<1>3. Good(t, rec', signed')
  BY DEF Good, Keeps, Idle, About
<1>4. task' = [task EXCEPT ![w] = t]
  BY DEF Begin
<1> QED BY <1>2, <1>3, <1>4, Moves

LEMMA IdleMoves ==
    ASSUME TypeOK, Placed, Keeps, NEW w \in Workers,
           task' = [task EXCEPT ![w] = Idle]
    PROVE  task' \in [Workers -> Tasks] /\ Placed'
<1>1. Good(Idle, rec', signed')
  BY DEF Good, Idle
<1> QED BY <1>1, IdleIsATask, Moves

LEMMA RequestMoves ==
    ASSUME TypeOK, Placed, Keeps, NEW w \in Handlers, Request(w)
    PROVE  task' \in [Workers -> Tasks] /\ Placed' /\ UNCHANGED reconciling
<1>1. w \in Workers
  BY DEF Workers
<1>2. PICK b \in Builds : \/ \E k \in Keys : Create(w, k, b)
                          \/ Get(w, b)
                          \/ Cancel(w, b)
  BY DEF Request
<1>3. CASE \E k \in Keys : Create(w, k, b)
  <2>1. PICK k \in Keys : Create(w, k, b)
    BY <1>3
  <2> DEFINE t == About(b, "namespace", "create")
  <2>2. t \in Tasks
    BY AboutIsATask DEF Places, Ops
  <2>3. rec'[b].status = "queued"
    BY <2>1 DEF Create, TypeOK, Unused
  <2>4. Good(t, rec', signed')
    BY <2>3 DEF Good, Idle, About
  <2>5. task' = [task EXCEPT ![w] = t] /\ UNCHANGED reconciling
    BY <2>1 DEF Create, Begin
  <2> QED BY <1>1, <2>2, <2>4, <2>5, Moves
<1>4. CASE Get(w, b)
  <2>1. rec[b].status # "none" /\ UNCHANGED reconciling
    BY <1>4 DEF Get, Active, Terminal
  <2>2. \/ Begin(w, "reconcile", "getReconcile", b)
        \/ Begin(w, "cleanDelete", "cleanup", b)
    BY <1>4 DEF Get
  <2> QED BY <1>1, <2>1, <2>2, BeginMoves DEF Places, Ops
<1>5. CASE Cancel(w, b)
  <2>1. rec[b].status # "none" /\ UNCHANGED reconciling
    BY <1>5 DEF Cancel, Active, Terminal
  <2>2. \/ Begin(w, "cancel", "cancel", b)
        \/ Begin(w, "cleanDelete", "cancel", b)
        \/ Begin(w, "cleanDelete", "cleanup", b)
    BY <1>5 DEF Cancel
  <2> QED BY <1>1, <2>1, <2>2, BeginMoves DEF Places, Ops
<1> QED BY <1>2, <1>3, <1>4, <1>5

LEMMA RoundMoves ==
    ASSUME TypeOK, Placed, Keeps, NEW r \in Replicas,
           ReconcileRound(r) \/ Crash(r)
    PROVE  /\ task' \in [Workers -> Tasks] /\ Placed'
           /\ reconciling' \in [Replicas -> SUBSET Builds]
<1>1. reconciling' \in [Replicas -> SUBSET Builds]
  BY DEF ReconcileRound, Crash, TypeOK
<1>2. Good(Idle, rec', signed')
  BY DEF Good, Idle
<1>3. ASSUME NEW b \in Builds
      PROVE  RoundTask(b) \in Tasks /\ Good(RoundTask(b), rec', signed')
  <2> DEFINE a == About(b, "reconcile", "reconcile")
             c == About(b, "cleanDelete", "cleanup")
  <2>2. a \in Tasks /\ c \in Tasks
    BY AboutIsATask DEF Places, Ops
  <2>3. rec[b].status # "none" => /\ Good(a, rec', signed')
                                  /\ Good(c, rec', signed')
    BY DEF Good, Idle, Keeps, About
  <2>4. \/ RoundTask(b) = a /\ rec[b].status \in Active
        \/ RoundTask(b) = c /\ rec[b].status \in Terminal
        \/ RoundTask(b) = Idle
    <3>1. CASE rec[b].status \in Active
      BY <3>1 DEF RoundTask, Active, Terminal
    <3>2. CASE rec[b].status \in Terminal /\ ~rec[b].cleaned
      BY <3>2 DEF RoundTask, Active, Terminal
    <3>3. CASE /\ rec[b].status \notin Active
               /\ ~(rec[b].status \in Terminal /\ ~rec[b].cleaned)
      BY <3>3, Zenon DEF RoundTask
    <3> QED BY <3>1, <3>2, <3>3
  <2> HIDE DEF a, c
  <2> QED BY <2>2, <2>3, <2>4, <1>2, IdleIsATask DEF Active, Terminal
<1>4. ASSUME NEW v \in Workers
      PROVE  task'[v] \in Tasks /\ Good(task'[v], rec', signed')
  <2>1. \/ task'[v] = task[v]
        \/ task'[v] = Idle
        \/ v \in Timers /\ task'[v] = RoundTask(v[2])
    BY DEF ReconcileRound, Crash
  <2>2. v \in Timers => v[2] \in Builds
    BY DEF Timers
  <2>3. task[v] \in Tasks /\ Good(task[v], rec', signed')
    BY DEF TypeOK, Placed, Good, Keeps
  <2> QED BY <2>1, <2>2, <2>3, <1>2, <1>3, IdleIsATask
<1>5. task' \in [Workers -> Tasks]
  <2>1. \E f : task' = [v \in Workers |-> f[v]]
    BY DEF ReconcileRound, Crash
  <2> QED BY <2>1, <1>4
<1> QED BY <1>1, <1>4, <1>5 DEF Placed

LEMMA WorkerMoves ==
    ASSUME TypeOK, Placed, Keeps, NEW w \in Workers, WorkerStep(w)
    PROVE  /\ task' \in [Workers -> Tasks] /\ Placed'
           /\ reconciling' \in [Replicas -> SUBSET Builds]
<1> DEFINE Fine == /\ task' \in [Workers -> Tasks] /\ Placed'
                   /\ reconciling' \in [Replicas -> SUBSET Builds]
           b == Subject(w)
<1>1. reconciling \in [Replicas -> SUBSET Builds] /\ task[w] \in Tasks
  BY DEF TypeOK
<1>2. task[w].at # "idle" => b \in Builds /\ rec[b].status # "none"
  BY DEF Placed, Good, Subject
<1>3. CASE Reread(w)
  <2>1. \/ Begin(w, "cleanDelete", "cleanup", b)
        \/ task' = [task EXCEPT ![w] = Idle]
    BY <1>3 DEF Reread
  <2>2. task[w].at # "idle" /\ UNCHANGED reconciling
    BY <1>3 DEF Reread, At
  <2> QED BY <1>1, <1>2, <2>1, <2>2, BeginMoves, IdleMoves DEF Places, Ops
<1>4. CASE CancelRecord(w)
  BY <1>1, <1>4, IdleMoves DEF CancelRecord
<1>5. CASE ReconcileEnter(w)
  <2>1. task[w].at # "idle"
    BY <1>5 DEF ReconcileEnter, At
  <2>2. CASE task' = [task EXCEPT ![w] = Resume(w)] /\ UNCHANGED reconciling
    BY <1>1, <2>1, <2>2, ResumeIsGood, Moves
  <2>3. CASE ~(task' = [task EXCEPT ![w] = Resume(w)] /\ UNCHANGED reconciling)
    <3> DEFINE late == PastDeadline(b)
               t == [task[w] EXCEPT !.cleaned = rec[b].cleaned,
                        !.at = AfterRead(b),
                        !.code = IF late THEN "build_timeout" ELSE "none"]
    <3>1. /\ task' = [task EXCEPT ![w] = t]
          /\ reconciling' = [reconciling EXCEPT ![HomeOf(w)] = @ \cup {b}]
      BY <1>1, <1>5, <2>3 DEF ReconcileEnter, TypeOK
    <3>2. rec[b] \in Records /\ b \in Builds
      BY <1>2, <2>1 DEF TypeOK
    <3>6. /\ AfterRead(b) \in {"fail", "inspectQueued", "inspectRunning"}
          /\ AfterRead(b) = "fail" => late
      BY <1>5, <2>3 DEF ReconcileEnter, AfterRead, Active
    <3>3. t \in Tasks
      <4> DEFINE p == AfterRead(b)
                 i == rec[b].cleaned
                 c == IF late THEN "build_timeout" ELSE "none"
      <4>1. p \in Places /\ i \in BOOLEAN /\ c \in FailureCodes \cup {"none"}
        BY <3>2, <3>6 DEF Records, Places, FailureCodes
      <4>2. t = [task[w] EXCEPT !.cleaned = i, !.at = p, !.code = c]
        OBVIOUS
      <4> HIDE DEF p, i, c, t
      <4> QED BY <1>1, <4>1, <4>2 DEF Tasks
    <3>4. t.build = b /\ (t.at = "fail" => t.code = "build_timeout")
                      /\ t.at \in {"fail", "inspectQueued", "inspectRunning"}
      BY <1>1, <3>6 DEF Tasks, Subject
    <3> HIDE DEF t
    <3>5. Good(t, rec', signed')
      BY <1>2, <2>1, <3>4 DEF Good, Keeps, Verdicts, FailureCodes
    <3> QED BY <1>1, <3>1, <3>2, <3>3, <3>5, Moves
  <2> QED BY <2>2, <2>3
<1>6. CASE Inspect(w)
  <2>1. task[w].at # "idle"
    BY <1>6 DEF Inspect, Inspecting
  <2>2. \/ \E p \in {"namespace", "observed"} :
              Goto(w, p) /\ UNCHANGED reconciling
        \/ \E c \in {"build_job_missing", "build_job_failed"} :
              GiveUpWith(w, c) /\ UNCHANGED reconciling
        \/ HandToComplete(w)
        \/ Return(w)
    BY <1>6 DEF Inspect
  <2> QED
    BY <1>1, <2>1, <2>2, GotoMoves, GiveUpMoves, ReturnMoves, HandMoves
    DEF Places, Verdicts, FailureCodes
<1>7. CASE InspectError(w)
  BY <1>7, ReturnMoves DEF InspectError, Inspecting
<1>8. CASE Sign(w)
  <2>1. task[w].at # "idle" /\ UNCHANGED reconciling
    BY <1>8 DEF Sign, At
  <2>2. CASE b \in signed' /\ Goto(w, "complete")
    <3> DEFINE t == [task[w] EXCEPT !.at = "complete"]
    <3>1. t \in Tasks /\ task' = [task EXCEPT ![w] = t]
      BY <1>1, <2>2 DEF Tasks, Places, Goto, TypeOK
    <3>2. Good(t, rec', signed')
      BY <1>1, <1>2, <2>1, <2>2 DEF Good, Keeps, Tasks, Subject
    <3> QED BY <1>1, <2>1, <3>1, <3>2, Moves
  <2>3. CASE \E c \in {"build_digest_missing", "build_signing_failed"} :
                GiveUpWith(w, c)
    BY <1>1, <2>1, <2>3, GiveUpMoves DEF Verdicts, FailureCodes
  <2> QED BY <1>8, <2>2, <2>3 DEF Sign
<1>9. CASE Complete(w) \/ Fail(w)
  BY <1>9, CleanupMoves DEF Complete, Fail, At
<1>10. CASE ApplyNamespace(w) \/ ApplyJob(w)
  <2>1. task[w].at # "idle" /\ UNCHANGED reconciling
    BY <1>10 DEF ApplyNamespace, ApplyJob, At
  <2>2. \E p \in {"job", "started", "undoDelete"} : Goto(w, p)
    BY <1>10 DEF ApplyNamespace, ApplyJob
  <2> QED BY <1>1, <2>1, <2>2, GotoMoves DEF Places
<1>11. CASE RecordRunning(w) \/ MarkCleaned(w)
  BY <1>11, ReturnMoves DEF RecordRunning, MarkCleaned, At
<1>12. CASE DeleteNamespace(w) \/ ConfirmDeleted(w)
  <2>1. task[w].at # "idle" /\ UNCHANGED reconciling
    BY <1>12
    DEF DeleteNamespace, ConfirmDeleted, At, Deleting, Confirming
  <2>2. \/ GiveUpWith(w, "build_start_failed")
        \/ \E p \in {"cleanMark", "undoConfirm", "cleanConfirm"} : Goto(w, p)
    BY <1>12 DEF DeleteNamespace, ConfirmDeleted, Gone
  <2> QED
    BY <1>1, <2>1, <2>2, GotoMoves, GiveUpMoves
    DEF Places, Verdicts, FailureCodes
<1>13. CASE CleanupError(w)
  <2>1. task[w].at # "idle"
    BY <1>13 DEF CleanupError
  <2>2. CASE GiveUpWith(w, "build_start_failed") /\ UNCHANGED reconciling
    BY <1>1, <2>1, <2>2, GiveUpMoves DEF Verdicts, FailureCodes
  <2>3. CASE /\ AttemptsLeft(w)
             /\ task' = [task EXCEPT ![w].at = "cleanDelete", ![w].tries = @ + 1]
             /\ UNCHANGED reconciling
    <3> DEFINE n == task[w].tries + 1
               t == [task[w] EXCEPT !.at = "cleanDelete", !.tries = n]
    <3>1. task[w].tries \in 0..CleanupAttempts - 1
      BY <1>1 DEF Tasks
    <3>2. n \in 0..CleanupAttempts - 1
      BY <2>3, <3>1, SomeAttempt DEF AttemptsLeft
    <3> HIDE DEF n
    <3>3. t \in Tasks
      BY <1>1, <3>2 DEF Tasks, Places
    <3>4. task' = [task EXCEPT ![w] = t]
      BY <2>3 DEF TypeOK, n
    <3>5. Good(t, rec', signed')
      BY <1>1, <1>2, <2>1 DEF Good, Keeps, Tasks, Subject
    <3> QED BY <1>1, <2>3, <3>3, <3>4, <3>5, Moves
  <2>4. CASE Return(w)
    BY <2>1, <2>4, ReturnMoves
  <2> QED BY <1>13, <2>2, <2>3, <2>4 DEF CleanupError
<1>14. CASE QueryError(w)
  <2>1. task[w].at # "idle"
    BY <1>14 DEF QueryError, At
  <2>2. \/ GiveUpWith(w, "build_start_failed") /\ UNCHANGED reconciling
        \/ task' = [task EXCEPT ![w] = Idle] /\ Release(w)
        \/ task' = [task EXCEPT ![w] = Idle] /\ UNCHANGED reconciling
    BY <1>14 DEF QueryError
  <2>3. Release(w) => reconciling' \in [Replicas -> SUBSET Builds]
    BY <1>1 DEF Release
  <2> QED
    BY <1>1, <2>1, <2>2, <2>3, GiveUpMoves, IdleMoves
    DEF Verdicts, FailureCodes
<1> QED
  BY <1>3, <1>4, <1>5, <1>6, <1>7, <1>8, <1>9, <1>10, <1>11, <1>12, <1>13, <1>14
  DEF WorkerStep

\* The cluster, the clock and the restart counter keep their types.
LEMMA ClusterTypes ==
    ASSUME TypeOK, Placed, Next
    PROVE  /\ ns' \in [Builds -> NsPhases]
           /\ job' \in [Builds -> JobPhases]
           /\ expired' \subseteq Builds
           /\ crashes' \in 0..MaxCrashes
<1> DEFINE Fine == /\ ns' \in [Builds -> NsPhases]
                   /\ job' \in [Builds -> JobPhases]
                   /\ expired' \subseteq Builds
                   /\ crashes' \in 0..MaxCrashes
<1>1. CASE UNCHANGED <<ns, job, expired, crashes>>
  BY <1>1 DEF TypeOK
<1>2. ASSUME NEW w \in Handlers, Request(w) PROVE Fine
  BY <1>1, <1>2 DEF Request, Create, Get, Cancel, cluster
<1>3. ASSUME NEW w \in Workers, WorkerStep(w) PROVE Fine
  <2>1. CASE ApplyNamespace(w)
    BY <2>1 DEF ApplyNamespace, TypeOK, NsPhases
  <2>2. CASE ApplyJob(w)
    BY <2>2 DEF ApplyJob, TypeOK, JobPhases
  <2>3. CASE DeleteNamespace(w)
    BY <2>3 DEF DeleteNamespace, TypeOK, NsPhases
  <2>4. CASE Reread(w) \/ CancelRecord(w) \/ ReconcileEnter(w) \/ Inspect(w)
    BY <1>1, <2>4
    DEF Reread, CancelRecord, ReconcileEnter, Inspect, cluster
  <2>5. CASE InspectError(w) \/ Sign(w) \/ Complete(w) \/ Fail(w)
    BY <1>1, <2>5 DEF InspectError, Sign, Complete, Fail, cluster
  <2>6. CASE \/ RecordRunning(w) \/ ConfirmDeleted(w) \/ MarkCleaned(w)
             \/ CleanupError(w) \/ QueryError(w)
    BY <1>1, <2>6
    DEF RecordRunning, ConfirmDeleted, MarkCleaned, CleanupError, QueryError,
        cluster
  <2> QED BY <1>3, <2>1, <2>2, <2>3, <2>4, <2>5, <2>6 DEF WorkerStep
<1>4. ASSUME NEW r \in Replicas, ReconcileRound(r) PROVE Fine
  BY <1>1, <1>4 DEF ReconcileRound, cluster
<1>5. ASSUME NEW r \in Replicas, Crash(r) PROVE Fine
  BY <1>5, CrashBound DEF Crash, cluster, TypeOK
<1>6. ASSUME NEW b \in Builds, Environment(b) PROVE Fine
  <2>1. CASE DeadlinePasses(b)
    BY <2>1 DEF DeadlinePasses, cluster, TypeOK
  <2>2. CASE JobStep(b)
    BY <2>2 DEF JobStep, TypeOK, JobPhases
  <2>3. CASE NamespaceGone(b)
    BY <2>3 DEF NamespaceGone, TypeOK, NsPhases, JobPhases
  <2> QED BY <1>6, <2>1, <2>2, <2>3 DEF Environment
<1> QED BY <1>2, <1>3, <1>4, <1>5, <1>6 DEF Next

LEMMA InitPlaced == Init => TypeOK /\ Placed
<1> SUFFICES ASSUME Init PROVE TypeOK /\ Placed
  OBVIOUS
<1>1. Unused \in Records
  BY DEF Unused, Records
<1>2. TypeOK
  BY <1>1, IdleIsATask, CrashBound DEF Init, TypeOK, NsPhases, JobPhases
<1>3. Placed
  BY DEF Init, Placed, Good, Idle
<1> QED BY <1>2, <1>3

LEMMA StepPlaced == TypeOK /\ Placed /\ [Next]_vars => TypeOK' /\ Placed'
<1> SUFFICES ASSUME TypeOK, Placed, [Next]_vars PROVE TypeOK' /\ Placed'
  OBVIOUS
<1>1. CASE UNCHANGED vars
  BY <1>1 DEF vars, TypeOK, Placed, Good
<1>2. CASE Next
  <2>1. Keeps /\ rec' \in [Builds -> Records] /\ signed' \subseteq Builds
    BY <1>2, NextKeeps
  <2>2. /\ task' \in [Workers -> Tasks] /\ Placed'
        /\ reconciling' \in [Replicas -> SUBSET Builds]
    <3>1. ASSUME NEW w \in Handlers, Request(w) PROVE <2>2!:
      BY <2>1, <3>1, RequestMoves DEF TypeOK
    <3>2. ASSUME NEW w \in Workers, WorkerStep(w) PROVE <2>2!:
      BY <2>1, <3>2, WorkerMoves
    <3>3. ASSUME NEW r \in Replicas, ReconcileRound(r) \/ Crash(r)
          PROVE  <2>2!:
      BY <2>1, <3>3, RoundMoves
    <3>4. ASSUME NEW b \in Builds, Environment(b) PROVE <2>2!:
      <4>1. UNCHANGED <<task, reconciling>>
        BY <3>4 DEF Environment, DeadlinePasses, JobStep, NamespaceGone
      <4> QED BY <2>1, <4>1 DEF TypeOK, Placed, Good, Keeps
    <3> QED BY <1>2, <3>1, <3>2, <3>3, <3>4 DEF Next
  <2>3. TypeOK'
    BY <1>2, <2>1, <2>2, ClusterTypes DEF TypeOK
  <2> QED BY <2>2, <2>3
<1> QED BY <1>1, <1>2

LEMMA AlwaysPlaced == Spec => [](TypeOK /\ Placed)
BY InitPlaced, StepPlaced, PTL DEF Spec

\* Every variable keeps its type, in particular the worker-local copies of
\* rows and the retry counter of cleanupWithRetry.
THEOREM TypeCorrect == Spec => []TypeOK
BY AlwaysPlaced, PTL

-----------------------------------------------------------------------------
(* What is claimed of the rows.                                            *)

LEMMA RowStepFinal ==
    ASSUME TypeOK, RowStep, NEW c \in Builds, rec[c].status \in Terminal
    PROVE  /\ rec'[c].status = rec[c].status
           /\ rec'[c].image = rec[c].image
           /\ rec'[c].failure = rec[c].failure
<1>1. CASE UNCHANGED rec
  BY <1>1
<1>2. ASSUME NEW b \in Builds, RowCleaned(b)
      PROVE  /\ rec'[c].status = rec[c].status
             /\ rec'[c].image = rec[c].image
             /\ rec'[c].failure = rec[c].failure
  BY <1>2 DEF RowCleaned, TypeOK, Records
<1>3. ASSUME NEW b \in Builds,
             RowAccepted(b) \/ RowBegun(b) \/ RowSucceeded(b)
                 \/ RowFailed(b) \/ RowCancelled(b)
      PROVE  rec'[c] = rec[c]
  <2>1. b # c
    BY <1>3
    DEF RowAccepted, RowBegun, RowSucceeded, RowFailed, RowCancelled,
        Active, Terminal
  <2>2. \E r : rec' = [rec EXCEPT ![b] = r]
    BY <1>3
    DEF RowAccepted, RowBegun, RowSucceeded, RowFailed, RowCancelled,
        RowMoved
  <2> QED BY <2>1, <2>2 DEF TypeOK
<1> QED BY <1>1, <1>2, <1>3 DEF RowStep

\* No step of any worker, on any replica, after any crash, changes the status,
\* the result or the failure of a build that is over.
THEOREM TerminalStatusIsFinal == Spec => TerminalIsFinal
<1>1. TypeOK /\ Placed /\ [Next]_vars =>
        [\A b \in Builds : rec[b].status \in Terminal =>
           /\ rec'[b].status = rec[b].status
           /\ rec'[b].image = rec[b].image
           /\ rec'[b].failure = rec[b].failure]_vars
  BY NextIsARowStep, RowStepFinal
<1> QED BY <1>1, AlwaysPlaced, PTL DEF Spec, TerminalIsFinal

RowOK(r, isSigned) ==
    /\ r.image <=> r.status = "succeeded"
    /\ r.status = "succeeded" => isSigned
    /\ r.failure # "none" <=> r.status \in {"failed", "cancelled"}
    /\ r.failure = "cancelled_by_request" <=> r.status = "cancelled"

RowsOK == \A b \in Builds : RowOK(rec[b], b \in signed)

LEMMA RowStepOK ==
    ASSUME TypeOK, RowStep, RowsOK, signed \subseteq signed'
    PROVE  RowsOK'
<1> SUFFICES ASSUME NEW c \in Builds PROVE RowOK(rec'[c], c \in signed')
  BY DEF RowsOK
<1>1. RowOK(rec[c], c \in signed) /\ rec[c] \in Records
  BY DEF RowsOK, TypeOK
<1>2. CASE rec'[c] = rec[c]
  BY <1>1, <1>2 DEF RowOK
<1>3. ASSUME NEW b \in Builds, b # c, NEW r, rec' = [rec EXCEPT ![b] = r]
      PROVE  rec'[c] = rec[c]
  BY <1>3 DEF TypeOK
<1>4. ASSUME NEW b \in Builds,
             \/ RowAccepted(b) \/ RowBegun(b) \/ RowSucceeded(b)
             \/ RowFailed(b) \/ RowCancelled(b) \/ RowCleaned(b)
      PROVE  \E r : rec' = [rec EXCEPT ![b] = r]
  BY <1>4
  DEF RowAccepted, RowBegun, RowSucceeded, RowFailed, RowCancelled,
      RowCleaned, RowMoved
<1>5. CASE RowAccepted(c)
  <2>1. PICK k \in Keys : rec'[c] = [Unused EXCEPT !.status = "queued",
                                                   !.key = k]
    BY <1>5 DEF RowAccepted, TypeOK
  <2> QED BY <2>1 DEF RowOK, Unused
<1>6. CASE RowCleaned(c)
  <2>1. rec'[c] = [rec[c] EXCEPT !.cleaned = TRUE]
    BY <1>6 DEF RowCleaned, TypeOK
  <2> QED BY <1>1, <2>1 DEF RowOK, Records
<1>7. ASSUME NEW to, NEW code, NEW i, RowMoved(c, to, code, i)
      PROVE  /\ rec'[c].status = to
             /\ rec'[c].failure = code
             /\ rec'[c].image = i
  <2>1. rec'[c] = [rec[c] EXCEPT !.status = to, !.failure = code, !.image = i]
    BY <1>7 DEF RowMoved, TypeOK
  <2> QED BY <1>1, <2>1 DEF Records
<1>8. CASE RowBegun(c)
  <2>1. rec'[c].status = "running" /\ rec'[c].failure = "none"
                                   /\ rec'[c].image = FALSE
    BY <1>7, <1>8 DEF RowBegun
  <2> QED BY <2>1 DEF RowOK
<1>9. CASE RowSucceeded(c)
  <2>1. rec'[c].status = "succeeded" /\ rec'[c].failure = "none"
                                     /\ rec'[c].image = TRUE
    BY <1>7, <1>9 DEF RowSucceeded
  <2>2. c \in signed'
    BY <1>9 DEF RowSucceeded
  <2> QED BY <2>1, <2>2 DEF RowOK
<1>10. CASE RowFailed(c)
  <2>1. PICK code \in Verdicts : RowMoved(c, "failed", code, FALSE)
    BY <1>10 DEF RowFailed
  <2>2. rec'[c].status = "failed" /\ rec'[c].failure = code
                                  /\ rec'[c].image = FALSE
    BY <1>7, <2>1
  <2> QED BY <2>2 DEF RowOK, Verdicts, FailureCodes
<1>11. CASE RowCancelled(c)
  <2>1. /\ rec'[c].status = "cancelled"
        /\ rec'[c].failure = "cancelled_by_request"
        /\ rec'[c].image = FALSE
    BY <1>7, <1>11 DEF RowCancelled
  <2> QED BY <2>1 DEF RowOK
<1> QED
  BY <1>2, <1>3, <1>4, <1>5, <1>6, <1>8, <1>9, <1>10, <1>11 DEF RowStep

LEMMA AlwaysRowsOK == Spec => []RowsOK
<1>1. Init => RowsOK
  BY DEF Init, RowsOK, RowOK, Unused
<1>2. TypeOK /\ Placed /\ RowsOK /\ [Next]_vars => RowsOK'
  <2> SUFFICES ASSUME TypeOK, Placed, RowsOK, [Next]_vars PROVE RowsOK'
    OBVIOUS
  <2>1. CASE UNCHANGED vars
    BY <2>1 DEF vars, RowsOK, RowOK
  <2>2. CASE Next
    BY <2>2, NextIsARowStep, NextKeeps, RowStepOK DEF Keeps
  <2> QED BY <2>1, <2>2
<1> QED BY <1>1, <1>2, AlwaysPlaced, PTL DEF Spec

\* A succeeded build has an image, only a succeeded build has one, and it was
\* signed and verified before the row said so.
THEOREM SuccessIsSigned == Spec => []ResultIsSigned
<1>1. RowsOK => ResultIsSigned
  BY DEF RowsOK, RowOK, ResultIsSigned
<1> QED BY <1>1, AlwaysRowsOK, PTL

\* The failure code a client sees belongs to the outcome it sees.
THEOREM FailureMatchesStatus == Spec => []FailureAgreesWithStatus
<1>1. RowsOK => FailureAgreesWithStatus
  BY DEF RowsOK, RowOK, FailureAgreesWithStatus
<1> QED BY <1>1, AlwaysRowsOK, PTL

\* The unique index: however many POSTs race on a key, one row has it.
THEOREM KeyNamesOneBuild == Spec => []OneBuildPerKey
<1>1. Init => OneBuildPerKey
  BY DEF Init, OneBuildPerKey, Unused
<1>2. TypeOK /\ Placed /\ OneBuildPerKey /\ [Next]_vars => OneBuildPerKey'
  <2> SUFFICES ASSUME TypeOK, Placed, OneBuildPerKey, [Next]_vars
               PROVE  OneBuildPerKey'
    OBVIOUS
  <2>1. CASE UNCHANGED vars \/ UNCHANGED rec
    BY <2>1 DEF vars, OneBuildPerKey
  <2>2. ASSUME NEW b \in Builds, RowAccepted(b) PROVE OneBuildPerKey'
    <3>1. PICK k \in Keys :
            /\ KeyFree(k)
            /\ rec' = [rec EXCEPT ![b] = [Unused EXCEPT !.status = "queued",
                                                        !.key = k]]
      BY <2>2 DEF RowAccepted
    <3>2. \A c \in Builds : rec'[c].key = IF c = b THEN k ELSE rec[c].key
      BY <3>1 DEF TypeOK, Unused
    <3> QED BY <3>1, <3>2 DEF KeyFree, OneBuildPerKey
  <2>3. ASSUME NEW b \in Builds,
               \/ RowBegun(b) \/ RowSucceeded(b) \/ RowFailed(b)
               \/ RowCancelled(b) \/ RowCleaned(b)
        PROVE  OneBuildPerKey'
    <3>1. \A c \in Builds : rec'[c].key = rec[c].key
      BY <2>3, RowMovedColumns, RowCleanedColumns
      DEF RowBegun, RowSucceeded, RowFailed, RowCancelled
    <3> QED BY <3>1 DEF OneBuildPerKey
  <2>4. CASE Next
    BY <2>1, <2>2, <2>3, <2>4, NextIsARowStep DEF RowStep
  <2> QED BY <2>1, <2>4
<1> QED BY <1>1, <1>2, AlwaysPlaced, PTL DEF Spec

\* A namespace is only ever created for a build that has a row, so a restart
\* at any point leaves nothing the reconcilers cannot find.
THEOREM NamespacesAreTracked == Spec => []NamespaceHasRecord
<1>1. Init => NamespaceHasRecord
  BY DEF Init, NamespaceHasRecord
<1>2. TypeOK /\ Placed /\ NamespaceHasRecord /\ [Next]_vars
        => NamespaceHasRecord'
  <2> SUFFICES ASSUME TypeOK, Placed, NamespaceHasRecord, [Next]_vars
               PROVE  NamespaceHasRecord'
    OBVIOUS
  <2>1. CASE UNCHANGED vars
    BY <2>1 DEF vars, NamespaceHasRecord
  <2>2. CASE Next
    <3>1. \A b \in Builds : rec[b].status # "none" => rec'[b].status # "none"
      BY <2>2, NextKeeps DEF Keeps
    <3>2. ASSUME NEW b \in Builds, ns[b] = "absent", ns'[b] # "absent"
          PROVE  rec[b].status # "none"
      <4>1. PICK w \in Workers : ApplyNamespace(w)
        BY <2>2, <3>2
        DEF Next, Request, Create, Get, Cancel, cluster, WorkerStep, Reread,
            CancelRecord, ReconcileEnter, Inspect, InspectError, Sign,
            Complete, Fail, ApplyJob, RecordRunning, QueryError,
            DeleteNamespace, ConfirmDeleted, MarkCleaned, CleanupError, ReconcileRound, Crash,
            Environment, DeadlinePasses, JobStep, NamespaceGone, TypeOK
      <4>2. b = Subject(w)
        BY <3>2, <4>1 DEF ApplyNamespace, TypeOK
      <4> QED BY <4>1, <4>2 DEF ApplyNamespace, At, Placed, Good, Subject
    <3> QED BY <3>1, <3>2 DEF NamespaceHasRecord
  <2> QED BY <2>1, <2>2
<1> QED BY <1>1, <1>2, AlwaysPlaced, PTL DEF Spec

-----------------------------------------------------------------------------
(* BuildService implements BuildContract.                                  *)

LEMMA RowOrSeal ==
    ASSUME TypeOK, Placed, Next
    PROVE  \/ RowStep /\ UNCHANGED signed
           \/ /\ UNCHANGED rec
              /\ \E b \in Builds : /\ rec[b].status # "none"
                                   /\ signed' = signed \cup {b}
<1>1. CASE UNCHANGED signed
  BY <1>1, NextIsARowStep
<1>2. CASE ~UNCHANGED signed
  <2>1. PICK w \in Workers : Sign(w)
    BY <1>2
    DEF Next, Request, Create, Get, Cancel, WorkerStep, Reread, CancelRecord,
        ReconcileEnter, Inspect, InspectError, Complete, Fail,
        ApplyNamespace, ApplyJob, RecordRunning, QueryError, DeleteNamespace,
        ConfirmDeleted, MarkCleaned, CleanupError, ReconcileRound, Crash,
        Environment, DeadlinePasses, JobStep, NamespaceGone
  <2>2. Subject(w) \in Builds /\ rec[Subject(w)].status # "none"
    BY <2>1 DEF Sign, At, Placed, Good, Subject
  <2>3. signed' = signed \cup {Subject(w)} /\ UNCHANGED rec
    BY <1>2, <2>1 DEF Sign
  <2> QED BY <2>2, <2>3
<1> QED BY <1>1, <1>2

LEMMA RowStepImplements ==
    ASSUME TypeOK, RowsOK, RowStep, UNCHANGED signed
    PROVE  [Contract!Next]_(Contract!cvars)
<1> DEFINE P == [b \in Builds |-> rec[b].status]
           K == [b \in Builds |-> rec[b].key]
           I == [b \in Builds |-> rec[b].image]
<1>2. CASE UNCHANGED rec
  BY <1>2 DEF Contract!cvars
<1>3. ASSUME NEW b \in Builds, RowAccepted(b) PROVE Contract!Next
  <2>1. PICK k \in Keys :
          /\ rec[b].status = "none"
          /\ KeyFree(k)
          /\ rec' = [rec EXCEPT ![b] = [Unused EXCEPT !.status = "queued",
                                                      !.key = k]]
    BY <1>3 DEF RowAccepted
  <2>2. rec[b].image = FALSE
    BY <2>1 DEF RowsOK, RowOK, TypeOK, Records
  <2>3. \A c \in Builds :
          /\ rec'[c].status = IF c = b THEN "queued" ELSE rec[c].status
          /\ rec'[c].key = IF c = b THEN k ELSE rec[c].key
          /\ rec'[c].image = rec[c].image
    BY <2>1, <2>2 DEF TypeOK, Unused
  <2>4. P' = [P EXCEPT ![b] = "queued"] /\ K' = [K EXCEPT ![b] = k] /\ I' = I
    BY <2>3
  <2>5. Contract!Accept(b, k)
    BY <2>1, <2>4 DEF Contract!Accept, KeyFree
  <2> QED BY <2>5 DEF Contract!Next
<1>4. ASSUME NEW b \in Builds, RowBegun(b) PROVE Contract!Next
  <2>1. \A c \in Builds :
          /\ rec'[c].status = IF c = b THEN "running" ELSE rec[c].status
          /\ rec'[c].key = rec[c].key
          /\ rec'[c].image = IF c = b THEN FALSE ELSE rec[c].image
    BY <1>4, RowMovedColumns DEF RowBegun
  <2>2. rec[b].image = FALSE
    BY <1>4 DEF RowBegun, RowsOK, RowOK, TypeOK, Records
  <2>3. P' = [P EXCEPT ![b] = "running"] /\ K' = K /\ I' = I
    BY <2>1, <2>2
  <2>4. Contract!Begin(b)
    BY <1>4, <2>3 DEF RowBegun, Contract!Begin
  <2> QED BY <2>4 DEF Contract!Next
<1>5. ASSUME NEW b \in Builds, RowSucceeded(b) PROVE Contract!Next
  <2>1. \A c \in Builds :
          /\ rec'[c].status = IF c = b THEN "succeeded" ELSE rec[c].status
          /\ rec'[c].key = rec[c].key
          /\ rec'[c].image = IF c = b THEN TRUE ELSE rec[c].image
    BY <1>5, RowMovedColumns DEF RowSucceeded
  <2>2. P' = [P EXCEPT ![b] = "succeeded"] /\ K' = K
    BY <2>1
  <2>3. I' = [I EXCEPT ![b] = TRUE]
    BY <2>1
  <2>4. Contract!Succeed(b)
    BY <1>5, <2>2, <2>3
    DEF RowSucceeded, Contract!Succeed, Active, Contract!Active
  <2> QED BY <2>4 DEF Contract!Next
<1>6. ASSUME NEW b \in Builds, RowFailed(b) \/ RowCancelled(b)
      PROVE  Contract!Next
  <2>1. PICK s \in {"failed", "cancelled"} : \E code : RowMoved(b, s, code, FALSE)
    BY <1>6 DEF RowFailed, RowCancelled
  <2>2. \A c \in Builds :
          /\ rec'[c].status = IF c = b THEN s ELSE rec[c].status
          /\ rec'[c].key = rec[c].key
          /\ rec'[c].image = IF c = b THEN FALSE ELSE rec[c].image
    BY <2>1, RowMovedColumns
  <2>3. rec[b].status \in Active
    BY <1>6 DEF RowFailed, RowCancelled
  <2>4. rec[b].image = FALSE
    BY <2>3 DEF RowsOK, RowOK, TypeOK, Records, Active
  <2>5. P' = [P EXCEPT ![b] = s] /\ K' = K /\ I' = I
    BY <2>2, <2>4
  <2>6. Contract!Abandon(b)
    BY <2>3, <2>5 DEF Contract!Abandon, Active, Contract!Active
  <2> QED BY <2>6 DEF Contract!Next
<1>7. ASSUME NEW b \in Builds, RowCleaned(b) PROVE UNCHANGED Contract!cvars
  <2>1. P' = P /\ K' = K /\ I' = I
    BY <1>7, RowCleanedColumns
  <2> QED BY <2>1 DEF Contract!cvars
<1> QED BY <1>2, <1>3, <1>4, <1>5, <1>6, <1>7 DEF RowStep

\* Two replicas, their timers, their requests and their restarts, seen through
\* the rows and the signatures, behave as one builder that accepts a key once,
\* finishes a build once and publishes only what was signed.
THEOREM ServiceImplementsContract == Spec => ImplementsContract
<1>1. Init => Contract!Init
  BY DEF Init, Contract!Init, Unused
<1>2. TypeOK /\ Placed /\ RowsOK /\ [Next]_vars
        => [Contract!Next]_(Contract!cvars)
  <2> SUFFICES ASSUME TypeOK, Placed, RowsOK, [Next]_vars
               PROVE  [Contract!Next]_(Contract!cvars)
    OBVIOUS
  <2>1. CASE UNCHANGED vars
    BY <2>1 DEF vars, Contract!cvars
  <2>2. CASE RowStep /\ UNCHANGED signed
    BY <2>2, RowStepImplements
  <2>3. ASSUME UNCHANGED rec, NEW b \in Builds, rec[b].status # "none",
               signed' = signed \cup {b}
        PROVE  Contract!Next
    <3>1. Contract!Seal(b)
      BY <2>3 DEF Contract!Seal
    <3> QED BY <3>1 DEF Contract!Next
  <2> QED BY <2>1, <2>2, <2>3, RowOrSeal
<1> QED
  BY <1>1, <1>2, AlwaysPlaced, AlwaysRowsOK, PTL
  DEF Spec, ImplementsContract, Contract!Spec

-----------------------------------------------------------------------------
(* The in-process guard.                                                   *)

\* Within the guarded block of reconcile, and at the places around it.
Within(t) == t.op \in Reconciles /\ t.at # "reconcile"
Outer == {"idle", "reread", "cancel"}

Claims == \A w \in Workers :
            Within(task[w]) => task[w].build \in reconciling[HomeOf(w)]
Claimed == \A r \in Replicas : \A b \in reconciling[r] :
             \E w \in Workers :
               HomeOf(w) = r /\ Within(task[w]) /\ task[w].build = b
Alone == \A v, w \in Workers :
           /\ Within(task[v]) /\ Within(task[w])
           /\ HomeOf(v) = HomeOf(w) /\ task[v].build = task[w].build
           => v = w
Fits(t) == /\ t.at \in Outer => t.op \notin Reconciles
           /\ t.at = "reconcile" => t.op \in Reconciles
Fitting == \A w \in Workers : Fits(task[w])
Guarded == Claims /\ Claimed /\ Alone /\ Fitting

LEMMA HomesAreReplicas == \A w \in Workers : HomeOf(w) \in Replicas
BY HandlersHaveAHome DEF Workers, Timers, HomeOf

\* A worker moves and neither takes nor leaves the guard.
LEMMA Stays ==
    ASSUME TypeOK, Guarded, NEW w \in Workers, NEW t,
           task' = [task EXCEPT ![w] = t], UNCHANGED reconciling,
           Within(t) <=> Within(task[w]),
           Within(t) => t.build = task[w].build,
           Fits(t)
    PROVE  Guarded'
<1>1. \A v \in Workers : task'[v] = IF v = w THEN t ELSE task[v]
  BY DEF TypeOK
<1>2. \A v \in Workers : /\ Within(task'[v]) <=> Within(task[v])
                         /\ Within(task[v]) => task'[v].build = task[v].build
  BY <1>1
<1>3. Claims'
  BY <1>2 DEF Guarded, Claims
<1>4. Claimed'
  BY <1>2 DEF Guarded, Claimed
<1>5. Alone'
  BY <1>2 DEF Guarded, Alone
<1>6. Fitting'
  BY <1>1 DEF Guarded, Fitting
<1> QED BY <1>3, <1>4, <1>5, <1>6 DEF Guarded

\* A worker takes the guard of a build nobody of its replica reconciles.
LEMMA Takes ==
    ASSUME TypeOK, Guarded, NEW w \in Workers, NEW t, NEW b,
           task' = [task EXCEPT ![w] = t], Within(t), ~Within(task[w]),
           t.build = b, Fits(t), b \notin reconciling[HomeOf(w)],
           reconciling' = [reconciling EXCEPT ![HomeOf(w)] = @ \cup {b}]
    PROVE  Guarded'
<1>1. \A v \in Workers : task'[v] = IF v = w THEN t ELSE task[v]
  BY DEF TypeOK
<1>2. \A r \in Replicas : reconciling'[r] =
        IF r = HomeOf(w) THEN reconciling[r] \cup {b} ELSE reconciling[r]
  BY DEF TypeOK
<1>3. Claims'
  BY <1>1, <1>2, HomesAreReplicas DEF Guarded, Claims
<1>4. Claimed'
  <2> SUFFICES ASSUME NEW r \in Replicas, NEW c \in reconciling'[r]
               PROVE  \E v \in Workers : HomeOf(v) = r /\ Within(task'[v])
                                         /\ task'[v].build = c
    BY DEF Claimed
  <2>1. CASE c \in reconciling[r]
    <3>1. PICK v \in Workers : /\ HomeOf(v) = r /\ Within(task[v])
                               /\ task[v].build = c
      BY <2>1 DEF Guarded, Claimed
    <3> QED BY <3>1, <1>1
  <2>2. CASE c \notin reconciling[r]
    BY <2>2, <1>1, <1>2
  <2> QED BY <2>1, <2>2
<1>5. Alone'
  BY <1>1 DEF Guarded, Alone, Claims
<1>6. Fitting'
  BY <1>1 DEF Guarded, Fitting
<1> QED BY <1>3, <1>4, <1>5, <1>6 DEF Guarded

\* A worker that was within leaves, and the guard with it.
LEMMA Leaves ==
    ASSUME TypeOK, Guarded, NEW w \in Workers, NEW t,
           task' = [task EXCEPT ![w] = t], Within(task[w]), t.op \notin Reconciles, Fits(t),
           reconciling' = [reconciling EXCEPT ![HomeOf(w)] = @ \ {task[w].build}]
    PROVE  Guarded'
<1>1. \A v \in Workers : task'[v] = IF v = w THEN t ELSE task[v]
  BY DEF TypeOK
<1>2. \A r \in Replicas : reconciling'[r] =
        IF r = HomeOf(w) THEN reconciling[r] \ {task[w].build} ELSE reconciling[r]
  BY DEF TypeOK
<1>3. ~Within(t)
  BY DEF Within
<1>4. Claims'
  BY <1>1, <1>2, <1>3, HomesAreReplicas DEF Guarded, Claims, Alone
<1>5. Claimed'
  <2> SUFFICES ASSUME NEW r \in Replicas, NEW c \in reconciling'[r]
               PROVE  \E v \in Workers : HomeOf(v) = r /\ Within(task'[v])
                                         /\ task'[v].build = c
    BY DEF Claimed
  <2>1. c \in reconciling[r] /\ (r = HomeOf(w) => c # task[w].build)
    BY <1>2
  <2>2. PICK v \in Workers : /\ HomeOf(v) = r /\ Within(task[v])
                             /\ task[v].build = c
    BY <2>1 DEF Guarded, Claimed
  <2>3. v # w
    BY <2>1, <2>2
  <2> QED BY <2>2, <2>3, <1>1
<1>6. Alone'
  BY <1>1, <1>3 DEF Guarded, Alone
<1>7. Fitting'
  BY <1>1 DEF Guarded, Fitting
<1> QED BY <1>4, <1>5, <1>6, <1>7 DEF Guarded

\* A worker goes on within, or outside, the guarded block.
LEMMA Alters ==
    ASSUME TypeOK, Guarded, NEW w \in Workers, NEW t,
           task' = [task EXCEPT ![w] = t], UNCHANGED reconciling,
           task[w].at # "reconcile", t.op = task[w].op, t.build = task[w].build,
           t.at \notin Outer \cup {"reconcile"}
    PROVE  Guarded'
BY Stays DEF Within, Fits

LEMMA GotoAlters ==
    ASSUME TypeOK, Guarded, NEW w \in Workers, NEW p,
           Goto(w, p), UNCHANGED reconciling,
           task[w].at # "reconcile", p \notin Outer \cup {"reconcile"}
    PROVE  Guarded'
<1> DEFINE t == [task[w] EXCEPT !.at = p]
<1>1. task[w] \in Tasks
  BY DEF TypeOK
<1>2. task' = [task EXCEPT ![w] = t]
  BY DEF Goto, TypeOK
<1>3. t.op = task[w].op /\ t.build = task[w].build /\ t.at = p
  BY <1>1 DEF Tasks
<1> HIDE DEF t
<1> QED BY <1>2, <1>3, Alters

LEMMA GiveUpAlters ==
    ASSUME TypeOK, Guarded, NEW w \in Workers, NEW code,
           GiveUpWith(w, code), UNCHANGED reconciling, task[w].at # "reconcile"
    PROVE  Guarded'
<1> DEFINE t == [task[w] EXCEPT !.at = "fail", !.code = code]
<1>1. task[w] \in Tasks
  BY DEF TypeOK
<1>2. task' = [task EXCEPT ![w] = t]
  BY DEF GiveUpWith, TypeOK
<1>3. t.op = task[w].op /\ t.build = task[w].build /\ t.at = "fail"
  BY <1>1 DEF Tasks
<1> HIDE DEF t
<1> QED BY <1>2, <1>3, Alters DEF Outer

\* Whoever releases was within, if there is a guard to release.
LEMMA ReleaseLeaves ==
    ASSUME TypeOK, Guarded, NEW w \in Workers, NEW t,
           task' = [task EXCEPT ![w] = t], Release(w),
           task[w].at # "reconcile", t.op \notin Reconciles, Fits(t)
    PROVE  Guarded'
<1>1. CASE task[w].op \in Reconciles
  BY <1>1, Leaves DEF Release, Within, Subject
<1>2. CASE task[w].op \notin Reconciles
  BY <1>2, Stays DEF Release, Within
<1> QED BY <1>1, <1>2

LEMMA ResumesOutside ==
    ASSUME NEW w \in Workers
    PROVE  Resume(w).op \notin Reconciles /\ Fits(Resume(w))
<1> DEFINE r == About(Subject(w), "reread", "get")
           c == About(Subject(w), "cancel", "cancel")
<1>1. Resume(w) \in {r, c, Idle}
  BY Zenon DEF Resume
<1>2. /\ r.op = "get" /\ c.op = "cancel" /\ Idle.op = "none"
      /\ r.at = "reread" /\ c.at = "cancel" /\ Idle.at = "idle"
  BY DEF About, Idle
<1> HIDE DEF r, c
<1> QED BY <1>1, <1>2 DEF Reconciles, Fits

LEMMA ReturnLeaves ==
    ASSUME TypeOK, Guarded, NEW w \in Workers, Return(w), task[w].at # "reconcile"
    PROVE  Guarded'
BY ReleaseLeaves, ResumesOutside DEF Return

LEMMA CleanupGuards ==
    ASSUME TypeOK, Guarded, NEW w \in Workers, EnterCleanup(w),
           task[w].at # "reconcile"
    PROVE  Guarded'
<1>1. CASE task[w].cleaned
  BY <1>1, ReturnLeaves DEF EnterCleanup
<1>2. CASE ~task[w].cleaned
  <2> DEFINE t == [task[w] EXCEPT !.at = "cleanDelete", !.code = "none", !.tries = 0]
  <2>1. task[w] \in Tasks
    BY DEF TypeOK
  <2>2. task' = [task EXCEPT ![w] = t] /\ UNCHANGED reconciling
    BY <1>2 DEF EnterCleanup, TypeOK
  <2>3. t.op = task[w].op /\ t.build = task[w].build /\ t.at = "cleanDelete"
    BY <2>1 DEF Tasks
  <2> HIDE DEF t
  <2> QED BY <2>2, <2>3, Alters DEF Outer
<1> QED BY <1>1, <1>2

\* A worker that is not within begins something else.
LEMMA BeginsOutside ==
    ASSUME TypeOK, Guarded, NEW w \in Workers, NEW t,
           task' = [task EXCEPT ![w] = t], UNCHANGED reconciling,
           task[w].at \in Outer \cup {"reconcile"},
           t.op \in Reconciles <=> t.at = "reconcile"
    PROVE  Guarded'
BY Stays DEF Within, Guarded, Fitting, Fits, Outer

LEMMA RequestGuards ==
    ASSUME TypeOK, Guarded, NEW w \in Handlers, Request(w)
    PROVE  Guarded'
<1>1. w \in Workers /\ At(w, "idle") /\ UNCHANGED reconciling
  BY DEF Workers, Request, Create, Get, Cancel
<1>2. \E b \in Builds, p \in Places, op \in Ops :
        Begin(w, p, op, b) /\ (op \in Reconciles <=> p = "reconcile")
  BY DEF Request, Create, Get, Cancel, Places, Ops, Reconciles
<1>3. PICK b \in Builds, p \in Places, op \in Ops :
        Begin(w, p, op, b) /\ (op \in Reconciles <=> p = "reconcile")
  BY <1>2
<1>4. About(b, p, op).op = op /\ About(b, p, op).at = p
  BY DEF About, Idle
<1> QED BY <1>1, <1>3, <1>4, BeginsOutside DEF Begin, At, Outer

LEMMA EnterGuards ==
    ASSUME TypeOK, Placed, Guarded, NEW w \in Workers, ReconcileEnter(w)
    PROVE  Guarded'
<1> DEFINE b == Subject(w)
           r == HomeOf(w)
<1>1. At(w, "reconcile")
  BY DEF ReconcileEnter
<1>2. CASE task' = [task EXCEPT ![w] = Resume(w)] /\ UNCHANGED reconciling
  BY <1>1, <1>2, ResumesOutside, BeginsOutside DEF At, Fits
<1>3. CASE /\ b \notin reconciling[r]
           /\ rec[b].status \in Active
           /\ reconciling' = [reconciling EXCEPT ![r] = @ \cup {b}]
           /\ task' = [task EXCEPT ![w].cleaned = rec[b].cleaned,
                           ![w].at = AfterRead(b),
                           ![w].code = IF PastDeadline(b)
                                       THEN "build_timeout" ELSE "none"]
  <2> DEFINE code == IF PastDeadline(b) THEN "build_timeout" ELSE "none"
             t == [task[w] EXCEPT !.cleaned = rec[b].cleaned,
                                  !.at = AfterRead(b), !.code = code]
  <2>1. task[w] \in Tasks
    BY DEF TypeOK
  <2>2. task' = [task EXCEPT ![w] = t]
    BY <1>3 DEF TypeOK
  <2>3. AfterRead(b) \in {"fail", "inspectQueued", "inspectRunning"}
    BY <1>3, Zenon DEF AfterRead, Active
  <2>4. t.op = task[w].op /\ t.build = b /\ t.at = AfterRead(b)
    BY <2>1 DEF Tasks, Subject
  <2> HIDE DEF t, code
  <2>5. task[w].op \in Reconciles
    BY <1>1 DEF Guarded, Fitting, Fits, At
  <2> QED BY <1>1, <1>3, <2>2, <2>3, <2>4, <2>5, Takes DEF Within, Outer, At, Fits
<1> QED BY <1>2, <1>3 DEF ReconcileEnter

\* A step that leaves no guard behind: it goes on, gives up, or returns.
LEMMA InspectGuards ==
    ASSUME TypeOK, Guarded, NEW w \in Workers, Inspect(w)
    PROVE  Guarded'
<1>1. task[w].at # "reconcile"
  BY DEF Inspect, Inspecting
<1>2. CASE HandToComplete(w)
  <2> DEFINE op == IF task[w].op = "getReconcile" THEN "getComplete" ELSE "complete"
             t == [task[w] EXCEPT !.at = "sign", !.op = op]
  <2>1. task[w] \in Tasks
    BY DEF TypeOK
  <2>2. task' = [task EXCEPT ![w] = t] /\ Release(w)
    BY <1>2 DEF HandToComplete, TypeOK
  <2>3. t.op \in {"getComplete", "complete"} /\ t.at = "sign"
    BY <2>1 DEF Tasks
  <2> HIDE DEF t, op
  <2> QED BY <1>1, <2>2, <2>3, ReleaseLeaves DEF Reconciles, Fits, Outer
<1>3. CASE Return(w)
  BY <1>1, <1>3, ReturnLeaves
<1>4. CASE \E p \in {"namespace", "observed"} : Goto(w, p) /\ UNCHANGED reconciling
  BY <1>1, <1>4, GotoAlters DEF Outer
<1>5. CASE \E code \in {"build_job_missing", "build_job_failed"} :
             GiveUpWith(w, code) /\ UNCHANGED reconciling
  BY <1>1, <1>5, GiveUpAlters
<1> QED BY <1>2, <1>3, <1>4, <1>5 DEF Inspect

LEMMA WorkerGuards ==
    ASSUME TypeOK, Placed, Guarded, NEW w \in Workers, WorkerStep(w)
    PROVE  Guarded'
<1>1. CASE Reread(w)
  <2>1. task[w].at = "reread" /\ UNCHANGED reconciling
    BY <1>1 DEF Reread, At
  <2>2. \/ task' = [task EXCEPT ![w] = Idle]
        \/ task' = [task EXCEPT ![w] = About(Subject(w), "cleanDelete", "cleanup")]
    BY <1>1 DEF Reread, Begin
  <2> QED BY <2>1, <2>2, BeginsOutside DEF About, Idle, Reconciles, Outer
<1>2. CASE CancelRecord(w)
  BY <1>2, BeginsOutside DEF CancelRecord, At, Idle, Reconciles, Outer
<1>3. CASE ReconcileEnter(w)
  BY <1>3, EnterGuards
<1>4. CASE Inspect(w)
  BY <1>4, InspectGuards
<1>5. CASE InspectError(w)
  BY <1>5, ReturnLeaves DEF InspectError, Inspecting
<1>6. CASE Sign(w)
  BY <1>6, GotoAlters, GiveUpAlters DEF Sign, At, Outer
<1>7. CASE Complete(w) \/ Fail(w)
  BY <1>7, CleanupGuards DEF Complete, Fail, At
<1>8. CASE ApplyNamespace(w) \/ ApplyJob(w)
  BY <1>8, GotoAlters DEF ApplyNamespace, ApplyJob, At, Outer
<1>9. CASE RecordRunning(w) \/ MarkCleaned(w)
  BY <1>9, ReturnLeaves DEF RecordRunning, MarkCleaned, At
<1>10. CASE QueryError(w)
  <2>1. CASE GiveUpWith(w, "build_start_failed") /\ At(w, "started")
             /\ UNCHANGED reconciling
    BY <2>1, GiveUpAlters DEF At
  <2>2. CASE /\ task[w].at \in {"observed", "complete", "fail", "cancel", "reread"}
             /\ task' = [task EXCEPT ![w] = Idle] /\ Release(w)
    BY <2>2, ReleaseLeaves DEF Idle, Reconciles, Fits
  <2>3. CASE /\ At(w, "reconcile") /\ UNCHANGED reconciling
             /\ task' = [task EXCEPT ![w] = Idle]
    BY <2>3, BeginsOutside DEF At, Idle, Reconciles
  <2> QED BY <1>10, <2>1, <2>2, <2>3 DEF QueryError
<1>11. CASE DeleteNamespace(w) \/ ConfirmDeleted(w)
  <2>1. task[w].at # "reconcile" /\ UNCHANGED reconciling
    BY <1>11 DEF DeleteNamespace, ConfirmDeleted, Deleting, Confirming
  <2>2. \/ GiveUpWith(w, "build_start_failed")
        \/ \E p \in {"cleanMark", "undoConfirm", "cleanConfirm"} : Goto(w, p)
    BY <1>11 DEF DeleteNamespace, ConfirmDeleted, Gone
  <2> QED BY <2>1, <2>2, GiveUpAlters, GotoAlters DEF Outer
<1>12. CASE CleanupError(w)
  <2> DEFINE t == [task[w] EXCEPT !.at = "cleanDelete", !.tries = @ + 1]
  <2>1. task[w] \in Tasks /\ task[w].at # "reconcile"
    BY <1>12 DEF TypeOK, CleanupError
  <2>2. CASE task' = [task EXCEPT ![w].at = "cleanDelete", ![w].tries = @ + 1]
             /\ UNCHANGED reconciling
    <3>1. task' = [task EXCEPT ![w] = t]
      BY <2>2 DEF TypeOK
    <3>2. t.op = task[w].op /\ t.build = task[w].build /\ t.at = "cleanDelete"
      BY <2>1 DEF Tasks
    <3> HIDE DEF t
    <3> QED BY <2>1, <2>2, <3>1, <3>2, Alters DEF Outer
  <2>3. CASE GiveUpWith(w, "build_start_failed") /\ UNCHANGED reconciling
    BY <2>1, <2>3, GiveUpAlters
  <2>4. CASE Return(w)
    BY <2>1, <2>4, ReturnLeaves
  <2> QED BY <1>12, <2>2, <2>3, <2>4 DEF CleanupError
<1> QED
  BY <1>1, <1>2, <1>3, <1>4, <1>5, <1>6, <1>7, <1>8, <1>9, <1>10, <1>11, <1>12
  DEF WorkerStep

\* A round begins where the previous one has ended, outside every guard; a
\* restart loses the guards of the replica together with their workers.
LEMMA ReplicaGuards ==
    ASSUME TypeOK, Guarded, NEW r \in Replicas, ReconcileRound(r) \/ Crash(r)
    PROVE  Guarded'
<1>1. CASE ReconcileRound(r)
  <2>1. \A b \in Builds : /\ RoundTask(b).op \in Reconciles <=> RoundTask(b).at = "reconcile"
                          /\ RoundTask(b).at \in Outer => RoundTask(b).op \notin Reconciles
    <3> SUFFICES ASSUME NEW b \in Builds
                 PROVE /\ RoundTask(b).op \in Reconciles <=> RoundTask(b).at = "reconcile"
                       /\ RoundTask(b).at \in Outer => RoundTask(b).op \notin Reconciles
      OBVIOUS
    <3> DEFINE x == About(b, "reconcile", "reconcile")
               y == About(b, "cleanDelete", "cleanup")
    <3>1. RoundTask(b) \in {x, y, Idle}
      BY Zenon DEF RoundTask
    <3>2. /\ x.op = "reconcile" /\ y.op = "cleanup" /\ Idle.op = "none"
          /\ x.at = "reconcile" /\ y.at = "cleanDelete" /\ Idle.at = "idle"
      BY DEF About, Idle
    <3> HIDE DEF x, y
    <3> QED BY <3>1, <3>2 DEF Reconciles, Outer
  <2>2. \A w \in Workers :
          /\ ~(w \in Timers /\ w[1] = r) => task'[w] = task[w]
          /\ w \in Timers /\ w[1] = r =>
               \E b \in Builds : task'[w] = RoundTask(b) /\ task[w].at = "idle"
    BY <1>1 DEF ReconcileRound, Timers, At
  <2>3. \A w \in Workers : /\ Within(task'[w]) <=> Within(task[w])
                           /\ Within(task[w]) => task'[w] = task[w]
                           /\ Fits(task'[w])
    BY <2>1, <2>2 DEF Within, Guarded, Fitting, Fits, Outer
  <2>4. UNCHANGED reconciling
    BY <1>1 DEF ReconcileRound
  <2> QED BY <2>3, <2>4 DEF Guarded, Claims, Claimed, Alone, Fitting
<1>2. CASE Crash(r)
  <2>1. \A w \in Workers : task'[w] = IF HomeOf(w) = r THEN Idle ELSE task[w]
    BY <1>2 DEF Crash
  <2>2. \A s \in Replicas : reconciling'[s] = IF s = r THEN {} ELSE reconciling[s]
    BY <1>2 DEF Crash, TypeOK
  <2>3. ~Within(Idle) /\ Fits(Idle)
    BY DEF Within, Idle, Reconciles, Fits
  <2>4. \A w \in Workers : HomeOf(w) # r => task'[w] = task[w]
    BY <2>1
  <2>5. \A w \in Workers : HomeOf(w) = r => ~Within(task'[w]) /\ Fits(task'[w])
    BY <2>1, <2>3
  <2>6. Claims'
    BY <2>2, <2>4, <2>5, HomesAreReplicas DEF Guarded, Claims
  <2>7. Claimed'
    BY <2>2, <2>4, <2>5 DEF Guarded, Claimed
  <2>8. Alone'
    BY <2>4, <2>5 DEF Guarded, Alone
  <2>9. Fitting'
    BY <2>4, <2>5 DEF Guarded, Fitting
  <2> QED BY <2>6, <2>7, <2>8, <2>9 DEF Guarded
<1> QED BY <1>1, <1>2

LEMMA AlwaysGuarded == Spec => []Guarded
<1>1. Init => Guarded
  BY DEF Init, Guarded, Claims, Claimed, Alone, Fitting, Fits, Within, Idle,
         Reconciles
<1>2. TypeOK /\ Placed /\ Guarded /\ [Next]_vars => Guarded'
  <2> SUFFICES ASSUME TypeOK, Placed, Guarded, [Next]_vars PROVE Guarded'
    OBVIOUS
  <2>1. CASE UNCHANGED <<task, reconciling>>
    BY <2>1 DEF Guarded, Claims, Claimed, Alone, Fitting
  <2>2. ASSUME NEW b \in Builds, Environment(b) PROVE UNCHANGED <<task, reconciling>>
    BY <2>2 DEF Environment, DeadlinePasses, JobStep, NamespaceGone
  <2>3. CASE UNCHANGED vars
    BY <2>1, <2>3 DEF vars
  <2> QED BY <2>1, <2>2, <2>3, RequestGuards, WorkerGuards, ReplicaGuards DEF Next
<1> QED BY <1>1, <1>2, AlwaysPlaced, PTL DEF Spec

\* The guard set of a replica holds exactly the builds one of its workers is
\* reconciling, and that worker alone (reconcile, with its finally block): none
\* is reconciled twice at once, and none is left behind guarded.
THEOREM GuardIsHeld == Spec => []GuardIsExact
<1>1. TypeOK /\ Guarded => GuardIsExact
  <2> SUFFICES ASSUME TypeOK, Guarded, NEW r \in Replicas, NEW b \in Builds
               PROVE  LET inside == {w \in Workers : HomeOf(w) = r /\ InReconcile(w)
                                                     /\ Subject(w) = b}
                      IN  /\ b \in reconciling[r] <=> inside # {}
                          /\ \A v, w \in inside : v = w
    BY DEF GuardIsExact
  <2>1. \A w \in Workers : (InReconcile(w) <=> Within(task[w])) /\ Subject(w) = task[w].build
    BY DEF InReconcile, Within, Subject
  <2> QED BY <2>1 DEF Guarded, Claims, Claimed, Alone
<1> QED BY <1>1, AlwaysGuarded, TypeCorrect, PTL

-----------------------------------------------------------------------------
(***************************************************************************)
(* No activation goes round in circles: what a worker has ahead of it      *)
(* (Left) shrinks with each of its steps.                                  *)
(***************************************************************************)
\* The steps of a whole clean-up at most: a deletion, its confirmation and the
\* mark for each attempt, and what is around them.
WholeCleanup == 3 * CleanupAttempts + 3

\* What comes after a clean-up at most: GET reads the row again and may clean
\* up once more, and cancel has its transition to make.
Afterwards(op) ==
    IF op \in {"getReconcile", "getComplete"} THEN WholeCleanup + 2
    ELSE IF op = "cancel" THEN 2 ELSE 1

\* The places before a clean-up, by how far they are from it, and those of an
\* attempt, by how far they are from its end.
Ahead == [reconcile |-> 6, inspectQueued |-> 5, inspectRunning |-> 5,
          namespace |-> 4, job |-> 3, undoDelete |-> 2, undoConfirm |-> 1,
          started |-> 1, observed |-> 1, sign |-> 1, complete |-> 0, fail |-> 0]
Attempt == [cleanDelete |-> 2, cleanConfirm |-> 1, cleanMark |-> 0]

\* The steps a worker has ahead of it at most.
Left(t) ==
    IF t.at = "idle" THEN 0
    ELSE IF t.at = "cancel" THEN 1
    ELSE IF t.at = "reread" THEN WholeCleanup + 1
    ELSE IF t.at \in DOMAIN Attempt
    THEN 3 * (CleanupAttempts - t.tries) + Attempt[t.at] + Afterwards(t.op)
    ELSE WholeCleanup + Ahead[t.at] + Afterwards(t.op)

Nearer == \A w \in Workers : task[w].at # "idle" /\ task'[w] # task[w]
                               => Left(task'[w]) < Left(task[w])

LEMMA PlacesLeft ==
    ASSUME NEW t \in Tasks
    PROVE  /\ t.at = "idle" => Left(t) = 0
           /\ t.at = "cancel" => Left(t) = 1
           /\ t.at = "reread" => Left(t) = WholeCleanup + 1
           /\ t.at = "cleanDelete"
                => Left(t) = 3 * (CleanupAttempts - t.tries) + 2 + Afterwards(t.op)
           /\ t.at = "cleanConfirm"
                => Left(t) = 3 * (CleanupAttempts - t.tries) + 1 + Afterwards(t.op)
           /\ t.at = "cleanMark"
                => Left(t) = 3 * (CleanupAttempts - t.tries) + Afterwards(t.op)
           /\ t.at \in {"complete", "fail"} => Left(t) = WholeCleanup + Afterwards(t.op)
           /\ t.at \in {"undoConfirm", "started", "observed", "sign"}
                => Left(t) = WholeCleanup + 1 + Afterwards(t.op)
           /\ t.at = "undoDelete" => Left(t) = WholeCleanup + 2 + Afterwards(t.op)
           /\ t.at = "job" => Left(t) = WholeCleanup + 3 + Afterwards(t.op)
           /\ t.at = "namespace" => Left(t) = WholeCleanup + 4 + Afterwards(t.op)
           /\ t.at \in Inspecting => Left(t) = WholeCleanup + 5 + Afterwards(t.op)
           /\ t.at = "reconcile" => Left(t) = WholeCleanup + 6 + Afterwards(t.op)
<1>1. /\ DOMAIN Attempt = {"cleanDelete", "cleanConfirm", "cleanMark"}
      /\ Attempt["cleanDelete"] = 2 /\ Attempt["cleanConfirm"] = 1
      /\ Attempt["cleanMark"] = 0
  BY DEF Attempt
<1>2. /\ Ahead["reconcile"] = 6 /\ Ahead["inspectQueued"] = 5
      /\ Ahead["inspectRunning"] = 5 /\ Ahead["namespace"] = 4 /\ Ahead["job"] = 3
      /\ Ahead["undoDelete"] = 2 /\ Ahead["undoConfirm"] = 1 /\ Ahead["started"] = 1
      /\ Ahead["observed"] = 1 /\ Ahead["sign"] = 1 /\ Ahead["complete"] = 0
      /\ Ahead["fail"] = 0
  BY DEF Ahead
<1>3. /\ WholeCleanup \in Nat /\ Afterwards(t.op) \in Nat
      /\ CleanupAttempts - t.tries \in Nat
  BY SomeAttempt DEF WholeCleanup, Afterwards, Tasks
<1> QED BY <1>1, <1>2, <1>3 DEF Left, Inspecting

\* A task that goes on without a clean-up behind it has fewer steps left.
LEMMA ResumesNearer ==
    ASSUME NEW w \in Workers, task[w] \in Tasks, Resume(w) \in Tasks
    PROVE  Left(Resume(w)) \in Nat /\ Left(Resume(w)) < Afterwards(task[w].op)
<1>1. WholeCleanup \in Nat
  BY SomeAttempt DEF WholeCleanup
<1>2. CASE task[w].op \in {"getReconcile", "getComplete"}
  <2>1. Resume(w).at = "reread"
    BY <1>2 DEF Resume, About, Idle
  <2> QED BY <1>1, <1>2, <2>1, PlacesLeft DEF Afterwards
<1>3. CASE task[w].op = "cancel"
  <2>1. Resume(w).at = "cancel"
    BY <1>3 DEF Resume, About, Idle
  <2> QED BY <1>3, <2>1, PlacesLeft DEF Afterwards
<1>4. CASE task[w].op \notin {"getReconcile", "getComplete", "cancel"}
  <2>1. Resume(w) = Idle
    BY <1>4 DEF Resume
  <2>2. Resume(w).at = "idle"
    BY <2>1 DEF Idle
  <2> QED BY <1>4, <2>2, PlacesLeft DEF Afterwards
<1> QED BY <1>2, <1>3, <1>4

LEMMA AfterIsSmall ==
    ASSUME NEW op
    PROVE  Afterwards(op) \in 1..WholeCleanup + 2 /\ WholeCleanup \in Nat
BY SomeAttempt DEF Afterwards, WholeCleanup

LEMMA LeftIsBounded ==
    ASSUME NEW t \in Tasks
    PROVE  /\ Left(t) \in 0..6 * CleanupAttempts + 14
           /\ t.at # "idle" => Left(t) > 0
<1>1. /\ t.tries \in 0..CleanupAttempts - 1 /\ CleanupAttempts \in Nat
      /\ t.at \in Places
  BY SomeAttempt DEF Tasks
<1>2. /\ WholeCleanup \in Nat /\ WholeCleanup = 3 * CleanupAttempts + 3
      /\ Afterwards(t.op) \in 1..WholeCleanup + 2
  BY <1>1, AfterIsSmall DEF WholeCleanup
<1> QED BY <1>1, <1>2, PlacesLeft DEF Places, Inspecting

\* Where a worker goes in a step of its own, it has fewer steps left.
LEMMA OwnStepIsNearer ==
    ASSUME TypeOK, Placed, Keeps, NEW w \in Workers, WorkerStep(w)
    PROVE  /\ \A v \in Workers \ {w} : task'[v] = task[v]
           /\ Left(task'[w]) < Left(task[w])
<1> DEFINE t == task[w]
           Goes(u) == /\ \A v \in Workers \ {w} : task'[v] = task[v]
                      /\ task'[w] = u
<1>1. t \in Tasks /\ task' \in [Workers -> Tasks] /\ task'[w] \in Tasks
  BY WorkerMoves DEF TypeOK
<1>2. ASSUME NEW u, task' = [task EXCEPT ![w] = u] PROVE Goes(u)
  BY <1>2 DEF TypeOK
<1>3. ASSUME NEW code, GiveUpWith(w, code)
      PROVE  /\ \A v \in Workers \ {w} : task'[v] = task[v]
             /\ task'[w].at = "fail" /\ task'[w].op = t.op
  BY <1>1, <1>3 DEF GiveUpWith, TypeOK, Tasks
<1>4. ASSUME t.at # "idle", task' = [task EXCEPT ![w] = Resume(w)]
      PROVE  /\ \A v \in Workers \ {w} : task'[v] = task[v]
             /\ Left(task'[w]) \in Nat /\ Left(task'[w]) < Afterwards(t.op)
  BY <1>1, <1>2, <1>4, ResumesNearer
<1>5. ASSUME task' = [task EXCEPT ![w] = Idle]
      PROVE  /\ \A v \in Workers \ {w} : task'[v] = task[v]
             /\ Left(task'[w]) = 0
  <2>1. task'[w].at = "idle"
    BY <1>2, <1>5 DEF Idle
  <2> QED BY <1>1, <1>2, <1>5, <2>1, PlacesLeft
<1>6. t.tries \in 0..CleanupAttempts - 1 /\ CleanupAttempts \in Nat
  BY <1>1, SomeAttempt DEF Tasks
<1> HIDE DEF Goes
<1>7. /\ WholeCleanup \in Nat /\ WholeCleanup = 3 * CleanupAttempts + 3
      /\ Afterwards(t.op) \in 1..WholeCleanup + 2
  BY <1>6, AfterIsSmall DEF WholeCleanup
<1>8. CASE Reread(w)
  <2>1. \/ Begin(w, "cleanDelete", "cleanup", Subject(w))
        \/ task' = [task EXCEPT ![w] = Idle]
    BY <1>8 DEF Reread
  <2>2. Left(t) = WholeCleanup + 1
    BY <1>1, <1>8, PlacesLeft DEF Reread, At
  <2>3. CASE Begin(w, "cleanDelete", "cleanup", Subject(w))
    <3>1. Goes(About(Subject(w), "cleanDelete", "cleanup"))
      BY <1>2, <2>3 DEF Begin
    <3>2. task'[w].at = "cleanDelete" /\ task'[w].op = "cleanup" /\ task'[w].tries = 0
      BY <3>1 DEF Goes, About, Idle
    <3>3. Left(task'[w]) = 3 * (CleanupAttempts - 0) + 2 + 1
      BY <1>1, <3>2, PlacesLeft DEF Afterwards
    <3> QED BY <1>6, <1>7, <2>2, <3>1, <3>3 DEF Goes
  <2> QED BY <1>5, <1>7, <2>1, <2>2, <2>3
<1>9. CASE CancelRecord(w)
  <2>1. Left(t) = 1
    BY <1>1, <1>9, PlacesLeft DEF CancelRecord, At
  <2> QED BY <1>5, <1>9, <2>1 DEF CancelRecord
<1>10. CASE ReconcileEnter(w)
  <2>1. Left(t) = WholeCleanup + 6 + Afterwards(t.op) /\ t.at # "idle"
    BY <1>1, <1>10, PlacesLeft DEF ReconcileEnter, At
  <2>2. CASE task' = [task EXCEPT ![w] = Resume(w)]
    BY <1>1, <1>4, <1>7, <2>1, <2>2
  <2>3. CASE task' # [task EXCEPT ![w] = Resume(w)]
    <3>1. /\ \A v \in Workers \ {w} : task'[v] = task[v]
          /\ task'[w].at = AfterRead(Subject(w)) /\ task'[w].op = t.op
      BY <1>1, <1>10, <2>3 DEF ReconcileEnter, TypeOK, Tasks
    <3>2. AfterRead(Subject(w)) \in {"fail", "inspectQueued", "inspectRunning"}
      BY <1>10, <2>3 DEF ReconcileEnter, AfterRead, Active
    <3> QED BY <1>1, <1>7, <2>1, <3>1, <3>2, PlacesLeft DEF Inspecting
  <2> QED BY <2>2, <2>3
<1>11. ASSUME NEW p, Goto(w, p)
       PROVE  /\ \A v \in Workers \ {w} : task'[v] = task[v]
              /\ task'[w].at = p /\ task'[w].op = t.op /\ task'[w].tries = t.tries
  BY <1>1, <1>11 DEF Goto, TypeOK, Tasks
<1>12. CASE Inspect(w)
  <2>1. Left(t) = WholeCleanup + 5 + Afterwards(t.op) /\ t.at # "idle"
    BY <1>1, <1>12, PlacesLeft DEF Inspect, Inspecting
  <2>2. \/ \E p \in {"namespace", "observed"} : Goto(w, p)
        \/ \E c \in {"build_job_missing", "build_job_failed"} : GiveUpWith(w, c)
        \/ HandToComplete(w)
        \/ Return(w)
    BY <1>12 DEF Inspect
  <2>3. CASE HandToComplete(w)
    <3>1. /\ \A v \in Workers \ {w} : task'[v] = task[v]
          /\ task'[w].at = "sign"
          /\ task'[w].op = IF t.op = "getReconcile" THEN "getComplete" ELSE "complete"
      BY <1>1, <2>3 DEF HandToComplete, TypeOK, Tasks
    <3>2. Afterwards(task'[w].op) <= Afterwards(t.op)
      BY <1>7, <3>1 DEF Afterwards
    <3> QED BY <1>1, <1>7, <2>1, <3>1, <3>2, AfterIsSmall, PlacesLeft
  <2>4. CASE Return(w)
    BY <1>1, <1>4, <1>7, <2>1, <2>4 DEF Return
  <2>5. ASSUME NEW p \in {"namespace", "observed"}, Goto(w, p)
        PROVE  /\ \A v \in Workers \ {w} : task'[v] = task[v]
               /\ Left(task'[w]) < Left(t)
    BY <1>1, <1>7, <1>11, <2>1, <2>5, PlacesLeft
  <2>6. ASSUME NEW c, GiveUpWith(w, c)
        PROVE  /\ \A v \in Workers \ {w} : task'[v] = task[v]
               /\ Left(task'[w]) < Left(t)
    BY <1>1, <1>3, <1>7, <2>1, <2>6, PlacesLeft
  <2> QED BY <2>2, <2>3, <2>4, <2>5, <2>6
<1>13. CASE InspectError(w)
  <2>1. Left(t) = WholeCleanup + 5 + Afterwards(t.op) /\ t.at # "idle"
    BY <1>1, <1>13, PlacesLeft DEF InspectError, Inspecting
  <2> QED BY <1>4, <1>7, <1>13, <2>1 DEF InspectError, Return
<1>14. CASE Sign(w)
  <2>1. Left(t) = WholeCleanup + 1 + Afterwards(t.op)
    BY <1>1, <1>14, PlacesLeft DEF Sign, At
  <2>2. CASE Goto(w, "complete")
    BY <1>1, <1>7, <1>11, <2>1, <2>2, PlacesLeft
  <2>3. ASSUME NEW c, GiveUpWith(w, c)
        PROVE  /\ \A v \in Workers \ {w} : task'[v] = task[v]
               /\ Left(task'[w]) < Left(t)
    BY <1>1, <1>3, <1>7, <2>1, <2>3, PlacesLeft
  <2> QED BY <1>14, <2>2, <2>3 DEF Sign
<1>15. CASE Complete(w) \/ Fail(w)
  <2>1. /\ Left(t) = WholeCleanup + Afterwards(t.op) /\ t.at # "idle"
        /\ EnterCleanup(w)
    BY <1>1, <1>15, PlacesLeft DEF Complete, Fail, At
  <2>2. CASE Return(w)
    BY <1>4, <1>7, <2>1, <2>2 DEF Return
  <2>3. CASE task' = [task EXCEPT ![w].at = "cleanDelete", ![w].code = "none",
                                  ![w].tries = 0]
    <3>1. /\ \A v \in Workers \ {w} : task'[v] = task[v]
          /\ task'[w].at = "cleanDelete" /\ task'[w].op = t.op /\ task'[w].tries = 0
      BY <1>1, <2>3 DEF TypeOK, Tasks
    <3>2. Left(task'[w]) = 3 * (CleanupAttempts - 0) + 2 + Afterwards(t.op)
      BY <1>1, <3>1, PlacesLeft
    <3> QED BY <1>6, <1>7, <2>1, <3>1, <3>2
  <2> QED BY <2>1, <2>2, <2>3 DEF EnterCleanup
<1>16. CASE ApplyNamespace(w) \/ ApplyJob(w)
  <2>1. \/ t.at = "namespace" /\ \E p \in {"job", "undoDelete"} : Goto(w, p)
        \/ t.at = "job" /\ \E p \in {"started", "undoDelete"} : Goto(w, p)
    BY <1>16 DEF ApplyNamespace, ApplyJob, At
  <2>2. ASSUME NEW p \in {"job", "undoDelete"}, t.at = "namespace", Goto(w, p)
        PROVE  /\ \A v \in Workers \ {w} : task'[v] = task[v]
               /\ Left(task'[w]) < Left(t)
    BY <1>1, <1>7, <1>11, <2>2, PlacesLeft
  <2>3. ASSUME NEW p \in {"started", "undoDelete"}, t.at = "job", Goto(w, p)
        PROVE  /\ \A v \in Workers \ {w} : task'[v] = task[v]
               /\ Left(task'[w]) < Left(t)
    BY <1>1, <1>7, <1>11, <2>3, PlacesLeft
  <2> QED BY <2>1, <2>2, <2>3
<1>17. CASE RecordRunning(w) \/ MarkCleaned(w)
  <2>1. CASE RecordRunning(w)
    <3>1. Left(t) = WholeCleanup + 1 + Afterwards(t.op) /\ t.at # "idle"
      BY <1>1, <2>1, PlacesLeft DEF RecordRunning
    <3> QED BY <1>4, <1>7, <2>1, <3>1 DEF RecordRunning, Return
  <2>2. CASE MarkCleaned(w)
    <3>1. /\ Left(t) = 3 * (CleanupAttempts - t.tries) + Afterwards(t.op)
          /\ t.at # "idle"
      BY <1>1, <2>2, PlacesLeft DEF MarkCleaned, At
    <3> QED BY <1>4, <1>6, <1>7, <2>2, <3>1 DEF MarkCleaned, Return
  <2> QED BY <1>17, <2>1, <2>2
<1>18. CASE DeleteNamespace(w) \/ ConfirmDeleted(w)
  <2>1. CASE t.at \in {"undoDelete", "undoConfirm"}
    <3>1. \/ GiveUpWith(w, "build_start_failed")
          \/ t.at = "undoDelete" /\ Goto(w, "undoConfirm")
      BY <1>18, <2>1
         DEF DeleteNamespace, ConfirmDeleted, Gone, At, Deleting, Confirming
    <3>2. CASE GiveUpWith(w, "build_start_failed")
      BY <1>1, <1>3, <1>7, <2>1, <3>2, PlacesLeft
    <3>3. CASE t.at = "undoDelete" /\ Goto(w, "undoConfirm")
      BY <1>1, <1>7, <1>11, <3>3, PlacesLeft
    <3> QED BY <3>1, <3>2, <3>3
  <2>2. CASE t.at \in {"cleanDelete", "cleanConfirm"}
    <3>1. \/ Goto(w, "cleanMark")
          \/ t.at = "cleanDelete" /\ Goto(w, "cleanConfirm")
      BY <1>18, <2>2
         DEF DeleteNamespace, ConfirmDeleted, Gone, At, Deleting, Confirming
    <3>2. CASE Goto(w, "cleanMark")
      BY <1>1, <1>6, <1>7, <1>11, <2>2, <3>2, PlacesLeft
    <3>3. CASE t.at = "cleanDelete" /\ Goto(w, "cleanConfirm")
      BY <1>1, <1>6, <1>7, <1>11, <3>3, PlacesLeft
    <3> QED BY <3>1, <3>2, <3>3
  <2> QED BY <1>18, <2>1, <2>2
         DEF DeleteNamespace, ConfirmDeleted, Deleting, Confirming
<1>19. CASE CleanupError(w)
  <2>1. CASE t.at \in {"undoDelete", "undoConfirm"}
    <3>1. GiveUpWith(w, "build_start_failed")
      BY <1>19, <2>1 DEF CleanupError
    <3> QED BY <1>1, <1>3, <1>7, <2>1, <3>1, PlacesLeft
  <2>2. CASE t.at \in {"cleanDelete", "cleanConfirm", "cleanMark"}
    <3>1. /\ Left(t) >= 3 * (CleanupAttempts - t.tries) + Afterwards(t.op)
          /\ Left(t) \in Nat /\ t.at # "idle"
      BY <1>1, <1>6, <1>7, <2>2, PlacesLeft
    <3>2. CASE Return(w)
      BY <1>4, <1>6, <1>7, <3>1, <3>2 DEF Return
    <3>3. CASE task' = [task EXCEPT ![w].at = "cleanDelete", ![w].tries = @ + 1]
      <4>1. /\ \A v \in Workers \ {w} : task'[v] = task[v]
            /\ task'[w].at = "cleanDelete" /\ task'[w].op = t.op
            /\ task'[w].tries = t.tries + 1
        BY <1>1, <3>3 DEF TypeOK, Tasks
      <4>2. Left(task'[w]) = 3 * (CleanupAttempts - (t.tries + 1)) + 2 + Afterwards(t.op)
        BY <1>1, <4>1, PlacesLeft
      <4> QED BY <1>6, <1>7, <3>1, <4>1, <4>2
    <3> QED BY <1>19, <2>2, <3>2, <3>3 DEF CleanupError
  <2> QED BY <1>19, <2>1, <2>2 DEF CleanupError
<1>20. CASE QueryError(w)
  <2>1. CASE GiveUpWith(w, "build_start_failed") /\ t.at = "started"
    BY <1>1, <1>3, <1>7, <2>1, PlacesLeft
  <2>2. CASE /\ task' = [task EXCEPT ![w] = Idle]
             /\ t.at \in {"observed", "complete", "fail", "cancel", "reread", "reconcile"}
    <3>1. Left(t) \in Nat /\ Left(t) > 0
      BY <1>1, <1>7, <2>2, PlacesLeft
    <3> QED BY <1>5, <2>2, <3>1
  <2> QED BY <1>20, <2>1, <2>2 DEF QueryError, At
<1> QED
  BY <1>8, <1>9, <1>10, <1>12, <1>13, <1>14, <1>15, <1>16, <1>17, <1>18, <1>19, <1>20
  DEF WorkerStep

\* The tasks that a round or a restart gives its workers.
LEMMA AnyStepIsNearer == TypeOK /\ Placed /\ [Next]_vars => Nearer
<1> SUFFICES ASSUME TypeOK, Placed, [Next]_vars, NEW v \in Workers,
                    task[v].at # "idle", task'[v] # task[v]
             PROVE  Left(task'[v]) < Left(task[v])
  BY DEF Nearer
<1>1. Keeps
  BY NextKeeps DEF vars, Keeps
<1>2. ASSUME NEW w \in Workers, WorkerStep(w) PROVE Left(task'[v]) < Left(task[v])
  BY <1>1, <1>2, OwnStepIsNearer
<1>3. ASSUME NEW w \in Handlers, Request(w) PROVE FALSE
  <2>1. task[w].at = "idle"
    BY <1>3 DEF Request, Create, Get, Cancel, At
  <2>2. \E u : task' = [task EXCEPT ![w] = u]
    BY <1>3 DEF Request, Create, Get, Cancel, Begin
  <2> QED BY <2>1, <2>2 DEF TypeOK
<1>4. ASSUME NEW r \in Replicas, ReconcileRound(r) PROVE FALSE
  <2>1. v \in Timers /\ v[1] = r
    BY <1>4 DEF ReconcileRound
  <2>2. v = <<r, v[2]>> /\ v[2] \in Builds
    BY <2>1 DEF Timers
  <2> QED BY <1>4, <2>2 DEF ReconcileRound, At
<1>5. ASSUME NEW r \in Replicas, Crash(r) PROVE Left(task'[v]) < Left(task[v])
  <2>1. task'[v] = Idle
    BY <1>5 DEF Crash
  <2>2. task[v] \in Tasks /\ Idle \in Tasks /\ Idle.at = "idle"
    BY IdleIsATask DEF TypeOK, Idle
  <2>3. Left(task[v]) \in Nat /\ Left(task[v]) > 0
    BY <2>2, LeftIsBounded
  <2> QED BY <2>1, <2>2, <2>3, PlacesLeft
<1>6. CASE (\E b \in Builds : Environment(b)) \/ UNCHANGED vars
  BY <1>6 DEF Environment, DeadlinePasses, JobStep, NamespaceGone, vars
<1> QED BY <1>2, <1>3, <1>4, <1>5, <1>6 DEF Next

\* No activation of the builder goes round in circles.  Every step a worker
\* makes, in a handler or on a timer, leaves it nearer to idle than it was: the
\* attempts of a clean-up (cleanup, for attempt < cleanupAttempts) are the only
\* loop, and GET, whose reconcile may clean up and whose second read may do so
\* again, does it at most twice.  With Left steps ahead, at most
\* 6 * CleanupAttempts + 14 of them, a request answers and a reconcile returns
\* to its timer whatever the answers of the database and the cluster are.
THEOREM ActivationsAreBounded ==
    Spec => /\ [](\A w \in Workers : Left(task[w]) \in 0..6 * CleanupAttempts + 14)
            /\ [][Nearer]_vars
<1>1. TypeOK => \A w \in Workers : Left(task[w]) \in 0..6 * CleanupAttempts + 14
  BY LeftIsBounded DEF TypeOK
<1> QED BY <1>1, AlwaysPlaced, AnyStepIsNearer, PTL DEF Spec
=============================================================================
