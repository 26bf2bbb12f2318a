----------------------------- MODULE WebClient -----------------------------
(***************************************************************************)
(* The learner's page (apps/web/app/page.tsx): the lab it shows, its       *)
(* validation and its run, and the handlers and effects that wait for      *)
(* answers of the API while the user goes on clicking.                     *)
(*                                                                         *)
(* JavaScript runs one thing at a time: a step is the code between two     *)
(* awaits, with the effects of the render that follows it.  A flow is a    *)
(* handler, or the polling of a build, between its first and its last      *)
(* await; what the API answers is what was so when it looked, and it may   *)
(* arrive after the answers to later requests, or be lost.                 *)
(*                                                                         *)
(* A definition whose comment starts with "Defect" is not part of the      *)
(* model: it is the definition that follows it with a bug the code could   *)
(* have had.                                                               *)
(***************************************************************************)
EXTENDS Naturals, Sequences, FiniteSets

CONSTANTS
    PageLabs,     \* labs there are or will be
    Slots,        \* handlers that may be waiting at once
    Polls,        \* <<lab, build>>: the builds there may be, one loop for each
    MaxRuns,      \* bound on deployments
    MaxClicks,    \* bound on what the user does
    MaxLosses,    \* bound on requests that fail or whose answer is lost
    Verdicts,     \* what a validation may find
    Nil, Error    \* nothing (yet), and the answer that is an error

ASSUME PageBounds == /\ Polls \subseteq PageLabs \X Nat /\ PageLabs \X {1} \subseteq Polls
                     /\ MaxRuns \in Nat /\ MaxClicks \in Nat /\ MaxLosses \in Nat

VARIABLES
    stored,     \* the labs at the API, with their build and their verdict
    runs,       \* the runs at the API
    items,      \* labs: the list on the page
    loading,    \* labsState = "loading"
    selected,   \* selectedLab, and selectedLabIdRef with it
    validation, \* the validation shown: [lab, verdict]
    run,        \* the run shown
    action,     \* action: what the page is busy with
    inFlight,   \* validationInFlightRef
    automatic,  \* automaticValidationRef: <<lab, build>>
    flow,       \* the flows
    watch,      \* the polling of the run: where it is, and its answer
    overtaken,  \* a lab on the page was replaced by an older state of it
    stranded,   \* a loop that was cancelled has validated, and left the page busy
    deaf,       \* a look at the run failed
    owed,       \* the build shown as pending whose end the page has not shown
    clicks, losses

server == <<stored, runs>>
shownLab == <<selected, validation, overtaken>>
shownRun == <<run, watch, deaf>>
busy == <<action, stranded>>
refs == <<inFlight, automatic>>
moving == <<server, items, loading, shownLab, shownRun, busy, refs, flow, clicks, losses>>
pageVars == <<moving, owed>>

\* A flow: its handler, the request it waits for, the lab and the build it is
\* about, the validation the list had of it, whether the lab is validated after
\* the list has come, the answer, and whether the loop was cancelled.
Free == [kind |-> "none", at |-> "none", lab |-> Nil, listed |-> Nil,
         goesOn |-> FALSE, reply |-> Nil, live |-> TRUE]
Asking(kind, at, lab) == [Free EXCEPT !.kind = kind, !.at = at, !.lab = lab]
Of(labs, l) == [id |-> l, build |-> labs[l].build, status |-> labs[l].status,
                verdict |-> labs[l].verdict]
Off == [at |-> "off", reply |-> Nil]

Statuses == {"running", "succeeded", "failed"}
FirstBuild(status, verdict) == [build |-> 1, status |-> status, verdict |-> verdict]
ValidationOf(lab) == IF lab = Nil \/ lab.verdict = "draft" THEN Nil
                     ELSE [lab |-> lab.id, verdict |-> lab.verdict]
Pending(lab) == lab # Nil /\ lab.status = "running"
Key(lab) == IF lab = Nil THEN Nil ELSE <<lab.id, lab.build>>

FirstLab == CHOOSE l \in PageLabs : TRUE

\* The first list has come: a lab is shown, its build polled if it is pending.
PageInit ==
    /\ \E status \in Statuses, verdict \in Verdicts \cup {"draft"},
          others \in {{}, PageLabs \ {FirstLab}} :
         /\ verdict # "draft" => status = "succeeded"
         /\ stored = [l \in {FirstLab} \cup others |->
                        IF l = FirstLab THEN FirstBuild(status, verdict)
                        ELSE FirstBuild("succeeded", "draft")]
    /\ items = stored /\ loading = FALSE
    /\ selected = Of(stored, FirstLab) /\ validation = ValidationOf(selected)
    /\ flow = [f \in Slots \cup Polls |->
                 IF Pending(selected) /\ f = Key(selected) THEN Asking("poll", "wait", f)
                 ELSE Free]
    /\ runs = <<>> /\ run = Nil
    /\ action = "idle" /\ inFlight = {} /\ automatic = {}
    /\ watch = Off /\ overtaken = FALSE /\ stranded = FALSE /\ deaf = FALSE
    /\ owed = IF Pending(selected) THEN {Key(selected)} ELSE {}
    /\ clicks = 0 /\ losses = 0

\* A page that is not open.
Closed ==
    /\ stored = <<>> /\ runs = <<>> /\ items = <<>> /\ loading = FALSE
    /\ selected = Nil /\ validation = Nil /\ run = Nil
    /\ action = "idle" /\ inFlight = {} /\ automatic = {}
    /\ flow = [f \in Slots \cup Polls |-> Free] /\ watch = Off
    /\ overtaken = FALSE /\ stranded = FALSE /\ deaf = FALSE
    /\ owed = {} /\ clicks = 0 /\ losses = 0

-----------------------------------------------------------------------------
(* The API, as the page uses it.                                           *)

Replies(f, value) == flow' = [flow EXCEPT ![f].reply = value]
LabAsked(f) == flow[f].lab[1]
Stores(l, lab) == stored' = [x \in DOMAIN stored \cup {l} |->
                               IF x = l THEN lab ELSE stored[x]]
page == <<items, loading, shownLab, shownRun, busy, refs, clicks>>

\* What a GET finds in labs; a POST is carried out later.
Found(labs, next) ==
    CASE next.at \in {"list", "relist"} -> labs
      [] next.at \in {"detail", "refetch"} -> Of(labs, next.lab[1])
      [] OTHER -> Nil

\* The answer of a GET is what was so when it was sent, or is so now.  Any
\* request may fail instead, before or after it was carried out.
Answers(f) == ({flow[f].reply, Found(stored, flow[f])} \ {Nil})
              \cup (IF losses < MaxLosses /\ flow[f] # Free THEN {Error} ELSE {})
Delivers(f, at, reply) ==
    /\ flow[f].at = at
    /\ losses' = IF reply = Error /\ flow[f].reply # Error THEN losses + 1 ELSE losses

Waits(f) == flow[f].reply = Nil

\* The lab of an accepted specification, its build begun, refused or done.
Generates(f) ==
    /\ flow[f].at = "generate"
    /\ \E l \in PageLabs \ DOMAIN stored, status \in {"running", "succeeded"} :
         /\ Stores(l, FirstBuild(status, "draft"))
         /\ Replies(f, Of(stored', l))
    /\ UNCHANGED <<runs, page, losses>>

Rebuilds(f) ==
    /\ flow[f].at = "retry"
    /\ LET lab == stored[LabAsked(f)] IN
       IF lab.status = "failed" /\ <<LabAsked(f), lab.build + 1>> \in Polls
       THEN /\ Stores(LabAsked(f), [build |-> lab.build + 1, status |-> "running",
                                   verdict |-> "draft"])
            /\ Replies(f, Of(stored', LabAsked(f)))
       ELSE Replies(f, Error) /\ UNCHANGED stored
    /\ UNCHANGED <<runs, page, losses>>

Validates(f) ==
    /\ flow[f].at = "check"
    /\ IF stored[LabAsked(f)].status = "succeeded"
       THEN \E verdict \in Verdicts :
              /\ stored' = [stored EXCEPT ![LabAsked(f)].verdict = verdict]
              /\ Replies(f, [lab |-> LabAsked(f), verdict |-> verdict])
       ELSE Replies(f, Error) /\ UNCHANGED stored
    /\ UNCHANGED <<runs, page, losses>>

Deploys(f) ==
    /\ flow[f].at = "deploy"
    /\ IF stored[LabAsked(f)].verdict = "passed" /\ Len(runs) < MaxRuns
       THEN /\ runs' = Append(runs, [lab |-> LabAsked(f), status |-> "provisioning"])
            /\ Replies(f, [id |-> Len(runs'), lab |-> LabAsked(f), status |-> "provisioning"])
       ELSE Replies(f, Error) /\ UNCHANGED runs
    /\ UNCHANGED <<stored, page, losses>>

LabBuildEnds(l) ==
    /\ l \in DOMAIN stored /\ stored[l].status = "running"
    /\ \E status \in {"succeeded", "failed"} :
         stored' = [stored EXCEPT ![l].status = status]
    /\ UNCHANGED <<runs, page, flow, losses>>

RunBecomesReady(i) ==
    /\ i \in DOMAIN runs /\ runs[i].status = "provisioning"
    /\ runs' = [runs EXCEPT ![i].status = "ready"]
    /\ UNCHANGED <<stored, page, flow, losses>>

-----------------------------------------------------------------------------
(* What the page does with a lab and a run.                                *)

Passed(v, lab) == \/ v # Nil /\ v.verdict = "passed"
                  \/ lab # Nil /\ lab.verdict = "passed"
IsSelected(l) == selected # Nil /\ selected.id = l

Older(lab, than) == \/ lab.build < than.build
                    \/ lab.build = than.build /\ Pending(lab) /\ ~Pending(than)

\* setActiveLab and setValidation
Show(lab, v) ==
    /\ selected' = lab /\ validation' = v
    /\ overtaken' = (overtaken \/ (/\ lab # Nil /\ IsSelected(lab.id)
                                   /\ Older(lab, selected)))
Keep == UNCHANGED shownLab

\* setRun, and the effect that looks after a run until it is settled.
SetRun(r) ==
    /\ run' = r
    /\ watch' = IF r = Nil \/ r.status = "ready" THEN Off ELSE [Off EXCEPT !.at = "wait"]
    /\ UNCHANGED deaf

\* The effect of [selectedLab.id, selectedBuild.id]: the loop of another build
\* is cancelled, its timer and its look are of no effect any more; a pending
\* build is polled.
Repolled(flows) ==
    IF Key(selected') = Key(selected) THEN flows
    ELSE [f \in DOMAIN flows |->
            IF f = Key(selected') /\ Pending(selected')
            THEN Asking("poll", "wait", f)
            ELSE IF flows[f].kind # "poll" THEN flows[f]
            ELSE IF flows[f].at \in {"wait", "detail"} THEN Free
            ELSE [flows[f] EXCEPT !.live = FALSE]]

\* Bound: a loop that was cancelled has settled before its build is polled again.
Goes(f, next) ==
    LET flows == [flow EXCEPT ![f] = [next EXCEPT !.reply = Found(stored, next)]] IN
    /\ Pending(selected') /\ Key(selected') # Key(selected)
         => flows[Key(selected')].at \in {"none", "wait", "detail"}
    /\ flow' = Repolled(flows)

\* The request a flow sends next.
Sends(f, at) == Goes(f, [flow[f] EXCEPT !.at = at, !.goesOn = FALSE, !.listed = Nil])
\* The list first, and a validation after it if there is what to validate.
ThenLists(f, lab, validates) ==
    Goes(f, [flow[f] EXCEPT !.at = "list", !.lab = Key(lab), !.goesOn = validates])

\* finally: the page is idle, unless the loop was cancelled meanwhile.
Settles(f) == /\ action' = IF flow[f].live THEN "idle" ELSE action
              /\ stranded' = (stranded \/ (~flow[f].live /\ action # "idle"))
Busies(with) == action' = with /\ UNCHANGED stranded

\* refreshLabs: the lab that is shown, as the list has it, or the first one.
Refreshes(reply) ==
    IF reply = Error
    THEN /\ Keep /\ UNCHANGED <<items, shownRun>>
    ELSE /\ items' = reply
         /\ \/ /\ selected # Nil /\ selected.id \in DOMAIN reply
               /\ LET lab == Of(reply, selected.id) IN Show(lab, ValidationOf(lab))
               /\ UNCHANGED shownRun
            \/ /\ ~(selected # Nil /\ selected.id \in DOMAIN reply)
               /\ selected' \in (IF DOMAIN reply = {} THEN {Nil}
                                 ELSE {Of(reply, l) : l \in DOMAIN reply})
               /\ validation' = ValidationOf(selected')
               /\ overtaken' = (overtaken \/ selected # Nil)
               /\ SetRun(Nil)

\* validateSelectedLab: not twice automatically, not twice at once.
MayStart(key, auto) == /\ auto => key \notin automatic
                       /\ key[1] \notin inFlight

\* validateSelectedLab(lab, true), and the finally of its callers
StartsValidation(f, key) ==
    IF MayStart(key, TRUE)
    THEN /\ Sends(f, "check") /\ Busies("validating")
         /\ inFlight' = inFlight \cup {key[1]}
         /\ automatic' = automatic \cup {key}
    ELSE Goes(f, Free) /\ Settles(f) /\ UNCHANGED refs

-----------------------------------------------------------------------------
(* What the user does.                                                     *)

Starts(f, kind, at, lab) == flow[f] = Free /\ Goes(f, Asking(kind, at, Key(lab)))
IsIdle == action = "idle"
quiet == <<server, losses>>
Clicks == clicks < MaxClicks /\ clicks' = clicks + 1

ClickRefresh(f) ==
    /\ Clicks /\ ~loading /\ loading' = TRUE
    /\ Keep /\ Starts(f, "refresh", "list", Nil)
    /\ UNCHANGED <<quiet, items, shownRun, busy, refs>>

SelectLab(f, l) ==
    /\ Clicks /\ l \in DOMAIN items /\ IsIdle
    /\ ~IsSelected(l) => ~Pending(selected)
    /\ LET lab == Of(items, l) IN
       /\ Show(lab, ValidationOf(lab))
       /\ flow[f] = Free
       /\ Goes(f, [Asking("select", "detail", Key(lab)) EXCEPT !.listed = ValidationOf(lab)])
    /\ SetRun(Nil)
    /\ UNCHANGED <<quiet, items, loading, busy, refs>>

HandleGenerate(f) ==
    /\ Clicks /\ IsIdle /\ PageLabs # DOMAIN stored
    /\ Busies("generating")
    /\ Keep /\ Starts(f, "generate", "generate", Nil)
    /\ UNCHANGED <<quiet, items, loading, shownRun, refs>>

HandleValidate(f) ==
    /\ Clicks /\ selected # Nil /\ IsIdle /\ selected.status = "succeeded"
    /\ MayStart(Key(selected), FALSE)
    /\ Keep /\ Starts(f, "validate", "check", selected)
    /\ Busies("validating") /\ inFlight' = inFlight \cup {selected.id}
    /\ UNCHANGED <<quiet, items, loading, shownRun, automatic>>

HandleRetryBuild(f) ==
    /\ Clicks /\ selected # Nil /\ IsIdle /\ selected.status = "failed"
    /\ <<selected.id, selected.build + 1>> \in Polls
    /\ Busies("building")
    /\ validation' = Nil /\ UNCHANGED <<selected, overtaken>>
    /\ Starts(f, "retry", "retry", selected)
    /\ UNCHANGED <<quiet, items, loading, shownRun, refs>>

HandleDeploy(f) ==
    /\ Clicks /\ selected # Nil /\ IsIdle /\ Passed(validation, selected)
    /\ Len(runs) < MaxRuns
    /\ Busies("deploying")
    /\ Keep /\ Starts(f, "deploy", "deploy", selected)
    /\ UNCHANGED <<quiet, items, loading, shownRun, refs>>

-----------------------------------------------------------------------------
(* What the handlers do with an answer.                                    *)

still == <<server, clicks>>

\* selectLab, after getLab
GotDetail(f, lab) ==
    /\ Delivers(f, "detail", lab) /\ flow[f].kind = "select"
    /\ IF lab = Error \/ ~IsSelected(LabAsked(f))
       THEN Keep /\ Goes(f, Free) /\ UNCHANGED <<busy, refs>>
       ELSE /\ Show(lab, IF lab.verdict = "draft" THEN flow[f].listed
                         ELSE ValidationOf(lab))
            /\ IF lab.status = "succeeded" /\ lab.verdict = "draft"
               THEN StartsValidation(f, Key(lab))
               ELSE Goes(f, Free) /\ UNCHANGED <<busy, refs>>
    /\ UNCHANGED <<still, items, loading, shownRun>>

GotGenerated(f, lab) ==
    /\ Delivers(f, "generate", lab)
    /\ IF lab = Error
       THEN Keep /\ Goes(f, Free) /\ Settles(f) /\ UNCHANGED shownRun
       ELSE /\ Show(lab, ValidationOf(lab)) /\ SetRun(Nil)
            /\ ThenLists(f, lab, lab.status = "succeeded") /\ UNCHANGED busy
    /\ UNCHANGED <<still, items, loading, refs>>

GotRetried(f, lab) ==
    /\ Delivers(f, "retry", lab)
    /\ IF lab = Error \/ ~IsSelected(LabAsked(f))
       THEN Keep /\ Goes(f, Free) /\ Settles(f)
       ELSE /\ Show(lab, validation) /\ UNCHANGED busy
            /\ ThenLists(f, lab, lab.status = "succeeded")
    /\ UNCHANGED <<still, items, loading, shownRun, refs>>

GotRun(f, reply) ==
    /\ Delivers(f, "deploy", reply)
    /\ Keep /\ Goes(f, Free) /\ Settles(f)
    /\ IF reply = Error THEN UNCHANGED shownRun ELSE SetRun(reply)
    /\ UNCHANGED <<still, items, loading, refs>>

\* refreshLabs of the button, or of a handler that goes on with its lab: an
\* environment that is there is validated automatically.
GotList(f, list) ==
    /\ Delivers(f, "list", list)
    /\ Refreshes(list) /\ loading' = FALSE
    /\ IF flow[f].goesOn THEN StartsValidation(f, flow[f].lab)
       ELSE /\ Goes(f, Free) /\ UNCHANGED refs
            /\ IF flow[f].kind \in {"generate", "retry"} THEN Settles(f)
               ELSE UNCHANGED busy
    /\ UNCHANGED still

\* Defect: the verdict is shown whatever lab the page has come to show.
GotVerdictOfAny(f, verdict) ==
    /\ Delivers(f, "check", verdict)
    /\ IF verdict = Error
       THEN /\ Keep /\ Goes(f, Free) /\ Settles(f)
            /\ inFlight' = inFlight \ {LabAsked(f)}
       ELSE /\ validation' = verdict /\ UNCHANGED <<selected, overtaken>>
            /\ Sends(f, "refetch") /\ UNCHANGED <<busy, inFlight>>
    /\ UNCHANGED <<still, items, loading, shownRun, automatic>>

\* validateSelectedLab: the verdict, the lab, and the list again.
GotVerdict(f, verdict) ==
    /\ Delivers(f, "check", verdict)
    /\ IF verdict = Error
       THEN /\ Keep /\ Goes(f, Free) /\ Settles(f)
            /\ inFlight' = inFlight \ {LabAsked(f)}
       ELSE /\ validation' = IF IsSelected(LabAsked(f)) THEN verdict ELSE validation
            /\ UNCHANGED <<selected, overtaken>>
            /\ Sends(f, "refetch") /\ UNCHANGED <<busy, inFlight>>
    /\ UNCHANGED <<still, items, loading, shownRun, automatic>>

GotLab(f, lab) ==
    /\ Delivers(f, "refetch", lab)
    /\ IF lab = Error \/ ~IsSelected(LabAsked(f)) THEN Keep
       ELSE Show(lab, validation)
    /\ Sends(f, "relist")
    /\ UNCHANGED <<still, items, loading, shownRun, busy, refs>>

GotListAgain(f, list) ==
    /\ Delivers(f, "relist", list)
    /\ Refreshes(list) /\ loading' = FALSE
    /\ Goes(f, Free) /\ Settles(f)
    /\ inFlight' = inFlight \ {LabAsked(f)}
    /\ UNCHANGED <<still, automatic>>

-----------------------------------------------------------------------------
(* The loops.                                                              *)

PollTimer(p) ==
    /\ flow[p].at = "wait"
    /\ Keep /\ Sends(p, "detail")
    /\ UNCHANGED <<still, items, loading, shownRun, busy, refs, losses>>

\* Defect: an error ends the loop.
GotPollOnce(p, lab) ==
    /\ Delivers(p, "detail", lab) /\ flow[p].kind = "poll"
    /\ IF lab = Error THEN Keep /\ Goes(p, Free)
       ELSE /\ Show(lab, ValidationOf(lab))
            /\ IF Pending(lab) THEN Sends(p, "wait")
               ELSE ThenLists(p, lab, lab.status = "succeeded" /\ lab.verdict # "passed")
    /\ UNCHANGED <<still, items, loading, shownRun, busy, refs>>

GotPoll(p, lab) ==
    /\ Delivers(p, "detail", lab) /\ flow[p].kind = "poll"
    /\ IF lab = Error THEN Keep /\ Sends(p, "wait")
       ELSE /\ Show(lab, ValidationOf(lab))
            /\ IF Pending(lab) THEN Sends(p, "wait")
               ELSE ThenLists(p, lab, lab.status = "succeeded" /\ lab.verdict # "passed")
    /\ UNCHANGED <<still, items, loading, shownRun, busy, refs>>

WatchTimer ==
    /\ watch.at = "wait"
    /\ watch' = [at |-> "asked", reply |-> runs[run.id].status]
    /\ UNCHANGED <<still, items, loading, shownLab, run, deaf, busy, refs, flow, losses>>

\* An error sets no run: the effect does not run again.
GotLook ==
    /\ watch.at = "asked"
    /\ \/ /\ \E status \in {watch.reply, runs[run.id].status} :
               SetRun([run EXCEPT !.status = status])
          /\ UNCHANGED losses
       \/ /\ losses < MaxLosses /\ losses' = losses + 1
          /\ watch' = Off /\ deaf' = TRUE /\ UNCHANGED run
    /\ UNCHANGED <<still, items, loading, shownLab, busy, refs, flow>>

Served(f) == Waits(f) /\ (Generates(f) \/ Rebuilds(f) \/ Validates(f) \/ Deploys(f))
Answered(f) ==
    \E reply \in Answers(f) :
        \/ GotDetail(f, reply) \/ GotGenerated(f, reply) \/ GotRetried(f, reply)
        \/ GotRun(f, reply) \/ GotList(f, reply) \/ GotVerdict(f, reply)
        \/ GotLab(f, reply) \/ GotListAgain(f, reply) \/ GotPoll(f, reply)
Watches == WatchTimer \/ GotLook

GoesOn(f) == Served(f) \/ Answered(f) \/ PollTimer(f)
UserClicks(f) == \/ ClickRefresh(f) \/ HandleGenerate(f) \/ HandleValidate(f)
                 \/ HandleRetryBuild(f) \/ HandleDeploy(f)
                 \/ \E l \in PageLabs : SelectLab(f, l)

\* The page shows something else, or the build has ended, and is validated if it
\* succeeded.
IsDone(k) == \/ Key(selected) # k \/ overtaken
             \/ selected.status = "failed"
             \/ /\ selected.status = "succeeded"
                /\ k \in automatic \/ k[1] \in inFlight \/ selected.verdict # "draft"

PageNext ==
    /\ \/ \E f \in DOMAIN flow : GoesOn(f)
       \/ \E f \in Slots : UserClicks(f)
       \/ Watches
       \/ \E l \in PageLabs : LabBuildEnds(l)
       \/ \E i \in 1..MaxRuns : RunBecomesReady(i)
    /\ owed' = {k \in owed \cup (IF Pending(selected') THEN {Key(selected')} ELSE {}) :
                  ~IsDone(k)'}

PageSafety == PageInit /\ [][PageNext]_pageVars

\* The API answers or the request fails; timers fire; builds and runs get
\* somewhere (which BuildService and RunLifecycle show).  Nobody has to click.
PageFairness ==
    /\ \A f \in Slots \cup Polls : WF_moving(GoesOn(f))
    /\ WF_moving(Watches)
    /\ \A l \in PageLabs : WF_moving(LabBuildEnds(l))
    /\ \A i \in 1..MaxRuns : WF_moving(RunBecomesReady(i))

-----------------------------------------------------------------------------
Kinds == {"none", "refresh", "select", "generate", "validate", "retry", "deploy", "poll"}
Lab == [id : PageLabs, build : Nat,
        status : Statuses, verdict : {"draft", "passed", "rejected"}]

\* Every variable has its type.
PageTypeOK ==
    /\ \A l \in DOMAIN stored : Of(stored, l) \in Lab
    /\ Len(runs) <= MaxRuns
    /\ selected \in Lab \cup {Nil}
    /\ validation = Nil \/ validation \in [lab : PageLabs, verdict : {"passed", "rejected"}]
    /\ action \in {"idle", "generating", "validating", "building", "deploying"}
    /\ inFlight \subseteq PageLabs /\ automatic \subseteq Polls
    /\ \A f \in DOMAIN flow : flow[f].kind \in Kinds /\ flow[f].lab \in Polls \cup {Nil}
    /\ watch.at \in {"off", "wait", "asked"}
    /\ {overtaken, stranded, deaf, loading} \subseteq BOOLEAN
    /\ clicks \in 0..MaxClicks /\ losses \in 0..MaxLosses

\* Whatever order the answers of handlers and loops come in (page.tsx), the
\* validation the page shows, and deploys by, is the selected lab's, and no lab
\* is validated twice at once.
PageIsCoherent ==
    /\ validation # Nil => IsSelected(validation.lab)
    /\ \A f, g \in DOMAIN flow :
         /\ {flow[f].at, flow[g].at} \subseteq {"check", "refetch", "relist"}
         /\ LabAsked(f) = LabAsked(g)
         => f = g

\* The page waits for nobody.
AtRest == /\ action = "idle" \/ overtaken \/ stranded
          /\ owed = {}
          /\ run = Nil \/ run.status = "ready" \/ deaf

\* When the user has stopped clicking, the page comes to rest: it is not busy
\* for ever, unless a loop that was cancelled left it so; a build it has shown
\* as pending is followed to its end, and validated if it succeeds; and a run
\* is followed until it is ready, unless a look at it failed (page.tsx, the
\* effects and the finally clauses).  An old list that replaces a newer state
\* of the lab may stop the first two.
PageMovesOn == []<>AtRest
=============================================================================
