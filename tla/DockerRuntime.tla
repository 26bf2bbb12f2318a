---------------------------- MODULE DockerRuntime ---------------------------
(***************************************************************************)
(* The local runtime adapter (services/runtime/src/docker-adapter.ts): the *)
(* containers, the network and the volume of each run at a Docker daemon,  *)
(* the lock that serialises the calls about one run, and the clean-up of   *)
(* expired runs, which every provision joins and which takes no lock.      *)
(*                                                                         *)
(* A step is one docker command, or the code between two of them.  A       *)
(* command that fails, or whose client is killed by the ten-minute limit,  *)
(* may have been carried out.                                              *)
(***************************************************************************)
EXTENDS Naturals, Sequences, FiniteSets

CONSTANTS
    Runs,           \* run identifiers the platform asks for
    BlueRuns,       \* the runs of a blue-team lab
    Handlers,       \* concurrent HTTP requests
    Cleaner,        \* the clean-up in flight
    NoRun, NoProc,
    MaxProvisions,  \* bound on provision requests for one run
    MaxFaults       \* bound on failures of commands, containers, the service

Procs == Handlers \cup {Cleaner}

ASSUME BlueRunsAreRuns == BlueRuns \subseteq Runs
ASSUME CleanerIsNoHandler == Cleaner \notin Handlers
ASSUME NoRunIsNotARun == NoRun \notin Runs
ASSUME NoProcIsNotAProc == NoProc \notin Procs
ASSUME Bounds == MaxProvisions \in Nat /\ MaxFaults \in Nat

VARIABLES
    containers,  \* the containers that exist; one is <<run, role, request>>
    up,          \* the containers that are running
    networks,    \* runs whose network exists
    joined,      \* runs whose network the desktop gateway is attached to
    volumes,     \* runs whose log volume exists
    overdue,     \* <<run, request>> whose expires-at label has passed
    tail,        \* tail[r]: the request whose promise runLocks holds for r
    proc,        \* proc[p]: where request or clean-up p is, and what it read
    asked,       \* asked[r]: provision requests for r so far
    told,        \* told[r]: what the caller was last told of r
    loose,       \* runs of which a removal failed, and none under lock was full since
    faults

vars == <<containers, up, networks, joined, volumes, overdue, tail, proc,
          asked, told, loose, faults>>
daemon == <<containers, up, networks, joined, volumes>>

RedRoles == {"target", "desktop"}
BlueRoles == RedRoles \cup {"elasticsearch", "kibana", "elastic-agent",
                           "scenario-log-generator"}
LogRoles == {"target", "scenario-log-generator", "elastic-agent"}

Required(r) == IF r \in BlueRuns THEN BlueRoles ELSE RedRoles

\* The order of the container create commands, and of the starts.
CreateOrder(r) ==
    IF r \in BlueRuns
    THEN <<"target", "elasticsearch", "kibana", "scenario-log-generator",
           "elastic-agent", "desktop">>
    ELSE <<"target", "desktop">>
StartOrder(r) ==
    IF r \in BlueRuns
    THEN <<"elasticsearch", "target", "scenario-log-generator",
           "elastic-agent", "kibana", "desktop">>
    ELSE <<"target", "desktop">>

Containers == Runs \X BlueRoles \X (1..MaxProvisions)
Ops == {"provision", "get", "destroy", "clean"}
Making == {"network", "connect", "volume", "create", "start"}
Removing == {"rmList", "rmContainers", "rmLeave", "rmNetwork", "rmVolume"}
Places == {"idle", "queued", "join", "list", "inspect", "next"}
              \cup Making \cup Removing

\* seen: the ids the last "container ls" returned; left: the roles still to be
\* created or started; todo: the expired runs the clean-up has still to remove;
\* waits: the request whose promise this one awaits in withRunLock; then: what
\* follows the removal of the run's resources.
Situations ==
    [at : Places, op : Ops, run : Runs \cup {NoRun},
     request : 0..MaxProvisions, waits : Handlers \cup {NoProc},
     seen : SUBSET Containers, left : Seq(BlueRoles), todo : SUBSET Runs,
     then : {"answer", "create", "undone", "destroyed"}]

Idle == [at |-> "idle", op |-> "get", run |-> NoRun, request |-> 0,
         waits |-> NoProc, seen |-> {}, left |-> <<>>, todo |-> {},
         then |-> "answer"]

Cleaning == [Idle EXCEPT !.at = "list", !.op = "clean"]

Init ==
    /\ containers = {} /\ up = {}
    /\ networks = {} /\ joined = {} /\ volumes = {}
    /\ overdue = {}
    /\ tail = [r \in Runs |-> NoProc]
    /\ proc = [p \in Procs |-> Idle]
    /\ asked = [r \in Runs |-> 0]
    /\ told = [r \in Runs |-> "nothing"]
    /\ loose = {}
    /\ faults = 0

-----------------------------------------------------------------------------
(* Here and below, a definition whose comment starts with "Defect" is not  *)
(* part of the model: it is a variant of the definition that follows it,   *)
(* with a bug the code could have had, and shows which property sees it.   *)

At(p, place) == proc[p].at = place
Busy(h) == ~At(h, "idle")
Inside(h) == Busy(h) /\ proc[h].waits = NoProc
Subject(p) == proc[p].run
Of(r) == {c \in containers : c[1] = r}
Label(c) == <<c[1], c[3]>>

Goto(p, place) == proc' = [proc EXCEPT ![p].at = place]
\* The response of a request, or an error it throws, settles its promise: the
\* request that awaits it goes on, and the map forgets it if it is the last.
Leave(P) ==
    /\ proc' = [p \in Procs |->
                   IF p \in P THEN Idle
                   ELSE IF proc[p].waits \in P
                        THEN [proc[p] EXCEPT !.waits = NoProc]
                        ELSE proc[p]]
    /\ tail' = [r \in Runs |-> IF tail[r] \in P THEN NoProc ELSE tail[r]]

NoFault == UNCHANGED faults
Fault == faults < MaxFaults /\ faults' = faults + 1

-----------------------------------------------------------------------------
(* withRunLock and the three calls.                                        *)

\* A request chains itself behind the last one about the same run.
Call(h, op, r) ==
    /\ At(h, "idle")
    /\ op = "provision" => asked[r] < MaxProvisions
    /\ asked' = [asked EXCEPT ![r] = IF op = "provision" THEN @ + 1 ELSE @]
    /\ proc' = [proc EXCEPT ![h] =
                   [Idle EXCEPT !.at = "queued", !.op = op, !.run = r,
                                !.waits = tail[r], !.request = asked'[r]]]
    /\ tail' = [tail EXCEPT ![r] = h]
    /\ UNCHANGED <<daemon, overdue, told, loose, faults>>

\* A get or a destroy that has the lock.
Enter(h) ==
    /\ At(h, "queued") /\ proc[h].waits = NoProc
    /\ \/ /\ proc[h].op = "get"
          /\ Goto(h, "list")
          /\ UNCHANGED told
       \/ /\ proc[h].op = "destroy"
          /\ proc' = [proc EXCEPT ![h].at = "rmList", ![h].then = "destroyed"]
          /\ told' = [told EXCEPT ![Subject(h)] = "nothing"]
    /\ UNCHANGED <<daemon, overdue, tail, asked, loose, faults>>

\* A provision that has the lock awaits cleanupExpired, whose run in flight it
\* shares; it starts one if there is none.
Join(h) ==
    /\ At(h, "queued") /\ proc[h].waits = NoProc
    /\ proc[h].op = "provision"
    /\ proc' = [proc EXCEPT
                   ![h].at = "join",
                   ![Cleaner] = IF At(Cleaner, "idle")
                                THEN Cleaning ELSE @]
    /\ UNCHANGED <<daemon, overdue, tail, asked, told, loose, faults>>

\* setInterval: nothing happens if a clean-up is in flight.
Timer ==
    /\ At(Cleaner, "idle")
    /\ proc' = [proc EXCEPT ![Cleaner] = Cleaning]
    /\ UNCHANGED <<daemon, overdue, tail, asked, told, loose, faults>>

\* The clean-up settles: the provisions that joined it go on, or fail with it.
Settle(ok) ==
    LET joiners == {h \in Handlers : At(h, "join")}
    IN IF ok
       THEN /\ proc' = [p \in Procs |->
                           IF p = Cleaner THEN Idle
                           ELSE IF p \in joiners
                                THEN [proc[p] EXCEPT !.at = "list"]
                                ELSE proc[p]]
            /\ UNCHANGED tail
       ELSE Leave(joiners \cup {Cleaner})

StayLoose(p) ==
    loose' = IF proc[p].at \in Removing THEN loose \cup {Subject(p)} ELSE loose
\* Defect: no undo.
GiveUpAsIs(p) ==
    /\ IF p = Cleaner THEN Settle(FALSE) ELSE Leave({p})
    /\ StayLoose(p)
\* An error in p: a provision that has begun to create removes what it made,
\* a get whose run expired answers all the same, anyone else gives up.
GiveUp(p) ==
    /\ IF p = Cleaner THEN Settle(FALSE)
       ELSE IF proc[p].at \in Making
       THEN /\ proc' = [proc EXCEPT ![p].at = "rmList", ![p].then = "undone"]
            /\ UNCHANGED tail
       ELSE Leave({p})
    /\ StayLoose(p)

-----------------------------------------------------------------------------
(* What a request finds.                                                   *)

\* "container ls" with the label of the run: none is a 404 for a get.
List(h) ==
    /\ At(h, "list") /\ h \in Handlers
    /\ \/ /\ NoFault
          /\ IF Of(Subject(h)) # {}
             THEN /\ proc' = [proc EXCEPT ![h].at = "inspect",
                                          ![h].seen = Of(Subject(h))]
                  /\ UNCHANGED <<tail, loose, told>>
             ELSE IF proc[h].op = "get"
             THEN Leave({h}) /\ UNCHANGED <<loose, told>>
             ELSE /\ Goto(h, "network")
                  /\ told' = [told EXCEPT ![Subject(h)] = "nothing"]
                  /\ UNCHANGED <<tail, loose>>
       \/ Fault /\ GiveUp(h) /\ UNCHANGED told
    /\ UNCHANGED <<daemon, overdue, asked>>

\* Labels that disagree count as expired now.
Expired(seen) ==
    \E c \in seen : Label(c) \in overdue \/ \E d \in seen : Label(c) # Label(d)
\* Defect: only the containers that are there are looked at.
FailedIfStopped(r, seen, unhealthy) ==
    Expired(seen) \/ (\E c \in seen : c \notin up) \/ unhealthy
\* statusFromInspection: expired, incomplete, stopped or found unhealthy.
Failed(r, seen, unhealthy) ==
    \/ Expired(seen)
    \/ {c[2] : c \in seen} # Required(r)
    \/ \E c \in seen : c \notin up
    \/ unhealthy

\* "container inspect" fails if one of the ids is gone.  A run that is there
\* and has not failed is what a repeated provision answers; a get of an expired
\* run removes it.
Inspect(h) ==
    /\ At(h, "inspect") /\ h \in Handlers
    /\ LET r == Subject(h) IN
       \/ /\ proc[h].seen \subseteq containers
          /\ NoFault
          /\ \E unhealthy \in BOOLEAN :
                IF proc[h].op = "get"
                THEN IF Expired(proc[h].seen)
                     THEN Goto(h, "rmList") /\ UNCHANGED <<tail, loose, told>>
                     ELSE Leave({h}) /\ UNCHANGED <<loose, told>>
                ELSE IF Failed(r, proc[h].seen, unhealthy)
                THEN /\ proc' = [proc EXCEPT ![h].at = "rmList",
                                             ![h].then = "create"]
                     /\ told' = [told EXCEPT ![r] = "nothing"]
                     /\ UNCHANGED <<tail, loose>>
                ELSE /\ Leave({h})
                     /\ told' = [told EXCEPT ![r] = "given"]
                     /\ UNCHANGED loose
       \/ /\ \/ ~(proc[h].seen \subseteq containers) /\ NoFault
             \/ Fault
          /\ GiveUp(h)
          /\ UNCHANGED told
    /\ UNCHANGED <<daemon, overdue, asked>>

-----------------------------------------------------------------------------
(* The commands of a provision.                                            *)

\* The command goes through, or it is refused, or it fails, and then it may
\* have been carried out; both undo the provision.
CreateNetwork(h) ==
    /\ At(h, "network")
    /\ \/ /\ Subject(h) \notin networks /\ NoFault
          /\ networks' = networks \cup {Subject(h)}
          /\ Goto(h, "connect") /\ UNCHANGED <<tail, loose>>
       \/ /\ Subject(h) \in networks /\ NoFault
          /\ GiveUp(h) /\ UNCHANGED networks
       \/ /\ Fault
          /\ networks' \in {networks, networks \cup {Subject(h)}}
          /\ GiveUp(h)
    /\ UNCHANGED <<containers, up, joined, volumes, overdue, asked, told>>

ConnectGateway(h) ==
    /\ At(h, "connect")
    /\ \/ /\ Subject(h) \in networks /\ NoFault
          /\ joined' = joined \cup {Subject(h)}
          /\ proc' = [proc EXCEPT
                         ![h].at = IF Subject(h) \in BlueRuns THEN "volume"
                                   ELSE "create",
                         ![h].left = CreateOrder(Subject(h))]
          /\ UNCHANGED <<tail, loose>>
       \/ /\ Subject(h) \notin networks /\ NoFault
          /\ GiveUp(h) /\ UNCHANGED joined
       \/ /\ Fault
          /\ joined' \in {joined, joined \cup ({Subject(h)} \cap networks)}
          /\ GiveUp(h)
    /\ UNCHANGED <<containers, up, networks, volumes, overdue, asked, told>>

CreateVolume(h) ==
    /\ At(h, "volume")
    /\ \/ NoFault /\ volumes' = volumes \cup {Subject(h)}
          /\ Goto(h, "create") /\ UNCHANGED <<tail, loose>>
       \/ /\ Fault
          /\ volumes' \in {volumes, volumes \cup {Subject(h)}}
          /\ GiveUp(h)
    /\ UNCHANGED <<containers, up, networks, joined, overdue, asked, told>>

\* The name of a container holds its role and its run.  Creating a container
\* creates a volume that it mounts and that is missing.
Made(h) == <<Subject(h), Head(proc[h].left), proc[h].request>>
CreateContainer(h) ==
    /\ At(h, "create")
    /\ LET r == Subject(h)
           role == Head(proc[h].left)
           left == Tail(proc[h].left)
           taken == \E c \in Of(r) : c[2] = role
           Effect == /\ containers' = containers \cup {Made(h)}
                     /\ volumes' = IF r \in BlueRuns /\ role \in LogRoles
                                   THEN volumes \cup {r} ELSE volumes
       IN \/ /\ ~taken /\ NoFault
             /\ Effect
             /\ proc' = [proc EXCEPT
                            ![h].at = IF left = <<>> THEN "start" ELSE @,
                            ![h].left = IF left = <<>> THEN StartOrder(r)
                                        ELSE left]
             /\ UNCHANGED <<tail, loose>>
          \/ /\ \/ taken /\ NoFault
                \/ Fault
             /\ GiveUp(h)
             /\ UNCHANGED <<containers, volumes>>
          \/ ~taken /\ Fault /\ Effect /\ GiveUp(h)
    /\ UNCHANGED <<up, networks, joined, overdue, asked, told>>

\* Defect: a removed container is started all the same.
StartAnyContainer(h) ==
    /\ At(h, "start") /\ NoFault
    /\ up' = up \cup {Made(h)}
    /\ Leave({h})
    /\ UNCHANGED <<containers, networks, joined, volumes, overdue, asked,
                   told, loose>>
\* A container starts only if it and its network are still there.
StartContainer(h) ==
    /\ At(h, "start")
    /\ LET r == Subject(h)
           left == Tail(proc[h].left)
           possible == Made(h) \in containers /\ r \in networks
       IN \/ /\ possible /\ NoFault
             /\ up' = up \cup {Made(h)}
             /\ IF left = <<>>
                THEN /\ Leave({h}) /\ UNCHANGED loose
                     /\ told' = [told EXCEPT ![r] = "given"]
                ELSE /\ proc' = [proc EXCEPT ![h].left = left]
                     /\ UNCHANGED <<tail, loose, told>>
          \/ /\ \/ ~possible /\ NoFault
                \/ Fault
             /\ GiveUp(h)
             /\ UNCHANGED <<up, told>>
          \/ /\ possible /\ Fault
             /\ up' = up \cup {Made(h)}
             /\ GiveUp(h)
             /\ UNCHANGED told
    /\ UNCHANGED <<containers, networks, joined, volumes, overdue, asked>>

-----------------------------------------------------------------------------
(* removeRunResources, for a request that has the lock of the run or for   *)
(* the clean-up, which has none.                                           *)

\* Defect: without containers there is no network to look for.
RemoveListOrSkip(p) ==
    /\ At(p, "rmList")
    /\ \/ /\ NoFault
          /\ proc' = [proc EXCEPT
                         ![p].at = IF Of(Subject(p)) = {} THEN "rmVolume"
                                   ELSE "rmContainers",
                         ![p].seen = Of(Subject(p))]
          /\ UNCHANGED <<tail, loose>>
       \/ Fault /\ GiveUp(p)
    /\ UNCHANGED <<daemon, overdue, asked, told>>

RemoveList(p) ==
    /\ At(p, "rmList")
    /\ \/ /\ NoFault
          /\ proc' = [proc EXCEPT
                         ![p].at = IF Of(Subject(p)) = {} THEN "rmLeave"
                                   ELSE "rmContainers",
                         ![p].seen = Of(Subject(p))]
          /\ UNCHANGED <<tail, loose>>
       \/ Fault /\ GiveUp(p)
    /\ UNCHANGED <<daemon, overdue, asked, told>>

\* "rm --force" of the ids listed, wherever they are; it may stop half-way.
\* That some of them are gone already hides that others could not be removed.
RemoveContainers(p) ==
    /\ At(p, "rmContainers")
    /\ \E gone \in SUBSET proc[p].seen :
          /\ containers' = containers \ gone
          /\ up' = up \ gone
          /\ \/ /\ gone = proc[p].seen /\ NoFault
                /\ Goto(p, "rmLeave") /\ UNCHANGED <<tail, loose>>
             \/ /\ ~(proc[p].seen \subseteq containers) /\ Fault
                /\ Goto(p, "rmLeave") /\ StayLoose(p) /\ UNCHANGED tail
             \/ Fault /\ GiveUp(p)
    /\ UNCHANGED <<networks, joined, volumes, overdue, asked, told>>

\* "not connected" and "no such network" are ignored.
DisconnectGateway(p) ==
    /\ At(p, "rmLeave")
    /\ \/ /\ NoFault
          /\ joined' = joined \ {Subject(p)}
          /\ Goto(p, "rmNetwork") /\ UNCHANGED <<tail, loose>>
       \/ /\ Fault
          /\ joined' \in {joined, joined \ {Subject(p)}}
          /\ GiveUp(p)
    /\ UNCHANGED <<containers, up, networks, volumes, overdue, asked, told>>

\* The daemon refuses while something is attached.
RemoveNetwork(p) ==
    /\ At(p, "rmNetwork")
    /\ LET r == Subject(p)
           inUse == r \in joined \/ Of(r) \cap up # {}
       IN \/ /\ ~inUse /\ NoFault
             /\ networks' = networks \ {r}
             /\ Goto(p, "rmVolume") /\ UNCHANGED <<tail, loose>>
          \/ /\ \/ inUse /\ NoFault
                \/ Fault
             /\ GiveUp(p)
             /\ UNCHANGED networks
          \/ ~inUse /\ Fault /\ networks' = networks \ {r} /\ GiveUp(p)
    /\ UNCHANGED <<containers, up, joined, volumes, overdue, asked, told>>

\* All of the run's resources were removed.
AfterRemoval(p) ==
    LET r == Subject(p)
        then == IF p = Cleaner THEN "clean" ELSE proc[p].then
    IN /\ CASE then = "clean" /\ proc[p].todo # {} ->
                   Goto(p, "next") /\ UNCHANGED tail
             [] then = "clean" /\ proc[p].todo = {} -> Settle(TRUE)
             [] then = "create" -> Goto(p, "network") /\ UNCHANGED tail
             [] OTHER -> Leave({p})
       /\ told' = IF then = "destroyed" THEN [told EXCEPT ![r] = "gone"]
                  ELSE told
       /\ loose' = IF p = Cleaner \/ Of(r) # {} THEN loose ELSE loose \ {r}

\* Last command: the volume, which the daemon keeps while a container has it.
RemoveVolume(p) ==
    /\ At(p, "rmVolume")
    /\ LET r == Subject(p)
           inUse == r \in BlueRuns /\ \E c \in Of(r) : c[2] \in LogRoles
       IN \/ /\ r \notin volumes \/ ~inUse
             /\ NoFault
             /\ volumes' = volumes \ {r}
             /\ AfterRemoval(p)
          \/ /\ \/ r \in volumes /\ inUse /\ NoFault
                \/ Fault
             /\ GiveUp(p)
             /\ UNCHANGED <<volumes, told>>
          \/ /\ ~inUse /\ Fault
             /\ volumes' = volumes \ {r}
             /\ GiveUp(p)
             /\ UNCHANGED told
    /\ UNCHANGED <<containers, up, networks, joined, overdue, asked>>

-----------------------------------------------------------------------------
(* cleanupExpiredContainers.  Every container bears well-formed labels, so *)
(* none is an orphan to be removed on its own.                             *)

ListAll ==
    /\ At(Cleaner, "list")
    /\ \/ /\ NoFault
          /\ IF containers = {} THEN Settle(TRUE) /\ UNCHANGED loose
             ELSE /\ proc' = [proc EXCEPT ![Cleaner].at = "inspect",
                                          ![Cleaner].seen = containers]
                  /\ UNCHANGED <<tail, loose>>
       \/ Fault /\ GiveUp(Cleaner)
    /\ UNCHANGED <<daemon, overdue, asked, told>>

InspectAll ==
    /\ At(Cleaner, "inspect")
    /\ LET seen == proc[Cleaner].seen
           expired == {c[1] : c \in {d \in seen : Label(d) \in overdue}}
       IN \/ /\ seen \subseteq containers /\ NoFault
             /\ IF expired = {} THEN Settle(TRUE) /\ UNCHANGED loose
                ELSE /\ proc' = [proc EXCEPT ![Cleaner].at = "next",
                                             ![Cleaner].todo = expired]
                     /\ UNCHANGED <<tail, loose>>
          \/ /\ \/ ~(seen \subseteq containers) /\ NoFault
                \/ Fault
             /\ GiveUp(Cleaner)
    /\ UNCHANGED <<daemon, overdue, asked, told>>

\* Defect: the clean-up waits for the lock of the run.
CleanRunUnderLock(r) ==
    /\ At(Cleaner, "next") /\ r \in proc[Cleaner].todo
    /\ tail[r] = NoProc
    /\ proc' = [proc EXCEPT ![Cleaner].at = "rmList", ![Cleaner].run = r,
                            ![Cleaner].todo = @ \ {r}]
    /\ UNCHANGED <<daemon, overdue, tail, asked, told, loose, faults>>
\* The next expired run, in the order of the daemon's listing.
CleanRun(r) ==
    /\ At(Cleaner, "next") /\ r \in proc[Cleaner].todo
    /\ proc' = [proc EXCEPT ![Cleaner].at = "rmList", ![Cleaner].run = r,
                            ![Cleaner].todo = @ \ {r}]
    /\ UNCHANGED <<daemon, overdue, tail, asked, told, loose, faults>>

-----------------------------------------------------------------------------
(* The world.                                                              *)

\* The time on the label of a container passes.
Lapse(c) ==
    /\ c \in containers /\ Label(c) \notin overdue
    /\ overdue' = overdue \cup {Label(c)}
    /\ UNCHANGED <<daemon, tail, proc, asked, told, loose, faults>>

\* A container stops by itself; it counts as a failure.
Stop(c) ==
    /\ c \in up /\ Fault
    /\ up' = up \ {c}
    /\ UNCHANGED <<containers, networks, joined, volumes, overdue, tail, proc,
                   asked, told, loose>>

\* The service restarts: its requests and its locks are gone.
Crash ==
    /\ Fault
    /\ loose' = loose \cup ({Subject(p) : p \in Procs} \ {NoRun})
    /\ proc' = [p \in Procs |-> Idle]
    /\ tail' = [r \in Runs |-> NoProc]
    /\ UNCHANGED <<daemon, overdue, asked, told>>

Removal(p) ==
    \/ RemoveList(p) \/ RemoveContainers(p) \/ DisconnectGateway(p)
    \/ RemoveNetwork(p) \/ RemoveVolume(p)
Request(h) ==
    \/ Enter(h) \/ Join(h) \/ List(h) \/ Inspect(h)
    \/ CreateNetwork(h) \/ ConnectGateway(h) \/ CreateVolume(h)
    \/ CreateContainer(h) \/ StartContainer(h)
    \/ Removal(h)
CleanUp ==
    \/ ListAll \/ InspectAll \/ Removal(Cleaner)
    \/ \E r \in Runs : CleanRun(r)

Next ==
    \/ \E h \in Handlers :
          \/ Request(h)
          \/ \E r \in Runs, op \in {"provision", "get", "destroy"} :
                Call(h, op, r)
    \/ CleanUp \/ Timer
    \/ \E c \in containers : Lapse(c) \/ Stop(c)
    \/ Crash

Spec == Init /\ [][Next]_vars

-----------------------------------------------------------------------------
TypeOK ==
    /\ containers \subseteq Containers /\ up \subseteq containers
    /\ networks \subseteq Runs /\ joined \subseteq Runs
    /\ volumes \subseteq Runs
    /\ overdue \subseteq Runs \X (1..MaxProvisions)
    /\ tail \in [Runs -> Handlers \cup {NoProc}]
    /\ proc \in [Procs -> Situations]
    /\ asked \in [Runs -> 0..MaxProvisions]
    /\ told \in [Runs -> {"nothing", "given", "gone"}]
    /\ loose \subseteq Runs
    /\ faults \in 0..MaxFaults

\* withRunLock: two requests are never inside the lock of the same run.
LockIsExclusive ==
    \A g, h \in Handlers :
        Inside(g) /\ Inside(h) /\ g # h => Subject(g) # Subject(h)

\* A caller whose destroy was answered: nothing of the run is left, and
\* nothing comes back, whatever clean-up or provision was under way; only a
\* container whose removal failed may still be there.
DestroyedIsGone ==
    \A r \in Runs : told[r] = "gone" =>
        /\ r \notin networks \cup joined \cup volumes
        /\ Of(r) = {} \/ r \in loose

\* A caller whose provision was answered: until the run's time is over, no
\* clean-up, failed request or restart takes part of it away.
GivenIsWhole ==
    \A r \in Runs :
        /\ told[r] = "given"
        /\ \A n \in 1..MaxProvisions : <<r, n>> \notin overdue
        => /\ {c[2] : c \in Of(r)} = Required(r)
           /\ r \in networks \cap joined
           /\ r \in BlueRuns => r \in volumes

\* A run that no request is about any more and whose containers are gone
\* leaves no network and no volume behind, unless its removal itself failed.
NothingLeaks ==
    \A r \in Runs \ loose :
        /\ Of(r) = {}
        /\ \A p \in Procs : Busy(p) => Subject(p) # r /\ r \notin proc[p].todo
        => r \notin networks \cup joined \cup volumes

\* A provision holds a lock while it awaits the clean-up, which therefore must
\* never wait for a lock: as long as a request is open, someone can go on.
NoStandstill ==
    (\E h \in Handlers : Busy(h))
    => ENABLED (CleanUp \/ \E h \in Handlers : Request(h))

\* The guards of the actions of a request and of the clean-up, without the
\* commands' outcomes: each action has an outcome for every state of the daemon.
Goes(h) ==
    /\ Inside(h)
    /\ \/ At(h, "queued") /\ proc[h].op \in {"provision", "get", "destroy"}
       \/ proc[h].at \in {"list", "inspect", "network", "connect"} \cup Removing
       \/ proc[h].at \in {"volume", "create", "start"} /\ proc[h].left # <<>>
CleanUpGoes ==
    \/ proc[Cleaner].at \in {"list", "inspect"} \cup Removing
    \/ At(Cleaner, "next") /\ proc[Cleaner].todo # {}

\* What the proof of NoStandstill takes from TLC, since it is about ENABLED:
\* where one of these guards holds, an action can be taken.
GuardsSuffice ==
    CleanUpGoes \/ (\E h \in Handlers : Goes(h))
    => ENABLED (CleanUp \/ \E h \in Handlers : Request(h))
=============================================================================
