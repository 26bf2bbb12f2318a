----------------------- MODULE DockerRuntime_proofs -----------------------
(***************************************************************************)
(* Machine-checked facts about DockerRuntime, for any number of runs,      *)
(* requests, provisions and failures.                                      *)
(*                                                                         *)
(* TInv: what a request or the clean-up holds fits the place it is at.     *)
(* LInv: the requests about a run form one chain, of which at most one     *)
(* request is inside the lock.  GInv: that request has told its caller     *)
(* that the run is no longer gone before it makes anything of it, and the  *)
(* clean-up, which has no lock, only removes; so what is gone stays gone.  *)
(* WInv: the clean-up keeps away from a run whose time is not over, so     *)
(* that the request inside the lock finds what it read and what it made.   *)
(* XInv: a network or a volume is always somebody's concern.               *)
(* QInv: the requests about a run wait in the order they came, each for    *)
(* the one before it.  AInv: who waits for the clean-up waits for one that *)
(* is under way.                                                           *)
(***************************************************************************)
EXTENDS DockerRuntime, TLAPS

\* What a request and the clean-up can be doing.
FitsHandler(t) ==
    t.at # "idle" =>
        /\ t.run \in Runs /\ t.at # "next" /\ t.op # "clean"
        /\ t.at \in {"join", "list", "inspect"} => t.op # "destroy"
        /\ t.at \in Making \cup {"join"} \/ t.then \in {"create", "undone"}
           => t.op = "provision"
        /\ t.op = "provision" => t.request \in 1..MaxProvisions
        /\ t.at \in {"volume", "create", "start"} => t.left # <<>>
        /\ t.at = "rmContainers" => \A c \in t.seen : c[1] = t.run

FitsCleaner(t) ==
    /\ t.at \in {"idle", "list", "inspect", "next"} \cup Removing
    /\ t.at \in Removing => t.run \in Runs
    /\ t.at = "rmContainers" => \A c \in t.seen : c[1] = t.run

Fits(p, t) == IF p = Cleaner THEN FitsCleaner(t) ELSE FitsHandler(t)

Placed == \A p \in Procs : Fits(p, proc[p])

TInv == TypeOK /\ Placed

LEMMA IdleFits == Idle \in Situations /\ \A p \in Procs : Fits(p, Idle)
BY Bounds DEF Idle, Situations, Places, Ops, Removing, Fits, FitsHandler, FitsCleaner

\* A process moves to a situation that fits it.
LEMMA Moves ==
    ASSUME TInv, NEW p \in Procs, NEW t \in Situations, Fits(p, t),
           proc' = [proc EXCEPT ![p] = t]
    PROVE  proc' \in [Procs -> Situations] /\ Placed'
BY DEF TInv, TypeOK, Placed

\* Some requests are answered, and those behind them go on.
LEMMA LeavingFits ==
    ASSUME TInv, NEW P \in SUBSET Procs, Leave(P)
    PROVE  /\ proc' \in [Procs -> Situations] /\ Placed'
           /\ tail' \in [Runs -> Handlers \cup {NoProc}]
<1>1. ASSUME NEW p \in Procs
      PROVE  proc'[p] \in Situations /\ Fits(p, proc'[p])
  <2>1. proc[p] \in Situations /\ Fits(p, proc[p])
    BY DEF TInv, TypeOK, Placed
  <2>2. CASE p \in P
    BY <2>2, IdleFits DEF Leave
  <2>3. CASE p \notin P /\ proc[p].waits \in P
    <3>1. proc'[p] = [proc[p] EXCEPT !.waits = NoProc]
      BY <2>3 DEF Leave
    <3> QED BY <2>1, <3>1 DEF Situations, Fits, FitsHandler, FitsCleaner
  <2>4. CASE p \notin P /\ proc[p].waits \notin P
    BY <2>1, <2>4 DEF Leave
  <2> QED BY <2>2, <2>3, <2>4
<1>2. proc' \in [Procs -> Situations]
  BY <1>1 DEF Leave
<1>3. tail' \in [Runs -> Handlers \cup {NoProc}]
  BY DEF Leave, TInv, TypeOK
<1> QED BY <1>1, <1>2, <1>3 DEF Placed

LEMMA SettlingFits ==
    ASSUME TInv, NEW ok \in BOOLEAN, Settle(ok)
    PROVE  /\ proc' \in [Procs -> Situations] /\ Placed'
           /\ tail' \in [Runs -> Handlers \cup {NoProc}]
<1> DEFINE J == {h \in Handlers : At(h, "join")}
<1>1. CASE ~ok
  <2>1. Leave(J \cup {Cleaner}) /\ J \cup {Cleaner} \in SUBSET Procs
    BY <1>1 DEF Settle, Procs
  <2> QED BY <2>1, LeavingFits
<1>2. CASE ok
  <2>1. ASSUME NEW p \in Procs
        PROVE  proc'[p] \in Situations /\ Fits(p, proc'[p])
    <3>1. proc[p] \in Situations /\ Fits(p, proc[p])
      BY DEF TInv, TypeOK, Placed
    <3>2. CASE p = Cleaner
      BY <1>2, <3>2, IdleFits DEF Settle
    <3>3. CASE p # Cleaner /\ p \in J
      <4>1. proc'[p] = [proc[p] EXCEPT !.at = "list"]
        BY <1>2, <3>3 DEF Settle
      <4>2. proc[p].at = "join"
        BY <3>3 DEF At
      <4> QED BY <3>1, <3>3, <4>1, <4>2
              DEF Situations, Places, Fits, FitsHandler, Making
    <3>4. CASE p # Cleaner /\ p \notin J
      BY <1>2, <3>1, <3>4 DEF Settle
    <3> QED BY <3>2, <3>3, <3>4
  <2>2. proc' \in [Procs -> Situations]
    BY <1>2, <2>1 DEF Settle
  <2> QED BY <1>2, <2>1, <2>2 DEF Placed, Settle, TInv, TypeOK
<1> QED BY <1>1, <1>2

LEMMA GivingUpFits ==
    ASSUME TInv, NEW p \in Procs, GiveUp(p), proc[p].at # "idle"
    PROVE  /\ proc' \in [Procs -> Situations] /\ Placed'
           /\ tail' \in [Runs -> Handlers \cup {NoProc}]
           /\ loose' \subseteq Runs
<1>1. proc[p] \in Situations /\ Fits(p, proc[p])
  BY DEF TInv, TypeOK, Placed
<1>2. loose' \subseteq Runs
  <2>1. proc[p].at \in Removing => proc[p].run \in Runs
    BY <1>1 DEF Fits, FitsHandler, FitsCleaner, Removing
  <2> QED BY <2>1 DEF GiveUp, StayLoose, Subject, TInv, TypeOK
<1>3. CASE p = Cleaner
  BY <1>2, <1>3, SettlingFits DEF GiveUp
<1>4. CASE p # Cleaner /\ proc[p].at \in Making
  <2> DEFINE t == [proc[p] EXCEPT !.at = "rmList", !.then = "undone"]
  <2>1. proc' = [proc EXCEPT ![p] = t] /\ UNCHANGED tail
    BY <1>4 DEF GiveUp, TInv, TypeOK
  <2>2. t \in Situations
    BY <1>1 DEF Situations, Places, Removing
  <2>3. Fits(p, t)
    BY <1>1, <1>4 DEF Fits, FitsHandler, Making, Situations
  <2>4. tail' \in [Runs -> Handlers \cup {NoProc}]
    BY <2>1 DEF TInv, TypeOK
  <2> HIDE DEF t
  <2> QED BY <1>2, <2>1, <2>2, <2>3, <2>4, Moves
<1>5. CASE p # Cleaner /\ proc[p].at \notin Making
  <2>1. Leave({p}) /\ {p} \in SUBSET Procs
    BY <1>5 DEF GiveUp
  <2> QED BY <1>2, <2>1, LeavingFits
<1> QED BY <1>3, <1>4, <1>5

-----------------------------------------------------------------------------
(* Type correctness, one lemma per group of actions.                       *)

LEMMA OrdersAreRoles ==
    ASSUME NEW r \in Runs
    PROVE  /\ CreateOrder(r) \in Seq(BlueRoles) /\ CreateOrder(r) # <<>>
           /\ StartOrder(r) \in Seq(BlueRoles) /\ StartOrder(r) # <<>>
<1>1. CASE r \in BlueRuns
  <2>1. /\ CreateOrder(r) = <<"target", "elasticsearch", "kibana",
               "scenario-log-generator", "elastic-agent", "desktop">>
        /\ StartOrder(r) = <<"elasticsearch", "target",
               "scenario-log-generator", "elastic-agent", "kibana", "desktop">>
    BY <1>1 DEF CreateOrder, StartOrder
  <2> QED BY <2>1 DEF BlueRoles, RedRoles
<1>2. CASE r \notin BlueRuns
  <2>1. /\ CreateOrder(r) = <<"target", "desktop">>
        /\ StartOrder(r) = <<"target", "desktop">>
    BY <1>2 DEF CreateOrder, StartOrder
  <2> QED BY <2>1 DEF BlueRoles, RedRoles
<1> QED BY <1>1, <1>2

LEMMA CallTyped ==
    ASSUME TInv, NEW h \in Handlers, NEW r \in Runs,
           NEW op \in {"provision", "get", "destroy"}, Call(h, op, r)
    PROVE  TInv'
<1> DEFINE t == [Idle EXCEPT !.at = "queued", !.op = op, !.run = r,
                             !.waits = tail[r], !.request = asked'[r]]
<1>1. proc' = [proc EXCEPT ![h] = t] /\ h \in Procs /\ h # Cleaner
  BY CleanerIsNoHandler DEF Call, Procs
<1>2. asked[r] \in 0..MaxProvisions /\ tail[r] \in Handlers \cup {NoProc}
  BY DEF TInv, TypeOK
<1>3. /\ asked' \in [Runs -> 0..MaxProvisions]
      /\ op = "provision" => asked'[r] \in 1..MaxProvisions
  BY <1>2, Bounds DEF Call, TInv, TypeOK
<1>4. t \in Situations
  BY <1>2, <1>3, IdleFits DEF Situations, Places, Ops, Idle
<1>5. Fits(h, t)
  BY <1>1, <1>3 DEF Fits, FitsHandler, Making, Idle
<1> HIDE DEF t
<1>6. proc' \in [Procs -> Situations] /\ Placed'
  BY <1>1, <1>4, <1>5, Moves
<1>7. tail' \in [Runs -> Handlers \cup {NoProc}]
  BY DEF Call, TInv, TypeOK
<1> QED BY <1>3, <1>6, <1>7 DEF Call, daemon, TInv, TypeOK

LEMMA StartTyped ==
    ASSUME TInv, NEW h \in Handlers, Enter(h) \/ Join(h)
    PROVE  TInv'
<1>1. h \in Procs /\ h # Cleaner /\ Cleaner \in Procs
  BY CleanerIsNoHandler DEF Procs
<1>2. proc[h] \in Situations /\ FitsHandler(proc[h])
  BY <1>1 DEF TInv, TypeOK, Placed, Fits
<1>3. CASE Enter(h) /\ proc[h].op = "get"
  <2> DEFINE t == [proc[h] EXCEPT !.at = "list"]
  <2>1. proc' = [proc EXCEPT ![h] = t] /\ UNCHANGED told
    BY <1>3 DEF Enter, Goto, TInv, TypeOK
  <2>2. t \in Situations /\ Fits(h, t)
    BY <1>1, <1>2, <1>3 DEF Situations, Places, Fits, FitsHandler, Making, At, Enter
  <2> HIDE DEF t
  <2>3. proc' \in [Procs -> Situations] /\ Placed'
    BY <1>1, <2>1, <2>2, Moves
  <2> QED BY <1>3, <2>1, <2>3 DEF Enter, daemon, TInv, TypeOK
<1>4. CASE Enter(h) /\ proc[h].op = "destroy"
  <2> DEFINE t == [proc[h] EXCEPT !.at = "rmList", !.then = "destroyed"]
  <2>1. proc' = [proc EXCEPT ![h] = t]
        /\ told' = [told EXCEPT ![Subject(h)] = "nothing"]
    BY <1>4 DEF Enter, TInv, TypeOK
  <2>2. t \in Situations /\ Fits(h, t)
    BY <1>1, <1>2, <1>4 DEF Situations, Places, Removing, Fits, FitsHandler, Making, At, Enter
  <2> HIDE DEF t
  <2>3. proc' \in [Procs -> Situations] /\ Placed'
    BY <1>1, <2>1, <2>2, Moves
  <2>4. told' \in [Runs -> {"nothing", "given", "gone"}]
    BY <2>1 DEF TInv, TypeOK
  <2> QED BY <1>4, <2>3, <2>4 DEF Enter, daemon, TInv, TypeOK
<1>5. CASE Join(h)
  <2>1. ASSUME NEW p \in Procs
        PROVE  proc'[p] \in Situations /\ Fits(p, proc'[p])
    <3>1. proc[p] \in Situations /\ Fits(p, proc[p])
      BY DEF TInv, TypeOK, Placed
    <3>2. CASE p = h
      <4>1. proc'[p] = [proc[h] EXCEPT !.at = "join"]
        BY <1>1, <1>5, <3>2 DEF Join, TInv, TypeOK
      <4>2. proc[h].at = "queued" /\ proc[h].op = "provision"
        BY <1>5 DEF Join, At
      <4> QED BY <1>1, <1>2, <3>2, <4>1, <4>2
              DEF Situations, Places, Fits, FitsHandler
    <3>3. CASE p = Cleaner
      <4>1. proc'[p] \in {proc[p], Cleaning}
        BY <1>1, <1>5, <3>3 DEF Join, TInv, TypeOK
      <4>2. Cleaning \in Situations /\ FitsCleaner(Cleaning)
        BY IdleFits DEF Cleaning, Situations, Places, Ops, FitsCleaner, Removing, Idle
      <4> QED BY <3>1, <3>3, <4>1, <4>2 DEF Fits
    <3>4. CASE p # h /\ p # Cleaner
      <4>1. proc'[p] = proc[p]
        BY <1>5, <3>4 DEF Join, TInv, TypeOK
      <4> QED BY <3>1, <4>1
    <3> QED BY <3>2, <3>3, <3>4
  <2>2. proc' \in [Procs -> Situations]
    BY <1>5, <2>1 DEF Join, TInv, TypeOK
  <2> QED BY <1>5, <2>1, <2>2 DEF Join, Placed, daemon, TInv, TypeOK
<1> QED BY <1>3, <1>4, <1>5 DEF Enter

LEMMA TimerTyped == ASSUME TInv, Timer PROVE TInv'
<1>1. Cleaner \in Procs
  BY DEF Procs
<1>2. Cleaning \in Situations /\ Fits(Cleaner, Cleaning)
  BY IdleFits DEF Cleaning, Situations, Places, Ops, Fits, FitsCleaner, Removing, Idle
<1>3. proc' \in [Procs -> Situations] /\ Placed'
  BY <1>1, <1>2, Moves DEF Timer
<1> QED BY <1>3 DEF Timer, daemon, TInv, TypeOK

LEMMA FaultTyped ==
    ASSUME TInv, Fault \/ NoFault
    PROVE  faults' \in 0..MaxFaults
BY Bounds DEF TInv, TypeOK, Fault, NoFault

LEMMA ListTyped ==
    ASSUME TInv, NEW h \in Handlers, List(h)
    PROVE  TInv'
<1>1. h \in Procs /\ h # Cleaner /\ proc[h].at = "list"
  BY CleanerIsNoHandler DEF Procs, List, At
<1>2. proc[h] \in Situations /\ FitsHandler(proc[h])
  BY <1>1 DEF TInv, TypeOK, Placed, Fits
<1>3. faults' \in 0..MaxFaults
  BY FaultTyped DEF List
<1> SUFFICES /\ proc' \in [Procs -> Situations] /\ Placed'
             /\ tail' \in [Runs -> Handlers \cup {NoProc}]
             /\ loose' \subseteq Runs
             /\ told' \in [Runs -> {"nothing", "given", "gone"}]
  BY <1>3 DEF List, daemon, TInv, TypeOK
<1>4. CASE Of(Subject(h)) # {}
           /\ proc' = [proc EXCEPT ![h].at = "inspect",
                                   ![h].seen = Of(Subject(h))]
           /\ UNCHANGED <<tail, loose, told>>
  <2> DEFINE t == [proc[h] EXCEPT !.at = "inspect", !.seen = Of(Subject(h))]
  <2>1. proc' = [proc EXCEPT ![h] = t]
    BY <1>4 DEF TInv, TypeOK
  <2>2. Of(Subject(h)) \subseteq Containers
    BY DEF Of, TInv, TypeOK
  <2>3. t \in Situations /\ Fits(h, t)
    BY <1>1, <1>2, <2>2 DEF Situations, Places, Fits, FitsHandler, Making
  <2> HIDE DEF t
  <2>4. proc' \in [Procs -> Situations] /\ Placed'
    BY <1>1, <2>1, <2>3, Moves
  <2> QED BY <1>4, <2>4 DEF TInv, TypeOK
<1>5. CASE Leave({h}) /\ UNCHANGED <<loose, told>>
  BY <1>1, <1>5, LeavingFits DEF TInv, TypeOK
<1>6. CASE /\ proc[h].op # "get" /\ Goto(h, "network")
           /\ told' = [told EXCEPT ![Subject(h)] = "nothing"]
           /\ UNCHANGED <<tail, loose>>
  <2> DEFINE t == [proc[h] EXCEPT !.at = "network"]
  <2>1. proc' = [proc EXCEPT ![h] = t]
    BY <1>6 DEF Goto, TInv, TypeOK
  <2>2. t \in Situations
    BY <1>2 DEF Situations, Places, Making
  <2>3. Fits(h, t)
    BY <1>1, <1>2, <1>6 DEF Fits, FitsHandler, Making, Situations, Ops
  <2>4. Subject(h) \in Runs
    BY <1>1, <1>2 DEF FitsHandler, Subject
  <2> HIDE DEF t
  <2>5. proc' \in [Procs -> Situations] /\ Placed'
    BY <1>1, <2>1, <2>2, <2>3, Moves
  <2> QED BY <1>6, <2>4, <2>5 DEF TInv, TypeOK
<1>7. CASE GiveUp(h) /\ UNCHANGED told
  BY <1>1, <1>7, GivingUpFits DEF TInv, TypeOK
<1> QED BY <1>4, <1>5, <1>6, <1>7 DEF List

\* The process only goes on to another place.
LEMMA GoingOnFits ==
    ASSUME TInv, NEW p \in Procs, NEW place \in Places, Goto(p, place),
           Fits(p, [proc[p] EXCEPT !.at = place])
    PROVE  proc' \in [Procs -> Situations] /\ Placed'
<1> DEFINE t == [proc[p] EXCEPT !.at = place]
<1>1. proc' = [proc EXCEPT ![p] = t] /\ t \in Situations
  BY DEF Goto, TInv, TypeOK, Situations
<1> HIDE DEF t
<1> QED BY <1>1, Moves DEF t

LEMMA HandlerFacts ==
    ASSUME TInv, NEW h \in Handlers
    PROVE  /\ h \in Procs /\ h # Cleaner
           /\ proc[h] \in Situations /\ FitsHandler(proc[h])
           /\ ~At(h, "idle") => Subject(h) \in Runs
BY CleanerIsNoHandler DEF Procs, TInv, TypeOK, Placed, Fits, FitsHandler, At, Subject

LEMMA InspectTyped ==
    ASSUME TInv, NEW h \in Handlers, Inspect(h)
    PROVE  TInv'
<1>1. /\ h \in Procs /\ h # Cleaner /\ proc[h].at = "inspect"
      /\ proc[h] \in Situations /\ FitsHandler(proc[h]) /\ Subject(h) \in Runs
  BY HandlerFacts DEF Inspect, At
<1>2. faults' \in 0..MaxFaults
  BY FaultTyped DEF Inspect
<1> SUFFICES /\ proc' \in [Procs -> Situations] /\ Placed'
             /\ tail' \in [Runs -> Handlers \cup {NoProc}]
             /\ loose' \subseteq Runs
             /\ told' \in [Runs -> {"nothing", "given", "gone"}]
  BY <1>2 DEF Inspect, daemon, TInv, TypeOK
<1>3. CASE Goto(h, "rmList") /\ proc[h].op = "get"
           /\ UNCHANGED <<tail, loose, told>>
  <2>1. Fits(h, [proc[h] EXCEPT !.at = "rmList"])
    BY <1>1, <1>3 DEF Fits, FitsHandler, Situations, Making
  <2> QED BY <1>1, <1>3, <2>1, GoingOnFits DEF Places, Removing, TInv, TypeOK
<1>4. CASE Leave({h}) /\ UNCHANGED <<loose, told>>
  BY <1>1, <1>4, LeavingFits DEF TInv, TypeOK
<1>5. CASE /\ proc[h].op # "get"
           /\ proc' = [proc EXCEPT ![h].at = "rmList", ![h].then = "create"]
           /\ told' = [told EXCEPT ![Subject(h)] = "nothing"]
           /\ UNCHANGED <<tail, loose>>
  <2> DEFINE t == [proc[h] EXCEPT !.at = "rmList", !.then = "create"]
  <2>1. proc' = [proc EXCEPT ![h] = t]
    BY <1>5 DEF TInv, TypeOK
  <2>2. t \in Situations /\ Fits(h, t)
    BY <1>1, <1>5
       DEF Situations, Ops, Places, Removing, Fits, FitsHandler, Making
  <2> HIDE DEF t
  <2>3. proc' \in [Procs -> Situations] /\ Placed'
    BY <1>1, <2>1, <2>2, Moves
  <2> QED BY <1>1, <1>5, <2>3 DEF TInv, TypeOK
<1>6. CASE /\ Leave({h}) /\ told' = [told EXCEPT ![Subject(h)] = "given"]
           /\ UNCHANGED loose
  BY <1>1, <1>6, LeavingFits DEF TInv, TypeOK
<1>7. CASE GiveUp(h) /\ UNCHANGED told
  BY <1>1, <1>7, GivingUpFits DEF TInv, TypeOK
<1> QED BY <1>3, <1>4, <1>5, <1>6, <1>7 DEF Inspect

LEMMA CreateNetworkTyped ==
    ASSUME TInv, NEW h \in Handlers, CreateNetwork(h)
    PROVE  TInv'
<1>1. /\ h \in Procs /\ h # Cleaner /\ proc[h].at = "network"
      /\ proc[h] \in Situations /\ FitsHandler(proc[h]) /\ Subject(h) \in Runs
  BY HandlerFacts DEF CreateNetwork, At
<1>2. faults' \in 0..MaxFaults /\ networks' \subseteq Runs
  BY <1>1, FaultTyped DEF CreateNetwork, TInv, TypeOK
<1> SUFFICES /\ proc' \in [Procs -> Situations] /\ Placed'
             /\ tail' \in [Runs -> Handlers \cup {NoProc}]
             /\ loose' \subseteq Runs
  BY <1>2 DEF CreateNetwork, TInv, TypeOK
<1>3. CASE Goto(h, "connect") /\ UNCHANGED <<tail, loose>>
  <2>1. Fits(h, [proc[h] EXCEPT !.at = "connect"])
    BY <1>1 DEF Fits, FitsHandler, Situations, Making
  <2> QED BY <1>1, <1>3, <2>1, GoingOnFits DEF Places, Making, TInv, TypeOK
<1>4. CASE GiveUp(h)
  BY <1>1, <1>4, GivingUpFits
<1> QED BY <1>3, <1>4 DEF CreateNetwork

LEMMA ConnectGatewayTyped ==
    ASSUME TInv, NEW h \in Handlers, ConnectGateway(h)
    PROVE  TInv'
<1>1. /\ h \in Procs /\ h # Cleaner /\ proc[h].at = "connect"
      /\ proc[h] \in Situations /\ FitsHandler(proc[h]) /\ Subject(h) \in Runs
  BY HandlerFacts DEF ConnectGateway, At
<1>2. faults' \in 0..MaxFaults /\ joined' \subseteq Runs
  BY <1>1, FaultTyped DEF ConnectGateway, TInv, TypeOK
<1> SUFFICES /\ proc' \in [Procs -> Situations] /\ Placed'
             /\ tail' \in [Runs -> Handlers \cup {NoProc}]
             /\ loose' \subseteq Runs
  BY <1>2 DEF ConnectGateway, TInv, TypeOK
<1>3. CASE /\ proc' = [proc EXCEPT
                  ![h].at = IF Subject(h) \in BlueRuns THEN "volume"
                            ELSE "create",
                  ![h].left = CreateOrder(Subject(h))]
           /\ UNCHANGED <<tail, loose>>
  <2> DEFINE place == IF Subject(h) \in BlueRuns THEN "volume" ELSE "create"
             t == [proc[h] EXCEPT !.at = place,
                                  !.left = CreateOrder(Subject(h))]
  <2>1. proc' = [proc EXCEPT ![h] = t]
    BY <1>3 DEF TInv, TypeOK
  <2>2. place \in {"volume", "create"}
    OBVIOUS
  <2> HIDE DEF place
  <2>3. t \in Situations /\ Fits(h, t)
    BY <1>1, <2>2, OrdersAreRoles
       DEF Situations, Places, Fits, FitsHandler, Making
  <2> HIDE DEF t
  <2> QED BY <1>1, <1>3, <2>1, <2>3, Moves DEF TInv, TypeOK
<1>4. CASE GiveUp(h)
  BY <1>1, <1>4, GivingUpFits
<1> QED BY <1>3, <1>4 DEF ConnectGateway

LEMMA CreateVolumeTyped ==
    ASSUME TInv, NEW h \in Handlers, CreateVolume(h)
    PROVE  TInv'
<1>1. /\ h \in Procs /\ h # Cleaner /\ proc[h].at = "volume"
      /\ proc[h] \in Situations /\ FitsHandler(proc[h]) /\ Subject(h) \in Runs
  BY HandlerFacts DEF CreateVolume, At
<1>2. faults' \in 0..MaxFaults /\ volumes' \subseteq Runs
  BY <1>1, FaultTyped DEF CreateVolume, TInv, TypeOK
<1> SUFFICES /\ proc' \in [Procs -> Situations] /\ Placed'
             /\ tail' \in [Runs -> Handlers \cup {NoProc}]
             /\ loose' \subseteq Runs
  BY <1>2 DEF CreateVolume, TInv, TypeOK
<1>3. CASE Goto(h, "create") /\ UNCHANGED <<tail, loose>>
  <2>1. Fits(h, [proc[h] EXCEPT !.at = "create"])
    BY <1>1 DEF Fits, FitsHandler, Situations, Making
  <2> QED BY <1>1, <1>3, <2>1, GoingOnFits DEF Places, Making, TInv, TypeOK
<1>4. CASE GiveUp(h)
  BY <1>1, <1>4, GivingUpFits
<1> QED BY <1>3, <1>4 DEF CreateVolume

\* The container a provision is about to create or start.
LEMMA MadeIsAContainer ==
    ASSUME TInv, NEW h \in Handlers, proc[h].at \in {"create", "start"}
    PROVE  Made(h) \in Containers /\ Made(h)[1] = Subject(h)
<1>1. /\ proc[h] \in Situations /\ FitsHandler(proc[h]) /\ Subject(h) \in Runs
  BY HandlerFacts DEF At
<1>2. proc[h].left \in Seq(BlueRoles) /\ proc[h].left # <<>>
  BY <1>1 DEF Situations, FitsHandler
<1>3. Head(proc[h].left) \in BlueRoles
  BY <1>2
<1>4. proc[h].request \in 1..MaxProvisions
  BY <1>1 DEF FitsHandler, Making
<1> QED BY <1>1, <1>3, <1>4 DEF Made, Containers

LEMMA CreateContainerTyped ==
    ASSUME TInv, NEW h \in Handlers, CreateContainer(h)
    PROVE  TInv'
<1>1. /\ h \in Procs /\ h # Cleaner /\ proc[h].at = "create"
      /\ proc[h] \in Situations /\ FitsHandler(proc[h]) /\ Subject(h) \in Runs
  BY HandlerFacts DEF CreateContainer, At
<1>2. faults' \in 0..MaxFaults
  BY FaultTyped DEF CreateContainer
<1>3. Made(h) \in Containers
  BY <1>1, MadeIsAContainer
<1>4. /\ containers' \subseteq Containers /\ containers \subseteq containers'
      /\ volumes' \subseteq Runs
  BY <1>1, <1>3 DEF CreateContainer, TInv, TypeOK
<1> SUFFICES /\ proc' \in [Procs -> Situations] /\ Placed'
             /\ tail' \in [Runs -> Handlers \cup {NoProc}]
             /\ loose' \subseteq Runs
  BY <1>2, <1>4 DEF CreateContainer, TInv, TypeOK
<1> DEFINE left == Tail(proc[h].left)
           place == IF left = <<>> THEN "start" ELSE proc[h].at
           todo == IF left = <<>> THEN StartOrder(Subject(h)) ELSE left
<1>5. CASE /\ proc' = [proc EXCEPT
                  ![h].at = IF left = <<>> THEN "start" ELSE @,
                  ![h].left = IF left = <<>> THEN StartOrder(Subject(h))
                              ELSE left]
           /\ UNCHANGED <<tail, loose>>
  <2> DEFINE t == [proc[h] EXCEPT !.at = place, !.left = todo]
  <2>1. proc' = [proc EXCEPT ![h] = t]
    BY <1>5 DEF TInv, TypeOK
  <2>2. place \in {"create", "start"}
    BY <1>1
  <2>3. todo \in Seq(BlueRoles) /\ todo # <<>>
    <3>1. proc[h].left \in Seq(BlueRoles) /\ proc[h].left # <<>>
      BY <1>1 DEF Situations, FitsHandler
    <3>2. left \in Seq(BlueRoles)
      BY <3>1
    <3> QED BY <1>1, <3>2, OrdersAreRoles
  <2> HIDE DEF place, todo
  <2>4. t \in Situations /\ Fits(h, t)
    BY <1>1, <2>2, <2>3 DEF Situations, Places, Fits, FitsHandler, Making
  <2> HIDE DEF t
  <2> QED BY <1>1, <1>5, <2>1, <2>4, Moves DEF TInv, TypeOK
<1>6. CASE GiveUp(h)
  BY <1>1, <1>6, GivingUpFits
<1> QED BY <1>5, <1>6 DEF CreateContainer

LEMMA StartContainerTyped ==
    ASSUME TInv, NEW h \in Handlers, StartContainer(h)
    PROVE  TInv'
<1>1. /\ h \in Procs /\ h # Cleaner /\ proc[h].at = "start"
      /\ proc[h] \in Situations /\ FitsHandler(proc[h]) /\ Subject(h) \in Runs
  BY HandlerFacts DEF StartContainer, At
<1>2. faults' \in 0..MaxFaults /\ up' \subseteq containers
  BY FaultTyped DEF StartContainer, TInv, TypeOK
<1> SUFFICES /\ proc' \in [Procs -> Situations] /\ Placed'
             /\ tail' \in [Runs -> Handlers \cup {NoProc}]
             /\ loose' \subseteq Runs
             /\ told' \in [Runs -> {"nothing", "given", "gone"}]
  BY <1>2 DEF StartContainer, TInv, TypeOK
<1> DEFINE left == Tail(proc[h].left)
<1>3. CASE /\ left # <<>> /\ proc' = [proc EXCEPT ![h].left = left]
           /\ UNCHANGED <<tail, loose, told>>
  <2> DEFINE t == [proc[h] EXCEPT !.left = left]
  <2>1. proc' = [proc EXCEPT ![h] = t]
    BY <1>3 DEF TInv, TypeOK
  <2>2. left \in Seq(BlueRoles)
    <3>1. proc[h].left \in Seq(BlueRoles) /\ proc[h].left # <<>>
      BY <1>1 DEF Situations, FitsHandler
    <3> QED BY <3>1
  <2> HIDE DEF left
  <2>3. t \in Situations /\ Fits(h, t)
    BY <1>1, <1>3, <2>2 DEF Situations, Places, Fits, FitsHandler, Making
  <2> HIDE DEF t
  <2> QED BY <1>1, <1>3, <2>1, <2>3, Moves DEF TInv, TypeOK
<1>4. CASE /\ Leave({h}) /\ told' = [told EXCEPT ![Subject(h)] = "given"]
           /\ UNCHANGED loose
  BY <1>1, <1>4, LeavingFits DEF TInv, TypeOK
<1>5. CASE GiveUp(h) /\ UNCHANGED told
  BY <1>1, <1>5, GivingUpFits DEF TInv, TypeOK
<1> QED BY <1>3, <1>4, <1>5 DEF StartContainer

\* Whoever removes a run's resources goes from one place of it to another.
LEMMA RemovingFits ==
    ASSUME TInv, NEW p \in Procs, proc[p].at \in Removing,
           NEW place \in Removing, NEW seen \in SUBSET Of(Subject(p))
    PROVE  /\ Subject(p) \in Runs
           /\ [proc[p] EXCEPT !.at = place, !.seen = seen] \in Situations
           /\ Fits(p, [proc[p] EXCEPT !.at = place, !.seen = seen])
           /\ place # "rmContainers" => Fits(p, [proc[p] EXCEPT !.at = place])
<1>1. proc[p] \in Situations /\ Fits(p, proc[p])
  BY DEF TInv, TypeOK, Placed
<1>2. /\ seen \in SUBSET Containers
      /\ \A c \in seen : c[1] = Subject(p)
  BY DEF Of, TInv, TypeOK
<1>3. CASE p = Cleaner
  BY <1>1, <1>2, <1>3
     DEF Situations, Places, Fits, FitsCleaner, Removing, Subject
<1>4. CASE p # Cleaner
  BY <1>1, <1>2, <1>4
     DEF Situations, Places, Fits, FitsHandler, Removing, Making, Subject
<1> QED BY <1>3, <1>4

LEMMA RemovingTyped ==
    ASSUME TInv, NEW p \in Procs,
           \/ RemoveList(p) \/ RemoveContainers(p)
           \/ DisconnectGateway(p) \/ RemoveNetwork(p)
    PROVE  TInv'
<1> DEFINE Typed == /\ proc' \in [Procs -> Situations] /\ Placed'
                    /\ tail' \in [Runs -> Handlers \cup {NoProc}]
                    /\ loose' \subseteq Runs
<1>1. /\ proc[p].at \in Removing /\ proc[p].at # "idle"
      /\ proc[p] \in Situations
  BY DEF RemoveList, RemoveContainers, DisconnectGateway, RemoveNetwork, At,
         Removing, TInv, TypeOK
<1>2. Subject(p) \in Runs
  BY <1>1, RemovingFits
<1>3. faults' \in 0..MaxFaults
  BY FaultTyped
     DEF RemoveList, RemoveContainers, DisconnectGateway, RemoveNetwork
<1>4. ASSUME GiveUp(p) PROVE Typed
  BY <1>1, <1>4, GivingUpFits
<1>5. ASSUME NEW place \in Removing \ {"rmContainers"}, Goto(p, place), UNCHANGED tail,
             UNCHANGED loose \/ StayLoose(p)
      PROVE  Typed
  <2>1. proc' \in [Procs -> Situations] /\ Placed'
    BY <1>1, <1>5, RemovingFits, GoingOnFits DEF Places
  <2> QED BY <1>2, <1>5, <2>1 DEF StayLoose, TInv, TypeOK
<1>6. CASE RemoveList(p)
  <2> DEFINE place == IF Of(Subject(p)) = {} THEN "rmLeave"
                      ELSE "rmContainers"
             t == [proc[p] EXCEPT !.at = place, !.seen = Of(Subject(p))]
  <2>1. CASE GiveUp(p)
    BY <1>3, <1>4, <1>6, <2>1 DEF RemoveList, daemon, TInv, TypeOK
  <2>2. CASE ~GiveUp(p)
    <3>1. proc' = [proc EXCEPT ![p] = t] /\ UNCHANGED <<tail, loose>>
      BY <1>6, <2>2 DEF RemoveList, TInv, TypeOK
    <3>2. place \in Removing /\ Of(Subject(p)) \in SUBSET Containers
      BY DEF Removing, Of, TInv, TypeOK
    <3> HIDE DEF place
    <3>3. t \in Situations /\ Fits(p, t)
      BY <1>1, <3>2, RemovingFits
    <3> HIDE DEF t
    <3>4. proc' \in [Procs -> Situations] /\ Placed'
      BY <3>1, <3>3, Moves
    <3> QED BY <1>3, <1>6, <3>1, <3>4 DEF RemoveList, daemon, TInv, TypeOK
  <2> QED BY <2>1, <2>2
<1>7. CASE RemoveContainers(p)
  <2>1. Typed
    <3>1. \/ Goto(p, "rmLeave") /\ UNCHANGED <<tail, loose>>
          \/ Goto(p, "rmLeave") /\ StayLoose(p) /\ UNCHANGED tail
          \/ GiveUp(p)
      BY <1>7 DEF RemoveContainers
    <3>2. "rmLeave" \in Removing \ {"rmContainers"}
      BY DEF Removing
    <3> QED BY <1>4, <1>5, <3>1, <3>2
  <2>2. containers' \subseteq containers /\ up' \subseteq containers'
    BY <1>7 DEF RemoveContainers, TInv, TypeOK
  <2> QED BY <1>3, <1>7, <2>1, <2>2 DEF RemoveContainers, TInv, TypeOK
<1>8. CASE DisconnectGateway(p)
  <2>1. Typed
    <3>1. "rmNetwork" \in Removing \ {"rmContainers"}
      BY DEF Removing
    <3> QED BY <1>4, <1>5, <1>8, <3>1 DEF DisconnectGateway
  <2> QED BY <1>3, <1>8, <2>1 DEF DisconnectGateway, TInv, TypeOK
<1>9. CASE RemoveNetwork(p)
  <2>1. Typed
    <3>1. "rmVolume" \in Removing \ {"rmContainers"}
      BY DEF Removing
    <3> QED BY <1>4, <1>5, <1>9, <3>1 DEF RemoveNetwork
  <2> QED BY <1>3, <1>9, <2>1 DEF RemoveNetwork, TInv, TypeOK
<1> QED BY <1>6, <1>7, <1>8, <1>9

LEMMA RemoveVolumeTyped ==
    ASSUME TInv, NEW p \in Procs, RemoveVolume(p)
    PROVE  TInv'
<1>1. /\ proc[p].at = "rmVolume" /\ proc[p] \in Situations
      /\ Fits(p, proc[p]) /\ Subject(p) \in Runs
  BY RemovingFits
     DEF RemoveVolume, At, Removing, TInv, TypeOK, Placed, Fits, FitsHandler,
         FitsCleaner, Subject
<1>2. faults' \in 0..MaxFaults /\ volumes' \subseteq Runs
  BY FaultTyped DEF RemoveVolume, TInv, TypeOK
<1> SUFFICES /\ proc' \in [Procs -> Situations] /\ Placed'
             /\ tail' \in [Runs -> Handlers \cup {NoProc}]
             /\ loose' \subseteq Runs
             /\ told' \in [Runs -> {"nothing", "given", "gone"}]
  BY <1>2 DEF RemoveVolume, TInv, TypeOK
<1>3. CASE GiveUp(p) /\ UNCHANGED told
  BY <1>1, <1>3, GivingUpFits DEF TInv, TypeOK
<1>4. CASE AfterRemoval(p)
  <2>1. /\ told' \in [Runs -> {"nothing", "given", "gone"}]
        /\ loose' \subseteq Runs
    BY <1>4 DEF AfterRemoval, TInv, TypeOK
  <2>2. \/ p = Cleaner /\ Goto(p, "next") /\ UNCHANGED tail
        \/ Settle(TRUE)
        \/ p # Cleaner /\ proc[p].then = "create" /\ Goto(p, "network")
           /\ UNCHANGED tail
        \/ Leave({p})
    <3>1. CASE p = Cleaner
      BY <1>4, <3>1 DEF AfterRemoval
    <3>2. CASE p # Cleaner
      <4>1. proc[p].then \in {"answer", "create", "undone", "destroyed"}
        BY <1>1 DEF Situations
      <4> QED BY <1>4, <3>2, <4>1 DEF AfterRemoval
    <3> QED BY <3>1, <3>2
  <2>3. CASE p = Cleaner /\ Goto(p, "next") /\ UNCHANGED tail
    <3>1. Fits(p, [proc[p] EXCEPT !.at = "next"])
      BY <1>1, <2>3 DEF Fits, FitsCleaner, Situations, Removing
    <3> QED BY <2>1, <2>3, <3>1, GoingOnFits DEF Places, TInv, TypeOK
  <2>4. CASE Settle(TRUE)
    BY <2>1, <2>4, SettlingFits
  <2>5. CASE p # Cleaner /\ proc[p].then = "create" /\ Goto(p, "network")
             /\ UNCHANGED tail
    <3>1. Fits(p, [proc[p] EXCEPT !.at = "network"])
      BY <1>1, <2>5 DEF Fits, FitsHandler, Situations, Making
    <3> QED BY <2>1, <2>5, <3>1, GoingOnFits DEF Places, Making, TInv, TypeOK
  <2>6. CASE Leave({p})
    BY <2>1, <2>6, LeavingFits
  <2> QED BY <2>2, <2>3, <2>4, <2>5, <2>6
<1> QED BY <1>3, <1>4 DEF RemoveVolume

LEMMA CleanUpTyped ==
    ASSUME TInv, ListAll \/ InspectAll \/ \E r \in Runs : CleanRun(r)
    PROVE  TInv'
<1>1. /\ Cleaner \in Procs /\ proc[Cleaner] \in Situations
      /\ FitsCleaner(proc[Cleaner])
  BY DEF Procs, TInv, TypeOK, Placed, Fits
<1> DEFINE Typed == /\ proc' \in [Procs -> Situations] /\ Placed'
                    /\ tail' \in [Runs -> Handlers \cup {NoProc}]
                    /\ loose' \subseteq Runs
<1>2. ASSUME GiveUp(Cleaner), ~At(Cleaner, "idle") PROVE Typed
  BY <1>1, <1>2, GivingUpFits DEF At
<1>3. ASSUME Settle(TRUE), UNCHANGED loose PROVE Typed
  BY <1>3, SettlingFits DEF TInv, TypeOK
<1>4. CASE ListAll
  <2>1. ASSUME proc' = [proc EXCEPT ![Cleaner].at = "inspect",
                                    ![Cleaner].seen = containers],
               UNCHANGED <<tail, loose>>
        PROVE  Typed
    <3> DEFINE t == [proc[Cleaner] EXCEPT !.at = "inspect", !.seen = containers]
    <3>1. proc' = [proc EXCEPT ![Cleaner] = t]
      BY <2>1 DEF TInv, TypeOK
    <3>2. t \in Situations /\ Fits(Cleaner, t)
      BY <1>1
         DEF Situations, Places, Fits, FitsCleaner, Removing, TInv, TypeOK
    <3> HIDE DEF t
    <3> QED BY <1>1, <2>1, <3>1, <3>2, Moves DEF TInv, TypeOK
  <2>2. Typed
    BY <1>2, <1>3, <1>4, <2>1 DEF ListAll, At
  <2>3. faults' \in 0..MaxFaults
    BY <1>4, FaultTyped DEF ListAll
  <2> QED BY <1>4, <2>2, <2>3 DEF ListAll, daemon, TInv, TypeOK
<1>5. CASE InspectAll
  <2> DEFINE expired == {c[1] : c \in {d \in proc[Cleaner].seen :
                                          Label(d) \in overdue}}
  <2>1. ASSUME proc' = [proc EXCEPT ![Cleaner].at = "next",
                                    ![Cleaner].todo = expired],
               UNCHANGED <<tail, loose>>
        PROVE  Typed
    <3> DEFINE t == [proc[Cleaner] EXCEPT !.at = "next", !.todo = expired]
    <3>1. proc' = [proc EXCEPT ![Cleaner] = t]
      BY <2>1 DEF TInv, TypeOK
    <3>2. expired \subseteq Runs
      BY <1>1 DEF Situations, Containers
    <3> HIDE DEF expired
    <3>3. t \in Situations /\ Fits(Cleaner, t)
      BY <1>1, <3>2 DEF Situations, Places, Fits, FitsCleaner, Removing
    <3> HIDE DEF t
    <3> QED BY <1>1, <2>1, <3>1, <3>3, Moves DEF TInv, TypeOK
  <2>2. Typed
    BY <1>2, <1>3, <1>5, <2>1 DEF InspectAll, At
  <2>3. faults' \in 0..MaxFaults
    BY <1>5, FaultTyped DEF InspectAll
  <2> QED BY <1>5, <2>2, <2>3 DEF InspectAll, daemon, TInv, TypeOK
<1>6. ASSUME NEW r \in Runs, CleanRun(r) PROVE TInv'
  <2> DEFINE t == [proc[Cleaner] EXCEPT !.at = "rmList", !.run = r,
                                        !.todo = @ \ {r}]
  <2>1. proc' = [proc EXCEPT ![Cleaner] = t]
    BY <1>6 DEF CleanRun, TInv, TypeOK
  <2>2. t \in Situations /\ Fits(Cleaner, t)
    BY <1>1 DEF Situations, Places, Fits, FitsCleaner, Removing
  <2> HIDE DEF t
  <2>3. proc' \in [Procs -> Situations] /\ Placed'
    BY <1>1, <2>1, <2>2, Moves
  <2> QED BY <1>6, <2>3 DEF CleanRun, daemon, TInv, TypeOK
<1> QED BY <1>4, <1>5, <1>6

LEMMA WorldTyped ==
    ASSUME TInv, (\E c \in containers : Lapse(c) \/ Stop(c)) \/ Crash
    PROVE  TInv'
<1>1. ASSUME NEW c \in containers, Lapse(c) PROVE TInv'
  <2>1. Label(c) \in Runs \X (1..MaxProvisions)
    BY DEF Label, Containers, TInv, TypeOK
  <2>2. overdue' \subseteq Runs \X (1..MaxProvisions)
    BY <1>1, <2>1 DEF Lapse, TInv, TypeOK
  <2> QED BY <1>1, <2>2 DEF Lapse, daemon, TInv, TypeOK, Placed
<1>2. ASSUME NEW c \in containers, Stop(c) PROVE TInv'
  <2>1. faults' \in 0..MaxFaults /\ up' \subseteq containers
    BY <1>2, FaultTyped DEF Stop, TInv, TypeOK
  <2> QED BY <1>2, <2>1 DEF Stop, TInv, TypeOK, Placed
<1>3. CASE Crash
  <2>1. faults' \in 0..MaxFaults /\ tail' \in [Runs -> Handlers \cup {NoProc}]
    BY <1>3, FaultTyped DEF Crash
  <2>2. \A p \in Procs : Subject(p) \in Runs \cup {NoRun}
    BY DEF Subject, Situations, TInv, TypeOK
  <2>3. loose' \subseteq Runs
    BY <1>3, <2>2 DEF Crash, TInv, TypeOK
  <2>4. proc' \in [Procs -> Situations] /\ Placed'
    BY <1>3, IdleFits DEF Crash, Placed
  <2> QED BY <1>3, <2>1, <2>3, <2>4 DEF Crash, daemon, TInv, TypeOK
<1> QED BY <1>1, <1>2, <1>3

LEMMA InitTyped == Init => TInv
<1> SUFFICES ASSUME Init PROVE TInv
  OBVIOUS
<1>1. proc \in [Procs -> Situations] /\ Placed
  BY IdleFits DEF Init, Placed
<1> QED BY <1>1, Bounds DEF Init, TInv, TypeOK

LEMMA NextTyped == TInv /\ [Next]_vars => TInv'
<1> SUFFICES ASSUME TInv, [Next]_vars PROVE TInv'
  OBVIOUS
<1>1. Cleaner \in Procs /\ Handlers \subseteq Procs
  BY DEF Procs
<1>2. ASSUME NEW p \in Procs, Removal(p) PROVE TInv'
  BY <1>2, RemovingTyped, RemoveVolumeTyped DEF Removal
<1>3. ASSUME NEW h \in Handlers, Request(h) PROVE TInv'
  BY <1>1, <1>2, <1>3, StartTyped, ListTyped, InspectTyped,
     CreateNetworkTyped, ConnectGatewayTyped, CreateVolumeTyped,
     CreateContainerTyped, StartContainerTyped DEF Request
<1>4. ASSUME NEW h \in Handlers, NEW r \in Runs,
             NEW op \in {"provision", "get", "destroy"}, Call(h, op, r)
      PROVE  TInv'
  BY <1>4, CallTyped
<1>5. CASE CleanUp
  BY <1>1, <1>2, <1>5, CleanUpTyped DEF CleanUp
<1>6. CASE UNCHANGED vars
  BY <1>6 DEF vars, TInv, TypeOK, Placed
<1> QED BY <1>3, <1>4, <1>5, <1>6, TimerTyped, WorldTyped DEF Next

\* Every reachable state has the shape the adapter gives it.
THEOREM TypeCorrect == Spec => []TypeOK
<1>1. TInv => TypeOK
  BY DEF TInv
<1> QED BY <1>1, InitTyped, NextTyped, PTL DEF Spec

-----------------------------------------------------------------------------
(* The lock.                                                               *)

\* What the map and the promises look like: the map holds the last request of
\* a run, each other one is awaited by exactly the next, and all are about the
\* same run.
Chained ==
    /\ \A r \in Runs : tail[r] # NoProc =>
          Busy(tail[r]) /\ Subject(tail[r]) = r
    /\ \A h \in Handlers : proc[h].waits # NoProc =>
          /\ At(h, "queued")
          /\ Busy(proc[h].waits) /\ Subject(proc[h].waits) = Subject(h)
          /\ \A g \in Handlers \ {h} : proc[g].waits # proc[h].waits
          /\ \A r \in Runs : tail[r] # proc[h].waits
    /\ \A h \in Handlers : Inside(h) => tail[Subject(h)] # NoProc

LInv == TInv /\ Chained /\ LockIsExclusive

\* Nobody calls, and nobody is answered.
Carries ==
    /\ UNCHANGED tail
    /\ \A h \in Handlers :
          /\ proc'[h].run = proc[h].run /\ proc'[h].waits = proc[h].waits
          /\ proc'[h].at = "idle" <=> proc[h].at = "idle"
          /\ proc[h].waits # NoProc => proc'[h].at = proc[h].at

\* Some requests that have their locks are answered.
Answers ==
    \E P \in SUBSET Procs : Leave(P) /\ \A h \in P \cap Handlers : Inside(h)

LEMMA CarryingKeepsLock ==
    ASSUME LInv, Carries
    PROVE  Chained' /\ LockIsExclusive'
<1>1. \A h \in Handlers : proc[h].waits \in Handlers \cup {NoProc}
  BY DEF LInv, TInv, TypeOK, Situations, Procs
<1>2. \A r \in Runs : tail[r] \in Handlers \cup {NoProc}
  BY DEF LInv, TInv, TypeOK
<1>3. \A h \in Handlers : (Inside(h))' = Inside(h)
  BY DEF Carries, Inside, Busy, At
<1>4. LockIsExclusive'
  BY <1>3 DEF LInv, LockIsExclusive, Carries, Subject
<1>5. Chained'
  BY <1>1, <1>2, <1>3 DEF LInv, Chained, Carries, Busy, At, Subject
<1> QED BY <1>4, <1>5

LEMMA AnsweringKeepsLock ==
    ASSUME LInv, Answers
    PROVE  Chained' /\ LockIsExclusive'
<1> PICK P \in SUBSET Procs :
       Leave(P) /\ \A h \in P \cap Handlers : Inside(h)
  BY DEF Answers
<1>1. \A h \in Handlers : /\ proc[h].waits \in Handlers \cup {NoProc}
                          /\ h \in Procs /\ h # NoProc
  BY NoProcIsNotAProc DEF LInv, TInv, TypeOK, Situations, Procs
<1>2. \A r \in Runs : tail[r] \in Handlers \cup {NoProc}
  BY DEF LInv, TInv, TypeOK
<1>3. \A h \in P \cap Handlers : ~Busy(h)'
  BY <1>1 DEF Leave, Busy, At, Idle
<1>4. \A h \in Handlers \ P :
         /\ proc'[h].at = proc[h].at /\ proc'[h].run = proc[h].run
         /\ proc'[h].waits = IF proc[h].waits \in P THEN NoProc
                             ELSE proc[h].waits
  BY <1>1 DEF Leave, LInv, TInv, TypeOK, Situations
<1>5. \A h \in Handlers \ P : Inside(h)' =>
         Inside(h) \/ proc[h].waits \in P \cap Handlers
  BY <1>1, <1>4, NoProcIsNotAProc DEF Inside, Busy, At
<1>6. \A h \in Handlers : Inside(h)' => h \notin P
  BY <1>3 DEF Inside
<1>7. \A h \in Handlers \ P : Subject(h)' = Subject(h)
  BY <1>4 DEF Subject
<1>8. \A h \in Handlers \ P, g \in P \cap Handlers :
         Inside(h) => Subject(h) # Subject(g)
  BY DEF LInv, LockIsExclusive
<1>9. \A h \in Handlers : proc[h].waits # NoProc =>
         Subject(proc[h].waits) = Subject(h) /\ At(h, "queued")
  BY DEF LInv, Chained
<1>10. LockIsExclusive'
  <2> SUFFICES ASSUME NEW g \in Handlers, NEW h \in Handlers, Inside(g)',
                      Inside(h)', g # h
               PROVE  Subject(g)' # Subject(h)'
    BY DEF LockIsExclusive
  <2>1. g \notin P /\ h \notin P
    BY <1>6
  <2>2. Subject(g)' = Subject(g) /\ Subject(h)' = Subject(h)
    BY <1>7, <2>1
  <2>3. CASE Inside(g) /\ Inside(h)
    BY <2>2, <2>3 DEF LInv, LockIsExclusive
  <2>4. CASE Inside(g) /\ proc[h].waits \in P \cap Handlers
    <3>1. Subject(proc[h].waits) = Subject(h)
      BY <1>1, <1>9, <2>4
    <3> QED BY <1>8, <2>1, <2>2, <2>4, <3>1
  <2>5. CASE proc[g].waits \in P \cap Handlers /\ Inside(h)
    <3>1. Subject(proc[g].waits) = Subject(g)
      BY <1>1, <1>9, <2>5
    <3> QED BY <1>8, <2>1, <2>2, <2>5, <3>1
  <2>6. CASE proc[g].waits \in P \cap Handlers
             /\ proc[h].waits \in P \cap Handlers
    <3>1. /\ Subject(proc[g].waits) = Subject(g)
          /\ Subject(proc[h].waits) = Subject(h)
      BY <1>1, <1>9, <2>6
    <3>2. proc[g].waits # proc[h].waits
      BY <1>1, <2>6 DEF LInv, Chained
    <3>3. Inside(proc[g].waits) /\ Inside(proc[h].waits)
      BY <2>6
    <3> QED BY <2>2, <2>6, <3>1, <3>2, <3>3 DEF LInv, LockIsExclusive
  <2> QED BY <1>5, <2>1, <2>3, <2>4, <2>5, <2>6
<1>11. ASSUME NEW r \in Runs, tail'[r] # NoProc
       PROVE  Busy(tail[r])' /\ Subject(tail[r])' = r /\ tail'[r] = tail[r]
  <2>1. tail[r] \notin P /\ tail'[r] = tail[r]
    BY <1>11 DEF Leave
  <2>2. tail[r] \in Handlers \ P /\ Busy(tail[r]) /\ Subject(tail[r]) = r
    BY <1>2, <1>11, <2>1 DEF LInv, Chained
  <2> QED BY <1>4, <1>7, <2>1, <2>2 DEF Busy, At
<1>12. ASSUME NEW h \in Handlers, proc'[h].waits # NoProc
       PROVE  /\ At(h, "queued")'
              /\ Busy(proc[h].waits)'
              /\ Subject(proc[h].waits)' = Subject(h)'
              /\ \A g \in Handlers \ {h} : proc'[g].waits # proc'[h].waits
              /\ \A r \in Runs : tail'[r] # proc'[h].waits
  <2>1. h \notin P
    BY <1>1, <1>12 DEF Leave, Idle
  <2>2. proc'[h].waits = proc[h].waits /\ proc[h].waits \in Handlers \ P
    BY <1>1, <1>4, <1>12, <2>1
  <2>3. At(h, "queued")' /\ Subject(h)' = Subject(h)
    BY <1>4, <1>7, <1>9, <1>12, <2>1, <2>2 DEF At
  <2>4. Busy(proc[h].waits) /\ Subject(proc[h].waits) = Subject(h)
    BY <1>12, <2>2 DEF LInv, Chained
  <2>5. Busy(proc[h].waits)' /\ Subject(proc[h].waits)' = Subject(h)'
    BY <1>4, <1>7, <2>2, <2>3, <2>4 DEF Busy, At
  <2>6. \A g \in Handlers \ {h} : proc'[g].waits # proc'[h].waits
    <3> SUFFICES ASSUME NEW g \in Handlers \ {h}
                 PROVE  proc'[g].waits # proc'[h].waits
      OBVIOUS
    <3>1. proc'[g].waits \in {NoProc, proc[g].waits}
      BY <1>1 DEF Leave, Idle, LInv, TInv, TypeOK, Situations
    <3>2. proc[g].waits # proc[h].waits
      BY <1>12, <2>2 DEF LInv, Chained
    <3> QED BY <1>12, <2>2, <3>1, <3>2
  <2>7. \A r \in Runs : tail'[r] # proc'[h].waits
    <3>1. \A r \in Runs : tail[r] # proc[h].waits
      BY <1>12, <2>2 DEF LInv, Chained
    <3> QED BY <1>12, <2>2, <3>1 DEF Leave
  <2> QED BY <2>3, <2>5, <2>6, <2>7
<1>13. ASSUME NEW h \in Handlers, Inside(h)'
       PROVE  tail'[Subject(h)'] # NoProc
  <2>1. h \notin P /\ Subject(h)' = Subject(h)
    BY <1>6, <1>7, <1>13
  <2>2. Busy(h)
    BY <1>4, <1>13, <2>1 DEF Inside, Busy, At
  <2>3. Subject(h) \in Runs
    BY <2>2, HandlerFacts DEF Busy, LInv
  <2>4. CASE Inside(h)
    <3>1. tail[Subject(h)] # NoProc
      BY <2>4 DEF LInv, Chained
    <3>2. tail[Subject(h)] \notin P
      <4>1. SUFFICES ASSUME tail[Subject(h)] \in P PROVE FALSE
        OBVIOUS
      <4>2. /\ tail[Subject(h)] \in P \cap Handlers
            /\ Subject(tail[Subject(h)]) = Subject(h)
        BY <1>2, <2>3, <3>1, <4>1 DEF LInv, Chained
      <4> QED BY <1>8, <2>1, <2>4, <4>2
    <3> QED BY <2>1, <2>3, <3>1, <3>2 DEF Leave
  <2>5. CASE proc[h].waits \in P \cap Handlers
    <3> DEFINE g == proc[h].waits
    <3>1. Inside(g) /\ Subject(g) = Subject(h)
      BY <1>1, <1>9, <2>5
    <3>2. tail[Subject(h)] # NoProc
      BY <2>5, <3>1 DEF LInv, Chained
    <3>3. tail[Subject(h)] \notin P
      <4>1. SUFFICES ASSUME tail[Subject(h)] \in P PROVE FALSE
        OBVIOUS
      <4>2. /\ tail[Subject(h)] \in P \cap Handlers
            /\ Subject(tail[Subject(h)]) = Subject(h)
        BY <1>2, <2>3, <3>2, <4>1 DEF LInv, Chained
      <4>3. Inside(tail[Subject(h)])
        BY <4>2
      <4>4. tail[Subject(h)] = g
        BY <2>5, <3>1, <4>2, <4>3 DEF LInv, LockIsExclusive
      <4> QED BY <1>1, <2>3, <2>5, <4>4 DEF LInv, Chained
    <3> QED BY <2>1, <2>3, <3>2, <3>3 DEF Leave
  <2> QED BY <1>5, <1>13, <2>1, <2>4, <2>5
<1>14. Chained'
  BY <1>11, <1>12, <1>13 DEF Chained
<1> QED BY <1>10, <1>14

LEMMA CallingKeepsLock ==
    ASSUME LInv, NEW h \in Handlers, NEW r \in Runs,
           NEW op \in {"provision", "get", "destroy"}, Call(h, op, r)
    PROVE  Chained' /\ LockIsExclusive'
<1>1. /\ \A g \in Handlers : /\ proc[g].waits \in Handlers \cup {NoProc}
                             /\ g \in Procs /\ g # NoProc
      /\ \A q \in Runs : tail[q] \in Handlers \cup {NoProc}
  BY NoProcIsNotAProc DEF LInv, TInv, TypeOK, Situations, Procs
<1>2. /\ proc'[h].at = "queued" /\ proc'[h].run = r /\ proc'[h].waits = tail[r]
      /\ \A g \in Handlers \ {h} : proc'[g] = proc[g]
  BY <1>1 DEF Call, LInv, TInv, TypeOK, Idle
<1>3. /\ tail'[r] = h
      /\ \A q \in Runs \ {r} : tail'[q] = tail[q]
  BY DEF Call, LInv, TInv, TypeOK
<1>4. /\ ~Busy(h)
      /\ \A g \in Handlers : proc[g].waits # h
      /\ \A q \in Runs : tail[q] # h
  BY <1>1 DEF Call, Busy, LInv, Chained
<1>5. ASSUME tail[r] # NoProc
      PROVE  /\ tail[r] \in Handlers \ {h} /\ Busy(tail[r])
             /\ Subject(tail[r]) = r
             /\ \A g \in Handlers : proc[g].waits # tail[r]
             /\ \A q \in Runs \ {r} : tail[q] # tail[r]
  <2>1. tail[r] \in Handlers \ {h}
    BY <1>1, <1>4, <1>5
  <2>2. Busy(tail[r]) /\ Subject(tail[r]) = r
    BY <1>5 DEF LInv, Chained
  <2>3. \A g \in Handlers : proc[g].waits # tail[r]
    BY <1>5 DEF LInv, Chained
  <2>4. \A q \in Runs \ {r} : tail[q] # tail[r]
    BY <1>5, <2>2 DEF LInv, Chained
  <2> QED BY <2>1, <2>2, <2>3, <2>4
<1>6. \A g \in Handlers \ {h} : /\ Busy(g)' = Busy(g) /\ Subject(g)' = Subject(g)
                                /\ Inside(g)' = Inside(g)
                                /\ At(g, "queued")' = At(g, "queued")
  BY <1>2 DEF Busy, Subject, Inside, At
<1>7. ASSUME NEW g \in Handlers \ {h}, Inside(g), tail[r] = NoProc
      PROVE  Subject(g) # r
  BY <1>7 DEF LInv, Chained
<1>8. LockIsExclusive'
  <2>1. Inside(h)' => tail[r] = NoProc
    BY <1>2 DEF Inside
  <2>2. Subject(h)' = r
    BY <1>2 DEF Subject
  <2>3. \A f, g \in Handlers \ {h} :
           Inside(f)' /\ Inside(g)' /\ f # g => Subject(f)' # Subject(g)'
    BY <1>6 DEF LInv, LockIsExclusive
  <2>4. \A g \in Handlers \ {h} : Inside(g)' /\ Inside(h)' => Subject(g)' # r
    BY <1>6, <1>7, <2>1
  <2> QED BY <2>2, <2>3, <2>4 DEF LockIsExclusive
<1>9. ASSUME NEW q \in Runs, tail'[q] # NoProc
      PROVE  Busy(tail[q])' /\ Subject(tail[q])' = q
  <2>1. CASE q = r
    BY <1>2, <1>3, <2>1 DEF Busy, At, Subject
  <2>2. CASE q # r
    <3>1. tail'[q] = tail[q] /\ tail[q] \in Handlers \ {h}
      BY <1>1, <1>3, <1>4, <1>9, <2>2
    <3>2. Busy(tail[q]) /\ Subject(tail[q]) = q
      BY <1>9, <3>1 DEF LInv, Chained
    <3> QED BY <1>2, <3>1, <3>2 DEF Busy, At, Subject
  <2> QED BY <2>1, <2>2
<1>10. ASSUME NEW g \in Handlers, proc'[g].waits # NoProc
       PROVE  /\ At(g, "queued")'
              /\ Busy(proc[g].waits)' /\ Subject(proc[g].waits)' = Subject(g)'
              /\ \A f \in Handlers \ {g} : proc'[f].waits # proc'[g].waits
              /\ \A q \in Runs : tail'[q] # proc'[g].waits
  <2>1. CASE g = h
    <3>1. proc'[g].waits = tail[r] /\ tail[r] # NoProc
      BY <1>2, <1>10, <2>1
    <3>2. Busy(proc[g].waits)' /\ Subject(proc[g].waits)' = r
      BY <1>2, <1>5, <3>1 DEF Busy, At, Subject
    <3>3. At(g, "queued")' /\ Subject(g)' = r
      BY <1>2, <2>1 DEF At, Subject
    <3>4. \A f \in Handlers \ {g} : proc'[f].waits # proc'[g].waits
      BY <1>2, <1>5, <2>1, <3>1
    <3>5. \A q \in Runs : tail'[q] # proc'[g].waits
      BY <1>3, <1>5, <3>1
    <3> QED BY <3>2, <3>3, <3>4, <3>5
  <2>2. CASE g # h
    <3>1. proc'[g].waits = proc[g].waits /\ proc[g].waits \in Handlers \ {h}
      BY <1>1, <1>2, <1>4, <1>10, <2>2
    <3>2. /\ At(g, "queued") /\ Busy(proc[g].waits)
          /\ Subject(proc[g].waits) = Subject(g)
          /\ \A f \in Handlers \ {g} : proc[f].waits # proc[g].waits
          /\ \A q \in Runs : tail[q] # proc[g].waits
      BY <1>10, <3>1 DEF LInv, Chained
    <3>3. Busy(proc[g].waits)' /\ Subject(proc[g].waits)' = Subject(g)'
      BY <1>2, <2>2, <3>1, <3>2 DEF Busy, At, Subject
    <3>4. \A f \in Handlers \ {g} : proc'[f].waits # proc'[g].waits
      BY <1>2, <3>1, <3>2
    <3>5. \A q \in Runs : tail'[q] # proc'[g].waits
      BY <1>3, <3>1, <3>2
    <3> QED BY <1>6, <2>2, <3>2, <3>3, <3>4, <3>5
  <2> QED BY <2>1, <2>2
<1>11. ASSUME NEW g \in Handlers, Inside(g)'
       PROVE  tail'[Subject(g)'] # NoProc
  <2>1. CASE g = h
    BY <1>1, <1>2, <1>3, <2>1 DEF Subject
  <2>2. CASE g # h
    <3>1. Inside(g) /\ Subject(g)' = Subject(g)
      BY <1>6, <1>11, <2>2
    <3>2. tail[Subject(g)] # NoProc /\ Subject(g) \in Runs
      BY <3>1, HandlerFacts DEF LInv, Chained, Inside, Busy
    <3> QED BY <1>1, <1>3, <3>1, <3>2
  <2> QED BY <2>1, <2>2
<1>12. Chained'
  BY <1>9, <1>10, <1>11 DEF Chained
<1> QED BY <1>8, <1>12

LEMMA CrashKeepsLock ==
    ASSUME LInv, Crash
    PROVE  Chained' /\ LockIsExclusive'
<1>1. \A h \in Handlers : ~Busy(h)' /\ proc'[h].waits = NoProc
  BY DEF Crash, Busy, At, Idle, Procs
<1>2. \A r \in Runs : tail'[r] = NoProc
  BY DEF Crash
<1> QED BY <1>1, <1>2 DEF Chained, LockIsExclusive, Inside

\* A request past the queue has its lock.
LEMMA PastTheQueue ==
    ASSUME LInv, NEW h \in Handlers, ~At(h, "idle"),
           ~At(h, "queued") \/ proc[h].waits = NoProc
    PROVE  Inside(h) /\ proc[h].waits = NoProc
BY DEF LInv, Chained, Inside, Busy

\* Only one process moves, and it stays with its run.
LEMMA MovingCarries ==
    ASSUME LInv, NEW p \in Procs, NEW t, proc' = [proc EXCEPT ![p] = t],
           UNCHANGED tail,
           p # Cleaner => /\ Inside(p) /\ t.at # "idle"
                          /\ t.run = proc[p].run /\ t.waits = proc[p].waits
    PROVE  Carries
<1>1. ASSUME NEW h \in Handlers, h # p PROVE proc'[h] = proc[h]
  BY <1>1 DEF LInv, TInv, TypeOK, Procs
<1>2. CASE p \in Handlers
  <2>1. p # Cleaner /\ proc'[p] = t /\ proc[p].at # "idle"
        /\ proc[p].waits = NoProc
    BY <1>2, CleanerIsNoHandler DEF LInv, TInv, TypeOK, Inside, Busy, At
  <2> QED BY <1>1, <1>2, <2>1 DEF Carries
<1>3. CASE p \notin Handlers
  BY <1>1, <1>3 DEF Carries
<1> QED BY <1>2, <1>3

LEMMA LeavingAnswers ==
    ASSUME LInv, NEW h \in Handlers, Inside(h), Leave({h})
    PROVE  Answers
<1>1. {h} \in SUBSET Procs
  BY DEF Procs
<1> QED BY <1>1 DEF Answers

LEMMA SettlingIsEither ==
    ASSUME LInv, NEW ok \in BOOLEAN, Settle(ok)
    PROVE  Carries \/ Answers
<1> DEFINE J == {h \in Handlers : At(h, "join")}
<1>1. \A h \in J : Inside(h) /\ proc[h].waits = NoProc
  BY PastTheQueue DEF At
<1>2. CASE ~ok
  <2>1. Leave(J \cup {Cleaner}) /\ J \cup {Cleaner} \in SUBSET Procs
    BY <1>2 DEF Settle, Procs
  <2>2. \A h \in (J \cup {Cleaner}) \cap Handlers : Inside(h)
    BY <1>1, CleanerIsNoHandler
  <2> HIDE DEF J
  <2> QED BY <2>1, <2>2 DEF Answers
<1>3. CASE ok
  <2>1. \A h \in J : proc'[h] = [proc[h] EXCEPT !.at = "list"]
    BY <1>3, CleanerIsNoHandler DEF Settle, Procs
  <2>2. \A h \in Handlers \ J : proc'[h] = proc[h]
    BY <1>3, CleanerIsNoHandler DEF Settle, Procs
  <2>3. ASSUME NEW h \in Handlers
        PROVE  /\ proc'[h].run = proc[h].run /\ proc'[h].waits = proc[h].waits
               /\ proc'[h].at = "idle" <=> proc[h].at = "idle"
               /\ proc[h].waits # NoProc => proc'[h].at = proc[h].at
    <3>1. proc[h] \in Situations
      BY HandlerFacts DEF LInv
    <3>2. CASE h \in J
      BY <1>1, <2>1, <3>1, <3>2 DEF Situations, At
    <3>3. CASE h \notin J
      BY <2>2, <3>3
    <3> QED BY <3>2, <3>3
  <2>4. UNCHANGED tail
    BY <1>3 DEF Settle
  <2> QED BY <2>3, <2>4 DEF Carries
<1> QED BY <1>2, <1>3

LEMMA GivingUpIsEither ==
    ASSUME LInv, NEW p \in Procs, GiveUp(p), p # Cleaner => Inside(p)
    PROVE  Carries \/ Answers
<1>1. CASE p = Cleaner
  BY <1>1, SettlingIsEither DEF GiveUp
<1>2. CASE p # Cleaner /\ proc[p].at \in Making
  <2> DEFINE t == [proc[p] EXCEPT !.at = "rmList", !.then = "undone"]
  <2>1. proc[p] \in Situations
    BY DEF LInv, TInv, TypeOK
  <2>2. proc' = [proc EXCEPT ![p] = t] /\ UNCHANGED tail
    BY <1>2 DEF GiveUp, LInv, TInv, TypeOK
  <2>3. t.at # "idle" /\ t.run = proc[p].run /\ t.waits = proc[p].waits
    BY <2>1 DEF Situations
  <2> HIDE DEF t
  <2> QED BY <1>2, <2>2, <2>3, MovingCarries
<1>3. CASE p # Cleaner /\ proc[p].at \notin Making
  BY <1>3, LeavingAnswers DEF GiveUp, Procs
<1> QED BY <1>1, <1>2, <1>3

\* What Carries is about, for a process that goes on in some way.
LEMMA GoingOnCarries ==
    ASSUME LInv, NEW p \in Procs, NEW place, Goto(p, place), place # "idle",
           UNCHANGED tail, p # Cleaner => Inside(p)
    PROVE  Carries
<1> DEFINE t == [proc[p] EXCEPT !.at = place]
<1>1. proc[p] \in Situations
  BY DEF LInv, TInv, TypeOK
<1>2. proc' = [proc EXCEPT ![p] = t]
  BY DEF Goto, LInv, TInv, TypeOK
<1>3. t.at # "idle" /\ t.run = proc[p].run /\ t.waits = proc[p].waits
  BY <1>1 DEF Situations
<1> HIDE DEF t
<1> QED BY <1>2, <1>3, MovingCarries

LEMMA RequestIsEither ==
    ASSUME LInv, NEW h \in Handlers,
           \/ Enter(h) \/ Join(h) \/ List(h) \/ Inspect(h)
           \/ CreateNetwork(h) \/ ConnectGateway(h) \/ CreateVolume(h)
           \/ CreateContainer(h) \/ StartContainer(h)
    PROVE  Carries \/ Answers
<1>1. /\ h \in Procs /\ h # Cleaner /\ proc[h] \in Situations
  BY HandlerFacts DEF LInv
<1>2. Inside(h) /\ proc[h].waits = NoProc /\ proc[h].at # "idle"
  BY PastTheQueue
     DEF Enter, Join, List, Inspect, CreateNetwork, ConnectGateway,
         CreateVolume, CreateContainer, StartContainer, At
<1>3. ASSUME GiveUp(h) PROVE Carries \/ Answers
  BY <1>1, <1>2, <1>3, GivingUpIsEither
<1>4. ASSUME Leave({h}) PROVE Answers
  BY <1>2, <1>4, LeavingAnswers
<1>5. ASSUME NEW place, Goto(h, place), place # "idle", UNCHANGED tail
      PROVE  Carries
  BY <1>1, <1>2, <1>5, GoingOnCarries
<1>6. ASSUME NEW t, proc' = [proc EXCEPT ![h] = t], UNCHANGED tail,
             t.at # "idle", t.run = proc[h].run, t.waits = proc[h].waits
      PROVE  Carries
  BY <1>1, <1>2, <1>6, MovingCarries
<1>7. CASE Enter(h)
  <2> DEFINE t == [proc[h] EXCEPT !.at = "rmList", !.then = "destroyed"]
  <2>1. CASE Goto(h, "list")
    BY <1>5, <1>7, <2>1 DEF Enter
  <2>2. CASE proc' = [proc EXCEPT ![h].at = "rmList", ![h].then = "destroyed"]
    <3>1. proc' = [proc EXCEPT ![h] = t]
      BY <2>2 DEF LInv, TInv, TypeOK
    <3>2. t.at # "idle" /\ t.run = proc[h].run /\ t.waits = proc[h].waits
      BY <1>1 DEF Situations
    <3> HIDE DEF t
    <3> QED BY <1>6, <1>7, <3>1, <3>2 DEF Enter
  <2> QED BY <1>7, <2>1, <2>2 DEF Enter
<1>8. CASE Join(h)
  <2>1. ASSUME NEW g \in Handlers
        PROVE  proc'[g] = IF g = h THEN [proc[h] EXCEPT !.at = "join"]
                          ELSE proc[g]
    <3>1. g \in Procs /\ g # Cleaner
      BY HandlerFacts DEF LInv
    <3> QED BY <1>1, <1>8, <3>1 DEF Join, LInv, TInv, TypeOK
  <2>2. [proc[h] EXCEPT !.at = "join"].at # "idle"
        /\ [proc[h] EXCEPT !.at = "join"].run = proc[h].run
        /\ [proc[h] EXCEPT !.at = "join"].waits = proc[h].waits
    BY <1>1 DEF Situations
  <2> QED BY <1>2, <1>8, <2>1, <2>2 DEF Carries, Join
<1>9. CASE List(h)
  <2> DEFINE t == [proc[h] EXCEPT !.at = "inspect", !.seen = Of(Subject(h))]
  <2>1. CASE /\ proc' = [proc EXCEPT ![h].at = "inspect",
                                     ![h].seen = Of(Subject(h))]
             /\ UNCHANGED tail
    <3>1. proc' = [proc EXCEPT ![h] = t]
      BY <2>1 DEF LInv, TInv, TypeOK
    <3>2. t.at # "idle" /\ t.run = proc[h].run /\ t.waits = proc[h].waits
      BY <1>1 DEF Situations
    <3> HIDE DEF t
    <3> QED BY <1>6, <2>1, <3>1, <3>2
  <2> QED BY <1>3, <1>4, <1>5, <1>9, <2>1 DEF List
<1>10. CASE Inspect(h)
  <2> DEFINE t == [proc[h] EXCEPT !.at = "rmList", !.then = "create"]
  <2>1. CASE /\ proc' = [proc EXCEPT ![h].at = "rmList", ![h].then = "create"]
             /\ UNCHANGED tail
    <3>1. proc' = [proc EXCEPT ![h] = t]
      BY <2>1 DEF LInv, TInv, TypeOK
    <3>2. t.at # "idle" /\ t.run = proc[h].run /\ t.waits = proc[h].waits
      BY <1>1 DEF Situations
    <3> HIDE DEF t
    <3> QED BY <1>6, <2>1, <3>1, <3>2
  <2> QED BY <1>3, <1>4, <1>5, <1>10, <2>1 DEF Inspect
<1>11. CASE CreateNetwork(h)
  BY <1>3, <1>5, <1>11 DEF CreateNetwork
<1>12. CASE ConnectGateway(h)
  <2> DEFINE t == [proc[h] EXCEPT
                      !.at = IF Subject(h) \in BlueRuns THEN "volume"
                             ELSE "create",
                      !.left = CreateOrder(Subject(h))]
  <2>1. CASE /\ proc' = [proc EXCEPT
                    ![h].at = IF Subject(h) \in BlueRuns THEN "volume"
                              ELSE "create",
                    ![h].left = CreateOrder(Subject(h))]
             /\ UNCHANGED tail
    <3>1. proc' = [proc EXCEPT ![h] = t]
      BY <2>1 DEF LInv, TInv, TypeOK
    <3>2. t.at # "idle" /\ t.run = proc[h].run /\ t.waits = proc[h].waits
      BY <1>1 DEF Situations
    <3> HIDE DEF t
    <3> QED BY <1>6, <2>1, <3>1, <3>2
  <2> QED BY <1>3, <1>12, <2>1 DEF ConnectGateway
<1>13. CASE CreateVolume(h)
  BY <1>3, <1>5, <1>13 DEF CreateVolume
<1>14. CASE CreateContainer(h)
  <2> DEFINE left == Tail(proc[h].left)
             t == [proc[h] EXCEPT
                      !.at = IF left = <<>> THEN "start" ELSE @,
                      !.left = IF left = <<>> THEN StartOrder(Subject(h))
                               ELSE left]
  <2>1. CASE /\ proc' = [proc EXCEPT
                    ![h].at = IF left = <<>> THEN "start" ELSE @,
                    ![h].left = IF left = <<>> THEN StartOrder(Subject(h))
                                ELSE left]
             /\ UNCHANGED tail
    <3> HIDE DEF left
    <3>1. proc' = [proc EXCEPT ![h] = t]
      BY <2>1 DEF LInv, TInv, TypeOK
    <3>2. t.at # "idle" /\ t.run = proc[h].run /\ t.waits = proc[h].waits
      BY <1>1, <1>2 DEF Situations
    <3> HIDE DEF t
    <3> QED BY <1>6, <2>1, <3>1, <3>2
  <2> QED BY <1>3, <1>14, <2>1 DEF CreateContainer
<1>15. CASE StartContainer(h)
  <2> DEFINE left == Tail(proc[h].left)
             t == [proc[h] EXCEPT !.left = left]
  <2>1. CASE proc' = [proc EXCEPT ![h].left = left] /\ UNCHANGED tail
    <3> HIDE DEF left
    <3>1. proc' = [proc EXCEPT ![h] = t]
      BY <2>1 DEF LInv, TInv, TypeOK
    <3>2. t.at # "idle" /\ t.run = proc[h].run /\ t.waits = proc[h].waits
      BY <1>1, <1>2 DEF Situations
    <3> HIDE DEF t
    <3> QED BY <1>6, <2>1, <3>1, <3>2
  <2> QED BY <1>3, <1>4, <1>15, <2>1 DEF StartContainer
<1> QED BY <1>7, <1>8, <1>9, <1>10, <1>11, <1>12, <1>13, <1>14, <1>15

LEMMA RemovalIsEither ==
    ASSUME LInv, NEW p \in Procs, Removal(p)
    PROVE  Carries \/ Answers
<1>1. proc[p].at \in Removing /\ proc[p] \in Situations
  BY DEF Removal, RemoveList, RemoveContainers, DisconnectGateway,
         RemoveNetwork, RemoveVolume, At, Removing, LInv, TInv, TypeOK
<1>2. p # Cleaner => Inside(p)
  <2>1. ~At(p, "idle") /\ ~At(p, "queued")
    BY <1>1 DEF At, Removing
  <2> QED BY <2>1, PastTheQueue DEF Procs
<1>3. ASSUME GiveUp(p) PROVE Carries \/ Answers
  BY <1>2, <1>3, GivingUpIsEither
<1>4. ASSUME NEW place, Goto(p, place), place # "idle", UNCHANGED tail
      PROVE  Carries
  BY <1>2, <1>4, GoingOnCarries
<1>5. CASE RemoveList(p)
  <2> DEFINE place == IF Of(Subject(p)) = {} THEN "rmLeave"
                      ELSE "rmContainers"
             t == [proc[p] EXCEPT !.at = place, !.seen = Of(Subject(p))]
  <2>1. CASE /\ proc' = [proc EXCEPT
                    ![p].at = place, ![p].seen = Of(Subject(p))]
             /\ UNCHANGED tail
    <3>1. place # "idle"
      OBVIOUS
    <3> HIDE DEF place
    <3>2. proc' = [proc EXCEPT ![p] = t]
      BY <2>1 DEF LInv, TInv, TypeOK
    <3>3. t.at # "idle" /\ t.run = proc[p].run /\ t.waits = proc[p].waits
      BY <1>1, <3>1 DEF Situations
    <3> HIDE DEF t
    <3> QED BY <1>2, <2>1, <3>2, <3>3, MovingCarries
  <2> QED BY <1>3, <1>5, <2>1 DEF RemoveList
<1>6. CASE RemoveContainers(p)
  BY <1>3, <1>4, <1>6 DEF RemoveContainers
<1>7. CASE DisconnectGateway(p)
  BY <1>3, <1>4, <1>7 DEF DisconnectGateway
<1>8. CASE RemoveNetwork(p)
  BY <1>3, <1>4, <1>8 DEF RemoveNetwork
<1>9. CASE RemoveVolume(p)
  <2>1. CASE AfterRemoval(p)
    <3>1. \/ Goto(p, "next") /\ UNCHANGED tail
          \/ Settle(TRUE)
          \/ Goto(p, "network") /\ UNCHANGED tail
          \/ p # Cleaner /\ Leave({p})
      <4>1. CASE p = Cleaner
        BY <2>1, <4>1 DEF AfterRemoval
      <4>2. CASE p # Cleaner
        <5>1. proc[p].then \in {"answer", "create", "undone", "destroyed"}
          BY <1>1 DEF Situations
        <5> QED BY <2>1, <4>2, <5>1 DEF AfterRemoval
      <4> QED BY <4>1, <4>2
    <3>2. CASE p # Cleaner /\ Leave({p})
      BY <1>2, <3>2, LeavingAnswers DEF Procs
    <3> QED BY <1>4, <3>1, <3>2, SettlingIsEither
  <2> QED BY <1>3, <1>9, <2>1 DEF RemoveVolume
<1> QED BY <1>5, <1>6, <1>7, <1>8, <1>9 DEF Removal

LEMMA CleanUpIsEither ==
    ASSUME LInv, \/ ListAll \/ InspectAll \/ Timer
                 \/ \E r \in Runs : CleanRun(r)
    PROVE  Carries \/ Answers
<1>1. Cleaner \in Procs
  BY DEF Procs
<1>2. ASSUME GiveUp(Cleaner) \/ Settle(TRUE) PROVE Carries \/ Answers
  BY <1>1, <1>2, GivingUpIsEither, SettlingIsEither
<1>3. ASSUME UNCHANGED tail, \A h \in Handlers : proc'[h] = proc[h]
      PROVE  Carries
  BY <1>3 DEF Carries
<1>4. \A h \in Handlers : h # Cleaner /\ h \in Procs
  BY HandlerFacts DEF LInv
<1>5. CASE ListAll
  <2>1. CASE proc' = [proc EXCEPT ![Cleaner].at = "inspect",
                                  ![Cleaner].seen = containers]
             /\ UNCHANGED tail
    BY <1>3, <1>4, <2>1 DEF LInv, TInv, TypeOK
  <2> QED BY <1>2, <1>5, <2>1 DEF ListAll
<1>6. CASE InspectAll
  <2> DEFINE expired == {c[1] : c \in {d \in proc[Cleaner].seen :
                                          Label(d) \in overdue}}
  <2> HIDE DEF expired
  <2>1. CASE proc' = [proc EXCEPT ![Cleaner].at = "next",
                                  ![Cleaner].todo = expired]
             /\ UNCHANGED tail
    BY <1>3, <1>4, <2>1 DEF LInv, TInv, TypeOK
  <2> QED BY <1>2, <1>6, <2>1 DEF InspectAll, expired
<1>7. ASSUME NEW r \in Runs, CleanRun(r) PROVE Carries
  BY <1>3, <1>4, <1>7 DEF CleanRun, LInv, TInv, TypeOK
<1>8. CASE Timer
  BY <1>3, <1>4, <1>8 DEF Timer, LInv, TInv, TypeOK
<1> QED BY <1>5, <1>6, <1>7, <1>8

LEMMA NextLocked == LInv /\ [Next]_vars => LInv'
<1> SUFFICES ASSUME LInv, [Next]_vars PROVE LInv'
  OBVIOUS
<1>1. TInv'
  BY NextTyped DEF LInv
<1> SUFFICES Chained' /\ LockIsExclusive'
  BY <1>1 DEF LInv
<1>2. Cleaner \in Procs /\ Handlers \subseteq Procs
  BY DEF Procs
<1>3. ASSUME Carries \/ Answers PROVE Chained' /\ LockIsExclusive'
  BY <1>3, CarryingKeepsLock, AnsweringKeepsLock
<1>4. ASSUME NEW h \in Handlers, Request(h) PROVE Carries \/ Answers
  BY <1>2, <1>4, RequestIsEither, RemovalIsEither DEF Request
<1>5. ASSUME NEW h \in Handlers, NEW r \in Runs,
             NEW op \in {"provision", "get", "destroy"}, Call(h, op, r)
      PROVE  Chained' /\ LockIsExclusive'
  BY <1>5, CallingKeepsLock
<1>6. CASE CleanUp \/ Timer
  BY <1>2, <1>3, <1>6, CleanUpIsEither, RemovalIsEither DEF CleanUp
<1>7. CASE Crash
  BY <1>7, CrashKeepsLock
<1>8. CASE (\E c \in containers : Lapse(c) \/ Stop(c)) \/ UNCHANGED vars
  <2>1. UNCHANGED <<proc, tail>>
    BY <1>8 DEF Lapse, Stop, vars
  <2>2. Carries
    BY <2>1 DEF Carries
  <2> QED BY <1>3, <2>2
<1> QED BY <1>3, <1>4, <1>5, <1>6, <1>7, <1>8 DEF Next

LEMMA InitLocked == Init => LInv
<1> SUFFICES ASSUME Init PROVE LInv
  OBVIOUS
<1>1. TInv
  BY InitTyped
<1>2. \A h \in Handlers : proc[h] = Idle
  BY DEF Init, Procs
<1>3. \A h \in Handlers : ~Busy(h) /\ proc[h].waits = NoProc
  BY <1>2 DEF Busy, At, Idle
<1>4. \A r \in Runs : tail[r] = NoProc
  BY DEF Init
<1> QED BY <1>1, <1>3, <1>4 DEF LInv, Chained, LockIsExclusive, Inside

\* withRunLock works, however many requests there are and whatever fails.
THEOREM LockExcludes == Spec => []LockIsExclusive
<1>1. LInv => LockIsExclusive
  BY DEF LInv
<1> QED BY <1>1, InitLocked, NextLocked, PTL DEF Spec

-----------------------------------------------------------------------------
(* What is left of a run whose destroy was answered.                       *)

Gone(r) ==
    told[r] = "gone" => /\ r \notin networks \cup joined \cup volumes
                        /\ Of(r) = {} \/ r \in loose

\* What a request that has the lock of its run may rely on: the removals it
\* has got through stay done, and it creates nothing for a caller who was told
\* that the run is gone.
Careful(h) ==
    LET r == Subject(h)
        place == proc[h].at
    IN /\ \/ place \in Making
          \/ place \in Removing /\ proc[h].then \in {"create", "undone"}
          => told[r] # "gone"
       /\ place = "rmContainers" => Of(r) \subseteq proc[h].seen
       /\ place \in {"rmLeave", "rmNetwork", "rmVolume"} =>
             Of(r) = {} \/ r \in loose
       /\ place \in {"rmNetwork", "rmVolume"} => r \notin joined
       /\ place = "rmVolume" => r \notin networks

GInv == LInv /\ DestroyedIsGone /\ \A h \in Handlers : Inside(h) => Careful(h)

\* Nothing of r is made, and nobody is told anything better of it.
Shrinks(r) ==
    /\ Of(r)' \subseteq Of(r)
    /\ r \in networks' => r \in networks
    /\ r \in joined' => r \in joined
    /\ r \in volumes' => r \in volumes
    /\ r \in loose => r \in loose'
    /\ told'[r] = "gone" => told[r] = "gone"

\* What Careful says of a request that did not move.
Stays(g) == /\ proc'[g].at = proc[g].at /\ proc'[g].run = proc[g].run
            /\ proc'[g].then = proc[g].then /\ proc'[g].seen = proc[g].seen
            /\ proc'[g].left = proc[g].left /\ proc'[g].request = proc[g].request

LEMMA ShrinkingKeepsGone ==
    ASSUME NEW r \in Runs, Gone(r), Shrinks(r)
    PROVE  Gone(r)'
BY DEF Gone, Shrinks

LEMMA StayingIsCareful ==
    ASSUME NEW g \in Handlers, Careful(g), Stays(g), Shrinks(Subject(g))
    PROVE  Careful(g)'
BY DEF Careful, Stays, Shrinks, Subject

LEMMA WaitingIsCareful ==
    ASSUME NEW g \in Handlers,
           proc[g].at \in {"idle", "queued", "join", "list", "inspect"}
    PROVE  Careful(g)
BY DEF Careful, Making, Removing

\* A request that gives up undoes, or is answered.
LEMMA GivingUpIsCareful ==
    ASSUME GInv, NEW h \in Handlers, Inside(h), GiveUp(h),
           told'[Subject(h)] = told[Subject(h)]
    PROVE  Inside(h)' => Careful(h)'
<1>1. /\ h \in Procs /\ h # Cleaner /\ proc[h] \in Situations
  BY HandlerFacts DEF GInv, LInv
<1>2. CASE proc[h].at \in Making
  <2>1. proc'[h] = [proc[h] EXCEPT !.at = "rmList", !.then = "undone"]
    BY <1>1, <1>2 DEF GiveUp, GInv, LInv, TInv, TypeOK
  <2>2. proc'[h].at = "rmList" /\ Subject(h)' = Subject(h)
    BY <1>1, <2>1 DEF Situations, Subject
  <2>3. told[Subject(h)] # "gone"
    BY <1>2 DEF GInv, Careful
  <2> QED BY <2>2, <2>3 DEF Careful
<1>3. CASE proc[h].at \notin Making
  <2>1. proc'[h] = Idle
    BY <1>1, <1>3 DEF GiveUp, Leave
  <2> QED BY <2>1 DEF Inside, Busy, At, Idle
<1> QED BY <1>2, <1>3


\* A provision that creates: its caller was not told that the run is gone.
LEMMA MakingIsCareful ==
    ASSUME GInv, NEW h \in Handlers, NEW r \in Runs, r = Subject(h),
           \/ CreateNetwork(h) \/ ConnectGateway(h) \/ CreateVolume(h)
           \/ CreateContainer(h) \/ StartContainer(h)
    PROVE  (Inside(h)' => Careful(h)') /\ Gone(r)'
<1>1. /\ h \in Procs /\ h # Cleaner /\ proc[h] \in Situations
      /\ proc[h].at \in Making
  BY HandlerFacts
     DEF CreateNetwork, ConnectGateway, CreateVolume, CreateContainer,
         StartContainer, At, Making, GInv, LInv
<1>2. Inside(h)
  BY <1>1, PastTheQueue DEF At, Making, GInv
<1>3. told[r] # "gone"
  BY <1>1, <1>2 DEF GInv, Careful
<1>4. /\ told'[r] # "gone"
      /\ told'[r] = told[r] \/ Leave({h})
  BY <1>3
     DEF CreateNetwork, ConnectGateway, CreateVolume, CreateContainer,
         StartContainer, GInv, LInv, TInv, TypeOK
<1>5. Gone(r)'
  BY <1>4 DEF Gone
<1>6. CASE GiveUp(h)
  <2>1. CASE told'[r] = told[r]
    BY <1>2, <1>5, <1>6, <2>1, GivingUpIsCareful
  <2>2. CASE Leave({h})
    <3>1. proc'[h] = Idle
      BY <1>1, <2>2 DEF Leave
    <3> QED BY <1>5, <3>1 DEF Inside, Busy, At, Idle
  <2> QED BY <1>4, <2>1, <2>2
<1>7. CASE Leave({h})
  <2>1. proc'[h] = Idle
    BY <1>1, <1>7 DEF Leave
  <2> QED BY <1>5, <2>1 DEF Inside, Busy, At, Idle
<1>8. CASE ~GiveUp(h) /\ ~Leave({h})
  <2>1. proc'[h].at \in Making /\ proc'[h].run = proc[h].run
    <3>1. CASE CreateNetwork(h)
      BY <1>1, <1>8, <3>1
         DEF CreateNetwork, Goto, Making, Situations, GInv, LInv, TInv, TypeOK
    <3>2. CASE ConnectGateway(h)
      BY <1>1, <1>8, <3>2
         DEF ConnectGateway, Making, Situations, GInv, LInv, TInv, TypeOK
    <3>3. CASE CreateVolume(h)
      BY <1>1, <1>8, <3>3
         DEF CreateVolume, Goto, Making, Situations, GInv, LInv, TInv, TypeOK
    <3>4. CASE CreateContainer(h)
      BY <1>1, <1>8, <3>4
         DEF CreateContainer, Making, Situations, GInv, LInv, TInv, TypeOK
    <3>5. CASE StartContainer(h)
      BY <1>1, <1>8, <3>5
         DEF StartContainer, Making, Situations, GInv, LInv, TInv, TypeOK
    <3> QED BY <3>1, <3>2, <3>3, <3>4, <3>5
  <2>2. Subject(h)' = r
    BY <2>1 DEF Subject
  <2>3. Careful(h)'
    BY <1>4, <2>1, <2>2 DEF Careful, Making, Removing
  <2> QED BY <1>5, <2>3
<1> QED BY <1>6, <1>7, <1>8

\* A request that reads: it creates only after it told its caller so.
LEMMA ReadingIsCareful ==
    ASSUME GInv, NEW h \in Handlers, NEW r \in Runs, r = Subject(h),
           Enter(h) \/ Join(h) \/ List(h) \/ Inspect(h)
    PROVE  (Inside(h)' => Careful(h)') /\ Gone(r)'
<1>1. /\ h \in Procs /\ h # Cleaner /\ Cleaner \in Procs
      /\ proc[h] \in Situations /\ FitsHandler(proc[h])
      /\ proc[h].at \in {"queued", "list", "inspect"}
  BY HandlerFacts
     DEF Enter, Join, List, Inspect, At, Procs, GInv, LInv
<1>2. Inside(h)
  BY <1>1, PastTheQueue DEF Enter, Join, List, Inspect, At, GInv
<1>3. Gone(r)'
  <2>1. Gone(r)
    BY DEF GInv, DestroyedIsGone, Gone
  <2>2. Shrinks(r)
    <3>1. loose \subseteq loose'
      BY DEF Enter, Join, List, Inspect, GiveUp, StayLoose
    <3>2. told'[r] = "gone" => told[r] = "gone"
      BY DEF Enter, Join, List, Inspect, GInv, LInv, TInv, TypeOK
    <3> QED BY <3>1, <3>2
            DEF Shrinks, Of, Enter, Join, List, Inspect, daemon
  <2> QED BY <2>1, <2>2, ShrinkingKeepsGone
<1>4. CASE Leave({h})
  <2>1. proc'[h] = Idle
    BY <1>1, <1>4 DEF Leave
  <2> QED BY <1>3, <2>1 DEF Inside, Busy, At, Idle
<1>5. CASE GiveUp(h)
  <2>1. Leave({h})
    BY <1>1, <1>5 DEF GiveUp, Making
  <2> QED BY <1>4, <2>1
<1>6. CASE Enter(h) \/ Join(h)
  <2>1. CASE proc'[h].at \in {"list", "join"}
    BY <1>3, <2>1, WaitingIsCareful DEF Careful, Making, Removing
  <2>2. CASE proc'[h].at = "rmList" /\ proc'[h].then = "destroyed"
    BY <1>3, <2>2 DEF Careful, Making
  <2>3. CASE Enter(h)
    BY <1>1, <2>1, <2>2, <2>3
       DEF Enter, Goto, Situations, GInv, LInv, TInv, TypeOK
  <2>4. CASE Join(h)
    BY <1>1, <2>1, <2>4 DEF Join, Situations, GInv, LInv, TInv, TypeOK
  <2> QED BY <1>6, <2>3, <2>4
<1>7. CASE List(h) /\ ~Leave({h}) /\ ~GiveUp(h)
  <2>1. CASE proc'[h].at = "inspect"
    BY <1>3, <2>1 DEF Careful, Making, Removing
  <2>2. CASE proc'[h].at = "network" /\ Subject(h)' = r
             /\ told'[r] = "nothing"
    BY <1>3, <2>2 DEF Careful, Removing
  <2> QED BY <1>1, <1>7, <2>1, <2>2
          DEF List, Goto, Situations, Subject, GInv, LInv, TInv, TypeOK
<1>8. CASE Inspect(h) /\ ~Leave({h}) /\ ~GiveUp(h)
  <2>1. CASE /\ proc'[h].at = "rmList"
             /\ proc'[h].then = proc[h].then /\ proc[h].op = "get"
    <3>1. proc'[h].then \notin {"create", "undone"}
      BY <1>1, <2>1 DEF FitsHandler
    <3> QED BY <1>3, <2>1, <3>1 DEF Careful, Making
  <2>2. CASE proc'[h].at = "rmList" /\ Subject(h)' = r
             /\ told'[r] = "nothing"
    BY <1>3, <2>2 DEF Careful, Making
  <2>3. \/ proc[h].op = "get" /\ Goto(h, "rmList")
        \/ /\ proc' = [proc EXCEPT ![h].at = "rmList", ![h].then = "create"]
           /\ told' = [told EXCEPT ![r] = "nothing"]
    BY <1>8 DEF Inspect
  <2> QED BY <1>1, <2>1, <2>2, <2>3
          DEF Goto, Situations, Subject, GInv, LInv, TInv, TypeOK
<1> QED BY <1>4, <1>5, <1>6, <1>7, <1>8

\* A request that removes, one command after the other.
LEMMA RemovingIsCareful ==
    ASSUME GInv, NEW h \in Handlers, NEW r \in Runs, r = Subject(h),
           Removal(h)
    PROVE  (Inside(h)' => Careful(h)') /\ Gone(r)'
<1>1. /\ h \in Procs /\ h # Cleaner /\ proc[h] \in Situations
      /\ proc[h].at \in Removing
  BY HandlerFacts
     DEF Removal, RemoveList, RemoveContainers, DisconnectGateway,
         RemoveNetwork, RemoveVolume, At, Removing, GInv, LInv
<1>2. Inside(h) /\ Careful(h)
  <2>1. ~At(h, "idle") /\ ~At(h, "queued")
    BY <1>1 DEF At, Removing
  <2> QED BY <2>1, PastTheQueue DEF GInv
<1>3. Gone(r)
  BY DEF GInv, DestroyedIsGone, Gone
<1>4. ASSUME GiveUp(h), UNCHANGED told PROVE Inside(h)' => Careful(h)'
  BY <1>2, <1>4, GivingUpIsCareful
<1>5. ASSUME NEW place, Goto(h, place)
      PROVE  /\ proc'[h].at = place /\ proc'[h].then = proc[h].then
             /\ Subject(h)' = r
  BY <1>1, <1>5 DEF Goto, Subject, Situations, GInv, LInv, TInv, TypeOK
<1>6. CASE RemoveList(h)
  <2>1. Shrinks(r) /\ UNCHANGED told
    BY <1>6 DEF Shrinks, Of, RemoveList, daemon, GiveUp, StayLoose
  <2>2. ASSUME ~GiveUp(h)
        PROVE  /\ proc'[h].at = IF Of(r) = {} THEN "rmLeave" ELSE "rmContainers"
               /\ proc'[h].seen = Of(r) /\ proc'[h].then = proc[h].then
               /\ Subject(h)' = r
    BY <1>1, <1>6, <2>2
       DEF RemoveList, Subject, Situations, GInv, LInv, TInv, TypeOK
  <2>3. Of(r)' = Of(r)
    BY <1>6 DEF RemoveList, daemon, Of
  <2>4. ASSUME ~GiveUp(h) PROVE Careful(h)'
    BY <1>1, <1>2, <2>1, <2>2, <2>3, <2>4 DEF Careful, Making, Removing
  <2> QED BY <1>3, <1>4, <2>1, <2>4, ShrinkingKeepsGone
<1>7. CASE RemoveContainers(h)
  <2>1. Shrinks(r) /\ UNCHANGED told
    BY <1>7 DEF Shrinks, Of, RemoveContainers, GiveUp, StayLoose
  <2>2. CASE Goto(h, "rmLeave")
    <3>1. Of(r)' = {} \/ r \in loose'
      <4>1. \/ /\ containers' = containers \ proc[h].seen
            \/ StayLoose(h)
            \/ GiveUp(h)
        BY <1>7 DEF RemoveContainers
      <4>2. CASE containers' = containers \ proc[h].seen
        <5>1. proc[h].at = "rmContainers"
          BY <1>7 DEF RemoveContainers, At
        <5>2. Of(r) \subseteq proc[h].seen
          BY <1>2, <5>1 DEF Careful
        <5> QED BY <4>2, <5>2 DEF Of
      <4>3. CASE StayLoose(h)
        BY <1>1, <4>3 DEF StayLoose
      <4> QED BY <4>1, <4>2, <4>3 DEF GiveUp
    <3>2. Careful(h)'
      BY <1>1, <1>2, <1>5, <2>1, <2>2, <3>1 DEF Careful, Making, Removing
    <3> QED BY <1>3, <2>1, <3>2, ShrinkingKeepsGone
  <2>3. CASE GiveUp(h)
    BY <1>3, <1>4, <2>1, <2>3, ShrinkingKeepsGone
  <2> QED BY <1>7, <2>2, <2>3 DEF RemoveContainers
<1>8. CASE DisconnectGateway(h)
  <2>1. Shrinks(r) /\ UNCHANGED told
    BY <1>8 DEF Shrinks, Of, DisconnectGateway, GiveUp, StayLoose
  <2>2. CASE Goto(h, "rmNetwork") /\ joined' = joined \ {r}
    <3>1. proc[h].at = "rmLeave"
      BY <1>8 DEF DisconnectGateway, At
    <3>2. Careful(h)'
      BY <1>1, <1>2, <1>5, <2>1, <2>2, <3>1
         DEF Careful, Making, Removing, Shrinks
    <3> QED BY <1>3, <2>1, <3>2, ShrinkingKeepsGone
  <2>3. CASE GiveUp(h)
    BY <1>3, <1>4, <2>1, <2>3, ShrinkingKeepsGone
  <2> QED BY <1>8, <2>2, <2>3 DEF DisconnectGateway
<1>9. CASE RemoveNetwork(h)
  <2>1. Shrinks(r) /\ UNCHANGED told
    BY <1>9 DEF Shrinks, Of, RemoveNetwork, GiveUp, StayLoose
  <2>2. CASE Goto(h, "rmVolume") /\ networks' = networks \ {r}
    <3>1. proc[h].at = "rmNetwork"
      BY <1>9 DEF RemoveNetwork, At
    <3>2. Careful(h)'
      BY <1>1, <1>2, <1>5, <2>1, <2>2, <3>1
         DEF Careful, Making, Removing, Shrinks
    <3> QED BY <1>3, <2>1, <3>2, ShrinkingKeepsGone
  <2>3. CASE GiveUp(h)
    BY <1>3, <1>4, <2>1, <2>3, ShrinkingKeepsGone
  <2> QED BY <1>9, <2>2, <2>3 DEF RemoveNetwork
<1>10. CASE RemoveVolume(h)
  <2>1. proc[h].at = "rmVolume"
    BY <1>10 DEF RemoveVolume, At
  <2>2. /\ Of(r) = {} \/ r \in loose
        /\ r \notin joined \cup networks
    BY <1>2, <2>1 DEF Careful
  <2>3. CASE GiveUp(h) /\ UNCHANGED told
    <3>1. Shrinks(r)
      BY <1>10, <2>3 DEF Shrinks, Of, RemoveVolume, GiveUp, StayLoose
    <3> QED BY <1>3, <1>4, <2>3, <3>1, ShrinkingKeepsGone
  <2>4. CASE AfterRemoval(h) /\ volumes' = volumes \ {r}
    <3>1. Of(r)' = Of(r) /\ UNCHANGED <<networks, joined>>
      BY <1>10 DEF RemoveVolume, Of
    <3>2. Of(r)' = {} \/ r \in loose'
      BY <1>1, <2>2, <2>4, <3>1 DEF AfterRemoval
    <3>3. r \notin networks' \cup joined' \cup volumes'
      BY <2>2, <2>4, <3>1
    <3>4. Gone(r)'
      BY <3>2, <3>3 DEF Gone
    <3>5. \/ /\ proc[h].then = "create" /\ Goto(h, "network")
             /\ told' = told
          \/ Leave({h})
      <4>1. proc[h].then \in {"answer", "create", "undone", "destroyed"}
        BY <1>1 DEF Situations
      <4> QED BY <1>1, <2>4, <4>1 DEF AfterRemoval
    <3>6. CASE Leave({h})
      <4>1. proc'[h] = Idle
        BY <1>1, <3>6 DEF Leave
      <4> QED BY <3>4, <4>1 DEF Inside, Busy, At, Idle
    <3>7. CASE proc[h].then = "create" /\ Goto(h, "network") /\ told' = told
      <4>1. told[r] # "gone"
        BY <1>2, <2>1, <3>7 DEF Careful, Removing
      <4>2. Careful(h)'
        BY <1>5, <3>7, <4>1 DEF Careful, Removing
      <4> QED BY <3>4, <4>2
    <3> QED BY <3>5, <3>6, <3>7
  <2> QED BY <1>10, <2>3, <2>4 DEF RemoveVolume
<1> QED BY <1>1, <1>6, <1>7, <1>8, <1>9, <1>10 DEF Removal

\* Leave changes what nobody but the one answered relies on.
LEMMA LeavingSpares ==
    ASSUME GInv, NEW P \in SUBSET Procs, Leave(P),
           NEW g \in Handlers, g \notin P
    PROVE  Stays(g)
<1>1. g \in Procs /\ proc[g] \in Situations
  BY HandlerFacts DEF GInv, LInv
<1>2. proc'[g] \in {proc[g], [proc[g] EXCEPT !.waits = NoProc]}
  BY <1>1 DEF Leave
<1> QED BY <1>1, <1>2 DEF Stays, Situations

LEMMA GivingUpSpares ==
    ASSUME GInv, NEW h \in Handlers, GiveUp(h), NEW g \in Handlers \ {h}
    PROVE  Stays(g)
<1>1. h # Cleaner /\ {h} \in SUBSET Procs /\ g \in Procs
  BY HandlerFacts DEF GInv, LInv
<1>2. CASE Leave({h})
  BY <1>1, <1>2, LeavingSpares
<1>3. CASE ~Leave({h})
  <2>1. proc' = [proc EXCEPT ![h].at = "rmList", ![h].then = "undone"]
    BY <1>1, <1>3 DEF GiveUp
  <2> QED BY <1>1, <2>1 DEF Stays, GInv, LInv, TInv, TypeOK
<1> QED BY <1>2, <1>3

\* A request of one run leaves the others, and their requests, alone.
LEMMA RequestSpares ==
    ASSUME GInv, NEW h \in Handlers, Request(h)
    PROVE  /\ \A q \in Runs \ {Subject(h)} : Shrinks(q)
           /\ \A g \in Handlers \ {h} : Stays(g)
<1>1. h # Cleaner /\ {h} \in SUBSET Procs /\ h \in Procs
      /\ proc[h] \in Situations
  BY HandlerFacts DEF GInv, LInv
<1>2. ASSUME NEW q \in Runs \ {Subject(h)} PROVE Shrinks(q)
  <2>1. ASSUME containers' \subseteq containers
        PROVE  Of(q)' \subseteq Of(q)
    BY <2>1 DEF Of
  <2>2. ASSUME containers' \subseteq containers \cup {Made(h)}
        PROVE  Of(q)' \subseteq Of(q)
    <3>1. Made(h)[1] # q
      BY <1>2 DEF Made
    <3> QED BY <2>2, <3>1 DEF Of
  <2>3. \/ loose \subseteq loose'
        \/ loose' = loose \ {Subject(h)}
    BY <1>1
       DEF Request, Enter, Join, List, Inspect, CreateNetwork, ConnectGateway,
           CreateVolume, CreateContainer, StartContainer, Removal, RemoveList,
           RemoveContainers, DisconnectGateway, RemoveNetwork, RemoveVolume,
           GiveUp, StayLoose, AfterRemoval
  <2>4. told'[q] = told[q]
    BY <1>1, <1>2
       DEF Request, Enter, Join, List, Inspect, CreateNetwork, ConnectGateway,
           CreateVolume, CreateContainer, StartContainer, Removal, RemoveList,
           RemoveContainers, DisconnectGateway, RemoveNetwork, RemoveVolume,
           AfterRemoval, GInv, LInv, TInv, TypeOK
  <2>5. containers' \subseteq containers \cup {Made(h)}
    BY DEF Request, Enter, Join, List, Inspect, CreateNetwork, ConnectGateway,
           CreateVolume, CreateContainer, StartContainer, Removal, RemoveList,
           RemoveContainers, DisconnectGateway, RemoveNetwork, RemoveVolume,
           daemon
  <2>6. q \in networks' => q \in networks
    BY <1>2
       DEF Request, Enter, Join, List, Inspect, CreateNetwork, ConnectGateway,
           CreateVolume, CreateContainer, StartContainer, Removal, RemoveList,
           RemoveContainers, DisconnectGateway, RemoveNetwork, RemoveVolume,
           daemon
  <2>7. q \in joined' => q \in joined
    BY <1>2
       DEF Request, Enter, Join, List, Inspect, CreateNetwork, ConnectGateway,
           CreateVolume, CreateContainer, StartContainer, Removal, RemoveList,
           RemoveContainers, DisconnectGateway, RemoveNetwork, RemoveVolume,
           daemon
  <2>8. q \in volumes' => q \in volumes
    BY <1>2
       DEF Request, Enter, Join, List, Inspect, CreateNetwork, ConnectGateway,
           CreateVolume, CreateContainer, StartContainer, Removal, RemoveList,
           RemoveContainers, DisconnectGateway, RemoveNetwork, RemoveVolume,
           daemon
  <2> QED BY <1>2, <2>2, <2>3, <2>4, <2>5, <2>6, <2>7, <2>8 DEF Shrinks
<1>3. ASSUME NEW g \in Handlers \ {h} PROVE Stays(g)
  <2>1. g \in Procs /\ g # Cleaner
    BY HandlerFacts DEF GInv, LInv
  <2>2. ASSUME proc'[g] = proc[g] PROVE Stays(g)
    BY <2>2 DEF Stays
  <2>3. CASE GiveUp(h)
    BY <2>3, GivingUpSpares
  <2>4. CASE Leave({h})
    BY <1>1, <2>4, LeavingSpares
  <2>5. CASE ~GiveUp(h) /\ ~Leave({h})
    <3>1. proc'[g] = proc[g]
      <4>1. CASE \/ Enter(h) \/ Join(h) \/ List(h) \/ Inspect(h)
        BY <1>1, <2>1, <2>5, <4>1
           DEF Enter, Join, List, Inspect, Goto, GInv, LInv, TInv, TypeOK
      <4>2. CASE \/ CreateNetwork(h) \/ ConnectGateway(h) \/ CreateVolume(h)
                 \/ CreateContainer(h) \/ StartContainer(h)
        BY <1>1, <2>1, <2>5, <4>2
           DEF CreateNetwork, ConnectGateway, CreateVolume, CreateContainer,
               StartContainer, Goto, GInv, LInv, TInv, TypeOK
      <4>3. CASE Removal(h)
        <5>1. AfterRemoval(h) => \E place : Goto(h, place)
          <6>1. proc[h].then \in {"answer", "create", "undone", "destroyed"}
            BY <1>1 DEF Situations
          <6> QED BY <1>1, <2>5, <6>1 DEF AfterRemoval
        <5>2. \A place : Goto(h, place) => proc'[g] = proc[g]
          BY <2>1 DEF Goto, GInv, LInv, TInv, TypeOK
        <5>3. CASE RemoveList(h)
          BY <2>1, <2>5, <5>3
             DEF RemoveList, GInv, LInv, TInv, TypeOK
        <5>4. CASE \/ RemoveContainers(h) \/ DisconnectGateway(h)
                   \/ RemoveNetwork(h)
          BY <2>5, <5>2, <5>4
             DEF RemoveContainers, DisconnectGateway, RemoveNetwork
        <5>5. CASE RemoveVolume(h)
          BY <2>5, <5>1, <5>2, <5>5 DEF RemoveVolume
        <5> QED BY <4>3, <5>3, <5>4, <5>5 DEF Removal
      <4> QED BY <4>1, <4>2, <4>3 DEF Request
    <3> QED BY <2>2, <3>1
  <2> QED BY <2>3, <2>4, <2>5
<1> QED BY <1>2, <1>3

\* The clean-up makes nothing, and moves a request only if it has joined it.
Released(g) == proc[g].at = "join" /\ proc'[g].at \in {"idle", "list"}

LEMMA SettlingSpares ==
    ASSUME GInv, NEW ok \in BOOLEAN, Settle(ok), NEW g \in Handlers
    PROVE  Stays(g) \/ Released(g)
<1> DEFINE J == {h \in Handlers : At(h, "join")}
<1>1. g \in Procs /\ g # Cleaner /\ proc[g] \in Situations
  BY HandlerFacts DEF GInv, LInv
<1>2. CASE ~ok
  <2>1. Leave(J \cup {Cleaner}) /\ J \cup {Cleaner} \in SUBSET Procs
    BY <1>2 DEF Settle, Procs
  <2>2. g \in J => proc'[g] = Idle
    BY <1>1, <2>1 DEF Leave
  <2>3. g \notin J => Stays(g)
    BY <1>1, <2>1, LeavingSpares
  <2> QED BY <2>2, <2>3 DEF Idle, At, Released
<1>3. CASE ok
  <2>1. \/ proc'[g] = proc[g]
        \/ At(g, "join") /\ proc'[g] = [proc[g] EXCEPT !.at = "list"]
    BY <1>1, <1>3 DEF Settle
  <2> QED BY <1>1, <2>1 DEF Stays, Situations, At, Released
<1> QED BY <1>2, <1>3

LEMMA CleanUpSpares ==
    ASSUME GInv, CleanUp \/ Timer
    PROVE  /\ \A q \in Runs : Shrinks(q)
           /\ \A g \in Handlers : Stays(g) \/ Released(g)
<1>1. \A g \in Handlers : g \in Procs /\ g # Cleaner
  BY HandlerFacts DEF GInv, LInv
<1>2. \A q \in Runs : Shrinks(q)
  <2>1. containers' \subseteq containers /\ loose \subseteq loose'
    BY DEF CleanUp, Timer, ListAll, InspectAll, CleanRun, Removal, RemoveList,
           RemoveContainers, DisconnectGateway, RemoveNetwork, RemoveVolume,
           daemon, GiveUp, StayLoose, AfterRemoval
  <2>2. told' = told
    BY DEF CleanUp, Timer, ListAll, InspectAll, CleanRun, Removal, RemoveList,
           RemoveContainers, DisconnectGateway, RemoveNetwork, RemoveVolume,
           AfterRemoval
  <2>3. /\ networks' \subseteq networks /\ joined' \subseteq joined
        /\ volumes' \subseteq volumes
    BY DEF CleanUp, Timer, ListAll, InspectAll, CleanRun, Removal, RemoveList,
           RemoveContainers, DisconnectGateway, RemoveNetwork, RemoveVolume,
           daemon
  <2> QED BY <2>1, <2>2, <2>3 DEF Shrinks, Of
<1>3. ASSUME NEW g \in Handlers
      PROVE  Stays(g) \/ Released(g)
  <2>1. ASSUME proc'[g] = proc[g] PROVE Stays(g)
    BY <2>1 DEF Stays
  <2>2. CASE Settle(TRUE) \/ Settle(FALSE)
    BY <2>2, SettlingSpares
  <2>3. CASE ~Settle(TRUE) /\ ~Settle(FALSE)
    <3>1. ~GiveUp(Cleaner)
      BY <2>3 DEF GiveUp
    <3>2. AfterRemoval(Cleaner) => Goto(Cleaner, "next")
      BY <2>3 DEF AfterRemoval
    <3>3. \A place : Goto(Cleaner, place) => proc'[g] = proc[g]
      BY <1>1 DEF Goto, GInv, LInv, TInv, TypeOK
    <3>4. CASE Removal(Cleaner)
      BY <1>1, <2>1, <3>1, <3>2, <3>3, <3>4
         DEF Removal, RemoveList, RemoveContainers, DisconnectGateway,
             RemoveNetwork, RemoveVolume, GInv, LInv, TInv, TypeOK
    <3>5. CASE ListAll \/ InspectAll
      BY <1>1, <2>1, <2>3, <3>1, <3>5
         DEF ListAll, InspectAll, GInv, LInv, TInv, TypeOK
    <3>6. CASE Timer \/ \E r \in Runs : CleanRun(r)
      BY <1>1, <2>1, <3>6 DEF Timer, CleanRun, GInv, LInv, TInv, TypeOK
    <3> QED BY <3>4, <3>5, <3>6 DEF CleanUp
  <2> QED BY <2>2, <2>3
<1> QED BY <1>2, <1>3

\* A step that makes nothing keeps all promises.
LEMMA SparingKeepsPromises ==
    ASSUME GInv, LInv', \A q \in Runs : Shrinks(q),
           \A g \in Handlers :
              Stays(g) \/ proc'[g].at \in {"idle", "list", "queued"}
    PROVE  GInv'
<1>1. ASSUME NEW q \in Runs PROVE Gone(q)'
  BY ShrinkingKeepsGone DEF GInv, DestroyedIsGone, Gone
<1>2. ASSUME NEW g \in Handlers, Inside(g)' PROVE Careful(g)'
  <2>1. CASE proc'[g].at \in {"idle", "list", "queued"}
    BY <2>1 DEF Careful, Making, Removing
  <2>2. CASE Stays(g)
    <3>1. Busy(g) /\ Subject(g) \in Runs
      <4>1. Busy(g)
        BY <1>2, <2>2 DEF Inside, Busy, At, Stays
      <4> QED BY <4>1, HandlerFacts DEF Busy, GInv, LInv
    <3>2. CASE Inside(g)
      BY <2>2, <3>1, <3>2, StayingIsCareful DEF GInv
    <3>3. CASE ~Inside(g)
      <4>1. proc[g].at = "queued"
        BY <3>1, <3>3 DEF Inside, GInv, LInv, Chained, At
      <4> QED BY <2>2, <4>1 DEF Stays, Careful, Making, Removing
    <3> QED BY <3>2, <3>3
  <2> QED BY <2>1, <2>2
<1> QED BY <1>1, <1>2 DEF GInv, DestroyedIsGone, Gone

LEMMA RequestKeepsPromises ==
    ASSUME GInv, LInv', NEW h \in Handlers, Request(h)
    PROVE  GInv'
<1> DEFINE r == Subject(h)
<1>1. r \in Runs /\ Inside(h)
  <2>1. ~At(h, "idle") /\ (~At(h, "queued") \/ proc[h].waits = NoProc)
    BY DEF Request, Enter, Join, List, Inspect, CreateNetwork, ConnectGateway,
           CreateVolume, CreateContainer, StartContainer, Removal, RemoveList,
           RemoveContainers, DisconnectGateway, RemoveNetwork, RemoveVolume, At
  <2> QED BY <2>1, PastTheQueue, HandlerFacts DEF GInv, LInv
<1>2. (Inside(h)' => Careful(h)') /\ \A q \in {r} : Gone(q)'
  BY <1>1, MakingIsCareful, ReadingIsCareful, RemovingIsCareful DEF Request
<1>3. ASSUME NEW q \in Runs PROVE Gone(q)'
  <2>1. CASE q = r
    BY <1>2, <2>1
  <2>2. CASE q # r
    BY <2>2, RequestSpares, ShrinkingKeepsGone
       DEF GInv, DestroyedIsGone, Gone
  <2> QED BY <2>1, <2>2
<1>4. ASSUME NEW g \in Handlers \ {h}, Inside(g)' PROVE Careful(g)'
  <2>1. Stays(g)
    BY RequestSpares
  <2>2. Busy(g)
    BY <1>4, <2>1 DEF Inside, Busy, At, Stays
  <2>3. CASE Inside(g)
    <3>1. Subject(g) \in Runs \ {r}
      BY <1>1, <2>2, <2>3, HandlerFacts
         DEF Busy, GInv, LInv, LockIsExclusive
    <3> QED BY <2>1, <2>3, <3>1, RequestSpares, StayingIsCareful DEF GInv
  <2>4. CASE ~Inside(g)
    <3>1. proc[g].at = "queued"
      BY <2>2, <2>4 DEF Inside, GInv, LInv, Chained, At
    <3> QED BY <2>1, <3>1 DEF Stays, Careful, Making, Removing
  <2> QED BY <2>3, <2>4
<1> QED BY <1>2, <1>3, <1>4 DEF GInv, DestroyedIsGone, Gone

LEMMA NextKeepsPromises == GInv /\ [Next]_vars => GInv'
<1> SUFFICES ASSUME GInv, [Next]_vars PROVE GInv'
  OBVIOUS
<1>1. LInv'
  BY NextLocked DEF GInv
<1>2. ASSUME NEW h \in Handlers, Request(h) PROVE GInv'
  BY <1>1, <1>2, RequestKeepsPromises
<1>3. ASSUME UNCHANGED <<daemon, told>>, loose \subseteq loose'
      PROVE  \A q \in Runs : Shrinks(q)
  BY <1>3 DEF Shrinks, Of, daemon
<1>4. ASSUME NEW h \in Handlers, NEW q \in Runs,
             NEW op \in {"provision", "get", "destroy"}, Call(h, op, q)
      PROVE  GInv'
  <2>1. \A g \in Handlers :
           Stays(g) \/ proc'[g].at \in {"idle", "list", "queued"}
    <3> SUFFICES ASSUME NEW g \in Handlers
                 PROVE  Stays(g) \/ proc'[g].at = "queued"
      OBVIOUS
    <3>1. g \in Procs
      BY DEF Procs
    <3> QED BY <1>4, <3>1
            DEF Call, Stays, Idle, GInv, LInv, TInv, TypeOK
  <2>2. \A p \in Runs : Shrinks(p)
    BY <1>3, <1>4 DEF Call
  <2> QED BY <1>1, <2>1, <2>2, SparingKeepsPromises
<1>5. CASE CleanUp \/ Timer
  BY <1>1, <1>5, CleanUpSpares, SparingKeepsPromises DEF Released
<1>6. CASE (\E c \in containers : Lapse(c) \/ Stop(c)) \/ UNCHANGED vars
  <2>1. \A g \in Handlers : Stays(g)
    BY <1>6 DEF Lapse, Stop, Stays, vars
  <2>2. \A q \in Runs : Shrinks(q)
    BY <1>6 DEF Lapse, Stop, Shrinks, Of, vars, daemon
  <2> QED BY <1>1, <2>1, <2>2, SparingKeepsPromises
<1>7. CASE Crash
  <2>1. \A g \in Handlers : proc'[g].at = "idle"
    BY <1>7 DEF Crash, Idle, Procs
  <2>2. \A q \in Runs : Shrinks(q)
    BY <1>3, <1>7 DEF Crash
  <2> QED BY <1>1, <2>1, <2>2, SparingKeepsPromises
<1> QED BY <1>2, <1>4, <1>5, <1>6, <1>7 DEF Next

LEMMA InitKeepsPromises == Init => GInv
<1> SUFFICES ASSUME Init PROVE GInv
  OBVIOUS
<1>1. \A h \in Handlers : ~Inside(h)
  BY DEF Init, Procs, Inside, Busy, At, Idle
<1>2. DestroyedIsGone
  BY DEF Init, DestroyedIsGone
<1> QED BY <1>1, <1>2, InitLocked DEF GInv

\* A destroy that was answered has removed everything, and nothing comes back.
THEOREM DestroyIsComplete == Spec => []DestroyedIsGone
<1>1. GInv => DestroyedIsGone
  BY DEF GInv
<1> QED BY <1>1, InitKeepsPromises, NextKeepsPromises, PTL DEF Spec

-----------------------------------------------------------------------------
(* What is there of a run whose time is not over.                          *)

Roles(r) == {c[2] : c \in Of(r)}
Entries(s) == {s[i] : i \in 1..Len(s)}
Fresh(r) == \A n \in 1..MaxProvisions : <<r, n>> \notin overdue

\* Whose time is not over, the clean-up does not touch.
Selective ==
    /\ proc[Cleaner].at \in Removing => ~Fresh(Subject(Cleaner))
    /\ \A r \in proc[Cleaner].todo : ~Fresh(r)

\* Containers stand on a network, with the gateway and the volume, and all
\* were made by the same request.
Rooted(r) ==
    Of(r) # {} =>
        /\ r \in networks \cap joined
        /\ r \in BlueRuns => r \in volumes
        /\ \A c, d \in Of(r) : c[3] = d[3]

Complete(r) == told[r] = "given" => Roles(r) = Required(r)

\* What a request that has the lock of its run may rely on, as long as the
\* clean-up keeps away: what it read is there, what it made stays, what it
\* removed does not come back, and nobody was told that the run is there.
Able(h) ==
    LET r == Subject(h)
        place == proc[h].at
    IN /\ place \in Making \cup Removing => told[r] # "given"
       /\ place \in {"inspect", "rmContainers"} => proc[h].seen = Of(r)
       /\ place \in {"rmLeave", "rmNetwork", "rmVolume",
                     "network", "connect", "volume"} => Of(r) = {}
       /\ place \in {"connect", "volume", "create", "start"} => r \in networks
       /\ place \in {"volume", "create", "start"} => r \in joined
       /\ place \in {"create", "start"} =>
             /\ r \in BlueRuns => r \in volumes
             /\ \A c \in Of(r) : c[3] = proc[h].request
       /\ place \in {"volume", "create"} =>
             Roles(r) \cup Entries(proc[h].left) = Required(r)
       /\ place = "start" => Roles(r) = Required(r)

Sound(r) ==
    Fresh(r) =>
        /\ Rooted(r) /\ Complete(r)
        /\ \A h \in Handlers : Subject(h) = r => Able(h)

WInv == GInv /\ Selective /\ \A r \in Runs : Sound(r)

\* Nothing of r is made, removed or said.
Untouched(r) ==
    /\ Of(r)' = Of(r)
    /\ r \in networks' <=> r \in networks
    /\ r \in joined' <=> r \in joined
    /\ r \in volumes' <=> r \in volumes
    /\ told'[r] = told[r]
    /\ Fresh(r)' => Fresh(r)

Resting == {"idle", "queued", "join", "list"}

LEMMA RestingIsAble ==
    ASSUME NEW g \in Handlers, proc[g].at \in Resting
    PROVE  Able(g)
BY DEF Able, Resting, Making, Removing

LEMMA StayingIsAble ==
    ASSUME NEW g \in Handlers, Able(g), Stays(g), Untouched(Subject(g))
    PROVE  Able(g)'
BY DEF Able, Stays, Untouched, Subject, Roles

LEMMA RestingIsAbleNext ==
    ASSUME NEW g \in Handlers, proc'[g].at \in Resting
    PROVE  Able(g)'
BY DEF Able, Resting, Making, Removing

\* A run that nobody touches stays sound.
LEMMA UntouchedIsSound ==
    ASSUME NEW r \in Runs, Sound(r), Untouched(r),
           \A g \in Handlers : Stays(g) \/ proc'[g].at \in Resting
    PROVE  Sound(r)'
<1> SUFFICES ASSUME Fresh(r)'
             PROVE  /\ Rooted(r)' /\ Complete(r)'
                    /\ \A h \in Handlers : Subject(h)' = r => Able(h)'
  BY DEF Sound
<1>1. Fresh(r) /\ Rooted(r) /\ Complete(r)
  BY DEF Untouched, Sound
<1>2. Rooted(r)' /\ Complete(r)'
  BY <1>1 DEF Rooted, Complete, Untouched, Roles
<1>3. ASSUME NEW h \in Handlers, Subject(h)' = r PROVE Able(h)'
  <2>1. CASE proc'[h].at \in Resting
    BY <2>1, RestingIsAbleNext
  <2>2. CASE Stays(h)
    <3>1. Subject(h) = r /\ Able(h)
      BY <1>1, <1>3, <2>2 DEF Stays, Subject, Sound
    <3> QED BY <2>2, <3>1, StayingIsAble
  <2> QED BY <2>1, <2>2
<1> QED BY <1>2, <1>3

\* A removal concerns the run of the process alone.
LEMMA RemovalIsLocal ==
    ASSUME GInv, NEW p \in Procs, Removal(p), NEW q \in Runs, q # Subject(p)
    PROVE  Untouched(q)
<1>1. proc[p] \in Situations /\ Fits(p, proc[p])
  BY DEF GInv, LInv, TInv, TypeOK, Placed
<1>2. Fresh(q)' = Fresh(q)
  BY DEF Fresh, Removal, RemoveList, RemoveContainers, DisconnectGateway,
         RemoveNetwork, RemoveVolume
<1>3. Of(q)' = Of(q)
  <2>1. CASE RemoveContainers(p)
    <3>1. \A c \in proc[p].seen : c[1] = Subject(p)
      BY <1>1, <2>1
         DEF RemoveContainers, At, Fits, FitsHandler, FitsCleaner, Subject
    <3>2. PICK gone \in SUBSET proc[p].seen : containers' = containers \ gone
      BY <2>1 DEF RemoveContainers
    <3> QED BY <3>1, <3>2 DEF Of
  <2>2. CASE ~RemoveContainers(p)
    BY <2>2 DEF Of, Removal, RemoveList, DisconnectGateway, RemoveNetwork,
                RemoveVolume, daemon
  <2> QED BY <2>1, <2>2
<1>4. told'[q] = told[q]
  BY DEF Removal, RemoveList, RemoveContainers, DisconnectGateway,
         RemoveNetwork, RemoveVolume, AfterRemoval, GInv, LInv, TInv, TypeOK
<1>5. /\ q \in networks' <=> q \in networks
      /\ q \in joined' <=> q \in joined
      /\ q \in volumes' <=> q \in volumes
  BY DEF Removal, RemoveList, RemoveContainers, DisconnectGateway,
         RemoveNetwork, RemoveVolume, daemon
<1> QED BY <1>2, <1>3, <1>4, <1>5 DEF Untouched

LEMMA RequestIsLocal ==
    ASSUME GInv, NEW h \in Handlers, Request(h),
           NEW q \in Runs, q # Subject(h)
    PROVE  Untouched(q)
<1>1. h \in Procs
  BY DEF Procs
<1>2. CASE Removal(h)
  BY <1>1, <1>2, RemovalIsLocal
<1>3. CASE \/ Enter(h) \/ Join(h) \/ List(h) \/ Inspect(h)
           \/ CreateNetwork(h) \/ ConnectGateway(h) \/ CreateVolume(h)
           \/ CreateContainer(h) \/ StartContainer(h)
  <2>1. Fresh(q)' = Fresh(q)
    BY <1>3 DEF Fresh, Enter, Join, List, Inspect, CreateNetwork,
                ConnectGateway, CreateVolume, CreateContainer, StartContainer
  <2>2. Of(q)' = Of(q)
    <3>1. containers' \in {containers, containers \cup {Made(h)}}
      BY <1>3 DEF Enter, Join, List, Inspect, CreateNetwork, ConnectGateway,
                  CreateVolume, CreateContainer, StartContainer, daemon
    <3>2. Made(h)[1] # q
      BY DEF Made
    <3> QED BY <3>1, <3>2 DEF Of
  <2>3. told'[q] = told[q]
    <3>1. \/ told' = told
          \/ told' = [told EXCEPT ![Subject(h)] = "nothing"]
          \/ told' = [told EXCEPT ![Subject(h)] = "given"]
      <4>1. CASE Enter(h) \/ List(h) \/ Join(h)
        BY <4>1 DEF Enter, List, Join
      <4>2. CASE Inspect(h)
        BY <4>2 DEF Inspect
      <4>3. CASE CreateNetwork(h) \/ ConnectGateway(h) \/ CreateVolume(h)
                 \/ CreateContainer(h)
        BY <4>3 DEF CreateNetwork, ConnectGateway, CreateVolume,
                    CreateContainer
      <4>4. CASE StartContainer(h)
        BY <4>4 DEF StartContainer
      <4> QED BY <1>3, <4>1, <4>2, <4>3, <4>4
    <3> QED BY <3>1 DEF GInv, LInv, TInv, TypeOK
  <2>4. /\ q \in networks' <=> q \in networks
        /\ q \in joined' <=> q \in joined
        /\ q \in volumes' <=> q \in volumes
    <3>1. CASE Enter(h) \/ Join(h) \/ List(h) \/ Inspect(h)
      BY <3>1 DEF Enter, Join, List, Inspect, daemon
    <3>2. CASE CreateNetwork(h) \/ ConnectGateway(h) \/ CreateVolume(h)
      BY <3>2 DEF CreateNetwork, ConnectGateway, CreateVolume
    <3>3. CASE CreateContainer(h)
      <4>1. volumes' \in {volumes, volumes \cup {Subject(h)}}
        BY <3>3 DEF CreateContainer
      <4> QED BY <3>3, <4>1 DEF CreateContainer
    <3>4. CASE StartContainer(h)
      BY <3>4 DEF StartContainer
    <3> QED BY <1>3, <3>1, <3>2, <3>3, <3>4
  <2> QED BY <2>1, <2>2, <2>3, <2>4 DEF Untouched
<1> QED BY <1>2, <1>3 DEF Request

\* One request moves, about a run that is sound.
Begins(h, r) ==
    /\ r = Subject(h) /\ r \in Runs
    /\ Fresh(r) /\ Rooted(r) /\ Complete(r) /\ Able(h)

Ends(h, r) == Rooted(r)' /\ Complete(r)' /\ Able(h)'

\* A request that is answered leaves what it found.
LEMMA LeavingEnds ==
    ASSUME GInv, NEW h \in Handlers, NEW r \in Runs, Leave({h})
    PROVE  Able(h)'
<1>1. proc'[h].at = "idle"
  BY HandlerFacts DEF Leave, Idle, GInv, LInv
<1> QED BY <1>1, RestingIsAbleNext DEF Resting

\* A request that gives up removes what it made, or is answered.
LEMMA GivingUpEnds ==
    ASSUME GInv, NEW h \in Handlers, NEW r \in Runs, Begins(h, r), GiveUp(h),
           told'[r] = told[r]
    PROVE  Able(h)'
<1>1. h \in Procs /\ h # Cleaner /\ proc[h] \in Situations
  BY HandlerFacts DEF GInv, LInv
<1>2. CASE Leave({h})
  BY <1>2, LeavingEnds
<1>3. CASE ~Leave({h})
  <2>1. /\ proc[h].at \in Making
        /\ proc'[h] = [proc[h] EXCEPT !.at = "rmList", !.then = "undone"]
    BY <1>1, <1>3 DEF GiveUp, GInv, LInv, TInv, TypeOK
  <2>2. proc'[h].at = "rmList" /\ Subject(h)' = r
    BY <1>1, <2>1 DEF Situations, Subject, Begins
  <2>3. told'[r] # "given"
    BY <2>1 DEF Begins, Able
  <2> QED BY <2>2, <2>3 DEF Able
<1> QED BY <1>2, <1>3

\* What an unexpired run reads: one label, which is not overdue.
LEMMA FreshIsNotExpired ==
    ASSUME GInv, NEW r \in Runs, Fresh(r), Rooted(r)
    PROVE  ~Expired(Of(r))
<1>1. \A c \in Of(r) : c[1] = r /\ c[3] \in 1..MaxProvisions
  BY DEF Of, Containers, GInv, LInv, TInv, TypeOK
<1>2. \A c \in Of(r) : Label(c) = <<r, c[3]>> /\ Label(c) \notin overdue
  BY <1>1 DEF Label, Fresh
<1>3. \A c, d \in Of(r) : Label(c) = Label(d)
  BY <1>1, <1>2 DEF Rooted
<1> QED BY <1>2, <1>3 DEF Expired

LEMMA ReadingEnds ==
    ASSUME GInv, NEW h \in Handlers, NEW r \in Runs, Begins(h, r),
           Enter(h) \/ Join(h) \/ List(h) \/ Inspect(h)
    PROVE  Ends(h, r)
<1>1. /\ h \in Procs /\ h # Cleaner /\ Cleaner \in Procs
      /\ proc[h] \in Situations
  BY HandlerFacts DEF Procs, GInv, LInv
<1>2. UNCHANGED <<containers, networks, joined, volumes>> /\ Of(r)' = Of(r)
  BY DEF Enter, Join, List, Inspect, daemon, Of
<1>3. Rooted(r)'
  BY <1>2 DEF Begins, Rooted
<1>4. Roles(r)' = Roles(r)
  BY <1>2 DEF Roles
<1>5. ASSUME UNCHANGED told \/ told' = [told EXCEPT ![r] = "nothing"]
      PROVE  Complete(r)'
  BY <1>4, <1>5 DEF Begins, Complete, GInv, LInv, TInv, TypeOK
<1>6. CASE Enter(h)
  <2>1. Complete(r)'
    BY <1>5, <1>6 DEF Enter, Begins
  <2>2. \/ proc'[h].at = "list"
        \/ proc'[h].at = "rmList" /\ Subject(h)' = r /\ told'[r] = "nothing"
    BY <1>1, <1>6
       DEF Enter, Goto, Subject, Begins, Situations, GInv, LInv, TInv, TypeOK
  <2>3. Able(h)'
    BY <2>2, RestingIsAbleNext DEF Resting, Able
  <2> QED BY <1>3, <2>1, <2>3 DEF Ends
<1>7. CASE Join(h)
  <2>1. proc'[h].at = "join"
    BY <1>1, <1>7 DEF Join, Situations, GInv, LInv, TInv, TypeOK
  <2>2. Complete(r)'
    BY <1>5, <1>7 DEF Join
  <2> QED BY <1>3, <2>1, <2>2, RestingIsAbleNext DEF Resting, Ends
<1>8. CASE List(h)
  <2>1. Complete(r)'
    BY <1>5, <1>8 DEF List, Begins
  <2>2. CASE Leave({h})
    BY <1>3, <2>1, <2>2, LeavingEnds DEF Ends
  <2>3. CASE GiveUp(h) /\ UNCHANGED told
    BY <1>3, <2>1, <2>3, GivingUpEnds DEF Ends
  <2>4. CASE /\ proc' = [proc EXCEPT ![h].at = "inspect", ![h].seen = Of(r)]
    <3>1. proc'[h].at = "inspect" /\ proc'[h].seen = Of(r) /\ Subject(h)' = r
      BY <1>1, <2>4 DEF Subject, Begins, Situations, GInv, LInv, TInv, TypeOK
    <3>2. Able(h)'
      BY <1>2, <3>1 DEF Able, Making, Removing
    <3> QED BY <1>3, <2>1, <3>2 DEF Ends
  <2>5. CASE /\ Of(r) = {} /\ Goto(h, "network")
             /\ told' = [told EXCEPT ![r] = "nothing"]
    <3>1. /\ proc'[h].at = "network" /\ Subject(h)' = r
          /\ told'[r] = "nothing"
      BY <1>1, <2>5
         DEF Goto, Subject, Begins, Situations, GInv, LInv, TInv, TypeOK
    <3>2. Able(h)'
      BY <1>2, <2>5, <3>1 DEF Able
    <3> QED BY <1>3, <2>1, <3>2 DEF Ends
  <2> QED BY <1>8, <2>2, <2>3, <2>4, <2>5 DEF List, Begins
<1>9. CASE Inspect(h)
  <2>1. proc[h].seen = Of(r)
    BY <1>9 DEF Inspect, At, Begins, Able
  <2>2. ~Expired(proc[h].seen)
    BY <2>1, FreshIsNotExpired DEF Begins
  <2>3. CASE GiveUp(h) /\ UNCHANGED told
    BY <1>3, <1>5, <2>3, GivingUpEnds DEF Ends
  <2>4. CASE Leave({h}) /\ UNCHANGED told
    BY <1>3, <1>5, <2>4, LeavingEnds DEF Ends
  <2>5. CASE /\ proc' = [proc EXCEPT ![h].at = "rmList", ![h].then = "create"]
             /\ told' = [told EXCEPT ![r] = "nothing"]
    <3>1. /\ proc'[h].at = "rmList" /\ Subject(h)' = r
          /\ told'[r] = "nothing"
      BY <1>1, <2>5 DEF Subject, Begins, Situations, GInv, LInv, TInv, TypeOK
    <3>2. Able(h)'
      BY <3>1 DEF Able
    <3> QED BY <1>3, <1>5, <2>5, <3>2 DEF Ends
  <2>6. CASE /\ Leave({h}) /\ told' = [told EXCEPT ![r] = "given"]
             /\ \E unhealthy \in BOOLEAN : ~Failed(r, proc[h].seen, unhealthy)
    <3>1. Roles(r) = Required(r)
      BY <2>1, <2>6 DEF Failed, Roles
    <3>2. Complete(r)'
      BY <1>4, <3>1 DEF Complete, Required
    <3> QED BY <1>3, <2>6, <3>2, LeavingEnds DEF Ends
  <2> QED BY <1>9, <2>2, <2>3, <2>4, <2>5, <2>6 DEF Inspect, Begins
<1> QED BY <1>6, <1>7, <1>8, <1>9

LEMMA EntriesOfTail ==
    ASSUME NEW S, NEW s \in Seq(S), s # <<>>
    PROVE  Entries(s) = {Head(s)} \cup Entries(Tail(s))
<1>1. /\ Len(s) \in Nat /\ Len(s) # 0
      /\ Head(s) = s[1] /\ Len(Tail(s)) = Len(s) - 1
      /\ \A i \in 1..Len(s) - 1 : Tail(s)[i] = s[i + 1]
  OBVIOUS
<1>2. ASSUME NEW i \in 1..Len(s) PROVE s[i] \in {Head(s)} \cup Entries(Tail(s))
  <2>1. CASE i = 1
    BY <1>1, <2>1
  <2>2. CASE i # 1
    <3>1. i - 1 \in 1..Len(Tail(s)) /\ Tail(s)[i - 1] = s[i]
      BY <1>1, <2>2
    <3> QED BY <3>1 DEF Entries
  <2> QED BY <2>1, <2>2
<1>3. ASSUME NEW i \in 1..Len(Tail(s)) PROVE Tail(s)[i] \in Entries(s)
  <2>1. i + 1 \in 1..Len(s) /\ Tail(s)[i] = s[i + 1]
    BY <1>1
  <2> QED BY <2>1 DEF Entries
<1>4. Head(s) \in Entries(s)
  BY <1>1 DEF Entries
<1> QED BY <1>2, <1>3, <1>4 DEF Entries

LEMMA OrdersAreComplete ==
    ASSUME NEW r \in Runs
    PROVE  Entries(CreateOrder(r)) = Required(r)
<1>1. CASE r \in BlueRuns
  <2> DEFINE s == <<"target", "elasticsearch", "kibana",
                    "scenario-log-generator", "elastic-agent", "desktop">>
  <2>1. CreateOrder(r) = s
    BY <1>1 DEF CreateOrder
  <2>2. /\ Len(s) = 6
        /\ s[1] = "target" /\ s[2] = "elasticsearch" /\ s[3] = "kibana"
        /\ s[4] = "scenario-log-generator" /\ s[5] = "elastic-agent"
        /\ s[6] = "desktop"
    OBVIOUS
  <2> HIDE DEF s
  <2>3. Entries(s) = {s[1], s[2], s[3], s[4], s[5], s[6]}
    <3>1. 1..6 = {1, 2, 3, 4, 5, 6}
      OBVIOUS
    <3> QED BY <2>2, <3>1 DEF Entries
  <2> QED BY <1>1, <2>1, <2>2, <2>3 DEF Required, BlueRoles, RedRoles
<1>2. CASE r \notin BlueRuns
  <2> DEFINE s == <<"target", "desktop">>
  <2>1. CreateOrder(r) = s
    BY <1>2 DEF CreateOrder
  <2>2. Len(s) = 2 /\ s[1] = "target" /\ s[2] = "desktop"
    OBVIOUS
  <2> HIDE DEF s
  <2>3. Entries(s) = {s[1], s[2]}
    <3>1. 1..2 = {1, 2}
      OBVIOUS
    <3> QED BY <2>2, <3>1 DEF Entries
  <2> QED BY <1>2, <2>1, <2>2, <2>3 DEF Required, RedRoles
<1> QED BY <1>1, <1>2

\* A provision creates on what it has made, and answers when all is there.
LEMMA MakingEnds ==
    ASSUME GInv, NEW h \in Handlers, NEW r \in Runs, Begins(h, r),
           \/ CreateNetwork(h) \/ ConnectGateway(h) \/ CreateVolume(h)
           \/ CreateContainer(h) \/ StartContainer(h)
    PROVE  Ends(h, r)
<1>1. /\ h \in Procs /\ h # Cleaner /\ proc[h] \in Situations
      /\ FitsHandler(proc[h]) /\ Subject(h) = r
  BY HandlerFacts DEF GInv, LInv, Begins
<1>2. proc[h].at \in Making /\ told[r] # "given"
  <2>1. proc[h].at \in Making
    BY DEF CreateNetwork, ConnectGateway, CreateVolume, CreateContainer,
           StartContainer, At, Making
  <2> QED BY <2>1 DEF Begins, Able
<1>3. ASSUME UNCHANGED told PROVE Complete(r)'
  BY <1>2, <1>3 DEF Complete
<1>4. ASSUME NEW place, Goto(h, place)
      PROVE  /\ proc'[h].at = place /\ Subject(h)' = r
             /\ proc'[h].left = proc[h].left
             /\ proc'[h].request = proc[h].request
  BY <1>1, <1>4 DEF Goto, Subject, Situations, GInv, LInv, TInv, TypeOK
<1>5. ASSUME GiveUp(h), UNCHANGED told PROVE Able(h)'
  BY <1>5, GivingUpEnds
<1>6. ASSUME UNCHANGED containers PROVE Of(r)' = Of(r) /\ Roles(r)' = Roles(r)
  BY <1>6 DEF Of, Roles
<1>7. CASE CreateNetwork(h)
  <2>1. Of(r) = {} /\ Of(r)' = {} /\ UNCHANGED told
    BY <1>6, <1>7 DEF CreateNetwork, At, Begins, Able
  <2>2. Rooted(r)' /\ Complete(r)'
    BY <1>3, <2>1 DEF Rooted
  <2>3. CASE Goto(h, "connect") /\ networks' = networks \cup {r}
    <3>1. Able(h)'
      BY <1>2, <1>4, <2>1, <2>3 DEF Able
    <3> QED BY <2>2, <3>1 DEF Ends
  <2>4. CASE GiveUp(h)
    BY <1>5, <2>1, <2>2, <2>4 DEF Ends
  <2> QED BY <1>1, <1>7, <2>3, <2>4 DEF CreateNetwork
<1>8. CASE ConnectGateway(h)
  <2>1. Of(r) = {} /\ Of(r)' = {} /\ UNCHANGED <<told, networks>>
    BY <1>6, <1>8 DEF ConnectGateway, At, Begins, Able
  <2>2. Rooted(r)' /\ Complete(r)'
    BY <1>3, <2>1 DEF Rooted
  <2>3. CASE /\ r \in networks /\ joined' = joined \cup {r}
             /\ proc' = [proc EXCEPT
                    ![h].at = IF r \in BlueRuns THEN "volume" ELSE "create",
                    ![h].left = CreateOrder(r)]
    <3>1. /\ proc'[h].at = IF r \in BlueRuns THEN "volume" ELSE "create"
          /\ proc'[h].left = CreateOrder(r) /\ Subject(h)' = r
      BY <1>1, <2>3 DEF Subject, Situations, GInv, LInv, TInv, TypeOK
    <3>2. Roles(r)' = {}
      BY <2>1 DEF Roles
    <3>3. Able(h)'
      BY <1>2, <2>1, <2>3, <3>1, <3>2, OrdersAreComplete DEF Able
    <3> QED BY <2>2, <3>3 DEF Ends
  <2>4. CASE GiveUp(h)
    BY <1>5, <2>1, <2>2, <2>4 DEF Ends
  <2> QED BY <1>1, <1>8, <2>3, <2>4 DEF ConnectGateway
<1>9. CASE CreateVolume(h)
  <2>1. /\ Of(r) = {} /\ Of(r)' = {} /\ Roles(r)' = Roles(r)
        /\ r \in networks /\ r \in joined
        /\ Roles(r) \cup Entries(proc[h].left) = Required(r)
        /\ UNCHANGED <<told, networks, joined>>
    BY <1>1, <1>6, <1>9 DEF CreateVolume, At, Begins, Able
  <2>2. Rooted(r)' /\ Complete(r)'
    BY <1>3, <2>1 DEF Rooted
  <2>3. CASE Goto(h, "create") /\ volumes' = volumes \cup {r}
    <3>1. Able(h)'
      BY <1>2, <1>4, <2>1, <2>3 DEF Able
    <3> QED BY <2>2, <3>1 DEF Ends
  <2>4. CASE GiveUp(h)
    BY <1>5, <2>1, <2>2, <2>4 DEF Ends
  <2> QED BY <1>1, <1>9, <2>3, <2>4 DEF CreateVolume
<1>10. CASE CreateContainer(h)
  <2> DEFINE role == Head(proc[h].left)
             left == Tail(proc[h].left)
  <2>1. /\ r \in networks /\ r \in joined
        /\ r \in BlueRuns => r \in volumes
        /\ \A c \in Of(r) : c[3] = proc[h].request
        /\ Roles(r) \cup Entries(proc[h].left) = Required(r)
        /\ UNCHANGED <<told, networks, joined>> /\ volumes \subseteq volumes'
    BY <1>1, <1>10 DEF CreateContainer, At, Begins, Able
  <2>2. Complete(r)'
    BY <1>3, <2>1
  <2>3. CASE GiveUp(h) /\ UNCHANGED <<containers, volumes>>
    <3>1. Rooted(r)'
      BY <1>6, <2>1, <2>3 DEF Rooted
    <3> QED BY <1>5, <2>1, <2>2, <2>3, <3>1 DEF Ends
  <2>4. ASSUME containers' = containers \cup {Made(h)}
        PROVE  /\ Of(r)' = Of(r) \cup {Made(h)}
               /\ \A c \in Of(r)' : c[3] = proc[h].request
               /\ Roles(r)' = Roles(r) \cup {role}
               /\ Rooted(r)'
    <3>1. Made(h) = <<r, role, proc[h].request>>
      BY <1>1 DEF Made
    <3>2. Of(r)' = Of(r) \cup {Made(h)}
      BY <2>4, <3>1 DEF Of
    <3>3. \A c \in Of(r)' : c[3] = proc[h].request
      BY <2>1, <3>1, <3>2
    <3>4. Roles(r)' = Roles(r) \cup {role}
      BY <3>1, <3>2 DEF Roles
    <3>5. Rooted(r)'
      BY <2>1, <3>3 DEF Rooted
    <3> QED BY <3>2, <3>3, <3>4, <3>5
  <2>5. CASE containers' = containers \cup {Made(h)} /\ GiveUp(h)
    BY <1>5, <2>1, <2>2, <2>4, <2>5 DEF Ends
  <2>6. CASE /\ containers' = containers \cup {Made(h)}
             /\ proc' = [proc EXCEPT
                    ![h].at = IF left = <<>> THEN "start" ELSE @,
                    ![h].left = IF left = <<>> THEN StartOrder(r) ELSE left]
    <3>1. /\ proc'[h].at = IF left = <<>> THEN "start" ELSE "create"
          /\ left # <<>> => proc'[h].left = left
          /\ Subject(h)' = r /\ proc'[h].request = proc[h].request
      <4>1. proc[h].at = "create"
        BY <1>10 DEF CreateContainer, At
      <4> HIDE DEF left
      <4> QED BY <1>1, <2>6, <4>1
              DEF Subject, Situations, GInv, LInv, TInv, TypeOK
    <3>2. Entries(proc[h].left) = {role} \cup Entries(left)
      <4>1. proc[h].left \in Seq(BlueRoles) /\ proc[h].left # <<>>
        BY <1>1, <1>10 DEF CreateContainer, At, Situations, FitsHandler
      <4> QED BY <4>1, EntriesOfTail
    <3>3. left = <<>> => Entries(left) = {}
      <4>1. Entries(<<>>) = {}
        <5>1. Len(<<>>) = 0 /\ 1..0 = {}
          OBVIOUS
        <5> QED BY <5>1 DEF Entries
      <4> HIDE DEF left
      <4> QED BY <4>1
    <3>4. /\ Roles(r)' \cup Entries(left) = Required(r)
          /\ left = <<>> => Roles(r)' = Required(r)
      BY <2>1, <2>4, <2>6, <3>2, <3>3
    <3>5. Required(r)' = Required(r)
      BY DEF Required
    <3> HIDE DEF left, role
    <3>6. \A c \in Of(r)' : c[3] = proc'[h].request
      BY <2>4, <2>6, <3>1
    <3>7. Able(h)'
      BY <1>2, <2>1, <3>1, <3>4, <3>6 DEF Able
    <3> QED BY <2>2, <2>4, <2>6, <3>7 DEF Ends
  <2> QED BY <1>1, <1>10, <2>3, <2>5, <2>6 DEF CreateContainer
<1>11. CASE StartContainer(h)
  <2>1. /\ r \in networks /\ r \in joined
        /\ r \in BlueRuns => r \in volumes
        /\ \A c \in Of(r) : c[3] = proc[h].request
        /\ Roles(r) = Required(r) /\ Of(r)' = Of(r) /\ Roles(r)' = Roles(r)
        /\ UNCHANGED <<networks, joined, volumes>>
    BY <1>1, <1>6, <1>11 DEF StartContainer, At, Begins, Able
  <2>2. Rooted(r)'
    BY <2>1 DEF Rooted
  <2>3. Complete(r)'
    BY <2>1 DEF Complete
  <2>4. CASE GiveUp(h) /\ UNCHANGED told
    BY <1>5, <2>2, <2>3, <2>4 DEF Ends
  <2>5. CASE Leave({h})
    BY <2>2, <2>3, <2>5, LeavingEnds DEF Ends
  <2>6. CASE proc' = [proc EXCEPT ![h].left = Tail(proc[h].left)]
             /\ UNCHANGED told
    <3>1. /\ proc'[h].at = "start" /\ Subject(h)' = r
          /\ proc'[h].request = proc[h].request
      BY <1>1, <1>11, <2>6
         DEF StartContainer, At, Subject, Situations, GInv, LInv, TInv, TypeOK
    <3>2. Able(h)'
      BY <1>2, <2>1, <2>6, <3>1 DEF Able
    <3> QED BY <2>2, <2>3, <3>2 DEF Ends
  <2> QED BY <1>11, <2>4, <2>5, <2>6 DEF StartContainer
<1> QED BY <1>7, <1>8, <1>9, <1>10, <1>11

\* A request removes containers first, so that what is left of them is rooted.
LEMMA RemovingEnds ==
    ASSUME GInv, NEW h \in Handlers, NEW r \in Runs, Begins(h, r), Removal(h)
    PROVE  Ends(h, r)
<1>1. /\ h \in Procs /\ h # Cleaner /\ proc[h] \in Situations
      /\ Subject(h) = r
  BY HandlerFacts DEF GInv, LInv, Begins
<1>2. proc[h].at \in Removing /\ told[r] # "given"
  <2>1. proc[h].at \in Removing
    BY DEF Removal, RemoveList, RemoveContainers, DisconnectGateway,
           RemoveNetwork, RemoveVolume, At, Removing
  <2> QED BY <2>1 DEF Begins, Able
<1>3. ASSUME UNCHANGED told PROVE Complete(r)'
  BY <1>2, <1>3 DEF Complete
<1>4. ASSUME NEW place, Goto(h, place)
      PROVE  proc'[h].at = place /\ Subject(h)' = r
  BY <1>1, <1>4 DEF Goto, Subject, Situations, GInv, LInv, TInv, TypeOK
<1>5. ASSUME GiveUp(h), UNCHANGED told PROVE Able(h)'
  BY <1>5, GivingUpEnds
<1>6. ASSUME UNCHANGED containers PROVE Of(r)' = Of(r)
  BY <1>6 DEF Of
<1>7. ASSUME Of(r)' = {} PROVE Rooted(r)'
  BY <1>7 DEF Rooted
<1>8. CASE RemoveList(h)
  <2>1. /\ UNCHANGED <<containers, networks, joined, volumes, told>>
        /\ Of(r)' = Of(r)
    BY <1>6, <1>8 DEF RemoveList, daemon
  <2>2. Rooted(r)' /\ Complete(r)'
    BY <1>3, <2>1 DEF Rooted, Begins
  <2>3. CASE proc' = [proc EXCEPT
                         ![h].at = IF Of(r) = {} THEN "rmLeave"
                                   ELSE "rmContainers",
                         ![h].seen = Of(r)]
    <3>1. /\ proc'[h].at = IF Of(r) = {} THEN "rmLeave" ELSE "rmContainers"
          /\ proc'[h].seen = Of(r) /\ Subject(h)' = r
      BY <1>1, <2>3 DEF Subject, Situations, GInv, LInv, TInv, TypeOK
    <3>2. Able(h)'
      BY <1>2, <2>1, <3>1 DEF Able
    <3> QED BY <2>2, <3>2 DEF Ends
  <2>4. CASE GiveUp(h)
    BY <1>5, <2>1, <2>2, <2>4 DEF Ends
  <2> QED BY <1>1, <1>8, <2>3, <2>4 DEF RemoveList
<1>9. CASE RemoveContainers(h)
  <2>1. /\ UNCHANGED <<networks, joined, volumes, told>>
        /\ proc[h].seen = Of(r) /\ Of(r) \subseteq containers
    BY <1>1, <1>9 DEF RemoveContainers, At, Begins, Able, Of
  <2>2. PICK gone \in SUBSET Of(r) :
           /\ containers' = containers \ gone
           /\ \/ gone = Of(r) /\ Goto(h, "rmLeave")
              \/ GiveUp(h)
    BY <1>9, <2>1 DEF RemoveContainers
  <2>3. Of(r)' = Of(r) \ gone
    BY <2>2 DEF Of
  <2>4. Rooted(r)' /\ Complete(r)'
    BY <1>3, <2>1, <2>3 DEF Rooted, Begins
  <2>5. CASE gone = Of(r) /\ Goto(h, "rmLeave")
    <3>1. Able(h)'
      BY <1>2, <1>4, <2>1, <2>3, <2>5 DEF Able
    <3> QED BY <2>4, <3>1 DEF Ends
  <2>6. CASE GiveUp(h)
    BY <1>5, <2>1, <2>4, <2>6 DEF Ends
  <2> QED BY <2>2, <2>5, <2>6
<1>10. CASE DisconnectGateway(h) \/ RemoveNetwork(h)
  <2>1. Of(r)' = {} /\ UNCHANGED told
    BY <1>1, <1>6, <1>10 DEF DisconnectGateway, RemoveNetwork, At, Begins, Able
  <2>2. Rooted(r)' /\ Complete(r)'
    BY <1>3, <1>7, <2>1
  <2>3. CASE Goto(h, "rmNetwork") \/ Goto(h, "rmVolume")
    <3>1. Able(h)'
      BY <1>2, <1>4, <2>1, <2>3 DEF Able
    <3> QED BY <2>2, <3>1 DEF Ends
  <2>4. CASE GiveUp(h)
    BY <1>5, <2>1, <2>2, <2>4 DEF Ends
  <2> QED BY <1>10, <2>3, <2>4 DEF DisconnectGateway, RemoveNetwork
<1>11. CASE RemoveVolume(h)
  <2>1. Of(r)' = {}
    BY <1>1, <1>6, <1>11 DEF RemoveVolume, At, Begins, Able
  <2>2. Rooted(r)'
    BY <1>7, <2>1
  <2>3. CASE GiveUp(h) /\ UNCHANGED told
    BY <1>3, <1>5, <2>2, <2>3 DEF Ends
  <2>4. CASE AfterRemoval(h)
    <3>1. told'[r] # "given"
      BY <1>1, <1>2, <2>4 DEF AfterRemoval, GInv, LInv, TInv, TypeOK
    <3>2. Complete(r)'
      BY <3>1 DEF Complete
    <3>3. Goto(h, "network") \/ Leave({h})
      <4>1. proc[h].then \in {"answer", "create", "undone", "destroyed"}
        BY <1>1 DEF Situations
      <4> QED BY <1>1, <2>4, <4>1 DEF AfterRemoval
    <3>4. CASE Leave({h})
      BY <2>2, <3>2, <3>4, LeavingEnds DEF Ends
    <3>5. CASE Goto(h, "network")
      <4>1. Able(h)'
        BY <1>4, <2>1, <3>1, <3>5 DEF Able
      <4> QED BY <2>2, <3>2, <4>1 DEF Ends
    <3> QED BY <3>3, <3>4, <3>5
  <2> QED BY <1>11, <2>3, <2>4 DEF RemoveVolume
<1> QED BY <1>8, <1>9, <1>10, <1>11 DEF Removal

LEMMA RequestKeepsSound ==
    ASSUME WInv, NEW h \in Handlers, Request(h), NEW q \in Runs
    PROVE  Sound(q)'
<1> DEFINE r == Subject(h)
<1>1. r \in Runs /\ Inside(h) /\ GInv
  <2>1. ~At(h, "idle") /\ (~At(h, "queued") \/ proc[h].waits = NoProc)
    BY DEF Request, Enter, Join, List, Inspect, CreateNetwork, ConnectGateway,
           CreateVolume, CreateContainer, StartContainer, Removal, RemoveList,
           RemoveContainers, DisconnectGateway, RemoveNetwork, RemoveVolume, At
  <2> QED BY <2>1, PastTheQueue, HandlerFacts DEF WInv, GInv, LInv
<1>2. \A g \in Handlers \ {h} : Stays(g)
  BY <1>1, RequestSpares
<1>3. Fresh(q)' = Fresh(q)
  BY DEF Fresh, Request, Enter, Join, List, Inspect, CreateNetwork,
         ConnectGateway, CreateVolume, CreateContainer, StartContainer,
         Removal, RemoveList, RemoveContainers, DisconnectGateway,
         RemoveNetwork, RemoveVolume
<1>4. Sound(q)
  BY DEF WInv
<1>5. CASE q = r
  <2> SUFFICES ASSUME Fresh(q)'
               PROVE  /\ Rooted(q)' /\ Complete(q)'
                      /\ \A g \in Handlers : Subject(g)' = q => Able(g)'
    BY DEF Sound
  <2>1. Begins(h, q)
    BY <1>1, <1>3, <1>4, <1>5 DEF Sound, Begins
  <2>2. Ends(h, q)
    BY <1>1, <2>1, ReadingEnds, MakingEnds, RemovingEnds DEF Request
  <2>3. ASSUME NEW g \in Handlers \ {h}, Subject(g)' = q PROVE Able(g)'
    <3>1. Stays(g) /\ Subject(g) = q
      BY <1>2, <2>3 DEF Stays, Subject
    <3>2. ~Inside(g)
      BY <1>1, <1>5, <3>1 DEF GInv, LInv, LockIsExclusive
    <3>3. proc[g].at \in Resting
      BY <1>1, <3>2 DEF Inside, Busy, At, Resting, GInv, LInv, Chained
    <3> QED BY <3>1, <3>3, RestingIsAbleNext DEF Stays
  <2> QED BY <2>2, <2>3 DEF Ends
<1>6. CASE q # r
  <2>1. Untouched(q)
    BY <1>1, <1>6, RequestIsLocal
  <2> SUFFICES ASSUME Fresh(q)'
               PROVE  /\ Rooted(q)' /\ Complete(q)'
                      /\ \A g \in Handlers : Subject(g)' = q => Able(g)'
    BY DEF Sound
  <2>2. Rooted(q)' /\ Complete(q)'
    BY <1>3, <1>4, <2>1 DEF Sound, Rooted, Complete, Untouched, Roles
  <2>3. ASSUME NEW g \in Handlers \ {h}, Subject(g)' = q PROVE Able(g)'
    <3>1. Stays(g) /\ Subject(g) = q
      BY <1>2, <2>3 DEF Stays, Subject
    <3> QED BY <1>3, <1>4, <2>1, <3>1, StayingIsAble DEF Sound
  <2>4. Subject(h)' \in {r, NoRun}
    <3>1. h \in Procs /\ proc[h] \in Situations
      BY <1>1, HandlerFacts DEF GInv, LInv
    <3>2. Carries \/ Answers
      BY <1>1, <3>1, RequestIsEither, RemovalIsEither, PastTheQueue
         DEF Request, GInv
    <3>3. CASE Carries
      BY <3>3 DEF Carries, Subject
    <3>4. CASE Answers
      <4>1. PICK P \in SUBSET Procs : Leave(P)
        BY <3>4 DEF Answers
      <4>2. proc'[h] \in {Idle, proc[h], [proc[h] EXCEPT !.waits = NoProc]}
        BY <3>1, <4>1 DEF Leave
      <4> QED BY <3>1, <4>2 DEF Subject, Idle, Situations
    <3> QED BY <3>2, <3>3, <3>4
  <2> QED BY <1>1, <1>6, <2>2, <2>3, <2>4, NoRunIsNotARun
<1> QED BY <1>5, <1>6

\* The clean-up takes up only what it found overdue.
LEMMA CleanUpIsSelective ==
    ASSUME WInv, CleanUp \/ Timer
    PROVE  Selective'
<1>1. /\ Cleaner \in Procs /\ Cleaner \notin Handlers
      /\ proc[Cleaner] \in Situations /\ FitsCleaner(proc[Cleaner])
  BY CleanerIsNoHandler
     DEF Procs, WInv, GInv, LInv, TInv, TypeOK, Placed, Fits
<1>2. ASSUME NEW r, ~Fresh(r) PROVE ~Fresh(r)'
  BY <1>2 DEF Fresh, CleanUp, Timer, ListAll, InspectAll, CleanRun, Removal,
              RemoveList, RemoveContainers, DisconnectGateway, RemoveNetwork,
              RemoveVolume
<1>3. ASSUME NEW ok \in BOOLEAN, Settle(ok) PROVE Selective'
  <2>1. proc'[Cleaner] = Idle
    BY <1>1, <1>3 DEF Settle, Leave
  <2> QED BY <2>1 DEF Selective, Idle, Removing
<1>4. ASSUME NEW t, proc' = [proc EXCEPT ![Cleaner] = t],
             t.at \in Removing => ~Fresh(t.run),
             \A r \in t.todo : ~Fresh(r)
      PROVE  Selective'
  <2>1. proc'[Cleaner] = t
    BY <1>1, <1>4 DEF WInv, GInv, LInv, TInv, TypeOK
  <2> QED BY <1>2, <1>4, <2>1 DEF Selective, Subject
<1>5. /\ proc[Cleaner].at \in Removing => ~Fresh(proc[Cleaner].run)
      /\ \A r \in proc[Cleaner].todo : ~Fresh(r)
  BY DEF WInv, Selective, Subject
<1>6. ASSUME NEW place, Goto(Cleaner, place),
             place \in Removing => proc[Cleaner].at \in Removing
      PROVE  Selective'
  <2> DEFINE t == [proc[Cleaner] EXCEPT !.at = place]
  <2>1. proc' = [proc EXCEPT ![Cleaner] = t]
    BY <1>6 DEF Goto, WInv, GInv, LInv, TInv, TypeOK
  <2>2. t.at = place /\ t.run = proc[Cleaner].run /\ t.todo = proc[Cleaner].todo
    BY <1>1 DEF Situations
  <2> HIDE DEF t
  <2> QED BY <1>4, <1>5, <1>6, <2>1, <2>2
<1>7. GiveUp(Cleaner) => Settle(FALSE)
  BY DEF GiveUp
<1>8. CASE Removal(Cleaner)
  <2>1. proc[Cleaner].at \in Removing
    BY <1>8 DEF Removal, RemoveList, RemoveContainers, DisconnectGateway,
                RemoveNetwork, RemoveVolume, At, Removing
  <2>2. CASE RemoveList(Cleaner)
    <3> DEFINE t == [proc[Cleaner] EXCEPT
                        !.at = IF Of(Subject(Cleaner)) = {} THEN "rmLeave"
                               ELSE "rmContainers",
                        !.seen = Of(Subject(Cleaner))]
    <3>1. CASE proc' = [proc EXCEPT ![Cleaner] = t]
      <4>1. t.run = proc[Cleaner].run /\ t.todo = proc[Cleaner].todo
        BY <1>1 DEF Situations
      <4> HIDE DEF t
      <4> QED BY <1>4, <1>5, <2>1, <3>1, <4>1
    <3>2. proc' = [proc EXCEPT ![Cleaner] = t] \/ GiveUp(Cleaner)
      BY <1>1, <2>2 DEF RemoveList, WInv, GInv, LInv, TInv, TypeOK
    <3> QED BY <1>3, <1>7, <3>1, <3>2
  <2>3. CASE \/ RemoveContainers(Cleaner) \/ DisconnectGateway(Cleaner)
             \/ RemoveNetwork(Cleaner)
    <3>1. GiveUp(Cleaner) \/ \E place : Goto(Cleaner, place)
      BY <2>3 DEF RemoveContainers, DisconnectGateway, RemoveNetwork
    <3> QED BY <1>3, <1>6, <1>7, <2>1, <3>1
  <2>4. CASE RemoveVolume(Cleaner)
    <3>1. \/ GiveUp(Cleaner) \/ Settle(TRUE)
          \/ \E place : Goto(Cleaner, place)
      BY <2>4 DEF RemoveVolume, AfterRemoval
    <3> QED BY <1>3, <1>6, <1>7, <2>1, <3>1
  <2> QED BY <1>8, <2>2, <2>3, <2>4 DEF Removal
<1>9. CASE ListAll
  <2> DEFINE t == [proc[Cleaner] EXCEPT !.at = "inspect", !.seen = containers]
  <2>1. CASE proc' = [proc EXCEPT ![Cleaner] = t]
    <3>1. t.at = "inspect" /\ t.todo = proc[Cleaner].todo
      BY <1>1 DEF Situations
    <3> HIDE DEF t
    <3> QED BY <1>4, <1>5, <2>1, <3>1 DEF Removing
  <2>2. \/ proc' = [proc EXCEPT ![Cleaner] = t]
        \/ GiveUp(Cleaner) \/ Settle(TRUE)
    BY <1>1, <1>9 DEF ListAll, WInv, GInv, LInv, TInv, TypeOK
  <2> QED BY <1>3, <1>7, <2>1, <2>2
<1>10. CASE InspectAll
  <2> DEFINE expired == {c[1] : c \in {d \in proc[Cleaner].seen :
                                         Label(d) \in overdue}}
             t == [proc[Cleaner] EXCEPT !.at = "next", !.todo = expired]
  <2>1. CASE proc' = [proc EXCEPT ![Cleaner] = t]
    <3>1. t.at = "next" /\ t.todo = expired
      BY <1>1 DEF Situations
    <3>2. ASSUME NEW r \in expired PROVE ~Fresh(r)
      <4>1. PICK c \in proc[Cleaner].seen : c[1] = r /\ Label(c) \in overdue
        OBVIOUS
      <4>2. c[3] \in 1..MaxProvisions
        BY <1>1 DEF Situations, Containers
      <4> QED BY <4>1, <4>2 DEF Label, Fresh
    <3> HIDE DEF t, expired
    <3> QED BY <1>4, <2>1, <3>1, <3>2 DEF Removing
  <2>2. \/ proc' = [proc EXCEPT ![Cleaner] = t]
        \/ GiveUp(Cleaner) \/ Settle(TRUE)
    BY <1>1, <1>10 DEF InspectAll, WInv, GInv, LInv, TInv, TypeOK
  <2> QED BY <1>3, <1>7, <2>1, <2>2
<1>11. ASSUME NEW r \in Runs, CleanRun(r) PROVE Selective'
  <2> DEFINE t == [proc[Cleaner] EXCEPT !.at = "rmList", !.run = r,
                                        !.todo = @ \ {r}]
  <2>1. proc' = [proc EXCEPT ![Cleaner] = t]
    BY <1>1, <1>11 DEF CleanRun, WInv, GInv, LInv, TInv, TypeOK
  <2>2. t.run = r /\ t.todo = proc[Cleaner].todo \ {r}
    BY <1>1 DEF Situations
  <2>3. ~Fresh(r)
    BY <1>5, <1>11 DEF CleanRun
  <2> HIDE DEF t
  <2> QED BY <1>4, <1>5, <2>1, <2>2, <2>3
<1>12. CASE Timer
  <2>1. proc' = [proc EXCEPT ![Cleaner] = Cleaning]
    BY <1>12 DEF Timer
  <2>2. Cleaning.at = "list" /\ Cleaning.todo = {}
    BY DEF Cleaning, Idle
  <2> QED BY <1>4, <2>1, <2>2 DEF Removing
<1> QED BY <1>8, <1>9, <1>10, <1>11, <1>12 DEF CleanUp

\* The clean-up is where it was, with what it had to do.
Waits == /\ proc'[Cleaner].at = proc[Cleaner].at
         /\ proc'[Cleaner].run = proc[Cleaner].run
         /\ proc'[Cleaner].todo = proc[Cleaner].todo

\* No one else makes the clean-up take up a run; a provision may start it.
LEMMA OthersKeepSelective ==
    ASSUME WInv, \A r \in Runs : ~Fresh(r) => ~Fresh(r)',
           Waits \/ proc'[Cleaner] \in {Idle, Cleaning}
    PROVE  Selective'
<1>1. proc[Cleaner] \in Situations /\ FitsCleaner(proc[Cleaner])
  BY DEF Procs, WInv, GInv, LInv, TInv, TypeOK, Placed, Fits
<1>2. proc[Cleaner].todo \subseteq Runs
  BY <1>1 DEF Situations
<1>3. CASE Waits
  <2>1. /\ Selective
        /\ proc[Cleaner].at \in Removing => proc[Cleaner].run \in Runs
    BY <1>1 DEF WInv, FitsCleaner
  <2> QED BY <1>2, <1>3, <2>1 DEF Selective, Subject, Waits
<1>4. CASE proc'[Cleaner] \in {Idle, Cleaning}
  <2>1. /\ Idle.at = "idle" /\ Idle.todo = {}
        /\ Cleaning.at = "list" /\ Cleaning.todo = {}
    BY DEF Idle, Cleaning
  <2>2. proc'[Cleaner].at \notin Removing /\ proc'[Cleaner].todo = {}
    BY <1>4, <2>1 DEF Removing
  <2> QED BY <2>2 DEF Selective
<1> QED BY <1>3, <1>4

\* What the clean-up does, a run whose time is not over does not notice.
LEMMA CleanUpKeepsSound ==
    ASSUME WInv, CleanUp \/ Timer, NEW q \in Runs
    PROVE  Sound(q)'
<1>1. GInv /\ Cleaner \in Procs
  BY DEF WInv, Procs
<1>2. Fresh(q)' = Fresh(q)
  BY DEF Fresh, CleanUp, Timer, ListAll, InspectAll, CleanRun, Removal,
         RemoveList, RemoveContainers, DisconnectGateway, RemoveNetwork,
         RemoveVolume
<1>3. CASE Fresh(q)
  <2>1. CASE Removal(Cleaner)
    <3>1. proc[Cleaner].at \in Removing
      BY <2>1 DEF Removal, RemoveList, RemoveContainers, DisconnectGateway,
                  RemoveNetwork, RemoveVolume, At, Removing
    <3>2. q # Subject(Cleaner)
      BY <1>3, <3>1 DEF WInv, Selective
    <3> QED BY <1>1, <2>1, <3>2, RemovalIsLocal, CleanUpSpares,
               UntouchedIsSound DEF WInv, Resting, Released, CleanUp
  <2>2. CASE ~Removal(Cleaner)
    <3>1. Untouched(q)
      BY <1>2, <2>2 DEF Untouched, CleanUp, Timer, ListAll, InspectAll,
                        CleanRun, daemon, Of
    <3> QED BY <1>1, <3>1, CleanUpSpares, UntouchedIsSound
       DEF WInv, Resting, Released
  <2> QED BY <2>1, <2>2
<1>4. CASE ~Fresh(q)
  BY <1>2, <1>4 DEF Sound
<1> QED BY <1>3, <1>4

Wakes == At(Cleaner, "idle") /\ proc'[Cleaner] = Cleaning

LEMMA RequestWaits ==
    ASSUME GInv, NEW h \in Handlers, Request(h)
    PROVE  Waits \/ Wakes
<1>1. /\ h \in Procs /\ h # Cleaner /\ Cleaner \in Procs
      /\ proc[h] \in Situations /\ proc[Cleaner] \in Situations
  BY HandlerFacts DEF Procs, GInv, LInv, TInv, TypeOK
<1>2. ASSUME Leave({h}) PROVE Waits
  <2>1. proc'[Cleaner] \in {proc[Cleaner], [proc[Cleaner] EXCEPT !.waits = NoProc]}
    BY <1>1, <1>2 DEF Leave
  <2> QED BY <1>1, <2>1 DEF Waits, Situations
<1>3. ASSUME NEW t, proc' = [proc EXCEPT ![h] = t] PROVE Waits
  BY <1>1, <1>3 DEF Waits, GInv, LInv, TInv, TypeOK
<1>4. ASSUME NEW place, Goto(h, place) PROVE Waits
  BY <1>3, <1>4 DEF Goto
<1>5. ASSUME GiveUp(h) PROVE Waits
  <2>1. \/ Leave({h})
        \/ proc' = [proc EXCEPT ![h].at = "rmList", ![h].then = "undone"]
    BY <1>1, <1>5 DEF GiveUp
  <2>2. CASE proc' = [proc EXCEPT ![h].at = "rmList", ![h].then = "undone"]
    BY <1>1, <2>2 DEF Waits, GInv, LInv, TInv, TypeOK
  <2> QED BY <1>2, <2>1, <2>2
<1>6. CASE Enter(h) \/ List(h) \/ Inspect(h)
  BY <1>1, <1>2, <1>4, <1>5, <1>6
     DEF Enter, List, Inspect, Waits, GInv, LInv, TInv, TypeOK
<1>7. CASE Join(h)
  BY <1>1, <1>7 DEF Join, Waits, Wakes, GInv, LInv, TInv, TypeOK
<1>8. CASE \/ CreateNetwork(h) \/ ConnectGateway(h) \/ CreateVolume(h)
           \/ CreateContainer(h) \/ StartContainer(h)
  BY <1>1, <1>2, <1>4, <1>5, <1>8
     DEF CreateNetwork, ConnectGateway, CreateVolume, CreateContainer,
         StartContainer, Waits, GInv, LInv, TInv, TypeOK
<1>9. CASE Removal(h)
  <2>1. AfterRemoval(h) => Leave({h}) \/ \E place : Goto(h, place)
    <3>1. proc[h].then \in {"answer", "create", "undone", "destroyed"}
      BY <1>1 DEF Situations
    <3> QED BY <1>1, <3>1 DEF AfterRemoval
  <2>2. CASE RemoveList(h)
    BY <1>1, <1>5, <2>2 DEF RemoveList, Waits, GInv, LInv, TInv, TypeOK
  <2>3. CASE RemoveContainers(h) \/ DisconnectGateway(h) \/ RemoveNetwork(h)
    BY <1>4, <1>5, <2>3 DEF RemoveContainers, DisconnectGateway, RemoveNetwork
  <2>4. CASE RemoveVolume(h)
    BY <1>2, <1>4, <1>5, <2>1, <2>4 DEF RemoveVolume
  <2> QED BY <1>9, <2>2, <2>3, <2>4 DEF Removal
<1> QED BY <1>6, <1>7, <1>8, <1>9 DEF Request

LEMMA NextKeepsSound == WInv /\ [Next]_vars => WInv'
<1> SUFFICES ASSUME WInv, [Next]_vars PROVE WInv'
  OBVIOUS
<1>1. GInv /\ GInv'
  BY NextKeepsPromises DEF WInv
<1>2. Cleaner \in Procs /\ \A h \in Handlers : h \in Procs /\ h # Cleaner
  BY CleanerIsNoHandler DEF Procs
<1> SUFFICES Selective' /\ \A q \in Runs : Sound(q)'
  BY <1>1 DEF WInv
<1>3. ASSUME UNCHANGED daemon, UNCHANGED told, overdue \subseteq overdue',
             \A g \in Handlers : Stays(g) \/ proc'[g].at \in Resting,
             Waits \/ proc'[Cleaner] = Idle
      PROVE  Selective' /\ \A q \in Runs : Sound(q)'
  <2>1. \A q : Fresh(q)' => Fresh(q)
    BY <1>3 DEF Fresh
  <2>2. \A q \in Runs : Untouched(q)
    BY <1>3, <2>1 DEF Untouched, daemon, Of
  <2>3. Selective'
    BY <1>3, <2>1, OthersKeepSelective
  <2> QED BY <1>3, <2>2, <2>3, UntouchedIsSound DEF WInv
<1>4. ASSUME NEW h \in Handlers, Request(h)
      PROVE  Selective' /\ \A q \in Runs : Sound(q)'
  <2>1. \A q \in Runs : ~Fresh(q) => ~Fresh(q)'
    BY <1>4 DEF Fresh, Request, Enter, Join, List, Inspect, CreateNetwork,
                ConnectGateway, CreateVolume, CreateContainer,
                StartContainer, Removal, RemoveList, RemoveContainers,
                DisconnectGateway, RemoveNetwork, RemoveVolume
  <2>2. Waits \/ proc'[Cleaner] = Cleaning
    BY <1>1, <1>4, RequestWaits DEF Wakes
  <2> QED BY <1>4, <2>1, <2>2, OthersKeepSelective, RequestKeepsSound
<1>5. ASSUME NEW h \in Handlers, NEW q \in Runs,
             NEW op \in {"provision", "get", "destroy"}, Call(h, op, q)
      PROVE  Selective' /\ \A r \in Runs : Sound(r)'
  <2>1. \A g \in Handlers : Stays(g) \/ proc'[g].at \in Resting
    <3> SUFFICES ASSUME NEW g \in Handlers
                 PROVE  Stays(g) \/ proc'[g].at = "queued"
      BY DEF Resting
    <3> QED BY <1>1, <1>2, <1>5
            DEF Call, Stays, Idle, GInv, LInv, TInv, TypeOK
  <2>2. Waits
    BY <1>1, <1>2, <1>5 DEF Waits, Call, GInv, LInv, TInv, TypeOK
  <2> QED BY <1>3, <1>5, <2>1, <2>2 DEF Call
<1>6. CASE CleanUp \/ Timer
  BY <1>6, CleanUpIsSelective, CleanUpKeepsSound
<1>7. CASE (\E c \in containers : Lapse(c) \/ Stop(c)) \/ UNCHANGED vars
  <2>1. /\ UNCHANGED <<containers, networks, joined, volumes>>
        /\ UNCHANGED <<told, proc>> /\ overdue \subseteq overdue'
    BY <1>7 DEF Lapse, Stop, vars, daemon
  <2>2. Waits /\ \A g \in Handlers : Stays(g)
    BY <2>1 DEF Stays, Waits
  <2>3. \A q : Fresh(q)' => Fresh(q)
    BY <2>1 DEF Fresh
  <2>4. \A q \in Runs : Untouched(q)
    BY <2>1, <2>3 DEF Untouched, Of
  <2> QED BY <2>1, <2>2, <2>3, <2>4, OthersKeepSelective, UntouchedIsSound
          DEF WInv
<1>8. CASE Crash
  <2>1. \A p \in Procs : proc'[p] = Idle
    BY <1>8 DEF Crash
  <2>2. \A g \in Handlers : proc'[g].at \in Resting
    BY <1>2, <2>1 DEF Idle, Resting
  <2> QED BY <1>2, <1>3, <1>8, <2>1, <2>2 DEF Crash
<1> QED BY <1>4, <1>5, <1>6, <1>7, <1>8 DEF Next

LEMMA InitSound == Init => WInv
<1> SUFFICES ASSUME Init PROVE WInv
  OBVIOUS
<1>1. \A p \in Procs : proc[p].at = "idle" /\ proc[p].todo = {}
  BY DEF Init, Idle
<1>2. Selective
  BY <1>1 DEF Selective, Procs, Removing
<1>3. ASSUME NEW r \in Runs PROVE Rooted(r) /\ Complete(r)
  BY DEF Init, Rooted, Complete, Of
<1>4. \A h \in Handlers : Able(h)
  BY <1>1, RestingIsAble DEF Procs, Resting
<1> QED BY <1>2, <1>3, <1>4, InitKeepsPromises DEF WInv, Sound

\* A provision that was answered stays whole until its time is over: neither
\* a request, nor the clean-up, nor a failure, nor a restart takes part of it
\* away (provision, removeRunResources, cleanupExpiredContainers).
THEOREM GivenStaysWhole == Spec => []GivenIsWhole
<1>1. WInv => GivenIsWhole
  <2> SUFFICES ASSUME WInv, NEW r \in Runs, told[r] = "given",
                      \A n \in 1..MaxProvisions : <<r, n>> \notin overdue
               PROVE  /\ {c[2] : c \in Of(r)} = Required(r)
                      /\ r \in networks \cap joined
                      /\ r \in BlueRuns => r \in volumes
    BY DEF GivenIsWhole
  <2>1. Rooted(r) /\ Complete(r)
    BY DEF WInv, Sound, Fresh
  <2>2. Roles(r) = Required(r)
    BY <2>1 DEF Complete
  <2>3. "target" \in Required(r)
    BY DEF Required, BlueRoles, RedRoles
  <2>4. Of(r) # {}
    BY <2>2, <2>3 DEF Roles
  <2> QED BY <2>1, <2>2, <2>4 DEF Rooted, Roles
<1> QED BY <1>1, InitSound, NextKeepsSound, PTL DEF Spec

-----------------------------------------------------------------------------
(* What is left of a run that nobody is about.                             *)

Working(r) == \E h \in Handlers : Subject(h) = r
                                  /\ proc[h].at \in Making \cup Removing
Bare(r) == r \notin networks \cup joined \cup volumes

\* How far the clean-up has got with a run.
Residue(r) ==
    \/ Bare(r)
    \/ /\ Subject(Cleaner) = r
       /\ \/ At(Cleaner, "rmLeave")
          \/ At(Cleaner, "rmNetwork") /\ r \notin joined
          \/ At(Cleaner, "rmVolume") /\ r \notin joined \cup networks

\* The network and the volume of a run are somebody's concern: of its
\* containers, of the request that makes or removes them, of the clean-up, or,
\* after a failed removal, of whoever is asked next.
Clear(r) == r \in loose \/ Of(r) # {} \/ Working(r) \/ Residue(r)

XInv == GInv /\ \A r \in Runs : Clear(r)

LEMMA UntouchedIsClear ==
    ASSUME NEW r \in Runs, Clear(r), Untouched(r),
           r \in loose => r \in loose',
           Working(r) => Working(r)',
           Waits \/ proc[Cleaner].at \notin Removing
    PROVE  Clear(r)'
<1>1. Bare(r) => Bare(r)'
  BY DEF Bare, Untouched
<1>2. CASE Waits
  <2>1. Residue(r) => Residue(r)'
    BY <1>1, <1>2 DEF Residue, Waits, Untouched, At, Subject
  <2> QED BY <2>1 DEF Clear, Untouched
<1>3. CASE proc[Cleaner].at \notin Removing
  <2>1. Residue(r) => Bare(r)
    BY <1>3 DEF Residue, At, Removing
  <2> QED BY <1>1, <2>1 DEF Clear, Untouched, Residue
<1> QED BY <1>2, <1>3

LEMMA StayingWorks ==
    ASSUME NEW r \in Runs, Working(r),
           \A g \in Handlers : proc[g].at \in Making \cup Removing => Stays(g)
    PROVE  Working(r)'
<1>1. PICK h \in Handlers : Subject(h) = r /\ proc[h].at \in Making \cup Removing
  BY DEF Working
<1>2. Subject(h)' = r /\ proc'[h].at \in Making \cup Removing
  BY <1>1 DEF Stays, Subject
<1> QED BY <1>2 DEF Working

\* The place of a request that goes on, or that gives up what it is making.
LEMMA MovedWorks ==
    ASSUME GInv, NEW h \in Handlers, NEW r \in Runs, r = Subject(h),
           \/ GiveUp(h) /\ proc[h].at \in Making
           \/ \E place \in Making \cup Removing : Goto(h, place)
    PROVE  Working(r)'
<1>1. /\ h \in Procs /\ h # Cleaner /\ proc[h] \in Situations
  BY HandlerFacts DEF GInv, LInv
<1>2. \E place \in Making \cup Removing :
         \/ proc' = [proc EXCEPT ![h].at = place]
         \/ proc' = [proc EXCEPT ![h].at = place, ![h].then = "undone"]
  BY <1>1 DEF GiveUp, Goto, Removing
<1>3. proc'[h].at \in Making \cup Removing /\ Subject(h)' = r
  BY <1>1, <1>2 DEF Subject, Situations, GInv, LInv, TInv, TypeOK
<1> QED BY <1>3 DEF Working

LEMMA MakingIsClear ==
    ASSUME GInv, NEW h \in Handlers, NEW r \in Runs, r = Subject(h),
           Inside(h),
           \/ CreateNetwork(h) \/ ConnectGateway(h) \/ CreateVolume(h)
           \/ CreateContainer(h) \/ StartContainer(h)
    PROVE  Clear(r)'
<1>1. /\ h \in Procs /\ h # Cleaner /\ proc[h] \in Situations
      /\ proc[h].at \in Making
  BY HandlerFacts
     DEF GInv, LInv, CreateNetwork, ConnectGateway, CreateVolume,
         CreateContainer, StartContainer, At, Making
<1>2. ASSUME GiveUp(h) PROVE Clear(r)'
  <2>1. Working(r)'
    BY <1>1, <1>2, MovedWorks
  <2> QED BY <2>1 DEF Clear
<1>3. ASSUME NEW place \in Making, Goto(h, place) PROVE Clear(r)'
  <2>1. Working(r)'
    BY <1>3, MovedWorks
  <2> QED BY <2>1 DEF Clear
<1>4. CASE CreateNetwork(h) \/ CreateVolume(h)
  BY <1>2, <1>3, <1>4 DEF CreateNetwork, CreateVolume, Making
<1>5. CASE ConnectGateway(h)
  <2>1. CASE proc' = [proc EXCEPT
                         ![h].at = IF r \in BlueRuns THEN "volume"
                                   ELSE "create",
                         ![h].left = CreateOrder(r)]
    <3>1. proc'[h].at \in {"volume", "create"} /\ Subject(h)' = r
      BY <1>1, <2>1 DEF Subject, Situations, GInv, LInv, TInv, TypeOK
    <3> QED BY <3>1 DEF Clear, Working, Making
  <2> QED BY <1>2, <1>5, <2>1 DEF ConnectGateway
<1>6. CASE CreateContainer(h)
  <2> DEFINE left == Tail(proc[h].left)
  <2>1. CASE proc' = [proc EXCEPT
                         ![h].at = IF left = <<>> THEN "start" ELSE @,
                         ![h].left = IF left = <<>> THEN StartOrder(r)
                                     ELSE left]
    <3> HIDE DEF left
    <3>1. proc'[h].at \in {"start", proc[h].at} /\ Subject(h)' = r
      BY <1>1, <2>1 DEF Subject, Situations, GInv, LInv, TInv, TypeOK
    <3>2. proc'[h].at \in Making
      BY <1>1, <3>1 DEF Making
    <3> QED BY <3>1, <3>2 DEF Clear, Working
  <2> QED BY <1>2, <1>6, <2>1 DEF CreateContainer
<1>7. CASE StartContainer(h)
  <2>1. CASE proc' = [proc EXCEPT ![h].left = Tail(proc[h].left)]
    <3>1. proc'[h].at = proc[h].at /\ Subject(h)' = r
      BY <1>1, <2>1 DEF Subject, Situations, GInv, LInv, TInv, TypeOK
    <3> QED BY <1>1, <3>1 DEF Clear, Working
  <2>2. CASE Made(h) \in containers
    <3>1. Made(h) \in Of(r)'
      BY <1>7, <2>2 DEF StartContainer, Of, Made
    <3> QED BY <3>1 DEF Clear
  <2> QED BY <1>2, <1>7, <2>1, <2>2 DEF StartContainer
<1> QED BY <1>4, <1>5, <1>6, <1>7

LEMMA ReadingIsClear ==
    ASSUME XInv, NEW h \in Handlers, NEW r \in Runs, r = Subject(h),
           Inside(h),
           Enter(h) \/ Join(h) \/ List(h) \/ Inspect(h)
    PROVE  Clear(r)'
<1>1. /\ GInv /\ h \in Procs /\ h # Cleaner /\ proc[h] \in Situations
      /\ proc[h].at \notin Making \cup Removing /\ Clear(r)
  BY HandlerFacts
     DEF XInv, GInv, LInv, Enter, Join, List, Inspect, At, Making, Removing
<1>2. UNCHANGED <<containers, networks, joined, volumes>>
  BY DEF Enter, Join, List, Inspect, daemon
<1>3. loose' = loose
  BY <1>1 DEF Enter, Join, List, Inspect, GiveUp, StayLoose
<1>4. Working(r) => Working(r)'
  <2>1. \A g \in Handlers : proc[g].at \in Making \cup Removing => Stays(g)
    BY <1>1, RequestSpares DEF Request
  <2> QED BY <2>1, StayingWorks
<1>5. Residue(r) => Residue(r)'
  <2>1. Bare(r) => Bare(r)'
    BY <1>2 DEF Bare
  <2>2. CASE Waits
    BY <1>2, <2>1, <2>2 DEF Residue, Waits, At, Subject
  <2>3. CASE Wakes
    BY <2>1, <2>3 DEF Residue, Wakes, At
  <2> QED BY <1>1, <2>2, <2>3, RequestWaits DEF Request
<1> QED BY <1>1, <1>2, <1>3, <1>4, <1>5 DEF Clear, Of

LEMMA RemovingIsClear ==
    ASSUME GInv, NEW h \in Handlers, NEW r \in Runs, r = Subject(h),
           Inside(h), Removal(h)
    PROVE  Clear(r)'
<1>1. /\ h \in Procs /\ h # Cleaner /\ proc[h] \in Situations
      /\ proc[h].at \in Removing /\ Careful(h)
  BY HandlerFacts
     DEF GInv, LInv, Removal, RemoveList, RemoveContainers,
         DisconnectGateway, RemoveNetwork, RemoveVolume, At, Removing
<1>2. ASSUME GiveUp(h) PROVE Clear(r)'
  <2>1. r \in loose'
    BY <1>1, <1>2 DEF GiveUp, StayLoose
  <2> QED BY <2>1 DEF Clear
<1>3. ASSUME NEW place \in Making \cup Removing, Goto(h, place) PROVE Clear(r)'
  <2>1. Working(r)'
    BY <1>3, MovedWorks
  <2> QED BY <2>1 DEF Clear
<1>4. CASE RemoveList(h)
  <2>1. CASE proc' = [proc EXCEPT
                         ![h].at = IF Of(r) = {} THEN "rmLeave"
                                   ELSE "rmContainers",
                         ![h].seen = Of(r)]
    <3>1. proc'[h].at \in {"rmLeave", "rmContainers"} /\ Subject(h)' = r
      BY <1>1, <2>1 DEF Subject, Situations, GInv, LInv, TInv, TypeOK
    <3> QED BY <3>1 DEF Clear, Working, Removing
  <2> QED BY <1>2, <1>4, <2>1 DEF RemoveList
<1>5. CASE RemoveContainers(h) \/ DisconnectGateway(h) \/ RemoveNetwork(h)
  <2>1. {"rmLeave", "rmNetwork", "rmVolume"} \subseteq Making \cup Removing
    BY DEF Removing
  <2> QED BY <1>2, <1>3, <1>5, <2>1
          DEF RemoveContainers, DisconnectGateway, RemoveNetwork
<1>6. CASE RemoveVolume(h)
  <2>1. CASE volumes' = volumes \ {r} /\ UNCHANGED <<networks, joined>>
    <3>1. r \notin joined \cup networks
      BY <1>1, <1>6 DEF RemoveVolume, At, Careful
    <3>2. Bare(r)'
      BY <2>1, <3>1 DEF Bare
    <3> QED BY <3>2 DEF Clear, Residue
  <2> QED BY <1>2, <1>6, <2>1 DEF RemoveVolume
<1> QED BY <1>4, <1>5, <1>6 DEF Removal

LEMMA RequestKeepsClear ==
    ASSUME XInv, NEW h \in Handlers, Request(h), NEW q \in Runs
    PROVE  Clear(q)'
<1> DEFINE r == Subject(h)
<1>1. /\ r \in Runs /\ Inside(h) /\ GInv
      /\ h \in Procs /\ h # Cleaner /\ proc[h] \in Situations
  <2>1. ~At(h, "idle") /\ (~At(h, "queued") \/ proc[h].waits = NoProc)
    BY DEF Request, Enter, Join, List, Inspect, CreateNetwork, ConnectGateway,
           CreateVolume, CreateContainer, StartContainer, Removal, RemoveList,
           RemoveContainers, DisconnectGateway, RemoveNetwork, RemoveVolume, At
  <2> QED BY <2>1, PastTheQueue, HandlerFacts DEF XInv, GInv, LInv
<1>2. CASE q = r
  BY <1>1, <1>2, ReadingIsClear, MakingIsClear, RemovingIsClear DEF Request
<1>3. CASE q # r
  <2>1. Untouched(q)
    BY <1>1, <1>3, RequestIsLocal
  <2>2. q \in loose => q \in loose'
    BY <1>1, <1>3, RequestSpares DEF Shrinks
  <2>3. Working(q) => Working(q)'
    <3> SUFFICES ASSUME Working(q) PROVE Working(q)'
      OBVIOUS
    <3>1. PICK g \in Handlers : /\ Subject(g) = q
                                /\ proc[g].at \in Making \cup Removing
      BY DEF Working
    <3>2. Stays(g)
      BY <1>1, <1>3, <3>1, RequestSpares
    <3> QED BY <3>1, <3>2 DEF Working, Stays, Subject
  <2>4. Waits \/ proc[Cleaner].at \notin Removing
    BY <1>1, RequestWaits DEF Wakes, At, Removing
  <2> QED BY <2>1, <2>2, <2>3, <2>4, UntouchedIsClear DEF XInv
<1> QED BY <1>2, <1>3

\* The clean-up goes through the commands in the same order as a request.
LEMMA CleanUpKeepsClear ==
    ASSUME XInv, CleanUp \/ Timer, NEW q \in Runs
    PROVE  Clear(q)'
<1> DEFINE r == Subject(Cleaner)
           c == proc[Cleaner]
<1>1. /\ GInv /\ Cleaner \in Procs /\ Clear(q)
      /\ c \in Situations /\ FitsCleaner(c)
  BY DEF XInv, Procs, GInv, LInv, TInv, TypeOK, Placed, Fits
<1>2. q \in loose => q \in loose'
  BY <1>1, CleanUpSpares DEF Shrinks
<1>3. Working(q) => Working(q)'
  <2>1. \A g \in Handlers : proc[g].at \in Making \cup Removing => Stays(g)
    BY <1>1, CleanUpSpares DEF Released, Making, Removing
  <2> QED BY <2>1, StayingWorks
<1>4. ASSUME NEW place, Goto(Cleaner, place)
      PROVE  /\ At(Cleaner, place)' /\ Subject(Cleaner)' = r
  BY <1>1, <1>4
     DEF Goto, At, Subject, Situations, GInv, LInv, TInv, TypeOK
<1>5. CASE Removal(Cleaner) /\ q = r
  <2>1. c.at \in Removing
    BY <1>5 DEF Removal, RemoveList, RemoveContainers, DisconnectGateway,
                RemoveNetwork, RemoveVolume, At, Removing
  <2>2. ASSUME GiveUp(Cleaner) PROVE Clear(q)'
    <3>1. q \in loose'
      BY <1>5, <2>1, <2>2 DEF GiveUp, StayLoose
    <3> QED BY <3>1 DEF Clear
  <2>3. ASSUME UNCHANGED containers, Residue(q) => Residue(q)'
        PROVE  Clear(q)'
    BY <1>1, <1>2, <1>3, <2>3 DEF Clear, Of
  <2>4. CASE RemoveList(Cleaner)
    <3>1. CASE proc' = [proc EXCEPT
                           ![Cleaner].at = IF Of(r) = {} THEN "rmLeave"
                                           ELSE "rmContainers",
                           ![Cleaner].seen = Of(r)]
      <4>1. UNCHANGED <<containers, networks, joined, volumes>>
        BY <2>4 DEF RemoveList, daemon
      <4>2. CASE Of(r) = {}
        <5>1. At(Cleaner, "rmLeave")' /\ Subject(Cleaner)' = q
          BY <1>1, <1>5, <3>1, <4>2
             DEF At, Subject, Situations, GInv, LInv, TInv, TypeOK
        <5> QED BY <5>1 DEF Clear, Residue
      <4>3. CASE Of(r) # {}
        BY <1>5, <4>1, <4>3 DEF Clear, Of
      <4> QED BY <4>2, <4>3
    <3> QED BY <2>2, <2>4, <3>1 DEF RemoveList
  <2>5. CASE RemoveContainers(Cleaner)
    <3>1. CASE Goto(Cleaner, "rmLeave")
      <4>1. Residue(q)'
        BY <1>4, <1>5, <3>1 DEF Residue
      <4> QED BY <4>1 DEF Clear
    <3> QED BY <2>2, <2>5, <3>1 DEF RemoveContainers
  <2>6. CASE DisconnectGateway(Cleaner)
    <3>1. CASE Goto(Cleaner, "rmNetwork") /\ joined' = joined \ {r}
      <4>1. Residue(q)'
        BY <1>4, <1>5, <3>1 DEF Residue
      <4> QED BY <4>1 DEF Clear
    <3> QED BY <2>2, <2>6, <3>1 DEF DisconnectGateway
  <2>7. CASE RemoveNetwork(Cleaner)
    <3>1. At(Cleaner, "rmNetwork") /\ UNCHANGED <<containers, joined, volumes>>
      BY <2>7 DEF RemoveNetwork
    <3>2. CASE Goto(Cleaner, "rmVolume") /\ networks' = networks \ {r}
      <4>1. Residue(q) => Residue(q)'
        BY <1>4, <1>5, <3>1, <3>2 DEF Residue, Bare, At
      <4> QED BY <2>3, <3>1, <4>1
    <3> QED BY <2>2, <2>7, <3>2 DEF RemoveNetwork
  <2>8. CASE RemoveVolume(Cleaner)
    <3>1. /\ At(Cleaner, "rmVolume")
          /\ UNCHANGED <<containers, joined, networks>>
      BY <2>8 DEF RemoveVolume
    <3>2. CASE volumes' = volumes \ {r}
      <4>1. Residue(q) => Residue(q)'
        BY <1>5, <3>1, <3>2 DEF Residue, Bare, At
      <4> QED BY <2>3, <3>1, <4>1
    <3> QED BY <2>2, <2>8, <3>2 DEF RemoveVolume
  <2> QED BY <1>5, <2>4, <2>5, <2>6, <2>7, <2>8 DEF Removal
<1>6. CASE Removal(Cleaner) /\ q # r
  <2>1. Untouched(q)
    BY <1>1, <1>6, RemovalIsLocal
  <2>2. Residue(q) => Residue(q)'
    BY <1>6, <2>1 DEF Residue, Bare, Untouched
  <2> QED BY <1>1, <1>2, <1>3, <2>1, <2>2 DEF Clear, Untouched
<1>7. CASE ~Removal(Cleaner)
  <2>1. Untouched(q)
    BY <1>7 DEF Untouched, Fresh, CleanUp, Timer, ListAll, InspectAll,
                CleanRun, daemon, Of
  <2>2. c.at \notin Removing
    BY <1>7 DEF CleanUp, Timer, ListAll, InspectAll, CleanRun, At, Removing
  <2> QED BY <1>1, <1>2, <1>3, <2>1, <2>2, UntouchedIsClear
<1> QED BY <1>5, <1>6, <1>7

LEMMA NextKeepsClear == XInv /\ [Next]_vars => XInv'
<1> SUFFICES ASSUME XInv, [Next]_vars PROVE XInv'
  OBVIOUS
<1>1. GInv /\ GInv'
  BY NextKeepsPromises DEF XInv
<1>2. Cleaner \in Procs /\ \A h \in Handlers : h \in Procs /\ h # Cleaner
  BY CleanerIsNoHandler DEF Procs
<1> SUFFICES ASSUME NEW q \in Runs PROVE Clear(q)'
  BY <1>1 DEF XInv
<1>3. Clear(q)
  BY DEF XInv
<1>4. ASSUME UNCHANGED <<containers, networks, joined, volumes, told, loose>>,
             overdue \subseteq overdue', Waits,
             \A g \in Handlers : proc[g].at \in Making \cup Removing => Stays(g)
      PROVE  Clear(q)'
  <2>1. Untouched(q)
    BY <1>4 DEF Untouched, Of, Fresh
  <2>2. Working(q) => Working(q)'
    BY <1>4, StayingWorks
  <2> QED BY <1>3, <1>4, <2>1, <2>2, UntouchedIsClear
<1>5. ASSUME NEW h \in Handlers, Request(h) PROVE Clear(q)'
  BY <1>5, RequestKeepsClear
<1>6. ASSUME NEW h \in Handlers, NEW r \in Runs,
             NEW op \in {"provision", "get", "destroy"}, Call(h, op, r)
      PROVE  Clear(q)'
  <2>1. \A g \in Handlers \ {h} : proc'[g] = proc[g]
    BY <1>1, <1>2, <1>6 DEF Call, GInv, LInv, TInv, TypeOK
  <2>2. proc[h].at = "idle" /\ Waits
    BY <1>1, <1>2, <1>6 DEF Call, At, Waits, GInv, LInv, TInv, TypeOK
  <2>3. \A g \in Handlers : proc[g].at \in Making \cup Removing => Stays(g)
    BY <2>1, <2>2 DEF Stays, Making, Removing
  <2>4. UNCHANGED <<containers, networks, joined, volumes, told, loose>>
        /\ overdue' = overdue
    BY <1>6 DEF Call, daemon
  <2> QED BY <1>4, <2>2, <2>3, <2>4
<1>7. CASE CleanUp \/ Timer
  BY <1>7, CleanUpKeepsClear
<1>8. CASE (\E c \in containers : Lapse(c) \/ Stop(c)) \/ UNCHANGED vars
  <2>1. /\ UNCHANGED <<containers, networks, joined, volumes, told, loose>>
        /\ overdue \subseteq overdue' /\ UNCHANGED proc
    BY <1>8 DEF Lapse, Stop, vars, daemon
  <2> QED BY <1>4, <2>1 DEF Waits, Stays
<1>9. CASE Crash
  <2>1. /\ UNCHANGED <<containers, networks, joined, volumes>>
        /\ loose' = loose \cup ({Subject(p) : p \in Procs} \ {NoRun})
    BY <1>9 DEF Crash, daemon
  <2>2. CASE q \in loose'
    BY <2>2 DEF Clear
  <2>3. CASE q \notin loose'
    <3>1. q # NoRun /\ \A p \in Procs : Subject(p) # q
      BY <2>1, <2>3, NoRunIsNotARun
    <3>2. ~Working(q) /\ (Residue(q) => Bare(q))
      BY <1>2, <3>1 DEF Working, Residue
    <3>3. Of(q) # {} \/ Bare(q)
      BY <1>3, <2>1, <2>3, <3>2 DEF Clear
    <3> QED BY <2>1, <3>3 DEF Clear, Residue, Bare, Of
  <2> QED BY <2>2, <2>3
<1> QED BY <1>5, <1>6, <1>7, <1>8, <1>9 DEF Next

LEMMA InitClear == Init => XInv
<1>1. ASSUME Init, NEW r \in Runs PROVE Clear(r)
  BY <1>1 DEF Init, Clear, Residue, Bare
<1> QED BY <1>1, InitKeepsPromises DEF XInv

\* Whoever is the last to be about a run takes its network and its volume with
\* it, in any order of requests and clean-ups, or its removal failed
\* (removeRunResources, with and without the lock).
THEOREM NothingIsLeftOver == Spec => []NothingLeaks
<1>1. XInv => NothingLeaks
  <2> SUFFICES ASSUME XInv, NEW r \in Runs \ loose, Of(r) = {},
                      \A p \in Procs : Busy(p) => Subject(p) # r
                                                  /\ r \notin proc[p].todo
               PROVE  r \notin networks \cup joined \cup volumes
    BY DEF NothingLeaks
  <2>1. Working(r) \/ Residue(r)
    BY DEF XInv, Clear
  <2>2. ~Working(r)
    BY DEF Working, Procs, Busy, At, Making, Removing
  <2>3. Bare(r)
    BY <2>1, <2>2 DEF Residue, Procs, Busy, At
  <2> QED BY <2>3 DEF Bare
<1> QED BY <1>1, InitClear, NextKeepsClear, PTL DEF Spec

-----------------------------------------------------------------------------
(* Nobody waits for ever behind others.                                    *)

\* The open requests about r, in the order in which they wait.
InLine(r, line) ==
    /\ line \in Seq(Handlers)
    /\ \A i \in 1..Len(line) :
          /\ Busy(line[i]) /\ Subject(line[i]) = r
          /\ proc[line[i]].waits = IF i = 1 THEN NoProc ELSE line[i-1]
    /\ \A h \in Handlers : Busy(h) /\ Subject(h) = r => \E i \in 1..Len(line) : line[i] = h
    /\ tail[r] = IF line = <<>> THEN NoProc ELSE line[Len(line)]

InOrder == \A r \in Runs : \E line : InLine(r, line)

QInv == LInv /\ InOrder

LEMMA CarryingKeepsOrder == ASSUME QInv, Carries PROVE InOrder'
<1> SUFFICES ASSUME NEW r \in Runs, NEW line, InLine(r, line) PROVE InLine(r, line)'
  BY DEF QInv, InOrder
<1>1. \A h \in Handlers : /\ Busy(h)' = Busy(h) /\ Subject(h)' = Subject(h)
                          /\ proc'[h].waits = proc[h].waits
  BY DEF Carries, Busy, At, Subject
<1>2. \A i \in 1..Len(line) : line[i] \in Handlers
  BY DEF InLine
<1>3. tail'[r] = tail[r]
  BY DEF Carries
<1> QED BY <1>1, <1>2, <1>3 DEF InLine

LEMMA AnsweringKeepsOrder == ASSUME QInv, Answers PROVE InOrder'
<1> SUFFICES ASSUME NEW r \in Runs, NEW line, InLine(r, line)
             PROVE  \E next : InLine(r, next)'
  BY DEF QInv, InOrder
<1> PICK P \in SUBSET Procs : Leave(P) /\ \A h \in P \cap Handlers : Inside(h)
  BY DEF Answers
<1>1. \A h \in Handlers : /\ proc[h].waits \in Handlers \cup {NoProc}
                          /\ h \in Procs /\ h # NoProc /\ proc[h] \in Situations
  BY NoProcIsNotAProc DEF QInv, LInv, TInv, TypeOK, Situations, Procs
<1>2. \A h \in P \cap Handlers : ~Busy(h)'
  BY <1>1 DEF Leave, Busy, At, Idle
<1>3. \A h \in Handlers \ P :
         /\ Busy(h)' = Busy(h) /\ Subject(h)' = Subject(h)
         /\ proc'[h].waits = IF proc[h].waits \in P THEN NoProc ELSE proc[h].waits
  BY <1>1 DEF Leave, Situations, Busy, At, Subject
<1>4. line \in Seq(Handlers) /\ Len(line) \in Nat /\ \A i \in 1..Len(line) : line[i] \in Handlers
  BY DEF InLine
<1>5. \A i \in 2..Len(line) : line[i] \notin P
  <2> SUFFICES ASSUME NEW i \in 2..Len(line), line[i] \in P PROVE FALSE
    OBVIOUS
  <2>1. i \in 1..Len(line) /\ i - 1 \in 1..Len(line) /\ i # 1
    BY <1>4
  <2>2. proc[line[i]].waits = line[i-1] /\ line[i-1] \in Handlers /\ line[i] \in Handlers
    BY <1>4, <2>1 DEF InLine
  <2>3. Inside(line[i])
    BY <2>2
  <2> QED BY <1>1, <2>2, <2>3 DEF Inside
<1>6. tail'[r] = IF tail[r] \in P THEN NoProc ELSE tail[r]
  BY DEF Leave
<1>7. CASE line = <<>> \/ line[1] \notin P
  <2>1. \A i \in 1..Len(line) : line[i] \in Handlers \ P
    BY <1>4, <1>5, <1>7
  <2>2. \A i \in 1..Len(line) :
           proc'[line[i]].waits = IF i = 1 THEN NoProc ELSE line[i-1]
    <3> SUFFICES ASSUME NEW i \in 1..Len(line)
                 PROVE  proc'[line[i]].waits = IF i = 1 THEN NoProc ELSE line[i-1]
      OBVIOUS
    <3>1. proc[line[i]].waits = IF i = 1 THEN NoProc ELSE line[i-1]
      BY DEF InLine
    <3>2. i # 1 => line[i-1] \notin P
      <4>1. i # 1 => i - 1 \in 1..Len(line)
        BY <1>4
      <4> QED BY <2>1, <4>1
    <3> QED BY <1>3, <2>1, <3>1, <3>2
  <2>3. \A i \in 1..Len(line) : Busy(line[i])' /\ Subject(line[i])' = r
    BY <1>3, <2>1 DEF InLine
  <2>4. \A h \in Handlers : Busy(h)' /\ Subject(h)' = r => \E i \in 1..Len(line) : line[i] = h
    BY <1>2, <1>3 DEF InLine
  <2>5. tail'[r] = IF line = <<>> THEN NoProc ELSE line[Len(line)]
    <3>1. CASE line = <<>>
      BY <1>6, <3>1 DEF InLine
    <3>2. CASE line # <<>>
      <4>1. Len(line) \in 1..Len(line)
        BY <1>4, <3>2
      <4> QED BY <1>6, <2>1, <3>2, <4>1 DEF InLine
    <3> QED BY <3>1, <3>2
  <2>6. InLine(r, line)'
    BY <1>4, <2>2, <2>3, <2>4, <2>5 DEF InLine
  <2> QED BY <2>6
<1>8. CASE line # <<>> /\ line[1] \in P
  <2> PICK next : next = Tail(line)
    OBVIOUS
  <2>1. /\ next \in Seq(Handlers) /\ Len(line) >= 1 /\ Len(next) = Len(line) - 1
        /\ \A i \in 1..Len(next) : next[i] = line[i+1]
    BY <1>4, <1>8
  <2>2. \A i \in 1..Len(next) : i + 1 \in 2..Len(line) /\ i + 1 \in 1..Len(line)
    BY <1>4, <2>1
  <2>3. \A i \in 1..Len(next) : next[i] \in Handlers \ P
    BY <1>4, <1>5, <2>1, <2>2
  <2>4. \A i \in 1..Len(next) : Busy(next[i])' /\ Subject(next[i])' = r
    BY <1>3, <2>1, <2>2, <2>3 DEF InLine
  <2>5. \A i \in 1..Len(next) :
           proc'[next[i]].waits = IF i = 1 THEN NoProc ELSE next[i-1]
    <3> SUFFICES ASSUME NEW i \in 1..Len(next)
                 PROVE  proc'[next[i]].waits = IF i = 1 THEN NoProc ELSE next[i-1]
      OBVIOUS
    <3>1. next[i] = line[i+1] /\ i + 1 # 1
      BY <2>1
    <3>2. proc[next[i]].waits = line[i]
      <4>1. proc[line[i+1]].waits = IF i + 1 = 1 THEN NoProc ELSE line[(i+1)-1]
        BY <2>2 DEF InLine
      <4>2. (i + 1) - 1 = i
        OBVIOUS
      <4> QED BY <3>1, <4>1, <4>2
    <3>3. CASE i = 1
      BY <1>3, <1>8, <2>3, <3>2, <3>3
    <3>4. CASE i # 1
      <4>1. i - 1 \in 1..Len(next) /\ (i - 1) + 1 = i
        BY <2>1, <3>4
      <4>2. next[i-1] = line[i] /\ next[i-1] \notin P
        BY <2>1, <2>3, <4>1
      <4> QED BY <1>3, <2>3, <3>2, <3>4, <4>2
    <3> QED BY <3>3, <3>4
  <2>6. ASSUME NEW h \in Handlers, Busy(h)', Subject(h)' = r
        PROVE  \E i \in 1..Len(next) : next[i] = h
    <3>1. h \notin P /\ Busy(h) /\ Subject(h) = r
      BY <1>2, <1>3, <2>6
    <3>2. PICK j \in 1..Len(line) : line[j] = h
      BY <3>1 DEF InLine
    <3>3. j # 1
      BY <1>8, <3>1, <3>2
    <3>4. j - 1 \in 1..Len(next) /\ (j - 1) + 1 = j
      BY <1>4, <2>1, <3>3
    <3>5. next[j-1] = h
      BY <2>1, <3>2, <3>4
    <3> QED BY <3>4, <3>5
  <2>7. tail'[r] = IF next = <<>> THEN NoProc ELSE next[Len(next)]
    <3>1. tail[r] = line[Len(line)]
      BY <1>8 DEF InLine
    <3>2. CASE Len(next) = 0
      <4>1. Len(line) = 1
        BY <1>4, <2>1, <3>2
      <4>2. next = <<>>
        BY <2>1, <3>2
      <4> QED BY <1>6, <1>8, <3>1, <4>1, <4>2
    <3>3. CASE Len(next) # 0
      <4>1. next # <<>> /\ Len(next) \in 1..Len(next) /\ Len(next) + 1 = Len(line)
        BY <1>4, <2>1, <3>3
      <4>2. next[Len(next)] = line[Len(line)] /\ next[Len(next)] \notin P
        BY <2>1, <2>3, <4>1
      <4> QED BY <1>6, <3>1, <4>1, <4>2
    <3> QED BY <3>2, <3>3
  <2>8. InLine(r, next)'
    BY <2>1, <2>4, <2>5, <2>6, <2>7 DEF InLine
  <2> QED BY <2>8
<1> QED BY <1>7, <1>8

LEMMA CallingKeepsOrder ==
    ASSUME QInv, NEW h \in Handlers, NEW r \in Runs,
           NEW op \in {"provision", "get", "destroy"}, Call(h, op, r)
    PROVE  InOrder'
<1> SUFFICES ASSUME NEW q \in Runs, NEW line, InLine(q, line)
             PROVE  \E next : InLine(q, next)'
  BY DEF QInv, InOrder
<1>1. \A g \in Handlers : g \in Procs
  BY DEF Procs
<1>2. /\ proc'[h].at = "queued" /\ proc'[h].run = r /\ proc'[h].waits = tail[r]
      /\ \A g \in Handlers \ {h} : proc'[g] = proc[g]
  BY <1>1 DEF Call, QInv, LInv, TInv, TypeOK, Idle
<1>3. /\ tail'[r] = h
      /\ \A p \in Runs \ {r} : tail'[p] = tail[p]
  BY DEF Call, QInv, LInv, TInv, TypeOK
<1>4. line \in Seq(Handlers) /\ Len(line) \in Nat /\ \A i \in 1..Len(line) : line[i] \in Handlers
  BY DEF InLine
<1>5. \A i \in 1..Len(line) : line[i] # h
  BY DEF InLine, Call, Busy
<1>6. \A g \in Handlers \ {h} : Busy(g)' = Busy(g) /\ Subject(g)' = Subject(g)
  BY <1>2 DEF Busy, At, Subject
<1>7. Busy(h)' /\ Subject(h)' = r
  BY <1>2 DEF Busy, At, Subject
<1>8. \A i \in 1..Len(line) : /\ Busy(line[i])' /\ Subject(line[i])' = q
                              /\ proc'[line[i]].waits = proc[line[i]].waits
  BY <1>2, <1>4, <1>5, <1>6 DEF InLine
<1>9. CASE q # r
  <2>1. \A g \in Handlers : Busy(g)' /\ Subject(g)' = q => \E i \in 1..Len(line) : line[i] = g
    BY <1>6, <1>7, <1>9 DEF InLine
  <2>2. tail'[q] = tail[q]
    BY <1>3, <1>9
  <2>3. InLine(q, line)'
    BY <1>8, <2>1, <2>2 DEF InLine
  <2> QED BY <2>3
<1>10. CASE q = r
  <2> PICK next : next = Append(line, h)
    OBVIOUS
  <2>1. /\ next \in Seq(Handlers) /\ Len(next) = Len(line) + 1 /\ next[Len(line) + 1] = h
        /\ \A i \in 1..Len(line) : next[i] = line[i]
    BY <1>4
  <2>2. next # <<>>
    BY <1>4, <2>1
  <2>3. \A i \in 1..Len(next) : i \in 1..Len(line) \/ i = Len(line) + 1
    BY <1>4, <2>1
  <2>4. \A i \in 1..Len(next) : Busy(next[i])' /\ Subject(next[i])' = r
    BY <1>7, <1>8, <1>10, <2>1, <2>3
  <2>5. \A i \in 1..Len(next) :
           proc'[next[i]].waits = IF i = 1 THEN NoProc ELSE next[i-1]
    <3> SUFFICES ASSUME NEW i \in 1..Len(next)
                 PROVE  proc'[next[i]].waits = IF i = 1 THEN NoProc ELSE next[i-1]
      OBVIOUS
    <3>1. CASE i \in 1..Len(line)
      <4>1. i # 1 => i - 1 \in 1..Len(line)
        BY <1>4, <3>1
      <4> QED BY <1>8, <2>1, <3>1, <4>1 DEF InLine
    <3>2. CASE i = Len(line) + 1
      <4>1. proc'[next[i]].waits = tail[r]
        BY <1>2, <2>1, <3>2
      <4>2. CASE line = <<>>
        <5>1. i = 1
          BY <3>2, <4>2
        <5> QED BY <1>10, <4>1, <4>2, <5>1 DEF InLine
      <4>3. CASE line # <<>>
        <5>1. Len(line) \in 1..Len(line) /\ i # 1 /\ i - 1 = Len(line)
          BY <1>4, <3>2, <4>3
        <5>2. next[i-1] = line[Len(line)]
          BY <2>1, <5>1
        <5> QED BY <1>10, <4>1, <4>3, <5>1, <5>2 DEF InLine
      <4> QED BY <4>2, <4>3
    <3> QED BY <2>3, <3>1, <3>2
  <2>6. ASSUME NEW g \in Handlers, Busy(g)', Subject(g)' = r
        PROVE  \E i \in 1..Len(next) : next[i] = g
    <3>1. CASE g = h
      <4>1. Len(line) + 1 \in 1..Len(next)
        BY <1>4, <2>1
      <4> QED BY <2>1, <3>1, <4>1
    <3>2. CASE g # h
      <4>1. PICK i \in 1..Len(line) : line[i] = g
        BY <1>6, <1>10, <2>6, <3>2 DEF InLine
      <4>2. i \in 1..Len(next) /\ next[i] = g
        BY <1>4, <2>1, <4>1
      <4> QED BY <4>2
    <3> QED BY <3>1, <3>2
  <2>7. tail'[r] = IF next = <<>> THEN NoProc ELSE next[Len(next)]
    BY <1>3, <2>1, <2>2
  <2>8. InLine(r, next)'
    BY <2>1, <2>4, <2>5, <2>6, <2>7 DEF InLine
  <2> QED BY <1>10, <2>8
<1> QED BY <1>9, <1>10

LEMMA NobodyIsInOrder ==
    /\ (\A r \in Runs : tail[r] = NoProc) /\ (\A h \in Handlers : ~Busy(h)) => InOrder
    /\ (\A r \in Runs : tail'[r] = NoProc) /\ (\A h \in Handlers : ~Busy(h)') => InOrder'
<1> PICK line : line = <<>>
  OBVIOUS
<1>1. line \in Seq(Handlers) /\ Len(line) = 0 /\ 1..0 = {}
  OBVIOUS
<1>2. ASSUME \A r \in Runs : tail[r] = NoProc, \A h \in Handlers : ~Busy(h)
      PROVE  InOrder
  BY <1>1, <1>2 DEF InLine, InOrder
<1>3. ASSUME \A r \in Runs : tail'[r] = NoProc, \A h \in Handlers : ~Busy(h)'
      PROVE  InOrder'
  BY <1>1, <1>3 DEF InLine, InOrder
<1> QED BY <1>2, <1>3

LEMMA NextInOrder == QInv /\ [Next]_vars => QInv'
<1> SUFFICES ASSUME QInv, [Next]_vars PROVE QInv'
  OBVIOUS
<1>1. LInv'
  BY NextLocked DEF QInv
<1> SUFFICES InOrder'
  BY <1>1 DEF QInv
<1>2. Cleaner \in Procs /\ Handlers \subseteq Procs
  BY DEF Procs
<1>3. ASSUME Carries \/ Answers PROVE InOrder'
  BY <1>3, CarryingKeepsOrder, AnsweringKeepsOrder
<1>4. ASSUME NEW h \in Handlers, Request(h) PROVE Carries \/ Answers
  BY <1>2, <1>4, RequestIsEither, RemovalIsEither DEF Request, QInv
<1>5. ASSUME NEW h \in Handlers, NEW r \in Runs,
             NEW op \in {"provision", "get", "destroy"}, Call(h, op, r)
      PROVE  InOrder'
  BY <1>5, CallingKeepsOrder
<1>6. CASE CleanUp \/ Timer
  BY <1>2, <1>3, <1>6, CleanUpIsEither, RemovalIsEither DEF CleanUp, QInv
<1>7. CASE Crash
  <2>1. \A h \in Handlers : ~Busy(h)'
    BY <1>2, <1>7 DEF Crash, Busy, At, Idle
  <2>2. \A r \in Runs : tail'[r] = NoProc
    BY <1>7 DEF Crash
  <2> QED BY <2>1, <2>2, NobodyIsInOrder
<1>8. CASE (\E c \in containers : Lapse(c) \/ Stop(c)) \/ UNCHANGED vars
  <2>1. UNCHANGED <<proc, tail>>
    BY <1>8 DEF Lapse, Stop, vars
  <2>2. Carries
    BY <2>1 DEF Carries
  <2> QED BY <1>3, <2>2
<1> QED BY <1>3, <1>4, <1>5, <1>6, <1>7, <1>8 DEF Next

LEMMA InitInOrder == Init => QInv
<1> SUFFICES ASSUME Init PROVE QInv
  OBVIOUS
<1>1. \A h \in Handlers : ~Busy(h)
  BY DEF Init, Procs, Busy, At, Idle
<1>2. \A r \in Runs : tail[r] = NoProc
  BY DEF Init
<1> QED BY <1>1, <1>2, InitLocked, NobodyIsInOrder DEF QInv

\* A provision that has joined the clean-up has joined one that is under way.
Attended == \A h \in Handlers : At(h, "join") => Busy(Cleaner)

AInv == GInv /\ Attended

LEMMA JoiningIsAttended ==
    ASSUME AInv, NEW h \in Handlers, Request(h)
    PROVE  proc'[h].at # "join" \/ Busy(Cleaner)'
<1>1. /\ h \in Procs /\ h # Cleaner /\ Cleaner \in Procs
      /\ proc[h] \in Situations /\ proc \in [Procs -> Situations]
  BY HandlerFacts DEF Procs, AInv, GInv, LInv, TInv, TypeOK
<1>2. ASSUME Leave({h}) PROVE proc'[h].at # "join"
  BY <1>1, <1>2 DEF Leave, Idle
<1>3. ASSUME NEW place, Goto(h, place), place # "join" PROVE proc'[h].at # "join"
  BY <1>1, <1>3 DEF Goto, Situations
<1>4. ASSUME GiveUp(h) PROVE proc'[h].at # "join"
  <2>1. \/ Leave({h})
        \/ proc' = [proc EXCEPT ![h].at = "rmList", ![h].then = "undone"]
    BY <1>1, <1>4 DEF GiveUp
  <2> QED BY <1>1, <1>2, <2>1 DEF Situations
<1>5. CASE Enter(h) \/ List(h) \/ Inspect(h)
  BY <1>1, <1>2, <1>3, <1>4, <1>5 DEF Enter, List, Inspect, Situations
<1>6. CASE Join(h)
  <2>1. proc'[Cleaner] = IF At(Cleaner, "idle") THEN Cleaning ELSE proc[Cleaner]
    BY <1>1, <1>6 DEF Join
  <2> QED BY <2>1 DEF Busy, At, Cleaning, Idle
<1>7. CASE \/ CreateNetwork(h) \/ ConnectGateway(h) \/ CreateVolume(h)
           \/ StartContainer(h)
  BY <1>1, <1>2, <1>3, <1>4, <1>7
     DEF CreateNetwork, ConnectGateway, CreateVolume, StartContainer, Situations, At
<1>8. CASE CreateContainer(h)
  BY <1>1, <1>4, <1>8 DEF CreateContainer, Situations, At
<1>9. CASE Removal(h)
  <2>1. AfterRemoval(h) => Leave({h}) \/ Goto(h, "network")
    <3>1. proc[h].then \in {"answer", "create", "undone", "destroyed"}
      BY <1>1 DEF Situations
    <3> QED BY <1>1, <3>1 DEF AfterRemoval
  <2>2. CASE RemoveList(h)
    BY <1>1, <1>4, <2>2 DEF RemoveList, Situations
  <2>3. CASE RemoveContainers(h) \/ DisconnectGateway(h) \/ RemoveNetwork(h)
    BY <1>3, <1>4, <2>3 DEF RemoveContainers, DisconnectGateway, RemoveNetwork
  <2>4. CASE RemoveVolume(h)
    BY <1>2, <1>3, <1>4, <2>1, <2>4 DEF RemoveVolume
  <2> QED BY <1>9, <2>2, <2>3, <2>4 DEF Removal
<1> QED BY <1>5, <1>6, <1>7, <1>8, <1>9 DEF Request

\* The clean-up ends for all who have joined it.
LEMMA CleanUpAttends ==
    ASSUME AInv, CleanUp \/ Timer
    PROVE  Busy(Cleaner)' \/ \A g \in Handlers : proc'[g].at # "join"
<1>1. /\ Cleaner \in Procs /\ proc \in [Procs -> Situations]
      /\ \A g \in Handlers : g \in Procs /\ g # Cleaner
  BY HandlerFacts DEF Procs, AInv, GInv, LInv, TInv, TypeOK
<1>2. ASSUME NEW ok \in BOOLEAN, Settle(ok)
      PROVE  \A g \in Handlers : proc'[g].at # "join"
  <2> SUFFICES ASSUME NEW g \in Handlers PROVE proc'[g].at # "join"
    OBVIOUS
  <2>1. proc[g] \in Situations /\ g \in Procs /\ g # Cleaner
    BY <1>1
  <2>2. CASE At(g, "join")
    <3>1. proc'[g] = Idle \/ proc'[g] = [proc[g] EXCEPT !.at = "list"]
      BY <1>2, <2>1, <2>2 DEF Settle, Leave
    <3> QED BY <2>1, <3>1 DEF Idle, Situations
  <2>3. CASE ~At(g, "join")
    <3>1. proc'[g] \in {Idle, proc[g], [proc[g] EXCEPT !.waits = NoProc]}
      BY <1>2, <2>1, <2>3 DEF Settle, Leave
    <3> QED BY <2>1, <2>3, <3>1 DEF Idle, Situations, At
  <2> QED BY <2>2, <2>3
<1>3. ASSUME GiveUp(Cleaner) PROVE \A g \in Handlers : proc'[g].at # "join"
  BY <1>2, <1>3 DEF GiveUp
<1>4. ASSUME NEW place, Goto(Cleaner, place), place # "idle" PROVE Busy(Cleaner)'
  BY <1>1, <1>4 DEF Goto, Busy, At, Situations
<1>5. CASE ListAll \/ InspectAll \/ Timer
  BY <1>1, <1>2, <1>3, <1>5 DEF ListAll, InspectAll, Timer, Busy, At, Situations, Cleaning, Idle
<1>6. CASE \E r \in Runs : CleanRun(r)
  BY <1>1, <1>6 DEF CleanRun, Busy, At, Situations
<1>7. CASE Removal(Cleaner)
  <2>1. AfterRemoval(Cleaner) => Goto(Cleaner, "next") \/ Settle(TRUE)
    BY DEF AfterRemoval
  <2>2. CASE RemoveList(Cleaner)
    BY <1>1, <1>3, <2>2 DEF RemoveList, Busy, At, Situations
  <2>3. CASE RemoveContainers(Cleaner) \/ DisconnectGateway(Cleaner) \/ RemoveNetwork(Cleaner)
    BY <1>3, <1>4, <2>3 DEF RemoveContainers, DisconnectGateway, RemoveNetwork
  <2>4. CASE RemoveVolume(Cleaner)
    BY <1>2, <1>3, <1>4, <2>1, <2>4 DEF RemoveVolume
  <2> QED BY <1>7, <2>2, <2>3, <2>4 DEF Removal
<1> QED BY <1>5, <1>6, <1>7 DEF CleanUp

LEMMA NextAttended == AInv /\ [Next]_vars => AInv'
<1> SUFFICES ASSUME AInv, [Next]_vars PROVE AInv'
  OBVIOUS
<1>1. GInv'
  BY NextKeepsPromises DEF AInv
<1> SUFFICES Attended'
  BY <1>1 DEF AInv
<1>2. /\ Cleaner \in Procs /\ proc \in [Procs -> Situations]
      /\ \A g \in Handlers : g \in Procs /\ g # Cleaner
  BY HandlerFacts DEF Procs, AInv, GInv, LInv, TInv, TypeOK
<1>3. ASSUME NEW h \in Handlers, Request(h) PROVE Attended'
  <2>1. \A g \in Handlers \ {h} : proc'[g].at = proc[g].at
    BY <1>3, RequestSpares DEF AInv, Stays
  <2>2. Busy(Cleaner) => Busy(Cleaner)'
    BY <1>3, RequestWaits DEF AInv, Waits, Wakes, Busy, At, Cleaning
  <2>3. proc'[h].at # "join" \/ Busy(Cleaner)'
    BY <1>3, JoiningIsAttended
  <2> QED BY <2>1, <2>2, <2>3 DEF AInv, Attended, At
<1>4. CASE CleanUp \/ Timer
  BY <1>4, CleanUpAttends DEF Attended, At
<1>5. ASSUME NEW h \in Handlers, NEW r \in Runs,
             NEW op \in {"provision", "get", "destroy"}, Call(h, op, r)
      PROVE  Attended'
  <2>1. proc'[h].at = "queued" /\ \A p \in Procs \ {h} : proc'[p] = proc[p]
    BY <1>2, <1>5 DEF Call, Idle
  <2> QED BY <1>2, <2>1 DEF AInv, Attended, At, Busy
<1>6. CASE Crash
  BY <1>2, <1>6 DEF Crash, Attended, At, Idle
<1>7. CASE (\E c \in containers : Lapse(c) \/ Stop(c)) \/ UNCHANGED vars
  <2>1. proc' = proc
    BY <1>7 DEF Lapse, Stop, vars
  <2> QED BY <2>1 DEF AInv, Attended, At, Busy
<1> QED BY <1>3, <1>4, <1>5, <1>6, <1>7 DEF Next

LEMMA InitAttended == Init => AInv
<1>1. Init => Attended
  BY DEF Init, Attended, At, Idle, Procs
<1> QED BY <1>1, InitKeepsPromises DEF AInv

\* The promises of withRunLock are a queue: the requests about a run have the
\* lock in the order in which they came, and the map holds the last of them.
THEOREM LockIsAQueue == Spec => []InOrder
<1>1. QInv => InOrder
  BY DEF QInv
<1> QED BY <1>1, InitInOrder, NextInOrder, PTL DEF Spec

\* Waiting comes to an end at somebody: as long as a request is open, one about
\* the same run has the lock; and if that one waits for the clean-up, then the
\* clean-up, which waits for nobody, is under way (withRunLock,
\* cleanupExpired).
THEOREM SomebodyGoesOn ==
    Spec => [](\A g \in Handlers : Busy(g) =>
                 \E h \in Handlers : /\ Inside(h) /\ Subject(h) = Subject(g)
                                     /\ At(h, "join") => Busy(Cleaner))
<1>1. ASSUME QInv, AInv, NEW g \in Handlers, Busy(g)
      PROVE  \E h \in Handlers : /\ Inside(h) /\ Subject(h) = Subject(g)
                                 /\ At(h, "join") => Busy(Cleaner)
  <2>1. Subject(g) \in Runs
    BY <1>1, HandlerFacts DEF QInv, LInv, Busy
  <2>2. PICK line : InLine(Subject(g), line)
    BY <1>1, <2>1 DEF QInv, InOrder
  <2>3. 1 \in 1..Len(line)
    <3>1. PICK i \in 1..Len(line) : line[i] = g
      BY <1>1, <2>2 DEF InLine
    <3>2. Len(line) \in Nat
      BY <2>2 DEF InLine
    <3> QED BY <3>1, <3>2
  <2>4. line[1] \in Handlers /\ Inside(line[1]) /\ Subject(line[1]) = Subject(g)
    BY <2>2, <2>3 DEF InLine, Inside
  <2> QED BY <1>1, <2>4 DEF AInv, Attended
<1>2. Spec => []QInv
  BY InitInOrder, NextInOrder, PTL DEF Spec
<1>3. Spec => []AInv
  BY InitAttended, NextAttended, PTL DEF Spec
<1>4. QInv /\ AInv => \A g \in Handlers : Busy(g) =>
                 \E h \in Handlers : /\ Inside(h) /\ Subject(h) = Subject(g)
                                     /\ At(h, "join") => Busy(Cleaner)
  BY <1>1
<1> QED BY <1>2, <1>3, <1>4, PTL

\* The clean-up that goes on to the next run has one to go on to.
HasNext == At(Cleaner, "next") => proc[Cleaner].todo # {}

LEMMA NextHasNext == GInv /\ HasNext /\ [Next]_vars => HasNext'
<1> SUFFICES ASSUME GInv, HasNext, [Next]_vars PROVE HasNext'
  OBVIOUS
<1>1. /\ Cleaner \in Procs /\ proc \in [Procs -> Situations]
      /\ \A g \in Handlers : g \in Procs /\ g # Cleaner
  BY HandlerFacts DEF Procs, GInv, LInv, TInv, TypeOK
<1>2. ASSUME proc'[Cleaner].at # "next" PROVE HasNext'
  BY <1>2 DEF HasNext, At
<1>3. ASSUME NEW ok \in BOOLEAN, Settle(ok) PROVE HasNext'
  BY <1>1, <1>2, <1>3 DEF Settle, Leave, Idle
<1>4. ASSUME NEW h \in Handlers, Request(h) PROVE HasNext'
  BY <1>2, <1>4, RequestWaits DEF Waits, Wakes, HasNext, At, Cleaning, Idle
<1>5. ASSUME GiveUp(Cleaner) PROVE HasNext'
  BY <1>3, <1>5 DEF GiveUp
<1>6. ASSUME NEW place, Goto(Cleaner, place), place # "next" PROVE HasNext'
  BY <1>1, <1>2, <1>6 DEF Goto, Situations
<1>7. CASE ListAll
  BY <1>1, <1>2, <1>3, <1>5, <1>7 DEF ListAll, Situations
<1>8. CASE InspectAll
  <2>1. CASE /\ proc[Cleaner].seen \subseteq containers
             /\ ~(GiveUp(Cleaner) \/ Settle(TRUE))
    BY <1>1, <1>8, <2>1 DEF InspectAll, HasNext, At, Situations
  <2>2. CASE GiveUp(Cleaner) \/ Settle(TRUE)
    BY <1>3, <1>5, <2>2
  <2> QED BY <1>8, <2>1, <2>2 DEF InspectAll
<1>9. ASSUME NEW r \in Runs, CleanRun(r) PROVE HasNext'
  BY <1>1, <1>2, <1>9 DEF CleanRun, Situations
<1>10. CASE Removal(Cleaner)
  <2>1. AfterRemoval(Cleaner) => HasNext'
    <3>1. CASE Settle(TRUE)
      BY <1>3, <3>1
    <3>2. CASE Goto(Cleaner, "next") /\ proc[Cleaner].todo # {}
      BY <1>1, <3>2 DEF Goto, HasNext, Situations
    <3> QED BY <3>1, <3>2 DEF AfterRemoval
  <2>2. CASE RemoveList(Cleaner)
    BY <1>1, <1>2, <1>5, <2>2 DEF RemoveList, Situations
  <2>3. CASE RemoveContainers(Cleaner) \/ DisconnectGateway(Cleaner) \/ RemoveNetwork(Cleaner)
    BY <1>5, <1>6, <2>3 DEF RemoveContainers, DisconnectGateway, RemoveNetwork
  <2>4. CASE RemoveVolume(Cleaner)
    BY <1>5, <2>1, <2>4 DEF RemoveVolume
  <2> QED BY <1>10, <2>2, <2>3, <2>4 DEF Removal
<1>11. CASE Timer \/ Crash
  <2>1. proc'[Cleaner] \in {Idle, Cleaning}
    BY <1>1, <1>11 DEF Timer, Crash
  <2>2. Idle.at = "idle" /\ Cleaning.at = "list"
    BY DEF Idle, Cleaning
  <2> QED BY <1>2, <2>1, <2>2
<1>12. ASSUME NEW h \in Handlers, NEW r \in Runs,
              NEW op \in {"provision", "get", "destroy"}, Call(h, op, r)
       PROVE  HasNext'
  BY <1>1, <1>12 DEF Call, HasNext, At
<1>13. CASE (\E c \in containers : Lapse(c) \/ Stop(c)) \/ UNCHANGED vars
  BY <1>13 DEF Lapse, Stop, vars, HasNext, At
<1> QED BY <1>4, <1>7, <1>8, <1>9, <1>10, <1>11, <1>12, <1>13 DEF Next, CleanUp

\* As long as a request is open, the guard of one of the actions holds: of a
\* request about the same run that has the lock and something left to create or
\* start, or of the clean-up, which has a next run to go on to.  No state is
\* reached in which everybody waits for somebody (withRunLock, cleanupExpired).
THEOREM SomebodyHasAStep ==
    Spec => []((\E g \in Handlers : Busy(g))
               => CleanUpGoes \/ \E h \in Handlers : Goes(h))
<1>1. ASSUME NEW h \in Handlers, GInv, HasNext, Inside(h), At(h, "join") => Busy(Cleaner)
      PROVE  CleanUpGoes \/ Goes(h)
  <2>1. /\ h \in Procs /\ h # Cleaner /\ Cleaner \in Procs
        /\ proc[h] \in Situations
        /\ FitsHandler(proc[h]) /\ FitsCleaner(proc[Cleaner])
    BY <1>1, HandlerFacts DEF Procs, GInv, LInv, TInv, TypeOK, Placed, Fits
  <2>2. CASE At(h, "join")
    <3>1. /\ proc[Cleaner].at # "idle"
          /\ proc[Cleaner].at \in {"idle", "list", "inspect", "next"} \cup Removing
          /\ proc[Cleaner].at = "next" => proc[Cleaner].todo # {}
      BY <1>1, <2>1, <2>2 DEF Busy, At, FitsCleaner, HasNext
    <3> QED BY <3>1 DEF CleanUpGoes, At
  <2>3. CASE ~At(h, "join")
    <3>1. /\ proc[h].at \in Places /\ proc[h].op \in Ops
          /\ proc[h].at \notin {"idle", "join", "next"} /\ proc[h].op # "clean"
          /\ proc[h].at \in {"volume", "create", "start"} => proc[h].left # <<>>
      BY <1>1, <2>1, <2>3 DEF Situations, FitsHandler, Inside, Busy, At
    <3> QED BY <1>1, <3>1 DEF Goes, Places, Ops, Making, At
  <2> QED BY <2>2, <2>3
<1>2. GInv /\ HasNext
      /\ (\A g \in Handlers : Busy(g) =>
            \E h \in Handlers : /\ Inside(h) /\ Subject(h) = Subject(g)
                                /\ At(h, "join") => Busy(Cleaner))
      => ((\E g \in Handlers : Busy(g)) => CleanUpGoes \/ \E h \in Handlers : Goes(h))
  BY <1>1
<1>3. Init => HasNext
  BY HandlerFacts DEF Init, HasNext, At, Idle, Procs
<1>4. AInv => GInv
  BY DEF AInv
<1> QED BY <1>2, <1>3, <1>4, InitAttended, NextAttended, NextHasNext, SomebodyGoesOn, PTL
        DEF Spec

\* So NoStandstill, as far as a prover without ENABLED goes: where one of these
\* guards holds, an action can be taken (GuardsSuffice).
THEOREM NobodyStandsStill == Spec /\ []GuardsSuffice => []NoStandstill
<1>1. GuardsSuffice /\ ((\E g \in Handlers : Busy(g))
                        => CleanUpGoes \/ \E h \in Handlers : Goes(h))
      => NoStandstill
  BY DEF GuardsSuffice, NoStandstill
<1> QED BY <1>1, SomebodyHasAStep, PTL
=============================================================================
