--------------------------- MODULE DesktopSession ---------------------------
(* The desktop gateway (services/desktop-gateway): a ticket is exchanged    *)
(* for a signed cookie, later requests are let in by the cookie alone or by *)
(* a bearer token that the API vouches for, and a WebSocket, once it is     *)
(* open, stays open until a timer of the gateway or one of its ends closes  *)
(* it.  The cookie is checked without asking anybody, so the only thing that*)
(* keeps it within its run is the expiry put into it.                       *)
EXTENDS Integers, FiniteSetsExt

CONSTANTS
    Browsers,    \* browsers of the learner who owns the run
    RunExpiry,   \* the moment the run expires
    MaxLife,     \* DESKTOP_SESSION_MAX_MINUTES
    CacheLife,   \* how long an answer of the API is remembered
    AskLife,     \* how long the gateway waits for the API
    MaxTime,     \* bound on the clock
    Never        \* no expiry, no timer, no entry

ASSUME SessionTimes == {RunExpiry, MaxLife, CacheLife, AskLife, MaxTime} \subseteq Nat \ {0}
ASSUME NeverIsNoTime == Never \notin Int

VARIABLES
    now,       \* the clock
    endedAt,   \* when the row of the run left the active statuses, or Never
    pass,      \* "issued" or "consumed": the one ticket of the run
    asking,    \* asking[b]: the request of b that waits for the API
    cookie,    \* cookie[b]: exp of the cookie b holds, or Never
    cache,     \* cache[b]: until when b's bearer token is known to be good
    tunnel     \* tunnel[b]: the WebSocket of b: what let it in, and its timer

desktopVars == <<now, endedAt, pass, asking, cookie, cache, tunnel>>

NotAsking == [kind |-> "nothing", sent |-> 0, answer |-> "none"]
Shut == [by |-> "nothing", timer |-> Never]

Time == 0..MaxTime
DesktopTypeOK ==
    /\ now \in Time /\ endedAt \in Time \cup {Never}
    /\ pass \in {"issued", "consumed"}
    /\ asking \in [Browsers ->
         [kind : {"nothing", "exchange", "request", "upgrade"}, sent : Time,
          answer : {"none", "granted", "denied"}]]
    /\ cookie \in [Browsers -> 1..RunExpiry \cup {Never}]
    /\ cache \in [Browsers -> 1..(MaxTime + CacheLife) \cup {Never}]
    /\ tunnel \in [Browsers -> [by : {"nothing", "cookie", "bearer"},
                                timer : 1..RunExpiry \cup {Never}]]

DesktopInit ==
    /\ now = 0 /\ endedAt = Never /\ pass = "issued"
    /\ asking = [b \in Browsers |-> NotAsking]
    /\ cookie = [b \in Browsers |-> Never]
    /\ cache = [b \in Browsers |-> Never]
    /\ tunnel = [b \in Browsers |-> Shut]

Later(moment) == moment # Never /\ moment > now
RunIsActive == endedAt = Never

-----------------------------------------------------------------------------
(* A request or an upgrade names a run, perhaps with a ticket.             *)

\* The expiry of a session for a run that expires at runExpiry; the floor to
\* seconds is below the grain of this clock.
SessionExpiry(runExpiry) ==
    IF runExpiry = Never THEN now + MaxLife ELSE Min({runExpiry, now + MaxLife})

Send(b, kind) ==
    /\ asking[b] = NotAsking
    /\ asking' = [asking EXCEPT ![b] = [kind |-> kind, sent |-> now, answer |-> "none"]]

SendTicket(b) ==
    Send(b, "exchange") /\ UNCHANGED <<now, endedAt, pass, cookie, cache, tunnel>>

\* Defect: a tunnel is left to its two ends.
NoTimer(expiry) == Never

\* The timer of a tunnel: only a run that came with an expiry gets one.
TimerOf(expiry) == expiry

OpenTunnel(b, by, expiry) ==
    tunnel' = [tunnel EXCEPT ![b] = [by |-> by, timer |-> TimerOf(expiry)]]

\* A cookie decides alone: an expired one is refused even with a good token.
ByCookie(b, kind) ==
    /\ asking[b] = NotAsking /\ cookie[b] # Never /\ Later(cookie[b])
    /\ IF kind = "upgrade" THEN tunnel[b] = Shut /\ OpenTunnel(b, "cookie", cookie[b])
                           ELSE UNCHANGED tunnel
    /\ UNCHANGED <<now, endedAt, pass, asking, cookie, cache>>

ByCache(b, kind) ==
    /\ asking[b] = NotAsking /\ cookie[b] = Never /\ Later(cache[b])
    /\ IF kind = "upgrade" THEN tunnel[b] = Shut /\ OpenTunnel(b, "bearer", Never)
                           ELSE UNCHANGED tunnel
    /\ UNCHANGED <<now, endedAt, pass, asking, cookie, cache>>

AskApi(b, kind) ==
    /\ cookie[b] = Never /\ ~Later(cache[b])
    /\ Send(b, kind) /\ (kind = "upgrade" => tunnel[b] = Shut)
    /\ UNCHANGED <<now, endedAt, pass, cookie, cache, tunnel>>

-----------------------------------------------------------------------------
(* The API answers from the row of the run, and the answer travels.  A      *)
(* ticket is honoured as long as the row says ready, even past the expiry  *)
(* if the sweep is late.                                                   *)

Answer(b, verdict) == asking' = [asking EXCEPT ![b].answer = verdict]
Waits(b, kinds) == asking[b].kind \in kinds /\ asking[b].answer = "none"

ConsumeTicket(b) ==
    /\ Waits(b, {"exchange"})
    /\ IF pass = "issued" /\ RunIsActive
         THEN pass' = "consumed" /\ Answer(b, "granted")
         ELSE UNCHANGED pass /\ Answer(b, "denied")
    /\ UNCHANGED <<now, endedAt, cookie, cache, tunnel>>

AnswerRun(b) ==
    /\ Waits(b, {"request", "upgrade"})
    /\ Answer(b, IF RunIsActive THEN "granted" ELSE "denied")
    /\ UNCHANGED <<now, endedAt, pass, cookie, cache, tunnel>>

Receives(b, kinds, verdict) ==
    /\ asking[b].kind \in kinds /\ asking[b].answer = verdict
    /\ asking' = [asking EXCEPT ![b] = NotAsking]

\* A session that would already be over is not made: the ticket is spent.
CreateSession(b) ==
    /\ Receives(b, {"exchange"}, "granted")
    /\ LET exp == SessionExpiry(RunExpiry) IN
         cookie' = IF exp > now THEN [cookie EXCEPT ![b] = exp] ELSE cookie
    /\ UNCHANGED <<now, endedAt, pass, cache, tunnel>>

Remember(b) ==
    /\ \E kind \in {"request", "upgrade"} :
         /\ Receives(b, {kind}, "granted")
         /\ IF kind = "upgrade" THEN OpenTunnel(b, "bearer", Never) ELSE UNCHANGED tunnel
    /\ cache' = [cache EXCEPT ![b] = now + CacheLife]
    /\ UNCHANGED <<now, endedAt, pass, cookie>>

Refuse(b) ==
    /\ Receives(b, {"exchange", "request", "upgrade"}, "denied")
    /\ UNCHANGED <<now, endedAt, pass, cookie, cache, tunnel>>

\* The answer is late or lost: 503, and the cache keeps what it had.
StopWaiting(b) ==
    /\ asking[b] # NotAsking
    /\ asking' = [asking EXCEPT ![b] = NotAsking]
    /\ UNCHANGED <<now, endedAt, pass, cookie, cache, tunnel>>

-----------------------------------------------------------------------------
(* What ends a tunnel, a cookie or the run.                                *)

TimerFires(b) ==
    /\ tunnel[b].timer # Never /\ tunnel[b].timer <= now
    /\ tunnel' = [tunnel EXCEPT ![b] = Shut]
    /\ UNCHANGED <<now, endedAt, pass, asking, cookie, cache>>

\* Either end closes it; the timer is cleared with it.
CloseTunnel(b) ==
    /\ tunnel[b] # Shut
    /\ tunnel' = [tunnel EXCEPT ![b] = Shut]
    /\ UNCHANGED <<now, endedAt, pass, asking, cookie, cache>>

\* Max-Age and Expires of the cookie.
DropCookie(b) ==
    /\ cookie[b] # Never /\ cookie[b] <= now
    /\ cookie' = [cookie EXCEPT ![b] = Never]
    /\ UNCHANGED <<now, endedAt, pass, asking, cache, tunnel>>

EndRun ==
    /\ RunIsActive /\ endedAt' = now
    /\ UNCHANGED <<now, pass, asking, cookie, cache, tunnel>>

\* A timer that is due fires before the clock moves on, and so does the abort
\* signal of a request.
Tick ==
    /\ now < MaxTime /\ now' = now + 1
    /\ \A b \in Browsers :
         /\ ~(tunnel[b].timer # Never /\ tunnel[b].timer <= now)
         /\ asking[b] # NotAsking => now < asking[b].sent + AskLife
    /\ UNCHANGED <<endedAt, pass, asking, cookie, cache, tunnel>>

DesktopNext ==
    \/ \E b \in Browsers :
         \/ SendTicket(b)
         \/ \E kind \in {"request", "upgrade"} :
              ByCookie(b, kind) \/ ByCache(b, kind) \/ AskApi(b, kind)
         \/ ConsumeTicket(b) \/ AnswerRun(b)
         \/ CreateSession(b) \/ Remember(b) \/ Refuse(b) \/ StopWaiting(b)
         \/ TimerFires(b) \/ CloseTunnel(b) \/ DropCookie(b)
    \/ EndRun \/ Tick

DesktopSafety == DesktopInit /\ [][DesktopNext]_desktopVars

-----------------------------------------------------------------------------
\* A desktop does not outlive what let its user in: a WebSocket opened with a
\* cookie is closed when the run expires, however long it has been open, and a
\* bearer token is forgotten within the time of one answer and of one cache
\* entry after the run has ended, even if the answer was under way when it did.
DesktopEndsWithRun ==
    \A b \in Browsers :
        /\ tunnel[b].by = "cookie" => now <= RunExpiry
        /\ ~RunIsActive /\ Later(cache[b]) => now < endedAt + AskLife + CacheLife
=============================================================================
