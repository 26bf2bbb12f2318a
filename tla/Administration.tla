---------------------------- MODULE Administration ----------------------------
(***************************************************************************)
(* The administrators' routes of the API: platform roles, suspensions,     *)
(* roles and removal of an organization's members, the rotation of its     *)
(* join code, and ranking seasons.                                         *)
(*                                                                         *)
(* A request resolves its actor once, and then reads, checks, writes and   *)
(* records in separate queries, so two requests interleave between any two *)
(* of them, and a restart may cut each short.  One organization is         *)
(* administered; a request in Retried always carries the same              *)
(* Idempotency-Key, any other a fresh one.                                 *)
(*                                                                         *)
(* A definition whose comment starts with "Defect" is not part of the      *)
(* model: it is the definition that follows it with a bug the code could   *)
(* have had.                                                               *)
(***************************************************************************)
EXTENDS Naturals, FiniteSets

CONSTANTS
    Users, Handlers,      \* people; concurrent requests
    Founders,             \* the platform administrators at the start
    Owner, OrgAdmins,     \* of the organization; the others are members
    Retried,              \* <<actor, op, target, value>>: sent under one key
    Periods,              \* pairs <<starts, ends>> for a season
    MaxCodes, MaxCuts     \* bounds on join codes and on restarts

ASSUME FoundersExist == Founders # {} /\ Founders \subseteq Users
ASSUME PeriodsAreOrdered ==
    /\ Periods \subseteq Nat \X Nat
    /\ \A p \in Periods : p[1] < p[2]
ASSUME AdminBounds == MaxCodes \in Nat /\ MaxCuts \in Nat

VARIABLES
    users,     \* [platform, suspended, org] of each user
    asked,     \* the requests in flight
    records,   \* idempotency_records of the retried keys, by request digest
    code,      \* the join code whose hash is stored
    told,      \* the join codes given to a caller
    seasons,   \* ranking_seasons
    crossed,   \* history: a change was written for an actor who had lost the
               \* right to ask for it after asking
    raced,     \* history: two creations of a season overlapped in time
    silent,    \* history: a code was stored by a request that ended in error
    cuts

adminVars == <<users, asked, records, code, told, seasons, crossed, raced,
               silent, cuts>>
histories == <<crossed, raced, silent>>
tables == <<users, records, code, seasons>>

-----------------------------------------------------------------------------
(* What is asked.                                                          *)

Nobody == "nobody"
Free == [at |-> "idle", actor |-> Nobody, op |-> Nobody, target |-> Nobody,
         value |-> Nobody, role |-> "none", saw |-> "none", code |-> 0]

PlatformOps == {"platform role", "suspension", "rotate"}
MemberOps == {"member role", "remove"}

ValuesOf(op) == CASE op = "platform role" -> {"user", "platform_admin"}
                  [] op = "suspension"    -> {"suspend", "reinstate"}
                  [] op = "member role"   -> {"member", "org_admin"}
                  [] OTHER                -> {Nobody}

TargetsOf(op) == IF op = "rotate" THEN {Nobody} ELSE Users

Digest(q) == <<q.actor, q.op, q.target, q.value>>
Keyed(q) == Digest(q) \in Retried

AdminInit ==
    /\ users = [u \in Users |->
         [platform |-> IF u \in Founders THEN "platform_admin" ELSE "user",
          suspended |-> FALSE,
          org |-> IF u = Owner THEN "owner"
                  ELSE IF u \in OrgAdmins THEN "org_admin" ELSE "member"]]
    /\ asked = [h \in Handlers |-> Free]
    /\ records = {} /\ code = 0 /\ told = {0} /\ seasons = {}
    /\ crossed = FALSE /\ raced = FALSE /\ silent = FALSE /\ cuts = 0

-----------------------------------------------------------------------------
(* resolveActor and the guards on the actor's row.                         *)

IsPlatformAdmin(u) == users[u].platform = "platform_admin"
IsOrgAdmin(u) == users[u].org \in {"owner", "org_admin"}

May(u, op) == /\ ~users[u].suspended
              /\ IF op \in MemberOps THEN IsOrgAdmin(u) ELSE IsPlatformAdmin(u)

\* Defect: only the members' routes look for oneself.
NotSelfAsMember(actor, op, target) == op \in MemberOps => actor # target

\* An administrator is refused who names themself.
NotSelf(actor, op, target) ==
    op \in {"platform role", "suspension", "member role", "remove"}
        => actor # target

At(h, place) == asked[h].at = place
Then(h, place) == asked' = [asked EXCEPT ![h].at = place]
End(h) == asked' = [asked EXCEPT ![h] = Free]

Ask(h, actor, op, target, value) ==
    /\ At(h, "idle") /\ May(actor, op) /\ NotSelf(actor, op, target)
    /\ asked' = [asked EXCEPT ![h] =
         [at |-> IF op \in MemberOps THEN "look" ELSE "replay",
          actor |-> actor, op |-> op, target |-> target, value |-> value,
          role |-> users[actor].org, saw |-> "none", code |-> 0]]
    /\ UNCHANGED <<tables, told, histories, cuts>>

\* Defect: an administrator may demote an administrator.
ManageableByAny(q) == users[q.target].org \notin {"none", "owner"}

\* requireManageableMember: nobody touches the owner, and only the owner
\* takes the role of an administrator away.
Manageable(q) ==
    LET role == users[q.target].org IN
    /\ role \notin {"none", "owner"}
    /\ (role = "org_admin" /\ q.value # "org_admin") => q.role = "owner"

LookUpMember(h) ==
    /\ At(h, "look")
    /\ asked' = IF Manageable(asked[h])
                THEN [asked EXCEPT ![h].at = "replay",
                                   ![h].saw = users[asked[h].target].org]
                ELSE [asked EXCEPT ![h] = Free]
    /\ UNCHANGED <<tables, told, histories, cuts>>

\* replayIfPresent: the stored answer, without a join code in it.
Replay(h) ==
    /\ At(h, "replay")
    /\ IF Digest(asked[h]) \in records
       THEN End(h) ELSE Then(h, "write")
    /\ UNCHANGED <<tables, told, histories, cuts>>

-----------------------------------------------------------------------------
(* The UPDATE or DELETE of each route; a row that is gone is a 404.        *)

\* Defect: a removal is a change of role to none given.
ChangeAnyMember(q, row) ==
    CASE q.op = "platform role" -> [row EXCEPT !.platform = q.value]
      [] q.op = "suspension"    -> [row EXCEPT !.suspended = q.value = "suspend"]
      [] OTHER                  -> [row EXCEPT !.org = q.value]

Change(q, row) ==
    CASE q.op = "platform role" -> [row EXCEPT !.platform = q.value]
      [] q.op = "suspension"    -> [row EXCEPT !.suspended = q.value = "suspend"]
      [] q.op = "member role"   -> [row EXCEPT !.org = q.value]
      [] q.op = "remove"        -> [row EXCEPT !.org = "none"]

\* Both statements on memberships spare the owner.
Finds(q) == q.op \in MemberOps => users[q.target].org \notin {"none", "owner"}

Write(h) ==
    LET q == asked[h] IN
    /\ At(h, "write") /\ q.op # "rotate"
    /\ IF Finds(q)
       THEN /\ users' = [users EXCEPT ![q.target] = Change(q, @)]
            /\ crossed' = (crossed \/ ~May(q.actor, q.op))
            /\ Then(h, "record")
       ELSE End(h) /\ UNCHANGED <<users, crossed>>
    /\ UNCHANGED <<records, code, told, seasons, raced, silent, cuts>>

\* Defect: the answer has the code that was replaced.
RotateTellingOld(h) ==
    /\ At(h, "write") /\ asked[h].op = "rotate" /\ code < MaxCodes
    /\ code' = code + 1
    /\ asked' = [asked EXCEPT ![h].at = "record", ![h].code = code]
    /\ UNCHANGED <<users, records, told, seasons, histories, cuts>>

\* A fresh code each time; only its hash is kept.
Rotate(h) ==
    /\ At(h, "write") /\ asked[h].op = "rotate" /\ code < MaxCodes
    /\ code' = code + 1
    /\ asked' = [asked EXCEPT ![h].at = "record", ![h].code = code + 1]
    /\ UNCHANGED <<users, records, told, seasons, histories, cuts>>

\* The INSERT has no ON CONFLICT: a request that overlapped another one with
\* its key ends in an error after its change.
Record(h) ==
    LET q == asked[h] IN
    /\ At(h, "record")
    /\ IF Digest(q) \in records
       THEN End(h) /\ UNCHANGED records /\ silent' = (silent \/ q.op = "rotate")
       ELSE /\ records' = IF Keyed(q) THEN records \cup {Digest(q)}
                                   ELSE records
            /\ Then(h, "answer") /\ UNCHANGED silent
    /\ UNCHANGED <<users, code, told, seasons, crossed, raced, cuts>>

\* The audit record, and the answer.
AnswerAdmin(h) ==
    /\ At(h, "answer") /\ End(h)
    /\ told' = told \cup {asked[h].code}
    /\ UNCHANGED <<tables, histories, cuts>>

-----------------------------------------------------------------------------
(* Seasons: creation looks for an overlap and then inserts.                *)

\* Defect: only a season inside another one is refused.
Contains(p, s) == s[1] <= p[1] /\ p[2] <= s[2]

Overlaps(p, s) == s[1] < p[2] /\ s[2] > p[1]

SeasonAsked(h, actor, p) ==
    /\ At(h, "idle") /\ May(actor, "season")
    /\ IF \E s \in seasons : Overlaps(p, s) THEN UNCHANGED asked
       ELSE asked' = [asked EXCEPT ![h] = [Free EXCEPT !.at = "insert",
                        !.actor = actor, !.op = "season", !.value = p]]
    /\ raced' = (raced \/ \E g \in Handlers : At(g, "insert"))
    /\ UNCHANGED <<tables, told, crossed, silent, cuts>>

InsertSeason(h) ==
    /\ At(h, "insert") /\ End(h)
    /\ seasons' = seasons \cup {asked[h].value}
    /\ UNCHANGED <<users, records, code, told, histories, cuts>>

DeleteSeason(actor, s) ==
    /\ May(actor, "season") /\ seasons' = seasons \ {s}
    /\ UNCHANGED <<users, asked, records, code, told, histories, cuts>>

\* getActiveSeason: of the seasons that cover a time, the latest to start.
ActiveSeason(t) ==
    LET now == {s \in seasons : s[1] <= t /\ t < s[2]}
    IN  {s \in now : \A o \in now : o[1] <= s[1]}

-----------------------------------------------------------------------------
\* The service restarts: the requests in flight end where they are.
Cut ==
    /\ cuts < MaxCuts /\ cuts' = cuts + 1
    /\ asked' = [h \in Handlers |-> Free]
    /\ silent' = (silent \/ \E h \in Handlers : asked[h].code # 0)
    /\ UNCHANGED <<tables, told, crossed, raced>>

AdminStep(h) == \/ LookUpMember(h) \/ Replay(h) \/ Write(h) \/ Rotate(h)
                \/ Record(h) \/ AnswerAdmin(h) \/ InsertSeason(h)

AdminNext ==
    \/ \E h \in Handlers, actor \in Users :
         \/ \E op \in PlatformOps \cup MemberOps :
              \E target \in TargetsOf(op), value \in ValuesOf(op) :
                Ask(h, actor, op, target, value)
         \/ \E p \in Periods : SeasonAsked(h, actor, p)
    \/ \E h \in Handlers : AdminStep(h)
    \/ \E actor \in Users, s \in seasons : DeleteSeason(actor, s)
    \/ Cut

AdminSafety == AdminInit /\ [][AdminNext]_adminVars

-----------------------------------------------------------------------------
Rows == [platform : {"user", "platform_admin"}, suspended : BOOLEAN,
         org : {"owner", "org_admin", "member", "none"}]

\* Every variable has its type.
AdminTypeOK ==
    /\ users \in [Users -> Rows]
    /\ \A h \in Handlers :
         /\ asked[h].at \in {"idle", "look", "replay", "write", "record",
                             "answer", "insert"}
         /\ asked[h].code \in 0..MaxCodes
    /\ code \in 0..MaxCodes /\ told \subseteq 0..MaxCodes
    /\ seasons \subseteq Periods
    /\ crossed \in BOOLEAN /\ raced \in BOOLEAN /\ silent \in BOOLEAN
    /\ cuts \in 0..MaxCuts

Reachable == {u \in Users : IsPlatformAdmin(u) /\ ~users[u].suspended}

\* An administrator who can act is always left, except after a change that
\* was written for one who had been demoted or suspended while asking: the
\* guard against naming oneself is enough for requests one after another.
LastAdminStays == Reachable = {} => crossed

\* Once nothing is in flight, the join code that admits people to the
\* organization is one a caller was told, unless a request that stored one
\* ended in an error or was cut short.
CodeIsTold ==
    (~silent /\ \A h \in Handlers : At(h, "idle")) => code \in told

\* At any time at most one season is active, unless two administrators
\* created one at the same time.
OneActiveSeason ==
    raced \/ \A p \in Periods : Cardinality(
                 {s \in seasons : s[1] <= p[1] /\ p[1] < s[2]}) <= 1

Demoted(u) == users[u].org = "org_admin" /\ users'[u].org # "org_admin"

\* The role of an organization's administrator ends only at the owner's
\* request, unless it was given after the request that ends it had looked.
OnlyOwnerDemotes ==
    [][\A u \in Users : Demoted(u) =>
         \E h \in Handlers : /\ At(h, "write") /\ asked[h].target = u
                              /\ \/ asked[h].role = "owner"
                                 \/ asked[h].saw # "org_admin"]_adminVars

=============================================================================
