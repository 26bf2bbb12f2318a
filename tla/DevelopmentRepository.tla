------------------------ MODULE DevelopmentRepository ------------------------
(***************************************************************************)
(* The SQLite repository of the API (REPOSITORY_MODE=sqlite): its tables,  *)
(* the methods that change them, and the boot that creates, repairs and    *)
(* seeds them.                                                             *)
(*                                                                         *)
(* A table is a function from the keys of its rows to the rows.  A method  *)
(* runs to its end without an await, and those of several statements run   *)
(* in a transaction, so a call is one step; handlers call methods in any   *)
(* order and with any arguments.  A boot is one step per statement, and    *)
(* may be cut off between any two: the file is kept, and the next boot     *)
(* starts from its beginning.                                              *)
(*                                                                         *)
(* The lab of a seeded cohort bears the name of the cohort, and a seeded   *)
(* run and its result that of their user: one for each training template   *)
(* in the code.                                                            *)
(*                                                                         *)
(* A definition whose comment starts with "Defect" is not part of the      *)
(* model: it is the definition that follows it with a bug the code could   *)
(* have had.                                                               *)
(***************************************************************************)
EXTENDS Naturals, Sequences, FiniteSets

CONSTANTS
    FixtureOrgs, FixtureUsers,  \* sequences: DEVELOPMENT_ORGANIZATIONS, _USERS
    DevUser,                    \* DEV_USER_ID
    HomeOf,                     \* HomeOf[u]: [org, role] of a fixture user
    NewUsers, NewOrgs, NewLabs, NewRuns, NewSeasons, Passes,  \* randomUUID
    Subjects, Slugs, Codes,     \* of sign-ins, of seasons, for joining
    Nowhere,                    \* no organization
    NoPass,                     \* the run of no ticket
    HalfSeason, Month,          \* 45 days, and what a demo slug names
    MaxDay, MaxStops            \* bounds on the clock and on restarts

Fixtures == {FixtureUsers[i] : i \in DOMAIN FixtureUsers}
Seeded == {FixtureOrgs[i] : i \in DOMAIN FixtureOrgs}
CohortOf(u) == IF HomeOf[u].org = Nowhere THEN u ELSE HomeOf[u].org
Cohorts == {CohortOf(u) : u \in Fixtures}

UserIds == Fixtures \cup NewUsers
OrgIds == Seeded \cup NewOrgs
LabIds == Cohorts \cup NewLabs
RunIds == Fixtures \cup NewRuns
SlugIds == Slugs \cup 0 .. MaxDay
Memberships == [org : OrgIds, role : {"owner", "org_admin", "member"}]

ASSUME FixturesAreOrdered ==
    FixtureUsers \in Seq(Fixtures) /\ FixtureOrgs \in Seq(Seeded)
ASSUME DevUserIsAFixture == DevUser \in Fixtures
ASSUME FixturesHaveAHome ==
    \A u \in Fixtures : \/ HomeOf[u].org = Nowhere
                        \/ HomeOf[u] \in Memberships /\ HomeOf[u].org \in Seeded
ASSUME CohortsHaveAnOwner ==
    \A o \in Seeded : \E u \in Fixtures :
        HomeOf[u] = [org |-> o, role |-> "owner"]
ASSUME IdentifiersAreFresh ==
    /\ NewUsers \cap Fixtures = {} /\ NewOrgs \cap Seeded = {}
    /\ NewLabs \cap Cohorts = {} /\ NewRuns \cap Fixtures = {}
    /\ Nowhere \notin OrgIds /\ NoPass \notin RunIds
ASSUME Calendar ==
    /\ HalfSeason \in Nat \ {0} /\ Month \in Nat \ {0}
    /\ MaxDay \in Nat /\ MaxStops \in Nat /\ Slugs \subseteq Nat

VARIABLES
    db,       \* the tables
    at,       \* the statements of this boot that are done
    up,       \* whether the server listens
    now,
    opened,   \* history: sessions opened with each ticket
    aim,      \* history: what the boot under way leaves if it is not cut off
    stops

repositoryVars == <<db, at, up, now, opened, aim, stops>>
around == <<at, up, now, aim, stops>>

Put(t, k, r) == [x \in DOMAIN t \cup {k} |-> IF x = k THEN r ELSE t[x]]
Drop(t, k) == [x \in DOMAIN t \ {k} |-> t[x]]
None == [x \in {} |-> x]

Empty == [users |-> None, orgs |-> None, members |-> None, labs |-> None,
          runs |-> None, results |-> [r \in RunIds |-> 0],
          events |-> [r \in RunIds |-> 0], tickets |-> None,
          seasons |-> None]

-----------------------------------------------------------------------------
(* The boot: initialize and seedDemoData, on any set of the fixtures.      *)

\* INSERT OR IGNORE INTO organizations
ensureOrganizations(d, O) ==
    LET new == {o \in O : \A p \in DOMAIN d.orgs :
                   p # o /\ d.orgs[p].slug # o /\ d.orgs[p].code # o}
    IN  [d EXCEPT !.orgs = [o \in DOMAIN d.orgs \cup new |->
            IF o \in new THEN [slug |-> o, code |-> o, optIn |-> FALSE]
            ELSE d.orgs[o]]]

FixtureRow(u) ==
    [email |-> u, handle |-> u, subject |-> "none", hash |-> "fixture",
     role |-> IF u = DevUser THEN "platform_admin" ELSE "user",
     agreed |-> TRUE, disabled |-> FALSE]

\* Defect: sample accounts are put only into an empty table.
ensureUsersOnce(d, U) ==
    IF DOMAIN d.users # {} THEN d
    ELSE [d EXCEPT !.users = [u \in U |-> FixtureRow(u)]]

\* INSERT OR IGNORE INTO users: an address or handle may also be taken.
ensureUsers(d, U) ==
    LET new == {u \in U : \A v \in DOMAIN d.users :
                   v # u /\ d.users[v].email # u /\ d.users[v].handle # u}
    IN  [d EXCEPT !.users = [u \in DOMAIN d.users \cup new |->
            IF u \in new THEN FixtureRow(u) ELSE d.users[u]]]

\* INSERT OR IGNORE INTO organization_memberships
ensureMembers(d, U) ==
    LET new == {u \in U : u \notin DOMAIN d.members /\ HomeOf[u].org # Nowhere}
    IN  [d EXCEPT !.members = [u \in DOMAIN d.members \cup new |->
            IF u \in new THEN HomeOf[u] ELSE d.members[u]]]

\* The visible profile of the development actor.
refreshActor(d) ==
    [d EXCEPT !.users = [u \in DOMAIN d.users |->
        IF u = DevUser
        THEN [d.users[u] EXCEPT !.email = u, !.handle = u, !.hash = "fixture",
                                !.role = "platform_admin"]
        ELSE d.users[u]]]

\* Consent of accounts from before it was asked for, and digests from before
\* scrypt.
backfill(d, U) ==
    [d EXCEPT !.users = [u \in DOMAIN d.users |->
        IF u \in U
        THEN [d.users[u] EXCEPT !.agreed = TRUE,
                                !.hash = IF @ = "legacy" THEN "fixture" ELSE @]
        ELSE d.users[u]]]

OwnerOf(c) == IF c \in Seeded
              THEN CHOOSE u \in Fixtures :
                      HomeOf[u] = [org |-> c, role |-> "owner"]
              ELSE c

\* seedDevelopmentCapabilityData, one transaction of upserts: the labs, their
\* evidence, the runs and their results.  A hold is not among the columns.
seedCapability(d) ==
    [d EXCEPT
       !.labs = [l \in DOMAIN d.labs \cup Cohorts |->
           IF l \notin Cohorts THEN d.labs[l]
           ELSE [owner |-> OwnerOf(l),
                 org |-> IF l \in Seeded THEN l ELSE Nowhere,
                 status |-> "validated", check |-> "pass", target |-> FALSE,
                 held |-> l \in DOMAIN d.labs /\ d.labs[l].held]],
       !.runs = [r \in DOMAIN d.runs \cup Fixtures |->
           IF r \notin Fixtures THEN d.runs[r]
           ELSE [lab |-> CohortOf(r), user |-> r, status |-> "stopped"]],
       !.results = [r \in RunIds |-> IF r \in Fixtures THEN 1 ELSE @[r]]]

ActiveAt(d, t) == {s \in DOMAIN d.seasons : /\ d.seasons[s].starts <= t
                                            /\ t < d.seasons[s].ends}

\* createSeason takes s: nothing overlaps it and its slug is free.
AcceptsSeason(d, s) ==
    \A x \in DOMAIN d.seasons :
        /\ ~(d.seasons[x].starts < s.ends /\ d.seasons[x].ends > s.starts)
        /\ d.seasons[x].slug # s.slug

\* A demo season around today, if none is active; a refusal is swallowed.
\* Bound: an identifier is left.
seedSeason(d, t) ==
    LET s == [slug |-> t \div Month,
              starts |-> IF t > HalfSeason THEN t - HalfSeason ELSE 0,
              ends |-> t + HalfSeason]
        id == CHOOSE x \in NewSeasons : x \notin DOMAIN d.seasons
    IN  IF /\ ActiveAt(d, t) = {} /\ AcceptsSeason(d, s)
           /\ DOMAIN d.seasons # NewSeasons
        THEN [d EXCEPT !.seasons = Put(@, id, s)] ELSE d

\* Every organization of the reporting dataset is opted in.
optIn(d) ==
    [d EXCEPT !.orgs = [o \in DOMAIN d.orgs |->
                           [d.orgs[o] EXCEPT !.optIn = TRUE]]]

\* The statements in their order; the last three are DEMO_SEED's.
Script ==
    [i \in 1 .. Len(FixtureOrgs) |-> <<"organization", FixtureOrgs[i]>>]
    \o [i \in 1 .. 2 * Len(FixtureUsers) |->
           <<IF i % 2 = 1 THEN "user" ELSE "membership",
             FixtureUsers[(i + 1) \div 2]>>]
    \o << <<"actor", DevUser>> >>
    \o [i \in 1 .. Len(FixtureUsers) |-> <<"backfill", FixtureUsers[i]>>]
    \o << <<"capability", DevUser>>, <<"season", DevUser>>,
          <<"optin", DevUser>> >>
Initialized == Len(Script) - 3

Executed(st, d, t) ==
    CASE st[1] = "organization" -> ensureOrganizations(d, {st[2]})
      [] st[1] = "user"         -> ensureUsers(d, {st[2]})
      [] st[1] = "membership"   -> ensureMembers(d, {st[2]})
      [] st[1] = "actor"        -> refreshActor(d)
      [] st[1] = "backfill"     -> backfill(d, {st[2]})
      [] st[1] = "capability"   -> seedCapability(d)
      [] st[1] = "season"       -> seedSeason(d, t)
      [] OTHER                  -> optIn(d)

\* All of it at once.
Booted(d, t) ==
    optIn(seedSeason(seedCapability(backfill(refreshActor(ensureMembers(
        ensureUsers(ensureOrganizations(d, Seeded), Fixtures), Fixtures)),
        Fixtures)), t))

\* The file of a release before consent and scrypt.
Legacy ==
    [ensureMembers(ensureOrganizations(Empty, Seeded), Fixtures) EXCEPT
       !.users = [u \in Fixtures |-> [FixtureRow(u) EXCEPT !.agreed = FALSE,
                                                           !.hash = "legacy"]]]

RepositoryInit ==
    /\ db \in {Empty, Legacy}
    /\ at = 0 /\ up = FALSE /\ now = 0
    /\ opened = [t \in Passes |-> 0]
    /\ aim = Booted(db, 0) /\ stops = 0

BootStatement ==
    /\ ~up /\ at < Len(Script)
    /\ db' = Executed(Script[at + 1], db, now)
    /\ at' = at + 1
    /\ UNCHANGED <<up, now, opened, aim, stops>>

\* server.listen: after the seed, or without it, or after it has failed.
Listen ==
    /\ ~up /\ at >= Initialized
    /\ up' = TRUE /\ aim' = Empty
    /\ UNCHANGED <<db, at, now, opened, stops>>

\* The process ends and is started again, with its file.
Stop ==
    /\ stops < MaxStops /\ stops' = stops + 1
    /\ up' = FALSE /\ at' = 0
    /\ aim' = IF up THEN Booted(db, now) ELSE aim
    /\ UNCHANGED <<db, now, opened>>

DayPasses ==
    /\ up /\ now < MaxDay /\ now' = now + 1
    /\ UNCHANGED <<db, at, up, opened, aim, stops>>

-----------------------------------------------------------------------------
(* Accounts and organizations.                                             *)

\* A call that changes the tables to d; one that refuses changes nothing.
Stores(d) == up /\ db' = d /\ UNCHANGED <<around, opened>>

NameIsFree(email, handle) ==
    \A v \in DOMAIN db.users : /\ db.users[v].email # email
                               /\ db.users[v].handle # handle

\* With an organization that is named, or found by the hash of its join code.
AddUser(u, r, org, orgRole) ==
    /\ u \notin DOMAIN db.users
    /\ NameIsFree(r.email, r.handle)
    /\ org \in DOMAIN db.orgs \cup {Nowhere}
    /\ Stores([db EXCEPT
         !.users = Put(@, u, r),
         !.members = IF org = Nowhere THEN @
                     ELSE Put(@, u, [org |-> org, role |-> orgRole])])

register(u, email, handle, org) ==
    AddUser(u, [email |-> email, handle |-> handle, subject |-> "none",
                hash |-> "own", role |-> "user", agreed |-> TRUE,
                disabled |-> FALSE], org, "member")

onboardIdentity(u, email, handle, subject, role, org, orgRole) ==
    /\ \A v \in DOMAIN db.users : db.users[v].subject # subject
    /\ AddUser(u, [email |-> email, handle |-> handle, subject |-> subject,
                   hash |-> "none", role |-> role, agreed |-> TRUE,
                   disabled |-> FALSE], org, orgRole)

\* setPasswordHash, recordUserConsent, setUserPlatformRole, setUserDisabled:
\* an update of the row of u.
UpdateUser(u, r) ==
    u \in DOMAIN db.users /\ Stores([db EXCEPT !.users = Put(@, u, r)])

setPasswordHash(u) == UpdateUser(u, [db.users[u] EXCEPT !.hash = "own"])
recordUserConsent(u) == UpdateUser(u, [db.users[u] EXCEPT !.agreed = TRUE])
setUserPlatformRole(u, role) ==
    UpdateUser(u, [db.users[u] EXCEPT !.role = role])
setUserDisabled(u, off) ==
    UpdateUser(u, [db.users[u] EXCEPT !.disabled = off])

\* WHERE organization_id = ? AND user_id = ? AND role <> 'owner'
Manages(o, u) ==
    /\ u \in DOMAIN db.members
    /\ db.members[u].org = o /\ db.members[u].role # "owner"

setOrganizationMemberRole(o, u, role) ==
    /\ Manages(o, u)
    /\ Stores([db EXCEPT !.members = Put(@, u, [org |-> o, role |-> role])])

removeOrganizationMember(o, u) ==
    Manages(o, u) /\ Stores([db EXCEPT !.members = Drop(@, u)])

\* A duplicate slug or code is an error.
createOrganization(o, slug, code) ==
    /\ o \notin DOMAIN db.orgs
    /\ \A p \in DOMAIN db.orgs : /\ db.orgs[p].slug # slug
                                 /\ db.orgs[p].code # code
    /\ Stores([db EXCEPT !.orgs = Put(@, o, [slug |-> slug, code |-> code,
                                                optIn |-> FALSE])])

rotateOrganizationJoinCode(o, code) ==
    /\ o \in DOMAIN db.orgs
    /\ \A p \in DOMAIN db.orgs \ {o} : db.orgs[p].code # code
    /\ Stores([db EXCEPT !.orgs = Put(@, o, [db.orgs[o] EXCEPT !.code = code])])

setOrganizationRankingOptIn(o, choice) ==
    /\ o \in DOMAIN db.orgs
    /\ Stores([db EXCEPT !.orgs = Put(@, o, [db.orgs[o] EXCEPT !.optIn = choice])])

createSeason(s, slug, starts, ends) ==
    /\ s \notin DOMAIN db.seasons
    /\ AcceptsSeason(db, [slug |-> slug, starts |-> starts, ends |-> ends])
    /\ Stores([db EXCEPT !.seasons = Put(@, s,
                  [slug |-> slug, starts |-> starts, ends |-> ends])])

deleteSeason(s) ==
    s \in DOMAIN db.seasons /\ Stores([db EXCEPT !.seasons = Drop(@, s)])

-----------------------------------------------------------------------------
(* Labs.                                                                   *)

createLab(u, l) ==
    /\ u \in DOMAIN db.users /\ l \notin DOMAIN db.labs
    /\ Stores([db EXCEPT !.labs = Put(@, l,
         [owner |-> u,
          org |-> IF u \in DOMAIN db.members THEN db.members[u].org
                                             ELSE Nowhere,
          status |-> "draft", check |-> "none", target |-> FALSE,
          held |-> FALSE])])

\* An update of the row of l.
UpdateLab(l, r) ==
    l \in DOMAIN db.labs /\ Stores([db EXCEPT !.labs = Put(@, l, r)])

\* WHERE id = ? AND validation_status = 'draft'
updateLabConfig(l) ==
    /\ UpdateLab(l, [db.labs[l] EXCEPT !.target = TRUE])
    /\ db.labs[l].status = "draft"

\* Defect: a verdict is stored as it is.
ValidatedAnyway(l, status) == status

\* CASE WHEN admin_quarantined_at IS NOT NULL THEN 'quarantined' ELSE ? END
Validated(l, status) == IF db.labs[l].held THEN "quarantined" ELSE status

saveValidation(l, status) ==
    UpdateLab(l, [db.labs[l] EXCEPT
        !.check = IF status = "validated" THEN "pass" ELSE "fail",
        !.status = Validated(l, status)])

quarantineLab(l) ==
    UpdateLab(l, [db.labs[l] EXCEPT !.status = "quarantined", !.held = TRUE])

releaseLabQuarantine(l) ==
    /\ UpdateLab(l, [db.labs[l] EXCEPT !.status = "draft", !.held = FALSE])
    /\ db.labs[l].status = "quarantined"

-----------------------------------------------------------------------------
(* Runs, tickets and results.                                              *)

\* The run of the simulator is ready at once, that of a runtime service is
\* not.
createRun(r, l, u, status) ==
    /\ l \in DOMAIN db.labs /\ u \in DOMAIN db.users /\ r \notin DOMAIN db.runs
    /\ Stores([db EXCEPT !.runs = Put(@, r,
                             [lab |-> l, user |-> u, status |-> status])])

\* WHERE id = ? AND user_id = ? AND status = 'provisioning'
updateRunReadiness(u, r, status) ==
    /\ r \in DOMAIN db.runs /\ db.runs[r].user = u
    /\ db.runs[r].status = "provisioning"
    /\ Stores([db EXCEPT !.runs = Put(@, r, [db.runs[r] EXCEPT !.status = status])])

\* markRunExpired, markRunStopped: WHERE status NOT IN ('stopped', 'expired')
MarkRun(r, status) ==
    /\ r \in DOMAIN db.runs /\ db.runs[r].status \notin {"stopped", "expired"}
    /\ Stores([db EXCEPT !.runs = Put(@, r, [db.runs[r] EXCEPT !.status = status])])

createAccessTicket(t, r) ==
    /\ t \notin DOMAIN db.tickets /\ r \in DOMAIN db.runs
    /\ Stores([db EXCEPT !.tickets = Put(@, t,
                             [run |-> r, consumed |-> FALSE])])

\* Defect: the ticket is looked up without its run.
TicketAlone(t) == t \in DOMAIN db.tickets /\ ~db.tickets[t].consumed

\* consumed_at IS NULL AND r.status = 'ready'; it may have lapsed as well.
TicketAdmits(t) ==
    /\ t \in DOMAIN db.tickets /\ ~db.tickets[t].consumed
    /\ db.runs[db.tickets[t].run].status = "ready"

consumeAccessTicket(t) ==
    /\ up /\ TicketAdmits(t)
    /\ db' = [db EXCEPT !.tickets = Put(@, t, [db.tickets[t] EXCEPT !.consumed = TRUE])]
    /\ opened' = [opened EXCEPT ![t] = @ + 1]
    /\ UNCHANGED around

\* The result, whose run has none yet, and its score event.
saveChallengeResult(r) ==
    /\ r \in DOMAIN db.runs /\ db.results[r] = 0
    /\ Stores([db EXCEPT !.results = Put(@, r, 1),
                         !.events = Put(@, r, db.events[r] + 1)])

-----------------------------------------------------------------------------
AccountCalls ==
    \/ \E u \in NewUsers, n, m \in UserIds, o \in OrgIds \cup {Nowhere} :
          \/ register(u, n, m, o)
          \/ \E s \in Subjects, role \in {"user", "platform_admin"},
                orgRole \in {"member", "org_admin"} :
                onboardIdentity(u, n, m, s, role, o, orgRole)
    \/ \E u \in UserIds :
          \/ setPasswordHash(u) \/ recordUserConsent(u)
          \/ \E role \in {"user", "platform_admin"} :
                setUserPlatformRole(u, role)
          \/ \E off \in BOOLEAN : setUserDisabled(u, off)

OrganizationCalls ==
    \/ \E o \in OrgIds, u \in UserIds :
          \/ removeOrganizationMember(o, u)
          \/ \E role \in {"member", "org_admin"} :
                setOrganizationMemberRole(o, u, role)
    \/ \E o \in NewOrgs, slug, code \in OrgIds \cup Codes :
          createOrganization(o, slug, code)
    \/ \E o \in OrgIds :
          \/ \E code \in Codes : rotateOrganizationJoinCode(o, code)
          \/ \E choice \in BOOLEAN : setOrganizationRankingOptIn(o, choice)

SeasonCalls ==
    \E s \in NewSeasons :
        \/ deleteSeason(s)
        \/ \E slug \in Slugs, first, last \in 0 .. MaxDay + HalfSeason :
              first < last /\ createSeason(s, slug, first, last)

LabCalls ==
    \/ \E u \in UserIds, l \in NewLabs : createLab(u, l)
    \/ \E l \in LabIds :
          \/ updateLabConfig(l) \/ quarantineLab(l) \/ releaseLabQuarantine(l)
          \/ \E s \in {"validated", "quarantined"} : saveValidation(l, s)

RunCalls ==
    \/ \E r \in NewRuns, l \in LabIds, u \in UserIds :
          \E s \in {"provisioning", "ready"} : createRun(r, l, u, s)
    \/ \E r \in RunIds :
          \/ \E u \in UserIds, s \in {"ready", "failed"} :
                updateRunReadiness(u, r, s)
          \/ \E s \in {"stopped", "expired"} : MarkRun(r, s)
          \/ \E t \in Passes : createAccessTicket(t, r)
          \/ saveChallengeResult(r)
    \/ \E t \in Passes : consumeAccessTicket(t)

Boot == BootStatement \/ Listen \/ Stop \/ DayPasses

RepositoryNext == \/ AccountCalls \/ OrganizationCalls \/ SeasonCalls
                  \/ LabCalls \/ RunCalls \/ Boot

RepositorySpec == RepositoryInit /\ [][RepositoryNext]_repositoryVars

-----------------------------------------------------------------------------
(* Correctness.                                                            *)

IsTable(t, keys, rows) == DOMAIN t \subseteq keys /\ t \in [DOMAIN t -> rows]
UserRows == [email : UserIds, handle : UserIds, subject : Subjects \cup {"none"},
             hash : {"fixture", "own", "legacy", "none"},
             role : {"user", "platform_admin"}, agreed : BOOLEAN,
             disabled : BOOLEAN]
OrgRows == [slug : OrgIds \cup Codes, code : OrgIds \cup Codes, optIn : BOOLEAN]
LabRows == [owner : UserIds, org : OrgIds \cup {Nowhere},
            status : {"draft", "validated", "quarantined"},
            check : {"none", "pass", "fail"}, target : BOOLEAN, held : BOOLEAN]
RunRows == [lab : LabIds, user : UserIds,
            status : {"provisioning", "ready", "failed", "stopped", "expired"}]
PassRows == [run : RunIds, consumed : BOOLEAN]
SeasonRows == [slug : Nat, starts : Nat, ends : Nat]
IsDatabase(d) ==
    /\ d = [users |-> d.users, orgs |-> d.orgs, members |-> d.members,
            labs |-> d.labs, runs |-> d.runs, results |-> d.results,
            events |-> d.events, tickets |-> d.tickets, seasons |-> d.seasons]
    /\ IsTable(d.users, UserIds, UserRows)
    /\ IsTable(d.orgs, OrgIds, OrgRows)
    /\ IsTable(d.members, UserIds, Memberships)
    /\ IsTable(d.labs, LabIds, LabRows)
    /\ IsTable(d.runs, RunIds, RunRows)
    /\ d.results \in [RunIds -> Nat] /\ d.events \in [RunIds -> Nat]
    /\ IsTable(d.tickets, Passes, PassRows)
    /\ IsTable(d.seasons, NewSeasons, SeasonRows)

\* Every variable has the shape the code gives it.
RepositoryTypeOK ==
    /\ IsDatabase(db) /\ IsDatabase(aim)
    /\ at \in 0 .. Len(Script) /\ up \in BOOLEAN
    /\ now \in 0 .. MaxDay /\ stops \in 0 .. MaxStops
    /\ opened \in [Passes -> Nat]

\* demo-seed.ts:11-13: the seed "runs on every boot and must be idempotent".
\* Boots that were cut off between any statements and begun again leave what
\* one that was not would have left: nothing is missing, twice, or undone.
BootSettles == ~up /\ at = Len(Script) => db = aim

\* An administrator's hold survives every verdict and every boot: a lab is
\* quarantined as long as it is held.  The seeded labs are the exception, see
\* seedCapability.
HeldLabsStayDown ==
    \A l \in DOMAIN db.labs \ Cohorts :
        db.labs[l].held => db.labs[l].status = "quarantined"

RunContracts == INSTANCE RunContract WITH
    Runs <- NewRuns, Tickets <- Passes, NoRun <- NoPass,
    phase <- [r \in NewRuns |-> IF r \in DOMAIN db.runs THEN db.runs[r].status
                                ELSE "none"],
    pass <- [t \in Passes |->
                IF t \in DOMAIN db.tickets /\ db.tickets[t].run \in NewRuns
                THEN db.tickets[t].run ELSE NoPass],
    entries <- opened, grades <- [r \in NewRuns |-> db.events[r]]

\* The tables keep the promises about a run by themselves, whatever is called
\* and in which order, through boots.
RepositoryImplementsContract == RunContracts!Spec
=============================================================================
