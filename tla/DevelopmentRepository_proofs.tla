-------------------- MODULE DevelopmentRepository_proofs --------------------
(***************************************************************************)
(* Proofs about DevelopmentRepository: its tables keep their shape, a held *)
(* lab stays down, an interrupted boot is made good, and the tables keep   *)
(* RunContract, for any fixtures, people, labs, runs, tickets and stops.   *)
(***************************************************************************)
EXTENDS DevelopmentRepository, SequenceTheorems, TLAPS

-----------------------------------------------------------------------------
(* Tables.                                                                 *)

\* A row put into a table leaves the others as they are.
LEMMA PutRow ==
    ASSUME NEW t, NEW keys, NEW rows, IsTable(t, keys, rows),
           NEW k \in keys, NEW r \in rows
    PROVE  /\ IsTable(Put(t, k, r), keys, rows)
           /\ DOMAIN Put(t, k, r) = DOMAIN t \cup {k}
           /\ \A x \in DOMAIN t \cup {k} :
                 Put(t, k, r)[x] = IF x = k THEN r ELSE t[x]
BY DEF Put, IsTable

\* So does a row that is dropped.
LEMMA DropRow ==
    ASSUME NEW t, NEW keys, NEW rows, IsTable(t, keys, rows), NEW k
    PROVE  /\ IsTable(Drop(t, k), keys, rows)
           /\ DOMAIN Drop(t, k) = DOMAIN t \ {k}
           /\ \A x \in DOMAIN t \ {k} : Drop(t, k)[x] = t[x]
BY DEF Drop, IsTable

Tables == {"users", "orgs", "members", "labs", "runs", "results", "events",
           "tickets", "seasons"}
SameBut(e, d, changed) == \A f \in Tables \ changed : e[f] = d[f]

\* A new table leaves the others as they are.
LEMMA NewTable ==
    ASSUME NEW d, IsDatabase(d), NEW T
    PROVE  /\ [d EXCEPT !.users = T].users = T
           /\ SameBut([d EXCEPT !.users = T], d, {"users"})
           /\ [d EXCEPT !.orgs = T].orgs = T
           /\ SameBut([d EXCEPT !.orgs = T], d, {"orgs"})
           /\ [d EXCEPT !.members = T].members = T
           /\ SameBut([d EXCEPT !.members = T], d, {"members"})
           /\ [d EXCEPT !.labs = T].labs = T
           /\ SameBut([d EXCEPT !.labs = T], d, {"labs"})
           /\ [d EXCEPT !.runs = T].runs = T
           /\ SameBut([d EXCEPT !.runs = T], d, {"runs"})
           /\ [d EXCEPT !.tickets = T].tickets = T
           /\ SameBut([d EXCEPT !.tickets = T], d, {"tickets"})
           /\ [d EXCEPT !.seasons = T].seasons = T
           /\ SameBut([d EXCEPT !.seasons = T], d, {"seasons"})
BY DEF IsDatabase, SameBut, Tables

\* If it has the right shape, so has the database.
LEMMA NewTableTyped ==
    ASSUME NEW d, IsDatabase(d), NEW T
    PROVE  /\ IsTable(T, UserIds, UserRows) => IsDatabase([d EXCEPT !.users = T])
           /\ IsTable(T, OrgIds, OrgRows) => IsDatabase([d EXCEPT !.orgs = T])
           /\ IsTable(T, UserIds, Memberships)
                => IsDatabase([d EXCEPT !.members = T])
           /\ IsTable(T, LabIds, LabRows) => IsDatabase([d EXCEPT !.labs = T])
           /\ IsTable(T, RunIds, RunRows) => IsDatabase([d EXCEPT !.runs = T])
           /\ IsTable(T, Passes, PassRows)
                => IsDatabase([d EXCEPT !.tickets = T])
           /\ IsTable(T, NewSeasons, SeasonRows)
                => IsDatabase([d EXCEPT !.seasons = T])
BY DEF IsDatabase

\* The tables of a database.
LEMMA TablesTyped ==
    ASSUME NEW d, IsDatabase(d)
    PROVE  /\ IsTable(d.users, UserIds, UserRows)
           /\ IsTable(d.orgs, OrgIds, OrgRows)
           /\ IsTable(d.members, UserIds, Memberships)
           /\ IsTable(d.labs, LabIds, LabRows)
           /\ IsTable(d.runs, RunIds, RunRows)
           /\ IsTable(d.tickets, Passes, PassRows)
           /\ IsTable(d.seasons, NewSeasons, SeasonRows)
           /\ d.results \in [RunIds -> Nat] /\ d.events \in [RunIds -> Nat]
BY DEF IsDatabase

\* Two databases with the same tables are the same.
LEMMA SameTables ==
    ASSUME NEW d, IsDatabase(d), NEW e, IsDatabase(e), SameBut(d, e, {})
    PROVE  d = e
BY DEF IsDatabase, SameBut, Tables

-----------------------------------------------------------------------------
(* What a boot makes of each table.                                        *)

OrgsMissing(T, O) == {o \in O : \A p \in DOMAIN T :
                         p # o /\ T[p].slug # o /\ T[p].code # o}
OrgsWith(T, O) ==
    [o \in DOMAIN T \cup OrgsMissing(T, O) |->
        IF o \in OrgsMissing(T, O) THEN [slug |-> o, code |-> o, optIn |-> FALSE]
        ELSE T[o]]
OptedIn(T) == [o \in DOMAIN T |-> [T[o] EXCEPT !.optIn = TRUE]]

UsersMissing(T, U) == {u \in U : \A v \in DOMAIN T :
                          v # u /\ T[v].email # u /\ T[v].handle # u}
UsersWith(T, U) ==
    [u \in DOMAIN T \cup UsersMissing(T, U) |->
        IF u \in UsersMissing(T, U) THEN FixtureRow(u) ELSE T[u]]
Shown(r) == [r EXCEPT !.email = DevUser, !.handle = DevUser,
                      !.hash = "fixture", !.role = "platform_admin"]
Refreshed(T) == [u \in DOMAIN T |-> IF u = DevUser THEN Shown(T[u]) ELSE T[u]]
Filled(r) == [r EXCEPT !.agreed = TRUE,
                       !.hash = IF @ = "legacy" THEN "fixture" ELSE @]
Backfilled(T, U) ==
    [u \in DOMAIN T |-> IF u \in U THEN Filled(T[u]) ELSE T[u]]

MembersMissing(T, U) ==
    {u \in U : u \notin DOMAIN T /\ HomeOf[u].org # Nowhere}
MembersWith(T, U) ==
    [u \in DOMAIN T \cup MembersMissing(T, U) |->
        IF u \in MembersMissing(T, U) THEN HomeOf[u] ELSE T[u]]

LabsSeeded(T) ==
    [l \in DOMAIN T \cup Cohorts |->
        IF l \notin Cohorts THEN T[l]
        ELSE [owner |-> OwnerOf(l), org |-> IF l \in Seeded THEN l ELSE Nowhere,
              status |-> "validated", check |-> "pass", target |-> FALSE,
              held |-> l \in DOMAIN T /\ T[l].held]]
RunsSeeded(T) ==
    [r \in DOMAIN T \cup Fixtures |->
        IF r \notin Fixtures THEN T[r]
        ELSE [lab |-> CohortOf(r), user |-> r, status |-> "stopped"]]
ResultsSeeded(T) == [r \in RunIds |-> IF r \in Fixtures THEN 1 ELSE T[r]]

LEMMA OrgsWithTyped ==
    ASSUME NEW T, IsTable(T, OrgIds, OrgRows), NEW O \in SUBSET Seeded
    PROVE  IsTable(OrgsWith(T, O), OrgIds, OrgRows)
BY DEF IsTable, OrgsWith, OrgsMissing, OrgRows, OrgIds

LEMMA OptedInTyped ==
    ASSUME NEW T, IsTable(T, OrgIds, OrgRows)
    PROVE  IsTable(OptedIn(T), OrgIds, OrgRows)
BY DEF IsTable, OptedIn, OrgRows

LEMMA FixtureRowTyped ==
    ASSUME NEW u \in Fixtures
    PROVE  FixtureRow(u) \in UserRows
BY DEF FixtureRow, UserRows, UserIds

LEMMA UsersWithTyped ==
    ASSUME NEW T, IsTable(T, UserIds, UserRows), NEW U \in SUBSET Fixtures
    PROVE  IsTable(UsersWith(T, U), UserIds, UserRows)
BY FixtureRowTyped DEF IsTable, UsersWith, UsersMissing, UserIds

SameRow(r, s) ==
    /\ r.email = s.email /\ r.handle = s.handle /\ r.subject = s.subject
    /\ r.hash = s.hash /\ r.role = s.role /\ r.agreed = s.agreed
    /\ r.disabled = s.disabled

LEMMA RowIsItsFields ==
    ASSUME NEW r \in UserRows, NEW s \in UserRows, SameRow(r, s)
    PROVE  r = s
BY DEF UserRows, SameRow

LEMMA RowsRepaired ==
    ASSUME NEW r \in UserRows
    PROVE  /\ Shown(r) \in UserRows
           /\ Shown(r).email = DevUser /\ Shown(r).handle = DevUser
           /\ Shown(r).subject = r.subject /\ Shown(r).hash = "fixture"
           /\ Shown(r).role = "platform_admin" /\ Shown(r).agreed = r.agreed
           /\ Shown(r).disabled = r.disabled
           /\ Filled(r) \in UserRows
           /\ Filled(r).email = r.email /\ Filled(r).handle = r.handle
           /\ Filled(r).subject = r.subject
           /\ Filled(r).hash = IF r.hash = "legacy" THEN "fixture" ELSE r.hash
           /\ Filled(r).role = r.role /\ Filled(r).agreed = TRUE
           /\ Filled(r).disabled = r.disabled
<1>1. Shown(r) \in UserRows
  BY DevUserIsAFixture DEF Shown, UserRows, UserIds
<1>2. /\ Shown(r).email = DevUser /\ Shown(r).handle = DevUser
      /\ Shown(r).subject = r.subject /\ Shown(r).hash = "fixture"
      /\ Shown(r).role = "platform_admin" /\ Shown(r).agreed = r.agreed
      /\ Shown(r).disabled = r.disabled
  BY DEF Shown, UserRows
<1>3. Filled(r) \in UserRows
  BY DEF Filled, UserRows
<1>4. /\ Filled(r).email = r.email /\ Filled(r).handle = r.handle
      /\ Filled(r).subject = r.subject
      /\ Filled(r).hash = IF r.hash = "legacy" THEN "fixture" ELSE r.hash
      /\ Filled(r).role = r.role /\ Filled(r).agreed = TRUE
      /\ Filled(r).disabled = r.disabled
  BY DEF Filled, UserRows
<1> QED BY <1>1, <1>2, <1>3, <1>4

LEMMA RepairsRepeated ==
    ASSUME NEW r \in UserRows
    PROVE  /\ Shown(Shown(r)) = Shown(r) /\ Filled(Filled(r)) = Filled(r)
           /\ Filled(Shown(Filled(r))) = Filled(Shown(r))
<1>1. ASSUME NEW s \in UserRows, s.email = DevUser, s.handle = DevUser,
             s.hash = "fixture", s.role = "platform_admin"
      PROVE  Shown(s) = s
  <2>1. Shown(s) \in UserRows /\ SameRow(Shown(s), s)
    BY <1>1, RowsRepaired DEF SameRow
  <2> QED BY <2>1, RowIsItsFields
<1>2. ASSUME NEW s \in UserRows, s.hash # "legacy", s.agreed = TRUE
      PROVE  Filled(s) = s
  <2>1. Filled(s) \in UserRows /\ SameRow(Filled(s), s)
    BY <1>2, RowsRepaired DEF SameRow
  <2> QED BY <2>1, RowIsItsFields
<1>3. ASSUME NEW f, f = Filled(r), NEW g, g = Shown(f), NEW s, s = Shown(r)
      PROVE  Filled(g) = Filled(s)
  <2>1. /\ f \in UserRows /\ s \in UserRows
        /\ f.subject = r.subject /\ f.disabled = r.disabled
        /\ s.email = DevUser /\ s.handle = DevUser /\ s.hash = "fixture"
        /\ s.role = "platform_admin" /\ s.subject = r.subject
        /\ s.disabled = r.disabled
    BY <1>3, RowsRepaired
  <2>2. /\ g \in UserRows
        /\ g.email = DevUser /\ g.handle = DevUser /\ g.hash = "fixture"
        /\ g.role = "platform_admin" /\ g.subject = r.subject
        /\ g.disabled = r.disabled
    BY <1>3, <2>1, RowsRepaired
  <2>3. Filled(g) \in UserRows /\ Filled(s) \in UserRows
    BY <2>1, <2>2, RowsRepaired
  <2>4. /\ Filled(g).email = DevUser /\ Filled(g).handle = DevUser
        /\ Filled(g).subject = r.subject /\ Filled(g).hash = "fixture"
        /\ Filled(g).role = "platform_admin" /\ Filled(g).agreed = TRUE
        /\ Filled(g).disabled = r.disabled
    BY <2>2, RowsRepaired
  <2>5. /\ Filled(s).email = DevUser /\ Filled(s).handle = DevUser
        /\ Filled(s).subject = r.subject /\ Filled(s).hash = "fixture"
        /\ Filled(s).role = "platform_admin" /\ Filled(s).agreed = TRUE
        /\ Filled(s).disabled = r.disabled
    BY <2>1, RowsRepaired
  <2>6. SameRow(Filled(g), Filled(s))
    BY <2>4, <2>5 DEF SameRow
  <2> QED BY <2>3, <2>6, RowIsItsFields
<1>4. Shown(Shown(r)) = Shown(r) /\ Filled(Filled(r)) = Filled(r)
  BY <1>1, <1>2, RowsRepaired
<1> QED BY <1>3, <1>4

LEMMA RefreshedTyped ==
    ASSUME NEW T, IsTable(T, UserIds, UserRows)
    PROVE  IsTable(Refreshed(T), UserIds, UserRows)
BY RowsRepaired DEF IsTable, Refreshed

LEMMA BackfilledTyped ==
    ASSUME NEW T, IsTable(T, UserIds, UserRows), NEW U
    PROVE  IsTable(Backfilled(T, U), UserIds, UserRows)
BY RowsRepaired DEF IsTable, Backfilled

LEMMA MembersWithTyped ==
    ASSUME NEW T, IsTable(T, UserIds, Memberships), NEW U \in SUBSET Fixtures
    PROVE  IsTable(MembersWith(T, U), UserIds, Memberships)
BY FixturesHaveAHome DEF IsTable, MembersWith, MembersMissing, UserIds

LEMMA CohortsAreKnown ==
    ASSUME NEW c \in Cohorts
    PROVE  /\ OwnerOf(c) \in UserIds /\ c \in LabIds
           /\ c \in Seeded \/ c \in Fixtures
BY FixturesHaveAHome, CohortsHaveAnOwner
   DEF Cohorts, CohortOf, OwnerOf, UserIds, LabIds

LEMMA LabsSeededTyped ==
    ASSUME NEW T, IsTable(T, LabIds, LabRows)
    PROVE  IsTable(LabsSeeded(T), LabIds, LabRows)
<1> DEFINE row(l) == [owner |-> OwnerOf(l),
                      org |-> IF l \in Seeded THEN l ELSE Nowhere,
                      status |-> "validated", check |-> "pass",
                      target |-> FALSE, held |-> l \in DOMAIN T /\ T[l].held]
<1>1. ASSUME NEW l \in Cohorts PROVE row(l) \in LabRows
  BY CohortsAreKnown DEF LabRows, IsTable, OrgIds
<1>2. LabsSeeded(T) = [l \in DOMAIN T \cup Cohorts |->
                          IF l \notin Cohorts THEN T[l] ELSE row(l)]
  BY DEF LabsSeeded
<1> HIDE DEF row
<1> QED BY <1>1, <1>2, CohortsAreKnown DEF IsTable

LEMMA RunsSeededTyped ==
    ASSUME NEW T, IsTable(T, RunIds, RunRows)
    PROVE  IsTable(RunsSeeded(T), RunIds, RunRows)
<1>1. ASSUME NEW r \in Fixtures
      PROVE  /\ [lab |-> CohortOf(r), user |-> r, status |-> "stopped"] \in RunRows
             /\ r \in RunIds
  BY DEF RunRows, LabIds, Cohorts, UserIds, RunIds
<1> QED BY <1>1 DEF IsTable, RunsSeeded

DemoSeason(t) == [slug |-> t \div Month,
                  starts |-> IF t > HalfSeason THEN t - HalfSeason ELSE 0,
                  ends |-> t + HalfSeason]
SeasonIsMissing(T, t) ==
    /\ \A x \in DOMAIN T : ~(T[x].starts <= t /\ t < T[x].ends)
    /\ \A x \in DOMAIN T :
          /\ ~(T[x].starts < DemoSeason(t).ends /\ T[x].ends > DemoSeason(t).starts)
          /\ T[x].slug # DemoSeason(t).slug
    /\ DOMAIN T # NewSeasons
UnusedSeason(T) == CHOOSE x \in NewSeasons : x \notin DOMAIN T
SeasonsWith(T, t) ==
    IF SeasonIsMissing(T, t) THEN Put(T, UnusedSeason(T), DemoSeason(t)) ELSE T

LEMMA DemoSeasonTyped ==
    ASSUME NEW t \in Nat
    PROVE  /\ DemoSeason(t) \in SeasonRows
           /\ DemoSeason(t).starts <= t /\ t < DemoSeason(t).ends
<1>1. t \div Month \in Nat
  BY Calendar
<1> QED BY <1>1, Calendar DEF DemoSeason, SeasonRows

LEMMA SeasonsWithTyped ==
    ASSUME NEW T, IsTable(T, NewSeasons, SeasonRows), NEW t \in Nat
    PROVE  IsTable(SeasonsWith(T, t), NewSeasons, SeasonRows)
<1>1. ASSUME DOMAIN T # NewSeasons
      PROVE  UnusedSeason(T) \in NewSeasons
  BY <1>1 DEF UnusedSeason, IsTable
<1> QED BY <1>1, DemoSeasonTyped, PutRow DEF SeasonsWith, SeasonIsMissing

\* The statement of the season does nothing the second time.
LEMMA SeasonIsSeededOnce ==
    ASSUME NEW T, IsTable(T, NewSeasons, SeasonRows), NEW t \in Nat
    PROVE  SeasonsWith(SeasonsWith(T, t), t) = SeasonsWith(T, t)
<1>1. CASE ~SeasonIsMissing(T, t)
  <2>1. SeasonsWith(T, t) = T
    BY <1>1 DEF SeasonsWith
  <2> QED BY <2>1
<1>2. CASE SeasonIsMissing(T, t)
  <2> DEFINE id == UnusedSeason(T)
             S == Put(T, id, DemoSeason(t))
  <2>1. id \in NewSeasons
    BY <1>2 DEF UnusedSeason, IsTable, SeasonIsMissing
  <2>2. id \in DOMAIN S /\ S[id] = DemoSeason(t)
    BY DEF Put
  <2>3. SeasonsWith(T, t) = S
    BY <1>2 DEF SeasonsWith
  <2> HIDE DEF S, id
  <2>4. ~SeasonIsMissing(S, t)
    BY <2>2, DemoSeasonTyped DEF SeasonIsMissing
  <2> QED BY <2>3, <2>4 DEF SeasonsWith
<1> QED BY <1>1, <1>2

-----------------------------------------------------------------------------
(* The statements of a boot, and all of them at once, table by table.      *)

IsStatement(st) ==
    \/ st[1] = "organization" /\ st[2] \in Seeded
    \/ st[1] \in {"user", "membership", "backfill"} /\ st[2] \in Fixtures
    \/ st[1] \in {"actor", "capability", "season", "optin"}

UsersAfter(st, T) ==
    CASE st[1] = "user"     -> UsersWith(T, {st[2]})
      [] st[1] = "actor"    -> Refreshed(T)
      [] st[1] = "backfill" -> Backfilled(T, {st[2]})
      [] OTHER              -> T
OrgsAfter(st, T) ==
    CASE st[1] = "organization" -> OrgsWith(T, {st[2]})
      [] st[1] = "optin"       -> OptedIn(T)
      [] OTHER                  -> T
MembersAfter(st, T) == IF st[1] = "membership" THEN MembersWith(T, {st[2]}) ELSE T
LabsAfter(st, T) == IF st[1] = "capability" THEN LabsSeeded(T) ELSE T
RunsAfter(st, T) == IF st[1] = "capability" THEN RunsSeeded(T) ELSE T
ResultsAfter(st, T) == IF st[1] = "capability" THEN ResultsSeeded(T) ELSE T
SeasonsAfter(st, T, t) == IF st[1] = "season" THEN SeasonsWith(T, t) ELSE T

LEMMA ExecutedTables ==
    ASSUME NEW d, IsDatabase(d), NEW st, IsStatement(st), NEW t \in Nat
    PROVE  /\ IsDatabase(Executed(st, d, t))
           /\ Executed(st, d, t).users = UsersAfter(st, d.users)
           /\ Executed(st, d, t).orgs = OrgsAfter(st, d.orgs)
           /\ Executed(st, d, t).members = MembersAfter(st, d.members)
           /\ Executed(st, d, t).labs = LabsAfter(st, d.labs)
           /\ Executed(st, d, t).runs = RunsAfter(st, d.runs)
           /\ Executed(st, d, t).results = ResultsAfter(st, d.results)
           /\ Executed(st, d, t).seasons = SeasonsAfter(st, d.seasons, t)
           /\ Executed(st, d, t).events = d.events
           /\ Executed(st, d, t).tickets = d.tickets
<1> DEFINE e == Executed(st, d, t)
<1>0. /\ IsTable(d.users, UserIds, UserRows)
      /\ IsTable(d.orgs, OrgIds, OrgRows)
      /\ IsTable(d.members, UserIds, Memberships)
      /\ IsTable(d.labs, LabIds, LabRows)
      /\ IsTable(d.runs, RunIds, RunRows)
      /\ IsTable(d.seasons, NewSeasons, SeasonRows)
  BY TablesTyped
<1> DEFINE like(U, O, M, L, R, G, S) ==
      [users |-> U, orgs |-> O, members |-> M, labs |-> L, runs |-> R,
       results |-> G, events |-> d.events, tickets |-> d.tickets,
       seasons |-> S]
<1>1. d = like(d.users, d.orgs, d.members, d.labs, d.runs, d.results, d.seasons)
  BY DEF IsDatabase
<1>2. e = like(UsersAfter(st, d.users), OrgsAfter(st, d.orgs),
               MembersAfter(st, d.members), LabsAfter(st, d.labs),
               RunsAfter(st, d.runs), ResultsAfter(st, d.results),
               SeasonsAfter(st, d.seasons, t))
  <2>1. CASE st[1] = "organization"
    <3>1. e = [d EXCEPT !.orgs = OrgsWith(@, {st[2]})]
      BY <2>1 DEF Executed, ensureOrganizations, OrgsWith, OrgsMissing
    <3> QED BY <1>1, <2>1, <3>1 DEF UsersAfter, OrgsAfter, MembersAfter,
              LabsAfter, RunsAfter, ResultsAfter, SeasonsAfter
  <2>2. CASE st[1] = "user"
    <3>1. e = [d EXCEPT !.users = UsersWith(@, {st[2]})]
      BY <2>2 DEF Executed, ensureUsers, UsersWith, UsersMissing
    <3> QED BY <1>1, <2>2, <3>1 DEF UsersAfter, OrgsAfter, MembersAfter,
              LabsAfter, RunsAfter, ResultsAfter, SeasonsAfter
  <2>3. CASE st[1] = "membership"
    <3>1. e = [d EXCEPT !.members = MembersWith(@, {st[2]})]
      BY <2>3 DEF Executed, ensureMembers, MembersWith, MembersMissing
    <3> QED BY <1>1, <2>3, <3>1 DEF UsersAfter, OrgsAfter, MembersAfter,
              LabsAfter, RunsAfter, ResultsAfter, SeasonsAfter
  <2>4. CASE st[1] = "actor"
    <3>1. e = [d EXCEPT !.users = Refreshed(@)]
      BY <2>4 DEF Executed, refreshActor, Refreshed, Shown
    <3> QED BY <1>1, <2>4, <3>1 DEF UsersAfter, OrgsAfter, MembersAfter,
              LabsAfter, RunsAfter, ResultsAfter, SeasonsAfter
  <2>5. CASE st[1] = "backfill"
    <3>1. e = [d EXCEPT !.users = Backfilled(@, {st[2]})]
      BY <2>5 DEF Executed, backfill, Backfilled, Filled
    <3> QED BY <1>1, <2>5, <3>1 DEF UsersAfter, OrgsAfter, MembersAfter,
              LabsAfter, RunsAfter, ResultsAfter, SeasonsAfter
  <2>6. CASE st[1] = "capability"
    <3>1. e = [d EXCEPT !.labs = LabsSeeded(@), !.runs = RunsSeeded(@),
                        !.results = ResultsSeeded(@)]
      BY <2>6, <1>1 DEF Executed, seedCapability, LabsSeeded, RunsSeeded, ResultsSeeded
    <3> QED BY <1>1, <2>6, <3>1 DEF UsersAfter, OrgsAfter, MembersAfter,
              LabsAfter, RunsAfter, ResultsAfter, SeasonsAfter
  <2>7. CASE st[1] = "season"
    <3>1. e = IF SeasonIsMissing(d.seasons, t)
              THEN [d EXCEPT !.seasons = Put(@, UnusedSeason(d.seasons), DemoSeason(t))]
              ELSE d
      <4>1. e = seedSeason(d, t)
        BY <2>7 DEF Executed
      <4>2. SeasonIsMissing(d.seasons, t) <=>
              /\ ActiveAt(d, t) = {} /\ AcceptsSeason(d, DemoSeason(t))
              /\ DOMAIN d.seasons # NewSeasons
        BY DEF SeasonIsMissing, ActiveAt, AcceptsSeason
      <4> QED BY <4>1, <4>2 DEF seedSeason, DemoSeason, UnusedSeason
    <3> QED BY <1>1, <2>7, <3>1 DEF UsersAfter, OrgsAfter, MembersAfter,
              LabsAfter, RunsAfter, ResultsAfter, SeasonsAfter, SeasonsWith
  <2>8. CASE st[1] = "optin"
    <3>1. e = [d EXCEPT !.orgs = OptedIn(@)]
      BY <2>8 DEF Executed, optIn, OptedIn
    <3> QED BY <1>1, <2>8, <3>1 DEF UsersAfter, OrgsAfter, MembersAfter,
              LabsAfter, RunsAfter, ResultsAfter, SeasonsAfter
  <2> QED BY <2>1, <2>2, <2>3, <2>4, <2>5, <2>6, <2>7, <2>8 DEF IsStatement
<1>3. /\ IsTable(UsersAfter(st, d.users), UserIds, UserRows)
      /\ IsTable(OrgsAfter(st, d.orgs), OrgIds, OrgRows)
      /\ IsTable(MembersAfter(st, d.members), UserIds, Memberships)
      /\ IsTable(LabsAfter(st, d.labs), LabIds, LabRows)
      /\ IsTable(RunsAfter(st, d.runs), RunIds, RunRows)
      /\ ResultsAfter(st, d.results) \in [RunIds -> Nat]
      /\ IsTable(SeasonsAfter(st, d.seasons, t), NewSeasons, SeasonRows)
  <2>1. IsTable(UsersAfter(st, d.users), UserIds, UserRows)
    <3>1. st[1] = "user" => {st[2]} \in SUBSET Fixtures
      BY DEF IsStatement
    <3> QED BY <1>0, <3>1, UsersWithTyped, RefreshedTyped, BackfilledTyped
            DEF UsersAfter
  <2>2. IsTable(OrgsAfter(st, d.orgs), OrgIds, OrgRows)
    <3>1. st[1] = "organization" => {st[2]} \in SUBSET Seeded
      BY DEF IsStatement
    <3> QED BY <1>0, <3>1, OrgsWithTyped, OptedInTyped DEF OrgsAfter
  <2>3. IsTable(MembersAfter(st, d.members), UserIds, Memberships)
    <3>1. st[1] = "membership" => {st[2]} \in SUBSET Fixtures
      BY DEF IsStatement
    <3> QED BY <1>0, <3>1, MembersWithTyped DEF MembersAfter
  <2>4. ResultsAfter(st, d.results) \in [RunIds -> Nat]
    BY DEF ResultsAfter, ResultsSeeded, IsDatabase
  <2> QED BY <1>0, <2>1, <2>2, <2>3, <2>4, LabsSeededTyped, RunsSeededTyped,
             SeasonsWithTyped DEF LabsAfter, RunsAfter, SeasonsAfter
<1>4. e.users = UsersAfter(st, d.users) /\ e.orgs = OrgsAfter(st, d.orgs)
      /\ e.members = MembersAfter(st, d.members) /\ e.labs = LabsAfter(st, d.labs)
      /\ e.runs = RunsAfter(st, d.runs) /\ e.results = ResultsAfter(st, d.results)
      /\ e.seasons = SeasonsAfter(st, d.seasons, t)
      /\ e.events = d.events /\ e.tickets = d.tickets
  BY <1>2
<1>5. IsDatabase(e)
  BY <1>2, <1>3, <1>4 DEF IsDatabase
<1> QED BY <1>4, <1>5

UsersBooted(T) == Backfilled(Refreshed(UsersWith(T, Fixtures)), Fixtures)
OrgsBooted(T) == OptedIn(OrgsWith(T, Seeded))

LEMMA BootedTables ==
    ASSUME NEW d, IsDatabase(d), NEW t \in Nat
    PROVE  /\ IsDatabase(Booted(d, t))
           /\ Booted(d, t).users = UsersBooted(d.users)
           /\ Booted(d, t).orgs = OrgsBooted(d.orgs)
           /\ Booted(d, t).members = MembersWith(d.members, Fixtures)
           /\ Booted(d, t).labs = LabsSeeded(d.labs)
           /\ Booted(d, t).runs = RunsSeeded(d.runs)
           /\ Booted(d, t).results = ResultsSeeded(d.results)
           /\ Booted(d, t).seasons = SeasonsWith(d.seasons, t)
           /\ Booted(d, t).events = d.events
           /\ Booted(d, t).tickets = d.tickets
<1>1. /\ IsTable(UsersBooted(d.users), UserIds, UserRows)
      /\ IsTable(OrgsBooted(d.orgs), OrgIds, OrgRows)
      /\ IsTable(MembersWith(d.members, Fixtures), UserIds, Memberships)
      /\ IsTable(LabsSeeded(d.labs), LabIds, LabRows)
      /\ IsTable(RunsSeeded(d.runs), RunIds, RunRows)
      /\ ResultsSeeded(d.results) \in [RunIds -> Nat]
      /\ IsTable(SeasonsWith(d.seasons, t), NewSeasons, SeasonRows)
  <2>1. IsTable(UsersBooted(d.users), UserIds, UserRows)
    BY TablesTyped, UsersWithTyped, RefreshedTyped, BackfilledTyped
       DEF UsersBooted
  <2>2. IsTable(OrgsBooted(d.orgs), OrgIds, OrgRows)
    BY TablesTyped, OrgsWithTyped, OptedInTyped DEF OrgsBooted
  <2>3. IsTable(MembersWith(d.members, Fixtures), UserIds, Memberships)
    BY TablesTyped, MembersWithTyped
  <2>4. ResultsSeeded(d.results) \in [RunIds -> Nat]
    BY DEF ResultsSeeded, IsDatabase
  <2> QED BY <2>1, <2>2, <2>3, <2>4, TablesTyped, LabsSeededTyped,
             RunsSeededTyped, SeasonsWithTyped
<1> DEFINE like(U, O, M, L, R, G, S) ==
      [users |-> U, orgs |-> O, members |-> M, labs |-> L, runs |-> R,
       results |-> G, events |-> d.events, tickets |-> d.tickets,
       seasons |-> S]
<1>2. d = like(d.users, d.orgs, d.members, d.labs, d.runs, d.results, d.seasons)
  BY DEF IsDatabase
<1>3. ASSUME NEW U, NEW O, NEW M, NEW L, NEW R, NEW G, NEW S, NEW Q
      PROVE  /\ ensureOrganizations(like(U, O, M, L, R, G, S), Q) =
                   like(U, OrgsWith(O, Q), M, L, R, G, S)
             /\ ensureUsers(like(U, O, M, L, R, G, S), Q) =
                   like(UsersWith(U, Q), O, M, L, R, G, S)
             /\ ensureMembers(like(U, O, M, L, R, G, S), Q) =
                   like(U, O, MembersWith(M, Q), L, R, G, S)
  <2> DEFINE e == like(U, O, M, L, R, G, S)
  <2>1. e.users = U /\ e.orgs = O /\ e.members = M
    OBVIOUS
  <2> HIDE DEF e
  <2>2. ensureOrganizations(e, Q) = [e EXCEPT !.orgs = OrgsWith(O, Q)]
    BY <2>1 DEF ensureOrganizations, OrgsWith, OrgsMissing
  <2>3. ensureUsers(e, Q) = [e EXCEPT !.users = UsersWith(U, Q)]
    BY <2>1 DEF ensureUsers, UsersWith, UsersMissing
  <2>4. ensureMembers(e, Q) = [e EXCEPT !.members = MembersWith(M, Q)]
    BY <2>1 DEF ensureMembers, MembersWith, MembersMissing
  <2> USE DEF e
  <2> QED BY <2>2, <2>3, <2>4
<1>4. ASSUME NEW U, NEW O, NEW M, NEW L, NEW R, NEW G, NEW S, NEW Q
      PROVE  /\ refreshActor(like(U, O, M, L, R, G, S)) =
                   like(Refreshed(U), O, M, L, R, G, S)
             /\ backfill(like(U, O, M, L, R, G, S), Q) =
                   like(Backfilled(U, Q), O, M, L, R, G, S)
             /\ optIn(like(U, O, M, L, R, G, S)) =
                   like(U, OptedIn(O), M, L, R, G, S)
  <2> DEFINE e == like(U, O, M, L, R, G, S)
  <2>1. e.users = U /\ e.orgs = O
    OBVIOUS
  <2> HIDE DEF e
  <2>2. refreshActor(e) = [e EXCEPT !.users = Refreshed(U)]
    BY <2>1 DEF refreshActor, Refreshed, Shown
  <2>3. backfill(e, Q) = [e EXCEPT !.users = Backfilled(U, Q)]
    BY <2>1 DEF backfill, Backfilled, Filled
  <2>4. optIn(e) = [e EXCEPT !.orgs = OptedIn(O)]
    BY <2>1 DEF optIn, OptedIn
  <2> USE DEF e
  <2> QED BY <2>2, <2>3, <2>4
<1>5. ASSUME NEW U, NEW O, NEW M, NEW L, NEW R, NEW G, NEW S
      PROVE  seedCapability(like(U, O, M, L, R, G, S)) =
                like(U, O, M, LabsSeeded(L), RunsSeeded(R), ResultsSeeded(G), S)
  <2> DEFINE e == like(U, O, M, L, R, G, S)
  <2>1. e.labs = L /\ e.runs = R /\ e.results = G
    OBVIOUS
  <2> HIDE DEF e
  <2>2. seedCapability(e) = [e EXCEPT !.labs = LabsSeeded(L),
                               !.runs = RunsSeeded(R), !.results = ResultsSeeded(G)]
    BY <2>1 DEF seedCapability, LabsSeeded, RunsSeeded, ResultsSeeded
  <2> USE DEF e
  <2> QED BY <2>2
<1>6. ASSUME NEW U, NEW O, NEW M, NEW L, NEW R, NEW G, NEW S
      PROVE  seedSeason(like(U, O, M, L, R, G, S), t) =
                like(U, O, M, L, R, G, SeasonsWith(S, t))
  <2> DEFINE e == like(U, O, M, L, R, G, S)
  <2>1. SeasonIsMissing(S, t) <=>
              /\ ActiveAt(e, t) = {} /\ AcceptsSeason(e, DemoSeason(t))
              /\ DOMAIN e.seasons # NewSeasons
    BY DEF SeasonIsMissing, ActiveAt, AcceptsSeason
  <2>2. seedSeason(e, t) =
          IF SeasonIsMissing(S, t)
          THEN [e EXCEPT !.seasons = Put(@, UnusedSeason(S), DemoSeason(t))]
          ELSE e
    BY <2>1 DEF seedSeason, DemoSeason, UnusedSeason
  <2> QED BY <2>2 DEF SeasonsWith
<1>9. Booted(d, t) =
        like(UsersBooted(d.users), OrgsBooted(d.orgs),
             MembersWith(d.members, Fixtures), LabsSeeded(d.labs),
             RunsSeeded(d.runs), ResultsSeeded(d.results),
             SeasonsWith(d.seasons, t))
  <2> HIDE DEF like
  <2>1. ensureMembers(ensureUsers(ensureOrganizations(d, Seeded), Fixtures),
                      Fixtures) =
        like(UsersWith(d.users, Fixtures), OrgsWith(d.orgs, Seeded),
             MembersWith(d.members, Fixtures), d.labs, d.runs, d.results, d.seasons)
    BY <1>2, <1>3
  <2>2. backfill(refreshActor(ensureMembers(ensureUsers(
            ensureOrganizations(d, Seeded), Fixtures), Fixtures)), Fixtures) =
        like(UsersBooted(d.users), OrgsWith(d.orgs, Seeded),
             MembersWith(d.members, Fixtures), d.labs, d.runs, d.results, d.seasons)
    BY <1>4, <2>1 DEF UsersBooted
  <2>3. seedSeason(seedCapability(backfill(refreshActor(ensureMembers(
            ensureUsers(ensureOrganizations(d, Seeded), Fixtures), Fixtures)),
            Fixtures)), t) =
        like(UsersBooted(d.users), OrgsWith(d.orgs, Seeded),
             MembersWith(d.members, Fixtures), LabsSeeded(d.labs),
             RunsSeeded(d.runs), ResultsSeeded(d.results),
             SeasonsWith(d.seasons, t))
    BY <1>5, <1>6, <2>2
  <2> QED BY <1>4, <2>3 DEF Booted, OrgsBooted
<1>10. /\ Booted(d, t).users = UsersBooted(d.users)
       /\ Booted(d, t).orgs = OrgsBooted(d.orgs)
       /\ Booted(d, t).members = MembersWith(d.members, Fixtures)
       /\ Booted(d, t).labs = LabsSeeded(d.labs)
       /\ Booted(d, t).runs = RunsSeeded(d.runs)
       /\ Booted(d, t).results = ResultsSeeded(d.results)
       /\ Booted(d, t).seasons = SeasonsWith(d.seasons, t)
       /\ Booted(d, t).events = d.events
       /\ Booted(d, t).tickets = d.tickets
  BY <1>9
<1>11. IsDatabase(Booted(d, t))
  BY <1>1, <1>9, <1>10 DEF IsDatabase
<1> QED BY <1>10, <1>11

-----------------------------------------------------------------------------
(* A statement before a boot makes no difference to what the boot leaves.  *)

\* Nobody else has the address or the name of a fixture account, and it
\* keeps both.
Named(T) == \A u \in DOMAIN T \cap Fixtures : T[u].email = u /\ T[u].handle = u

LEMMA UsersAbsorbed ==
    ASSUME NEW T, IsTable(T, UserIds, UserRows), Named(T),
           NEW st, IsStatement(st)
    PROVE  /\ UsersBooted(UsersAfter(st, T)) = UsersBooted(T)
           /\ Named(UsersAfter(st, T))
<1>0. \A x \in DOMAIN T : T[x] \in UserRows
  BY DEF IsTable
<1>1. CASE st[1] = "user"
  <2> DEFINE u == st[2]
             S == UsersWith(T, {u})
  <2>0. u \in Fixtures
    BY <1>1 DEF IsStatement
  <2>1. UsersAfter(st, T) = S
    BY <1>1 DEF UsersAfter
  <2>2. CASE u \notin UsersMissing(T, {u})
    <3>1. S = T
      BY <2>2 DEF UsersWith, UsersMissing, IsTable
    <3> QED BY <2>1, <3>1
  <2>3. CASE u \in UsersMissing(T, {u})
    <3>1. /\ DOMAIN S = DOMAIN T \cup {u} /\ u \notin DOMAIN T
          /\ S[u] = FixtureRow(u) /\ \A x \in DOMAIN T : S[x] = T[x]
      BY <2>3 DEF UsersWith, UsersMissing
    <3> HIDE DEF S
    <3>2. UsersMissing(T, Fixtures) = UsersMissing(S, Fixtures) \cup {u}
      BY <2>0, <2>3, <3>1 DEF UsersMissing, FixtureRow
    <3>3. u \notin UsersMissing(S, Fixtures)
      BY <3>1 DEF UsersMissing
    <3>4. UsersWith(S, Fixtures) = UsersWith(T, Fixtures)
      BY <3>1, <3>2, <3>3 DEF UsersWith
    <3>5. Named(S)
      BY <3>1 DEF Named, FixtureRow
    <3> QED BY <2>1, <3>4, <3>5 DEF UsersBooted
  <2> QED BY <2>2, <2>3
<1>2. CASE st[1] = "actor"
  <2> DEFINE S == Refreshed(T)
  <2>1. UsersAfter(st, T) = S
    BY <1>2 DEF UsersAfter
  <2>2. /\ DOMAIN S = DOMAIN T
        /\ \A x \in DOMAIN T : S[x] = IF x = DevUser THEN Shown(T[x]) ELSE T[x]
    BY DEF Refreshed
  <2> HIDE DEF S
  <2>3. \A x \in DOMAIN T : S[x].email = T[x].email /\ S[x].handle = T[x].handle
    <3> SUFFICES ASSUME NEW x \in DOMAIN T
                 PROVE  S[x].email = T[x].email /\ S[x].handle = T[x].handle
      OBVIOUS
    <3>1. x = DevUser => T[x].email = x /\ T[x].handle = x
      BY DevUserIsAFixture DEF Named
    <3>2. Shown(T[x]).email = DevUser /\ Shown(T[x]).handle = DevUser
      BY <1>0, RowsRepaired
    <3> QED BY <2>2, <3>1, <3>2
  <2>4. \A x \in DOMAIN T : Shown(T[x]) = Shown(Shown(T[x]))
    BY <1>0, RepairsRepeated
  <2>5. UsersMissing(S, Fixtures) = UsersMissing(T, Fixtures)
    BY <2>2, <2>3 DEF UsersMissing
  <2> DEFINE A == UsersWith(T, Fixtures)
             B == UsersWith(S, Fixtures)
  <2>9. DOMAIN A = DOMAIN B
    BY <2>2, <2>5 DEF UsersWith
  <2>6. ASSUME NEW x \in DOMAIN A
        PROVE  B[x] = A[x] \/ (x = DevUser /\ Shown(B[x]) = Shown(A[x]))
    <3>2. CASE x \in UsersMissing(T, Fixtures)
      BY <3>2, <2>2, <2>5 DEF UsersWith
    <3>3. CASE x \notin UsersMissing(T, Fixtures)
      <4>1. x \in DOMAIN T /\ A[x] = T[x] /\ B[x] = S[x]
        BY <3>3, <2>2, <2>5 DEF UsersWith
      <4> QED BY <4>1, <2>2, <2>4
    <3> QED BY <3>2, <3>3
  <2> HIDE DEF A, B
  <2>7. Refreshed(B) = Refreshed(A)
    BY <2>6, <2>9 DEF Refreshed
  <2>8. Named(S)
    BY <2>2, <2>3 DEF Named
  <2> USE DEF A, B
  <2> QED BY <2>1, <2>7, <2>8 DEF UsersBooted
<1>3. CASE st[1] = "backfill"
  <2> DEFINE u == st[2]
             S == Backfilled(T, {u})
  <2>0. u \in Fixtures
    BY <1>3 DEF IsStatement
  <2>1. UsersAfter(st, T) = S
    BY <1>3 DEF UsersAfter
  <2>2. /\ DOMAIN S = DOMAIN T
        /\ \A x \in DOMAIN T : S[x] = IF x = u THEN Filled(T[x]) ELSE T[x]
    BY DEF Backfilled
  <2> HIDE DEF S, u
  <2>3. \A x \in DOMAIN T : S[x].email = T[x].email /\ S[x].handle = T[x].handle
    <3> SUFFICES ASSUME NEW x \in DOMAIN T
                 PROVE  S[x].email = T[x].email /\ S[x].handle = T[x].handle
      OBVIOUS
    <3>1. Filled(T[x]).email = T[x].email /\ Filled(T[x]).handle = T[x].handle
      BY <1>0, RowsRepaired
    <3> QED BY <2>2, <3>1
  <2>4. UsersMissing(S, Fixtures) = UsersMissing(T, Fixtures)
    BY <2>2, <2>3 DEF UsersMissing
  <2>5. Named(S)
    BY <2>2, <2>3 DEF Named
  <2> DEFINE A == UsersWith(T, Fixtures)
             B == UsersWith(S, Fixtures)
  <2>6. DOMAIN A = DOMAIN B /\ IsTable(A, UserIds, UserRows)
    BY <2>2, <2>4, UsersWithTyped DEF UsersWith
  <2>7. ASSUME NEW x \in DOMAIN A
        PROVE  B[x] = A[x] \/ (x = u /\ B[x] = Filled(A[x]))
    <3>2. CASE x \in UsersMissing(T, Fixtures)
      BY <3>2, <2>2, <2>4 DEF UsersWith
    <3>3. CASE x \notin UsersMissing(T, Fixtures)
      <4>1. x \in DOMAIN T /\ A[x] = T[x] /\ B[x] = S[x]
        BY <3>3, <2>2, <2>4 DEF UsersWith
      <4> QED BY <4>1, <2>2
    <3> QED BY <3>2, <3>3
  <2> HIDE DEF A, B
  <2>8. ASSUME NEW x \in DOMAIN A
        PROVE  /\ Filled(IF x = DevUser THEN Shown(B[x]) ELSE B[x]) =
                     Filled(IF x = DevUser THEN Shown(A[x]) ELSE A[x])
                  \/ A[x] = B[x]
               /\ x \notin Fixtures => A[x] = B[x]
    <3>1. A[x] \in UserRows
      BY <2>6 DEF IsTable
    <3>2. /\ Filled(Filled(A[x])) = Filled(A[x])
          /\ Filled(Shown(Filled(A[x]))) = Filled(Shown(A[x]))
      BY <3>1, RepairsRepeated
    <3>3. CASE B[x] = A[x]
      BY <3>3
    <3>4. CASE x = u /\ B[x] = Filled(A[x])
      <4>1. CASE x = DevUser
        BY <2>0, <3>2, <3>4, <4>1
      <4>2. CASE x # DevUser
        BY <2>0, <3>2, <3>4, <4>2
      <4> QED BY <4>1, <4>2
    <3> QED BY <2>7, <3>3, <3>4
  <2>9. Backfilled(Refreshed(A), Fixtures) = Backfilled(Refreshed(B), Fixtures)
    <3> DEFINE shown(X, x) == IF x = DevUser THEN Shown(X[x]) ELSE X[x]
               both(X, x) == IF x \in Fixtures THEN Filled(shown(X, x))
                             ELSE shown(X, x)
    <3>1. ASSUME NEW X
          PROVE  Backfilled(Refreshed(X), Fixtures) = [x \in DOMAIN X |-> both(X, x)]
      BY DEF Backfilled, Refreshed
    <3>2. ASSUME NEW x \in DOMAIN A PROVE both(A, x) = both(B, x)
      BY <2>8, DevUserIsAFixture
    <3> HIDE DEF both
    <3>3. [x \in DOMAIN A |-> both(A, x)] = [x \in DOMAIN B |-> both(B, x)]
      BY <2>6, <3>2
    <3> QED BY <3>1, <3>3
  <2> USE DEF A, B
  <2> QED BY <2>1, <2>5, <2>9 DEF UsersBooted
<1>4. CASE st[1] \notin {"user", "actor", "backfill"}
  BY <1>4 DEF UsersAfter
<1> QED BY <1>1, <1>2, <1>3, <1>4

LEMMA OrgsAbsorbed ==
    ASSUME NEW T, IsTable(T, OrgIds, OrgRows), NEW st, IsStatement(st)
    PROVE  OrgsBooted(OrgsAfter(st, T)) = OrgsBooted(T)
<1>1. CASE st[1] = "organization"
  <2> DEFINE o == st[2]
             S == OrgsWith(T, {o})
  <2>0. o \in Seeded
    BY <1>1 DEF IsStatement
  <2>1. OrgsAfter(st, T) = S
    BY <1>1 DEF OrgsAfter
  <2>2. CASE o \notin OrgsMissing(T, {o})
    <3>1. S = T
      BY <2>2 DEF OrgsWith, OrgsMissing, IsTable
    <3> QED BY <2>1, <3>1
  <2>3. CASE o \in OrgsMissing(T, {o})
    <3> DEFINE r == [slug |-> o, code |-> o, optIn |-> FALSE]
    <3>1. /\ DOMAIN S = DOMAIN T \cup {o} /\ o \notin DOMAIN T
          /\ S[o] = r /\ \A x \in DOMAIN T : S[x] = T[x]
      BY <2>3 DEF OrgsWith, OrgsMissing
    <3> HIDE DEF S
    <3>2. OrgsMissing(T, Seeded) = OrgsMissing(S, Seeded) \cup {o}
      BY <2>0, <2>3, <3>1 DEF OrgsMissing
    <3>3. o \notin OrgsMissing(S, Seeded)
      BY <3>1 DEF OrgsMissing
    <3>4. OrgsWith(S, Seeded) = OrgsWith(T, Seeded)
      BY <3>1, <3>2, <3>3 DEF OrgsWith
    <3> QED BY <2>1, <3>4 DEF OrgsBooted
  <2> QED BY <2>2, <2>3
<1>2. CASE st[1] = "optin"
  <2> DEFINE S == OptedIn(T)
  <2>1. OrgsAfter(st, T) = S
    BY <1>2 DEF OrgsAfter
  <2>2. DOMAIN S = DOMAIN T /\ \A x \in DOMAIN T : S[x] = [T[x] EXCEPT !.optIn = TRUE]
    BY DEF OptedIn
  <2>3. \A x \in DOMAIN T : /\ S[x].slug = T[x].slug /\ S[x].code = T[x].code
                            /\ [S[x] EXCEPT !.optIn = TRUE] = [T[x] EXCEPT !.optIn = TRUE]
    BY DEF IsTable, OptedIn, OrgRows
  <2> HIDE DEF S
  <2>4. OrgsMissing(S, Seeded) = OrgsMissing(T, Seeded)
    BY <2>2, <2>3 DEF OrgsMissing
  <2> DEFINE A == OrgsWith(T, Seeded)
             B == OrgsWith(S, Seeded)
  <2>5. DOMAIN A = DOMAIN B
    BY <2>2, <2>4 DEF OrgsWith
  <2>6. ASSUME NEW x \in DOMAIN A
        PROVE  [B[x] EXCEPT !.optIn = TRUE] = [A[x] EXCEPT !.optIn = TRUE]
    <3>1. CASE x \in OrgsMissing(T, Seeded)
      BY <3>1, <2>2, <2>4 DEF OrgsWith
    <3>2. CASE x \notin OrgsMissing(T, Seeded)
      <4>1. x \in DOMAIN T /\ A[x] = T[x] /\ B[x] = S[x]
        BY <3>2, <2>2, <2>4 DEF OrgsWith
      <4> QED BY <4>1, <2>3
    <3> QED BY <3>1, <3>2
  <2> HIDE DEF A, B
  <2>7. OptedIn(B) = OptedIn(A)
    BY <2>5, <2>6 DEF OptedIn
  <2> USE DEF A, B
  <2> QED BY <2>1, <2>7 DEF OrgsBooted
<1>3. CASE st[1] \notin {"organization", "optin"}
  BY <1>3 DEF OrgsAfter
<1> QED BY <1>1, <1>2, <1>3

LEMMA RestAbsorbed ==
    ASSUME NEW d, IsDatabase(d), NEW st, IsStatement(st), NEW t \in Nat
    PROVE  /\ MembersWith(MembersAfter(st, d.members), Fixtures) =
                 MembersWith(d.members, Fixtures)
           /\ LabsSeeded(LabsAfter(st, d.labs)) = LabsSeeded(d.labs)
           /\ RunsSeeded(RunsAfter(st, d.runs)) = RunsSeeded(d.runs)
           /\ ResultsSeeded(ResultsAfter(st, d.results)) = ResultsSeeded(d.results)
           /\ SeasonsWith(SeasonsAfter(st, d.seasons, t), t) =
                 SeasonsWith(d.seasons, t)
<1>1. MembersWith(MembersAfter(st, d.members), Fixtures) =
         MembersWith(d.members, Fixtures)
  <2>1. CASE st[1] = "membership"
    <3> DEFINE T == d.members
               u == st[2]
               S == MembersWith(T, {u})
    <3>0. u \in Fixtures
      BY <2>1 DEF IsStatement
    <3>1. CASE u \notin MembersMissing(T, {u})
      <4>1. S = T
        BY <3>1, TablesTyped DEF MembersWith, MembersMissing, IsTable
      <4> QED BY <2>1, <4>1 DEF MembersAfter
    <3>2. CASE u \in MembersMissing(T, {u})
      <4>1. /\ DOMAIN S = DOMAIN T \cup {u} /\ u \notin DOMAIN T
            /\ S[u] = HomeOf[u] /\ \A x \in DOMAIN T : S[x] = T[x]
        BY <3>2 DEF MembersWith, MembersMissing
      <4> HIDE DEF S
      <4>2. /\ MembersMissing(T, Fixtures) = MembersMissing(S, Fixtures) \cup {u}
            /\ u \notin MembersMissing(S, Fixtures)
        BY <3>0, <3>2, <4>1 DEF MembersMissing
      <4>3. MembersWith(S, Fixtures) = MembersWith(T, Fixtures)
        BY <4>1, <4>2 DEF MembersWith
      <4> QED BY <2>1, <4>3 DEF MembersAfter, S
    <3> QED BY <3>1, <3>2
  <2> QED BY <2>1 DEF MembersAfter
<1>2. LabsSeeded(LabsSeeded(d.labs)) = LabsSeeded(d.labs)
  <2> DEFINE S == LabsSeeded(d.labs)
  <2>1. DOMAIN S = DOMAIN d.labs \cup Cohorts
    BY DEF LabsSeeded
  <2>2. \A l \in DOMAIN S \ Cohorts : S[l] = d.labs[l]
    BY DEF LabsSeeded
  <2> DEFINE h(l) == l \in DOMAIN d.labs /\ d.labs[l].held
             g(l) == l \in DOMAIN S /\ S[l].held
  <2>3. \A l \in Cohorts :
          S[l] = [owner |-> OwnerOf(l), org |-> IF l \in Seeded THEN l ELSE Nowhere,
                  status |-> "validated", check |-> "pass", target |-> FALSE,
                  held |-> h(l)]
    BY DEF LabsSeeded
  <2>8. \A l \in Cohorts : h(l) \in BOOLEAN
    BY TablesTyped DEF IsTable, LabRows
  <2> HIDE DEF S, h
  <2>4. ASSUME NEW l \in Cohorts PROVE g(l) = h(l)
    <3>1. S[l].held = h(l) /\ l \in DOMAIN S
      BY <2>1, <2>3
    <3>2. CASE h(l) = TRUE
      BY <3>1, <3>2
    <3>3. CASE h(l) = FALSE
      BY <3>1, <3>3
    <3> QED BY <2>8, <3>2, <3>3
  <2>5. \A l \in Cohorts :
          S[l] = [owner |-> OwnerOf(l), org |-> IF l \in Seeded THEN l ELSE Nowhere,
                  status |-> "validated", check |-> "pass", target |-> FALSE,
                  held |-> g(l)]
    <3> HIDE DEF g
    <3> QED BY <2>3, <2>4
  <2>6. S = [l \in DOMAIN S |-> S[l]]
    BY DEF S, LabsSeeded
  <2>7. LabsSeeded(S) = [l \in DOMAIN S |-> S[l]]
    BY <2>1, <2>5 DEF LabsSeeded
  <2> QED BY <2>6, <2>7 DEF S
<1>3. RunsSeeded(RunsSeeded(d.runs)) = RunsSeeded(d.runs)
  BY DEF RunsSeeded
<1>4. ResultsSeeded(ResultsSeeded(d.results)) = ResultsSeeded(d.results)
  BY DEF ResultsSeeded
<1>5. SeasonsWith(SeasonsWith(d.seasons, t), t) = SeasonsWith(d.seasons, t)
  BY TablesTyped, SeasonIsSeededOnce
<1> QED BY <1>1, <1>2, <1>3, <1>4, <1>5
        DEF LabsAfter, RunsAfter, ResultsAfter, SeasonsAfter

\* What an interrupted boot has done is part of what the next one does.
LEMMA BootAbsorbs ==
    ASSUME NEW d, IsDatabase(d), Named(d.users),
           NEW st, IsStatement(st), NEW t \in Nat
    PROVE  /\ Booted(Executed(st, d, t), t) = Booted(d, t)
           /\ Named(Executed(st, d, t).users)
<1> DEFINE e == Executed(st, d, t)
<1>1. IsDatabase(e) /\ e.users = UsersAfter(st, d.users)
  BY ExecutedTables
<1>2. UsersBooted(e.users) = UsersBooted(d.users) /\ Named(e.users)
  BY <1>1, TablesTyped, UsersAbsorbed
<1>3. OrgsBooted(e.orgs) = OrgsBooted(d.orgs)
  BY ExecutedTables, TablesTyped, OrgsAbsorbed
<1>4. /\ MembersWith(e.members, Fixtures) = MembersWith(d.members, Fixtures)
      /\ LabsSeeded(e.labs) = LabsSeeded(d.labs)
      /\ RunsSeeded(e.runs) = RunsSeeded(d.runs)
      /\ ResultsSeeded(e.results) = ResultsSeeded(d.results)
      /\ SeasonsWith(e.seasons, t) = SeasonsWith(d.seasons, t)
      /\ e.events = d.events /\ e.tickets = d.tickets
  BY ExecutedTables, RestAbsorbed
<1> HIDE DEF e
<1>5. IsDatabase(Booted(e, t)) /\ IsDatabase(Booted(d, t))
  BY <1>1, BootedTables
<1>6. SameBut(Booted(e, t), Booted(d, t), {})
  BY <1>1, <1>2, <1>3, <1>4, BootedTables DEF SameBut, Tables
<1>7. Booted(e, t) = Booted(d, t)
  BY <1>5, <1>6, SameTables
<1> QED BY <1>2, <1>7 DEF e

-----------------------------------------------------------------------------
(* What a statement leaves stays so for the rest of the boot, and a boot   *)
(* whose statements all have is over.                                      *)

Holds(st, d, t) ==
    /\ st[1] = "organization" => OrgsMissing(d.orgs, {st[2]}) = {}
    /\ st[1] = "user" => UsersMissing(d.users, {st[2]}) = {}
    /\ st[1] = "membership" => MembersMissing(d.members, {st[2]}) = {}
    /\ st[1] = "actor" =>
          (DevUser \in DOMAIN d.users => /\ d.users[DevUser].hash = "fixture"
                                         /\ d.users[DevUser].role = "platform_admin")
    /\ st[1] = "backfill" =>
          (st[2] \in DOMAIN d.users => /\ d.users[st[2]].agreed = TRUE
                                       /\ d.users[st[2]].hash # "legacy")
    /\ st[1] = "capability" => /\ LabsSeeded(d.labs) = d.labs
                               /\ RunsSeeded(d.runs) = d.runs
                               /\ ResultsSeeded(d.results) = d.results
    /\ st[1] = "season" => SeasonsWith(d.seasons, t) = d.seasons
    /\ st[1] = "optin" => \A o \in DOMAIN d.orgs : d.orgs[o].optIn = TRUE

\* The accounts after a statement: none is lost or renamed, none loses what
\* a repair gave it, and a new one needs no repair.
Grown(S, T) ==
    /\ DOMAIN T \subseteq DOMAIN S
    /\ \A x \in DOMAIN T :
          /\ S[x].email = T[x].email /\ S[x].handle = T[x].handle
          /\ T[x].agreed = TRUE => S[x].agreed = TRUE
          /\ T[x].hash # "legacy" => S[x].hash # "legacy"
          /\ T[x].hash = "fixture" => S[x].hash = "fixture"
          /\ T[x].role = "platform_admin" => S[x].role = "platform_admin"
    /\ \A x \in DOMAIN S \ DOMAIN T : x \in Fixtures /\ S[x] = FixtureRow(x)

LEMMA UsersGrow ==
    ASSUME NEW T, IsTable(T, UserIds, UserRows), Named(T),
           NEW st, IsStatement(st)
    PROVE  Grown(UsersAfter(st, T), T)
<1> DEFINE S == UsersAfter(st, T)
<1> SUFFICES Grown(S, T)
  OBVIOUS
<1>0. \A x \in DOMAIN T : T[x] \in UserRows
  BY DEF IsTable
<1>1. CASE st[1] = "user"
  <2>1. S = UsersWith(T, {st[2]}) /\ st[2] \in Fixtures
    BY <1>1 DEF UsersAfter, IsStatement
  <2> HIDE DEF S
  <2> QED BY <2>1 DEF UsersWith, UsersMissing, Grown
<1>2. CASE st[1] = "actor"
  <2>1. S = Refreshed(T)
    BY <1>2 DEF UsersAfter
  <2> HIDE DEF S
  <2>2. DOMAIN S = DOMAIN T
    BY <2>1 DEF Refreshed
  <2>3. ASSUME NEW x \in DOMAIN T
        PROVE  S[x] = T[x] \/ (x = DevUser /\ S[x] = Shown(T[x]))
    BY <2>1 DEF Refreshed
  <2>4. ASSUME NEW x \in DOMAIN T
        PROVE  /\ S[x].email = T[x].email /\ S[x].handle = T[x].handle
               /\ T[x].agreed = TRUE => S[x].agreed = TRUE
               /\ T[x].hash # "legacy" => S[x].hash # "legacy"
               /\ T[x].hash = "fixture" => S[x].hash = "fixture"
               /\ T[x].role = "platform_admin" => S[x].role = "platform_admin"
    <3>1. x = DevUser => T[x].email = DevUser /\ T[x].handle = DevUser
      BY DevUserIsAFixture DEF Named
    <3>2. /\ Shown(T[x]).email = DevUser /\ Shown(T[x]).handle = DevUser
          /\ Shown(T[x]).hash = "fixture"
          /\ Shown(T[x]).role = "platform_admin"
          /\ Shown(T[x]).agreed = T[x].agreed
      BY <1>0, RowsRepaired
    <3> QED BY <2>3, <3>1, <3>2
  <2> QED BY <2>2, <2>4 DEF Grown
<1>3. CASE st[1] = "backfill"
  <2>1. S = Backfilled(T, {st[2]})
    BY <1>3 DEF UsersAfter
  <2> HIDE DEF S
  <2>2. DOMAIN S = DOMAIN T
    BY <2>1 DEF Backfilled
  <2>3. ASSUME NEW x \in DOMAIN T
        PROVE  S[x] = T[x] \/ S[x] = Filled(T[x])
    BY <2>1 DEF Backfilled
  <2>4. ASSUME NEW x \in DOMAIN T
        PROVE  /\ S[x].email = T[x].email /\ S[x].handle = T[x].handle
               /\ T[x].agreed = TRUE => S[x].agreed = TRUE
               /\ T[x].hash # "legacy" => S[x].hash # "legacy"
               /\ T[x].hash = "fixture" => S[x].hash = "fixture"
               /\ T[x].role = "platform_admin" => S[x].role = "platform_admin"
    <3>2. /\ Filled(T[x]).email = T[x].email /\ Filled(T[x]).handle = T[x].handle
          /\ Filled(T[x]).hash = IF T[x].hash = "legacy" THEN "fixture" ELSE T[x].hash
          /\ Filled(T[x]).role = T[x].role
          /\ Filled(T[x]).agreed = TRUE
      BY <1>0, RowsRepaired
    <3> QED BY <2>3, <3>2
  <2> QED BY <2>2, <2>4 DEF Grown
<1>4. CASE st[1] \notin {"user", "actor", "backfill"}
  BY <1>4 DEF UsersAfter, Grown
<1> QED BY <1>1, <1>2, <1>3, <1>4

LEMMA FixtureRowFields ==
    ASSUME NEW u
    PROVE  /\ FixtureRow(u).hash = "fixture" /\ FixtureRow(u).agreed = TRUE
           /\ u = DevUser => FixtureRow(u).role = "platform_admin"
BY DEF FixtureRow

\* A statement has done its work.
LEMMA StatementHolds ==
    ASSUME NEW d, IsDatabase(d), NEW st, IsStatement(st), NEW t \in Nat
    PROVE  Holds(st, Executed(st, d, t), t)
<1> DEFINE e == Executed(st, d, t)
<1>0. \A x \in DOMAIN d.users : d.users[x] \in UserRows
  BY TablesTyped DEF IsTable
<1>a. /\ e.users = UsersAfter(st, d.users) /\ e.orgs = OrgsAfter(st, d.orgs)
      /\ e.members = MembersAfter(st, d.members)
      /\ e.labs = LabsAfter(st, d.labs) /\ e.runs = RunsAfter(st, d.runs)
      /\ e.results = ResultsAfter(st, d.results)
      /\ e.seasons = SeasonsAfter(st, d.seasons, t)
  BY ExecutedTables
<1> HIDE DEF e
<1> SUFFICES Holds(st, e, t)
  BY DEF e
<1>1. CASE st[1] = "organization"
  <2>1. e.orgs = OrgsWith(d.orgs, {st[2]})
    BY <1>1, <1>a DEF OrgsAfter
  <2>2. OrgsMissing(e.orgs, {st[2]}) = {}
    BY <2>1 DEF OrgsWith, OrgsMissing
  <2> QED BY <1>1, <2>2 DEF Holds
<1>2. CASE st[1] = "user"
  <2>1. e.users = UsersWith(d.users, {st[2]})
    BY <1>2, <1>a DEF UsersAfter
  <2>2. UsersMissing(e.users, {st[2]}) = {}
    BY <2>1 DEF UsersWith, UsersMissing
  <2> QED BY <1>2, <2>2 DEF Holds
<1>3. CASE st[1] = "membership"
  <2>1. e.members = MembersWith(d.members, {st[2]})
    BY <1>3, <1>a DEF MembersAfter
  <2>2. MembersMissing(e.members, {st[2]}) = {}
    BY <2>1 DEF MembersWith, MembersMissing
  <2> QED BY <1>3, <2>2 DEF Holds
<1>4. CASE st[1] = "actor"
  <2>1. e.users = Refreshed(d.users)
    BY <1>4, <1>a DEF UsersAfter
  <2>2. DevUser \in DOMAIN e.users =>
          DevUser \in DOMAIN d.users /\ e.users[DevUser] = Shown(d.users[DevUser])
    BY <2>1 DEF Refreshed
  <2>3. ASSUME NEW r \in UserRows
        PROVE  Shown(r).hash = "fixture" /\ Shown(r).role = "platform_admin"
    BY RowsRepaired
  <2> QED BY <1>0, <1>4, <2>2, <2>3 DEF Holds
<1>5. CASE st[1] = "backfill"
  <2>1. e.users = Backfilled(d.users, {st[2]})
    BY <1>5, <1>a DEF UsersAfter
  <2>2. st[2] \in DOMAIN e.users =>
          st[2] \in DOMAIN d.users /\ e.users[st[2]] = Filled(d.users[st[2]])
    BY <2>1 DEF Backfilled
  <2>3. ASSUME NEW r \in UserRows
        PROVE  Filled(r).agreed = TRUE /\ Filled(r).hash # "legacy"
    <3>1. Filled(r).hash = IF r.hash = "legacy" THEN "fixture" ELSE r.hash
      BY RowsRepaired
    <3>2. Filled(r).agreed = TRUE
      BY RowsRepaired
    <3> QED BY <3>1, <3>2
  <2> QED BY <1>0, <1>5, <2>2, <2>3 DEF Holds
<1>6. CASE st[1] = "capability"
  <2>1. /\ e.labs = LabsSeeded(d.labs) /\ e.runs = RunsSeeded(d.runs)
        /\ e.results = ResultsSeeded(d.results)
    BY <1>6, <1>a DEF LabsAfter, RunsAfter, ResultsAfter
  <2>2. /\ LabsSeeded(LabsSeeded(d.labs)) = LabsSeeded(d.labs)
        /\ RunsSeeded(RunsSeeded(d.runs)) = RunsSeeded(d.runs)
        /\ ResultsSeeded(ResultsSeeded(d.results)) = ResultsSeeded(d.results)
    BY <1>6, RestAbsorbed DEF LabsAfter, RunsAfter, ResultsAfter
  <2> QED BY <1>6, <2>1, <2>2 DEF Holds
<1>7. CASE st[1] = "season"
  <2>1. e.seasons = SeasonsWith(d.seasons, t)
    BY <1>7, <1>a DEF SeasonsAfter
  <2> QED BY <1>7, <2>1, TablesTyped, SeasonIsSeededOnce DEF Holds
<1>8. CASE st[1] = "optin"
  <2>1. e.orgs = OptedIn(d.orgs)
    BY <1>8, <1>a DEF OrgsAfter
  <2>2. \A o \in DOMAIN e.orgs : e.orgs[o].optIn = TRUE
    BY <2>1, TablesTyped DEF OptedIn, IsTable, OrgRows
  <2> QED BY <1>8, <2>2 DEF Holds
<1> QED BY <1>1, <1>2, <1>3, <1>4, <1>5, <1>6, <1>7, <1>8 DEF IsStatement

\* No later statement of the boot undoes it.  The last one is not followed
\* by any.
LEMMA StatementKeeps ==
    ASSUME NEW d, IsDatabase(d), Named(d.users), NEW t \in Nat,
           NEW st, IsStatement(st), Holds(st, d, t), st[1] # "optin",
           NEW nx, IsStatement(nx)
    PROVE  Holds(st, Executed(nx, d, t), t)
<1> DEFINE e == Executed(nx, d, t)
<1>0. /\ e.users = UsersAfter(nx, d.users) /\ IsTable(d.users, UserIds, UserRows)
      /\ e.orgs = OrgsAfter(nx, d.orgs) /\ e.members = MembersAfter(nx, d.members)
      /\ e.labs = LabsAfter(nx, d.labs) /\ e.runs = RunsAfter(nx, d.runs)
      /\ e.results = ResultsAfter(nx, d.results)
      /\ e.seasons = SeasonsAfter(nx, d.seasons, t)
  BY ExecutedTables, TablesTyped
<1> HIDE DEF e
<1> SUFFICES Holds(st, e, t)
  BY DEF e
<1>u. Grown(e.users, d.users)
  BY <1>0, UsersGrow
<1>1. CASE st[1] = "organization"
  <2>1. /\ DOMAIN d.orgs \subseteq DOMAIN e.orgs
        /\ \A p \in DOMAIN d.orgs : /\ e.orgs[p].slug = d.orgs[p].slug
                                    /\ e.orgs[p].code = d.orgs[p].code
    <3>1. CASE nx[1] = "organization"
      BY <1>0, <3>1 DEF OrgsAfter, OrgsWith, OrgsMissing
    <3>2. CASE nx[1] = "optin"
      <4>1. e.orgs = OptedIn(d.orgs)
        BY <1>0, <3>2 DEF OrgsAfter
      <4>2. IsTable(d.orgs, OrgIds, OrgRows)
        BY TablesTyped
      <4> QED BY <4>1, <4>2 DEF OptedIn, IsTable, OrgRows
    <3>3. CASE nx[1] \notin {"organization", "optin"}
      BY <1>0, <3>3 DEF OrgsAfter
    <3> QED BY <3>1, <3>2, <3>3
  <2>2. OrgsMissing(e.orgs, {st[2]}) = {}
    BY <1>1, <2>1 DEF Holds, OrgsMissing
  <2> QED BY <1>1, <2>2 DEF Holds
<1>2. CASE st[1] = "user"
  <2>1. UsersMissing(e.users, {st[2]}) = {}
    BY <1>2, <1>u DEF Holds, UsersMissing, Grown
  <2> QED BY <1>2, <2>1 DEF Holds
<1>3. CASE st[1] = "membership"
  <2>1. DOMAIN d.members \subseteq DOMAIN e.members
    BY <1>0 DEF MembersAfter, MembersWith
  <2>2. MembersMissing(e.members, {st[2]}) = {}
    BY <1>3, <2>1 DEF Holds, MembersMissing
  <2> QED BY <1>3, <2>2 DEF Holds
<1>4. CASE st[1] = "actor"
  <2>1. ASSUME DevUser \in DOMAIN e.users
        PROVE  /\ e.users[DevUser].hash = "fixture"
               /\ e.users[DevUser].role = "platform_admin"
    <3>1. CASE DevUser \in DOMAIN d.users
      BY <1>4, <1>u, <3>1 DEF Holds, Grown
    <3>2. CASE DevUser \notin DOMAIN d.users
      <4>1. e.users[DevUser] = FixtureRow(DevUser)
        BY <1>u, <2>1, <3>2 DEF Grown
      <4> QED BY <4>1, FixtureRowFields
    <3> QED BY <3>1, <3>2
  <2> QED BY <1>4, <2>1 DEF Holds
<1>5. CASE st[1] = "backfill"
  <2> DEFINE u == st[2]
  <2>1. ASSUME u \in DOMAIN e.users
        PROVE  e.users[u].agreed = TRUE /\ e.users[u].hash # "legacy"
    <3>1. CASE u \in DOMAIN d.users
      BY <1>5, <1>u, <3>1 DEF Holds, Grown
    <3>2. CASE u \notin DOMAIN d.users
      <4>1. e.users[u] = FixtureRow(u)
        BY <1>u, <2>1, <3>2 DEF Grown
      <4> QED BY <4>1, FixtureRowFields
    <3> QED BY <3>1, <3>2
  <2> QED BY <1>5, <2>1 DEF Holds
<1>6. CASE st[1] = "capability"
  <2>1. /\ e.labs = d.labs /\ e.runs = d.runs /\ e.results = d.results
    BY <1>0, <1>6 DEF Holds, LabsAfter, RunsAfter, ResultsAfter
  <2> QED BY <1>6, <2>1 DEF Holds
<1>7. CASE st[1] = "season"
  <2>1. e.seasons = d.seasons
    BY <1>0, <1>7 DEF Holds, SeasonsAfter
  <2> QED BY <1>7, <2>1 DEF Holds
<1> QED BY <1>1, <1>2, <1>3, <1>4, <1>5, <1>6, <1>7 DEF IsStatement

\* All statements have done their work.
Complete(d, t) ==
    /\ \A o \in Seeded : Holds(<<"organization", o>>, d, t)
    /\ \A u \in Fixtures : /\ Holds(<<"user", u>>, d, t)
                           /\ Holds(<<"membership", u>>, d, t)
                           /\ Holds(<<"backfill", u>>, d, t)
    /\ Holds(<<"actor", DevUser>>, d, t) /\ Holds(<<"capability", DevUser>>, d, t)
    /\ Holds(<<"season", DevUser>>, d, t) /\ Holds(<<"optin", DevUser>>, d, t)

LEMMA CompleteIsBooted ==
    ASSUME NEW d, IsDatabase(d), Named(d.users), NEW t \in Nat, Complete(d, t)
    PROVE  Booted(d, t) = d
<1>0. /\ IsTable(d.users, UserIds, UserRows) /\ IsTable(d.orgs, OrgIds, OrgRows)
      /\ IsTable(d.members, UserIds, Memberships)
  BY TablesTyped
<1>1. UsersBooted(d.users) = d.users
  <2> DEFINE T == d.users
  <2>1. \A u \in Fixtures : UsersMissing(T, {u}) = {}
    BY DEF Complete, Holds
  <2>2. UsersMissing(T, Fixtures) = {}
    BY <2>1 DEF UsersMissing
  <2>3. UsersWith(T, Fixtures) = T
    BY <1>0, <2>2 DEF UsersWith, IsTable
  <2>4. /\ DevUser \in DOMAIN T => /\ T[DevUser].hash = "fixture"
                                   /\ T[DevUser].role = "platform_admin"
        /\ \A u \in Fixtures : u \in DOMAIN T => /\ T[u].agreed = TRUE
                                                 /\ T[u].hash # "legacy"
    BY DEF Complete, Holds
  <2>5. ASSUME DevUser \in DOMAIN T PROVE Shown(T[DevUser]) = T[DevUser]
    <3>1. /\ T[DevUser] \in UserRows /\ T[DevUser].email = DevUser
          /\ T[DevUser].handle = DevUser
      BY <1>0, <2>5, DevUserIsAFixture DEF IsTable, Named
    <3>2. Shown(T[DevUser]) \in UserRows /\ SameRow(Shown(T[DevUser]), T[DevUser])
      BY <2>4, <2>5, <3>1, RowsRepaired DEF SameRow
    <3> QED BY <3>1, <3>2, RowIsItsFields
  <2>6. ASSUME NEW u \in DOMAIN T, u \in Fixtures PROVE Filled(T[u]) = T[u]
    <3>1. T[u] \in UserRows
      BY <1>0 DEF IsTable
    <3>2. Filled(T[u]) \in UserRows /\ SameRow(Filled(T[u]), T[u])
      BY <2>4, <2>6, <3>1, RowsRepaired DEF SameRow
    <3> QED BY <3>1, <3>2, RowIsItsFields
  <2>7. T = [u \in DOMAIN T |-> T[u]]
    BY <1>0 DEF IsTable
  <2> HIDE DEF T
  <2>8. Refreshed(T) = T
    BY <2>5, <2>7 DEF Refreshed
  <2>9. Backfilled(T, Fixtures) = T
    BY <2>6, <2>7 DEF Backfilled
  <2> QED BY <2>3, <2>8, <2>9 DEF UsersBooted, T
<1>2. OrgsBooted(d.orgs) = d.orgs
  <2> DEFINE T == d.orgs
  <2>1. \A o \in Seeded : OrgsMissing(T, {o}) = {}
    BY DEF Complete, Holds
  <2>2. OrgsMissing(T, Seeded) = {}
    BY <2>1 DEF OrgsMissing
  <2>3. OrgsWith(T, Seeded) = T
    BY <1>0, <2>2 DEF OrgsWith, IsTable
  <2>4. \A o \in DOMAIN T : T[o].optIn = TRUE
    BY DEF Complete, Holds
  <2>5. \A o \in DOMAIN T : [T[o] EXCEPT !.optIn = TRUE] = T[o]
    BY <1>0, <2>4 DEF IsTable, OrgRows
  <2>6. T = [o \in DOMAIN T |-> T[o]]
    BY <1>0 DEF IsTable
  <2> HIDE DEF T
  <2>7. OptedIn(T) = T
    BY <2>5, <2>6 DEF OptedIn
  <2> QED BY <2>3, <2>7 DEF OrgsBooted, T
<1>3. MembersWith(d.members, Fixtures) = d.members
  <2>1. \A u \in Fixtures : MembersMissing(d.members, {u}) = {}
    BY DEF Complete, Holds
  <2>2. MembersMissing(d.members, Fixtures) = {}
    BY <2>1 DEF MembersMissing
  <2> QED BY <1>0, <2>2 DEF MembersWith, IsTable
<1>4. /\ LabsSeeded(d.labs) = d.labs /\ RunsSeeded(d.runs) = d.runs
      /\ ResultsSeeded(d.results) = d.results
      /\ SeasonsWith(d.seasons, t) = d.seasons
  BY DEF Complete, Holds
<1>5. IsDatabase(Booted(d, t)) /\ SameBut(Booted(d, t), d, {})
  BY <1>1, <1>2, <1>3, <1>4, BootedTables DEF SameBut, Tables
<1> QED BY <1>5, SameTables

-----------------------------------------------------------------------------
(* The script of a boot.                                                   *)

Statements == {"organization", "user", "membership", "actor", "backfill",
               "capability", "season", "optin"} \X (Seeded \cup Fixtures)

NumOrgs == Len(FixtureOrgs)
NumUsers == Len(FixtureUsers)

OrgPart == [i \in 1 .. NumOrgs |-> <<"organization", FixtureOrgs[i]>>]
UserPart == [i \in 1 .. 2 * NumUsers |->
                <<IF i % 2 = 1 THEN "user" ELSE "membership",
                  FixtureUsers[(i + 1) \div 2]>>]
ActorPart == << <<"actor", DevUser>> >>
FillPart == [i \in 1 .. NumUsers |-> <<"backfill", FixtureUsers[i]>>]
SeedPart == << <<"capability", DevUser>>, <<"season", DevUser>>,
               <<"optin", DevUser>> >>

LEMMA FixtureElements ==
    /\ NumOrgs \in Nat /\ NumUsers \in Nat
    /\ \A i \in 1 .. NumOrgs : FixtureOrgs[i] \in Seeded
    /\ \A i \in 1 .. NumUsers : FixtureUsers[i] \in Fixtures
    /\ \A o \in Seeded : \E i \in 1 .. NumOrgs : FixtureOrgs[i] = o
    /\ \A u \in Fixtures : \E i \in 1 .. NumUsers : FixtureUsers[i] = u
<1>1. /\ NumOrgs \in Nat /\ NumUsers \in Nat
      /\ DOMAIN FixtureOrgs = 1 .. NumOrgs /\ DOMAIN FixtureUsers = 1 .. NumUsers
  BY FixturesAreOrdered, LenProperties DEF NumOrgs, NumUsers
<1> QED BY <1>1 DEF Seeded, Fixtures

\* The place of user i and of its membership.
LEMMA UserPlaces ==
    ASSUME NEW m \in Nat, NEW i \in 1 .. 2 * m
    PROVE  (i + 1) \div 2 \in 1 .. m
OBVIOUS

LEMMA PartsAreSequences ==
    /\ OrgPart \in Seq(Statements) /\ Len(OrgPart) = NumOrgs
    /\ UserPart \in Seq(Statements) /\ Len(UserPart) = 2 * NumUsers
    /\ ActorPart \in Seq(Statements) /\ Len(ActorPart) = 1
    /\ ActorPart[1] = <<"actor", DevUser>>
    /\ FillPart \in Seq(Statements) /\ Len(FillPart) = NumUsers
    /\ SeedPart \in Seq(Statements) /\ Len(SeedPart) = 3
    /\ SeedPart[1] = <<"capability", DevUser>>
    /\ SeedPart[2] = <<"season", DevUser>> /\ SeedPart[3] = <<"optin", DevUser>>
<1> DEFINE n == NumOrgs
           m == NumUsers
<1>0. n \in Nat /\ m \in Nat
  BY FixtureElements
<1> HIDE DEF n, m
<1>s. \A x \in {"organization", "user", "membership", "actor", "backfill",
                 "capability", "season", "optin"} :
         \A f \in Seeded \cup Fixtures : <<x, f>> \in Statements
  BY DEF Statements
<1>1. OrgPart \in Seq(Statements) /\ Len(OrgPart) = n
  <2>1. \A i \in 1 .. n : <<"organization", FixtureOrgs[i]>> \in Statements
    BY <1>s, FixtureElements DEF n
  <2>2. OrgPart = [i \in 1 .. n |-> <<"organization", FixtureOrgs[i]>>]
    BY DEF OrgPart, n
  <2> QED BY <1>0, <2>1, <2>2
<1>2. UserPart \in Seq(Statements) /\ Len(UserPart) = 2 * m
  <2> DEFINE e(i) == <<IF i % 2 = 1 THEN "user" ELSE "membership",
                       FixtureUsers[(i + 1) \div 2]>>
  <2>1. ASSUME NEW i \in 1 .. 2 * m
        PROVE  e(i) \in Statements
    <3>1. FixtureUsers[(i + 1) \div 2] \in Fixtures
      <4>1. (i + 1) \div 2 \in 1 .. m
        BY <1>0, UserPlaces
      <4> QED BY <4>1, FixtureElements DEF m
    <3> QED BY <3>1, <1>s
  <2>2. 2 * m \in Nat
    BY <1>0
  <2>3. UserPart = [i \in 1 .. 2 * m |-> e(i)]
    BY DEF UserPart, m
  <2> HIDE DEF e
  <2> QED BY <2>1, <2>2, <2>3
<1>3. ActorPart \in Seq(Statements) /\ Len(ActorPart) = 1
      /\ ActorPart[1] = <<"actor", DevUser>>
  <2>1. <<"actor", DevUser>> \in Statements
    BY <1>s, DevUserIsAFixture
  <2> QED BY <2>1 DEF ActorPart
<1>4. FillPart \in Seq(Statements) /\ Len(FillPart) = m
  <2>1. \A i \in 1 .. m : <<"backfill", FixtureUsers[i]>> \in Statements
    BY <1>s, FixtureElements DEF m
  <2>2. FillPart = [i \in 1 .. m |-> <<"backfill", FixtureUsers[i]>>]
    BY DEF FillPart, m
  <2> QED BY <1>0, <2>1, <2>2
<1>5. SeedPart \in Seq(Statements) /\ Len(SeedPart) = 3
      /\ SeedPart[1] = <<"capability", DevUser>>
      /\ SeedPart[2] = <<"season", DevUser>> /\ SeedPart[3] = <<"optin", DevUser>>
  <2>1. /\ <<"capability", DevUser>> \in Statements /\ <<"season", DevUser>> \in Statements
        /\ <<"optin", DevUser>> \in Statements
    BY <1>s, DevUserIsAFixture
  <2>2. ASSUME NEW S, NEW a \in S, NEW b \in S, NEW c \in S
        PROVE  <<a, b, c>> \in Seq(S) /\ Len(<<a, b, c>>) = 3
    OBVIOUS
  <2>3. SeedPart \in Seq(Statements) /\ Len(SeedPart) = 3
    BY <2>1, <2>2 DEF SeedPart
  <2> QED BY <2>3 DEF SeedPart
<1> QED BY <1>1, <1>2, <1>3, <1>4, <1>5 DEF n, m

LEMMA ScriptParts ==
    LET n == NumOrgs
        m == NumUsers
    IN  /\ n \in Nat /\ m \in Nat
        /\ Len(Script) = n + 3 * m + 4
        /\ \A i \in 1 .. n : Script[i] = OrgPart[i]
        /\ \A i \in 1 .. 2 * m : Script[n + i] = UserPart[i]
        /\ Script[n + 2 * m + 1] = <<"actor", DevUser>>
        /\ \A i \in 1 .. m : Script[n + 2 * m + 1 + i] = FillPart[i]
        /\ Script[n + 3 * m + 2] = <<"capability", DevUser>>
        /\ Script[n + 3 * m + 3] = <<"season", DevUser>>
        /\ Script[n + 3 * m + 4] = <<"optin", DevUser>>
<1> DEFINE n == NumOrgs
           m == NumUsers
<1>0. n \in Nat /\ m \in Nat
  BY FixtureElements
<1>1. OrgPart \in Seq(Statements) /\ Len(OrgPart) = n
  BY PartsAreSequences
<1>2. UserPart \in Seq(Statements) /\ Len(UserPart) = 2 * m
  BY PartsAreSequences
<1>3. ActorPart \in Seq(Statements) /\ Len(ActorPart) = 1
      /\ ActorPart[1] = <<"actor", DevUser>>
  BY PartsAreSequences
<1>4. FillPart \in Seq(Statements) /\ Len(FillPart) = m
  BY PartsAreSequences
<1>5. SeedPart \in Seq(Statements) /\ Len(SeedPart) = 3
      /\ SeedPart[1] = <<"capability", DevUser>>
      /\ SeedPart[2] = <<"season", DevUser>> /\ SeedPart[3] = <<"optin", DevUser>>
  BY PartsAreSequences
<1> DEFINE B == OrgPart \o UserPart
           C == B \o ActorPart
           D == C \o FillPart
<1>6. Script = D \o SeedPart
  BY DEF Script, OrgPart, UserPart, ActorPart, FillPart, SeedPart, NumOrgs, NumUsers
<1> HIDE DEF n, m
<1>7. /\ B \in Seq(Statements) /\ Len(B) = n + 2 * m
      /\ \A i \in 1 .. n + 2 * m : B[i] = IF i <= n THEN OrgPart[i] ELSE UserPart[i - n]
  <2>1. /\ B \in Seq(Statements) /\ Len(B) = Len(OrgPart) + Len(UserPart)
        /\ \A i \in 1 .. Len(OrgPart) + Len(UserPart) :
              B[i] = IF i <= Len(OrgPart) THEN OrgPart[i]
                     ELSE UserPart[i - Len(OrgPart)]
    BY <1>1, <1>2, ConcatProperties, Zenon
  <2> QED BY <1>1, <1>2, <2>1
<1> HIDE DEF B
<1>8. /\ C \in Seq(Statements) /\ Len(C) = n + 2 * m + 1
      /\ \A i \in 1 .. n + 2 * m + 1 :
            C[i] = IF i <= n + 2 * m THEN B[i] ELSE ActorPart[i - (n + 2 * m)]
  <2>1. /\ C \in Seq(Statements) /\ Len(C) = Len(B) + Len(ActorPart)
        /\ \A i \in 1 .. Len(B) + Len(ActorPart) :
              C[i] = IF i <= Len(B) THEN B[i] ELSE ActorPart[i - Len(B)]
    BY <1>3, <1>7, ConcatProperties, Zenon
  <2> QED BY <1>3, <1>7, <2>1
<1> HIDE DEF C
<1>9. /\ D \in Seq(Statements) /\ Len(D) = n + 2 * m + 1 + m
      /\ \A i \in 1 .. n + 2 * m + 1 + m :
            D[i] = IF i <= n + 2 * m + 1 THEN C[i] ELSE FillPart[i - (n + 2 * m + 1)]
  <2>1. /\ D \in Seq(Statements) /\ Len(D) = Len(C) + Len(FillPart)
        /\ \A i \in 1 .. Len(C) + Len(FillPart) :
              D[i] = IF i <= Len(C) THEN C[i] ELSE FillPart[i - Len(C)]
    BY <1>4, <1>8, ConcatProperties, Zenon
  <2> QED BY <1>4, <1>8, <2>1
<1> HIDE DEF D
<1>10. /\ Len(Script) = n + 2 * m + 1 + m + 3
       /\ \A i \in 1 .. n + 2 * m + 1 + m + 3 :
             Script[i] = IF i <= n + 2 * m + 1 + m THEN D[i]
                         ELSE SeedPart[i - (n + 2 * m + 1 + m)]
  <2>1. /\ Script \in Seq(Statements) /\ Len(Script) = Len(D) + Len(SeedPart)
        /\ \A i \in 1 .. Len(D) + Len(SeedPart) :
              Script[i] = IF i <= Len(D) THEN D[i] ELSE SeedPart[i - Len(D)]
    BY <1>5, <1>6, <1>9, ConcatProperties, Zenon
  <2> QED BY <1>5, <1>9, <2>1
<1>11. Len(Script) = n + 3 * m + 4
  BY <1>0, <1>10
<1>12. \A i \in 1 .. n : Script[i] = OrgPart[i]
  BY <1>0, <1>7, <1>8, <1>9, <1>10
<1>13. ASSUME NEW i \in 1 .. 2 * m PROVE Script[n + i] = UserPart[i]
  <2>1. /\ n + i \in 1 .. n + 2 * m + 1 + m + 3 /\ n + i <= n + 2 * m + 1 + m
        /\ n + i \in 1 .. n + 2 * m + 1 + m /\ n + i <= n + 2 * m + 1
        /\ n + i \in 1 .. n + 2 * m + 1 /\ n + i <= n + 2 * m
        /\ n + i \in 1 .. n + 2 * m /\ ~(n + i <= n) /\ (n + i) - n = i
    BY <1>0
  <2> QED BY <2>1, <1>7, <1>8, <1>9, <1>10
<1>14. Script[n + 2 * m + 1] = <<"actor", DevUser>>
  <2> DEFINE k == n + 2 * m + 1
  <2>1. /\ k \in 1 .. n + 2 * m + 1 + m + 3 /\ k <= n + 2 * m + 1 + m
        /\ k \in 1 .. n + 2 * m + 1 + m /\ k <= n + 2 * m + 1
        /\ k \in 1 .. n + 2 * m + 1 /\ ~(k <= n + 2 * m)
        /\ k - (n + 2 * m) = 1
    BY <1>0
  <2> QED BY <2>1, <1>3, <1>8, <1>9, <1>10
<1>15. ASSUME NEW i \in 1 .. m PROVE Script[n + 2 * m + 1 + i] = FillPart[i]
  <2> DEFINE k == n + 2 * m + 1 + i
  <2>1. /\ k \in 1 .. n + 2 * m + 1 + m + 3 /\ k <= n + 2 * m + 1 + m
        /\ k \in 1 .. n + 2 * m + 1 + m /\ ~(k <= n + 2 * m + 1)
        /\ k - (n + 2 * m + 1) = i
    BY <1>0
  <2> QED BY <2>1, <1>9, <1>10
<1>16. ASSUME NEW j \in 1 .. 3
       PROVE  Script[n + 3 * m + 1 + j] = SeedPart[j]
  <2> DEFINE k == n + 3 * m + 1 + j
  <2>1. /\ k \in 1 .. n + 2 * m + 1 + m + 3 /\ ~(k <= n + 2 * m + 1 + m)
        /\ k - (n + 2 * m + 1 + m) = j
    BY <1>0
  <2> QED BY <2>1, <1>10
<1>17. /\ Script[n + 3 * m + 2] = <<"capability", DevUser>>
       /\ Script[n + 3 * m + 3] = <<"season", DevUser>>
       /\ Script[n + 3 * m + 4] = <<"optin", DevUser>>
  <2>1. /\ n + 3 * m + 1 + 1 = n + 3 * m + 2 /\ n + 3 * m + 1 + 2 = n + 3 * m + 3
        /\ n + 3 * m + 1 + 3 = n + 3 * m + 4
    BY <1>0
  <2>2. Script[n + 3 * m + 1 + 1] = SeedPart[1] /\ Script[n + 3 * m + 1 + 2] = SeedPart[2]
        /\ Script[n + 3 * m + 1 + 3] = SeedPart[3]
    BY <1>16
  <2> QED BY <1>5, <2>1, <2>2
<1> QED BY <1>0, <1>11, <1>12, <1>13, <1>14, <1>15, <1>17 DEF n, m

LEMMA ScriptIsWellFormed ==
    /\ Len(Script) \in Nat /\ Len(Script) >= 4 /\ Initialized \in Nat
    /\ \A i \in 1 .. Len(Script) :
          /\ IsStatement(Script[i])
          /\ i # Len(Script) => Script[i][1] # "optin"
<1> DEFINE n == NumOrgs
           m == NumUsers
<1>a. n \in Nat /\ m \in Nat /\ Len(Script) = n + 3 * m + 4
  BY ScriptParts
<1>0. /\ \A i \in 1 .. n : Script[i] = OrgPart[i]
      /\ \A i \in 1 .. 2 * m : Script[n + i] = UserPart[i]
      /\ Script[n + 2 * m + 1] = <<"actor", DevUser>>
      /\ \A i \in 1 .. m : Script[n + 2 * m + 1 + i] = FillPart[i]
      /\ Script[n + 3 * m + 2] = <<"capability", DevUser>>
      /\ Script[n + 3 * m + 3] = <<"season", DevUser>>
      /\ Script[n + 3 * m + 4] = <<"optin", DevUser>>
  BY ScriptParts
<1>f. /\ \A i \in 1 .. n : /\ OrgPart[i] = <<"organization", FixtureOrgs[i]>>
                          /\ FixtureOrgs[i] \in Seeded
      /\ \A i \in 1 .. 2 * m :
            UserPart[i] = <<IF i % 2 = 1 THEN "user" ELSE "membership",
                            FixtureUsers[(i + 1) \div 2]>>
      /\ \A i \in 1 .. m : /\ FillPart[i] = <<"backfill", FixtureUsers[i]>>
                          /\ FixtureUsers[i] \in Fixtures
  BY FixtureElements DEF OrgPart, UserPart, FillPart
<1> HIDE DEF n, m
<1>1. Len(Script) \in Nat /\ Len(Script) >= 4 /\ Initialized \in Nat
  BY <1>a DEF Initialized
<1>2. ASSUME NEW i \in 1 .. Len(Script)
      PROVE  /\ IsStatement(Script[i])
             /\ i # Len(Script) => Script[i][1] # "optin"
  <2>1. CASE i <= n
    <3>1. i \in 1 .. n
      BY <1>a, <2>1
    <3>2. Script[i] = <<"organization", FixtureOrgs[i]>> /\ FixtureOrgs[i] \in Seeded
      BY <1>0, <1>f, <3>1
    <3> QED BY <3>2 DEF IsStatement
  <2>2. CASE i > n /\ i <= n + 2 * m
    <3> DEFINE j == i - n
    <3>1. j \in 1 .. 2 * m /\ n + j = i
      BY <1>a, <2>2
    <3> HIDE DEF j
    <3>2. (j + 1) \div 2 \in 1 .. m
      BY <1>a, <3>1, UserPlaces
    <3>3. Script[i] = <<IF j % 2 = 1 THEN "user" ELSE "membership",
                        FixtureUsers[(j + 1) \div 2]>>
      BY <1>0, <1>f, <3>1
    <3>4. FixtureUsers[(j + 1) \div 2] \in Fixtures
      BY <3>2, <1>f
    <3> QED BY <3>3, <3>4 DEF IsStatement
  <2>3. CASE i = n + 2 * m + 1
    <3>1. Script[i] = <<"actor", DevUser>>
      BY <1>0, <2>3
    <3> QED BY <3>1 DEF IsStatement
  <2>4. CASE i > n + 2 * m + 1 /\ i <= n + 3 * m + 1
    <3> DEFINE j == i - (n + 2 * m + 1)
    <3>1. j \in 1 .. m /\ n + 2 * m + 1 + j = i
      BY <1>a, <2>4
    <3> HIDE DEF j
    <3>2. Script[i] = <<"backfill", FixtureUsers[j]>> /\ FixtureUsers[j] \in Fixtures
      BY <1>0, <1>f, <3>1
    <3> QED BY <3>2 DEF IsStatement
  <2>5. CASE i = n + 3 * m + 2
    <3>1. Script[i] = <<"capability", DevUser>>
      BY <1>0, <2>5
    <3> QED BY <3>1 DEF IsStatement
  <2>6. CASE i = n + 3 * m + 3
    <3>1. Script[i] = <<"season", DevUser>>
      BY <1>0, <2>6
    <3> QED BY <3>1 DEF IsStatement
  <2>7. CASE i = n + 3 * m + 4
    <3>1. Script[i] = <<"optin", DevUser>>
      BY <1>0, <2>7
    <3>2. IsStatement(Script[i])
      BY <3>1 DEF IsStatement
    <3> QED BY <1>a, <2>7, <3>2
  <2>8. i \in Int /\ i >= 1 /\ i <= n + 3 * m + 4
    BY <1>a
  <2>9. \/ i <= n \/ (i > n /\ i <= n + 2 * m) \/ i = n + 2 * m + 1
        \/ (i > n + 2 * m + 1 /\ i <= n + 3 * m + 1)
        \/ i = n + 3 * m + 2 \/ i = n + 3 * m + 3 \/ i = n + 3 * m + 4
    BY <1>a, <2>8
  <2> QED BY <2>9, <2>1, <2>2, <2>3, <2>4, <2>5, <2>6, <2>7
<1> QED BY <1>1, <1>2

LEMMA ScriptIsComplete ==
    ASSUME NEW d, NEW t, \A i \in 1 .. Len(Script) : Holds(Script[i], d, t)
    PROVE  Complete(d, t)
<1> DEFINE n == NumOrgs
           m == NumUsers
<1>a. n \in Nat /\ m \in Nat /\ Len(Script) = n + 3 * m + 4
  BY ScriptParts
<1>0. /\ \A i \in 1 .. n : Script[i] = OrgPart[i]
      /\ \A i \in 1 .. 2 * m : Script[n + i] = UserPart[i]
      /\ Script[n + 2 * m + 1] = <<"actor", DevUser>>
      /\ \A i \in 1 .. m : Script[n + 2 * m + 1 + i] = FillPart[i]
      /\ Script[n + 3 * m + 2] = <<"capability", DevUser>>
      /\ Script[n + 3 * m + 3] = <<"season", DevUser>>
      /\ Script[n + 3 * m + 4] = <<"optin", DevUser>>
  BY ScriptParts
<1>f. /\ \A i \in 1 .. n : /\ OrgPart[i] = <<"organization", FixtureOrgs[i]>>
                          /\ FixtureOrgs[i] \in Seeded
      /\ \A i \in 1 .. 2 * m :
            UserPart[i] = <<IF i % 2 = 1 THEN "user" ELSE "membership",
                            FixtureUsers[(i + 1) \div 2]>>
      /\ \A i \in 1 .. m : /\ FillPart[i] = <<"backfill", FixtureUsers[i]>>
                          /\ FixtureUsers[i] \in Fixtures
  BY FixtureElements DEF OrgPart, UserPart, FillPart
<1> HIDE DEF n, m
<1>1. ASSUME NEW o \in Seeded PROVE Holds(<<"organization", o>>, d, t)
  <2>1. PICK i \in 1 .. n : FixtureOrgs[i] = o
    BY FixtureElements DEF n
  <2>2. i \in 1 .. Len(Script)
    BY <1>a
  <2>3. Script[i] = <<"organization", o>>
    BY <1>0, <1>f, <2>1
  <2> QED BY <2>2, <2>3
<1>2. ASSUME NEW u \in Fixtures
      PROVE  /\ Holds(<<"user", u>>, d, t) /\ Holds(<<"membership", u>>, d, t)
             /\ Holds(<<"backfill", u>>, d, t)
  <2>1. PICK j \in 1 .. m : FixtureUsers[j] = u
    BY FixtureElements DEF m
  <2>2. /\ 2 * j - 1 \in 1 .. 2 * m /\ 2 * j \in 1 .. 2 * m
        /\ (2 * j - 1) % 2 = 1 /\ (2 * j) % 2 # 1
        /\ (2 * j - 1 + 1) \div 2 = j /\ (2 * j + 1) \div 2 = j
    BY <1>a
  <2>6. /\ n + (2 * j - 1) \in 1 .. Len(Script) /\ n + 2 * j \in 1 .. Len(Script)
        /\ n + 2 * m + 1 + j \in 1 .. Len(Script)
    BY <1>a
  <2>3. UserPart[2 * j - 1] = <<"user", u>> /\ UserPart[2 * j] = <<"membership", u>>
    BY <1>f, <2>1, <2>2
  <2>4. FillPart[j] = <<"backfill", u>>
    BY <1>f, <2>1
  <2>5. /\ Script[n + (2 * j - 1)] = <<"user", u>>
        /\ Script[n + 2 * j] = <<"membership", u>>
        /\ Script[n + 2 * m + 1 + j] = <<"backfill", u>>
    BY <1>0, <2>2, <2>3, <2>4
  <2> QED BY <2>5, <2>6
<1>3. /\ n + 2 * m + 1 \in 1 .. Len(Script) /\ n + 3 * m + 2 \in 1 .. Len(Script)
      /\ n + 3 * m + 3 \in 1 .. Len(Script) /\ n + 3 * m + 4 \in 1 .. Len(Script)
  BY <1>a
<1>4. /\ Holds(<<"actor", DevUser>>, d, t) /\ Holds(<<"capability", DevUser>>, d, t)
      /\ Holds(<<"season", DevUser>>, d, t) /\ Holds(<<"optin", DevUser>>, d, t)
  BY <1>0, <1>3
<1> QED BY <1>1, <1>2, <1>4 DEF Complete

-----------------------------------------------------------------------------
(* What a call changes.                                                    *)

LEMMA NamedPut ==
    ASSUME NEW T, Named(T), NEW u, NEW r,
           u \in Fixtures => r.email = u /\ r.handle = u
    PROVE  Named(Put(T, u, r))
BY DEF Put, Named

LEMMA UserIsAdded ==
    ASSUME IsDatabase(db), Named(db.users),
           NEW u \in NewUsers, NEW r \in UserRows,
           NEW org, NEW orgRole \in {"member", "org_admin"},
           AddUser(u, r, org, orgRole)
    PROVE  /\ IsDatabase(db') /\ SameBut(db', db, {"users", "members"})
           /\ Named(db'.users) /\ UNCHANGED <<around, opened>> /\ up
<1> DEFINE U == Put(db.users, u, r)
           M == IF org = Nowhere THEN db.members
                ELSE Put(db.members, u, [org |-> org, role |-> orgRole])
           e == [db EXCEPT !.users = U]
<1>0. /\ db' = [e EXCEPT !.members = M] /\ UNCHANGED <<around, opened>> /\ up
      /\ org \in DOMAIN db.orgs \cup {Nowhere}
  BY DEF AddUser, Stores, IsDatabase
<1>1. u \in UserIds /\ u \notin Fixtures
  BY IdentifiersAreFresh DEF UserIds
<1>2. IsTable(U, UserIds, UserRows)
  BY <1>1, TablesTyped, PutRow
<1>3. IsTable(M, UserIds, Memberships)
  <2>1. org # Nowhere => [org |-> org, role |-> orgRole] \in Memberships
    BY <1>0, TablesTyped DEF IsTable, Memberships
  <2> QED BY <1>1, <2>1, TablesTyped, PutRow
<1>4. Named(U)
  BY <1>1, NamedPut
<1> HIDE DEF U, M
<1>5. IsDatabase(e) /\ e.users = U /\ SameBut(e, db, {"users"})
  <2>1. IsDatabase(e)
    BY <1>2, NewTableTyped, Zenon
  <2>2. e.users = U /\ SameBut(e, db, {"users"})
    BY NewTable, Zenon
  <2> QED BY <2>1, <2>2
<1> HIDE DEF e
<1>6. IsDatabase(db') /\ db'.members = M /\ SameBut(db', e, {"members"})
  <2>1. IsDatabase(db')
    BY <1>0, <1>3, <1>5, NewTableTyped, Zenon
  <2>2. db'.members = M /\ SameBut(db', e, {"members"})
    BY <1>0, <1>5, NewTable, Zenon
  <2> QED BY <2>1, <2>2
<1>7. SameBut(db', db, {"users", "members"}) /\ db'.users = U
  BY <1>5, <1>6 DEF SameBut, Tables
<1> QED BY <1>0, <1>4, <1>6, <1>7

LEMMA UserIsUpdated ==
    ASSUME IsDatabase(db), Named(db.users),
           NEW u \in UserIds, NEW r \in UserRows,
           r.email = db.users[u].email, r.handle = db.users[u].handle,
           UpdateUser(u, r)
    PROVE  /\ IsDatabase(db') /\ SameBut(db', db, {"users"})
           /\ Named(db'.users) /\ UNCHANGED <<around, opened>> /\ up
<1> DEFINE U == Put(db.users, u, r)
<1>0. /\ db' = [db EXCEPT !.users = U] /\ UNCHANGED <<around, opened>> /\ up
      /\ u \in DOMAIN db.users
  BY DEF UpdateUser, Stores
<1>1. IsTable(U, UserIds, UserRows)
  BY TablesTyped, PutRow
<1>2. Named(U)
  <2>1. u \in Fixtures => r.email = u /\ r.handle = u
    BY <1>0 DEF Named
  <2> QED BY <2>1, NamedPut
<1> HIDE DEF U
<1>3. IsDatabase(db')
  BY <1>0, <1>1, NewTableTyped, Zenon
<1>4. db'.users = U /\ SameBut(db', db, {"users"})
  <2>1. db' = [db EXCEPT !.users = U]
    BY <1>0
  <2> QED BY <2>1, NewTable, Zenon
<1> QED BY <1>0, <1>2, <1>3, <1>4

LEMMA AccountCallTables ==
    ASSUME IsDatabase(db), Named(db.users), AccountCalls
    PROVE  /\ IsDatabase(db') /\ SameBut(db', db, {"users", "members"})
           /\ Named(db'.users) /\ UNCHANGED <<around, opened>> /\ up
<1>1. ASSUME NEW u \in NewUsers, NEW n \in UserIds, NEW m \in UserIds,
             NEW o \in OrgIds \cup {Nowhere}, register(u, n, m, o)
      PROVE  /\ IsDatabase(db') /\ SameBut(db', db, {"users", "members"})
             /\ Named(db'.users) /\ UNCHANGED <<around, opened>> /\ up
  <2> DEFINE r == [email |-> n, handle |-> m, subject |-> "none",
                   hash |-> "own", role |-> "user", agreed |-> TRUE,
                   disabled |-> FALSE]
  <2>1. r \in UserRows
    BY DEF UserRows
  <2>2. AddUser(u, r, o, "member")
    BY <1>1 DEF register
  <2> HIDE DEF r
  <2> QED BY <2>1, <2>2, UserIsAdded
<1>2. ASSUME NEW u \in NewUsers, NEW n \in UserIds, NEW m \in UserIds,
             NEW o \in OrgIds \cup {Nowhere}, NEW s \in Subjects,
             NEW role \in {"user", "platform_admin"},
             NEW orgRole \in {"member", "org_admin"},
             onboardIdentity(u, n, m, s, role, o, orgRole)
      PROVE  /\ IsDatabase(db') /\ SameBut(db', db, {"users", "members"})
             /\ Named(db'.users) /\ UNCHANGED <<around, opened>> /\ up
  <2> DEFINE r == [email |-> n, handle |-> m, subject |-> s,
                   hash |-> "none", role |-> role, agreed |-> TRUE,
                   disabled |-> FALSE]
  <2>1. r \in UserRows
    BY DEF UserRows
  <2>2. AddUser(u, r, o, orgRole)
    BY <1>2 DEF onboardIdentity
  <2> HIDE DEF r
  <2> QED BY <2>1, <2>2, UserIsAdded
<1>3. ASSUME NEW u \in UserIds, NEW role \in {"user", "platform_admin"},
             NEW off \in BOOLEAN,
             \/ setPasswordHash(u) \/ recordUserConsent(u)
             \/ setUserPlatformRole(u, role) \/ setUserDisabled(u, off)
      PROVE  /\ IsDatabase(db') /\ SameBut(db', db, {"users", "members"})
             /\ Named(db'.users) /\ UNCHANGED <<around, opened>> /\ up
  <2>1. PICK r : /\ UpdateUser(u, r)
                 /\ r \in {[db.users[u] EXCEPT !.hash = "own"],
                           [db.users[u] EXCEPT !.agreed = TRUE],
                           [db.users[u] EXCEPT !.role = role],
                           [db.users[u] EXCEPT !.disabled = off]}
    BY <1>3 DEF setPasswordHash, recordUserConsent, setUserPlatformRole,
                setUserDisabled
  <2>2. db.users[u] \in UserRows
    BY <2>1, TablesTyped DEF IsTable, UpdateUser
  <2>3. /\ r \in UserRows /\ r.email = db.users[u].email
        /\ r.handle = db.users[u].handle
    BY <2>1, <2>2 DEF UserRows
  <2>4. /\ IsDatabase(db') /\ SameBut(db', db, {"users"})
        /\ Named(db'.users) /\ UNCHANGED <<around, opened>> /\ up
    BY <2>1, <2>3, UserIsUpdated
  <2>5. SameBut(db', db, {"users", "members"})
    BY <2>4 DEF SameBut
  <2> QED BY <2>4, <2>5
<1>4. ASSUME NEW u \in UserIds, setPasswordHash(u) \/ recordUserConsent(u)
      PROVE  /\ IsDatabase(db') /\ SameBut(db', db, {"users", "members"})
             /\ Named(db'.users) /\ UNCHANGED <<around, opened>> /\ up
  <2>1. "user" \in {"user", "platform_admin"} /\ TRUE \in BOOLEAN
    OBVIOUS
  <2> QED BY <1>3, <1>4, <2>1
<1>5. ASSUME NEW u \in UserIds, NEW role \in {"user", "platform_admin"},
             setUserPlatformRole(u, role)
      PROVE  /\ IsDatabase(db') /\ SameBut(db', db, {"users", "members"})
             /\ Named(db'.users) /\ UNCHANGED <<around, opened>> /\ up
  BY <1>3, <1>5
<1>6. ASSUME NEW u \in UserIds, NEW off \in BOOLEAN, setUserDisabled(u, off)
      PROVE  /\ IsDatabase(db') /\ SameBut(db', db, {"users", "members"})
             /\ Named(db'.users) /\ UNCHANGED <<around, opened>> /\ up
  BY <1>3, <1>6
<1>7. CASE \E u \in NewUsers, n, m \in UserIds, o \in OrgIds \cup {Nowhere} :
             \/ register(u, n, m, o)
             \/ \E s \in Subjects, role \in {"user", "platform_admin"},
                   orgRole \in {"member", "org_admin"} :
                   onboardIdentity(u, n, m, s, role, o, orgRole)
  <2>1. PICK u \in NewUsers, n \in UserIds, m \in UserIds,
             o \in OrgIds \cup {Nowhere} :
             \/ register(u, n, m, o)
             \/ \E s \in Subjects, role \in {"user", "platform_admin"},
                   orgRole \in {"member", "org_admin"} :
                   onboardIdentity(u, n, m, s, role, o, orgRole)
    BY <1>7, Zenon
  <2>2. CASE register(u, n, m, o)
    BY <1>1, <2>2
  <2>3. CASE \E s \in Subjects, role \in {"user", "platform_admin"},
                orgRole \in {"member", "org_admin"} :
                onboardIdentity(u, n, m, s, role, o, orgRole)
    BY <1>2, <2>3
  <2> QED BY <2>1, <2>2, <2>3
<1>8. CASE \E u \in UserIds :
             \/ setPasswordHash(u) \/ recordUserConsent(u)
             \/ \E role \in {"user", "platform_admin"} :
                   setUserPlatformRole(u, role)
             \/ \E off \in BOOLEAN : setUserDisabled(u, off)
  BY <1>4, <1>5, <1>6, <1>8, Zenon
<1> QED BY <1>7, <1>8 DEF AccountCalls

LEMMA OrganizationCallTables ==
    ASSUME IsDatabase(db), OrganizationCalls
    PROVE  /\ IsDatabase(db') /\ SameBut(db', db, {"orgs", "members"})
           /\ UNCHANGED <<around, opened>> /\ up
<1>0. IsTable(db.orgs, OrgIds, OrgRows) /\ IsTable(db.members, UserIds, Memberships)
  BY TablesTyped
<1>1. ASSUME NEW T, IsTable(T, OrgIds, OrgRows), Stores([db EXCEPT !.orgs = T])
      PROVE  /\ IsDatabase(db') /\ SameBut(db', db, {"orgs", "members"})
             /\ UNCHANGED <<around, opened>> /\ up
  <2>1. /\ db' = [db EXCEPT !.orgs = T] /\ UNCHANGED <<around, opened>> /\ up
    BY <1>1 DEF Stores
  <2>2. IsDatabase(db')
    BY <1>1, <2>1, NewTableTyped, Zenon
  <2>3. SameBut(db', db, {"orgs"})
    BY <2>1, NewTable, Zenon
  <2>4. SameBut(db', db, {"orgs", "members"})
    BY <2>3 DEF SameBut
  <2> QED BY <2>1, <2>2, <2>4
<1>2. ASSUME NEW T, IsTable(T, UserIds, Memberships), Stores([db EXCEPT !.members = T])
      PROVE  /\ IsDatabase(db') /\ SameBut(db', db, {"orgs", "members"})
             /\ UNCHANGED <<around, opened>> /\ up
  <2>1. /\ db' = [db EXCEPT !.members = T] /\ UNCHANGED <<around, opened>> /\ up
    BY <1>2 DEF Stores
  <2>2. IsDatabase(db')
    BY <1>2, <2>1, NewTableTyped, Zenon
  <2>3. SameBut(db', db, {"members"})
    BY <2>1, NewTable, Zenon
  <2>4. SameBut(db', db, {"orgs", "members"})
    BY <2>3 DEF SameBut
  <2> QED BY <2>1, <2>2, <2>4
<1>3. ASSUME NEW o \in OrgIds, NEW u \in UserIds, removeOrganizationMember(o, u)
      PROVE  \E T : IsTable(T, UserIds, Memberships) /\ Stores([db EXCEPT !.members = T])
  BY <1>0, <1>3, DropRow DEF removeOrganizationMember
<1>4. ASSUME NEW o \in OrgIds, NEW u \in UserIds, NEW role \in {"member", "org_admin"},
             setOrganizationMemberRole(o, u, role)
      PROVE  \E T : IsTable(T, UserIds, Memberships) /\ Stores([db EXCEPT !.members = T])
  <2>1. [org |-> o, role |-> role] \in Memberships
    BY DEF Memberships
  <2> QED BY <1>0, <1>4, <2>1, PutRow DEF setOrganizationMemberRole
<1>5. ASSUME NEW o \in NewOrgs, NEW slug \in OrgIds \cup Codes,
             NEW code \in OrgIds \cup Codes, createOrganization(o, slug, code)
      PROVE  \E T : IsTable(T, OrgIds, OrgRows) /\ Stores([db EXCEPT !.orgs = T])
  <2>1. [slug |-> slug, code |-> code, optIn |-> FALSE] \in OrgRows /\ o \in OrgIds
    BY DEF OrgRows, OrgIds
  <2> QED BY <1>0, <1>5, <2>1, PutRow DEF createOrganization
<1>6. ASSUME NEW o \in OrgIds, NEW code \in Codes, rotateOrganizationJoinCode(o, code)
      PROVE  \E T : IsTable(T, OrgIds, OrgRows) /\ Stores([db EXCEPT !.orgs = T])
  <2>1. [db.orgs[o] EXCEPT !.code = code] \in OrgRows
    BY <1>0, <1>6 DEF IsTable, OrgRows, rotateOrganizationJoinCode
  <2> QED BY <1>0, <1>6, <2>1, PutRow DEF rotateOrganizationJoinCode
<1>7. ASSUME NEW o \in OrgIds, NEW choice \in BOOLEAN,
             setOrganizationRankingOptIn(o, choice)
      PROVE  \E T : IsTable(T, OrgIds, OrgRows) /\ Stores([db EXCEPT !.orgs = T])
  <2>1. [db.orgs[o] EXCEPT !.optIn = choice] \in OrgRows
    BY <1>0, <1>7 DEF IsTable, OrgRows, setOrganizationRankingOptIn
  <2> QED BY <1>0, <1>7, <2>1, PutRow DEF setOrganizationRankingOptIn
<1>8. \/ \E T : IsTable(T, OrgIds, OrgRows) /\ Stores([db EXCEPT !.orgs = T])
      \/ \E T : IsTable(T, UserIds, Memberships) /\ Stores([db EXCEPT !.members = T])
  BY <1>3, <1>4, <1>5, <1>6, <1>7, Zenon DEF OrganizationCalls
<1> QED BY <1>1, <1>2, <1>8

LEMMA SeasonCallTables ==
    ASSUME IsDatabase(db), SeasonCalls
    PROVE  /\ IsDatabase(db') /\ SameBut(db', db, {"seasons"})
           /\ UNCHANGED <<around, opened>> /\ up
<1>0. IsTable(db.seasons, NewSeasons, SeasonRows)
  BY TablesTyped
<1>1. ASSUME NEW s \in NewSeasons, deleteSeason(s)
      PROVE  \E T : IsTable(T, NewSeasons, SeasonRows) /\ Stores([db EXCEPT !.seasons = T])
  BY <1>0, <1>1, DropRow DEF deleteSeason
<1>2. ASSUME NEW s \in NewSeasons, NEW slug \in Slugs,
             NEW first \in 0 .. MaxDay + HalfSeason,
             NEW last \in 0 .. MaxDay + HalfSeason, createSeason(s, slug, first, last)
      PROVE  \E T : IsTable(T, NewSeasons, SeasonRows) /\ Stores([db EXCEPT !.seasons = T])
  <2>1. [slug |-> slug, starts |-> first, ends |-> last] \in SeasonRows
    BY Calendar DEF SeasonRows
  <2> QED BY <1>0, <1>2, <2>1, PutRow DEF createSeason
<1>3. PICK T : IsTable(T, NewSeasons, SeasonRows) /\ Stores([db EXCEPT !.seasons = T])
  <2>1. PICK s \in NewSeasons :
           \/ deleteSeason(s)
           \/ \E slug \in Slugs, first, last \in 0 .. MaxDay + HalfSeason :
                 first < last /\ createSeason(s, slug, first, last)
    BY DEF SeasonCalls
  <2>2. CASE deleteSeason(s)
    BY <1>1, <2>2
  <2>3. CASE \E slug \in Slugs, first, last \in 0 .. MaxDay + HalfSeason :
                 first < last /\ createSeason(s, slug, first, last)
    BY <1>2, <2>3
  <2> QED BY <2>1, <2>2, <2>3
<1>4. /\ db' = [db EXCEPT !.seasons = T] /\ UNCHANGED <<around, opened>> /\ up
  BY <1>3 DEF Stores
<1>5. IsDatabase(db')
  BY <1>3, <1>4, NewTableTyped, Zenon
<1>6. SameBut(db', db, {"seasons"})
  <2>1. db' = [db EXCEPT !.seasons = T]
    BY <1>4
  <2> QED BY <2>1, NewTable, Zenon
<1> QED BY <1>4, <1>5, <1>6

Held(T) == \A l \in DOMAIN T \ Cohorts : T[l].held => T[l].status = "quarantined"

LEMMA LabCallTables ==
    ASSUME IsDatabase(db), LabCalls, Held(db.labs)
    PROVE  /\ IsDatabase(db') /\ SameBut(db', db, {"labs"})
           /\ Held(db'.labs) /\ UNCHANGED <<around, opened>> /\ up
<1>0. IsTable(db.labs, LabIds, LabRows) /\ IsTable(db.members, UserIds, Memberships)
  BY TablesTyped
<1>1. ASSUME NEW l \in LabIds, NEW r \in LabRows,
             l \notin Cohorts /\ r.held => r.status = "quarantined",
             Stores([db EXCEPT !.labs = Put(@, l, r)])
      PROVE  /\ IsDatabase(db') /\ SameBut(db', db, {"labs"})
             /\ Held(db'.labs) /\ UNCHANGED <<around, opened>> /\ up
  <2> DEFINE T == Put(db.labs, l, r)
  <2>1. db' = [db EXCEPT !.labs = T] /\ UNCHANGED <<around, opened>> /\ up
    BY <1>1 DEF Stores
  <2>2. IsTable(T, LabIds, LabRows)
    BY <1>0, PutRow
  <2>3. Held(T)
    BY <1>1 DEF Held, Put
  <2> HIDE DEF T
  <2>4. IsDatabase(db')
    BY <2>1, <2>2, NewTableTyped, Zenon
  <2>5. SameBut(db', db, {"labs"}) /\ db'.labs = T
    <3>1. db' = [db EXCEPT !.labs = T]
      BY <2>1
    <3> QED BY <3>1, NewTable, Zenon
  <2> QED BY <2>1, <2>3, <2>4, <2>5
<1> DEFINE Good == /\ IsDatabase(db') /\ SameBut(db', db, {"labs"})
                   /\ Held(db'.labs) /\ UNCHANGED <<around, opened>> /\ up
<1>2. ASSUME NEW u \in UserIds, NEW l \in NewLabs, createLab(u, l)
      PROVE  Good
  <2> DEFINE r == [owner |-> u,
                   org |-> IF u \in DOMAIN db.members THEN db.members[u].org
                           ELSE Nowhere,
                   status |-> "draft", check |-> "none", target |-> FALSE,
                   held |-> FALSE]
  <2>1. r \in LabRows
    <3>1. u \in DOMAIN db.members => db.members[u].org \in OrgIds
      BY <1>0 DEF IsTable, Memberships
    <3> QED BY <3>1 DEF LabRows
  <2>2. ~r.held /\ l \in LabIds
    BY DEF LabIds
  <2>3. Stores([db EXCEPT !.labs = Put(@, l, r)])
    BY <1>2 DEF createLab
  <2> HIDE DEF r
  <2> QED BY <1>1, <2>1, <2>2, <2>3
<1>3. ASSUME NEW l \in LabIds, NEW r, UpdateLab(l, r),
             db.labs[l] \in LabRows => r \in LabRows,
             db.labs[l] \in LabRows /\ l \notin Cohorts /\ r.held
               => r.status = "quarantined"
      PROVE  Good
  <2>1. db.labs[l] \in LabRows /\ Stores([db EXCEPT !.labs = Put(@, l, r)])
    BY <1>0, <1>3 DEF IsTable, UpdateLab
  <2> QED BY <1>1, <1>3, <2>1
<1> HIDE DEF Good
<1>4. ASSUME NEW l \in LabIds, updateLabConfig(l)
      PROVE  Good
  <2> DEFINE r == [db.labs[l] EXCEPT !.target = TRUE]
  <2>1. /\ UpdateLab(l, r) /\ db.labs[l].status = "draft" /\ l \in DOMAIN db.labs
    BY <1>4 DEF updateLabConfig, UpdateLab
  <2>2. db.labs[l] \in LabRows => r \in LabRows /\ r.held = db.labs[l].held
    BY DEF LabRows
  <2>3. l \notin Cohorts => ~db.labs[l].held
    BY <2>1 DEF Held
  <2> HIDE DEF r
  <2> QED BY <1>3, <2>1, <2>2, <2>3
<1>5. ASSUME NEW l \in LabIds, NEW status \in {"validated", "quarantined"},
             saveValidation(l, status)
      PROVE  Good
  <2> DEFINE r == [db.labs[l] EXCEPT
                     !.check = IF status = "validated" THEN "pass" ELSE "fail",
                     !.status = Validated(l, status)]
  <2>1. UpdateLab(l, r)
    BY <1>5 DEF saveValidation
  <2>2. /\ Validated(l, status) \in {"validated", "quarantined"}
        /\ db.labs[l].held => Validated(l, status) = "quarantined"
    BY DEF Validated
  <2>3. db.labs[l] \in LabRows => /\ r \in LabRows /\ r.held = db.labs[l].held
                                  /\ r.status = Validated(l, status)
    BY <2>2 DEF LabRows
  <2> HIDE DEF r
  <2> QED BY <1>3, <2>1, <2>2, <2>3
<1>6. ASSUME NEW l \in LabIds, quarantineLab(l)
      PROVE  Good
  <2> DEFINE r == [db.labs[l] EXCEPT !.status = "quarantined", !.held = TRUE]
  <2>1. UpdateLab(l, r)
    BY <1>6 DEF quarantineLab
  <2>2. db.labs[l] \in LabRows => r \in LabRows /\ r.status = "quarantined"
    BY DEF LabRows
  <2> HIDE DEF r
  <2> QED BY <1>3, <2>1, <2>2
<1>7. ASSUME NEW l \in LabIds, releaseLabQuarantine(l)
      PROVE  Good
  <2> DEFINE r == [db.labs[l] EXCEPT !.status = "draft", !.held = FALSE]
  <2>1. UpdateLab(l, r)
    BY <1>7 DEF releaseLabQuarantine
  <2>2. db.labs[l] \in LabRows => r \in LabRows /\ r.held = FALSE
    BY DEF LabRows
  <2> HIDE DEF r
  <2> QED BY <1>3, <2>1, <2>2
<1>8. Good
  <2>1. CASE \E u \in UserIds, l \in NewLabs : createLab(u, l)
    BY <1>2, <2>1
  <2>2. CASE \E l \in LabIds :
          \/ updateLabConfig(l) \/ quarantineLab(l) \/ releaseLabQuarantine(l)
          \/ \E s \in {"validated", "quarantined"} : saveValidation(l, s)
    BY <1>4, <1>5, <1>6, <1>7, <2>2
  <2> QED BY <2>1, <2>2 DEF LabCalls
<1> QED BY <1>8 DEF Good

-----------------------------------------------------------------------------
(* The invariant.                                                          *)

\* A ticket is for a run there is.
Linked == \A t \in DOMAIN db.tickets : db.tickets[t].run \in DOMAIN db.runs

\* A ticket has opened a session if it is consumed, and one only.
Counted == \A t \in Passes :
    opened[t] = IF t \in DOMAIN db.tickets /\ db.tickets[t].consumed THEN 1 ELSE 0

\* A new run has an event for its result, and one result.
Graded == \A r \in NewRuns : db.events[r] = db.results[r] /\ db.results[r] \in {0, 1}

\* A new run that is not there has no result, and a seeded run is over.
Archived == /\ \A r \in NewRuns \ DOMAIN db.runs : db.results[r] = 0
            /\ \A r \in Fixtures \cap DOMAIN db.runs : db.runs[r].status = "stopped"

\* What is done of a boot under way is part of what it is to leave.
Underway ==
    ~up => /\ aim = Booted(db, now)
           /\ \A i \in 1 .. at : Holds(Script[i], db, now)

RepositoryInv ==
    /\ RepositoryTypeOK
    /\ Named(db.users)
    /\ Linked
    /\ Counted
    /\ Graded
    /\ Archived
    /\ HeldLabsStayDown
    /\ Underway

LEMMA EmptyTyped == IsDatabase(Empty)
<1>1. IsTable(None, UserIds, UserRows) /\ IsTable(None, OrgIds, OrgRows)
      /\ IsTable(None, UserIds, Memberships) /\ IsTable(None, LabIds, LabRows)
      /\ IsTable(None, RunIds, RunRows) /\ IsTable(None, Passes, PassRows)
      /\ IsTable(None, NewSeasons, SeasonRows)
  BY DEF IsTable, None
<1>2. [r \in RunIds |-> 0] \in [RunIds -> Nat]
  OBVIOUS
<1> QED BY <1>1, <1>2 DEF IsDatabase, Empty

LEMMA LegacyTyped ==
    /\ IsDatabase(Legacy) /\ Named(Legacy.users)
    /\ SameBut(Legacy, Empty, {"users", "orgs", "members"})
<1> DEFINE st == <<"organization", DevUser>>
           O == OrgsWith(Empty.orgs, Seeded)
           M == MembersWith(Empty.members, Fixtures)
           U == [u \in Fixtures |-> [FixtureRow(u) EXCEPT !.agreed = FALSE,
                                                          !.hash = "legacy"]]
           a == [Empty EXCEPT !.orgs = O]
           b == [a EXCEPT !.members = M]
<1>1. Legacy = [b EXCEPT !.users = U]
  <2>1. ensureOrganizations(Empty, Seeded) = a
    BY DEF ensureOrganizations, OrgsWith, OrgsMissing
  <2>2. a.members = Empty.members
    BY DEF Empty
  <2> HIDE DEF a
  <2>3. ensureMembers(a, Fixtures) = [a EXCEPT !.members = MembersWith(a.members, Fixtures)]
    BY DEF ensureMembers, MembersWith, MembersMissing
  <2> QED BY <2>1, <2>2, <2>3 DEF Legacy
<1>2. IsTable(O, OrgIds, OrgRows) /\ IsTable(M, UserIds, Memberships)
  BY EmptyTyped, TablesTyped, OrgsWithTyped, MembersWithTyped
<1>3. IsTable(U, UserIds, UserRows) /\ Named(U)
  <2>1. ASSUME NEW u \in Fixtures
        PROVE  /\ U[u] \in UserRows /\ U[u].email = u /\ U[u].handle = u
    <3>1. U[u] = [FixtureRow(u) EXCEPT !.agreed = FALSE, !.hash = "legacy"]
      OBVIOUS
    <3>2. FixtureRow(u) \in UserRows /\ FixtureRow(u).email = u
          /\ FixtureRow(u).handle = u
      BY FixtureRowTyped DEF FixtureRow
    <3> QED BY <3>1, <3>2 DEF UserRows
  <2>2. DOMAIN U = Fixtures
    OBVIOUS
  <2> HIDE DEF U
  <2>3. U \in [DOMAIN U -> UserRows]
    <3>1. U = [u \in Fixtures |-> U[u]]
      BY DEF U
    <3> QED BY <2>1, <2>2, <3>1
  <2> QED BY <2>1, <2>2, <2>3 DEF IsTable, Named, UserIds
<1> HIDE DEF O, M, U
<1>4. IsDatabase(a) /\ SameBut(a, Empty, {"orgs"})
  <2>1. IsDatabase(a)
    BY <1>2, EmptyTyped, NewTableTyped, Zenon
  <2> QED BY <2>1, EmptyTyped, NewTable, Zenon
<1> HIDE DEF a
<1>5. IsDatabase(b) /\ SameBut(b, a, {"members"})
  <2>1. IsDatabase(b)
    BY <1>2, <1>4, NewTableTyped, Zenon
  <2> QED BY <2>1, <1>4, NewTable, Zenon
<1> HIDE DEF b
<1>6. IsDatabase(Legacy)
  BY <1>1, <1>3, <1>5, NewTableTyped, Zenon
<1>7. SameBut(Legacy, b, {"users"}) /\ Legacy.users = U
  BY <1>1, <1>5, NewTable, Zenon
<1>8. SameBut(Legacy, Empty, {"users", "orgs", "members"})
  BY <1>4, <1>5, <1>7 DEF SameBut, Tables
<1> QED BY <1>3, <1>6, <1>7, <1>8

LEMMA InitInv == RepositoryInit => RepositoryInv
<1> SUFFICES ASSUME RepositoryInit PROVE RepositoryInv
  OBVIOUS
<1>0. /\ db \in {Empty, Legacy} /\ at = 0 /\ up = FALSE /\ now = 0
      /\ opened = [t \in Passes |-> 0] /\ aim = Booted(db, 0) /\ stops = 0
  BY DEF RepositoryInit
<1>1. IsDatabase(db) /\ Named(db.users)
  <2>1. Named(Empty.users)
    BY DEF Named, Empty, None
  <2> QED BY <1>0, <2>1, EmptyTyped, LegacyTyped
<1>2. /\ db.labs = None /\ db.runs = None /\ db.tickets = None
      /\ db.results = [r \in RunIds |-> 0] /\ db.events = [r \in RunIds |-> 0]
  <2>1. CASE db = Empty
    BY <2>1 DEF Empty
  <2>2. CASE db = Legacy
    BY <2>2, LegacyTyped DEF SameBut, Tables, Empty
  <2> QED BY <1>0, <2>1, <2>2
<1>3. IsDatabase(aim)
  BY <1>0, <1>1, BootedTables
<1>4. RepositoryTypeOK
  <2>1. at \in 0 .. Len(Script)
    BY <1>0, ScriptIsWellFormed
  <2>2. now \in 0 .. MaxDay /\ stops \in 0 .. MaxStops
    BY <1>0, Calendar
  <2>3. opened \in [Passes -> Nat] /\ up \in BOOLEAN
    BY <1>0
  <2> QED BY <1>1, <1>3, <2>1, <2>2, <2>3 DEF RepositoryTypeOK
<1>5. Linked /\ Counted /\ Graded /\ Archived /\ HeldLabsStayDown
  BY <1>0, <1>2 DEF Linked, Counted, Graded, Archived, HeldLabsStayDown, None, RunIds
<1>6. Underway
  BY <1>0 DEF Underway
<1> QED BY <1>1, <1>4, <1>5, <1>6 DEF RepositoryInv

\* A call that leaves runs, tickets and results alone keeps what is said of
\* them.
LEMMA RunsUntouched ==
    ASSUME RepositoryInv, IsDatabase(db'), Named(db'.users),
           SameBut(db', db, {"users", "orgs", "members", "labs", "seasons"}),
           Held(db'.labs), UNCHANGED <<around, opened>>, up
    PROVE  RepositoryInv'
<1>1. /\ db'.runs = db.runs /\ db'.tickets = db.tickets
      /\ db'.results = db.results /\ db'.events = db.events
  BY DEF SameBut, Tables
<1>2. RepositoryTypeOK'
  BY DEF RepositoryInv, RepositoryTypeOK, around
<1>3. Linked' /\ Counted' /\ Graded' /\ Archived'
  BY <1>1 DEF RepositoryInv, Linked, Counted, Graded, Archived
<1>4. HeldLabsStayDown'
  BY DEF Held, HeldLabsStayDown
<1>5. Underway'
  BY DEF Underway, around
<1> QED BY <1>2, <1>3, <1>4, <1>5 DEF RepositoryInv

LEMMA RunIsPut ==
    ASSUME IsDatabase(db), NEW r \in RunIds, NEW row \in RunRows,
           Stores([db EXCEPT !.runs = Put(@, r, row)])
    PROVE  /\ IsDatabase(db') /\ SameBut(db', db, {"runs"})
           /\ db'.runs = Put(db.runs, r, row)
           /\ UNCHANGED <<around, opened>> /\ up
<1> DEFINE T == Put(db.runs, r, row)
<1>1. db' = [db EXCEPT !.runs = T]
  BY DEF Stores
<1>2. IsTable(T, RunIds, RunRows)
  BY TablesTyped, PutRow
<1> HIDE DEF T
<1>3. IsDatabase(db')
  BY <1>1, <1>2, NewTableTyped, Zenon
<1>4. SameBut(db', db, {"runs"}) /\ db'.runs = T
  BY <1>1, NewTable, Zenon
<1> QED BY <1>3, <1>4 DEF Stores, T

LEMMA TicketIsPut ==
    ASSUME IsDatabase(db), NEW t \in Passes, NEW row \in PassRows,
           db' = [db EXCEPT !.tickets = Put(@, t, row)]
    PROVE  /\ IsDatabase(db') /\ SameBut(db', db, {"tickets"})
           /\ db'.tickets = Put(db.tickets, t, row)
<1> DEFINE T == Put(db.tickets, t, row)
<1> DEFINE e == [db EXCEPT !.tickets = T]
<1>1. db' = e
  OBVIOUS
<1>2. IsTable(T, Passes, PassRows)
  BY TablesTyped, PutRow
<1> HIDE DEF T
<1>3. IsDatabase(e)
  BY <1>2, NewTableTyped, Zenon
<1>4. SameBut(e, db, {"tickets"}) /\ e.tickets = T
  BY NewTable, Zenon
<1> HIDE DEF e
<1> QED BY <1>1, <1>3, <1>4 DEF T

LEMMA ResultIsSaved ==
    ASSUME IsDatabase(db), NEW r \in RunIds, saveChallengeResult(r)
    PROVE  /\ IsDatabase(db') /\ SameBut(db', db, {"results", "events"})
           /\ db'.results = [db.results EXCEPT ![r] = 1]
           /\ db'.events = [db.events EXCEPT ![r] = @ + 1]
           /\ db.results[r] = 0 /\ r \in DOMAIN db.runs
           /\ UNCHANGED <<around, opened>> /\ up
<1> DEFINE R == Put(db.results, r, 1)
           E == Put(db.events, r, db.events[r] + 1)
<1>0. db.results \in [RunIds -> Nat] /\ db.events \in [RunIds -> Nat]
  BY TablesTyped
<1>1. R = [db.results EXCEPT ![r] = 1] /\ E = [db.events EXCEPT ![r] = @ + 1]
  BY <1>0 DEF Put
<1>2. R \in [RunIds -> Nat] /\ E \in [RunIds -> Nat]
  BY <1>0, <1>1
<1> HIDE DEF R, E
<1>3. db' = [db EXCEPT !.results = R, !.events = E]
  BY DEF saveChallengeResult, Stores, R, E
<1>4. IsDatabase(db')
  BY <1>2, <1>3 DEF IsDatabase
<1>5. SameBut(db', db, {"results", "events"}) /\ db'.results = R /\ db'.events = E
  BY <1>3 DEF IsDatabase, SameBut, Tables
<1>6. db.results[r] = 0 /\ r \in DOMAIN db.runs /\ UNCHANGED <<around, opened>> /\ up
  BY DEF saveChallengeResult, Stores
<1> QED BY <1>1, <1>4, <1>5, <1>6

\* What is left to show of a call on runs, tickets or results.
LEMMA OthersUntouched ==
    ASSUME RepositoryInv, IsDatabase(db'),
           SameBut(db', db, {"runs", "tickets", "results", "events"}),
           UNCHANGED around, up, opened' \in [Passes -> Nat],
           Linked', Counted', Graded', Archived'
    PROVE  RepositoryInv'
<1>1. db'.labs = db.labs /\ db'.users = db.users
  BY DEF SameBut, Tables
<1>2. RepositoryTypeOK'
  BY DEF RepositoryInv, RepositoryTypeOK, around
<1>3. HeldLabsStayDown' /\ Named(db'.users)
  BY <1>1 DEF RepositoryInv, HeldLabsStayDown
<1>4. Underway'
  BY DEF Underway, around
<1> QED BY <1>2, <1>3, <1>4 DEF RepositoryInv

\* What the calls on runs do, one by one.
CreatesRun(r) ==
    \E l \in LabIds, u \in UserIds, s \in {"provisioning", "ready"} :
       createRun(r, l, u, s)
SettlesRun(r) ==
    \E u \in UserIds, s \in {"ready", "failed"} : updateRunReadiness(u, r, s)
EndsRun(r) == \E s \in {"stopped", "expired"} : MarkRun(r, s)

LEMMA RunCallKinds ==
    RunCalls => \/ \E r \in NewRuns : CreatesRun(r)
                \/ \E r \in RunIds : \/ SettlesRun(r) \/ EndsRun(r)
                                     \/ saveChallengeResult(r)
                \/ \E r \in RunIds, t \in Passes : createAccessTicket(t, r)
                \/ \E t \in Passes : consumeAccessTicket(t)
BY Zenon DEF RunCalls, CreatesRun, SettlesRun, EndsRun

LEMMA RunCreated ==
    ASSUME IsDatabase(db), NEW r \in NewRuns, CreatesRun(r)
    PROVE  \E row \in RunRows :
             /\ row.status \in {"provisioning", "ready"} /\ r \notin DOMAIN db.runs
             /\ IsDatabase(db') /\ SameBut(db', db, {"runs"})
             /\ db'.runs = Put(db.runs, r, row)
             /\ UNCHANGED <<around, opened>> /\ up
<1>1. PICK l \in LabIds, u \in UserIds, s \in {"provisioning", "ready"} :
         createRun(r, l, u, s)
  BY DEF CreatesRun
<1> DEFINE row == [lab |-> l, user |-> u, status |-> s]
<1>2. row \in RunRows /\ row.status = s /\ r \in RunIds
  BY DEF RunRows, RunIds
<1>3. Stores([db EXCEPT !.runs = Put(@, r, row)]) /\ r \notin DOMAIN db.runs
  BY <1>1 DEF createRun
<1> HIDE DEF row
<1>4. /\ IsDatabase(db') /\ SameBut(db', db, {"runs"})
      /\ db'.runs = Put(db.runs, r, row)
      /\ UNCHANGED <<around, opened>> /\ up
  BY <1>2, <1>3, RunIsPut
<1> QED BY <1>2, <1>3, <1>4

LEMMA RunMoved ==
    ASSUME IsDatabase(db), NEW r \in RunIds, SettlesRun(r) \/ EndsRun(r)
    PROVE  /\ r \in DOMAIN db.runs
           /\ \E row \in RunRows :
                /\ \/ /\ db.runs[r].status = "provisioning"
                      /\ row.status \in {"ready", "failed"}
                   \/ /\ db.runs[r].status \notin {"stopped", "expired"}
                      /\ row.status \in {"stopped", "expired"}
                /\ IsDatabase(db') /\ SameBut(db', db, {"runs"})
                /\ db'.runs = Put(db.runs, r, row)
                /\ UNCHANGED <<around, opened>> /\ up
<1>1. ASSUME NEW s \in {"ready", "failed", "stopped", "expired"},
             r \in DOMAIN db.runs,
             \/ db.runs[r].status = "provisioning" /\ s \in {"ready", "failed"}
             \/ /\ db.runs[r].status \notin {"stopped", "expired"}
                /\ s \in {"stopped", "expired"},
             Stores([db EXCEPT !.runs = Put(@, r, [db.runs[r] EXCEPT !.status = s])])
      PROVE  \E row \in RunRows :
                /\ \/ /\ db.runs[r].status = "provisioning"
                      /\ row.status \in {"ready", "failed"}
                   \/ /\ db.runs[r].status \notin {"stopped", "expired"}
                      /\ row.status \in {"stopped", "expired"}
                /\ IsDatabase(db') /\ SameBut(db', db, {"runs"})
                /\ db'.runs = Put(db.runs, r, row)
                /\ UNCHANGED <<around, opened>> /\ up
  <2> DEFINE row == [db.runs[r] EXCEPT !.status = s]
  <2>1. db.runs[r] \in RunRows
    BY <1>1, TablesTyped DEF IsTable
  <2>2. row \in RunRows /\ row.status = s
    BY <2>1 DEF RunRows
  <2>3. Stores([db EXCEPT !.runs = Put(@, r, row)])
    BY <1>1
  <2> HIDE DEF row
  <2>4. /\ IsDatabase(db') /\ SameBut(db', db, {"runs"})
        /\ db'.runs = Put(db.runs, r, row)
        /\ UNCHANGED <<around, opened>> /\ up
    BY <2>2, <2>3, RunIsPut
  <2> QED BY <1>1, <2>2, <2>4
<1>2. CASE SettlesRun(r)
  <2>1. PICK u \in UserIds, s \in {"ready", "failed"} : updateRunReadiness(u, r, s)
    BY <1>2 DEF SettlesRun
  <2>2. /\ r \in DOMAIN db.runs /\ db.runs[r].status = "provisioning"
        /\ Stores([db EXCEPT !.runs = Put(@, r, [db.runs[r] EXCEPT !.status = s])])
    BY <2>1 DEF updateRunReadiness
  <2> QED BY <1>1, <2>2
<1>3. CASE EndsRun(r)
  <2>1. PICK s \in {"stopped", "expired"} : MarkRun(r, s)
    BY <1>3 DEF EndsRun
  <2>2. /\ r \in DOMAIN db.runs /\ db.runs[r].status \notin {"stopped", "expired"}
        /\ Stores([db EXCEPT !.runs = Put(@, r, [db.runs[r] EXCEPT !.status = s])])
    BY <2>1 DEF MarkRun
  <2> QED BY <1>1, <2>2
<1> QED BY <1>2, <1>3

LEMMA TicketCreated ==
    ASSUME IsDatabase(db), NEW r \in RunIds, NEW t \in Passes,
           createAccessTicket(t, r)
    PROVE  /\ t \notin DOMAIN db.tickets /\ r \in DOMAIN db.runs
           /\ IsDatabase(db') /\ SameBut(db', db, {"tickets"})
           /\ db'.tickets = Put(db.tickets, t, [run |-> r, consumed |-> FALSE])
           /\ UNCHANGED <<around, opened>> /\ up
<1> DEFINE row == [run |-> r, consumed |-> FALSE]
<1>1. /\ t \notin DOMAIN db.tickets /\ r \in DOMAIN db.runs
      /\ db' = [db EXCEPT !.tickets = Put(@, t, row)]
      /\ UNCHANGED <<around, opened>> /\ up
  BY DEF createAccessTicket, Stores
<1>2. row \in PassRows
  BY DEF PassRows
<1> HIDE DEF row
<1>3. /\ IsDatabase(db') /\ SameBut(db', db, {"tickets"})
      /\ db'.tickets = Put(db.tickets, t, row)
  BY <1>1, <1>2, TicketIsPut
<1> QED BY <1>1, <1>3 DEF row

LEMMA TicketConsumed ==
    ASSUME IsDatabase(db), NEW t \in Passes, consumeAccessTicket(t)
    PROVE  /\ TicketAdmits(t) /\ opened' = [opened EXCEPT ![t] = @ + 1]
           /\ IsDatabase(db') /\ SameBut(db', db, {"tickets"})
           /\ \E row \in PassRows :
                /\ row.run = db.tickets[t].run /\ row.consumed = TRUE
                /\ db'.tickets = Put(db.tickets, t, row)
           /\ UNCHANGED around /\ up
<1> DEFINE row == [db.tickets[t] EXCEPT !.consumed = TRUE]
<1>1. /\ TicketAdmits(t) /\ opened' = [opened EXCEPT ![t] = @ + 1]
      /\ db' = [db EXCEPT !.tickets = Put(@, t, row)]
      /\ UNCHANGED around /\ up
  BY DEF consumeAccessTicket
<1>2. db.tickets[t] \in PassRows
  BY <1>1, TablesTyped DEF IsTable, TicketAdmits
<1>3. row \in PassRows /\ row.run = db.tickets[t].run /\ row.consumed = TRUE
  BY <1>2 DEF PassRows
<1> HIDE DEF row
<1>4. /\ IsDatabase(db') /\ SameBut(db', db, {"tickets"})
      /\ db'.tickets = Put(db.tickets, t, row)
  BY <1>1, <1>3, TicketIsPut
<1> QED BY <1>1, <1>3, <1>4

\* A new run is no fixture.
LEMMA NewRunsAreNew ==
    /\ \A r \in NewRuns : r \in RunIds /\ r \notin Fixtures
    /\ \A r \in RunIds : r \in NewRuns \/ r \in Fixtures
BY IdentifiersAreFresh DEF RunIds

LEMMA RunCallsKeepInv == RepositoryInv /\ RunCalls => RepositoryInv'
<1> SUFFICES ASSUME RepositoryInv, RunCalls PROVE RepositoryInv'
  OBVIOUS
<1>0. /\ IsDatabase(db) /\ opened \in [Passes -> Nat]
      /\ Linked /\ Counted /\ Graded /\ Archived
      /\ IsTable(db.runs, RunIds, RunRows) /\ IsTable(db.tickets, Passes, PassRows)
      /\ db.results \in [RunIds -> Nat] /\ db.events \in [RunIds -> Nat]
  BY TablesTyped DEF RepositoryInv, RepositoryTypeOK
<1>1. ASSUME NEW S \in {{"runs"}, {"tickets"}, {"results", "events"}},
             SameBut(db', db, S)
      PROVE  /\ SameBut(db', db, {"runs", "tickets", "results", "events"})
             /\ "runs" \notin S => db'.runs = db.runs
             /\ "tickets" \notin S => db'.tickets = db.tickets
             /\ "results" \notin S => db'.results = db.results /\ db'.events = db.events
  BY <1>1 DEF SameBut, Tables
<1>2. ASSUME NEW r \in NewRuns, CreatesRun(r) PROVE RepositoryInv'
  <2>1. PICK row \in RunRows :
             /\ row.status \in {"provisioning", "ready"} /\ r \notin DOMAIN db.runs
             /\ IsDatabase(db') /\ SameBut(db', db, {"runs"})
             /\ db'.runs = Put(db.runs, r, row)
             /\ UNCHANGED <<around, opened>> /\ up
    BY <1>0, <1>2, RunCreated
  <2>2. /\ SameBut(db', db, {"runs", "tickets", "results", "events"})
        /\ db'.tickets = db.tickets /\ db'.results = db.results
        /\ db'.events = db.events
    BY <1>1, <2>1
  <2>3. /\ DOMAIN db'.runs = DOMAIN db.runs \cup {r}
        /\ \A x \in DOMAIN db.runs : db'.runs[x] = db.runs[x]
    BY <2>1 DEF Put
  <2>4. r \notin Fixtures
    BY NewRunsAreNew
  <2>5. Linked' /\ Counted' /\ Graded' /\ Archived'
    BY <1>0, <2>1, <2>2, <2>3, <2>4 DEF Linked, Counted, Graded, Archived
  <2> QED BY <1>0, <2>1, <2>2, <2>5, OthersUntouched
<1>3. ASSUME NEW r \in RunIds, SettlesRun(r) \/ EndsRun(r) PROVE RepositoryInv'
  <2>1. /\ r \in DOMAIN db.runs
        /\ \E row \in RunRows :
             /\ \/ /\ db.runs[r].status = "provisioning"
                   /\ row.status \in {"ready", "failed"}
                \/ /\ db.runs[r].status \notin {"stopped", "expired"}
                   /\ row.status \in {"stopped", "expired"}
             /\ IsDatabase(db') /\ SameBut(db', db, {"runs"})
             /\ db'.runs = Put(db.runs, r, row)
             /\ UNCHANGED <<around, opened>> /\ up
    BY <1>0, <1>3, RunMoved
  <2>2. PICK row \in RunRows :
             /\ \/ /\ db.runs[r].status = "provisioning"
                   /\ row.status \in {"ready", "failed"}
                \/ /\ db.runs[r].status \notin {"stopped", "expired"}
                   /\ row.status \in {"stopped", "expired"}
             /\ IsDatabase(db') /\ SameBut(db', db, {"runs"})
             /\ db'.runs = Put(db.runs, r, row)
             /\ UNCHANGED <<around, opened>> /\ up
    BY <2>1
  <2>3. /\ SameBut(db', db, {"runs", "tickets", "results", "events"})
        /\ db'.tickets = db.tickets /\ db'.results = db.results
        /\ db'.events = db.events
    BY <1>1, <2>2
  <2>4. /\ DOMAIN db'.runs = DOMAIN db.runs
        /\ \A x \in DOMAIN db.runs : x # r => db'.runs[x] = db.runs[x]
    BY <2>1, <2>2 DEF Put
  <2>5. r \notin Fixtures
    BY <1>0, <2>1, <2>2 DEF Archived
  <2>6. Linked' /\ Counted' /\ Graded' /\ Archived'
    BY <1>0, <2>2, <2>3, <2>4, <2>5 DEF Linked, Counted, Graded, Archived
  <2> QED BY <1>0, <2>2, <2>3, <2>6, OthersUntouched
<1>4. ASSUME NEW r \in RunIds, saveChallengeResult(r) PROVE RepositoryInv'
  <2>1. /\ IsDatabase(db') /\ SameBut(db', db, {"results", "events"})
        /\ db'.results = [db.results EXCEPT ![r] = 1]
        /\ db'.events = [db.events EXCEPT ![r] = @ + 1]
        /\ db.results[r] = 0 /\ r \in DOMAIN db.runs
        /\ UNCHANGED <<around, opened>> /\ up
    BY <1>0, <1>4, ResultIsSaved
  <2>2. /\ SameBut(db', db, {"runs", "tickets", "results", "events"})
        /\ db'.tickets = db.tickets /\ db'.runs = db.runs
    BY <1>1, <2>1
  <2>3. Linked' /\ Counted'
    BY <1>0, <2>1, <2>2 DEF Linked, Counted
  <2>4. Graded' /\ Archived'
    BY <1>0, <2>1, <2>2, NewRunsAreNew DEF Graded, Archived
  <2> QED BY <1>0, <2>1, <2>2, <2>3, <2>4, OthersUntouched
<1>5. ASSUME NEW r \in RunIds, NEW t \in Passes, createAccessTicket(t, r)
      PROVE  RepositoryInv'
  <2>1. /\ t \notin DOMAIN db.tickets /\ r \in DOMAIN db.runs
        /\ IsDatabase(db') /\ SameBut(db', db, {"tickets"})
        /\ db'.tickets = Put(db.tickets, t, [run |-> r, consumed |-> FALSE])
        /\ UNCHANGED <<around, opened>> /\ up
    BY <1>0, <1>5, TicketCreated
  <2>2. /\ SameBut(db', db, {"runs", "tickets", "results", "events"})
        /\ db'.runs = db.runs /\ db'.results = db.results
        /\ db'.events = db.events
    BY <1>1, <2>1
  <2>3. /\ DOMAIN db'.tickets = DOMAIN db.tickets \cup {t}
        /\ \A x \in DOMAIN db.tickets : db'.tickets[x] = db.tickets[x]
        /\ db'.tickets[t].run = r /\ ~db'.tickets[t].consumed
    BY <2>1 DEF Put
  <2>4. Linked' /\ Graded' /\ Archived'
    BY <1>0, <2>1, <2>2, <2>3 DEF Linked, Graded, Archived
  <2>5. Counted'
    BY <1>0, <2>1, <2>3 DEF Counted
  <2> QED BY <1>0, <2>1, <2>2, <2>4, <2>5, OthersUntouched
<1>6. ASSUME NEW t \in Passes, consumeAccessTicket(t) PROVE RepositoryInv'
  <2>1. /\ TicketAdmits(t) /\ opened' = [opened EXCEPT ![t] = @ + 1]
        /\ IsDatabase(db') /\ SameBut(db', db, {"tickets"})
        /\ \E row \in PassRows :
             /\ row.run = db.tickets[t].run /\ row.consumed = TRUE
             /\ db'.tickets = Put(db.tickets, t, row)
        /\ UNCHANGED around /\ up
    BY <1>0, <1>6, TicketConsumed
  <2>2. /\ SameBut(db', db, {"runs", "tickets", "results", "events"})
        /\ db'.runs = db.runs /\ db'.results = db.results
        /\ db'.events = db.events
    BY <1>1, <2>1
  <2>3. /\ DOMAIN db'.tickets = DOMAIN db.tickets /\ t \in DOMAIN db.tickets
        /\ \A x \in DOMAIN db.tickets : x # t => db'.tickets[x] = db.tickets[x]
        /\ db'.tickets[t].run = db.tickets[t].run /\ db'.tickets[t].consumed
    <3>1. t \in DOMAIN db.tickets
      BY <2>1 DEF TicketAdmits
    <3>2. PICK row \in PassRows :
             /\ row.run = db.tickets[t].run /\ row.consumed = TRUE
             /\ db'.tickets = Put(db.tickets, t, row)
      BY <2>1
    <3> QED BY <3>1, <3>2 DEF Put
  <2>4. Linked' /\ Graded' /\ Archived'
    BY <1>0, <2>2, <2>3 DEF Linked, Graded, Archived
  <2>5. opened[t] = 0
    BY <1>0, <2>1 DEF Counted, TicketAdmits
  <2>6. Counted'
    BY <1>0, <2>1, <2>3, <2>5 DEF Counted
  <2>7. opened' \in [Passes -> Nat]
    BY <1>0, <2>1
  <2> QED BY <2>1, <2>2, <2>4, <2>6, <2>7, OthersUntouched
<1> QED BY <1>2, <1>3, <1>4, <1>5, <1>6, RunCallKinds

LEMMA BootKeepsInv == RepositoryInv /\ Boot => RepositoryInv'
<1> SUFFICES ASSUME RepositoryInv, Boot PROVE RepositoryInv'
  OBVIOUS
<1>0. /\ RepositoryTypeOK /\ IsDatabase(db) /\ IsDatabase(aim) /\ Named(db.users)
      /\ Linked /\ Counted /\ Graded /\ Archived /\ HeldLabsStayDown /\ Underway
  BY DEF RepositoryInv, RepositoryTypeOK
<1>n. now \in Nat /\ at \in Nat /\ at <= Len(Script)
  BY <1>0, Calendar, ScriptIsWellFormed DEF RepositoryTypeOK
<1>1. ASSUME BootStatement PROVE RepositoryInv'
  <2> DEFINE st == Script[at + 1]
             e == Executed(st, db, now)
  <2>1. /\ ~up /\ at < Len(Script) /\ db' = e /\ at' = at + 1
        /\ UNCHANGED <<up, now, opened, aim, stops>>
    BY <1>1 DEF BootStatement
  <2>2. /\ at + 1 \in 1 .. Len(Script) /\ Len(Script) \in Nat
        /\ IsStatement(st)
        /\ \A i \in 1 .. at : i \in 1 .. Len(Script) /\ IsStatement(Script[i])
                              /\ Script[i][1] # "optin"
    BY <1>n, <2>1, ScriptIsWellFormed
  <2> HIDE DEF st
  <2>3. /\ IsDatabase(e) /\ e.runs = RunsAfter(st, db.runs)
        /\ e.labs = LabsAfter(st, db.labs)
        /\ e.results = ResultsAfter(st, db.results)
        /\ e.events = db.events /\ e.tickets = db.tickets
    BY <1>0, <1>n, <2>2, ExecutedTables
  <2>4. Booted(e, now) = Booted(db, now) /\ Named(e.users)
    BY <1>0, <1>n, <2>2, BootAbsorbs
  <2>5. Holds(st, e, now)
    BY <1>0, <1>n, <2>2, StatementHolds
  <2>6. ASSUME NEW i \in 1 .. at PROVE Holds(Script[i], e, now)
    <3>1. Holds(Script[i], db, now)
      BY <1>0, <2>1 DEF Underway
    <3> QED BY <1>0, <1>n, <2>2, <3>1, StatementKeeps
  <2> HIDE DEF e
  <2>7. RepositoryTypeOK'
    BY <1>0, <1>n, <2>1, <2>2, <2>3 DEF RepositoryTypeOK
  <2>8. /\ DOMAIN db.runs \subseteq DOMAIN db'.runs
        /\ \A r \in NewRuns : /\ r \in DOMAIN db'.runs => r \in DOMAIN db.runs
                              /\ r \in DOMAIN db.runs => db'.runs[r] = db.runs[r]
        /\ \A r \in Fixtures \cap DOMAIN db'.runs : db'.runs[r].status = "stopped"
    <3>1. CASE st[1] = "capability"
      <4>1. db'.runs = RunsSeeded(db.runs)
        BY <2>1, <2>3, <3>1 DEF RunsAfter
      <4> QED BY <4>1, NewRunsAreNew DEF RunsSeeded
    <3>2. CASE st[1] # "capability"
      BY <1>0, <2>1, <2>3, <3>2 DEF RunsAfter, Archived
    <3> QED BY <3>1, <3>2
  <2>9. \A r \in NewRuns : db'.results[r] = db.results[r]
    BY <2>1, <2>3, NewRunsAreNew DEF ResultsAfter, ResultsSeeded
  <2>10. \A l \in DOMAIN db'.labs \ Cohorts :
            l \in DOMAIN db.labs /\ db'.labs[l] = db.labs[l]
    BY <2>1, <2>3 DEF LabsAfter, LabsSeeded
  <2>11. Linked' /\ Counted' /\ Graded' /\ Archived'
    BY <1>0, <2>1, <2>3, <2>8, <2>9 DEF Linked, Counted, Graded, Archived
  <2>12. HeldLabsStayDown'
    BY <1>0, <2>10 DEF HeldLabsStayDown
  <2>13. Underway'
    <3>1. aim' = Booted(db', now')
      BY <1>0, <2>1, <2>4 DEF Underway
    <3>2. ASSUME NEW i \in 1 .. at' PROVE Holds(Script[i], db', now')
      <4>1. CASE i \in 1 .. at
        BY <2>1, <2>6, <4>1
      <4>2. CASE i = at + 1
        BY <2>1, <2>5, <4>2 DEF st
      <4> QED BY <1>n, <2>1, <4>1, <4>2
    <3> QED BY <3>1, <3>2 DEF Underway
  <2> QED BY <2>1, <2>4, <2>7, <2>11, <2>12, <2>13 DEF RepositoryInv
<1>2. ASSUME Listen PROVE RepositoryInv'
  <2>1. up' = TRUE /\ aim' = Empty /\ UNCHANGED <<db, at, now, opened, stops>>
    BY <1>2 DEF Listen
  <2>2. RepositoryTypeOK'
    BY <1>0, <2>1, EmptyTyped DEF RepositoryTypeOK
  <2>3. /\ Named(db.users)' /\ Linked' /\ Counted' /\ Graded' /\ Archived'
        /\ HeldLabsStayDown' /\ Underway'
    BY <1>0, <2>1 DEF Linked, Counted, Graded, Archived, HeldLabsStayDown, Underway
  <2> QED BY <2>2, <2>3 DEF RepositoryInv
<1>3. ASSUME Stop PROVE RepositoryInv'
  <2>1. /\ stops < MaxStops /\ stops' = stops + 1 /\ up' = FALSE /\ at' = 0
        /\ aim' = IF up THEN Booted(db, now) ELSE aim
        /\ UNCHANGED <<db, now, opened>>
    BY <1>3 DEF Stop
  <2>2. aim' = Booted(db, now)
    BY <1>0, <2>1 DEF Underway
  <2>3. RepositoryTypeOK'
    <3>1. IsDatabase(aim')
      BY <1>0, <1>n, <2>2, BootedTables
    <3>2. stops' \in 0 .. MaxStops /\ at' \in 0 .. Len(Script)
      BY <1>0, <2>1, Calendar, ScriptIsWellFormed DEF RepositoryTypeOK
    <3> QED BY <1>0, <2>1, <3>1, <3>2 DEF RepositoryTypeOK
  <2>4. /\ Named(db.users)' /\ Linked' /\ Counted' /\ Graded' /\ Archived'
        /\ HeldLabsStayDown'
    BY <1>0, <2>1 DEF Linked, Counted, Graded, Archived, HeldLabsStayDown
  <2>5. Underway'
    BY <2>1, <2>2 DEF Underway
  <2> QED BY <2>3, <2>4, <2>5 DEF RepositoryInv
<1>4. ASSUME DayPasses PROVE RepositoryInv'
  <2>1. up /\ now < MaxDay /\ now' = now + 1
        /\ UNCHANGED <<db, at, up, opened, aim, stops>>
    BY <1>4 DEF DayPasses
  <2>2. RepositoryTypeOK'
    BY <1>0, <2>1, Calendar DEF RepositoryTypeOK
  <2>3. /\ Named(db.users)' /\ Linked' /\ Counted' /\ Graded' /\ Archived'
        /\ HeldLabsStayDown' /\ Underway'
    BY <1>0, <2>1 DEF Linked, Counted, Graded, Archived, HeldLabsStayDown, Underway
  <2> QED BY <2>2, <2>3 DEF RepositoryInv
<1> QED BY <1>1, <1>2, <1>3, <1>4 DEF Boot

LEMMA StepInv == RepositoryInv /\ [RepositoryNext]_repositoryVars => RepositoryInv'
<1> SUFFICES ASSUME RepositoryInv, [RepositoryNext]_repositoryVars
             PROVE  RepositoryInv'
  OBVIOUS
<1>0. IsDatabase(db) /\ Named(db.users) /\ Held(db.labs)
  BY DEF RepositoryInv, RepositoryTypeOK, HeldLabsStayDown, Held
<1>1. ASSUME NEW S \in {{"users", "members"}, {"orgs", "members"}, {"seasons"}, {"labs"}},
             SameBut(db', db, S)
      PROVE  /\ SameBut(db', db, {"users", "orgs", "members", "labs", "seasons"})
             /\ "users" \notin S => db'.users = db.users
             /\ "labs" \notin S => db'.labs = db.labs
  BY <1>1 DEF SameBut, Tables
<1>2. CASE AccountCalls
  <2>1. /\ IsDatabase(db') /\ SameBut(db', db, {"users", "members"})
        /\ Named(db'.users) /\ UNCHANGED <<around, opened>> /\ up
    BY <1>0, <1>2, AccountCallTables
  <2>2. /\ SameBut(db', db, {"users", "orgs", "members", "labs", "seasons"})
        /\ Held(db'.labs)
    BY <1>0, <1>1, <2>1
  <2> QED BY <2>1, <2>2, RunsUntouched
<1>3. CASE OrganizationCalls
  <2>1. /\ IsDatabase(db') /\ SameBut(db', db, {"orgs", "members"})
        /\ UNCHANGED <<around, opened>> /\ up
    BY <1>0, <1>3, OrganizationCallTables
  <2>2. /\ SameBut(db', db, {"users", "orgs", "members", "labs", "seasons"})
        /\ Held(db'.labs) /\ Named(db'.users)
    BY <1>0, <1>1, <2>1
  <2> QED BY <2>1, <2>2, RunsUntouched
<1>4. CASE SeasonCalls
  <2>1. /\ IsDatabase(db') /\ SameBut(db', db, {"seasons"})
        /\ UNCHANGED <<around, opened>> /\ up
    BY <1>0, <1>4, SeasonCallTables
  <2>2. /\ SameBut(db', db, {"users", "orgs", "members", "labs", "seasons"})
        /\ Held(db'.labs) /\ Named(db'.users)
    BY <1>0, <1>1, <2>1
  <2> QED BY <2>1, <2>2, RunsUntouched
<1>5. CASE LabCalls
  <2>1. /\ IsDatabase(db') /\ SameBut(db', db, {"labs"}) /\ Held(db'.labs)
        /\ UNCHANGED <<around, opened>> /\ up
    BY <1>0, <1>5, LabCallTables
  <2>2. /\ SameBut(db', db, {"users", "orgs", "members", "labs", "seasons"})
        /\ Named(db'.users)
    BY <1>0, <1>1, <2>1
  <2> QED BY <2>1, <2>2, RunsUntouched
<1>6. CASE RunCalls
  BY <1>6, RunCallsKeepInv
<1>7. CASE Boot
  BY <1>7, BootKeepsInv
<1>8. CASE UNCHANGED repositoryVars
  <2>1. UNCHANGED <<db, at, up, now, opened, aim, stops>>
    BY <1>8 DEF repositoryVars
  <2>2. RepositoryTypeOK'
    BY <2>1 DEF RepositoryInv, RepositoryTypeOK
  <2> QED BY <2>1, <2>2 DEF RepositoryInv, Linked, Counted, Graded, Archived,
             HeldLabsStayDown, Underway
<1> QED BY <1>2, <1>3, <1>4, <1>5, <1>6, <1>7, <1>8 DEF RepositoryNext

-----------------------------------------------------------------------------
(* The theorems.                                                           *)

\* What the proofs below rest on holds from the first boot on.
THEOREM RepositoryInvariant == RepositorySpec => []RepositoryInv
BY InitInv, StepInv, PTL DEF RepositorySpec

\* Every row of every table has the columns and the values its table has,
\* through every call, every boot and every stop.
THEOREM RepositoryTypes == RepositorySpec => []RepositoryTypeOK
<1>1. RepositoryInv => RepositoryTypeOK
  BY DEF RepositoryInv
<1> QED BY RepositoryInvariant, <1>1, PTL

\* Validated, quarantineLab and releaseLabQuarantine: no verdict and no boot
\* takes up a lab that an administrator holds.
THEOREM HoldsStay == RepositorySpec => []HeldLabsStayDown
<1>1. RepositoryInv => HeldLabsStayDown
  BY DEF RepositoryInv
<1> QED BY RepositoryInvariant, <1>1, PTL

\* demo-seed.ts, seedDemoData: a boot that is cut off anywhere, any number of
\* times, comes to what it would have come to.
THEOREM BootsSettle == RepositorySpec => []BootSettles
<1>1. ASSUME RepositoryInv PROVE BootSettles
  <2> SUFFICES ASSUME ~up, at = Len(Script) PROVE db = aim
    BY DEF BootSettles
  <2>1. /\ aim = Booted(db, now)
        /\ \A i \in 1 .. Len(Script) : Holds(Script[i], db, now)
    BY <1>1 DEF RepositoryInv, Underway
  <2>2. IsDatabase(db) /\ Named(db.users) /\ now \in Nat
    BY <1>1, Calendar DEF RepositoryInv, RepositoryTypeOK
  <2>3. Complete(db, now)
    BY <2>1, ScriptIsComplete
  <2> QED BY <2>1, <2>2, <2>3, CompleteIsBooted
<1> QED BY RepositoryInvariant, <1>1, PTL

-----------------------------------------------------------------------------
(* The contract.                                                           *)

\* What learners and gateways see of the tables.
Phase == [r \in NewRuns |-> IF r \in DOMAIN db.runs THEN db.runs[r].status
                            ELSE "none"]
Pass == [t \in Passes |->
            IF t \in DOMAIN db.tickets /\ db.tickets[t].run \in NewRuns
            THEN db.tickets[t].run ELSE NoPass]
Grades == [r \in NewRuns |-> db.events[r]]

\* The rows of fixtures are not seen.
LEMMA SeenAlike ==
    /\ (\A r \in NewRuns : /\ r \in DOMAIN db'.runs <=> r \in DOMAIN db.runs
                           /\ r \in DOMAIN db.runs => db'.runs[r] = db.runs[r])
         => Phase' = Phase
    /\ db'.runs = db.runs => Phase' = Phase
    /\ db'.tickets = db.tickets => Pass' = Pass
    /\ db'.events = db.events => Grades' = Grades
BY DEF Phase, Pass, Grades

LEMMA ContractStutters ==
    ASSUME Phase' = Phase, Pass' = Pass, Grades' = Grades, opened' = opened
    PROVE  UNCHANGED RunContracts!rvars
BY DEF RunContracts!rvars, Phase, Pass, Grades

LEMMA ContractBegins == RepositoryInit => RunContracts!Init
<1> SUFFICES ASSUME RepositoryInit PROVE RunContracts!Init
  OBVIOUS
<1>1. /\ db.runs = None /\ db.tickets = None
      /\ db.events = [r \in RunIds |-> 0] /\ opened = [t \in Passes |-> 0]
  <2>1. CASE db = Empty
    BY <2>1 DEF Empty, RepositoryInit
  <2>2. CASE db = Legacy
    BY <2>2, LegacyTyped DEF SameBut, Tables, Empty, RepositoryInit
  <2> QED BY <2>1, <2>2 DEF RepositoryInit
<1>2. /\ Phase = [r \in NewRuns |-> "none"] /\ Pass = [t \in Passes |-> NoPass]
      /\ Grades = [r \in NewRuns |-> 0]
  BY <1>1 DEF Phase, Pass, Grades, None, RunIds
<1> QED BY <1>1, <1>2 DEF RunContracts!Init, Phase, Pass, Grades

LEMMA RunCallsKeepContract ==
    RepositoryInv /\ RunCalls => [RunContracts!Next]_(RunContracts!rvars)
<1> SUFFICES ASSUME RepositoryInv, RunCalls
             PROVE  [RunContracts!Next]_(RunContracts!rvars)
  OBVIOUS
<1>0. /\ IsDatabase(db) /\ opened \in [Passes -> Nat]
      /\ Linked /\ Counted /\ Graded /\ Archived
      /\ IsTable(db.runs, RunIds, RunRows) /\ IsTable(db.tickets, Passes, PassRows)
      /\ db.results \in [RunIds -> Nat] /\ db.events \in [RunIds -> Nat]
  BY TablesTyped DEF RepositoryInv, RepositoryTypeOK
<1>1. ASSUME SameBut(db', db, {"runs"}), UNCHANGED opened
      PROVE  Pass' = Pass /\ Grades' = Grades /\ opened' = opened
  <2>1. db'.tickets = db.tickets /\ db'.events = db.events
    BY <1>1 DEF SameBut, Tables
  <2> QED BY <1>1, <2>1, SeenAlike
<1>2. ASSUME SameBut(db', db, {"tickets"})
      PROVE  Phase' = Phase /\ Grades' = Grades
  <2>1. db'.runs = db.runs /\ db'.events = db.events
    BY <1>2 DEF SameBut, Tables
  <2> QED BY <2>1, SeenAlike
<1>3. ASSUME NEW r \in NewRuns, CreatesRun(r) PROVE RunContracts!Next
  <2>1. PICK row \in RunRows :
             /\ row.status \in {"provisioning", "ready"} /\ r \notin DOMAIN db.runs
             /\ IsDatabase(db') /\ SameBut(db', db, {"runs"})
             /\ db'.runs = Put(db.runs, r, row)
             /\ UNCHANGED <<around, opened>> /\ up
    BY <1>0, <1>3, RunCreated
  <2>2. Phase[r] = "none" /\ Phase' = [Phase EXCEPT ![r] = row.status]
    BY <2>1 DEF Phase, Put
  <2>3. RunContracts!Launch(r)
    BY <1>1, <2>1, <2>2 DEF RunContracts!Launch, Phase, Pass, Grades
  <2> QED BY <2>3 DEF RunContracts!Next
<1>4. ASSUME NEW r \in RunIds, SettlesRun(r) \/ EndsRun(r)
      PROVE  RunContracts!Next
  <2>1. /\ r \in DOMAIN db.runs
        /\ \E row \in RunRows :
             /\ \/ /\ db.runs[r].status = "provisioning"
                   /\ row.status \in {"ready", "failed"}
                \/ /\ db.runs[r].status \notin {"stopped", "expired"}
                   /\ row.status \in {"stopped", "expired"}
             /\ IsDatabase(db') /\ SameBut(db', db, {"runs"})
             /\ db'.runs = Put(db.runs, r, row)
             /\ UNCHANGED <<around, opened>> /\ up
    BY <1>0, <1>4, RunMoved
  <2>2. PICK row \in RunRows :
             /\ \/ /\ db.runs[r].status = "provisioning"
                   /\ row.status \in {"ready", "failed"}
                \/ /\ db.runs[r].status \notin {"stopped", "expired"}
                   /\ row.status \in {"stopped", "expired"}
             /\ IsDatabase(db') /\ SameBut(db', db, {"runs"})
             /\ db'.runs = Put(db.runs, r, row)
             /\ UNCHANGED <<around, opened>> /\ up
    BY <2>1
  <2>3. r \in NewRuns
    BY <1>0, <2>1, <2>2, NewRunsAreNew DEF Archived
  <2>4. /\ Phase[r] = db.runs[r].status
        /\ Phase' = [Phase EXCEPT ![r] = row.status]
    BY <2>1, <2>2, <2>3 DEF Phase, Put
  <2>5. db.runs[r].status \in {"provisioning", "ready", "failed", "stopped", "expired"}
    BY <1>0, <2>1 DEF IsTable, RunRows
  <2>6. CASE row.status \in {"ready", "failed"}
    <3>1. RunContracts!Settle(r)
      BY <1>1, <2>2, <2>4, <2>6 DEF RunContracts!Settle, Phase, Pass, Grades
    <3> QED BY <2>3, <3>1 DEF RunContracts!Next
  <2>7. CASE row.status \in {"stopped", "expired"}
    <3>1. Phase[r] \in RunContracts!Open
      BY <2>2, <2>4, <2>5, <2>7 DEF RunContracts!Open
    <3>2. RunContracts!End(r)
      BY <1>1, <2>2, <2>4, <2>7, <3>1 DEF RunContracts!End, Phase, Pass, Grades
    <3> QED BY <2>3, <3>2 DEF RunContracts!Next
  <2> QED BY <2>2, <2>6, <2>7
<1>5. ASSUME NEW r \in RunIds, saveChallengeResult(r)
      PROVE  [RunContracts!Next]_(RunContracts!rvars)
  <2>1. /\ SameBut(db', db, {"results", "events"})
        /\ db'.events = [db.events EXCEPT ![r] = @ + 1]
        /\ db.results[r] = 0 /\ r \in DOMAIN db.runs
        /\ UNCHANGED opened
    BY <1>0, <1>5, ResultIsSaved
  <2>2. db'.runs = db.runs /\ db'.tickets = db.tickets
    BY <2>1 DEF SameBut, Tables
  <2>3. Phase' = Phase /\ Pass' = Pass
    BY <2>2, SeenAlike
  <2>4. CASE r \in NewRuns
    <3>1. db.events[r] = 0
      BY <1>0, <2>1, <2>4 DEF Graded
    <3>2. Grades[r] = 0 /\ Grades' = [Grades EXCEPT ![r] = 1]
      <4>1. DOMAIN db.events = RunIds /\ \A x \in NewRuns : x \in RunIds
        BY <1>0, NewRunsAreNew
      <4>2. db'.events[r] = 1
        BY <1>0, <2>1, <3>1
      <4>3. \A x \in NewRuns \ {r} : db'.events[x] = db.events[x]
        BY <2>1, <4>1
      <4> QED BY <2>4, <3>1, <4>2, <4>3 DEF Grades
    <3>3. Phase[r] # "none"
      BY <1>0, <2>1, <2>4 DEF Phase, IsTable, RunRows
    <3>4. RunContracts!Grade(r)
      BY <2>1, <2>3, <3>2, <3>3 DEF RunContracts!Grade, Phase, Pass, Grades
    <3> QED BY <2>4, <3>4 DEF RunContracts!Next
  <2>5. CASE r \notin NewRuns
    <3>1. Grades' = Grades
      BY <1>0, <2>1, <2>5, NewRunsAreNew DEF Grades
    <3> QED BY <2>1, <2>3, <3>1, ContractStutters
  <2> QED BY <2>4, <2>5
<1>6. ASSUME NEW r \in RunIds, NEW t \in Passes, createAccessTicket(t, r)
      PROVE  [RunContracts!Next]_(RunContracts!rvars)
  <2>1. /\ t \notin DOMAIN db.tickets /\ r \in DOMAIN db.runs
        /\ IsDatabase(db') /\ SameBut(db', db, {"tickets"})
        /\ db'.tickets = Put(db.tickets, t, [run |-> r, consumed |-> FALSE])
        /\ UNCHANGED <<around, opened>> /\ up
    BY <1>0, <1>6, TicketCreated
  <2>2. CASE r \in NewRuns
    <3>1. Pass[t] = NoPass /\ Pass' = [Pass EXCEPT ![t] = r]
      <4>1. /\ DOMAIN db'.tickets = DOMAIN db.tickets \cup {t}
            /\ db'.tickets[t] = [run |-> r, consumed |-> FALSE]
            /\ \A x \in DOMAIN db.tickets : db'.tickets[x] = db.tickets[x]
        BY <2>1 DEF Put
      <4>2. db'.tickets[t].run = r
        BY <4>1
      <4> QED BY <2>1, <2>2, <4>1, <4>2 DEF Pass
    <3>2. Phase[r] # "none"
      BY <1>0, <2>1, <2>2 DEF Phase, IsTable, RunRows
    <3>3. RunContracts!Issue(t, r)
      BY <1>2, <2>1, <3>1, <3>2 DEF RunContracts!Issue, Phase, Pass, Grades
    <3> QED BY <2>2, <3>3 DEF RunContracts!Next
  <2>3. CASE r \notin NewRuns
    <3>1. Pass' = Pass
      BY <2>1, <2>3 DEF Pass, Put
    <3> QED BY <1>2, <2>1, <3>1, ContractStutters
  <2> QED BY <2>2, <2>3
<1>7. ASSUME NEW t \in Passes, consumeAccessTicket(t) PROVE RunContracts!Next
  <2>1. /\ TicketAdmits(t) /\ opened' = [opened EXCEPT ![t] = @ + 1]
        /\ SameBut(db', db, {"tickets"})
        /\ \E row \in PassRows :
             /\ row.run = db.tickets[t].run /\ row.consumed = TRUE
             /\ db'.tickets = Put(db.tickets, t, row)
    BY <1>0, <1>7, TicketConsumed
  <2>2. /\ t \in DOMAIN db.tickets /\ db.tickets[t].run \in DOMAIN db.runs
        /\ ~db.tickets[t].consumed /\ db.runs[db.tickets[t].run].status = "ready"
    BY <1>0, <2>1 DEF TicketAdmits, Linked
  <2>3. db.tickets[t].run \in NewRuns
    BY <1>0, <2>2, NewRunsAreNew DEF Archived, IsTable
  <2>4. Pass' = Pass
    <3>1. PICK row \in PassRows :
             /\ row.run = db.tickets[t].run /\ row.consumed = TRUE
             /\ db'.tickets = Put(db.tickets, t, row)
      BY <2>1
    <3> QED BY <2>2, <3>1 DEF Pass, Put
  <2>5. /\ Pass[t] = db.tickets[t].run /\ Pass[t] # NoPass
        /\ Phase[Pass[t]] = "ready"
    BY <2>2, <2>3, IdentifiersAreFresh DEF Phase, Pass, RunIds
  <2>6. opened[t] = 0 /\ opened' = [opened EXCEPT ![t] = 1]
    <3>1. opened[t] = 0
      BY <1>0, <2>2 DEF Counted
    <3> QED BY <1>0, <2>1, <3>1
  <2>7. Phase' = Phase /\ Grades' = Grades
    BY <1>2, <2>1
  <2>8. RunContracts!Enter(t)
    BY <2>4, <2>5, <2>6, <2>7 DEF RunContracts!Enter, Phase, Pass, Grades
  <2> QED BY <2>8 DEF RunContracts!Next
<1> QED BY <1>3, <1>4, <1>5, <1>6, <1>7, RunCallKinds

LEMMA BootKeepsContract ==
    RepositoryInv /\ Boot => UNCHANGED RunContracts!rvars
<1> SUFFICES ASSUME RepositoryInv, Boot PROVE UNCHANGED RunContracts!rvars
  OBVIOUS
<1>1. CASE BootStatement
  <2> DEFINE st == Script[at + 1]
             e == Executed(st, db, now)
  <2>1. at < Len(Script) /\ db' = e /\ opened' = opened
    BY <1>1 DEF BootStatement
  <2>2. IsDatabase(db) /\ now \in Nat /\ IsStatement(st)
    BY <2>1, Calendar, ScriptIsWellFormed DEF RepositoryInv, RepositoryTypeOK
  <2> HIDE DEF st
  <2>3. /\ e.runs = RunsAfter(st, db.runs)
        /\ e.events = db.events /\ e.tickets = db.tickets
    BY <2>2, ExecutedTables
  <2> HIDE DEF e
  <2>4. \A r \in NewRuns : /\ r \in DOMAIN db'.runs <=> r \in DOMAIN db.runs
                           /\ r \in DOMAIN db.runs => db'.runs[r] = db.runs[r]
    BY <2>1, <2>3, NewRunsAreNew DEF RunsAfter, RunsSeeded
  <2>5. Phase' = Phase /\ Pass' = Pass /\ Grades' = Grades
    BY <2>1, <2>3, <2>4, SeenAlike
  <2> QED BY <2>1, <2>5, ContractStutters
<1>2. CASE Listen \/ Stop \/ DayPasses
  <2>1. db' = db /\ opened' = opened
    BY <1>2 DEF Listen, Stop, DayPasses
  <2> QED BY <2>1, SeenAlike, ContractStutters
<1> QED BY <1>1, <1>2 DEF Boot

\* updateRunReadiness, markRunExpired, markRunStopped, consumeAccessTicket and
\* saveChallengeResult, over tables that boots repair and seed: every method,
\* statement and stop is one step of RunContract or none.
THEOREM RepositoryKeepsContract ==
    RepositorySpec => RepositoryImplementsContract
<1>1. RepositoryInv /\ [RepositoryNext]_repositoryVars
        => [RunContracts!Next]_(RunContracts!rvars)
  <2> SUFFICES ASSUME RepositoryInv, [RepositoryNext]_repositoryVars
               PROVE  [RunContracts!Next]_(RunContracts!rvars)
    OBVIOUS
  <2>0. IsDatabase(db) /\ Named(db.users) /\ Held(db.labs)
    BY DEF RepositoryInv, RepositoryTypeOK, HeldLabsStayDown, Held
  <2>1. ASSUME NEW S \in {{"users", "members"}, {"orgs", "members"}, {"seasons"},
                          {"labs"}},
               SameBut(db', db, S), opened' = opened
        PROVE  UNCHANGED RunContracts!rvars
    <3>1. /\ db'.runs = db.runs /\ db'.tickets = db.tickets
          /\ db'.events = db.events
      BY <2>1 DEF SameBut, Tables
    <3> QED BY <2>1, <3>1, SeenAlike, ContractStutters
  <2>2. CASE AccountCalls
    <3>1. SameBut(db', db, {"users", "members"}) /\ opened' = opened
      BY <2>0, <2>2, AccountCallTables
    <3> QED BY <2>1, <3>1
  <2>3. CASE OrganizationCalls
    <3>1. SameBut(db', db, {"orgs", "members"}) /\ opened' = opened
      BY <2>0, <2>3, OrganizationCallTables
    <3> QED BY <2>1, <3>1
  <2>4. CASE SeasonCalls
    <3>1. SameBut(db', db, {"seasons"}) /\ opened' = opened
      BY <2>0, <2>4, SeasonCallTables
    <3> QED BY <2>1, <3>1
  <2>5. CASE LabCalls
    <3>1. SameBut(db', db, {"labs"}) /\ opened' = opened
      BY <2>0, <2>5, LabCallTables
    <3> QED BY <2>1, <3>1
  <2>6. CASE RunCalls
    BY <2>6, RunCallsKeepContract
  <2>7. CASE Boot
    BY <2>7, BootKeepsContract
  <2>8. CASE UNCHANGED repositoryVars
    <3>1. db' = db /\ opened' = opened
      BY <2>8 DEF repositoryVars
    <3> QED BY <3>1, SeenAlike, ContractStutters
  <2> QED BY <2>2, <2>3, <2>4, <2>5, <2>6, <2>7, <2>8 DEF RepositoryNext
<1> QED BY ContractBegins, RepositoryInvariant, <1>1, PTL
        DEF RepositorySpec, RepositoryImplementsContract, RunContracts!Spec
=============================================================================
