------------------------------ MODULE Standings -----------------------------
(* Reports and rankings (packages/reporting and the routes of the API that *)
(* feed it): graded results, the people and organizations they count for,  *)
(* the season in force, and what a board, a viewer's summary and the       *)
(* reports make of them.  Time is in days; shares and factors are          *)
(* fractions of integers, rounded as Math.round does.                      *)
EXTENDS Integers, FiniteSets, FiniteSetsExt, SequencesExt

CONSTANTS
    Learners,     \* users, in the order of their handles: a sequence
    Orgs,         \* organizations, in the order of their names: a sequence
    Works,        \* what may be graded: [points, skill, level, used, hints]
    Ttl,          \* lifetime of a run, in the unit of Works' field used
    Weekly,       \* days of the rolling period
    SeasonSpan,   \* [start, end] of the season an administrator creates
    MaxResults,   \* bound on graded results
    Today,        \* bound on the clock, in days
    InOrg,        \* InOrg[u]: the organization u starts in, or Nobody
    Shy,          \* users and organizations that may opt in and out
    Nobody        \* no user, no organization, no season, no domain

ASSUME OneHandleEach == /\ Learners \in Seq(Range(Learners)) /\ IsInjective(Learners)
                        /\ Orgs \in Seq(Range(Orgs)) /\ IsInjective(Orgs)
ASSUME FullMarks == \A w \in Works : w.points \in 0..100 /\ w.used \in Nat /\ w.hints \in 0..20
ASSUME KnownLevels == \A w \in Works : w.level \in {"beginner", "intermediate", "advanced", "expert"}
ASSUME RunsHaveTime == Ttl \in Nat \ {0} /\ Today \in Nat \ {0} /\ MaxResults \in Nat
ASSUME EverybodyStarts == InOrg \in [Range(Learners) -> Range(Orgs) \cup {Nobody}]
                          /\ Shy \subseteq Range(Learners) \cup Range(Orgs)

VARIABLES
    day,
    graded,   \* sequence of results: [user, on, work]
    member,   \* member[u]: the organization of u, or Nobody
    shown,    \* users and organizations that opted in
    season    \* the active season, or Nobody

standingsVars == <<day, graded, member, shown, season>>

Everybody == Range(Learners)
Organizations == Range(Orgs)
\* The skill a grader credits for a type of question, and the domains a board
\* may be asked for.
SkillFor == [elk_search |-> "elk_investigation", mitre_attack |-> "attack_mapping",
             single_choice |-> "red_team_execution", multiple_choice |-> "red_team_execution",
             free_text |-> "analysis"]
RankingDomains ==
    [vulnerability |-> {"web_exploitation", "exploit_analysis", "privilege_escalation"},
     detection |-> {"log_analysis", "mitre_attack"}, response |-> {"incident_response"}]
Levels == [beginner |-> 100, intermediate |-> 250, advanced |-> 500, expert |-> 500]

StandingsTypeOK ==
    /\ day \in 1..Today /\ shown \subseteq Everybody \cup Organizations
    /\ member \in [Everybody -> Organizations \cup {Nobody}]
    /\ season \in {Nobody, SeasonSpan} /\ Len(graded) <= MaxResults
    /\ \A i \in DOMAIN graded : /\ graded[i].user \in Everybody /\ graded[i].on \in 1..day
                                /\ graded[i].work \in Works

StandingsInit ==
    /\ day = 1 /\ graded = <<>> /\ season = Nobody /\ member = InOrg
    /\ shown = (Everybody \cup Organizations) \ Shy

-----------------------------------------------------------------------------
(* Points.                                                                 *)

Rounded(part, whole) == (2 * part + whole) \div (2 * whole)
Percent(part, whole) == IF whole <= 0 THEN 0 ELSE Max({0, Min({100, Rounded(100 * part, whole)})})

Skilled(work, skills) == skills = Nobody \/ work.skill \in skills
\* Points and full marks of a result once a domain is asked for.
PointsOf(work, skills) == IF Skilled(work, skills) THEN work.points ELSE 0
FullOf(work, skills) == IF Skilled(work, skills) THEN 100 ELSE 0

\* Per cent of the base points: up to 20 more for a fast run, up to 20 less
\* for hints.  The first factor has Ttl as its denominator.
TimeFactor(work) == 100 * Ttl + Max({0, Min({20 * Ttl, 40 * (Ttl - work.used)})})
HintFactor(work) == 100 - Min({20, 4 * work.hints})
SeasonScore(work, skills) ==
    IF FullOf(work, skills) = 0 THEN 0
    ELSE Rounded(Levels[work.level] * PointsOf(work, skills) * TimeFactor(work) * HintFactor(work),
                 100 * Ttl * 100 * 100)

Within(window, moment) == window.start <= moment /\ moment < window.end
ResultsOf(u, window) ==
    {i \in DOMAIN graded : graded[i].user = u /\ Within(window, graded[i].on)}
ScoreOf(u, window, skills) ==
    SumFunctionOnSet([i \in DOMAIN graded |-> SeasonScore(graded[i].work, skills)],
                     ResultsOf(u, window))
AccuracyOf(results, skills) ==
    Percent(SumFunctionOnSet([i \in DOMAIN graded |-> PointsOf(graded[i].work, skills)], results),
            SumFunctionOnSet([i \in DOMAIN graded |-> FullOf(graded[i].work, skills)], results))

-----------------------------------------------------------------------------
(* Boards.                                                                 *)

Earlier(window) == [start |-> 2 * window.start - window.end, end |-> window.start]
Always == [start |-> 0, end |-> day + 1]
\* A season, while there is one, takes the place of the rolling period, whose
\* end is the present moment: what is graded today falls into it.
PeriodWindow(period) ==
    IF season # Nobody THEN season
    ELSE IF period = "all_time" THEN Always
    ELSE [start |-> day + 1 - Weekly, end |-> day + 1]
PreviousWindow(period) ==
    IF season = Nobody /\ period = "all_time" THEN [start |-> 0, end |-> 0]
    ELSE Earlier(PeriodWindow(period))

Eligible(scope, organization) ==
    IF scope = "global" THEN Everybody \cap shown
                        ELSE {u \in Everybody : member[u] = organization}

Place(items, item) == CHOOSE i \in DOMAIN items : items[i] = item
\* A table in order: in place i is the row that i - 1 others come before.
Ordered(rows, Before(_, _)) ==
    [i \in 1..Cardinality(rows) |->
       CHOOSE r \in rows : Cardinality({s \in rows : Before(s, r)}) = i - 1]

RowOf(u, window, skills) ==
    [user |-> u, points |-> ScoreOf(u, window, skills),
     labs |-> Cardinality(ResultsOf(u, window)),
     accuracy |-> AccuracyOf(ResultsOf(u, window), skills)]
Ahead(a, b) ==
    \/ a.points > b.points
    \/ a.points = b.points /\ a.labs > b.labs
    \/ a.points = b.points /\ a.labs = b.labs
         /\ Place(Learners, a.user) < Place(Learners, b.user)
Ranked(users, window, skills) ==
    Ordered({r \in {RowOf(u, window, skills) : u \in users} : r.points > 0}, Ahead)
\* Defect: the rank is the place in the order.
RankByPlace(rows, i) == i

\* Equal points share the rank of the first of them.
RankAt(rows, i) == Min({j \in DOMAIN rows : rows[j].points = rows[i].points})

RankIn(rows, u) ==
    IF \E i \in DOMAIN rows : rows[i].user = u
      THEN RankAt(rows, CHOOSE i \in DOMAIN rows : rows[i].user = u) ELSE Nobody
Board(users, period, skills) ==
    LET rows == Ranked(users, PeriodWindow(period), skills)
        before == Ranked(users, PreviousWindow(period), skills)
    IN  [i \in DOMAIN rows |->
           [row |-> rows[i], rank |-> RankAt(rows, i),
            change |-> LET old == RankIn(before, rows[i].user) IN
                         IF old = Nobody THEN 0 ELSE old - RankAt(rows, i)]]

\* What a viewer is told apart from the board.
ViewerSummary(u, board, period, skills) ==
    LET mine == ResultsOf(u, PeriodWindow(period)) IN
    [rank |-> IF \E i \in DOMAIN board : board[i].row.user = u
                THEN (CHOOSE e \in Range(board) : e.row.user = u).rank ELSE Nobody,
     points |-> ScoreOf(u, PeriodWindow(period), skills),
     delta |-> ScoreOf(u, PeriodWindow(period), skills)
                 - ScoreOf(u, PreviousWindow(period), skills),
     labs |-> Cardinality(mine), accuracy |-> AccuracyOf(mine, skills)]

Days(u) == {graded[i].on : i \in {j \in DOMAIN graded : graded[j].user = u}}
Streaks(days) == {s \in days \X days : s[1] <= s[2] /\ s[1]..s[2] \subseteq days}
LongestStreak(u) == Max({r[2] - r[1] + 1 : r \in Streaks(Days(u))} \cup {0})
CurrentStreak(u, at) ==
    LET last == IF at \in Days(u) THEN at ELSE at - 1 IN
    Max({r[2] - r[1] + 1 : r \in {x \in Streaks(Days(u)) : x[2] = last}} \cup {0})

\* Organizations that opted in and have attempts, by readiness in tenths.
Members(o) == {u \in Everybody : member[u] = o}
Readiness(o, window, skills) ==
    LET mine == UNION {ResultsOf(u, window) : u \in Members(o)} IN
    [org |-> o, attempts |-> Cardinality(mine),
     participation |-> Percent(Cardinality({graded[i].user : i \in mine}), Cardinality(Members(o))),
     readiness |-> 5 * AccuracyOf(mine, skills)
        + 3 * Percent(Cardinality({graded[i].user : i \in mine}), Cardinality(Members(o)))
        + 2 * Percent(Cardinality({i \in mine : graded[i].work.points > 0}), Cardinality(mine))]
Readier(a, b) ==
    \/ a.readiness > b.readiness
    \/ a.readiness = b.readiness /\ a.participation > b.participation
    \/ a.readiness = b.readiness /\ a.participation = b.participation
         /\ Place(Orgs, a.org) < Place(Orgs, b.org)
OrganizationBoard(window, skills) ==
    Ordered({r \in {Readiness(o, window, skills) : o \in Organizations \cap shown} :
                    r.attempts > 0}, Readier)

-----------------------------------------------------------------------------
(* Reports.                                                                *)

OverallScore(results) ==
    AccuracyOf(results, Nobody)
PersonalReport(u) ==
    LET mine == {i \in DOMAIN graded : graded[i].user = u} IN
    [score |-> OverallScore(mine), labs |-> Cardinality(mine),
     success |-> Percent(Cardinality({i \in mine : graded[i].work.points >= 70}), Cardinality(mine))]
OrganizationReport(o) ==
    LET theirs == {i \in DOMAIN graded : member[graded[i].user] = o} IN
    [members |-> Cardinality(Members(o)), score |-> OverallScore(theirs),
     active |-> Cardinality({u \in Members(o) : \E i \in theirs : graded[i].user = u})]
PlatformReport ==
    [users |-> Cardinality(Everybody), score |-> OverallScore(DOMAIN graded),
     orgs |-> [o \in Organizations |-> OrganizationReport(o).score]]

-----------------------------------------------------------------------------
(* Steps.                                                                  *)

CountResult(u, work) ==
    /\ Len(graded) < MaxResults
    /\ graded' = Append(graded, [user |-> u, on |-> day, work |-> work])
    /\ UNCHANGED <<day, member, shown, season>>

OptIn(who) ==
    /\ shown' = IF who \in shown THEN shown \ {who} ELSE shown \cup {who}
    /\ UNCHANGED <<day, graded, member, season>>

\* Results move with the member: the dataset joins them with today's membership.
LeaveOrganization(u) ==
    /\ member[u] # Nobody /\ member' = [member EXCEPT ![u] = Nobody]
    /\ UNCHANGED <<day, graded, shown, season>>

NextDay ==
    /\ day < Today /\ day' = day + 1
    /\ season' = IF Within(SeasonSpan, day + 1) THEN season ELSE Nobody
    /\ UNCHANGED <<graded, member, shown>>

StartSeason ==
    /\ season = Nobody /\ Within(SeasonSpan, day) /\ season' = SeasonSpan
    /\ UNCHANGED <<day, graded, member, shown>>

StandingsNext ==
    \/ \E u \in Everybody : (\E work \in Works : CountResult(u, work)) \/ LeaveOrganization(u)
    \/ \E who \in Shy : OptIn(who)
    \/ NextDay \/ StartSeason

StandingsSpec == StandingsInit /\ [][StandingsNext]_standingsVars

-----------------------------------------------------------------------------
Scopes == {<<"global", Nobody>>} \cup ({"organization"} \X Organizations)
Filters == {Nobody, RankingDomains.vulnerability}

\* Whatever was graded, whoever joined, left or opted in and whichever window
\* and domain are asked for: a rank is one more than the number of people with
\* more points, so ties share it; nobody is on a board that is not theirs; the
\* summary a viewer is shown beside the board says what the board says; and an
\* organization scores between the weakest and the strongest of its members.
BoardIsConsistent ==
    /\ \A s \in Scopes, period \in {"weekly", "all_time"}, skills \in Filters :
         LET board == Board(Eligible(s[1], s[2]), period, skills) IN
         \A e \in Range(board) :
           /\ e.rank = 1 + Cardinality({f \in Range(board) : f.row.points > e.row.points})
           /\ e.row.user \in Eligible(s[1], s[2])
           /\ LET told == ViewerSummary(e.row.user, board, period, skills) IN
                /\ told.rank = e.rank /\ told.points = e.row.points
                /\ told.labs = e.row.labs /\ told.accuracy = e.row.accuracy
    /\ \A u \in Everybody : CurrentStreak(u, day) <= LongestStreak(u)
    /\ \A skills \in Filters :
         \A r \in Range(OrganizationBoard(PeriodWindow("weekly"), skills)) :
           r.org \in shown /\ r.readiness \in 0..1000
    /\ \A o \in Organizations :
         LET scores == {PersonalReport(u).score : u \in {v \in Members(o) : PersonalReport(v).labs > 0}}
         IN  scores # {} => PlatformReport.orgs[o] \in Min(scores)..Max(scores)

\* Whoever has points on the board has points in one of its domains.
PointsHaveADomain ==
    \A u \in Everybody : ScoreOf(u, Always, Nobody) > 0 =>
        \E d \in DOMAIN RankingDomains : ScoreOf(u, Always, RankingDomains[d]) > 0
=============================================================================
