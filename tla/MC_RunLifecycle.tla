-------------------------- MODULE MC_RunLifecycle --------------------------
\* What keeps RunContract: requests, sweeps, gateways and restarts over
\* PostgreSQL in one part, the methods and boots of the SQLite repository in
\* the others, where accounts, organizations, labs, runs or seasons are
\* worked on.
EXTENDS RunLifecycle, DevelopmentRepository, TLC

CONSTANTS r1, u1, t1, k1, h1, h2, s1,
          boss, temp, guest, team, club, lab, fight, first, second, pass, code,
          someone
VARIABLE part

MC_Symmetry == Permutations({h1, h2})

MC_Orgs == <<team>>
MC_Fixtures == <<boss, temp>>
MC_HomeOf == [u \in {boss, temp} |->
                 [org |-> team, role |-> IF u = boss THEN "owner" ELSE "member"]]

StoreParts == {"accounts", "organizations", "labs", "runs", "seasons"}

\* The part that is not under way rests.
Idled == /\ db = Empty /\ at = 0 /\ up = FALSE /\ now = 0
         /\ opened = [t \in Passes |-> 0] /\ aim = Empty /\ stops = 0

RacesInit == /\ Init /\ part \in StoreParts \cup {"races"}
             /\ IF part = "races" THEN Idled ELSE RepositoryInit
RacesNext ==
    /\ UNCHANGED part
    /\ \/ part = "races" /\ Next /\ UNCHANGED repositoryVars
       \/ /\ part # "races" /\ UNCHANGED vars
          /\ \/ part = "accounts" /\ AccountCalls
             \/ part = "organizations" /\ OrganizationCalls
             \/ part = "labs" /\ LabCalls
             \/ part = "runs" /\ RunCalls
             \/ part = "seasons" /\ SeasonCalls
             \/ Boot /\ (now' # now => part = "seasons")
RacesSpec == RacesInit /\ [][RacesNext]_<<part, vars, repositoryVars>>
=============================================================================
