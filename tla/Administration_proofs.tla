------------------------ MODULE Administration_proofs ------------------------
(***************************************************************************)
(* What concurrent administrators can not do to each other, to the members *)
(* of an organization, to its join code and to the seasons, for any number *)
(* of people, requests, keys, periods and restarts.                        *)
(***************************************************************************)
EXTENDS MC_Accounts, FiniteSetTheorems, TLAPS

-----------------------------------------------------------------------------
(* The inductive invariant.                                                *)

\* What the code reads of users, and what a request holds.
Requests == [at : {"idle", "look", "replay", "write", "record", "answer", "insert"},
             actor : Users \cup {Nobody},
             op : PlatformOps \cup MemberOps \cup {"season", Nobody},
             target : Users \cup {Nobody},
             value : Periods \cup {"user", "platform_admin", "suspend", "reinstate",
                                   "member", "org_admin", Nobody},
             role : {"owner", "org_admin", "member", "none"},
             saw : {"owner", "org_admin", "member", "none"},
             code : 0..MaxCodes]

RequestsTyped == /\ users \in [Users -> Rows]
         /\ asked \in [Handlers -> Requests]
         /\ code \in 0..MaxCodes /\ told \subseteq 0..MaxCodes
         /\ seasons \subseteq Periods
         /\ crossed \in BOOLEAN /\ raced \in BOOLEAN /\ silent \in BOOLEAN
         /\ cuts \in 0..MaxCuts

\* A request that is about to write was checked when it came.
Asked(q) ==
    /\ q.at = "insert" => q.value \in Periods
    /\ q.at = "look" => q.op \in MemberOps
    /\ q.at \in {"look", "replay", "write"} =>
        /\ q.op \in PlatformOps \cup MemberOps
        /\ q.actor \in Users /\ q.target \in TargetsOf(q.op)
        /\ q.value \in ValuesOf(q.op) /\ NotSelf(q.actor, q.op, q.target)

\* A request about a member that has looked was allowed what it saw.
Allowed(q) ==
    /\ q.at \in {"replay", "write"} /\ q.op \in MemberOps
    /\ q.saw = "org_admin" /\ q.value # "org_admin"
    => q.role = "owner"

\* Only a rotation holds a join code, and only once it has stored one.
Holds(q) == q.code # 0 => q.op = "rotate" /\ q.at \in {"record", "answer"}

Checked == \A h \in Handlers : Asked(asked[h]) /\ Allowed(asked[h]) /\ Holds(asked[h])

\* The stored code is told, or about to be.
Told == /\ 0 \in told
        /\ \/ silent \/ code \in told
           \/ \E h \in Handlers : /\ asked[h].at \in {"record", "answer"}
                                  /\ asked[h].code = code

\* One insert at a time, of a season that fits.
Apart == \A p, s \in seasons : p = s \/ ~Overlaps(p, s)
Inserting(q) == q.at = "insert" => /\ q.value \in Periods
                                   /\ \A s \in seasons : ~Overlaps(q.value, s)
OneInsert == \A g, h \in Handlers : At(g, "insert") /\ At(h, "insert") => g = h
Fitting == raced \/ (Apart /\ OneInsert /\ \A h \in Handlers : Inserting(asked[h]))

-----------------------------------------------------------------------------
(* Types.                                                                  *)

USE AdminBounds

Places == {"idle", "look", "replay", "write", "record", "answer", "insert"}

LEMMA FreeIsARequest == Free \in Requests
BY DEF Free, Requests

LEMMA MovedIsARequest ==
    ASSUME NEW q \in Requests, NEW place \in Places
    PROVE  [q EXCEPT !.at = place] \in Requests
BY DEF Requests, Places

LEMMA AskedIsARequest ==
    ASSUME NEW actor \in Users, NEW op \in PlatformOps \cup MemberOps,
           NEW target \in TargetsOf(op), NEW value \in ValuesOf(op),
           NEW role \in {"owner", "org_admin", "member", "none"},
           NEW place \in Places
    PROVE  [at |-> place, actor |-> actor, op |-> op, target |-> target, value |-> value,
            role |-> role, saw |-> "none", code |-> 0] \in Requests
<1>1. value \in {"user", "platform_admin", "suspend", "reinstate", "member", "org_admin", Nobody}
  BY DEF ValuesOf
<1>2. target \in Users \cup {Nobody}
  BY DEF TargetsOf
<1> QED BY <1>1, <1>2 DEF Requests, Places

LEMMA OneRequestTyped ==
    ASSUME asked \in [Handlers -> Requests], NEW h \in Handlers, NEW q \in Requests,
           asked' = [asked EXCEPT ![h] = q]
    PROVE  asked' \in [Handlers -> Requests]
OBVIOUS

LEMMA AskTyped ==
    ASSUME RequestsTyped, NEW h \in Handlers, NEW actor \in Users,
           NEW op \in PlatformOps \cup MemberOps, NEW target \in TargetsOf(op),
           NEW value \in ValuesOf(op), Ask(h, actor, op, target, value)
    PROVE  RequestsTyped'
<1> DEFINE place == IF op \in MemberOps THEN "look" ELSE "replay"
           new == [at |-> place, actor |-> actor, op |-> op, target |-> target,
                   value |-> value, role |-> users[actor].org, saw |-> "none", code |-> 0]
<1>1. users[actor].org \in {"owner", "org_admin", "member", "none"} /\ place \in Places
  BY DEF RequestsTyped, Rows, Places
<1>2. new \in Requests
  <2> HIDE DEF place
  <2> QED BY <1>1, AskedIsARequest
<1>3. asked' = [asked EXCEPT ![h] = new]
  BY DEF Ask
<1>4. asked' \in [Handlers -> Requests]
  <2> HIDE DEF new
  <2> QED BY <1>2, <1>3, OneRequestTyped DEF RequestsTyped
<1> QED BY <1>4 DEF Ask, RequestsTyped, tables, histories

LEMMA ChangeIsTyped ==
    ASSUME RequestsTyped, NEW q \in Requests, Asked(q), q.at = "write", q.op # "rotate"
    PROVE  q.target \in Users /\ Change(q, users[q.target]) \in Rows
<1>1. q.op \in {"platform role", "suspension", "member role", "remove"}
  BY DEF Asked, PlatformOps, MemberOps
<1>2. q.target \in Users
  BY DEF Asked, TargetsOf
<1>3. users[q.target] \in Rows
  BY <1>2 DEF RequestsTyped
<1>4. q.value \in ValuesOf(q.op)
  BY DEF Asked
<1>5. CASE q.op = "platform role"
  BY <1>3, <1>4, <1>5, <1>2 DEF Change, Rows, ValuesOf
<1>6. CASE q.op = "suspension"
  BY <1>3, <1>6, <1>2 DEF Change, Rows
<1>7. CASE q.op = "member role"
  BY <1>3, <1>4, <1>7, <1>2 DEF Change, Rows, ValuesOf
<1>8. CASE q.op = "remove"
  BY <1>3, <1>8, <1>2 DEF Change, Rows
<1> QED BY <1>1, <1>5, <1>6, <1>7, <1>8

LEMMA StepTyped ==
    ASSUME RequestsTyped, Checked, NEW h \in Handlers, AdminStep(h)
    PROVE  RequestsTyped'
<1> DEFINE q == asked[h]
           moved(place) == [asked EXCEPT ![h] = [q EXCEPT !.at = place]]
<1>1. q \in Requests /\ Asked(q) /\ asked \in [Handlers -> Requests]
  BY DEF RequestsTyped, Checked
<1>2. \A place \in Places :
        [asked EXCEPT ![h].at = place] \in [Handlers -> Requests]
  <2> TAKE place \in Places
  <2>1. [q EXCEPT !.at = place] \in Requests
    BY <1>1, MovedIsARequest
  <2> QED BY <2>1, <1>1
<1>3. [asked EXCEPT ![h] = Free] \in [Handlers -> Requests]
  BY <1>1, FreeIsARequest
<1>4. CASE LookUpMember(h)
  <2>1. q.target \in Users \/ q.target = Nobody
    BY <1>1 DEF Requests
  <2>2. asked' \in [Handlers -> Requests]
    <3>1. CASE ~Manageable(q)
      BY <1>3, <1>4, <3>1 DEF LookUpMember
    <3>2. CASE Manageable(q)
      <4>1. q.target \in Users
        BY <1>1, <1>4 DEF LookUpMember, At, Asked, TargetsOf, MemberOps
      <4>2. users[q.target].org \in {"owner", "org_admin", "member", "none"}
        BY <4>1 DEF RequestsTyped, Rows
      <4>3. [q EXCEPT !.at = "replay", !.saw = users[q.target].org] \in Requests
        <5>1. [q EXCEPT !.at = "replay"] \in Requests
          BY <1>1, MovedIsARequest DEF Places
        <5> QED BY <4>2, <5>1 DEF Requests
      <4>4. asked' = [asked EXCEPT ![h] = [q EXCEPT !.at = "replay",
                                                    !.saw = users[q.target].org]]
        BY <1>4, <3>2 DEF LookUpMember
      <4> QED BY <1>1, <4>3, <4>4
    <3> QED BY <3>1, <3>2
  <2> QED BY <1>4, <2>2 DEF LookUpMember, RequestsTyped, tables, histories
<1>5. CASE Replay(h)
  BY <1>2, <1>3, <1>5 DEF Replay, Then, End, RequestsTyped, Places, tables, histories
<1>6. CASE Write(h)
  <2>1. asked' \in [Handlers -> Requests]
    BY <1>2, <1>3, <1>6 DEF Write, Then, End, Places
  <2>2. users' \in [Users -> Rows]
    <3>1. q.target \in Users /\ Change(q, users[q.target]) \in Rows
      BY <1>1, <1>6, ChangeIsTyped DEF Write, At
    <3>2. users' = [users EXCEPT ![q.target] = Change(q, users[q.target])] \/ users' = users
      BY <1>6 DEF Write
    <3> QED BY <3>1, <3>2 DEF RequestsTyped
  <2>3. crossed' \in BOOLEAN
    BY <1>6 DEF Write, RequestsTyped
  <2> QED BY <1>6, <2>1, <2>2, <2>3 DEF Write, RequestsTyped
<1>7. CASE Rotate(h)
  <2>1. code' \in 0..MaxCodes /\ code' = code + 1
    BY <1>7 DEF Rotate, RequestsTyped
  <2>2. [q EXCEPT !.at = "record", !.code = code + 1] \in Requests
    BY <1>1, <2>1 DEF Requests
  <2>3. asked' = [asked EXCEPT ![h] = [q EXCEPT !.at = "record", !.code = code + 1]]
    BY <1>7 DEF Rotate
  <2> QED BY <1>1, <1>7, <2>1, <2>2, <2>3 DEF Rotate, RequestsTyped, histories
<1>8. CASE Record(h)
  BY <1>2, <1>3, <1>8 DEF Record, Then, End, RequestsTyped, Places
<1>9. CASE AnswerAdmin(h)
  <2>1. q.code \in 0..MaxCodes
    BY <1>1 DEF Requests
  <2> QED BY <1>3, <1>9, <2>1 DEF AnswerAdmin, End, RequestsTyped, tables, histories
<1>10. CASE InsertSeason(h)
  BY <1>1, <1>3, <1>10 DEF InsertSeason, At, Asked, End, RequestsTyped, histories
<1> QED BY <1>4, <1>5, <1>6, <1>7, <1>8, <1>9, <1>10 DEF AdminStep

LEMMA OtherStepsTyped ==
    ASSUME RequestsTyped,
           \/ \E h \in Handlers, actor \in Users, p \in Periods : SeasonAsked(h, actor, p)
           \/ \E actor \in Users, s \in seasons : DeleteSeason(actor, s)
           \/ Cut
    PROVE  RequestsTyped'
<1>1. CASE Cut
  BY <1>1, FreeIsARequest DEF Cut, RequestsTyped, tables
<1>2. CASE \E actor \in Users, s \in seasons : DeleteSeason(actor, s)
  BY <1>2 DEF DeleteSeason, RequestsTyped, histories
<1>3. ASSUME NEW h \in Handlers, NEW actor \in Users, NEW p \in Periods,
             SeasonAsked(h, actor, p)
      PROVE  RequestsTyped'
  <2> DEFINE new == [Free EXCEPT !.at = "insert", !.actor = actor, !.op = "season",
                                 !.value = p]
  <2>1. new \in Requests
    BY FreeIsARequest DEF Requests
  <2>2. asked' \in [Handlers -> Requests]
    <3>1. asked' = asked \/ asked' = [asked EXCEPT ![h] = new]
      BY <1>3 DEF SeasonAsked
    <3> HIDE DEF new
    <3> QED BY <2>1, <3>1, OneRequestTyped DEF RequestsTyped
  <2> QED BY <1>3, <2>2 DEF SeasonAsked, RequestsTyped, tables
<1> QED BY <1>1, <1>2, <1>3

-----------------------------------------------------------------------------
(* What is known of each request.                                          *)

LEMMA OneRequestChecked ==
    ASSUME RequestsTyped, Checked, NEW h \in Handlers, NEW q,
           asked' = [asked EXCEPT ![h] = q], Asked(q), Allowed(q), Holds(q)
    PROVE  Checked'
<1> SUFFICES ASSUME NEW g \in Handlers
             PROVE  Asked(asked'[g]) /\ Allowed(asked'[g]) /\ Holds(asked'[g])
  BY DEF Checked
<1>1. asked'[g] = IF g = h THEN q ELSE asked[g]
  BY DEF RequestsTyped
<1> QED BY <1>1 DEF Checked

LEMMA FreeIsChecked == Asked(Free) /\ Allowed(Free) /\ Holds(Free)
BY DEF Free, Asked, Allowed, Holds

LEMMA AskChecked ==
    ASSUME RequestsTyped, Checked, NEW h \in Handlers, NEW actor \in Users,
           NEW op \in PlatformOps \cup MemberOps, NEW target \in TargetsOf(op),
           NEW value \in ValuesOf(op), Ask(h, actor, op, target, value)
    PROVE  Checked'
<1> DEFINE new == [at |-> IF op \in MemberOps THEN "look" ELSE "replay",
                   actor |-> actor, op |-> op, target |-> target,
                   value |-> value, role |-> users[actor].org, saw |-> "none", code |-> 0]
<1>1. Asked(new) /\ Allowed(new) /\ Holds(new)
  BY DEF Ask, Asked, Allowed, Holds
<1>2. asked' = [asked EXCEPT ![h] = new]
  BY DEF Ask
<1> HIDE DEF new
<1> QED BY <1>1, <1>2, OneRequestChecked

LEMMA StepChecked ==
    ASSUME RequestsTyped, Checked, NEW h \in Handlers, AdminStep(h)
    PROVE  Checked'
<1> DEFINE q == asked[h]
<1>1. q \in Requests /\ Asked(q) /\ Allowed(q) /\ Holds(q)
  BY DEF RequestsTyped, Checked
<1>2. CASE asked' = [asked EXCEPT ![h] = Free]
  BY <1>2, FreeIsChecked, OneRequestChecked
<1>3. CASE LookUpMember(h) /\ Manageable(q)
  <2> DEFINE new == [q EXCEPT !.at = "replay", !.saw = users[q.target].org]
  <2>1. asked' = [asked EXCEPT ![h] = new]
    BY <1>3 DEF LookUpMember
  <2>2. Asked(new)
    BY <1>1, <1>3 DEF LookUpMember, At, Asked, Requests
  <2>3. Allowed(new)
    BY <1>1, <1>3 DEF Manageable, Allowed, Requests
  <2>4. Holds(new)
    BY <1>1, <1>3 DEF LookUpMember, At, Holds, Requests
  <2> HIDE DEF new
  <2> QED BY <2>1, <2>2, <2>3, <2>4, OneRequestChecked
<1>4. ASSUME NEW from \in {"replay", "write", "record"}, NEW to \in {"write", "record", "answer"},
             <<from, to>> \in {<<"replay", "write">>, <<"write", "record">>, <<"record", "answer">>},
             At(h, from), Then(h, to)
      PROVE  Checked'
  <2> DEFINE new == [q EXCEPT !.at = to]
  <2>1. asked' = [asked EXCEPT ![h] = new]
    BY <1>4 DEF Then
  <2>2. Asked(new) /\ Allowed(new) /\ Holds(new)
    BY <1>1, <1>4 DEF At, Asked, Allowed, Holds, Requests
  <2> HIDE DEF new
  <2> QED BY <2>1, <2>2, OneRequestChecked
<1>5. CASE Rotate(h)
  <2> DEFINE new == [q EXCEPT !.at = "record", !.code = code + 1]
  <2>1. asked' = [asked EXCEPT ![h] = new]
    BY <1>5 DEF Rotate
  <2>2. Asked(new) /\ Allowed(new) /\ Holds(new)
    BY <1>1, <1>5 DEF Rotate, Asked, Allowed, Holds, Requests
  <2> HIDE DEF new
  <2> QED BY <2>1, <2>2, OneRequestChecked
<1>6. CASE LookUpMember(h)
  BY <1>2, <1>3, <1>6 DEF LookUpMember
<1>7. CASE Replay(h)
  BY <1>2, <1>4, <1>7 DEF Replay, End
<1>8. CASE Write(h)
  BY <1>2, <1>4, <1>8 DEF Write, End
<1>9. CASE Record(h)
  BY <1>2, <1>4, <1>9 DEF Record, End
<1>10. CASE AnswerAdmin(h) \/ InsertSeason(h)
  BY <1>2, <1>10 DEF AnswerAdmin, InsertSeason, End
<1> QED BY <1>5, <1>6, <1>7, <1>8, <1>9, <1>10 DEF AdminStep

LEMMA OtherStepsChecked ==
    ASSUME RequestsTyped, Checked,
           \/ \E h \in Handlers, actor \in Users, p \in Periods : SeasonAsked(h, actor, p)
           \/ \E actor \in Users, s \in seasons : DeleteSeason(actor, s)
           \/ Cut
    PROVE  Checked'
<1>1. CASE Cut
  BY <1>1, FreeIsChecked DEF Cut, Checked
<1>2. CASE asked' = asked
  BY <1>2 DEF Checked
<1>3. ASSUME NEW h \in Handlers, NEW actor \in Users, NEW p \in Periods,
             SeasonAsked(h, actor, p)
      PROVE  Checked'
  <2> DEFINE new == [Free EXCEPT !.at = "insert", !.actor = actor, !.op = "season",
                                 !.value = p]
  <2>1. Asked(new) /\ Allowed(new) /\ Holds(new)
    BY DEF Free, Asked, Allowed, Holds
  <2>2. asked' = asked \/ asked' = [asked EXCEPT ![h] = new]
    BY <1>3 DEF SeasonAsked
  <2> HIDE DEF new
  <2> QED BY <1>2, <2>1, <2>2, OneRequestChecked
<1> QED BY <1>1, <1>2, <1>3 DEF DeleteSeason

-----------------------------------------------------------------------------
(* The last administrator.                                                 *)

\* A request for a change of platform role or a suspension spares the one who
\* asks, so if that one may still ask when it is written, one is left.
LEMMA WriteKeepsAnAdmin ==
    ASSUME RequestsTyped, Checked, LastAdminStays, NEW h \in Handlers, Write(h)
    PROVE  LastAdminStays'
<1> DEFINE q == asked[h]
<1>1. q \in Requests /\ Asked(q) /\ q.at = "write" /\ q.op # "rotate"
  BY DEF RequestsTyped, Checked, Write, At
<1>2. q.actor \in Users /\ q.target \in Users /\ q.op \in PlatformOps \cup MemberOps
      /\ NotSelf(q.actor, q.op, q.target)
  BY <1>1 DEF Asked, TargetsOf
<1>3. CASE users' = users
  BY <1>3 DEF Write, LastAdminStays, Reachable, IsPlatformAdmin
<1>4. CASE users' # users /\ q.op \in MemberOps
  <2>1. users' = [users EXCEPT ![q.target] = Change(q, @)]
    BY <1>4 DEF Write
  <2>2. /\ Change(q, users[q.target]).platform = users[q.target].platform
        /\ Change(q, users[q.target]).suspended = users[q.target].suspended
    BY <1>2, <1>4 DEF Change, MemberOps, RequestsTyped, Rows
  <2>3. Reachable' = Reachable
    BY <1>2, <2>1, <2>2 DEF Reachable, IsPlatformAdmin, RequestsTyped
  <2> QED BY <2>3 DEF Write, LastAdminStays
<1>5. CASE users' # users /\ q.op \notin MemberOps
  <2>1. users' = [users EXCEPT ![q.target] = Change(q, @)]
        /\ crossed' = (crossed \/ ~May(q.actor, q.op))
    BY <1>5 DEF Write
  <2>2. q.actor # q.target
    BY <1>1, <1>2, <1>5 DEF NotSelf, PlatformOps
  <2>3. users'[q.actor] = users[q.actor]
    BY <1>2, <2>1, <2>2 DEF RequestsTyped
  <2>4. May(q.actor, q.op) => q.actor \in Reachable'
    BY <1>2, <1>5, <2>3 DEF May, Reachable, IsPlatformAdmin
  <2> QED BY <2>1, <2>4 DEF LastAdminStays
<1> QED BY <1>3, <1>4, <1>5

-----------------------------------------------------------------------------
(* The join code.                                                          *)

LEMMA StepTells ==
    ASSUME RequestsTyped, Checked, Told, NEW h \in Handlers, AdminStep(h)
    PROVE  Told'
<1> DEFINE q == asked[h]
           Pending(g) == asked[g].at \in {"record", "answer"} /\ asked[g].code = code
<1>1. q \in Requests /\ Holds(q)
  BY DEF RequestsTyped, Checked
<1>2. \A g \in Handlers : g # h => asked'[g] = asked[g]
  BY DEF RequestsTyped, AdminStep, LookUpMember, Replay, Write, Rotate, Record, AnswerAdmin,
         InsertSeason, Then, End
<1>3. CASE Rotate(h)
  <2>1. asked'[h].at = "record" /\ asked'[h].code = code'
    BY <1>1, <1>3 DEF Rotate, RequestsTyped, Requests
  <2> QED BY <1>3, <2>1 DEF Rotate, Told
<1>4. CASE Record(h)
  <2>1. CASE Pending(h) /\ Digest(q) \in records
    BY <1>1, <1>4, <2>1 DEF Record, Told, Holds
  <2>2. CASE Pending(h) /\ Digest(q) \notin records
    <3>1. asked'[h].at = "answer" /\ asked'[h].code = code' /\ told' = told
      BY <1>1, <1>4, <2>2 DEF Record, Then, RequestsTyped, Requests
    <3> QED BY <3>1 DEF Told
  <2>3. CASE ~Pending(h)
    BY <1>2, <1>4, <2>3 DEF Record, Told
  <2> QED BY <2>1, <2>2, <2>3
<1>5. CASE AnswerAdmin(h)
  BY <1>2, <1>5 DEF AnswerAdmin, Told, tables, histories
<1>6. CASE LookUpMember(h) \/ Replay(h) \/ Write(h) \/ InsertSeason(h)
  <2>1. ~Pending(h) /\ UNCHANGED <<code, told, silent>>
    BY <1>6 DEF LookUpMember, Replay, Write, InsertSeason, At, tables, histories
  <2> QED BY <1>2, <2>1 DEF Told
<1> QED BY <1>3, <1>4, <1>5, <1>6 DEF AdminStep

LEMMA OtherStepsTell ==
    ASSUME RequestsTyped, Checked, Told,
           \/ \E h \in Handlers, actor \in Users, op \in PlatformOps \cup MemberOps :
                \E target \in TargetsOf(op), value \in ValuesOf(op) :
                  Ask(h, actor, op, target, value)
           \/ \E h \in Handlers, actor \in Users, p \in Periods : SeasonAsked(h, actor, p)
           \/ \E actor \in Users, s \in seasons : DeleteSeason(actor, s)
           \/ Cut
    PROVE  Told'
<1>1. CASE Cut
  BY <1>1 DEF Cut, Told, tables
<1>2. CASE ~Cut
  <2>1. \A h \in Handlers : asked[h].at # "idle" => asked'[h] = asked[h]
    BY <1>2 DEF Ask, SeasonAsked, DeleteSeason, At, RequestsTyped
  <2>2. UNCHANGED <<code, told, silent>>
    BY <1>2 DEF Ask, SeasonAsked, DeleteSeason, tables, histories
  <2> QED BY <2>1, <2>2 DEF Told
<1> QED BY <1>1, <1>2

-----------------------------------------------------------------------------
(* The seasons.                                                            *)

LEMMA PeriodsAreApartOrNot ==
    \A p, s \in Periods : /\ Overlaps(p, p)
                          /\ Overlaps(p, s) => Overlaps(s, p)
BY PeriodsAreOrdered DEF Overlaps

LEMMA InsertFits ==
    ASSUME RequestsTyped, Checked, Fitting, NEW h \in Handlers, InsertSeason(h)
    PROVE  Fitting'
<1> SUFFICES ASSUME ~raced
             PROVE  (Apart /\ OneInsert /\ \A g \in Handlers : Inserting(asked[g]))'
  BY DEF Fitting, InsertSeason, histories
<1> DEFINE new == asked[h].value
<1>1. /\ Apart /\ OneInsert /\ Inserting(asked[h])
      /\ seasons \subseteq Periods /\ seasons' = seasons \cup {new}
      /\ new \in Periods /\ \A s \in seasons : ~Overlaps(new, s)
  BY DEF Fitting, InsertSeason, RequestsTyped, At, Inserting
<1>2. Apart'
  BY <1>1, PeriodsAreApartOrNot DEF Apart
<1>3. \A g \in Handlers : asked'[g].at # "insert"
  BY <1>1 DEF InsertSeason, End, OneInsert, At, RequestsTyped, Free
<1> QED BY <1>2, <1>3 DEF OneInsert, At, Inserting

LEMMA SeasonAskedFits ==
    ASSUME RequestsTyped, Fitting, NEW h \in Handlers, NEW actor \in Users, NEW p \in Periods,
           SeasonAsked(h, actor, p)
    PROVE  Fitting'
<1> SUFFICES ASSUME ~raced'
             PROVE  (Apart /\ OneInsert /\ \A g \in Handlers : Inserting(asked[g]))'
  BY DEF Fitting
<1>1. /\ Apart /\ OneInsert /\ \A g \in Handlers : asked[g].at # "insert"
      /\ seasons' = seasons
  BY DEF Fitting, SeasonAsked, tables, At
<1>2. Apart'
  BY <1>1 DEF Apart
<1>3. CASE asked' = asked
  BY <1>1, <1>2, <1>3 DEF OneInsert, At, Inserting
<1>4. CASE asked' # asked
  <2>1. /\ \A g \in Handlers : g # h => asked'[g] = asked[g]
        /\ asked'[h].value = p
        /\ \A s \in seasons : ~Overlaps(p, s)
    BY <1>4 DEF SeasonAsked, RequestsTyped, Free
  <2> QED BY <1>1, <1>2, <2>1 DEF OneInsert, At, Inserting
<1> QED BY <1>3, <1>4

LEMMA OtherStepsFit ==
    ASSUME RequestsTyped, Fitting,
           \/ \E h \in Handlers, actor \in Users, op \in PlatformOps \cup MemberOps :
                \E target \in TargetsOf(op), value \in ValuesOf(op) :
                  Ask(h, actor, op, target, value)
           \/ \E h \in Handlers : AdminStep(h) /\ ~InsertSeason(h)
           \/ \E actor \in Users, s \in seasons : DeleteSeason(actor, s)
           \/ Cut
    PROVE  Fitting'
<1>1. raced' = raced /\ seasons' \subseteq seasons
  BY DEF Ask, AdminStep, LookUpMember, Replay, Write, Rotate, Record, AnswerAdmin,
         DeleteSeason, Cut, histories, tables
<1>2. \A g \in Handlers : asked'[g].at = "insert" => asked'[g] = asked[g]
  <2>1. CASE Cut
    BY <2>1 DEF Cut, Free
  <2>2. CASE \E h \in Handlers : AdminStep(h) /\ ~InsertSeason(h)
    BY <2>2 DEF AdminStep, LookUpMember, Replay, Write, Rotate, Record, AnswerAdmin,
                Then, End, Free, RequestsTyped, Requests
  <2>3. CASE \E h \in Handlers, actor \in Users, op \in PlatformOps \cup MemberOps :
               \E target \in TargetsOf(op), value \in ValuesOf(op) :
                 Ask(h, actor, op, target, value)
    BY <2>3 DEF Ask, RequestsTyped
  <2>4. CASE \E actor \in Users, s \in seasons : DeleteSeason(actor, s)
    BY <2>4 DEF DeleteSeason
  <2> QED BY <2>1, <2>2, <2>3, <2>4
<1> QED BY <1>1, <1>2 DEF Fitting, Apart, OneInsert, At, Inserting

-----------------------------------------------------------------------------
(* All together.                                                           *)

IInv == RequestsTyped /\ Checked /\ LastAdminStays /\ Told /\ Fitting

LEMMA InitIsSound == AdminInit => IInv
<1> SUFFICES ASSUME AdminInit PROVE IInv
  OBVIOUS
<1>1. RequestsTyped
  <2>1. users \in [Users -> Rows]
    <3> DEFINE platform(u) == IF u \in Founders THEN "platform_admin" ELSE "user"
               org(u) == IF u = Owner THEN "owner"
                         ELSE IF u \in OrgAdmins THEN "org_admin" ELSE "member"
               row(u) == [platform |-> platform(u), suspended |-> FALSE, org |-> org(u)]
    <3>1. \A u \in Users : platform(u) \in {"user", "platform_admin"}
                           /\ org(u) \in {"owner", "org_admin", "member", "none"}
      OBVIOUS
    <3>2. users = [u \in Users |-> row(u)]
      BY DEF AdminInit
    <3>3. \A u \in Users : row(u) \in Rows
      <4> HIDE DEF platform, org
      <4> QED BY <3>1 DEF Rows
    <3> HIDE DEF row
    <3> QED BY <3>2, <3>3
  <2>2. asked \in [Handlers -> Requests]
    BY FreeIsARequest DEF AdminInit
  <2>3. /\ code = 0 /\ told = {0} /\ seasons = {} /\ cuts = 0
        /\ crossed = FALSE /\ raced = FALSE /\ silent = FALSE
    BY DEF AdminInit
  <2>4. 0 \in 0..MaxCodes /\ 0 \in 0..MaxCuts
    BY AdminBounds
  <2>5. told \subseteq 0..MaxCodes /\ seasons \subseteq Periods
    BY <2>3, <2>4
  <2> QED BY <2>1, <2>2, <2>3, <2>4, <2>5 DEF RequestsTyped
<1>2. Checked
  BY FreeIsChecked DEF AdminInit, Checked
<1>3. LastAdminStays
  <2>1. PICK u \in Founders : u \in Users
    BY FoundersExist
  <2>2. u \in Reachable
    BY <2>1 DEF AdminInit, Reachable, IsPlatformAdmin
  <2> QED BY <2>2 DEF LastAdminStays
<1>4. Told /\ Fitting
  BY DEF AdminInit, Told, Fitting, Apart, OneInsert, Inserting, At, Free
<1> QED BY <1>1, <1>2, <1>3, <1>4 DEF IInv

LEMMA Inductive == IInv /\ [AdminNext]_adminVars => IInv'
<1> SUFFICES ASSUME IInv, [AdminNext]_adminVars PROVE IInv'
  OBVIOUS
<1>1. CASE UNCHANGED adminVars
  BY <1>1 DEF adminVars, IInv, RequestsTyped, Checked, LastAdminStays, Reachable, IsPlatformAdmin,
              Told, Fitting, Apart, OneInsert, Inserting, At
<1>2. CASE AdminNext
  <2>1. RequestsTyped'
    BY <1>2, AskTyped, StepTyped, OtherStepsTyped DEF IInv, AdminNext
  <2>2. Checked'
    BY <1>2, AskChecked, StepChecked, OtherStepsChecked DEF IInv, AdminNext
  <2>3. LastAdminStays'
    <3>1. CASE \E h \in Handlers : Write(h)
      BY <3>1, WriteKeepsAnAdmin DEF IInv
    <3>2. CASE ~\E h \in Handlers : Write(h)
      <4>1. UNCHANGED <<users, crossed>>
        BY <1>2, <3>2 DEF AdminNext, AdminStep, Ask, LookUpMember, Replay, Rotate, Record,
             AnswerAdmin, SeasonAsked, InsertSeason, DeleteSeason, Cut, tables, histories
      <4> QED BY <4>1 DEF IInv, LastAdminStays, Reachable, IsPlatformAdmin
    <3> QED BY <3>1, <3>2
  <2>4. Told'
    BY <1>2, StepTells, OtherStepsTell DEF IInv, AdminNext
  <2>5. Fitting'
    BY <1>2, InsertFits, SeasonAskedFits, OtherStepsFit DEF IInv, AdminNext
  <2> QED BY <2>1, <2>2, <2>3, <2>4, <2>5 DEF IInv
<1> QED BY <1>1, <1>2

LEMMA Invariant == AdminSafety => []IInv
BY InitIsSound, Inductive, PTL DEF AdminSafety

-----------------------------------------------------------------------------
(* Accounts: what a request under way knows of its account stays so.       *)

AccountRows == [handle : HandleNames, hash : {"none", "word"}, consent : Versions,
                suspended : BOOLEAN, signedUpWith : Typed]
Calls == [at : {"idle", "derive", "insert", "answer"} \cup Served,
          who : People \cup {NoAccount},
          route : Served \cup {"none", "register", "login"},
          typed : Typed \cup {"none"}, handle : HandleNames \cup {"none"}]

\* A request names a person from its first step on; whoever was let in has an
\* account, and, but for the administration, has agreed to the current terms.
Known(q, rows, version) ==
    /\ q.at # "idle" => q.who \in People
    /\ q.at \in {"derive", "insert"} => q.typed \in Typed
    /\ q.at = "insert" => q.handle \in HandleNames
    /\ q.at \in Served => rows[q.who] \in AccountRows /\ q.route = q.at
    /\ q.at = "labs" => rows[q.who].consent = version

IdentityInv ==
    /\ account \in [People -> AccountRows \cup {NoAccount}]
    /\ session \subseteq People /\ call \in [Callers -> Calls]
    /\ terms \in Versions /\ early \subseteq {"admin"} /\ lockedOut \subseteq People
    /\ \A c \in Callers : Known(call[c], account, terms)

LEMMA IdleIsKnown == Idle \in Calls /\ \A rows, version : Known(Idle, rows, version)
BY DEF Idle, Calls, Known, Served

LEMMA HashIsKnown ==
    ASSUME NEW typed \in Typed PROVE HashOf(typed) \in {"none", "word"}
BY TypedPasswords DEF HashOf, Trimmed

LEMMA HandlesAreNames ==
    /\ Len(Handles) = 3
    /\ \A i \in 1..3 : Handles[i] \in HandleNames
    /\ "alice" \in HandleNames /\ "random" \in HandleNames
<1>1. Len(Handles) = 3 /\ Handles[1] = "alice"
  BY DEF Handles
<1>2. \A i \in 1..3 : Handles[i] \in {Handles[j] : j \in 1..3}
  OBVIOUS
<1>3. HandleNames = {Handles[j] : j \in 1..3} \cup {"random"}
  BY <1>1 DEF HandleNames
<1> QED BY <1>1, <1>2, <1>3

LEMMA FirstFreeIsAName == ASSUME NEW c PROVE FirstFree(c) \in HandleNames
<1> DEFINE free == {i \in 1..Len(Handles) : ~Taken(Handles[i])}
<1>1. CASE free = {}
  BY <1>1, HandlesAreNames DEF FirstFree
<1>2. CASE free # {}
  <2>1. free \subseteq 1..3
    BY HandlesAreNames
  <2>2. \E i \in free : \A j \in free : i <= j
    <3>1. CASE 1 \in free
      BY <3>1, <2>1
    <3>2. CASE 1 \notin free /\ 2 \in free
      BY <3>2, <2>1
    <3>3. CASE 1 \notin free /\ 2 \notin free
      <4> HIDE DEF free
      <4>1. free = {3}
        <5>1. \A i \in free : i = 3
          BY <3>3, <2>1
        <5> QED BY <5>1, <1>2
      <4> QED BY <4>1
    <3> QED BY <3>1, <3>2, <3>3
  <2> DEFINE first == CHOOSE i \in free : \A j \in free : i <= j
  <2>3. first \in 1..3
    <3> HIDE DEF free
    <3> QED BY <2>1, <2>2
  <2>4. FirstFree(c) = Handles[first]
    BY <1>2 DEF FirstFree
  <2> HIDE DEF first
  <2> QED BY <2>3, <2>4, HandlesAreNames
<1> QED BY <1>1, <1>2

\* One request moves, and what the others know is not touched.
LEMMA OneCallKnown ==
    ASSUME IdentityInv, NEW c \in Callers, NEW q \in Calls, Known(q, account, terms),
           call' = [call EXCEPT ![c] = q], UNCHANGED <<account, session, terms, lockedOut>>,
           early' \subseteq {"admin"}
    PROVE  IdentityInv'
<1>1. call' \in [Callers -> Calls]
  BY DEF IdentityInv
<1>2. \A d \in Callers : call'[d] = IF d = c THEN q ELSE call[d]
  BY DEF IdentityInv
<1>3. \A d \in Callers : Known(call'[d], account, terms)
  BY <1>2 DEF IdentityInv
<1> QED BY <1>1, <1>3 DEF IdentityInv

\* A row changes, or is added, and nobody who was let in loses by it.
LEMMA OneRowKnown ==
    ASSUME IdentityInv, NEW p \in People, NEW row \in AccountRows,
           account' = [account EXCEPT ![p] = row],
           row.consent = terms \/ row.consent = account[p].consent,
           UNCHANGED <<session, terms, history>>,
           \/ UNCHANGED call
           \/ \E c \in Callers, q \in Calls :
                call' = [call EXCEPT ![c] = q] /\ Known(q, account', terms)
    PROVE  IdentityInv'
<1>1. \A u \in People : account'[u] = IF u = p THEN row ELSE account[u]
  BY DEF IdentityInv
<1>2. \A d \in Callers : Known(call[d], account', terms)
  <2> SUFFICES ASSUME NEW d \in Callers PROVE Known(call[d], account', terms)
    OBVIOUS
  <2>1. Known(call[d], account, terms)
    BY DEF IdentityInv
  <2> QED BY <2>1, <1>1 DEF Known, Served
<1>3. call' \in [Callers -> Calls] /\ \A d \in Callers : Known(call'[d], account', terms)
  <2>1. CASE UNCHANGED call
    BY <2>1, <1>2 DEF IdentityInv
  <2>2. CASE ~UNCHANGED call
    <3>1. PICK c \in Callers, q \in Calls :
            call' = [call EXCEPT ![c] = q] /\ Known(q, account', terms)
      BY <2>2
    <3>2. \A d \in Callers : call'[d] = IF d = c THEN q ELSE call[d]
      BY <3>1 DEF IdentityInv
    <3>3. call' \in [Callers -> Calls]
      BY <3>1 DEF IdentityInv
    <3> QED BY <3>1, <3>2, <3>3, <1>2
  <2> QED BY <2>1, <2>2
<1>4. account' \in [People -> AccountRows \cup {NoAccount}]
  BY DEF IdentityInv
<1> QED BY <1>3, <1>4 DEF IdentityInv, history

LEMMA RequestsArriveKnown ==
    ASSUME IdentityInv, NEW c \in Callers, NEW p \in People,
           \/ \E typed \in Typed : \/ Login(c, p, typed)
                                   \/ \E wish \in Wishes : Register(c, p, typed, wish)
           \/ \E route \in Served : Resolve(c, p, route)
    PROVE  IdentityInv'
<1>1. ASSUME NEW typed \in Typed, NEW wish \in Wishes, Register(c, p, typed, wish)
      PROVE  IdentityInv'
  <2> DEFINE place == IF wish = "none" THEN "derive" ELSE "insert"
             q == [at |-> place, who |-> p, route |-> "register", typed |-> typed, handle |-> wish]
  <2>1. /\ place \in {"derive", "insert"} /\ wish \in HandleNames \cup {"none"}
        /\ place = "insert" => wish \in HandleNames
    BY HandlesAreNames DEF Wishes
  <2>2. call' = [call EXCEPT ![c] = q] /\ UNCHANGED <<account, session, terms, history>>
    BY <1>1 DEF Register
  <2> HIDE DEF place
  <2>3. q \in Calls
    BY <2>1 DEF Calls
  <2>4. Known(q, account, terms)
    BY <2>1 DEF Known, Served
  <2> HIDE DEF q
  <2>5. early' \subseteq {"admin"}
    BY <2>2 DEF IdentityInv, history
  <2> QED BY <2>2, <2>3, <2>4, <2>5, OneCallKnown DEF history
<1>2. ASSUME NEW typed \in Typed, Login(c, p, typed)
      PROVE  IdentityInv'
  <2>1. CASE UNCHANGED call
    BY <1>2, <2>1 DEF Login, IdentityInv
  <2>2. CASE ~UNCHANGED call
    <3> DEFINE q == [Idle EXCEPT !.at = "answer", !.who = p, !.route = "login"]
    <3>1. call' = [call EXCEPT ![c] = q] /\ UNCHANGED <<account, session, terms, early, lockedOut>>
      BY <1>2, <2>2 DEF Login
    <3>2. q \in Calls /\ Known(q, account, terms)
      BY DEF Calls, Known, Idle, Served
    <3> HIDE DEF q
    <3> QED BY <3>1, <3>2, OneCallKnown DEF IdentityInv
  <2> QED BY <2>1, <2>2
<1>3. ASSUME NEW route \in Served, Resolve(c, p, route)
      PROVE  IdentityInv'
  <2> DEFINE q == [Idle EXCEPT !.at = route, !.who = p, !.route = route]
  <2>1. call' = [call EXCEPT ![c] = q] /\ UNCHANGED <<account, session, terms, history>>
    BY <1>3 DEF Resolve
  <2>2. account[p] \in AccountRows /\ (route = "labs" => account[p].consent = terms)
    BY <1>3 DEF Resolve, Admitted, Exists, Outstanding, IdentityInv
  <2>3. q \in Calls /\ Known(q, account, terms)
    BY <2>2 DEF Calls, Known, Idle, Served
  <2> HIDE DEF q
  <2> QED BY <2>1, <2>3, OneCallKnown DEF IdentityInv, history
<1> QED BY <1>1, <1>2, <1>3

LEMMA RequestsGoOnKnown ==
    ASSUME IdentityInv, NEW c \in Callers,
           \/ DeriveHandle(c) \/ InsertUser(c) \/ OpenSession(c) \/ Serve(c) \/ Agree(c)
    PROVE  IdentityInv'
<1> DEFINE q == call[c]
<1>1. q \in Calls /\ Known(q, account, terms)
  BY DEF IdentityInv
<1>2. CASE DeriveHandle(c)
  <2> DEFINE r == [q EXCEPT !.at = "insert", !.handle = FirstFree(c)]
  <2>1. call' = [call EXCEPT ![c] = r]
    BY <1>2 DEF DeriveHandle, IdentityInv
  <2>2. FirstFree(c) \in HandleNames
    BY FirstFreeIsAName
  <2>3. r \in Calls /\ Known(r, account, terms)
    BY <1>1, <1>2, <2>2 DEF DeriveHandle, Calls, Known, Served
  <2> HIDE DEF r
  <2> QED BY <1>2, <2>1, <2>3, OneCallKnown DEF DeriveHandle, IdentityInv, history
<1>3. CASE InsertUser(c)
  <2>1. CASE Exists(q.who) \/ Taken(q.handle)
    BY <1>3, <2>1, IdleIsKnown, OneCallKnown DEF InsertUser, Done, IdentityInv, history
  <2>2. CASE ~(Exists(q.who) \/ Taken(q.handle))
    <3> DEFINE row == [handle |-> q.handle, hash |-> HashOf(q.typed), consent |-> terms,
                       suspended |-> FALSE, signedUpWith |-> q.typed]
               r == [q EXCEPT !.at = "answer"]
    <3>1. q.who \in People /\ q.typed \in Typed /\ q.handle \in HandleNames
      BY <1>1, <1>3 DEF InsertUser, Known
    <3>2. row \in AccountRows /\ row.consent = terms
      BY <3>1, HashIsKnown DEF AccountRows, IdentityInv
    <3>3. account' = [account EXCEPT ![q.who] = row] /\ call' = [call EXCEPT ![c] = r]
          /\ UNCHANGED <<session, terms, history>>
      BY <1>3, <2>2 DEF InsertUser, To, IdentityInv
    <3>4. r \in Calls /\ Known(r, account', terms)
      BY <1>1, <3>1 DEF Calls, Known, Served
    <3> HIDE DEF row, r, q
    <3> QED BY <3>1, <3>2, <3>3, <3>4, OneRowKnown
  <2> QED BY <2>1, <2>2
<1>4. CASE OpenSession(c)
  <2>1. q.who \in People
    BY <1>1, <1>4 DEF OpenSession, Known
  <2>2. \A d \in Callers : call'[d] = IF d = c THEN Idle ELSE call[d]
    BY <1>4 DEF OpenSession, Done, IdentityInv
  <2>3. call' \in [Callers -> Calls] /\ UNCHANGED <<account, terms, history>>
    BY <1>4, IdleIsKnown DEF OpenSession, Done, IdentityInv
  <2>4. session' \subseteq People
    BY <1>4, <2>1 DEF OpenSession, IdentityInv
  <2> QED BY <2>2, <2>3, <2>4, IdleIsKnown DEF IdentityInv, history
<1>5. CASE Serve(c)
  <2>1. q.at = "labs" => ~Outstanding(q.who)
    BY <1>1 DEF Known, Outstanding
  <2>2. q.at \in {"labs", "admin"} /\ q.route = q.at
    BY <1>1, <1>5 DEF Serve, Known, Served
  <2>3. early' \subseteq {"admin"}
    BY <1>5, <2>1, <2>2 DEF Serve, IdentityInv
  <2> QED BY <1>5, <2>3, IdleIsKnown, OneCallKnown DEF Serve, Done
<1>6. CASE Agree(c)
  <2> DEFINE row == [account[q.who] EXCEPT !.consent = terms]
  <2>1. q.who \in People /\ account[q.who] \in AccountRows
    BY <1>1, <1>6 DEF Agree, Known, Served
  <2>2. row \in AccountRows /\ row.consent = terms
    BY <2>1 DEF AccountRows, IdentityInv
  <2>3. account' = [account EXCEPT ![q.who] = row] /\ call' = [call EXCEPT ![c] = Idle]
        /\ UNCHANGED <<session, terms, history>>
    BY <1>6, <2>1 DEF Agree, Done, IdentityInv
  <2> HIDE DEF row, q
  <2> QED BY <2>1, <2>2, <2>3, IdleIsKnown, OneRowKnown
<1> QED BY <1>2, <1>3, <1>4, <1>5, <1>6

LEMMA AccountsInductive == IdentityInv /\ [IdentityNext]_identityVars => IdentityInv'
<1> SUFFICES ASSUME IdentityInv, [IdentityNext]_identityVars PROVE IdentityInv'
  OBVIOUS
<1>1. CASE UNCHANGED identityVars
  BY <1>1 DEF identityVars, IdentityInv
<1>2. CASE \E p \in People : SetSuspended(p)
  <2>1. PICK p \in People : SetSuspended(p)
    BY <1>2
  <2> DEFINE row == [account[p] EXCEPT !.suspended = ~@]
  <2>2. account[p] \in AccountRows
    BY <2>1 DEF SetSuspended, Exists, IdentityInv
  <2>3. row \in AccountRows /\ row.consent = account[p].consent
    BY <2>2 DEF AccountRows
  <2>4. account' = [account EXCEPT ![p] = row] /\ UNCHANGED <<session, call, terms, history>>
    BY <2>1 DEF SetSuspended, IdentityInv
  <2> HIDE DEF row
  <2> QED BY <2>3, <2>4, OneRowKnown
<1>3. CASE NewRelease
  <2>1. terms' \in Versions
    BY <1>3, VersionBound DEF NewRelease, Versions, IdentityInv
  <2>2. call' \in [Callers -> Calls] /\ \A c \in Callers : Known(call'[c], account, terms')
    BY <1>3, IdleIsKnown DEF NewRelease
  <2> QED BY <1>3, <2>1, <2>2 DEF NewRelease, IdentityInv, history
<1> QED BY <1>1, <1>2, <1>3, RequestsArriveKnown, RequestsGoOnKnown DEF IdentityNext

LEMMA NoAccountsYet ==
    (IdentityInit => IdentityInv) /\ (SignedUp => IdentityInv)
<1>1. 0 \in Versions
  BY VersionBound DEF Versions
<1>2. ASSUME IdentityInit PROVE IdentityInv
  BY <1>1, <1>2, IdleIsKnown DEF IdentityInit, IdentityInv
<1>3. ASSUME SignedUp PROVE IdentityInv
  <2> DEFINE name(p) == Handles[IF p = ann THEN 1 ELSE 2]
             row(p) == [handle |-> name(p), hash |-> "word", consent |-> 0, suspended |-> FALSE,
                        signedUpWith |-> "word"]
  <2>1. \A p \in People : name(p) \in HandleNames
    BY HandlesAreNames
  <2>2. account = [p \in People |-> row(p)]
    BY <1>3 DEF SignedUp
  <2>3. \A p \in People : row(p) \in AccountRows
    <3> HIDE DEF name
    <3> QED BY <2>1, <1>1, TypedPasswords DEF AccountRows
  <2>4. account \in [People -> AccountRows \cup {NoAccount}]
    <3> HIDE DEF row
    <3> QED BY <2>2, <2>3
  <2> QED BY <1>1, <1>3, <2>4, IdleIsKnown DEF SignedUp, IdentityInv
<1> QED BY <1>2, <1>3

\* The rows, sessions and requests of MC_Accounts, whichever part is at work.
LEMMA AccountsInvariant == AccountsSafety => [](IdentityInv /\ IInv)
<1>1. AccountsInit => IdentityInv /\ IInv
  BY NoAccountsYet, InitIsSound DEF AccountsInit
<1>2. IdentityInv /\ IInv /\ [AccountsNext]_<<part, identityVars, adminVars>>
      => IdentityInv' /\ IInv'
  <2> SUFFICES ASSUME IdentityInv, IInv, [AccountsNext]_<<part, identityVars, adminVars>>
               PROVE  IdentityInv' /\ IInv'
    OBVIOUS
  <2>1. [IdentityNext]_identityVars /\ [AdminNext]_adminVars
    BY DEF AccountsNext
  <2> QED BY <2>1, AccountsInductive, Inductive
<1> QED BY <1>1, <1>2, PTL DEF AccountsSafety

-----------------------------------------------------------------------------
\* Every variable has its type (AdminTypeOK).
THEOREM AdministrationTyped == AdminSafety => []AdminTypeOK
<1>1. IInv => AdminTypeOK
  BY DEF IInv, RequestsTyped, Requests, AdminTypeOK
<1> QED BY <1>1, Invariant, PTL

\* AccountsTypeOK: every variable of the accounts has its type, for any people,
\* requests, passwords and releases.
THEOREM AccountsTyped == AccountsSafety => []AccountsTypeOK
<1>1. IInv => AdminTypeOK
  BY DEF IInv, RequestsTyped, Requests, AdminTypeOK
<1>2. IdentityInv => IdentityTypeOK
  BY DEF IdentityInv, IdentityTypeOK, AccountRows, Calls, Exists, Served
<1> QED BY <1>1, <1>2, AccountsInvariant, PTL DEF AccountsTypeOK

\* The gate of app.ts in front of every route but two: nothing of the platform
\* is served to an account that owes its consent to the terms of the release,
\* except to an administrator under /v1/admin, which is decided before the gate.
THEOREM ConsentComesFirst == IdentitySafety => [](early \subseteq {"admin"})
<1>1. IdentityInit => IdentityInv
  BY NoAccountsYet
<1>2. IdentityInv => early \subseteq {"admin"}
  BY DEF IdentityInv
<1> QED BY <1>1, <1>2, AccountsInductive, PTL DEF IdentitySafety

\* LastAdminStays for any number of administrators and requests: the guard
\* against naming oneself keeps one administrator who can act, unless a change
\* is written for one who had lost the right while asking (app.ts, the routes
\* for platform roles and suspensions).
THEOREM AnAdminStays == AdminSafety => []LastAdminStays
<1>1. IInv => LastAdminStays
  BY DEF IInv
<1> QED BY <1>1, Invariant, PTL

\* CodeIsTold for any number of rotations, retries and restarts: at rest the
\* stored join code was told, unless a request that stored one was lost.
THEOREM StoredCodeIsTold == AdminSafety => []CodeIsTold
<1>1. IInv => CodeIsTold
  BY DEF IInv, Told, CodeIsTold, At
<1> QED BY <1>1, Invariant, PTL

\* OneActiveSeason for any periods: seasons that were not created at the same
\* time never cover one moment (postgres.ts, createSeason).
THEOREM SeasonsAreApart == AdminSafety => []OneActiveSeason
<1>1. IInv => OneActiveSeason
  <2> SUFFICES ASSUME Apart, RequestsTyped, NEW p \in Periods
               PROVE  Cardinality({s \in seasons : s[1] <= p[1] /\ p[1] < s[2]}) <= 1
    BY DEF IInv, Fitting, OneActiveSeason
  <2> DEFINE active == {s \in seasons : s[1] <= p[1] /\ p[1] < s[2]}
  <2>1. \A s, t \in active : s = t
    BY PeriodsAreOrdered DEF Apart, Overlaps, RequestsTyped
  <2>2. active = {} \/ \E s \in active : active = {s}
    BY <2>1
  <2>3. Cardinality({}) = 0 /\ \A s : Cardinality({s}) = 1
    BY FS_EmptySet, FS_Singleton
  <2>4. Cardinality(active) = 0 \/ Cardinality(active) = 1
    <3> HIDE DEF active
    <3> QED BY <2>2, <2>3
  <2> QED BY <2>4
<1> QED BY <1>1, Invariant, PTL

\* OnlyOwnerDemotes for any number of members: whoever reads the roles and
\* then changes them in another query.
THEOREM DemotionIsTheOwners == AdminSafety => OnlyOwnerDemotes
<1>1. IInv /\ [AdminNext]_adminVars =>
        [\A u \in Users : Demoted(u) =>
           \E h \in Handlers : /\ At(h, "write") /\ asked[h].target = u
                                /\ \/ asked[h].role = "owner"
                                   \/ asked[h].saw # "org_admin"]_adminVars
  <2> SUFFICES ASSUME IInv, AdminNext, NEW u \in Users, Demoted(u)
               PROVE  \E h \in Handlers : /\ At(h, "write") /\ asked[h].target = u
                                           /\ \/ asked[h].role = "owner"
                                              \/ asked[h].saw # "org_admin"
    OBVIOUS
  <2>1. PICK h \in Handlers : Write(h)
    BY DEF AdminNext, AdminStep, Ask, LookUpMember, Replay, Rotate, Record, AnswerAdmin,
           SeasonAsked, InsertSeason, DeleteSeason, Cut, tables, histories, Demoted
  <2> DEFINE q == asked[h]
  <2>2. q \in Requests /\ Asked(q) /\ Allowed(q) /\ q.at = "write" /\ q.op # "rotate"
    BY <2>1 DEF IInv, RequestsTyped, Checked, Write, At
  <2>3. q.target \in Users /\ q.op \in PlatformOps \cup MemberOps
    BY <2>2 DEF Asked, TargetsOf
  <2>4. users' = [users EXCEPT ![q.target] = Change(q, @)] /\ q.target = u
    BY <2>1, <2>3 DEF Write, Demoted, IInv, RequestsTyped
  <2>5. Change(q, users[u]).org # "org_admin" /\ users[u] \in Rows
        /\ users[u].org = "org_admin"
    BY <2>3, <2>4 DEF Demoted, IInv, RequestsTyped
  <2>6. q.op \in MemberOps /\ q.value # "org_admin"
    <3>1. q.value \in ValuesOf(q.op)
      BY <2>2 DEF Asked
    <3> QED BY <2>2, <2>3, <2>5, <3>1 DEF Change, PlatformOps, MemberOps, ValuesOf, Rows, Nobody
  <2> QED BY <2>1, <2>2, <2>4, <2>6 DEF Allowed, Write
<1> QED BY <1>1, Invariant, PTL DEF AdminSafety, OnlyOwnerDemotes
=============================================================================
