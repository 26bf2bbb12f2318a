----------------------------- MODULE MC_Accounts -----------------------------
\* People sign up and use the platform, or administrators work on people who
\* have signed up: on platform roles, on members, on the join code and on
\* seasons in parts of their own.
EXTENDS Identity, Administration
CONSTANTS ann, bea, cas, c1, c2
VARIABLE part

MC_Periods == {<<1, 3>>, <<2, 4>>, <<3, 5>>, <<1, 5>>}
MC_Retried == {<<ann, "rotate", Nobody, Nobody>>,
               <<ann, "suspension", bea, "suspend">>}

PartOf == [platform |-> {"platform role", "suspension"}, members |-> MemberOps,
           code |-> {"rotate", "suspension"}, seasons |-> {"season"},
           identity |-> {}]

SignedUp ==
    /\ account = [p \in People |->
         [handle |-> Handles[IF p = ann THEN 1 ELSE 2], hash |-> "word",
          consent |-> 0, suspended |-> FALSE, signedUpWith |-> "word"]]
    /\ session = {} /\ call = [c \in Callers |-> Idle] /\ terms = 0
    /\ early = {} /\ lockedOut = {}

AccountsInit == /\ part \in DOMAIN PartOf /\ AdminInit
                /\ IF part = "identity" THEN IdentityInit ELSE SignedUp
AccountsNext ==
    /\ UNCHANGED part
    /\ \/ part = "identity" /\ IdentityNext /\ UNCHANGED adminVars
       \/ /\ part # "identity" /\ AdminNext /\ UNCHANGED identityVars
          /\ \A h \in Handlers : asked'[h].op \in PartOf[part] \cup {Nobody}
          /\ seasons' # seasons => part = "seasons"
          /\ cuts' # cuts => part = "code"
AccountsSafety ==
    AccountsInit /\ [][AccountsNext]_<<part, identityVars, adminVars>>
AccountsSpec == AccountsSafety /\ IdentityFairness

\* Every variable has its type.
AccountsTypeOK == IdentityTypeOK /\ AdminTypeOK
=============================================================================
