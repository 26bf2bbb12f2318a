------------------------------- MODULE Identity -------------------------------
(***************************************************************************)
(* Accounts of the API in password mode (AUTH_MODE=local): registration,   *)
(* login, the session that names a user, suspension, and the consent that  *)
(* every account owes to the current documents.                            *)
(*                                                                         *)
(* A step is one query or what the handler does between two of them, so    *)
(* requests interleave at every await.  All people's e-mail addresses      *)
(* yield the same handle.  A restart drops the requests in flight; a new   *)
(* release may bring new documents.                                        *)
(*                                                                         *)
(* A definition whose comment starts with "Defect" is not part of the      *)
(* model: it is the definition that follows it with a bug the code could   *)
(* have had.                                                               *)
(***************************************************************************)
EXTENDS Naturals, Sequences, FiniteSets

CONSTANTS
    People,      \* each with an e-mail address of their own
    Callers,     \* concurrent requests
    NoAccount,
    Typed,       \* what is typed as a password
    MaxVersion   \* bound on releases with new documents

\* With or without blanks around it, or blanks only, of eight characters or
\* more in any case.
ASSUME TypedPasswords == "word" \in Typed /\ Typed \subseteq {"word", "padded", "blanks"}
ASSUME VersionBound == MaxVersion \in Nat

VARIABLES
    account,   \* the users table: per person a row or NoAccount
    session,   \* people who hold a session token
    call,      \* the requests in flight
    terms,     \* TERMS_VERSION and PRIVACY_POLICY_VERSION of the release
    early,     \* history: the routes served to an account that had not agreed
    lockedOut  \* history: people refused with the password they signed up with

identityVars == <<account, session, call, terms, early, lockedOut>>
history == <<early, lockedOut>>

Handles == <<"alice", "alice2", "alice3">>
Wishes == {"none", "alice"}

\* optionalTrimmedString, and the scrypt hash of what is left, if anything is.
Trimmed(typed) == IF typed = "padded" THEN "word" ELSE typed
HashOf(typed) == IF Trimmed(typed) = "blanks" THEN "none" ELSE Trimmed(typed)

\* verifyPassword: against the hash, with what is typed as it is.
Verifies(typed, hash) == hash # "none" /\ typed = hash

Idle == [at |-> "idle", who |-> NoAccount, route |-> "none", typed |-> "none",
         handle |-> "none"]

IdentityInit ==
    /\ account = [p \in People |-> NoAccount]
    /\ session = {} /\ call = [c \in Callers |-> Idle] /\ terms = 0
    /\ early = {} /\ lockedOut = {}

Exists(p) == account[p] # NoAccount
Taken(handle) == \E p \in People : Exists(p) /\ account[p].handle = handle
To(c, place) == call' = [call EXCEPT ![c].at = place]
Done(c) == call' = [call EXCEPT ![c] = Idle]

-----------------------------------------------------------------------------
(* POST /v1/auth/register                                                  *)

Register(c, p, typed, wish) ==
    /\ call[c].at = "idle"
    /\ call' = [call EXCEPT ![c] =
                  [at |-> IF wish = "none" THEN "derive" ELSE "insert",
                   who |-> p, route |-> "register", typed |-> typed,
                   handle |-> wish]]
    /\ UNCHANGED <<account, session, terms, history>>

\* Defect: the derived handle is taken without looking.
BaseHandle(c) == Handles[1]

\* findAvailableHandle: the first of the seed's variants that nobody has.
FirstFree(c) ==
    LET free == {i \in 1..Len(Handles) : ~Taken(Handles[i])}
    IN  IF free = {} THEN "random"
        ELSE Handles[CHOOSE i \in free : \A j \in free : i <= j]

DeriveHandle(c) ==
    /\ call[c].at = "derive"
    /\ call' = [call EXCEPT ![c].at = "insert", ![c].handle = FirstFree(c)]
    /\ UNCHANGED <<account, session, terms, history>>

\* The transaction, with the unique indexes on e-mail address and handle.
InsertUser(c) ==
    LET p == call[c].who IN
    /\ call[c].at = "insert"
    /\ IF Exists(p) \/ Taken(call[c].handle)
       THEN Done(c) /\ UNCHANGED account
       ELSE /\ account' = [account EXCEPT ![p] =
                 [handle |-> call[c].handle, hash |-> HashOf(call[c].typed),
                  consent |-> terms, suspended |-> FALSE,
                  signedUpWith |-> call[c].typed]]
            /\ To(c, "answer")
    /\ UNCHANGED <<session, terms, history>>

\* After the audit record the answer carries a session.
OpenSession(c) ==
    /\ call[c].at = "answer"
    /\ session' = session \cup {call[c].who}
    /\ Done(c)
    /\ UNCHANGED <<account, terms, history>>

-----------------------------------------------------------------------------
(* POST /v1/auth/login: one error for an unknown address or password.      *)

Login(c, p, typed) ==
    /\ call[c].at = "idle"
    /\ IF Exists(p) /\ Verifies(typed, account[p].hash)
       THEN /\ call' = IF account[p].suspended THEN call
                       ELSE [call EXCEPT ![c] =
                               [Idle EXCEPT !.at = "answer", !.who = p,
                                            !.route = "login"]]
            /\ UNCHANGED lockedOut
       ELSE /\ Exists(p) /\ account[p].signedUpWith = typed
            /\ lockedOut' = lockedOut \cup {p}
            /\ UNCHANGED call
    /\ UNCHANGED <<account, session, terms, early>>

-----------------------------------------------------------------------------
(* Every other route: the session names the user, whose row is read once.  *)

Served == {"labs", "admin", "consent"}

Outstanding(p) == account[p].consent # terms

\* rejectSuspendedAccount; then the routes under /v1/admin are decided; then
\* the gate that lets only /v1/me and /v1/me/consent through.
Admitted(p, route) ==
    /\ p \in session /\ Exists(p) /\ ~account[p].suspended
    /\ route \in {"admin", "consent"} \/ ~Outstanding(p)

Resolve(c, p, route) ==
    /\ call[c].at = "idle" /\ Admitted(p, route)
    /\ call' = [call EXCEPT ![c] = [Idle EXCEPT !.at = route, !.who = p,
                                                !.route = route]]
    /\ UNCHANGED <<account, session, terms, history>>

Serve(c) ==
    /\ call[c].at \in {"labs", "admin"}
    /\ early' = IF Outstanding(call[c].who) THEN early \cup {call[c].route}
                                            ELSE early
    /\ Done(c)
    /\ UNCHANGED <<account, session, terms, lockedOut>>

\* recordUserConsent: the versions of the release that serves the request.
Agree(c) ==
    LET p == call[c].who IN
    /\ call[c].at = "consent"
    /\ account' = [account EXCEPT ![p].consent = terms]
    /\ Done(c)
    /\ UNCHANGED <<session, terms, history>>

\* setUserDisabled, by an administrator.
SetSuspended(p) ==
    /\ Exists(p)
    /\ account' = [account EXCEPT ![p].suspended = ~@]
    /\ UNCHANGED <<session, call, terms, history>>

NewRelease ==
    /\ terms < MaxVersion /\ terms' = terms + 1
    /\ call' = [c \in Callers |-> Idle]
    /\ UNCHANGED <<account, session, history>>

IdentityNext ==
    \/ \E c \in Callers :
         \/ DeriveHandle(c) \/ InsertUser(c) \/ OpenSession(c)
         \/ Serve(c) \/ Agree(c)
         \/ \E p \in People :
              \/ \E typed \in Typed : \/ Login(c, p, typed)
                                      \/ \E wish \in Wishes :
                                           Register(c, p, typed, wish)
              \/ \E route \in Served : Resolve(c, p, route)
    \/ \E p \in People : SetSuspended(p)
    \/ NewRelease

\* A request that was received is served; a person who wants an account and
\* chooses no handle tries again after a conflict.
SignUpAgain(p) ==
    \E c \in Callers : ~Exists(p) /\ Register(c, p, "word", "none")

IdentityFairness ==
    /\ \A c \in Callers :
         WF_identityVars(\/ DeriveHandle(c) \/ InsertUser(c) \/ OpenSession(c)
                         \/ Serve(c) \/ Agree(c))
    /\ \A p \in People : SF_identityVars(SignUpAgain(p))

IdentitySafety == IdentityInit /\ [][IdentityNext]_identityVars

-----------------------------------------------------------------------------
Versions == 0..MaxVersion
HandleNames == {Handles[i] : i \in 1..Len(Handles)} \cup {"random"}

\* Every variable has its type.
IdentityTypeOK ==
    /\ \A p \in People : Exists(p) =>
         account[p] \in [handle : HandleNames, hash : {"none", "word"},
                         consent : Versions, suspended : BOOLEAN,
                         signedUpWith : Typed]
    /\ session \subseteq People
    /\ call \in [Callers ->
         [at : {"idle", "derive", "insert", "answer"} \cup Served,
          who : People \cup {NoAccount},
          route : Served \cup {"none", "register", "login"},
          typed : Typed \cup {"none"}, handle : HandleNames \cup {"none"}]]
    /\ terms \in Versions
    /\ early \subseteq Served /\ lockedOut \subseteq People

\* A person who tries gets an account, although others with the same derived
\* handle are signing up at the same time.
SignUpSucceeds == \A p \in People : <>Exists(p)

\* app.ts: "register -> session -> use, with an explicit login available on
\* return": who signed up with a password can log in with it.
RegisteredCanLogIn == lockedOut = {}
=============================================================================
