---------------------------- MODULE RunContract ----------------------------
(***************************************************************************)
(* What the platform promises about a learner's run, whatever requests,   *)
(* timers, remote calls and restarts it takes: a run settles once and ends *)
(* for good; a ticket lets its holder in once, and only while the run is   *)
(* ready; a run is graded once.                                            *)
(***************************************************************************)
EXTENDS Naturals

CONSTANTS Runs, Tickets, NoRun

VARIABLES phase,    \* phase[r]: "none" until deployed, then the status shown
          pass,     \* pass[t]: the run that ticket t is for
          entries,  \* entries[t]: how often ticket t has opened a session
          grades    \* grades[r]: how many results run r has

rvars == <<phase, pass, entries, grades>>

Open == {"provisioning", "ready", "failed"}

Init ==
    /\ phase = [r \in Runs |-> "none"]
    /\ pass = [t \in Tickets |-> NoRun]
    /\ entries = [t \in Tickets |-> 0]
    /\ grades = [r \in Runs |-> 0]

Launch(r) ==
    /\ phase[r] = "none"
    /\ \E s \in {"provisioning", "ready"} : phase' = [phase EXCEPT ![r] = s]
    /\ UNCHANGED <<pass, entries, grades>>

Settle(r) ==
    /\ phase[r] = "provisioning"
    /\ \E s \in {"ready", "failed"} : phase' = [phase EXCEPT ![r] = s]
    /\ UNCHANGED <<pass, entries, grades>>

End(r) ==
    /\ phase[r] \in Open
    /\ \E s \in {"stopped", "expired"} : phase' = [phase EXCEPT ![r] = s]
    /\ UNCHANGED <<pass, entries, grades>>

Issue(t, r) ==
    /\ pass[t] = NoRun
    /\ phase[r] # "none"
    /\ pass' = [pass EXCEPT ![t] = r]
    /\ UNCHANGED <<phase, entries, grades>>

Enter(t) ==
    /\ pass[t] # NoRun
    /\ phase[pass[t]] = "ready"
    /\ entries[t] = 0
    /\ entries' = [entries EXCEPT ![t] = 1]
    /\ UNCHANGED <<phase, pass, grades>>

Grade(r) ==
    /\ phase[r] # "none"
    /\ grades[r] = 0
    /\ grades' = [grades EXCEPT ![r] = 1]
    /\ UNCHANGED <<phase, pass, entries>>

Next ==
    \/ \E r \in Runs : Launch(r) \/ Settle(r) \/ End(r) \/ Grade(r)
    \/ \E t \in Tickets : Enter(t) \/ \E r \in Runs : Issue(t, r)

Spec == Init /\ [][Next]_rvars
=============================================================================
