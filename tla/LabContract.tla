---------------------------- MODULE LabContract ----------------------------
(***************************************************************************)
(* What the platform promises about a lab, whatever requests, remote calls *)
(* and restarts it takes: its target changes only while it is a draft, and *)
(* then only to an image that was built for it; an administrator's hold    *)
(* keeps it quarantined until it is released, and a released lab is a      *)
(* draft.                                                                  *)
(***************************************************************************)
CONSTANTS Labs, Images, NoImage

VARIABLES phase,    \* phase[l]: "absent" until created, then the status shown
          held,     \* labs that an administrator has quarantined
          target,   \* target[l]: the image that a run of l is started from
          made      \* made[i]: the labs that image i was built for

lvars == <<phase, held, target, made>>

Init ==
    /\ phase = [l \in Labs |-> "absent"]
    /\ held = {}
    /\ target = [l \in Labs |-> NoImage]
    /\ made = [i \in Images |-> {}]

Create(l) ==
    /\ phase[l] = "absent"
    /\ phase' = [phase EXCEPT ![l] = "draft"]
    /\ UNCHANGED <<held, target, made>>

Build(i, l) ==
    /\ made[i] = {}
    /\ made' = [made EXCEPT ![i] = {l}]
    /\ UNCHANGED <<phase, held, target>>

Retarget(l, i) ==
    /\ phase[l] = "draft"
    /\ l \in made[i]
    /\ target' = [target EXCEPT ![l] = i]
    /\ UNCHANGED <<phase, held, made>>

Pass(l) ==
    /\ phase[l] # "absent"
    /\ target[l] # NoImage
    /\ l \notin held
    /\ phase' = [phase EXCEPT ![l] = "validated"]
    /\ UNCHANGED <<held, target, made>>

Fail(l) ==
    /\ phase[l] # "absent"
    /\ phase' = [phase EXCEPT ![l] = "quarantined"]
    /\ UNCHANGED <<held, target, made>>

Hold(l) ==
    /\ phase[l] # "absent"
    /\ phase' = [phase EXCEPT ![l] = "quarantined"]
    /\ held' = held \cup {l}
    /\ UNCHANGED <<target, made>>

Release(l) ==
    /\ phase[l] = "quarantined"
    /\ phase' = [phase EXCEPT ![l] = "draft"]
    /\ held' = held \ {l}
    /\ UNCHANGED <<target, made>>

Next ==
    \E l \in Labs :
        \/ Create(l) \/ Pass(l) \/ Fail(l) \/ Hold(l) \/ Release(l)
        \/ \E i \in Images : Build(i, l) \/ Retarget(l, i)

Spec == Init /\ [][Next]_lvars
=============================================================================
