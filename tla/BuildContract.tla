--------------------------- MODULE BuildContract ---------------------------
(***************************************************************************)
(* What the environment builder promises its only client, the platform    *)
(* API: an idempotency key names at most one build; a build is accepted    *)
(* once, finishes once, and carries an image exactly when it succeeded,    *)
(* which it does only for an output that has been signed and verified.     *)
(* How many replicas, retries, restarts and Kubernetes calls that takes    *)
(* is BuildService's concern.                                              *)
(***************************************************************************)
CONSTANTS Builds, Keys, NoKey

VARIABLES phase,   \* phase[b]: "none" until accepted, then the public status
          key,     \* key[b]: the idempotency key that build b answers
          image,   \* image[b]: the build exposes an image reference and digest
          sealed   \* the builds whose output has been signed and verified

cvars == <<phase, key, image, sealed>>

Active == {"queued", "running"}
Terminal == {"succeeded", "failed", "cancelled"}

Init ==
    /\ phase = [b \in Builds |-> "none"]
    /\ key = [b \in Builds |-> NoKey]
    /\ image = [b \in Builds |-> FALSE]
    /\ sealed = {}

Accept(b, k) ==
    /\ phase[b] = "none"
    /\ \A c \in Builds : key[c] # k
    /\ phase' = [phase EXCEPT ![b] = "queued"]
    /\ key' = [key EXCEPT ![b] = k]
    /\ UNCHANGED <<image, sealed>>

Begin(b) ==
    /\ phase[b] = "queued"
    /\ phase' = [phase EXCEPT ![b] = "running"]
    /\ UNCHANGED <<key, image, sealed>>

Seal(b) ==
    /\ phase[b] # "none"
    /\ sealed' = sealed \cup {b}
    /\ UNCHANGED <<phase, key, image>>

Succeed(b) ==
    /\ phase[b] \in Active
    /\ b \in sealed
    /\ phase' = [phase EXCEPT ![b] = "succeeded"]
    /\ image' = [image EXCEPT ![b] = TRUE]
    /\ UNCHANGED <<key, sealed>>

Abandon(b) ==
    /\ phase[b] \in Active
    /\ \E s \in {"failed", "cancelled"} : phase' = [phase EXCEPT ![b] = s]
    /\ UNCHANGED <<key, image, sealed>>

Next ==
    \E b \in Builds :
        \/ \E k \in Keys : Accept(b, k)
        \/ Begin(b)
        \/ Seal(b)
        \/ Succeed(b)
        \/ Abandon(b)

Spec == Init /\ [][Next]_cvars
=============================================================================
