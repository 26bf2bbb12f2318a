---------------------------- MODULE NetworkPolicy ----------------------------
(***************************************************************************)
(* What a Kubernetes NetworkPolicy means.  A rule belongs to a policy,     *)
(* selects pods by role in one direction and names the peers and the port  *)
(* it opens; a policy without peers closes.                                *)
(***************************************************************************)

Rule(policy, dir, pods, peers, port) ==
    [policy |-> policy, dir |-> dir, pods |-> pods, peers |-> peers,
     port |-> port]

\* A pod that no rule selects in a direction is open in that direction, any
\* other only to what some rule names.
Open(rules, dir, pod, peer, port) ==
    LET mine == {r \in rules : r.dir = dir /\ pod \in r.pods}
    IN  mine # {} => \E r \in mine : peer \in r.peers /\ port = r.port

\* A connection needs the egress of its source and the ingress of its
\* destination; rules select only pods of the namespace.
Connects(rules, src, dst, port) == /\ Open(rules, "egress", src, dst, port)
                                   /\ Open(rules, "ingress", dst, src, port)
=============================================================================
