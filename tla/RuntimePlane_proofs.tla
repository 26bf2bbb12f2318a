------------------------- MODULE RuntimePlane_proofs -------------------------
(***************************************************************************)
(* What the runtime plane keeps whatever fails and whoever restarts.  Of a *)
(* run: its VPN profile is revoked before its namespace goes, OpenVPN is   *)
(* started behind a complete packet filter, every stage of a provision is  *)
(* sealed off from the internet, the API and the other runs, and a run     *)
(* that is said to be ready is whole.  Of the validation of a lab: what it *)
(* passes has been shown, and its sandbox is confined while it is there.   *)
(* And what comes about in the end: an expired run loses its tunnel, a     *)
(* gateway that nothing disturbs comes up, a sandbox goes.  ENABLED is out *)
(* of the prover's reach: these three say that the guards named in         *)
(* GatewayIsAble and SandboxIsAble are all that the fair actions need.     *)
(***************************************************************************)
EXTENDS RangePlane, LabValidation, SequenceTheorems, FiniteSetTheorems, TLAPS

-----------------------------------------------------------------------------
(* One run: its profile, its namespace and its gateway.                     *)

\* The POST for a profile is on its way only while provision waits for it, or
\* after it has given up: it stores nothing once the run is provisioned.
Issuing == /\ issuing \in {"none", "sent", "stored", "abandoned"}
           /\ issuing \in {"sent", "stored"} => prov = "issue"
           /\ issuing = "abandoned" => prov = "failed"

\* A destroy was allowed by the answer of provision, and revoked first.
Destroying ==
    /\ destroy \in [Destroyers -> {"idle", "revoke", "delete", "answered"}]
    /\ \A d \in Destroyers :
         /\ destroy[d] # "idle" => prov = "done"
         /\ destroy[d] \in {"delete", "answered"} => profile # "active"

\* A namespace goes because a destroy asked for it.
Going == ns \in {"terminating", "gone"} => prov = "done" /\ profile # "active"

Revoking == Issuing /\ Destroying /\ Going

\* The ready marker is only in a directory whose container is up.
Marked ==
    /\ DOMAIN disk = {"files", "marker"}
    /\ gw \in {"fetch", "write", "flush", "hook", "rules", "spawn", "tunnel"}
         => disk.marker = FALSE

\* The chain is complete from the moment the last rule has been found there.
Filtering ==
    /\ DOMAIN fw = {"chain", "hook"}
    /\ gw \in {"rules", "spawn", "tunnel", "up"} => fw.hook = TRUE
    /\ gw \in {"spawn", "tunnel", "up"} => fw.chain = Chain

IInv == /\ gw \in GatewayPlaces
        /\ Revoking /\ Marked /\ Filtering

LEMMA InitHolds == RangeInit => IInv
BY DEF RangeInit, IInv, Revoking, Issuing, Destroying, Going, Marked, Filtering,
       GatewayPlaces, NoDisk, NoFilter

-----------------------------------------------------------------------------
(* The control plane and the issuer.                                        *)

LEMMA ProvisionStep ==
    ASSUME Revoking,
           \/ ProvisionStart \/ IssueStore \/ IssueAnswered \/ IssueFailed
           \/ BuildFails \/ Apply \/ ApplyFails \/ Undo
    PROVE  Revoking' /\ UNCHANGED <<gw, fw, disk>>
<1>1. UNCHANGED <<destroy, gw, fw, disk>>
  BY DEF ProvisionStart, IssueStore, IssueAnswered, IssueFailed, BuildFails, Apply,
         ApplyFails, Undo, pod
<1>2. CASE ProvisionStart \/ IssueAnswered \/ IssueFailed \/ BuildFails
  <2>1. prov # "done" /\ UNCHANGED <<ns, profile>>
    BY <1>2 DEF ProvisionStart, IssueAnswered, IssueFailed, BuildFails
  <2>2. Issuing'
    BY <1>2 DEF Revoking, Issuing, ProvisionStart, IssueAnswered, IssueFailed,
                BuildFails
  <2> QED BY <1>1, <2>1, <2>2 DEF Revoking, Destroying, Going
<1>3. CASE IssueStore
  <2>1. prov # "done" /\ UNCHANGED <<prov, ns>>
    BY <1>3 DEF Revoking, Issuing, IssueStore
  <2>2. Issuing'
    BY <1>3, <2>1 DEF Revoking, Issuing, IssueStore
  <2> QED BY <1>1, <2>1, <2>2 DEF Revoking, Destroying, Going
<1>4. CASE Apply \/ ApplyFails
  <2>1. /\ prov = "apply" /\ UNCHANGED <<issuing, profile>>
        /\ ns' \in {"live", ns}
    BY <1>4 DEF Apply, ApplyFails
  <2>2. issuing = "none"
    BY <2>1 DEF Revoking, Issuing
  <2> QED BY <1>1, <2>1, <2>2 DEF Revoking, Issuing, Destroying, Going
<1>5. CASE Undo
  <2>1. prov = "undo" /\ UNCHANGED <<issuing, ns>>
    BY <1>5 DEF Undo
  <2>2. issuing = "none"
    BY <2>1 DEF Revoking, Issuing
  <2> QED BY <1>1, <2>1, <2>2 DEF Revoking, Issuing, Destroying, Going
<1> QED BY <1>1, <1>2, <1>3, <1>4, <1>5

\* A revocation leaves no active profile, a failing one makes none.
LEMMA RevokedIsNotActive == Revoked # "active"
BY DEF Revoked

LEMMA DestroyerStep ==
    ASSUME Revoking, NEW d \in Destroyers,
           \/ DestroyStart(d) \/ DestroyStep(d) \/ RevokeFails(d) \/ DeleteFails(d)
    PROVE  Revoking' /\ UNCHANGED <<gw, fw, disk>>
<1>1. UNCHANGED <<prov, issuing, gw, fw, disk>>
  BY DEF DestroyStart, DestroyStep, DestroyRevoke, DestroyNamespace, RevokeFails,
         DeleteFails, pod, caller
<1>2. prov = "done"
  BY DEF DestroyStart, DestroyStep, DestroyRevoke, DestroyNamespace, RevokeFails,
         DeleteFails, Revoking, Destroying
<1>3. PICK place \in {"idle", "revoke", "delete", "answered"} :
         /\ destroy' = [destroy EXCEPT ![d] = place]
         /\ place \in {"delete", "answered"} => profile' # "active"
         /\ ns' # ns => profile' # "active"
         /\ profile # "active" => profile' # "active"
  <2>1. CASE DestroyStart(d)
    BY <2>1 DEF DestroyStart
  <2>2. CASE DestroyRevoke(d)
    BY <2>2, RevokedIsNotActive DEF DestroyRevoke
  <2>3. CASE DestroyNamespace(d) \/ DeleteFails(d)
    BY <2>3 DEF DestroyNamespace, DeleteFails, Revoking, Destroying
  <2>4. CASE RevokeFails(d)
    BY <2>4 DEF RevokeFails, Revoked
  <2> QED BY <2>1, <2>2, <2>3, <2>4 DEF DestroyStep
<1>4. Destroying'
  BY <1>1, <1>2, <1>3 DEF Revoking, Destroying
<1> QED BY <1>1, <1>2, <1>3, <1>4 DEF Revoking, Issuing, Going

LEMMA RestartStep ==
    ASSUME Revoking, RuntimeRestart
    PROVE  Revoking' /\ UNCHANGED <<gw, fw, disk>>
<1>1. UNCHANGED <<ns, profile, gw, fw, disk>> /\ (prov = "done" => prov' = "done")
  BY DEF RuntimeRestart, pod
<1>2. Issuing'
  BY DEF RuntimeRestart, Revoking, Issuing
<1>3. Destroying'
  <2>1. \A d \in Destroyers :
           destroy'[d] = IF destroy[d] = "answered" THEN "answered" ELSE "idle"
    BY DEF RuntimeRestart
  <2>2. destroy' \in [Destroyers -> {"idle", "revoke", "delete", "answered"}]
    BY DEF RuntimeRestart
  <2> QED BY <1>1, <2>1, <2>2 DEF Revoking, Destroying
<1> QED BY <1>1, <1>2, <1>3 DEF Revoking, Going

-----------------------------------------------------------------------------
(* The gateway container and its pod.                                       *)

\* What the container does concerns neither profile nor namespace.
LEMMA ContainerStep ==
    ASSUME IInv, GatewayStep \/ ExpiryTimer \/ GatewayFails \/ PodReplaced
    PROVE  IInv'
<1>1. UNCHANGED <<prov, issuing, destroy, ns, profile>>
  BY DEF GatewayStep, PodUp, GatewayStart, Bootstrap, WriteBundle, FlushChain,
         HookChain, AppendRule, SpawnOpenVpn, TunnelUp, ExpiryTimer, GatewayFails,
         PodReplaced, container, caller
<1>2. Revoking'
  BY <1>1 DEF IInv, Revoking, Issuing, Destroying, Going
<1>3. (gw \in GatewayPlaces /\ Marked)'
  <2>1. CASE PodUp \/ GatewayStart \/ PodReplaced
    BY <2>1 DEF IInv, Marked, GatewayPlaces, PodUp, GatewayStart, PodReplaced, NoDisk
  <2>2. CASE Bootstrap \/ FlushChain \/ HookChain \/ AppendRule
    BY <2>2 DEF IInv, Marked, GatewayPlaces, Bootstrap, FlushChain, HookChain,
                AppendRule
  <2>3. CASE WriteBundle
    BY <2>3 DEF IInv, Marked, GatewayPlaces, WriteBundle
  <2>4. CASE SpawnOpenVpn \/ TunnelUp
    BY <2>4 DEF IInv, Marked, GatewayPlaces, SpawnOpenVpn, TunnelUp
  <2>5. CASE ExpiryTimer \/ GatewayFails
    BY <2>5 DEF IInv, Marked, GatewayPlaces, ExpiryTimer, GatewayFails
  <2> QED BY <2>1, <2>2, <2>3, <2>4, <2>5 DEF GatewayStep
<1>4. Filtering'
  <2>1. CASE PodUp \/ GatewayStart \/ Bootstrap \/ WriteBundle
    BY <2>1 DEF IInv, Filtering, PodUp, GatewayStart, Bootstrap, WriteBundle
  <2>2. CASE FlushChain
    BY <2>2 DEF IInv, Filtering, FlushChain
  <2>3. CASE HookChain
    BY <2>3 DEF IInv, Filtering, HookChain
  <2>4. CASE AppendRule
    <3>1. CASE fw.chain = Chain
      BY <2>4, <3>1 DEF IInv, Filtering, AppendRule
    <3>2. CASE fw.chain # Chain
      BY <2>4, <3>2 DEF IInv, Filtering, AppendRule
    <3> QED BY <3>1, <3>2
  <2>5. CASE SpawnOpenVpn \/ TunnelUp
    BY <2>5 DEF IInv, Filtering, SpawnOpenVpn, TunnelUp
  <2>6. CASE ExpiryTimer \/ GatewayFails
    BY <2>6 DEF IInv, Filtering, ExpiryTimer, GatewayFails
  <2>7. CASE PodReplaced
    BY <2>7 DEF Filtering, PodReplaced, NoFilter
  <2> QED BY <2>1, <2>2, <2>3, <2>4, <2>5, <2>6, <2>7 DEF GatewayStep
<1> QED BY <1>2, <1>3, <1>4 DEF IInv

LEMMA RemovalStep ==
    ASSUME IInv, NamespaceRemoved
    PROVE  IInv'
<1>1. /\ UNCHANGED <<prov, issuing, destroy, profile>> /\ ns = "terminating"
      /\ gw' = "none" /\ fw' = NoFilter /\ disk' = NoDisk
  BY DEF NamespaceRemoved, caller
<1>2. Revoking'
  BY <1>1 DEF IInv, Revoking, Issuing, Destroying, Going
<1>3. (gw \in GatewayPlaces /\ Marked /\ Filtering)'
  BY <1>1 DEF GatewayPlaces, Marked, Filtering, NoFilter, NoDisk
<1> QED BY <1>2, <1>3 DEF IInv

-----------------------------------------------------------------------------
LEMMA Inductive == IInv /\ [RangeNext]_rangeVars => IInv'
<1> SUFFICES ASSUME IInv, [RangeNext]_rangeVars PROVE IInv'
  OBVIOUS
<1>1. ASSUME UNCHANGED <<prov, issuing, destroy, ns, profile, gw, fw, disk>>
      PROVE  IInv'
  BY <1>1 DEF IInv, Revoking, Issuing, Destroying, Going, Marked, Filtering
<1>2. ASSUME Revoking', UNCHANGED <<gw, fw, disk>>
      PROVE  IInv'
  BY <1>2 DEF IInv, Marked, Filtering
<1>3. CASE UNCHANGED rangeVars
  BY <1>1, <1>3 DEF rangeVars
<1>4. CASE GetStart \/ ReadPod \/ Answer \/ TicketExchanged \/ Download \/ Expire
  BY <1>1, <1>4
     DEF GetStart, ReadPod, Answer, TicketExchanged, Download, Expire, caller, pod
<1>5. CASE \/ ProvisionStart \/ IssueStore \/ IssueAnswered \/ IssueFailed
           \/ BuildFails \/ Apply \/ ApplyFails \/ Undo \/ RuntimeRestart
  BY <1>2, <1>5, ProvisionStep, RestartStep DEF IInv
<1>6. ASSUME NEW d \in Destroyers,
             \/ DestroyStart(d) \/ DestroyStep(d) \/ RevokeFails(d) \/ DeleteFails(d)
      PROVE  IInv'
  BY <1>2, <1>6, DestroyerStep DEF IInv
<1>7. CASE GatewayStep \/ ExpiryTimer \/ GatewayFails \/ PodReplaced
  BY <1>7, ContainerStep
<1> QED BY <1>3, <1>4, <1>5, <1>6, <1>7, RemovalStep DEF RangeNext

LEMMA Always == RangeSafety => []IInv
BY InitHolds, Inductive, PTL DEF RangeSafety

\* RevokedBeforeTornDown for any number of concurrent destroys, faults and
\* restarts: the namespace of a run goes only after its VPN profile, which no
\* issuer stores again (adapter.ts destroy, openvpn-issuer postgres.ts).
THEOREM AccessGoesFirst == RangeSafety => []RevokedBeforeTornDown
<1>1. IInv => RevokedBeforeTornDown
  BY DEF IInv, Revoking, Going, RevokedBeforeTornDown
<1> QED BY <1>1, Always, PTL

\* FilterBeforeTunnel for any number of faults, restarts and replaced pods:
\* OpenVPN runs behind the complete chain, and a pod is ready only with its
\* tunnel up (gateway.ts).
THEOREM FilterComesFirst == RangeSafety => []FilterBeforeTunnel
<1>1. IInv => FilterBeforeTunnel
  BY DEF IInv, Marked, Filtering, GatewayPlaces, FilterBeforeTunnel, Serving, PodReady
<1> QED BY <1>1, Always, PTL

-----------------------------------------------------------------------------
(* Every stage of a provision is sealed off: the objects come in the order  *)
(* of the plan, the default denial before the first workload, and what the  *)
(* rules name is all that is left open.                                     *)

Objects == {BaseObjects[i] : i \in 1..12} \cup {BlueObjects[i] : i \in 1..11}
           \cup {BrowserObjects[i] : i \in 1..2} \cup {VpnObjects[i] : i \in 1..5}

LEMMA WiderSeq ==
    ASSUME NEW S, NEW T, S \subseteq T, NEW s \in Seq(S)
    PROVE  s \in Seq(T)
OBVIOUS

LEMMA PartsAreSequences ==
    /\ BaseObjects \in Seq(Objects) /\ Len(BaseObjects) = 12
    /\ BlueObjects \in Seq(Objects) /\ BrowserObjects \in Seq(Objects)
    /\ VpnObjects \in Seq(Objects)
<1>1. BaseObjects \in Seq(Objects)
  <2>1. BaseObjects \in Seq({BaseObjects[i] : i \in 1..12})
    BY DEF BaseObjects
  <2> QED BY <2>1, WiderSeq DEF Objects
<1>2. Len(BaseObjects) = 12
  BY DEF BaseObjects
<1>3. BlueObjects \in Seq(Objects)
  <2>1. BlueObjects \in Seq({BlueObjects[i] : i \in 1..11})
    BY DEF BlueObjects
  <2> QED BY <2>1, WiderSeq DEF Objects
<1>4. BrowserObjects \in Seq(Objects)
  <2>1. BrowserObjects \in Seq({BrowserObjects[i] : i \in 1..2})
    BY DEF BrowserObjects
  <2> QED BY <2>1, WiderSeq DEF Objects
<1>5. VpnObjects \in Seq(Objects)
  <2>1. VpnObjects \in Seq({VpnObjects[i] : i \in 1..5})
    BY DEF VpnObjects
  <2> QED BY <2>1, WiderSeq DEF Objects
<1> QED BY <1>1, <1>2, <1>3, <1>4, <1>5

LEMMA Prefix ==
    ASSUME NEW s \in Seq(Objects), NEW t \in Seq(Objects)
    PROVE  /\ s \o t \in Seq(Objects) /\ Len(s \o t) >= Len(s)
           /\ \A i \in 1..Len(s) : (s \o t)[i] = s[i]
BY ConcatProperties

LEMMA PlanBegins ==
    ASSUME NEW q \in Requests
    PROVE  /\ Len(Plan(q)) \in Nat /\ Len(Plan(q)) >= 12
           /\ \A i \in 1..12 : Plan(q)[i] = BaseObjects[i]
<1> DEFINE b == BaseObjects
           c == b \o (IF Blue(q) THEN BlueObjects ELSE <<>>)
           d == c \o (IF HasBrowser(q) THEN BrowserObjects ELSE <<>>)
           e == d \o (IF HasVpn(q) THEN VpnObjects ELSE <<>>)
<1>1. b \in Seq(Objects) /\ Len(b) = 12
  BY PartsAreSequences
<1>2. c \in Seq(Objects) /\ Len(c) >= 12 /\ \A i \in 1..12 : c[i] = b[i]
  <2>1. (IF Blue(q) THEN BlueObjects ELSE <<>>) \in Seq(Objects)
    BY PartsAreSequences
  <2> QED BY <1>1, <2>1, Prefix
<1> HIDE DEF c
<1>3. d \in Seq(Objects) /\ Len(d) >= 12 /\ \A i \in 1..12 : d[i] = b[i]
  <2>1. (IF HasBrowser(q) THEN BrowserObjects ELSE <<>>) \in Seq(Objects)
    BY PartsAreSequences
  <2>2. d \in Seq(Objects) /\ Len(d) >= Len(c) /\ \A i \in 1..Len(c) : d[i] = c[i]
    BY <1>2, <2>1, Prefix
  <2>3. Len(c) \in Nat
    BY <1>2
  <2> QED BY <1>2, <2>2, <2>3
<1> HIDE DEF d
<1>4. e \in Seq(Objects) /\ Len(e) >= 12 /\ \A i \in 1..12 : e[i] = b[i]
  <2>1. (IF HasVpn(q) THEN VpnObjects ELSE <<>>) \in Seq(Objects)
    BY PartsAreSequences
  <2>2. e \in Seq(Objects) /\ Len(e) >= Len(d) /\ \A i \in 1..Len(d) : e[i] = d[i]
    BY <1>3, <2>1, Prefix
  <2>3. Len(d) \in Nat
    BY <1>3
  <2> QED BY <1>3, <2>2, <2>3
<1>5. Plan(q) = e
  BY DEF Plan, c, d
<1> HIDE DEF e
<1> QED BY <1>4, <1>5

\* Where a workload is, the default denial is.
LEMMA DenialIsThere ==
    ASSUME NEW q \in Requests, NEW n \in 0..Len(Plan(q)), NEW role \in Roles,
           Lives(q, n, role)
    PROVE  Policy("default-deny") \in Applied(q, n)
<1>1. Workload(role) \in Applied(q, n)
  BY DEF Lives, Present
<1>2. PICK i \in 1..n : Plan(q)[i] = Workload(role)
  BY <1>1 DEF Applied
<1>3. Workload(role).kind \in {"VirtualMachine", "Deployment"}
  BY DEF Workload, Obj
<1>4. \A j \in 1..5 : BaseObjects[j].kind \notin {"VirtualMachine", "Deployment"}
  BY DEF BaseObjects, Policy, Obj
<1>5. i > 5
  <2>1. ASSUME i <= 5 PROVE FALSE
    <3>1. i \in 1..5 /\ i \in 1..12
      BY <2>1
    <3> QED BY <1>2, <1>3, <1>4, <3>1, PlanBegins
  <2> QED BY <2>1
<1>6. Plan(q)[5] = Policy("default-deny") /\ 5 \in 1..n
  <2>1. BaseObjects[5] = Policy("default-deny")
    BY DEF BaseObjects
  <2> QED BY <1>5, <2>1, PlanBegins
<1> QED BY <1>6 DEF Applied

Apart == {"internet", "api", "other-run"}

\* What the rules of a run name, whatever it asks for.
LEMMA WhatRulesName ==
    ASSUME NEW q \in Requests, NEW r \in RulesOf(q)
    PROVE  /\ r.dir = "egress" =>
                /\ \A out \in Apart : out \notin r.peers
                /\ "target" \in r.pods => "workstation" \notin r.peers
           /\ r.dir = "ingress" /\ (\E out \in Apart : out \in r.peers)
                => r.pods = {"vpn-gateway"} /\ r.port = "openvpn"
<1>1. CASE r \in BaseRules(q)
  BY <1>1 DEF BaseRules, Rule, Apart, Roles
<1>2. CASE r \in BlueRules
  BY <1>2 DEF BlueRules, Rule, Apart
<1>3. CASE r \in GatewayRules
  BY <1>3 DEF GatewayRules, Rule, Apart, Roles, Outside
<1> QED BY <1>1, <1>2, <1>3 DEF RulesOf

LEMMA PermittedConnects ==
    ASSUME NEW q, NEW n, NEW src, NEW dst, NEW port, Permitted(q, n, src, dst, port)
    PROVE  /\ Open(InForce(q, n), "egress", src, dst, port)
           /\ Open(InForce(q, n), "ingress", dst, src, port)
BY DEF Permitted, Flows, OpenAt, Connects

LEMMA Denied ==
    ASSUME NEW q \in Requests, NEW n \in 0..Len(Plan(q)), NEW role \in Roles,
           Lives(q, n, role)
    PROVE  /\ \E r \in InForce(q, n) : r.dir = "egress" /\ role \in r.pods
           /\ \E r \in InForce(q, n) : r.dir = "ingress" /\ role \in r.pods
<1> DEFINE out == Rule("default-deny", "egress", Roles, {}, "none")
           in == Rule("default-deny", "ingress", Roles, {}, "none")
<1>1. out \in RulesOf(q) /\ in \in RulesOf(q)
  BY DEF RulesOf, BaseRules
<1>2. /\ out.policy = "default-deny" /\ out.dir = "egress" /\ out.pods = Roles
      /\ in.policy = "default-deny" /\ in.dir = "ingress" /\ in.pods = Roles
  BY DEF Rule
<1> HIDE DEF out, in
<1> QED BY <1>1, <1>2, DenialIsThere DEF InForce

LEMMA EveryStageIsSealed ==
    ASSUME NEW q \in Requests, NEW n \in 0..Len(Plan(q))
    PROVE  Sealed(q, n)
<1> SUFFICES ASSUME NEW role \in Roles, Lives(q, n, role)
             PROVE  /\ \A out \in Apart, port \in Ports :
                         /\ ~Permitted(q, n, role, out, port)
                         /\ Permitted(q, n, out, role, port)
                              => role = "vpn-gateway" /\ port = "openvpn"
                    /\ role = "target" =>
                         \A port \in Ports : ~Permitted(q, n, role, "workstation", port)
  BY DEF Sealed, Apart
<1>1. ASSUME NEW peer, NEW port, Permitted(q, n, role, peer, port)
      PROVE  \E r \in RulesOf(q) : r.dir = "egress" /\ role \in r.pods /\ peer \in r.peers
  BY <1>1, PermittedConnects, Denied DEF Open, InForce
<1>2. ASSUME NEW peer, NEW port, Permitted(q, n, peer, role, port)
      PROVE  \E r \in RulesOf(q) : /\ r.dir = "ingress" /\ role \in r.pods
                                   /\ peer \in r.peers /\ port = r.port
  BY <1>2, PermittedConnects, Denied DEF Open, InForce
<1> QED BY <1>1, <1>2, WhatRulesName

-----------------------------------------------------------------------------
(* The plan is applied from its first object on.                            *)

\* There is a next object to apply as long as provision is at work.
Applying == /\ req \in Requests
            /\ applied \in 0..Len(Plan(req))
            /\ prov \in {"idle", "issue", "apply"} => applied < Len(Plan(req))

LEMMA ApplyingStep == Applying /\ [RangeNext]_rangeVars => Applying'
<1> SUFFICES ASSUME Applying, [RangeNext]_rangeVars PROVE Applying'
  OBVIOUS
<1>1. req' = req
  BY DEF RangeNext, rangeVars, caller, getter, pod, container, DestroyStep, GatewayStep,
         ProvisionStart, IssueStore, IssueAnswered, IssueFailed, BuildFails, Apply,
         ApplyFails, Undo, DestroyStart, DestroyRevoke, RevokeFails, DestroyNamespace,
         DeleteFails, GetStart, ReadPod, Answer, PodUp, GatewayStart, Bootstrap,
         WriteBundle, FlushChain, HookChain, AppendRule, SpawnOpenVpn, TunnelUp,
         ExpiryTimer, GatewayFails, PodReplaced, TicketExchanged, Download,
         NamespaceRemoved, Expire, RuntimeRestart
<1>2. Len(Plan(req)) \in Nat
  BY PlanBegins DEF Applying
<1> DEFINE size == Len(Plan(req))
<1>3. size' = size
  BY <1>1
<1>4. CASE Apply \/ ApplyFails
  <2>1. prov = "apply" /\ applied' \in {applied, applied + 1}
    BY <1>4 DEF Apply, ApplyFails
  <2>2. applied' \in 0..size
    BY <1>2, <2>1 DEF Applying
  <2>3. prov' \in {"idle", "issue", "apply"} => applied' < size
    <3>1. CASE Apply
      <4>1. applied' = applied + 1 /\ prov' = IF applied' = size THEN "done" ELSE "apply"
        BY <1>1, <3>1 DEF Apply
      <4> QED BY <1>2, <2>2, <4>1
    <3>2. CASE ApplyFails
      BY <3>2 DEF ApplyFails
    <3> QED BY <1>4, <3>1, <3>2
  <2> HIDE DEF size
  <2> QED BY <1>1, <1>3, <2>2, <2>3 DEF Applying, size
<1>5. CASE ~(Apply \/ ApplyFails)
  <2>1. applied' = applied
    BY <1>5 DEF RangeNext, rangeVars, caller, getter, pod, container, DestroyStep,
         GatewayStep,
         ProvisionStart, IssueStore, IssueAnswered, IssueFailed, BuildFails,
         Undo, DestroyStart, DestroyRevoke, RevokeFails, DestroyNamespace,
         DeleteFails, GetStart, ReadPod, Answer, PodUp, GatewayStart, Bootstrap,
         WriteBundle, FlushChain, HookChain, AppendRule, SpawnOpenVpn, TunnelUp,
         ExpiryTimer, GatewayFails, PodReplaced, TicketExchanged, Download,
         NamespaceRemoved, Expire, RuntimeRestart
  <2>2. prov' \in {"idle", "issue", "apply"} => prov \in {"idle", "issue", "apply"}
    BY <1>5 DEF RangeNext, rangeVars, caller, getter, pod, container, DestroyStep,
         GatewayStep,
         ProvisionStart, IssueStore, IssueAnswered, IssueFailed, BuildFails,
         Undo, DestroyStart, DestroyRevoke, RevokeFails, DestroyNamespace,
         DeleteFails, GetStart, ReadPod, Answer, PodUp, GatewayStart, Bootstrap,
         WriteBundle, FlushChain, HookChain, AppendRule, SpawnOpenVpn, TunnelUp,
         ExpiryTimer, GatewayFails, PodReplaced, TicketExchanged, Download,
         NamespaceRemoved, Expire, RuntimeRestart
  <2> QED BY <1>1, <1>3, <2>1, <2>2 DEF Applying
<1> QED BY <1>4, <1>5

LEMMA ApplyingAlways == RangeSafety => []Applying
<1>1. RangeInit => Applying
  <2> SUFFICES ASSUME RangeInit PROVE Applying
    OBVIOUS
  <2>1. req \in Requests /\ applied = 0
    BY DEF RangeInit
  <2> QED BY <2>1, PlanBegins DEF Applying
<1> QED BY <1>1, ApplyingStep, PTL DEF RangeSafety

\* IsolationHolds for any number of concurrent destroys, faults and restarts:
\* whatever part of the plan has been applied, every pod there is behind the
\* default denial, and no rule of the run lets it out (manifests.ts).
THEOREM RunsAreSealedOff == RangeSafety => []IsolationHolds
<1>1. Applying => IsolationHolds
  <2> SUFFICES ASSUME Applying PROVE IsolationHolds
    OBVIOUS
  <2>1. Sealed(req, applied)
    BY EveryStageIsSealed DEF Applying
  <2>2. <<req, applied>> \in Stages
    BY DEF Stages, Applying
  <2> QED BY <2>1, <2>2 DEF IsolationHolds, SealedStages
<1> QED BY <1>1, ApplyingAlways, PTL

-----------------------------------------------------------------------------
(* What is ready is usable: a whole plan keeps within its quota and lets    *)
(* the learner in, and what get waits for includes what is applied last.    *)

Indices(s, kind) == {i \in 1..Len(s) : s[i].kind = kind}
Members(s) == {s[i] : i \in 1..Len(s)}

LEMMA ConcatIsBoth ==
    ASSUME NEW s \in Seq(Objects), NEW t \in Seq(Objects)
    PROVE  /\ s \o t \in Seq(Objects) /\ Len(s \o t) = Len(s) + Len(t)
           /\ \A i \in 1..Len(s) : (s \o t)[i] = s[i]
           /\ \A i \in 1..Len(t) : (s \o t)[Len(s) + i] = t[i]
           /\ \A i \in 1..Len(s \o t) :
                \/ i \in 1..Len(s) /\ (s \o t)[i] = s[i]
                \/ i - Len(s) \in 1..Len(t) /\ (s \o t)[i] = t[i - Len(s)]
<1>1. /\ s \o t \in Seq(Objects) /\ Len(s \o t) = Len(s) + Len(t)
      /\ Len(s) \in Nat /\ Len(t) \in Nat
      /\ \A i \in 1..Len(s) + Len(t) :
           (s \o t)[i] = IF i <= Len(s) THEN s[i] ELSE t[i - Len(s)]
  BY ConcatProperties
<1>2. \A i \in 1..Len(s) : (s \o t)[i] = s[i]
  BY <1>1
<1>3. \A i \in 1..Len(t) : (s \o t)[Len(s) + i] = t[i]
  <2> TAKE i \in 1..Len(t)
  <2>1. Len(s) + i \in 1..Len(s) + Len(t) /\ ~(Len(s) + i <= Len(s))
        /\ (Len(s) + i) - Len(s) = i
    BY <1>1
  <2> QED BY <1>1, <2>1
<1>4. \A i \in 1..Len(s) + Len(t) : i \in 1..Len(s) \/ i - Len(s) \in 1..Len(t)
  BY <1>1
<1>5. \A i \in 1..Len(s) + Len(t) : i \notin 1..Len(s) => ~(i <= Len(s))
  BY <1>1
<1> QED BY <1>1, <1>2, <1>3, <1>4, <1>5

LEMMA MembersOfConcat ==
    ASSUME NEW s \in Seq(Objects), NEW t \in Seq(Objects)
    PROVE  Members(s \o t) = Members(s) \cup Members(t)
<1>1. ASSUME NEW i \in 1..Len(t) PROVE Len(s) + i \in 1..Len(s \o t)
  <2>1. Len(s \o t) = Len(s) + Len(t) /\ Len(s) \in Nat /\ Len(t) \in Nat
    BY ConcatIsBoth
  <2> QED BY <2>1
<1>2. ASSUME NEW i \in 1..Len(s) PROVE i \in 1..Len(s \o t)
  <2>1. Len(s \o t) = Len(s) + Len(t) /\ Len(s) \in Nat /\ Len(t) \in Nat
    BY ConcatIsBoth
  <2> QED BY <2>1
<1>3. \A o \in Members(s) : o \in Members(s \o t)
  BY <1>2, ConcatIsBoth DEF Members
<1>4. \A o \in Members(t) : o \in Members(s \o t)
  BY <1>1, ConcatIsBoth DEF Members
<1>5. \A o \in Members(s \o t) : o \in Members(s) \cup Members(t)
  BY ConcatIsBoth DEF Members
<1> QED BY <1>3, <1>4, <1>5

\* A count of a kind: finite, and at most so many.
AtMost(s, kind, m) == IsFiniteSet(Indices(s, kind)) /\ Cardinality(Indices(s, kind)) <= m

LEMMA CountsAdd ==
    ASSUME NEW s \in Seq(Objects), NEW t \in Seq(Objects), NEW kind,
           NEW m \in Nat, NEW k \in Nat, AtMost(s, kind, m), AtMost(t, kind, k)
    PROVE  AtMost(s \o t, kind, m + k)
<1> DEFINE S == Indices(s, kind)
           T == Indices(t, kind)
           U == {Len(s) + i : i \in T}
           f == [i \in T |-> Len(s) + i]
<1>1. IsFiniteSet(S) /\ Cardinality(S) <= m /\ IsFiniteSet(T) /\ Cardinality(T) <= k
  BY DEF AtMost
<1>2. IsFiniteSet(U) /\ Cardinality(U) <= Cardinality(T)
  <2>1. f \in Surjection(T, U)
    BY DEF Surjection
  <2> HIDE DEF T, U, f
  <2> QED BY <1>1, <2>1, FS_Surjection
<1>3. Indices(s \o t, kind) \subseteq S \cup U
  <2> SUFFICES ASSUME NEW i \in 1..Len(s \o t), (s \o t)[i].kind = kind
               PROVE  i \in S \cup U
    BY DEF Indices
  <2>1. CASE i \in 1..Len(s) /\ (s \o t)[i] = s[i]
    BY <2>1 DEF Indices
  <2>2. CASE i - Len(s) \in 1..Len(t) /\ (s \o t)[i] = t[i - Len(s)]
    <3>1. i - Len(s) \in T
      BY <2>2 DEF Indices
    <3>2. i = Len(s) + (i - Len(s))
      BY <2>2
    <3> HIDE DEF T
    <3> QED BY <3>1, <3>2
  <2> QED BY <2>1, <2>2, ConcatIsBoth
<1> HIDE DEF S, T, U
<1>4. /\ IsFiniteSet(S \cup U)
      /\ Cardinality(S \cup U) = Cardinality(S) + Cardinality(U) - Cardinality(S \cap U)
  BY <1>1, <1>2, FS_Union
<1>5. Cardinality(S) \in Nat /\ Cardinality(U) \in Nat /\ Cardinality(S \cap U) \in Nat
      /\ Cardinality(T) \in Nat
  <2>1. IsFiniteSet(S \cap U)
    BY <1>1, FS_Subset
  <2> QED BY <1>1, <1>2, <2>1, FS_CardinalityType
<1>6. /\ IsFiniteSet(Indices(s \o t, kind))
      /\ Cardinality(Indices(s \o t, kind)) <= Cardinality(S \cup U)
  BY <1>3, <1>4, FS_Subset
<1>7. Cardinality(Indices(s \o t, kind)) \in Nat
  BY <1>6, FS_CardinalityType
<1> QED BY <1>1, <1>2, <1>4, <1>5, <1>6, <1>7 DEF AtMost

Blues(q) == IF Blue(q) THEN BlueObjects ELSE <<>>
Browsers(q) == IF HasBrowser(q) THEN BrowserObjects ELSE <<>>
Vpns(q) == IF HasVpn(q) THEN VpnObjects ELSE <<>>

LEMMA PlanIsInParts ==
    ASSUME NEW q
    PROVE  /\ Plan(q) = ((BaseObjects \o Blues(q)) \o Browsers(q)) \o Vpns(q)
           /\ BaseObjects \in Seq(Objects) /\ Blues(q) \in Seq(Objects)
           /\ Browsers(q) \in Seq(Objects) /\ Vpns(q) \in Seq(Objects)
           /\ BaseObjects \o Blues(q) \in Seq(Objects)
           /\ (BaseObjects \o Blues(q)) \o Browsers(q) \in Seq(Objects)
           /\ Plan(q) \in Seq(Objects)
<1>1. Plan(q) = ((BaseObjects \o Blues(q)) \o Browsers(q)) \o Vpns(q)
  BY DEF Plan, Blues, Browsers, Vpns
<1>2. /\ BaseObjects \in Seq(Objects) /\ Blues(q) \in Seq(Objects)
      /\ Browsers(q) \in Seq(Objects) /\ Vpns(q) \in Seq(Objects)
  BY PartsAreSequences DEF Blues, Browsers, Vpns
<1>3. BaseObjects \o Blues(q) \in Seq(Objects)
  BY <1>2, ConcatIsBoth
<1>4. (BaseObjects \o Blues(q)) \o Browsers(q) \in Seq(Objects)
  BY <1>2, <1>3, ConcatIsBoth
<1>5. ((BaseObjects \o Blues(q)) \o Browsers(q)) \o Vpns(q) \in Seq(Objects)
  BY <1>2, <1>4, ConcatIsBoth
<1> QED BY <1>1, <1>2, <1>3, <1>4, <1>5

LEMMA MembersOfPlan ==
    ASSUME NEW q
    PROVE  Members(Plan(q)) = Members(BaseObjects) \cup Members(Blues(q))
                              \cup Members(Browsers(q)) \cup Members(Vpns(q))
<1>1. Members(BaseObjects \o Blues(q)) = Members(BaseObjects) \cup Members(Blues(q))
  BY PlanIsInParts, MembersOfConcat
<1>2. Members((BaseObjects \o Blues(q)) \o Browsers(q))
        = Members(BaseObjects \o Blues(q)) \cup Members(Browsers(q))
  BY PlanIsInParts, MembersOfConcat
<1>3. Members(Plan(q))
        = Members((BaseObjects \o Blues(q)) \o Browsers(q)) \cup Members(Vpns(q))
  BY PlanIsInParts, MembersOfConcat
<1> QED BY <1>1, <1>2, <1>3

Limited == {"Secret", "VirtualMachine", "Deployment", "Service"}

LEMMA Few ==
    ASSUME NEW s, NEW kind, NEW j, NEW k, Indices(s, kind) \subseteq {j, k}
    PROVE  AtMost(s, kind, 2) /\ (j = k => AtMost(s, kind, 1))
<1>1. IsFiniteSet({j}) /\ Cardinality({j}) = 1
  BY FS_Singleton
<1>2. /\ IsFiniteSet({j} \cup {k}) /\ Cardinality({j} \cup {k}) <= 2
      /\ j = k => Cardinality({j} \cup {k}) = 1
  <2>1. /\ IsFiniteSet({j} \cup {k})
        /\ Cardinality({j} \cup {k}) = IF k \in {j} THEN Cardinality({j})
                                       ELSE Cardinality({j}) + 1
    BY <1>1, FS_AddElement
  <2>2. k \in {j} <=> j = k
    OBVIOUS
  <2> QED BY <1>1, <2>1, <2>2
<1>3. {j, k} = {j} \cup {k}
  OBVIOUS
<1>4. IsFiniteSet(Indices(s, kind)) /\ Cardinality(Indices(s, kind)) <= Cardinality({j, k})
  BY <1>2, <1>3, FS_Subset
<1>5. Cardinality(Indices(s, kind)) \in Nat /\ Cardinality({j, k}) \in Nat
  BY <1>2, <1>3, <1>4, FS_CardinalityType
<1> QED BY <1>2, <1>3, <1>4, <1>5 DEF AtMost

LEMMA Fewer ==
    ASSUME NEW s, NEW kind, Indices(s, kind) = {}
    PROVE  AtMost(s, kind, 0)
BY FS_EmptySet DEF AtMost

\* How many objects of a kind the parts have.
LEMMA PartsAreSmall ==
    /\ \A kind \in Limited : AtMost(BaseObjects, kind, 1)
    /\ AtMost(BlueObjects, "Deployment", 2) /\ AtMost(BlueObjects, "Service", 2)
    /\ AtMost(BlueObjects, "Secret", 0) /\ AtMost(BlueObjects, "VirtualMachine", 0)
    /\ AtMost(BrowserObjects, "Service", 1) /\ AtMost(BrowserObjects, "Deployment", 0)
    /\ AtMost(BrowserObjects, "Secret", 0) /\ AtMost(BrowserObjects, "VirtualMachine", 0)
    /\ AtMost(VpnObjects, "Secret", 1) /\ AtMost(VpnObjects, "Deployment", 1)
    /\ AtMost(VpnObjects, "Service", 1) /\ AtMost(VpnObjects, "VirtualMachine", 0)
    /\ \A kind \in Limited : AtMost(<<>>, kind, 0)
<1>1. \A kind \in Limited : AtMost(BaseObjects, kind, 1)
  <2>1. /\ Indices(BaseObjects, "Secret") \subseteq {4, 4}
        /\ Indices(BaseObjects, "VirtualMachine") \subseteq {10, 10}
        /\ Indices(BaseObjects, "Deployment") \subseteq {11, 11}
        /\ Indices(BaseObjects, "Service") \subseteq {12, 12}
    BY DEF Indices, BaseObjects, Obj, Policy
  <2> QED BY <2>1, Few DEF Limited
<1>2. /\ AtMost(BlueObjects, "Deployment", 2) /\ AtMost(BlueObjects, "Service", 2)
      /\ AtMost(BlueObjects, "Secret", 0) /\ AtMost(BlueObjects, "VirtualMachine", 0)
  <2>1. /\ Indices(BlueObjects, "Deployment") \subseteq {1, 3}
        /\ Indices(BlueObjects, "Service") \subseteq {2, 4}
        /\ Indices(BlueObjects, "Secret") = {}
        /\ Indices(BlueObjects, "VirtualMachine") = {}
    BY DEF Indices, BlueObjects, Obj, Policy
  <2> QED BY <2>1, Few, Fewer
<1>3. /\ AtMost(BrowserObjects, "Service", 1) /\ AtMost(BrowserObjects, "Deployment", 0)
      /\ AtMost(BrowserObjects, "Secret", 0)
      /\ AtMost(BrowserObjects, "VirtualMachine", 0)
  <2>1. /\ Indices(BrowserObjects, "Service") \subseteq {2, 2}
        /\ Indices(BrowserObjects, "Deployment") = {}
        /\ Indices(BrowserObjects, "Secret") = {}
        /\ Indices(BrowserObjects, "VirtualMachine") = {}
    BY DEF Indices, BrowserObjects, Obj, Policy
  <2> QED BY <2>1, Few, Fewer
<1>4. /\ AtMost(VpnObjects, "Secret", 1) /\ AtMost(VpnObjects, "Deployment", 1)
      /\ AtMost(VpnObjects, "Service", 1) /\ AtMost(VpnObjects, "VirtualMachine", 0)
  <2>1. /\ Indices(VpnObjects, "Secret") \subseteq {1, 1}
        /\ Indices(VpnObjects, "Deployment") \subseteq {2, 2}
        /\ Indices(VpnObjects, "Service") \subseteq {3, 3}
        /\ Indices(VpnObjects, "VirtualMachine") = {}
    BY DEF Indices, VpnObjects, Obj, Policy
  <2> QED BY <2>1, Few, Fewer
<1>5. \A kind \in Limited : AtMost(<<>>, kind, 0)
  <2>1. \A kind \in Limited : Indices(<<>>, kind) = {}
    BY DEF Indices
  <2> QED BY <2>1, Fewer
<1> QED BY <1>1, <1>2, <1>3, <1>4, <1>5

\* What the parts of a plan have of a kind bounds what the plan has of it.
LEMMA PlanCounts ==
    ASSUME NEW q, NEW kind, NEW b \in Nat, NEW d \in Nat, NEW v \in Nat,
           AtMost(BaseObjects, kind, 1), AtMost(Blues(q), kind, b),
           AtMost(Browsers(q), kind, d), AtMost(Vpns(q), kind, v)
    PROVE  AtMost(Plan(q), kind, 1 + b + d + v)
<1>1. AtMost(BaseObjects \o Blues(q), kind, 1 + b)
  BY PlanIsInParts, CountsAdd
<1>2. 1 + b \in Nat /\ 1 + b + d \in Nat
  OBVIOUS
<1>3. AtMost((BaseObjects \o Blues(q)) \o Browsers(q), kind, 1 + b + d)
  BY <1>1, <1>2, PlanIsInParts, CountsAdd
<1>4. AtMost(((BaseObjects \o Blues(q)) \o Browsers(q)) \o Vpns(q), kind, 1 + b + d + v)
  BY <1>2, <1>3, PlanIsInParts, CountsAdd
<1> QED BY <1>4, PlanIsInParts

LEMMA WithinQuota ==
    ASSUME NEW q \in Requests, NEW kind \in DOMAIN Quota(q)
    PROVE  Cardinality({i \in 1..Len(Plan(q)) : Plan(q)[i].kind = kind}) <= Quota(q)[kind]
<1> DEFINE dep == IF Blue(q) THEN 2 ELSE 0
           des == IF HasBrowser(q) THEN 1 ELSE 0
           vpn == IF HasVpn(q) THEN 1 ELSE 0
<1>1. kind \in Limited
  BY DEF Quota, Limited
<1>2. AtMost(BaseObjects, kind, 1)
  BY <1>1, PartsAreSmall
<1>3. /\ AtMost(Blues(q), "Deployment", dep) /\ AtMost(Blues(q), "Service", dep)
      /\ AtMost(Blues(q), "Secret", 0) /\ AtMost(Blues(q), "VirtualMachine", 0)
  BY PartsAreSmall DEF Blues, Limited
<1>4. /\ AtMost(Browsers(q), "Service", des) /\ AtMost(Browsers(q), "Deployment", 0)
      /\ AtMost(Browsers(q), "Secret", 0) /\ AtMost(Browsers(q), "VirtualMachine", 0)
  BY PartsAreSmall DEF Browsers, Limited
<1>5. /\ AtMost(Vpns(q), "Secret", vpn) /\ AtMost(Vpns(q), "Deployment", vpn)
      /\ AtMost(Vpns(q), "Service", vpn) /\ AtMost(Vpns(q), "VirtualMachine", 0)
  BY PartsAreSmall DEF Vpns, Limited
<1>6. dep \in 0..2 /\ des \in 0..1 /\ vpn \in 0..1 /\ (~Blue(q) => dep = 0)
  OBVIOUS
<1>7. Indices(Plan(q), kind) = {i \in 1..Len(Plan(q)) : Plan(q)[i].kind = kind}
  BY DEF Indices
<1> HIDE DEF dep, des, vpn
<1>8. ASSUME NEW m \in Nat, AtMost(Plan(q), kind, m), m <= Quota(q)[kind],
             Quota(q)[kind] \in Nat
      PROVE  Cardinality(Indices(Plan(q), kind)) <= Quota(q)[kind]
  <2>1. Cardinality(Indices(Plan(q), kind)) \in Nat
    BY <1>8, FS_CardinalityType DEF AtMost
  <2> QED BY <1>8, <2>1 DEF AtMost
<1>9. CASE kind = "Deployment"
  <2>1. AtMost(Plan(q), kind, 1 + dep + 0 + vpn)
    BY <1>2, <1>3, <1>4, <1>5, <1>6, <1>9, PlanCounts
  <2>2. /\ 1 + dep + 0 + vpn \in Nat /\ 1 + dep + 0 + vpn <= Quota(q)[kind]
        /\ Quota(q)[kind] \in Nat
    BY <1>6, <1>9 DEF Quota
  <2> QED BY <1>7, <1>8, <2>1, <2>2
<1>10. CASE kind = "Service"
  <2>1. AtMost(Plan(q), kind, 1 + dep + des + vpn)
    BY <1>2, <1>3, <1>4, <1>5, <1>6, <1>10, PlanCounts
  <2>2. /\ 1 + dep + des + vpn \in Nat /\ 1 + dep + des + vpn <= Quota(q)[kind]
        /\ Quota(q)[kind] \in Nat
    BY <1>6, <1>10 DEF Quota
  <2> QED BY <1>7, <1>8, <2>1, <2>2
<1>11. CASE kind = "Secret"
  <2>1. AtMost(Plan(q), kind, 1 + 0 + 0 + vpn)
    BY <1>2, <1>3, <1>4, <1>5, <1>6, <1>11, PlanCounts
  <2>2. /\ 1 + 0 + 0 + vpn \in Nat /\ 1 + 0 + 0 + vpn <= Quota(q)[kind]
        /\ Quota(q)[kind] \in Nat
    BY <1>6, <1>11 DEF Quota
  <2> QED BY <1>7, <1>8, <2>1, <2>2
<1>12. CASE kind = "VirtualMachine"
  <2>1. AtMost(Plan(q), kind, 1 + 0 + 0 + 0)
    BY <1>2, <1>3, <1>4, <1>5, <1>6, <1>12, PlanCounts
  <2>2. 1 + 0 + 0 + 0 <= Quota(q)[kind] /\ Quota(q)[kind] \in Nat
    BY <1>12 DEF Quota
  <2> QED BY <1>7, <1>8, <2>1, <2>2
<1> QED BY <1>1, <1>9, <1>10, <1>11, <1>12 DEF Limited

\* With the whole plan applied, the rules of its policies are in force.
LEMMA RulesInForce ==
    ASSUME NEW q \in Requests
    PROVE  /\ BaseRules(q) \subseteq InForce(q, Len(Plan(q)))
           /\ Blue(q) => BlueRules \subseteq InForce(q, Len(Plan(q)))
           /\ \A r \in GatewayRules :
                IF r.policy = "allow-desktop-gateway"
                THEN HasBrowser(q) => r \in InForce(q, Len(Plan(q)))
                ELSE HasVpn(q) => r \in InForce(q, Len(Plan(q)))
<1>1. Applied(q, Len(Plan(q))) = Members(Plan(q))
  BY DEF Applied, Members
<1>2. \A r \in BaseRules(q) : Policy(r.policy) \in Members(BaseObjects)
  <2>1. {Policy("default-deny"), Policy("allow-target-from-clients"),
         Policy("allow-workstation-to-target"), Policy("allow-vpn-to-target"),
         Policy("allow-dns")} \subseteq Members(BaseObjects)
    <3>1. \A i \in 5..9 : BaseObjects[i] \in Members(BaseObjects)
      BY PartsAreSequences DEF Members
    <3>2. /\ BaseObjects[5] = Policy("default-deny")
          /\ BaseObjects[6] = Policy("allow-target-from-clients")
          /\ BaseObjects[7] = Policy("allow-workstation-to-target")
          /\ BaseObjects[8] = Policy("allow-vpn-to-target")
          /\ BaseObjects[9] = Policy("allow-dns")
      BY DEF BaseObjects
    <3> QED BY <3>1, <3>2
  <2>2. \A r \in BaseRules(q) :
           r.policy \in {"default-deny", "allow-target-from-clients",
                         "allow-workstation-to-target", "allow-vpn-to-target", "allow-dns"}
    BY DEF BaseRules, Rule
  <2> QED BY <2>1, <2>2
<1>3. \A r \in BlueRules : Policy(r.policy) \in Members(BlueObjects)
  <2>1. Len(BlueObjects) = 11
    BY DEF BlueObjects
  <2>2. \A i \in 5..11 : BlueObjects[i] \in Members(BlueObjects)
    BY <2>1 DEF Members
  <2>3. /\ BlueObjects[5] = Policy("allow-workstation-to-kibana")
        /\ BlueObjects[6] = Policy("allow-kibana-from-workstation")
        /\ BlueObjects[7] = Policy("allow-kibana-to-elasticsearch")
        /\ BlueObjects[8] = Policy("allow-target-agent-to-elasticsearch")
        /\ BlueObjects[9] = Policy("allow-target-agent-to-kibana")
        /\ BlueObjects[10] = Policy("allow-kibana-from-target-agent")
        /\ BlueObjects[11] = Policy("allow-elasticsearch-ingest")
    BY DEF BlueObjects
  <2>4. \A r \in BlueRules :
           r.policy \in {"allow-workstation-to-kibana", "allow-kibana-from-workstation",
                         "allow-kibana-to-elasticsearch",
                         "allow-target-agent-to-elasticsearch",
                         "allow-target-agent-to-kibana", "allow-kibana-from-target-agent",
                         "allow-elasticsearch-ingest"}
    BY DEF BlueRules, Rule
  <2> QED BY <2>2, <2>3, <2>4
<1>4. /\ Policy("allow-desktop-gateway") \in Members(BrowserObjects)
      /\ Policy("allow-vpn-public") \in Members(VpnObjects)
      /\ Policy("allow-vpn-bootstrap") \in Members(VpnObjects)
  <2>1. Len(BrowserObjects) = 2 /\ Len(VpnObjects) = 5
    BY DEF BrowserObjects, VpnObjects
  <2>2. /\ BrowserObjects[1] = Policy("allow-desktop-gateway")
        /\ VpnObjects[4] = Policy("allow-vpn-public")
        /\ VpnObjects[5] = Policy("allow-vpn-bootstrap")
    BY DEF BrowserObjects, VpnObjects
  <2> QED BY <2>1, <2>2 DEF Members
<1>5. \A r \in GatewayRules :
         r.policy \in {"allow-desktop-gateway", "allow-vpn-public", "allow-vpn-bootstrap"}
  BY DEF GatewayRules, Rule
<1>6. /\ Members(BaseObjects) \subseteq Members(Plan(q))
      /\ Blue(q) => Members(BlueObjects) \subseteq Members(Plan(q))
      /\ HasBrowser(q) => Members(BrowserObjects) \subseteq Members(Plan(q))
      /\ HasVpn(q) => Members(VpnObjects) \subseteq Members(Plan(q))
  BY MembersOfPlan DEF Blues, Browsers, Vpns
<1>7. \A r \in RulesOf(q) : Policy(r.policy) \in Members(Plan(q))
                              => r \in InForce(q, Len(Plan(q)))
  BY <1>1 DEF InForce
<1>8. BaseRules(q) \subseteq RulesOf(q) /\ BlueRules \subseteq RulesOf(q)
      /\ GatewayRules \subseteq RulesOf(q)
  BY DEF RulesOf
<1>9. ASSUME NEW r \in GatewayRules
      PROVE  IF r.policy = "allow-desktop-gateway"
             THEN HasBrowser(q) => r \in InForce(q, Len(Plan(q)))
             ELSE HasVpn(q) => r \in InForce(q, Len(Plan(q)))
  BY <1>4, <1>5, <1>6, <1>7, <1>8
<1> QED BY <1>2, <1>3, <1>6, <1>7, <1>8, <1>9

LEMMA ConnectsPermitted ==
    ASSUME NEW q \in Requests, NEW src, NEW dst, NEW port \in Ports,
           \/ src \in Roles /\ dst \in Roles \cup Outside
           \/ src \in Outside /\ dst \in Roles,
           Connects(InForce(q, Len(Plan(q))), src, dst, port)
    PROVE  Permitted(q, Len(Plan(q)), src, dst, port)
<1> DEFINE n == Len(Plan(q))
<1>1. n \in 0..n
  BY PlanBegins
<1> HIDE DEF n
<1>2. PICK c \in Connections : c[1][2] = src /\ c[1][3] = dst /\ c[2] = port
  <2>1. CASE src \in Roles /\ dst \in Roles
    <3>1. <<<<"run", src, dst>>, port>> \in Connections
      BY <2>1 DEF Connections
    <3> QED BY <3>1
  <2>2. CASE src \in Roles /\ dst \in Outside
    <3>1. <<<<"out", src, dst>>, port>> \in Connections
      BY <2>2 DEF Connections
    <3> QED BY <3>1
  <2>3. CASE src \in Outside /\ dst \in Roles
    <3>1. <<<<"in", src, dst>>, port>> \in Connections
      BY <2>3 DEF Connections
    <3> QED BY <3>1
  <2> QED BY <2>1, <2>2, <2>3
<1>3. c \in OpenAt(q, n)
  BY <1>2 DEF OpenAt, n
<1>4. <<q, n>> \in Stages
  BY <1>1 DEF Stages, n
<1> DEFINE st == <<q, n>>
<1>5. <<st[1], st[2], c[1][2], c[1][3], c[2]>> \in Flows
  BY <1>3, <1>4 DEF Flows
<1> QED BY <1>2, <1>5 DEF Permitted, n

LEMMA Opens ==
    ASSUME NEW rules, NEW dir, NEW who, NEW peer, NEW port,
           \/ \E r \in rules : /\ r.dir = dir /\ who \in r.pods
                               /\ peer \in r.peers /\ port = r.port
           \/ \A r \in rules : ~(r.dir = dir /\ who \in r.pods)
    PROVE  Open(rules, dir, who, peer, port)
BY DEF Open

LEMMA EveryRequestSuffices == ASSUME NEW q \in Requests PROVE Sufficient(q)
<1> DEFINE n == Len(Plan(q))
           rules == InForce(q, n)
           Lets(dir, role, peer, port) ==
             \E r \in rules : /\ r.dir = dir /\ role \in r.pods
                              /\ peer \in r.peers /\ port = r.port
<1>1. ASSUME NEW r \in rules PROVE r \in RulesOf(q)
  BY DEF InForce
<1>2. \A dir, role, peer, port : Lets(dir, role, peer, port) => Open(rules, dir, role, peer, port)
  BY Opens
<1>3. \A peer, port, who : who \in Outside => Open(rules, "egress", who, peer, port)
  <2>1. \A r \in RulesOf(q) : \A who \in Outside : who \notin r.pods
    BY DEF RulesOf, BaseRules, BlueRules, GatewayRules, Rule, Roles, Outside
  <2> QED BY <1>1, <2>1, Opens
<1>4. /\ Lets("egress", "workstation", "target", "service")
      /\ Lets("ingress", "target", "workstation", "service")
      /\ Lets("egress", "vpn-gateway", "target", "service")
      /\ Lets("ingress", "target", "vpn-gateway", "service")
  <2> DEFINE a == Rule("allow-target-from-clients", "ingress", {"target"},
                       {"workstation", "vpn-gateway"}, "service")
             b == Rule("allow-workstation-to-target", "egress", {"workstation"},
                       {"target"}, "service")
             c == Rule("allow-vpn-to-target", "egress", {"vpn-gateway"}, {"target"},
                       "service")
  <2>1. {a, b, c} \subseteq rules
    <3>1. {a, b, c} \subseteq BaseRules(q)
      BY DEF BaseRules
    <3> QED BY <3>1, RulesInForce
  <2> HIDE DEF rules
  <2> QED BY <2>1 DEF Rule
<1>5. Blue(q) => /\ Lets("egress", "workstation", "kibana", "kibana")
                 /\ Lets("ingress", "kibana", "workstation", "kibana")
  <2> DEFINE a == Rule("allow-workstation-to-kibana", "egress", {"workstation"},
                       {"kibana"}, "kibana")
             b == Rule("allow-kibana-from-workstation", "ingress", {"kibana"},
                       {"workstation"}, "kibana")
  <2>1. Blue(q) => {a, b} \subseteq rules
    <3>1. {a, b} \subseteq BlueRules
      BY DEF BlueRules
    <3> QED BY <3>1, RulesInForce
  <2> HIDE DEF rules
  <2> QED BY <2>1 DEF Rule
<1>6. /\ HasBrowser(q) => Lets("ingress", "workstation", "desktop-gateway", "desktop")
      /\ HasVpn(q) => Lets("ingress", "vpn-gateway", "internet", "openvpn")
  <2> DEFINE a == Rule("allow-desktop-gateway", "ingress", {"workstation"},
                       {"desktop-gateway"}, "desktop")
             b == Rule("allow-vpn-public", "ingress", {"vpn-gateway"}, Roles \cup Outside,
                       "openvpn")
  <2>1. (HasBrowser(q) => a \in rules) /\ (HasVpn(q) => b \in rules)
    <3>1. a \in GatewayRules /\ b \in GatewayRules
      BY DEF GatewayRules
    <3>2. a.policy = "allow-desktop-gateway" /\ b.policy # "allow-desktop-gateway"
      BY DEF Rule
    <3> HIDE DEF a, b
    <3> QED BY <3>1, <3>2, RulesInForce
  <2> HIDE DEF rules
  <2> QED BY <2>1 DEF Rule, Outside
<1> HIDE DEF Lets
<1>7. /\ Permitted(q, n, "workstation", "target", "service")
      /\ Permitted(q, n, "vpn-gateway", "target", "service")
  BY <1>2, <1>4, ConnectsPermitted DEF Connects, Roles, Ports
<1>8. Blue(q) => Permitted(q, n, "workstation", "kibana", "kibana")
  BY <1>2, <1>5, ConnectsPermitted DEF Connects, Roles, Ports
<1>9. HasBrowser(q) => Permitted(q, n, "desktop-gateway", "workstation", "desktop")
  <2>1. "desktop-gateway" \in Outside
    BY DEF Outside
  <2> QED BY <1>2, <1>3, <1>6, <2>1, ConnectsPermitted DEF Connects, Roles, Ports
<1>10. HasVpn(q) => Permitted(q, n, "internet", "vpn-gateway", "openvpn")
  <2>1. "internet" \in Outside
    BY DEF Outside
  <2> QED BY <1>2, <1>3, <1>6, <2>1, ConnectsPermitted DEF Connects, Roles, Ports
<1>11. \A kind \in DOMAIN Quota(q) :
          Cardinality({i \in 1..n : Plan(q)[i].kind = kind}) <= Quota(q)[kind]
  BY WithinQuota
<1> HIDE DEF rules
<1> QED BY <1>7, <1>8, <1>9, <1>10, <1>11 DEF Sufficient

-----------------------------------------------------------------------------
(* A run that is said to be ready.                                          *)

\* What is applied stays so, and the request is what it was.
LEMMA AppliedGrows ==
    ASSUME Applying, [RangeNext]_rangeVars
    PROVE  /\ req' = req /\ Len(Plan(req)) \in Nat
           /\ applied' \in {applied, applied + 1} /\ applied' \in 0..Len(Plan(req))
<1>1. req' = req /\ applied' \in {applied, applied + 1}
  BY DEF RangeNext, rangeVars, caller, getter, pod, container, DestroyStep, GatewayStep,
         ProvisionStart, IssueStore, IssueAnswered, IssueFailed, BuildFails, Apply,
         ApplyFails, Undo, DestroyStart, DestroyRevoke, RevokeFails, DestroyNamespace,
         DeleteFails, GetStart, ReadPod, Answer, PodUp, GatewayStart, Bootstrap,
         WriteBundle, FlushChain, HookChain, AppendRule, SpawnOpenVpn, TunnelUp,
         ExpiryTimer, GatewayFails, PodReplaced, TicketExchanged, Download,
         NamespaceRemoved, Expire, RuntimeRestart
<1>2. Applying'
  BY ApplyingStep
<1>3. Len(Plan(req)) \in Nat
  BY PlanBegins DEF Applying
<1> QED BY <1>1, <1>2, <1>3 DEF Applying

\* The policy that lets the gateway ask for its bundle is the last object of a
\* plan, and without a gateway the service of the desktop is.
LEMMA LastOfPlan ==
    ASSUME NEW q \in Requests, NEW i \in 1..Len(Plan(q))
    PROVE  /\ Plan(q)[i] = Policy("allow-vpn-bootstrap") => i = Len(Plan(q))
           /\ ~HasVpn(q) /\ Plan(q)[i] = Obj("Service", "desktop") => i = Len(Plan(q))
<1> DEFINE bb == BaseObjects \o Blues(q)
           bd == bb \o Browsers(q)
           last == Policy("allow-vpn-bootstrap")
           desk == Obj("Service", "desktop")
<1>1. last \notin Members(BaseObjects) /\ desk \notin Members(BaseObjects)
  BY DEF Members, BaseObjects, Policy, Obj
<1>2. last \notin Members(BlueObjects) /\ desk \notin Members(BlueObjects)
  BY DEF Members, BlueObjects, Policy, Obj
<1>3. /\ last \notin Members(BrowserObjects) /\ Len(BrowserObjects) = 2
      /\ \A j \in 1..2 : BrowserObjects[j] = desk => j = 2
  BY DEF Members, BrowserObjects, Policy, Obj
<1>4. Len(VpnObjects) = 5 /\ \A j \in 1..5 : VpnObjects[j] = last => j = 5
  BY DEF VpnObjects, Policy, Obj
<1>5. Members(<<>>) = {} /\ Len(<<>>) = 0
  BY DEF Members
<1>6. last \notin Members(bb) /\ desk \notin Members(bb)
  <2>1. Members(bb) = Members(BaseObjects) \cup Members(Blues(q))
    BY PlanIsInParts, MembersOfConcat
  <2> HIDE DEF bb, last, desk
  <2> QED BY <1>1, <1>2, <1>5, <2>1 DEF Blues
<1>7. last \notin Members(bd)
  <2>1. Members(bd) = Members(bb) \cup Members(Browsers(q))
    BY PlanIsInParts, MembersOfConcat
  <2> HIDE DEF bb, bd, last, desk
  <2> QED BY <1>3, <1>5, <1>6, <2>1 DEF Browsers
<1>8. /\ bb \in Seq(Objects) /\ bd \in Seq(Objects) /\ Plan(q) = bd \o Vpns(q)
      /\ Vpns(q) \in Seq(Objects) /\ Browsers(q) \in Seq(Objects)
  BY PlanIsInParts
<1>9. /\ bd = bb \o Browsers(q)
  OBVIOUS
<1> HIDE DEF bb, bd, last, desk
<1>10. ASSUME Plan(q)[i] = last PROVE i = Len(Plan(q))
  <2>1. ~(i \in 1..Len(bd) /\ Plan(q)[i] = bd[i])
    BY <1>7, <1>10 DEF Members
  <2>2. i - Len(bd) \in 1..Len(Vpns(q)) /\ Plan(q)[i] = Vpns(q)[i - Len(bd)]
    BY <1>8, <2>1, ConcatIsBoth
  <2>3. HasVpn(q)
    <3>1. ASSUME ~HasVpn(q) PROVE FALSE
      <4>1. Len(Vpns(q)) = 0
        BY <1>5, <3>1 DEF Vpns
      <4> QED BY <2>2, <4>1
    <3> QED BY <3>1
  <2>4. Vpns(q) = VpnObjects
    BY <2>3 DEF Vpns
  <2>5. i - Len(bd) \in 1..5 /\ VpnObjects[i - Len(bd)] = last
    BY <1>4, <1>10, <2>2, <2>4
  <2>6. i - Len(bd) = 5
    BY <1>4, <2>5
  <2>7. Len(Plan(q)) = Len(bd) + Len(Vpns(q)) /\ Len(bd) \in Nat
    BY <1>8, ConcatIsBoth
  <2>8. Len(Plan(q)) = Len(bd) + 5
    BY <1>4, <2>4, <2>7
  <2> QED BY <2>6, <2>7, <2>8
<1>11. ASSUME ~HasVpn(q), Plan(q)[i] = desk PROVE i = Len(Plan(q))
  <2>1. Vpns(q) = <<>> /\ Len(Vpns(q)) = 0
    BY <1>5, <1>11 DEF Vpns
  <2>2. Len(bd) \in Nat /\ Len(bb) \in Nat /\ Len(Browsers(q)) \in Nat
    BY <1>8
  <2>3. Len(Plan(q)) = Len(bd)
    BY <1>8, <2>1, <2>2, ConcatIsBoth
  <2>4. i \in 1..Len(bd) /\ Plan(q)[i] = bd[i]
    BY <1>8, <2>1, <2>2, ConcatIsBoth
  <2>5. ~(i \in 1..Len(bb) /\ bd[i] = bb[i])
    BY <1>6, <1>11, <2>4 DEF Members
  <2>6. i - Len(bb) \in 1..Len(Browsers(q)) /\ bd[i] = Browsers(q)[i - Len(bb)]
    BY <1>8, <1>9, <2>4, <2>5, ConcatIsBoth
  <2>7. HasBrowser(q)
    <3>1. ASSUME ~HasBrowser(q) PROVE FALSE
      <4>1. Len(Browsers(q)) = 0
        BY <1>5, <3>1 DEF Browsers
      <4> QED BY <2>6, <4>1
    <3> QED BY <3>1
  <2>8. Browsers(q) = BrowserObjects /\ Len(Browsers(q)) = 2
    BY <1>3, <2>7 DEF Browsers
  <2>9. i - Len(bb) \in 1..2 /\ BrowserObjects[i - Len(bb)] = desk
    BY <1>11, <2>4, <2>6, <2>8
  <2>10. i - Len(bb) = 2
    BY <1>3, <2>9
  <2>11. Len(bd) = Len(bb) + Len(Browsers(q))
    BY <1>8, <1>9, ConcatIsBoth
  <2>12. Len(bd) = Len(bb) + 2
    BY <2>8, <2>11
  <2> QED BY <2>2, <2>3, <2>10, <2>12
<1> QED BY <1>10, <1>11 DEF last, desk

\* A gateway that has its bundle could ask for it.
LEMMA BundleMeansWhole ==
    ASSUME Applying, Policy("default-deny") \in Applied(req, applied),
           Reaches("vpn-gateway", "issuer", "issuer")
    PROVE  applied = Len(Plan(req))
<1> DEFINE rules == InForce(req, applied)
           out == Rule("default-deny", "egress", Roles, {}, "none")
<1>1. Open(rules, "egress", "vpn-gateway", "issuer", "issuer")
  BY PermittedConnects DEF Reaches
<1>2. out \in rules /\ out.dir = "egress" /\ "vpn-gateway" \in out.pods
  BY DEF InForce, RulesOf, BaseRules, Rule, Roles
<1>3. PICK r \in rules : r.dir = "egress" /\ "issuer" \in r.peers
  BY <1>1, <1>2 DEF Open
<1>4. r \in RulesOf(req) /\ Policy(r.policy) \in Applied(req, applied)
  BY <1>3 DEF InForce
<1>5. r.policy = "allow-vpn-bootstrap"
  BY <1>3, <1>4 DEF RulesOf, BaseRules, BlueRules, GatewayRules, Rule
<1>6. PICK i \in 1..applied : Plan(req)[i] = Policy("allow-vpn-bootstrap")
  BY <1>4, <1>5 DEF Applied
<1>7. Len(Plan(req)) \in Nat /\ i \in 1..Len(Plan(req))
  BY PlanBegins DEF Applying
<1> QED BY <1>6, <1>7, LastOfPlan DEF Applying

Whole == applied = Len(Plan(req))

\* A gateway has its pod behind the default denial, and its bundle once all is
\* applied; what get has read or said of it was so.
Readying ==
    /\ gw # "none" => Policy("default-deny") \in Applied(req, applied)
    /\ gw \in {"write", "flush", "hook", "rules", "spawn", "tunnel", "up"} => Whole
    /\ look = "podReady" => Whole
    /\ said = "ready" => Whole

LEMMA ReadyingStep ==
    IInv /\ Applying /\ Readying /\ [RangeNext]_rangeVars => Readying'
<1> SUFFICES ASSUME IInv, Applying, Readying, [RangeNext]_rangeVars PROVE Readying'
  OBVIOUS
<1>1. /\ req' = req /\ Len(Plan(req)) \in Nat /\ applied \in 0..Len(Plan(req))
      /\ applied' \in {applied, applied + 1} /\ applied' \in 0..Len(Plan(req))
  BY AppliedGrows DEF Applying
<1>2. Whole => Whole'
  BY <1>1 DEF Whole
<1>3. Policy("default-deny") \in Applied(req, applied)
        => (Policy("default-deny") \in Applied(req, applied))'
  <2>1. 1..applied \subseteq 1..applied'
    BY <1>1
  <2> QED BY <1>1, <2>1 DEF Applied
<1>4. ASSUME UNCHANGED <<gw, look, said>> PROVE Readying'
  BY <1>2, <1>3, <1>4 DEF Readying
<1>5. CASE UNCHANGED rangeVars
  BY <1>4, <1>5 DEF rangeVars
<1>6. CASE \/ ProvisionStart \/ IssueStore \/ IssueAnswered \/ IssueFailed
           \/ BuildFails \/ Apply \/ ApplyFails \/ Undo \/ Expire
           \/ TicketExchanged \/ Download
  BY <1>4, <1>6 DEF ProvisionStart, IssueStore, IssueAnswered, IssueFailed, BuildFails,
        Apply, ApplyFails, Undo, Expire, TicketExchanged, Download, pod, getter
<1>7. ASSUME NEW d \in Destroyers,
             \/ DestroyStart(d) \/ DestroyStep(d) \/ RevokeFails(d) \/ DeleteFails(d)
      PROVE  Readying'
  BY <1>4, <1>7 DEF DestroyStart, DestroyStep, DestroyRevoke, DestroyNamespace,
        RevokeFails, DeleteFails, pod, getter
<1>8. CASE GetStart \/ RuntimeRestart
  BY <1>2, <1>3, <1>8 DEF Readying, GetStart, RuntimeRestart, pod
<1>9. CASE ReadPod
  <2>1. gw = "up"
    BY <1>9 DEF ReadPod, PodReady, IInv, Marked, GatewayPlaces
  <2>2. gw' = gw /\ said' = said
    BY <1>9 DEF ReadPod, pod
  <2> QED BY <1>2, <1>3, <2>1, <2>2 DEF Readying
<1>10. CASE Answer
  <2>1. gw' = gw /\ look' = "idle" /\ (said' = "ready" => AllReady)
    BY <1>10 DEF Answer, pod
  <2>2. AllReady => Whole
    <3> SUFFICES ASSUME AllReady PROVE Whole
      OBVIOUS
    <3>1. CASE HasVpn(req)
      BY <3>1 DEF AllReady, Readying
    <3>2. CASE ~HasVpn(req)
      <4>1. HasBrowser(req)
        BY <3>2 DEF Applying, Requests, AccessMethods, HasVpn, HasBrowser
      <4>2. CanBeReady("desktopEndpoints")
        BY <4>1 DEF AllReady, Checks
      <4>3. <<req, applied, Obj("Service", "desktop")>> \in Present
        BY <4>2 DEF CanBeReady, Exists
      <4>4. Obj("Service", "desktop") \in Applied(req, applied)
        BY <4>3 DEF Present
      <4>5. PICK i \in 1..applied : Plan(req)[i] = Obj("Service", "desktop")
        BY <4>4 DEF Applied
      <4>6. i \in 1..Len(Plan(req))
        BY <1>1
      <4>7. i = Len(Plan(req))
        BY <3>2, <4>5, <4>6, LastOfPlan DEF Applying
      <4> QED BY <1>1, <4>7 DEF Whole
    <3> QED BY <3>1, <3>2
  <2> QED BY <1>2, <1>3, <2>1, <2>2 DEF Readying
<1>11. CASE GatewayStep \/ ExpiryTimer \/ GatewayFails \/ PodReplaced \/ NamespaceRemoved
  <2>1. look' = look /\ said' = said
    BY <1>11 DEF GatewayStep, PodUp, GatewayStart, Bootstrap, WriteBundle, FlushChain,
          HookChain, AppendRule, SpawnOpenVpn, TunnelUp, ExpiryTimer, GatewayFails,
          PodReplaced, NamespaceRemoved, container, getter
  <2> DEFINE Kept == {"write", "flush", "hook", "rules", "spawn", "tunnel", "up"}
  <2>2. CASE PodUp
    <3>1. gw' = "start" /\ Exists("Deployment", "openvpn-gateway")
      BY <2>2 DEF PodUp
    <3>2. Lives(req, applied, "vpn-gateway")
      BY <3>1 DEF Lives, Exists, Workload
    <3>3. Policy("default-deny") \in Applied(req, applied)
      BY <3>2, DenialIsThere DEF Applying, Roles
    <3> QED BY <1>2, <1>3, <2>1, <3>1, <3>3 DEF Readying
  <2>3. CASE Bootstrap
    <3>1. CASE gw' = "write"
      <4>1. gw = "fetch" /\ Reaches("vpn-gateway", "issuer", "issuer")
        BY <2>3, <3>1 DEF Bootstrap
      <4>2. Whole
        BY <4>1, BundleMeansWhole DEF Readying, Whole
      <4> QED BY <1>2, <1>3, <2>1, <4>1, <4>2 DEF Readying
    <3>2. CASE gw' # "write"
      <4>1. gw = "fetch" /\ gw' = "down"
        BY <2>3, <3>2 DEF Bootstrap
      <4> QED BY <1>2, <1>3, <2>1, <4>1 DEF Readying
    <3> QED BY <3>1, <3>2
  <2>4. CASE \/ GatewayStart \/ WriteBundle \/ FlushChain \/ HookChain \/ AppendRule
             \/ SpawnOpenVpn \/ TunnelUp \/ ExpiryTimer \/ GatewayFails \/ PodReplaced
             \/ NamespaceRemoved
    <3>1. (gw' # "none" => gw # "none") /\ (gw' \in Kept => gw \in Kept)
      BY <2>4 DEF GatewayStart, WriteBundle, FlushChain, HookChain, AppendRule,
            SpawnOpenVpn, TunnelUp, ExpiryTimer, GatewayFails, PodReplaced,
            NamespaceRemoved, Serving, Running
    <3> QED BY <1>2, <1>3, <2>1, <3>1 DEF Readying
  <2> QED BY <1>11, <2>2, <2>3, <2>4 DEF GatewayStep
<1> QED BY <1>5, <1>6, <1>7, <1>8, <1>9, <1>10, <1>11 DEF RangeNext

\* ReadyIsUsable for any number of faults, restarts and concurrent destroys:
\* what get waits for needs the object that is applied last, a whole plan
\* keeps within the quota, and its rules let the learner in (adapter.ts get,
\* manifests.ts).
THEOREM ReadyRunsAreUsable == RangeSafety => []ReadyIsUsable
<1>1. RangeInit => Applying /\ Readying
  <2> SUFFICES ASSUME RangeInit PROVE Applying /\ Readying
    OBVIOUS
  <2>1. req \in Requests /\ applied = 0 /\ gw = "none" /\ look = "idle" /\ said = "none"
    BY DEF RangeInit
  <2> QED BY <2>1, PlanBegins DEF Applying, Readying
<1>2. Applying /\ Readying => ReadyIsUsable
  <2> SUFFICES ASSUME Applying, Readying, said = "ready"
               PROVE  applied = Len(Plan(req)) /\ req \in SufficientRequests
    BY DEF ReadyIsUsable
  <2>1. req \in Requests
    BY DEF Applying
  <2> QED BY <2>1, EveryRequestSuffices DEF Readying, Whole, SufficientRequests
<1> QED BY <1>1, <1>2, Always, ApplyingStep, ReadyingStep, PTL DEF RangeSafety

-----------------------------------------------------------------------------
(* The end of an expired run at its gateway.                                *)

Laid(i) == [j \in 1..i |-> Chain[j]]

\* The chain holds the first rules, in order.
Growing == DOMAIN fw = {"chain", "hook"} /\ \E i \in 0..5 : fw.chain = Laid(i)

LEMMA ChainHasFive ==
    /\ Len(Chain) = 5 /\ DOMAIN Chain = 1..5
    /\ Chain = [j \in 1..5 |-> Chain[j]]
<1>1. \E a, b, c, d, e : Chain = <<a, b, c, d, e>>
  BY Zenon DEF Chain
<1>2. PICK a, b, c, d, e : Chain = <<a, b, c, d, e>>
  BY <1>1
<1>3. Len(Chain) = 5
  BY <1>2
<1>4. DOMAIN Chain = 1..5
  BY <1>2
<1>5. Chain = [j \in 1..5 |-> Chain[j]]
  <2>1. Chain \in Seq({a, b, c, d, e})
    BY <1>2
  <2> QED BY <1>3, <2>1
<1> QED BY <1>3, <1>4, <1>5

LEMMA AppendedRule ==
    ASSUME NEW i \in 0..4
    PROVE  Append(Laid(i), Chain[Len(Laid(i)) + 1]) = Laid(i + 1)
<1> DEFINE S == {Chain[j] : j \in 1..5}
<1>1. Laid(i) \in Seq(S)
  <2>1. i \in Nat /\ \A j \in 1..i : Chain[j] \in S
    OBVIOUS
  <2> HIDE DEF S
  <2> QED BY <2>1 DEF Laid
<1>2. Len(Laid(i)) = i
  BY <1>1 DEF Laid
<1>3. Chain[i + 1] \in S
  OBVIOUS
<1> HIDE DEF S
<1> DEFINE longer == Append(Laid(i), Chain[i + 1])
<1>4. longer \in Seq(S) /\ Len(longer) = i + 1
  BY <1>1, <1>2, <1>3, AppendProperties
<1>5. ASSUME NEW j \in 1..i + 1 PROVE longer[j] = Chain[j]
  <2>1. j \in 1..i => longer[j] = Laid(i)[j]
    BY <1>1, <1>2, <1>3, AppendProperties
  <2>2. j = i + 1 => longer[j] = Chain[i + 1]
    BY <1>1, <1>2, <1>3, AppendProperties
  <2> QED BY <2>1, <2>2 DEF Laid
<1> HIDE DEF longer
<1>6. longer = [j \in 1..i + 1 |-> Chain[j]]
  BY <1>4, <1>5
<1> QED BY <1>2, <1>6 DEF Laid, longer

LEMMA WholeChain ==
    Laid(0) = <<>> /\ Laid(5) = Chain /\ \A i \in 0..4 : Laid(i) # Chain
<1>1. Laid(0) = <<>>
  BY DEF Laid
<1>2. Laid(5) = Chain
  BY ChainHasFive DEF Laid
<1>3. ASSUME NEW i \in 0..4 PROVE Laid(i) # Chain
  <2>1. DOMAIN Laid(i) = 1..i /\ 5 \in 1..5 /\ 5 \notin 1..i
    BY DEF Laid
  <2> QED BY <2>1, ChainHasFive
<1> QED BY <1>1, <1>2, <1>3

\* What a step can do to the gateway; a run that has expired stays expired.
LEMMA GatewayMoves ==
    ASSUME [RangeNext]_rangeVars
    PROVE  /\ expired => expired'
           /\ \/ UNCHANGED <<gw, fw>>
              \/ GatewayStep \/ ExpiryTimer \/ GatewayFails \/ PodReplaced
              \/ NamespaceRemoved
<1>1. CASE GatewayStep \/ ExpiryTimer \/ GatewayFails \/ PodReplaced
  <2>1. UNCHANGED expired
    BY <1>1 DEF GatewayStep, PodUp, GatewayStart, Bootstrap, WriteBundle, FlushChain,
                HookChain, AppendRule, SpawnOpenVpn, TunnelUp, ExpiryTimer,
                GatewayFails, PodReplaced, container
  <2> QED BY <1>1, <2>1
<1>2. CASE NamespaceRemoved
  BY <1>2 DEF NamespaceRemoved
<1>3. CASE \/ ProvisionStart \/ IssueStore \/ IssueAnswered \/ IssueFailed
           \/ BuildFails \/ Apply \/ ApplyFails \/ Undo
  BY <1>3 DEF ProvisionStart, IssueStore, IssueAnswered, IssueFailed, BuildFails,
              Apply, ApplyFails, Undo, pod
<1>4. ASSUME NEW d \in Destroyers,
             \/ DestroyStart(d) \/ DestroyStep(d) \/ RevokeFails(d) \/ DeleteFails(d)
      PROVE  UNCHANGED <<expired, gw, fw>>
  BY <1>4 DEF DestroyStart, DestroyStep, DestroyRevoke, DestroyNamespace, RevokeFails,
              DeleteFails, pod
<1>5. CASE \/ GetStart \/ ReadPod \/ Answer \/ TicketExchanged \/ Download
           \/ Expire \/ RuntimeRestart
  BY <1>5 DEF GetStart, ReadPod, Answer, TicketExchanged, Download, Expire,
              RuntimeRestart, pod
<1>6. CASE UNCHANGED rangeVars
  BY <1>6 DEF rangeVars
<1> QED BY <1>1, <1>2, <1>3, <1>4, <1>5, <1>6 DEF RangeNext

LEMMA ChainGrows == RangeSafety => []Growing
<1>1. RangeInit => Growing
  BY WholeChain DEF RangeInit, NoFilter, Growing
<1>2. Growing /\ [RangeNext]_rangeVars => Growing'
  <2> SUFFICES ASSUME Growing, [RangeNext]_rangeVars PROVE Growing'
    OBVIOUS
  <2>1. CASE AppendRule
    <3>1. PICK i \in 0..5 : fw.chain = Laid(i)
      BY DEF Growing
    <3>2. CASE fw.chain = Chain
      BY <2>1, <3>2 DEF AppendRule, Growing
    <3>3. CASE fw.chain # Chain
      <4>1. i \in 0..4
        BY <3>1, <3>3, WholeChain
      <4>2. fw'.chain = Laid(i + 1) /\ DOMAIN fw' = DOMAIN fw
        BY <2>1, <3>1, <3>3, <4>1, AppendedRule DEF AppendRule, Growing
      <4> QED BY <4>1, <4>2 DEF Growing
    <3> QED BY <3>2, <3>3
  <2>2. CASE FlushChain
    BY <2>2, WholeChain DEF FlushChain, Growing
  <2>3. CASE HookChain
    BY <2>3 DEF HookChain, Growing
  <2>4. CASE PodReplaced \/ NamespaceRemoved
    BY <2>4, WholeChain DEF PodReplaced, NamespaceRemoved, NoFilter, Growing
  <2>5. CASE \/ PodUp \/ GatewayStart \/ Bootstrap \/ WriteBundle \/ SpawnOpenVpn
             \/ TunnelUp \/ ExpiryTimer \/ GatewayFails
    <3>1. UNCHANGED fw
      BY <2>5 DEF PodUp, GatewayStart, Bootstrap, WriteBundle, SpawnOpenVpn, TunnelUp,
                  ExpiryTimer, GatewayFails, container
    <3> QED BY <3>1 DEF Growing
  <2>6. CASE UNCHANGED <<gw, fw>>
    BY <2>6 DEF Growing
  <2> QED BY <2>1, <2>2, <2>3, <2>4, <2>5, <2>6, GatewayMoves DEF GatewayStep
<1> QED BY <1>1, <1>2, PTL DEF RangeSafety

\* A run that has expired, by what its gateway is doing.  Over: it serves
\* nothing and has no bundle that would let it; Ruled(i): it has i rules.
Over == expired /\ gw \in {"none", "start", "down", "fetch", "write"}
Late(place) == expired /\ gw = place
Ruled(i) == Late("rules") /\ fw.chain = Laid(i)
StillServing == expired /\ Serving

LEMMA OverStaysOver == Over /\ [RangeNext]_rangeVars => Over'
<1> SUFFICES ASSUME Over, [RangeNext]_rangeVars PROVE Over'
  OBVIOUS
<1>1. expired'
  BY GatewayMoves DEF Over
<1>2. CASE GatewayStep
  <2>1. ~(FlushChain \/ HookChain \/ AppendRule \/ SpawnOpenVpn \/ TunnelUp)
    BY DEF Over, FlushChain, HookChain, AppendRule, SpawnOpenVpn, TunnelUp
  <2>2. CASE PodUp \/ GatewayStart
    BY <1>1, <2>2 DEF Over, PodUp, GatewayStart
  <2>3. CASE Bootstrap
    BY <1>1, <2>3 DEF Over, Bootstrap, Available
  <2>4. CASE WriteBundle
    BY <1>1, <2>4 DEF Over, WriteBundle
  <2> QED BY <1>2, <2>1, <2>2, <2>3, <2>4 DEF GatewayStep
<1>3. CASE ExpiryTimer \/ GatewayFails \/ PodReplaced \/ NamespaceRemoved
  BY <1>1, <1>3 DEF Over, ExpiryTimer, GatewayFails, PodReplaced, NamespaceRemoved
<1> QED BY <1>1, <1>2, <1>3, GatewayMoves DEF Over

\* Any other step of an expired run: to where it is over, to where it was, or
\* a step of the gateway, to the next place.
LEMMA LateStep ==
    ASSUME expired, [RangeNext]_rangeVars
    PROVE  /\ expired'
           /\ Over' \/ UNCHANGED <<gw, fw>> \/ GatewayStep
<1>1. CASE ExpiryTimer \/ GatewayFails \/ PodReplaced \/ NamespaceRemoved
  BY <1>1, GatewayMoves
     DEF Over, ExpiryTimer, GatewayFails, PodReplaced, NamespaceRemoved
<1> QED BY <1>1, GatewayMoves

LEMMA NextPlace ==
    ASSUME GatewayStep
    PROVE  /\ gw = "flush" => gw' = "hook"
           /\ gw = "hook" => gw' = "rules"
           /\ gw = "rules" => AppendRule
           /\ gw = "spawn" => gw' = "tunnel"
           /\ Serving => gw' = "up"
BY DEF GatewayStep, PodUp, GatewayStart, Bootstrap, WriteBundle, FlushChain, HookChain,
       AppendRule, SpawnOpenVpn, TunnelUp, Serving

AbleRange == /\ [][RangeNext]_rangeVars /\ []Growing /\ []GatewayIsAble
             /\ WF_rangeVars(GatewayStep) /\ WF_rangeVars(ExpiryTimer)

LEMMA FlushGoesOn == AbleRange => (Late("flush") ~> Late("hook") \/ Over)
<1>1. Late("flush") /\ [RangeNext]_rangeVars => (Late("flush") \/ Late("hook") \/ Over)'
  BY LateStep, NextPlace DEF Late
<1>2. Late("flush") /\ <<RangeNext /\ GatewayStep>>_rangeVars => Late("hook")'
  BY LateStep, NextPlace DEF Late
<1>3. Late("flush") /\ GatewayIsAble => ENABLED <<GatewayStep>>_rangeVars
  BY DEF Late, GatewayIsAble
<1> QED BY <1>1, <1>2, <1>3, PTL DEF AbleRange

LEMMA HookGoesOn == AbleRange => (Late("hook") ~> Late("rules") \/ Over)
<1>1. Late("hook") /\ [RangeNext]_rangeVars => (Late("hook") \/ Late("rules") \/ Over)'
  BY LateStep, NextPlace DEF Late
<1>2. Late("hook") /\ <<RangeNext /\ GatewayStep>>_rangeVars => Late("rules")'
  BY LateStep, NextPlace DEF Late
<1>3. Late("hook") /\ GatewayIsAble => ENABLED <<GatewayStep>>_rangeVars
  BY DEF Late, GatewayIsAble
<1> QED BY <1>1, <1>2, <1>3, PTL DEF AbleRange

LEMMA RulesGoOn ==
    ASSUME NEW i \in 0..4, Ruled(i), Growing, [RangeNext]_rangeVars
    PROVE  /\ (Ruled(i) \/ Ruled(i + 1) \/ Over)'
           /\ GatewayStep => Ruled(i + 1)'
<1>1. ASSUME GatewayStep PROVE Ruled(i + 1)'
  <2>1. AppendRule /\ fw.chain = Laid(i) /\ fw.chain # Chain
    BY <1>1, NextPlace, WholeChain DEF Ruled, Late
  <2>2. gw' = "rules"
    BY <2>1 DEF AppendRule, Ruled, Late
  <2>3. fw'.chain = Laid(i + 1)
    BY <2>1, AppendedRule DEF AppendRule, Growing
  <2> QED BY <2>2, <2>3, LateStep DEF Ruled, Late
<1>2. ASSUME UNCHANGED <<gw, fw>> PROVE Ruled(i)'
  BY <1>2, LateStep DEF Ruled, Late
<1>3. expired
  BY DEF Ruled, Late
<1> QED BY <1>1, <1>2, <1>3, LateStep

LEMMA RulesEnd == AbleRange => (Ruled(5) ~> Late("spawn") \/ Over)
<1>1. Ruled(5) /\ [RangeNext]_rangeVars => (Ruled(5) \/ Late("spawn") \/ Over)'
  BY LateStep, NextPlace, WholeChain DEF Ruled, Late, AppendRule
<1>2. Ruled(5) /\ <<RangeNext /\ GatewayStep>>_rangeVars => Late("spawn")'
  BY LateStep, NextPlace, WholeChain DEF Ruled, Late, AppendRule
<1>3. Ruled(5) /\ GatewayIsAble => ENABLED <<GatewayStep>>_rangeVars
  BY DEF Ruled, Late, GatewayIsAble
<1> QED BY <1>1, <1>2, <1>3, PTL DEF AbleRange

LEMMA AllRulesEnd == AbleRange => (Late("rules") ~> Late("spawn") \/ Over)
<1>1. Late("rules") /\ Growing =>
         \/ Ruled(0) \/ Ruled(1) \/ Ruled(2) \/ Ruled(3) \/ Ruled(4) \/ Ruled(5)
  BY DEF Growing, Ruled
<1>2. /\ Ruled(0) /\ Growing /\ [RangeNext]_rangeVars => (Ruled(0) \/ Ruled(1) \/ Over)'
      /\ Ruled(0) /\ Growing /\ <<RangeNext /\ GatewayStep>>_rangeVars => Ruled(1)'
  <2>1. 0 \in 0..4 /\ 0 + 1 = 1
    OBVIOUS
  <2> QED BY <2>1, RulesGoOn
<1>3. /\ Ruled(1) /\ Growing /\ [RangeNext]_rangeVars => (Ruled(1) \/ Ruled(2) \/ Over)'
      /\ Ruled(1) /\ Growing /\ <<RangeNext /\ GatewayStep>>_rangeVars => Ruled(2)'
  <2>1. 1 \in 0..4 /\ 1 + 1 = 2
    OBVIOUS
  <2> QED BY <2>1, RulesGoOn
<1>4. /\ Ruled(2) /\ Growing /\ [RangeNext]_rangeVars => (Ruled(2) \/ Ruled(3) \/ Over)'
      /\ Ruled(2) /\ Growing /\ <<RangeNext /\ GatewayStep>>_rangeVars => Ruled(3)'
  <2>1. 2 \in 0..4 /\ 2 + 1 = 3
    OBVIOUS
  <2> QED BY <2>1, RulesGoOn
<1>5. /\ Ruled(3) /\ Growing /\ [RangeNext]_rangeVars => (Ruled(3) \/ Ruled(4) \/ Over)'
      /\ Ruled(3) /\ Growing /\ <<RangeNext /\ GatewayStep>>_rangeVars => Ruled(4)'
  <2>1. 3 \in 0..4 /\ 3 + 1 = 4
    OBVIOUS
  <2> QED BY <2>1, RulesGoOn
<1>6. /\ Ruled(4) /\ Growing /\ [RangeNext]_rangeVars => (Ruled(4) \/ Ruled(5) \/ Over)'
      /\ Ruled(4) /\ Growing /\ <<RangeNext /\ GatewayStep>>_rangeVars => Ruled(5)'
  <2>1. 4 \in 0..4 /\ 4 + 1 = 5
    OBVIOUS
  <2> QED BY <2>1, RulesGoOn
<1>7. GatewayIsAble => (Late("rules") => ENABLED <<GatewayStep>>_rangeVars)
  BY DEF Late, GatewayIsAble
<1>8. /\ Ruled(0) => Late("rules")
      /\ Ruled(1) => Late("rules")
      /\ Ruled(2) => Late("rules")
      /\ Ruled(3) => Late("rules")
      /\ Ruled(4) => Late("rules")
  BY DEF Ruled
<1> QED BY <1>1, <1>2, <1>3, <1>4, <1>5, <1>6, <1>7, <1>8, RulesEnd, PTL DEF AbleRange

LEMMA SpawnGoesOn == AbleRange => (Late("spawn") ~> StillServing \/ Over)
<1>1. Late("spawn") /\ [RangeNext]_rangeVars => (Late("spawn") \/ StillServing \/ Over)'
  BY LateStep, NextPlace DEF Late, StillServing, Serving
<1>2. Late("spawn") /\ <<RangeNext /\ GatewayStep>>_rangeVars => StillServing'
  BY LateStep, NextPlace DEF Late, StillServing, Serving
<1>3. Late("spawn") /\ GatewayIsAble => ENABLED <<GatewayStep>>_rangeVars
  BY DEF Late, GatewayIsAble
<1> QED BY <1>1, <1>2, <1>3, PTL DEF AbleRange

LEMMA ServingEnds == AbleRange => (StillServing ~> Over)
<1>1. StillServing /\ [RangeNext]_rangeVars => (StillServing \/ Over)'
  BY LateStep, NextPlace DEF StillServing, Serving
<1>2. StillServing /\ <<RangeNext /\ ExpiryTimer>>_rangeVars => Over'
  BY LateStep DEF StillServing, ExpiryTimer, Over
<1>3. StillServing /\ GatewayIsAble => ENABLED <<ExpiryTimer>>_rangeVars
  BY DEF StillServing, GatewayIsAble
<1> QED BY <1>1, <1>2, <1>3, PTL DEF AbleRange

\* ExpiredTunnelEnds for any number of concurrent destroys, faults and restarts:
\* whatever its gateway was about to do when the run expired, it goes on to the
\* point where its timer stops it, or falls, and does not come back, since the
\* issuer hands no bundle out any more (entrypoint.sh, available).  The proof
\* takes the meaning of the guards from GatewayIsAble, which TLC evaluates.
THEOREM TunnelsEnd ==
    RangeSafety /\ RangeFairness /\ []GatewayIsAble => ExpiredTunnelEnds
<1>1. IInv /\ expired => \/ Over \/ Late("flush") \/ Late("hook") \/ Late("rules")
                         \/ Late("spawn") \/ StillServing
  BY DEF IInv, GatewayPlaces, Over, Late, StillServing, Serving
<1>2. Over => ~Serving
  BY DEF Over, Serving
<1>3. RangeSafety /\ RangeFairness /\ []GatewayIsAble => AbleRange
  BY ChainGrows, PTL DEF RangeSafety, RangeFairness, AbleRange
<1> QED BY <1>1, <1>2, <1>3, Always, OverStaysOver, FlushGoesOn, HookGoesOn,
           AllRulesEnd, SpawnGoesOn, ServingEnds, PTL
        DEF ExpiredTunnelEnds, AbleRange

-----------------------------------------------------------------------------
(* The recovery of a gateway.                                               *)

\* A gateway with a whole namespace and a valid profile; nothing fails.
Fit == ns = "live" /\ Whole /\ HasVpn(req) /\ Available
Quiet == faults' = faults

LEMMA GatewayHasItsWay ==
    ASSUME Applying, Fit
    PROVE  /\ Exists("Deployment", "openvpn-gateway")
           /\ Resolves("vpn-gateway") /\ Reaches("vpn-gateway", "issuer", "issuer")
<1> DEFINE q == req
           n == Len(Plan(q))
           rules == InForce(q, n)
<1>1. q \in Requests /\ applied = n /\ n \in 0..n /\ HasVpn(q) /\ n \in Nat
  BY PlanBegins DEF Applying, Fit, Whole
<1>2. Exists("Deployment", "openvpn-gateway")
  <2>1. VpnObjects[2] = Obj("Deployment", "openvpn-gateway") /\ Len(VpnObjects) = 5
    BY DEF VpnObjects
  <2>2. Obj("Deployment", "openvpn-gateway") \in Members(VpnObjects)
    BY <2>1 DEF Members
  <2>3. Obj("Deployment", "openvpn-gateway") \in Members(Plan(q))
    BY <1>1, <2>2, MembersOfPlan DEF Vpns
  <2>4. Obj("Deployment", "openvpn-gateway") \in Applied(q, n)
    BY <2>3 DEF Applied, Members
  <2> DEFINE st == <<q, n>>
             o == Obj("Deployment", "openvpn-gateway")
  <2>5. st \in Stages
    BY <1>1 DEF Stages
  <2>6. <<st[1], st[2], o>> \in Present
    BY <2>4, <2>5 DEF Present
  <2> QED BY <1>1, <2>6 DEF Exists, Fit
<1>3. \A who \in Outside : \A peer, port : Open(rules, "ingress", who, peer, port)
  <2>1. \A r \in RulesOf(q) : \A who \in Outside : who \notin r.pods
    BY DEF RulesOf, BaseRules, BlueRules, GatewayRules, Rule, Roles, Outside
  <2> QED BY <2>1, Opens DEF InForce
<1>4. Open(rules, "egress", "vpn-gateway", "dns", "dns")
  <2> DEFINE a == Rule("allow-dns", "egress",
                       {"workstation", "vpn-gateway"}
                           \cup (IF Blue(q) THEN {"target", "kibana"} ELSE {}),
                       {"dns"}, "dns")
  <2>1. a \in rules
    <3>1. a \in BaseRules(q)
      BY DEF BaseRules
    <3> QED BY <1>1, <3>1, RulesInForce
  <2> HIDE DEF rules
  <2>2. /\ a.dir = "egress" /\ "vpn-gateway" \in a.pods
        /\ "dns" \in a.peers /\ a.port = "dns"
    BY DEF Rule
  <2> HIDE DEF a
  <2> QED BY <2>1, <2>2, Opens
<1>5. Open(rules, "egress", "vpn-gateway", "issuer", "issuer")
  <2> DEFINE a == Rule("allow-vpn-bootstrap", "egress", {"vpn-gateway"}, {"issuer"},
                       "issuer")
  <2>1. a \in rules
    <3>1. a \in GatewayRules
      BY DEF GatewayRules
    <3>2. a.policy # "allow-desktop-gateway"
      BY DEF Rule
    <3> HIDE DEF a
    <3> QED BY <1>1, <3>1, <3>2, RulesInForce
  <2> HIDE DEF rules
  <2>2. /\ a.dir = "egress" /\ "vpn-gateway" \in a.pods
        /\ "issuer" \in a.peers /\ a.port = "issuer"
    BY DEF Rule
  <2> HIDE DEF a
  <2> QED BY <2>1, <2>2, Opens
<1> HIDE DEF rules
<1>6. /\ "vpn-gateway" \in Roles /\ {"dns", "issuer"} \subseteq Outside
      /\ {"dns", "issuer"} \subseteq Ports
  BY DEF Roles, Outside, Ports
<1>7. /\ Connects(rules, "vpn-gateway", "dns", "dns")
      /\ Connects(rules, "vpn-gateway", "issuer", "issuer")
  BY <1>3, <1>4, <1>5, <1>6 DEF Connects
<1>8. /\ Permitted(q, n, "vpn-gateway", "dns", "dns")
      /\ Permitted(q, n, "vpn-gateway", "issuer", "issuer")
  BY <1>1, <1>6, <1>7, ConnectsPermitted DEF rules
<1> QED BY <1>1, <1>2, <1>8 DEF Resolves, Reaches

\* The files of the bundle are not there yet.
Fresh == /\ gw \in {"fetch", "write"} => disk.files = FALSE
         /\ faults \in Nat

LEMMA FreshAlways == RangeSafety => []Fresh
<1>1. RangeInit => Fresh
  BY DEF RangeInit, Fresh
<1>2. IInv /\ Fresh /\ [RangeNext]_rangeVars => Fresh'
  <2> SUFFICES ASSUME IInv, Fresh, [RangeNext]_rangeVars PROVE Fresh'
    OBVIOUS
  <2>1. faults' \in {faults, faults + 1}
    BY DEF RangeNext, rangeVars, caller, getter, pod, container, DestroyStep, GatewayStep,
         ProvisionStart, IssueStore, IssueAnswered, IssueFailed, BuildFails, Apply,
         ApplyFails, Undo, DestroyStart, DestroyRevoke, RevokeFails, DestroyNamespace,
         DeleteFails, GetStart, ReadPod, Answer, PodUp, GatewayStart, Bootstrap,
         WriteBundle, FlushChain, HookChain, AppendRule, SpawnOpenVpn, TunnelUp,
         ExpiryTimer, GatewayFails, PodReplaced, TicketExchanged, Download,
         NamespaceRemoved, Expire, RuntimeRestart, Fault
  <2>2. gw' \in {"fetch", "write"} => disk'.files = FALSE
    BY DEF Fresh, NoDisk, RangeNext, rangeVars, caller, getter, pod, container, DestroyStep,
         GatewayStep,
         ProvisionStart, IssueStore, IssueAnswered, IssueFailed, BuildFails, Apply,
         ApplyFails, Undo, DestroyStart, DestroyRevoke, RevokeFails, DestroyNamespace,
         DeleteFails, GetStart, ReadPod, Answer, PodUp, GatewayStart, Bootstrap,
         WriteBundle, FlushChain, HookChain, AppendRule, SpawnOpenVpn, TunnelUp,
         ExpiryTimer, GatewayFails, PodReplaced, TicketExchanged, Download,
         NamespaceRemoved, Expire, RuntimeRestart
  <2> QED BY <2>1, <2>2 DEF Fresh
<1> QED BY <1>1, <1>2, Always, PTL DEF RangeSafety

\* In quiet times the gateway of such a run goes only its own way, up.
LEMMA QuietStep ==
    ASSUME Applying, Fresh, Fit, [RangeNext]_rangeVars, [Quiet]_rangeVars
    PROVE  /\ UNCHANGED <<gw, fw>> \/ GatewayStep
           /\ GatewayStep =>
                /\ gw = "none" => gw' = "start"
                /\ gw \in {"start", "down"} => gw' = "fetch"
                /\ gw = "fetch" => gw' = "write"
                /\ gw = "write" => gw' = "flush"
                /\ gw = "tunnel" => gw' = "up"
                /\ gw # "up"
<1>1. ~(ExpiryTimer \/ GatewayFails \/ PodReplaced \/ NamespaceRemoved)
  BY DEF Fit, Available, Fresh, Quiet, rangeVars, ExpiryTimer, GatewayFails, PodReplaced,
         NamespaceRemoved, Fault
<1>2. GatewayStep =>
        /\ gw = "none" => gw' = "start"
        /\ gw \in {"start", "down"} => gw' = "fetch"
        /\ gw = "fetch" => gw' = "write"
        /\ gw = "write" => gw' = "flush"
        /\ gw = "tunnel" => gw' = "up"
        /\ gw # "up"
  BY GatewayHasItsWay
     DEF Fit, Available, Fresh, GatewayStep, PodUp, GatewayStart, Bootstrap, WriteBundle,
         FlushChain, HookChain, AppendRule, SpawnOpenVpn, TunnelUp
<1> QED BY <1>1, <1>2, GatewayMoves

\* From some time on: nothing fails, and the run is as it should be.
FitRange == /\ AbleRange /\ []IInv /\ []Applying /\ []Fresh
            /\ []Fit /\ [][Quiet]_rangeVars

At(place) == gw = place
Laying(i) == At("rules") /\ fw.chain = Laid(i)

LEMMA FitIsAble ==
    /\ Applying /\ Fit /\ GatewayIsAble =>
         \A place \in GatewayPlaces \ {"up"} : At(place) => ENABLED <<GatewayStep>>_rangeVars
BY GatewayHasItsWay DEF Fit, GatewayIsAble, At, GatewayPlaces

\* The place after a place; the rules are appended one by one.
LEMMA QuietPlaces ==
    ASSUME Applying, Fresh, Fit, [RangeNext]_rangeVars, [Quiet]_rangeVars
    PROVE  /\ At("none") => (At("none") \/ At("start"))'
           /\ At("start") => (At("start") \/ At("fetch"))'
           /\ At("down") => (At("down") \/ At("fetch"))'
           /\ At("fetch") => (At("fetch") \/ At("write"))'
           /\ At("write") => (At("write") \/ At("flush"))'
           /\ At("flush") => (At("flush") \/ At("hook"))'
           /\ At("hook") => (At("hook") \/ At("rules"))'
           /\ At("spawn") => (At("spawn") \/ At("tunnel"))'
           /\ At("tunnel") => (At("tunnel") \/ At("up"))'
           /\ At("up") => At("up")'
BY QuietStep, NextPlace DEF At, Serving

LEMMA QuietGoes ==
    ASSUME Applying, Fresh, Fit, <<RangeNext /\ GatewayStep>>_rangeVars, [Quiet]_rangeVars
    PROVE  /\ At("none") => At("start")'
           /\ At("start") => At("fetch")'
           /\ At("down") => At("fetch")'
           /\ At("fetch") => At("write")'
           /\ At("write") => At("flush")'
           /\ At("flush") => At("hook")'
           /\ At("hook") => At("rules")'
           /\ At("spawn") => At("tunnel")'
           /\ At("tunnel") => At("up")'
BY QuietStep, NextPlace DEF At, Serving

LEMMA QuietRule ==
    ASSUME NEW i \in 0..4, Laying(i),
           Applying, Fresh, Fit, Growing, [RangeNext]_rangeVars, [Quiet]_rangeVars
    PROVE  /\ (Laying(i) \/ Laying(i + 1))'
           /\ GatewayStep => Laying(i + 1)'
<1>1. ASSUME GatewayStep PROVE Laying(i + 1)'
  <2>1. AppendRule /\ fw.chain = Laid(i) /\ fw.chain # Chain
    BY <1>1, NextPlace, WholeChain DEF Laying, At
  <2>2. fw'.chain = Laid(i + 1) /\ gw' = "rules"
    BY <2>1, AppendedRule DEF AppendRule, Growing
  <2> QED BY <2>2 DEF Laying, At
<1>2. ASSUME UNCHANGED <<gw, fw>> PROVE Laying(i)'
  BY <1>2 DEF Laying, At
<1> QED BY <1>1, <1>2, QuietStep

LEMMA LastRule ==
    ASSUME Laying(5), Applying, Fresh, Fit, [RangeNext]_rangeVars, [Quiet]_rangeVars
    PROVE  /\ (Laying(5) \/ At("spawn"))'
           /\ GatewayStep => At("spawn")'
BY QuietStep, NextPlace, WholeChain DEF Laying, At, AppendRule

\* Every place but the top one is passed.
LEMMA PlacesPass ==
    FitRange =>
         /\ (At("none") ~> At("start"))
         /\ (At("start") ~> At("fetch"))
         /\ (At("down") ~> At("fetch"))
         /\ (At("fetch") ~> At("write"))
         /\ (At("write") ~> At("flush"))
         /\ (At("flush") ~> At("hook"))
         /\ (At("hook") ~> At("rules"))
         /\ (At("spawn") ~> At("tunnel"))
         /\ (At("tunnel") ~> At("up"))
<1>1. Applying /\ Fresh /\ Fit /\ [RangeNext]_rangeVars /\ [Quiet]_rangeVars =>
         /\ (At("none") => (At("none") \/ At("start"))')
         /\ (At("start") => (At("start") \/ At("fetch"))')
         /\ (At("down") => (At("down") \/ At("fetch"))')
         /\ (At("fetch") => (At("fetch") \/ At("write"))')
         /\ (At("write") => (At("write") \/ At("flush"))')
         /\ (At("flush") => (At("flush") \/ At("hook"))')
         /\ (At("hook") => (At("hook") \/ At("rules"))')
         /\ (At("spawn") => (At("spawn") \/ At("tunnel"))')
         /\ (At("tunnel") => (At("tunnel") \/ At("up"))')
  BY QuietPlaces
<1>2. Applying /\ Fresh /\ Fit /\ <<RangeNext /\ GatewayStep>>_rangeVars
        /\ [Quiet]_rangeVars =>
         /\ (At("none") => At("start")')
         /\ (At("start") => At("fetch")')
         /\ (At("down") => At("fetch")')
         /\ (At("fetch") => At("write")')
         /\ (At("write") => At("flush")')
         /\ (At("flush") => At("hook")')
         /\ (At("hook") => At("rules")')
         /\ (At("spawn") => At("tunnel")')
         /\ (At("tunnel") => At("up")')
  BY QuietGoes
<1>3. Applying /\ Fit /\ GatewayIsAble =>
         (\/ At("none") \/ At("start") \/ At("down") \/ At("fetch") \/ At("write")
          \/ At("flush") \/ At("hook") \/ At("spawn") \/ At("tunnel")
          => ENABLED <<GatewayStep>>_rangeVars)
  BY FitIsAble DEF GatewayPlaces
<1> QED BY <1>1, <1>2, <1>3, PTL DEF FitRange, AbleRange

LEMMA RulesPass == FitRange => (At("rules") ~> At("spawn"))
<1>1. At("rules") /\ Growing =>
         \/ Laying(0) \/ Laying(1) \/ Laying(2) \/ Laying(3) \/ Laying(4) \/ Laying(5)
  BY DEF Growing, Laying
<1>2. /\ Laying(0) /\ Applying /\ Fresh /\ Fit /\ Growing /\ [RangeNext]_rangeVars
        /\ [Quiet]_rangeVars => (Laying(0) \/ Laying(1))'
      /\ Laying(0) /\ Applying /\ Fresh /\ Fit /\ Growing
        /\ <<RangeNext /\ GatewayStep>>_rangeVars /\ [Quiet]_rangeVars => Laying(1)'
  <2>1. 0 \in 0..4 /\ 0 + 1 = 1
    OBVIOUS
  <2> QED BY <2>1, QuietRule
<1>3. /\ Laying(1) /\ Applying /\ Fresh /\ Fit /\ Growing /\ [RangeNext]_rangeVars
        /\ [Quiet]_rangeVars => (Laying(1) \/ Laying(2))'
      /\ Laying(1) /\ Applying /\ Fresh /\ Fit /\ Growing
        /\ <<RangeNext /\ GatewayStep>>_rangeVars /\ [Quiet]_rangeVars => Laying(2)'
  <2>1. 1 \in 0..4 /\ 1 + 1 = 2
    OBVIOUS
  <2> QED BY <2>1, QuietRule
<1>4. /\ Laying(2) /\ Applying /\ Fresh /\ Fit /\ Growing /\ [RangeNext]_rangeVars
        /\ [Quiet]_rangeVars => (Laying(2) \/ Laying(3))'
      /\ Laying(2) /\ Applying /\ Fresh /\ Fit /\ Growing
        /\ <<RangeNext /\ GatewayStep>>_rangeVars /\ [Quiet]_rangeVars => Laying(3)'
  <2>1. 2 \in 0..4 /\ 2 + 1 = 3
    OBVIOUS
  <2> QED BY <2>1, QuietRule
<1>5. /\ Laying(3) /\ Applying /\ Fresh /\ Fit /\ Growing /\ [RangeNext]_rangeVars
        /\ [Quiet]_rangeVars => (Laying(3) \/ Laying(4))'
      /\ Laying(3) /\ Applying /\ Fresh /\ Fit /\ Growing
        /\ <<RangeNext /\ GatewayStep>>_rangeVars /\ [Quiet]_rangeVars => Laying(4)'
  <2>1. 3 \in 0..4 /\ 3 + 1 = 4
    OBVIOUS
  <2> QED BY <2>1, QuietRule
<1>6. /\ Laying(4) /\ Applying /\ Fresh /\ Fit /\ Growing /\ [RangeNext]_rangeVars
        /\ [Quiet]_rangeVars => (Laying(4) \/ Laying(5))'
      /\ Laying(4) /\ Applying /\ Fresh /\ Fit /\ Growing
        /\ <<RangeNext /\ GatewayStep>>_rangeVars /\ [Quiet]_rangeVars => Laying(5)'
  <2>1. 4 \in 0..4 /\ 4 + 1 = 5
    OBVIOUS
  <2> QED BY <2>1, QuietRule
<1>7. /\ Laying(5) /\ Applying /\ Fresh /\ Fit /\ [RangeNext]_rangeVars
        /\ [Quiet]_rangeVars => (Laying(5) \/ At("spawn"))'
      /\ Laying(5) /\ Applying /\ Fresh /\ Fit /\ <<RangeNext /\ GatewayStep>>_rangeVars
        /\ [Quiet]_rangeVars => At("spawn")'
  BY LastRule
<1>8. Applying /\ Fit /\ GatewayIsAble =>
         (\/ Laying(0) \/ Laying(1) \/ Laying(2) \/ Laying(3) \/ Laying(4) \/ Laying(5)
          => ENABLED <<GatewayStep>>_rangeVars)
  BY FitIsAble DEF GatewayPlaces, Laying
<1> QED BY <1>1, <1>2, <1>3, <1>4, <1>5, <1>6, <1>7, <1>8, PTL DEF FitRange, AbleRange

LEMMA FitRangeRises == FitRange => <>[](gw = "up")
<1>1. IInv => \/ At("none") \/ At("start") \/ At("down") \/ At("fetch") \/ At("write")
              \/ At("flush") \/ At("hook") \/ At("rules") \/ At("spawn") \/ At("tunnel")
              \/ At("up")
  BY DEF IInv, GatewayPlaces, At
<1>2. Applying /\ Fresh /\ Fit /\ [RangeNext]_rangeVars /\ [Quiet]_rangeVars
        /\ At("up") => At("up")'
  BY QuietPlaces
<1>3. At("up") => gw = "up"
  BY DEF At
<1> QED BY <1>1, <1>2, <1>3, PlacesPass, RulesPass, PTL DEF FitRange, AbleRange

\* GatewayRecovers, once nothing fails any more (the model counts MaxFaults
\* failures, and what is eventual of a count would take an induction): the
\* gateway of a run with a whole plan and a valid profile finds DNS and the
\* issuer open to it at every start, and goes up through every command of its
\* script, rule by rule, until the tunnel is up (entrypoint.sh, manifests.ts).
THEOREM GatewaysRecover ==
    RangeSafety /\ RangeFairness /\ []GatewayIsAble /\ <>[][Quiet]_rangeVars
      => GatewayRecovers
<1>1. (ns = "live" /\ applied = Len(Plan(req)) /\ HasVpn(req) /\ Available) => Fit
  BY DEF Fit, Whole
<1>2. RangeSafety /\ RangeFairness /\ []GatewayIsAble => AbleRange
  BY Always, ChainGrows, PTL DEF RangeSafety, RangeFairness, AbleRange
<1> QED BY <1>1, <1>2, Always, ApplyingAlways, FreshAlways, FitRangeRises, PTL
        DEF GatewayRecovers, FitRange, AbleRange

-----------------------------------------------------------------------------
(* The validation of a revision.                                           *)

\* What a set of findings says is true of the revision, except that an endpoint
\* that is down or does not answer in time looks like a network that is closed.
Sound(findings) ==
    /\ "provisioned" \in findings => ~Has("crashes")
    /\ "functional" \in findings => ~Has("broken")
    /\ "vulnerability" \in findings => ~Has("patched")
    /\ "searchable" \in findings => ~Has("unsearchable")
    /\ "egressBlocked" \in findings => "external" \in unheard \/ ~Has("openExternal")
    /\ "controlPlaneBlocked" \in findings =>
         "controlPlane" \in unheard \/ ~Has("openControlPlane")
    /\ "crossRunBlocked" \in findings =>
         blinked \/ "crossRun" \in unheard \/ ~Has("openCrossRun")

\* The validator reviews what a sandbox that is through has found, and the
\* API believes only a policy that was passed.
Judged ==
    /\ chain = "scan" => box = "idle"
    /\ chain \in {"review", "publish", "publishDoubtful", "pass", "quarantine"}
         => box = "answered"
    /\ chain \in {"publish", "pass"} => ReviewPassed
    /\ chain = "pass" => PublishChecks
    /\ api = "validated" => chain = "pass"

\* A probe that is still waited for was started with the canary up, and what
\* it prints is sound.
Probed ==
    /\ box \in {"job", "probe"} => canary \/ blinked
    /\ box = "probe" => Sound(job.saw)
    /\ "cleanupConfirmed" \notin job.saw
    /\ box = "lookup" => ~Has("unsearchable")

\* A namespace goes after everything was read from it, with the job in it, and
\* only then is it said to be gone.
Cleaned ==
    /\ vspace \in {"terminating", "gone"} => box \in {"watch", "answered", "threw"}
    /\ vspace = "gone" => job = NoJob
    /\ "cleanupConfirmed" \in evidence => box = "answered" /\ vspace = "gone"

Building ==
    /\ box = "idle" => made = 0
    /\ box = "base" => made < Len(BoxObjects)

ValidationInv ==
    ValidationTypeOK /\ Judged /\ Sound(evidence) /\ Probed /\ Cleaned /\ Building

LEMMA BoxLength == Len(BoxObjects) = 9
BY DEF BoxObjects

LEMMA ValidationBegins == ValidationInit => ValidationInv
<1> SUFFICES ASSUME ValidationInit PROVE ValidationInv
  OBVIOUS
<1>1. ValidationTypeOK
  <2>1. NoJob \in [state : {"none", "running", "succeeded", "failed"},
                   saw : SUBSET Findings]
    BY DEF NoJob
  <2>2. troubles \in 0 .. MaxTroubles /\ made \in 0 .. Len(BoxObjects)
    BY TroubleBound, BoxLength DEF ValidationInit
  <2> QED BY <2>1, <2>2 DEF ValidationInit, ValidationTypeOK, Places
<1>2. Judged /\ Sound(evidence) /\ Probed /\ Cleaned /\ Building
  BY BoxLength DEF ValidationInit, Judged, Sound, Probed, Cleaned, Building, NoJob
<1> QED BY <1>1, <1>2 DEF ValidationInv

\* The validator and the API leave the sandbox as it is, once it was started.
LEMMA ValidatorKeepsInv ==
    ValidationInv /\ (ValidatorStep \/ ValidatorGivesUp \/ ApiGivesUp)
        => ValidationInv'
<1> SUFFICES ASSUME ValidationInv, ValidatorStep \/ ValidatorGivesUp \/ ApiGivesUp
             PROVE  ValidationInv'
  OBVIOUS
<1> USE TroubleBound, BoxLength
    DEF ValidationInv, ValidationTypeOK, Judged, Sound, Probed, Cleaned, Building,
        Has, Trouble, boxState, world, Places
<1>1. CASE Scan
  BY <1>1 DEF Scan
<1>2. CASE SandboxAnswered
  BY <1>2 DEF SandboxAnswered, ReviewPassed, PublishChecks, ScannedClean,
              TeamEvidence
<1>3. CASE Review
  BY <1>3 DEF Review, ReviewPassed, PublishChecks, ScannedClean, TeamEvidence
<1>4. CASE Publish
  BY <1>4 DEF Publish, ReviewPassed, PublishChecks, ScannedClean, TeamEvidence
<1>5. CASE ApiAnswered
  BY <1>5 DEF ApiAnswered, Verdict, ReviewPassed, PublishChecks, ScannedClean,
              TeamEvidence
<1>6. CASE ValidatorGivesUp
  BY <1>6 DEF ValidatorGivesUp
<1>7. CASE ApiGivesUp
  BY <1>7 DEF ApiGivesUp, ReviewPassed, PublishChecks, ScannedClean, TeamEvidence
<1> QED BY <1>1, <1>2, <1>3, <1>4, <1>5, <1>6, <1>7 DEF ValidatorStep

\* A step of the sandbox that is under way: nothing was judged yet.
Underway == box \notin {"idle", "answered", "threw"}

\* What keeps Judged while a sandbox is under way.
LEMMA UnjudgedStep ==
    ASSUME Judged, Underway, UNCHANGED <<api, chain>>
    PROVE  Judged'
BY DEF Judged, Underway

LEMMA BuildingKeepsInv ==
    ValidationInv /\ (ApplyObject \/ ApplyObjectFails) => ValidationInv'
<1> SUFFICES ASSUME ValidationInv, ApplyObject \/ ApplyObjectFails
             PROVE  ValidationInv'
  OBVIOUS
<1>1. Judged'
  BY UnjudgedStep DEF ValidationInv, Underway, ApplyObject, ApplyObjectFails, validator
<1> USE TroubleBound, BoxLength
    DEF ValidationInv, ValidationTypeOK, Sound, Probed, Cleaned, Building,
        Has, Trouble, Go, validator, world, Places
<1>2. CASE ApplyObject
  BY <1>1, <1>2 DEF ApplyObject
<1>3. CASE ApplyObjectFails
  BY <1>1, <1>3 DEF ApplyObjectFails
<1> QED BY <1>2, <1>3

LEMMA TargetKeepsInv ==
    ValidationInv /\ (TargetReady \/ TargetFails \/ CheckCanary \/ ApplyJob)
        => ValidationInv'
<1> SUFFICES ASSUME ValidationInv,
                    TargetReady \/ TargetFails \/ CheckCanary \/ ApplyJob
             PROVE  ValidationInv'
  OBVIOUS
<1>1. Judged'
  BY UnjudgedStep
     DEF ValidationInv, Underway, TargetReady, TargetFails, CheckCanary, ApplyJob,
         validator
<1> USE DEF ValidationInv, ValidationTypeOK, Sound, Probed, Cleaned, Building,
            Has, Go, validator, world, Places, NoJob
<1>2. CASE TargetReady
  BY <1>1, <1>2 DEF TargetReady, Findings
<1>3. CASE TargetFails
  BY <1>1, <1>3 DEF TargetFails
<1>4. CASE CheckCanary
  BY <1>1, <1>4 DEF CheckCanary
<1>5. CASE ApplyJob
  BY <1>1, <1>5 DEF ApplyJob
<1> QED BY <1>2, <1>3, <1>4, <1>5

\* What the probe prints of a route it could not reach is that the route is
\* closed, that the canary was down, or that it was not answered in time.
LEMMA ProbePrints ==
    ASSUME ValidationInv, Probe
    PROVE  \E saw \in SUBSET Findings :
               /\ job' = [state |-> "succeeded", saw |-> saw]
               /\ box = "probe" => Sound(saw)'
               /\ "cleanupConfirmed" \notin saw
<1>1. PICK missed \in SUBSET (Routes \cup {"functional", "vulnerability"}) :
        /\ job' = [state |-> "succeeded",
                   saw |-> {x \in {"functional"} \ missed :
                              ReachesTarget /\ ~Has("broken")}
                           \cup {x \in {"vulnerability"} \ missed :
                                   ReachesTarget /\ ~Has("patched")}
                           \cup {Blocked[r] : r \in {r \in Routes :
                                   ~CouldHear(r) \/ r \in missed}}]
        /\ unheard' = unheard \cup {r \in Routes \cap missed : CouldHear(r)}
  BY DEF Probe
<1> DEFINE S == {x \in {"functional"} \ missed : ReachesTarget /\ ~Has("broken")}
                \cup {x \in {"vulnerability"} \ missed :
                        ReachesTarget /\ ~Has("patched")}
           C == {r \in Routes : ~CouldHear(r) \/ r \in missed}
           B == {Blocked[r] : r \in C}
<1>2. /\ S \subseteq {"functional", "vulnerability"}
      /\ "functional" \in S => ~Has("broken")
      /\ "vulnerability" \in S => ~Has("patched")
  OBVIOUS
<1>3. /\ B \subseteq Isolated
      /\ "egressBlocked" \in B => "external" \in C
      /\ "controlPlaneBlocked" \in B => "controlPlane" \in C
      /\ "crossRunBlocked" \in B => "crossRun" \in C
  BY DEF Blocked, Routes, Isolated
<1>4. \A r \in C : r \in unheard' \/ ~CouldHear(r)
  BY <1>1
<1>5. /\ "external" \in C => "external" \in unheard' \/ ~Has("openExternal")
      /\ "controlPlane" \in C =>
           "controlPlane" \in unheard' \/ ~Has("openControlPlane")
      /\ "crossRun" \in C =>
           ~canary \/ "crossRun" \in unheard' \/ ~Has("openCrossRun")
  BY <1>4 DEF CouldHear, ProbeReaches, OpenRoute
<1>6. box = "probe" => canary \/ blinked
  BY DEF ValidationInv, Probed
<1>7. UNCHANGED <<lab, blinked>>
  BY DEF Probe, validator
<1>8. job' = [state |-> "succeeded", saw |-> S \cup B]
  BY <1>1
<1> HIDE DEF S, B, C
<1>9. PICK saw \in SUBSET Findings : saw = S \cup B
  BY <1>2, <1>3 DEF Findings, Isolated
<1>10. box = "probe" => Sound(saw)'
  BY <1>2, <1>3, <1>5, <1>6, <1>7, <1>9 DEF Sound, Isolated, Has
<1>11. "cleanupConfirmed" \notin saw
  BY <1>2, <1>3, <1>9 DEF Isolated
<1> QED BY <1>8, <1>9, <1>10, <1>11

LEMMA ProbeKeepsInv ==
    ValidationInv /\ (Probe \/ ProbeFails) => ValidationInv'
<1> SUFFICES ASSUME ValidationInv, Probe \/ ProbeFails PROVE ValidationInv'
  OBVIOUS
<1>1. UNCHANGED <<lab, api, chain, box, made, vspace, index, evidence, canary, blinked,
                  kept>>
  BY DEF Probe, ProbeFails, validator, world
<1>u. unheard \subseteq unheard' /\ unheard' \subseteq Routes
  BY DEF Probe, ProbeFails, world, ValidationInv, ValidationTypeOK
<1>t. troubles' \in 0 .. MaxTroubles
  BY TroubleBound DEF Probe, ProbeFails, Trouble, ValidationInv, ValidationTypeOK
<1>2. Judged' /\ Sound(evidence)' /\ Building'
  BY <1>1, <1>u DEF ValidationInv, Judged, Sound, Building, Has, ReviewPassed,
              PublishChecks, ScannedClean, TeamEvidence
<1>3. CASE Probe
  <2>1. PICK saw \in SUBSET Findings :
             /\ job' = [state |-> "succeeded", saw |-> saw]
             /\ box = "probe" => Sound(saw)'
             /\ "cleanupConfirmed" \notin saw
    BY <1>3, ProbePrints
  <2>v. vspace = "live"
    BY <1>3 DEF Probe
  <2>2. ValidationTypeOK'
    BY <1>1, <1>u, <1>t, <2>1 DEF ValidationInv, ValidationTypeOK
  <2>3. Probed' /\ Cleaned'
    BY <1>1, <2>1, <2>v DEF ValidationInv, Probed, Cleaned, Sound, Has
  <2> QED BY <1>2, <2>2, <2>3 DEF ValidationInv
<1>4. CASE ProbeFails
  <2>1. /\ job.state = "running" /\ job' = [NoJob EXCEPT !.state = "failed"]
        /\ Trouble
    BY <1>4 DEF ProbeFails
  <2>2. ValidationTypeOK'
    BY <1>1, <1>u, <1>t, <2>1 DEF ValidationInv, ValidationTypeOK, NoJob
  <2>3. Probed' /\ Cleaned'
    BY <1>1, <2>1 DEF ValidationInv, Probed, Cleaned, Sound, Has, NoJob
  <2> QED BY <1>2, <2>2, <2>3 DEF ValidationInv
<1> QED BY <1>3, <1>4

LEMMA ReadingKeepsInv ==
    ValidationInv /\ (ReadProbe \/ ProbeLost \/ BoxFails) => ValidationInv'
<1> SUFFICES ASSUME ValidationInv, ReadProbe \/ ProbeLost \/ BoxFails
             PROVE  ValidationInv'
  OBVIOUS
<1>1. Judged'
  BY UnjudgedStep
     DEF ValidationInv, Underway, ReadProbe, ProbeLost, BoxFails, validator
<1>2. CASE ReadProbe
  <2> DEFINE L == {x \in {"exploitPathLimited"} :
                      lab.team = "red" /\ Isolated \subseteq job.saw}
  <2>1. /\ box = "probe" /\ evidence' = evidence \cup job.saw \cup L
        /\ box' \in {"index", "delete"}
        /\ UNCHANGED <<lab, api, chain, made, vspace, job, index, canary, blinked,
                       unheard, kept, troubles>>
    BY <1>2 DEF ReadProbe, Go, validator, world
  <2>2. L \subseteq {"exploitPathLimited"}
    OBVIOUS
  <2> HIDE DEF L
  <2>3. Sound(evidence)'
    BY <2>1, <2>2 DEF ValidationInv, Probed, Sound, Has
  <2>4. ValidationTypeOK'
    <3>1. evidence' \subseteq Findings
      BY <2>1, <2>2 DEF ValidationInv, ValidationTypeOK, Findings
    <3> QED BY <2>1, <3>1 DEF ValidationInv, ValidationTypeOK, Places
  <2>5. "cleanupConfirmed" \notin evidence'
    BY <2>1, <2>2 DEF ValidationInv, Probed, Cleaned
  <2>6. Probed' /\ Cleaned' /\ Building'
    BY <2>1, <2>5 DEF ValidationInv, Probed, Cleaned, Building
  <2> QED BY <1>1, <2>3, <2>4, <2>6 DEF ValidationInv
<1> USE TroubleBound
    DEF ValidationInv, ValidationTypeOK, Sound, Probed, Cleaned, Building,
        Has, Trouble, Go, validator, world, Places, NoJob
<1>3. CASE ProbeLost
  BY <1>1, <1>3 DEF ProbeLost
<1>4. CASE BoxFails
  BY <1>1, <1>4 DEF BoxFails
<1> QED BY <1>2, <1>3, <1>4

LEMMA TelemetryKeepsInv ==
    /\ ValidationInv
    /\ CreateIndex \/ IndexEvents \/ LookupEvents \/ DropIndex \/ TelemetryFails
    => ValidationInv'
<1> SUFFICES ASSUME ValidationInv,
                    \/ CreateIndex \/ IndexEvents \/ LookupEvents \/ DropIndex
                    \/ TelemetryFails
             PROVE  ValidationInv'
  OBVIOUS
<1>1. Judged'
  BY UnjudgedStep
     DEF ValidationInv, Underway, CreateIndex, IndexEvents, LookupEvents, DropIndex,
         TelemetryFails, validator
<1> USE TroubleBound
    DEF ValidationInv, ValidationTypeOK, Sound, Probed, Cleaned, Building,
        Has, Trouble, Go, validator, world, Places
<1>2. CASE CreateIndex
  BY <1>1, <1>2 DEF CreateIndex, Findings
<1>3. CASE IndexEvents
  BY <1>1, <1>3 DEF IndexEvents
<1>4. CASE LookupEvents
  BY <1>1, <1>4 DEF LookupEvents, Findings
<1>5. CASE DropIndex
  BY <1>1, <1>5 DEF DropIndex
<1>6. CASE TelemetryFails
  BY <1>1, <1>6 DEF TelemetryFails
<1> QED BY <1>2, <1>3, <1>4, <1>5, <1>6

LEMMA RemovalKeepsInv ==
    /\ ValidationInv
    /\ \/ DeleteBox \/ DeleteBoxFails \/ WatchGone \/ WatchTimesOut \/ WatchThrows
       \/ BoxRestart
    => ValidationInv'
<1> SUFFICES ASSUME ValidationInv,
                    \/ DeleteBox \/ DeleteBoxFails \/ WatchGone \/ WatchTimesOut
                    \/ WatchThrows \/ BoxRestart
             PROVE  ValidationInv'
  OBVIOUS
<1>1. Judged'
  BY UnjudgedStep
     DEF ValidationInv, Underway, DeleteBox, DeleteBoxFails, WatchGone, WatchTimesOut,
         WatchThrows, BoxRestart, validator
<1> USE TroubleBound
    DEF ValidationInv, ValidationTypeOK, Sound, Probed, Cleaned, Building,
        Has, Trouble, Go, validator, world, Places
<1>2. CASE DeleteBox
  BY <1>1, <1>2 DEF DeleteBox
<1>3. CASE DeleteBoxFails
  <2>1. CASE vspace' = "terminating" /\ UNCHANGED kept
    BY <1>1, <1>3, <2>1 DEF DeleteBoxFails
  <2>2. CASE UNCHANGED vspace /\ kept' = TRUE
    BY <1>1, <1>3, <2>2 DEF DeleteBoxFails
  <2> QED BY <1>3, <2>1, <2>2 DEF DeleteBoxFails
<1>4. CASE WatchGone
  BY <1>1, <1>4 DEF WatchGone, Findings
<1>5. CASE WatchTimesOut
  BY <1>1, <1>5 DEF WatchTimesOut
<1>6. CASE WatchThrows
  BY <1>1, <1>6 DEF WatchThrows
<1>7. CASE BoxRestart
  BY <1>1, <1>7 DEF BoxRestart
<1> QED BY <1>2, <1>3, <1>4, <1>5, <1>6, <1>7

LEMMA ClusterKeepsInv ==
    ValidationInv /\ (BoxGone \/ CanaryBlinks) => ValidationInv'
<1> SUFFICES ASSUME ValidationInv, BoxGone \/ CanaryBlinks PROVE ValidationInv'
  OBVIOUS
<1> USE TroubleBound
    DEF ValidationInv, ValidationTypeOK, Judged, Sound, Probed, Cleaned, Building,
        Has, Trouble, ReviewPassed, PublishChecks, ScannedClean, TeamEvidence
<1>1. CASE BoxGone
  BY <1>1 DEF BoxGone, validator, world, NoJob
<1>2. CASE CanaryBlinks
  BY <1>2 DEF CanaryBlinks, validator, boxState
<1> QED BY <1>1, <1>2

LEMMA ValidationInductive ==
    ValidationInv /\ [ValidationNext]_validationVars => ValidationInv'
<1> SUFFICES ASSUME ValidationInv, [ValidationNext]_validationVars
             PROVE  ValidationInv'
  OBVIOUS
<1>1. CASE UNCHANGED validationVars
  BY <1>1
     DEF validationVars, world, ValidationInv, ValidationTypeOK, Judged, Sound, Probed,
         Cleaned, Building, Has, ReviewPassed, PublishChecks, ScannedClean, TeamEvidence
<1> QED BY <1>1, ValidatorKeepsInv, BuildingKeepsInv, TargetKeepsInv, ProbeKeepsInv,
           ReadingKeepsInv, TelemetryKeepsInv, RemovalKeepsInv, ClusterKeepsInv
        DEF ValidationNext, BoxStep

LEMMA ValidationAlways == ValidationSafety => []ValidationInv
BY ValidationBegins, ValidationInductive, PTL DEF ValidationSafety

\* PassIsEarned whatever number of calls fails: a revision that is recorded as
\* validated has nothing wrong that the chain looks for, but a route whose
\* endpoint the probe could not hear, and its sandbox is gone (validator
\* chain.py, runtime validation.ts and probe.ts).
THEOREM VerdictsAreEarned == ValidationSafety => []PassIsEarned
<1>1. ASSUME ValidationInv PROVE PassIsEarned
  <2> SUFFICES ASSUME api = "validated" PROVE PassIsEarned
    BY DEF PassIsEarned
  <2>1. chain = "pass" /\ ReviewPassed /\ PublishChecks /\ box = "answered"
    BY <1>1 DEF ValidationInv, Judged
  <2>2. lab.flaw \in Flaws /\ lab.team \in {"red", "blue"}
        /\ lab.reviewer \in {"external", "dev"}
    BY <1>1 DEF ValidationInv, ValidationTypeOK, Revisions
  <2>3. Sound(evidence)
    BY <1>1 DEF ValidationInv
  <2>4. /\ lab.flaw \notin {"draft", "unsigned", "criticalCVE", "ungraded"}
        /\ {"provisioned", "functional", "vulnerability", "cleanupConfirmed"}
             \subseteq evidence
        /\ {"egressBlocked", "controlPlaneBlocked", "crossRunBlocked"} \subseteq evidence
        /\ lab.team = "blue" => "searchable" \in evidence
    BY <2>1 DEF PublishChecks, ScannedClean, Has, Isolated, TeamEvidence
  <2>5. /\ lab.flaw \notin {"crashes", "broken", "patched"}
        /\ "external" \in unheard \/ lab.flaw # "openExternal"
        /\ "controlPlane" \in unheard \/ lab.flaw # "openControlPlane"
        /\ blinked \/ "crossRun" \in unheard \/ lab.flaw # "openCrossRun"
        /\ lab.team = "blue" => lab.flaw # "unsearchable"
    BY <2>3, <2>4 DEF Sound, Has
  <2>6. lab.reviewer = "external" => lab.flaw # "doubtful"
    BY <2>1 DEF ReviewPassed, Has
  <2>7. vspace = "gone" /\ job = NoJob
    BY <1>1, <2>4 DEF ValidationInv, Cleaned
  <2> QED BY <2>2, <2>4, <2>5, <2>6, <2>7 DEF PassIsEarned, Flaws
<1> QED BY ValidationAlways, <1>1, PTL

\* With the deployment there, all policies are.
LEMMA BoxIsClosed ==
    ASSUME NEW n \in 8 .. 9
    PROVE  BoxInForce(n) = BoxRules
<1>1. \A i \in 1 .. 7 : i \in 1 .. n
  OBVIOUS
<1>2. \A r \in BoxRules : r.policy \in {BoxObjects[4], BoxObjects[5], BoxObjects[6],
                                        BoxObjects[7]}
  BY DEF BoxRules, BoxObjects, Rule
<1> QED BY <1>1, <1>2 DEF BoxInForce

LEMMA RulesOpen ==
    /\ \A dst, port : ~Open(BoxRules, "egress", "target", dst, port)
    /\ \A dst, port : Open(BoxRules, "egress", "probe", dst, port) =>
          <<dst, port>> \in {<<"target", "service">>, <<"dns", "dns">>}
<1> DEFINE deny == Rule("default-deny", "egress", BoxRoles, {}, "none")
<1>1. deny \in BoxRules /\ deny.dir = "egress" /\ deny.pods = {"probe", "target"}
  BY DEF BoxRules, BoxRoles, Rule
<1> HIDE DEF deny
<1>2. \A r \in BoxRules : r.dir = "egress" =>
         \/ r.peers = {}
         \/ r.pods = {"probe"} /\ r.peers = {"target"} /\ r.port = "service"
         \/ r.pods = {"probe"} /\ r.peers = {"dns"} /\ r.port = "dns"
  BY DEF BoxRules, Rule
<1>3. ASSUME NEW p \in {"probe", "target"}, NEW dst, NEW port,
             Open(BoxRules, "egress", p, dst, port)
      PROVE  \E r \in BoxRules : /\ r.dir = "egress" /\ p \in r.pods
                                 /\ dst \in r.peers /\ port = r.port
  BY <1>1, <1>3 DEF Open
<1> QED BY <1>2, <1>3

\* SandboxIsConfined for every part of a sandbox: while its target can run,
\* the target reaches nothing and the probe the target and DNS (runtime
\* validation-manifests.ts).
THEOREM SandboxesAreConfined == ValidationSafety => []SandboxIsConfined
<1>1. ASSUME ValidationInv PROVE SandboxIsConfined
  <2> SUFFICES ASSUME BoxHas("Deployment") PROVE SandboxIsConfined
    BY DEF SandboxIsConfined
  <2>1. made \in 0 .. 9
    BY <1>1, BoxLength DEF ValidationInv, ValidationTypeOK
  <2>2. made \in 8 .. 9
    <3>1. PICK i \in 1 .. made : BoxObjects[i] = "Deployment"
      BY DEF BoxHas
    <3>2. i \in 1 .. 9 /\ (i \in 1 .. 7 => BoxObjects[i] # "Deployment")
      BY <2>1, <3>1 DEF BoxObjects
    <3> QED BY <2>1, <3>1, <3>2
  <2>3. BoxInForce(made) = BoxRules
    BY <2>2, BoxIsClosed
  <2> QED BY <2>3, RulesOpen DEF SandboxIsConfined, BoxConnects, Connects
<1> QED BY ValidationAlways, <1>1, PTL

-----------------------------------------------------------------------------
(* The end of a sandbox whose objects were all created.                     *)

\* A sandbox between its last object and its deletion.
Created == box \in {"target", "canary", "job", "probe", "index", "bulk", "lookup",
                    "drop", "delete"}
\* Its namespace goes, or a deletion of it was refused or never asked for.
Ending == vspace \in {"terminating", "gone"} \/ kept

Sandboxed ==
    /\ Created => vspace = "live" /\ made = 9
    /\ box = "probe" => job.state \in {"running", "succeeded", "failed"}

\* What else than a step of the sandbox's own can happen to it.
LEMMA SandboxMoves ==
    ASSUME ValidationInv, Sandboxed, Created, [ValidationNext]_validationVars
    PROVE  \/ UNCHANGED <<box, vspace, job, made>>
           \/ BoxStep
           \/ UNCHANGED <<box, vspace, made>> /\ (Probe \/ ProbeFails)
           \/ BoxFails \/ TelemetryFails
           \/ Ending' /\ box' \notin {"target", "canary", "job", "probe", "index", "bulk",
                                      "lookup", "drop", "delete"}
<1>1. CASE ValidatorStep \/ ValidatorGivesUp \/ ApiGivesUp
  BY <1>1 DEF ValidationInv, Judged, Created, ValidatorStep, Scan, SandboxAnswered, Review,
              Publish, ApiAnswered, ValidatorGivesUp, ApiGivesUp, boxState
<1>2. CASE Probe \/ ProbeFails
  BY <1>2 DEF Probe, ProbeFails
<1>3. CASE CanaryBlinks \/ UNCHANGED validationVars
  BY <1>3 DEF CanaryBlinks, boxState, validationVars
<1>4. CASE BoxRestart
  BY <1>4 DEF BoxRestart, Ending, Created, Go
<1>5. CASE DeleteBoxFails
  BY <1>5 DEF DeleteBoxFails, Ending, Go
<1>6. ~(ApplyObjectFails \/ WatchThrows \/ BoxGone)
  BY DEF Created, Sandboxed, ApplyObjectFails, WatchThrows, BoxGone
<1> QED BY <1>1, <1>2, <1>3, <1>4, <1>5, <1>6 DEF ValidationNext

LEMMA NextOfSandbox ==
    ASSUME BoxStep
    PROVE  /\ box = "target" => box' \in {"canary", "delete"}
           /\ box = "canary" => box' \in {"job", "delete"}
           /\ box = "job" => box' = "probe" /\ job'.state = "running"
           /\ box = "probe" => box' \in {"index", "delete"}
           /\ box = "index" => box' = "bulk"
           /\ box = "bulk" => box' \in {"drop", "lookup"}
           /\ box = "lookup" => box' = "drop"
           /\ box = "drop" => box' = "delete"
           /\ box = "delete" => box' = "watch" /\ vspace' = "terminating"
           /\ Created /\ box # "delete" => UNCHANGED <<vspace, made>>
           /\ Created /\ box # "job" => UNCHANGED job
BY DEF BoxStep, ApplyObject, TargetReady, TargetFails, CheckCanary, ApplyJob, ReadProbe,
       ProbeLost, CreateIndex, IndexEvents, LookupEvents, DropIndex, DeleteBox, WatchGone,
       WatchTimesOut, Go, Created, NoJob

LEMMA SandboxedNext ==
    ValidationInv /\ Sandboxed /\ [ValidationNext]_validationVars => Sandboxed'
<1> SUFFICES ASSUME ValidationInv, Sandboxed, [ValidationNext]_validationVars
             PROVE  Sandboxed'
  OBVIOUS
<1>1. CASE Created /\ BoxStep
  BY <1>1, NextOfSandbox DEF Sandboxed, Created
<1>2. CASE Created /\ (BoxFails \/ TelemetryFails)
  BY <1>2 DEF BoxFails, TelemetryFails, Go, Sandboxed, Created
<1>3. CASE Created /\ (Probe \/ ProbeFails)
  <2>1. job'.state \in {"succeeded", "failed"} /\ UNCHANGED <<box, vspace, made>>
    BY <1>3 DEF Probe, ProbeFails, NoJob
  <2> QED BY <1>3, <2>1 DEF Sandboxed, Created
<1>4. CASE Created /\ ~(BoxStep \/ BoxFails \/ TelemetryFails \/ Probe \/ ProbeFails)
  BY <1>4, SandboxMoves DEF Sandboxed, Created
<1>5. CASE ~Created /\ ApplyObject
  BY <1>5, BoxLength DEF ApplyObject, Go, Sandboxed, Created
<1>6. CASE ~Created /\ ~ApplyObject
  <2>1. ~Created'
    BY <1>6 DEF ValidationNext, ValidatorStep, Scan, SandboxAnswered, Review, Publish,
                ApiAnswered, ValidatorGivesUp, ApiGivesUp, BoxStep, TargetReady,
                TargetFails, CheckCanary, ApplyJob, ReadProbe, ProbeLost, CreateIndex,
                IndexEvents, LookupEvents, DropIndex, DeleteBox, WatchGone,
                WatchTimesOut, Probe, ProbeFails, ApplyObjectFails, BoxFails,
                TelemetryFails, DeleteBoxFails, WatchThrows, BoxRestart, BoxGone,
                CanaryBlinks, Go, Created, boxState, validationVars
  <2> QED BY <2>1 DEF Sandboxed, Created
<1> QED BY <1>1, <1>2, <1>3, <1>4, <1>5, <1>6, SandboxMoves

LEMMA SandboxedAlways == ValidationSafety => []Sandboxed
<1>1. ValidationInit => Sandboxed
  BY DEF ValidationInit, Sandboxed, Created
<1> QED BY <1>1, SandboxedNext, ValidationAlways, PTL DEF ValidationSafety

AbleSandbox ==
    /\ [][ValidationNext]_validationVars
    /\ []ValidationInv /\ []Sandboxed /\ []SandboxIsAble
    /\ WF_validationVars(BoxStep) /\ WF_validationVars(Probe)
    /\ WF_validationVars(BoxGone)

In(place) == box = place

\* Wherever the sandbox is, a step of somebody else leaves it there, or it is
\* ending, or on its way to its deletion.
LEMMA SandboxStays ==
    ASSUME ValidationInv, Sandboxed, Created, [ValidationNext]_validationVars
    PROVE  \/ UNCHANGED box \/ BoxStep \/ In("delete")' \/ Ending'
           \/ box \in {"bulk", "lookup"} /\ In("drop")'
BY SandboxMoves DEF In, BoxFails, TelemetryFails, Go, Probe, ProbeFails

LEMMA TargetGoesOn ==
    AbleSandbox => (In("target") ~> In("canary") \/ In("delete") \/ Ending)
<1>1. In("target") /\ ValidationInv /\ Sandboxed /\ [ValidationNext]_validationVars =>
         (In("target") \/ In("canary") \/ In("delete") \/ Ending)'
  BY SandboxStays, NextOfSandbox DEF In, Created, Ending
<1>2. In("target") /\ <<ValidationNext /\ BoxStep>>_validationVars =>
         (In("canary") \/ In("delete"))'
  BY NextOfSandbox DEF In, Ending
<1>3. In("target") /\ Sandboxed /\ SandboxIsAble => ENABLED <<BoxStep>>_validationVars
  <2>1. In("target") /\ Sandboxed => BoxHas("Deployment") /\ BoxHas("Service")
    <3>1. BoxObjects[8] = "Deployment" /\ BoxObjects[9] = "Service"
      BY DEF BoxObjects
    <3>2. 8 \in 1..9 /\ 9 \in 1..9
      OBVIOUS
    <3> QED BY <3>1, <3>2 DEF In, Sandboxed, Created, BoxHas
  <2> QED BY <2>1 DEF In, SandboxIsAble
<1> QED BY <1>1, <1>2, <1>3, PTL DEF AbleSandbox

LEMMA CanaryGoesOn ==
    AbleSandbox => (In("canary") ~> In("job") \/ In("delete") \/ Ending)
<1>1. In("canary") /\ ValidationInv /\ Sandboxed /\ [ValidationNext]_validationVars =>
         (In("canary") \/ In("job") \/ In("delete") \/ Ending)'
  BY SandboxStays, NextOfSandbox DEF In, Created, Ending
<1>2. In("canary") /\ <<ValidationNext /\ BoxStep>>_validationVars =>
         (In("job") \/ In("delete"))'
  BY NextOfSandbox DEF In, Ending
<1>3. In("canary") /\ SandboxIsAble => ENABLED <<BoxStep>>_validationVars
  BY DEF In, SandboxIsAble
<1> QED BY <1>1, <1>2, <1>3, PTL DEF AbleSandbox

LEMMA JobGoesOn ==
    AbleSandbox => (In("job") ~> In("probe") \/ In("delete") \/ Ending)
<1>1. In("job") /\ ValidationInv /\ Sandboxed /\ [ValidationNext]_validationVars =>
         (In("job") \/ In("probe") \/ In("delete") \/ Ending)'
  BY SandboxStays, NextOfSandbox DEF In, Created, Ending
<1>2. In("job") /\ <<ValidationNext /\ BoxStep>>_validationVars =>
         (In("probe") \/ In("delete"))'
  BY NextOfSandbox DEF In, Ending
<1>3. In("job") /\ SandboxIsAble => ENABLED <<BoxStep>>_validationVars
  BY DEF In, SandboxIsAble
<1> QED BY <1>1, <1>2, <1>3, PTL DEF AbleSandbox

\* The probe is over in any case, and then it is read.
ProbeOver == In("probe") /\ job.state \in {"succeeded", "failed"}
ProbeRuns == In("probe") /\ job.state = "running"

LEMMA ProbeEnds ==
    AbleSandbox => (ProbeRuns ~> ProbeOver \/ In("index") \/ In("delete") \/ Ending)
<1>1. ProbeRuns /\ ValidationInv /\ Sandboxed /\ [ValidationNext]_validationVars =>
         (ProbeRuns \/ ProbeOver \/ In("index") \/ In("delete") \/ Ending)'
  <2> SUFFICES ASSUME ProbeRuns, ValidationInv, Sandboxed, [ValidationNext]_validationVars
               PROVE  \/ (ProbeRuns \/ ProbeOver)'
                      \/ (In("index") \/ In("delete") \/ Ending)'
    OBVIOUS
  <2>1. CASE UNCHANGED box
    BY <2>1, SandboxedNext DEF ProbeRuns, ProbeOver, In, Sandboxed
  <2> QED BY <2>1, SandboxStays, NextOfSandbox DEF ProbeRuns, In, Created
<1>2. ProbeRuns /\ <<ValidationNext /\ Probe>>_validationVars => ProbeOver'
  BY DEF ProbeRuns, ProbeOver, In, Probe
<1>3. ProbeRuns /\ Sandboxed /\ SandboxIsAble => ENABLED <<Probe>>_validationVars
  BY DEF ProbeRuns, In, Sandboxed, Created, SandboxIsAble
<1> QED BY <1>1, <1>2, <1>3, PTL DEF AbleSandbox

LEMMA ProbeIsRead ==
    AbleSandbox => (ProbeOver ~> In("index") \/ In("delete") \/ Ending)
<1>1. ProbeOver /\ ValidationInv /\ Sandboxed /\ [ValidationNext]_validationVars =>
         (ProbeOver \/ In("index") \/ In("delete") \/ Ending)'
  <2> SUFFICES ASSUME ProbeOver, ValidationInv, Sandboxed, [ValidationNext]_validationVars
               PROVE  ProbeOver' \/ (In("index") \/ In("delete") \/ Ending)'
    OBVIOUS
  <2>1. CASE BoxStep
    BY <2>1, NextOfSandbox DEF ProbeOver, In
  <2>2. CASE Probe \/ ProbeFails
    BY <2>2 DEF ProbeOver, Probe, ProbeFails
  <2>3. CASE BoxFails \/ TelemetryFails
    BY <2>3 DEF BoxFails, TelemetryFails, ProbeOver, In, Go
  <2>4. CASE UNCHANGED <<box, vspace, job, made>>
    BY <2>4 DEF ProbeOver, In
  <2> QED BY <2>1, <2>2, <2>3, <2>4, SandboxMoves DEF ProbeOver, In, Created
<1>2. ProbeOver /\ <<ValidationNext /\ BoxStep>>_validationVars =>
         (In("index") \/ In("delete"))'
  BY NextOfSandbox DEF ProbeOver, In
<1>3. ProbeOver /\ SandboxIsAble => ENABLED <<BoxStep>>_validationVars
  BY DEF ProbeOver, In, SandboxIsAble
<1> QED BY <1>1, <1>2, <1>3, PTL DEF AbleSandbox

LEMMA IndexGoesOn ==
    AbleSandbox => (In("index") ~> In("bulk") \/ In("delete") \/ Ending)
<1>1. In("index") /\ ValidationInv /\ Sandboxed /\ [ValidationNext]_validationVars =>
         (In("index") \/ In("bulk") \/ In("delete") \/ Ending)'
  BY SandboxStays, NextOfSandbox DEF In, Created, Ending
<1>2. In("index") /\ <<ValidationNext /\ BoxStep>>_validationVars =>
         (In("bulk") \/ In("delete"))'
  BY NextOfSandbox DEF In, Ending
<1>3. In("index") /\ SandboxIsAble => ENABLED <<BoxStep>>_validationVars
  BY DEF In, SandboxIsAble
<1> QED BY <1>1, <1>2, <1>3, PTL DEF AbleSandbox

LEMMA BulkGoesOn ==
    AbleSandbox => (In("bulk") ~> In("lookup") \/ In("drop") \/ In("delete") \/ Ending)
<1>1. In("bulk") /\ ValidationInv /\ Sandboxed /\ [ValidationNext]_validationVars =>
         (In("bulk") \/ In("lookup") \/ In("drop") \/ In("delete") \/ Ending)'
  BY SandboxStays, NextOfSandbox DEF In, Created, Ending
<1>2. In("bulk") /\ <<ValidationNext /\ BoxStep>>_validationVars =>
         (In("lookup") \/ In("drop") \/ In("delete"))'
  BY NextOfSandbox DEF In, Ending
<1>3. In("bulk") /\ SandboxIsAble => ENABLED <<BoxStep>>_validationVars
  BY DEF In, SandboxIsAble
<1> QED BY <1>1, <1>2, <1>3, PTL DEF AbleSandbox

LEMMA LookupGoesOn ==
    AbleSandbox => (In("lookup") ~> In("drop") \/ In("delete") \/ Ending)
<1>1. In("lookup") /\ ValidationInv /\ Sandboxed /\ [ValidationNext]_validationVars =>
         (In("lookup") \/ In("drop") \/ In("delete") \/ Ending)'
  BY SandboxStays, NextOfSandbox DEF In, Created, Ending
<1>2. In("lookup") /\ <<ValidationNext /\ BoxStep>>_validationVars =>
         (In("drop") \/ In("delete"))'
  BY NextOfSandbox DEF In, Ending
<1>3. In("lookup") /\ SandboxIsAble => ENABLED <<BoxStep>>_validationVars
  BY DEF In, SandboxIsAble
<1> QED BY <1>1, <1>2, <1>3, PTL DEF AbleSandbox

LEMMA DropGoesOn ==
    AbleSandbox => (In("drop") ~> In("delete") \/ Ending)
<1>1. In("drop") /\ ValidationInv /\ Sandboxed /\ [ValidationNext]_validationVars =>
         (In("drop") \/ In("delete") \/ Ending)'
  BY SandboxStays, NextOfSandbox DEF In, Created, Ending
<1>2. In("drop") /\ <<ValidationNext /\ BoxStep>>_validationVars =>
         (In("delete"))'
  BY NextOfSandbox DEF In, Ending
<1>3. In("drop") /\ SandboxIsAble => ENABLED <<BoxStep>>_validationVars
  BY DEF In, SandboxIsAble
<1> QED BY <1>1, <1>2, <1>3, PTL DEF AbleSandbox

LEMMA DeleteGoesOn ==
    AbleSandbox => (In("delete") ~> Ending)
<1>1. In("delete") /\ ValidationInv /\ Sandboxed /\ [ValidationNext]_validationVars =>
         (In("delete") \/ Ending)'
  BY SandboxStays, NextOfSandbox DEF In, Created, Ending
<1>2. In("delete") /\ <<ValidationNext /\ BoxStep>>_validationVars =>
         (Ending)'
  BY NextOfSandbox DEF In, Ending
<1>3. In("delete") /\ SandboxIsAble => ENABLED <<BoxStep>>_validationVars
  BY DEF In, SandboxIsAble
<1> QED BY <1>1, <1>2, <1>3, PTL DEF AbleSandbox

LEMMA TerminatingEnds ==
    AbleSandbox => (vspace = "terminating" ~> vspace = "gone")
<1>1. ValidationInv /\ vspace = "terminating" /\ [ValidationNext]_validationVars =>
         (vspace = "terminating" \/ vspace = "gone")'
  BY DEF ValidationInv, Cleaned, ValidationNext, ValidatorStep, Scan, SandboxAnswered,
         Review, Publish, ApiAnswered, ValidatorGivesUp, ApiGivesUp, BoxStep, ApplyObject,
         TargetReady, TargetFails, CheckCanary, ApplyJob, ReadProbe, ProbeLost,
         CreateIndex, IndexEvents, LookupEvents, DropIndex, DeleteBox, WatchGone,
         WatchTimesOut, Probe, ProbeFails, ApplyObjectFails, BoxFails, TelemetryFails,
         DeleteBoxFails, WatchThrows, BoxRestart, BoxGone, CanaryBlinks, boxState,
         validationVars
<1>2. <<ValidationNext /\ BoxGone>>_validationVars => (vspace = "gone")'
  BY DEF BoxGone
<1>3. vspace = "terminating" /\ SandboxIsAble => ENABLED <<BoxGone>>_validationVars
  BY DEF SandboxIsAble
<1> QED BY <1>1, <1>2, <1>3, PTL DEF AbleSandbox

\* CreatedIsRemoved for any number of troubles: from the last object on every
\* way through the validation, also that of an error, leads to the deletion of
\* the sandbox, which then terminates, unless the deletion was refused or the
\* service died before it asked for it (runtime validator.ts, finally).
THEOREM SandboxesEnd ==
    ValidationSafety /\ ValidationFairness /\ []SandboxIsAble => CreatedIsRemoved
<1>1. Ending => vspace = "terminating" \/ vspace = "gone" \/ kept
  BY DEF Ending
<1>2. Sandboxed /\ In("probe") => ProbeRuns \/ ProbeOver
  BY DEF Sandboxed, ProbeRuns, ProbeOver, In
<1>3. In("target") <=> box = "target"
  BY DEF In
<1>4. ValidationSafety /\ ValidationFairness /\ []SandboxIsAble => AbleSandbox
  BY ValidationAlways, SandboxedAlways, PTL
     DEF ValidationSafety, ValidationFairness, AbleSandbox
<1>5. AbleSandbox => (In("probe") ~> In("index") \/ In("delete") \/ Ending)
  BY <1>2, ProbeEnds, ProbeIsRead, PTL DEF AbleSandbox
<1>6. AbleSandbox => (In("bulk") ~> In("delete") \/ Ending)
  BY BulkGoesOn, LookupGoesOn, DropGoesOn, PTL
<1>7. AbleSandbox => (In("index") ~> In("delete") \/ Ending)
  BY <1>6, IndexGoesOn, PTL
<1>8. AbleSandbox => (In("target") ~> In("delete") \/ Ending)
  BY <1>5, <1>7, TargetGoesOn, CanaryGoesOn, JobGoesOn, PTL
<1>9. AbleSandbox => (In("target") ~> Ending)
  BY <1>8, DeleteGoesOn, PTL
<1> QED BY <1>1, <1>3, <1>4, <1>9, TerminatingEnds, PTL DEF CreatedIsRemoved
=============================================================================
