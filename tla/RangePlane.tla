------------------------------ MODULE RangePlane ------------------------------
(***************************************************************************)
(* One run at the runtime plane: the control plane's adapter (provision,   *)
(* get, destroy), the objects in its Kubernetes namespace, its row at the  *)
(* OpenVPN issuer, the VPN gateway container in the namespace, and the     *)
(* learner's download of a profile.                                        *)
(*                                                                         *)
(* A step is one remote call, one command or one statement of SQL.  A call *)
(* may fail before it has an effect or after (the answer is lost), the     *)
(* runtime service may restart, the gateway container may be killed or its *)
(* pod replaced.  The platform API provisions a run once and destroys only *)
(* a run whose provision was answered; it may repeat a destroy and two     *)
(* destroys may overlap.                                                   *)
(*                                                                         *)
(* A definition whose comment starts with "Defect" is not part of the      *)
(* model: it is the definition that follows it with a bug the code could   *)
(* have had.                                                               *)
(***************************************************************************)
EXTENDS RunManifests

CONSTANTS
    Destroyers,   \* concurrent destroy calls
    MaxFaults     \* bound on failing calls, restarts and kills

ASSUME FaultBound == MaxFaults \in Nat

VARIABLES
    req,       \* the request: [team, access]
    prov,      \* where the provision call is
    applied,   \* how many objects of the plan have been applied
    ns,        \* the namespace
    issuing,   \* the POST /v1/profiles: none, sent, stored, or abandoned by
               \* its caller while still on its way
    profile,   \* the row of openvpn_profiles
    expired,   \* expires_at of the run, its profile and its gateway has passed
    destroy,   \* where each destroy call is
    ended,     \* the API has asked for the end of the run
    gw,        \* the gateway container
    fw,        \* the packet filter of its pod: chain, hook in FORWARD
    disk,      \* the in-memory directory of its pod: files, ready marker
    look,      \* where the get call is
    said,      \* the last answer of get
    learner,   \* the download of the learner
    faults

rangeVars == <<req, prov, applied, ns, issuing, profile, expired, destroy,
               ended, gw, fw, disk, look, said, learner, faults>>
pod == <<gw, fw, disk>>
getter == <<look, said>>
caller == <<prov, issuing>>

Checks(q) ==
    {"workstationVmi", "targetWorkload"}
    \cup (IF HasBrowser(q) THEN {"desktopEndpoints"} ELSE {})
    \cup (IF HasVpn(q) THEN {"vpnPod", "vpnService"} ELSE {})
    \cup (IF Blue(q) THEN {"elasticsearch", "kibana"} ELSE {})

\* configureFirewall: the rules of the chain CODEGATE_VPN, in order
Chain == <<"accept tunnel to allowed", "accept answers", "drop from tunnel",
           "drop into tunnel", "return">>

NoFilter == [chain |-> <<>>, hook |-> FALSE]
NoDisk == [files |-> FALSE, marker |-> FALSE]

RangeInit ==
    /\ req \in Requests
    /\ prov = "idle" /\ applied = 0 /\ ns = "absent" /\ issuing = "none"
    /\ profile = "none" /\ expired = FALSE
    /\ destroy = [d \in Destroyers |-> "idle"] /\ ended = FALSE
    /\ gw = "none" /\ fw = NoFilter /\ disk = NoDisk
    /\ look = "idle" /\ said = "none"
    /\ learner = "none" /\ faults = 0

Fault == faults < MaxFaults /\ faults' = faults + 1

-----------------------------------------------------------------------------
(* provision                                                               *)

\* Only a request with VPN access asks the issuer for a profile first.
ProvisionStart ==
    /\ prov = "idle"
    /\ prov' = IF HasVpn(req) THEN "issue" ELSE "apply"
    /\ issuing' = IF HasVpn(req) THEN "sent" ELSE "none"
    /\ UNCHANGED <<req, applied, ns, profile, expired, destroy, ended, pod,
                   getter, learner, faults>>

\* The issuer's INSERT: run_id is the primary key (a second one is a 409).
IssueStore ==
    /\ issuing \in {"sent", "abandoned"}
    /\ profile' = IF profile = "none" THEN "active" ELSE profile
    /\ issuing' = IF issuing = "sent" THEN "stored" ELSE "none"
    /\ UNCHANGED <<req, prov, applied, ns, expired, destroy, ended, pod,
                   getter, learner, faults>>

IssueAnswered ==
    /\ prov = "issue" /\ issuing = "stored"
    /\ prov' = "apply" /\ issuing' = "none"
    /\ UNCHANGED <<req, applied, ns, profile, expired, destroy, ended, pod,
                   getter, learner, faults>>

\* Refused, or no valid answer within ten seconds: nothing is revoked.
IssueFailed ==
    /\ prov = "issue" /\ Fault
    /\ prov' = "failed"
    /\ issuing' \in (IF issuing = "sent" THEN {"none", "abandoned"}
                                         ELSE {"none"})
    /\ UNCHANGED <<req, applied, ns, profile, expired, destroy, ended, pod,
                   getter, learner>>

\* buildRunResources throws (a blue image or the gateway is not configured as
\* it must be), outside the try: nothing is revoked.
BuildFails ==
    /\ prov = "apply" /\ applied = 0 /\ Fault
    /\ Blue(req) \/ HasVpn(req)
    /\ prov' = "failed"
    /\ UNCHANGED <<req, applied, ns, issuing, profile, expired, destroy, ended,
                   pod, getter, learner>>

\* One server-side apply; the loop awaits each.
Apply ==
    /\ prov = "apply"
    /\ applied' = applied + 1
    /\ ns' = "live"
    /\ prov' = IF applied' = Len(Plan(req)) THEN "done" ELSE "apply"
    /\ UNCHANGED <<req, issuing, profile, expired, destroy, ended, pod,
                   getter, learner, faults>>

\* It fails, perhaps after it was carried out.
ApplyFails ==
    /\ prov = "apply" /\ Fault
    /\ \/ UNCHANGED <<applied, ns>>
       \/ applied' = applied + 1 /\ ns' = "live"
    /\ prov' = IF HasVpn(req) THEN "undo" ELSE "failed"
    /\ UNCHANGED <<req, issuing, profile, expired, destroy, ended, pod,
                   getter, learner>>

Revoked == IF profile = "active" THEN "revoked" ELSE profile

\* catch: revoke, its failure swallowed; the namespace stays.
Undo ==
    /\ prov = "undo" /\ prov' = "failed"
    /\ \/ profile' = Revoked /\ UNCHANGED faults
       \/ profile' \in {Revoked, profile} /\ Fault
    /\ UNCHANGED <<req, applied, ns, issuing, expired, destroy, ended, pod,
                   getter, learner>>

-----------------------------------------------------------------------------
(* destroy: revoke, then delete the namespace; 404 counts as done.          *)

DestroyStart(d) ==
    /\ prov = "done" /\ destroy[d] = "idle"
    /\ destroy' = [destroy EXCEPT ![d] = "revoke"]
    /\ ended' = TRUE
    /\ UNCHANGED <<req, caller, applied, ns, profile, expired, pod, getter,
                   learner, faults>>

\* After a row that is not active any more the issuer answers 404.
DestroyRevoke(d) ==
    /\ destroy[d] = "revoke"
    /\ profile' = Revoked
    /\ destroy' = [destroy EXCEPT ![d] = "delete"]
    /\ UNCHANGED <<req, caller, applied, ns, expired, ended, pod, getter,
                   learner, faults>>

\* Defect: destroy goes on after a failing revoke.
RevokeFailsSilently(d) ==
    /\ destroy[d] = "revoke" /\ Fault
    /\ profile' \in {Revoked, profile}
    /\ destroy' = [destroy EXCEPT ![d] = "delete"]
    /\ UNCHANGED <<req, caller, applied, ns, expired, ended, pod, getter,
                   learner>>

RevokeFails(d) ==
    /\ destroy[d] = "revoke" /\ Fault
    /\ profile' \in {Revoked, profile}
    /\ destroy' = [destroy EXCEPT ![d] = "idle"]
    /\ UNCHANGED <<req, caller, applied, ns, expired, ended, pod, getter,
                   learner>>

Deleted == IF ns = "live" THEN "terminating" ELSE ns

DestroyNamespace(d) ==
    /\ destroy[d] = "delete"
    /\ ns' = Deleted
    /\ destroy' = [destroy EXCEPT ![d] = "answered"]
    /\ UNCHANGED <<req, caller, applied, profile, expired, ended, pod, getter,
                   learner, faults>>

DeleteFails(d) ==
    /\ destroy[d] = "delete" /\ Fault
    /\ ns' \in {Deleted, ns}
    /\ destroy' = [destroy EXCEPT ![d] = "idle"]
    /\ UNCHANGED <<req, caller, applied, profile, expired, ended, pod, getter,
                   learner>>

-----------------------------------------------------------------------------
(* get                                                                     *)

GetStart ==
    /\ look = "idle" /\ ~ended
    /\ \/ ns \in {"absent", "gone"} /\ said' = "missing" /\ UNCHANGED look
       \/ ns \in {"live", "terminating"} /\ said' = "none"
          /\ look' = "reading"
    /\ UNCHANGED <<req, caller, applied, ns, profile, expired, destroy, ended,
                   pod, learner, faults>>

Reaches(src, dst, port) == Permitted(req, applied, src, dst, port)
Resolves(src) == Reaches(src, "dns", "dns")
Exists(kind, name) == ns # "gone" /\ <<req, applied, Obj(kind, name)>> \in Present

\* A container serving the tunnel whose readiness probe finds the marker.
Serving == gw \in {"tunnel", "up"}
PodReady == gw \notin {"none", "down", "start"} /\ disk.marker

KibanaCanStart ==
    /\ Exists("Deployment", "kibana")
    /\ Exists("Deployment", "elasticsearch") /\ Exists("Service", "elasticsearch")
    /\ Reaches("kibana", "elasticsearch", "elastic") /\ Resolves("kibana")

\* The agent beside a blue target ships its first events and makes a data
\* view before it is ready, and the target with it.
TargetCanStart ==
    /\ Exists("Deployment", "target")
    /\ Blue(req) => /\ KibanaCanStart /\ Exists("Service", "kibana")
                    /\ Reaches("target", "elasticsearch", "elastic")
                    /\ Reaches("target", "kibana", "kibana")
                    /\ Resolves("target")

CanBeReady(c) ==
    CASE c = "workstationVmi"  -> Exists("VirtualMachine", "workstation")
      [] c = "targetWorkload"  -> TargetCanStart
      [] c = "desktopEndpoints" -> /\ Exists("VirtualMachine", "workstation")
                                   /\ Exists("Service", "desktop")
      [] c = "vpnService"      -> Exists("Service", "openvpn-gateway")
      [] c = "elasticsearch"   -> Exists("Deployment", "elasticsearch")
      [] c = "kibana"          -> KibanaCanStart

\* inspectRun reads the parts concurrently: the gateway pod, which comes and
\* goes, at any moment; the others stay what they are while the namespace
\* does, and are read with the answer.
ReadPod ==
    /\ look = "reading" /\ HasVpn(req) /\ PodReady
    /\ look' = "podReady"
    /\ UNCHANGED <<req, caller, applied, ns, profile, expired, destroy, ended,
                   pod, said, learner, faults>>

AllReady ==
    /\ HasVpn(req) => look = "podReady"
    /\ \A c \in Checks(req) \ {"vpnPod"} : CanBeReady(c)

\* A part that is not ready yet, or has failed, or a deadline that has passed.
Answer ==
    /\ look # "idle" /\ look' = "idle"
    /\ \/ AllReady /\ said' = "ready"
       \/ said' \in {"provisioning", "failed"}
    /\ UNCHANGED <<req, caller, applied, ns, profile, expired, destroy, ended,
                   pod, learner, faults>>

-----------------------------------------------------------------------------
(* The VPN gateway container                                               *)

PodUp ==
    /\ gw = "none" /\ ns = "live" /\ Exists("Deployment", "openvpn-gateway")
    /\ gw' = "start"
    /\ UNCHANGED <<req, caller, applied, ns, profile, expired, destroy, ended,
                   fw, disk, getter, learner, faults>>

container == <<req, caller, applied, ns, profile, expired, destroy, ended,
               getter, learner>>

\* Defect: the files of an earlier container are kept.
GatewayStartAsIs ==
    /\ gw \in {"start", "down"} /\ ns = "live"
    /\ gw' = "fetch" /\ disk' = [disk EXCEPT !.marker = FALSE]
    /\ UNCHANGED <<container, fw, faults>>

\* The ready marker and the files of an earlier container are removed.
GatewayStart ==
    /\ gw \in {"start", "down"} /\ ns = "live"
    /\ gw' = "fetch" /\ disk' = NoDisk
    /\ UNCHANGED <<container, fw, faults>>

Available == profile = "active" /\ ~expired

\* The bundle: an UPDATE of a row that is active and not expired; the same
\* token is accepted again.
Bootstrap ==
    /\ gw = "fetch"
    /\ gw' = IF /\ Available /\ Resolves("vpn-gateway")
                /\ Reaches("vpn-gateway", "issuer", "issuer")
             THEN "write" ELSE "down"
    /\ UNCHANGED <<container, fw, disk, faults>>

\* validateGatewayBundle, then the files, none of which may exist.
WriteBundle ==
    /\ gw = "write"
    /\ IF expired \/ disk.files THEN gw' = "down" /\ UNCHANGED disk
       ELSE gw' = "flush" /\ disk' = [disk EXCEPT !.files = TRUE]
    /\ UNCHANGED <<container, fw, faults>>

FlushChain ==
    /\ gw = "flush" /\ gw' = "hook"
    /\ fw' = [fw EXCEPT !.chain = <<>>]
    /\ UNCHANGED <<container, disk, faults>>

HookChain ==
    /\ gw = "hook" /\ gw' = "rules"
    /\ fw' = [fw EXCEPT !.hook = TRUE]
    /\ UNCHANGED <<container, disk, faults>>

\* Defect: the daemon is started one rule early.
AppendAllButReturn ==
    /\ gw = "rules"
    /\ IF Len(fw.chain) = Len(Chain) - 1 THEN gw' = "spawn" /\ UNCHANGED fw
       ELSE /\ UNCHANGED gw
            /\ fw' = [fw EXCEPT !.chain = Append(@, Chain[Len(@) + 1])]
    /\ UNCHANGED <<container, disk, faults>>

\* The last rule is followed by the one for the translation of addresses, which
\* lets nothing through by itself and is left out.
AppendRule ==
    /\ gw = "rules"
    /\ IF fw.chain = Chain THEN gw' = "spawn" /\ UNCHANGED fw
       ELSE /\ UNCHANGED gw
            /\ fw' = [fw EXCEPT !.chain = Append(@, Chain[Len(@) + 1])]
    /\ UNCHANGED <<container, disk, faults>>

SpawnOpenVpn ==
    /\ gw = "spawn" /\ gw' = "tunnel"
    /\ disk' = [disk EXCEPT !.marker = FALSE]
    /\ UNCHANGED <<container, fw, faults>>

\* "Initialization Sequence Completed"
TunnelUp ==
    /\ gw = "tunnel" /\ gw' = "up"
    /\ disk' = [disk EXCEPT !.marker = TRUE]
    /\ UNCHANGED <<container, fw, faults>>

\* Defect: the timer is cleared once the tunnel is up.
TimerClearedOnceUp ==
    /\ gw = "tunnel" /\ expired
    /\ gw' = "down" /\ disk' = [disk EXCEPT !.marker = FALSE]
    /\ UNCHANGED <<container, fw, faults>>

\* The timer is set to the time left, or to zero if none is.
ExpiryTimer ==
    /\ Serving /\ expired
    /\ gw' = "down" /\ disk' = [disk EXCEPT !.marker = FALSE]
    /\ UNCHANGED <<container, fw, faults>>

Running == gw \notin {"none", "down", "start"}

\* A command fails, or the answer of the issuer is lost: the process exits.
GatewayFails ==
    /\ Running /\ Fault
    /\ gw' = "down"
    /\ \/ UNCHANGED disk
       \/ gw = "write" /\ disk' = [disk EXCEPT !.files = TRUE]
       \/ Serving /\ disk' = [disk EXCEPT !.marker = FALSE]
    /\ UNCHANGED <<container, fw>>

\* A drained node: the pod is replaced, with its network and its memory.
PodReplaced ==
    /\ gw # "none" /\ Fault
    /\ gw' = "none" /\ fw' = NoFilter /\ disk' = NoDisk
    /\ UNCHANGED container

-----------------------------------------------------------------------------
(* The learner's download: the ticket is exchanged at the platform API,    *)
(* which refuses it for a run that has ended, then the row is read.         *)

TicketExchanged ==
    /\ learner = "none" /\ prov = "done" /\ HasVpn(req) /\ ~ended
    /\ learner' = "admitted"
    /\ UNCHANGED <<req, caller, applied, ns, profile, expired, destroy, ended,
                   pod, getter, faults>>

Download ==
    /\ learner = "admitted"
    /\ learner' = IF Available THEN "profile" ELSE "refused"
    /\ UNCHANGED <<req, caller, applied, ns, profile, expired, destroy, ended,
                   pod, getter, faults>>

-----------------------------------------------------------------------------
(* The cluster, time, and a restart of the runtime service.                *)

NamespaceRemoved ==
    /\ ns = "terminating" /\ ns' = "gone"
    /\ gw' = "none" /\ fw' = NoFilter /\ disk' = NoDisk
    /\ UNCHANGED <<req, caller, applied, profile, expired, destroy, ended,
                   getter, learner, faults>>

Expire ==
    /\ ~expired /\ expired' = TRUE /\ prov # "idle"
    /\ UNCHANGED <<req, caller, applied, ns, profile, destroy, ended, pod,
                   getter, learner, faults>>

RuntimeRestart ==
    /\ Fault
    /\ prov' = IF prov \in {"issue", "apply", "undo"} THEN "failed" ELSE prov
    /\ issuing' = IF issuing = "sent" THEN "abandoned" ELSE "none"
    /\ destroy' = [d \in Destroyers |->
                     IF destroy[d] = "answered" THEN "answered" ELSE "idle"]
    /\ look' = "idle"
    /\ UNCHANGED <<req, applied, ns, profile, expired, ended, pod, said,
                   learner>>

DestroyStep(d) == DestroyRevoke(d) \/ DestroyNamespace(d)

GatewayStep == \/ PodUp \/ GatewayStart \/ Bootstrap \/ WriteBundle
               \/ FlushChain \/ HookChain \/ AppendRule \/ SpawnOpenVpn
               \/ TunnelUp

RangeNext ==
    \/ ProvisionStart \/ IssueStore \/ IssueAnswered \/ IssueFailed
    \/ BuildFails \/ Apply \/ ApplyFails \/ Undo
    \/ \E d \in Destroyers : \/ DestroyStart(d) \/ DestroyStep(d)
                             \/ RevokeFails(d) \/ DeleteFails(d)
    \/ GetStart \/ ReadPod \/ Answer
    \/ GatewayStep \/ ExpiryTimer \/ GatewayFails \/ PodReplaced
    \/ TicketExchanged \/ Download
    \/ NamespaceRemoved \/ Expire \/ RuntimeRestart

RangeSafety == RangeInit /\ [][RangeNext]_rangeVars

\* The sweep of the API repeats a destroy until it is answered; containers
\* are restarted by the kubelet and timers fire.
RangeFairness ==
    /\ \A d \in Destroyers :
         WF_rangeVars(DestroyStep(d) \/ (ended /\ DestroyStart(d)))
    /\ WF_rangeVars(GatewayStep) /\ WF_rangeVars(ExpiryTimer)
    /\ WF_rangeVars(NamespaceRemoved)

-----------------------------------------------------------------------------
Provs == {"idle", "issue", "apply", "undo", "done", "failed"}
GatewayPlaces == {"none", "start", "down", "fetch", "write", "flush", "hook",
                  "rules", "spawn", "tunnel", "up"}

\* Every variable has its type, and an object exists only in a namespace.
RangeTypeOK ==
    /\ req \in Requests
    /\ prov \in Provs
    /\ applied \in 0..Len(Plan(req))
    /\ ns \in {"absent", "live", "terminating", "gone"}
    /\ issuing \in {"none", "sent", "stored", "abandoned"}
    /\ profile \in {"none", "active", "revoked"}
    /\ expired \in BOOLEAN /\ ended \in BOOLEAN
    /\ destroy \in [Destroyers -> {"idle", "revoke", "delete", "answered"}]
    /\ gw \in GatewayPlaces
    /\ fw \in [chain : {SubSeq(Chain, 1, i) : i \in 0..5}, hook : BOOLEAN]
    /\ disk \in [files : BOOLEAN, marker : BOOLEAN]
    /\ look \in {"idle", "reading", "podReady"}
    /\ said \in {"none", "missing", "ready", "provisioning", "failed"}
    /\ learner \in {"none", "admitted", "profile", "refused"}
    /\ faults \in 0..MaxFaults
    /\ (applied = 0) = (ns = "absent")

\* The pods that exist can open no connection to the internet, the platform
\* or Kubernetes API or another run, none of those can open one to them
\* except to the VPN port, and the target can open none to a client.
Sealed(q, n) ==
    \A role \in Roles : Lives(q, n, role) =>
        /\ \A out \in {"internet", "api", "other-run"}, port \in Ports :
             /\ ~Permitted(q, n, role, out, port)
             /\ Permitted(q, n, out, role, port)
                  => role = "vpn-gateway" /\ port = "openvpn"
        /\ role = "target" =>
             \A port \in Ports : ~Permitted(q, n, role, "workstation", port)

SealedStages == {st \in Stages : Sealed(st[1], st[2])}

\* Whatever part of the plan has been applied, however the provision ended,
\* the pods of the run are sealed off (manifests.ts: default-deny before the
\* first workload, and its rules).
IsolationHolds == <<req, applied>> \in SealedStages

\* The objects of a plan fit the quota of their namespace, and with all of
\* them every connection a learner is promised is open at both ends.
Sufficient(q) ==
    LET n == Len(Plan(q))
        count(kind) == Cardinality({i \in 1..n : Plan(q)[i].kind = kind})
    IN  /\ \A kind \in DOMAIN Quota(q) : count(kind) <= Quota(q)[kind]
        /\ Permitted(q, n, "workstation", "target", "service")
        /\ Blue(q) => Permitted(q, n, "workstation", "kibana", "kibana")
        /\ HasBrowser(q) => Permitted(q, n, "desktop-gateway", "workstation",
                                      "desktop")
        /\ HasVpn(q) =>
             /\ Permitted(q, n, "internet", "vpn-gateway", "openvpn")
             /\ Permitted(q, n, "vpn-gateway", "target", "service")

SufficientRequests == {q \in Requests : Sufficient(q)}

\* A run that get has reported ready has every object of its plan, and they
\* suffice: what is applied last is needed for something get waits for
\* (adapter.ts get), and all of it fits the quota and lets the learner in.
ReadyIsUsable ==
    said = "ready" => applied = Len(Plan(req)) /\ req \in SufficientRequests

\* Access credentials go before the workload: from the moment a destroy asks
\* for the namespace to be deleted the profile is not active, and never again.
RevokedBeforeTornDown == ns \in {"terminating", "gone"} => profile # "active"

\* OpenVPN runs only behind the complete filter, hooked into FORWARD,
\* whatever an earlier container of the pod left there; and a pod that the
\* readiness probe finds ready has a tunnel.
FilterBeforeTunnel ==
    /\ Serving => fw.hook /\ fw.chain = Chain
    /\ PodReady => gw = "up"

\* A tunnel does not outlive its run: once the run has expired the gateway
\* is down for good.
ExpiredTunnelEnds == expired ~> [](~Serving)

\* A gateway with a whole namespace and a valid profile comes up (again).
GatewayRecovers ==
    (<>[](/\ ns = "live" /\ applied = Len(Plan(req)) /\ HasVpn(req)
          /\ Available)) => <>[](gw = "up")

\* What the proofs of the two take from TLC, since it is about ENABLED: where
\* the gateway can take its next command, and where its timer can fire.  The
\* actions give every variable a value, so that their guards are all they need.
GatewayIsAble ==
    /\ \/ gw = "none" /\ ns = "live" /\ Exists("Deployment", "openvpn-gateway")
       \/ gw \in {"start", "down"} /\ ns = "live"
       \/ gw \in {"fetch", "write", "flush", "hook", "rules", "spawn", "tunnel"}
       => ENABLED <<GatewayStep>>_rangeVars
    /\ Serving /\ expired => ENABLED <<ExpiryTimer>>_rangeVars
=============================================================================
