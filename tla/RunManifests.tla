----------------------------- MODULE RunManifests -----------------------------
(***************************************************************************)
(* The Kubernetes objects of one run (services/runtime manifests.ts): which *)
(* objects a request is turned into, in which order they are applied, what *)
(* the quota of the namespace admits, and which connections the network    *)
(* policies among them allow.                                              *)
(*                                                                         *)
(* A request is [team, access].  Objects are named as in the manifests,    *)
(* with their kind; a policy is the set of its rules.                      *)
(*                                                                         *)
(* A definition whose comment starts with "Defect" is not part of the      *)
(* model: it is the definition that follows it with a bug the code could   *)
(* have had.                                                               *)
(***************************************************************************)
EXTENDS Naturals, Sequences, FiniteSets, NetworkPolicy

Teams == {"red", "blue"}
AccessMethods == {"browser_desktop", "openvpn", "both"}
Requests == [team : Teams, access : AccessMethods]

HasBrowser(q) == q.access \in {"browser_desktop", "both"}
HasVpn(q) == q.access \in {"openvpn", "both"}
Blue(q) == q.team = "blue"

-----------------------------------------------------------------------------
(* The objects, in the order of the array the builder returns.             *)

Obj(kind, name) == [kind |-> kind, name |-> name]
Policy(name) == Obj("NetworkPolicy", name)

\* Defect: the workload is applied before the policies.
BaseWithPoliciesLast ==
    << Obj("Namespace", "run"), Obj("ServiceAccount", "default"),
       Obj("ResourceQuota", "run-quota"),
       Obj("Secret", "workstation-cloud-init"),
       Obj("VirtualMachine", "workstation"),
       Obj("Deployment", "target"), Obj("Service", "target"),
       Policy("default-deny"), Policy("allow-target-from-clients"),
       Policy("allow-workstation-to-target"), Policy("allow-vpn-to-target"),
       Policy("allow-dns") >>

BaseObjects ==
    << Obj("Namespace", "run"), Obj("ServiceAccount", "default"),
       Obj("ResourceQuota", "run-quota"),
       Obj("Secret", "workstation-cloud-init"),
       Policy("default-deny"), Policy("allow-target-from-clients"),
       Policy("allow-workstation-to-target"), Policy("allow-vpn-to-target"),
       Policy("allow-dns"), Obj("VirtualMachine", "workstation"),
       Obj("Deployment", "target"), Obj("Service", "target") >>

BlueObjects ==
    << Obj("Deployment", "elasticsearch"), Obj("Service", "elasticsearch"),
       Obj("Deployment", "kibana"), Obj("Service", "kibana"),
       Policy("allow-workstation-to-kibana"),
       Policy("allow-kibana-from-workstation"),
       Policy("allow-kibana-to-elasticsearch"),
       Policy("allow-target-agent-to-elasticsearch"),
       Policy("allow-target-agent-to-kibana"),
       Policy("allow-kibana-from-target-agent"),
       Policy("allow-elasticsearch-ingest") >>

BrowserObjects ==
    << Policy("allow-desktop-gateway"), Obj("Service", "desktop") >>

\* Defect: what a gateway can do without is applied last.
VpnWithPublicLast ==
    << Obj("Secret", "openvpn-gateway-bootstrap"),
       Obj("Deployment", "openvpn-gateway"), Obj("Service", "openvpn-gateway"),
       Policy("allow-vpn-bootstrap"), Policy("allow-vpn-public") >>

VpnObjects ==
    << Obj("Secret", "openvpn-gateway-bootstrap"),
       Obj("Deployment", "openvpn-gateway"), Obj("Service", "openvpn-gateway"),
       Policy("allow-vpn-public"), Policy("allow-vpn-bootstrap") >>

Plan(q) == BaseObjects
           \o (IF Blue(q) THEN BlueObjects ELSE <<>>)
           \o (IF HasBrowser(q) THEN BrowserObjects ELSE <<>>)
           \o (IF HasVpn(q) THEN VpnObjects ELSE <<>>)

\* The objects a provision has applied after n of them.
Applied(q, n) == {Plan(q)[i] : i \in 1..n}
Stages == UNION {{<<q, n>> : n \in 0..Len(Plan(q))} : q \in Requests}
Present == UNION {{<<st[1], st[2], o>> : o \in Applied(st[1], st[2])} :
                    st \in Stages}

\* The hard limits of run-quota on counts of objects.
Quota(q) == [Secret |-> 6, VirtualMachine |-> 1,
             Deployment |-> IF Blue(q) THEN 5 ELSE 2,
             Service |-> IF Blue(q) THEN 12 ELSE 8]

-----------------------------------------------------------------------------
(* The rules of the policies.                                              *)

Roles == {"workstation", "target", "elasticsearch", "kibana", "vpn-gateway"}
Outside == {"desktop-gateway", "issuer", "dns", "internet", "api", "other-run"}
Ports == {"service", "desktop", "kibana", "elastic", "openvpn", "issuer", "dns",
          "other"}

BaseRules(q) ==
    { Rule("default-deny", "ingress", Roles, {}, "none"),
      Rule("default-deny", "egress", Roles, {}, "none"),
      Rule("allow-target-from-clients", "ingress", {"target"},
           {"workstation", "vpn-gateway"}, "service"),
      Rule("allow-workstation-to-target", "egress", {"workstation"},
           {"target"}, "service"),
      Rule("allow-vpn-to-target", "egress", {"vpn-gateway"}, {"target"},
           "service"),
      Rule("allow-dns", "egress",
           {"workstation", "vpn-gateway"}
               \cup (IF Blue(q) THEN {"target", "kibana"} ELSE {}),
           {"dns"}, "dns") }

\* roleNetworkPolicy: one role, one peer, one port, one direction
BlueRules ==
    { Rule("allow-workstation-to-kibana", "egress", {"workstation"},
           {"kibana"}, "kibana"),
      Rule("allow-kibana-from-workstation", "ingress", {"kibana"},
           {"workstation"}, "kibana"),
      Rule("allow-kibana-to-elasticsearch", "egress", {"kibana"},
           {"elasticsearch"}, "elastic"),
      Rule("allow-target-agent-to-elasticsearch", "egress", {"target"},
           {"elasticsearch"}, "elastic"),
      Rule("allow-target-agent-to-kibana", "egress", {"target"}, {"kibana"},
           "kibana"),
      Rule("allow-kibana-from-target-agent", "ingress", {"kibana"}, {"target"},
           "kibana"),
      Rule("allow-elasticsearch-ingest", "ingress", {"elasticsearch"},
           {"target", "kibana"}, "elastic") }

GatewayRules ==
    { Rule("allow-desktop-gateway", "ingress", {"workstation"},
           {"desktop-gateway"}, "desktop"),
      Rule("allow-vpn-public", "ingress", {"vpn-gateway"}, Roles \cup Outside,
           "openvpn"),
      Rule("allow-vpn-bootstrap", "egress", {"vpn-gateway"}, {"issuer"},
           "issuer") }

RulesOf(q) == BaseRules(q) \cup BlueRules \cup GatewayRules

\* The policies whose rules are in force, and the connections they leave
\* open, for each request and each number of objects applied.
InForce(q, n) == {r \in RulesOf(q) : Policy(r.policy) \in Applied(q, n)}

Connections == ({"run"} \X Roles \X Roles \cup {"out"} \X Roles \X Outside
                \cup {"in"} \X Outside \X Roles) \X Ports

OpenAt(q, n) ==
    LET rules == InForce(q, n)
    IN  {c \in Connections : Connects(rules, c[1][2], c[1][3], c[2])}

Flows == UNION {{<<st[1], st[2], c[1][2], c[1][3], c[2]>> :
                  c \in OpenAt(st[1], st[2])} :
                  st \in Stages}

Permitted(q, n, src, dst, port) == <<q, n, src, dst, port>> \in Flows

\* The object whose pods have a role.
Workload(role) ==
    IF role = "workstation" THEN Obj("VirtualMachine", role)
    ELSE IF role = "vpn-gateway" THEN Obj("Deployment", "openvpn-gateway")
    ELSE Obj("Deployment", role)

Lives(q, n, role) == <<q, n, Workload(role)>> \in Present
=============================================================================
