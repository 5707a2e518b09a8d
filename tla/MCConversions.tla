---------------------------- MODULE MCConversions ----------------------------
(***************************************************************************)
(* The pure conversions of the provider checked in one run: the endpoint   *)
(* and certSAN computation (EndpointParsing), the Store key round trip     *)
(* between the SCP controller and the Secret router (SecretKeyIndex),      *)
(* the remote TCP name round trip of PushStewardChange (RemoteNameIndex),  *)
(* and the TCP translation of createOrUpdateTenantControlPlane             *)
(* (TenantControlPlaneSpec).                                               *)
(* The one variable is an input of one of the four kinds; each module's    *)
(* variables are instantiated with the fields of an input of its kind, so  *)
(* the state space is the sum of the four domains.                         *)
(***************************************************************************)
EXTENDS Integers

CONSTANTS
    DnsHosts, Ipv6Hosts, StatusPorts, HostPorts, Wraps, None,
    Names, DataKeys,
    Alphabet, MaxLen, UIDs,
    LastApplied, KubeconfigKey, Owner

VARIABLE input
vars == <<input>>

\* The same host and port bounds as MCEndpointParsing.
MCDnsHosts == {"lb.example", "api.example", "gw.example"}
MCIpv6Hosts == {"fd00::1"}
MCStatusPorts == {443, 6443, 32767, 32768, 65535}
MCHostPorts == {-1, 443, 70000}

\* The certSAN candidates: the Gateway host listed by hand (no port part),
\* and an entry with a port, which createOrUpdateTenantControlPlane rejects.
MCUserSANs == {[host |-> "gw.example", bracketed |-> FALSE,
                port |-> [kind |-> "none", hi |-> 0, n |-> 0]],
               [host |-> "lb.example", bracketed |-> FALSE,
                port |-> [kind |-> "numeral", hi |-> 0, n |-> 443]]}

EP == INSTANCE EndpointParsing
        WITH status <- input.status, ingress <- input.ingress,
             gateway <- input.gateway, sans <- input.sans,
             UserSANs <- MCUserSANs

SK == INSTANCE SecretKeyIndex WITH scp <- input.scp, secret <- input.secret

RN == INSTANCE RemoteNameIndex WITH tcpName <- input.tcpName, scp <- input.scp

-----------------------------------------------------------------------------
(* TCP translation inputs. Each field of the TCP is written from its own   *)
(* claim fields only, and every error ends the mutate function, so the     *)
(* inputs vary one group of fields (claim and TCP as read) at a time over  *)
(* all its values, the others keeping those of DefaultClaim and Fresh.     *)
AnnKeys == {LastApplied, KubeconfigKey, "other"}
Gw == [host |-> "gw", port |-> FALSE]
LbBare == [host |-> "lb", port |-> FALSE]
LbPort == [host |-> "lb", port |-> TRUE]

DefaultClaim ==
    [ann |-> [k \in AnnKeys |-> None], labels |-> "l1", network |-> None,
     version |-> "v1.30", dnsIPs |-> "d1", addonsCoreDNS |-> None,
     coreDNS |-> None, schema |-> "", sans |-> <<>>, ingress |-> None,
     lb |-> None, external |-> FALSE]

TcpInputsOf(claims, priors) == {<<c, p>> : c \in claims, p \in priors}

TS == INSTANCE TenantControlPlaneSpec
        WITH claim <- input.claim, prior <- input.prior, Absent <- None,
             Inputs <- {}

TcpGroups ==
  TcpInputsOf({[DefaultClaim EXCEPT !.ann = a] : a \in [AnnKeys -> {None, "", "x"}]},
              {[TS!Fresh EXCEPT !.ann = a] : a \in [AnnKeys -> {None, "y"}]})
  \cup TcpInputsOf({[DefaultClaim EXCEPT !.network = n] :
                     n \in {None} \cup [port : {None, 6443},
                                       services : {None, <<>>, <<"c1">>},
                                       domain : {"cluster.local"}]},
                   {[TS!Fresh EXCEPT !.port = p, !.serviceCIDR = c, !.domain = d] :
                     p \in {None, 443}, c \in {None, "c0"}, d \in {None, "d0"}})
  \cup TcpInputsOf({[DefaultClaim EXCEPT !.version = v, !.labels = l] :
                     v \in {"", "1.30", "v1.30"}, l \in {None, "l1"}},
                   {[TS!Fresh EXCEPT !.version = v, !.labels = l] :
                     v \in {None, "v1.29"}, l \in {None, "l0"}})
  \cup TcpInputsOf({[DefaultClaim EXCEPT !.addonsCoreDNS = a, !.coreDNS = o] :
                     a \in {None, "a"},
                     o \in {None} \cup [dnsIPs : {"d2"}, spec : {None, "b"}]},
                   {[TS!Fresh EXCEPT !.dnsIPs = d, !.coreDNS = o] :
                     d \in {None, "d0"}, o \in {None, "a0"}})
  \cup TcpInputsOf({[DefaultClaim EXCEPT !.schema = v] : v \in {"", "s1"}},
                   {[TS!Fresh EXCEPT !.schema = v] : v \in {"", "s0"}})
  \cup TcpInputsOf({[DefaultClaim EXCEPT !.sans = s, !.ingress = i] :
                     s \in {<<>>, <<Gw>>, <<LbPort>>}, i \in {None, LbBare, LbPort}},
                   {[TS!Fresh EXCEPT !.sans = s, !.ingress = i] :
                     s \in {<<>>, <<Gw, LbBare>>}, i \in {None, LbBare}})
  \cup TcpInputsOf({[DefaultClaim EXCEPT !.lb = l] :
                     l \in {None} \cup [class : {None, "c1"}]},
                   {[TS!Fresh EXCEPT !.lbClass = l] : l \in {None, "c0"}})
  \cup TcpInputsOf({[DefaultClaim EXCEPT !.external = e] : e \in BOOLEAN},
                   {[TS!Fresh EXCEPT !.controller = o] : o \in {None, Owner, "other"}})

TcpInputs == {[kind |-> "tcp", claim |-> g[1], prior |-> g[2]] : g \in TcpGroups}

EndpointInputs ==
    [kind: {"endpoint"}, status: EP!StatusEndpoints,
     ingress: EP!Hostnames \cup {None}, gateway: EP!Hostnames \cup {None},
     sans: SUBSET MCUserSANs]

KeyInputs == [kind: {"key"}, scp: SK!SCPs, secret: SK!Secrets]

NameInputs == [kind: {"name"}, tcpName: RN!TCPNames, scp: RN!SCPs]

Init == input \in EndpointInputs \cup KeyInputs \cup NameInputs \cup TcpInputs

Next == UNCHANGED vars

Spec == Init /\ [][Next]_vars

-----------------------------------------------------------------------------
\* With an Ingress and no Gateway, the host controlPlaneEndpoint patches is
\* one of the certSANs createOrUpdateTenantControlPlane gives the TCP.
IngressEndpointCovered ==
    input.kind = "endpoint" => EP!IngressEndpointCovered

\* An Ingress or Gateway hostname with a TCP port (or none) is the endpoint
\* patchControlPlaneEndpoint writes, the Gateway taking precedence.
OverrideEndpointPatched == input.kind = "endpoint" => EP!OverrideEndpointPatched

\* The Store key extractRemoteClient asks for is registered by the router's
\* reconcile of exactly the Secret and data key the SCP reads.
KeyRoutedToReader == input.kind = "key" => SK!KeyRoutedToReader

\* PushStewardChange signals an SCP exactly for the remote TCP it named.
EventReachesOwner == input.kind = "name" => RN!EventReachesOwner

\* Spec 4.3: the TCP translation applied twice writes what it wrote once.
TranslationIdempotent == input.kind = "tcp" => TS!TranslationIdempotent

\* Updating an existing TCP gives the claim-derived fields the values that
\* creating it would (no value of an earlier claim survives).
UpdateMatchesCreate == input.kind = "tcp" => TS!UpdateMatchesCreate

=============================================================================
