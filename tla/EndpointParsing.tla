-------------------------- MODULE EndpointParsing --------------------------
(***************************************************************************)
(* How the SCP controller turns the TCP's advertised address and the SCP's *)
(* Ingress / Gateway hostnames into the control-plane endpoint it patches  *)
(* (controlPlaneEndpoint, parseHostnameWithDefault, patchControlPlane-     *)
(* Endpoint in stewardcontrolplane_controller_cluster_patch.go), and how   *)
(* createOrUpdateTenantControlPlane builds the TCP's certSANs from the     *)
(* same Ingress hostname (stewardcontrolplane_controller_tcp.go).          *)
(*                                                                         *)
(* A host:port text is abstracted to what net.SplitHostPort tells apart:   *)
(* the host (a DNS name, or an IPv6 literal, which contains colons),       *)
(* whether it is written in brackets, and the text after the last colon    *)
(* (NoPort when there is no port part). A port text is a decimal numeral   *)
(* (with the integer it denotes), the empty text or a non-numeric text. A  *)
(* numeral denotes hi * 2^32 + n with n in the int32 range, so the 64-bit  *)
(* values ParseInt accepts beyond TLC's integers keep their low 32 bits.   *)
(* The state is one input; Next leaves it unchanged, so TLC checks the     *)
(* operators over every input of the bounded domain.                       *)
(***************************************************************************)
EXTENDS Integers

CONSTANTS
    DnsHosts,     \* host names without a colon
    Ipv6Hosts,    \* IPv6 literals (contain colons)
    StatusPorts,  \* integers the TCP may advertise as its port
    HostPorts,    \* integers a user may write after an Ingress/Gateway hostname
    Wraps,        \* multiples of 2^32 added to them (0: none)
    UserSANs,     \* candidate entries of spec.network.certSANs
    None          \* Ingress / Gateway not configured

\* The Steward operator advertises the TCP's service port: a TCP port.
ASSUME StatusPorts \subseteq 1..65535
ASSUME None \notin DnsHosts \cup Ipv6Hosts

Hosts == DnsHosts \cup Ipv6Hosts

\* Port texts: a decimal numeral, "", a non-numeric text, or no ":port" part.
Wide(hi, n) == [kind |-> "numeral", hi |-> hi, n |-> n]
Numeral(n) == Wide(0, n)
EmptyText == [kind |-> "empty", hi |-> 0, n |-> 0]
AlphaText == [kind |-> "alpha", hi |-> 0, n |-> 0]
NoPort == [kind |-> "none", hi |-> 0, n |-> 0]
PortTexts(P) == {Wide(w, n) : w \in Wraps, n \in P} \cup {EmptyText, AlphaText}

Address(H, P) == [host: H, bracketed: BOOLEAN, port: P]

\* The entry a bare host name stands for, as certSANs hold it.
Bare(h) == [host |-> h, bracketed |-> FALSE, port |-> NoPort]

Err == [ok |-> FALSE]
Ok(h, p) == [ok |-> TRUE, host |-> h, port |-> p]

(***************************************************************************)
(* net.SplitHostPort, called at cluster_patch.go:29 and :63 and at         *)
(* tcp.go:153 and :175: it needs a ":port" part; without brackets the host *)
(* part may hold no colon ("too many colons"). The port text is returned  *)
(* unparsed.                                                               *)
(***************************************************************************)
SplitHostPort(a) ==
    IF a.port = NoPort \/ (~a.bracketed /\ a.host \in Ipv6Hosts)
    THEN Err
    ELSE Ok(a.host, a.port)

\* len(strings.Split(hostname, ":")) > 1.
HasColon(a) == a.port # NoPort \/ a.host \in Ipv6Hosts

\* strconv.ParseInt(s, 10, 16): a numeral in the int16 range.
ParseInt16(s) == s.kind = "numeral" /\ s.hi = 0 /\ -32768 <= s.n /\ s.n <= 32767

\* strconv.ParseInt(s, 10, 64): every numeral of the model fits in 64 bits.
ParseInt64(s) == s.kind = "numeral"

\* int32(port) (cluster_patch.go:85): Go keeps the low 32 bits in two's
\* complement, so hi * 2^32 + n becomes n.
Int32(p) == p.n

\* The APIEndpoint patchControlPlaneEndpoint writes (cluster_patch.go:82-86).
APIEndpoint(e) == [host |-> e.host, port |-> Int32(e.port)]

\* parseHostnameWithDefault (cluster_patch.go:58-74).
ParseHostnameWithDefault(hostname, defaultPort) ==
    LET withPort == IF HasColon(hostname) THEN hostname
                    ELSE [hostname EXCEPT !.port = Numeral(defaultPort)]
        split == SplitHostPort(withPort)
    IN IF split.ok /\ ParseInt64(split.port)
       THEN Ok(split.host, split.port) ELSE Err

\* Mutant: the Gateway hostname applied before the Ingress one.
ControlPlaneEndpointIngressLast(statusEndpoint, ingress, gateway) ==
    LET split == SplitHostPort(statusEndpoint)
        status == IF split.ok /\ ParseInt16(split.port) THEN split ELSE Err
        viaGateway == IF status.ok /\ gateway # None
                      THEN ParseHostnameWithDefault(gateway, 6443)
                      ELSE IF status.ok THEN Ok(status.host, status.port)
                      ELSE Err
    IN IF viaGateway.ok /\ ingress # None
       THEN ParseHostnameWithDefault(ingress, 443)
       ELSE viaGateway

\* controlPlaneEndpoint (cluster_patch.go:28-54): the TCP's address is
\* split and parsed first, then an Ingress and after it a Gateway hostname
\* replace it.
ControlPlaneEndpoint(statusEndpoint, ingress, gateway) ==
    LET split == SplitHostPort(statusEndpoint)
        status == IF split.ok /\ ParseInt16(split.port) THEN split ELSE Err
        viaIngress == IF status.ok /\ ingress # None
                      THEN ParseHostnameWithDefault(ingress, 443)
                      ELSE IF status.ok THEN Ok(status.host, status.port)
                      ELSE Err
    IN IF viaIngress.ok /\ gateway # None
       THEN ParseHostnameWithDefault(gateway, 6443)
       ELSE viaIngress

\* Mutant: the Ingress hostname appended as written, port included.
TenantControlPlaneCertSANsWhole(sans, ingress) ==
    IF \E i \in sans : SplitHostPort(i).ok THEN Err
    ELSE [ok |-> TRUE,
          sans |-> IF ingress = None THEN sans ELSE sans \cup {ingress}]

\* The certSANs createOrUpdateTenantControlPlane writes (tcp.go:150-181):
\* an entry with a port fails validation; the Ingress hostname is appended
\* host-only when it splits, whole otherwise. Err on the validation error.
TenantControlPlaneCertSANs(sans, ingress) ==
    IF \E i \in sans : SplitHostPort(i).ok THEN Err
    ELSE [ok |-> TRUE,
          sans |-> IF ingress = None THEN sans
                   ELSE LET split == SplitHostPort(ingress)
                        IN sans \cup {IF split.ok THEN Bare(split.host)
                                      ELSE ingress}]

-----------------------------------------------------------------------------
\* Hostnames a user writes follow the URL authority form: brackets enclose
\* an IPv6 literal only.
Hostnames == {a \in Address(Hosts, PortTexts(HostPorts) \cup {NoPort}) :
                 a.bracketed => a.host \in Ipv6Hosts}

\* Kamaji advertises net.JoinHostPort(address, port): IPv6 in brackets.
StatusEndpoints == {a \in Address(Hosts, {Numeral(n) : n \in StatusPorts}) :
                       a.bracketed = (a.host \in Ipv6Hosts)}

VARIABLES status, ingress, gateway, sans
vars == <<status, ingress, gateway, sans>>

Init ==
    /\ status \in StatusEndpoints
    /\ ingress \in Hostnames \cup {None}
    /\ gateway \in Hostnames \cup {None}
    /\ sans \in SUBSET UserSANs

Next == UNCHANGED vars

Spec == Init /\ [][Next]_vars

Endpoint == ControlPlaneEndpoint(status, ingress, gateway)
Translated == TenantControlPlaneCertSANs(sans, ingress)

-----------------------------------------------------------------------------
\* With an Ingress (and no Gateway), the host the controller advertises as
\* the control-plane endpoint is one of the TCP's certSANs: the host part
\* that controlPlaneEndpoint takes from the Ingress hostname is the entry
\* createOrUpdateTenantControlPlane appends, whatever port the hostname
\* carries or lacks.
IngressEndpointCovered ==
    (ingress # None /\ gateway = None /\ Endpoint.ok /\ Translated.ok)
        => Bare(Endpoint.host) \in Translated.sans

\* A TCP port: a 64-bit value in 1-65535.
TcpPort(p) == p.kind = "numeral" /\ p.hi = 0 /\ p.n \in 1..65535

\* Every TCP port the Steward operator advertises resolves, unchanged, to
\* the endpoint the controller patches (no Ingress or Gateway).
AdvertisedPortResolved ==
    (ingress = None /\ gateway = None)
        => Endpoint.ok /\ APIEndpoint(Endpoint).port = status.port.n

\* The port a hostname is written with, or the default port.
PortOrDefault(h, d) == IF h.port # NoPort THEN h.port ELSE Numeral(d)

\* A hostname on a DNS name whose port, written or defaulted, is a TCP port.
WellFormed(h, d) == h.host \in DnsHosts /\ TcpPort(PortOrDefault(h, d))

\* With Ingress and Gateway hostnames that are well formed (default port
\* 443 for the Ingress, 6443 for the Gateway), patchControlPlaneEndpoint
\* writes the host and port of the Gateway when there is one and else of
\* the Ingress, whenever the advertised address itself parses.
OverrideEndpointPatched ==
    LET o == IF gateway # None THEN gateway ELSE ingress
        d == IF gateway # None THEN 6443 ELSE 443
    IN (/\ o # None
        /\ ingress # None => WellFormed(ingress, 443)
        /\ gateway # None => WellFormed(gateway, 6443)
        /\ SplitHostPort(status).ok /\ ParseInt16(status.port))
         => /\ Endpoint.ok
            /\ APIEndpoint(Endpoint) = [host |-> o.host, port |-> PortOrDefault(o, d).n]

=============================================================================
