------------------------ MODULE TenantControlPlaneSpec ------------------------
(***************************************************************************)
(* The mutate function createOrUpdateTenantControlPlane hands to           *)
(* controllerutil.CreateOrUpdate (stewardcontrolplane_controller_tcp.go    *)
(* l.45-215): how the SCP (the claim) and the CAPI Cluster are written     *)
(* into the TCP object CreateOrUpdate has just read. The state is one      *)
(* claim and one TCP as read; Next leaves them unchanged.                  *)
(*                                                                         *)
(* Each field keeps the control the code has for it: copied always,        *)
(* copied only when the claim sets it (so an earlier value survives), or   *)
(* computed (annotations merge, version prefix, CoreDNS override, certSAN  *)
(* list). Field values are small model strings; the plain copies of the   *)
(* deployment, resources, extra args and images (l.111-149, 196-208) are   *)
(* represented by the labels copy, which has the same control.             *)
(***************************************************************************)
EXTENDS Naturals, Sequences

CONSTANTS
    Absent,        \* a nil pointer, an absent map key, an unset field
    LastApplied,   \* corev1.LastAppliedConfigAnnotation
    KubeconfigKey, \* KubeconfigSecretKeyAnnotation
    Owner          \* the SCP, as controller reference

VARIABLES claim, prior
vars == <<claim, prior>>

AnnKeys == {LastApplied, KubeconfigKey, "other"}

\* The TCP object CreateOrUpdate starts from when the TCP does not exist:
\* only its name and namespace are set.
Fresh == [ann |-> [k \in AnnKeys |-> Absent], labels |-> Absent,
          port |-> Absent, serviceCIDR |-> Absent, domain |-> Absent,
          version |-> Absent, dnsIPs |-> Absent, coreDNS |-> Absent,
          schema |-> "", sans |-> <<>>, ingress |-> Absent,
          lbClass |-> Absent, controller |-> Absent]

HasPrefix(s, p) == Len(s) >= Len(p) /\ SubSeq(s, 1, Len(p)) = p

\* l.46-64: the claim's annotations are merged in, last-applied skipped,
\* then the kubeconfig key annotation is set from a non-empty value of
\* the claim and deleted otherwise (a missing key reads as "").
TcpAnnotations(t, s) ==
    LET merged == [k \in AnnKeys |->
                     IF k # LastApplied /\ s.ann[k] # Absent THEN s.ann[k]
                     ELSE t.ann[k]]
    IN [merged EXCEPT ![KubeconfigKey] =
          IF s.ann[KubeconfigKey] \notin {Absent, ""}
          THEN s.ann[KubeconfigKey] ELSE Absent]

\* l.65-80: the Cluster's clusterNetwork, when set, gives the port and the
\* first service CIDR when present, and always the service domain.
NetworkProfile(t, s) ==
    IF s.network = Absent THEN t
    ELSE [t EXCEPT
            !.port = IF s.network.port # Absent THEN s.network.port ELSE @,
            !.serviceCIDR = IF s.network.services \notin {Absent, <<>>}
                            THEN Head(s.network.services) ELSE @,
            !.domain = s.network.domain]

\* l.84-89: a version without a leading "v" gets one.
KubernetesVersion(v) == IF ~HasPrefix(v, "v") THEN "v" \o v ELSE v

\* l.90-102: DNS service IPs and the addons come from the claim; a CoreDNS
\* override replaces both, an empty AddonSpec standing for a nil one.
DnsAndAddons(t, s) ==
    IF s.coreDNS = Absent
    THEN [t EXCEPT !.dnsIPs = s.dnsIPs, !.coreDNS = s.addonsCoreDNS]
    ELSE [t EXCEPT !.dnsIPs = s.coreDNS.dnsIPs,
                   !.coreDNS = IF s.coreDNS.spec = Absent THEN "empty"
                               ELSE s.coreDNS.spec]

\* l.151-157: a certSAN entry with a port is ErrUnsupportedCertificateSAN.
CertSANsValid(s) == \A i \in 1..Len(s.sans) : ~s.sans[i].port

\* Mutant: the Ingress host appended to the TCP's list as read.
CertSANsAppendToRead(t, s) ==
    IF s.ingress = Absent THEN t.sans \o s.sans
    ELSE Append(t.sans \o s.sans, [host |-> s.ingress.host, port |-> FALSE])

\* l.159-181: the list is reset to the claim's, then the Ingress host is
\* appended host-only (SplitHostPort drops a port) or as written.
CertSANs(t, s) ==
    IF s.ingress = Absent THEN s.sans
    ELSE Append(s.sans, [host |-> s.ingress.host, port |-> FALSE])

\* Mutant: the Ingress is not cleared when the claim drops it.
IngressKept(t, s) == IF s.ingress = Absent THEN t.ingress ELSE s.ingress

\* l.160-184: the Ingress is copied, or cleared.
Ingress(t, s) == IF s.ingress = Absent THEN Absent ELSE s.ingress

\* l.185-194: a load-balancer class is copied only when the claim sets one.
LoadBalancerClass(t, s) ==
    IF s.lb # Absent /\ s.lb.class # Absent THEN s.lb.class ELSE t.lbClass

\* l.210-212: SetControllerReference for a local TCP; it fails with
\* AlreadyOwnedError when another controller owns the TCP.
ControllerReference(t, s) ==
    IF s.external THEN [ok |-> TRUE, controller |-> t.controller]
    ELSE IF t.controller \in {Absent, Owner}
         THEN [ok |-> TRUE, controller |-> Owner]
         ELSE [ok |-> FALSE, controller |-> t.controller]

\* The mutate function and CreateOrUpdate around it: an error of the
\* mutate function writes nothing.
Mutate(t, s) ==
    LET own == ControllerReference(t, s)
        t1  == NetworkProfile([t EXCEPT !.ann = TcpAnnotations(t, s),
                                        !.labels = s.labels], s)
        t2  == DnsAndAddons([t1 EXCEPT !.version = KubernetesVersion(s.version)], s)
        t3  == [t2 EXCEPT !.schema = IF s.schema # "" THEN s.schema ELSE @,
                          !.sans = CertSANs(t, s), !.ingress = Ingress(t, s),
                          !.lbClass = LoadBalancerClass(t, s),
                          !.controller = own.controller]
    IN IF ~CertSANsValid(s) \/ ~own.ok THEN [ok |-> FALSE, tcp |-> t]
       ELSE [ok |-> TRUE, tcp |-> t3]

-----------------------------------------------------------------------------
\* Inputs are given by the instantiating module.
CONSTANT Inputs

Init == <<claim, prior>> \in Inputs
Next == UNCHANGED vars
Spec == Init /\ [][Next]_vars

\* The fields the translation derives from the claim alone: the Kubeconfig
\* key annotation, labels, version, DNS and CoreDNS, certSANs, Ingress and,
\* for a local TCP, the controller reference.
ClaimFields(t, s) ==
    [kubeconfigKey |-> t.ann[KubeconfigKey], labels |-> t.labels,
     version |-> t.version, dnsIPs |-> t.dnsIPs, coreDNS |-> t.coreDNS,
     sans |-> t.sans, ingress |-> t.ingress,
     controller |-> IF s.external THEN Absent ELSE t.controller]

\* Spec 4.3: applying the translation a second time to the TCP it wrote
\* changes nothing, so a reconcile of an unchanged SCP issues no update
\* of the TCP (and no TCP event re-queues the SCP).
TranslationIdempotent ==
    LET r == Mutate(prior, claim)
    IN r.ok => Mutate(r.tcp, claim) = r

\* Updating an existing TCP gives every claim-derived field the value that
\* creating it afresh would: nothing an earlier SCP spec wrote survives a
\* change of the claim in those fields.
UpdateMatchesCreate ==
    LET upd == Mutate(prior, claim)
        new == Mutate(Fresh, claim)
    IN (upd.ok /\ new.ok) => ClaimFields(upd.tcp, claim) = ClaimFields(new.tcp, claim)

=============================================================================
