\* The pure conversions: endpoint and certSANs, Store keys, remote TCP names, TCP spec.
CONSTANTS
    DnsHosts <- MCDnsHosts
    Ipv6Hosts <- MCIpv6Hosts
    StatusPorts <- MCStatusPorts
    HostPorts <- MCHostPorts
    Wraps = {0, 1}
    None = None
    Names = {"a", "b", "aa", "ab", "ba", "bb"}
    DataKeys = {"a", "b"}
    Alphabet = {"k", "c", "p", "-", "a"}
    MaxLen = 5
    UIDs = {"a", "-", "k", "a-", "kcp-a"}
    LastApplied = LastApplied
    KubeconfigKey = KubeconfigKey
    Owner = Owner
SPECIFICATION Spec
INVARIANT IngressEndpointCovered
INVARIANT OverrideEndpointPatched
INVARIANT KeyRoutedToReader
INVARIANT EventReachesOwner
INVARIANT TranslationIdempotent
INVARIANT UpdateMatchesCreate
