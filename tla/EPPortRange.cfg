\* TCP ports the operator advertises resolve unchanged.
CONSTANTS
    DnsHosts <- MCDnsHosts
    Ipv6Hosts <- MCIpv6Hosts
    StatusPorts <- MCStatusPorts
    HostPorts <- MCHostPorts
    Wraps <- MCWraps
    UserSANs <- MCUserSANs
    None = None
SPECIFICATION Spec
INVARIANT AdvertisedPortResolved
