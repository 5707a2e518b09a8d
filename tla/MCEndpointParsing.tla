------------------------- MODULE MCEndpointParsing -------------------------
EXTENDS EndpointParsing

MCDnsHosts == {"lb.example", "api.example", "gw.example"}
MCIpv6Hosts == {"fd00::1"}

\* The int16 boundary on both sides, next to common ports.
MCStatusPorts == {443, 6443, 32767, 32768, 65535}

\* A negative port, a common port and one beyond the TCP range.
MCHostPorts == {-1, 443, 70000}

\* The Gateway host listed by hand, and an entry with a port (rejected).
MCUserSANs == {Bare("gw.example"),
               [host |-> "lb.example", bracketed |-> FALSE, port |-> Numeral(443)]}

\* A hostname port may also be written 2^32 higher (4294967739 for 443).
MCWraps == {0, 1}
=============================================================================
