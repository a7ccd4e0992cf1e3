--------------------------- MODULE NetworkIdentity ---------------------------
(***************************************************************************)
(* Which adapter's address the PC information and the report show          *)
(* (WmiPcInfoReader, network_identity_reader), and what the network page   *)
(* lists of an adapter: GetAdaptersAddresses with what the registry adds.  *)
(*                                                                         *)
(* An adapter has a number, which stands for its names and their order, a  *)
(* kind, the state of its link, an IPv4 address ("valid", "linklocal" or   *)
(* "none"), gateways (IPv4, IPv6), a metric (0 for an unknown one), and is *)
(* named when its names tell its kind.  The adapter's IP settings are      *)
(* dhcp and the name servers "static" and "leased" that the registry has,  *)
(* where leased ones may be left over from before.                         *)
(* The metric of the default route, which decides between equal metrics in *)
(* one of the sources, is left out.                                        *)
(***************************************************************************)
EXTENDS Integers, Sequences, FiniteSets, Lists

NoAdapter == [id |-> 0, kind |-> "none"]

\* An unknown metric comes last.
Metric(a) == IF a.metric = 0 THEN 9999 ELSE a.metric

\* A wrong variant: the metric alone decides.
ByMetric(a, b) == Metric(a) < Metric(b) \/ (Metric(a) = Metric(b) /\ a.id < b.id)

\* select_network_identity_candidate and _network_candidate_sort_key: Ethernet
\* first, then by metric, then by name.
Before(a, b) ==
    IF a.kind # b.kind THEN a.kind = "Ethernet"
    ELSE IF Metric(a) # Metric(b) THEN Metric(a) < Metric(b)
    ELSE a.id < b.id

FirstAdapter(candidates) ==
    IF candidates = {} THEN NoAdapter
    ELSE CHOOSE a \in candidates : \A b \in candidates \ {a} : Before(a, b)

\* _get_adapters_addresses_candidates: those with an IPv4 address, of any kind.
WithAddress(adapters) == {a \in adapters : a.ip # "none"}

\* The filter of the fast source takes any gateway, and any address.
FastCandidates(adapters) ==
    {a \in WithAddress(adapters) : /\ a.up
                                   /\ a.kind \in {"Ethernet", "Wi-Fi"}
                                   /\ a.gateway4 \/ a.gateway6}

\* _ACTIVE_NETWORK_INFO_SCRIPT and the filter of its rows: a valid address, an
\* IPv4 gateway, physical, and a name that tells what it is.
PowerShellCandidates(adapters) ==
    {a \in adapters : /\ a.up /\ a.ip = "valid" /\ a.gateway4
                      /\ a.kind \in {"Ethernet", "Wi-Fi"}
                      /\ a.named}

\* _network_candidate_from_wmi_item, from Win32_NetworkAdapterConfiguration.
WmiCandidates(adapters) == PowerShellCandidates(adapters)

\* _get_active_network_info: the first source with a result.
ActiveAdapter(adapters, fast, powershell, wmi) ==
    LET first == IF fast THEN FirstAdapter(FastCandidates(adapters)) ELSE NoAdapter
        second == IF powershell THEN FirstAdapter(PowerShellCandidates(adapters))
                  ELSE NoAdapter
    IN  IF first # NoAdapter THEN first
        ELSE IF second # NoAdapter THEN second
        ELSE IF wmi THEN FirstAdapter(WmiCandidates(adapters))
        ELSE NoAdapter

-----------------------------------------------------------------------------
(* The network page *)

\* read_network_adapters_fast: enabled ones first, Ethernet (by name) before
\* Wi-Fi, those with an IPv4 gateway before those without, then as above.
PageKind(a) == IF a.kind = "Wi-Fi" /\ a.named THEN "Wi-Fi" ELSE "Ethernet"

PageBefore(a, b) ==
    IF a.up # b.up THEN a.up
    ELSE IF PageKind(a) # PageKind(b) THEN PageKind(a) = "Ethernet"
    ELSE IF a.gateway4 # b.gateway4 THEN a.gateway4
    ELSE IF Metric(a) # Metric(b) THEN Metric(a) < Metric(b)
    ELSE a.id < b.id

\* _registry_dhcp_enabled and _select_registry_dns_servers: those leased when
\* DHCP is known to be on, else the static ones, and the others in their stead.
ListedDns(a, dhcp) ==
    LET leased == IF "leased" \in a.dns THEN "leased" ELSE "none"
        static == IF "static" \in a.dns THEN "static" ELSE "none"
        order == IF dhcp = "on" THEN <<leased, static>> ELSE <<static, leased>>
    IN  IF order[1] # "none" THEN order[1] ELSE order[2]

\* _read_tcpip_interface_config: what the registry has, if it answers.
RegistryConfig(a, registry) ==
    LET dhcp == IF a.dhcp THEN "on" ELSE "off"
    IN  IF registry THEN [dhcp |-> dhcp, dns |-> ListedDns(a, dhcp)]
        ELSE [dhcp |-> "unknown", dns |-> "none"]

\* The name servers that GetAdaptersAddresses reports.
InForce(a) ==
    IF "static" \in a.dns THEN "static"
    ELSE IF a.dhcp /\ "leased" \in a.dns THEN "leased"
    ELSE "none"

\* _network_adapter_info_from_candidate: address, mask, gateway and name servers
\* are those in force, the registry's where there are none; DHCP is the
\* registry's.
PageRow(a, registry) ==
    LET config == RegistryConfig(a, registry)
    IN  [id |-> a.id, dhcp |-> config.dhcp,
         dns |-> IF InForce(a) # "none" THEN InForce(a) ELSE config.dns]

Page(adapters, registry) ==
    LET listed == {a \in WithAddress(adapters) : a.kind \in {"Ethernet", "Wi-Fi"}}
        sorted == Sorted(listed, {p \in listed \X listed : PageBefore(p[1], p[2])})
    IN  [i \in DOMAIN sorted |-> PageRow(sorted[i], registry)]

=============================================================================
