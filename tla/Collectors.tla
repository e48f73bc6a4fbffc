----------------------------- MODULE Collectors -----------------------------
(* What each collector of internal/collector asks a router and what it makes  *)
(* of the answer.                                                             *)
(*                                                                            *)
(* A collector is a gate (the settings of which one must be on) and a         *)
(* sequence of steps.  A step asks one command and emits metrics from the     *)
(* rows of the reply.                                                         *)
(*                                                                            *)
(* A row is the name that tells it from others, a state (what the code reads  *)
(* its words as, "yes" or "no"), a text for the column a metric parses, a     *)
(* comment, the channel of a radio and the protocols of a route; "" is a      *)
(* column the router left out.  A metric record stands for all the metrics of *)
(* the collector that share its labels, its guard and its rule for the value, *)
(* under the name of one of them; those that cannot be built are all one.     *)
(* Not told apart from plain numbers: scaled ones, but those of the DNS       *)
(* cache; signal strengths, read up to their unit; the sums over the queues   *)
(* of a port and the halves of a simple queue.  Left out: entries of a        *)
(* metricMap with a dash in the key, which TrimRecord has normalised away so  *)
(* that they are never found, and interface_sfp_info.                         *)
EXTENDS Naturals, Sequences

------------------------------------------------------------------------------
(* Metrics.                                                                   *)

\* One sample for each row: n label names, n label values, and the number the
\* text of the row says, if there is one.
Metric(f, n) ==
  [family |-> f, names |-> n, values |-> n, from |-> "row", value |-> "number",
   needs |-> "text", tag |-> "", when |-> {}]

\* What the value is, and the column a row must have to be shown: "" is none.
Of(kind, m) == [m EXCEPT !.value = kind]
Needs(column, m) == [m EXCEPT !.needs = column]

\* The number is shown for every row: of no text it is 0.
Always(m) == Needs("", m)
\* 1 or 0, as the state of the row is.
State(f, n) == Of("state", Always(Metric(f, n)))
\* The value is 1 whatever the row says: mb.Info, and the metricMap entries
\* with parseFloat false.
One(f, n) == Of("one", Always(Metric(f, n)))

\* The labels are counted wrongly: k values.
Mislabelled(k, m) == [m EXCEPT !.values = k]

\* The label values are the label names, the same for every row; or the channel
\* of the row, without its name.
NamedByKeys(m) == [m EXCEPT !.from = "keys"]
ByChannel(m) == [m EXCEPT !.from = "channel"]

\* One sample of the first row of the reply, or of no row.
First(m) == [m EXCEPT !.from = "first"]
Tagged(tag, m) == [m EXCEPT !.tag = tag]

\* One sample for each name of the rows, the number of rows of that name.
Counted(f, n) == Of("count", [Always(Metric(f, n)) EXCEPT !.from = "group"])
\* One sample, the number of rows of the reply, or of those of one protocol.
Total(f, n) == Of("count", [Always(Metric(f, n)) EXCEPT !.from = "reply"])

\* One sample for each wireless client, named by its DHCP lease.
Client(m) == [m EXCEPT !.from = "client"]
\* One sample for the link that was asked about, named as in the list.
Link(m) == [m EXCEPT !.from = "link"]

\* Of the rows of one name the last is shown.
Sensor(f) == [Always(Metric(f, 0)) EXCEPT !.from = "last"]

When(flag, m) == [m EXCEPT !.when = {flag}]

------------------------------------------------------------------------------
(* Steps.                                                                     *)

\* Conn.Run: without it the collector returns.
Ask(command, metrics) ==
  [ask |-> command, how |-> "run", gate |-> {}, stops |-> TRUE, jump |-> 1,
   keeps |-> FALSE, rows |-> "all", emit |-> metrics]

\* Conn.RunStream: without it the collector returns.
Stream(command, metrics) == [Ask(command, metrics) EXCEPT !.how = "stream"]

\* The collector goes on with the next command but n when this one fails.
OrElse(n, step) == [step EXCEPT !.stops = FALSE, !.jump = n]
\* The rows are kept for the step that follows.
Keep(step) == [step EXCEPT !.keeps = TRUE]
\* Which rows are looked at: those with a name, for most.
Only(rows, step) == [step EXCEPT !.rows = rows]
Named(step) == Only("named", step)
If(flag, step) == [step EXCEPT !.gate = {flag}]

\* Nothing is asked: the state of the connection is told.
Tell(metrics) == [Ask("", metrics) EXCEPT !.how = "tell"]
\* ensureDHCPCache, and then the rows kept are emitted, the leases fetched or not.
Resolve(metrics) == [Ask("/ip/dhcp-server/lease/print", metrics) EXCEPT
                       !.how = "resolve", !.stops = FALSE]
\* One command for each row kept.
ForEach(command, metrics) == [Ask(command, metrics) EXCEPT !.how = "each", !.stops = FALSE]

Gated(flags, steps) == [gate |-> flags, steps |-> steps]

------------------------------------------------------------------------------
(* The collectors, in the order in which AllCollectors lists them.            *)

Health == Gated({},
  << Tell(<<First(State("health_up", 0))>>),
     If("Health", Ask("/system/health/print", <<Sensor("system_routerboard_voltage")>>)) >>)

SystemResource == Gated({},
  << Ask("/system/resource/print",
           <<First(Of("seconds", Always(Metric("system_uptime", 4)))),
             First(Always(Metric("system_free_memory", 4))),
             When("CheckForUpdates", First(Of("zero", Needs("name", Metric("update_available", 1)))))>>) >>)

Identity == Gated({}, << Ask("/system/identity/print", <<First(One("system_identity_info", 1))>>) >>)

Interface == Gated({"Interface"},
  << Ask("/interface/print",
           <<One("interface_type_info", 2), Needs("state", State("interface_running", 1)),
             Metric("interface_rx_byte", 1)>>) >>)

\* interface_rate is not parsed as a number: its metricMap entry says so.
Monitor == Gated({"Monitor"},
  << Keep(Ask("/interface/ethernet/print", <<>>)),
     ForEach("/interface/ethernet/monitor",
             <<Link(State("interface_status", 1)), Link(Of("bool", Metric("interface_rate", 1))),
               Link(Metric("interface_sfp_rx_power", 1))>>) >>)

POE == Gated({"POE"},
  << Ask("/interface/ethernet/poe/print",
           <<One("poe_info", 5), Metric("poe_out_voltage", 1)>>) >>)

DHCP == Gated({"DHCP"},
  << Ask("/ip/dhcp-server/lease/print",
           <<Counted("dhcp_lease_active_count", 1),
             When("DHCPLease", Of("seconds", Always(Metric("dhcp_lease_info", 8)))),
             When("DHCPLease", One("dhcp_name", 3))>>) >>)

DHCPv6 == Gated({"DHCPv6"},
  << Ask("/ipv6/dhcp-server/binding/print",
           <<Counted("dhcpv6_binding_active_count", 1),
             When("DHCPv6Lease", Of("seconds", Always(Metric("dhcpv6_binding_info", 6))))>>) >>)

\* Mutant: without the list the addresses in use are counted all the same.
PoolStepsWithoutList(flag, list, used, f) ==
  << If(flag, OrElse(1, Keep(Ask(list, <<>>)))),
     If(flag, [Ask(used, <<Counted(f, 1)>>) EXCEPT !.how = "used"]) >>

\* collectPoolMetrics counts the addresses in use of every pool listed.
PoolSteps(flag, list, used, f) ==
  << If(flag, [Keep(Ask(list, <<>>)) EXCEPT !.jump = 2]),
     If(flag, [Ask(used, <<Counted(f, 1)>>) EXCEPT !.how = "used"]) >>
Pool == Gated({},
  PoolSteps("Pool", "/ip/pool/print", "/ip/pool/used/print", "ip_pool_used")
  \o PoolSteps("IPv6Pool", "/ipv6/pool/print", "/ipv6/pool/used/print", "ip_pool_used_ipv6"))

\* collectRouteMetrics: all the routes, and those of each of routeProtocols.
RouteMetrics(total, protocol) ==
  <<Total(total, 0), Tagged("dynamic", Total(protocol, 1)), Tagged("connect", Total(protocol, 1)),
    Tagged("static", Total(protocol, 1)), Tagged("bgp", Total(protocol, 1)),
    Tagged("ospf", Total(protocol, 1))>>
Route == Gated({},
  << If("Route", Stream("/ip/route/print",
        RouteMetrics("routes_total_routes", "routes_protocol_count"))),
     If("IPv6Route", Stream("/ipv6/route/print",
        RouteMetrics("routes_total_routes_ipv6", "routes_protocol_count_ipv6"))) >>)

Firewall == Gated({},
  << If("Firewall", Ask("/ip/firewall/filter/print", <<Metric("firewall_filter", 2)>>)),
     If("Firewall", Ask("/ip/firewall/raw/print", <<Metric("firewall_raw", 2)>>)),
     If("Firewall", Ask("/ip/firewall/nat/print", <<Metric("firewall_nat", 2)>>)),
     If("Firewall", Ask("/ip/firewall/mangle/print", <<Metric("firewall_mangle", 2)>>)),
     If("IPv6Firewall", Ask("/ipv6/firewall/filter/print", <<Metric("firewall_filter_ipv6", 2)>>)),
     If("IPv6Firewall", Ask("/ipv6/firewall/raw/print", <<Metric("firewall_raw_ipv6", 2)>>)),
     If("IPv6Firewall", Ask("/ipv6/firewall/nat/print", <<Metric("firewall_nat_ipv6", 2)>>)),
     If("IPv6Firewall", Ask("/ipv6/firewall/mangle/print", <<Metric("firewall_mangle_ipv6", 2)>>)) >>)

\* The timeout is a duration, but is parsed as a number.
AddressList == Gated({"AddressList"},
  << Ask("/ip/firewall/address-list/print", <<Always(Metric("firewall_address_list", 6))>>) >>)

Neighbor == Gated({},
  << If("Neighbor", Ask("/ip/neighbor/print", <<One("neighbor_info", 4)>>)),
     If("IPv6Neighbor", Only("up", Ask("/ipv6/neighbor/print", <<One("ipv6_neighbor_info", 5)>>))) >>)

\* netwatch_status is 1 whatever the status: its metricMap entry is not parsed.
Netwatch == Gated({"Netwatch"},
  << Ask("/tool/netwatch/print",
           <<One("netwatch_info", 7), One("netwatch_status", 2), Metric("netwatch_done_tests", 2)>>) >>)

Package == Gated({"InstalledPackages"},
  << Ask("/system/package/print", <<One("installed_packages_info", 4)>>) >>)

User == Gated({"User"},
  << Ask("/user/active/print", <<Of("login", Always(Metric("active_users_info", 5)))>>) >>)

Queue == Gated({"Queue"},
  << Ask("/queue/tree/print", <<Metric("queue_tree_bytes", 1)>>),
     Ask("/queue/simple/print", <<Metric("queue_simple_bytes_upload", 1)>>) >>)

Connections == Gated({},
  << If("Connections", Ask("/ip/firewall/connection/print=count-only=",
                             <<First(Always(Metric("ip_connections_total", 0)))>>)),
     If("ConnectionStats", Only("addressed", Stream("/ip/firewall/connection/print",
                                                    <<Counted("connection_stats", 2)>>))) >>)

PublicIP == Gated({"PublicIP"}, << Ask("/ip/cloud/print", <<One("public_ip_address_info", 3)>>) >>)

SwitchPort == Gated({"SwitchPort"},
  << Ask("/interface/ethernet/switch/port/print", <<Metric("switch_rx_bytes", 1)>>) >>)

\* The state is a word, and is parsed as a number all the same.
BFD == Gated({"BFD"},
  << Named(Ask("/routing/bfd/peer/print",
                 <<Metric("bfd_multiplier", 3), Needs("state", State("bfd_session_status", 3)),
                   Needs("comment", One("bfd_session_info_info", 4)), Metric("bfd_state", 3)>>)) >>)

BGP == Gated({"BGP"},
  << Ask("/routing/bgp/session/print",
           <<One("bgp_sessions_info", 5), NamedByKeys(State("bgp_established", 5)),
             Metric("bgp_prefix_count", 5)>>) >>)

DNS == Gated({"DNS"},
  << Ask("/ip/dns/print",
           <<Tagged("cache_size", First(Of("kibibytes", Metric("dns_info", 1)))),
             Tagged("cache_used", First(Of("kibibytes", Metric("dns_info", 1))))>>) >>)

RoutingStats == Gated({"RoutingStats"},
  << Ask("/routing/stats/process/print",
           <<One("routing_stats_processes_info", 3),
             NamedByKeys(Metric("routing_stats_kernel_time", 3))>>) >>)

SystemUpdate == Gated({"CheckForUpdates"},
  << Ask("/system/package/update/print",
           <<First(Needs("text", State("system_update_available", 1)))>>) >>)

\* The values name the router, which the builder names too.
IPSec == Gated({"IPSec"},
  << Named(Ask("/ip/ipsec/peer/print",
                 <<Mislabelled(3, State("ipsec_peer_status", 2)),
                   Needs("comment", One("ipsec_peer_info_info", 4))>>)),
     Named(Ask("/ip/ipsec/proposal/print",
                 <<Mislabelled(3, State("ipsec_proposal_enabled", 2)),
                   Needs("comment", One("ipsec_proposal_info_info", 3))>>)),
     Named(Ask("/ip/ipsec/policy/print",
                 <<Mislabelled(3, State("ipsec_policy_enabled", 2)),
                   Needs("comment", One("ipsec_policy_info_info", 4))>>)) >>)

Certificate == Gated({"Certificate"},
  << Named(Ask("/certificate/print",
                 <<State("certificate_valid", 3), Needs("state", State("certificate_disabled", 3)),
                   Metric("certificate_expires_after", 3),
                   Needs("text", One("certificate_serial_number", 3)),
                   Needs("comment", One("certificate_expiration_timestamp_seconds_info", 4))>>)) >>)

LTE == Gated({"LTE"},
  << Named(Ask("/interface/lte/print",
                 <<Mislabelled(3, State("lte_status", 2)),
                   Needs("comment", One("lte_info_info", 4))>>)) >>)

\* The monitor's rows are passed over without a name, and shown by channel.
WLAN == Gated({"Wireless"},
  << OrElse(1, Named(Ask("/interface/wireless/monitor", <<ByChannel(Metric("wlan_noise_floor", 1))>>))),
     OrElse(2, Keep(Ask("/interface/wireless/registration-table/print", <<>>))),
     If("WirelessClients", Resolve(<<Client(Always(Metric("wlan_clients_tx_bytes", 2))),
                                     Client(One("wlan_clients_devices_info", 9))>>)),
     Named(Ask("/interface/wireless/print",
                 <<Metric("wlan_frequency", 2), Needs("state", State("wlan_status", 2)),
                   Needs("text", One("wlan_ssid", 2)), Needs("comment", One("wlan_info_info", 4))>>)) >>)

CAPsMAN == Gated({"CAPsMAN"},
  << OrElse(1, Named(Ask("/caps-man/remote-cap/print", <<One("capsman_remote_caps_info", 4)>>))),
     OrElse(2, Keep(Ask("/caps-man/registration-table/print", <<>>))),
     If("CAPsMANClients", Resolve(<<Counted("capsman_registrations_count", 1),
                                    Client(Always(Metric("capsman_clients_tx_bytes", 2))),
                                    Client(One("capsman_clients_devices_info", 9))>>)),
     Named(Ask("/caps-man/interface/print",
                 <<Needs("state", State("capsman_interface_status", 2)),
                   Needs("text", One("capsman_ip_address", 2)),
                   Needs("comment", One("capsman_interfaces_info", 2))>>)) >>)

EOIP == Gated({"EOIP"},
  << Named(Ask("/interface/eoip/print",
                 <<State("eoip_status", 2), Needs("text", One("eoip_interface", 2)),
                   Needs("state", State("eoip_disabled", 2)), Metric("eoip_mtu", 2),
                   Needs("comment", One("eoip_info_info", 2))>>)) >>)

GRE == Gated({"GRE"},
  << Named(Ask("/interface/gre/print",
                 <<State("gre_status", 2), Needs("state", State("gre_disabled", 2)), Metric("gre_mtu", 2),
                   Needs("comment", One("gre_info_info", 2))>>)) >>)

IPIP == Gated({"IPIP"},
  << Named(Ask("/interface/ipip/print",
                 <<State("ipip_status", 2), Needs("state", State("ipip_disabled", 2)), Metric("ipip_mtu", 2),
                   Needs("comment", One("ipip_info_info", 2))>>)) >>)

KidControl == Gated({"KidControlAssigned", "KidControlDynamic"},
  << Named(Ask("/interface/wireless/kid-control/print",
                 <<Needs("state", State("kid_control_status", 1)),
                   Needs("state", State("kid_control_disabled", 1)),
                   Needs("text", One("kid_control_type", 1)),
                   Needs("comment", One("kid_control_info_info", 2))>>)) >>)

\* Four label names, three label values: the user is missing.
KidControlDevice == Gated({"KidControlAssigned", "KidControlDynamic"},
  << Named(Ask("/interface/wireless/kid-control/registration/print",
                 <<Mislabelled(3, Needs("state", State("kid_control_disabled", 4))),
                   One("kid_control_device_info", 4)>>)) >>)

Container == Gated({"Container"},
  << Named(Ask("/container/print",
                 <<Needs("state", State("container_status", 1)),
                   Needs("text", One("container_image", 1)), Metric("container_memory", 1),
                   Needs("comment", One("container_info_info", 2))>>)) >>)

W60G == Gated({"W60G"},
  << Named(Ask("/interface/w60g/print",
                 <<State("w60g_status", 1), Needs("state", State("w60g_disabled", 1)),
                   Metric("w60g_frequency", 1),
                   Needs("comment", One("w60g_info_info", 2))>>)) >>)

\* AllCollectors, but the one of the bandwidth, which asks no router.
AllCollectors ==
  {"health", "system_resource", "identity", "interface", "monitor", "poe", "dhcp",
   "dhcpv6", "pool", "route", "firewall", "address_list", "neighbor", "netwatch",
   "package", "user", "queue", "connection", "public_ip", "switch_port", "bfd", "bgp",
   "dns", "routing_stats", "system_update", "ipsec", "certificate", "lte", "wlan",
   "capsman", "eoip", "gre", "ipip", "kid_control", "kid_control_device", "container",
   "w60g"}

Program(c) ==
  CASE c = "health" -> Health [] c = "system_resource" -> SystemResource
    [] c = "identity" -> Identity [] c = "interface" -> Interface
    [] c = "monitor" -> Monitor [] c = "poe" -> POE [] c = "dhcp" -> DHCP
    [] c = "dhcpv6" -> DHCPv6 [] c = "pool" -> Pool [] c = "route" -> Route
    [] c = "firewall" -> Firewall [] c = "address_list" -> AddressList
    [] c = "neighbor" -> Neighbor [] c = "netwatch" -> Netwatch [] c = "package" -> Package
    [] c = "user" -> User [] c = "queue" -> Queue [] c = "connection" -> Connections
    [] c = "public_ip" -> PublicIP [] c = "switch_port" -> SwitchPort [] c = "bfd" -> BFD
    [] c = "bgp" -> BGP [] c = "dns" -> DNS [] c = "routing_stats" -> RoutingStats
    [] c = "system_update" -> SystemUpdate [] c = "ipsec" -> IPSec
    [] c = "certificate" -> Certificate [] c = "lte" -> LTE [] c = "wlan" -> WLAN
    [] c = "capsman" -> CAPsMAN [] c = "eoip" -> EOIP [] c = "gre" -> GRE
    [] c = "ipip" -> IPIP [] c = "kid_control" -> KidControl
    [] c = "kid_control_device" -> KidControlDevice [] c = "container" -> Container
    [] c = "w60g" -> W60G
=============================================================================
