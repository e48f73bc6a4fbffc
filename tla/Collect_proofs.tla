---------------------------- MODULE Collect_proofs ----------------------------
(***************************************************************************)
(* Proofs about Collect, for any set of collectors that run together, any  *)
(* settings, any tables the router may hold and any number of changes of   *)
(* them and of commands refused.                                           *)
(***************************************************************************)
EXTENDS Collect, SequenceTheorems, WellFoundedInduction, TLAPS

-----------------------------------------------------------------------------
(* What the programs of the collectors have in common                      *)

Nowhere == <<"", 0>>

\* The step that sends the samples of a name: the only one of all collectors.
PlaceOf(f) ==
  CASE f = "health_up" -> <<"health", 1>>
    [] f = "system_routerboard_voltage" -> <<"health", 2>>
    [] f \in {"system_uptime", "system_free_memory", "update_available"} -> <<"system_resource", 1>>
    [] f = "system_identity_info" -> <<"identity", 1>>
    [] f \in {"interface_type_info", "interface_running", "interface_rx_byte"} -> <<"interface", 1>>
    [] f \in {"interface_status", "interface_rate", "interface_sfp_rx_power"} -> <<"monitor", 2>>
    [] f \in {"poe_info", "poe_out_voltage"} -> <<"poe", 1>>
    [] f \in {"dhcp_lease_active_count", "dhcp_lease_info", "dhcp_name"} -> <<"dhcp", 1>>
    [] f \in {"dhcpv6_binding_active_count", "dhcpv6_binding_info"} -> <<"dhcpv6", 1>>
    [] f = "ip_pool_used" -> <<"pool", 2>>
    [] f = "ip_pool_used_ipv6" -> <<"pool", 4>>
    [] f \in {"routes_total_routes", "routes_protocol_count"} -> <<"route", 1>>
    [] f \in {"routes_total_routes_ipv6", "routes_protocol_count_ipv6"} -> <<"route", 2>>
    [] f = "firewall_filter" -> <<"firewall", 1>>
    [] f = "firewall_raw" -> <<"firewall", 2>>
    [] f = "firewall_nat" -> <<"firewall", 3>>
    [] f = "firewall_mangle" -> <<"firewall", 4>>
    [] f = "firewall_filter_ipv6" -> <<"firewall", 5>>
    [] f = "firewall_raw_ipv6" -> <<"firewall", 6>>
    [] f = "firewall_nat_ipv6" -> <<"firewall", 7>>
    [] f = "firewall_mangle_ipv6" -> <<"firewall", 8>>
    [] f = "firewall_address_list" -> <<"address_list", 1>>
    [] f = "neighbor_info" -> <<"neighbor", 1>>
    [] f = "ipv6_neighbor_info" -> <<"neighbor", 2>>
    [] f \in {"netwatch_info", "netwatch_status", "netwatch_done_tests"} -> <<"netwatch", 1>>
    [] f = "installed_packages_info" -> <<"package", 1>>
    [] f = "active_users_info" -> <<"user", 1>>
    [] f = "queue_tree_bytes" -> <<"queue", 1>>
    [] f = "queue_simple_bytes_upload" -> <<"queue", 2>>
    [] f = "ip_connections_total" -> <<"connection", 1>>
    [] f = "connection_stats" -> <<"connection", 2>>
    [] f = "public_ip_address_info" -> <<"public_ip", 1>>
    [] f = "switch_rx_bytes" -> <<"switch_port", 1>>
    [] f \in {"bfd_multiplier", "bfd_session_status", "bfd_session_info_info", "bfd_state"} -> <<"bfd", 1>>
    [] f \in {"bgp_sessions_info", "bgp_established", "bgp_prefix_count"} -> <<"bgp", 1>>
    [] f = "dns_info" -> <<"dns", 1>>
    [] f \in {"routing_stats_processes_info", "routing_stats_kernel_time"} -> <<"routing_stats", 1>>
    [] f = "system_update_available" -> <<"system_update", 1>>
    [] f = "ipsec_peer_info_info" -> <<"ipsec", 1>>
    [] f = "ipsec_proposal_info_info" -> <<"ipsec", 2>>
    [] f = "ipsec_policy_info_info" -> <<"ipsec", 3>>
    [] f \in {"certificate_valid", "certificate_disabled", "certificate_expires_after",
               "certificate_serial_number",
               "certificate_expiration_timestamp_seconds_info"} -> <<"certificate", 1>>
    [] f = "lte_info_info" -> <<"lte", 1>>
    [] f = "wlan_noise_floor" -> <<"wlan", 1>>
    [] f \in {"wlan_clients_tx_bytes", "wlan_clients_devices_info"} -> <<"wlan", 3>>
    [] f \in {"wlan_frequency", "wlan_status", "wlan_ssid", "wlan_info_info"} -> <<"wlan", 4>>
    [] f = "capsman_remote_caps_info" -> <<"capsman", 1>>
    [] f \in {"capsman_registrations_count", "capsman_clients_tx_bytes",
               "capsman_clients_devices_info"} -> <<"capsman", 3>>
    [] f \in {"capsman_interface_status", "capsman_ip_address", "capsman_interfaces_info"} -> <<"capsman", 4>>
    [] f \in {"eoip_status", "eoip_interface", "eoip_disabled", "eoip_mtu", "eoip_info_info"} -> <<"eoip", 1>>
    [] f \in {"gre_status", "gre_disabled", "gre_mtu", "gre_info_info"} -> <<"gre", 1>>
    [] f \in {"ipip_status", "ipip_disabled", "ipip_mtu", "ipip_info_info"} -> <<"ipip", 1>>
    [] f \in {"kid_control_status", "kid_control_disabled", "kid_control_type",
               "kid_control_info_info"} -> <<"kid_control", 1>>
    [] f = "kid_control_device_info" -> <<"kid_control_device", 1>>
    [] f \in {"container_status", "container_image", "container_memory",
               "container_info_info"} -> <<"container", 1>>
    [] f \in {"w60g_status", "w60g_disabled", "w60g_frequency", "w60g_info_info"} -> <<"w60g", 1>>
    [] OTHER -> Nowhere

\* A metric that cannot be built counts nothing, and has its name from nobody, or
\* from the collector that can build it.
MetricShape(m, c, i) ==
  /\ Built(m) => PlaceOf(m.family) = <<c, i>>
  /\ ~Built(m) =>
       /\ PlaceOf(m.family) = Nowhere \/ PlaceOf(m.family) = <<"kid_control", 1>>
       /\ c # "kid_control" /\ m.value # "count"

MetricsShape(ms, c, i) ==
  /\ Len(ms) \in Nat /\ DOMAIN ms = 1..Len(ms)
  /\ \A k \in 1..Len(ms) : MetricShape(ms[k], c, i)

\* The metrics neither count nor tell of the rows of a table.
OfNoRow(ms) == \A k \in 1..Len(ms) : ~OfRow(ms[k]) /\ ms[k].value # "count"

\* No step leads past the end.  Rows are only kept for a step that deals with
\* them.  A step that counts or resolves what was kept is never come to but from
\* the step before it.
StepShape(c, steps, i) ==
  LET s == steps[i]
  IN  /\ s.how \in {"run", "stream", "used", "resolve", "each", "tell"}
      /\ s.jump \in {1, 2} /\ i + s.jump <= Len(steps) + 1
      /\ s.keeps => s.how = "run" /\ i < Len(steps) /\ steps[i + 1].how # "tell"
      /\ s.how = "tell" => <<c, i>> = <<"health", 1>>
      /\ s.how \in {"used", "resolve"} =>
           /\ i > 1
           /\ steps[i - 1].how = "run" /\ steps[i - 1].jump = 2
           /\ i > 2 => steps[i - 2].jump = 1
      /\ s.how = "each" => Len(s.emit) > 0
      /\ s.how \in {"tell", "each"} => OfNoRow(s.emit)
      /\ MetricsShape(s.emit, c, i)

Shape(c, steps) == Len(steps) \in Nat /\ \A i \in 1..Len(steps) : StepShape(c, steps, i)

-----------------------------------------------------------------------------
(* The shape of what the collectors are put together from                  *)

LEMMA MetricsOf ==
  /\ \A c, i : MetricsShape(<<>>, c, i)
  /\ \A m, c, i : MetricShape(m, c, i) => MetricsShape(<<m>>, c, i)
  /\ \A m1, m2, c, i : MetricShape(m1, c, i) /\ MetricShape(m2, c, i) =>
       MetricsShape(<<m1, m2>>, c, i)
  /\ \A m1, m2, m3, c, i :
       MetricShape(m1, c, i) /\ MetricShape(m2, c, i) /\ MetricShape(m3, c, i) =>
         MetricsShape(<<m1, m2, m3>>, c, i)
BY DEF MetricsShape

LEMMA MoreMetricsOf ==
  /\ \A m1, m2, m3, m4, c, i :
       /\ MetricShape(m1, c, i) /\ MetricShape(m2, c, i) /\ MetricShape(m3, c, i)
       /\ MetricShape(m4, c, i)
       => MetricsShape(<<m1, m2, m3, m4>>, c, i)
  /\ \A m1, m2, m3, m4, m5, c, i :
       /\ MetricShape(m1, c, i) /\ MetricShape(m2, c, i) /\ MetricShape(m3, c, i)
       /\ MetricShape(m4, c, i) /\ MetricShape(m5, c, i)
       => MetricsShape(<<m1, m2, m3, m4, m5>>, c, i)
  /\ \A m1, m2, m3, m4, m5, m6, c, i :
       /\ MetricShape(m1, c, i) /\ MetricShape(m2, c, i) /\ MetricShape(m3, c, i)
       /\ MetricShape(m4, c, i) /\ MetricShape(m5, c, i) /\ MetricShape(m6, c, i)
       => MetricsShape(<<m1, m2, m3, m4, m5, m6>>, c, i)
BY DEF MetricsShape

\* A metric that can be built, at the place of its name.
IsMetric(m, c, i) ==
  /\ {"family", "names", "values", "from", "value", "needs", "tag", "when"} \subseteq DOMAIN m
  /\ PlaceOf(m.family) = <<c, i>> /\ m.names = m.values

LEMMA MetricsAre ==
  \A f, n, c, i : PlaceOf(f) = <<c, i>> =>
    /\ IsMetric(Metric(f, n), c, i) /\ IsMetric(State(f, n), c, i) /\ IsMetric(One(f, n), c, i)
    /\ IsMetric(Counted(f, n), c, i) /\ IsMetric(Total(f, n), c, i) /\ IsMetric(Sensor(f), c, i)
BY DEF IsMetric, Metric, State, One, Counted, Total, Sensor, Of, Always, Needs

LEMMA MetricsMadeOf ==
  \A m, c, i, g : IsMetric(m, c, i) =>
    /\ IsMetric(Of(g, m), c, i) /\ IsMetric(Needs(g, m), c, i) /\ IsMetric(Always(m), c, i)
    /\ IsMetric(NamedByKeys(m), c, i) /\ IsMetric(ByChannel(m), c, i) /\ IsMetric(First(m), c, i)
    /\ IsMetric(Tagged(g, m), c, i) /\ IsMetric(Client(m), c, i) /\ IsMetric(Link(m), c, i)
    /\ IsMetric(When(g, m), c, i)
BY DEF IsMetric, Of, Needs, Always, NamedByKeys, ByChannel, First, Tagged, Client, Link, When

LEMMA BuiltFit ==
  \A m, c, i : IsMetric(m, c, i) => MetricShape(m, c, i)
BY DEF IsMetric, MetricShape, Built

Placed(f, c, i) == PlaceOf(f) = <<c, i>>

LEMMA MetricsFit ==
  /\ \A f, n, c, i : Placed(f, c, i) => MetricShape(Metric(f, n), c, i)
  /\ \A f, n, c, i : Placed(f, c, i) => MetricShape(State(f, n), c, i)
  /\ \A f, n, c, i : Placed(f, c, i) => MetricShape(One(f, n), c, i)
  /\ \A f, n, c, i : Placed(f, c, i) => MetricShape(Counted(f, n), c, i)
  /\ \A f, n, c, i : Placed(f, c, i) => MetricShape(Total(f, n), c, i)
  /\ \A f, n, c, i : Placed(f, c, i) => MetricShape(Always(Metric(f, n)), c, i)
  /\ \A f, c, i : Placed(f, c, i) => MetricShape(Sensor(f), c, i)
BY MetricsAre, MetricsMadeOf, BuiltFit DEF Placed

LEMMA FirstsFit ==
  /\ \A f, n, c, i : Placed(f, c, i) => MetricShape(First(State(f, n)), c, i)
  /\ \A f, n, c, i : Placed(f, c, i) => MetricShape(First(One(f, n)), c, i)
  /\ \A f, n, c, i : Placed(f, c, i) => MetricShape(First(Always(Metric(f, n))), c, i)
BY MetricsAre, MetricsMadeOf, BuiltFit DEF Placed

LEMMA LabelledFit ==
  /\ \A f, n, c, i : Placed(f, c, i) => MetricShape(NamedByKeys(State(f, n)), c, i)
  /\ \A f, n, c, i : Placed(f, c, i) => MetricShape(NamedByKeys(Metric(f, n)), c, i)
  /\ \A f, n, c, i : Placed(f, c, i) => MetricShape(ByChannel(Metric(f, n)), c, i)
  /\ \A f, n, c, i : Placed(f, c, i) => MetricShape(Client(Always(Metric(f, n))), c, i)
  /\ \A f, n, c, i : Placed(f, c, i) => MetricShape(Client(One(f, n)), c, i)
  /\ \A f, n, c, i : Placed(f, c, i) => MetricShape(Link(State(f, n)), c, i)
  /\ \A f, n, c, i : Placed(f, c, i) => MetricShape(Link(Metric(f, n)), c, i)
BY MetricsAre, MetricsMadeOf, BuiltFit DEF Placed

LEMMA GuardedFit ==
  /\ \A f, n, g, c, i : Placed(f, c, i) => MetricShape(Of(g, Always(Metric(f, n))), c, i)
  /\ \A f, n, g, c, i : Placed(f, c, i) => MetricShape(Needs(g, State(f, n)), c, i)
  /\ \A f, n, g, c, i : Placed(f, c, i) => MetricShape(Needs(g, One(f, n)), c, i)
  /\ \A f, n, g, c, i : Placed(f, c, i) => MetricShape(Tagged(g, Total(f, n)), c, i)
  /\ \A f, n, g, c, i : Placed(f, c, i) => MetricShape(When(g, One(f, n)), c, i)
  /\ \A f, n, g, c, i : Placed(f, c, i) => MetricShape(Link(Of(g, Metric(f, n))), c, i)
  /\ \A f, n, g, c, i : Placed(f, c, i) => MetricShape(First(Needs(g, State(f, n))), c, i)
  /\ \A f, n, g, c, i : Placed(f, c, i) => MetricShape(First(Of(g, Always(Metric(f, n)))), c, i)
BY MetricsAre, MetricsMadeOf, BuiltFit DEF Placed

LEMMA TwiceGuardedFit ==
  /\ \A f, n, g, h, c, i : Placed(f, c, i) => MetricShape(When(g, Of(h, Always(Metric(f, n)))), c, i)
  /\ \A f, n, g, h, c, i : Placed(f, c, i) => MetricShape(Tagged(g, First(Of(h, Metric(f, n)))), c, i)
  /\ \A f, n, g, h, k, c, i : Placed(f, c, i) =>
       MetricShape(When(g, First(Of(h, Needs(k, Metric(f, n))))), c, i)
BY MetricsAre, MetricsMadeOf, BuiltFit DEF Placed

NotInTable(f, c) ==
  /\ c # "kid_control"
  /\ PlaceOf(f) = Nowhere \/ PlaceOf(f) = <<"kid_control", 1>>

LEMMA MislabelledFit ==
  \A f, c, i, g : NotInTable(f, c) =>
    /\ MetricShape(Mislabelled(3, State(f, 2)), c, i)
    /\ MetricShape(Mislabelled(3, Needs(g, State(f, 4))), c, i)
BY DEF NotInTable, MetricShape, Built, Mislabelled, State, Of, Always, Needs, Metric

IsStep(s, how, jump, keeps, metrics) ==
  /\ {"how", "jump", "keeps", "emit"} \subseteq DOMAIN s
  /\ s.how = how /\ s.jump = jump /\ s.keeps = keeps /\ s.emit = metrics

LEMMA StepsAre ==
  /\ \A ask, ms : IsStep(Ask(ask, ms), "run", 1, FALSE, ms)
  /\ \A ask, ms : IsStep(Stream(ask, ms), "stream", 1, FALSE, ms)
  /\ \A ms : IsStep(Tell(ms), "tell", 1, FALSE, ms)
  /\ \A ms : IsStep(Resolve(ms), "resolve", 1, FALSE, ms)
  /\ \A ask, ms : IsStep(ForEach(ask, ms), "each", 1, FALSE, ms)
BY DEF IsStep, Ask, Stream, Tell, Resolve, ForEach

LEMMA StepsMadeOf ==
  \A s, how, jump, keeps, ms, g, n : IsStep(s, how, jump, keeps, ms) =>
    /\ IsStep(If(g, s), how, jump, keeps, ms)
    /\ IsStep(Named(s), how, jump, keeps, ms)
    /\ IsStep(Keep(s), how, jump, TRUE, ms)
    /\ IsStep(OrElse(n, s), how, n, keeps, ms)
    /\ IsStep(Only(g, s), how, jump, keeps, ms)
    /\ IsStep([s EXCEPT !.jump = n], how, n, keeps, ms)
    /\ IsStep([s EXCEPT !.how = g], g, jump, keeps, ms)
BY DEF IsStep, If, Named, Only, Keep, OrElse

Plain(s, c, i) ==
  /\ {"how", "jump", "keeps", "emit"} \subseteq DOMAIN s
  /\ s.how \in {"run", "stream"} /\ s.jump = 1 /\ s.keeps = FALSE
  /\ MetricsShape(s.emit, c, i)

LEMMA PlainShape ==
  ASSUME NEW c, NEW steps, Len(steps) \in Nat, \A i \in 1..Len(steps) : Plain(steps[i], c, i)
  PROVE  Shape(c, steps)
<1>1. ASSUME NEW i \in 1..Len(steps)
      PROVE  /\ steps[i].how \in {"run", "stream"} /\ steps[i].jump = 1 /\ steps[i].keeps = FALSE
             /\ MetricsShape(steps[i].emit, c, i)
  BY DEF Plain, IsStep
<1>2. ASSUME NEW i \in 1..Len(steps) PROVE StepShape(c, steps, i)
  <2> DEFINE s == steps[i]
  <2>1. s.how \in {"run", "stream"} /\ s.jump = 1 /\ s.keeps = FALSE /\ MetricsShape(s.emit, c, i)
    BY <1>1
  <2>2. i \in Nat /\ i + s.jump <= Len(steps) + 1
    BY <2>1
  <2> HIDE DEF s
  <2> QED
    BY <2>1, <2>2 DEF StepShape, s
<1> QED
  BY <1>2 DEF Shape

LEMMA PlainPrograms ==
  /\ \A c, s : Plain(s, c, 1) => Shape(c, <<s>>)
  /\ \A c, s1, s2 : Plain(s1, c, 1) /\ Plain(s2, c, 2) => Shape(c, <<s1, s2>>)
  /\ \A c, s1, s2, s3 :
       Plain(s1, c, 1) /\ Plain(s2, c, 2) /\ Plain(s3, c, 3) => Shape(c, <<s1, s2, s3>>)
BY PlainShape

LEMMA PlainSteps ==
  /\ \A ask, ms, c, i : MetricsShape(ms, c, i) =>
       Plain(Ask(ask, ms), c, i) /\ Plain(Stream(ask, ms), c, i)
  /\ \A s, c, i, g : Plain(s, c, i) =>
       Plain(If(g, s), c, i) /\ Plain(Named(s), c, i)
       /\ Plain(OrElse(1, s), c, i) /\ Plain(Only(g, s), c, i)
<1>1. ASSUME NEW ask, NEW ms, NEW c, NEW i, MetricsShape(ms, c, i)
      PROVE  Plain(Ask(ask, ms), c, i) /\ Plain(Stream(ask, ms), c, i)
  <2>1. IsStep(Ask(ask, ms), "run", 1, FALSE, ms) /\ IsStep(Stream(ask, ms), "stream", 1, FALSE, ms)
    BY StepsAre
  <2> QED
    BY <1>1, <2>1 DEF Plain, IsStep
<1>2. ASSUME NEW s, NEW c, NEW i, NEW g, Plain(s, c, i)
      PROVE  Plain(If(g, s), c, i) /\ Plain(Named(s), c, i)
             /\ Plain(OrElse(1, s), c, i) /\ Plain(Only(g, s), c, i)
  <2>1. IsStep(s, s.how, 1, FALSE, s.emit)
    BY <1>2 DEF Plain, IsStep
  <2>2. /\ IsStep(If(g, s), s.how, 1, FALSE, s.emit) /\ IsStep(Named(s), s.how, 1, FALSE, s.emit)
        /\ IsStep(OrElse(1, s), s.how, 1, FALSE, s.emit) /\ IsStep(Only(g, s), s.how, 1, FALSE, s.emit)
    BY <2>1, StepsMadeOf
  <2> QED
    BY <1>2, <2>2 DEF Plain, IsStep
<1> QED
  BY <1>1, <1>2

LEMMA PlacedAt ==
  /\ Placed("health_up", "health", 1)
  /\ Placed("system_routerboard_voltage", "health", 2)
  /\ Placed("system_uptime", "system_resource", 1)
  /\ Placed("system_free_memory", "system_resource", 1)
  /\ Placed("update_available", "system_resource", 1)
  /\ Placed("system_identity_info", "identity", 1)
  /\ Placed("interface_type_info", "interface", 1)
  /\ Placed("interface_running", "interface", 1)
  /\ Placed("interface_rx_byte", "interface", 1)
  /\ Placed("interface_status", "monitor", 2)
  /\ Placed("interface_rate", "monitor", 2)
  /\ Placed("interface_sfp_rx_power", "monitor", 2)
  /\ Placed("poe_info", "poe", 1)
  /\ Placed("poe_out_voltage", "poe", 1)
  /\ Placed("dhcp_lease_active_count", "dhcp", 1)
  /\ Placed("dhcp_lease_info", "dhcp", 1)
  /\ Placed("dhcp_name", "dhcp", 1)
  /\ Placed("dhcpv6_binding_active_count", "dhcpv6", 1)
  /\ Placed("dhcpv6_binding_info", "dhcpv6", 1)
  /\ Placed("ip_pool_used", "pool", 2)
  /\ Placed("ip_pool_used_ipv6", "pool", 4)
  /\ Placed("routes_total_routes", "route", 1)
  /\ Placed("routes_protocol_count", "route", 1)
  /\ Placed("routes_total_routes_ipv6", "route", 2)
  /\ Placed("routes_protocol_count_ipv6", "route", 2)
  /\ Placed("firewall_filter", "firewall", 1)
  /\ Placed("firewall_raw", "firewall", 2)
  /\ Placed("firewall_nat", "firewall", 3)
  /\ Placed("firewall_mangle", "firewall", 4)
  /\ Placed("firewall_filter_ipv6", "firewall", 5)
  /\ Placed("firewall_raw_ipv6", "firewall", 6)
  /\ Placed("firewall_nat_ipv6", "firewall", 7)
  /\ Placed("firewall_mangle_ipv6", "firewall", 8)
  /\ Placed("firewall_address_list", "address_list", 1)
  /\ Placed("neighbor_info", "neighbor", 1)
  /\ Placed("ipv6_neighbor_info", "neighbor", 2)
  /\ Placed("netwatch_info", "netwatch", 1)
  /\ Placed("netwatch_status", "netwatch", 1)
  /\ Placed("netwatch_done_tests", "netwatch", 1)
  /\ Placed("installed_packages_info", "package", 1)
  /\ Placed("active_users_info", "user", 1)
  /\ Placed("queue_tree_bytes", "queue", 1)
  /\ Placed("queue_simple_bytes_upload", "queue", 2)
  /\ Placed("ip_connections_total", "connection", 1)
  /\ Placed("connection_stats", "connection", 2)
  /\ Placed("public_ip_address_info", "public_ip", 1)
  /\ Placed("switch_rx_bytes", "switch_port", 1)
  /\ Placed("bfd_multiplier", "bfd", 1)
  /\ Placed("bfd_session_status", "bfd", 1)
  /\ Placed("bfd_session_info_info", "bfd", 1)
  /\ Placed("bfd_state", "bfd", 1)
  /\ Placed("bgp_sessions_info", "bgp", 1)
  /\ Placed("bgp_established", "bgp", 1)
  /\ Placed("bgp_prefix_count", "bgp", 1)
  /\ Placed("dns_info", "dns", 1)
  /\ Placed("routing_stats_processes_info", "routing_stats", 1)
  /\ Placed("routing_stats_kernel_time", "routing_stats", 1)
  /\ Placed("system_update_available", "system_update", 1)
  /\ Placed("ipsec_peer_info_info", "ipsec", 1)
  /\ Placed("ipsec_proposal_info_info", "ipsec", 2)
  /\ Placed("ipsec_policy_info_info", "ipsec", 3)
  /\ Placed("certificate_valid", "certificate", 1)
  /\ Placed("certificate_disabled", "certificate", 1)
  /\ Placed("certificate_expires_after", "certificate", 1)
  /\ Placed("certificate_serial_number", "certificate", 1)
  /\ Placed("certificate_expiration_timestamp_seconds_info", "certificate", 1)
  /\ Placed("lte_info_info", "lte", 1)
  /\ Placed("wlan_noise_floor", "wlan", 1)
  /\ Placed("wlan_clients_tx_bytes", "wlan", 3)
  /\ Placed("wlan_clients_devices_info", "wlan", 3)
  /\ Placed("wlan_frequency", "wlan", 4)
  /\ Placed("wlan_status", "wlan", 4)
  /\ Placed("wlan_ssid", "wlan", 4)
  /\ Placed("wlan_info_info", "wlan", 4)
  /\ Placed("capsman_remote_caps_info", "capsman", 1)
  /\ Placed("capsman_registrations_count", "capsman", 3)
  /\ Placed("capsman_clients_tx_bytes", "capsman", 3)
  /\ Placed("capsman_clients_devices_info", "capsman", 3)
  /\ Placed("capsman_interface_status", "capsman", 4)
  /\ Placed("capsman_ip_address", "capsman", 4)
  /\ Placed("capsman_interfaces_info", "capsman", 4)
  /\ Placed("eoip_status", "eoip", 1)
  /\ Placed("eoip_interface", "eoip", 1)
  /\ Placed("eoip_disabled", "eoip", 1)
  /\ Placed("eoip_mtu", "eoip", 1)
  /\ Placed("eoip_info_info", "eoip", 1)
  /\ Placed("gre_status", "gre", 1)
  /\ Placed("gre_disabled", "gre", 1)
  /\ Placed("gre_mtu", "gre", 1)
  /\ Placed("gre_info_info", "gre", 1)
  /\ Placed("ipip_status", "ipip", 1)
  /\ Placed("ipip_disabled", "ipip", 1)
  /\ Placed("ipip_mtu", "ipip", 1)
  /\ Placed("ipip_info_info", "ipip", 1)
  /\ Placed("kid_control_status", "kid_control", 1)
  /\ Placed("kid_control_disabled", "kid_control", 1)
  /\ Placed("kid_control_type", "kid_control", 1)
  /\ Placed("kid_control_info_info", "kid_control", 1)
  /\ Placed("kid_control_device_info", "kid_control_device", 1)
  /\ Placed("container_status", "container", 1)
  /\ Placed("container_image", "container", 1)
  /\ Placed("container_memory", "container", 1)
  /\ Placed("container_info_info", "container", 1)
  /\ Placed("w60g_status", "w60g", 1)
  /\ Placed("w60g_disabled", "w60g", 1)
  /\ Placed("w60g_frequency", "w60g", 1)
  /\ Placed("w60g_info_info", "w60g", 1)
<1>1. /\ Placed("health_up", "health", 1)
      /\ Placed("system_routerboard_voltage", "health", 2)
  BY DEF Placed, PlaceOf
<1>2. /\ Placed("system_uptime", "system_resource", 1)
      /\ Placed("system_free_memory", "system_resource", 1)
      /\ Placed("update_available", "system_resource", 1)
  BY DEF Placed, PlaceOf
<1>3. Placed("system_identity_info", "identity", 1)
  BY DEF Placed, PlaceOf
<1>4. /\ Placed("interface_type_info", "interface", 1)
      /\ Placed("interface_running", "interface", 1)
      /\ Placed("interface_rx_byte", "interface", 1)
  BY DEF Placed, PlaceOf
<1>5. /\ Placed("interface_status", "monitor", 2)
      /\ Placed("interface_rate", "monitor", 2)
      /\ Placed("interface_sfp_rx_power", "monitor", 2)
  BY DEF Placed, PlaceOf
<1>6. /\ Placed("poe_info", "poe", 1)
      /\ Placed("poe_out_voltage", "poe", 1)
  BY DEF Placed, PlaceOf
<1>7. /\ Placed("dhcp_lease_active_count", "dhcp", 1)
      /\ Placed("dhcp_lease_info", "dhcp", 1)
      /\ Placed("dhcp_name", "dhcp", 1)
  BY DEF Placed, PlaceOf
<1>8. /\ Placed("dhcpv6_binding_active_count", "dhcpv6", 1)
      /\ Placed("dhcpv6_binding_info", "dhcpv6", 1)
  BY DEF Placed, PlaceOf
<1>9. /\ Placed("ip_pool_used", "pool", 2)
      /\ Placed("ip_pool_used_ipv6", "pool", 4)
  BY DEF Placed, PlaceOf
<1>10. /\ Placed("routes_total_routes", "route", 1)
       /\ Placed("routes_protocol_count", "route", 1)
       /\ Placed("routes_total_routes_ipv6", "route", 2)
       /\ Placed("routes_protocol_count_ipv6", "route", 2)
  BY DEF Placed, PlaceOf
<1>11. /\ Placed("firewall_filter", "firewall", 1)
       /\ Placed("firewall_raw", "firewall", 2)
       /\ Placed("firewall_nat", "firewall", 3)
       /\ Placed("firewall_mangle", "firewall", 4)
       /\ Placed("firewall_filter_ipv6", "firewall", 5)
       /\ Placed("firewall_raw_ipv6", "firewall", 6)
       /\ Placed("firewall_nat_ipv6", "firewall", 7)
       /\ Placed("firewall_mangle_ipv6", "firewall", 8)
  BY DEF Placed, PlaceOf
<1>12. Placed("firewall_address_list", "address_list", 1)
  BY DEF Placed, PlaceOf
<1>13. /\ Placed("neighbor_info", "neighbor", 1)
       /\ Placed("ipv6_neighbor_info", "neighbor", 2)
  BY DEF Placed, PlaceOf
<1>14. /\ Placed("netwatch_info", "netwatch", 1)
       /\ Placed("netwatch_status", "netwatch", 1)
       /\ Placed("netwatch_done_tests", "netwatch", 1)
  BY DEF Placed, PlaceOf
<1>15. Placed("installed_packages_info", "package", 1)
  BY DEF Placed, PlaceOf
<1>16. Placed("active_users_info", "user", 1)
  BY DEF Placed, PlaceOf
<1>17. /\ Placed("queue_tree_bytes", "queue", 1)
       /\ Placed("queue_simple_bytes_upload", "queue", 2)
  BY DEF Placed, PlaceOf
<1>18. /\ Placed("ip_connections_total", "connection", 1)
       /\ Placed("connection_stats", "connection", 2)
  BY DEF Placed, PlaceOf
<1>19. Placed("public_ip_address_info", "public_ip", 1)
  BY DEF Placed, PlaceOf
<1>20. Placed("switch_rx_bytes", "switch_port", 1)
  BY DEF Placed, PlaceOf
<1>21. /\ Placed("bfd_multiplier", "bfd", 1)
       /\ Placed("bfd_session_status", "bfd", 1)
       /\ Placed("bfd_session_info_info", "bfd", 1)
       /\ Placed("bfd_state", "bfd", 1)
  BY DEF Placed, PlaceOf
<1>22. /\ Placed("bgp_sessions_info", "bgp", 1)
       /\ Placed("bgp_established", "bgp", 1)
       /\ Placed("bgp_prefix_count", "bgp", 1)
  BY DEF Placed, PlaceOf
<1>23. Placed("dns_info", "dns", 1)
  BY DEF Placed, PlaceOf
<1>24. /\ Placed("routing_stats_processes_info", "routing_stats", 1)
       /\ Placed("routing_stats_kernel_time", "routing_stats", 1)
  BY DEF Placed, PlaceOf
<1>25. Placed("system_update_available", "system_update", 1)
  BY DEF Placed, PlaceOf
<1>26. /\ Placed("ipsec_peer_info_info", "ipsec", 1)
       /\ Placed("ipsec_proposal_info_info", "ipsec", 2)
       /\ Placed("ipsec_policy_info_info", "ipsec", 3)
  BY DEF Placed, PlaceOf
<1>27. /\ Placed("certificate_valid", "certificate", 1)
       /\ Placed("certificate_disabled", "certificate", 1)
       /\ Placed("certificate_expires_after", "certificate", 1)
       /\ Placed("certificate_serial_number", "certificate", 1)
       /\ Placed("certificate_expiration_timestamp_seconds_info", "certificate", 1)
  BY DEF Placed, PlaceOf
<1>28. Placed("lte_info_info", "lte", 1)
  BY DEF Placed, PlaceOf
<1>29. /\ Placed("wlan_noise_floor", "wlan", 1)
       /\ Placed("wlan_clients_tx_bytes", "wlan", 3)
       /\ Placed("wlan_clients_devices_info", "wlan", 3)
       /\ Placed("wlan_frequency", "wlan", 4)
       /\ Placed("wlan_status", "wlan", 4)
       /\ Placed("wlan_ssid", "wlan", 4)
       /\ Placed("wlan_info_info", "wlan", 4)
  BY DEF Placed, PlaceOf
<1>30. /\ Placed("capsman_remote_caps_info", "capsman", 1)
       /\ Placed("capsman_registrations_count", "capsman", 3)
       /\ Placed("capsman_clients_tx_bytes", "capsman", 3)
       /\ Placed("capsman_clients_devices_info", "capsman", 3)
       /\ Placed("capsman_interface_status", "capsman", 4)
       /\ Placed("capsman_ip_address", "capsman", 4)
       /\ Placed("capsman_interfaces_info", "capsman", 4)
  BY DEF Placed, PlaceOf
<1>31. /\ Placed("eoip_status", "eoip", 1)
       /\ Placed("eoip_interface", "eoip", 1)
       /\ Placed("eoip_disabled", "eoip", 1)
       /\ Placed("eoip_mtu", "eoip", 1)
       /\ Placed("eoip_info_info", "eoip", 1)
  BY DEF Placed, PlaceOf
<1>32. /\ Placed("gre_status", "gre", 1)
       /\ Placed("gre_disabled", "gre", 1)
       /\ Placed("gre_mtu", "gre", 1)
       /\ Placed("gre_info_info", "gre", 1)
  BY DEF Placed, PlaceOf
<1>33. /\ Placed("ipip_status", "ipip", 1)
       /\ Placed("ipip_disabled", "ipip", 1)
       /\ Placed("ipip_mtu", "ipip", 1)
       /\ Placed("ipip_info_info", "ipip", 1)
  BY DEF Placed, PlaceOf
<1>34. /\ Placed("kid_control_status", "kid_control", 1)
       /\ Placed("kid_control_disabled", "kid_control", 1)
       /\ Placed("kid_control_type", "kid_control", 1)
       /\ Placed("kid_control_info_info", "kid_control", 1)
  BY DEF Placed, PlaceOf
<1>35. Placed("kid_control_device_info", "kid_control_device", 1)
  BY DEF Placed, PlaceOf
<1>36. /\ Placed("container_status", "container", 1)
       /\ Placed("container_image", "container", 1)
       /\ Placed("container_memory", "container", 1)
       /\ Placed("container_info_info", "container", 1)
  BY DEF Placed, PlaceOf
<1>37. /\ Placed("w60g_status", "w60g", 1)
       /\ Placed("w60g_disabled", "w60g", 1)
       /\ Placed("w60g_frequency", "w60g", 1)
       /\ Placed("w60g_info_info", "w60g", 1)
  BY DEF Placed, PlaceOf
<1> QED
  BY <1>1, <1>2, <1>3, <1>4, <1>5, <1>6, <1>7, <1>8, <1>9, <1>10, <1>11, <1>12, <1>13, <1>14,
     <1>15, <1>16, <1>17, <1>18, <1>19, <1>20, <1>21, <1>22, <1>23, <1>24, <1>25, <1>26, <1>27, <1>28,
     <1>29, <1>30, <1>31, <1>32, <1>33, <1>34, <1>35, <1>36, <1>37

LEMMA PlacedNowhere ==
  /\ NotInTable("ipsec_peer_status", "ipsec") /\ NotInTable("ipsec_proposal_enabled", "ipsec")
  /\ NotInTable("ipsec_policy_enabled", "ipsec") /\ NotInTable("lte_status", "lte")
  /\ NotInTable("kid_control_disabled", "kid_control_device")
<1>1. PlaceOf("ipsec_peer_status") = Nowhere
  BY DEF PlaceOf
<1>2. PlaceOf("ipsec_proposal_enabled") = Nowhere
  BY DEF PlaceOf
<1>3. PlaceOf("ipsec_policy_enabled") = Nowhere
  BY DEF PlaceOf
<1>4. PlaceOf("lte_status") = Nowhere
  BY DEF PlaceOf
<1>5. PlaceOf("kid_control_disabled") = <<"kid_control", 1>>
  BY DEF PlaceOf
<1> QED
  BY <1>1, <1>2, <1>3, <1>4, <1>5 DEF NotInTable

LEMMA PlainCollectors ==
  ASSUME NEW c \in AllCollectors \ {"health", "monitor", "pool", "firewall", "wlan", "capsman"}
  PROVE  Shape(c, Program(c).steps)
<1> USE PlacedAt, MetricsFit, FirstsFit, LabelledFit, GuardedFit, TwiceGuardedFit, MetricsOf, PlainPrograms, PlainSteps
    DEF Program, Gated
<1>1. Shape("system_resource", Program("system_resource").steps)
  BY DEF SystemResource
<1>2. Shape("identity", Program("identity").steps)
  BY DEF Identity
<1>3. Shape("interface", Program("interface").steps)
  BY DEF Interface
<1>4. Shape("poe", Program("poe").steps)
  BY DEF POE
<1>5. Shape("dhcp", Program("dhcp").steps)
  BY DEF DHCP
<1>6. Shape("dhcpv6", Program("dhcpv6").steps)
  BY DEF DHCPv6
<1>7. Shape("route", Program("route").steps)
  BY MoreMetricsOf DEF Route, RouteMetrics
<1>8. Shape("address_list", Program("address_list").steps)
  BY DEF AddressList
<1>9. Shape("neighbor", Program("neighbor").steps)
  BY DEF Neighbor
<1>10. Shape("netwatch", Program("netwatch").steps)
  BY DEF Netwatch
<1>11. Shape("package", Program("package").steps)
  BY DEF Package
<1>12. Shape("user", Program("user").steps)
  BY DEF User
<1>13. Shape("queue", Program("queue").steps)
  BY DEF Queue
<1>14. Shape("connection", Program("connection").steps)
  BY DEF Connections
<1>15. Shape("public_ip", Program("public_ip").steps)
  BY DEF PublicIP
<1>16. Shape("switch_port", Program("switch_port").steps)
  BY DEF SwitchPort
<1>17. Shape("bfd", Program("bfd").steps)
  BY MoreMetricsOf DEF BFD
<1>18. Shape("bgp", Program("bgp").steps)
  BY DEF BGP
<1>19. Shape("dns", Program("dns").steps)
  BY DEF DNS
<1>20. Shape("routing_stats", Program("routing_stats").steps)
  BY DEF RoutingStats
<1>21. Shape("system_update", Program("system_update").steps)
  BY DEF SystemUpdate
<1>22. Shape("ipsec", Program("ipsec").steps)
  BY MislabelledFit, PlacedNowhere DEF IPSec
<1>23. Shape("certificate", Program("certificate").steps)
  BY MoreMetricsOf DEF Certificate
<1>24. Shape("lte", Program("lte").steps)
  BY MislabelledFit, PlacedNowhere DEF LTE
<1>25. Shape("eoip", Program("eoip").steps)
  BY MoreMetricsOf DEF EOIP
<1>26. Shape("gre", Program("gre").steps)
  BY MoreMetricsOf DEF GRE
<1>27. Shape("ipip", Program("ipip").steps)
  BY MoreMetricsOf DEF IPIP
<1>28. Shape("kid_control", Program("kid_control").steps)
  BY MoreMetricsOf DEF KidControl
<1>29. Shape("kid_control_device", Program("kid_control_device").steps)
  BY MislabelledFit, PlacedNowhere DEF KidControlDevice
<1>30. Shape("container", Program("container").steps)
  BY MoreMetricsOf DEF Container
<1>31. Shape("w60g", Program("w60g").steps)
  BY MoreMetricsOf DEF W60G
<1> HIDE DEF Program, Gated
<1> QED
  BY <1>1, <1>2, <1>3, <1>4, <1>5, <1>6, <1>7, <1>8, <1>9, <1>10, <1>11, <1>12, <1>13, <1>14,
     <1>15, <1>16, <1>17, <1>18, <1>19, <1>20, <1>21, <1>22, <1>23, <1>24, <1>25, <1>26, <1>27,
     <1>28, <1>29, <1>30, <1>31, SMTT(30) DEF AllCollectors

\* The steps that are not plain: rows kept, what is done with them, what is told.
Other(s, how, jump, keeps, c, i) ==
  /\ IsStep(s, how, jump, keeps, s.emit) /\ MetricsShape(s.emit, c, i)
  /\ (how \in {"tell", "each"} => OfNoRow(s.emit))

LEMMA OtherSteps ==
  /\ \A ask, ms, c, i : MetricsShape(ms, c, i) =>
       /\ Other(Keep(Ask(ask, ms)), "run", 1, TRUE, c, i)
       /\ Other(OrElse(2, Keep(Ask(ask, ms))), "run", 2, TRUE, c, i)
       /\ Other([Keep(Ask(ask, ms)) EXCEPT !.jump = 2], "run", 2, TRUE, c, i)
       /\ Other([Ask(ask, ms) EXCEPT !.how = "used"], "used", 1, FALSE, c, i)
       /\ Other(Resolve(ms), "resolve", 1, FALSE, c, i)
       /\ OfNoRow(ms) => /\ Other(Tell(ms), "tell", 1, FALSE, c, i)
                         /\ Other(ForEach(ask, ms), "each", 1, FALSE, c, i)
  /\ \A s, how, jump, keeps, c, i, g :
       Other(s, how, jump, keeps, c, i) => Other(If(g, s), how, jump, keeps, c, i)
<1>1. ASSUME NEW ask, NEW ms, NEW c, NEW i, MetricsShape(ms, c, i)
      PROVE  /\ Other(Keep(Ask(ask, ms)), "run", 1, TRUE, c, i)
             /\ Other(OrElse(2, Keep(Ask(ask, ms))), "run", 2, TRUE, c, i)
             /\ Other([Keep(Ask(ask, ms)) EXCEPT !.jump = 2], "run", 2, TRUE, c, i)
             /\ Other([Ask(ask, ms) EXCEPT !.how = "used"], "used", 1, FALSE, c, i)
             /\ Other(Resolve(ms), "resolve", 1, FALSE, c, i)
             /\ OfNoRow(ms) => /\ Other(Tell(ms), "tell", 1, FALSE, c, i)
                               /\ Other(ForEach(ask, ms), "each", 1, FALSE, c, i)
  <2>1. ASSUME NEW s, NEW how, NEW jump, NEW keeps, IsStep(s, how, jump, keeps, ms),
               how \in {"tell", "each"} => OfNoRow(ms)
        PROVE  Other(s, how, jump, keeps, c, i)
    BY <1>1, <2>1 DEF Other, IsStep
  <2>2. /\ IsStep(Ask(ask, ms), "run", 1, FALSE, ms) /\ IsStep(Resolve(ms), "resolve", 1, FALSE, ms)
        /\ IsStep(Tell(ms), "tell", 1, FALSE, ms) /\ IsStep(ForEach(ask, ms), "each", 1, FALSE, ms)
    BY StepsAre
  <2>3. /\ IsStep(Keep(Ask(ask, ms)), "run", 1, TRUE, ms)
        /\ IsStep([Ask(ask, ms) EXCEPT !.how = "used"], "used", 1, FALSE, ms)
    BY <2>2, StepsMadeOf
  <2>4. /\ IsStep(OrElse(2, Keep(Ask(ask, ms))), "run", 2, TRUE, ms)
        /\ IsStep([Keep(Ask(ask, ms)) EXCEPT !.jump = 2], "run", 2, TRUE, ms)
    BY <2>3, StepsMadeOf
  <2> QED
    BY <2>1, <2>2, <2>3, <2>4
<1>2. ASSUME NEW s, NEW how, NEW jump, NEW keeps, NEW c, NEW i, NEW g,
             Other(s, how, jump, keeps, c, i)
      PROVE  Other(If(g, s), how, jump, keeps, c, i)
  <2>1. IsStep(If(g, s), how, jump, keeps, s.emit)
    BY <1>2, StepsMadeOf DEF Other
  <2> QED
    BY <1>2, <2>1 DEF Other, IsStep
<1> QED
  BY <1>1, <1>2

LEMMA ToldShape ==
  ASSUME NEW s1, NEW s2, Other(s1, "tell", 1, FALSE, "health", 1), Plain(s2, "health", 2)
  PROVE  Shape("health", <<s1, s2>>)
<1> DEFINE steps == <<s1, s2>>
<1>1. Len(steps) = 2 /\ steps[1] = s1 /\ steps[2] = s2
  OBVIOUS
<1> HIDE DEF steps
<1>2. StepShape("health", steps, 1)
  BY <1>1 DEF StepShape, Other, IsStep, Plain
<1>3. StepShape("health", steps, 2)
  BY <1>1 DEF StepShape, Other, IsStep, Plain
<1> QED
  BY <1>1, <1>2, <1>3 DEF Shape, steps

LEMMA EachShape ==
  ASSUME NEW s1, NEW s2, Other(s1, "run", 1, TRUE, "monitor", 1),
         Other(s2, "each", 1, FALSE, "monitor", 2), Len(s2.emit) > 0
  PROVE  Shape("monitor", <<s1, s2>>)
<1> DEFINE steps == <<s1, s2>>
<1>1. Len(steps) = 2 /\ steps[1] = s1 /\ steps[2] = s2
  OBVIOUS
<1> HIDE DEF steps
<1>2. StepShape("monitor", steps, 1)
  BY <1>1 DEF StepShape, Other, IsStep, Plain
<1>3. StepShape("monitor", steps, 2)
  BY <1>1 DEF StepShape, Other, IsStep, Plain
<1> QED
  BY <1>1, <1>2, <1>3 DEF Shape, steps

LEMMA UsedShape ==
  ASSUME NEW c, NEW s1, NEW s2, NEW s3, NEW s4,
         Other(s1, "run", 2, TRUE, c, 1), Other(s2, "used", 1, FALSE, c, 2),
         Other(s3, "run", 2, TRUE, c, 3), Other(s4, "used", 1, FALSE, c, 4)
  PROVE  Shape(c, <<s1, s2, s3, s4>>)
<1> DEFINE steps == <<s1, s2, s3, s4>>
<1>1. Len(steps) = 4 /\ steps[1] = s1 /\ steps[2] = s2 /\ steps[3] = s3 /\ steps[4] = s4
  OBVIOUS
<1> HIDE DEF steps
<1>2. StepShape(c, steps, 1)
  BY <1>1 DEF StepShape, Other, IsStep, Plain
<1>3. StepShape(c, steps, 2)
  BY <1>1 DEF StepShape, Other, IsStep, Plain
<1>4. StepShape(c, steps, 3)
  BY <1>1 DEF StepShape, Other, IsStep, Plain
<1>5. StepShape(c, steps, 4)
  BY <1>1 DEF StepShape, Other, IsStep, Plain
<1> QED
  BY <1>1, <1>2, <1>3, <1>4, <1>5 DEF Shape, steps

LEMMA ResolvedShape ==
  ASSUME NEW c, NEW s1, NEW s2, NEW s3, NEW s4,
         Plain(s1, c, 1), Other(s2, "run", 2, TRUE, c, 2),
         Other(s3, "resolve", 1, FALSE, c, 3), Plain(s4, c, 4)
  PROVE  Shape(c, <<s1, s2, s3, s4>>)
<1> DEFINE steps == <<s1, s2, s3, s4>>
<1>1. Len(steps) = 4 /\ steps[1] = s1 /\ steps[2] = s2 /\ steps[3] = s3 /\ steps[4] = s4
  OBVIOUS
<1> HIDE DEF steps
<1>2. StepShape(c, steps, 1)
  BY <1>1 DEF StepShape, Other, IsStep, Plain
<1>3. StepShape(c, steps, 2)
  BY <1>1 DEF StepShape, Other, IsStep, Plain
<1>4. StepShape(c, steps, 3)
  BY <1>1 DEF StepShape, Other, IsStep, Plain
<1>5. StepShape(c, steps, 4)
  BY <1>1 DEF StepShape, Other, IsStep, Plain
<1> QED
  BY <1>1, <1>2, <1>3, <1>4, <1>5 DEF Shape, steps

LEMMA EightShape ==
  \A c, s1, s2, s3, s4, s5, s6, s7, s8 :
    /\ Plain(s1, c, 1) /\ Plain(s2, c, 2) /\ Plain(s3, c, 3) /\ Plain(s4, c, 4)
    /\ Plain(s5, c, 5) /\ Plain(s6, c, 6) /\ Plain(s7, c, 7) /\ Plain(s8, c, 8)
    => Shape(c, <<s1, s2, s3, s4, s5, s6, s7, s8>>)
BY PlainShape

LEMMA Joined ==
  ASSUME NEW a, NEW b, NEW c, NEW d
  PROVE  <<a, b>> \o <<c, d>> = <<a, b, c, d>>
<1> DEFINE S == {a, b, c, d}
           s == <<a, b>>
           t == <<c, d>>
<1>1. s \in Seq(S) /\ t \in Seq(S) /\ <<a, b, c, d>> \in Seq(S)
  OBVIOUS
<1>2. Len(s \o t) = 4 /\ \A i \in 1..4 : (s \o t)[i] = <<a, b, c, d>>[i]
  OBVIOUS
<1>3. s \o t \in Seq(S)
  BY <1>1, ConcatProperties
<1> QED
  BY <1>1, <1>2, <1>3, SeqEqual

\* The metrics of the collectors whose steps are not all plain.
LinkMetrics ==
  <<Link(State("interface_status", 1)), Link(Of("bool", Metric("interface_rate", 1))),
    Link(Metric("interface_sfp_rx_power", 1))>>
HealthMetrics == <<First(State("health_up", 0))>>

LEMMA NoRowMetrics == OfNoRow(LinkMetrics) /\ OfNoRow(HealthMetrics)
<1>1. OfNoRow(HealthMetrics)
  <2>1. Len(HealthMetrics) = 1 /\ HealthMetrics[1] = First(State("health_up", 0))
    BY DEF HealthMetrics
  <2>2. ~OfRow(HealthMetrics[1]) /\ HealthMetrics[1].value # "count"
    BY <2>1 DEF OfRow, First, State, Of, Always, Needs, Metric
  <2> QED
    BY <2>1, <2>2 DEF OfNoRow
<1>2. ASSUME NEW k \in 1..3 PROVE ~OfRow(LinkMetrics[k]) /\ LinkMetrics[k].value # "count"
  <2>1. CASE k = 1
    BY <2>1 DEF LinkMetrics, OfRow, Link, State, Of, Always, Needs, Metric
  <2>2. CASE k = 2
    BY <2>2 DEF LinkMetrics, OfRow, Link, Of, Metric
  <2>3. CASE k = 3
    <3>1. LinkMetrics[3] = Link(Metric("interface_sfp_rx_power", 1))
      BY DEF LinkMetrics
    <3>2. \A m : {"from", "value"} \subseteq DOMAIN m => Link(m).from = "link" /\ Link(m).value = m.value
      BY DEF Link
    <3>3. /\ {"from", "value"} \subseteq DOMAIN Metric("interface_sfp_rx_power", 1)
          /\ Metric("interface_sfp_rx_power", 1).value = "number"
      BY DEF Metric
    <3> QED
      BY <2>3, <3>1, <3>2, <3>3 DEF OfRow
  <2> QED
    BY <2>1, <2>2, <2>3
<1>3. Len(LinkMetrics) = 3
  BY DEF LinkMetrics
<1> QED
  BY <1>1, <1>2, <1>3 DEF OfNoRow

LEMMA OtherMetrics ==
  /\ MetricsShape(HealthMetrics, "health", 1)
  /\ MetricsShape(<<Sensor("system_routerboard_voltage")>>, "health", 2)
  /\ MetricsShape(LinkMetrics, "monitor", 2)
  /\ MetricsShape(<<Counted("ip_pool_used", 1)>>, "pool", 2)
  /\ MetricsShape(<<Counted("ip_pool_used_ipv6", 1)>>, "pool", 4)
  /\ MetricsShape(<<ByChannel(Metric("wlan_noise_floor", 1))>>, "wlan", 1)
  /\ MetricsShape(<<Client(Always(Metric("wlan_clients_tx_bytes", 2))),
                    Client(One("wlan_clients_devices_info", 9))>>, "wlan", 3)
  /\ MetricsShape(<<Metric("wlan_frequency", 2), Needs("state", State("wlan_status", 2)),
                    Needs("text", One("wlan_ssid", 2)), Needs("comment", One("wlan_info_info", 4))>>,
                  "wlan", 4)
  /\ MetricsShape(<<One("capsman_remote_caps_info", 4)>>, "capsman", 1)
  /\ MetricsShape(<<Counted("capsman_registrations_count", 1),
                    Client(Always(Metric("capsman_clients_tx_bytes", 2))),
                    Client(One("capsman_clients_devices_info", 9))>>, "capsman", 3)
  /\ MetricsShape(<<Needs("state", State("capsman_interface_status", 2)),
                    Needs("text", One("capsman_ip_address", 2)),
                    Needs("comment", One("capsman_interfaces_info", 2))>>, "capsman", 4)
<1> USE PlacedAt, MetricsFit, FirstsFit, LabelledFit, GuardedFit, TwiceGuardedFit, MetricsOf, MoreMetricsOf
<1>1. MetricsShape(HealthMetrics, "health", 1)
  BY DEF HealthMetrics
<1>2. MetricsShape(<<Sensor("system_routerboard_voltage")>>, "health", 2)
  OBVIOUS
<1>3. MetricsShape(LinkMetrics, "monitor", 2)
  BY DEF LinkMetrics
<1>4. MetricsShape(<<Counted("ip_pool_used", 1)>>, "pool", 2)
  OBVIOUS
<1>5. MetricsShape(<<Counted("ip_pool_used_ipv6", 1)>>, "pool", 4)
  OBVIOUS
<1>6. MetricsShape(<<ByChannel(Metric("wlan_noise_floor", 1))>>, "wlan", 1)
  OBVIOUS
<1>7. MetricsShape(<<Client(Always(Metric("wlan_clients_tx_bytes", 2))),
                     Client(One("wlan_clients_devices_info", 9))>>, "wlan", 3)
  OBVIOUS
<1>8. MetricsShape(<<Metric("wlan_frequency", 2), Needs("state", State("wlan_status", 2)),
                     Needs("text", One("wlan_ssid", 2)), Needs("comment", One("wlan_info_info", 4))>>,
                   "wlan", 4)
  OBVIOUS
<1>9. MetricsShape(<<One("capsman_remote_caps_info", 4)>>, "capsman", 1)
  OBVIOUS
<1>10. MetricsShape(<<Counted("capsman_registrations_count", 1),
                      Client(Always(Metric("capsman_clients_tx_bytes", 2))),
                      Client(One("capsman_clients_devices_info", 9))>>, "capsman", 3)
  OBVIOUS
<1>11. MetricsShape(<<Needs("state", State("capsman_interface_status", 2)),
                      Needs("text", One("capsman_ip_address", 2)),
                      Needs("comment", One("capsman_interfaces_info", 2))>>, "capsman", 4)
  OBVIOUS
<1> HIDE PlacedAt, MetricsFit, FirstsFit, LabelledFit, GuardedFit, TwiceGuardedFit, MetricsOf, MoreMetricsOf
<1> QED
  BY <1>1, <1>2, <1>3, <1>4, <1>5, <1>6, <1>7, <1>8, <1>9, <1>10, <1>11

LEMMA OtherCollectors ==
  \A c \in {"health", "monitor", "pool", "firewall", "wlan", "capsman"} :
    Shape(c, Program(c).steps)
<1>1. \A c : MetricsShape(<<>>, c, 1) /\ MetricsShape(<<>>, c, 2) /\ MetricsShape(<<>>, c, 3)
  BY MetricsOf
<1>2. Shape("health", Program("health").steps)
  BY OtherMetrics, NoRowMetrics, OtherSteps, PlainSteps, ToldShape
  DEF Program, Gated, Health, HealthMetrics
<1>3. Shape("monitor", Program("monitor").steps)
  <2> DEFINE list == Keep(Ask("/interface/ethernet/print", <<>>))
             each == ForEach("/interface/ethernet/monitor", LinkMetrics)
  <2>1. Len(each.emit) > 0
    <3>1. each.emit = LinkMetrics
      BY StepsAre DEF IsStep
    <3>2. Len(LinkMetrics) = 3
      BY DEF LinkMetrics
    <3> QED
      BY <3>1, <3>2
  <2>2. Program("monitor").steps = <<list, each>>
    BY DEF Program, Gated, Monitor, LinkMetrics
  <2>4. Other(list, "run", 1, TRUE, "monitor", 1) /\ Other(each, "each", 1, FALSE, "monitor", 2)
    BY <1>1, OtherMetrics, NoRowMetrics, OtherSteps
  <2> HIDE DEF list, each
  <2> QED
    BY <2>1, <2>2, <2>4, EachShape
<1>4. Shape("pool", Program("pool").steps)
  <2> DEFINE list(f, q) == If(f, [Keep(Ask(q, <<>>)) EXCEPT !.jump = 2])
             used(f, q, m) == If(f, [Ask(q, <<Counted(m, 1)>>) EXCEPT !.how = "used"])
             s1 == list("Pool", "/ip/pool/print")
             s2 == used("Pool", "/ip/pool/used/print", "ip_pool_used")
             s3 == list("IPv6Pool", "/ipv6/pool/print")
             s4 == used("IPv6Pool", "/ipv6/pool/used/print", "ip_pool_used_ipv6")
  <2>2. /\ Other(s1, "run", 2, TRUE, "pool", 1) /\ Other(s2, "used", 1, FALSE, "pool", 2)
        /\ Other(s3, "run", 2, TRUE, "pool", 3) /\ Other(s4, "used", 1, FALSE, "pool", 4)
    BY <1>1, OtherMetrics, OtherSteps
  <2>3. Program("pool").steps = <<s1, s2>> \o <<s3, s4>>
    BY DEF Program, Gated, Pool, PoolSteps
  <2> HIDE DEF list, used, s1, s2, s3, s4
  <2>4. <<s1, s2>> \o <<s3, s4>> = <<s1, s2, s3, s4>>
    BY Joined
  <2> QED
    BY <2>2, <2>3, <2>4, UsedShape
<1>5. Shape("firewall", Program("firewall").steps)
  <2>1. MetricsShape(<<Metric("firewall_filter", 2)>>, "firewall", 1)
    BY PlacedAt, MetricsFit, MetricsOf
  <2>2. MetricsShape(<<Metric("firewall_raw", 2)>>, "firewall", 2)
    BY PlacedAt, MetricsFit, MetricsOf
  <2>3. MetricsShape(<<Metric("firewall_nat", 2)>>, "firewall", 3)
    BY PlacedAt, MetricsFit, MetricsOf
  <2>4. MetricsShape(<<Metric("firewall_mangle", 2)>>, "firewall", 4)
    BY PlacedAt, MetricsFit, MetricsOf
  <2>5. MetricsShape(<<Metric("firewall_filter_ipv6", 2)>>, "firewall", 5)
    BY PlacedAt, MetricsFit, MetricsOf
  <2>6. MetricsShape(<<Metric("firewall_raw_ipv6", 2)>>, "firewall", 6)
    BY PlacedAt, MetricsFit, MetricsOf
  <2>7. MetricsShape(<<Metric("firewall_nat_ipv6", 2)>>, "firewall", 7)
    BY PlacedAt, MetricsFit, MetricsOf
  <2>8. MetricsShape(<<Metric("firewall_mangle_ipv6", 2)>>, "firewall", 8)
    BY PlacedAt, MetricsFit, MetricsOf
  <2> QED
    BY <2>1, <2>2, <2>3, <2>4, <2>5, <2>6, <2>7, <2>8, EightShape, PlainSteps DEF Program, Gated, Firewall
<1>6. Shape("wlan", Program("wlan").steps)
  BY <1>1, OtherMetrics, OtherSteps, PlainSteps, ResolvedShape DEF Program, Gated, WLAN
<1>7. Shape("capsman", Program("capsman").steps)
  BY <1>1, OtherMetrics, OtherSteps, PlainSteps, ResolvedShape DEF Program, Gated, CAPsMAN
<1> QED
  BY <1>2, <1>3, <1>4, <1>5, <1>6, <1>7

LEMMA AllShapes == \A c \in AllCollectors : Shape(c, Program(c).steps)
BY PlainCollectors, OtherCollectors

-----------------------------------------------------------------------------
(* Types                                                                   *)

Kept == Tables \cup {<<>>}

Registered ==
  /\ DOMAIN collectors \subseteq AllCollectors
  /\ \A c \in DOMAIN collectors : collectors[c] = Program(c)

Places ==
  /\ pc \in [DOMAIN collectors -> Nat]
  /\ held \in [DOMAIN collectors -> Kept]
  /\ turn \in [DOMAIN collectors -> Nat]
  /\ DOMAIN emitted = DOMAIN collectors
  /\ \A c \in DOMAIN collectors : pc[c] <= Len(Steps(c)) + 1 /\ turn[c] <= Len(held[c])

RouterInv ==
  /\ table \in Tables /\ past \subseteq Tables /\ table \in past
  /\ changes \in 0..MaxChanges /\ link \in {"up", "lost"}
  /\ expired \subseteq DOMAIN collectors /\ leases \in {"empty", "filled"}

\* Rows are kept from the step that asked for them to the next, and no longer.
KeptInv ==
  \A c \in DOMAIN collectors : held[c] # <<>> =>
    /\ held[c] \in past
    /\ pc[c] > 1 /\ pc[c] <= Len(Steps(c)) /\ Steps(c)[pc[c] - 1].keeps

TypeInv == Registered /\ Places /\ RouterInv /\ KeptInv

LEMMA TableTypes ==
  \A t \in Kept : Len(t) \in Nat /\ t \in Seq(Row)
<1>1. Kept \subseteq Seq(Row)
  BY CollectAssumption, EmptySeq DEF Kept
<1>2. \A t \in Seq(Row) : Len(t) \in Nat
  BY LenProperties
<1> QED
  BY <1>1, <1>2

LEMMA StepFacts ==
  ASSUME Registered, NEW c \in DOMAIN collectors
  PROVE  /\ Len(Steps(c)) \in Nat
         /\ \A i \in 1..Len(Steps(c)) : StepShape(c, Steps(c), i)
BY AllShapes DEF Registered, Steps, Shape

\* Where a collector is after a step, and what it has kept.
Moved(c, n, rows, k) ==
  /\ pc' = [pc EXCEPT ![c] = n]
  /\ held' = [held EXCEPT ![c] = rows]
  /\ turn' = [turn EXCEPT ![c] = k]

LEMMA TypeMoves ==
  ASSUME TypeInv, RouterInv', UNCHANGED collectors, past \subseteq past',
         DOMAIN emitted' = DOMAIN emitted,
         NEW c \in DOMAIN collectors, NEW n \in 0..Len(Steps(c)) + 1, NEW rows \in Kept,
         NEW k \in 0..Len(rows), Moved(c, n, rows, k),
         rows # <<>> => /\ rows \in past'
                        /\ n > 1 /\ n <= Len(Steps(c)) /\ Steps(c)[n - 1].keeps
  PROVE  TypeInv'
<1>1. Registered'
  BY DEF TypeInv, Registered
<1>2. \A d \in DOMAIN collectors : Steps(d)' = Steps(d)
  BY DEF Steps
<1>3. Len(Steps(c)) \in Nat /\ Len(rows) \in Nat
  BY StepFacts, TableTypes DEF TypeInv
<1>4. /\ pc'[c] = n /\ held'[c] = rows /\ turn'[c] = k
      /\ \A d \in DOMAIN collectors \ {c} :
           pc'[d] = pc[d] /\ held'[d] = held[d] /\ turn'[d] = turn[d]
  BY DEF Moved, TypeInv, Places
<1>5. Places'
  <2>1. /\ pc' \in [DOMAIN collectors -> Nat] /\ held' \in [DOMAIN collectors -> Kept]
        /\ turn' \in [DOMAIN collectors -> Nat]
    <3>1. pc' \in [DOMAIN collectors -> Nat]
      BY <1>3 DEF Moved, TypeInv, Places
    <3>2. held' \in [DOMAIN collectors -> Kept]
      BY DEF Moved, TypeInv, Places
    <3>3. turn' \in [DOMAIN collectors -> Nat]
      BY <1>3 DEF Moved, TypeInv, Places
    <3> QED
      BY <3>1, <3>2, <3>3
  <2>2. \A d \in DOMAIN collectors : pc'[d] <= Len(Steps(d)) + 1 /\ turn'[d] <= Len(held'[d])
    <3> SUFFICES ASSUME NEW d \in DOMAIN collectors
                 PROVE  pc'[d] <= Len(Steps(d)) + 1 /\ turn'[d] <= Len(held'[d])
      OBVIOUS
    <3>1. CASE d = c
      BY <1>3, <1>4, <3>1
    <3>2. CASE d # c
      BY <1>4, <3>2 DEF TypeInv, Places
    <3> QED
      BY <3>1, <3>2
  <2> QED
    BY <1>2, <2>1, <2>2 DEF TypeInv, Places
<1>6. KeptInv'
  <2> SUFFICES ASSUME NEW d \in DOMAIN collectors, held'[d] # <<>>
               PROVE  /\ held'[d] \in past'
                      /\ pc'[d] > 1 /\ pc'[d] <= Len(Steps(d)) /\ Steps(d)[pc'[d] - 1].keeps
    BY <1>2 DEF KeptInv
  <2>1. CASE d = c
    BY <2>1, <1>4
  <2>2. CASE d # c
    BY <2>2, <1>4 DEF TypeInv, KeptInv
  <2> QED
    BY <2>1, <2>2
<1> QED
  BY <1>1, <1>5, <1>6 DEF TypeInv

LEMMA EmittedDomain ==
  /\ \A c, xs : EmitAll(c, xs) => DOMAIN emitted' = DOMAIN emitted
  /\ \A c, step, t, before : Emit(c, step, t, before) => DOMAIN emitted' = DOMAIN emitted
BY DEF EmitAll, Emit

LEMMA TypeInit == Init => TypeInv
<1> SUFFICES ASSUME Init PROVE TypeInv
  OBVIOUS
<1>1. Registered
  BY CollectAssumption DEF Init, Registered
<1>2. \A c \in DOMAIN collectors : Len(Steps(c)) \in Nat /\ StartOf(c) \in {1, Len(Steps(c)) + 1}
  BY <1>1, StepFacts DEF StartOf
<1>3. Places
  <2>1. Len(<<>>) = 0 /\ <<>> \in Kept
    BY DEF Kept
  <2>2. /\ pc \in [DOMAIN collectors -> Nat] /\ held \in [DOMAIN collectors -> Kept]
        /\ turn \in [DOMAIN collectors -> Nat] /\ DOMAIN emitted = DOMAIN collectors
    BY <1>2, <2>1 DEF Init
  <2>3. \A c \in DOMAIN collectors : pc[c] <= Len(Steps(c)) + 1 /\ turn[c] <= Len(held[c])
    BY <1>2, <2>1 DEF Init
  <2> QED
    BY <2>2, <2>3 DEF Places
<1>4. RouterInv
  BY CollectAssumption DEF Init, RouterInv
<1>5. KeptInv
  BY DEF Init, KeptInv
<1> QED
  BY <1>1, <1>3, <1>4, <1>5 DEF TypeInv

LEMMA TypeCollecting ==
  ASSUME TypeInv, NEW c \in DOMAIN collectors, Collecting(c)
  PROVE  TypeInv'
<1> USE DEF Router
<1>1. /\ Len(Steps(c)) \in Nat /\ pc[c] \in Nat /\ pc[c] <= Len(Steps(c)) + 1
      /\ held[c] \in Kept /\ Len(held[c]) \in Nat /\ turn[c] \in Nat /\ turn[c] <= Len(held[c])
      /\ held[c] # <<>> => /\ held[c] \in past /\ pc[c] > 1 /\ pc[c] <= Len(Steps(c))
                           /\ Steps(c)[pc[c] - 1].keeps
  BY StepFacts, TableTypes DEF TypeInv, Places, KeptInv
<1>2. pc[c] \in 1..Len(Steps(c)) => StepShape(c, Steps(c), pc[c])
  BY StepFacts DEF TypeInv
<1>3. <<>> \in Kept /\ 0 \in 0..Len(<<>>) /\ table \in Kept /\ Len(table) \in Nat
  BY TableTypes DEF Kept, TypeInv, RouterInv
<1>4. /\ pc = [pc EXCEPT ![c] = pc[c]] /\ held = [held EXCEPT ![c] = held[c]]
      /\ turn = [turn EXCEPT ![c] = turn[c]]
  BY DEF TypeInv, Places
<1>5. CASE PassOver(c)
  <2>1. Moved(c, pc[c] + Step(c).jump, <<>>, 0)
    BY <1>5 DEF PassOver, Moved, Go, Forget
  <2>2. pc[c] + Step(c).jump \in 0..Len(Steps(c)) + 1
    BY <1>1, <1>2, <1>5 DEF PassOver, StepShape, Step
  <2>3. RouterInv' /\ UNCHANGED collectors /\ past \subseteq past' /\ DOMAIN emitted' = DOMAIN emitted
    BY <1>5 DEF PassOver, TypeInv, RouterInv
  <2> QED
    BY <1>3, <2>1, <2>2, <2>3, TypeMoves
<1>6. CASE Answered(c)
  <2> DEFINE rows == IF Step(c).keeps THEN table ELSE <<>>
  <2>1. Moved(c, pc[c] + 1, rows, 0)
    BY <1>6 DEF Answered, Moved, Go
  <2>2. pc[c] \in 1..Len(Steps(c)) /\ (Step(c).keeps => pc[c] < Len(Steps(c)))
    BY <1>2, <1>6 DEF Answered, At, StepShape, Step
  <2>3. RouterInv' /\ UNCHANGED collectors /\ past' = past /\ DOMAIN emitted' = DOMAIN emitted
    BY <1>6, EmittedDomain DEF Answered, TypeInv, RouterInv
  <2>4. pc[c] + 1 \in 0..Len(Steps(c)) + 1
    BY <1>1, <2>2
  <2>5. rows \in Kept /\ 0 \in 0..Len(rows)
    BY <1>3
  <2>6. rows # <<>> => /\ rows \in past'
                       /\ pc[c] + 1 > 1 /\ pc[c] + 1 <= Len(Steps(c))
                       /\ Steps(c)[(pc[c] + 1) - 1].keeps
    <3>1. (pc[c] + 1) - 1 = pc[c]
      BY <1>1
    <3> QED
      BY <1>1, <2>2, <2>3, <3>1 DEF Step, TypeInv, RouterInv
  <2> HIDE DEF rows
  <2> QED
    BY <2>1, <2>3, <2>4, <2>5, <2>6, TypeMoves
<1>7. CASE Unanswered(c)
  <2>1. PICK n \in 0..Len(Steps(c)) + 1 : Moved(c, n, <<>>, 0)
    <3>1. Moved(c, pc[c] + Step(c).jump, <<>>, 0) \/ Moved(c, Len(Steps(c)) + 1, <<>>, 0)
      BY <1>7 DEF Unanswered, Moved, Go, Return, Forget
    <3>2. pc[c] + Step(c).jump \in 0..Len(Steps(c)) + 1
      BY <1>1, <1>2, <1>7 DEF Unanswered, At, StepShape, Step
    <3> QED
      BY <1>1, <3>1, <3>2
  <2>2. RouterInv' /\ UNCHANGED collectors /\ past \subseteq past' /\ DOMAIN emitted' = DOMAIN emitted
    BY <1>7 DEF Unanswered, CommandFails, TypeInv, RouterInv
  <2> QED
    BY <1>3, <2>1, <2>2, TypeMoves
<1>8. CASE TellLink(c)
  <2>1. Moved(c, pc[c] + 1, held[c], turn[c])
    BY <1>4, <1>8 DEF TellLink, Moved, Go
  <2>2. pc[c] = 1 /\ 1 <= Len(Steps(c))
    <3>1. pc[c] \in 1..Len(Steps(c)) /\ Steps(c)[pc[c]].how = "tell"
      BY <1>8 DEF TellLink, At, Step
    <3>2. pc[c] = 1
      BY <1>2, <3>1 DEF StepShape
    <3> QED
      BY <3>1, <3>2
  <2>3. RouterInv' /\ UNCHANGED collectors /\ past \subseteq past' /\ DOMAIN emitted' = DOMAIN emitted
    BY <1>8, EmittedDomain DEF TellLink, TypeInv, RouterInv
  <2>4. held[c] = <<>> /\ pc[c] + 1 \in 0..Len(Steps(c)) + 1 /\ turn[c] \in 0..Len(held[c])
    BY <1>1, <2>2
  <2> QED
    BY <1>1, <2>1, <2>3, <2>4, TypeMoves
<1>9. CASE ResolveCached(c) \/ ResolveFetched(c) \/ ResolveFails(c) \/ LinksDone(c)
  <2>1. Moved(c, pc[c] + 1, <<>>, 0)
    BY <1>9 DEF ResolveCached, ResolveFetched, ResolveFails, LinksDone, ShowClients, Moved, Go, Forget
  <2>2. pc[c] + 1 \in 0..Len(Steps(c)) + 1
    BY <1>1, <1>9 DEF ResolveCached, ResolveFetched, ResolveFails, LinksDone, At
  <2>3. RouterInv' /\ UNCHANGED collectors /\ past \subseteq past' /\ DOMAIN emitted' = DOMAIN emitted
    BY <1>9, EmittedDomain
    DEF ResolveCached, ResolveFetched, ResolveFails, LinksDone, ShowClients, CommandFails,
        TypeInv, RouterInv
  <2> QED
    BY <1>3, <2>1, <2>2, <2>3, TypeMoves
<1>10. CASE LinkIdle(c) \/ LinkAnswered(c) \/ LinkUnanswered(c)
  <2>1. Moved(c, pc[c], held[c], turn[c] + 1)
    BY <1>4, <1>10 DEF LinkIdle, LinkAnswered, LinkUnanswered, NextLink, Moved
  <2>2. turn[c] + 1 \in 0..Len(held[c]) /\ pc[c] \in 0..Len(Steps(c)) + 1
    BY <1>1, <1>10 DEF LinkIdle, LinkAnswered, LinkUnanswered
  <2>3. RouterInv' /\ UNCHANGED collectors /\ past' = past /\ DOMAIN emitted' = DOMAIN emitted
    BY <1>10, EmittedDomain
    DEF LinkIdle, LinkAnswered, LinkUnanswered, NextLink, ShowDown, CommandFails, TypeInv, RouterInv
  <2> QED
    BY <1>1, <2>1, <2>2, <2>3, TypeMoves
<1>11. CASE Finish(c)
  <2>1. Moved(c, 0, held[c], turn[c])
    BY <1>4, <1>11 DEF Finish, Moved
  <2>2. held[c] = <<>> /\ turn[c] \in 0..Len(held[c])
    BY <1>1, <1>11 DEF Finish
  <2>3. RouterInv' /\ UNCHANGED collectors /\ past \subseteq past' /\ DOMAIN emitted' = DOMAIN emitted
    BY <1>11 DEF Finish, TypeInv, RouterInv
  <2> QED
    BY <1>1, <2>1, <2>2, <2>3, TypeMoves
<1>12. CASE Expire(c)
  <2>1. Moved(c, pc[c], held[c], turn[c])
    BY <1>4, <1>12 DEF Expire, Moved
  <2>2. turn[c] \in 0..Len(held[c]) /\ pc[c] \in 0..Len(Steps(c)) + 1
    BY <1>1
  <2>3. RouterInv' /\ UNCHANGED collectors /\ past' = past /\ DOMAIN emitted' = DOMAIN emitted
    BY <1>12 DEF Expire, TypeInv, RouterInv
  <2> QED
    BY <1>1, <2>1, <2>2, <2>3, TypeMoves
<1> QED
  BY <1>5, <1>6, <1>7, <1>8, <1>9, <1>10, <1>11, <1>12 DEF Collecting

LEMMA TypeStep == TypeInv /\ [Next]_collectVars => TypeInv'
<1> SUFFICES ASSUME TypeInv, [Next]_collectVars PROVE TypeInv'
  OBVIOUS
<1>1. CASE \E c \in DOMAIN collectors : Collecting(c)
  BY <1>1, TypeCollecting
<1>2. CASE RouterChanges
  <2>1. RouterInv'
    BY <1>2, CollectAssumption DEF RouterChanges, TypeInv, RouterInv
  <2>2. KeptInv'
    BY <1>2 DEF RouterChanges, TypeInv, KeptInv, Steps
  <2> QED
    BY <1>2, <2>1, <2>2 DEF RouterChanges, TypeInv, Registered, Places, Steps
<1>3. CASE NextScrape
  <2>1. \A c \in DOMAIN collectors :
          Len(Steps(c)) \in Nat /\ StartOf(c) \in {1, Len(Steps(c)) + 1} /\ held[c] = <<>>
    BY <1>3, StepFacts DEF NextScrape, StartOf, TypeInv, KeptInv
  <2>2. Registered' /\ RouterInv'
    BY <1>3, CollectAssumption DEF NextScrape, TypeInv, Registered, RouterInv
  <2>3. Places' /\ KeptInv'
    BY <1>3, <2>1 DEF NextScrape, TypeInv, Places, KeptInv, Steps
  <2> QED
    BY <2>2, <2>3 DEF TypeInv
<1>4. CASE UNCHANGED collectVars
  BY <1>4 DEF collectVars, TypeInv, Registered, Places, RouterInv, KeptInv, Steps
<1> QED
  BY <1>1, <1>2, <1>3, <1>4 DEF Next

\* A collector is never past its last step, and what it keeps is a table the
\* router held.
THEOREM TypeCorrect == Spec => []TypeOK
<1>1. TypeInv => TypeOK
  <2> SUFFICES ASSUME TypeInv, NEW c \in DOMAIN collectors
               PROVE  pc[c] \in 0..Len(Steps(c)) + 1 /\ turn[c] \in 0..Len(held[c])
    BY DEF TypeInv, TypeOK, Registered, RouterInv, Places, Kept
  <2> QED
    BY StepFacts, TableTypes DEF TypeInv, Places
<1> QED
  BY <1>1, TypeInit, TypeStep, PTL DEF Spec

-----------------------------------------------------------------------------
(* What a step sends                                                       *)

\* Samples of the metrics of one step, in some order of metrics and rows.
SamplesFrom(c, i, xs) ==
  \A p \in DOMAIN xs :
    /\ p[1] \in Nat /\ p[2] \in Nat /\ p = <<p[1], p[2]>>
    /\ \E k \in 1..Len(Steps(c)[i].emit) : xs[p].metric = Steps(c)[i].emit[k]

LEMMA WantedPlaces ==
  ASSUME NEW step, NEW t, Len(t) \in Nat
  PROVE  Wanted(step, t) \subseteq 1..Len(t) /\ Wanted(step, t) \subseteq Nat
<1>1. Wanted(step, t) \subseteq 1..Len(t)
  BY Zenon DEF Wanted
<1> QED
  BY <1>1

LEMMA SamplePlaces ==
  ASSUME NEW m, NEW t, NEW before, Len(t) \in Nat, Len(before) \in Nat, NEW step,
         NEW i \in DOMAIN Samples(m, t, Wanted(step, t), before)
  PROVE  i \in Nat /\ Samples(m, t, Wanted(step, t), before)[i].metric = m
<1> DEFINE wanted == Wanted(step, t)
<1>0. wanted \subseteq Nat
  BY WantedPlaces
<1> HIDE DEF wanted
<1>1. CASE m.from = "first"
  <2> DEFINE first == {j \in wanted : Has(m, t[j]) /\ \A k \in wanted : j <= k}
  <2>1. Samples(m, t, wanted, before) = [j \in first |-> Sample(m, <<m.tag>>, Value(m, t[j]))]
    BY <1>1 DEF Samples
  <2> QED
    BY <1>0, <2>1 DEF Sample, wanted
<1>2. CASE m.from = "reply"
  <2> DEFINE number == Cardinality({j \in wanted : m.tag \in t[j].protocols \cup {""}})
  <2>1. Samples(m, t, wanted, before) = [j \in {0} |-> Sample(m, <<m.tag>>, number)]
    BY <1>2 DEF Samples
  <2> HIDE DEF number
  <2>2. i = 0 /\ Samples(m, t, wanted, before)[i] = Sample(m, <<m.tag>>, number)
    BY <2>1 DEF wanted
  <2> QED
    BY <2>2 DEF Sample, wanted
<1>3. CASE m.from = "group"
  <2> DEFINE all == before \o t
             at == (1..Len(before)) \cup {Len(before) + k : k \in wanted}
             count(n) == Cardinality({j \in wanted : t[j].name = n})
  <2>1. Samples(m, t, wanted, before) =
          [j \in Firsts(all, at) |-> Sample(m, <<all[j].name>>, count(all[j].name))]
    BY <1>3 DEF Samples
  <2>2. at \subseteq Nat
    BY <1>0
  <2> HIDE DEF all, at, count
  <2>3. Firsts(all, at) \subseteq Nat
    BY <2>2 DEF Firsts
  <2> QED
    BY <2>1, <2>3 DEF Sample, wanted
<1>4. CASE m.from = "last"
  BY <1>0, <1>4 DEF Samples, Sample, Lasts, wanted
<1>5. CASE m.from \notin {"first", "reply", "group", "last"}
  <2> DEFINE shown == {j \in wanted : Has(m, t[j])}
  <2>1. Samples(m, t, wanted, before) =
          [j \in shown |-> Sample(m, RowLabels(m, t[j]), Value(m, t[j]))]
    BY <1>5 DEF Samples
  <2> QED
    BY <1>0, <2>1 DEF Sample, wanted
<1> QED
  BY <1>1, <1>2, <1>3, <1>4, <1>5

LEMMA EmissionPlaces ==
  ASSUME NEW step, NEW t, NEW before, NEW p \in DOMAIN Emissions(step, t, before)
  PROVE  LET k == p[1]
             samples == Samples(step.emit[k], t, Wanted(step, t), before)
         IN  /\ k \in DOMAIN step.emit /\ On(step.emit[k].when)
             /\ p[2] \in DOMAIN samples /\ p = <<k, p[2]>>
             /\ Emissions(step, t, before)[p] = samples[p[2]]
<1> DEFINE of == [k \in {k \in DOMAIN step.emit : On(step.emit[k].when)} |->
                    Samples(step.emit[k], t, Wanted(step, t), before)]
           all == UNION {{k} \X DOMAIN of[k] : k \in DOMAIN of}
<1>1. Emissions(step, t, before) = [q \in all |-> of[q[1]][q[2]]]
  BY DEF Emissions
<1> HIDE DEF all
<1>2. p \in all /\ Emissions(step, t, before)[p] = of[p[1]][p[2]]
  BY <1>1
<1>3. PICK k \in DOMAIN of : p \in {k} \X DOMAIN of[k]
  BY <1>2 DEF all
<1> HIDE DEF of
<1>4. p[1] = k /\ p[2] \in DOMAIN of[k] /\ p = <<k, p[2]>>
  BY <1>3
<1>5. k \in DOMAIN step.emit /\ On(step.emit[k].when)
      /\ of[k] = Samples(step.emit[k], t, Wanted(step, t), before)
  BY <1>3 DEF of
<1> QED
  BY <1>2, <1>4, <1>5

\* Sample x is among those of the step.
Emits(step, t, before, x) == \E p \in DOMAIN Emissions(step, t, before) : Emissions(step, t, before)[p] = x

LEMMA EmissionHas ==
  ASSUME NEW step, NEW t, NEW before, NEW k \in DOMAIN step.emit, On(step.emit[k].when),
         NEW i \in DOMAIN Samples(step.emit[k], t, Wanted(step, t), before)
  PROVE  Emits(step, t, before, Samples(step.emit[k], t, Wanted(step, t), before)[i])
<1> DEFINE of == [n \in {n \in DOMAIN step.emit : On(step.emit[n].when)} |->
                    Samples(step.emit[n], t, Wanted(step, t), before)]
           all == UNION {{n} \X DOMAIN of[n] : n \in DOMAIN of}
           p == <<k, i>>
<1>1. Emissions(step, t, before) = [q \in all |-> of[q[1]][q[2]]]
  BY DEF Emissions
<1>2. k \in DOMAIN of /\ of[k] = Samples(step.emit[k], t, Wanted(step, t), before)
  OBVIOUS
<1> HIDE DEF of
<1>3. p \in all /\ p[1] = k /\ p[2] = i
  BY <1>2
<1> HIDE DEF all, p
<1>4. p \in DOMAIN Emissions(step, t, before) /\ Emissions(step, t, before)[p] = of[k][i]
  BY <1>1, <1>3
<1> QED
  BY <1>2, <1>4 DEF Emits

LEMMA EmissionsFrom ==
  ASSUME TypeInv, NEW c \in DOMAIN collectors, NEW i \in 1..Len(Steps(c)),
         NEW t, NEW before, Len(t) \in Nat, Len(before) \in Nat
  PROVE  SamplesFrom(c, i, Emissions(Steps(c)[i], t, before))
<1> DEFINE step == Steps(c)[i]
<1>1. Len(step.emit) \in Nat /\ DOMAIN step.emit = 1..Len(step.emit)
  BY StepFacts DEF TypeInv, StepShape, MetricsShape
<1> SUFFICES ASSUME NEW p \in DOMAIN Emissions(step, t, before)
             PROVE  /\ p[1] \in Nat /\ p[2] \in Nat /\ p = <<p[1], p[2]>>
                    /\ \E k \in 1..Len(step.emit) :
                         Emissions(step, t, before)[p].metric = step.emit[k]
  BY DEF SamplesFrom
<1> HIDE DEF step
<1>2. /\ p[1] \in DOMAIN step.emit /\ p = <<p[1], p[2]>>
      /\ p[2] \in DOMAIN Samples(step.emit[p[1]], t, Wanted(step, t), before)
      /\ Emissions(step, t, before)[p] =
           Samples(step.emit[p[1]], t, Wanted(step, t), before)[p[2]]
  BY EmissionPlaces
<1> QED
  BY <1>1, <1>2, SamplePlaces

-----------------------------------------------------------------------------
(* No series twice                                                         *)

\* What is in the answer under a name of a collector went through its builder.
OwnedInv ==
  \A x \in answer : \A c \in DOMAIN collectors :
    PlaceOf(x.metric.family)[1] = c => Series(x) \in emitted[c]

UniqueInv == twice = {} /\ OwnedInv

LEMMA BuiltPlace ==
  ASSUME TypeInv, NEW c \in DOMAIN collectors, NEW i \in 1..Len(Steps(c)), NEW xs,
         SamplesFrom(c, i, xs), NEW p \in DOMAIN xs
  PROVE  /\ Series(xs[p])[1] = xs[p].metric.family
         /\ Built(xs[p].metric) => PlaceOf(xs[p].metric.family) = <<c, i>>
         /\ ~Built(xs[p].metric) => PlaceOf(xs[p].metric.family)[1] # c
<1>1. PICK k \in 1..Len(Steps(c)[i].emit) : xs[p].metric = Steps(c)[i].emit[k]
  BY DEF SamplesFrom
<1>2. MetricShape(xs[p].metric, c, i)
  BY <1>1, StepFacts DEF TypeInv, StepShape, MetricsShape
<1>3. c # ""
  BY DEF TypeInv, Registered, AllCollectors
<1>4. Nowhere[1] = "" /\ <<"kid_control", 1>>[1] = "kid_control"
  BY DEF Nowhere
<1>5. Built(xs[p].metric) => PlaceOf(xs[p].metric.family) = <<c, i>>
  BY <1>2 DEF MetricShape
<1>6. ~Built(xs[p].metric) => PlaceOf(xs[p].metric.family)[1] # c
  BY <1>2, <1>3, <1>4 DEF MetricShape
<1>7. Series(xs[p])[1] = xs[p].metric.family
  BY DEF Series
<1> QED
  BY <1>5, <1>6, <1>7

LEMMA UniqueEmit ==
  ASSUME TypeInv, UniqueInv, NEW c \in DOMAIN collectors, NEW i \in 1..Len(Steps(c)), NEW xs,
         SamplesFrom(c, i, xs), EmitAll(c, xs), UNCHANGED collectors
  PROVE  UniqueInv'
<1> DEFINE sent == {p \in Past(c, xs) : Built(xs[p].metric)}
<1>1. /\ emitted'[c] = emitted[c] \cup {Series(xs[p]) : p \in DOMAIN xs}
      /\ \A d \in DOMAIN collectors : emitted[d] \subseteq emitted'[d]
  BY DEF EmitAll, TypeInv, Places
<1>2. ASSUME NEW n \in sent
      PROVE  /\ \A x \in answer : Series(x) # Series(xs[n])
             /\ \A q \in sent : Before(q, n) => Series(xs[q]) # Series(xs[n])
  <2>1. n \in DOMAIN xs /\ PlaceOf(xs[n].metric.family) = <<c, i>>
    BY BuiltPlace DEF Past
  <2>2. Series(xs[n]) \notin emitted[c]
        /\ \A q \in DOMAIN xs : Before(q, n) => Series(xs[q]) # Series(xs[n])
    BY DEF Past, IsDuplicate
  <2>3. sent \subseteq DOMAIN xs
    BY DEF Past
  <2>4. ASSUME NEW x \in answer, Series(x) = Series(xs[n]) PROVE FALSE
    <3>1. x.metric.family = xs[n].metric.family
      BY <2>4 DEF Series
    <3>2. Series(x) \in emitted[c]
      BY <2>1, <3>1 DEF UniqueInv, OwnedInv
    <3> QED
      BY <2>2, <2>4, <3>2
  <2> QED
    BY <2>2, <2>3, <2>4
<1>3. twice' = {}
  BY <1>2 DEF EmitAll, UniqueInv
<1>4. OwnedInv'
  <2> SUFFICES ASSUME NEW x \in answer', NEW d \in DOMAIN collectors, PlaceOf(x.metric.family)[1] = d
               PROVE  Series(x) \in emitted'[d]
    BY DEF OwnedInv, Series
  <2>1. CASE x \in answer
    BY <2>1, <1>1 DEF UniqueInv, OwnedInv
  <2>2. CASE x \notin answer
    <3>1. PICK p \in sent : x = xs[p]
      BY <2>2 DEF EmitAll
    <3>2. p \in DOMAIN xs /\ PlaceOf(xs[p].metric.family) = <<c, i>>
      BY <3>1, BuiltPlace DEF Past
    <3> QED
      BY <1>1, <3>1, <3>2
  <2> QED
    BY <2>1, <2>2
<1> QED
  BY <1>3, <1>4 DEF UniqueInv

\* All but the state of the connection and of a link is made of the rows the
\* router has had in this scrape.
FromRows(c, xs) ==
  Step(c).how \notin {"tell", "each"} =>
    \E t \in past \cup {<<>>} : \E before :
      Len(t) \in Nat /\ Len(before) \in Nat /\ xs = Emissions(Step(c), t, before)

\* A collector puts samples of the step it is at into the answer.
Sends(c) ==
  \E xs : /\ pc[c] \in 1..Len(Steps(c))
          /\ SamplesFrom(c, pc[c], xs) /\ FromRows(c, xs) /\ EmitAll(c, xs)

LEMMA EmitSends ==
  ASSUME TypeInv, NEW c \in DOMAIN collectors, pc[c] \in 1..Len(Steps(c)),
         NEW S, NEW t \in Seq(S), NEW before \in Seq(S), Emit(c, Step(c), t, before),
         t \in past \cup {<<>>} \/ Step(c).how \in {"tell", "each"}
  PROVE  Sends(c)
<1>1. Len(t) \in Nat /\ Len(before) \in Nat
  BY ConcatProperties, LenProperties
<1>2. SamplesFrom(c, pc[c], Emissions(Step(c), t, before))
  BY <1>1, EmissionsFrom DEF Step
<1>3. EmitAll(c, Emissions(Step(c), t, before))
  BY DEF Emit
<1>4. FromRows(c, Emissions(Step(c), t, before))
  BY <1>1 DEF FromRows
<1> QED
  BY <1>2, <1>3, <1>4 DEF Sends

LEMMA ShowDownSends ==
  ASSUME TypeInv, NEW c \in DOMAIN collectors, At(c, {"each"}), ShowDown(c)
  PROVE  Sends(c)
<1> DEFINE xs == [p \in {<<1, 1>>} |-> Sample(Step(c).emit[1], <<Listed(c).name>>, 0)]
<1>1. /\ pc[c] \in 1..Len(Steps(c)) /\ Step(c).how = "each"
      /\ StepShape(c, Steps(c), pc[c])
  BY StepFacts DEF At, TypeInv
<1>2. 1 \in 1..Len(Step(c).emit)
  <2>1. Len(Step(c).emit) \in Nat /\ Len(Step(c).emit) > 0
    BY <1>1 DEF StepShape, MetricsShape, Step
  <2> QED
    BY <2>1
<1>3. SamplesFrom(c, pc[c], xs)
  BY <1>2 DEF SamplesFrom, Sample, Step
<1>4. EmitAll(c, xs)
  BY DEF ShowDown
<1>5. FromRows(c, xs)
  BY <1>1 DEF FromRows, Step
<1> QED
  BY <1>1, <1>3, <1>4, <1>5 DEF Sends

\* Every step leaves the builders alone, or sends samples of the step its
\* collector is at, or tells how long the collector took.
LEMMA WhatIsSent ==
  ASSUME TypeInv, NEW c \in DOMAIN collectors, Collecting(c)
  PROVE  UNCHANGED <<emitted, answer, twice>> \/ Sends(c) \/ Finish(c)
<1>1. <<>> \in Seq(Row) /\ table \in Seq(Row) /\ held[c] \in Seq(Row)
  BY TableTypes DEF TypeInv, RouterInv, Places, Kept
<1>2. CASE Answered(c)
  <2>1. pc[c] \in 1..Len(Steps(c))
    BY <1>2 DEF Answered, At
  <2>2. \E before \in Seq(Row) : Emit(c, Step(c), table, before)
    BY <1>1, <1>2 DEF Answered
  <2>3. table \in past
    BY DEF TypeInv, RouterInv
  <2> QED
    BY <1>1, <2>1, <2>2, <2>3, EmitSends
<1>3. CASE TellLink(c)
  <2>1. pc[c] \in 1..Len(Steps(c))
    BY <1>3 DEF TellLink, At
  <2> DEFINE row == [Blank EXCEPT !.state = IF link = "up" THEN "yes" ELSE "no"]
  <2>2. Emit(c, Step(c), <<row>>, <<>>)
    BY <1>3 DEF TellLink
  <2> HIDE DEF row
  <2>3. <<row>> \in Seq({row}) /\ <<>> \in Seq({row})
    OBVIOUS
  <2>4. Step(c).how = "tell"
    BY <1>3 DEF TellLink, At
  <2> QED
    BY <2>1, <2>2, <2>3, <2>4, EmitSends
<1>4. CASE ResolveCached(c) \/ ResolveFetched(c) \/ ResolveFails(c)
  <2>1. pc[c] \in 1..Len(Steps(c))
    BY <1>4 DEF ResolveCached, ResolveFetched, ResolveFails, At
  <2>2. Emit(c, Step(c), held[c], <<>>)
    BY <1>4 DEF ResolveCached, ResolveFetched, ResolveFails, ShowClients
  <2>3. held[c] \in past \cup {<<>>}
    BY DEF TypeInv, KeptInv
  <2> QED
    BY <1>1, <2>1, <2>2, <2>3, EmitSends
<1>5. CASE LinkIdle(c) \/ LinkUnanswered(c)
  BY <1>5, ShowDownSends DEF LinkIdle, LinkUnanswered
<1>6. CASE LinkAnswered(c)
  <2>1. CASE turn[c] + 1 <= Len(table)
    <3> DEFINE row == [table[turn[c] + 1] EXCEPT !.name = Listed(c).name]
    <3>4. Emit(c, Step(c), <<row>>, <<>>)
      BY <1>6, <2>1 DEF LinkAnswered
    <3> HIDE DEF row
    <3>3. <<row>> \in Seq({row}) /\ <<>> \in Seq({row})
      OBVIOUS
    <3>5. pc[c] \in 1..Len(Steps(c)) /\ Step(c).how = "each"
      BY <1>6 DEF LinkAnswered, At
    <3> QED
      BY <3>3, <3>4, <3>5, EmitSends
  <2>2. CASE ~(turn[c] + 1 <= Len(table))
    BY <1>6, <2>2, ShowDownSends DEF LinkAnswered
  <2> QED
    BY <2>1, <2>2
<1>7. CASE PassOver(c) \/ Unanswered(c) \/ LinksDone(c) \/ Expire(c)
  BY <1>7 DEF PassOver, Unanswered, LinksDone, Expire
<1> QED
  BY <1>2, <1>3, <1>4, <1>5, <1>6, <1>7 DEF Collecting

\* No collector changes what the router has, or which collectors there are.
LEMMA SameRouter ==
  ASSUME NEW c, Collecting(c)
  PROVE  UNCHANGED <<collectors, flags, table, changes, past>>
BY DEF Collecting, PassOver, Answered, Unanswered, TellLink, ShowClients, ResolveCached,
     ResolveFetched, ResolveFails, NextLink, LinkIdle, LinkAnswered, LinkUnanswered, LinksDone,
     Finish, Expire, Router

LEMMA SameCollectors == [Next]_collectVars => UNCHANGED <<collectors, flags>>
BY SameRouter DEF Next, RouterChanges, NextScrape, collectVars

LEMMA TimesInNoTable == PlaceOf("mktxp_collection_time_total")[1] \notin AllCollectors
<1>1. PlaceOf("mktxp_collection_time_total") = Nowhere
  BY DEF PlaceOf
<1>2. Nowhere[1] = "" /\ "" \notin AllCollectors
  BY DEF Nowhere, AllCollectors
<1> QED
  BY <1>1, <1>2

LEMMA TimeShown ==
  \A labels, value : LET x == Sample(CollectionTime, labels, value)
                     IN x.metric.family = "mktxp_collection_time_total" /\ ~OfRow(x.metric)
BY DEF Sample, CollectionTime, Of, Metric, OfRow

LEMMA UniqueStep == TypeInv /\ UniqueInv /\ [Next]_collectVars => UniqueInv'
<1> SUFFICES ASSUME TypeInv, UniqueInv, [Next]_collectVars PROVE UniqueInv'
  OBVIOUS
<1>1. UNCHANGED collectors
  BY SameCollectors
<1>2. CASE UNCHANGED <<emitted, answer, twice>>
  BY <1>1, <1>2 DEF UniqueInv, OwnedInv
<1>3. ASSUME NEW c \in DOMAIN collectors, Collecting(c) PROVE UniqueInv'
  <2>1. CASE Sends(c)
    BY <1>1, <2>1, UniqueEmit DEF Sends
  <2>2. CASE Finish(c)
    <3>1. PlaceOf("mktxp_collection_time_total")[1] \notin DOMAIN collectors
      BY TimesInNoTable DEF TypeInv, Registered
    <3>2. ASSUME NEW x \in answer' \ answer PROVE x.metric.family = "mktxp_collection_time_total"
      BY <2>2, TimeShown DEF Finish
    <3>3. twice' = twice /\ emitted' = emitted
      BY <2>2 DEF Finish
    <3>4. ASSUME NEW x \in answer', NEW d \in DOMAIN collectors, PlaceOf(x.metric.family)[1] = d
          PROVE  Series(x) \in emitted'[d]
      BY <3>1, <3>2, <3>3, <3>4 DEF UniqueInv, OwnedInv
    <3> QED
      BY <1>1, <3>3, <3>4 DEF UniqueInv, OwnedInv, Series
  <2> QED
    BY <1>2, <1>3, <2>1, <2>2, WhatIsSent
<1>4. CASE NextScrape
  BY <1>4 DEF NextScrape, UniqueInv, OwnedInv
<1>5. CASE RouterChanges \/ UNCHANGED collectVars
  BY <1>2, <1>5 DEF RouterChanges, collectVars
<1> QED
  BY <1>3, <1>4, <1>5 DEF Next

\* Whatever the tables hold and whichever collectors run together, no series is
\* in the answer twice, so the registry never refuses it.
THEOREM SeriesAlwaysUnique == Spec => []SeriesUnique
<1>1. Init => UniqueInv
  BY DEF Init, UniqueInv, OwnedInv
<1>2. UniqueInv => SeriesUnique
  BY DEF UniqueInv, SeriesUnique
<1> QED
  BY <1>1, <1>2, TypeInit, TypeStep, UniqueStep, PTL DEF Spec

-----------------------------------------------------------------------------
(* Readings are the router's                                               *)

\* What sample x tells is what the code reads in the row.
TellsOf(x, row) ==
  /\ Has(x.metric, row)
  /\ x.labels[1] = Label(x.metric, row)
  /\ x.value = Value(x.metric, row)

LEMMA ReadingSampled ==
  ASSUME NEW step, NEW t, NEW before, Len(t) \in Nat, Len(before) \in Nat,
         NEW p \in DOMAIN Emissions(step, t, before),
         OfRow(Emissions(step, t, before)[p].metric)
  PROVE  \E row \in Rows(t) : TellsOf(Emissions(step, t, before)[p], row)
<1> DEFINE wanted == Wanted(step, t)
           m == step.emit[p[1]]
           x == Emissions(step, t, before)[p]
<1>1. p[2] \in DOMAIN Samples(m, t, wanted, before) /\ x = Samples(m, t, wanted, before)[p[2]]
  BY EmissionPlaces
<1>2. x.metric = m
  BY <1>1, SamplePlaces
<1>3. m.from \in {"row", "client", "channel"}
  BY <1>2 DEF OfRow
<1>4. wanted \subseteq 1..Len(t)
  BY WantedPlaces
<1> HIDE DEF m, wanted, x
<1> DEFINE shown == {i \in wanted : Has(m, t[i])}
<1>5. Samples(m, t, wanted, before) =
        [i \in shown |-> Sample(m, RowLabels(m, t[i]), Value(m, t[i]))]
  BY <1>3 DEF Samples
<1>6. p[2] \in shown /\ x = Sample(m, RowLabels(m, t[p[2]]), Value(m, t[p[2]]))
  <2> HIDE DEF shown
  <2> QED
    BY <1>1, <1>5
<1>7. t[p[2]] \in Rows(t) /\ Has(m, t[p[2]])
  BY <1>4, <1>6 DEF Rows
<1>8. RowLabels(m, t[p[2]])[1] = Label(m, t[p[2]])
  BY <1>3 DEF RowLabels
<1>9. x.labels = RowLabels(m, t[p[2]]) /\ x.value = Value(m, t[p[2]])
  BY <1>6 DEF Sample
<1>10. TellsOf(x, t[p[2]])
  BY <1>2, <1>7, <1>8, <1>9 DEF TellsOf
<1> QED
  BY <1>7, <1>10 DEF x

\* What a step adds to the answer.
LEMMA NewInAnswer ==
  ASSUME TypeInv, NEW c \in DOMAIN collectors, NEW i \in 1..Len(Steps(c)), NEW xs,
         SamplesFrom(c, i, xs), EmitAll(c, xs), NEW x \in answer', x \notin answer
  PROVE  /\ \E p \in DOMAIN xs : x = xs[p]
         /\ \E k \in 1..Len(Steps(c)[i].emit) : x.metric = Steps(c)[i].emit[k]
         /\ PlaceOf(x.metric.family) = <<c, i>>
<1>1. PICK p \in DOMAIN xs : Built(xs[p].metric) /\ x = xs[p]
  BY DEF EmitAll, Past
<1>2. PICK k \in 1..Len(Steps(c)[i].emit) : xs[p].metric = Steps(c)[i].emit[k]
  BY DEF SamplesFrom
<1>3. MetricShape(xs[p].metric, c, i)
  BY <1>2, StepFacts DEF TypeInv, StepShape, MetricsShape
<1>4. PlaceOf(xs[p].metric.family) = <<c, i>>
  BY <1>1, <1>3 DEF MetricShape
<1> QED
  BY <1>1, <1>2, <1>4

IsReal(x) == OfRow(x.metric) => \E t \in past : \E row \in Rows(t) : TellsOf(x, row)

RealInv == \A x \in answer : IsReal(x)

LEMMA RealSent ==
  ASSUME TypeInv, RealInv, NEW c \in DOMAIN collectors, Sends(c), past' = past
  PROVE  RealInv'
<1>0. ASSUME NEW x PROVE IsReal(x)' <=> IsReal(x)
  BY DEF IsReal, TellsOf, Has, Label, Value, OfRow, Rows
<1> SUFFICES ASSUME NEW x \in answer' PROVE IsReal(x)
  BY <1>0 DEF RealInv
<1>1. CASE x \in answer
  BY <1>1 DEF RealInv
<1>2. CASE x \notin answer
  <2>1. PICK xs : /\ pc[c] \in 1..Len(Steps(c)) /\ SamplesFrom(c, pc[c], xs)
                  /\ FromRows(c, xs) /\ EmitAll(c, xs)
    BY DEF Sends
  <2>2. /\ \E p \in DOMAIN xs : x = xs[p]
        /\ \E k \in 1..Len(Step(c).emit) : x.metric = Step(c).emit[k]
    <3>1. /\ \E p \in DOMAIN xs : x = xs[p]
          /\ \E k \in 1..Len(Steps(c)[pc[c]].emit) : x.metric = Steps(c)[pc[c]].emit[k]
      <4>1. PICK i \in 1..Len(Steps(c)) : i = pc[c]
        BY <2>1
      <4>2. SamplesFrom(c, i, xs) /\ EmitAll(c, xs)
        BY <2>1, <4>1
      <4>3. /\ \E p \in DOMAIN xs : x = xs[p]
            /\ \E k \in 1..Len(Steps(c)[i].emit) : x.metric = Steps(c)[i].emit[k]
        BY <1>2, <4>2, NewInAnswer
      <4> QED
        BY <4>1, <4>3
    <3> QED
      BY <3>1 DEF Step
  <2> SUFFICES ASSUME OfRow(x.metric)
               PROVE  \E t \in past : \E row \in Rows(t) : TellsOf(x, row)
    BY DEF IsReal
  <2>3. Step(c).how \notin {"tell", "each"}
    <3>1. StepShape(c, Steps(c), pc[c])
      BY <2>1, StepFacts DEF TypeInv
    <3> QED
      BY <2>2, <3>1 DEF StepShape, OfNoRow, Step
  <2>4. PICK t \in past \cup {<<>>} : \E before :
          Len(t) \in Nat /\ Len(before) \in Nat /\ xs = Emissions(Step(c), t, before)
    BY <2>1, <2>3 DEF FromRows
  <2>5. PICK before : Len(t) \in Nat /\ Len(before) \in Nat /\ xs = Emissions(Step(c), t, before)
    BY <2>4
  <2>6. PICK row \in Rows(t) : TellsOf(x, row)
    BY <2>2, <2>5, ReadingSampled
  <2>7. t \in past
    <3>1. Rows(<<>>) = {}
      BY DEF Rows
    <3> QED
      BY <2>4, <2>6, <3>1
  <2> QED
    BY <2>6, <2>7
<1> QED
  BY <1>1, <1>2

LEMMA RealStep == TypeInv /\ RealInv /\ [Next]_collectVars => RealInv'
<1> SUFFICES ASSUME TypeInv, RealInv, [Next]_collectVars PROVE RealInv'
  OBVIOUS
<1>1. ASSUME past \subseteq past', \A x \in answer' : x \in answer \/ ~OfRow(x.metric)
      PROVE  RealInv'
  BY <1>1 DEF RealInv, IsReal
<1>2. ASSUME NEW c \in DOMAIN collectors, Collecting(c) PROVE RealInv'
  <2>1. past' = past
    BY <1>2, SameRouter
  <2>2. CASE Sends(c)
    BY <2>1, <2>2, RealSent
  <2>3. CASE Finish(c)
    BY <1>1, <2>1, <2>3, TimeShown DEF Finish
  <2>4. CASE UNCHANGED <<emitted, answer, twice>>
    BY <1>1, <2>1, <2>4
  <2> QED
    BY <1>2, <2>2, <2>3, <2>4, WhatIsSent
<1>3. CASE RouterChanges \/ NextScrape \/ UNCHANGED collectVars
  <2>1. (past \subseteq past' /\ answer' = answer) \/ answer' = {}
    BY <1>3 DEF RouterChanges, NextScrape, collectVars
  <2> QED
    BY <1>1, <2>1 DEF RealInv
<1> QED
  BY <1>2, <1>3 DEF Next

\* Whatever fails and whenever the tables change, what is told of a row is what
\* the code reads in a row the router has had since the scrape started.
THEOREM ReadingsAlwaysReal == Spec => []ReadingsAreReal
<1>1. Init => RealInv
  BY DEF Init, RealInv
<1>2. RealInv => ReadingsAreReal
  BY DEF RealInv, IsReal, TellsOf, ReadingsAreReal
<1> QED
  BY <1>1, <1>2, TypeInit, TypeStep, RealStep, PTL DEF Spec

-----------------------------------------------------------------------------
(* What was got is shown                                                   *)

LEMMA LeastOf ==
  ASSUME NEW W, W \subseteq Nat, W # {}
  PROVE  \E n \in W : \A k \in W : n <= k
<1> DEFINE Less == OpToRel(<, Nat)
<1>1. IsWellFoundedOn(Less, Nat)
  BY NatLessThanWellFounded
<1>2. PICK n \in W : \A k \in W : <<k, n>> \notin Less
  <2> HIDE DEF Less
  <2> QED
    BY <1>1, WFMin
<1>3. ASSUME NEW k \in W PROVE n <= k
  <2>1. k \in Nat /\ n \in Nat
    OBVIOUS
  <2>2. ~(k < n)
    BY <1>2, <2>1 DEF OpToRel
  <2> QED
    BY <2>1, <2>2
<1> QED
  BY <1>3

\* Of the places of some samples one comes before the others.
LEMMA FirstOf ==
  ASSUME NEW D, D # {}, \A p \in D : p[1] \in Nat /\ p[2] \in Nat
  PROVE  \E p \in D : \A q \in D : ~Before(q, p)
<1> DEFINE Metrics == {p[1] : p \in D}
<1>1. PICK k \in Metrics : \A n \in Metrics : k <= n
  <2>1. Metrics \subseteq Nat /\ Metrics # {}
    OBVIOUS
  <2> HIDE DEF Metrics
  <2> QED
    BY <2>1, LeastOf
<1> DEFINE Least == {p \in D : p[1] = k}
           Where == {p[2] : p \in Least}
<1>2. PICK i \in Where : \A n \in Where : i <= n
  <2>1. Where \subseteq Nat /\ Where # {}
    OBVIOUS
  <2> HIDE DEF Where
  <2> QED
    BY <2>1, LeastOf
<1>3. PICK p \in D : p[1] = k /\ p[2] = i
  OBVIOUS
<1>4. ASSUME NEW q \in D PROVE ~Before(q, p)
  <2>1. k <= q[1] /\ (q[1] = k => i <= q[2])
    BY <1>1, <1>2
  <2> QED
    BY <1>3, <2>1 DEF Before
<1> QED
  BY <1>4

\* What a builder has marked as emitted under a name of its collector is in the
\* answer.
ShownInv ==
  \A c \in DOMAIN collectors : \A s \in emitted[c] :
    PlaceOf(s[1])[1] = c => \E x \in answer : Series(x) = s

LEMMA ShownSent ==
  ASSUME TypeInv, ShownInv, NEW c \in DOMAIN collectors, NEW i \in 1..Len(Steps(c)), NEW xs,
         SamplesFrom(c, i, xs), EmitAll(c, xs), UNCHANGED collectors
  PROVE  ShownInv'
<1>1. /\ emitted' = [emitted EXCEPT ![c] = @ \cup {Series(xs[p]) : p \in DOMAIN xs}]
      /\ answer \subseteq answer'
  BY DEF EmitAll
<1> SUFFICES ASSUME NEW d \in DOMAIN collectors, NEW s \in emitted'[d], PlaceOf(s[1])[1] = d
             PROVE  \E x \in answer' : Series(x) = s
  BY DEF ShownInv, Series
<1>2. CASE s \in emitted[d]
  BY <1>1, <1>2 DEF ShownInv
<1>3. CASE s \notin emitted[d]
  <2> DEFINE same == {p \in DOMAIN xs : Series(xs[p]) = s}
  <2>1. d = c /\ same # {}
    BY <1>1, <1>3 DEF TypeInv, Places
  <2>2. PICK p \in same : \A q \in same : ~Before(q, p)
    <3>1. \A p \in same : p[1] \in Nat /\ p[2] \in Nat
      BY DEF SamplesFrom
    <3> HIDE DEF same
    <3> QED
      BY <2>1, <3>1, FirstOf
  <2>3. p \in Past(c, xs)
    BY <1>3, <2>1, <2>2 DEF Past, IsDuplicate
  <2>4. Built(xs[p].metric)
    BY <2>1, <2>2, BuiltPlace
  <2>5. xs[p] \in answer'
    BY <2>3, <2>4 DEF EmitAll
  <2> QED
    BY <2>2, <2>5
<1> QED
  BY <1>2, <1>3

LEMMA ShownStep == TypeInv /\ ShownInv /\ [Next]_collectVars => ShownInv'
<1> SUFFICES ASSUME TypeInv, ShownInv, [Next]_collectVars PROVE ShownInv'
  OBVIOUS
<1>1. UNCHANGED collectors
  BY SameCollectors
<1>2. CASE UNCHANGED <<emitted, answer, twice>>
  BY <1>1, <1>2 DEF ShownInv, Series
<1>3. ASSUME NEW c \in DOMAIN collectors, Collecting(c) PROVE ShownInv'
  <2>1. CASE Sends(c)
    BY <1>1, <2>1, ShownSent DEF Sends
  <2>2. CASE Finish(c)
    <3>1. answer \subseteq answer' /\ emitted' = emitted
      BY <2>2 DEF Finish
    <3> QED
      BY <1>1, <3>1 DEF ShownInv, Series
  <2> QED
    BY <1>2, <1>3, <2>1, <2>2, WhatIsSent
<1>4. CASE NextScrape
  BY <1>4 DEF NextScrape, ShownInv
<1>5. CASE RouterChanges \/ UNCHANGED collectVars
  BY <1>2, <1>5 DEF RouterChanges, collectVars
<1> QED
  BY <1>3, <1>4, <1>5 DEF Next

\* A reply is told of together with the samples of its rows.
LEMMA Replied ==
  ASSUME TypeInv, NEW c \in DOMAIN collectors, Collecting(c), replies' # replies
  PROVE  /\ pc[c] \in 1..Len(Steps(c))
         /\ \E t \in Seq(Row), before \in Seq(Row) :
              /\ Emit(c, Step(c), t, before)
              /\ replies' = replies \cup {[by |-> c, step |-> pc[c], rows |-> t]}
<1>1. <<>> \in Seq(Row) /\ table \in Seq(Row) /\ held[c] \in Seq(Row)
  BY TableTypes DEF TypeInv, RouterInv, Places, Kept
<1>2. \/ Answered(c) \/ ResolveCached(c) \/ ResolveFetched(c) \/ ResolveFails(c)
  BY DEF Collecting, PassOver, Unanswered, TellLink, NextLink, LinkIdle, LinkAnswered,
         LinkUnanswered, LinksDone, Finish, Expire
<1>3. pc[c] \in 1..Len(Steps(c))
  BY <1>2 DEF Answered, ResolveCached, ResolveFetched, ResolveFails, At
<1>4. CASE Answered(c)
  BY <1>1, <1>3, <1>4 DEF Answered
<1>5. CASE ResolveCached(c) \/ ResolveFetched(c) \/ ResolveFails(c)
  BY <1>1, <1>3, <1>5 DEF ResolveCached, ResolveFetched, ResolveFails, ShowClients
<1> QED
  BY <1>2, <1>4, <1>5

LEMMA RowShown ==
  ASSUME TypeInv, ShownInv', UNCHANGED <<collectors, flags>>,
         NEW c \in DOMAIN collectors, pc[c] \in 1..Len(Steps(c)),
         NEW t \in Seq(Row), NEW before \in Seq(Row), Emit(c, Step(c), t, before),
         NEW m \in Rows(Step(c).emit), WellLabelled(m), On(m.when),
         NEW i \in Wanted(Step(c), t), Has(m, t[i])
  PROVE  \E x \in answer' : Series(x) = <<m.family, <<Label(m, t[i])>>>>
<1> DEFINE xs == Emissions(Step(c), t, before)
           samples == Samples(m, t, Wanted(Step(c), t), before)
<1>1. PICK k \in 1..Len(Step(c).emit) : m = Step(c).emit[k]
  BY DEF Rows
<1>2. DOMAIN Step(c).emit = 1..Len(Step(c).emit) /\ MetricShape(m, c, pc[c])
  <2>1. StepShape(c, Steps(c), pc[c])
    BY StepFacts DEF TypeInv
  <2> QED
    BY <1>1, <2>1 DEF StepShape, MetricsShape, Step
<1>3. m.from \in {"row", "channel"} /\ Built(m) /\ PlaceOf(m.family)[1] = c
  BY <1>2 DEF WellLabelled, MetricShape
<1>4. i \in DOMAIN samples /\ samples[i] = Sample(m, <<Label(m, t[i])>>, Value(m, t[i]))
  <2> DEFINE wanted == Wanted(Step(c), t)
  <2> HIDE DEF wanted
  <2> DEFINE shown == {j \in wanted : Has(m, t[j])}
  <2>1. Samples(m, t, wanted, before) =
          [j \in shown |-> Sample(m, RowLabels(m, t[j]), Value(m, t[j]))]
    BY <1>3 DEF Samples
  <2>2. i \in shown
    BY DEF wanted
  <2>3. RowLabels(m, t[i]) = <<Label(m, t[i])>>
    BY <1>3 DEF RowLabels
  <2> HIDE DEF shown
  <2> QED
    BY <2>1, <2>2, <2>3 DEF wanted
<1>5. PICK p \in DOMAIN xs : xs[p] = samples[i]
  <2>1. k \in DOMAIN Step(c).emit /\ On(Step(c).emit[k].when)
    BY <1>1, <1>2
  <2>2. samples = Samples(Step(c).emit[k], t, Wanted(Step(c), t), before)
    BY <1>1
  <2>3. i \in DOMAIN Samples(Step(c).emit[k], t, Wanted(Step(c), t), before)
    BY <1>4, <2>2
  <2>4. Emits(Step(c), t, before, Samples(Step(c).emit[k], t, Wanted(Step(c), t), before)[i])
    BY <2>1, <2>3, EmissionHas
  <2>5. Emits(Step(c), t, before, samples[i])
    BY <2>2, <2>4
  <2> QED
    BY <2>5 DEF Emits
<1>6. EmitAll(c, xs)
  BY DEF Emit
<1> HIDE DEF xs, samples
<1>7. Series(xs[p]) = <<m.family, <<Label(m, t[i])>>>>
  BY <1>4, <1>5 DEF Series, Sample
<1>8. <<m.family, <<Label(m, t[i])>>>> \in emitted'[c]
  BY <1>5, <1>6, <1>7 DEF EmitAll, TypeInv, Places
<1> QED
  BY <1>3, <1>8 DEF ShownInv, Series

\* Every row a collector got and looks at is in the answer under the labels the
\* code gives it, with every metric whose column it has, whatever fails before or
\* after.
THEOREM RowsAlwaysReach == Spec => []RowsReachTheAnswer
<1>1. Init => ShownInv /\ RowsReachTheAnswer
  BY DEF Init, ShownInv, RowsReachTheAnswer
<1>2. TypeInv /\ RowsReachTheAnswer /\ ShownInv' /\ [Next]_collectVars => RowsReachTheAnswer'
  <2> SUFFICES ASSUME TypeInv, RowsReachTheAnswer, ShownInv', [Next]_collectVars
               PROVE  RowsReachTheAnswer'
    OBVIOUS
  <2>1. UNCHANGED <<collectors, flags>>
    BY SameCollectors
  <2>2. CASE NextScrape
    BY <2>2 DEF NextScrape, RowsReachTheAnswer
  <2>3. CASE ~NextScrape
    <3>1. answer \subseteq answer'
      <4>1. ASSUME NEW c \in DOMAIN collectors, Collecting(c) PROVE answer \subseteq answer'
        BY <4>1, WhatIsSent DEF Sends, EmitAll, Finish
      <4> QED
        BY <2>3, <4>1 DEF Next, RouterChanges, collectVars
    <3> SUFFICES ASSUME NEW r \in replies', NEW m \in Rows(Steps(r.by)[r.step].emit),
                        WellLabelled(m), On(m.when), NEW i \in Wanted(Steps(r.by)[r.step], r.rows),
                        Has(m, r.rows[i])
                 PROVE  \E x \in answer' : Series(x) = <<m.family, <<Label(m, r.rows[i])>>>>
      BY <2>1, Zenon DEF RowsReachTheAnswer, ShownInAnswer, Steps, On
    <3>2. CASE r \in replies
      BY <3>1, <3>2 DEF RowsReachTheAnswer, ShownInAnswer
    <3>3. CASE r \notin replies
      <4>1. PICK c \in DOMAIN collectors : Collecting(c)
        BY <2>3, <3>3 DEF Next, RouterChanges, collectVars
      <4>2. PICK t \in Seq(Row), before \in Seq(Row) :
              /\ Emit(c, Step(c), t, before)
              /\ replies' = replies \cup {[by |-> c, step |-> pc[c], rows |-> t]}
        BY <3>3, <4>1, Replied
      <4>3. r = [by |-> c, step |-> pc[c], rows |-> t] /\ pc[c] \in 1..Len(Steps(c))
        BY <3>3, <4>1, <4>2, Replied
      <4>4. Steps(r.by)[r.step] = Step(c) /\ r.rows = t
        BY <4>3 DEF Step
      <4>5. m \in Rows(Step(c).emit) /\ i \in Wanted(Step(c), t)
        BY <4>4
      <4>6. \E x \in answer' : Series(x) = <<m.family, <<Label(m, t[i])>>>>
        BY <2>1, <4>2, <4>3, <4>5, RowShown
      <4> QED
        BY <4>4, <4>6
    <3> QED
      BY <3>2, <3>3
  <2> QED
    BY <2>2, <2>3
<1> QED
  BY <1>1, <1>2, TypeInit, TypeStep, ShownStep, PTL DEF Spec

-----------------------------------------------------------------------------
(* Counts are whole                                                        *)

\* A command that failed is one its collector is past, or that of a link.
FailInv ==
  \A f \in failed : \E c \in DOMAIN collectors : \E j \in 1..Len(Steps(c)) :
    /\ f = <<c, j>>
    /\ pc[c] = 0 \/ j < pc[c] \/ (j = pc[c] /\ Steps(c)[j].how = "each")

\* The command of a step was answered.
Got(c, j) == <<c, j>> \notin failed /\ \E r \in replies : r.by = c /\ r.step = j

\* A step that counts or resolves what was kept is come to only when the step
\* before it was answered.
PairInv ==
  \A c \in DOMAIN collectors :
    pc[c] \in 1..Len(Steps(c)) /\ Steps(c)[pc[c]].how \in {"used", "resolve"} => Got(c, pc[c] - 1)

\* Every command of a step that is over was answered.
IsWhole(c, i) == (pc[c] = 0 \/ i < pc[c]) /\ \A j \in CountedFrom(c, i) : Got(c, j)

WholeInv ==
  \A x \in answer : \A c \in DOMAIN collectors : \A i \in 1..Len(Steps(c)) :
    PlaceOf(x.metric.family) = <<c, i>> /\ Steps(c)[i].how \notin {"tell", "each"} => IsWhole(c, i)

CountInv == FailInv /\ PairInv /\ WholeInv

LEMMA CountedBefore ==
  ASSUME TypeInv, NEW c \in DOMAIN collectors, NEW i \in 1..Len(Steps(c)), NEW j \in CountedFrom(c, i)
  PROVE  j \in Nat /\ j >= 1 /\ j <= i
<1>1. StepShape(c, Steps(c), i) /\ Len(Steps(c)) \in Nat
  BY StepFacts DEF TypeInv
<1>2. Steps(c)[i].how \in {"used", "resolve"} => i > 1
  BY <1>1 DEF StepShape
<1> QED
  BY <1>1, <1>2 DEF CountedFrom

\* A collector never goes back, and fails at the step it is at.
LEMMA Progress ==
  ASSUME TypeInv, NEW c \in DOMAIN collectors, Collecting(c)
  PROVE  /\ pc[c] \in Nat /\ pc[c] # 0
         /\ \A d \in DOMAIN collectors : d # c => pc'[d] = pc[d]
         /\ pc'[c] = 0 \/ pc'[c] >= pc[c]
         /\ \/ failed' = failed
            \/ /\ failed' = failed \cup {<<c, pc[c]>>}
               /\ pc[c] \in 1..Len(Steps(c))
               /\ pc'[c] > pc[c] \/ (pc'[c] = pc[c] /\ Step(c).how = "each")
         /\ replies \subseteq replies'
<1>1. /\ Len(Steps(c)) \in Nat /\ pc[c] \in Nat /\ pc \in [DOMAIN collectors -> Nat]
      /\ pc[c] \in 1..Len(Steps(c)) => Step(c).jump \in {1, 2}
  <2>1. pc[c] \in 1..Len(Steps(c)) => StepShape(c, Steps(c), pc[c])
    BY StepFacts DEF TypeInv
  <2> QED
    BY <2>1, StepFacts DEF TypeInv, Places, StepShape, Step
<1>2. CASE Finish(c)
  BY <1>1, <1>2 DEF Finish
<1>3. CASE LinkIdle(c) \/ LinkAnswered(c) \/ LinkUnanswered(c)
  BY <1>1, <1>3 DEF LinkIdle, LinkAnswered, LinkUnanswered, NextLink, CommandFails, At
<1>4. CASE PassOver(c) \/ Answered(c) \/ TellLink(c) \/ LinksDone(c) \/ Expire(c)
  <2>1. pc[c] \in 1..Len(Steps(c)) /\ failed' = failed /\ replies \subseteq replies'
    BY <1>4 DEF PassOver, Answered, TellLink, LinksDone, Expire, At
  <2>2. \/ pc' = [pc EXCEPT ![c] = @ + Step(c).jump] \/ pc' = [pc EXCEPT ![c] = @ + 1] \/ pc' = pc
    BY <1>4 DEF PassOver, Answered, TellLink, LinksDone, Expire, Go
  <2> QED
    BY <1>1, <2>1, <2>2
<1>5. CASE ResolveCached(c) \/ ResolveFetched(c) \/ ResolveFails(c)
  BY <1>1, <1>5 DEF ResolveCached, ResolveFetched, ResolveFails, ShowClients, CommandFails, At, Go
<1>6. CASE Unanswered(c)
  BY <1>1, <1>6 DEF Unanswered, CommandFails, At, Go, Return
<1> QED
  BY <1>2, <1>3, <1>4, <1>5, <1>6 DEF Collecting

\* Where the steps of a collector lead.
LEMMA Moves ==
  ASSUME TypeInv, NEW c \in DOMAIN collectors, Collecting(c)
  PROVE  \/ pc'[c] \in {pc[c], 0, Len(Steps(c)) + 1}
         \/ Answered(c) /\ pc'[c] = pc[c] + 1 /\ failed' = failed
         \/ /\ pc[c] \in 1..Len(Steps(c))
            /\ \/ pc'[c] = pc[c] + Step(c).jump
               \/ Step(c).how \in {"tell", "resolve", "each"} /\ pc'[c] = pc[c] + 1
<1>1. pc \in [DOMAIN collectors -> Nat]
  BY DEF TypeInv, Places
<1>2. CASE Finish(c) \/ Expire(c) \/ LinkIdle(c) \/ LinkAnswered(c) \/ LinkUnanswered(c)
  BY <1>1, <1>2 DEF Finish, Expire, LinkIdle, LinkAnswered, LinkUnanswered, NextLink
<1>3. CASE Answered(c)
  BY <1>1, <1>3 DEF Answered, Go
<1>4. CASE TellLink(c) \/ LinksDone(c) \/ ResolveCached(c) \/ ResolveFetched(c) \/ ResolveFails(c)
  BY <1>1, <1>4 DEF TellLink, LinksDone, ResolveCached, ResolveFetched, ResolveFails, ShowClients, At, Go
<1>5. CASE PassOver(c) \/ Unanswered(c)
  BY <1>1, <1>5 DEF PassOver, Unanswered, At, Go, Return
<1> QED
  BY <1>2, <1>3, <1>4, <1>5 DEF Collecting

LEMMA FailStep ==
  ASSUME TypeInv, FailInv, NEW c \in DOMAIN collectors, Collecting(c), UNCHANGED collectors
  PROVE  FailInv'
<1> SUFFICES ASSUME NEW f \in failed'
             PROVE  \E d \in DOMAIN collectors : \E j \in 1..Len(Steps(d)) :
                      /\ f = <<d, j>>
                      /\ pc'[d] = 0 \/ j < pc'[d] \/ (j = pc'[d] /\ Steps(d)[j].how = "each")
  BY DEF FailInv, Steps
<1>1. \A d \in DOMAIN collectors : pc[d] \in Nat /\ Len(Steps(d)) \in Nat
  BY StepFacts DEF TypeInv, Places
<1>2. pc'[c] \in Nat
  BY <1>1, TypeCollecting DEF TypeInv, Places
<1>3. CASE f \in failed
  <2>0. PICK d \in DOMAIN collectors : \E j \in 1..Len(Steps(d)) :
          /\ f = <<d, j>>
          /\ pc[d] = 0 \/ j < pc[d] \/ (j = pc[d] /\ Steps(d)[j].how = "each")
    BY <1>3 DEF FailInv
  <2>1. PICK j \in 1..Len(Steps(d)) :
          /\ f = <<d, j>>
          /\ pc[d] = 0 \/ j < pc[d] \/ (j = pc[d] /\ Steps(d)[j].how = "each")
    BY <2>0
  <2>2. CASE d # c
    BY <2>1, <2>2, Progress
  <2>3. CASE d = c
    BY <1>1, <1>2, <2>1, <2>3, Progress
  <2> QED
    BY <2>2, <2>3
<1>4. CASE f \notin failed
  <2>1. f = <<c, pc[c]>> /\ pc[c] \in 1..Len(Steps(c))
        /\ (pc'[c] > pc[c] \/ (pc'[c] = pc[c] /\ Step(c).how = "each"))
    BY <1>4, Progress
  <2> QED
    BY <1>1, <1>2, <2>1 DEF Step
<1> QED
  BY <1>3, <1>4

\* What was answered stays so, of the steps a collector is past.
LEMMA StaysGot ==
  ASSUME TypeInv, NEW c \in DOMAIN collectors, Collecting(c), NEW d \in DOMAIN collectors,
         NEW j, Got(d, j), d # c \/ j # pc[c] \/ failed' = failed
  PROVE  Got(d, j)'
<1>1. <<d, j>> \notin failed'
  BY Progress DEF Got
<1>2. replies \subseteq replies'
  BY Progress
<1> QED
  BY <1>1, <1>2 DEF Got

LEMMA PairStep ==
  ASSUME TypeInv, FailInv, PairInv, NEW c \in DOMAIN collectors, Collecting(c), UNCHANGED collectors
  PROVE  PairInv'
<1> SUFFICES ASSUME NEW d \in DOMAIN collectors, NEW i \in 1..Len(Steps(d)), pc'[d] = i,
                    Steps(d)[i].how \in {"used", "resolve"}
             PROVE  Got(d, i - 1)'
  BY DEF PairInv, Steps, Got
<1>1. /\ Len(Steps(d)) \in Nat /\ pc[d] \in Nat /\ pc[c] \in Nat /\ i \in Nat
      /\ \A k \in 1..Len(Steps(d)) : StepShape(d, Steps(d), k)
  <2>1. Len(Steps(d)) \in Nat /\ \A k \in 1..Len(Steps(d)) : StepShape(d, Steps(d), k)
    BY StepFacts DEF TypeInv
  <2>2. pc[d] \in Nat /\ pc[c] \in Nat
    BY DEF TypeInv, Places
  <2> QED
    BY <2>1, <2>2
<1>2. CASE i = pc[d]
  <2>1. Got(d, i - 1)
    BY <1>2 DEF PairInv
  <2>2. d = c => i - 1 # pc[c]
    BY <1>1, <1>2
  <2> QED
    BY <1>2, <2>1, <2>2, StaysGot
<1>3. CASE i # pc[d]
  <2>1. d = c
    BY <1>3, Progress
  <2>2. /\ i > 1 /\ i \in Nat /\ i <= Len(Steps(c))
        /\ Steps(c)[i - 1].how = "run" /\ Steps(c)[i - 1].jump = 2
        /\ i > 2 => Steps(c)[i - 2].jump = 1
    BY <1>1, <2>1 DEF StepShape
  <2>3. CASE Answered(c) /\ i = pc[c] + 1 /\ failed' = failed
    <3>1. pc[c] \in 1..Len(Steps(c)) /\ i - 1 = pc[c] /\ Steps(c)[pc[c]].how = "run"
      BY <1>1, <2>2, <2>3 DEF Answered, At
    <3>2. <<c, pc[c]>> \notin failed
      BY <1>1, <2>1, <3>1 DEF FailInv
    <3>3. [by |-> c, step |-> pc[c], rows |-> table] \in replies'
      BY <2>3 DEF Answered
    <3> QED
      BY <2>1, <2>3, <3>1, <3>2, <3>3 DEF Got
  <2>4. CASE pc[c] \in 1..Len(Steps(c)) /\ i = pc[c] + Step(c).jump
    <3>1. Step(c).jump \in {1, 2}
      BY <1>1, <2>1, <2>4 DEF StepShape, Step
    <3>2. CASE Step(c).jump = 1
      <4>1. i - 1 = pc[c]
        BY <1>1, <2>4, <3>2
      <4> QED
        BY <2>2, <3>2, <4>1 DEF Step
    <3>3. CASE Step(c).jump = 2
      <4>1. i - 2 = pc[c] /\ i > 2
        BY <1>1, <2>4, <3>3
      <4> QED
        BY <2>2, <3>3, <4>1 DEF Step
    <3> QED
      BY <3>1, <3>2, <3>3
  <2>5. CASE Step(c).how \in {"tell", "resolve", "each"} /\ i = pc[c] + 1
    <3>1. i - 1 = pc[c]
      BY <1>1, <2>5
    <3> QED
      BY <2>2, <2>5, <3>1 DEF Step
  <2>6. i \notin {pc[c], 0, Len(Steps(c)) + 1}
    BY <1>1, <1>3, <2>1, <2>2
  <2> QED
    BY <2>1, <2>3, <2>4, <2>5, <2>6, Moves
<1> QED
  BY <1>2, <1>3

\* But for what is told of the connection and of a link, only an answered step,
\* or one that resolves, sends samples.
LEMMA CountSent ==
  ASSUME TypeInv, NEW c \in DOMAIN collectors, Collecting(c), NEW x \in answer', x \notin answer,
         NEW d \in DOMAIN collectors, NEW i \in 1..Len(Steps(d)), PlaceOf(x.metric.family) = <<d, i>>,
         Steps(d)[i].how \notin {"tell", "each"}
  PROVE  /\ d = c /\ i = pc[c]
         /\ Answered(c) \/ ResolveCached(c) \/ ResolveFetched(c) \/ ResolveFails(c)
<1>1. ~Finish(c)
  <2>1. d \in AllCollectors /\ PlaceOf(x.metric.family)[1] = d
    BY DEF TypeInv, Registered
  <2> QED
    BY <2>1, TimesInNoTable, TimeShown DEF Finish
<1>2. Sends(c)
  BY <1>1, WhatIsSent
<1>3. pc[c] \in 1..Len(Steps(c)) /\ PlaceOf(x.metric.family) = <<c, pc[c]>>
  BY <1>2, NewInAnswer DEF Sends
<1>4. d = c /\ i = pc[c]
  BY <1>3
<1>5. /\ ~PassOver(c) /\ ~Unanswered(c) /\ ~LinksDone(c) /\ ~Expire(c)
      /\ ~TellLink(c) /\ ~LinkIdle(c) /\ ~LinkAnswered(c) /\ ~LinkUnanswered(c)
  BY <1>4 DEF PassOver, Unanswered, LinksDone, Expire, TellLink, LinkIdle, LinkAnswered,
              LinkUnanswered, At, Step
<1> QED
  BY <1>1, <1>4, <1>5 DEF Collecting

LEMMA SameCount ==
  ASSUME UNCHANGED collectors, NEW c, NEW i
  PROVE  CountedFrom(c, i)' = CountedFrom(c, i)
<1>1. Steps(c)' = Steps(c)
  BY DEF Steps
<1> QED
  BY <1>1, Zenon DEF CountedFrom

LEMMA WholeStep ==
  ASSUME TypeInv, FailInv, PairInv, WholeInv, NEW c \in DOMAIN collectors, Collecting(c),
         UNCHANGED collectors
  PROVE  WholeInv'
<1> SUFFICES ASSUME NEW x \in answer', NEW d \in DOMAIN collectors, NEW i \in 1..Len(Steps(d)),
                    PlaceOf(x.metric.family) = <<d, i>>, Steps(d)[i].how \notin {"tell", "each"}
             PROVE  IsWhole(d, i)'
  BY DEF WholeInv, Steps
<1>1. CASE x \in answer
  <2>2. IsWhole(d, i)
    BY <1>1 DEF WholeInv
  <2>3. /\ pc[c] \in Nat /\ pc[d] \in Nat /\ pc'[d] \in Nat /\ Len(Steps(d)) \in Nat
    BY TypeCollecting, StepFacts DEF TypeInv, Places
  <2>4. pc'[d] = 0 \/ i < pc'[d]
    BY <2>2, <2>3, Progress DEF IsWhole
  <2>5. ASSUME NEW j \in CountedFrom(d, i) PROVE Got(d, j)'
    <3>1. Got(d, j) /\ j \in Nat /\ j <= i
      BY <2>2, <2>5, CountedBefore DEF IsWhole
    <3>2. d # c \/ j # pc[c]
      BY <2>2, <2>3, <3>1, Progress DEF IsWhole
    <3> QED
      BY <3>1, <3>2, StaysGot
  <2>6. CountedFrom(d, i)' = CountedFrom(d, i)
    BY SameCount
  <2>7. \A j \in CountedFrom(d, i)' : Got(d, j)'
    BY <2>5, <2>6
  <2> QED
    BY <2>4, <2>7 DEF IsWhole
<1>2. CASE x \notin answer
  <2>0. d = c /\ i = pc[c]
    BY <1>2, CountSent
  <2>1. Answered(c) \/ ResolveCached(c) \/ ResolveFetched(c) \/ ResolveFails(c)
    BY <1>2, CountSent
  <2>2. Len(Steps(c)) \in Nat /\ pc[c] \in Nat /\ pc \in [DOMAIN collectors -> Nat]
    BY StepFacts DEF TypeInv, Places
  <2>3. i < pc'[c]
    BY <2>0, <2>1, <2>2 DEF Answered, ResolveCached, ResolveFetched, ResolveFails, ShowClients, Go
  <2>4. CountedFrom(c, i)' = CountedFrom(c, i)
    BY SameCount
  <2>5. ASSUME NEW j \in CountedFrom(c, i) PROVE Got(c, j)'
    <3>1. CASE j # i
      <4>1. Steps(c)[i].how \in {"used", "resolve"} /\ j = i - 1
        BY <2>5, <3>1 DEF CountedFrom
      <4>2. Got(c, j)
        BY <2>0, <2>1, <4>1 DEF PairInv
      <4> QED
        BY <2>0, <3>1, <4>2, StaysGot
    <3>2. CASE j = i
      <4>1. Steps(c)[i].how # "resolve"
        BY <2>2, <2>5, <3>2 DEF CountedFrom
      <4>2. Answered(c) /\ Steps(c)[i].how # "each"
        BY <2>0, <2>1, <4>1 DEF ResolveCached, ResolveFetched, ResolveFails, Answered, At, Step
      <4>3. <<c, j>> \notin failed
        BY <2>0, <2>2, <3>2, <4>2 DEF FailInv
      <4>4. [by |-> c, step |-> j, rows |-> table] \in replies' /\ failed' = failed
        BY <2>0, <3>2, <4>2 DEF Answered
      <4> QED
        BY <4>3, <4>4 DEF Got
    <3> QED
      BY <3>1, <3>2
  <2>6. \A j \in CountedFrom(c, i)' : Got(c, j)'
    BY <2>4, <2>5
  <2> QED
    BY <2>0, <2>3, <2>6 DEF IsWhole
<1> QED
  BY <1>1, <1>2

LEMMA CountStep == TypeInv /\ CountInv /\ [Next]_collectVars => CountInv'
<1> SUFFICES ASSUME TypeInv, CountInv, [Next]_collectVars PROVE CountInv'
  OBVIOUS
<1>1. UNCHANGED collectors
  BY SameCollectors
<1>2. CASE \E c \in DOMAIN collectors : Collecting(c)
  BY <1>1, <1>2, FailStep, PairStep, WholeStep DEF CountInv
<1>3. CASE NextScrape
  <2>1. failed' = {} /\ answer' = {} /\ pc' = [c \in DOMAIN collectors |-> StartOf(c)]
    BY <1>3 DEF NextScrape
  <2>2. ASSUME NEW c \in DOMAIN collectors, NEW i \in 1..Len(Steps(c)), pc'[c] = i,
               Steps(c)[i].how \in {"used", "resolve"}
        PROVE  FALSE
    <3>1. Len(Steps(c)) \in Nat /\ StepShape(c, Steps(c), i)
      BY StepFacts DEF TypeInv
    <3>2. i = 1
      BY <2>1, <2>2, <3>1 DEF StartOf
    <3> QED
      BY <2>2, <3>1, <3>2 DEF StepShape
  <2>3. FailInv' /\ WholeInv'
    BY <2>1 DEF FailInv, WholeInv
  <2>4. PairInv'
    BY <1>1, <2>2 DEF PairInv, Steps
  <2> QED
    BY <2>3, <2>4 DEF CountInv
<1>4. CASE RouterChanges \/ UNCHANGED collectVars
  <2>1. UNCHANGED <<collectors, pc, failed, replies, answer>>
    BY <1>4 DEF RouterChanges, collectVars
  <2>2. \A c, i : CountedFrom(c, i)' = CountedFrom(c, i) /\ (Got(c, i)' <=> Got(c, i))
    BY <2>1, SameCount DEF Got
  <2>3. FailInv' /\ PairInv'
    BY <2>1 DEF CountInv, FailInv, PairInv, Steps, Got
  <2>4. \A c, i : IsWhole(c, i)' <=> IsWhole(c, i)
    BY <2>1, <2>2 DEF IsWhole
  <2>5. WholeInv'
    BY <2>1, <2>4 DEF CountInv, WholeInv, Steps
  <2> QED
    BY <2>3, <2>5 DEF CountInv
<1> QED
  BY <1>2, <1>3, <1>4 DEF Next

\* A number of things is in the answer only if every command it was counted from
\* was answered: neither a list cut off nor half of a pair gives one.
THEOREM CountsAlwaysWhole == Spec => []CountsAreWhole
<1>1. Init => CountInv
  <2> SUFFICES ASSUME Init PROVE CountInv
    OBVIOUS
  <2>1. failed = {} /\ answer = {} /\ pc = [c \in DOMAIN collectors |-> StartOf(c)]
    BY DEF Init
  <2>2. ASSUME NEW c \in DOMAIN collectors, pc[c] \in 1..Len(Steps(c)),
               Steps(c)[pc[c]].how \in {"used", "resolve"}
        PROVE  FALSE
    <3>1. Len(Steps(c)) \in Nat /\ StepShape(c, Steps(c), pc[c])
      BY TypeInit, StepFacts, <2>2 DEF TypeInv
    <3>2. pc[c] = 1
      BY <2>1, <2>2, <3>1 DEF StartOf
    <3> QED
      BY <2>2, <3>1, <3>2 DEF StepShape
  <2> QED
    BY <2>1, <2>2 DEF CountInv, FailInv, PairInv, WholeInv
<1>2. ASSUME TypeInv, CountInv PROVE CountsAreWhole
  <2> SUFFICES ASSUME NEW c \in DOMAIN collectors, NEW i \in 1..Len(Steps(c)),
                      NEW m \in Rows(Steps(c)[i].emit), m.value = "count",
                      NEW x \in answer, x.metric.family = m.family
               PROVE  \A j \in CountedFrom(c, i) : Got(c, j)
    BY DEF CountsAreWhole, Got
  <2>1. PICK k \in 1..Len(Steps(c)[i].emit) : m = Steps(c)[i].emit[k]
    BY DEF Rows
  <2>2. StepShape(c, Steps(c), i)
    BY <1>2, StepFacts DEF TypeInv
  <2>3. PlaceOf(m.family) = <<c, i>>
    BY <2>1, <2>2 DEF StepShape, MetricsShape, MetricShape
  <2>4. Steps(c)[i].how \notin {"tell", "each"}
    BY <2>1, <2>2 DEF StepShape, OfNoRow
  <2> QED
    BY <1>2, <2>3, <2>4 DEF CountInv, WholeInv, IsWhole
<1> QED
  BY <1>1, <1>2, TypeInit, TypeStep, CountStep, PTL DEF Spec

=============================================================================
