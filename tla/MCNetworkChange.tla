--------------------------- MODULE MCNetworkChange --------------------------
(***************************************************************************)
(* Two valid plans, one of which changes an interface beside the           *)
(* management path, and requests that BuildChangePlan must refuse.         *)
(***************************************************************************)
EXTENDS NetworkChange, TLC

Timeouts == [snapshot |-> 1, preflight |-> 1, applyWindow |-> 2, probe |-> 1, rollback |-> 1]

Probe(kind, interface, zone) == [kind |-> kind, interface |-> interface, zone |-> zone]
Interface(zone, changed) == [zone |-> zone, changed |-> changed]

LocalPlan ==
  [interfaces |-> "lan0" :> Interface("LAN", TRUE), forwarding |-> {},
   probes |-> "p1" :> Probe("control_plane", "lan0", "LAN"), timeouts |-> Timeouts]

GatewayPlan ==
  [interfaces |-> ("mgmt0" :> Interface("MANAGEMENT", FALSE))
                  @@ ("wan0" :> Interface("WAN", TRUE)),
   forwarding |-> {[source |-> "MANAGEMENT", destination |-> "WAN",
                    enabled |-> TRUE, edgeGateway |-> TRUE]},
   probes |-> ("p1" :> Probe("control_plane", "mgmt0", "MANAGEMENT"))
              @@ ("p2" :> Probe("zone_reachability", "wan0", "WAN")),
   timeouts |-> Timeouts]

MCRequests ==
  {LocalPlan, GatewayPlan,
   [GatewayPlan EXCEPT !.probes = "p1" :> Probe("control_plane", "mgmt0", "MANAGEMENT")],
   [LocalPlan EXCEPT !.probes = "p1" :> Probe("link_state", "lan0", "LAN")],
   [GatewayPlan EXCEPT !.forwarding = {[source |-> "WAN", destination |-> "MANAGEMENT",
                                        enabled |-> TRUE, edgeGateway |-> FALSE]}],
   [LocalPlan EXCEPT !.timeouts.probe = 3]}
=============================================================================
