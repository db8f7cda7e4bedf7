-------------------------- MODULE MCPlacementReuse --------------------------
(***************************************************************************)
(* Two nodes with two constrained resources, one of which must be observed *)
(* more often than the other; half-second ticks.                           *)
(***************************************************************************)
EXTENDS PlacementReuse, TLC

Small ==
  [safe |-> 10, technical |-> 12, confidence |-> 1, limit |-> <<10, 4>>, maxAge |-> <<1, 2>>,
   accepts |-> <<{"measured"}, {"measured", "estimated"}>>]
Large == [Small EXCEPT !.safe = 20, !.technical = 25, !.confidence = 2, !.limit = <<10, 5>>]
Unsure == [Small EXCEPT !.confidence = 0]
MCProfiles == {Small, Large, Unsure}

Calm ==
  [healthy |-> TRUE, load |-> 4, value |-> <<3, 1>>, lag |-> <<1, 0>>,
   kind |-> <<"measured", "measured">>]
Busy == [Calm EXCEPT !.load = 8, !.value = <<10, 4>>]
Overloaded == [Calm EXCEPT !.value = <<3, 5>>]
Estimated == [Calm EXCEPT !.kind = <<"measured", "estimated">>]
Unhealthy == [Calm EXCEPT !.healthy = FALSE]
MCReports == {Calm, Busy, Overloaded, Estimated, Unhealthy}

Request(failures, reserve) ==
  [increment |-> 2, failureReserve |-> failures, minimumReserve |-> reserve]
MCRequests == {Request(0, 0), Request(1, 40)}

World(r, p1, r1, p2, r2) == [request |-> r, profile |-> <<p1, p2>>, report |-> <<r1, r2>>]
MCWorlds ==
  {World(Request(1, 40), Small, Calm, Large, Calm), World(Request(0, 0), Small, Busy, Large, Calm),
   World(Request(0, 0), Large, Unhealthy, Small, Calm)}
=============================================================================
