--------------------------- MODULE MCRestoreDrill ---------------------------
(* Two drills over one recovery point with an incremental and a snapshot   *)
(* backup, whose full parent belongs to an older point. The recorders of   *)
(* health, objectives and projections do not read each other's records:    *)
(* OneRecorder stops exploring a behaviour in which two of them have acted. *)
EXTENDS RestoreDrill

MCDrills == {"r1", "r2"}
MCLowerId(a, b) == a = "r1" /\ b = "r2"
MCCovers == [d \in MCDrills |-> IF d = "r1" THEN {"b1", "b2"} ELSE {"b1"}]

Recorders ==
  {k \in {"health", "objective", "stored"} :
     \/ k = "health" /\ \E b \in DOMAIN backup : backup[b].health.state # "UNVERIFIED"
     \/ k = "objective" /\ objective # None
     \/ k = "stored" /\ stored # None}

OneRecorder == Cardinality(Recorders) <= 1

=============================================================================
