--------------------------- MODULE MCChangeServer ---------------------------
(* An instance of ChangeServer for TLC.                                    *)
EXTENDS ChangeServer, TLC

CONSTANTS c1, c2, operator, admin, auditor

MCActors == {operator, admin, auditor}
MCRequester == [c \in {c1, c2} |-> operator]

(* c1 needs the approvals of two other people, c2 runs without approval.   *)
MCRequired == (c1 :> 2) @@ (c2 :> 0)
MCInput == [c \in {c1, c2} |-> "canonical"]
=============================================================================
