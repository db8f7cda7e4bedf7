---------------------------- MODULE MCOfflineSite ----------------------------
(***************************************************************************)
(* Two users ask for the same intent; a snapshot that delegates the        *)
(* operation for one tick and one that delegates another for longer.       *)
(***************************************************************************)
EXTENDS OfflineSite

RestartRequest(id) ==
  [id |-> id, site |-> "site1", scope |-> "scope1", class |-> "job",
   action |-> "restart", digest |-> "A"]

MCRequests == {RestartRequest(1), RestartRequest(2)}

Snapshot(expiry, actions) ==
  [site |-> "site1", scope |-> "scope1", from |-> 1, until |-> expiry,
   delegations |-> {[scope |-> "scope1", class |-> "job", action |-> a] :
                      a \in actions}]

MCPolicies == {Snapshot(2, {"restart"}), Snapshot(3, {"inspect"})}
=============================================================================
