---------------------------- MODULE ExecuteStoreMC ----------------------------
(* An instance for TLC.                                                     *)
EXTENDS ExecuteStore, TLC

CONSTANTS t1, t2, k1, k2, x1, x2

MCRows ==
    [operators |-> {"o1"}, roles |-> {"r1"}, permissions |-> {},
     role_permissions |-> {}, operator_roles |-> {"g1"},
     proposals |-> {"p1"}, auth_tokens |-> {k1, k2},
     approvals |-> {"a1"}, tx_attempts |-> {x1, x2}]

MCValues ==
    [subject |-> {"alice"}, name |-> {"approver"}, proposal_id |-> {"id"},
     proposal_hash |-> {"h"}, consumed_at |-> {"consumed"}, tx_hash |-> {"0x"}]

Symmetry == Permutations({t1, t2}) \cup Permutations({k1, k2}) \cup Permutations({x1, x2})
=============================================================================
