-------------------------- MODULE MCPendingApproval --------------------------
(* Three approvers, two of whom can sign, and two approvals asked for. *)
EXTENDS PendingApproval

CONSTANTS p1, p2, p3

MCApprover == {p1, p2, p3}
MCSpender == {p1, p2}
MCKinds == Kind
==============================================================================
