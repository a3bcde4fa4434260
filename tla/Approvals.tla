-------------------------------- MODULE Approvals --------------------------------
(***************************************************************************)
(* The two approval systems of the console side by side: resolveApproval   *)
(* routes the decision on a card to the broker or to the policy service by *)
(* the kind of the card, and neither shares state with the other.          *)
(***************************************************************************)
EXTENDS PolicyTickets, ApprovalBroker

approvalVars == <<ticketVars, brokerVars>>

ApprovalsInit == TicketsInit /\ BrokerInit

ApprovalsNext ==
    \/ TicketsNext /\ UNCHANGED brokerVars
    \/ BrokerNext /\ UNCHANGED ticketVars

ApprovalsSpec == ApprovalsInit /\ [][ApprovalsNext]_approvalVars
=============================================================================
