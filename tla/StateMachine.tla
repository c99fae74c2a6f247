---------------------------- MODULE StateMachine ----------------------------
(***************************************************************************)
(* The statuses of the rows ReadyOn keeps, and the transition table of a   *)
(* time-off request (src/common/types/index.ts and                         *)
(* src/common/utils/state-machine.ts).                                     *)
(***************************************************************************)

\* Statuses a time_off_requests row can have.
RequestStatus ==
  { "PENDING_APPROVAL", "APPROVED_PENDING_HCM", "APPROVED", "REJECTED",
    "CANCELLED", "FAILED_HCM", "RECONCILIATION_REQUIRED" }

\* Statuses a balance_holds row can have.
HoldStatus == { "ACTIVE", "CONVERTED", "RELEASED" }

\* Statuses and actions an integration_outbox row can have.
OutboxStatus == { "PENDING", "PROCESSING", "COMPLETED", "FAILED" }
OutboxAction == { "POST_TIME_OFF", "CANCEL_TIME_OFF" }

\* VALID_TRANSITIONS: where each status may go.
ValidTransitions ==
  [ PENDING_APPROVAL        |-> {"APPROVED_PENDING_HCM", "REJECTED", "CANCELLED"},
    APPROVED_PENDING_HCM    |-> {"APPROVED", "FAILED_HCM", "CANCELLED"},
    APPROVED                |-> {"RECONCILIATION_REQUIRED", "CANCELLED"},
    REJECTED                |-> {},
    CANCELLED               |-> {},
    FAILED_HCM              |-> {"RECONCILIATION_REQUIRED"},
    RECONCILIATION_REQUIRED |-> {"APPROVED", "CANCELLED"} ]

\* Broken variant, for a mutation run: the gate lets everything through.
IsValidTransition_Open(from, to) == TRUE

\* isValidTransition: the gate assertValidTransition throws on.
IsValidTransition(from, to) == to \in ValidTransitions[from]

\* isTerminalStatus: the statuses the code calls terminal (a list of its own,
\* not derived from the table: the table leads out of APPROVED).
IsTerminalStatus(status) == status \in {"APPROVED", "REJECTED", "CANCELLED"}

\* isHoldActiveStatus: the statuses during which a hold reserves hours.
IsHoldActiveStatus(status) ==
  status \in {"PENDING_APPROVAL", "APPROVED_PENDING_HCM"}
=============================================================================
