--------------------------- MODULE OperationStates ---------------------------
(***************************************************************************)
(* The lifecycle of a financial operation: its states, the terminal ones   *)
(* and the edges the domain machine allows.                                *)
(***************************************************************************)

PreChainStates == {"PENDING_APPROVAL", "READY", "PREPARING", "SIGNING", "SIGNED"}

ChainInflightStates ==
  {"BROADCASTING", "BROADCAST_UNKNOWN", "SUBMITTED", "INCLUDED"}

TerminalStates == {"SUCCEEDED", "REVERTED", "FAILED", "CANCELLED"}

OperationState == PreChainStates \cup ChainInflightStates \cup TerminalStates

\* The edges, source by source.
AllowedTransitions ==
  [PENDING_APPROVAL  |-> {"READY", "CANCELLED", "FAILED"},
   READY             |-> {"PREPARING", "CANCELLED", "FAILED"},
   PREPARING         |-> {"SIGNING", "READY", "FAILED"},
   SIGNING           |-> {"SIGNED", "FAILED"},
   SIGNED            |-> {"BROADCASTING", "FAILED"},
   BROADCASTING      |-> {"SUBMITTED", "BROADCAST_UNKNOWN", "FAILED"},
   BROADCAST_UNKNOWN |-> {"BROADCASTING", "SUBMITTED", "INCLUDED", "FAILED"},
   SUBMITTED         |-> {"INCLUDED", "BROADCAST_UNKNOWN"},
   INCLUDED          |-> {"SUCCEEDED", "REVERTED", "SUBMITTED"},
   SUCCEEDED         |-> {},
   REVERTED          |-> {},
   FAILED            |-> {},
   CANCELLED         |-> {}]

CanTransition(from, to) == to \in AllowedTransitions[from]

\* What a state claims to whoever requested the operation.
ClaimOf(state) ==
  IF state = "SUCCEEDED" THEN "succeeded"
  ELSE IF state \in TerminalStates THEN "closed" ELSE "open"
=============================================================================
