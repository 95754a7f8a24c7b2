------------------------- MODULE TwoStepGovernance -------------------------
(***************************************************************************)
(* The two-step governance transfer every contract of the workspace        *)
(* carries: the governor in office proposes an address, and that address   *)
(* accepts.  There is one proposal slot; a second proposal overwrites it,  *)
(* and nothing but an acceptance empties it.                               *)
(***************************************************************************)
CONSTANTS
  Addr,    \* accounts that may hold governance
  NoAddr   \* PENDING_GOVERNANCE is absent

VARIABLES
  governance,  \* Config.governance
  pending      \* PENDING_GOVERNANCE

TypeOK ==
  /\ governance \in Addr
  /\ pending \in Addr \cup {NoAddr}

Init ==
  /\ governance \in Addr
  /\ pending = NoAddr

ProposeGovernance(sender, addr) ==
  /\ sender = governance
  /\ pending' = addr
  /\ UNCHANGED governance

AcceptGovernance_KeepsProposal(sender) ==
  /\ pending # NoAddr
  /\ sender = pending
  /\ governance' = pending
  /\ UNCHANGED pending

AcceptGovernance(sender) ==
  /\ pending # NoAddr
  /\ sender = pending
  /\ governance' = pending
  /\ pending' = NoAddr

Next ==
  \E sender \in Addr :
    \/ \E addr \in Addr : ProposeGovernance(sender, addr)
    \/ AcceptGovernance(sender)
=============================================================================
