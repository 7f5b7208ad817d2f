---------------------------- MODULE PaymentLedger ----------------------------
(***************************************************************************)
(* What the provider's payment control promises about one session's books, *)
(* whatever its threads do: usage is metered, an active session is paid    *)
(* for metered usage by a RAV that grows by exactly what it newly covers,  *)
(* and a session that has ended is neither reopened nor paid any further.  *)
(***************************************************************************)
EXTENDS Naturals

CONSTANT InitialRAV

VARIABLES status, total, covered, rav

ledger == <<status, total, covered, rav>>

Init ==
  /\ status = "active"
  /\ total = 0
  /\ covered = 0
  /\ rav = InitialRAV

\* The data plane reports usage, even of a session that has just ended.
Meter ==
  /\ total' \in Nat /\ total' > total
  /\ UNCHANGED <<status, covered, rav>>

\* A RAV is accepted for usage metered so far.
Pay ==
  /\ status = "active"
  /\ covered' \in Nat /\ covered < covered' /\ covered' <= total
  /\ rav' = rav + (covered' - covered)
  /\ UNCHANGED <<status, total>>

\* The payer's escrow no longer covers what is owed.
End ==
  /\ status = "active"
  /\ status' = "terminated"
  /\ UNCHANGED <<total, covered, rav>>

Next == Meter \/ Pay \/ End

Spec == Init /\ [][Next]_ledger
=============================================================================
