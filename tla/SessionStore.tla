---------------------------- MODULE SessionStore ----------------------------
(***************************************************************************)
(* The session record the provider repository stores, and the repository's *)
(* writes to it as functions of the record.  Each write is a compare-and-  *)
(* swap loop in memory and one statement or transaction in Postgres.       *)
(*                                                                         *)
(* Usage is kept as its accumulated cost: blocks, bytes and requests move  *)
(* with it in every operation.  A signed RAV is kept as its aggregate      *)
(* value; hasRAV tells a session without a RAV from one whose RAV is zero. *)
(* Metadata, timestamps, parties and pricing are left out.                 *)
(***************************************************************************)
EXTENDS Naturals

SessionStatuses == {"active", "terminated"}

Session ==
  [status : SessionStatuses,
   hasRAV : BOOLEAN,
   rav    : Nat,      \* CurrentRAV.Message.ValueAggregate
   total  : Nat,      \* TotalCost
   base   : Nat]      \* BaselineCost

\* A session is created active with its baseline marked at zero usage.
NewSession(rav, hasRAV) ==
  [status |-> "active", hasRAV |-> hasRAV, rav |-> rav, total |-> 0, base |-> 0]

IsActive(s) == s.status = "active"

AddUsage(s, cost) == [s EXCEPT !.total = @ + cost]

UsageDeltaSinceBaseline(s) ==
  IF s.total >= s.base THEN s.total - s.base ELSE 0

\* Mutant: a session short of funds is paused instead of terminated.
WithRuntimeStatePausing(s, status) ==
  IF status = "terminated" THEN [s EXCEPT !.status = "paused"] ELSE s

\* Mutant: the status of the assessment is not persisted.
WithRuntimeStateIgnored(s, status) == s

\* SessionUpdateRuntimeState: a terminated session keeps its status.
WithRuntimeState(s, status) ==
  IF s.status = "terminated" THEN s ELSE [s EXCEPT !.status = status]

\* Mutant: the baseline is taken from the usage stored now.
WithRAVAndCurrentUsage(s, rav, base) ==
  [s EXCEPT !.hasRAV = TRUE, !.rav = rav, !.base = s.total]

\* Mutant: the caller's copy of the whole session is written back.
WithRAVOverwritingStatus(s, rav, base) ==
  [s EXCEPT !.status = "active", !.hasRAV = TRUE, !.rav = rav, !.base = base]

\* SessionUpdateRAVAndBaseline: the RAV and the usage it covers, together.
WithRAVAndBaseline(s, rav, base) ==
  [s EXCEPT !.hasRAV = TRUE, !.rav = rav, !.base = base]
=============================================================================
