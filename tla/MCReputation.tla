--------------------------- MODULE MCReputation ----------------------------
(***************************************************************************)
(* The reputation table for two addresses, neither whitelisted.           *)
(* configuration.  Counters stop at 1023 (10 bits), so that an admin      *)
(* entry at the maximum makes the tick's multiplication overflow as one   *)
(* at u64::MAX does; the slacks are scaled down so that BANNED and        *)
(* THROTTLED are reached within a few writes.                             *)
(***************************************************************************)
EXTENDS Reputation, TLC

CONSTANTS r1, r2

\* Rows set_reputation writes: a banned-looking one, a saturated one.
MCAdminEntries ==
  {[uo_seen |-> 6, uo_included |-> 0], [uo_seen |-> 1023, uo_included |-> 0]}

\* Table keys in the byte order of the addresses: r1 before r2.
MCRank == [a \in {r1, r2} |-> IF a = r1 THEN 1 ELSE 2]
=============================================================================
