-------------------------- MODULE MCQuotaService --------------------------
(* Two requests.  The account "codex::a" has manual resets; it disappears  *)
(* from the auth-file list when that changes.  "claude::b" has none.       *)
EXTENDS QuotaService

MCKeys == {"codex::a", "claude::b"}
MCResettable == {"codex::a"}
MCListed(v) == IF v = 0 THEN MCResettable ELSE MCKeys \ MCResettable
===========================================================================
