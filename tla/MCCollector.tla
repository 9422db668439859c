---------------------------- MODULE MCCollector ----------------------------
(* Four records: "c" is malformed, "d" is another request of the same      *)
(* timestamp as "a".  Any of them may be published twice.                  *)
EXTENDS Collector

MCRecords == {"a", "b", "c", "d"}
MCTimestamp(r) == IF r = "d" THEN "a" ELSE r
MCMalformed == {"c"}
============================================================================
