----------------------------- MODULE AlertStore -----------------------------
(***************************************************************************)
(* risk.alerts, the ClickHouse table the alerts of ml-inference end in      *)
(* (infra/clickhouse/init/01_schema.sql).  A ReplacingMergeTree(ts) accepts *)
(* every inserted row and, at merges it schedules itself, replaces rows     *)
(* with one sorting key by the row with the highest ts.  Merges never cross *)
(* a partition, and the partition of an alert is the day of its ts.         *)
(***************************************************************************)
EXTENDS Naturals

CONSTANT DayLength   \* ticks of the clock in a day

ASSUME DayLengthAssumption == DayLength \in Nat \ {0}

VARIABLES
  rows,     \* rows of the table: [window, run, ts]
  written   \* history: rows of every insert ClickHouse acknowledged

(* The sorting key is (domain, entity_key, window_end, alert_id); alert_id is
   a function of the other three, so the key is the window. *)
SameKey(r, s) == r.window = s.window

Day(r) == r.ts \div DayLength

SamePartition(r, s) == Day(r) = Day(s)

InsertAcknowledged(batch) == /\ rows' = rows \cup batch
                             /\ written' = written \cup batch

(* An insert that errors (HTTP status, timeout) may have been applied. *)
InsertFailed(batch) == /\ rows' \in {rows, rows \cup batch}
                       /\ UNCHANGED written

Replaces_Oldest(r, s) == /\ r # s
                         /\ SameKey(r, s) /\ SamePartition(r, s)
                         /\ r.ts <= s.ts
Replaces(r, s) == /\ r # s
                  /\ SameKey(r, s) /\ SamePartition(r, s)
                  /\ r.ts >= s.ts

Merge == /\ \E r, s \in rows : Replaces(r, s) /\ rows' = rows \ {s}
         /\ UNCHANGED written

(* OPTIMIZE TABLE ... FINAL has nothing left to do. *)
FullyMerged == \A r, s \in rows : ~Replaces(r, s)

(* A merge never takes the last version of an alert away, nor the newest of
   its day: whatever was acknowledged is there, in a version as recent. *)
LatestSurvives ==
  \A r \in written : \E s \in rows : SameKey(r, s) /\ SamePartition(r, s) /\ s.ts >= r.ts

(* 01_schema.sql:104 "keeps only the highest-ts row per key at merge time - one
   alert per window survives, not one per processing attempt". *)
OneAlertPerWindow ==
  FullyMerged => \A r, s \in rows : SameKey(r, s) => r = s
=============================================================================
