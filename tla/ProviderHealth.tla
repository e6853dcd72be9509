---------------------------- MODULE ProviderHealth ----------------------------
(***************************************************************************)
(* services/provider_health.py: what a provider error says about the key   *)
(* that met it, persisted in the row of the key, and the filter that keeps *)
(* a broken key out of the rotation until its bench time is over.          *)
(*                                                                         *)
(* A row is a record: present (the row exists), enabled (the switch in the *)
(* settings), status, and checked, the time of last_checked_at with 0 for  *)
(* NULL.                                                                   *)
(***************************************************************************)
EXTENDS RateLimit

CONSTANT BenchTime      \* cooldown_minutes of usable_filter, 30 min

ASSUME BenchAssumption == BenchTime \in Nat

Statuses == {"healthy", "error", "limited", "unknown"}

KeyRows == [present : BOOLEAN, enabled : BOOLEAN, status : Statuses, checked : Nat]

NoVerdict == "none"

(* classify: rate-limit words are looked for before the fatal ones.        *)
Classify(e) == IF SpeaksOfQuota(e) THEN "limited"
               ELSE IF e \in {"auth", "credit"} THEN "error"
               ELSE NoVerdict

(***************************************************************************)
(* record_failure and record_success.  "saved" is FALSE when the database  *)
(* refuses the update: both then roll back and carry on.                   *)
(***************************************************************************)
Verdict(row, e, saved) ==
    IF row.present /\ saved THEN Classify(e) ELSE NoVerdict

RecordFailure(row, e, saved, now) ==
    IF Verdict(row, e, saved) = NoVerdict THEN row
    ELSE [row EXCEPT !.status = Classify(e), !.checked = now]

RecordSuccess(row, saved, now) ==
    IF row.present /\ saved
    THEN [row EXCEPT !.status = "healthy", !.checked = now]
    ELSE row

(* usable_filter, with the test of the switch that every caller adds.      *)
Benched(row, now) ==
    row.status = "error" /\ row.checked # 0 /\ now <= row.checked + BenchTime

(* Faulty variant: only the switch counts.                                 *)
UsableWhenEnabled(row, now) == row.present /\ row.enabled

Usable(row, now) == row.present /\ row.enabled /\ ~Benched(row, now)

=============================================================================
