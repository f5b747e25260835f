------------------------------- MODULE Store -------------------------------
(***************************************************************************)
(* The file_metadata table of core/db: one row per FileID, the key made of *)
(* relation and relative path, or Nil when there is none.  Each operator   *)
(* is one SQL statement; SQLite runs each atomically (db.Open allows a     *)
(* single connection).                                                     *)
(***************************************************************************)
EXTENDS Integers, Values

CONSTANT
    HoldingDays     \* mirrored_folders.holding_period_days of the root

ASSUME HoldingAssumption == HoldingDays \in Nat

Statuses == {"SYNCED", "CONFLICT", "TRASHED"}

FileID(relation, path) == <<relation, path>>

UpsertFile(rows, id, meta) == [rows EXCEPT ![id] = meta]

MarkTrashed(rows, id, when) ==
    IF rows[id] = Nil THEN rows
    ELSE [rows EXCEPT ![id] = [@ EXCEPT !.status = "TRASHED", !.deletedAt = when]]

DeleteFileRow(rows, id) == [rows EXCEPT ![id] = Nil]

IsTrashed(row) == row # Nil /\ row.status = "TRASHED"
IsLive(row) == row # Nil /\ row.status # "TRASHED"

ListTrashed(rows) == {id \in DOMAIN rows : IsTrashed(rows[id])}

\* Mutated form: the window is one day short.
TrashedOneDayEarly(rows, now) ==
    {id \in ListTrashed(rows) : ~(rows[id].deletedAt + HoldingDays > now + 1)}

\* The rows whose holding period has fully elapsed.
TrashedBefore(rows, now) ==
    {id \in ListTrashed(rows) : ~(rows[id].deletedAt + HoldingDays > now)}
=============================================================================
