------------------------------- MODULE UserDB -------------------------------
(***************************************************************************)
(* The users table of Server/Database.py: one row per account, and the     *)
(* statements the server runs on it.  Every method of the class takes the  *)
(* lock of the object and commits one transaction, so a statement is one   *)
(* function from tables to tables; what a caller reads from the table in   *)
(* one step and writes back in another is the callers' business, and       *)
(* VPNServer keeps those steps apart.                                      *)
(*                                                                         *)
(* connection_status and assigned_ip are always written together ('connect'*)
(* with an address, 'disconnect' with NULL), so the field ip stands for    *)
(* both: the row is online exactly when ip is an address.                  *)
(***************************************************************************)
EXTENDS Integers

CONSTANTS
    Users,       \* account names
    Addresses,   \* tunnel addresses of the pool
    None         \* SQL NULL, Python None

ASSUME NoneIsNoAddress == None \notin Addresses

AccountStatus == {"absent", "active", "banned", "quota_exhausted"}

Account == [status : AccountStatus, quota : Nat, ip : Addresses \cup {None}]

\* A table: no row is the status "absent".
Tables == [Users -> Account]

Row(status, quota) == [status |-> status, quota |-> quota, ip |-> None]

Exists(db, u) == db[u].status # "absent"

\* Mutant of AtLeastZero: max(0, ...) is forgotten.
Unclamped(n) == n

AtLeastZero(n) == IF n < 0 THEN 0 ELSE n

\* UPDATE ... WHERE username = u: without a row there is nothing to update.
Update(db, u, row) == IF Exists(db, u) THEN [db EXCEPT ![u] = row] ELSE db

\* INSERT of a new row; an existing name is an IntegrityError and no change.
CreateUser(db, u) ==
    IF Exists(db, u) THEN db ELSE [db EXCEPT ![u] = Row("active", 0)]

MarkConnected(db, u, ip) == Update(db, u, [db[u] EXCEPT !.ip = ip])

\* Mutants of MarkDisconnected: assigned_ip is not cleared; the final quota is
\* added to what the row has.
MarkDisconnectedKeepsIP(db, u, final) ==
    Update(db, u, [db[u] EXCEPT !.quota = IF final = None THEN @ ELSE AtLeastZero(final)])

MarkDisconnectedAdds(db, u, final) ==
    Update(db, u, [db[u] EXCEPT !.ip = None,
                                !.quota = IF final = None THEN @ ELSE AtLeastZero(@ + final)])

\* The final quota is persisted unless it is None.
MarkDisconnected(db, u, final) ==
    Update(db, u, [db[u] EXCEPT !.ip = None,
                                !.quota = IF final = None THEN @ ELSE AtLeastZero(final)])

\* Tops the account up and reactivates it if it was exhausted.
AddQuota(db, u, n) ==
    LET total == AtLeastZero(db[u].quota + n)
    IN  Update(db, u, [db[u] EXCEPT
            !.quota = total,
            !.status = IF @ = "quota_exhausted" /\ total > 0 THEN "active" ELSE @])

\* Zeroes the quota and overwrites the status, whatever it was.
MarkQuotaExhausted(db, u) == Update(db, u, Row("quota_exhausted", 0))

\* ban_user and unban_user.
SetAccountStatus(db, u, status) == Update(db, u, [db[u] EXCEPT !.status = status])

\* Mutant of ResetAllConnections: the flags of the last process stay.
ResetNothing(db) == db

ResetAllConnections(db) == [u \in Users |-> [db[u] EXCEPT !.ip = None]]

=============================================================================
