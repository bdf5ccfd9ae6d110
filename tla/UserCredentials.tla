--------------------------- MODULE UserCredentials ---------------------------
(***************************************************************************)
(* The credentials of users in                                              *)
(* src/features/auth/services/userCredentialService.ts.  Every operation but *)
(* the first selects the credential, writes the row by another statement and *)
(* then logs a security event, so that what it selected may be gone when it  *)
(* writes.  A read decrypts the payload it selected between its UPDATE and   *)
(* its event, and is over there if it cannot: the row may have been written  *)
(* under another key, by a process that had another ENCRYPTION_KEY.          *)
(***************************************************************************)
EXTENDS Integers

CONSTANTS
    CredUsers,
    CredNames,        \* names of credentials, of one service
    NumCredentials,   \* bound: rows
    CredCallers,
    MaxCredOps,       \* bound: operations
    MaxCredErrors     \* bound: failing statements

CredIds == 1 .. NumCredentials
CredOps == 1 .. MaxCredOps

ASSUME CredAssumption == NumCredentials \in Nat /\ MaxCredOps \in Nat

VARIABLES
    credRow,      \* user_credentials: "none", "active", "inactive" or "gone" by id,
                  \* with its user, its name and the order of updatedAt
    credCall,     \* where each caller is, in which operation, on which row
    credOps,      \* operations begun
    credChanged,  \* history: the entries of the operations whose write changed a row
    credLogged,   \* security_audit_logs: the entries of the operations logged as done
    credUnread,   \* history: the entries of the reads that could not decrypt
    credDeleted,  \* history: rows once deleted, softly or not
    credErrors

credVars == <<credRow, credCall, credOps, credChanged, credLogged, credUnread, credDeleted,
              credErrors>>

NoOp == [at |-> "idle", op |-> "none", number |-> 0, id |-> 0, user |-> "none"]

CredInit ==
    /\ credRow = [i \in CredIds |-> [state |-> "none", user |-> "none", name |-> "none",
                                     touched |-> 0]]
    /\ credCall = [c \in CredCallers |-> NoOp]
    /\ credOps = 0
    /\ credChanged = {} /\ credLogged = {} /\ credUnread = {} /\ credDeleted = {}
    /\ credErrors = 0

CredStatementFails == credErrors < MaxCredErrors /\ credErrors' = credErrors + 1

\* An operation and the credential it is about, as its security event names it.
Entry(call) == [number |-> call.number, id |-> call.id]

\* One more than every updatedAt.
Later == 1 + CHOOSE t \in 0 .. MaxCredOps :
                 /\ t = 0 \/ \E i \in CredIds : credRow[i].touched = t
                 /\ \A i \in CredIds : credRow[i].touched <= t

Mine(i, user) == credRow[i].user = user /\ credRow[i].state \in {"active", "inactive"}
MineActive(i, user) == Mine(i, user) /\ credRow[i].state = "active"

\* The call begins, as the next operation.
BeginOp(c, op, user, i, at) ==
    /\ credCall[c].at = "idle" /\ credOps < MaxCredOps
    /\ credOps' = credOps + 1
    /\ credCall' = [credCall EXCEPT ![c] = [at |-> at, op |-> op, id |-> i,
                                            number |-> credOps + 1, user |-> user]]

\* The SELECT finds row i.
SelectCredential(c, op, user, i) ==
    /\ BeginOp(c, op, user, i, "write")
    /\ UNCHANGED <<credRow, credChanged, credLogged, credUnread, credDeleted, credErrors>>

\* Reading a credential counts as updating it.
Touched(row) == [row EXCEPT !.touched = Later]

\* Mutant: an update writes back the whole row it selected.
WrittenBack(row) == [row EXCEPT !.state = "active", !.touched = Later]

Updated(row) == [row EXCEPT !.touched = Later]

Deactivated(row) == [row EXCEPT !.state = "inactive", !.touched = Later]

Removed(row) == [row EXCEPT !.state = "gone"]

\* What the write of an operation makes of the row.
Becomes(op, row) ==
    CASE op \in {"get", "getByService"} -> Touched(row)
      [] op = "update"     -> Updated(row)
      [] op = "delete"     -> Deactivated(row)
      [] op = "hardDelete" -> Removed(row)

\* The write of operation op, if the row is still there; that it is gone is no
\* error.  A read then decrypts what it selected, or throws.
WriteCredential(c, op) ==
    LET call == credCall[c]
        there == Mine(call.id, call.user)
        written == IF there THEN [credRow EXCEPT ![call.id] = Becomes(op, @)] ELSE credRow
        deletes == IF there /\ op \in {"delete", "hardDelete"} THEN {call.id} ELSE {}
    IN
    /\ call.at = "write" /\ call.op = op
    /\ \/ /\ credRow' = written
          /\ credDeleted' = credDeleted \cup deletes
          /\ credChanged' = credChanged \cup IF there THEN {Entry(call)} ELSE {}
          /\ \/ credCall' = [credCall EXCEPT ![c].at = "log"] /\ UNCHANGED credUnread
             \/ /\ op \in {"get", "getByService"}
                /\ credCall' = [credCall EXCEPT ![c] = NoOp]
                /\ credUnread' = credUnread \cup {Entry(call)}
          /\ UNCHANGED credErrors
       \/ /\ CredStatementFails
          /\ \/ credRow' = written /\ credDeleted' = credDeleted \cup deletes
             \/ UNCHANGED <<credRow, credDeleted>>
          /\ credCall' = [credCall EXCEPT ![c] = NoOp]
          /\ UNCHANGED <<credChanged, credUnread>>
    /\ UNCHANGED <<credOps, credLogged>>

\* logSecurityEvent, whose failure is swallowed; the operation is over.
LogCredential(c, op) ==
    LET call == credCall[c] IN
    /\ call.at = "log" /\ call.op = op
    /\ \/ credLogged' = credLogged \cup {Entry(call)} /\ UNCHANGED credErrors
       \/ CredStatementFails /\ UNCHANGED credLogged
    /\ credCall' = [credCall EXCEPT ![c] = NoOp]
    /\ UNCHANGED <<credRow, credOps, credChanged, credUnread, credDeleted>>

-----------------------------------------------------------------------------
(* The operations: their statements, each a step of its own                 *)

\* The INSERT is refused for a name the user has had before, be it that of a
\* credential since softly deleted.
AddUserCredential(c) ==
    \/ \E user \in CredUsers, name \in CredNames, i \in CredIds :
         /\ credRow[i].state = "none" /\ \A j \in 1 .. i - 1 : credRow[j].state # "none"
         /\ ~ \E j \in CredIds : Mine(j, user) /\ credRow[j].name = name
         /\ credRow' = [credRow EXCEPT ![i] = [state |-> "active", user |-> user, name |-> name,
                                               touched |-> Later]]
         /\ \/ /\ BeginOp(c, "add", user, i, "log")
               /\ credChanged' = credChanged \cup {[number |-> credOps', id |-> i]}
               /\ UNCHANGED credErrors
            \/ /\ CredStatementFails
               /\ credCall[c].at = "idle" /\ credOps < MaxCredOps
               /\ credOps' = credOps + 1
               /\ UNCHANGED <<credCall, credChanged>>
         /\ UNCHANGED <<credLogged, credUnread, credDeleted>>
    \/ LogCredential(c, "add")

GetUserCredentialById(c) ==
    \/ \E user \in CredUsers, i \in CredIds :
         MineActive(i, user) /\ SelectCredential(c, "get", user, i)
    \/ WriteCredential(c, "get")
    \/ LogCredential(c, "get")

\* The one most recently touched, of all of the user's or of the name asked for.
GetUserCredentialByService(c) ==
    \/ \E user \in CredUsers, i \in CredIds, names \in {CredNames} \cup {{n} : n \in CredNames} :
         LET asked == {j \in CredIds : MineActive(j, user) /\ credRow[j].name \in names} IN
         /\ i \in asked /\ \A j \in asked : credRow[j].touched <= credRow[i].touched
         /\ SelectCredential(c, "getByService", user, i)
    \/ WriteCredential(c, "getByService")
    \/ LogCredential(c, "getByService")

UpdateUserCredential(c) ==
    \/ \E user \in CredUsers, i \in CredIds :
         MineActive(i, user) /\ SelectCredential(c, "update", user, i)
    \/ WriteCredential(c, "update")
    \/ LogCredential(c, "update")

DeleteUserCredential(c) ==
    \/ \E user \in CredUsers, i \in CredIds :
         MineActive(i, user) /\ SelectCredential(c, "delete", user, i)
    \/ WriteCredential(c, "delete")
    \/ LogCredential(c, "delete")

\* Also of a credential that is inactive.
HardDeleteUserCredential(c) ==
    \/ \E user \in CredUsers, i \in CredIds :
         Mine(i, user) /\ SelectCredential(c, "hardDelete", user, i)
    \/ WriteCredential(c, "hardDelete")
    \/ LogCredential(c, "hardDelete")

CredNext ==
    \E c \in CredCallers :
        \/ AddUserCredential(c) \/ GetUserCredentialById(c) \/ GetUserCredentialByService(c)
        \/ UpdateUserCredential(c) \/ DeleteUserCredential(c) \/ HardDeleteUserCredential(c)

-----------------------------------------------------------------------------
CredTypeOK ==
    /\ \A i \in CredIds : /\ credRow[i].state \in {"none", "active", "inactive", "gone"}
                          /\ credRow[i].touched \in 0 .. MaxCredOps
    /\ \A c \in CredCallers : credCall[c].at \in {"idle", "write", "log"}
    /\ credChanged \cup credLogged \cup credUnread \subseteq [number : CredOps, id : CredIds]
    /\ credDeleted \subseteq CredIds

(* A credential once deleted is never active again, however its deletion    *)
(* overlaps with updates and reads of it.  An operation that is logged as    *)
(* done but changed nothing found its own row gone, deleted for good after   *)
(* it was selected.  As long as no statement fails, a change is logged when  *)
(* its call is over, but for the touch of a read that could not decrypt what *)
(* it selected: deletions and updates always are.                           *)
CredentialsHonest ==
    /\ \A i \in credDeleted : credRow[i].state \in {"inactive", "gone"}
    /\ \A e \in credLogged \ credChanged : credRow[e.id].state = "gone"
    /\ credErrors = 0 =>
         \A e \in credChanged \ credLogged :
             e \in credUnread \/ \E c \in CredCallers : Entry(credCall[c]) = e

=============================================================================
