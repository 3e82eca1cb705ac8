---------------------------- MODULE UserAccounts ----------------------------
(***************************************************************************)
(* users_service: one account, its row in the table users, and the entry of *)
(* the user cache that Get and Me read first.                              *)
(*                                                                         *)
(* A column is modelled by who wrote it: a value is the call that wrote it, *)
(* and two values are equal when one call wrote both.  "stamp" stands for   *)
(* hubspot_record_id and last_access_at, "group" for the type of user, that *)
(* a row gets from its permission groups.  Accounts meet in two UNIQUE      *)
(* columns only, the email, which is this account, and the document.        *)
(***************************************************************************)
EXTENDS OfficeCalls

VARIABLES
    exists, row,    \* the account
    entry,          \* what Redis holds of it
    account         \* the calls

accountVars == <<exists, row, entry, account>>

Columns == {"name", "phone", "active", "password", "group", "stamp"}
Row == [Columns -> Calls \cup {NoOne}]
Blank == [f \in Columns |-> NoOne]

\* History: of an entry, and of a row that was read to become one, the calls
\* that wrote the row since it was read; of an entry, the calls that had ended
\* when it was cached.
Entry == [cached: BOOLEAN, row: Row, missed: SUBSET Calls, passed: SUBSET Calls]
NoEntry == [cached |-> FALSE, row |-> Blank, missed |-> {}, passed |-> {}]

\* `lost`: it wrote the row and left the entry.  `before`: the calls that had
\* ended when this one came in.
AccountCall ==
    [pc: {"idle", "save", "join", "find", "set", "update", "password", "delete", "done"},
     op: {"none", "create", "get", "update", "change", "other"},
     read: Row, aim: SUBSET Columns, missed: SUBSET Calls, lost: BOOLEAN,
     before: SUBSET Calls]
NoAccountCall == [pc |-> "idle", op |-> "none", read |-> Blank, aim |-> {},
                  missed |-> {}, lost |-> FALSE, before |-> {}]

AccountsInit ==
    /\ exists \in BOOLEAN
    /\ row = Blank
    /\ entry = NoEntry
    /\ account = [c \in Calls |-> NoAccountCall]

AccountEnded(c, lost) ==
    [NoAccountCall EXCEPT !.pc = "done", !.op = account[c].op, !.lost = lost]
AccountStarts(c, op, p, seen) ==
    account' = [account EXCEPT ![c] =
        [NoAccountCall EXCEPT !.pc = p, !.op = op, !.read = seen,
                              !.before = EndedIn(account)]]
AccountGoes(c, p) == account' = [account EXCEPT ![c].pc = p]
AccountEnds(c) == account' = [account EXCEPT ![c] = AccountEnded(c, FALSE)]

\* c writes columns F, and goes on as `next`.
Writes(c, new, next) ==
    LET after == [account EXCEPT ![c] = next] IN
    /\ row' = new
    /\ entry' = [entry EXCEPT !.missed = IF entry.cached THEN @ \cup {c} ELSE @]
    /\ account' = [d \in Calls |-> IF after[d].pc = "set"
                                   THEN [after[d] EXCEPT !.missed = @ \cup {c}]
                                   ELSE after[d]]

(***************************************************************************)
(* Reads                                                                   *)
(***************************************************************************)

\* Get answers from the cache, if it has the account and Redis is there.
GetCached(c) ==
    /\ Comes(c, account)
    /\ \/ entry.cached /\ account' = [account EXCEPT ![c] = AccountEnded(c, FALSE)]
       \/ AccountStarts(c, "get", "find", Blank)
    /\ UNCHANGED <<exists, row, entry>>

GetFind(c) ==
    /\ account[c].pc = "find"
    /\ IF exists THEN account' = [account EXCEPT ![c].pc = "set", ![c].read = row]
       ELSE AccountEnds(c)
    /\ UNCHANGED <<exists, row, entry>>

\* The row that was read is cached, best effort: Get, and the end of Create.
CacheSet(c) ==
    /\ account[c].pc = "set"
    /\ \/ entry' = [cached |-> TRUE, row |-> account[c].read,
                    missed |-> account[c].missed, passed |-> EndedIn(account)]
       \/ UNCHANGED entry
    /\ AccountEnds(c)
    /\ UNCHANGED <<exists, row>>

\* Its time to live is over, or Redis evicts it.
Expire == entry.cached /\ entry' = NoEntry /\ UNCHANGED <<exists, row, account>>

(***************************************************************************)
(* Writes                                                                  *)
(***************************************************************************)

\* FindByEmail, and whether the document is of another account.
CreateFind(c) ==
    /\ Comes(c, account)
    /\ ~ exists
    /\ \E taken \in BOOLEAN :
         IF taken THEN account' = [account EXCEPT ![c].pc = "done"]
         ELSE AccountStarts(c, "create", "save", Blank)
    /\ UNCHANGED <<exists, row, entry>>

\* uk_user_email refuses the second of two that create the account at once.
\* What is cached at the end is this row, in no group.
Save(c) ==
    /\ account[c].pc = "save"
    /\ IF exists THEN AccountEnds(c) /\ UNCHANGED <<exists, row>>
       ELSE LET new == [f \in Columns |-> IF f \in {"group", "stamp"} THEN NoOne ELSE c]
            IN  /\ exists' = TRUE /\ row' = new
                /\ \E p \in {"join", "set"} :
                     account' = [account EXCEPT ![c].pc = p, ![c].read = new]
    /\ UNCHANGED entry

\* The optional group; an unknown one is an error, with the account saved.
CreateJoin(c) ==
    /\ account[c].pc = "join"
    /\ Writes(c, [row EXCEPT !["group"] = c], [account[c] EXCEPT !.pc = "set"])
    /\ UNCHANGED exists

UpdateFindAccount(c) ==
    /\ Comes(c, account) /\ exists
    /\ \E F \in SUBSET {"name", "phone"} \ {{}} :
         account' = [account EXCEPT ![c] =
             [NoAccountCall EXCEPT !.pc = "update", !.op = "update", !.read = row,
                                   !.aim = F, !.before = EndedIn(account)]]
    /\ UNCHANGED <<exists, row, entry>>

\* The columns that were not given are written back as they were read.
Updated(c) == [f \in Columns |-> IF f \in account[c].aim THEN c
                                 ELSE IF f \in {"name", "phone"} THEN account[c].read[f]
                                 ELSE row[f]]

\* Variant: the cache is not told.
UpdateAccountOnly(c) ==
    /\ account[c].pc = "update"
    /\ Writes(c, Updated(c), AccountEnded(c, FALSE))
    /\ UNCHANGED exists

UpdateAccount(c) ==
    /\ account[c].pc = "update"
    /\ Writes(c, Updated(c), [account[c] EXCEPT !.pc = "delete"])
    /\ UNCHANGED exists

\* Deactivate and Reactivate, one UPDATE.
SetAccountActive(c) ==
    /\ Comes(c, account) /\ exists
    /\ Writes(c, [row EXCEPT !["active"] = c],
              [NoAccountCall EXCEPT !.pc = "delete", !.op = "other"])
    /\ UNCHANGED exists

\* A superadmin gives the account a password of the server's making.
ResetPassword(c) ==
    /\ Comes(c, account) /\ exists
    /\ Writes(c, [row EXCEPT !["password"] = c],
              [NoAccountCall EXCEPT !.pc = "delete", !.op = "other"])
    /\ UNCHANGED exists

\* Variant: the old password is compared with that of the cached account.
ChangeFindCached(c) ==
    /\ Comes(c, account) /\ exists
    /\ AccountStarts(c, "change", "password", IF entry.cached THEN entry.row ELSE row)
    /\ UNCHANGED <<exists, row, entry>>

\* ChangePassword, by one who knows the password that was read.
ChangeFind(c) ==
    /\ Comes(c, account) /\ exists
    /\ \/ AccountStarts(c, "change", "password", row)
       \/ account' = [account EXCEPT ![c].pc = "done"]     \* ErrInvalidPassword
    /\ UNCHANGED <<exists, row, entry>>

SetPassword(c) ==
    /\ account[c].pc = "password"
    /\ Writes(c, [row EXCEPT !["password"] = c], [account[c] EXCEPT !.pc = "delete"])
    /\ UNCHANGED exists

\* AssignGroup, RevokeGroup, SetHubspotRecordID, TouchLastAccess: they leave the
\* entry alone.
WriteAside(c) ==
    /\ Comes(c, account) /\ exists
    /\ \E f \in {"group", "stamp"} :
         Writes(c, [row EXCEPT ![f] = c],
                [NoAccountCall EXCEPT !.pc = "done", !.op = "other", !.lost = TRUE])
    /\ UNCHANGED exists

CacheDelete(c) ==
    /\ account[c].pc = "delete"
    /\ \/ entry' = NoEntry /\ AccountEnds(c)
       \/ UNCHANGED entry /\ account' = [account EXCEPT ![c] = AccountEnded(c, TRUE)]
    /\ UNCHANGED <<exists, row>>

\* A statement fails, or the pod dies.
AccountFails(c) ==
    /\ account[c].pc \notin {"idle", "done"}
    /\ account' = [account EXCEPT ![c] = AccountEnded(c, account[c].pc = "delete")]
    /\ UNCHANGED <<exists, row, entry>>

-----------------------------------------------------------------------------
AccountsNext ==
    \/ \E c \in Calls :
         \/ GetCached(c) \/ GetFind(c) \/ CacheSet(c)
         \/ CreateFind(c) \/ Save(c) \/ CreateJoin(c)
         \/ UpdateFindAccount(c) \/ UpdateAccount(c)
         \/ SetAccountActive(c) \/ ResetPassword(c)
         \/ ChangeFind(c) \/ SetPassword(c) \/ WriteAside(c)
         \/ CacheDelete(c) \/ AccountFails(c)
    \/ Expire

AccountsSpec == AccountsInit /\ [][AccountsNext]_accountVars
-----------------------------------------------------------------------------
AccountsTypeOK == /\ exists \in BOOLEAN /\ row \in Row /\ entry \in Entry
                  /\ account \in [Calls -> AccountCall]

(* A cached account is behind its row only where the code lets it be: each   *)
(* write it missed is of a call that is yet to delete the entry, of one     *)
(* that lost its Delete or makes none, or of one that had ended when a      *)
(* reader of the row before cached it.                                     *)
StaleExplained ==
    entry.cached => \A w \in entry.missed :
        \/ account[w].pc = "delete" \/ account[w].lost
        \/ account[w].op = "create"
        \/ w \in entry.passed

(* A password that was reset holds: ChangePassword replaces the password its *)
(* caller gave, or one set by a call that had not ended when it came in.    *)
(* An old password is worth nothing to a change that comes after the reset. *)
ResetHolds ==
    [][\A c \in Calls : SetPassword(c) =>
           \/ row["password"] = account[c].read["password"]
           \/ row["password"] \notin account[c].before]_accountVars

(* What the comment of Update says: a field that is not given is left as it  *)
(* is.  TLC refutes this: it is written back as it was read.               *)
OmittedIsKept ==
    [][\A c \in Calls : UpdateAccount(c) =>
           \A f \in Columns \ account[c].aim : row'[f] = row[f]]_accountVars
=============================================================================
