----------------------------- MODULE KeyService -----------------------------
(***************************************************************************)
(* keys_service: the access keys, their seats (aforo) and the LAN campaign. *)
(*                                                                         *)
(* The shared state is the database: the rows of [key] and of key_usage.    *)
(* A handler is a process that runs one SQL statement at a time; between    *)
(* two statements any other handler may run, the pod may die or the         *)
(* statement may fail.  A statement is atomic, as SQL Server runs it.       *)
(*                                                                         *)
(* Requests are one-shot: each element of Reqs is one administration call   *)
(* (Generate, Update, Deactivate, Resync), each element of Calls is one     *)
(* IncrementUsage.  The size of the two sets bounds the history.            *)
(*                                                                         *)
(* An optional value (a Go pointer, a NULL column) is a set of at most one  *)
(* element.  A code is an integer: n > 0 stands for "LAN n", n < 0 for any  *)
(* other code, 0 for the empty string.                                     *)
(***************************************************************************)
EXTENDS Integers, FiniteSets

CONSTANTS
    KeyIds,       \* the ids NEWID() hands out
    Reqs,         \* administration requests
    Calls,        \* IncrementUsage requests
    Users,        \* students
    Drafts,       \* rows a Generate may be asked to create
    Edits,        \* inputs an Update may carry
    HubspotOn,    \* whether the handler was built with a HubspotSyncer
    MaxTime,      \* last instant of the clock
    NoId          \* not an id

(***************************************************************************)
(* Types                                                                   *)
(***************************************************************************)

Ptr(S) == { p \in SUBSET S : \A v, w \in p : v = w }

Row == [code: Int, mode: {"absent", "school", "lan"}, cap: Int, uses: Nat,
        active: BOOLEAN, from: Ptr(Int), to: Ptr(Int), landing: Int]

Edit == [cap: Ptr(Int), active: Ptr(BOOLEAN), from: Ptr(Int), to: Ptr(Int),
         landing: Ptr(Int)]

Payload == [cap: Int, from: Ptr(Int), to: Ptr(Int)]

NoRow == [code |-> 0, mode |-> "absent", cap |-> 0, uses |-> 0,
          active |-> FALSE, from |-> {}, to |-> {}, landing |-> 0]

NoEdit == [cap |-> {}, active |-> {}, from |-> {}, to |-> {}, landing |-> {}]

ASSUME NoIdAssumption == NoId \notin KeyIds
ASSUME FiniteAssumption == IsFiniteSet(Calls)
ASSUME TimeAssumption == MaxTime \in Nat
ASSUME HubspotAssumption == HubspotOn \in BOOLEAN
ASSUME EditsAssumption == Edits \subseteq Edit
ASSUME DraftsAssumption ==
    /\ Drafts \subseteq Row
    /\ \A d \in Drafts : /\ d.mode # "absent" /\ d.uses = 0 /\ d.active
                         /\ d.mode = "school" => d.code # 0

VARIABLES
    key,      \* table [key]
    usage,    \* table key_usage: the calls whose row was inserted
    adm,      \* administration requests
    call,     \* IncrementUsage requests
    crm,      \* what HubSpot knows of each key
    now       \* SYSUTCDATETIME()

vars == <<key, usage, adm, call, crm, now>>

(***************************************************************************)
(* Operators on rows                                                       *)
(***************************************************************************)

Stored(k) == key[k].mode # "absent"

\* What a nil pointer leaves alone and a non-nil one replaces.
Merge(p, old) == IF p = {} THEN old ELSE CHOOSE v \in p : TRUE

\* The check both Generate and Update make of the two bounds they hold.
Ordered(row) == \A f \in row.from, t \in row.to : f < t

InWindow(row) == /\ \A f \in row.from : f <= now
                 /\ \A t \in row.to : now <= t

\* Variant: the limit is compared with <=.
FreeSeatOffByOne(row) == row.cap = 0 \/ row.uses <= row.cap

FreeSeat(row) == row.cap = 0 \/ row.uses < row.cap

\* Key.IsUsable: activity and window, never the seats.
IsUsable(row) == row.active /\ InWindow(row)

LanNumbers == { key[k].code : k \in { i \in KeyIds : /\ key[i].mode = "lan"
                                                    /\ key[i].code > 0 } }

\* The consecutive that follows the highest one, or 1.
NextLanNumbers == { n + 1 : n \in { l \in {0} \cup LanNumbers :
                                      \A m \in LanNumbers : m <= l } }

PayloadOf(row) == [cap |-> row.cap, from |-> row.from, to |-> row.to]

\* ExistsByKeyUser
HasUsage(k, u) == \E c \in usage : call[c].key = k /\ call[c].user = u

\* The distinct students of a key.
UsersOf(k) == { call[c].user : c \in { d \in usage : call[d].key = k } }

\* Calls whose IncrementUses affected a row: the seats handed out.
Counted(k) == { c \in Calls : call[c].rows = 1 /\ call[c].key = k }

Request == [pc: {"idle", "number", "save", "find", "others", "write", "sync",
                 "done", "rejected", "failed", "cutShort"},
            op: {"none", "generate", "update", "resync", "deactivate"},
            id: KeyIds \cup {NoId}, row: Row, edit: Edit]

Increment == [pc: {"idle", "increment", "exists", "save", "done"},
              key: KeyIds \cup {NoId}, user: Users \cup {NoId}, rows: 0..1,
              result: {"none", "ok", "notUsable", "failed"}]

Init ==
    /\ key = [k \in KeyIds |-> NoRow]
    /\ usage = {}
    /\ adm = [r \in Reqs |-> [pc |-> "idle", op |-> "none", id |-> NoId,
                              row |-> NoRow, edit |-> NoEdit]]
    /\ call = [c \in Calls |-> [pc |-> "idle", key |-> NoId, user |-> NoId,
                                rows |-> 0, result |-> "none"]]
    /\ crm = [k \in KeyIds |-> {}]
    /\ now = 0

Tick == /\ now < MaxTime
        /\ now' = now + 1
        /\ UNCHANGED <<key, usage, adm, call, crm>>

(***************************************************************************)
(* Administration                                                          *)
(***************************************************************************)

At(r, p) == adm[r].pc = p
Goto(r, p) == adm' = [adm EXCEPT ![r].pc = p]

\* The last statement of Generate and Update: the goroutine, if any.
AfterWrite == IF HubspotOn THEN "sync" ELSE "done"

\* Generate up to its first statement: the input checks and the name.
GenerateStart(r) ==
    /\ At(r, "idle")
    /\ \E d \in Drafts :
         adm' = [adm EXCEPT ![r] =
                   [@ EXCEPT !.op = "generate", !.row = d,
                             !.pc = IF ~ Ordered(d) THEN "rejected"
                                    ELSE IF d.code = 0 THEN "number"
                                    ELSE "save"]]
    /\ UNCHANGED <<key, usage, call, crm, now>>

\* NextLanNumber: the name is read, not reserved.
GenerateNumber(r) ==
    /\ At(r, "number")
    /\ \E n \in NextLanNumbers :
         adm' = [adm EXCEPT ![r].row.code = n, ![r].pc = "save"]
    /\ UNCHANGED <<key, usage, call, crm, now>>

\* Save: INSERT, refused by uk_key_code when the code is taken.
GenerateSave(r) ==
    /\ At(r, "save")
    /\ \/ /\ \E k \in KeyIds : Stored(k) /\ key[k].code = adm[r].row.code
          /\ Goto(r, "rejected")
          /\ UNCHANGED key
       \/ /\ \A k \in KeyIds : Stored(k) => key[k].code # adm[r].row.code
          /\ \E k \in KeyIds :
               /\ ~ Stored(k)
               /\ key' = [key EXCEPT ![k] = adm[r].row]
               /\ adm' = [adm EXCEPT ![r].id = k, ![r].pc = "find"]
    /\ UNCHANGED <<usage, call, crm, now>>

\* FindByID of the row just saved.
GenerateFind(r) ==
    /\ At(r, "find")
    /\ LET saved == key[adm[r].id] IN
       adm' = [adm EXCEPT ![r].row = saved,
                          ![r].pc = IF adm[r].row.mode = "lan"
                                    THEN "others" ELSE AfterWrite]
    /\ UNCHANGED <<key, usage, call, crm, now>>

\* DeactivateOtherLans, from Generate and from an Update that activates.
DeactivateOtherLans(r) ==
    /\ At(r, "others")
    /\ key' = [k \in KeyIds |->
                 IF key[k].mode = "lan" /\ k # adm[r].id
                 THEN [key[k] EXCEPT !.active = FALSE] ELSE key[k]]
    /\ Goto(r, AfterWrite)
    /\ UNCHANGED <<usage, call, crm, now>>

\* Update: FindByID, the merge with the input, the range check.
UpdateRead(r) ==
    /\ At(r, "idle")
    /\ \E k \in KeyIds, e \in Edits :
         /\ Stored(k)
         /\ LET row == [key[k] EXCEPT !.cap = Merge(e.cap, @),
                                      !.active = Merge(e.active, @),
                                      !.from = IF e.from = {} THEN @ ELSE e.from,
                                      !.to = IF e.to = {} THEN @ ELSE e.to,
                                      !.landing = Merge(e.landing, @)]
            IN adm' = [adm EXCEPT ![r] =
                         [pc |-> IF Ordered(row) THEN "write" ELSE "rejected",
                          op |-> "update", id |-> k, row |-> row, edit |-> e]]
    /\ UNCHANGED <<key, usage, call, crm, now>>

\* What the UPDATE of KeyRepo.Update stores: every editable column.
Written(old, row) == [old EXCEPT !.cap = row.cap, !.from = row.from,
                                 !.to = row.to, !.active = row.active,
                                 !.landing = row.landing]

\* Variant: an Update that activates a LAN key leaves the others alone.
UpdateWriteAlone(r) ==
    /\ At(r, "write")
    /\ key' = [key EXCEPT ![adm[r].id] = Written(@, adm[r].row)]
    /\ Goto(r, AfterWrite)
    /\ UNCHANGED <<usage, call, crm, now>>

UpdateWrite(r) ==
    /\ At(r, "write")
    /\ key' = [key EXCEPT ![adm[r].id] = Written(@, adm[r].row)]
    /\ Goto(r, IF adm[r].edit.active = {TRUE} /\ adm[r].row.mode = "lan"
               THEN "others" ELSE AfterWrite)
    /\ UNCHANGED <<usage, call, crm, now>>

\* Deactivate: one statement, nothing is synchronised.
Deactivate(r) ==
    /\ At(r, "idle")
    /\ \E k \in KeyIds :
         /\ Stored(k)
         /\ key' = [key EXCEPT ![k].active = FALSE]
         /\ adm' = [adm EXCEPT ![r].op = "deactivate", ![r].id = k,
                               ![r].pc = "done"]
    /\ UNCHANGED <<usage, call, crm, now>>

\* Resync reads the row and waits for SyncKey.
ResyncRead(r) ==
    /\ At(r, "idle")
    /\ \E k \in KeyIds :
         /\ Stored(k)
         /\ adm' = [adm EXCEPT ![r].op = "resync", ![r].id = k,
                               ![r].row = key[k], ![r].pc = AfterWrite]
    /\ UNCHANGED <<key, usage, call, crm, now>>

\* FindByID or SetActive of an id that no row has.
NotFound(r) ==
    /\ At(r, "idle")
    /\ \E k \in KeyIds : ~ Stored(k)
    /\ Goto(r, "rejected")
    /\ UNCHANGED <<key, usage, call, crm, now>>

\* SyncKey: an upsert of the payload the handler held; or its 15 s run out.
Sync(r) ==
    /\ At(r, "sync")
    /\ \/ crm' = [crm EXCEPT ![adm[r].id] = {PayloadOf(adm[r].row)}]
       \/ UNCHANGED crm
    /\ Goto(r, "done")
    /\ UNCHANGED <<key, usage, call, now>>

\* The statement fails or the pod dies: what was written stays written.
AdminFails(r) ==
    /\ \/ adm[r].pc \in {"number", "save", "write"} /\ Goto(r, "failed")
       \/ adm[r].pc \in {"find", "others"} /\ Goto(r, "cutShort")
    /\ UNCHANGED <<key, usage, call, crm, now>>

(***************************************************************************)
(* IncrementUsage                                                          *)
(***************************************************************************)

\* exams_service has validated the key: the call names a stored key.
IncrementStart(c) ==
    /\ call[c].pc = "idle"
    /\ \E k \in KeyIds, u \in Users :
         /\ Stored(k)
         /\ call' = [call EXCEPT ![c].key = k, ![c].user = u,
                                 ![c].pc = "increment"]
    /\ UNCHANGED <<key, usage, adm, crm, now>>

\* The WHERE clause of IncrementUses.
Increments(c) ==
    LET k == call[c].key IN
    /\ IsUsable(key[k])
    /\ FreeSeat(key[k])
    /\ ~ HasUsage(k, call[c].user)

\* IncrementUses: the guarded UPDATE and the rows it affected.
IncrementUses(c) ==
    /\ call[c].pc = "increment"
    /\ \/ /\ Increments(c)
          /\ key' = [key EXCEPT ![call[c].key].uses = @ + 1]
          /\ call' = [call EXCEPT ![c].rows = 1, ![c].pc = "save"]
       \/ /\ ~ Increments(c)
          /\ call' = [call EXCEPT ![c].pc = "exists"]
          /\ UNCHANGED key
    /\ UNCHANGED <<usage, adm, crm, now>>

\* Variant: a retry must also find the key usable.
CheckUsableAgain(c) ==
    /\ call[c].pc = "exists"
    /\ LET retry == /\ HasUsage(call[c].key, call[c].user)
                    /\ IsUsable(key[call[c].key])
       IN call' = IF retry
                  THEN [call EXCEPT ![c].pc = "save"]
                  ELSE [call EXCEPT ![c].pc = "done", ![c].result = "notUsable"]
    /\ UNCHANGED <<key, usage, adm, crm, now>>

\* ExistsByKeyUser: a retry goes on, a new student is refused.
CheckExisting(c) ==
    /\ call[c].pc = "exists"
    /\ \/ /\ HasUsage(call[c].key, call[c].user)
          /\ call' = [call EXCEPT ![c].pc = "save"]
       \/ /\ ~ HasUsage(call[c].key, call[c].user)
          /\ call' = [call EXCEPT ![c].pc = "done", ![c].result = "notUsable"]
    /\ UNCHANGED <<key, usage, adm, crm, now>>

\* Variant: the usage row is not inserted.
SaveNothing(c) ==
    /\ call[c].pc = "save"
    /\ call' = [call EXCEPT ![c].pc = "done", ![c].result = "ok"]
    /\ UNCHANGED <<key, usage, adm, crm, now>>

\* keyUsages.Save: the audit row of the attempt.
SaveUsage(c) ==
    /\ call[c].pc = "save"
    /\ usage' = usage \cup {c}
    /\ call' = [call EXCEPT ![c].pc = "done", ![c].result = "ok"]
    /\ UNCHANGED <<key, adm, crm, now>>

\* A statement fails or the pod dies: the seat, if taken, stays taken.
IncrementFails(c) ==
    /\ call[c].pc \in {"increment", "exists", "save"}
    /\ call' = [call EXCEPT ![c].pc = "done", ![c].result = "failed"]
    /\ UNCHANGED <<key, usage, adm, crm, now>>

-----------------------------------------------------------------------------

AdminStep(r) == \/ GenerateNumber(r) \/ GenerateSave(r) \/ GenerateFind(r)
                \/ DeactivateOtherLans(r) \/ UpdateWrite(r) \/ Sync(r)

AdminStart(r) == \/ GenerateStart(r) \/ UpdateRead(r) \/ Deactivate(r)
                 \/ ResyncRead(r) \/ NotFound(r)

CallStep(c) == IncrementUses(c) \/ CheckExisting(c) \/ SaveUsage(c)

Next == \/ \E r \in Reqs : AdminStart(r) \/ AdminStep(r) \/ AdminFails(r)
        \/ \E c \in Calls : IncrementStart(c) \/ CallStep(c) \/ IncrementFails(c)
        \/ Tick

\* A handler that started runs on; nobody is obliged to start one.
Fairness == /\ \A r \in Reqs : WF_vars(AdminStep(r) \/ AdminFails(r))
            /\ \A c \in Calls : WF_vars(CallStep(c) \/ IncrementFails(c))

Spec == Init /\ [][Next]_vars
FairSpec == Spec /\ Fairness
-----------------------------------------------------------------------------
(***************************************************************************)
(* Properties                                                              *)
(***************************************************************************)

TypeOK == /\ key \in [KeyIds -> Row]
          /\ usage \subseteq Calls
          /\ adm \in [Reqs -> Request]
          /\ call \in [Calls -> Increment]
          /\ crm \in [KeyIds -> Ptr(Payload)]
          /\ now \in 0..MaxTime

(* current_uses never lags behind the students: however IncrementUses,      *)
(* ExistsByKeyUser and the insert of key_usage interleave, fail or retry,   *)
(* a key has at most as many distinct students in key_usage as seats it     *)
(* counted.                                                                *)
SeatsCoverStudents == \A k \in KeyIds : Cardinality(UsersOf(k)) <= key[k].uses

(* No request in between its write and its DeactivateOtherLans, and none    *)
(* that died there, or wrote back an `active` it had only read, accounts    *)
(* for the pair of LAN keys k1, k2 being active.                           *)
Settling(r) == /\ adm[r].row.mode = "lan"
               /\ adm[r].pc \in {"find", "others", "cutShort"}

WroteBackActive(r) == /\ adm[r].op = "update"
                      /\ adm[r].edit.active = {}
                      /\ adm[r].row.active
                      /\ adm[r].pc \in {"sync", "done"}

ActiveLan(k) == key[k].mode = "lan" /\ key[k].active

(* Two LAN keys are active at once only because a Generate or Update of one *)
(* of the two has not reached its DeactivateOtherLans, was cut short before *)
(* it, or was an Update without `active` that stored the value it had read. *)
(* Every other interleaving of Generate, Update and Deactivate keeps one.  *)
LanExclusive ==
    \A k1, k2 \in KeyIds :
        ActiveLan(k1) /\ ActiveLan(k2) /\ k1 # k2 =>
            \E r \in Reqs : /\ adm[r].id \in {k1, k2}
                            /\ Settling(r) \/ WroteBackActive(r)

(* Concurrent Updates, each of which checked the range against the row it   *)
(* had read, never leave a stored or synchronised window with its start     *)
(* after its end: the UPDATE writes both bounds, never one.                *)
WindowsOrdered == \A k \in KeyIds :
    /\ Ordered(key[k])
    /\ \A p \in crm[k] : Ordered(p)

(* A student whose usage row exists when a call starts is never told that   *)
(* the key is not usable, full, expired or deactivated as it may be, and    *)
(* takes no second seat, whoever else runs beside the call.                *)
RetriesAdmitted ==
    \A c \in Calls :
        [](call[c].pc = "increment" /\ HasUsage(call[c].key, call[c].user)
             => [](call[c].result # "notUsable" /\ call[c].rows = 0))

(* Every call that begins gets an answer, and one whose seat was taken      *)
(* leaves its usage row unless a statement failed.                         *)
SeatSettles ==
    \A c \in Calls : call[c].rows = 1 ~> c \in usage \/ call[c].result = "failed"

(* What a comment of IncrementUses says: the NOT EXISTS prevents the race   *)
(* of two concurrent requests of the same student, so a student never       *)
(* takes two seats of a key.                                               *)
OneSeatPerStudent ==
    \A c, d \in Calls : \/ c = d
                        \/ call[c].rows = 0 \/ call[d].rows = 0
                        \/ call[c].key # call[d].key
                        \/ call[c].user # call[d].user

(* What the comments of Generate, Update and DeactivateOtherLans say: once  *)
(* the requests are over, and none failed, at most one LAN key is active.  *)
OneActiveLan ==
    (\A r \in Reqs : adm[r].pc \in {"idle", "sync", "done", "rejected"}) =>
        \A k1, k2 \in KeyIds : ActiveLan(k1) /\ ActiveLan(k2) => k1 = k2

(* What UpdateKey says of a nil field: "nil = do not touch".                *)
NilLeavesAlone ==
    [][\A r \in Reqs :
         UpdateWrite(r) /\ adm[r].edit.landing = {} =>
             key'[adm[r].id].landing = key[adm[r].id].landing]_vars

(* keys_service implements the ledger of seats: its requests, retries and   *)
(* failures amount to limits set, seats taken below the limit in force and  *)
(* students admitted while the seats cover them.                           *)
Seats == INSTANCE SeatLedger WITH
            cap <- [k \in KeyIds |-> key[k].cap],
            taken <- [k \in KeyIds |-> key[k].uses],
            holders <- [k \in KeyIds |-> UsersOf(k)],
            Size <- Cardinality

SeatsSpec == Seats!Spec
=============================================================================
