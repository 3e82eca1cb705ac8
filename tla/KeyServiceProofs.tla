--------------------------- MODULE KeyServiceProofs ---------------------------
(***************************************************************************)
(* Theorems about keys_service, for every set of keys, students, requests,  *)
(* drafts and edits.                                                       *)
(*                                                                         *)
(* TypeOK is inductive with CallsOnKeys; the seats need that current_uses   *)
(* equals the number of counted calls and that every call with a usage row, *)
(* or about to insert one, is backed by a counted call of its student.      *)
(***************************************************************************)
EXTENDS KeyService, FiniteSetTheorems, FunctionTheorems, TLAPS

-----------------------------------------------------------------------------
(* Type correctness                                                        *)

\* What the pcs say of the fields that start out empty.
Started ==
    /\ \A r \in Reqs : adm[r].pc \in {"find", "others", "write", "sync", "cutShort"}
                         => adm[r].id \in KeyIds
    /\ \A c \in Calls : call[c].pc # "idle"
                         => call[c].key \in KeyIds /\ call[c].user \in Users

TypeInv == TypeOK /\ Started

(* Merging an optional value into a value of its type keeps the type, as    *)
(* the assignments under the nil checks of Update do.                      *)
LEMMA MergeType ==
    ASSUME NEW S, NEW p \in Ptr(S), NEW old \in S
    PROVE  Merge(p, old) \in S
BY DEF Merge, Ptr

LEMMA ConstantTypes ==
    /\ NoRow \in Row
    /\ NoEdit \in Edit
    /\ \A row \in Row : PayloadOf(row) \in Payload
BY DEF NoRow, NoEdit, Row, Edit, Ptr, PayloadOf, Payload

LEMMA TypeInit == Init => TypeInv
<1> SUFFICES ASSUME Init PROVE TypeInv
    OBVIOUS
<1>1. key \in [KeyIds -> Row]
    BY ConstantTypes DEF Init
<1>2. adm \in [Reqs -> Request]
    BY ConstantTypes DEF Init, Request
<1>3. call \in [Calls -> Increment]
    BY DEF Init, Increment
<1>4. crm \in [KeyIds -> Ptr(Payload)]
    BY DEF Init, Ptr
<1>5. usage \subseteq Calls /\ now \in 0..MaxTime
    BY TimeAssumption DEF Init
<1>6. Started
    BY DEF Init, Started
<1> QED BY <1>1, <1>2, <1>3, <1>4, <1>5, <1>6 DEF TypeInv, TypeOK

(* A request that moves on to a well-typed record, holding an id whenever    *)
(* its pc says so, keeps TypeInv if what it wrote to the tables is typed.    *)
LEMMA AdmType ==
    ASSUME TypeInv, UNCHANGED <<usage, call, now>>,
           key' \in [KeyIds -> Row], crm' \in [KeyIds -> Ptr(Payload)],
           NEW r \in Reqs, NEW q \in Request,
           q.pc \in {"find", "others", "write", "sync", "cutShort"}
               => q.id \in KeyIds,
           adm' = [adm EXCEPT ![r] = q]
    PROVE  TypeInv'
<1>1. adm' \in [Reqs -> Request]
    BY DEF TypeInv, TypeOK
<1>2. TypeOK'
    BY <1>1 DEF TypeInv, TypeOK
<1>3. Started'
    BY DEF TypeInv, TypeOK, Started
<1> QED BY <1>2, <1>3 DEF TypeInv

(* The same for a call.                                                    *)
LEMMA CallType ==
    ASSUME TypeInv, UNCHANGED <<adm, crm, now>>,
           key' \in [KeyIds -> Row], usage' \subseteq Calls,
           NEW c \in Calls, NEW q \in Increment,
           q.pc # "idle" => q.key \in KeyIds /\ q.user \in Users,
           call' = [call EXCEPT ![c] = q]
    PROVE  TypeInv'
<1>1. call' \in [Calls -> Increment]
    BY DEF TypeInv, TypeOK
<1>2. TypeOK'
    BY <1>1 DEF TypeInv, TypeOK
<1>3. Started'
    BY DEF TypeInv, TypeOK, Started
<1> QED BY <1>2, <1>3 DEF TypeInv

LEMMA TypeStart ==
    ASSUME TypeInv, NEW r \in Reqs, AdminStart(r)
    PROVE  TypeInv'
<1>a. adm[r] \in Request
    BY DEF TypeInv, TypeOK
<1>b. adm[r].pc \in {"find", "others", "write", "sync", "cutShort"} => adm[r].id \in KeyIds
    BY DEF TypeInv, Started
<1>c. key \in [KeyIds -> Row] /\ crm \in [KeyIds -> Ptr(Payload)]
    BY DEF TypeInv, TypeOK
<1>1. CASE GenerateStart(r)
    <2>1. PICK d \in Drafts :
            adm' = [adm EXCEPT ![r] =
                     [@ EXCEPT !.op = "generate", !.row = d,
                               !.pc = IF ~ Ordered(d) THEN "rejected"
                                      ELSE IF d.code = 0 THEN "number"
                                      ELSE "save"]]
        BY <1>1 DEF GenerateStart
    <2> DEFINE p == IF ~ Ordered(d) THEN "rejected"
                    ELSE IF d.code = 0 THEN "number" ELSE "save"
    <2> DEFINE q == [adm[r] EXCEPT !.op = "generate", !.row = d, !.pc = p]
    <2>2. d \in Row
        BY DraftsAssumption
    <2>3. p \in {"rejected", "number", "save"}
        OBVIOUS
    <2>4. adm' = [adm EXCEPT ![r] = q]
        BY <2>1
    <2> HIDE DEF p
    <2>5. q \in Request /\ q.pc = p
        BY <2>2, <2>3, <1>a DEF Request
    <2> HIDE DEF q
    <2> QED BY <2>3, <2>4, <2>5, <1>1, <1>c, AdmType DEF GenerateStart
<1>2. CASE UpdateRead(r)
    <2>1. PICK k \in KeyIds, e \in Edits :
            /\ Stored(k)
            /\ LET row == [key[k] EXCEPT !.cap = Merge(e.cap, @),
                                         !.active = Merge(e.active, @),
                                         !.from = IF e.from = {} THEN @ ELSE e.from,
                                         !.to = IF e.to = {} THEN @ ELSE e.to,
                                         !.landing = Merge(e.landing, @)]
               IN adm' = [adm EXCEPT ![r] =
                            [pc |-> IF Ordered(row) THEN "write" ELSE "rejected",
                             op |-> "update", id |-> k, row |-> row, edit |-> e]]
        BY <1>2 DEF UpdateRead
    <2> DEFINE row == [key[k] EXCEPT !.cap = Merge(e.cap, @),
                                     !.active = Merge(e.active, @),
                                     !.from = IF e.from = {} THEN @ ELSE e.from,
                                     !.to = IF e.to = {} THEN @ ELSE e.to,
                                     !.landing = Merge(e.landing, @)]
    <2> DEFINE q == [pc |-> IF Ordered(row) THEN "write" ELSE "rejected",
                     op |-> "update", id |-> k, row |-> row, edit |-> e]
    <2>2. e \in Edit /\ key[k] \in Row
        BY EditsAssumption DEF TypeInv, TypeOK
    <2>3. /\ Merge(e.cap, key[k].cap) \in Int
          /\ Merge(e.active, key[k].active) \in BOOLEAN
          /\ Merge(e.landing, key[k].landing) \in Int
        BY <2>2, MergeType DEF Edit, Row
    <2>4. row \in Row
        BY <2>2, <2>3 DEF Edit, Row
    <2>5. q \in Request /\ q.id \in KeyIds
        BY <2>2, <2>4 DEF Request
    <2>6. adm' = [adm EXCEPT ![r] = q]
        BY <2>1
    <2> HIDE DEF q
    <2> QED BY <2>5, <2>6, <1>2, <1>c, AdmType DEF UpdateRead
<1>3. CASE Deactivate(r)
    <2>1. PICK k \in KeyIds :
            /\ key' = [key EXCEPT ![k].active = FALSE]
            /\ adm' = [adm EXCEPT ![r].op = "deactivate", ![r].id = k,
                                  ![r].pc = "done"]
        BY <1>3 DEF Deactivate
    <2> DEFINE q == [adm[r] EXCEPT !.op = "deactivate", !.id = k, !.pc = "done"]
    <2>2. q \in Request /\ q.pc = "done"
        BY <1>a DEF Request
    <2>3. [key[k] EXCEPT !.active = FALSE] \in Row
        BY <1>c DEF Row
    <2>4. key' \in [KeyIds -> Row]
        BY <2>1, <2>3, <1>c
    <2>5. adm' = [adm EXCEPT ![r] = q]
        BY <2>1
    <2> HIDE DEF q
    <2> QED BY <2>2, <2>4, <2>5, <1>3, <1>c, AdmType DEF Deactivate
<1>4. CASE ResyncRead(r)
    <2>1. PICK k \in KeyIds :
            adm' = [adm EXCEPT ![r].op = "resync", ![r].id = k,
                               ![r].row = key[k], ![r].pc = AfterWrite]
        BY <1>4 DEF ResyncRead
    <2> DEFINE q == [adm[r] EXCEPT !.op = "resync", !.id = k, !.row = key[k],
                                   !.pc = AfterWrite]
    <2>2. q \in Request /\ q.id = k
        BY <1>a, <1>c DEF Request, AfterWrite
    <2>3. adm' = [adm EXCEPT ![r] = q]
        BY <2>1
    <2> HIDE DEF q
    <2> QED BY <2>2, <2>3, <1>4, <1>c, AdmType DEF ResyncRead
<1>5. CASE NotFound(r)
    <2> DEFINE q == [adm[r] EXCEPT !.pc = "rejected"]
    <2>1. q \in Request /\ q.pc = "rejected"
        BY <1>a DEF Request
    <2>2. adm' = [adm EXCEPT ![r] = q]
        BY <1>5 DEF NotFound, Goto
    <2> HIDE DEF q
    <2> QED BY <2>1, <2>2, <1>5, <1>c, AdmType DEF NotFound
<1> QED BY <1>1, <1>2, <1>3, <1>4, <1>5 DEF AdminStart

LEMMA TypeAdmin ==
    ASSUME TypeInv, NEW r \in Reqs, AdminStep(r) \/ AdminFails(r)
    PROVE  TypeInv'
<1>a. adm[r] \in Request
    BY DEF TypeInv, TypeOK
<1>b. adm[r].pc \in {"find", "others", "write", "sync", "cutShort"} => adm[r].id \in KeyIds
    BY DEF TypeInv, Started
<1>c. key \in [KeyIds -> Row] /\ crm \in [KeyIds -> Ptr(Payload)]
    BY DEF TypeInv, TypeOK
<1>1. CASE GenerateNumber(r)
    <2>1. PICK n \in NextLanNumbers :
            adm' = [adm EXCEPT ![r].row.code = n, ![r].pc = "save"]
        BY <1>1 DEF GenerateNumber
    <2>2. n \in Int
        BY <1>c DEF NextLanNumbers, LanNumbers, Row
    <2> DEFINE row == [adm[r].row EXCEPT !.code = n]
               q == [adm[r] EXCEPT !.row = row, !.pc = "save"]
    <2>3. row \in Row
        BY <2>2, <1>a DEF Request, Row
    <2>4. adm' = [adm EXCEPT ![r] = q]
        BY <2>1
    <2> HIDE DEF row
    <2>5. q \in Request /\ q.pc = "save"
        BY <2>3, <1>a DEF Request
    <2> HIDE DEF q
    <2> QED BY <2>4, <2>5, <1>1, <1>c, AdmType DEF GenerateNumber
<1>2. CASE GenerateSave(r)
    <2>1. CASE Goto(r, "rejected") /\ UNCHANGED key
        <3> DEFINE q == [adm[r] EXCEPT !.pc = "rejected"]
        <3>1. q \in Request /\ q.pc = "rejected"
            BY <1>a DEF Request
        <3>2. adm' = [adm EXCEPT ![r] = q]
            BY <2>1 DEF Goto
        <3> HIDE DEF q
        <3> QED BY <2>1, <3>1, <3>2, <1>2, <1>c, AdmType DEF GenerateSave
    <2>2. CASE \E k \in KeyIds :
                 /\ key' = [key EXCEPT ![k] = adm[r].row]
                 /\ adm' = [adm EXCEPT ![r].id = k, ![r].pc = "find"]
        <3>1. PICK k \in KeyIds :
                 /\ key' = [key EXCEPT ![k] = adm[r].row]
                 /\ adm' = [adm EXCEPT ![r].id = k, ![r].pc = "find"]
            BY <2>2
        <3> DEFINE q == [adm[r] EXCEPT !.id = k, !.pc = "find"]
        <3>2. q \in Request /\ q.id = k
            BY <1>a DEF Request
        <3>3. adm' = [adm EXCEPT ![r] = q]
            BY <3>1
        <3>4. key' \in [KeyIds -> Row]
            BY <3>1, <1>a, <1>c DEF Request
        <3> HIDE DEF q
        <3> QED BY <3>2, <3>3, <3>4, <1>2, <1>c, AdmType DEF GenerateSave
    <2> QED BY <1>2, <2>1, <2>2 DEF GenerateSave
<1>3. CASE GenerateFind(r)
    <2> DEFINE p == IF adm[r].row.mode = "lan" THEN "others" ELSE AfterWrite
               q == [adm[r] EXCEPT !.row = key[adm[r].id], !.pc = p]
    <2>1. adm[r].id \in KeyIds
        BY <1>3, <1>b DEF GenerateFind, At
    <2>2. p \in {"others", "sync", "done"}
        BY DEF AfterWrite
    <2>3. adm' = [adm EXCEPT ![r] = q]
        BY <1>3 DEF GenerateFind
    <2> HIDE DEF p
    <2>4. q \in Request /\ q.id = adm[r].id
        BY <2>1, <2>2, <1>a, <1>c DEF Request
    <2> HIDE DEF q
    <2> QED BY <2>1, <2>3, <2>4, <1>3, <1>c, AdmType DEF GenerateFind
<1>4. CASE DeactivateOtherLans(r)
    <2> DEFINE q == [adm[r] EXCEPT !.pc = AfterWrite]
    <2>1. adm[r].id \in KeyIds
        BY <1>4, <1>b DEF DeactivateOtherLans, At
    <2>2. q \in Request /\ q.id = adm[r].id
        BY <1>a DEF Request, AfterWrite
    <2>3. adm' = [adm EXCEPT ![r] = q]
        BY <1>4 DEF DeactivateOtherLans, Goto
    <2>4. \A k \in KeyIds : [key[k] EXCEPT !.active = FALSE] \in Row
        BY <1>c DEF Row
    <2>5. key' \in [KeyIds -> Row]
        BY <2>4, <1>c, <1>4 DEF DeactivateOtherLans
    <2> HIDE DEF q
    <2> QED BY <2>1, <2>2, <2>3, <2>5, <1>4, <1>c, AdmType DEF DeactivateOtherLans
<1>5. CASE UpdateWrite(r)
    <2> DEFINE p == IF adm[r].edit.active = {TRUE} /\ adm[r].row.mode = "lan"
                    THEN "others" ELSE AfterWrite
               q == [adm[r] EXCEPT !.pc = p]
    <2>1. adm[r].id \in KeyIds
        BY <1>5, <1>b DEF UpdateWrite, At
    <2>2. p \in {"others", "sync", "done"}
        BY DEF AfterWrite
    <2>3. adm' = [adm EXCEPT ![r] = q]
        BY <1>5 DEF UpdateWrite, Goto
    <2> HIDE DEF p
    <2>4. q \in Request /\ q.id = adm[r].id
        BY <2>2, <1>a DEF Request
    <2>5. Written(key[adm[r].id], adm[r].row) \in Row
        BY <2>1, <1>a, <1>c DEF Written, Request, Row
    <2>6. key' \in [KeyIds -> Row]
        BY <2>5, <1>c, <1>5 DEF UpdateWrite
    <2> HIDE DEF q
    <2> QED BY <2>1, <2>3, <2>4, <2>6, <1>5, <1>c, AdmType DEF UpdateWrite
<1>6. CASE Sync(r)
    <2> DEFINE q == [adm[r] EXCEPT !.pc = "done"]
    <2>1. q \in Request /\ q.pc = "done"
        BY <1>a DEF Request
    <2>2. adm' = [adm EXCEPT ![r] = q]
        BY <1>6 DEF Sync, Goto
    <2>3. {PayloadOf(adm[r].row)} \in Ptr(Payload)
        BY <1>a, ConstantTypes DEF Ptr, Request
    <2>4. crm' \in [KeyIds -> Ptr(Payload)]
        BY <2>3, <1>c, <1>6 DEF Sync
    <2> HIDE DEF q
    <2> QED BY <2>1, <2>2, <2>4, <1>6, <1>c, AdmType DEF Sync
<1>7. CASE AdminFails(r)
    <2>1. PICK p \in {"failed", "cutShort"} :
            /\ adm' = [adm EXCEPT ![r].pc = p]
            /\ p = "cutShort" => adm[r].pc \in {"find", "others"}
        BY <1>7 DEF AdminFails, Goto
    <2> DEFINE q == [adm[r] EXCEPT !.pc = p]
    <2>2. q \in Request /\ q.pc = p /\ q.id = adm[r].id
        BY <1>a DEF Request
    <2>3. adm' = [adm EXCEPT ![r] = q]
        BY <2>1
    <2> HIDE DEF q
    <2> QED BY <2>1, <2>2, <2>3, <1>7, <1>b, <1>c, AdmType DEF AdminFails
<1> QED BY <1>1, <1>2, <1>3, <1>4, <1>5, <1>6, <1>7 DEF AdminStep

LEMMA TypeCall ==
    ASSUME TypeInv, NEW c \in Calls,
           IncrementStart(c) \/ CallStep(c) \/ IncrementFails(c)
    PROVE  TypeInv'
<1>a. call[c] \in Increment
    BY DEF TypeInv, TypeOK
<1>b. call[c].pc # "idle" => call[c].key \in KeyIds /\ call[c].user \in Users
    BY DEF TypeInv, Started
<1>c. key \in [KeyIds -> Row] /\ usage \subseteq Calls
    BY DEF TypeInv, TypeOK
<1>1. CASE IncrementStart(c)
    <2>1. PICK k \in KeyIds, u \in Users :
            call' = [call EXCEPT ![c].key = k, ![c].user = u, ![c].pc = "increment"]
        BY <1>1 DEF IncrementStart
    <2> DEFINE q == [call[c] EXCEPT !.key = k, !.user = u, !.pc = "increment"]
    <2>2. q \in Increment /\ q.key = k /\ q.user = u
        BY <1>a DEF Increment
    <2>3. call' = [call EXCEPT ![c] = q]
        BY <2>1
    <2> HIDE DEF q
    <2> QED BY <2>2, <2>3, <1>1, <1>c, CallType DEF IncrementStart
<1>2. CASE IncrementUses(c)
    <2>1. CASE /\ key' = [key EXCEPT ![call[c].key].uses = @ + 1]
               /\ call' = [call EXCEPT ![c].rows = 1, ![c].pc = "save"]
        <3> DEFINE q == [call[c] EXCEPT !.rows = 1, !.pc = "save"]
        <3>0. 1 \in 0..1
            OBVIOUS
        <3>1. q \in Increment /\ q.key = call[c].key /\ q.user = call[c].user
            BY <3>0, <1>a, Zenon DEF Increment
        <3>2. call' = [call EXCEPT ![c] = q]
            BY <2>1
        <3>3. \A k \in KeyIds : [key[k] EXCEPT !.uses = @ + 1] \in Row
            BY <1>c DEF Row
        <3>4. key' \in [KeyIds -> Row]
            BY <2>1, <3>3, <1>c
        <3>5. call[c].pc = "increment"
            BY <1>2 DEF IncrementUses
        <3> HIDE DEF q
        <3> QED BY <3>1, <3>2, <3>4, <3>5, <1>2, <1>b, <1>c, CallType DEF IncrementUses
    <2>2. CASE call' = [call EXCEPT ![c].pc = "exists"] /\ UNCHANGED key
        <3> DEFINE q == [call[c] EXCEPT !.pc = "exists"]
        <3>1. q \in Increment /\ q.key = call[c].key /\ q.user = call[c].user
            BY <1>a DEF Increment
        <3>2. call' = [call EXCEPT ![c] = q]
            BY <2>2
        <3>3. call[c].pc = "increment"
            BY <1>2 DEF IncrementUses
        <3> HIDE DEF q
        <3> QED BY <2>2, <3>1, <3>2, <3>3, <1>2, <1>b, <1>c, CallType DEF IncrementUses
    <2> QED BY <1>2, <2>1, <2>2 DEF IncrementUses
<1>3. CASE CheckExisting(c)
    <2>1. PICK p \in {"save", "done"}, res \in {call[c].result, "notUsable"} :
            call' = [call EXCEPT ![c].pc = p, ![c].result = res]
        <3>1. CASE call' = [call EXCEPT ![c].pc = "save"]
            <4>1. [call[c] EXCEPT !.pc = "save"]
                    = [call[c] EXCEPT !.pc = "save", !.result = call[c].result]
                BY <1>a DEF Increment
            <4> QED BY <3>1, <4>1
        <3>2. CASE call' = [call EXCEPT ![c].pc = "done", ![c].result = "notUsable"]
            BY <3>2
        <3> QED BY <1>3, <3>1, <3>2 DEF CheckExisting
    <2> DEFINE q == [call[c] EXCEPT !.pc = p, !.result = res]
    <2>2. q \in Increment /\ q.key = call[c].key /\ q.user = call[c].user
        BY <1>a DEF Increment
    <2>3. call' = [call EXCEPT ![c] = q]
        BY <2>1
    <2>4. call[c].pc = "exists"
        BY <1>3 DEF CheckExisting
    <2> HIDE DEF q
    <2> QED BY <2>2, <2>3, <2>4, <1>3, <1>b, <1>c, CallType DEF CheckExisting
<1>4. CASE SaveUsage(c)
    <2> DEFINE q == [call[c] EXCEPT !.pc = "done", !.result = "ok"]
    <2>1. q \in Increment /\ q.key = call[c].key /\ q.user = call[c].user
        BY <1>a DEF Increment
    <2>2. call' = [call EXCEPT ![c] = q]
        BY <1>4 DEF SaveUsage
    <2>3. call[c].pc = "save"
        BY <1>4 DEF SaveUsage
    <2> HIDE DEF q
    <2> QED BY <2>1, <2>2, <2>3, <1>4, <1>b, <1>c, CallType DEF SaveUsage
<1>5. CASE IncrementFails(c)
    <2> DEFINE q == [call[c] EXCEPT !.pc = "done", !.result = "failed"]
    <2>1. q \in Increment /\ q.key = call[c].key /\ q.user = call[c].user
        BY <1>a DEF Increment
    <2>2. call' = [call EXCEPT ![c] = q]
        BY <1>5 DEF IncrementFails
    <2>3. call[c].pc \in {"increment", "exists", "save"}
        BY <1>5 DEF IncrementFails
    <2> HIDE DEF q
    <2> QED BY <2>1, <2>2, <2>3, <1>5, <1>b, <1>c, CallType DEF IncrementFails
<1> QED BY <1>1, <1>2, <1>3, <1>4, <1>5 DEF CallStep

LEMMA TypeNext == TypeInv /\ [Next]_vars => TypeInv'
<1> SUFFICES ASSUME TypeInv, [Next]_vars PROVE TypeInv'
    OBVIOUS
<1>1. CASE Tick
    BY <1>1, TimeAssumption DEF Tick, TypeInv, TypeOK, Started
<1>2. CASE UNCHANGED vars
    BY <1>2 DEF vars, TypeInv, TypeOK, Started
<1> QED BY <1>1, <1>2, TypeStart, TypeAdmin, TypeCall DEF Next

(* Every reachable state of keys_service is well typed: no handler stores a *)
(* value outside its column, whatever it merged and read before.           *)
THEOREM TypeCorrect == Spec => []TypeOK
<1>1. TypeInv => TypeOK
    BY DEF TypeInv
<1> QED BY <1>1, TypeInit, TypeNext, PTL DEF Spec

-----------------------------------------------------------------------------
(* The seats                                                               *)

\* Some call took a seat for the student of c.
Backed(c) == \E d \in Calls : /\ call[d].rows = 1
                              /\ call[d].key = call[c].key
                              /\ call[d].user = call[c].user

RowsStartAtZero == \A c \in Calls :
    call[c].pc \in {"idle", "increment", "exists"} => call[c].rows = 0

UsageIsBacked == \A c \in Calls : c \in usage \/ call[c].pc = "save" => Backed(c)

UsageIsOver == \A c \in usage : call[c].pc = "done"

CallsOnStoredKeys == \A c \in Calls : call[c].pc # "idle" => Stored(call[c].key)

DraftsAreFresh == \A r \in Reqs :
    adm[r].pc \in {"number", "save"}
        => adm[r].row.uses = 0 /\ adm[r].row.mode # "absent"

UsesCountCalls == \A k \in KeyIds : key[k].uses = Cardinality(Counted(k))

SeatInv == /\ TypeInv
           /\ RowsStartAtZero
           /\ UsageIsBacked
           /\ UsageIsOver
           /\ CallsOnStoredKeys
           /\ DraftsAreFresh
           /\ UsesCountCalls

LEMMA SeatInit == Init => SeatInv
<1> SUFFICES ASSUME Init PROVE SeatInv
    OBVIOUS
<1>1. \A k \in KeyIds : Counted(k) = {}
    BY DEF Init, Counted
<1>2. UsesCountCalls
    BY <1>1, FS_EmptySet DEF Init, UsesCountCalls, NoRow
<1>3. /\ RowsStartAtZero /\ UsageIsBacked /\ UsageIsOver
      /\ CallsOnStoredKeys /\ DraftsAreFresh
    BY DEF Init, RowsStartAtZero, UsageIsBacked, UsageIsOver,
           CallsOnStoredKeys, DraftsAreFresh
<1> QED BY <1>2, <1>3, TypeInit DEF SeatInv

\* What an administration request does to the table: it keeps mode and
\* current_uses, or it stores a new row without uses.
KeepsUses ==
    \A k \in KeyIds :
        \/ key'[k].uses = key[k].uses /\ key'[k].mode = key[k].mode
        \/ ~ Stored(k) /\ key'[k].uses = 0 /\ key'[k].mode # "absent"

LEMMA AdminKeepsUses ==
    ASSUME SeatInv, NEW r \in Reqs, AdminStart(r) \/ AdminStep(r) \/ AdminFails(r)
    PROVE  KeepsUses
<1>a. key \in [KeyIds -> Row] /\ adm[r] \in Request
    BY DEF SeatInv, TypeInv, TypeOK
<1>1. CASE UNCHANGED key
    BY <1>1 DEF KeepsUses
<1>2. CASE GenerateSave(r)
    <2>1. adm[r].row.uses = 0 /\ adm[r].row.mode # "absent"
        BY <1>2 DEF GenerateSave, At, SeatInv, DraftsAreFresh
    <2> QED BY <1>2, <2>1, <1>a DEF GenerateSave, KeepsUses
<1>3. CASE DeactivateOtherLans(r)
    <2>1. \A k \in KeyIds :
            LET row == [key[k] EXCEPT !.active = FALSE]
            IN row.uses = key[k].uses /\ row.mode = key[k].mode
        BY <1>a DEF Row
    <2> QED BY <1>3, <2>1 DEF DeactivateOtherLans, KeepsUses
<1>4. CASE UpdateWrite(r)
    <2>1. \A k \in KeyIds :
            /\ Written(key[k], adm[r].row).uses = key[k].uses
            /\ Written(key[k], adm[r].row).mode = key[k].mode
        BY <1>a DEF Written, Row
    <2> QED BY <1>4, <2>1, <1>a DEF UpdateWrite, KeepsUses
<1>5. CASE Deactivate(r)
    <2>1. \A k \in KeyIds :
            LET row == [key[k] EXCEPT !.active = FALSE]
            IN row.uses = key[k].uses /\ row.mode = key[k].mode
        BY <1>a DEF Row
    <2> QED BY <1>5, <2>1, <1>a DEF Deactivate, KeepsUses
<1> QED BY <1>1, <1>2, <1>3, <1>4, <1>5
        DEF AdminStart, AdminStep, AdminFails, GenerateStart, UpdateRead,
            ResyncRead, NotFound, GenerateNumber, GenerateFind, Sync

LEMMA AdminKeepsDraftsFresh ==
    ASSUME SeatInv, NEW r \in Reqs, AdminStart(r) \/ AdminStep(r) \/ AdminFails(r)
    PROVE  DraftsAreFresh'
<1>a. adm \in [Reqs -> Request] /\ DraftsAreFresh
    BY DEF SeatInv, TypeInv, TypeOK
<1>1. CASE GenerateStart(r)
    <2>1. PICK d \in Drafts :
            adm' = [adm EXCEPT ![r] =
                     [@ EXCEPT !.op = "generate", !.row = d,
                               !.pc = IF ~ Ordered(d) THEN "rejected"
                                      ELSE IF d.code = 0 THEN "number"
                                      ELSE "save"]]
        BY <1>1 DEF GenerateStart
    <2>2. d.uses = 0 /\ d.mode # "absent"
        BY DraftsAssumption
    <2>3. adm'[r].row = d
        BY <2>1, <1>a DEF Request
    <2> QED BY <2>1, <2>2, <2>3, <1>a DEF DraftsAreFresh
<1>2. CASE GenerateNumber(r)
    <2>1. PICK n : adm' = [adm EXCEPT ![r].row.code = n, ![r].pc = "save"]
        BY <1>2 DEF GenerateNumber
    <2>2. adm'[r].row = [adm[r].row EXCEPT !.code = n]
        BY <2>1, <1>a DEF Request
    <2>3. adm'[r].row.uses = adm[r].row.uses /\ adm'[r].row.mode = adm[r].row.mode
        BY <2>2, <1>a DEF Request, Row
    <2> QED BY <1>2, <2>1, <2>3, <1>a DEF GenerateNumber, At, DraftsAreFresh
<1> DEFINE Leaves == /\ adm'[r].pc \notin {"number", "save"}
                     /\ \A q \in Reqs : q # r => adm'[q] = adm[q]
<1>3. CASE Leaves
    BY <1>3, <1>a DEF DraftsAreFresh
<1> USE <1>a DEF Goto, AfterWrite
<1>4. UpdateRead(r) => Leaves
    BY DEF UpdateRead, Request
<1>5. Deactivate(r) => Leaves
    BY DEF Deactivate, Request
<1>6. ResyncRead(r) => Leaves
    BY DEF ResyncRead, Request
<1>7. NotFound(r) => Leaves
    BY DEF NotFound, Request
<1>8. GenerateSave(r) => Leaves
    BY DEF GenerateSave, Request
<1>9. GenerateFind(r) => Leaves
    BY DEF GenerateFind, Request
<1>10. DeactivateOtherLans(r) => Leaves
    BY DEF DeactivateOtherLans, Request
<1>11. UpdateWrite(r) => Leaves
    BY DEF UpdateWrite, Request
<1>12. Sync(r) => Leaves
    BY DEF Sync, Request
<1>13. AdminFails(r) => Leaves
    BY DEF AdminFails, Request
<1> QED
    BY <1>1, <1>2, <1>3, <1>4, <1>5, <1>6, <1>7, <1>8, <1>9, <1>10, <1>11, <1>12, <1>13
    DEF AdminStart, AdminStep

LEMMA SeatAdmin ==
    ASSUME SeatInv, NEW r \in Reqs, AdminStart(r) \/ AdminStep(r) \/ AdminFails(r)
    PROVE  SeatInv'
<1>1. UNCHANGED <<call, usage>>
    BY DEF AdminStart, AdminStep, AdminFails, GenerateStart, UpdateRead, Deactivate,
           ResyncRead, NotFound, GenerateNumber, GenerateSave, GenerateFind,
           DeactivateOtherLans, UpdateWrite, Sync
<1>2. KeepsUses
    BY AdminKeepsUses
<1>3. TypeInv'
    BY TypeStart, TypeAdmin DEF SeatInv
<1>4. RowsStartAtZero' /\ UsageIsBacked' /\ UsageIsOver'
    BY <1>1 DEF SeatInv, RowsStartAtZero, UsageIsBacked, UsageIsOver, Backed
<1>5. CallsOnStoredKeys'
    <2>1. \A k \in KeyIds : Stored(k) => Stored(k)'
        BY <1>2 DEF KeepsUses, Stored
    <2> QED BY <2>1, <1>1 DEF SeatInv, CallsOnStoredKeys, TypeInv, Started
<1>6. UsesCountCalls'
    <2> SUFFICES ASSUME NEW k \in KeyIds
                 PROVE  key'[k].uses = Cardinality(Counted(k)')
        BY DEF UsesCountCalls
    <2>1. Counted(k)' = Counted(k) /\ key[k].uses = Cardinality(Counted(k))
        BY <1>1 DEF Counted, SeatInv, UsesCountCalls
    <2>2. CASE ~ Stored(k) /\ key'[k].uses = 0
        <3>1. Counted(k) = {}
            BY <2>2 DEF Counted, SeatInv, RowsStartAtZero, CallsOnStoredKeys
        <3> QED BY <2>1, <2>2, <3>1, FS_EmptySet
    <2> QED BY <1>2, <2>1, <2>2 DEF KeepsUses
<1> QED BY <1>3, <1>4, <1>5, <1>6, AdminKeepsDraftsFresh DEF SeatInv

\* The fields of every other call, and the student of c, stay.
LEMMA SeatCall ==
    ASSUME SeatInv, NEW c \in Calls,
           IncrementStart(c) \/ CallStep(c) \/ IncrementFails(c)
    PROVE  SeatInv'
<1>a. /\ call \in [Calls -> Increment] /\ key \in [KeyIds -> Row]
      /\ usage \subseteq Calls
    BY DEF SeatInv, TypeInv, TypeOK
<1>b. UNCHANGED adm
    BY DEF IncrementStart, CallStep, IncrementUses, CheckExisting, SaveUsage,
           IncrementFails
<1>c. TypeInv'
    BY TypeCall DEF SeatInv
<1>d. DraftsAreFresh'
    BY <1>b DEF SeatInv, DraftsAreFresh
<1>e. \A d \in Calls : call[d].rows \in 0..1
    BY <1>a DEF Increment
<1>1. CASE IncrementStart(c)
    <2>1. PICK k \in KeyIds, u \in Users :
            /\ Stored(k)
            /\ call' = [call EXCEPT ![c].key = k, ![c].user = u, ![c].pc = "increment"]
        BY <1>1 DEF IncrementStart
    <2>2. call[c].pc = "idle" /\ UNCHANGED <<key, usage>>
        BY <1>1 DEF IncrementStart
    <2>3. call[c].rows = 0 /\ c \notin usage
        BY <2>2 DEF SeatInv, RowsStartAtZero, UsageIsOver
    <2>4. /\ call'[c].pc = "increment" /\ call'[c].rows = 0 /\ call'[c].key = k
          /\ \A d \in Calls : d # c => call'[d] = call[d]
        BY <2>1, <2>3, <1>a DEF Increment
    <2>5. RowsStartAtZero' /\ UsageIsOver'
        <3>1. RowsStartAtZero'
            BY <2>4 DEF SeatInv, RowsStartAtZero
        <3>2. UsageIsOver'
            BY <2>2, <2>3, <2>4, <1>a DEF SeatInv, UsageIsOver
        <3> QED BY <3>1, <3>2
    <2>6. UsageIsBacked'
        BY <2>2, <2>3, <2>4 DEF SeatInv, UsageIsBacked, Backed
    <2>7. CallsOnStoredKeys'
        BY <2>1, <2>2, <2>4 DEF SeatInv, CallsOnStoredKeys, Stored
    <2>8. \A i \in KeyIds : Counted(i)' = Counted(i)
        BY <2>3, <2>4 DEF Counted
    <2>9. UsesCountCalls'
        BY <2>2, <2>8 DEF SeatInv, UsesCountCalls
    <2> QED BY <1>c, <1>d, <2>5, <2>6, <2>7, <2>9 DEF SeatInv
<1>2. CASE IncrementUses(c) /\ Increments(c)
    <2> DEFINE k == call[c].key
    <2>1. /\ call[c].pc = "increment" /\ UNCHANGED usage
          /\ key' = [key EXCEPT ![k].uses = @ + 1]
          /\ call' = [call EXCEPT ![c].rows = 1, ![c].pc = "save"]
        BY <1>2 DEF IncrementUses
    <2>2. call[c].rows = 0 /\ c \notin usage /\ k \in KeyIds
        BY <2>1 DEF SeatInv, RowsStartAtZero, UsageIsOver, TypeInv, Started
    <2>3. /\ call'[c].pc = "save" /\ call'[c].rows = 1
          /\ call'[c].key = k /\ call'[c].user = call[c].user
          /\ \A d \in Calls : d # c => call'[d] = call[d]
        BY <2>1, <1>a DEF Increment
    <2>4. RowsStartAtZero' /\ UsageIsOver'
        <3>1. RowsStartAtZero'
            BY <2>3 DEF SeatInv, RowsStartAtZero
        <3>2. UsageIsOver'
            BY <2>1, <2>2, <2>3, <1>a DEF SeatInv, UsageIsOver
        <3> QED BY <3>1, <3>2
    <2>5. UsageIsBacked'
        <3>1. Backed(c)'
            BY <2>3 DEF Backed
        <3>2. \A d \in Calls : d # c /\ Backed(d) => Backed(d)'
            BY <2>2, <2>3 DEF Backed
        <3> QED BY <3>1, <3>2, <2>1, <2>3 DEF SeatInv, UsageIsBacked
    <2>6. \A i \in KeyIds : key'[i].mode = key[i].mode
        <3>1. \A i \in KeyIds : [key[i] EXCEPT !.uses = @ + 1].mode = key[i].mode
            BY <1>a DEF Row
        <3> QED BY <2>1, <2>2, <3>1, <1>a
    <2>7. CallsOnStoredKeys'
        <3>1. \A d \in Calls : call'[d].key = call[d].key
                                /\ (call'[d].pc # "idle" => call[d].pc # "idle")
            BY <2>1, <2>3
        <3>2. \A d \in Calls : call[d].pc # "idle" => call[d].key \in KeyIds
            BY DEF SeatInv, TypeInv, Started
        <3> QED BY <3>1, <3>2, <2>6 DEF SeatInv, CallsOnStoredKeys, Stored
    <2>8. UsesCountCalls'
        <3> SUFFICES ASSUME NEW i \in KeyIds
                     PROVE  key'[i].uses = Cardinality(Counted(i)')
            BY DEF UsesCountCalls
        <3>1. key[i].uses = Cardinality(Counted(i)) /\ IsFiniteSet(Counted(i))
            BY FS_Subset, FiniteAssumption DEF SeatInv, UsesCountCalls, Counted
        <3>2. CASE i = k
            <4>1. Counted(i)' = Counted(i) \cup {c} /\ c \notin Counted(i)
                BY <3>2, <2>2, <2>3 DEF Counted
            <4>2. key'[i].uses = key[i].uses + 1
                BY <3>2, <2>1, <2>2, <1>a DEF Row
            <4> QED BY <3>1, <4>1, <4>2, FS_AddElement
        <3>3. CASE i # k
            <4>1. Counted(i)' = Counted(i)
                BY <3>3, <2>2, <2>3 DEF Counted
            <4>2. key'[i].uses = key[i].uses
                BY <3>3, <2>1, <2>2, <1>a
            <4> QED BY <3>1, <4>1, <4>2
        <3> QED BY <3>2, <3>3
    <2> QED BY <1>c, <1>d, <2>4, <2>5, <2>7, <2>8 DEF SeatInv
<1>3. CASE \/ IncrementUses(c) /\ ~ Increments(c)
           \/ CheckExisting(c) \/ SaveUsage(c) \/ IncrementFails(c)
    <2>1. /\ call'[c].rows = call[c].rows /\ call'[c].key = call[c].key
          /\ call'[c].user = call[c].user
          /\ \A d \in Calls : d # c => call'[d] = call[d]
          /\ UNCHANGED key
        <3>1. CASE IncrementUses(c) /\ ~ Increments(c)
            BY <3>1, <1>a DEF IncrementUses, Increment
        <3>2. CASE CheckExisting(c)
            BY <3>2, <1>a DEF CheckExisting, Increment
        <3>3. CASE SaveUsage(c)
            BY <3>3, <1>a DEF SaveUsage, Increment
        <3>4. CASE IncrementFails(c)
            BY <3>4, <1>a DEF IncrementFails, Increment
        <3> QED BY <1>3, <3>1, <3>2, <3>3, <3>4
    <2>2. /\ call'[c].pc \in {"exists", "save", "done"}
          /\ call'[c].pc = "exists" => call[c].pc = "increment"
          /\ call'[c].pc = "save" => call[c].pc = "exists" /\ HasUsage(call[c].key, call[c].user)
          /\ usage' = usage \/ (usage' = usage \cup {c} /\ call[c].pc = "save")
          /\ c \in usage' => call'[c].pc = "done"
        <3>1. CASE IncrementUses(c) /\ ~ Increments(c)
            BY <3>1, <1>a DEF IncrementUses, Increment, SeatInv, UsageIsOver
        <3>2. CASE CheckExisting(c)
            BY <3>2, <1>a DEF CheckExisting, Increment, SeatInv, UsageIsOver
        <3>3. CASE SaveUsage(c)
            BY <3>3, <1>a DEF SaveUsage, Increment
        <3>4. CASE IncrementFails(c)
            BY <3>4, <1>a DEF IncrementFails, Increment
        <3> QED BY <1>3, <3>1, <3>2, <3>3, <3>4
    <2>3. \A d \in Calls : Backed(d) => Backed(d)'
        BY <2>1 DEF Backed
    <2>4. call'[c].pc = "save" => Backed(c)
        BY <2>2, <1>a DEF HasUsage, SeatInv, UsageIsBacked, Backed
    <2>5. UsageIsBacked'
        BY <2>1, <2>2, <2>3, <2>4 DEF SeatInv, UsageIsBacked
    <2>6. RowsStartAtZero'
        BY <2>1, <2>2 DEF SeatInv, RowsStartAtZero
    <2>7. UsageIsOver'
        BY <2>1, <2>2, <1>a DEF SeatInv, UsageIsOver
    <2>8. call[c].pc # "idle"
        BY <1>3 DEF IncrementUses, CheckExisting, SaveUsage, IncrementFails
    <2>9. CallsOnStoredKeys'
        BY <2>1, <2>8 DEF SeatInv, CallsOnStoredKeys, Stored
    <2>10. \A i \in KeyIds : Counted(i)' = Counted(i)
        BY <2>1 DEF Counted
    <2>11. UsesCountCalls'
        BY <2>1, <2>10 DEF SeatInv, UsesCountCalls
    <2> QED BY <1>c, <1>d, <2>5, <2>6, <2>7, <2>9, <2>11 DEF SeatInv
<1> QED BY <1>1, <1>2, <1>3 DEF CallStep

LEMMA SeatNext == SeatInv /\ [Next]_vars => SeatInv'
<1> SUFFICES ASSUME SeatInv, [Next]_vars PROVE SeatInv'
    OBVIOUS
<1>1. CASE UNCHANGED <<key, usage, adm, call>>
    <2>1. TypeInv'
        BY TypeNext DEF SeatInv
    <2> QED BY <1>1, <2>1 DEF SeatInv, RowsStartAtZero, UsageIsBacked, Backed,
            UsageIsOver, CallsOnStoredKeys, DraftsAreFresh, UsesCountCalls,
            Counted, Stored
<1> QED BY <1>1, SeatAdmin, SeatCall DEF Next, Tick, vars

(* The students of a key inject into its counted calls.                    *)
LEMMA SeatsCover == SeatInv => SeatsCoverStudents
<1> SUFFICES ASSUME SeatInv, NEW k \in KeyIds
             PROVE  Cardinality(UsersOf(k)) <= key[k].uses
    BY DEF SeatsCoverStudents
<1> DEFINE f == [u \in UsersOf(k) |-> CHOOSE d \in Counted(k) : call[d].user = u]
<1>1. ASSUME NEW u \in UsersOf(k)
      PROVE  \E d \in Counted(k) : call[d].user = u
    <2>1. PICK c \in usage : call[c].key = k /\ call[c].user = u
        BY DEF UsersOf
    <2>2. c \in Calls
        BY DEF SeatInv, TypeInv, TypeOK
    <2> QED BY <2>1, <2>2 DEF SeatInv, UsageIsBacked, Backed, Counted
<1>2. \A u \in UsersOf(k) : f[u] \in Counted(k) /\ call[f[u]].user = u
    BY <1>1
<1>3. f \in [UsersOf(k) -> Counted(k)]
    BY <1>2
<1>4. f \in Injection(UsersOf(k), Counted(k))
    BY <1>2, <1>3, Zenon DEF Injection, IsInjective
<1>5. IsFiniteSet(Counted(k)) /\ key[k].uses = Cardinality(Counted(k))
    BY FS_Subset, FiniteAssumption DEF Counted, SeatInv, UsesCountCalls
<1> QED BY <1>4, <1>5, FS_Injection

LEMMA SeatsCoverNext == SeatInv' => SeatsCoverStudents'
BY SeatsCover, PTL

(* However calls interleave, fail or retry, and however the key is edited   *)
(* meanwhile, no more distinct students are admitted than seats counted.   *)
THEOREM SeatsCoverStudentsTheorem == Spec => []SeatsCoverStudents
BY SeatInit, SeatNext, SeatsCover, PTL DEF Spec

(* The requests of administration leave the calls and their rows alone.     *)
LEMMA AdminKeepsCalls ==
    ASSUME NEW r \in Reqs, AdminStart(r) \/ AdminStep(r) \/ AdminFails(r)
    PROVE  UNCHANGED <<call, usage>>
BY DEF AdminStart, AdminStep, AdminFails, GenerateStart, UpdateRead, Deactivate,
       ResyncRead, NotFound, GenerateNumber, GenerateSave, GenerateFind,
       DeactivateOtherLans, UpdateWrite, Sync

(* What a statement does to its own call: it keeps whom it is for once that  *)
(* is known, answers at the end, and refuses who has no usage row.           *)
LEMMA CallMoves ==
    ASSUME call \in [Calls -> Increment], NEW c \in Calls,
           IncrementStart(c) \/ CallStep(c) \/ IncrementFails(c)
    PROVE  /\ \A d \in Calls \ {c} : call'[d] = call[d]
           /\ call[c].pc # "done" /\ call'[c].pc # "idle" /\ usage \subseteq usage'
           /\ call[c].pc # "idle" => call'[c].key = call[c].key /\ call'[c].user = call[c].user
           /\ call'[c].pc # "done" => call'[c].result = call[c].result
           /\ HasUsage(call[c].key, call[c].user) /\ call[c].pc # "idle" =>
                /\ call'[c].result \in {call[c].result, "ok", "failed"}
                /\ call'[c].rows = call[c].rows
<1>1. call[c] \in Increment
    OBVIOUS
<1>2. CASE IncrementStart(c)
  <2>1. PICK k \in KeyIds, u \in Users :
          call' = [call EXCEPT ![c].key = k, ![c].user = u, ![c].pc = "increment"]
      BY <1>2 DEF IncrementStart
  <2> DEFINE q == [call[c] EXCEPT !.key = k, !.user = u, !.pc = "increment"]
  <2>2. q.pc = "increment" /\ q.result = call[c].result /\ q.rows = call[c].rows
      BY <1>1 DEF Increment
  <2>3. call' = [call EXCEPT ![c] = q]
      BY <2>1
  <2>4. call[c].pc = "idle" /\ usage' = usage
      BY <1>2 DEF IncrementStart
  <2> HIDE DEF q
  <2> QED
      BY <2>2, <2>3, <2>4
<1>3. CASE IncrementUses(c)
    BY <1>1, <1>3 DEF IncrementUses, Increments, Increment
<1>4. CASE CheckExisting(c)
    BY <1>1, <1>4 DEF CheckExisting, Increment
<1>5. CASE SaveUsage(c)
    BY <1>1, <1>5 DEF SaveUsage, Increment
<1>6. CASE IncrementFails(c)
    BY <1>1, <1>6 DEF IncrementFails, Increment
<1> QED
    BY <1>2, <1>3, <1>4, <1>5, <1>6 DEF CallStep

\* A call has no answer before its last statement.
Unanswered == \A c \in Calls : call[c].pc # "done" => call[c].result = "none"

LEMMA UnansweredNext ==
    ASSUME TypeInv, Unanswered, [Next]_vars
    PROVE  Unanswered'
<1>1. call \in [Calls -> Increment]
    BY DEF TypeInv, TypeOK
<1>2. ASSUME NEW c \in Calls, IncrementStart(c) \/ CallStep(c) \/ IncrementFails(c)
      PROVE  Unanswered'
    BY <1>1, <1>2, CallMoves DEF Unanswered
<1>3. CASE UNCHANGED call
    BY <1>3 DEF Unanswered
<1> QED
    BY <1>2, <1>3, AdminKeepsCalls DEF Next, Tick, vars

\* A call of a student who has a usage row is not refused, and takes no seat,
\* from here on.
Admitted(c) == /\ HasUsage(call[c].key, call[c].user)
               /\ call[c].pc # "idle" /\ call[c].result # "notUsable"
               /\ call[c].rows = 0

LEMMA AdmittedStays ==
    ASSUME SeatInv, NEW c \in Calls, Admitted(c), [Next]_vars
    PROVE  Admitted(c)'
<1>1. call \in [Calls -> Increment] /\ usage \subseteq Calls
    BY DEF SeatInv, TypeInv, TypeOK
<1>2. PICK d \in usage : call[d].key = call[c].key /\ call[d].user = call[c].user
    BY DEF Admitted, HasUsage
<1>3. d \in Calls /\ call[d].pc = "done"
    BY <1>1, <1>2 DEF SeatInv, UsageIsOver
<1>4. ASSUME NEW b \in Calls, IncrementStart(b) \/ CallStep(b) \/ IncrementFails(b)
      PROVE  Admitted(c)'
  <2>1. usage \subseteq usage' /\ call'[d] = call[d]
      BY <1>1, <1>3, <1>4, CallMoves
  <2>2. /\ call'[c].key = call[c].key /\ call'[c].user = call[c].user
        /\ call'[c].pc # "idle" /\ call'[c].result # "notUsable"
        /\ call'[c].rows = 0
      BY <1>1, <1>4, CallMoves DEF Admitted
  <2> QED
      BY <1>2, <2>1, <2>2 DEF Admitted, HasUsage
<1>5. CASE UNCHANGED <<call, usage>>
    BY <1>5 DEF Admitted, HasUsage
<1> QED
    BY <1>4, <1>5, AdminKeepsCalls DEF Next, Tick, vars

(* A student whose usage row exists when a call starts is not told that the   *)
(* key is not usable, and takes no seat: IncrementUses and ExistsByKeyUser    *)
(* find the row, which nothing deletes.                                     *)
THEOREM RetriesTheorem == Spec => RetriesAdmitted
<1>1. Spec => []SeatInv
    BY SeatInit, SeatNext, PTL DEF Spec
<1>2. Spec => []Unanswered
  <2>1. Init => Unanswered
      BY DEF Init, Unanswered
  <2>2. SeatInv /\ Unanswered /\ [Next]_vars => Unanswered'
      BY UnansweredNext DEF SeatInv
  <2> QED
      BY <1>1, <2>1, <2>2, PTL DEF Spec
<1>3. ASSUME NEW c \in Calls
      PROVE  Spec => [](call[c].pc = "increment" /\ HasUsage(call[c].key, call[c].user)
                          => [](call[c].result # "notUsable" /\ call[c].rows = 0))
  <2>1. /\ SeatInv /\ Unanswered
        /\ call[c].pc = "increment" /\ HasUsage(call[c].key, call[c].user)
        => Admitted(c)
      BY DEF Unanswered, Admitted, SeatInv, RowsStartAtZero
  <2>2. SeatInv /\ Admitted(c) /\ [Next]_vars => Admitted(c)'
      BY AdmittedStays
  <2>3. Admitted(c) => call[c].result # "notUsable" /\ call[c].rows = 0
      BY DEF Admitted
  <2> QED
      BY <1>1, <1>2, <2>1, <2>2, <2>3, PTL DEF Spec
<1> QED
    BY <1>3 DEF RetriesAdmitted

-----------------------------------------------------------------------------
(* The LAN campaign                                                        *)

\* The row a request holds has the mode of the stored key it is about.
ModeAgrees == \A r \in Reqs :
    adm[r].pc \in {"find", "others", "write", "cutShort"} =>
        adm[r].row.mode = key[adm[r].id].mode /\ adm[r].row.mode # "absent"

\* An Update about to write has merged the `active` it was given.
WritesAsAsked == \A r \in Reqs :
    adm[r].pc = "write" =>
        /\ adm[r].op = "update"
        /\ adm[r].edit.active = {} \/ adm[r].edit.active = {adm[r].row.active}

LanInv == SeatInv /\ ModeAgrees /\ WritesAsAsked /\ LanExclusive

LEMMA LanInit == Init => LanInv
<1> SUFFICES ASSUME Init PROVE LanInv
    OBVIOUS
<1>1. LanExclusive
    BY DEF Init, LanExclusive, ActiveLan, NoRow
<1>2. ModeAgrees /\ WritesAsAsked
    BY DEF Init, ModeAgrees, WritesAsAsked
<1> QED BY <1>1, <1>2, SeatInit DEF LanInv

\* A step of r only touches the record of r.
LEMMA AdminFrame ==
    ASSUME SeatInv, NEW r \in Reqs, AdminStart(r) \/ AdminStep(r) \/ AdminFails(r)
    PROVE  \A q \in Reqs : q # r => adm'[q] = adm[q]
BY DEF SeatInv, TypeInv, TypeOK, AdminStart, AdminStep, AdminFails, GenerateStart,
       UpdateRead, Deactivate, ResyncRead, NotFound, GenerateNumber, GenerateSave,
       GenerateFind, DeactivateOtherLans, UpdateWrite, Sync, Goto

\* What r itself holds after a step, as far as ModeAgrees and
\* WritesAsAsked speak of it.
LEMMA AdminHolds ==
    ASSUME LanInv, NEW r \in Reqs, AdminStart(r) \/ AdminStep(r) \/ AdminFails(r)
    PROVE  /\ adm'[r].pc \in {"find", "others", "write", "cutShort"} =>
                 /\ adm'[r].row.mode = key'[adm'[r].id].mode
                 /\ adm'[r].row.mode # "absent"
           /\ adm'[r].pc = "write" =>
                 /\ adm'[r].op = "update"
                 /\ \/ adm'[r].edit.active = {}
                    \/ adm'[r].edit.active = {adm'[r].row.active}
<1>a. /\ adm \in [Reqs -> Request] /\ key \in [KeyIds -> Row]
      /\ adm[r] \in Request /\ SeatInv
    BY DEF LanInv, SeatInv, TypeInv, TypeOK
<1>b. /\ adm[r].pc \in {"find", "others", "write", "cutShort"} =>
             /\ adm[r].row.mode = key[adm[r].id].mode
             /\ adm[r].row.mode # "absent" /\ adm[r].id \in KeyIds
    BY DEF LanInv, ModeAgrees, SeatInv, TypeInv, Started
<1>c. \A k \in KeyIds : Stored(k) => key'[k].mode = key[k].mode
    BY <1>a, AdminKeepsUses DEF KeepsUses
<1> DEFINE Elsewhere == adm'[r].pc \notin {"find", "others", "write", "cutShort"}
<1> USE DEF Goto, At, AfterWrite
<1>1. GenerateStart(r) => Elsewhere
    BY <1>a DEF GenerateStart, Request
<1>2. Deactivate(r) => Elsewhere
    BY <1>a DEF Deactivate, Request
<1>3. ResyncRead(r) => Elsewhere
    BY <1>a DEF ResyncRead, Request
<1>4. NotFound(r) => Elsewhere
    BY <1>a DEF NotFound, Request
<1>5. GenerateNumber(r) => Elsewhere
    BY <1>a DEF GenerateNumber, Request
<1>6. Sync(r) => Elsewhere
    BY <1>a DEF Sync, Request
<1>7. DeactivateOtherLans(r) => Elsewhere
    BY <1>a DEF DeactivateOtherLans, Request
<1>8. CASE UpdateRead(r)
    <2>1. PICK k \in KeyIds, e \in Edits :
            /\ Stored(k)
            /\ LET row == [key[k] EXCEPT !.cap = Merge(e.cap, @),
                                         !.active = Merge(e.active, @),
                                         !.from = IF e.from = {} THEN @ ELSE e.from,
                                         !.to = IF e.to = {} THEN @ ELSE e.to,
                                         !.landing = Merge(e.landing, @)]
               IN adm' = [adm EXCEPT ![r] =
                            [pc |-> IF Ordered(row) THEN "write" ELSE "rejected",
                             op |-> "update", id |-> k, row |-> row, edit |-> e]]
        BY <1>8 DEF UpdateRead
    <2> DEFINE row == [key[k] EXCEPT !.cap = Merge(e.cap, @),
                                     !.active = Merge(e.active, @),
                                     !.from = IF e.from = {} THEN @ ELSE e.from,
                                     !.to = IF e.to = {} THEN @ ELSE e.to,
                                     !.landing = Merge(e.landing, @)]
    <2>2. row.mode = key[k].mode /\ row.active = Merge(e.active, key[k].active)
        BY <1>a DEF Row
    <2>3. e.active \in Ptr(BOOLEAN)
        BY EditsAssumption DEF Edit
    <2>4. e.active = {} \/ e.active = {Merge(e.active, key[k].active)}
        BY <2>3 DEF Merge, Ptr
    <2>5. /\ adm'[r].row = row /\ adm'[r].op = "update"
          /\ adm'[r].id = k /\ adm'[r].edit = e
        BY <2>1, <1>a
    <2> HIDE DEF row
    <2>6. UNCHANGED key
        BY <1>8 DEF UpdateRead
    <2> QED BY <2>1, <2>2, <2>4, <2>5, <2>6 DEF Stored
<1>9. CASE GenerateSave(r)
    <2>1. CASE Goto(r, "rejected")
        BY <2>1, <1>a DEF Request
    <2>2. CASE \E k \in KeyIds :
                 /\ key' = [key EXCEPT ![k] = adm[r].row]
                 /\ adm' = [adm EXCEPT ![r].id = k, ![r].pc = "find"]
        <3>1. PICK k \in KeyIds :
                 /\ key' = [key EXCEPT ![k] = adm[r].row]
                 /\ adm' = [adm EXCEPT ![r].id = k, ![r].pc = "find"]
            BY <2>2
        <3>2. adm'[r].row = adm[r].row /\ adm'[r].id = k /\ adm'[r].pc = "find"
            BY <3>1, <1>a DEF Request
        <3>3. adm[r].row.mode # "absent"
            BY <1>9 DEF GenerateSave, LanInv, SeatInv, DraftsAreFresh
        <3> QED BY <3>1, <3>2, <3>3, <1>a
    <2> QED BY <1>9, <2>1, <2>2 DEF GenerateSave
<1>10. CASE GenerateFind(r)
    <2>1. adm'[r].row = key[adm[r].id] /\ adm'[r].id = adm[r].id
        BY <1>10, <1>a DEF GenerateFind, Request
    <2>2. UNCHANGED key /\ adm[r].pc = "find"
        BY <1>10 DEF GenerateFind
    <2>3. adm'[r].pc # "write"
        BY <1>10, <1>a DEF GenerateFind, Request
    <2> QED BY <2>1, <2>2, <2>3, <1>b
<1>11. CASE UpdateWrite(r) \/ AdminFails(r)
    <2>1. /\ adm'[r].row = adm[r].row /\ adm'[r].id = adm[r].id
          /\ adm'[r].pc \in {"others", "sync", "done", "failed", "cutShort"}
        <3>1. PICK p \in {"others", "sync", "done", "failed", "cutShort"} :
                adm' = [adm EXCEPT ![r].pc = p]
            BY <1>11 DEF UpdateWrite, AdminFails
        <3> QED BY <3>1, <1>a DEF Request
    <2>2. adm'[r].pc \in {"others", "cutShort"}
            => adm[r].pc \in {"find", "others", "write", "cutShort"}
        <3>1. CASE UpdateWrite(r)
            BY <3>1 DEF UpdateWrite
        <3>2. CASE AdminFails(r)
            BY <3>2, <1>a DEF AdminFails, Request
        <3> QED BY <1>11, <3>1, <3>2
    <2> QED BY <2>1, <2>2, <1>b, <1>c DEF Stored
<1> QED BY <1>1, <1>2, <1>3, <1>4, <1>5, <1>6, <1>7, <1>8, <1>9, <1>10, <1>11
        DEF AdminStart, AdminStep

\* What accounts for two active LAN keys, by request.
Accounts(r, k1, k2) == /\ adm[r].id \in {k1, k2}
                       /\ Settling(r) \/ WroteBackActive(r)

LEMMA LanAdmin ==
    ASSUME LanInv, NEW r \in Reqs, AdminStart(r) \/ AdminStep(r) \/ AdminFails(r)
    PROVE  LanExclusive'
<1>a. /\ adm \in [Reqs -> Request] /\ key \in [KeyIds -> Row]
      /\ adm[r] \in Request /\ SeatInv
    BY DEF LanInv, SeatInv, TypeInv, TypeOK
<1>b. \A q \in Reqs : q # r => adm'[q] = adm[q]
    BY <1>a, AdminFrame
<1>c. \A k1, k2 \in KeyIds :
        ActiveLan(k1) /\ ActiveLan(k2) /\ k1 # k2 => \E q \in Reqs : Accounts(q, k1, k2)
    BY DEF LanInv, LanExclusive, Accounts
<1>d. /\ adm[r].pc = "find" => key[adm[r].id].mode = adm[r].row.mode
      /\ adm[r].pc \in {"find", "others", "write"} => adm[r].id \in KeyIds
    BY DEF LanInv, ModeAgrees, SeatInv, TypeInv, Started
<1> SUFFICES ASSUME NEW k1 \in KeyIds, NEW k2 \in KeyIds, k1 # k2,
                    ActiveLan(k1)', ActiveLan(k2)'
             PROVE  \E q \in Reqs : Accounts(q, k1, k2)'
    BY DEF LanExclusive, Accounts
<1>e. \A q \in Reqs : q # r /\ Accounts(q, k1, k2) => Accounts(q, k1, k2)'
    BY <1>b DEF Accounts, Settling, WroteBackActive
<1> USE DEF Goto, At
<1>1. CASE GenerateSave(r)
    <2>1. ~ Accounts(r, k1, k2)
        BY <1>1 DEF GenerateSave, Accounts, Settling, WroteBackActive
    <2>2. CASE UNCHANGED key
        BY <2>1, <2>2, <1>c, <1>e DEF ActiveLan
    <2>3. CASE \E k \in KeyIds :
                 /\ key' = [key EXCEPT ![k] = adm[r].row]
                 /\ adm' = [adm EXCEPT ![r].id = k, ![r].pc = "find"]
        <3>1. PICK k \in KeyIds :
                 /\ key' = [key EXCEPT ![k] = adm[r].row]
                 /\ adm' = [adm EXCEPT ![r].id = k, ![r].pc = "find"]
            BY <2>3
        <3>2. adm'[r].row = adm[r].row /\ adm'[r].id = k /\ adm'[r].pc = "find"
            BY <3>1, <1>a DEF Request
        <3>3. CASE k \in {k1, k2}
            BY <3>1, <3>2, <3>3, <1>a DEF Accounts, Settling, ActiveLan
        <3>4. CASE k \notin {k1, k2}
            <4>1. ActiveLan(k1) /\ ActiveLan(k2)
                BY <3>1, <3>4, <1>a DEF ActiveLan
            <4> QED BY <4>1, <2>1, <1>c, <1>e
        <3> QED BY <3>3, <3>4
    <2> QED BY <1>1, <2>2, <2>3 DEF GenerateSave
<1>2. CASE DeactivateOtherLans(r)
    <2>1. \A k \in KeyIds : [key[k] EXCEPT !.active = FALSE].active = FALSE
        BY <1>a DEF Row
    <2>2. k1 = adm[r].id /\ k2 = adm[r].id
        <3>1. ASSUME NEW k \in KeyIds, ActiveLan(k)' PROVE k = adm[r].id
            <4>1. CASE key[k].mode = "lan"
                BY <3>1, <4>1, <2>1, <1>2 DEF DeactivateOtherLans, ActiveLan
            <4>2. CASE key[k].mode # "lan"
                BY <3>1, <4>2, <1>2 DEF DeactivateOtherLans, ActiveLan
            <4> QED BY <4>1, <4>2
        <3> QED BY <3>1
    <2> QED BY <2>2
<1>3. CASE UpdateWrite(r)
    <2>1. /\ adm[r].id \in KeyIds
          /\ key' = [key EXCEPT ![adm[r].id] = Written(@, adm[r].row)]
          /\ adm[r].op = "update"
          /\ adm[r].edit.active = {} \/ adm[r].edit.active = {adm[r].row.active}
          /\ adm[r].row.mode = key[adm[r].id].mode
        BY <1>3, <1>d DEF UpdateWrite, LanInv, WritesAsAsked, ModeAgrees
    <2>2. ~ Accounts(r, k1, k2)
        BY <1>3 DEF UpdateWrite, Accounts, Settling, WroteBackActive
    <2>3. CASE adm[r].id \in {k1, k2}
        <3>1. /\ Written(key[adm[r].id], adm[r].row).active = adm[r].row.active
              /\ Written(key[adm[r].id], adm[r].row).mode = key[adm[r].id].mode
            BY <2>1, <1>a DEF Written, Row
        <3>2. key'[adm[r].id].active /\ key'[adm[r].id].mode = "lan"
            BY <2>3 DEF ActiveLan
        <3>3. adm[r].row.active /\ adm[r].row.mode = "lan"
            BY <3>1, <3>2, <2>1, <1>a, Zenon
        <3>4. adm[r].row.active = TRUE
            BY <3>3, <1>a DEF Request, Row
        <3> DEFINE p == IF adm[r].edit.active = {TRUE} /\ adm[r].row.mode = "lan"
                        THEN "others" ELSE AfterWrite
        <3>5. adm' = [adm EXCEPT ![r].pc = p]
            BY <1>3 DEF UpdateWrite
        <3> HIDE DEF p
        <3>6. /\ adm'[r].pc = p /\ adm'[r].row = adm[r].row /\ adm'[r].id = adm[r].id
              /\ adm'[r].edit = adm[r].edit /\ adm'[r].op = adm[r].op
            BY <3>5, <1>a DEF Request
        <3>7. p = "others" \/ (adm[r].edit.active = {} /\ p \in {"sync", "done"})
            BY <3>3, <3>4, <2>1 DEF p, AfterWrite
        <3> QED BY <3>3, <3>6, <3>7, <2>1, <2>3 DEF Accounts, Settling, WroteBackActive
    <2>4. CASE adm[r].id \notin {k1, k2}
        <3>1. ActiveLan(k1) /\ ActiveLan(k2)
            BY <2>1, <2>4, <1>a DEF ActiveLan
        <3> QED BY <3>1, <2>2, <1>c, <1>e
    <2> QED BY <2>3, <2>4
<1>4. CASE Deactivate(r)
    <2>1. PICK k \in KeyIds : key' = [key EXCEPT ![k].active = FALSE]
        BY <1>4 DEF Deactivate
    <2>2. [key[k] EXCEPT !.active = FALSE].active = FALSE
        BY <1>a DEF Row
    <2>3. k \notin {k1, k2}
        BY <2>1, <2>2, <1>a DEF ActiveLan
    <2>4. ActiveLan(k1) /\ ActiveLan(k2)
        BY <2>1, <2>3, <1>a DEF ActiveLan
    <2>5. ~ Accounts(r, k1, k2)
        BY <1>4 DEF Deactivate, Accounts, Settling, WroteBackActive
    <2> QED BY <2>4, <2>5, <1>c, <1>e
<1>5. ASSUME UNCHANGED key, Accounts(r, k1, k2) => Accounts(r, k1, k2)'
      PROVE  \E q \in Reqs : Accounts(q, k1, k2)'
    BY <1>5, <1>c, <1>e DEF ActiveLan
<1>6. CASE \/ GenerateStart(r) \/ UpdateRead(r) \/ ResyncRead(r) \/ NotFound(r)
           \/ GenerateNumber(r)
    <2>1. ~ Accounts(r, k1, k2) /\ UNCHANGED key
        BY <1>6 DEF GenerateStart, UpdateRead, ResyncRead, NotFound, GenerateNumber,
                    Accounts, Settling, WroteBackActive
    <2> QED BY <2>1, <1>5
<1>7. CASE GenerateFind(r)
    <2>1. /\ adm'[r].row = key[adm[r].id] /\ adm'[r].id = adm[r].id
          /\ adm[r].row.mode = "lan" => adm'[r].pc = "others"
          /\ UNCHANGED key /\ adm[r].pc = "find"
        BY <1>7, <1>a DEF GenerateFind, Request
    <2> QED BY <2>1, <1>d, <1>5 DEF Accounts, Settling, WroteBackActive
<1>8. CASE Sync(r)
    <2>1. /\ adm' = [adm EXCEPT ![r].pc = "done"] /\ UNCHANGED key
          /\ adm[r].pc = "sync"
        BY <1>8 DEF Sync
    <2>2. /\ adm'[r].row = adm[r].row /\ adm'[r].id = adm[r].id
          /\ adm'[r].edit = adm[r].edit /\ adm'[r].op = adm[r].op
          /\ adm'[r].pc = "done"
        BY <2>1, <1>a DEF Request
    <2> QED BY <2>1, <2>2, <1>5 DEF Accounts, Settling, WroteBackActive
<1>9. CASE AdminFails(r)
    <2>1. PICK p \in {"failed", "cutShort"} :
            /\ adm' = [adm EXCEPT ![r].pc = p] /\ UNCHANGED key
            /\ \/ p = "failed" /\ adm[r].pc \in {"number", "save", "write"}
               \/ p = "cutShort" /\ adm[r].pc \in {"find", "others"}
        BY <1>9 DEF AdminFails
    <2>2. /\ adm'[r].row = adm[r].row /\ adm'[r].id = adm[r].id /\ adm'[r].pc = p
        BY <2>1, <1>a DEF Request
    <2> QED BY <2>1, <2>2, <1>5 DEF Accounts, Settling, WroteBackActive
<1> QED BY <1>1, <1>2, <1>3, <1>4, <1>6, <1>7, <1>8, <1>9 DEF AdminStart, AdminStep

\* Nothing else writes `mode` or `active`.
LEMMA LanRest ==
    ASSUME LanInv, UNCHANGED adm,
           \A k \in KeyIds : /\ key'[k].mode = key[k].mode
                             /\ key'[k].active = key[k].active
    PROVE  ModeAgrees' /\ WritesAsAsked' /\ LanExclusive'
<1>1. \A k \in KeyIds : ActiveLan(k)' = ActiveLan(k)
    BY DEF ActiveLan
<1>2. LanExclusive'
    BY <1>1 DEF LanInv, LanExclusive, Settling, WroteBackActive
<1>3. ModeAgrees'
    BY DEF LanInv, ModeAgrees, SeatInv, TypeInv, TypeOK, Started
<1>4. WritesAsAsked'
    BY DEF LanInv, WritesAsAsked
<1> QED BY <1>2, <1>3, <1>4

LEMMA LanNext == LanInv /\ [Next]_vars => LanInv'
<1> SUFFICES ASSUME LanInv, [Next]_vars PROVE LanInv'
    OBVIOUS
<1>1. SeatInv'
    BY SeatNext DEF LanInv
<1>2. ASSUME NEW r \in Reqs, AdminStart(r) \/ AdminStep(r) \/ AdminFails(r)
      PROVE  LanInv'
    <2>1. \A q \in Reqs : q # r => adm'[q] = adm[q]
        BY <1>2, AdminFrame DEF LanInv
    <2>2. \A k \in KeyIds : Stored(k) => key'[k].mode = key[k].mode
        BY <1>2, AdminKeepsUses DEF KeepsUses, LanInv
    <2>3. WritesAsAsked'
        BY <2>1, <1>2, AdminHolds DEF WritesAsAsked, LanInv
    <2>4. ModeAgrees'
        <3> SUFFICES ASSUME NEW q \in Reqs,
                            adm'[q].pc \in {"find", "others", "write", "cutShort"}
                     PROVE  /\ adm'[q].row.mode = key'[adm'[q].id].mode
                            /\ adm'[q].row.mode # "absent"
            BY DEF ModeAgrees
        <3>1. CASE q = r
            BY <3>1, <1>2, AdminHolds
        <3>2. CASE q # r
            <4>1. /\ adm'[q] = adm[q] /\ adm[q].id \in KeyIds
                  /\ adm[q].row.mode = key[adm[q].id].mode
                  /\ adm[q].row.mode # "absent"
                BY <3>2, <2>1 DEF LanInv, ModeAgrees, SeatInv, TypeInv, Started
            <4> QED BY <4>1, <2>2 DEF Stored
        <3> QED BY <3>1, <3>2
    <2> QED BY <1>1, <1>2, <2>3, <2>4, LanAdmin DEF LanInv
<1>3. ASSUME NEW c \in Calls, IncrementStart(c) \/ CallStep(c) \/ IncrementFails(c)
      PROVE  LanInv'
    <2>1. key \in [KeyIds -> Row]
        BY DEF LanInv, SeatInv, TypeInv, TypeOK
    <2>2. \A k \in KeyIds : LET row == [key[k] EXCEPT !.uses = @ + 1]
                            IN row.mode = key[k].mode /\ row.active = key[k].active
        BY <2>1 DEF Row
    <2>3. \A k \in KeyIds : /\ key'[k].mode = key[k].mode
                            /\ key'[k].active = key[k].active
        BY <1>3, <2>1, <2>2 DEF IncrementStart, CallStep, IncrementUses,
                CheckExisting, SaveUsage, IncrementFails
    <2>4. UNCHANGED adm
        BY <1>3 DEF IncrementStart, CallStep, IncrementUses, CheckExisting,
                    SaveUsage, IncrementFails
    <2> QED BY <1>1, <2>3, <2>4, LanRest DEF LanInv
<1>4. CASE Tick \/ UNCHANGED vars
    BY <1>1, <1>4, LanRest DEF Tick, vars, LanInv
<1> QED BY <1>2, <1>3, <1>4 DEF Next

(* Two LAN keys are active together only because a request of one of them   *)
(* has not deactivated the others yet, died before it could, or stored an   *)
(* `active` it had read: for every history of Generate, Update, Deactivate  *)
(* and Resync over any number of keys.                                     *)
THEOREM LanExclusiveTheorem == Spec => []LanExclusive
<1>1. LanInv => LanExclusive
    BY DEF LanInv
<1> QED BY <1>1, LanInit, LanNext, PTL DEF Spec

-----------------------------------------------------------------------------
(* Refinement of the ledger of seats                                       *)

caps == [k \in KeyIds |-> key[k].cap]
taken == [k \in KeyIds |-> key[k].uses]
holders == [k \in KeyIds |-> UsersOf(k)]

LEMMA LedgerInit == Init => Seats!Init
BY DEF Init, Seats!Init, NoRow, UsersOf

\* Steps that leave calls and usage rows alone leave the holders alone.
LEMMA SameHolders ==
    ASSUME UNCHANGED <<usage, call>>
    PROVE  holders' = holders
BY DEF holders, UsersOf

LEMMA LedgerAdmin ==
    ASSUME SeatInv, NEW r \in Reqs, AdminStart(r) \/ AdminStep(r) \/ AdminFails(r)
    PROVE  Seats!Next \/ UNCHANGED <<caps, taken, holders>>
<1>a. key \in [KeyIds -> Row] /\ adm[r] \in Request
    BY DEF SeatInv, TypeInv, TypeOK
<1>b. UNCHANGED <<call, usage>>
    BY DEF AdminStart, AdminStep, AdminFails, GenerateStart, UpdateRead, Deactivate,
           ResyncRead, NotFound, GenerateNumber, GenerateSave, GenerateFind,
           DeactivateOtherLans, UpdateWrite, Sync
<1>c. \A k \in KeyIds : ~ Stored(k) => key[k].uses = 0
    <2> SUFFICES ASSUME NEW k \in KeyIds, ~ Stored(k) PROVE key[k].uses = 0
        OBVIOUS
    <2>1. Counted(k) = {}
        BY DEF Counted, SeatInv, RowsStartAtZero, CallsOnStoredKeys
    <2> QED BY <2>1, FS_EmptySet DEF SeatInv, UsesCountCalls
<1>d. taken' = taken
    BY <1>c, AdminKeepsUses DEF taken, KeepsUses
<1>e. holders' = holders
    BY <1>b, SameHolders
<1>1. ASSUME NEW k \in KeyIds, \A i \in KeyIds : i # k => key'[i].cap = key[i].cap
      PROVE  Seats!Next
    <2>1. caps' = [caps EXCEPT ![k] = caps'[k]]
        BY <1>1 DEF caps
    <2>2. Seats!SetCap(k)
        BY <2>1, <1>d, <1>e DEF Seats!SetCap, caps, taken, holders
    <2> QED BY <2>2 DEF Seats!Next
<1>2. CASE UNCHANGED key
    BY <1>2, <1>d, <1>e DEF caps
<1>3. CASE GenerateSave(r)
    <2>1. CASE \E k \in KeyIds : key' = [key EXCEPT ![k] = adm[r].row]
        <3>1. PICK k \in KeyIds : key' = [key EXCEPT ![k] = adm[r].row]
            BY <2>1
        <3>2. \A i \in KeyIds : i # k => key'[i].cap = key[i].cap
            BY <3>1, <1>a
        <3> QED BY <3>2, <1>1
    <2> QED BY <2>1, <1>3, <1>2 DEF GenerateSave
<1>4. CASE UpdateWrite(r)
    <2>1. adm[r].id \in KeyIds
        BY <1>4 DEF UpdateWrite, At, SeatInv, TypeInv, Started
    <2> QED BY <2>1, <1>4, <1>1 DEF UpdateWrite
<1>5. CASE DeactivateOtherLans(r)
    <2>1. \A k \in KeyIds : [key[k] EXCEPT !.active = FALSE].cap = key[k].cap
        BY <1>a DEF Row
    <2>2. \A k \in KeyIds : key'[k].cap = key[k].cap
        BY <1>5, <2>1 DEF DeactivateOtherLans
    <2> QED BY <2>2, <1>d, <1>e DEF caps
<1>6. CASE Deactivate(r)
    BY <1>6, <1>1 DEF Deactivate
<1> QED BY <1>2, <1>3, <1>4, <1>5, <1>6
        DEF AdminStart, AdminStep, AdminFails, GenerateStart, UpdateRead,
            ResyncRead, NotFound, GenerateNumber, GenerateFind, Sync

LEMMA LedgerCall ==
    ASSUME SeatInv, SeatInv', NEW c \in Calls,
           IncrementStart(c) \/ CallStep(c) \/ IncrementFails(c)
    PROVE  Seats!Next \/ UNCHANGED <<caps, taken, holders>>
<1>a. /\ call \in [Calls -> Increment] /\ key \in [KeyIds -> Row]
      /\ usage \subseteq Calls
    BY DEF SeatInv, TypeInv, TypeOK
<1>b. \A d \in usage : call[d].pc = "done"
    BY DEF SeatInv, UsageIsOver
<1>c. ASSUME UNCHANGED usage,
             \A d \in usage : call'[d].key = call[d].key /\ call'[d].user = call[d].user
      PROVE  holders' = holders
    BY <1>c DEF holders, UsersOf
<1>1. CASE IncrementStart(c)
    <2>1. c \notin usage /\ UNCHANGED <<usage, key>>
        BY <1>1, <1>b DEF IncrementStart
    <2>2. \A d \in usage : call'[d] = call[d]
        BY <2>1, <1>1, <1>a DEF IncrementStart
    <2> QED BY <2>1, <2>2, <1>c DEF caps, taken
<1>2. CASE IncrementUses(c)
    <2>1. c \notin usage /\ UNCHANGED usage
        BY <1>2, <1>b DEF IncrementUses
    <2>2. \A d \in usage : call'[d] = call[d]
        BY <2>1, <1>2, <1>a DEF IncrementUses
    <2>3. holders' = holders
        BY <2>1, <2>2, <1>c
    <2>4. CASE UNCHANGED key
        BY <2>3, <2>4 DEF caps, taken
    <2>5. CASE Increments(c) /\ key' = [key EXCEPT ![call[c].key].uses = @ + 1]
        <3>1. PICK k \in KeyIds : k = call[c].key
            BY <1>2 DEF IncrementUses, SeatInv, TypeInv, Started
        <3>2. [key[k] EXCEPT !.uses = @ + 1].uses = key[k].uses + 1
              /\ [key[k] EXCEPT !.uses = @ + 1].cap = key[k].cap
            BY <3>1, <1>a DEF Row
        <3>3. caps' = caps
            BY <2>5, <3>1, <3>2, <1>a DEF caps
        <3>4. taken' = [taken EXCEPT ![k] = @ + 1]
            BY <2>5, <3>1, <3>2, <1>a DEF taken
        <3>5. caps[k] = 0 \/ taken[k] < caps[k]
            BY <2>5, <3>1 DEF Increments, FreeSeat, caps, taken
        <3>6. Seats!TakeSeat(k)
            BY <3>3, <3>4, <3>5, <2>3 DEF Seats!TakeSeat, caps, taken, holders
        <3> QED BY <3>1, <3>6 DEF Seats!Next
    <2> QED BY <1>2, <2>4, <2>5 DEF IncrementUses
<1>3. CASE CheckExisting(c) \/ IncrementFails(c)
    <2>1. c \notin usage /\ UNCHANGED <<usage, key>>
        BY <1>3, <1>b DEF CheckExisting, IncrementFails
    <2>2. \A d \in usage : call'[d] = call[d]
        BY <2>1, <1>3, <1>a DEF CheckExisting, IncrementFails
    <2> QED BY <2>1, <2>2, <1>c DEF caps, taken
<1>4. CASE SaveUsage(c)
    <2>1. PICK k \in KeyIds, u \in Users : k = call[c].key /\ u = call[c].user
        BY <1>4 DEF SaveUsage, SeatInv, TypeInv, Started
    <2>2. /\ usage' = usage \cup {c} /\ UNCHANGED key
          /\ \A d \in Calls : call'[d].key = call[d].key /\ call'[d].user = call[d].user
        BY <1>4, <1>a DEF SaveUsage, Increment
    <2>3. ASSUME NEW i \in KeyIds
          PROVE  UsersOf(i)' = IF i = k THEN UsersOf(i) \cup {u} ELSE UsersOf(i)
        BY <2>1, <2>2, <1>a DEF UsersOf
    <2>4. holders' = [holders EXCEPT ![k] = @ \cup {u}]
        BY <2>1, <2>3 DEF holders
    <2>5. Cardinality(UsersOf(k)') <= key[k].uses
        BY <2>1, <2>2, SeatsCoverNext DEF SeatsCoverStudents
    <2>6. Cardinality(holders[k] \cup {u}) <= taken[k]
        <3>1. UsersOf(k)' = UsersOf(k) \cup {u}
            BY <2>1, <2>3
        <3>2. Cardinality(UsersOf(k) \cup {u}) <= key[k].uses
            BY <3>1, <2>5
        <3>3. holders[k] = UsersOf(k) /\ taken[k] = key[k].uses
            BY <2>1 DEF holders, taken
        <3> QED BY <3>2, <3>3
    <2>7. caps' = caps /\ taken' = taken
        BY <2>2 DEF caps, taken
    <2>8. /\ Cardinality([i \in KeyIds |-> UsersOf(i)][k] \cup {u})
               <= [i \in KeyIds |-> key[i].uses][k]
        BY <2>6 DEF holders, taken
    <2>9. Seats!Admit(k, u)
        BY <2>4, <2>7, <2>8 DEF Seats!Admit, caps, taken, holders
    <2> QED BY <2>1, <2>9 DEF Seats!Next
<1> QED BY <1>1, <1>2, <1>3, <1>4 DEF CallStep

(* keys_service implements the ledger of seats, for every value of the      *)
(* constants.                                                              *)
THEOREM SeatsRefinement == Spec => SeatsSpec
<1>1. SeatInv /\ SeatInv' /\ [Next]_vars => [Seats!Next]_<<caps, taken, holders>>
    <2> SUFFICES ASSUME SeatInv, SeatInv', [Next]_vars
                 PROVE  Seats!Next \/ UNCHANGED <<caps, taken, holders>>
        OBVIOUS
    <2>1. CASE Tick \/ UNCHANGED vars
        BY <2>1, SameHolders DEF Tick, vars, caps, taken
    <2> QED BY <2>1, LedgerAdmin, LedgerCall DEF Next
<1> QED BY <1>1, SeatInit, SeatNext, LedgerInit, PTL
        DEF Spec, SeatsSpec, Seats!Spec, caps, taken, holders
=============================================================================
