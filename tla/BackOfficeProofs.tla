-------------------------- MODULE BackOfficeProofs --------------------------
(***************************************************************************)
(* The back office, for any number of calls, users, groups and schools: why  *)
(* a cached account may be behind its row, that a reset password holds, that *)
(* members and revocations are not lost, that the last assignment counts,    *)
(* and that the assignments are a Roster.                                    *)
(***************************************************************************)
EXTENDS BackOffice, TLAPS

(***************************************************************************)
(* Accounts and their cache                                                *)
(***************************************************************************)

\* Who wrote the row and has answered for the entry, or is about to.
Answers(w) == account[w].pc \in {"delete", "done"} \/ account[w].op = "create"

OfAccount(c) ==
    /\ account[c].lost => account[c].pc = "done"
    /\ account[c].pc = "idle" => account[c].op = "none"
    /\ account[c].pc \in {"save", "join"} => account[c].op = "create"
    /\ account[c].before \subseteq EndedIn(account)
    /\ account[c].pc # "set" => account[c].missed = {}
    /\ account[c].pc = "set" => \A w \in account[c].missed : Answers(w)
    /\ account[c].pc = "password" =>
         /\ exists
         /\ \/ row["password"] = account[c].read["password"]
            \/ row["password"] \notin account[c].before

AccountsInv == /\ AccountsTypeOK
               /\ \A c \in Calls : OfAccount(c)
               /\ StaleExplained

\* c moves; the readers about to cache an account may see that it wrote it.
OnlyAccount(c) ==
    /\ account[c].pc # "done" /\ account'[c].pc # "idle"
    /\ account' \in [Calls -> AccountCall]
    /\ \A d \in Calls : d # c =>
         /\ account'[d].pc = account[d].pc /\ account'[d].op = account[d].op
         /\ account'[d].lost = account[d].lost /\ account'[d].before = account[d].before
         /\ account'[d].read = account[d].read
         /\ \/ account'[d].missed = account[d].missed
            \/ /\ account[d].pc = "set" /\ account'[d].missed = account[d].missed \cup {c}
               /\ account'[c].pc \in {"delete", "done"} \/ account'[c].op = "create"
    /\ account[c].op = "create" => account'[c].op = "create"
    /\ account[c].pc = "delete" => /\ account'[c].pc = "done"
                                   /\ entry'.cached => account'[c].lost

(* The fields of a call, of a row and of the entry, each of its type.        *)
LEMMA AccountFields ==
    ASSUME AccountsTypeOK
    PROVE  /\ account \in [Calls -> AccountCall] /\ exists \in BOOLEAN
           /\ row \in Row /\ entry \in Entry
           /\ entry.cached \in BOOLEAN /\ entry.row \in Row
           /\ entry.missed \subseteq Calls /\ entry.passed \subseteq Calls
           /\ \A c \in Calls :
                /\ account[c] \in AccountCall /\ account[c].read \in Row
                /\ account[c].missed \subseteq Calls /\ account[c].before \subseteq Calls
                /\ account[c].lost \in BOOLEAN /\ account[c].aim \subseteq Columns
<1>1. /\ account \in [Calls -> AccountCall] /\ exists \in BOOLEAN
      /\ row \in Row /\ entry \in Entry
    BY DEF AccountsTypeOK
<1>2. /\ entry.cached \in BOOLEAN /\ entry.row \in Row
      /\ entry.missed \subseteq Calls /\ entry.passed \subseteq Calls
    BY <1>1 DEF Entry
<1>3. ASSUME NEW c \in Calls
      PROVE  /\ account[c] \in AccountCall /\ account[c].read \in Row
             /\ account[c].missed \subseteq Calls /\ account[c].before \subseteq Calls
             /\ account[c].lost \in BOOLEAN /\ account[c].aim \subseteq Columns
    <2>1. account[c] \in AccountCall
        BY <1>1
    <2> QED BY <2>1 DEF AccountCall
<1> QED BY <1>1, <1>2, <1>3

(* What the entry missed stays explained, unless it is cached anew.          *)
LEMMA StaleKeeps ==
    ASSUME AccountsInv, NEW c \in Calls, OnlyAccount(c),
           entry'.cached => /\ entry.cached /\ entry'.missed \subseteq entry.missed \cup {c}
                            /\ entry'.passed = entry.passed,
           entry'.cached /\ c \in entry'.missed /\ c \notin entry.missed =>
               account'[c].pc = "delete" \/ account'[c].lost \/ account'[c].op = "create"
    PROVE  StaleExplained'
<1> SUFFICES ASSUME entry'.cached, NEW w \in entry'.missed
             PROVE  \/ account'[w].pc = "delete" \/ account'[w].lost
                    \/ account'[w].op = "create" \/ w \in entry'.passed
    BY DEF StaleExplained
<1>1. CASE w \notin entry.missed
    BY <1>1
<1>2. CASE w \in entry.missed
    <2>1. w \in Calls /\ OfAccount(w)
        BY <1>2, AccountFields DEF AccountsInv
    <2>2. \/ account[w].pc = "delete" \/ account[w].lost
          \/ account[w].op = "create" \/ w \in entry.passed
        BY <1>2 DEF AccountsInv, StaleExplained
    <2>3. CASE w = c
        BY <2>1, <2>2, <2>3 DEF OnlyAccount, OfAccount
    <2>4. CASE w # c
        BY <2>1, <2>2, <2>4 DEF OnlyAccount
    <2> QED BY <2>3, <2>4
<1> QED BY <1>1, <1>2

(* What a step has to show: of its own call, of the password and of the      *)
(* entry.                                                                   *)
LEMMA AccountKeeps ==
    ASSUME AccountsInv, NEW c \in Calls, OnlyAccount(c),
           exists' \in BOOLEAN, row' \in Row, entry' \in Entry, exists => exists',
           row'["password"] \in {row["password"], c} \/ ~ exists,
           account'[c].before \subseteq EndedIn(account),
           account'[c].lost => account'[c].pc = "done",
           account'[c].pc \in {"save", "join"} => account'[c].op = "create",
           account'[c].pc # "set" => account'[c].missed = {},
           account'[c].pc = "set" => \A w \in account'[c].missed :
                                        Answers(w) \/ (w = c /\ account'[c].op = "create"),
           account'[c].pc = "password" =>
               exists' /\ row'["password"] = account'[c].read["password"],
           StaleExplained'
    PROVE  AccountsInv'
<1>1. AccountsTypeOK'
    BY DEF AccountsTypeOK, OnlyAccount
<1>2. /\ EndedIn(account) \subseteq EndedIn(account')
      /\ \A w \in Calls : Answers(w) /\ w # c => Answers(w)'
      /\ Answers(c) => Answers(c)'
    BY DEF EndedIn, OnlyAccount, Answers
<1>3. OfAccount(c)'
    <2>1. account'[c].pc = "set" => \A w \in account'[c].missed : Answers(w)'
        <3> SUFFICES ASSUME account'[c].pc = "set", NEW w \in account'[c].missed
                     PROVE  Answers(w)'
            OBVIOUS
        <3>1. w \in Calls
            BY <1>1, AccountFields DEF OnlyAccount, AccountCall
        <3> QED BY <3>1, <1>2 DEF Answers
    <2> QED BY <2>1, <1>2 DEF OfAccount, OnlyAccount
<1>4. ASSUME NEW d \in Calls, d # c PROVE OfAccount(d)'
    <2>1. OfAccount(d) /\ account[d].missed \subseteq Calls /\ account[d].before \subseteq Calls
        BY AccountFields DEF AccountsInv
    <2>2. account'[d].pc = "set" => \A w \in account'[d].missed : Answers(w)'
        <3> SUFFICES ASSUME account'[d].pc = "set", NEW w \in account'[d].missed
                     PROVE  Answers(w)'
            OBVIOUS
        <3>1. CASE w \in account[d].missed
            BY <3>1, <2>1, <1>2, <1>4 DEF OfAccount, OnlyAccount
        <3>2. CASE w \notin account[d].missed
            BY <3>2, <1>4 DEF OnlyAccount, Answers
        <3> QED BY <3>1, <3>2
    <2>3. account'[d].pc = "password" =>
            /\ exists'
            /\ \/ row'["password"] = account'[d].read["password"]
               \/ row'["password"] \notin account'[d].before
        <3>1. c \notin account[d].before
            BY <2>1 DEF OfAccount, EndedIn, OnlyAccount
        <3> QED BY <3>1, <2>1, <1>4 DEF OfAccount, OnlyAccount
    <2> QED BY <2>1, <2>2, <2>3, <1>2, <1>4 DEF OfAccount, OnlyAccount
<1> QED BY <1>1, <1>3, <1>4 DEF AccountsInv

(* A call that writes neither the row nor the entry.                         *)
LEMMA MovesAlone ==
    ASSUME AccountsInv, NEW c \in Calls, account[c].pc # "done", NEW y \in AccountCall,
           account' = [account EXCEPT ![c] = y], y.pc # "idle",
           account[c].op = "create" => y.op = "create",
           account[c].pc = "delete" => y.pc = "done" /\ (entry'.cached => y.lost)
    PROVE  OnlyAccount(c) /\ account'[c] = y
BY DEF AccountsInv, AccountsTypeOK, OnlyAccount

(* A call that moves so, and keeps the row as it is.                         *)
LEMMA AccountAlone ==
    ASSUME AccountsInv, NEW c \in Calls, account[c].pc # "done", NEW y \in AccountCall,
           account' = [account EXCEPT ![c] = y], UNCHANGED <<exists, row, entry>>,
           y.pc # "idle", account[c].op = "create" => y.op = "create",
           account[c].pc = "delete" => y.pc = "done" /\ y.lost,
           y.before \subseteq EndedIn(account), y.lost => y.pc = "done",
           y.pc \in {"save", "join"} => y.op = "create", y.missed = {},
           y.pc = "password" => exists /\ row["password"] = y.read["password"]
    PROVE  AccountsInv'
<1>1. OnlyAccount(c) /\ account'[c] = y
    BY MovesAlone
<1>2. /\ exists' \in BOOLEAN /\ row' \in Row /\ entry' \in Entry
    BY DEF AccountsInv, AccountsTypeOK
<1>3. StaleExplained'
    BY <1>1, StaleKeeps
<1> QED BY <1>1, <1>2, <1>3, AccountKeeps

(* The calls that end, come in, or found the row.                            *)
LEMMA NewCalls ==
    /\ Blank \in Row /\ NoEntry \in Entry /\ NoAccountCall \in AccountCall
    /\ ~ NoEntry.cached
    /\ NoAccountCall.before = {} /\ NoAccountCall.missed = {} /\ ~ NoAccountCall.lost
    /\ NoAccountCall.op = "none"
<1>1. Blank \in Row
    BY DEF Blank, Row
<1> QED BY <1>1 DEF NoEntry, Entry, NoAccountCall, AccountCall

(* What a call is when it has ended.                                         *)
LEMMA EndedCall ==
    ASSUME AccountsInv, NEW c \in Calls, NEW b \in BOOLEAN
    PROVE  /\ AccountEnded(c, b) \in AccountCall /\ AccountEnded(c, b).pc = "done"
           /\ AccountEnded(c, b).op = account[c].op /\ AccountEnded(c, b).lost = b
           /\ AccountEnded(c, b).before = {} /\ AccountEnded(c, b).missed = {}
<1>1. account[c] \in AccountCall
    BY AccountFields DEF AccountsInv
<1>2. account[c].op \in {"none", "create", "get", "update", "change", "other"}
    BY <1>1 DEF AccountCall
<1> QED BY <1>2, NewCalls DEF AccountEnded, NoAccountCall, AccountCall

(* A call that ends and writes neither the row nor the entry.                *)
LEMMA EndsAlone ==
    ASSUME AccountsInv, NEW c \in Calls, account[c].pc # "done", NEW b \in BOOLEAN,
           account' = [account EXCEPT ![c] = AccountEnded(c, b)],
           UNCHANGED <<exists, row, entry>>, account[c].pc = "delete" => b
    PROVE  AccountsInv'
<1> DEFINE y == AccountEnded(c, b)
<1>1. /\ y \in AccountCall /\ y.pc = "done" /\ y.op = account[c].op /\ y.lost = b
      /\ y.before = {} /\ y.missed = {}
    BY EndedCall
<1>2. account' = [account EXCEPT ![c] = y]
    OBVIOUS
<1> HIDE DEF y
<1> QED BY <1>1, <1>2, AccountAlone

(* A call that comes in.                                                     *)
LEMMA StartsKeep ==
    ASSUME AccountsInv, NEW c \in Calls, account[c].pc = "idle", NEW y \in AccountCall,
           account' = [account EXCEPT ![c] = y], UNCHANGED <<exists, row, entry>>,
           y.pc \in {"find", "save", "password", "update"}, y.before = EndedIn(account),
           y.missed = {}, ~ y.lost, y.pc = "save" => y.op = "create",
           y.pc = "password" => exists /\ y.read = row
    PROVE  AccountsInv'
<1>1. account[c].op = "none"
    BY DEF AccountsInv, OfAccount
<1>2. /\ account[c].pc # "done" /\ account[c].pc # "delete" /\ account[c].op # "create"
      /\ y.pc # "idle" /\ y.pc # "join"
    BY <1>1
<1>3. y.pc = "password" => exists /\ row["password"] = y.read["password"]
    OBVIOUS
<1> QED BY <1>2, <1>3, AccountAlone

(* A call that comes in to read the account, or to create it.                *)
LEMMA AccountStartsKeeps ==
    ASSUME AccountsInv, NEW c \in Calls, account[c].pc = "idle",
           NEW op \in {"create", "get", "change"}, NEW p \in {"find", "save", "password"},
           NEW seen \in Row, AccountStarts(c, op, p, seen),
           UNCHANGED <<exists, row, entry>>,
           p = "save" => op = "create", p = "password" => exists /\ seen = row
    PROVE  AccountsInv'
<1> DEFINE y == [NoAccountCall EXCEPT !.pc = p, !.op = op, !.read = seen,
                                      !.before = EndedIn(account)]
<1>1. EndedIn(account) \subseteq Calls
    BY DEF EndedIn
<1>2. /\ y \in AccountCall /\ y.pc = p /\ y.op = op /\ y.read = seen
      /\ y.before = EndedIn(account) /\ y.missed = {} /\ ~ y.lost
    BY <1>1, NewCalls DEF AccountCall, NoAccountCall
<1>3. account' = [account EXCEPT ![c] = y]
    BY DEF AccountStarts
<1> HIDE DEF y
<1> QED BY <1>2, <1>3, StartsKeep

(* A call that is refused as it comes in.                                    *)
LEMMA TurnedAway ==
    ASSUME AccountsInv, NEW c \in Calls, account[c].pc = "idle",
           account' = [account EXCEPT ![c].pc = "done"], UNCHANGED <<exists, row, entry>>
    PROVE  AccountsInv'
<1> DEFINE y == [account[c] EXCEPT !.pc = "done"]
<1>1. account[c] \in AccountCall /\ OfAccount(c)
    BY AccountFields DEF AccountsInv
<1>2. /\ y \in AccountCall /\ y.pc = "done" /\ y.op = account[c].op
      /\ y.before \subseteq EndedIn(account) /\ y.missed = {}
    BY <1>1 DEF AccountCall, OfAccount
<1>3. account' = [account EXCEPT ![c] = y]
    OBVIOUS
<1> HIDE DEF y
<1> QED BY <1>2, <1>3, AccountAlone

(* What reads the account, or comes in to write it.                          *)
LEMMA ReadersKeep ==
    ASSUME AccountsInv, NEW c \in Calls,
           GetCached(c) \/ CreateFind(c) \/ UpdateFindAccount(c) \/ ChangeFind(c)
    PROVE  AccountsInv'
<1>1. account[c].pc = "idle" /\ UNCHANGED <<exists, row, entry>> /\ row \in Row
    BY AccountFields DEF GetCached, CreateFind, UpdateFindAccount, ChangeFind, Comes, AccountsInv
<1>2. CASE account' = [account EXCEPT ![c] = AccountEnded(c, FALSE)]
    BY <1>1, <1>2, EndsAlone
<1>3. CASE AccountStarts(c, "get", "find", Blank)
    BY <1>1, <1>3, NewCalls, AccountStartsKeeps
<1>4. CASE account' = [account EXCEPT ![c].pc = "done"]
    BY <1>1, <1>4, TurnedAway
<1>5. CASE AccountStarts(c, "create", "save", Blank)
    BY <1>1, <1>5, NewCalls, AccountStartsKeeps
<1>6. CASE exists /\ AccountStarts(c, "change", "password", row)
    BY <1>1, <1>6, AccountStartsKeeps
<1>7. CASE UpdateFindAccount(c)
    <2>1. PICK F \in SUBSET {"name", "phone"} :
            account' = [account EXCEPT ![c] =
                [NoAccountCall EXCEPT !.pc = "update", !.op = "update", !.read = row,
                                      !.aim = F, !.before = EndedIn(account)]]
        BY <1>7 DEF UpdateFindAccount
    <2> DEFINE y == [NoAccountCall EXCEPT !.pc = "update", !.op = "update", !.read = row,
                                          !.aim = F, !.before = EndedIn(account)]
    <2>2. F \in SUBSET Columns /\ EndedIn(account) \subseteq Calls
        BY DEF Columns, EndedIn
    <2>3. /\ y \in AccountCall /\ y.pc = "update" /\ y.before = EndedIn(account)
          /\ y.missed = {} /\ ~ y.lost
        BY <1>1, <2>2, NewCalls DEF AccountCall, NoAccountCall
    <2>4. account' = [account EXCEPT ![c] = y]
        BY <2>1
    <2> HIDE DEF y
    <2> QED BY <1>1, <2>3, <2>4, StartsKeep
<1> QED BY <1>2, <1>3, <1>4, <1>5, <1>6, <1>7 DEF GetCached, CreateFind, ChangeFind

(* The row that is read is cached, or not.                                   *)
LEMMA GetFindKeeps ==
    ASSUME AccountsInv, NEW c \in Calls, GetFind(c) PROVE AccountsInv'
<1>1. account[c].pc = "find" /\ UNCHANGED <<exists, row, entry>>
    BY DEF GetFind
<1>2. CASE AccountEnds(c)
    BY <1>1, <1>2, EndsAlone DEF AccountEnds
<1>3. CASE account' = [account EXCEPT ![c].pc = "set", ![c].read = row]
    <2> DEFINE y == [account[c] EXCEPT !.pc = "set", !.read = row]
    <2>1. account[c] \in AccountCall /\ OfAccount(c) /\ row \in Row
        BY AccountFields DEF AccountsInv
    <2>2. /\ y \in AccountCall /\ y.pc = "set" /\ y.op = account[c].op /\ ~ y.lost
          /\ y.before \subseteq EndedIn(account) /\ y.missed = {}
        BY <1>1, <2>1 DEF AccountCall, OfAccount
    <2>3. account' = [account EXCEPT ![c] = y]
        BY <1>3, <2>1
    <2> HIDE DEF y
    <2> QED BY <1>1, <2>2, <2>3, AccountAlone
<1> QED BY <1>2, <1>3 DEF GetFind

(* The row that was read is cached: what it missed is the entry's.           *)
LEMMA CacheSetKeeps ==
    ASSUME AccountsInv, NEW c \in Calls, CacheSet(c) PROVE AccountsInv'
<1>1. /\ account[c].pc = "set" /\ UNCHANGED <<exists, row>> /\ OfAccount(c)
      /\ account' = [account EXCEPT ![c] = AccountEnded(c, FALSE)]
    BY DEF CacheSet, AccountEnds, AccountsInv
<1>2. CASE UNCHANGED entry
    BY <1>1, <1>2, EndsAlone
<1>3. CASE entry' = [cached |-> TRUE, row |-> account[c].read,
                     missed |-> account[c].missed, passed |-> EndedIn(account)]
    <2> DEFINE y == AccountEnded(c, FALSE)
    <2>1. /\ y \in AccountCall /\ y.pc = "done" /\ y.op = account[c].op /\ ~ y.lost
          /\ y.before = {} /\ y.missed = {}
        BY EndedCall
    <2>2. account' = [account EXCEPT ![c] = y]
        BY <1>1
    <2> HIDE DEF y
    <2>3. OnlyAccount(c) /\ account'[c] = y
        <3>1. account \in [Calls -> AccountCall]
            BY AccountFields DEF AccountsInv
        <3> QED BY <1>1, <2>1, <2>2, <3>1 DEF OnlyAccount
    <2>4. entry' \in Entry /\ exists' \in BOOLEAN /\ row' \in Row
        BY <1>1, <1>3, AccountFields DEF Entry, EndedIn, AccountsInv
    <2>5. StaleExplained'
        <3> SUFFICES ASSUME NEW w \in account[c].missed
                     PROVE  \/ account'[w].pc = "delete" \/ account'[w].op = "create"
                            \/ w \in EndedIn(account)
            BY <1>3 DEF StaleExplained
        <3>1. w \in Calls /\ Answers(w)
            BY <1>1, AccountFields DEF OfAccount, AccountsInv
        <3> QED BY <3>1, <1>1, <2>1, <2>3 DEF Answers, OnlyAccount, EndedIn
    <2> QED BY <1>1, <2>1, <2>3, <2>4, <2>5, AccountKeeps
<1> QED BY <1>2, <1>3 DEF CacheSet

(* A call that gives up, and one that finds the e-mail taken.                *)
LEMMA AccountFailsKeeps ==
    ASSUME AccountsInv, NEW c \in Calls, AccountFails(c) PROVE AccountsInv'
<1> DEFINE b == account[c].pc = "delete"
<1>1. b \in BOOLEAN /\ (account[c].pc = "delete" => b)
    OBVIOUS
<1>2. /\ account[c].pc # "done" /\ UNCHANGED <<exists, row, entry>>
      /\ account' = [account EXCEPT ![c] = AccountEnded(c, b)]
    BY DEF AccountFails
<1> HIDE DEF b
<1> QED BY <1>1, <1>2, EndsAlone

(* The account is created, or was there.                                     *)
LEMMA SaveKeeps ==
    ASSUME AccountsInv, NEW c \in Calls, Save(c) PROVE AccountsInv'
<1>1. /\ account[c].pc = "save" /\ account[c].op = "create" /\ UNCHANGED entry
      /\ account[c] \in AccountCall /\ OfAccount(c)
    BY AccountFields DEF Save, AccountsInv, OfAccount
<1>2. CASE AccountEnds(c) /\ UNCHANGED <<exists, row>>
    BY <1>1, <1>2, EndsAlone DEF AccountEnds
<1>3. CASE ~ exists /\ ~ (AccountEnds(c) /\ UNCHANGED <<exists, row>>)
    <2> DEFINE new == [f \in Columns |-> IF f \in {"group", "stamp"} THEN NoOne ELSE c]
    <2>1. new \in Row
        BY DEF Row
    <2>2. PICK p \in {"join", "set"} :
            /\ exists' = TRUE /\ row' = new
            /\ account' = [account EXCEPT ![c].pc = p, ![c].read = new]
        BY <1>3 DEF Save
    <2> HIDE DEF new
    <2> DEFINE y == [account[c] EXCEPT !.pc = p, !.read = new]
    <2>3. /\ y \in AccountCall /\ y.pc = p /\ y.op = "create" /\ ~ y.lost
          /\ y.before \subseteq EndedIn(account) /\ y.missed = {}
        BY <1>1, <2>1 DEF AccountCall, OfAccount
    <2>4. account' = [account EXCEPT ![c] = y]
        BY <2>2, <1>1
    <2> HIDE DEF y
    <2>5. OnlyAccount(c) /\ account'[c] = y
        BY <1>1, <2>3, <2>4, MovesAlone
    <2>6. StaleExplained'
        BY <1>1, <2>5, StaleKeeps
    <2>7. exists' \in BOOLEAN /\ row' \in Row /\ entry' \in Entry
        BY <1>1, <2>1, <2>2 DEF AccountsInv, AccountsTypeOK
    <2> QED BY <1>1, <1>3, <2>2, <2>3, <2>5, <2>6, <2>7, AccountKeeps
<1> QED BY <1>2, <1>3 DEF Save

(* A write of columns, that the entry and those about to cache it miss.      *)
LEMMA WritesKeep ==
    ASSUME AccountsInv, NEW c \in Calls, account[c].pc \notin {"done", "delete"},
           NEW new \in Row, NEW next \in AccountCall, Writes(c, new, next), UNCHANGED exists,
           new["password"] \in {row["password"], c}, next.missed = {},
           next.before \subseteq EndedIn(account), account[c].op = "create" => next.op = "create",
           \/ next.pc = "delete" /\ ~ next.lost
           \/ next.pc = "done" /\ next.lost
           \/ next.pc = "set" /\ ~ next.lost /\ next.op = "create"
    PROVE  AccountsInv'
<1>1. /\ account \in [Calls -> AccountCall] /\ entry \in Entry
      /\ entry.missed \subseteq Calls
    BY AccountFields DEF AccountsInv
<1>2. account' = [d \in Calls |->
                    IF d = c
                    THEN IF next.pc = "set"
                         THEN [next EXCEPT !.missed = next.missed \cup {c}] ELSE next
                    ELSE IF account[d].pc = "set"
                         THEN [account[d] EXCEPT !.missed = account[d].missed \cup {c}]
                         ELSE account[d]]
    BY <1>1 DEF Writes
<1>3. /\ row' = new
      /\ entry' = [entry EXCEPT !.missed = IF entry.cached THEN entry.missed \cup {c}
                                           ELSE entry.missed]
    BY DEF Writes
<1>4. /\ entry' \in Entry /\ entry'.cached = entry.cached /\ entry'.passed = entry.passed
      /\ entry'.missed \subseteq entry.missed \cup {c}
    BY <1>1, <1>3 DEF Entry
<1>5. ASSUME NEW d \in Calls, d # c
      PROVE  /\ account'[d] \in AccountCall
             /\ account'[d].pc = account[d].pc /\ account'[d].op = account[d].op
             /\ account'[d].lost = account[d].lost /\ account'[d].before = account[d].before
             /\ account'[d].read = account[d].read
             /\ \/ account'[d].missed = account[d].missed
                \/ account[d].pc = "set" /\ account'[d].missed = account[d].missed \cup {c}
    <2>1. account[d] \in AccountCall
        BY <1>1
    <2> QED BY <1>2, <1>5, <2>1 DEF AccountCall
<1>6. /\ account'[c] \in AccountCall /\ account'[c].pc = next.pc
      /\ account'[c].op = next.op /\ account'[c].lost = next.lost
      /\ account'[c].before = next.before
      /\ account'[c].missed = IF next.pc = "set" THEN {c} ELSE {}
    BY <1>2 DEF AccountCall
<1>7. account' \in [Calls -> AccountCall]
    BY <1>2, <1>5, <1>6
<1>8. OnlyAccount(c)
    BY <1>5, <1>6, <1>7 DEF OnlyAccount
<1>9. StaleExplained'
    BY <1>4, <1>6, <1>8, StaleKeeps
<1>10. row' \in Row /\ exists' \in BOOLEAN
    BY <1>3 DEF AccountsInv, AccountsTypeOK
<1> QED BY <1>3, <1>4, <1>6, <1>8, <1>9, <1>10, AccountKeeps

(* Every call that writes columns, and the cache misses it.                  *)
LEMMA WritersKeep ==
    ASSUME AccountsInv, NEW c \in Calls,
           \/ CreateJoin(c) \/ UpdateAccount(c) \/ SetAccountActive(c)
           \/ ResetPassword(c) \/ SetPassword(c) \/ WriteAside(c)
    PROVE  AccountsInv'
<1>1. account[c] \in AccountCall /\ OfAccount(c) /\ row \in Row /\ UNCHANGED exists
    BY AccountFields DEF AccountsInv, CreateJoin, UpdateAccount, SetAccountActive,
                         ResetPassword, SetPassword, WriteAside
<1>2. ASSUME NEW f \in Columns
      PROVE  /\ [row EXCEPT ![f] = c] \in Row
             /\ [row EXCEPT ![f] = c]["password"] \in {row["password"], c}
    BY <1>1 DEF Row, Columns
<1>3. "name" \in Columns /\ "group" \in Columns /\ "active" \in Columns
      /\ "password" \in Columns /\ "stamp" \in Columns
    BY DEF Columns
<1>4. ASSUME NEW p \in {"delete", "set"}, account[c].pc \in {"join", "update", "password"}
      PROVE  LET next == [account[c] EXCEPT !.pc = p] IN
             /\ next \in AccountCall /\ next.pc = p /\ next.op = account[c].op
             /\ ~ next.lost /\ next.missed = {} /\ next.before = account[c].before
             /\ next.before \subseteq EndedIn(account)
    BY <1>1, <1>4 DEF AccountCall, OfAccount
<1>5. CASE CreateJoin(c)
    <2>1. account[c].pc = "join" /\ account[c].op = "create"
        BY <1>1, <1>5 DEF CreateJoin, OfAccount
    <2> DEFINE next == [account[c] EXCEPT !.pc = "set"]
               new == [row EXCEPT !["group"] = c]
    <2>2. Writes(c, new, next)
        BY <1>5 DEF CreateJoin
    <2>3. /\ next \in AccountCall /\ next.pc = "set" /\ next.op = "create" /\ ~ next.lost
          /\ next.missed = {} /\ next.before \subseteq EndedIn(account)
        BY <1>4, <2>1
    <2>4. new \in Row /\ new["password"] \in {row["password"], c}
        BY <1>2, <1>3
    <2> HIDE DEF next, new
    <2> QED BY <1>1, <2>1, <2>2, <2>3, <2>4, WritesKeep
<1>6. CASE SetPassword(c)
    <2>1. account[c].pc = "password"
        BY <1>6 DEF SetPassword
    <2> DEFINE next == [account[c] EXCEPT !.pc = "delete"]
               new == [row EXCEPT !["password"] = c]
    <2>2. Writes(c, new, next)
        BY <1>6 DEF SetPassword
    <2>3. /\ next \in AccountCall /\ next.pc = "delete" /\ next.op = account[c].op
          /\ ~ next.lost /\ next.missed = {} /\ next.before \subseteq EndedIn(account)
        BY <1>4, <2>1
    <2>4. new \in Row /\ new["password"] \in {row["password"], c}
        BY <1>2, <1>3
    <2> HIDE DEF next, new
    <2> QED BY <1>1, <2>1, <2>2, <2>3, <2>4, WritesKeep
<1>7. CASE UpdateAccount(c)
    <2>1. account[c].pc = "update" /\ account[c].read \in Row
        BY <1>7, AccountFields DEF UpdateAccount, AccountsInv
    <2> DEFINE next == [account[c] EXCEPT !.pc = "delete"]
               new == Updated(c)
    <2>2. Writes(c, new, next)
        BY <1>7 DEF UpdateAccount
    <2>3. /\ next \in AccountCall /\ next.pc = "delete" /\ next.op = account[c].op
          /\ ~ next.lost /\ next.missed = {} /\ next.before \subseteq EndedIn(account)
        BY <1>4, <2>1
    <2>4. new \in Row /\ new["password"] \in {row["password"], c}
        BY <1>1, <1>3, <2>1 DEF Updated, Row
    <2> HIDE DEF next, new
    <2> QED BY <1>1, <2>1, <2>2, <2>3, <2>4, WritesKeep
<1>8. ASSUME account[c].pc = "idle", NEW f \in Columns, NEW next \in AccountCall,
             next.missed = {}, next.before = {},
             \/ next.pc = "delete" /\ ~ next.lost
             \/ next.pc = "done" /\ next.lost,
             Writes(c, [row EXCEPT ![f] = c], next)
      PROVE  AccountsInv'
    <2> DEFINE new == [row EXCEPT ![f] = c]
    <2>1. account[c].op = "none" /\ Writes(c, new, next)
        BY <1>1, <1>8 DEF OfAccount
    <2>2. new \in Row /\ new["password"] \in {row["password"], c}
        BY <1>2
    <2> HIDE DEF new
    <2> QED BY <1>1, <1>8, <2>1, <2>2, WritesKeep
<1>9. CASE SetAccountActive(c) \/ ResetPassword(c)
    <2> DEFINE next == [NoAccountCall EXCEPT !.pc = "delete", !.op = "other"]
    <2>1. PICK f \in Columns : Writes(c, [row EXCEPT ![f] = c], next)
        BY <1>3, <1>9 DEF SetAccountActive, ResetPassword
    <2>2. account[c].pc = "idle"
        BY <1>9 DEF SetAccountActive, ResetPassword, Comes
    <2>3. /\ next \in AccountCall /\ next.missed = {} /\ next.before = {}
          /\ \/ next.pc = "delete" /\ ~ next.lost
             \/ next.pc = "done" /\ next.lost
        BY NewCalls DEF NoAccountCall, AccountCall
    <2> HIDE DEF next
    <2>4. f \in Columns
        BY <2>1
    <2> QED BY <2>1, <2>2, <2>3, <2>4, <1>8
<1>10. CASE WriteAside(c)
    <2> DEFINE next == [NoAccountCall EXCEPT !.pc = "done", !.op = "other", !.lost = TRUE]
    <2>1. PICK f \in Columns : Writes(c, [row EXCEPT ![f] = c], next)
        BY <1>3, <1>10 DEF WriteAside
    <2>2. account[c].pc = "idle"
        BY <1>10 DEF WriteAside, Comes
    <2>3. /\ next \in AccountCall /\ next.pc = "done" /\ next.lost
          /\ next.missed = {} /\ next.before = {}
        BY NewCalls DEF NoAccountCall, AccountCall
    <2> HIDE DEF next
    <2> QED BY <2>1, <2>2, <2>3, <1>8
<1> QED BY <1>5, <1>6, <1>7, <1>9, <1>10

(* The entry is deleted, by a call or by Redis.                              *)
LEMMA CacheDeleteKeeps ==
    ASSUME AccountsInv, NEW c \in Calls, CacheDelete(c) PROVE AccountsInv'
<1>1. account[c].pc = "delete" /\ UNCHANGED <<exists, row>>
    BY DEF CacheDelete
<1>2. CASE UNCHANGED entry /\ account' = [account EXCEPT ![c] = AccountEnded(c, TRUE)]
    BY <1>1, <1>2, EndsAlone
<1>3. CASE entry' = NoEntry /\ AccountEnds(c)
    <2> DEFINE y == AccountEnded(c, FALSE)
    <2>1. /\ y \in AccountCall /\ y.pc = "done" /\ y.op = account[c].op /\ ~ y.lost
          /\ y.before = {} /\ y.missed = {}
        BY EndedCall
    <2>2. account' = [account EXCEPT ![c] = y]
        BY <1>3 DEF AccountEnds
    <2> HIDE DEF y
    <2>3. OnlyAccount(c) /\ account'[c] = y
        BY <1>1, <1>3, <2>1, <2>2, NewCalls, MovesAlone
    <2>4. entry' \in Entry /\ exists' \in BOOLEAN /\ row' \in Row /\ StaleExplained'
        BY <1>1, <1>3, NewCalls DEF StaleExplained, AccountsInv, AccountsTypeOK
    <2> QED BY <1>1, <2>1, <2>3, <2>4, AccountKeeps
<1> QED BY <1>2, <1>3 DEF CacheDelete

(* The invariant of an account and its entry.                                *)
THEOREM AccountsInvariant == AccountsSpec => []AccountsInv
<1>1. AccountsInit => AccountsInv
    <2> SUFFICES ASSUME AccountsInit PROVE AccountsInv
        OBVIOUS
    <2>1. \A c \in Calls : account[c] = NoAccountCall
        BY DEF AccountsInit
    <2>2. AccountsTypeOK
        BY <2>1, NewCalls DEF AccountsInit, AccountsTypeOK
    <2>3. NoAccountCall.pc = "idle"
        BY DEF NoAccountCall
    <2>4. \A c \in Calls : OfAccount(c)
        BY <2>1, <2>3, NewCalls DEF OfAccount
    <2>5. ~ entry.cached
        BY NewCalls DEF AccountsInit
    <2> QED BY <2>2, <2>4, <2>5 DEF AccountsInv, StaleExplained
<1>2. AccountsInv /\ [AccountsNext]_accountVars => AccountsInv'
    <2> SUFFICES ASSUME AccountsInv, [AccountsNext]_accountVars PROVE AccountsInv'
        OBVIOUS
    <2>1. CASE UNCHANGED accountVars
        BY <2>1 DEF accountVars, AccountsInv, AccountsTypeOK, OfAccount, Answers,
                    StaleExplained, EndedIn
    <2>2. CASE Expire
        BY <2>2, NewCalls DEF Expire, AccountsInv, AccountsTypeOK, OfAccount, Answers,
                    StaleExplained, EndedIn
    <2> QED BY <2>1, <2>2, ReadersKeep, GetFindKeeps, CacheSetKeeps, SaveKeeps, WritersKeep,
               CacheDeleteKeeps, AccountFailsKeeps DEF AccountsNext
<1> QED BY <1>1, <1>2, PTL DEF AccountsSpec

(* For any number of calls, a cached account is behind its row only by a      *)
(* write whose call is yet to delete the entry, lost its Delete or makes      *)
(* none, or had ended when a reader of the row before cached it.             *)
THEOREM StaleTheorem == AccountsSpec => []StaleExplained
<1>1. AccountsInv => StaleExplained
    BY DEF AccountsInv
<1> QED BY <1>1, AccountsInvariant, PTL

(* For any number of calls, ChangePassword does not replace a password that   *)
(* was reset before it came in.                                              *)
THEOREM ResetTheorem == AccountsSpec => ResetHolds
<1>1. AccountsInv /\ [AccountsNext]_accountVars =>
        [\A c \in Calls : SetPassword(c) =>
           \/ row["password"] = account[c].read["password"]
           \/ row["password"] \notin account[c].before]_accountVars
    BY DEF AccountsInv, OfAccount, SetPassword
<1> QED BY <1>1, AccountsInvariant, PTL DEF AccountsSpec, ResetHolds

(***************************************************************************)
(* Permission groups                                                       *)
(***************************************************************************)

\* An acknowledged membership that is gone, and what took it.
Explained(c) ==
    \E d \in Calls :
        \/ Well(d, "revoke") /\ SamePair(c, d) /\ d \notin permit[c].before
        \/ /\ Well(d, "delete") /\ permit[d].in = permit[c].in
           /\ c \notin permit[d].before /\ d \notin permit[c].before

\* Who is back in a group after a revocation was put there later.
PutBack(q) ==
    \E a \in Calls : Well(a, "assign") /\ SamePair(a, q) /\ a \notin permit[q].before

\* A call: what it is at, and what a deletion has seen when it drops the group.
OfPermit(c) ==
    /\ permit[c].before \subseteq EndedIn(permit)
    /\ permit[c].pc # "done" => permit[c].result = "none"
    /\ permit[c].pc = "codes" => permit[c].op = "request"
    /\ permit[c].pc = "join" => permit[c].op = "assign"
    /\ permit[c].pc = "grant" => permit[c].op = "grant"
    /\ permit[c].pc \in {"exists", "join", "grant"} => permit[c].in \in Groups
    /\ permit[c].pc = "join" => permit[c].user \in Members
    /\ permit[c].pc = "grant" => permit[c].code \in Permissions
    /\ permit[c].pc = "exists" /\ permit[c].op = "grant" => permit[c].code \in Permissions
    /\ permit[c].pc = "exists" /\ permit[c].op = "assign" => permit[c].user \in Members
    /\ permit[c].pc = "drop" =>
         /\ permit[c].op = "delete"
         /\ \A b \in permit[c].before :
              Well(b, "assign") /\ permit[b].in = permit[c].in => Explained(b)

RevokedOrBack ==
    \A q \in Calls : Well(q, "revoke") /\ <<permit[q].user, permit[q].in>> \in joined =>
        PutBack(q)

PermissionsInv == /\ PermissionsTypeOK
                  /\ \A c \in Calls : OfPermit(c)
                  /\ MembersSurvive /\ RevokedOrBack /\ RevokedIsDenied

\* c moves, and no other call.
OnlyPermit(c) ==
    /\ permit[c].pc # "done"
    /\ permit' \in [Calls -> Permit]
    /\ \A d \in Calls : d # c => permit'[d] = permit[d]

(* A call's fields, each of its type.                                        *)
LEMMA PermitFields ==
    ASSUME PermissionsTypeOK, NEW c \in Calls
    PROVE  /\ permit[c] \in Permit /\ permit[c].user \in Members \cup {NoOne}
           /\ permit[c].in \in Groups \cup {NoOne} /\ permit[c].before \subseteq Calls
           /\ permit[c].code \in Permissions \cup {NoOne}
<1>1. permit[c] \in Permit
    BY DEF PermissionsTypeOK
<1> QED BY <1>1 DEF Permit

(* What is well is over.                                                     *)
LEMMA WellIsDone ==
    ASSUME PermissionsInv, NEW c \in Calls, NEW op, Well(c, op)
    PROVE  permit[c].pc = "done"
BY DEF PermissionsInv, OfPermit, Well

(* While c moves, what ended stays as it is, and the other calls keep theirs. *)
LEMMA OthersKeep ==
    ASSUME PermissionsInv, NEW c \in Calls, OnlyPermit(c)
    PROVE  /\ EndedIn(permit) \subseteq EndedIn(permit')
           /\ \A d \in Calls : Well(d, "assign") /\ Explained(d) => Explained(d)'
           /\ \A q \in Calls : Well(q, "revoke") /\ PutBack(q) => PutBack(q)'
           /\ \A d \in Calls : d # c => OfPermit(d)'
<1>1. \A d \in Calls : permit[d].pc = "done" => permit'[d] = permit[d]
    BY DEF OnlyPermit
<1>2. \A d \in Calls, op \in {"assign", "revoke", "delete"} :
        Well(d, op) => Well(d, op)' /\ permit'[d] = permit[d]
    BY <1>1, WellIsDone DEF Well
<1>3. EndedIn(permit) \subseteq EndedIn(permit')
    BY <1>1 DEF EndedIn
<1>4. ASSUME NEW d \in Calls, Well(d, "assign"), Explained(d) PROVE Explained(d)'
    BY <1>2, <1>4 DEF Explained, SamePair
<1>5. ASSUME NEW q \in Calls, Well(q, "revoke"), PutBack(q) PROVE PutBack(q)'
    BY <1>2, <1>5 DEF PutBack, SamePair
<1>6. ASSUME NEW d \in Calls, d # c PROVE OfPermit(d)'
    <2>1. permit'[d] = permit[d] /\ OfPermit(d)
        BY <1>6 DEF OnlyPermit, PermissionsInv
    <2>2. ASSUME permit[d].pc = "drop", NEW b \in permit[d].before,
                 Well(b, "assign")', permit'[b].in = permit[d].in
          PROVE  Explained(b)'
        <3>1. b \in Calls /\ permit'[b] = permit[b]
            BY <2>1, <1>1 DEF OfPermit, EndedIn
        <3>2. Well(b, "assign") /\ Explained(b)
            BY <3>1, <2>1, <2>2 DEF OfPermit, Well
        <3> QED BY <3>1, <3>2, <1>4
    <2> QED BY <2>1, <2>2, <1>3 DEF OfPermit
<1> QED BY <1>3, <1>4, <1>5, <1>6

(* What a step has to show: of its own call, and of the memberships it       *)
(* makes or takes away.                                                      *)
LEMMA PermitKeeps ==
    ASSUME PermissionsInv, NEW c \in Calls, OnlyPermit(c), OfPermit(c)',
           group' \in [Groups -> {"new", "there", "deleted"}],
           grants' \subseteq Groups \X Permissions, joined' \subseteq Members \X Groups,
           \A d \in Calls : /\ Well(d, "assign")
                            /\ <<permit[d].user, permit[d].in>> \in joined \ joined'
                            => Explained(d)',
           Well(c, "assign")' => <<permit'[c].user, permit'[c].in>> \in joined',
           \A q \in Calls : /\ Well(q, "revoke")
                            /\ <<permit[q].user, permit[q].in>> \in joined' \ joined
                            => PutBack(q)',
           Well(c, "revoke")' => <<permit'[c].user, permit'[c].in>> \notin joined',
           Well(c, "request")' /\ permit'[c].user \notin Supers =>
               /\ permit'[c].before = permit[c].before
               /\ \E g \in Groups : <<permit'[c].user, g>> \in joined
    PROVE  PermissionsInv'
<1>1. PermissionsTypeOK'
    BY DEF PermissionsTypeOK, OnlyPermit
<1>2. \A d \in Calls : OfPermit(d)'
    BY OthersKeep
<1>3. MembersSurvive'
    <2> SUFFICES ASSUME NEW d \in Calls, Well(d, "assign")',
                        <<permit'[d].user, permit'[d].in>> \notin joined'
                 PROVE  Explained(d)'
        BY DEF MembersSurvive, Explained
    <2>1. d # c /\ permit'[d] = permit[d] /\ Well(d, "assign")
        BY DEF OnlyPermit, Well
    <2>2. CASE <<permit[d].user, permit[d].in>> \in joined
        BY <2>1, <2>2
    <2>3. CASE <<permit[d].user, permit[d].in>> \notin joined
        <3>1. Explained(d)
            BY <2>1, <2>3 DEF PermissionsInv, MembersSurvive, Explained
        <3> QED BY <3>1, <2>1, OthersKeep
    <2> QED BY <2>2, <2>3
<1>4. RevokedOrBack'
    <2> SUFFICES ASSUME NEW q \in Calls, Well(q, "revoke")',
                        <<permit'[q].user, permit'[q].in>> \in joined'
                 PROVE  PutBack(q)'
        BY DEF RevokedOrBack
    <2>1. q # c /\ permit'[q] = permit[q] /\ Well(q, "revoke")
        BY DEF OnlyPermit, Well
    <2>2. CASE <<permit[q].user, permit[q].in>> \notin joined
        BY <2>1, <2>2
    <2>3. CASE <<permit[q].user, permit[q].in>> \in joined
        <3>1. PutBack(q)
            BY <2>1, <2>3 DEF PermissionsInv, RevokedOrBack
        <3> QED BY <3>1, <2>1, OthersKeep
    <2> QED BY <2>2, <2>3
<1>5. RevokedIsDenied'
    <2> SUFFICES ASSUME NEW r \in Calls, Well(r, "request")', permit'[r].user \notin Supers
                 PROVE  \E g \in Groups : \A q \in permit'[r].before :
                          /\ Well(q, "revoke")' /\ permit'[q].user = permit'[r].user
                          /\ permit'[q].in = g
                          => PutBack(q)'
        BY DEF RevokedIsDenied, PutBack
    <2>0. OfPermit(r) /\ \A q \in permit[r].before :
                /\ q \in Calls /\ permit'[q] = permit[q]
                /\ Well(q, "revoke")' => Well(q, "revoke")
        BY DEF PermissionsInv, OfPermit, EndedIn, OnlyPermit, Well
    <2>1. CASE r = c
        <3>1. PICK g \in Groups : <<permit'[c].user, g>> \in joined
            BY <2>1
        <3>2. \A q \in permit[c].before :
                /\ Well(q, "revoke")' /\ permit'[q].user = permit'[c].user
                /\ permit'[q].in = g
                => PutBack(q)'
            BY <2>0, <2>1, <3>1, OthersKeep DEF PermissionsInv, RevokedOrBack
        <3>3. permit'[c].before = permit[c].before
            BY <2>1
        <3> QED BY <2>1, <3>2, <3>3
    <2>2. CASE r # c
        <3>1. permit'[r] = permit[r] /\ Well(r, "request")
            BY <2>2 DEF OnlyPermit, Well
        <3>2. PICK g \in Groups : \A q \in permit[r].before :
                Well(q, "revoke") /\ permit[q].user = permit[r].user /\ permit[q].in = g
                => PutBack(q)
            BY <3>1 DEF PermissionsInv, RevokedIsDenied, PutBack
        <3> QED BY <3>1, <3>2, <2>0, OthersKeep
    <2> QED BY <2>1, <2>2
<1> QED BY <1>1, <1>2, <1>3, <1>4, <1>5 DEF PermissionsInv

(* A call that ends keeps what the properties speak of, or nothing.           *)
LEMMA SettledIs ==
    ASSUME NEW r \in Permit, NEW e \in {"ok", "refused", "failed"}
    PROVE  /\ Settled(r, e) \in Permit /\ Settled(r, e).pc = "done"
           /\ Settled(r, e).before \subseteq r.before
           /\ Settled(r, e).result # "none" =>
                 /\ e = "ok" /\ r.op \in {"assign", "revoke", "delete", "request"}
                 /\ Settled(r, e) = [r EXCEPT !.pc = "done", !.result = e]
                 /\ Settled(r, e).op = r.op /\ Settled(r, e).user = r.user
                 /\ Settled(r, e).in = r.in /\ Settled(r, e).before = r.before
<1>1. CASE e = "ok" /\ r.op \in {"assign", "revoke", "delete", "request"}
    BY <1>1 DEF Settled, Permit
<1>2. CASE ~ (e = "ok" /\ r.op \in {"assign", "revoke", "delete", "request"})
    BY <1>2 DEF Settled, Permit, NoPermit
<1> QED BY <1>1, <1>2

(* A call that ends keeps its fields, and has its result.                    *)
LEMMA PermitEndsIs ==
    ASSUME PermissionsInv, NEW c \in Calls, permit[c].pc # "done",
           NEW e \in {"ok", "refused", "failed"}, PermitEnds(c, e)
    PROVE  /\ OnlyPermit(c) /\ OfPermit(c)' /\ permit'[c].pc = "done"
           /\ permit'[c].result # "none" =>
                 /\ e = "ok" /\ permit'[c].op = permit[c].op
                 /\ permit'[c].user = permit[c].user /\ permit'[c].in = permit[c].in
                 /\ permit'[c].before = permit[c].before
<1>1. permit \in [Calls -> Permit] /\ permit[c] \in Permit /\ OfPermit(c)
    BY DEF PermissionsInv, PermissionsTypeOK
<1> DEFINE y == Settled(permit[c], e)
<1>2. /\ y \in Permit /\ y.pc = "done" /\ y.before \subseteq permit[c].before
      /\ y.result # "none" =>
            /\ e = "ok" /\ y.op = permit[c].op /\ y.user = permit[c].user
            /\ y.in = permit[c].in /\ y.before = permit[c].before
    BY <1>1, SettledIs
<1>3. permit' = [permit EXCEPT ![c] = y]
    BY DEF PermitEnds
<1> HIDE DEF y
<1>4. OnlyPermit(c) /\ permit'[c] = y
    BY <1>1, <1>2, <1>3 DEF OnlyPermit
<1>5. OfPermit(c)'
    <2>1. permit'[c].before \subseteq EndedIn(permit')
        BY <1>1, <1>2, <1>4, OthersKeep DEF OfPermit
    <2> QED BY <2>1, <1>2, <1>4 DEF OfPermit
<1> QED BY <1>2, <1>4, <1>5

(* A call that ends without an effect.                                       *)
LEMMA PermitEndsQuietly ==
    ASSUME PermissionsInv, NEW c \in Calls, permit[c].pc # "done",
           NEW e \in {"refused", "failed"}, PermitEnds(c, e), UNCHANGED <<group, grants, joined>>
    PROVE  PermissionsInv'
<1>1. OnlyPermit(c) /\ OfPermit(c)' /\ permit'[c].result = "none"
    BY PermitEndsIs
<1> QED BY <1>1, PermitKeeps DEF Well, PermissionsInv, PermissionsTypeOK

(* A call that goes on from here.                                            *)
LEMMA AsksKeeps ==
    ASSUME PermissionsInv, NEW c \in Calls, permit[c].pc = "idle",
           NEW op \in {"request", "assign", "grant", "delete"},
           NEW u \in Members \cup {NoOne}, NEW g \in Groups \cup {NoOne},
           NEW k \in Permissions \cup {NoOne}, NEW pc \in {"codes", "exists", "drop"},
           Asks(c, op, u, g, k, pc), UNCHANGED <<group, grants, joined>>,
           pc = "codes" => op = "request",
           pc = "exists" => /\ g \in Groups
                            /\ op = "assign" => u \in Members
                            /\ op = "grant" => k \in Permissions,
           pc = "drop" => op = "delete" /\ \A m \in Members : <<m, g>> \notin joined
    PROVE  PermissionsInv'
<1>1. permit \in [Calls -> Permit]
    BY DEF PermissionsInv, PermissionsTypeOK
<1> DEFINE y == Asked(op, u, g, k, pc)
<1>2. /\ y \in Permit /\ y.pc = pc /\ y.op = op /\ y.result = "none" /\ y.user = u
      /\ y.in = g /\ y.code = k /\ y.before = EndedIn(permit)
    BY DEF Asked, Permit, EndedIn
<1>3. permit' = [permit EXCEPT ![c] = y]
    BY DEF Asks
<1> HIDE DEF y
<1>4. OnlyPermit(c) /\ permit'[c] = y
    BY <1>1, <1>2, <1>3 DEF OnlyPermit
<1>5. /\ permit'[c].pc = pc /\ permit'[c].op = op /\ permit'[c].result = "none"
      /\ permit'[c].user = u /\ permit'[c].in = g /\ permit'[c].code = k
      /\ permit'[c].before = EndedIn(permit)
    BY <1>2, <1>4
<1>6. ASSUME pc = "drop", NEW b \in EndedIn(permit), Well(b, "assign")', permit'[b].in = g
      PROVE  Explained(b)'
    <2>1. b \in Calls /\ permit'[b] = permit[b]
        BY <1>4 DEF EndedIn, OnlyPermit
    <2>2. Well(b, "assign")
        BY <2>1, <1>6 DEF Well
    <2>3. permit[b].user \in Members \cup {NoOne} /\ permit[b].in = g
        BY <2>1, <1>6, PermitFields DEF PermissionsInv
    <2>4. <<permit[b].user, permit[b].in>> \notin joined
        BY <2>3, <1>6 DEF PermissionsInv, PermissionsTypeOK
    <2>5. Explained(b)
        BY <2>1, <2>2, <2>4 DEF PermissionsInv, MembersSurvive, Explained
    <2> QED BY <2>1, <2>2, <2>5, <1>4, OthersKeep
<1>7. OfPermit(c)'
    BY <1>4, <1>5, <1>6, OthersKeep DEF OfPermit
<1> QED BY <1>4, <1>5, <1>7, PermitKeeps DEF Well, PermissionsInv, PermissionsTypeOK

(* A call that is one statement.                                             *)
LEMMA AsksOnceIs ==
    ASSUME PermissionsInv, NEW c \in Calls, permit[c].pc = "idle",
           NEW op \in {"request", "revoke", "grant"},
           NEW u \in Members \cup {NoOne}, NEW g \in Groups \cup {NoOne},
           NEW k \in Permissions \cup {NoOne}, AsksOnce(c, op, u, g, k)
    PROVE  /\ OnlyPermit(c) /\ OfPermit(c)'
           /\ permit'[c].result # "none" =>
                 permit'[c].op = op /\ permit'[c].user = u /\ permit'[c].in = g
<1>1. permit \in [Calls -> Permit]
    BY DEF PermissionsInv, PermissionsTypeOK
<1> DEFINE x == Asked(op, u, g, k, "done")
           y == Settled(x, "ok")
<1>2. x \in Permit /\ x.op = op /\ x.user = u /\ x.in = g /\ x.before = EndedIn(permit)
    BY DEF Asked, Permit, EndedIn
<1>3. permit' = [permit EXCEPT ![c] = y]
    BY DEF AsksOnce
<1> HIDE DEF x
<1>4. /\ y \in Permit /\ y.pc = "done" /\ y.before \subseteq EndedIn(permit)
      /\ y.result # "none" => y.op = op /\ y.user = u /\ y.in = g
    <2>1. CASE op \in {"assign", "revoke", "delete", "request"}
        BY <1>2, <2>1 DEF Settled, Permit
    <2>2. CASE op \notin {"assign", "revoke", "delete", "request"}
        BY <1>2, <2>2 DEF Settled, Permit, NoPermit
    <2> QED BY <2>1, <2>2
<1> HIDE DEF y
<1>5. OnlyPermit(c) /\ permit'[c] = y
    BY <1>1, <1>3, <1>4 DEF OnlyPermit
<1>6. OfPermit(c)'
    <2>1. permit'[c].before \subseteq EndedIn(permit')
        BY <1>4, <1>5, OthersKeep
    <2> QED BY <2>1, <1>4, <1>5 DEF OfPermit
<1> QED BY <1>4, <1>5, <1>6

(* A call that comes in to check, to be let in or to be granted.             *)
LEMMA ComersKeep ==
    ASSUME PermissionsInv, NEW c \in Calls,
           RequestFind(c) \/ AssignFind(c) \/ AddPermissionFind(c)
    PROVE  PermissionsInv'
<1>1. permit[c].pc = "idle" /\ UNCHANGED <<group, grants, joined>>
    BY DEF RequestFind, AssignFind, AddPermissionFind, Comes
<1>2. CASE RequestFind(c)
    <2>1. PICK u \in Members, k \in Permissions :
            \/ u \in Supers /\ AsksOnce(c, "request", u, NoOne, k)
            \/ Asks(c, "request", u, NoOne, k, "codes")
        BY <1>2 DEF RequestFind
    <2>2. CASE Asks(c, "request", u, NoOne, k, "codes")
        BY <1>1, <2>2, AsksKeeps
    <2>3. CASE u \in Supers /\ AsksOnce(c, "request", u, NoOne, k)
        <3>1. /\ OnlyPermit(c) /\ OfPermit(c)'
              /\ permit'[c].result # "none" => permit'[c].op = "request" /\ permit'[c].user = u
            BY <1>1, <2>3, AsksOnceIs
        <3> QED BY <3>1, <1>1, <2>3, PermitKeeps DEF Well, PermissionsInv, PermissionsTypeOK
    <2> QED BY <2>1, <2>2, <2>3
<1>3. CASE AssignFind(c)
    <2>1. PICK u \in Members, g \in Groups : Asks(c, "assign", u, g, NoOne, "exists")
        BY <1>3 DEF AssignFind
    <2> QED BY <1>1, <2>1, AsksKeeps
<1>4. CASE AddPermissionFind(c)
    <2>1. PICK g \in Groups, k \in Permissions : Asks(c, "grant", NoOne, g, k, "exists")
        BY <1>4 DEF AddPermissionFind
    <2> QED BY <1>1, <2>1, AsksKeeps
<1> QED BY <1>2, <1>3, <1>4

(* A group that is found there.                                              *)
LEMMA ExistsKeeps ==
    ASSUME PermissionsInv, NEW c \in Calls, AssignExists(c) \/ AddPermissionExists(c)
    PROVE  PermissionsInv'
<1>1. /\ permit[c].pc = "exists" /\ UNCHANGED <<group, grants, joined>>
      /\ permit \in [Calls -> Permit] /\ permit[c] \in Permit /\ OfPermit(c)
    BY DEF AssignExists, AddPermissionExists, PermissionsInv, PermissionsTypeOK
<1>2. CASE PermitEnds(c, "refused")
    BY <1>1, <1>2, PermitEndsQuietly
<1>3. ASSUME NEW p \in {"join", "grant"}, PermitGoes(c, p),
             p = "join" => permit[c].op = "assign", p = "grant" => permit[c].op = "grant"
      PROVE  PermissionsInv'
    <2> DEFINE y == [permit[c] EXCEPT !.pc = p]
    <2>1. /\ y \in Permit /\ y.pc = p /\ y.op = permit[c].op /\ y.result = "none"
          /\ y.user = permit[c].user /\ y.in = permit[c].in /\ y.code = permit[c].code
          /\ y.before = permit[c].before
        BY <1>1 DEF Permit, OfPermit
    <2>2. permit' = [permit EXCEPT ![c] = y]
        BY <1>3 DEF PermitGoes
    <2> HIDE DEF y
    <2>3. OnlyPermit(c) /\ permit'[c] = y
        BY <1>1, <2>1, <2>2 DEF OnlyPermit
    <2>4. OfPermit(c)'
        BY <1>1, <1>3, <2>1, <2>3, OthersKeep DEF OfPermit
    <2> QED BY <1>1, <2>1, <2>3, <2>4, PermitKeeps DEF Well, PermissionsInv, PermissionsTypeOK
<1>4. CASE PermitGoes(c, "join") /\ permit[c].op = "assign"
    BY <1>3, <1>4
<1>5. CASE PermitGoes(c, "grant") /\ permit[c].op = "grant"
    BY <1>3, <1>5
<1> QED BY <1>2, <1>4, <1>5 DEF AssignExists, AddPermissionExists

(* The check asks the database, and so is let through by a membership.       *)
LEMMA RequestCodesKeeps ==
    ASSUME PermissionsInv, NEW c \in Calls, RequestCodes(c) PROVE PermissionsInv'
<1>1. /\ permit[c].pc = "codes" /\ permit[c].op = "request"
      /\ UNCHANGED <<group, grants, joined>>
    BY DEF RequestCodes, PermissionsInv, OfPermit
<1>2. CASE PermitEnds(c, "refused")
    BY <1>1, <1>2, PermitEndsQuietly
<1>3. CASE PermitEnds(c, "ok") /\ permit[c].code \in CodesOf(permit[c].user)
    <2>1. PICK g \in Groups : <<permit[c].user, g>> \in joined
        BY <1>3 DEF CodesOf
    <2>2. /\ OnlyPermit(c) /\ OfPermit(c)'
          /\ permit'[c].result # "none" =>
                /\ permit'[c].op = "request" /\ permit'[c].user = permit[c].user
                /\ permit'[c].before = permit[c].before
        BY <1>1, <1>3, PermitEndsIs
    <2> QED BY <1>1, <2>1, <2>2, PermitKeeps DEF Well, PermissionsInv, PermissionsTypeOK
<1> QED BY <1>2, <1>3 DEF RequestCodes

(* Who is let in had not ended when a revocation that has ended came in.      *)
LEMMA AssignKeeps ==
    ASSUME PermissionsInv, NEW c \in Calls, AssignGroupToUser(c) PROVE PermissionsInv'
<1> DEFINE u == permit[c].user
           g == permit[c].in
<1>1. /\ permit[c].pc = "join" /\ permit[c].op = "assign" /\ u \in Members /\ g \in Groups
      /\ UNCHANGED <<group, grants>>
    BY DEF AssignGroupToUser, PermissionsInv, OfPermit
<1>2. CASE UNCHANGED joined /\ PermitEnds(c, "failed")
    BY <1>1, <1>2, PermitEndsQuietly
<1>3. CASE joined' = joined \cup {<<u, g>>} /\ PermitEnds(c, "ok")
    <2>1. /\ OnlyPermit(c) /\ OfPermit(c)' /\ permit'[c].pc = "done"
          /\ permit'[c].result # "none" =>
                permit'[c].op = "assign" /\ permit'[c].user = u /\ permit'[c].in = g
        BY <1>1, <1>3, PermitEndsIs
    <2>2. Well(c, "assign")' /\ permit'[c].user = u /\ permit'[c].in = g
        <3>1. permit' = [permit EXCEPT ![c] = [permit[c] EXCEPT !.pc = "done", !.result = "ok"]]
            BY <1>1, <1>3 DEF PermitEnds, Settled
        <3>2. permit \in [Calls -> Permit] /\ permit[c] \in Permit
            BY DEF PermissionsInv, PermissionsTypeOK
        <3> QED BY <3>1, <3>2, <1>1 DEF Permit, Well
    <2>3. ASSUME NEW q \in Calls, Well(q, "revoke"),
                 <<permit[q].user, permit[q].in>> \in joined' \ joined
          PROVE  PutBack(q)'
        <3>1. permit[q].user = u /\ permit[q].in = g
            BY <1>3, <2>3
        <3>2. c \notin permit[q].before /\ permit'[q] = permit[q]
            BY <1>1, <2>1, <2>3 DEF PermissionsInv, OfPermit, EndedIn, OnlyPermit, Well
        <3> QED BY <2>2, <3>1, <3>2 DEF PutBack, SamePair
    <2>4. /\ grants' \subseteq Groups \X Permissions /\ joined' \subseteq Members \X Groups
          /\ group' \in [Groups -> {"new", "there", "deleted"}]
        BY <1>1, <1>3 DEF PermissionsInv, PermissionsTypeOK
    <2> QED BY <1>3, <2>1, <2>2, <2>3, <2>4, PermitKeeps DEF Well
<1> QED BY <1>2, <1>3 DEF AssignGroupToUser

(* A revocation comes after every assignment that was acknowledged.          *)
LEMMA RevokeKeeps ==
    ASSUME PermissionsInv, NEW c \in Calls, RevokeGroupFromUser(c) PROVE PermissionsInv'
<1>1. PICK u \in Members, g \in Groups :
        joined' = joined \ {<<u, g>>} /\ AsksOnce(c, "revoke", u, g, NoOne)
    BY DEF RevokeGroupFromUser
<1>2. permit[c].pc = "idle" /\ UNCHANGED <<group, grants>>
    BY DEF RevokeGroupFromUser, Comes
<1>3. /\ OnlyPermit(c) /\ OfPermit(c)'
    BY <1>1, <1>2, AsksOnceIs
<1>4. Well(c, "revoke")' /\ permit'[c].user = u /\ permit'[c].in = g
    <2>1. permit' = [permit EXCEPT ![c] = [pc |-> "done", op |-> "revoke", result |-> "ok",
                        user |-> u, in |-> g, code |-> NoOne, before |-> EndedIn(permit)]]
        <3>1. permit' = [permit EXCEPT ![c] = Settled(Asked("revoke", u, g, NoOne, "done"), "ok")]
            BY <1>1 DEF AsksOnce
        <3>2. Settled(Asked("revoke", u, g, NoOne, "done"), "ok") =
                [Asked("revoke", u, g, NoOne, "done") EXCEPT !.pc = "done", !.result = "ok"]
            BY DEF Settled, Asked
        <3> QED BY <3>1, <3>2 DEF Asked
    <2>2. permit \in [Calls -> Permit]
        BY DEF PermissionsInv, PermissionsTypeOK
    <2> QED BY <2>1, <2>2 DEF Well
<1>5. ASSUME NEW d \in Calls, Well(d, "assign"),
             <<permit[d].user, permit[d].in>> \in joined \ joined'
      PROVE  Explained(d)'
    <2>1. permit[d].user = u /\ permit[d].in = g
        BY <1>1, <1>5
    <2>2. c \notin permit[d].before /\ permit'[d] = permit[d]
        BY <1>2, <1>3, <1>5 DEF PermissionsInv, OfPermit, EndedIn, OnlyPermit, Well
    <2> QED BY <1>4, <2>1, <2>2 DEF Explained, SamePair
<1>6. /\ grants' \subseteq Groups \X Permissions /\ joined' \subseteq Members \X Groups
      /\ group' \in [Groups -> {"new", "there", "deleted"}] /\ joined' \subseteq joined
    BY <1>1, <1>2 DEF PermissionsInv, PermissionsTypeOK
<1>7. <<u, g>> \notin joined'
    BY <1>1
<1> QED BY <1>3, <1>4, <1>5, <1>6, <1>7, PermitKeeps DEF Well

(* A deletion that finds members refuses; the members it takes came since.    *)
LEMMA DeleteCheckKeeps ==
    ASSUME PermissionsInv, NEW c \in Calls, DeleteGroupCheck(c) PROVE PermissionsInv'
<1>1. permit[c].pc = "idle" /\ UNCHANGED <<group, grants, joined>>
    BY DEF DeleteGroupCheck, Comes
<1>2. PICK g \in Groups :
        \/ permit' = [permit EXCEPT ![c].pc = "done"]
        \/ /\ ~ \E u \in Members : <<u, g>> \in joined
           /\ Asks(c, "delete", NoOne, g, NoOne, "drop")
    BY DEF DeleteGroupCheck
<1>3. CASE permit' = [permit EXCEPT ![c].pc = "done"]
    <2>1. permit \in [Calls -> Permit] /\ permit[c] \in Permit /\ OfPermit(c)
        BY DEF PermissionsInv, PermissionsTypeOK
    <2> DEFINE y == [permit[c] EXCEPT !.pc = "done"]
    <2>2. /\ y \in Permit /\ y.pc = "done" /\ y.result = "none"
          /\ y.before = permit[c].before
        BY <2>1, <1>1 DEF Permit, OfPermit
    <2>3. permit' = [permit EXCEPT ![c] = y]
        BY <1>3
    <2> HIDE DEF y
    <2>4. OnlyPermit(c) /\ permit'[c] = y
        BY <1>1, <2>1, <2>2, <2>3 DEF OnlyPermit
    <2>5. OfPermit(c)'
        BY <2>1, <2>2, <2>4, OthersKeep DEF OfPermit
    <2> QED BY <1>1, <2>2, <2>4, <2>5, PermitKeeps DEF Well, PermissionsInv, PermissionsTypeOK
<1>4. CASE /\ ~ \E u \in Members : <<u, g>> \in joined
           /\ Asks(c, "delete", NoOne, g, NoOne, "drop")
    BY <1>1, <1>4, AsksKeeps
<1> QED BY <1>2, <1>3, <1>4

(* The group is dropped with its members, or is not there.                   *)
LEMMA DeleteKeeps ==
    ASSUME PermissionsInv, NEW c \in Calls, DeleteGroup(c) PROVE PermissionsInv'
<1> DEFINE g == permit[c].in
<1>1. /\ permit[c].pc = "drop" /\ permit[c].op = "delete" /\ OfPermit(c)
      /\ permit \in [Calls -> Permit] /\ permit[c] \in Permit
    BY DEF DeleteGroup, PermissionsInv, PermissionsTypeOK, OfPermit
<1>2. CASE PermitEnds(c, "refused") /\ UNCHANGED <<group, grants, joined>>
    BY <1>1, <1>2, PermitEndsQuietly
<1>3. CASE /\ group' = [group EXCEPT ![g] = "deleted"]
           /\ grants' = { a \in grants : a[1] # g }
           /\ joined' = { a \in joined : a[2] # g }
           /\ PermitEnds(c, "ok")
    <2>1. OnlyPermit(c) /\ OfPermit(c)'
        BY <1>1, <1>3, PermitEndsIs
    <2>2. Well(c, "delete")' /\ permit'[c].in = g /\ permit'[c].before = permit[c].before
        <3>1. permit' = [permit EXCEPT ![c] = [permit[c] EXCEPT !.pc = "done", !.result = "ok"]]
            BY <1>1, <1>3 DEF PermitEnds, Settled
        <3> QED BY <3>1, <1>1 DEF Permit, Well
    <2>3. ASSUME NEW d \in Calls, Well(d, "assign"),
                 <<permit[d].user, permit[d].in>> \in joined \ joined'
          PROVE  Explained(d)'
        <3>1. permit[d].in = g
            BY <1>3, <2>3
        <3>2. c \notin permit[d].before /\ permit'[d] = permit[d]
            BY <1>1, <2>1, <2>3 DEF PermissionsInv, OfPermit, EndedIn, OnlyPermit, Well
        <3>3. CASE d \in permit[c].before
            BY <1>1, <2>1, <2>3, <3>1, <3>3, OthersKeep DEF OfPermit
        <3>4. CASE d \notin permit[c].before
            BY <2>2, <3>1, <3>2, <3>4 DEF Explained
        <3> QED BY <3>3, <3>4
    <2>4. /\ grants' \subseteq Groups \X Permissions /\ joined' \subseteq Members \X Groups
          /\ group' \in [Groups -> {"new", "there", "deleted"}] /\ joined' \subseteq joined
        BY <1>3 DEF PermissionsInv, PermissionsTypeOK
    <2> QED BY <2>1, <2>2, <2>3, <2>4, PermitKeeps DEF Well
<1> QED BY <1>2, <1>3 DEF DeleteGroup

(* What a group grants is no membership.                                     *)
LEMMA GrantsKeep ==
    ASSUME PermissionsInv, NEW c \in Calls,
           CreateGroup(c) \/ AddPermissionToGroup(c) \/ RemovePermissionFromGroup(c)
    PROVE  PermissionsInv'
<1>1. UNCHANGED joined /\ permit[c].pc # "done"
    BY DEF CreateGroup, AddPermissionToGroup, RemovePermissionFromGroup, Comes
<1>2. ASSUME OnlyPermit(c), OfPermit(c)', group' \in [Groups -> {"new", "there", "deleted"}],
             grants' \subseteq Groups \X Permissions,
             permit'[c].result # "none" => permit'[c].op = "grant"
      PROVE  PermissionsInv'
    BY <1>1, <1>2, PermitKeeps DEF Well, PermissionsInv, PermissionsTypeOK
<1>3. CASE CreateGroup(c)
    <2>1. PICK g \in Groups, P \in SUBSET Permissions :
            /\ group' = [group EXCEPT ![g] = "there"]
            /\ grants' = grants \cup ({g} \X P)
            /\ AsksOnce(c, "grant", NoOne, g, NoOne)
        BY <1>3 DEF CreateGroup
    <2>2. permit[c].pc = "idle"
        BY <1>3 DEF CreateGroup, Comes
    <2>3. /\ OnlyPermit(c) /\ OfPermit(c)'
          /\ permit'[c].result # "none" => permit'[c].op = "grant"
        BY <2>1, <2>2, AsksOnceIs
    <2>4. group' \in [Groups -> {"new", "there", "deleted"}]
        BY <2>1 DEF PermissionsInv, PermissionsTypeOK
    <2>5. grants' \subseteq Groups \X Permissions
        BY <2>1 DEF PermissionsInv, PermissionsTypeOK
    <2> QED BY <1>2, <2>3, <2>4, <2>5
<1>4. CASE RemovePermissionFromGroup(c)
    <2>1. PICK g \in Groups, k \in Permissions :
            grants' = grants \ {<<g, k>>} /\ AsksOnce(c, "grant", NoOne, g, k)
        BY <1>4 DEF RemovePermissionFromGroup
    <2>2. permit[c].pc = "idle" /\ UNCHANGED group
        BY <1>4 DEF RemovePermissionFromGroup, Comes
    <2>3. /\ OnlyPermit(c) /\ OfPermit(c)'
          /\ permit'[c].result # "none" => permit'[c].op = "grant"
        BY <2>1, <2>2, AsksOnceIs
    <2> QED BY <1>2, <2>1, <2>2, <2>3 DEF PermissionsInv, PermissionsTypeOK
<1>5. CASE AddPermissionToGroup(c)
    <2>1. /\ permit[c].pc = "grant" /\ permit[c].in \in Groups
          /\ permit[c].code \in Permissions /\ UNCHANGED <<group, joined>>
        BY <1>5 DEF AddPermissionToGroup, PermissionsInv, OfPermit
    <2>2. CASE PermitEnds(c, "failed") /\ UNCHANGED grants
        BY <2>1, <2>2, PermitEndsQuietly
    <2>3. CASE PermitEnds(c, "ok") /\ grants' = grants \cup {<<permit[c].in, permit[c].code>>}
        <3>1. /\ OnlyPermit(c) /\ OfPermit(c)'
              /\ permit'[c].result # "none" => permit'[c].op = permit[c].op
            BY <2>1, <2>3, PermitEndsIs
        <3>2. permit[c].op = "grant"
            BY <2>1 DEF PermissionsInv, OfPermit
        <3> QED BY <1>2, <2>1, <2>3, <3>1, <3>2 DEF PermissionsInv, PermissionsTypeOK
    <2> QED BY <2>2, <2>3, <1>5 DEF AddPermissionToGroup
<1> QED BY <1>3, <1>4, <1>5

(* The invariant of the permission groups.                                   *)
THEOREM PermissionsInvariant == PermissionsSpec => []PermissionsInv
<1>1. PermissionsInit => PermissionsInv
    <2> SUFFICES ASSUME PermissionsInit PROVE PermissionsInv
        OBVIOUS
    <2>1. \A c \in Calls : permit[c] = NoPermit
        BY DEF PermissionsInit
    <2>2. NoPermit \in Permit /\ NoPermit.result = "none"
        BY DEF NoPermit, Permit
    <2>3. PermissionsTypeOK
        BY <2>1, <2>2 DEF PermissionsInit, PermissionsTypeOK
    <2>4. \A c \in Calls : OfPermit(c)
        BY <2>1 DEF OfPermit, NoPermit
    <2> QED BY <2>1, <2>2, <2>3, <2>4 DEF PermissionsInv, MembersSurvive, RevokedOrBack,
                                          RevokedIsDenied, Well
<1>2. PermissionsInv /\ [PermissionsNext]_permissionVars => PermissionsInv'
    <2> SUFFICES ASSUME PermissionsInv, [PermissionsNext]_permissionVars PROVE PermissionsInv'
        OBVIOUS
    <2>1. CASE UNCHANGED permissionVars
        BY <2>1 DEF permissionVars, PermissionsInv, PermissionsTypeOK, OfPermit, Explained,
                    MembersSurvive, RevokedOrBack, RevokedIsDenied, PutBack, Well, SamePair,
                    EndedIn
    <2>2. ASSUME NEW c \in Calls, PermitFails(c) PROVE PermissionsInv'
        BY <2>2, PermitEndsQuietly DEF PermitFails
    <2> QED BY <2>1, <2>2, ComersKeep, ExistsKeeps, RequestCodesKeeps, AssignKeeps,
               RevokeKeeps, DeleteCheckKeeps, DeleteKeeps, GrantsKeep DEF PermissionsNext
<1> QED BY <1>1, <1>2, PTL DEF PermissionsSpec

(* For any users, groups and calls, an acknowledged membership is gone only   *)
(* after a revocation that had not ended before it, or a deletion of the      *)
(* group that overlapped it.                                                 *)
THEOREM MembersTheorem == PermissionsSpec => []MembersSurvive
<1>1. PermissionsInv => MembersSurvive
    BY DEF PermissionsInv
<1> QED BY <1>1, PermissionsInvariant, PTL

(* For any users, groups and calls, a revocation that has ended holds for     *)
(* every request that comes in later.                                        *)
THEOREM RevokedTheorem == PermissionsSpec => []RevokedIsDenied
<1>1. PermissionsInv => RevokedIsDenied
    BY DEF PermissionsInv
<1> QED BY <1>1, PermissionsInvariant, PTL

(***************************************************************************)
(* Assignments                                                             *)
(***************************************************************************)

\* A row that is never current again: it is closed for good, or was rolled back.
Gone(i) ==
    /\ i \in Olds \/ assign[i].pc = "done"
    /\ \A d \in Calls : i \notin assign[d].holds
    /\ rows[i].state # "current"

\* The rows that c has to close, and how far it is with them.
ToClose(c) == { i \in Olds \cup assign[c].before : i # c /\ InScope(rows[i], c) }
OnItsWay(c) ==
    /\ assign[c].pc = "close" =>
         \A i \in ToClose(c) : i \in assign[c].seen \/ Gone(i)
    /\ assign[c].pc \in {"insert", "commit"} =>
         \A i \in ToClose(c) : i \in assign[c].holds \/ Gone(i)
    /\ assign[c].result = "ok" => \A i \in ToClose(c) : Gone(i)

\* What a transaction has locked: its own row, and those it closed.
Holds(c) ==
    /\ assign[c].pc \notin {"insert", "commit"} => assign[c].holds = {}
    /\ assign[c].pc = "commit" /\ assign[c].inserts => c \in assign[c].holds
    /\ c \in assign[c].holds =>
         /\ assign[c].pc = "commit" /\ assign[c].inserts /\ rows[c].state = "current"
         /\ rows[c].kind = assign[c].kind /\ rows[c].source = assign[c].source
         /\ rows[c].target = assign[c].target
    /\ \A i \in assign[c].holds : ~ Held(i, c)
    /\ \A i \in assign[c].holds \ {c} :
         rows[i].state = "closed" /\ (i \in Olds \/ assign[i].pc = "done") /\ InScope(rows[i], c)

OfAssign(c) ==
    /\ assign[c].before \subseteq EndedIn(assign)
    /\ assign[c].result = "ok" => assign[c].pc = "done"
    /\ assign[c].pc = "school" => assign[c].school \in Schools
    /\ assign[c].pc = "insert" => assign[c].inserts
    /\ rows[c].state # "none" => c \in assign[c].holds \/ assign[c].pc = "done"
    /\ Holds(c) /\ OnItsWay(c)

AssignmentsInv == /\ AssignmentsTypeOK
                  /\ \A c \in Calls : OfAssign(c)
                  /\ AdviserNotLost

\* c moves: it keeps off the rows that others hold and those that are over.
OnlyAssign(c) ==
    /\ assign[c].pc # "done"
    /\ assign' \in [Calls -> AssignCall] /\ rows' \in [RowIds -> Assignment]
    /\ \A d \in Calls : d # c => assign'[d] = assign[d]
    /\ \A i \in RowIds : i # c =>
         /\ rows'[i].kind = rows[i].kind /\ rows'[i].target = rows[i].target
         /\ rows'[i].source = rows[i].source
         /\ rows'[i].state # "none" => rows[i].state # "none"
    /\ \A i \in RowIds : Gone(i) \/ Held(i, c) =>
         rows'[i] = rows[i] /\ i \notin assign'[c].holds

(* The fields of a call and of a row, each of its type.                      *)
LEMMA AssignFields ==
    ASSUME AssignmentsTypeOK, NEW c \in Calls
    PROVE  /\ assign[c] \in AssignCall /\ assign \in [Calls -> AssignCall]
           /\ rows \in [RowIds -> Assignment] /\ c \in RowIds /\ c \notin Olds
           /\ assign[c].holds \subseteq RowIds /\ assign[c].seen \subseteq RowIds
           /\ assign[c].before \subseteq Calls
    BY AssignmentsAssumption DEF AssignmentsTypeOK, AssignCall, RowIds

(* A row that is over stays so.                                              *)
LEMMA OverStays ==
    ASSUME AssignmentsInv, NEW c \in Calls, OnlyAssign(c), NEW i \in RowIds, Gone(i)
    PROVE  Gone(i)' /\ i # c
<1>1. i # c
    BY AssignFields DEF Gone, OnlyAssign, AssignmentsInv
<1>2. rows'[i] = rows[i] /\ i \notin assign'[c].holds
    BY DEF OnlyAssign
<1>3. i \in Olds \/ i \in Calls
    BY DEF RowIds
<1> QED BY <1>1, <1>2, <1>3 DEF Gone, OnlyAssign

(* What a call that does not move has locked, and has to close.              *)
LEMMA AsideKeeps ==
    ASSUME AssignmentsInv, NEW c \in Calls, OnlyAssign(c), NEW d \in Calls, d # c
    PROVE  OfAssign(d)'
<1>1. assign'[d] = assign[d] /\ OfAssign(d) /\ d \in RowIds
    BY AssignFields DEF OnlyAssign, AssignmentsInv
<1>2. EndedIn(assign) \subseteq EndedIn(assign)'
    BY DEF OnlyAssign, EndedIn
<1>3. \A i \in assign[d].holds :
        i \in RowIds /\ rows'[i] = rows[i] /\ i \notin assign'[c].holds
    BY AssignFields DEF AssignmentsInv, OnlyAssign, Held
<1>4. Holds(d)'
    <2>1. \A i \in assign[d].holds : ~ Held(i, d)'
        BY <1>1, <1>3 DEF OfAssign, Holds, Held, OnlyAssign
    <2>2. \A i \in assign[d].holds \ {d} :
            (i \in Olds \/ assign'[i].pc = "done") /\ InScope(rows[i], d)'
        BY <1>1, <1>3 DEF OfAssign, Holds, OnlyAssign, RowIds, InScope
    <2> QED BY <1>1, <1>3, <2>1, <2>2 DEF OfAssign, Holds
<1>5. \A i \in ToClose(d)' : i \in ToClose(d) /\ i \in RowIds /\ i # c
    <2> TAKE i \in ToClose(d)'
    <2>1. i \in Olds \cup assign[d].before /\ i # d /\ InScope(rows[i], d)'
        BY <1>1 DEF ToClose
    <2>2. i \in RowIds /\ i # c
        BY <1>1, <2>1, AssignFields DEF OfAssign, EndedIn, RowIds, OnlyAssign, AssignmentsInv
    <2> QED BY <1>1, <2>1, <2>2 DEF ToClose, InScope, OnlyAssign
<1>6. OnItsWay(d)'
    BY <1>1, <1>5, OverStays DEF OfAssign, OnItsWay
<1>7. rows'[d].state # "none" => d \in assign'[d].holds \/ assign'[d].pc = "done"
    BY <1>1 DEF OfAssign, OnlyAssign
<1> QED BY <1>1, <1>2, <1>4, <1>6, <1>7 DEF OfAssign

(* What a step has to show, of its own call.                                 *)
LEMMA AssignmentKeeps ==
    ASSUME AssignmentsInv, NEW c \in Calls, OnlyAssign(c), OfAssign(c)', AdviserNotLost',
           owner' \in [Schools -> Owners \cup {NoOne}], active' \in [Schools -> BOOLEAN]
    PROVE  AssignmentsInv'
<1>1. \A d \in Calls : OfAssign(d)'
    BY AsideKeeps
<1>2. AssignmentsTypeOK'
    BY DEF OnlyAssign, AssignmentsTypeOK
<1> QED BY <1>1, <1>2 DEF AssignmentsInv

(* As long as readers see the same rows, the roster is the same.             *)
LEMMA RollStays ==
    ASSUME AssignmentsInv, NEW c \in Calls, OnlyAssign(c),
           \A i \in RowIds : IsCurrent(i)' <=> IsCurrent(i)
    PROVE  Roll' = Roll
<1>1. ~ IsCurrent(c)
    BY AssignFields DEF IsCurrent, AssignmentsInv, OfAssign, Holds, OnlyAssign
<1>2. \A i \in RowIds : i # c => Line(i)' = Line(i)
    BY DEF OnlyAssign, Line
<1> QED BY <1>1, <1>2 DEF Roll

(* As long as readers see the same rows, nobody loses an adviser.            *)
LEMMA SeenStays ==
    ASSUME AssignmentsInv, NEW c \in Calls, OnlyAssign(c),
           \A i \in RowIds : IsCurrent(i)' <=> IsCurrent(i)
    PROVE  AdviserNotLost'
<1> SUFFICES ASSUME NEW i \in Olds, rows'[i].state # "none"
             PROVE  \/ \E j \in RowIds : /\ IsCurrent(j)' /\ rows'[j].kind = rows'[i].kind
                                         /\ rows'[j].target = rows'[i].target
                    \/ \E q \in Calls : /\ Over(q, rows[i].kind, rows[i].target)'
                                        /\ ~ assign'[q].inserts
    BY DEF AdviserNotLost
<1>1. i \in RowIds /\ i # c
    BY AssignFields DEF AssignmentsInv, RowIds
<1>2. /\ rows'[i].kind = rows[i].kind /\ rows'[i].target = rows[i].target
      /\ rows[i].state # "none"
    BY <1>1 DEF OnlyAssign
<1>3. ~ IsCurrent(c)
    BY AssignFields DEF IsCurrent, AssignmentsInv, OfAssign, Holds, OnlyAssign
<1>4. CASE \E j \in RowIds : /\ IsCurrent(j) /\ rows[j].kind = rows[i].kind
                             /\ rows[j].target = rows[i].target
    BY <1>2, <1>3, <1>4 DEF OnlyAssign
<1>5. CASE \E q \in Calls : Over(q, rows[i].kind, rows[i].target) /\ ~ assign[q].inserts
    <2>1. PICK q \in Calls : Over(q, rows[i].kind, rows[i].target) /\ ~ assign[q].inserts
        BY <1>5
    <2>2. q # c
        BY <2>1 DEF Over, AssignmentsInv, OfAssign, OnlyAssign
    <2> QED BY <1>2, <2>1, <2>2 DEF Over, OnlyAssign
<1> QED BY <1>2, <1>4, <1>5 DEF AssignmentsInv, AdviserNotLost

(* A call that leaves the rows alone, and holds none.                        *)
LEMMA AssignMoves ==
    ASSUME AssignmentsInv, NEW c \in Calls, assign[c].pc # "done", assign[c].holds = {},
           NEW y \in AssignCall, assign' = [assign EXCEPT ![c] = y], rows' = rows,
           owner' \in [Schools -> Owners \cup {NoOne}], active' \in [Schools -> BOOLEAN],
           y.holds = {}, y.result = "none", y.pc \notin {"insert", "commit"},
           y.before \subseteq EndedIn(assign), y.pc = "school" => y.school \in Schools,
           y.pc = "close" => OnItsWay(c)'
    PROVE  AssignmentsInv' /\ Roll' = Roll
<1>1. /\ assign \in [Calls -> AssignCall] /\ rows \in [RowIds -> Assignment] /\ OfAssign(c)
      /\ c \in RowIds
    BY AssignFields DEF AssignmentsInv
<1>2. assign'[c] = y /\ \A d \in Calls : d # c => assign'[d] = assign[d]
    BY <1>1
<1>3. OnlyAssign(c)
    BY <1>1, <1>2 DEF OnlyAssign
<1>4. OnItsWay(c)'
    BY <1>2 DEF OnItsWay
<1>5. Holds(c)'
    BY <1>2 DEF Holds
<1>6. rows[c].state = "none"
    BY <1>1 DEF OfAssign
<1>7. EndedIn(assign) \subseteq EndedIn(assign)'
    BY <1>2 DEF EndedIn
<1>8. OfAssign(c)'
    BY <1>2, <1>4, <1>5, <1>6, <1>7 DEF OfAssign
<1>9. \A i \in RowIds : IsCurrent(i)' <=> IsCurrent(i)
    <2> TAKE i \in RowIds
    <2>1. (\E d \in Calls : i \in assign'[d].holds) <=> (\E d \in Calls : i \in assign[d].holds)
        BY <1>2
    <2> QED BY <2>1 DEF IsCurrent
<1> QED BY <1>3, <1>8, <1>9, SeenStays, RollStays, AssignmentKeeps

(* A call that leaves, with nothing changed.                                 *)
LEMMA AssignLeavesKeeps ==
    ASSUME AssignmentsInv, NEW c \in Calls, assign[c].pc \notin {"insert", "commit", "done"},
           AssignLeaves(c), rows' = rows,
           owner' \in [Schools -> Owners \cup {NoOne}], active' \in [Schools -> BOOLEAN]
    PROVE  AssignmentsInv' /\ Roll' = Roll
<1> DEFINE y == [NoAssign EXCEPT !.pc = "done"]
<1>1. /\ y \in AssignCall /\ y.pc = "done" /\ y.holds = {} /\ y.result = "none"
      /\ y.before = {}
    BY DEF NoAssign, AssignCall, Kinds
<1>2. assign' = [assign EXCEPT ![c] = y] /\ assign[c].holds = {}
    BY DEF AssignLeaves, AssignmentsInv, OfAssign, Holds
<1> HIDE DEF y
<1> QED BY <1>1, <1>2, AssignMoves

(* A request comes in.                                                       *)
LEMMA AssignBeginsKeeps ==
    ASSUME AssignmentsInv, NEW c \in Calls, assign[c].pc = "idle",
           NEW k \in Kinds, NEW scope \in {"target", "pair"}, NEW inserts \in BOOLEAN,
           NEW p \in Staff \cup {NoOne}, NEW t \in Owners \cup {NoOne},
           NEW s \in Schools \cup {NoOne}, AssignBegins(c, k, scope, inserts, p, t, s),
           UNCHANGED <<owner, active, rows>>
    PROVE  AssignmentsInv' /\ Roll' = Roll
<1> DEFINE y == [NoAssign EXCEPT !.pc = IF s = NoOne THEN "begin" ELSE "school", !.kind = k,
                         !.scope = scope, !.inserts = inserts, !.source = p,
                         !.target = t, !.school = s, !.before = EndedIn(assign)]
<1>1. EndedIn(assign) \subseteq Calls
    BY DEF EndedIn
<1>2. /\ y \in AssignCall /\ y.pc \in {"begin", "school"} /\ y.holds = {}
      /\ y.result = "none" /\ y.before = EndedIn(assign)
      /\ y.pc = "school" => y.school \in Schools
    BY <1>1 DEF NoAssign, AssignCall, Kinds
<1>3. assign' = [assign EXCEPT ![c] = y] /\ assign[c].holds = {}
    BY DEF AssignBegins, AssignmentsInv, OfAssign, Holds
<1> HIDE DEF y
<1>4. owner' \in [Schools -> Owners \cup {NoOne}] /\ active' \in [Schools -> BOOLEAN]
    BY DEF AssignmentsInv, AssignmentsTypeOK
<1> QED BY <1>2, <1>3, <1>4, AssignMoves

(* Everything up to the transaction.                                         *)
LEMMA RequestsKeep ==
    ASSUME AssignmentsInv, NEW c \in Calls,
           \/ AssignAsesor(c) \/ AssignCoordinador(c) \/ Reassign(c)
           \/ FindOwner(c) \/ UpdateSchool(c)
    PROVE  AssignmentsInv' /\ Roll' = Roll
<1>1. /\ owner \in [Schools -> Owners \cup {NoOne}] /\ active \in [Schools -> BOOLEAN]
      /\ "asesor" \in Kinds /\ "coordinador" \in Kinds /\ assign[c] \in AssignCall
    BY AssignFields DEF AssignmentsInv, AssignmentsTypeOK, Kinds
<1>2. CASE AssignAsesor(c)
    <2>1. assign[c].pc = "idle" /\ UNCHANGED <<owner, active, rows>>
        BY <1>2 DEF AssignAsesor, Comes
    <2>2. PICK s \in Schools, p \in Staff :
            AssignBegins(c, "asesor", "target", TRUE, p, NoOne, s)
        BY <1>2 DEF AssignAsesor
    <2>3. s \in Schools \cup {NoOne} /\ p \in Staff \cup {NoOne}
        BY <2>2
    <2> QED BY <1>1, <2>1, <2>2, <2>3, AssignBeginsKeeps
<1>3. CASE AssignCoordinador(c)
    <2>1. assign[c].pc = "idle" /\ UNCHANGED <<owner, active, rows>>
        BY <1>3 DEF AssignCoordinador, Comes
    <2>2. PICK s \in Schools, p \in Staff, inserts \in BOOLEAN :
            AssignBegins(c, "coordinador", "pair", inserts, p, NoOne, s)
        BY <1>3 DEF AssignCoordinador
    <2>3. s \in Schools \cup {NoOne} /\ p \in Staff \cup {NoOne} /\ inserts \in BOOLEAN
        BY <2>2
    <2> QED BY <1>1, <2>1, <2>2, <2>3, AssignBeginsKeeps
<1>4. CASE Reassign(c)
    <2>1. assign[c].pc = "idle" /\ UNCHANGED <<owner, active, rows>>
        BY <1>4 DEF Reassign, Comes
    <2>2. PICK k \in Kinds, t \in Owners, p \in Staff \cup {NoOne} :
            AssignBegins(c, k, "target", p # NoOne, p, t, NoOne)
        BY <1>4 DEF Reassign
    <2>3. k \in Kinds /\ t \in Owners \cup {NoOne} /\ p \in Staff \cup {NoOne}
          /\ (p # NoOne) \in BOOLEAN /\ NoOne \in Schools \cup {NoOne}
        BY <2>2
    <2> QED BY <1>1, <2>1, <2>2, <2>3, AssignBeginsKeeps
<1>5. CASE FindOwner(c)
    <2>1. assign[c].pc = "school" /\ UNCHANGED <<owner, active, rows>>
        BY <1>5 DEF FindOwner
    <2> DEFINE o == owner[assign[c].school]
               y == [assign[c] EXCEPT !.pc = "begin", !.target = o, !.school = NoOne]
    <2>2. CASE AssignLeaves(c)
        BY <1>1, <2>1, <2>2, AssignLeavesKeeps
    <2>3. CASE o # NoOne
        <3>1. o \in Owners
            BY <1>1, <2>1, <2>3 DEF AssignmentsInv, OfAssign
        <3>2. assign' = [assign EXCEPT ![c] = y]
            BY <1>5, <2>3 DEF FindOwner
        <3>3. OfAssign(c) /\ assign[c].holds = {} /\ assign[c].result = "none"
            BY <1>1, <2>1 DEF AssignmentsInv, OfAssign, Holds, AssignCall
        <3>4. /\ y \in AssignCall /\ y.pc = "begin" /\ y.holds = {} /\ y.result = "none"
              /\ y.before = assign[c].before
            BY <1>1, <3>1, <3>3 DEF AssignCall
        <3> HIDE DEF y
        <3> QED BY <1>1, <2>1, <3>2, <3>3, <3>4, AssignMoves DEF OfAssign
    <2> QED BY <1>5, <2>2, <2>3 DEF FindOwner
<1>6. CASE UpdateSchool(c)
    <2>1. assign[c].pc = "idle" /\ AssignLeaves(c) /\ rows' = rows
        BY <1>6 DEF UpdateSchool, Comes
    <2>2. owner' \in [Schools -> Owners \cup {NoOne}] /\ active' \in [Schools -> BOOLEAN]
        BY <1>1, <1>6 DEF UpdateSchool
    <2> QED BY <2>1, <2>2, AssignLeavesKeeps
<1> QED BY <1>2, <1>3, <1>4, <1>5, <1>6

(* The UPDATE begins: what it does not see is gone.                          *)
LEMMA CloseBeginKeeps ==
    ASSUME AssignmentsInv, NEW c \in Calls, CloseBegin(c)
    PROVE  AssignmentsInv' /\ Roll' = Roll
<1> DEFINE S == { i \in RowIds : rows[i].state # "none" /\ InScope(rows[i], c)
                                 /\ (rows[i].state = "current" \/ Held(i, c)) }
           y == [assign[c] EXCEPT !.pc = "close", !.seen = S]
<1>1. /\ assign[c] \in AssignCall /\ assign[c].pc = "begin" /\ OfAssign(c)
      /\ assign \in [Calls -> AssignCall] /\ assign[c].before \subseteq Calls
      /\ UNCHANGED <<owner, active, rows>>
    BY AssignFields DEF CloseBegin, AssignmentsInv
<1>2. assign[c].holds = {} /\ assign[c].result = "none"
    BY <1>1 DEF OfAssign, Holds, AssignCall
<1>3. /\ y \in AssignCall /\ y.pc = "close" /\ y.holds = {} /\ y.result = "none"
      /\ y.before = assign[c].before /\ y.seen = S /\ y.kind = assign[c].kind
      /\ y.target = assign[c].target /\ y.scope = assign[c].scope
      /\ y.source = assign[c].source
    BY <1>1, <1>2 DEF AssignCall
<1>4. assign' = [assign EXCEPT ![c] = y]
    BY DEF CloseBegin
<1> HIDE DEF y
<1>5. assign'[c] = y /\ \A d \in Calls : d # c => assign'[d] = assign[d]
    BY <1>1, <1>4
<1>6. OnItsWay(c)'
    <2> SUFFICES ASSUME NEW i \in ToClose(c)', i \notin S PROVE Gone(i)'
        BY <1>3, <1>5 DEF OnItsWay
    <2>1. i \in Olds \cup assign[c].before /\ i # c /\ InScope(rows[i], c)
        BY <1>1, <1>3, <1>5 DEF ToClose, InScope
    <2>2. i \in RowIds /\ (i \in Olds \/ assign[i].pc = "done")
        BY <1>1, <2>1 DEF RowIds, OfAssign, EndedIn
    <2>3. rows[i].state # "none" => rows[i].state # "current" /\ ~ Held(i, c)
        BY <2>1, <2>2
    <2>4. \A d \in Calls : i \in assign[d].holds => rows[i].state # "none"
        BY DEF AssignmentsInv, OfAssign, Holds
    <2>5. \A d \in Calls : i \notin assign'[d].holds
        BY <1>2, <1>3, <1>5, <2>3, <2>4 DEF Held
    <2>6. i \in Olds \/ assign'[i].pc = "done"
        BY <1>5, <2>1, <2>2 DEF RowIds
    <2> QED BY <1>1, <2>3, <2>5, <2>6 DEF Gone
<1> QED BY <1>1, <1>2, <1>3, <1>4, <1>6, AssignMoves DEF AssignmentsInv, AssignmentsTypeOK, OfAssign

(* The UPDATE closes what was in its way: that is held, or gone.             *)
LEMMA CloseKeeps ==
    ASSUME AssignmentsInv, NEW c \in Calls, Close(c)
    PROVE  AssignmentsInv' /\ Roll' = Roll
<1>1. /\ assign[c] \in AssignCall /\ assign[c].pc = "close" /\ OfAssign(c) /\ c \in RowIds
      /\ assign \in [Calls -> AssignCall] /\ rows \in [RowIds -> Assignment]
      /\ UNCHANGED <<owner, active>> /\ c \notin Olds
    BY AssignFields DEF Close, CloseAs, AssignmentsInv
<1>2. assign[c].holds = {} /\ assign[c].result = "none" /\ rows[c].state = "none"
    BY <1>1 DEF OfAssign, Holds, AssignCall, Assignment
<1>3. PICK S \in SUBSET Closable(c) :
        /\ \A i \in assign[c].seen : ~ Held(i, c)
        /\ assign[c].seen \cap Closable(c) \subseteq S
        /\ rows' = [i \in RowIds |-> IF i \in S THEN [rows[i] EXCEPT !.state = "closed"]
                                     ELSE rows[i]]
        /\ assign' = [assign EXCEPT ![c].holds = S, ![c].seen = {}, ![c].pc = AfterClose(c)]
    BY DEF Close, CloseAs
<1> DEFINE y == [assign[c] EXCEPT !.holds = S, !.seen = {}, !.pc = AfterClose(c)]
<1>4. S \subseteq RowIds /\ c \notin S
    BY <1>2, <1>3 DEF Closable
<1>5. /\ y \in AssignCall /\ y.holds = S /\ y.result = "none" /\ y.before = assign[c].before
      /\ y.pc = IF assign[c].inserts THEN "insert" ELSE "commit"
      /\ y.kind = assign[c].kind /\ y.target = assign[c].target
      /\ y.scope = assign[c].scope /\ y.source = assign[c].source
      /\ y.inserts = assign[c].inserts
    BY <1>1, <1>2, <1>4 DEF AssignCall, AfterClose
<1>6. assign' = [assign EXCEPT ![c] = y]
    BY <1>3
<1> HIDE DEF y
<1>7. assign'[c] = y /\ \A d \in Calls : d # c => assign'[d] = assign[d]
    BY <1>1, <1>6
<1>8. \A i \in S : /\ i \in RowIds /\ rows[i].state = "current" /\ InScope(rows[i], c)
                   /\ ~ Held(i, c) /\ i # c /\ rows'[i].state = "closed"
                   /\ rows'[i].kind = rows[i].kind /\ rows'[i].target = rows[i].target
                   /\ rows'[i].source = rows[i].source /\ rows'[i] \in Assignment
    BY <1>1, <1>3, <1>4 DEF Closable, Assignment
<1>9. \A i \in RowIds : i \notin S => rows'[i] = rows[i]
    BY <1>3
<1>10. \A i \in S : i \in Olds \/ assign[i].pc = "done"
    BY <1>8 DEF AssignmentsInv, OfAssign, RowIds, Held
<1>11. rows' \in [RowIds -> Assignment]
    BY <1>1, <1>3, <1>8, <1>9
<1>12. OnlyAssign(c)
    <2>1. \A i \in RowIds : Gone(i) \/ Held(i, c) => i \notin S
        BY <1>8 DEF Gone
    <2>2. assign' \in [Calls -> AssignCall]
        BY <1>1, <1>5, <1>6
    <2>3. \A i \in RowIds : i # c =>
            /\ rows'[i].kind = rows[i].kind /\ rows'[i].target = rows[i].target
            /\ rows'[i].source = rows[i].source
            /\ rows'[i].state # "none" => rows[i].state # "none"
        BY <1>8, <1>9
    <2> QED BY <1>1, <1>5, <1>7, <1>9, <1>11, <2>1, <2>2, <2>3 DEF OnlyAssign
<1>13. Holds(c)'
    <2>1. \A i \in S : ~ Held(i, c)'
        BY <1>7, <1>8 DEF Held
    <2>2. \A i \in S : i \in Olds \/ assign'[i].pc = "done"
        BY <1>7, <1>8, <1>10 DEF RowIds
    <2>3. \A i \in S : rows'[i].state = "closed" /\ InScope(rows[i], c)'
        BY <1>5, <1>7, <1>8 DEF InScope
    <2> QED BY <1>4, <1>5, <1>7, <2>1, <2>2, <2>3 DEF Holds
<1>14. OnItsWay(c)'
    <2> SUFFICES ASSUME NEW i \in ToClose(c)', i \notin S PROVE Gone(i)'
        BY <1>5, <1>7 DEF OnItsWay
    <2>1. i \in Olds \cup assign[c].before /\ i # c /\ InScope(rows[i], c)'
        BY <1>5, <1>7 DEF ToClose
    <2>2. i \in RowIds /\ (i \in Olds \/ assign[i].pc = "done")
        BY <1>1, <2>1, AssignFields DEF RowIds, OfAssign, EndedIn, AssignmentsInv
    <2>3. InScope(rows[i], c)
        BY <1>5, <1>7, <1>9, <2>1, <2>2 DEF InScope
    <2>4. CASE Gone(i)
        BY <1>12, <2>2, <2>4, OverStays
    <2>5. CASE ~ Gone(i)
        <3>1. i \in assign[c].seen
            BY <1>1, <2>1, <2>3, <2>5 DEF OfAssign, OnItsWay, ToClose
        <3>2. ~ Held(i, c) /\ rows[i].state # "current"
            BY <1>3, <2>2, <2>3, <3>1 DEF Closable
        <3>3. Gone(i)
            BY <1>2, <2>2, <3>2 DEF Gone, Held
        <3> QED BY <2>5, <3>3
    <2> QED BY <2>4, <2>5
<1>15. OfAssign(c)'
    <2>1. EndedIn(assign) \subseteq EndedIn(assign)'
        BY <1>1, <1>7 DEF EndedIn
    <2>2. rows'[c].state = "none"
        BY <1>1, <1>2, <1>4, <1>9
    <2> QED BY <1>1, <1>5, <1>7, <1>13, <1>14, <2>1, <2>2 DEF OfAssign
<1>16. \A i \in RowIds : IsCurrent(i)' <=> IsCurrent(i)
    <2> TAKE i \in RowIds
    <2>1. CASE i \in S
        BY <1>2, <1>5, <1>7, <1>8, <2>1 DEF IsCurrent, Held
    <2>2. CASE i \notin S
        <3>1. (\E d \in Calls : i \in assign'[d].holds)
                <=> (\E d \in Calls : i \in assign[d].holds)
            BY <1>2, <1>5, <1>7, <2>2
        <3> QED BY <1>9, <2>2, <3>1 DEF IsCurrent
    <2> QED BY <2>1, <2>2
<1>17. owner' \in [Schools -> Owners \cup {NoOne}] /\ active' \in [Schools -> BOOLEAN]
    BY <1>1 DEF AssignmentsInv, AssignmentsTypeOK
<1> QED BY <1>12, <1>15, <1>16, <1>17, SeenStays, RollStays, AssignmentKeeps

(* The row is inserted, and readers do not see it yet.                       *)
LEMMA InsertKeeps ==
    ASSUME AssignmentsInv, NEW c \in Calls, Insert(c)
    PROVE  AssignmentsInv' /\ Roll' = Roll
<1>1. /\ assign[c] \in AssignCall /\ assign[c].pc = "insert" /\ OfAssign(c) /\ c \in RowIds
      /\ assign \in [Calls -> AssignCall] /\ rows \in [RowIds -> Assignment]
      /\ UNCHANGED <<owner, active>> /\ c \notin Olds /\ assign[c].holds \subseteq RowIds
    BY AssignFields DEF Insert, AssignmentsInv
<1>2. assign[c].result = "none" /\ c \notin assign[c].holds /\ rows[c].state = "none"
    BY <1>1 DEF OfAssign, Holds, AssignCall, Assignment
<1> DEFINE y == [assign[c] EXCEPT !.holds = assign[c].holds \cup {c}, !.pc = "commit"]
           r == [state |-> "current", kind |-> assign[c].kind,
                 source |-> assign[c].source, target |-> assign[c].target]
<1>3. /\ y \in AssignCall /\ y.holds = assign[c].holds \cup {c} /\ y.result = "none"
      /\ y.before = assign[c].before /\ y.pc = "commit" /\ y.inserts
      /\ y.kind = assign[c].kind /\ y.target = assign[c].target
      /\ y.scope = assign[c].scope /\ y.source = assign[c].source
    BY <1>1, <1>2 DEF AssignCall, OfAssign
<1>4. /\ r \in Assignment /\ r.state = "current" /\ r.kind = assign[c].kind
      /\ r.source = assign[c].source /\ r.target = assign[c].target
    BY <1>1 DEF AssignCall, Assignment
<1>5. assign' = [assign EXCEPT ![c] = y] /\ rows' = [rows EXCEPT ![c] = r]
    BY <1>1 DEF Insert
<1> HIDE DEF y, r
<1>6. /\ assign'[c] = y /\ \A d \in Calls : d # c => assign'[d] = assign[d]
      /\ rows'[c] = r /\ \A i \in RowIds : i # c => rows'[i] = rows[i]
    BY <1>1, <1>5
<1>7. \A d \in Calls : c \notin assign[d].holds
    BY <1>1, <1>2 DEF AssignmentsInv, OfAssign, Holds
<1>8. ~ Gone(c) /\ ~ Held(c, c)
    BY <1>1, <1>7 DEF Gone, Held
<1>9. \A i \in assign[c].holds : ~ Held(i, c)
    BY <1>1 DEF OfAssign, Holds
<1>10. OnlyAssign(c)
    <2>1. \A i \in RowIds : Gone(i) \/ Held(i, c) => i # c /\ i \notin assign[c].holds
        BY <1>8, <1>9 DEF Gone
    <2>2. assign' \in [Calls -> AssignCall] /\ rows' \in [RowIds -> Assignment]
        BY <1>1, <1>3, <1>4, <1>5
    <2> QED BY <1>1, <1>3, <1>6, <2>1, <2>2 DEF OnlyAssign
<1>11. Holds(c)'
    <2>1. \A i \in y.holds : ~ Held(i, c)'
        BY <1>3, <1>6, <1>7, <1>9 DEF Held
    <2>2. \A i \in assign[c].holds :
            /\ i \in RowIds /\ i # c /\ rows[i].state = "closed"
            /\ i \in Olds \/ assign'[i].pc = "done"
            /\ InScope(rows[i], c)'
        BY <1>1, <1>2, <1>3, <1>6 DEF OfAssign, Holds, RowIds, InScope
    <2> QED BY <1>1, <1>3, <1>4, <1>6, <2>1, <2>2 DEF Holds
<1>12. OnItsWay(c)'
    <2> SUFFICES ASSUME NEW i \in ToClose(c)', i \notin assign[c].holds PROVE Gone(i)'
        BY <1>3, <1>6 DEF OnItsWay
    <2>1. /\ i \in Olds \cup assign[c].before /\ i # c /\ i \in RowIds
          /\ InScope(rows[i], c)'
        BY <1>1, <1>3, <1>6, AssignFields DEF ToClose, RowIds, AssignmentsInv
    <2>2. InScope(rows[i], c)
        BY <1>3, <1>6, <2>1 DEF InScope
    <2>3. Gone(i)
        BY <1>1, <2>1, <2>2 DEF OfAssign, OnItsWay, ToClose
    <2> QED BY <1>10, <2>1, <2>3, OverStays
<1>13. OfAssign(c)'
    <2>1. EndedIn(assign) \subseteq EndedIn(assign)'
        BY <1>1, <1>6 DEF EndedIn
    <2> QED BY <1>1, <1>3, <1>6, <1>11, <1>12, <2>1 DEF OfAssign
<1>14. \A i \in RowIds : IsCurrent(i)' <=> IsCurrent(i)
    <2> TAKE i \in RowIds
    <2>1. CASE i = c
        BY <1>2, <1>3, <1>4, <1>6, <1>7, <2>1 DEF IsCurrent
    <2>2. CASE i # c
        <3>1. (\E d \in Calls : i \in assign'[d].holds) <=> (\E d \in Calls : i \in assign[d].holds)
            BY <1>3, <1>6, <2>2
        <3> QED BY <1>6, <2>2, <3>1 DEF IsCurrent
    <2> QED BY <2>1, <2>2
<1>15. owner' \in [Schools -> Owners \cup {NoOne}] /\ active' \in [Schools -> BOOLEAN]
    BY <1>1 DEF AssignmentsInv, AssignmentsTypeOK
<1> QED BY <1>10, <1>13, <1>14, <1>15, SeenStays, RollStays, AssignmentKeeps

(* What was closed is gone; who was assigned is there in its place.          *)
LEMMA CommitKeeps ==
    ASSUME AssignmentsInv, NEW c \in Calls, Commit(c) PROVE AssignmentsInv'
<1>1. /\ assign[c] \in AssignCall /\ assign[c].pc = "commit" /\ OfAssign(c) /\ c \in RowIds
      /\ assign \in [Calls -> AssignCall] /\ rows \in [RowIds -> Assignment]
      /\ UNCHANGED <<owner, active, rows>> /\ c \notin Olds /\ assign[c].holds \subseteq RowIds
    BY AssignFields DEF Commit, AssignmentsInv
<1> DEFINE y == [assign[c] EXCEPT !.pc = "done", !.result = "ok", !.holds = {}]
<1>2. /\ y \in AssignCall /\ y.holds = {} /\ y.result = "ok" /\ y.before = assign[c].before
      /\ y.pc = "done" /\ y.kind = assign[c].kind /\ y.target = assign[c].target
      /\ y.scope = assign[c].scope /\ y.source = assign[c].source
      /\ y.inserts = assign[c].inserts
    BY <1>1 DEF AssignCall
<1>3. assign' = [assign EXCEPT ![c] = y]
    BY DEF Commit
<1> HIDE DEF y
<1>4. assign'[c] = y /\ \A d \in Calls : d # c => assign'[d] = assign[d]
    BY <1>1, <1>3
<1>5. OnlyAssign(c)
    <2>1. assign' \in [Calls -> AssignCall]
        BY <1>1, <1>2, <1>3
    <2> QED BY <1>1, <1>2, <1>4, <2>1 DEF OnlyAssign
<1>6. \A i \in assign[c].holds :
        /\ ~ Held(i, c)
        /\ rows[i].kind = assign[c].kind /\ rows[i].target = assign[c].target
        /\ i # c => rows[i].state = "closed" /\ (i \in Olds \/ assign[i].pc = "done")
    BY <1>1 DEF OfAssign, Holds, InScope
<1>7. OnItsWay(c)'
    <2> SUFFICES ASSUME NEW i \in ToClose(c)' PROVE Gone(i)'
        BY <1>2, <1>4 DEF OnItsWay
    <2>1. i \in ToClose(c) /\ i \in RowIds /\ i # c
        BY <1>1, <1>2, <1>4, AssignFields DEF ToClose, InScope, RowIds, AssignmentsInv
    <2>2. CASE Gone(i)
        BY <1>5, <2>1, <2>2, OverStays
    <2>3. CASE i \in assign[c].holds
        <3>1. \A d \in Calls : i \notin assign'[d].holds
            BY <1>2, <1>4, <1>6, <2>3 DEF Held
        <3>2. i \in Olds \/ assign'[i].pc = "done"
            BY <1>4, <1>6, <2>1, <2>3 DEF RowIds
        <3> QED BY <1>1, <1>6, <2>1, <2>3, <3>1, <3>2 DEF Gone
    <2> QED BY <1>1, <2>1, <2>2, <2>3 DEF OfAssign, OnItsWay
<1>8. OfAssign(c)'
    <2>1. EndedIn(assign) \subseteq EndedIn(assign)'
        BY <1>1, <1>4 DEF EndedIn
    <2> QED BY <1>1, <1>2, <1>4, <1>7, <2>1 DEF OfAssign, Holds
<1>9. \A i \in RowIds : IsCurrent(i) /\ i \notin assign[c].holds => IsCurrent(i)'
    <2> SUFFICES ASSUME NEW i \in RowIds, i \notin assign[c].holds, IsCurrent(i)
                 PROVE IsCurrent(i)'
        OBVIOUS
    <2>1. (\E d \in Calls : i \in assign'[d].holds) <=> (\E d \in Calls : i \in assign[d].holds)
        BY <1>2, <1>4
    <2> QED BY <1>1, <2>1 DEF IsCurrent
<1>10. AdviserNotLost'
    <2> SUFFICES ASSUME NEW i \in Olds, rows[i].state # "none"
                 PROVE  \/ \E j \in RowIds : /\ IsCurrent(j)' /\ rows[j].kind = rows[i].kind
                                             /\ rows[j].target = rows[i].target
                        \/ \E q \in Calls : /\ Over(q, rows[i].kind, rows[i].target)'
                                            /\ ~ assign'[q].inserts
        BY <1>1 DEF AdviserNotLost
    <2>1. CASE \E q \in Calls : Over(q, rows[i].kind, rows[i].target) /\ ~ assign[q].inserts
        <3>1. PICK q \in Calls : Over(q, rows[i].kind, rows[i].target) /\ ~ assign[q].inserts
            BY <2>1
        <3>2. q # c
            BY <1>1, <3>1 DEF Over, OfAssign
        <3> QED BY <1>1, <1>4, <3>1, <3>2 DEF Over
    <2>2. CASE \E j \in RowIds : /\ IsCurrent(j) /\ rows[j].kind = rows[i].kind
                                 /\ rows[j].target = rows[i].target
        <3>1. PICK j \in RowIds : /\ IsCurrent(j) /\ rows[j].kind = rows[i].kind
                                  /\ rows[j].target = rows[i].target
            BY <2>2
        <3>2. CASE j \notin assign[c].holds
            BY <1>9, <3>1, <3>2
        <3>3. CASE j \in assign[c].holds /\ ~ assign[c].inserts
            <4>1. Over(c, rows[i].kind, rows[i].target)'
                BY <1>1, <1>2, <1>4, <1>6, <3>1, <3>3 DEF Over
            <4> QED BY <1>2, <1>4, <3>3, <4>1
        <3>4. CASE j \in assign[c].holds /\ assign[c].inserts
            <4>1. c \in assign[c].holds /\ rows[c].state = "current" /\ ~ Held(c, c)
                BY <1>1, <3>4 DEF OfAssign, Holds
            <4>2. IsCurrent(c)'
                BY <1>1, <1>2, <1>4, <4>1 DEF IsCurrent, Held
            <4>3. rows[c].kind = rows[i].kind /\ rows[c].target = rows[i].target
                BY <1>6, <3>1, <3>4, <4>1
            <4> QED BY <1>1, <4>2, <4>3
        <3> QED BY <3>2, <3>3, <3>4
    <2> QED BY <2>1, <2>2 DEF AssignmentsInv, AdviserNotLost
<1>11. owner' \in [Schools -> Owners \cup {NoOne}] /\ active' \in [Schools -> BOOLEAN]
    BY <1>1 DEF AssignmentsInv, AssignmentsTypeOK
<1> QED BY <1>5, <1>8, <1>10, <1>11, AssignmentKeeps

(* A transaction that is rolled back gives back what it closed.              *)
LEMMA AssignFailsKeeps ==
    ASSUME AssignmentsInv, NEW c \in Calls, AssignFails(c)
    PROVE  AssignmentsInv' /\ Roll' = Roll
<1>1. /\ assign[c] \in AssignCall /\ assign[c].pc # "done" /\ OfAssign(c) /\ c \in RowIds
      /\ assign \in [Calls -> AssignCall] /\ rows \in [RowIds -> Assignment]
      /\ UNCHANGED <<owner, active>> /\ c \notin Olds /\ assign[c].holds \subseteq RowIds
    BY AssignFields DEF AssignFails, AssignmentsInv
<1> DEFINE y == [NoAssign EXCEPT !.pc = "done"]
<1>2. /\ y \in AssignCall /\ y.pc = "done" /\ y.holds = {} /\ y.result = "none"
      /\ y.before = {}
    BY DEF NoAssign, AssignCall, Kinds
<1>3. assign' = [assign EXCEPT ![c] = y]
    BY DEF AssignFails, AssignLeaves
<1> HIDE DEF y
<1>4. assign'[c] = y /\ \A d \in Calls : d # c => assign'[d] = assign[d]
    BY <1>1, <1>3
<1>5. \A i \in RowIds : i \notin assign[c].holds => rows'[i] = rows[i]
    BY DEF AssignFails
<1>6. \A i \in assign[c].holds \ {c} :
        /\ rows'[i].state = "current" /\ rows'[i] \in Assignment
        /\ rows'[i].kind = rows[i].kind /\ rows'[i].target = rows[i].target
        /\ rows'[i].source = rows[i].source
    BY <1>1 DEF AssignFails, Assignment
<1>7. c \in assign[c].holds => rows'[c] = NoAssignment
    BY <1>1 DEF AssignFails
<1>8. \A i \in assign[c].holds :
        ~ Held(i, c) /\ (i # c => rows[i].state = "closed")
    BY <1>1 DEF OfAssign, Holds
<1>9. OnlyAssign(c)
    <2>1. NoAssignment \in Assignment
        BY DEF NoAssignment, Assignment, Kinds
    <2>2. rows' \in [RowIds -> Assignment]
        <3>1. \A i \in RowIds : rows'[i] \in Assignment
            BY <1>1, <1>5, <1>6, <1>7, <2>1
        <3> QED BY <3>1 DEF AssignFails
    <2>3. assign' \in [Calls -> AssignCall]
        BY <1>1, <1>2, <1>3
    <2>4. \A i \in RowIds : i # c =>
            /\ rows'[i].kind = rows[i].kind /\ rows'[i].target = rows[i].target
            /\ rows'[i].source = rows[i].source
            /\ rows'[i].state # "none" => rows[i].state # "none"
        BY <1>5, <1>6, <1>8
    <2>5. \A i \in RowIds : Gone(i) \/ Held(i, c) => i \notin assign[c].holds
        BY <1>8 DEF Gone
    <2> QED BY <1>1, <1>2, <1>4, <1>5, <2>2, <2>3, <2>4, <2>5 DEF OnlyAssign
<1>10. OfAssign(c)'
    BY <1>2, <1>4 DEF OfAssign, Holds, OnItsWay
<1>11. \A i \in RowIds : IsCurrent(i)' <=> IsCurrent(i)
    <2> TAKE i \in RowIds
    <2>1. CASE i = c /\ c \in assign[c].holds
        <3>1. rows[c].state = "current" /\ rows'[c].state = "none"
            BY <1>1, <1>7, <2>1 DEF OfAssign, Holds, NoAssignment
        <3>2. \A d \in Calls : c \notin assign'[d].holds
            BY <1>2, <1>4, <1>8, <2>1 DEF Held
        <3> QED BY <2>1, <3>1, <3>2 DEF IsCurrent
    <2>2. CASE i # c /\ i \in assign[c].holds
        BY <1>2, <1>4, <1>6, <1>8, <2>2 DEF IsCurrent, Held
    <2>3. CASE i \notin assign[c].holds
        <3>1. (\E d \in Calls : i \in assign'[d].holds)
                <=> (\E d \in Calls : i \in assign[d].holds)
            BY <1>2, <1>4, <2>3
        <3> QED BY <1>5, <2>3, <3>1 DEF IsCurrent
    <2> QED BY <2>1, <2>2, <2>3
<1>12. owner' \in [Schools -> Owners \cup {NoOne}] /\ active' \in [Schools -> BOOLEAN]
    BY <1>1 DEF AssignmentsInv, AssignmentsTypeOK
<1> QED BY <1>9, <1>10, <1>11, <1>12, SeenStays, RollStays, AssignmentKeeps

(* The invariant of the assignments.                                         *)
THEOREM AssignmentsInvariant == AssignmentsSpec => []AssignmentsInv
<1>1. AssignmentsInit => AssignmentsInv
    <2> SUFFICES ASSUME AssignmentsInit PROVE AssignmentsInv
        OBVIOUS
    <2>1. /\ NoAssign \in AssignCall /\ NoAssign.pc = "idle" /\ NoAssign.holds = {}
          /\ NoAssign.before = {} /\ NoAssign.result = "none"
        BY DEF NoAssign, AssignCall, Kinds
    <2>2. \A c \in Calls : assign[c] = NoAssign
        BY DEF AssignmentsInit
    <2>3. AssignmentsTypeOK
        <3>1. \A i \in Olds : /\ rows[i].state = "current" /\ rows[i] \in Assignment
                              /\ i \in RowIds
            BY DEF AssignmentsInit, RowIds, Assignment
        <3>2. NoAssignment \in Assignment
            BY DEF NoAssignment, Assignment, Kinds
        <3>3. rows \in [RowIds -> Assignment]
            BY <3>1, <3>2 DEF AssignmentsInit
        <3> QED BY <2>1, <3>3 DEF AssignmentsInit, AssignmentsTypeOK
    <2>4. \A c \in Calls : rows[c].state = "none"
        BY AssignmentsAssumption DEF AssignmentsInit, RowIds, NoAssignment
    <2>5. \A c \in Calls : OfAssign(c)
        BY <2>1, <2>2, <2>4 DEF OfAssign, Holds, OnItsWay
    <2>6. \A i \in Olds : IsCurrent(i) /\ i \in RowIds
        BY <2>1, <2>2 DEF AssignmentsInit, IsCurrent, RowIds
    <2>7. AdviserNotLost
        BY <2>6 DEF AdviserNotLost
    <2> QED BY <2>3, <2>5, <2>7 DEF AssignmentsInv
<1>2. AssignmentsInv /\ [AssignmentsNext]_assignmentVars => AssignmentsInv'
    <2> SUFFICES ASSUME AssignmentsInv, [AssignmentsNext]_assignmentVars
                 PROVE  AssignmentsInv'
        OBVIOUS
    <2>1. CASE UNCHANGED assignmentVars
        <3>1. /\ AssignmentsTypeOK' /\ AdviserNotLost'
            BY <2>1 DEF assignmentVars, AssignmentsInv, AssignmentsTypeOK, AdviserNotLost,
                        IsCurrent, Over
        <3>2. ASSUME NEW c \in Calls PROVE OfAssign(c)'
            BY <2>1 DEF assignmentVars, AssignmentsInv, OfAssign, Holds, OnItsWay, ToClose,
                        Gone, Held, InScope, EndedIn
        <3> QED BY <3>1, <3>2 DEF AssignmentsInv
    <2> QED BY <2>1, RequestsKeep, CloseBeginKeeps, CloseKeeps, InsertKeeps, CommitKeeps,
               AssignFailsKeeps DEF AssignmentsNext
<1> QED BY <1>1, <1>2, PTL DEF AssignmentsSpec

(* For any number of calls, no assignment is current that a call which came   *)
(* in after it was acknowledged has closed.                                  *)
THEOREM LatestTheorem == AssignmentsSpec => []CurrentIsLatest
<1>1. AssignmentsInv => CurrentIsLatest
    BY DEF AssignmentsInv, OfAssign, OnItsWay, ToClose, Gone, IsCurrent, CurrentIsLatest
<1> QED BY <1>1, AssignmentsInvariant, PTL

(* For any number of calls, a reassignment that fails half-way leaves the     *)
(* adviser there was.                                                        *)
THEOREM AdviserTheorem == AssignmentsSpec => []AdviserNotLost
<1>1. AssignmentsInv => AdviserNotLost
    BY DEF AssignmentsInv
<1> QED BY <1>1, AssignmentsInvariant, PTL

(***************************************************************************)
(* The roster                                                              *)
(***************************************************************************)

(* An order of which the state, or the target, changes.                      *)
LEMMA OrderGets ==
    ASSUME NEW a, NEW k, NEW e, NEW b, NEW p, NEW t, NEW f, NEW z
    PROVE  /\ [[state |-> a, kind |-> k, scope |-> e, inserts |-> b, source |-> p,
                target |-> t, before |-> f] EXCEPT !.state = z] =
              [state |-> z, kind |-> k, scope |-> e, inserts |-> b, source |-> p,
               target |-> t, before |-> f]
           /\ [[state |-> a, kind |-> k, scope |-> e, inserts |-> b, source |-> p,
                target |-> t, before |-> f] EXCEPT !.target = z] =
              [state |-> a, kind |-> k, scope |-> e, inserts |-> b, source |-> p,
               target |-> z, before |-> f]
    OBVIOUS

(* A call that moves changes what was asked for by nobody else.              *)
LEMMA OrderChanges ==
    ASSUME NEW c \in Calls, \A d \in Calls : d # c => assign'[d] = assign[d]
    PROVE  Orders' = [Orders EXCEPT ![c] = Order(c)'] /\ Orders[c] = Order(c)
<1>1. \A d \in Calls : d # c => Order(d)' = Order(d)
    BY DEF Order
<1> QED BY <1>1 DEF Orders

(* As long as a call is past its beginning and not over, it asks for the same. *)
LEMMA OrderStays ==
    ASSUME NEW c \in Calls, assign \in [Calls -> AssignCall], NEW y \in AssignCall,
           assign' = [assign EXCEPT ![c] = y],
           assign[c].pc \in {"begin", "close", "insert"}, y.pc \in {"close", "insert", "commit"},
           y.kind = assign[c].kind, y.scope = assign[c].scope, y.inserts = assign[c].inserts,
           y.source = assign[c].source, y.target = assign[c].target,
           y.before = assign[c].before
    PROVE  Orders' = Orders
<1>1. assign'[c] = y /\ \A d \in Calls : d # c => assign'[d] = assign[d]
    OBVIOUS
<1>2. \A d \in Calls : Order(d)' = Order(d)
    BY <1>1 DEF Order
<1> QED BY <1>2 DEF Orders

(* The statements of a transaction before its COMMIT: the roster does not see *)
(* them.                                                                     *)
LEMMA BoardStutters ==
    ASSUME AssignmentsInv, NEW c \in Calls, CloseBegin(c) \/ Close(c) \/ Insert(c)
    PROVE  Orders' = Orders /\ Roll' = Roll
<1>1. assign[c] \in AssignCall /\ assign \in [Calls -> AssignCall] /\ c \in RowIds
    BY AssignFields DEF AssignmentsInv
<1>2. CASE CloseBegin(c)
    <2>1. PICK S \in SUBSET RowIds :
             assign' = [assign EXCEPT ![c].pc = "close", ![c].seen = S]
        BY <1>2 DEF CloseBegin
    <2> DEFINE y == [assign[c] EXCEPT !.pc = "close", !.seen = S]
    <2>2. /\ y \in AssignCall /\ y.pc = "close" /\ y.kind = assign[c].kind
          /\ y.scope = assign[c].scope /\ y.inserts = assign[c].inserts
          /\ y.source = assign[c].source /\ y.target = assign[c].target
          /\ y.before = assign[c].before
        BY <1>1 DEF AssignCall
    <2>3. assign' = [assign EXCEPT ![c] = y] /\ assign[c].pc = "begin"
        BY <1>2, <2>1 DEF CloseBegin
    <2> HIDE DEF y
    <2> QED BY <1>1, <1>2, <2>2, <2>3, OrderStays, CloseBeginKeeps
<1>3. CASE Close(c)
    <2>1. PICK S \in SUBSET RowIds : assign' =
             [assign EXCEPT ![c].holds = S, ![c].seen = {}, ![c].pc = AfterClose(c)]
        BY <1>3 DEF Close, CloseAs, Closable
    <2> DEFINE y == [assign[c] EXCEPT !.holds = S, !.seen = {}, !.pc = AfterClose(c)]
    <2>2. /\ y \in AssignCall /\ y.pc \in {"insert", "commit"} /\ y.kind = assign[c].kind
          /\ y.scope = assign[c].scope /\ y.inserts = assign[c].inserts
          /\ y.source = assign[c].source /\ y.target = assign[c].target
          /\ y.before = assign[c].before
        BY <1>1 DEF AssignCall, AfterClose
    <2>3. assign' = [assign EXCEPT ![c] = y]
        BY <2>1
    <2>4. assign[c].pc = "close"
        BY <1>3 DEF Close, CloseAs
    <2> HIDE DEF y
    <2> QED BY <1>1, <1>3, <2>2, <2>3, <2>4, OrderStays, CloseKeeps
<1>4. CASE Insert(c)
    <2> DEFINE y == [assign[c] EXCEPT !.holds = assign[c].holds \cup {c}, !.pc = "commit"]
    <2>1. /\ y \in AssignCall /\ y.pc = "commit" /\ y.kind = assign[c].kind
          /\ y.scope = assign[c].scope /\ y.inserts = assign[c].inserts
          /\ y.source = assign[c].source /\ y.target = assign[c].target
          /\ y.before = assign[c].before
        BY <1>1 DEF AssignCall
    <2>2. assign' = [assign EXCEPT ![c] = y] /\ assign[c].pc = "insert"
        BY <1>1, <1>4 DEF Insert
    <2> HIDE DEF y
    <2> QED BY <1>1, <1>4, <2>1, <2>2, OrderStays, InsertKeeps
<1> QED BY <1>2, <1>3, <1>4

(* A request comes in, as the roster says.                                   *)
LEMMA BoardComes ==
    ASSUME AssignmentsInv, NEW c \in Calls, assign[c].pc = "idle",
           NEW k \in Kinds, NEW scope \in {"target", "pair"}, NEW inserts \in BOOLEAN,
           NEW p \in Staff \cup {NoOne}, NEW t \in Owners \cup {NoOne},
           NEW s \in Schools \cup {NoOne}, AssignBegins(c, k, scope, inserts, p, t, s),
           UNCHANGED <<owner, active, rows>>
    PROVE  Board!Come(c)
<1> DEFINE o == Order(c)'
<1>1. Roll' = Roll
    BY AssignBeginsKeeps
<1>2. assign \in [Calls -> AssignCall]
    BY AssignFields DEF AssignmentsInv
<1>3. /\ assign'[c].pc \in {"school", "begin"} /\ assign'[c].kind = k
      /\ assign'[c].scope = scope /\ assign'[c].inserts = inserts
      /\ assign'[c].source = p /\ assign'[c].target = t
      /\ assign'[c].before = EndedIn(assign)
      /\ \A d \in Calls : d # c => assign'[d] = assign[d]
    BY <1>2 DEF AssignBegins, NoAssign
<1>4. Orders' = [Orders EXCEPT ![c] = o] /\ Orders[c].state = "idle" /\ Orders'[c] = o
    BY <1>3, OrderChanges DEF Orders, Order
<1>5. Board!Settled = EndedIn(assign)
    BY DEF Board!Settled, EndedIn, Orders, Order
<1>6. o \in [state: {"school", "asked"}, kind: Board!Kinds, scope: {"target", "pair"},
             inserts: BOOLEAN, source: Staff \cup {NoOne},
             target: Owners \cup {NoOne}, before: {Board!Settled}]
    BY <1>3, <1>5 DEF Order, Kinds, Board!Kinds
<1> HIDE DEF o
<1> QED BY <1>1, <1>4, <1>6 DEF Board!Come

(* A call that leaves, or fails, leaves the roster as it was.                *)
LEMMA BoardLeaves ==
    ASSUME AssignmentsInv, NEW c \in Calls, assign[c].pc # "done", AssignLeaves(c),
           Roll' = Roll
    PROVE  Board!Leave(c)
<1>1. assign \in [Calls -> AssignCall]
    BY AssignFields DEF AssignmentsInv
<1>2. /\ assign'[c] = [NoAssign EXCEPT !.pc = "done"]
      /\ \A d \in Calls : d # c => assign'[d] = assign[d]
    BY <1>1 DEF AssignLeaves
<1> DEFINE y == assign'[c]
<1>3. /\ y.pc = "done" /\ y.kind = "asesor" /\ y.scope = "pair" /\ y.inserts = FALSE
      /\ y.source = NoOne /\ y.target = NoOne /\ y.before = {}
    BY <1>2 DEF NoAssign
<1>4. Order(c)' = Board!NoOrder("done")
    BY <1>3 DEF Order, Board!NoOrder
<1>5. Orders[c].state # "done"
    BY DEF Orders, Order
<1>6. Orders' = [Orders EXCEPT ![c] = Board!NoOrder("done")]
    BY <1>2, <1>4, OrderChanges
<1> QED BY <1>5, <1>6 DEF Board!Leave

(* Everything up to the transaction is a step of the roster.                 *)
LEMMA BoardRequests ==
    ASSUME AssignmentsInv, NEW c \in Calls,
           \/ AssignAsesor(c) \/ AssignCoordinador(c) \/ Reassign(c)
           \/ FindOwner(c) \/ UpdateSchool(c)
    PROVE  Board!Come(c) \/ Board!Find(c) \/ Board!Leave(c)
<1>1. /\ owner \in [Schools -> Owners \cup {NoOne}] /\ assign[c] \in AssignCall
      /\ "asesor" \in Kinds /\ "coordinador" \in Kinds
      /\ assign \in [Calls -> AssignCall] /\ Roll' = Roll
    BY AssignFields, RequestsKeep DEF AssignmentsInv, AssignmentsTypeOK, Kinds
<1>2. CASE AssignAsesor(c)
    <2>1. assign[c].pc = "idle" /\ UNCHANGED <<owner, active, rows>>
        BY <1>2 DEF AssignAsesor, Comes
    <2>2. PICK s \in Schools, p \in Staff :
            AssignBegins(c, "asesor", "target", TRUE, p, NoOne, s)
        BY <1>2 DEF AssignAsesor
    <2>3. s \in Schools \cup {NoOne} /\ p \in Staff \cup {NoOne}
        BY <2>2
    <2> QED BY <1>1, <2>1, <2>2, <2>3, BoardComes
<1>3. CASE AssignCoordinador(c)
    <2>1. assign[c].pc = "idle" /\ UNCHANGED <<owner, active, rows>>
        BY <1>3 DEF AssignCoordinador, Comes
    <2>2. PICK s \in Schools, p \in Staff, inserts \in BOOLEAN :
            AssignBegins(c, "coordinador", "pair", inserts, p, NoOne, s)
        BY <1>3 DEF AssignCoordinador
    <2>3. s \in Schools \cup {NoOne} /\ p \in Staff \cup {NoOne} /\ inserts \in BOOLEAN
        BY <2>2
    <2> QED BY <1>1, <2>1, <2>2, <2>3, BoardComes
<1>4. CASE Reassign(c)
    <2>1. assign[c].pc = "idle" /\ UNCHANGED <<owner, active, rows>>
        BY <1>4 DEF Reassign, Comes
    <2>2. PICK k \in Kinds, t \in Owners, p \in Staff \cup {NoOne} :
            AssignBegins(c, k, "target", p # NoOne, p, t, NoOne)
        BY <1>4 DEF Reassign
    <2>3. k \in Kinds /\ t \in Owners \cup {NoOne} /\ p \in Staff \cup {NoOne}
          /\ (p # NoOne) \in BOOLEAN /\ NoOne \in Schools \cup {NoOne}
        BY <2>2
    <2> QED BY <1>1, <2>1, <2>2, <2>3, BoardComes
<1>5. CASE FindOwner(c)
    <2>1. assign[c].pc = "school" /\ assign[c].school \in Schools
        BY <1>5 DEF FindOwner, AssignmentsInv, OfAssign
    <2>2. CASE AssignLeaves(c)
        BY <1>1, <2>1, <2>2, BoardLeaves
    <2>3. CASE owner[assign[c].school] # NoOne
        <3>1. PICK t \in Owners : t = owner[assign[c].school]
            BY <1>1, <2>1, <2>3
        <3>2. assign' = [assign EXCEPT ![c].pc = "begin", ![c].target = t, ![c].school = NoOne]
            BY <1>5, <2>3, <3>1 DEF FindOwner
        <3> DEFINE y == [assign[c] EXCEPT !.pc = "begin", !.target = t, !.school = NoOne]
        <3>3. /\ y.pc = "begin" /\ y.kind = assign[c].kind /\ y.scope = assign[c].scope
              /\ y.inserts = assign[c].inserts /\ y.source = assign[c].source
              /\ y.target = t /\ y.before = assign[c].before
            BY <1>1 DEF AssignCall
        <3>4. assign' = [assign EXCEPT ![c] = y]
            BY <3>2
        <3> HIDE DEF y
        <3>5. assign'[c] = y /\ \A d \in Calls : d # c => assign'[d] = assign[d]
            BY <1>1, <3>4
        <3>6. Order(c)' = [Order(c) EXCEPT !.state = "asked", !.target = t]
            <4>1. /\ assign'[c].pc = "begin" /\ assign'[c].kind = assign[c].kind
                  /\ assign'[c].scope = assign[c].scope
                  /\ assign'[c].inserts = assign[c].inserts
                  /\ assign'[c].source = assign[c].source
                  /\ assign'[c].target = t /\ assign'[c].before = assign[c].before
                BY <3>3, <3>5
            <4> DEFINE o == [state |-> "asked", kind |-> assign[c].kind,
                             scope |-> assign[c].scope, inserts |-> assign[c].inserts,
                             source |-> assign[c].source, target |-> t,
                             before |-> assign[c].before]
            <4>2. Order(c)' = o
                BY <4>1 DEF Order
            <4>3. [Order(c) EXCEPT !.state = "asked", !.target = t] = o
                <5> DEFINE q == [Order(c) EXCEPT !.state = "asked"]
                <5>1. q = [state |-> "asked", kind |-> assign[c].kind,
                           scope |-> assign[c].scope, inserts |-> assign[c].inserts,
                           source |-> assign[c].source, target |-> assign[c].target,
                           before |-> assign[c].before]
                    BY OrderGets DEF Order
                <5>2. [Order(c) EXCEPT !.state = "asked", !.target = t] =
                        [q EXCEPT !.target = t]
                    OBVIOUS
                <5> HIDE DEF q
                <5> QED BY <5>1, <5>2, OrderGets
            <4> QED BY <4>2, <4>3
        <3>7. Orders' = [Orders EXCEPT ![c].state = "asked", ![c].target = t]
            BY <3>5, <3>6, OrderChanges
        <3>8. Orders[c].state = "school"
            BY <2>1 DEF Orders, Order
        <3> QED BY <1>1, <3>7, <3>8 DEF Board!Find
    <2> QED BY <1>5, <2>2, <2>3 DEF FindOwner
<1>6. CASE UpdateSchool(c)
    <2>1. assign[c].pc = "idle" /\ AssignLeaves(c)
        BY <1>6 DEF UpdateSchool, Comes
    <2> QED BY <1>1, <2>1, BoardLeaves
<1> QED BY <1>2, <1>3, <1>4, <1>5, <1>6

(* What readers see once the transaction of c is committed.                  *)
LEMMA CommitShows ==
    ASSUME AssignmentsInv, NEW c \in Calls, Commit(c)
    PROVE  /\ \A i \in RowIds :
                i # c => (IsCurrent(i)' <=> IsCurrent(i) /\ i \notin assign[c].holds)
           /\ IsCurrent(c)' <=> assign[c].inserts
           /\ ~ IsCurrent(c)
<1>1. /\ assign[c] \in AssignCall /\ assign[c].pc = "commit" /\ OfAssign(c) /\ c \in RowIds
      /\ assign \in [Calls -> AssignCall] /\ rows' = rows
    BY AssignFields DEF Commit, AssignmentsInv
<1>2. assign'[c].holds = {} /\ \A d \in Calls : d # c => assign'[d] = assign[d]
    BY <1>1 DEF Commit
<1>3. ASSUME NEW i \in RowIds, i # c
      PROVE  IsCurrent(i)' <=> IsCurrent(i) /\ i \notin assign[c].holds
    <2>1. CASE i \in assign[c].holds
        <3>1. rows[i].state = "closed" /\ ~ Held(i, c)
            BY <1>1, <1>3, <2>1 DEF OfAssign, Holds
        <3> QED BY <1>1, <1>2, <2>1, <3>1 DEF IsCurrent, Held
    <2>2. CASE i \notin assign[c].holds
        <3>1. (\E d \in Calls : i \in assign'[d].holds)
                <=> (\E d \in Calls : i \in assign[d].holds)
            BY <1>2, <2>2
        <3> QED BY <1>1, <2>2, <3>1 DEF IsCurrent
    <2> QED BY <2>1, <2>2
<1>4. CASE assign[c].inserts
    <2>1. c \in assign[c].holds /\ rows[c].state = "current" /\ ~ Held(c, c)
        BY <1>1, <1>4 DEF OfAssign, Holds
    <2> QED BY <1>1, <1>2, <1>3, <1>4, <2>1 DEF IsCurrent, Held
<1>5. CASE ~ assign[c].inserts
    <2>1. c \notin assign[c].holds /\ rows[c].state = "none"
        BY <1>1, <1>5 DEF OfAssign, Holds
    <2> QED BY <1>1, <1>3, <1>5, <2>1 DEF IsCurrent
<1> QED BY <1>3, <1>4, <1>5

(* A COMMIT is what the roster asks of a request that is performed: it takes  *)
(* out the rows it holds, among them all those that were in its way.         *)
LEMMA BoardPerforms ==
    ASSUME AssignmentsInv, NEW c \in Calls, Commit(c) PROVE Board!Perform(c)
<1> DEFINE S == { Line(i) : i \in { j \in assign[c].holds : j # c /\ IsCurrent(j) } }
<1>1. /\ assign[c] \in AssignCall /\ assign[c].pc = "commit" /\ OfAssign(c) /\ c \in RowIds
      /\ assign \in [Calls -> AssignCall] /\ rows' = rows /\ c \notin Olds
      /\ assign[c].holds \subseteq RowIds /\ assign[c].before \subseteq Calls
    BY AssignFields DEF Commit, AssignmentsInv
<1>2. /\ Orders[c] = Order(c) /\ Orders[c].state = "asked"
      /\ Orders[c].inserts = assign[c].inserts /\ Orders[c].before = assign[c].before
    BY <1>1 DEF Orders, Order
<1>3. \A i \in RowIds : Board!Names(Orders[c], Line(i)) <=> InScope(rows[i], c)
    BY <1>2 DEF Board!Names, Order, Line, InScope
<1>4. S \subseteq { r \in Roll : Board!Names(Orders[c], r) }
    <2> SUFFICES ASSUME NEW i \in assign[c].holds, i # c, IsCurrent(i)
                 PROVE  Line(i) \in Roll /\ Board!Names(Orders[c], Line(i))
        OBVIOUS
    <2>1. i \in RowIds /\ InScope(rows[i], c)
        BY <1>1 DEF OfAssign, Holds
    <2> QED BY <1>3, <2>1 DEF Roll
<1>5. ASSUME NEW r \in Roll, Board!Names(Orders[c], r), r.id \in Olds \cup Orders[c].before
      PROVE  r \in S
    <2>1. PICK i \in RowIds : IsCurrent(i) /\ r = Line(i)
        BY DEF Roll
    <2>2. r.id = i /\ i # c
        BY <2>1, CommitShows DEF Line
    <2>3. i \in ToClose(c)
        BY <1>2, <1>3, <1>5, <2>1, <2>2 DEF ToClose
    <2>4. ~ Gone(i)
        BY <2>1 DEF Gone, IsCurrent
    <2>5. i \in assign[c].holds
        BY <1>1, <2>3, <2>4 DEF OfAssign, OnItsWay
    <2> QED BY <2>1, <2>2, <2>5
<1>6. Line(c)' = Board!Asked(c) \/ ~ assign[c].inserts
    <2> SUFFICES ASSUME assign[c].inserts PROVE Line(c) = Board!Asked(c)
        BY <1>1 DEF Line
    <2>1. /\ rows[c].kind = assign[c].kind /\ rows[c].source = assign[c].source
          /\ rows[c].target = assign[c].target
        BY <1>1 DEF OfAssign, Holds
    <2> QED BY <1>2, <2>1 DEF Line, Board!Asked, Order
<1>7. \A i \in RowIds : Line(i)' = Line(i) /\ Line(i).id = i
    BY <1>1 DEF Line
<1>8. Roll' = (Roll \ S) \cup (IF assign[c].inserts THEN {Board!Asked(c)} ELSE {})
    <2>1. ASSUME NEW i \in RowIds, i # c, IsCurrent(i)'
          PROVE  Line(i) \in Roll \ S
        <3>1. IsCurrent(i) /\ i \notin assign[c].holds
            BY <2>1, CommitShows
        <3>2. Line(i) \notin S
            BY <1>1, <1>7, <3>1
        <3> QED BY <3>1, <3>2 DEF Roll
    <2>2. ASSUME NEW i \in RowIds, IsCurrent(i), Line(i) \notin S
          PROVE  IsCurrent(i)'
        BY <2>2, CommitShows
    <2>3. \A r : r \in Roll <=> \E i \in RowIds : IsCurrent(i) /\ r = Line(i)
        BY DEF Roll
    <2>4. \A r : r \in Roll' <=> \E i \in RowIds : IsCurrent(i)' /\ r = Line(i)
        BY <1>7 DEF Roll
    <2>5. IsCurrent(c)' <=> assign[c].inserts
        BY CommitShows
    <2>6. assign[c].inserts => Line(c) = Board!Asked(c)
        BY <1>1, <1>6, <1>7
    <2> HIDE DEF S
    <2> QED BY <1>1, <2>1, <2>2, <2>3, <2>4, <2>5, <2>6
<1>9. Orders' = [Orders EXCEPT ![c].state = "done"]
    <2> DEFINE y == [assign[c] EXCEPT !.pc = "done", !.result = "ok", !.holds = {}]
    <2>1. /\ y.pc = "done" /\ y.kind = assign[c].kind /\ y.scope = assign[c].scope
          /\ y.inserts = assign[c].inserts /\ y.source = assign[c].source
          /\ y.target = assign[c].target /\ y.before = assign[c].before
        BY <1>1 DEF AssignCall
    <2>2. assign' = [assign EXCEPT ![c] = y]
        BY DEF Commit
    <2> HIDE DEF y
    <2>3. assign'[c] = y /\ \A d \in Calls : d # c => assign'[d] = assign[d]
        BY <1>1, <2>2
    <2>4. Order(c)' = [Order(c) EXCEPT !.state = "done"]
        BY <2>1, <2>3 DEF Order
    <2> QED BY <2>3, <2>4, OrderChanges
<1> HIDE DEF S
<1> QED BY <1>2, <1>4, <1>5, <1>8, <1>9 DEF Board!Perform

(* For any number of calls and failures, what the tables hold is a Roster: a  *)
(* reader sees each request done wholly or not at all, and of what it names  *)
(* nothing that was settled before it came in is left.                       *)
THEOREM RosterTheorem == AssignmentsSpec => RosterSpec
<1>1. AssignmentsInit => Board!Init
    <2> SUFFICES ASSUME AssignmentsInit PROVE Board!Init
        OBVIOUS
    <2>1. \A c \in Calls : assign[c] = NoAssign
        BY DEF AssignmentsInit
    <2>2. ASSUME NEW c \in Calls PROVE Order(c) = Board!NoOrder("idle")
        <3>1. /\ assign[c].pc = "idle" /\ assign[c].kind = "asesor"
              /\ assign[c].scope = "pair" /\ assign[c].inserts = FALSE
              /\ assign[c].source = NoOne /\ assign[c].target = NoOne
              /\ assign[c].before = {}
            BY <2>1 DEF NoAssign
        <3> QED BY <3>1 DEF Order, Board!NoOrder
    <2>3. Orders = [c \in Calls |-> Board!NoOrder("idle")]
        BY <2>2 DEF Orders
    <2>4. \A i \in RowIds : IsCurrent(i) <=> i \in Olds
        BY <2>1 DEF AssignmentsInit, IsCurrent, NoAssign, NoAssignment
    <2>5. \A r \in Roll : \E i \in Olds : r = Line(i) /\ r.id = i
        BY <2>4 DEF Roll, Line
    <2>6. \A i \in Olds : Line(i) \in Roll /\ Line(i).id = i
        BY <2>4 DEF Roll, Line, RowIds
    <2>7. { r.id : r \in Roll } = Olds
        BY <2>5, <2>6
    <2> QED BY <2>3, <2>5, <2>7 DEF Board!Init
<1>2. AssignmentsInv /\ [AssignmentsNext]_assignmentVars => [Board!Next]_<<Roll, Orders>>
    <2> SUFFICES ASSUME AssignmentsInv, [AssignmentsNext]_assignmentVars
                 PROVE  Board!Next \/ UNCHANGED <<Roll, Orders>>
        OBVIOUS
    <2>1. CASE UNCHANGED assignmentVars
        BY <2>1 DEF assignmentVars, Roll, Line, IsCurrent, Orders, Order
    <2>2. ASSUME NEW c \in Calls, AssignFails(c) PROVE Board!Leave(c)
        BY <2>2, AssignFailsKeeps, BoardLeaves DEF AssignFails
    <2> QED BY <2>1, <2>2, BoardRequests, BoardStutters, BoardPerforms
            DEF AssignmentsNext, Board!Next
<1> QED BY <1>1, <1>2, AssignmentsInvariant, PTL DEF AssignmentsSpec, RosterSpec, Board!Spec

(***************************************************************************)
(* The three together                                                      *)
(***************************************************************************)

(* A behaviour of the back office is one of each of its parts.               *)
LEMMA OfficeParts == OfficeSpec => AccountsSpec /\ PermissionsSpec /\ AssignmentsSpec
<1>1. OfficeInit => AccountsInit /\ PermissionsInit /\ AssignmentsInit
    BY DEF OfficeInit
<1>2. [OfficeNext]_officeVars => /\ [AccountsNext]_accountVars
                                /\ [PermissionsNext]_permissionVars
                                /\ [AssignmentsNext]_assignmentVars
    BY DEF OfficeNext, officeVars
<1> QED BY <1>1, <1>2, PTL DEF OfficeSpec, AccountsSpec, PermissionsSpec, AssignmentsSpec

(* The back office, as the run has it, keeps all that is claimed of its parts. *)
THEOREM OfficeTheorem ==
    OfficeSpec => /\ [](StaleExplained /\ MembersSurvive /\ RevokedIsDenied)
                  /\ [](CurrentIsLatest /\ AdviserNotLost)
                  /\ ResetHolds /\ RosterSpec
<1> QED BY OfficeParts, StaleTheorem, MembersTheorem, RevokedTheorem, LatestTheorem,
           AdviserTheorem, ResetTheorem, RosterTheorem, PTL
=============================================================================
